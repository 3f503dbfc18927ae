--------------------------- MODULE ForkChoiceProofs ---------------------------
(***************************************************************************)
(* Proofs about ForkChoice, for any tree of blocks with any post-states,   *)
(* any clock, and any messages.                                            *)
(*                                                                         *)
(* The handlers update each checkpoint of the store on its own, from one   *)
(* state at a time, and never look back.  The invariant says that what is  *)
(* left is nevertheless the latest over everything received so far: over   *)
(* the blocks' own states, over those pulled up whose epoch is over, and,  *)
(* for the unrealized pair, over all pulled up.                            *)
(*                                                                         *)
(* The chains of blocks, the walk of get_head and the loop of on_tick are  *)
(* recursive; FoldOf says that each is defined, and what is shown of them  *)
(* is shown by induction over slots.                                       *)
(***************************************************************************)
EXTENDS ForkChoice, FiniteSetTheorems, WellFoundedInduction, TLAPS

-----------------------------------------------------------------------------
(* Induction, for the loops and recursions below. *)

(* A set of naturals with 0 and every successor has all of them.           *)
LEMMA NatSetInduction ==
  \A S : 0 \in S /\ (\A n \in Nat : n \in S => n + 1 \in S) => Nat \subseteq S
<1> SUFFICES ASSUME NEW S, 0 \in S, \A n \in Nat : n \in S => n + 1 \in S
             PROVE  Nat \subseteq S
  OBVIOUS
<1> DEFINE R == {ss \in Nat \X Nat : ss[1] < ss[2]}
           T == Nat \ S
<1> SUFFICES ASSUME T # {} PROVE FALSE
  OBVIOUS
<1>1. IsWellFoundedOn(R, Nat)
  BY NatLessThanWellFounded DEF OpToRel
<1>2. T \subseteq Nat
  OBVIOUS
<1>3. PICK x \in T : \A y \in T : <<y, x>> \notin R
  <2> HIDE DEF R, T
  <2> QED
    BY <1>1, <1>2, WFMin
<1>4. x - 1 \in Nat /\ x - 1 < x /\ (x - 1) + 1 = x
  OBVIOUS
<1>5. <<x - 1, x>> \in R
  BY <1>4
<1>6. x - 1 \in S
  BY <1>3, <1>4, <1>5
<1> QED
  BY <1>4, <1>6

CheckpointType ==
  {c \in [epoch : Nat, root : Nat] : c.epoch > AnchorCheckpoint.epoch => c.root \in Blocks}

StoreCheckpoint ==
  {c \in [epoch : Nat, root : Blocks] : c.epoch >= AnchorCheckpoint.epoch}

Store ==
  [time : Nat,
   justified_checkpoint : StoreCheckpoint,
   finalized_checkpoint : StoreCheckpoint,
   unrealized_justified_checkpoint : StoreCheckpoint,
   unrealized_finalized_checkpoint : StoreCheckpoint,
   proposer_boost_root : Blocks \cup {ZeroRoot},
   equivocating_indices : SUBSET Validators,
   blocks : SUBSET Blocks,
   block_timeliness : UNION {[S -> BOOLEAN] : S \in SUBSET Blocks},
   checkpoint_states : SUBSET StoreCheckpoints,
   latest_messages : UNION {[S -> [epoch : Nat, root : Blocks]] : S \in SUBSET Validators},
   unrealized_justifications : UNION {[S -> CheckpointType] : S \in SUBSET Blocks}]

(* c is a latest checkpoint of C. *)
Latest(c, C) == c \in C /\ \A d \in C : d.epoch <= c.epoch

(* What updating a checkpoint leaves of the old and the new one. *)
Later(c, d) == IF d.epoch > c.epoch THEN d ELSE c

LatestCheckpoints(s) ==
  /\ Latest(s.justified_checkpoint, Realized(s, JustifiedBy, JustifiedPulledUp))
  /\ Latest(s.finalized_checkpoint, Realized(s, FinalizedBy, FinalizedPulledUp))
  /\ Latest(s.unrealized_justified_checkpoint, OfBlocks(s.blocks, JustifiedPulledUp))
  /\ Latest(s.unrealized_finalized_checkpoint, OfBlocks(s.blocks, FinalizedPulledUp))

(* The maps have the entries the handlers rely on. *)
KeysMatch(s) ==
  /\ s.proposer_boost_root \in s.blocks \cup {ZeroRoot}
  /\ DOMAIN s.block_timeliness = s.blocks \ {anchor}
  /\ DOMAIN s.unrealized_justifications = s.blocks
  /\ \A i \in DOMAIN s.latest_messages : s.latest_messages[i].root \in s.blocks

(* Blocks are not of the future, and the boost is for one of this slot. *)
BlocksInTime(s) ==
  /\ \A r \in s.blocks : block[r].slot <= get_current_slot(s)
  /\ s.proposer_boost_root # ZeroRoot =>
       block[s.proposer_boost_root].slot = get_current_slot(s)

SoundStore(s) ==
  /\ s \in Store
  /\ KeysMatch(s)
  /\ BlocksInTime(s)
  /\ LatestCheckpoints(s)

ChainStep(a, up, r) == {r} \cup up
Climbing == INSTANCE FoldOf WITH op <- ChainStep

LEMMA ClimbingInducts == Climbing!NatInduction
BY NatSetInduction DEF Climbing!NatInduction

-----------------------------------------------------------------------------
(* Chains. *)

(* What the anchor has, and every block whose parent has it, all blocks    *)
(* have.                                                                   *)
LEMMA BlockInduction ==
  ASSUME NEW S, anchor \in S,
         \A r \in Blocks \ {anchor} : block[r].parent_root \in S => r \in S
  PROVE  Blocks \subseteq S
<1> DEFINE T == {n \in Nat : \A r \in Blocks : block[r].slot < n => r \in S}
<1>1. 0 \in T
  BY BlockTreeAssumption
<1>2. ASSUME NEW n \in Nat, n \in T PROVE n + 1 \in T
  <2> SUFFICES ASSUME NEW r \in Blocks, block[r].slot < n + 1 PROVE r \in S
    OBVIOUS
  <2>1. CASE r # anchor
    <3>1. /\ block[r].parent_root \in Blocks /\ block[r].slot \in Nat
          /\ block[block[r].parent_root].slot \in Nat
          /\ block[block[r].parent_root].slot < block[r].slot
      BY <2>1, BlockTreeAssumption
    <3> QED
      BY <1>2, <2>1, <3>1
  <2> QED
    BY <2>1
<1>3. Nat \subseteq T
  <2> HIDE DEF T
  <2> QED
    BY <1>1, <1>2, NatSetInduction
<1> QED
  <2> SUFFICES ASSUME NEW r \in Blocks PROVE r \in S
    OBVIOUS
  <2>1. block[r].slot \in Nat
    BY BlockTreeAssumption
  <2>2. block[r].slot + 1 \in T /\ block[r].slot < block[r].slot + 1
    BY <1>3, <2>1
  <2> QED
    BY <2>2

(* chain is defined by its recursion. *)
LEMMA ChainIs ==
  ASSUME NEW r \in Blocks
  PROVE  chain[r] = IF r = anchor THEN {anchor} ELSE {r} \cup chain[block[r].parent_root]
<1> DEFINE Up(f) == f = [x \in Blocks |->
                           IF x = anchor THEN {anchor} ELSE {x} \cup f[block[x].parent_root]]
           up == CHOOSE f : Up(f)
<1>1. Up(up)
  <2> DEFINE base == [x \in {anchor} |-> {anchor}]
             next == [x \in Blocks |-> block[x].parent_root]
             left == [x \in Blocks |-> block[x].slot]
  <2>1. \A x \in Blocks : left[x] \in Nat
    BY BlockTreeAssumption
  <2>2. \A x \in Blocks \ {anchor} : next[x] \in Blocks /\ left[next[x]] < left[x]
    BY BlockTreeAssumption
  <2>3. PICK f : Climbing!Walk(0, Blocks, {anchor}, base, next, f)
    <3> HIDE DEF base, next, left
    <3> QED
      BY <2>1, <2>2, Climbing!WalkExists, ClimbingInducts
  <2>4. Up(f)
    <3>1. f = [x \in Blocks |-> IF x \in {anchor} THEN base[x] ELSE ChainStep(0, f[next[x]], x)]
      BY <2>3 DEF Climbing!Walk
    <3> QED
      BY <3>1 DEF ChainStep
  <2> HIDE DEF Up
  <2> QED
    BY <2>4
<1>2. chain = [x \in Blocks |-> up[x]]
  BY DEF chain
<1> HIDE DEF up
<1>3. chain = up
  BY <1>1, <1>2
<1> QED
  BY <1>1, <1>3

(* A chain goes from its block down to the anchor, slot by slot. *)
LEMMA Chains ==
  ASSUME NEW r \in Blocks
  PROVE  /\ r \in chain[r] /\ anchor \in chain[r] /\ chain[r] \subseteq Blocks
         /\ \A x \in chain[r] :
              /\ chain[x] \subseteq chain[r]
              /\ block[x].slot <= block[r].slot
              /\ x # r => block[x].slot < block[r].slot
<1> DEFINE Fine(q) ==
             /\ q \in chain[q] /\ anchor \in chain[q] /\ chain[q] \subseteq Blocks
             /\ \A x \in chain[q] :
                  /\ chain[x] \subseteq chain[q]
                  /\ block[x].slot <= block[q].slot
                  /\ x # q => block[x].slot < block[q].slot
           S == {q \in Blocks : Fine(q)}
<1>1. anchor \in S
  <2>1. anchor \in Blocks /\ block[anchor].slot \in Nat
    BY BlockTreeAssumption
  <2>2. chain[anchor] = {anchor}
    BY <2>1, ChainIs
  <2> QED
    BY <2>1, <2>2
<1>2. ASSUME NEW q \in Blocks \ {anchor}, block[q].parent_root \in S PROVE q \in S
  <2> DEFINE p == block[q].parent_root
  <2>1. p \in Blocks /\ block[p].slot \in Nat /\ block[q].slot \in Nat
        /\ block[p].slot < block[q].slot
    BY BlockTreeAssumption
  <2>2. chain[q] = {q} \cup chain[p]
    BY ChainIs
  <2>3. Fine(p)
    BY <1>2
  <2> HIDE DEF p
  <2>4. \A x \in chain[p] : block[x].slot \in Nat
    BY <2>3, BlockTreeAssumption
  <2>5. q \in chain[q] /\ anchor \in chain[q] /\ chain[q] \subseteq Blocks
    BY <2>2, <2>3
  <2>6. ASSUME NEW x \in chain[q]
        PROVE  /\ chain[x] \subseteq chain[q]
               /\ block[x].slot <= block[q].slot
               /\ x # q => block[x].slot < block[q].slot
    <3>1. CASE x = q
      BY <2>1, <3>1
    <3>2. CASE x \in chain[p]
      BY <2>1, <2>2, <2>3, <2>4, <3>2
    <3> QED
      BY <2>2, <3>1, <3>2
  <2> QED
    BY <2>5, <2>6
<1>3. Blocks \subseteq S
  <2> HIDE DEF S
  <2> QED
    BY <1>1, <1>2, BlockInduction
<1> QED
  BY <1>3

(* Of two blocks of a chain one is on the chain of the other. *)
LEMMA Comparable ==
  ASSUME NEW r \in Blocks, NEW x \in chain[r], NEW y \in chain[r]
  PROVE  x \in chain[y] \/ y \in chain[x]
<1> DEFINE S == {q \in Blocks : \A v, w \in chain[q] : v \in chain[w] \/ w \in chain[v]}
<1>1. anchor \in S
  <2>1. anchor \in Blocks
    BY BlockTreeAssumption
  <2>2. chain[anchor] = {anchor}
    BY <2>1, ChainIs
  <2> QED
    BY <2>1, <2>2
<1>2. ASSUME NEW q \in Blocks \ {anchor}, block[q].parent_root \in S PROVE q \in S
  <2>1. chain[q] = {q} \cup chain[block[q].parent_root]
    BY ChainIs
  <2> QED
    BY <1>2, <2>1
<1>3. Blocks \subseteq S
  <2> HIDE DEF S
  <2> QED
    BY <1>1, <1>2, BlockInduction
<1> QED
  BY <1>3

(* Below the top of a chain every block has a child on it. *)
LEMMA NextOnChain ==
  ASSUME NEW r \in Blocks, NEW x \in chain[r], x # r
  PROVE  \E c \in chain[r] \ {anchor} : block[c].parent_root = x
<1> DEFINE S == {q \in Blocks : \A v \in chain[q] \ {q} :
                    \E c \in chain[q] \ {anchor} : block[c].parent_root = v}
<1>1. anchor \in S
  <2>1. anchor \in Blocks
    BY BlockTreeAssumption
  <2>2. chain[anchor] = {anchor}
    BY <2>1, ChainIs
  <2> QED
    BY <2>1, <2>2
<1>2. ASSUME NEW q \in Blocks \ {anchor}, block[q].parent_root \in S PROVE q \in S
  <2>1. chain[q] = {q} \cup chain[block[q].parent_root]
    BY ChainIs
  <2> QED
    BY <1>2, <2>1
<1>3. Blocks \subseteq S
  <2> HIDE DEF S
  <2> QED
    BY <1>1, <1>2, BlockInduction
<1> QED
  BY <1>3

(* It has only one. *)
LEMMA OneNextOnChain ==
  ASSUME NEW r \in Blocks, NEW c \in chain[r] \ {anchor}, NEW d \in chain[r] \ {anchor},
         block[c].parent_root = block[d].parent_root
  PROVE  c = d
<1> DEFINE p == block[c].parent_root
<1>1. /\ c \in Blocks /\ d \in Blocks /\ p \in Blocks
      /\ {block[c].slot, block[d].slot, block[p].slot} \subseteq Nat
      /\ block[p].slot < block[c].slot /\ block[p].slot < block[d].slot
  BY Chains, BlockTreeAssumption
<1>2. /\ chain[c] = {c} \cup chain[p] /\ chain[d] = {d} \cup chain[p]
      /\ \A x \in chain[p] : block[x].slot <= block[p].slot
  BY <1>1, ChainIs, Chains
<1>3. c \in chain[d] \/ d \in chain[c]
  BY Comparable
<1> HIDE DEF p
<1> QED
  BY <1>1, <1>2, <1>3

(* Whatever is bounded has a greatest. *)
LEMMA GreatestOf ==
  ASSUME NEW T, T # {}, NEW f, NEW n \in Nat, \A x \in T : f[x] \in 0..n
  PROVE  \E x \in T : \A y \in T : f[y] <= f[x]
<1> SUFFICES ASSUME \A x \in T : \E y \in T : f[y] > f[x]
             PROVE  FALSE
  OBVIOUS
<1> DEFINE S == {k \in Nat : \E x \in T : f[x] >= k}
<1>1. 0 \in S
  OBVIOUS
<1>2. ASSUME NEW k \in Nat, k \in S PROVE k + 1 \in S
  <2>1. PICK x \in T : f[x] >= k
    BY <1>2
  <2>2. PICK y \in T : f[y] > f[x]
    BY <2>1
  <2>3. f[y] >= k + 1
    BY <2>1, <2>2
  <2> QED
    BY <2>3
<1>3. Nat \subseteq S
  <2> HIDE DEF S
  <2> QED
    BY <1>1, <1>2, NatSetInduction
<1>4. n + 1 \in S
  BY <1>3
<1> QED
  BY <1>4

(* The last block of a chain at or before a slot. *)
LEMMA Ancestor ==
  ASSUME NEW r \in Blocks, NEW n \in Nat, NEW a, a = get_ancestor(r, n), a \in Blocks
  PROVE  /\ a \in chain[r] /\ block[a].slot <= n
         /\ \A y \in chain[r] : block[y].slot <= n => y \in chain[a]
<1> DEFINE T == {x \in chain[r] : block[x].slot <= n}
           f == [x \in T |-> block[x].slot]
<1>1. T # {} /\ a = CHOOSE x \in T : \A y \in T : block[y].slot <= block[x].slot
  BY BlockTreeAssumption DEF get_ancestor
<1>2. ASSUME NEW x \in T PROVE f[x] \in 0..n
  <2>1. x \in Blocks /\ block[x].slot <= n /\ f[x] = block[x].slot
    BY Chains
  <2>2. block[x].slot \in Nat
    BY <2>1, BlockTreeAssumption
  <2> QED
    BY <2>1, <2>2
<1>3. \E x \in T : \A y \in T : f[y] <= f[x]
  <2> HIDE DEF T, f
  <2> QED
    BY <1>1, <1>2, GreatestOf
<1>4. a \in T /\ \A y \in T : block[y].slot <= block[a].slot
  <2>1. \E x \in T : \A y \in T : block[y].slot <= block[x].slot
    BY <1>3
  <2> HIDE DEF T
  <2> QED
    BY <1>1, <2>1
<1>5. ASSUME NEW y \in T PROVE y \in chain[a]
  <2>1. y \in chain[a] \/ a \in chain[y]
    BY <1>4, Comparable
  <2>2. CASE a \in chain[y] /\ a # y
    <3>1. y \in Blocks /\ block[a].slot < block[y].slot
      BY <2>2, Chains
    <3>2. block[y].slot \in Nat /\ block[a].slot \in Nat /\ block[y].slot <= block[a].slot
      BY <1>4, <3>1, BlockTreeAssumption
    <3> QED
      BY <3>1, <3>2
  <2> QED
    BY <2>1, <2>2, Chains
<1> QED
  BY <1>4, <1>5

(* Of the blocks at or before a slot, a chain has those that a later block *)
(* of it has.                                                              *)
LEMMA SameAncestor ==
  ASSUME NEW l \in Blocks, NEW r \in chain[l], NEW n \in Nat, n <= block[r].slot
  PROVE  get_ancestor(l, n) = get_ancestor(r, n)
<1>1. r \in Blocks /\ chain[r] \subseteq chain[l] /\ chain[l] \subseteq Blocks
  BY Chains
<1>2. ASSUME NEW x \in chain[l], block[x].slot <= n PROVE x \in chain[r]
  <2>1. x \in chain[r] \/ r \in chain[x]
    BY Comparable
  <2>2. CASE r \in chain[x] /\ r # x
    <3>1. x \in Blocks /\ block[r].slot < block[x].slot
      BY <1>1, <2>2, Chains
    <3>2. block[r].slot \in Nat /\ block[x].slot \in Nat
      BY <1>1, <3>1, BlockTreeAssumption
    <3> QED
      BY <1>2, <3>1, <3>2
  <2> QED
    BY <1>1, <2>1, <2>2, Chains
<1> DEFINE Before(c) == {x \in c : block[x].slot <= n}
           Last(T) == IF T = {} THEN ZeroRoot
                      ELSE CHOOSE x \in T : \A y \in T : block[y].slot <= block[x].slot
<1>3. Before(chain[l]) = Before(chain[r])
  BY <1>1, <1>2
<1>4. /\ get_ancestor(l, n) = Last(Before(chain[l]))
      /\ get_ancestor(r, n) = Last(Before(chain[r]))
  BY DEF get_ancestor
<1> HIDE DEF Before, Last
<1> QED
  BY <1>3, <1>4

-----------------------------------------------------------------------------
(* Slots and epochs are in the order of time. *)
LEMMA DivisionMonotone ==
  ASSUME NEW n \in Nat \ {0}
  PROVE  /\ \A a \in Nat : a \div n \in Nat
         /\ \A a, b \in Nat : a <= b => a \div n <= b \div n
         /\ \A a \in Nat : (a * n) \div n = a
<1>1. ASSUME NEW a \in Nat
      PROVE  a \div n \in Nat /\ a = n * (a \div n) + (a % n) /\ a % n \in 0..(n - 1)
  BY SMTT(30)
<1>2. ASSUME NEW a \in Nat, NEW b \in Nat, a <= b
      PROVE  a \div n <= b \div n
  <2> DEFINE p == a \div n
             q == b \div n
  <2>1. p \in Nat /\ q \in Nat /\ a >= n * p /\ b < n * q + n
    BY <1>1, SMTT(30)
  <2> HIDE DEF p, q
  <2>2. SUFFICES ASSUME p > q PROVE FALSE
    BY <2>1 DEF p, q
  <2>3. p >= q + 1
    BY <2>1, <2>2
  <2>4. n * p >= n * q + n
    BY <2>1, <2>3, SMTT(30)
  <2> QED
    BY <2>1, <2>4, <1>2, SMTT(30)
<1>3. ASSUME NEW a \in Nat
      PROVE  (a * n) \div n = a
  BY SMTT(30)
<1> QED
  BY <1>1, <1>2, <1>3

SlotOf(time) == time \div SECONDS_PER_SLOT
EpochOf(time) == SlotOf(time) \div SLOTS_PER_EPOCH

LEMMA Clock ==
  /\ \A a \in Nat : SlotOf(a) \in Nat /\ EpochOf(a) \in Nat
  /\ \A a, b \in Nat : a <= b => SlotOf(a) <= SlotOf(b) /\ EpochOf(a) <= EpochOf(b)
  /\ \A slot \in Nat : compute_epoch_at_slot(slot) \in Nat
  /\ \A a, b \in Nat : a <= b => compute_epoch_at_slot(a) <= compute_epoch_at_slot(b)
  /\ \A slot \in Nat : SlotOf(SECONDS_PER_SLOT * slot) = slot
<1>1. SECONDS_PER_SLOT \in Nat \ {0} /\ SLOTS_PER_EPOCH \in Nat \ {0}
  BY ConfigAssumption, BlockTreeAssumption
<1>2. /\ \A a \in Nat : a \div SECONDS_PER_SLOT \in Nat
      /\ \A a, b \in Nat : a <= b => a \div SECONDS_PER_SLOT <= b \div SECONDS_PER_SLOT
      /\ \A a \in Nat : (a * SECONDS_PER_SLOT) \div SECONDS_PER_SLOT = a
  BY <1>1, DivisionMonotone
<1>3. /\ \A a \in Nat : a \div SLOTS_PER_EPOCH \in Nat
      /\ \A a, b \in Nat : a <= b => a \div SLOTS_PER_EPOCH <= b \div SLOTS_PER_EPOCH
  BY <1>1, DivisionMonotone
<1>4. \A a \in Nat : SECONDS_PER_SLOT * a = a * SECONDS_PER_SLOT
  BY <1>1
<1> QED
  BY <1>2, <1>3, <1>4, Zenon DEF SlotOf, EpochOf, compute_epoch_at_slot

(* The clock of a store. *)
LEMMA StoreClock ==
  ASSUME NEW s, s.time \in Nat
  PROVE  /\ get_current_slot(s) = SlotOf(s.time)
         /\ get_current_store_epoch(s) = EpochOf(s.time)
<1>1. s.time - 0 = s.time
  OBVIOUS
<1> QED
  BY <1>1 DEF get_current_slot, get_current_store_epoch, compute_epoch_at_slot,
              genesis_time, SlotOf, EpochOf

(* Blocks have slots and epochs, and their states have checkpoints. *)
LEMMA BlockFacts ==
  /\ AnchorCheckpoint \in StoreCheckpoint
  /\ AnchorCheckpoint \in CheckpointType
  /\ ZeroRoot \notin Blocks
  /\ \A r \in Blocks :
       /\ r \in Nat /\ block[r].slot \in Nat /\ block_epoch(r) \in Nat
       /\ JustifiedBy[r] \in CheckpointType
       /\ FinalizedBy[r] \in CheckpointType
       /\ JustifiedPulledUp[r] \in CheckpointType
       /\ FinalizedPulledUp[r] \in CheckpointType
<1>1. anchor \in Blocks /\ Blocks \subseteq Nat \ {ZeroRoot}
  BY BlockTreeAssumption
<1>2. \A r \in Blocks : block[r].slot \in Nat /\ block_epoch(r) \in Nat
  BY BlockTreeAssumption, Clock DEF block_epoch
<1>3. /\ AnchorCheckpoint \in [epoch : Nat, root : Blocks]
      /\ AnchorCheckpoint \in [epoch : Nat, root : Nat]
      /\ AnchorCheckpoint.epoch \in Nat
  BY <1>1, <1>2 DEF AnchorCheckpoint, Checkpoint
<1>4. AnchorCheckpoint \in StoreCheckpoint /\ AnchorCheckpoint \in CheckpointType
  BY <1>3 DEF CheckpointType, StoreCheckpoint
<1>5. ASSUME NEW r \in Blocks
      PROVE  /\ JustifiedBy[r] \in CheckpointType
             /\ FinalizedBy[r] \in CheckpointType
             /\ JustifiedPulledUp[r] \in CheckpointType
             /\ FinalizedPulledUp[r] \in CheckpointType
  <2>1. \A c \in CheckpointsOf(r) :
          /\ c \in [epoch : Nat, root : Nat]
          /\ c.epoch > AnchorCheckpoint.epoch => c.root \in Blocks
    BY StatesAssumption
  <2>2. CheckpointsOf(r) \subseteq CheckpointType
    BY <2>1 DEF CheckpointType
  <2> QED
    BY <2>2 DEF CheckpointsOf
<1> QED
  BY <1>1, <1>2, <1>4, <1>5

-----------------------------------------------------------------------------
(* The later of two latest checkpoints is a latest one of both sets. *)
LEMMA LaterIsLatest ==
  ASSUME NEW C, NEW D, NEW E, E = C \cup D,
         \A x \in E : x.epoch \in Nat,
         NEW c, NEW d, Latest(c, C), Latest(d, D)
  PROVE  Latest(Later(c, d), E)
BY DEF Latest, Later

LEMMA LaterIsTyped ==
  ASSUME NEW c \in StoreCheckpoint, NEW d \in CheckpointType
  PROVE  Later(c, d) \in StoreCheckpoint
BY BlockFacts DEF Later, StoreCheckpoint, CheckpointType

LEMMA StoreCheckpointIsTyped == StoreCheckpoint \subseteq CheckpointType
BY BlockTreeAssumption DEF StoreCheckpoint, CheckpointType

(* Tables of checkpoints, and what blocks contribute through them. *)
Table == [Blocks -> CheckpointType]

LEMMA Tables ==
  {JustifiedBy, FinalizedBy, JustifiedPulledUp, FinalizedPulledUp} \subseteq Table
BY BlockFacts DEF Table, JustifiedBy, FinalizedBy, JustifiedPulledUp, FinalizedPulledUp

LEMMA EpochsAreNumbers ==
  ASSUME NEW S \in SUBSET Blocks, NEW by \in Table, NEW x \in OfBlocks(S, by)
  PROVE  x.epoch \in Nat
BY BlockFacts DEF OfBlocks, Table, CheckpointType

(* The latest epoch of a set is that of its latest checkpoint. *)
LEMMA LatestEpochIs ==
  ASSUME NEW C, \A x \in C : x.epoch \in Nat, NEW c, Latest(c, C)
  PROVE  c.epoch = LatestEpoch(C)
<1> DEFINE E == {x.epoch : x \in C}
<1>1. c.epoch \in E /\ \A e \in E : c.epoch >= e
  BY DEF Latest
<1>2. \A e \in E : e \in Nat
  OBVIOUS
<1>3. ASSUME NEW e \in E, \A y \in E : e >= y
      PROVE  e = c.epoch
  <2>1. e >= c.epoch /\ c.epoch >= e
    BY <1>1, <1>3
  <2>2. e \in Nat /\ c.epoch \in Nat
    BY <1>1, <1>2
  <2> QED
    BY <2>1, <2>2
<1>4. Max(E) \in E /\ \A y \in E : Max(E) >= y
  BY <1>1 DEF Max
<1> QED
  BY <1>3, <1>4 DEF LatestEpoch

-----------------------------------------------------------------------------
(* What the updates do to the fields of a store. *)

(* t is a store that differs from s at most in the named fields. *)
DiffersIn(t, s, fields) ==
  /\ t \in Store
  /\ \A x \in DOMAIN s \ fields : t[x] = s[x]

Realizing == {"justified_checkpoint", "finalized_checkpoint"}
Unrealizing == {"unrealized_justified_checkpoint", "unrealized_finalized_checkpoint"}

LEMMA CheckpointsUpdated ==
  ASSUME NEW s \in Store, NEW j \in CheckpointType, NEW f \in CheckpointType,
         NEW t, t = update_checkpoints(s, j, f)
  PROVE  /\ DiffersIn(t, s, Realizing)
         /\ t.justified_checkpoint = Later(s.justified_checkpoint, j)
         /\ t.finalized_checkpoint = Later(s.finalized_checkpoint, f)
<1>1. s.justified_checkpoint \in StoreCheckpoint /\ s.finalized_checkpoint \in StoreCheckpoint
  BY DEF Store
<1>2. /\ Later(s.justified_checkpoint, j) \in StoreCheckpoint
      /\ Later(s.finalized_checkpoint, f) \in StoreCheckpoint
  BY <1>1, LaterIsTyped
<1>3. t = [s EXCEPT !.justified_checkpoint = Later(s.justified_checkpoint, j),
                    !.finalized_checkpoint = Later(s.finalized_checkpoint, f)]
  BY DEF update_checkpoints, Later, Store
<1>4. t \in Store
  BY <1>2, <1>3 DEF Store
<1> QED
  BY <1>3, <1>4 DEF DiffersIn, Realizing, Store

LEMMA UnrealizedUpdated ==
  ASSUME NEW s \in Store, NEW j \in CheckpointType, NEW f \in CheckpointType,
         NEW t, t = update_unrealized_checkpoints(s, j, f)
  PROVE  /\ DiffersIn(t, s, Unrealizing)
         /\ t.unrealized_justified_checkpoint = Later(s.unrealized_justified_checkpoint, j)
         /\ t.unrealized_finalized_checkpoint = Later(s.unrealized_finalized_checkpoint, f)
<1>1. /\ s.unrealized_justified_checkpoint \in StoreCheckpoint
      /\ s.unrealized_finalized_checkpoint \in StoreCheckpoint
  BY DEF Store
<1>2. /\ Later(s.unrealized_justified_checkpoint, j) \in StoreCheckpoint
      /\ Later(s.unrealized_finalized_checkpoint, f) \in StoreCheckpoint
  BY <1>1, LaterIsTyped
<1>3. t = [s EXCEPT
             !.unrealized_justified_checkpoint = Later(s.unrealized_justified_checkpoint, j),
             !.unrealized_finalized_checkpoint = Later(s.unrealized_finalized_checkpoint, f)]
  BY DEF update_unrealized_checkpoints, Later, Store
<1>4. t \in Store
  BY <1>2, <1>3 DEF Store
<1> QED
  BY <1>3, <1>4 DEF DiffersIn, Unrealizing, Store

(* on_tick: the clock, the boost and, when an epoch began, the checkpoints. *)
LEMMA Ticked ==
  ASSUME NEW s \in Store, NEW time \in Nat, NEW t, t = on_tick(s, time)
  PROVE  /\ DiffersIn(t, s, Realizing \cup {"time", "proposer_boost_root"})
         /\ t.time = time
         /\ t.proposer_boost_root = IF SlotOf(time) > SlotOf(s.time)
                                    THEN ZeroRoot ELSE s.proposer_boost_root
         /\ IF EpochOf(time) > EpochOf(s.time)
            THEN /\ t.justified_checkpoint =
                      Later(s.justified_checkpoint, s.unrealized_justified_checkpoint)
                 /\ t.finalized_checkpoint =
                      Later(s.finalized_checkpoint, s.unrealized_finalized_checkpoint)
            ELSE /\ t.justified_checkpoint = s.justified_checkpoint
                 /\ t.finalized_checkpoint = s.finalized_checkpoint
<1> DEFINE ticked == [s EXCEPT !.time = time]
           u == IF SlotOf(time) > SlotOf(s.time)
                THEN [ticked EXCEPT !.proposer_boost_root = ZeroRoot] ELSE ticked
<1>1. s.time \in Nat /\ ticked.time = time
  BY DEF Store
<1>2. /\ get_current_slot(ticked) = SlotOf(time)
      /\ get_current_slot(s) = SlotOf(s.time)
      /\ get_current_store_epoch(ticked) = EpochOf(time)
      /\ get_current_store_epoch(s) = EpochOf(s.time)
  BY <1>1, StoreClock
<1>3. /\ DiffersIn(u, s, {"time", "proposer_boost_root"})
      /\ u.time = time
      /\ u.proposer_boost_root = IF SlotOf(time) > SlotOf(s.time)
                                 THEN ZeroRoot ELSE s.proposer_boost_root
      /\ u.justified_checkpoint = s.justified_checkpoint
      /\ u.finalized_checkpoint = s.finalized_checkpoint
  BY DEF DiffersIn, Store
<1>4. t = IF EpochOf(time) > EpochOf(s.time)
          THEN update_checkpoints(u, s.unrealized_justified_checkpoint,
                                  s.unrealized_finalized_checkpoint)
          ELSE u
  BY <1>2 DEF on_tick
<1> HIDE DEF u, ticked
<1>5. u \in Store /\ DOMAIN u = DOMAIN s
  BY <1>3 DEF DiffersIn, Store
<1>6. /\ s.unrealized_justified_checkpoint \in CheckpointType
      /\ s.unrealized_finalized_checkpoint \in CheckpointType
  BY StoreCheckpointIsTyped DEF Store
<1>7. CASE EpochOf(time) > EpochOf(s.time)
  <2>1. /\ DiffersIn(t, u, Realizing)
        /\ t.justified_checkpoint =
             Later(s.justified_checkpoint, s.unrealized_justified_checkpoint)
        /\ t.finalized_checkpoint =
             Later(s.finalized_checkpoint, s.unrealized_finalized_checkpoint)
    BY <1>3, <1>4, <1>5, <1>6, <1>7, CheckpointsUpdated
  <2>2. t.time = u.time /\ t.proposer_boost_root = u.proposer_boost_root
    BY <2>1, <1>5 DEF DiffersIn, Realizing, Store
  <2> QED
    BY <2>1, <2>2, <1>3, <1>5, <1>7 DEF DiffersIn
<1>8. CASE ~ EpochOf(time) > EpochOf(s.time)
  BY <1>3, <1>4, <1>8 DEF DiffersIn
<1> QED
  BY <1>7, <1>8

(* The same as a relation between the stores. *)
TickedTo(s, time, t) ==
  /\ DiffersIn(t, s, Realizing \cup {"time", "proposer_boost_root"})
  /\ t.time = time
  /\ t.proposer_boost_root = IF SlotOf(time) > SlotOf(s.time)
                             THEN ZeroRoot ELSE s.proposer_boost_root
  /\ IF EpochOf(time) > EpochOf(s.time)
     THEN /\ t.justified_checkpoint =
               Later(s.justified_checkpoint, s.unrealized_justified_checkpoint)
          /\ t.finalized_checkpoint =
               Later(s.finalized_checkpoint, s.unrealized_finalized_checkpoint)
     ELSE /\ t.justified_checkpoint = s.justified_checkpoint
          /\ t.finalized_checkpoint = s.finalized_checkpoint

LEMMA Ticks ==
  ASSUME NEW s \in Store, NEW time \in Nat, NEW t, t = on_tick(s, time)
  PROVE  TickedTo(s, time, t)
  BY Ticked DEF TickedTo

(* A tick keeps a store sound.  The blocks received so far are not of the  *)
(* future, so when the epoch changes all of them are of past epochs.       *)
LEMMA RealizedLater ==
  ASSUME NEW s \in Store, NEW t, t.blocks = s.blocks,
         NEW by, NEW pulled_up,
         get_current_store_epoch(t) \in Nat,
         \A r \in s.blocks : block_epoch(r) < get_current_store_epoch(t)
  PROVE  Realized(t, by, pulled_up) = OfBlocks(s.blocks, by) \cup OfBlocks(s.blocks, pulled_up)
BY DEF Realized, BlocksOfPastEpochs

LEMMA TickIsSound ==
  ASSUME NEW s, SoundStore(s), NEW time \in Nat, time > s.time
  PROVE  SoundStore(on_tick(s, time))
<1> DEFINE t == on_tick(s, time)
<1>1. s \in Store /\ KeysMatch(s) /\ BlocksInTime(s) /\ LatestCheckpoints(s)
  BY DEF SoundStore
<1> HIDE DEF t
<1>0. TickedTo(s, time, t)
  BY <1>1, Ticks DEF t
<1>2. /\ DiffersIn(t, s, Realizing \cup {"time", "proposer_boost_root"})
      /\ t.time = time
      /\ t.proposer_boost_root = IF SlotOf(time) > SlotOf(s.time)
                                 THEN ZeroRoot ELSE s.proposer_boost_root
      /\ IF EpochOf(time) > EpochOf(s.time)
         THEN /\ t.justified_checkpoint =
                   Later(s.justified_checkpoint, s.unrealized_justified_checkpoint)
              /\ t.finalized_checkpoint =
                   Later(s.finalized_checkpoint, s.unrealized_finalized_checkpoint)
         ELSE /\ t.justified_checkpoint = s.justified_checkpoint
              /\ t.finalized_checkpoint = s.finalized_checkpoint
  BY <1>0 DEF TickedTo
<1>3. /\ t \in Store
      /\ t.blocks = s.blocks
      /\ t.block_timeliness = s.block_timeliness
      /\ t.latest_messages = s.latest_messages
      /\ t.unrealized_justifications = s.unrealized_justifications
      /\ t.unrealized_justified_checkpoint = s.unrealized_justified_checkpoint
      /\ t.unrealized_finalized_checkpoint = s.unrealized_finalized_checkpoint
  BY <1>1, <1>2 DEF DiffersIn, Realizing, Store
<1>4. /\ s.time \in Nat /\ time \in Nat
      /\ SlotOf(s.time) \in Nat /\ SlotOf(time) \in Nat /\ SlotOf(s.time) <= SlotOf(time)
      /\ EpochOf(s.time) \in Nat /\ EpochOf(time) \in Nat /\ EpochOf(s.time) <= EpochOf(time)
  <2>1. s.time \in Nat /\ s.time <= time
    BY <1>1 DEF Store
  <2> QED
    BY <2>1, Clock
<1>5. /\ get_current_slot(s) = SlotOf(s.time) /\ get_current_slot(t) = SlotOf(time)
      /\ get_current_store_epoch(s) = EpochOf(s.time)
      /\ get_current_store_epoch(t) = EpochOf(time)
  BY <1>2, <1>4, StoreClock
<1>6. KeysMatch(t)
  BY <1>1, <1>2, <1>3 DEF KeysMatch
<1>7. BlocksInTime(t)
  <2>1. \A r \in t.blocks : block[r].slot <= SlotOf(time)
    <3> SUFFICES ASSUME NEW r \in s.blocks PROVE block[r].slot <= SlotOf(time)
      BY <1>3
    <3>1. block[r].slot <= SlotOf(s.time) /\ block[r].slot \in Nat
      BY <1>1, <1>5, BlockFacts DEF BlocksInTime, Store
    <3> QED
      BY <3>1, <1>4
  <2>2. ASSUME t.proposer_boost_root # ZeroRoot
        PROVE  block[t.proposer_boost_root].slot = SlotOf(time)
    <3>1. t.proposer_boost_root = s.proposer_boost_root /\ SlotOf(time) = SlotOf(s.time)
      BY <2>2, <1>2, <1>4
    <3> QED
      BY <3>1, <2>2, <1>1, <1>5 DEF BlocksInTime
  <2> QED
    BY <2>1, <2>2, <1>5 DEF BlocksInTime
<1>8. LatestCheckpoints(t)
  <2>1. s.blocks \in SUBSET Blocks
    BY <1>1 DEF Store
  <2>2. CASE EpochOf(time) > EpochOf(s.time)
    <3>1. \A r \in s.blocks : block_epoch(r) < get_current_store_epoch(t)
      <4> SUFFICES ASSUME NEW r \in s.blocks PROVE block_epoch(r) < EpochOf(time)
        BY <1>5
      <4>1. block[r].slot <= SlotOf(s.time) /\ block[r].slot \in Nat
        BY <1>1, <1>5, <2>1, BlockFacts DEF BlocksInTime
      <4>2. block_epoch(r) <= EpochOf(s.time) /\ block_epoch(r) \in Nat
        BY <4>1, <1>4, <2>1, Clock, BlockFacts DEF block_epoch, EpochOf, compute_epoch_at_slot
      <4> QED
        BY <4>2, <2>2, <1>4
    <3>2. ASSUME NEW by \in Table, NEW pulled_up \in Table,
                 NEW c, Latest(c, Realized(s, by, pulled_up)),
                 NEW d, Latest(d, OfBlocks(s.blocks, pulled_up))
          PROVE  Latest(Later(c, d), Realized(t, by, pulled_up))
      <4>1. Realized(t, by, pulled_up) = OfBlocks(s.blocks, by) \cup OfBlocks(s.blocks, pulled_up)
        BY <3>1, <1>1, <1>3, <1>4, <1>5, RealizedLater
      <4>2. Realized(t, by, pulled_up) =
              Realized(s, by, pulled_up) \cup OfBlocks(s.blocks, pulled_up)
        BY <4>1 DEF Realized, BlocksOfPastEpochs, OfBlocks
      <4>3. \A x \in Realized(t, by, pulled_up) : x.epoch \in Nat
        BY <4>1, <2>1, EpochsAreNumbers
      <4> QED
        BY <4>2, <4>3, <3>2, LaterIsLatest
    <3> QED
      BY <3>2, <2>2, <1>1, <1>2, <1>3, Tables DEF LatestCheckpoints
  <2>3. CASE ~ EpochOf(time) > EpochOf(s.time)
    <3>1. EpochOf(time) = EpochOf(s.time)
      BY <2>3, <1>4
    <3>2. \A by, pulled_up : Realized(t, by, pulled_up) = Realized(s, by, pulled_up)
      BY <3>1, <1>3, <1>5 DEF Realized, BlocksOfPastEpochs
    <3> QED
      BY <3>2, <2>3, <1>1, <1>2, <1>3 DEF LatestCheckpoints
  <2> QED
    BY <2>2, <2>3
<1> QED
  BY <1>3, <1>6, <1>7, <1>8 DEF SoundStore, t

-----------------------------------------------------------------------------
(* on_block: the block enters the maps, and each checkpoint takes up what  *)
(* the block's states say.                                                 *)
IsPast(s, r) == block_epoch(r) < EpochOf(s.time)

LEMMA BlockReceived ==
  ASSUME NEW s \in Store, NEW r \in Blocks, NEW t, t = on_block(s, r)
  PROVE  /\ t \in Store
         /\ t.time = s.time
         /\ t.blocks = s.blocks \cup {r}
         /\ DOMAIN t.block_timeliness = DOMAIN s.block_timeliness \cup {r}
         /\ t.proposer_boost_root = boost_root_after(s, r)
         /\ t.latest_messages = s.latest_messages
         /\ t.equivocating_indices = s.equivocating_indices
         /\ t.checkpoint_states = s.checkpoint_states
         /\ DOMAIN t.unrealized_justifications = DOMAIN s.unrealized_justifications \cup {r}
         /\ \A x \in DOMAIN s.unrealized_justifications \cup {r} :
              t.unrealized_justifications[x] =
                IF x = r THEN JustifiedPulledUp[r] ELSE s.unrealized_justifications[x]
         /\ t.unrealized_justified_checkpoint =
              Later(s.unrealized_justified_checkpoint, JustifiedPulledUp[r])
         /\ t.unrealized_finalized_checkpoint =
              Later(s.unrealized_finalized_checkpoint, FinalizedPulledUp[r])
         /\ t.justified_checkpoint =
              IF IsPast(s, r)
              THEN Later(Later(s.justified_checkpoint, JustifiedBy[r]), JustifiedPulledUp[r])
              ELSE Later(s.justified_checkpoint, JustifiedBy[r])
         /\ t.finalized_checkpoint =
              IF IsPast(s, r)
              THEN Later(Later(s.finalized_checkpoint, FinalizedBy[r]), FinalizedPulledUp[r])
              ELSE Later(s.finalized_checkpoint, FinalizedBy[r])
<1> DEFINE timely == [x \in DOMAIN s.block_timeliness \cup {r} |->
                        IF x = r THEN is_timely(s, r) ELSE s.block_timeliness[x]]
           a == [s EXCEPT !.blocks = s.blocks \cup {r},
                          !.block_timeliness = timely,
                          !.proposer_boost_root = boost_root_after(s, r)]
           u == update_checkpoints(a, JustifiedBy[r], FinalizedBy[r])
           justifications == [x \in DOMAIN u.unrealized_justifications \cup {r} |->
                                IF x = r THEN JustifiedPulledUp[r]
                                ELSE u.unrealized_justifications[x]]
           v == [u EXCEPT !.unrealized_justifications = justifications]
           w == update_unrealized_checkpoints(v, JustifiedPulledUp[r], FinalizedPulledUp[r])
<1>1. /\ JustifiedBy[r] = PostState[r].current_justified_checkpoint
      /\ FinalizedBy[r] = PostState[r].finalized_checkpoint
      /\ JustifiedPulledUp[r] = PulledUpState[r].current_justified_checkpoint
      /\ FinalizedPulledUp[r] = PulledUpState[r].finalized_checkpoint
  BY DEF JustifiedBy, FinalizedBy, JustifiedPulledUp, FinalizedPulledUp
<1>2. /\ JustifiedBy[r] \in CheckpointType /\ FinalizedBy[r] \in CheckpointType
      /\ JustifiedPulledUp[r] \in CheckpointType /\ FinalizedPulledUp[r] \in CheckpointType
  BY BlockFacts
<1>3. t = IF block_epoch(r) < get_current_store_epoch(u)
          THEN update_checkpoints(w, JustifiedPulledUp[r], FinalizedPulledUp[r])
          ELSE w
  <2>1. a = [s EXCEPT !.blocks = @ \cup {r},
                      !.block_timeliness = [x \in DOMAIN @ \cup {r} |->
                                              IF x = r THEN is_timely(s, r) ELSE @[x]],
                      !.proposer_boost_root = boost_root_after(s, r)]
    OBVIOUS
  <2>2. v = [u EXCEPT !.unrealized_justifications =
               [x \in DOMAIN @ \cup {r} |-> IF x = r THEN JustifiedPulledUp[r] ELSE @[x]]]
    OBVIOUS
  <2> HIDE DEF a
  <2>3. t = compute_pulled_up_tip(u, r)
    BY <1>1, <2>1, Zenon DEF on_block
  <2> HIDE DEF u, v
  <2> QED
    BY <1>1, <2>2, <2>3, Zenon DEF compute_pulled_up_tip
<1>4. timely \in UNION {[S -> BOOLEAN] : S \in SUBSET Blocks}
  <2>1. PICK S \in SUBSET Blocks : s.block_timeliness \in [S -> BOOLEAN]
    BY DEF Store
  <2>2. is_timely(s, r) \in BOOLEAN
    BY DEF is_timely
  <2>3. timely \in [S \cup {r} -> BOOLEAN]
    BY <2>1, <2>2
  <2> QED
    BY <2>3
<1>5. boost_root_after(s, r) \in Blocks \cup {ZeroRoot}
  BY DEF boost_root_after, Store
<1>6. DiffersIn(a, s, {"blocks", "block_timeliness", "proposer_boost_root"})
  <2> HIDE DEF timely
  <2>1. a \in Store
    BY <1>4, <1>5 DEF Store
  <2> QED
    BY <2>1 DEF DiffersIn, Store
<1>7. /\ a.blocks = s.blocks \cup {r}
      /\ DOMAIN a.block_timeliness = DOMAIN s.block_timeliness \cup {r}
      /\ a.proposer_boost_root = boost_root_after(s, r)
  BY DEF Store
<1>8. a \in Store /\ DOMAIN a = DOMAIN s
  BY <1>6 DEF DiffersIn, Store
<1> HIDE DEF a
<1>9. /\ DiffersIn(u, a, Realizing)
      /\ u.justified_checkpoint = Later(a.justified_checkpoint, JustifiedBy[r])
      /\ u.finalized_checkpoint = Later(a.finalized_checkpoint, FinalizedBy[r])
  BY <1>2, <1>8, CheckpointsUpdated
<1> HIDE DEF u
<1>10. u \in Store
  BY <1>9 DEF DiffersIn
<1>11. justifications \in UNION {[S -> CheckpointType] : S \in SUBSET Blocks}
  <2>1. PICK S \in SUBSET Blocks : u.unrealized_justifications \in [S -> CheckpointType]
    BY <1>10 DEF Store
  <2>2. justifications \in [S \cup {r} -> CheckpointType]
    BY <2>1, <1>2
  <2> QED
    BY <2>2
<1>12. /\ DiffersIn(v, u, {"unrealized_justifications"})
       /\ DOMAIN v.unrealized_justifications = DOMAIN u.unrealized_justifications \cup {r}
       /\ \A x \in DOMAIN u.unrealized_justifications \cup {r} :
            v.unrealized_justifications[x] =
              IF x = r THEN JustifiedPulledUp[r] ELSE u.unrealized_justifications[x]
  <2>1. v.unrealized_justifications = justifications
    BY <1>10 DEF Store
  <2>2. /\ DOMAIN justifications = DOMAIN u.unrealized_justifications \cup {r}
        /\ \A x \in DOMAIN u.unrealized_justifications \cup {r} :
             justifications[x] =
               IF x = r THEN JustifiedPulledUp[r] ELSE u.unrealized_justifications[x]
    OBVIOUS
  <2> HIDE DEF justifications
  <2>3. v \in Store
    BY <1>10, <1>11 DEF Store
  <2> QED
    BY <1>10, <2>1, <2>2, <2>3 DEF DiffersIn, Store
<1> HIDE DEF v
<1>13. v \in Store
  BY <1>12 DEF DiffersIn
<1>14. /\ DiffersIn(w, v, Unrealizing)
       /\ w.unrealized_justified_checkpoint =
            Later(v.unrealized_justified_checkpoint, JustifiedPulledUp[r])
       /\ w.unrealized_finalized_checkpoint =
            Later(v.unrealized_finalized_checkpoint, FinalizedPulledUp[r])
  BY <1>2, <1>13, UnrealizedUpdated
<1> HIDE DEF w
<1>15. w \in Store
  BY <1>14 DEF DiffersIn
<1>16. /\ DOMAIN s = DOMAIN a /\ DOMAIN a = DOMAIN u /\ DOMAIN u = DOMAIN v /\ DOMAIN v = DOMAIN w
       /\ DOMAIN s = {"time", "justified_checkpoint", "finalized_checkpoint",
                      "unrealized_justified_checkpoint", "unrealized_finalized_checkpoint",
                      "proposer_boost_root", "equivocating_indices", "blocks",
                      "block_timeliness", "checkpoint_states", "latest_messages",
                      "unrealized_justifications"}
  BY <1>8, <1>10, <1>13, <1>15 DEF Store
<1>17. /\ w.time = s.time
       /\ w.latest_messages = s.latest_messages
       /\ w.blocks = s.blocks \cup {r}
       /\ w.proposer_boost_root = boost_root_after(s, r)
       /\ w.equivocating_indices = s.equivocating_indices
       /\ w.checkpoint_states = s.checkpoint_states
       /\ DOMAIN w.block_timeliness = DOMAIN s.block_timeliness \cup {r}
       /\ DOMAIN w.unrealized_justifications = DOMAIN s.unrealized_justifications \cup {r}
       /\ w.justified_checkpoint = Later(s.justified_checkpoint, JustifiedBy[r])
       /\ w.finalized_checkpoint = Later(s.finalized_checkpoint, FinalizedBy[r])
       /\ w.unrealized_justified_checkpoint =
            Later(s.unrealized_justified_checkpoint, JustifiedPulledUp[r])
       /\ w.unrealized_finalized_checkpoint =
            Later(s.unrealized_finalized_checkpoint, FinalizedPulledUp[r])
  BY <1>6, <1>7, <1>9, <1>12, <1>14, <1>16 DEF DiffersIn, Realizing, Unrealizing
<1>18. ASSUME NEW x \in DOMAIN s.unrealized_justifications \cup {r}
       PROVE  w.unrealized_justifications[x] =
                IF x = r THEN JustifiedPulledUp[r] ELSE s.unrealized_justifications[x]
  <2>1. /\ u.unrealized_justifications = s.unrealized_justifications
        /\ w.unrealized_justifications = v.unrealized_justifications
    BY <1>6, <1>9, <1>14, <1>16 DEF DiffersIn, Realizing, Unrealizing
  <2> QED
    BY <2>1, <1>12
<1>19. get_current_store_epoch(u) = EpochOf(s.time)
  <2>1. u.time = s.time /\ s.time \in Nat
    BY <1>6, <1>9, <1>16 DEF DiffersIn, Realizing, Store
  <2> QED
    BY <2>1, StoreClock
<1>20. CASE IsPast(s, r)
  <2>1. t = update_checkpoints(w, JustifiedPulledUp[r], FinalizedPulledUp[r])
    BY <1>3, <1>19, <1>20 DEF IsPast
  <2>2. /\ DiffersIn(t, w, Realizing)
        /\ t.justified_checkpoint = Later(w.justified_checkpoint, JustifiedPulledUp[r])
        /\ t.finalized_checkpoint = Later(w.finalized_checkpoint, FinalizedPulledUp[r])
    BY <2>1, <1>2, <1>15, CheckpointsUpdated
  <2>3. /\ t \in Store
        /\ \A x \in DOMAIN s \ Realizing : t[x] = w[x]
    BY <2>2, <1>16 DEF DiffersIn
  <2>4. t.unrealized_justifications = w.unrealized_justifications
    BY <2>3, <1>16 DEF Realizing
  <2> QED
    BY <2>2, <2>3, <2>4, <1>16, <1>17, <1>18, <1>20 DEF Realizing
<1>21. CASE ~ IsPast(s, r)
  <2>1. t = w
    BY <1>3, <1>19, <1>21 DEF IsPast
  <2> QED
    BY <2>1, <1>15, <1>17, <1>18, <1>21
<1> QED
  BY <1>20, <1>21

(* What one more block contributes. *)
LEMMA RealizedMore ==
  ASSUME NEW s \in Store, NEW t, NEW r \in Blocks, t.blocks = s.blocks \cup {r}, t.time = s.time,
         NEW by, NEW pulled_up
  PROVE  Realized(t, by, pulled_up) =
           IF IsPast(s, r) THEN Realized(s, by, pulled_up) \cup {by[r]} \cup {pulled_up[r]}
                           ELSE Realized(s, by, pulled_up) \cup {by[r]}
<1>1. get_current_store_epoch(s) = EpochOf(s.time) /\ get_current_store_epoch(t) = EpochOf(s.time)
  BY StoreClock DEF Store
<1> DEFINE past == {x \in s.blocks : block_epoch(x) < EpochOf(s.time)}
           pastT == {x \in s.blocks \cup {r} : block_epoch(x) < EpochOf(s.time)}
<1>2. BlocksOfPastEpochs(s) = past /\ BlocksOfPastEpochs(t) = pastT
  BY <1>1 DEF BlocksOfPastEpochs
<1>3. pastT = IF IsPast(s, r) THEN past \cup {r} ELSE past
  BY DEF IsPast
<1> HIDE DEF past, pastT
<1>4. \A S, f : OfBlocks(S \cup {r}, f) = OfBlocks(S, f) \cup {f[r]}
  BY DEF OfBlocks
<1>5. /\ Realized(s, by, pulled_up) = OfBlocks(s.blocks, by) \cup OfBlocks(past, pulled_up)
      /\ Realized(t, by, pulled_up) =
           (OfBlocks(s.blocks, by) \cup {by[r]}) \cup OfBlocks(pastT, pulled_up)
  BY <1>2, <1>4 DEF Realized
<1>6. CASE IsPast(s, r)
  <2>1. OfBlocks(pastT, pulled_up) = OfBlocks(past, pulled_up) \cup {pulled_up[r]}
    BY <1>3, <1>4, <1>6
  <2> QED
    BY <2>1, <1>5, <1>6
<1>7. CASE ~ IsPast(s, r)
  BY <1>3, <1>5, <1>7
<1> QED
  BY <1>6, <1>7

LEMMA RealizedAreTyped ==
  ASSUME NEW s \in Store, NEW by \in Table, NEW pulled_up \in Table
  PROVE  \A x \in Realized(s, by, pulled_up) : x.epoch \in Nat
<1>1. s.blocks \in SUBSET Blocks /\ BlocksOfPastEpochs(s) \in SUBSET Blocks
  BY DEF Store, BlocksOfPastEpochs
<1> QED
  BY <1>1, EpochsAreNumbers DEF Realized

LEMMA LatestOfOne == ASSUME NEW c \in CheckpointType PROVE Latest(c, {c})
BY DEF Latest, CheckpointType

LEMMA BlockIsSound ==
  ASSUME NEW s, SoundStore(s), NEW r \in Blocks \ {anchor}, is_acceptable_block(s, r)
  PROVE  SoundStore(on_block(s, r))
<1> DEFINE t == on_block(s, r)
<1>1. s \in Store /\ KeysMatch(s) /\ BlocksInTime(s) /\ LatestCheckpoints(s)
  BY DEF SoundStore
<1>2. /\ t \in Store
      /\ t.time = s.time
      /\ t.blocks = s.blocks \cup {r}
      /\ DOMAIN t.block_timeliness = DOMAIN s.block_timeliness \cup {r}
      /\ t.proposer_boost_root = boost_root_after(s, r)
      /\ t.latest_messages = s.latest_messages
      /\ DOMAIN t.unrealized_justifications = DOMAIN s.unrealized_justifications \cup {r}
      /\ t.unrealized_justified_checkpoint =
           Later(s.unrealized_justified_checkpoint, JustifiedPulledUp[r])
      /\ t.unrealized_finalized_checkpoint =
           Later(s.unrealized_finalized_checkpoint, FinalizedPulledUp[r])
      /\ t.justified_checkpoint =
           IF IsPast(s, r)
           THEN Later(Later(s.justified_checkpoint, JustifiedBy[r]), JustifiedPulledUp[r])
           ELSE Later(s.justified_checkpoint, JustifiedBy[r])
      /\ t.finalized_checkpoint =
           IF IsPast(s, r)
           THEN Later(Later(s.finalized_checkpoint, FinalizedBy[r]), FinalizedPulledUp[r])
           ELSE Later(s.finalized_checkpoint, FinalizedBy[r])
  BY <1>1, BlockReceived
<1> HIDE DEF t
<1>3. get_current_slot(t) = get_current_slot(s)
  BY <1>2 DEF get_current_slot
<1>4. KeysMatch(t)
  <2>1. t.proposer_boost_root \in {r, s.proposer_boost_root}
    BY <1>2 DEF boost_root_after
  <2> QED
    BY <2>1, <1>1, <1>2 DEF KeysMatch
<1>5. BlocksInTime(t)
  <2>1. \A x \in t.blocks : block[x].slot <= get_current_slot(t)
    <3>1. block[r].slot <= get_current_slot(s)
      <4>1. get_current_slot(s) \in Nat /\ block[r].slot \in Nat
        BY <1>1, Clock, StoreClock, BlockFacts DEF Store
      <4> QED
        BY <4>1 DEF is_acceptable_block
    <3> QED
      BY <3>1, <1>1, <1>2, <1>3 DEF BlocksInTime
  <2>2. t.proposer_boost_root # ZeroRoot =>
          block[t.proposer_boost_root].slot = get_current_slot(t)
    BY <1>1, <1>2, <1>3 DEF BlocksInTime, boost_root_after, is_timely
  <2> QED
    BY <2>1, <2>2 DEF BlocksInTime
<1>6. LatestCheckpoints(t)
  <2>1. ASSUME NEW by \in Table, NEW pulled_up \in Table,
               NEW c, Latest(c, Realized(s, by, pulled_up))
        PROVE  Latest(IF IsPast(s, r) THEN Later(Later(c, by[r]), pulled_up[r])
                                      ELSE Later(c, by[r]),
                      Realized(t, by, pulled_up))
    <3>1. by[r] \in CheckpointType /\ pulled_up[r] \in CheckpointType
      BY DEF Table
    <3>2. Latest(by[r], {by[r]}) /\ Latest(pulled_up[r], {pulled_up[r]})
      BY <3>1, LatestOfOne
    <3>3. Realized(t, by, pulled_up) =
            IF IsPast(s, r) THEN Realized(s, by, pulled_up) \cup {by[r]} \cup {pulled_up[r]}
                            ELSE Realized(s, by, pulled_up) \cup {by[r]}
      BY <1>1, <1>2, RealizedMore
    <3>4. \A x \in Realized(t, by, pulled_up) : x.epoch \in Nat
      BY <1>2, RealizedAreTyped
    <3>5. Latest(Later(c, by[r]), Realized(s, by, pulled_up) \cup {by[r]})
      <4>1. \A x \in Realized(s, by, pulled_up) \cup {by[r]} : x.epoch \in Nat
        BY <3>3, <3>4
      <4> QED
        BY <4>1, <2>1, <3>2, LaterIsLatest
    <3>6. CASE IsPast(s, r)
      BY <3>2, <3>3, <3>4, <3>5, <3>6, LaterIsLatest
    <3>7. CASE ~ IsPast(s, r)
      BY <3>3, <3>5, <3>7
    <3> QED
      BY <3>6, <3>7
  <2>2. ASSUME NEW pulled_up \in Table, NEW c, Latest(c, OfBlocks(s.blocks, pulled_up))
        PROVE  Latest(Later(c, pulled_up[r]), OfBlocks(t.blocks, pulled_up))
    <3>1. OfBlocks(t.blocks, pulled_up) = OfBlocks(s.blocks, pulled_up) \cup {pulled_up[r]}
      BY <1>2 DEF OfBlocks
    <3>2. Latest(pulled_up[r], {pulled_up[r]})
      BY LatestOfOne DEF Table
    <3>3. \A x \in OfBlocks(t.blocks, pulled_up) : x.epoch \in Nat
      BY <1>2, EpochsAreNumbers DEF Store
    <3> QED
      BY <2>2, <3>1, <3>2, <3>3, LaterIsLatest
  <2>3. Latest(t.justified_checkpoint, Realized(t, JustifiedBy, JustifiedPulledUp))
    <3>1. Latest(s.justified_checkpoint, Realized(s, JustifiedBy, JustifiedPulledUp))
      BY <1>1 DEF LatestCheckpoints
    <3>2. t.justified_checkpoint =
            IF IsPast(s, r)
            THEN Later(Later(s.justified_checkpoint, JustifiedBy[r]), JustifiedPulledUp[r])
            ELSE Later(s.justified_checkpoint, JustifiedBy[r])
      BY <1>2
    <3> QED
      BY <3>1, <3>2, <2>1, Tables, Zenon
  <2>4. Latest(t.finalized_checkpoint, Realized(t, FinalizedBy, FinalizedPulledUp))
    <3>1. Latest(s.finalized_checkpoint, Realized(s, FinalizedBy, FinalizedPulledUp))
      BY <1>1 DEF LatestCheckpoints
    <3>2. t.finalized_checkpoint =
            IF IsPast(s, r)
            THEN Later(Later(s.finalized_checkpoint, FinalizedBy[r]), FinalizedPulledUp[r])
            ELSE Later(s.finalized_checkpoint, FinalizedBy[r])
      BY <1>2
    <3> QED
      BY <3>1, <3>2, <2>1, Tables, Zenon
  <2>5. Latest(t.unrealized_justified_checkpoint, OfBlocks(t.blocks, JustifiedPulledUp))
    BY <2>2, <1>1, <1>2, Tables DEF LatestCheckpoints
  <2>6. Latest(t.unrealized_finalized_checkpoint, OfBlocks(t.blocks, FinalizedPulledUp))
    BY <2>2, <1>1, <1>2, Tables DEF LatestCheckpoints
  <2> QED
    BY <2>3, <2>4, <2>5, <2>6 DEF LatestCheckpoints
<1> QED
  BY <1>2, <1>4, <1>5, <1>6 DEF SoundStore, t

-----------------------------------------------------------------------------
(* on_attestation and on_attester_slashing touch neither checkpoints nor   *)
(* blocks.                                                                 *)
LEMMA SoundIfSame ==
  ASSUME NEW s, SoundStore(s), NEW t,
         DiffersIn(t, s, {"checkpoint_states", "latest_messages", "equivocating_indices"}),
         \A i \in DOMAIN t.latest_messages : t.latest_messages[i].root \in s.blocks
  PROVE  SoundStore(t)
<1>1. s \in Store /\ KeysMatch(s) /\ BlocksInTime(s) /\ LatestCheckpoints(s)
  BY DEF SoundStore
<1>2. /\ t \in Store
      /\ t.time = s.time /\ t.blocks = s.blocks
      /\ t.proposer_boost_root = s.proposer_boost_root
      /\ t.block_timeliness = s.block_timeliness
      /\ t.unrealized_justifications = s.unrealized_justifications
      /\ t.justified_checkpoint = s.justified_checkpoint
      /\ t.finalized_checkpoint = s.finalized_checkpoint
      /\ t.unrealized_justified_checkpoint = s.unrealized_justified_checkpoint
      /\ t.unrealized_finalized_checkpoint = s.unrealized_finalized_checkpoint
  BY <1>1 DEF DiffersIn, Store
<1>3. get_current_slot(t) = get_current_slot(s)
  BY <1>2 DEF get_current_slot
<1>4. \A by, pulled_up : Realized(t, by, pulled_up) = Realized(s, by, pulled_up)
  BY <1>2, <1>3 DEF Realized, BlocksOfPastEpochs, get_current_store_epoch
<1>5. LatestCheckpoints(t)
  BY <1>1, <1>2, <1>4 DEF LatestCheckpoints
<1>6. BlocksInTime(t)
  BY <1>1, <1>2, <1>3 DEF BlocksInTime
<1>7. KeysMatch(t)
  BY <1>1, <1>2 DEF KeysMatch
<1> QED
  BY <1>2, <1>5, <1>6, <1>7 DEF SoundStore

(* The validators whose message an attestation replaces. *)
Updated(s, a) ==
  {i \in a.indices \ s.equivocating_indices : is_newer_message(s, i, a.target.epoch)}

LEMMA AttestationReceived ==
  ASSUME NEW s \in Store, NEW a, WellFormed(a),
         a.target.root \in Blocks, a.beacon_block_root \in Blocks,
         NEW t, t = on_attestation(s, a)
  PROVE  /\ DiffersIn(t, s, {"checkpoint_states", "latest_messages"})
         /\ DOMAIN t.latest_messages = DOMAIN s.latest_messages \cup Updated(s, a)
         /\ \A i \in DOMAIN t.latest_messages :
              t.latest_messages[i] =
                IF i \in Updated(s, a)
                THEN [epoch |-> a.target.epoch, root |-> a.beacon_block_root]
                ELSE s.latest_messages[i]
<1> DEFINE message == [epoch |-> a.target.epoch, root |-> a.beacon_block_root]
           messages == [i \in DOMAIN s.latest_messages \cup Updated(s, a) |->
                          IF i \in Updated(s, a) THEN message ELSE s.latest_messages[i]]
           u == [s EXCEPT !.checkpoint_states = s.checkpoint_states \cup {a.target}]
<1>1. a.target \in StoreCheckpoints /\ a.target.epoch \in Nat /\ a.indices \in SUBSET Validators
  BY DEF WellFormed, StoreCheckpoints
<1>2. DiffersIn(u, s, {"checkpoint_states"}) /\ u \in Store
  BY <1>1 DEF DiffersIn, Store
<1>3. /\ u.latest_messages = s.latest_messages
      /\ u.equivocating_indices = s.equivocating_indices
  BY DEF Store
<1>4. t = [u EXCEPT !.latest_messages = messages]
  <2>1. u = store_target_checkpoint_state(s, a.target)
    BY DEF store_target_checkpoint_state
  <2> HIDE DEF u
  <2>2. {i \in a.indices \ u.equivocating_indices : is_newer_message(u, i, a.target.epoch)}
          = Updated(s, a)
    BY <1>3 DEF Updated, is_newer_message
  <2>3. t = update_latest_messages(u, a)
    BY <2>1 DEF on_attestation
  <2> QED
    BY <1>3, <2>2, <2>3 DEF update_latest_messages
<1>5. messages \in UNION {[S -> [epoch : Nat, root : Blocks]] : S \in SUBSET Validators}
  <2>1. PICK S \in SUBSET Validators : s.latest_messages \in [S -> [epoch : Nat, root : Blocks]]
    BY DEF Store
  <2>2. Updated(s, a) \in SUBSET Validators
    BY <1>1 DEF Updated
  <2>3. messages \in [S \cup Updated(s, a) -> [epoch : Nat, root : Blocks]]
    BY <1>1, <2>1
  <2> QED
    BY <2>2, <2>3
<1>6. t.latest_messages = messages
  BY <1>2, <1>4 DEF Store
<1> HIDE DEF messages
<1>7. t \in Store
  BY <1>2, <1>4, <1>5 DEF Store
<1>8. DiffersIn(t, s, {"checkpoint_states", "latest_messages"})
  BY <1>4, <1>7 DEF DiffersIn, Store
<1> QED
  BY <1>6, <1>8 DEF messages

LEMMA AttestationIsSound ==
  ASSUME NEW s, SoundStore(s), NEW a, WellFormed(a), NEW b \in BOOLEAN,
         is_acceptable_attestation(s, a, b)
  PROVE  SoundStore(on_attestation(s, a))
<1>1. s \in Store /\ a.target.root \in s.blocks /\ a.beacon_block_root \in s.blocks
  BY DEF SoundStore, is_acceptable_attestation
<1>2. a.target.root \in Blocks /\ a.beacon_block_root \in Blocks
  BY <1>1 DEF Store
<1> DEFINE t == on_attestation(s, a)
<1>3. /\ DiffersIn(t, s, {"checkpoint_states", "latest_messages"})
      /\ DOMAIN t.latest_messages = DOMAIN s.latest_messages \cup Updated(s, a)
      /\ \A i \in DOMAIN t.latest_messages :
           t.latest_messages[i] =
             IF i \in Updated(s, a)
             THEN [epoch |-> a.target.epoch, root |-> a.beacon_block_root]
             ELSE s.latest_messages[i]
  BY <1>1, <1>2, AttestationReceived
<1> HIDE DEF t
<1>4. \A i \in DOMAIN t.latest_messages : t.latest_messages[i].root \in s.blocks
  BY <1>1, <1>3 DEF SoundStore, KeysMatch
<1>5. DiffersIn(t, s, {"checkpoint_states", "latest_messages", "equivocating_indices"})
  BY <1>3 DEF DiffersIn
<1> QED
  BY <1>4, <1>5, SoundIfSame DEF t

LEMMA SlashingReceived ==
  ASSUME NEW s \in Store, NEW e, WellFormed(e.attestation_1), WellFormed(e.attestation_2),
         NEW t, t = on_attester_slashing(s, e)
  PROVE  DiffersIn(t, s, {"equivocating_indices"})
<1>1. t \in Store
  BY DEF on_attester_slashing, WellFormed, Store
<1> QED
  BY <1>1 DEF on_attester_slashing, DiffersIn, Store

LEMMA SlashingIsSound ==
  ASSUME NEW s, SoundStore(s), NEW e, WellFormed(e.attestation_1), WellFormed(e.attestation_2)
  PROVE  SoundStore(on_attester_slashing(s, e))
<1> DEFINE t == on_attester_slashing(s, e)
<1>1. s \in Store /\ KeysMatch(s)
  BY DEF SoundStore
<1>2. DiffersIn(t, s, {"equivocating_indices"})
  BY <1>1, SlashingReceived
<1> HIDE DEF t
<1>3. t.latest_messages = s.latest_messages
  BY <1>1, <1>2 DEF DiffersIn, Store
<1>4. DiffersIn(t, s, {"checkpoint_states", "latest_messages", "equivocating_indices"})
  BY <1>2 DEF DiffersIn
<1> QED
  BY <1>1, <1>3, <1>4, SoundIfSame DEF KeysMatch, t

-----------------------------------------------------------------------------
(* The invariant. *)
LEMMA InitSound == Init => SoundStore(store)
<1> SUFFICES ASSUME Init PROVE SoundStore(store)
  OBVIOUS
<1> DEFINE s == get_forkchoice_store
           time == SECONDS_PER_SLOT * block[anchor].slot
<1>1. store = s
  BY DEF Init
<1>2. anchor \in Blocks /\ block[anchor].slot \in Nat /\ SECONDS_PER_SLOT \in Nat
  BY BlockTreeAssumption, ConfigAssumption
<1>3. time \in Nat /\ 0 + time = time /\ SlotOf(time) = block[anchor].slot
  <2>1. time \in Nat
    BY <1>2
  <2>2. SlotOf(time) = block[anchor].slot
    BY <1>2, Clock
  <2> HIDE DEF time
  <2> QED
    BY <2>1, <2>2
<1> HIDE DEF time
<1>4. AnchorCheckpoint \in StoreCheckpoints
  BY BlockFacts DEF StoreCheckpoint, StoreCheckpoints
<1>5. s.time = time
  BY <1>3 DEF get_forkchoice_store, genesis_time, time
<1>6. s \in Store
  <2>1. <<>> \in [{} -> BOOLEAN] /\ <<>> \in [{} -> [epoch : Nat, root : Blocks]]
    OBVIOUS
  <2>2. /\ <<>> \in UNION {[S -> BOOLEAN] : S \in SUBSET Blocks}
        /\ <<>> \in UNION {[S -> [epoch : Nat, root : Blocks]] : S \in SUBSET Validators}
    BY <2>1
  <2>3. [r \in {anchor} |-> AnchorCheckpoint]
          \in UNION {[S -> CheckpointType] : S \in SUBSET Blocks}
    <3>1. [r \in {anchor} |-> AnchorCheckpoint] \in [{anchor} -> CheckpointType]
      BY BlockFacts
    <3> QED
      BY <3>1, <1>2
  <2> QED
    BY <1>2, <1>3, <1>4, <2>2, <2>3, BlockFacts DEF get_forkchoice_store, genesis_time, time, Store
<1>7. KeysMatch(s)
  BY DEF get_forkchoice_store, KeysMatch
<1>8. BlocksInTime(s)
  <2>1. s.time \in Nat
    BY <1>3, <1>5
  <2>2. get_current_slot(s) = block[anchor].slot
    BY <2>1, <1>3, <1>5, StoreClock
  <2>3. s.blocks = {anchor} /\ s.proposer_boost_root = ZeroRoot
    BY DEF get_forkchoice_store
  <2> HIDE DEF s
  <2> QED
    BY <1>2, <2>2, <2>3 DEF BlocksInTime
<1>9. LatestCheckpoints(s)
  <2>1. /\ s.blocks = {anchor} /\ s.time \in Nat
        /\ s.justified_checkpoint = AnchorCheckpoint
        /\ s.finalized_checkpoint = AnchorCheckpoint
        /\ s.unrealized_justified_checkpoint = AnchorCheckpoint
        /\ s.unrealized_finalized_checkpoint = AnchorCheckpoint
    BY <1>3, <1>5 DEF get_forkchoice_store
  <2> HIDE DEF s
  <2>2. \A by \in {JustifiedBy, FinalizedBy, JustifiedPulledUp, FinalizedPulledUp} :
          by[anchor].epoch <= AnchorCheckpoint.epoch
    <3>1. /\ JustifiedBy[anchor].epoch \in Nat /\ FinalizedBy[anchor].epoch \in Nat
          /\ JustifiedPulledUp[anchor].epoch \in Nat /\ FinalizedPulledUp[anchor].epoch \in Nat
          /\ AnchorCheckpoint.epoch \in Nat
      BY <1>2, BlockFacts DEF CheckpointType
    <3>2. /\ FinalizedBy[anchor].epoch <= JustifiedBy[anchor].epoch
          /\ JustifiedBy[anchor].epoch <= JustifiedPulledUp[anchor].epoch
          /\ FinalizedPulledUp[anchor].epoch <= JustifiedPulledUp[anchor].epoch
          /\ JustifiedPulledUp[anchor].epoch <= AnchorCheckpoint.epoch
      BY <1>2, StatesAssumption DEF AnchorCheckpoint, Checkpoint
    <3> QED
      BY <3>1, <3>2
  <2>3. AnchorCheckpoint.epoch <= AnchorCheckpoint.epoch
    BY BlockFacts DEF CheckpointType
  <2>4. \A by \in {JustifiedBy, FinalizedBy, JustifiedPulledUp, FinalizedPulledUp} :
          OfBlocks({anchor}, by) = {AnchorCheckpoint, by[anchor]}
    BY DEF OfBlocks
  <2>5. \A by \in {JustifiedBy, FinalizedBy, JustifiedPulledUp, FinalizedPulledUp} :
          Latest(AnchorCheckpoint, OfBlocks({anchor}, by))
    <3> TAKE by \in {JustifiedBy, FinalizedBy, JustifiedPulledUp, FinalizedPulledUp}
    <3>1. OfBlocks({anchor}, by) = {AnchorCheckpoint, by[anchor]}
      BY <2>4
    <3>2. by[anchor].epoch <= AnchorCheckpoint.epoch
      BY <2>2
    <3> QED
      BY <2>3, <3>1, <3>2 DEF Latest
  <2>6. BlocksOfPastEpochs(s) \subseteq {anchor}
    BY <2>1 DEF BlocksOfPastEpochs
  <2>7. \A by, pulled_up \in {JustifiedBy, FinalizedBy, JustifiedPulledUp, FinalizedPulledUp} :
          Latest(AnchorCheckpoint, Realized(s, by, pulled_up))
    <3> TAKE by, pulled_up \in {JustifiedBy, FinalizedBy, JustifiedPulledUp, FinalizedPulledUp}
    <3>1. Realized(s, by, pulled_up)
            \subseteq OfBlocks({anchor}, by) \cup OfBlocks({anchor}, pulled_up)
      BY <2>1, <2>6 DEF Realized, OfBlocks
    <3>2. AnchorCheckpoint \in Realized(s, by, pulled_up)
      BY DEF Realized, OfBlocks
    <3> QED
      BY <2>5, <3>1, <3>2 DEF Latest
  <2> QED
    BY <2>1, <2>5, <2>7 DEF LatestCheckpoints
<1> QED
  BY <1>1, <1>6, <1>7, <1>8, <1>9 DEF SoundStore

LEMMA BlockAttestationsAreWellFormed ==
  ASSUME NEW r \in Blocks, NEW a \in block[r].attestations
  PROVE  WellFormed(a)
<1>1. a \in UNION {block[x].attestations : x \in Blocks}
  OBVIOUS
<1> QED
  BY <1>1, MessagesAssumption

LEMMA StepSound == SoundStore(store) /\ [Next]_store => SoundStore(store')
<1> SUFFICES ASSUME SoundStore(store), [Next]_store PROVE SoundStore(store')
  OBVIOUS
<1>1. ASSUME NEW time \in Times, Tick(time) PROVE SoundStore(store')
  <2>1. time \in Nat /\ time > store.time /\ store' = on_tick(store, time)
    BY <1>1, TimesAssumption DEF Tick
  <2> QED
    BY <2>1, TickIsSound
<1>2. ASSUME NEW r \in Blocks \ {anchor}, ReceiveBlock(r) PROVE SoundStore(store')
  BY <1>2, BlockIsSound DEF ReceiveBlock
<1>3. ASSUME NEW a \in WireAttestations, ReceiveAttestation(a) PROVE SoundStore(store')
  <2>1. WellFormed(a)
    BY MessagesAssumption
  <2> QED
    BY <1>3, <2>1, AttestationIsSound DEF ReceiveAttestation
<1>4. ASSUME NEW r \in Blocks, NEW a \in block[r].attestations, ReceiveBlockAttestation(r, a)
      PROVE  SoundStore(store')
  <2>1. WellFormed(a)
    BY BlockAttestationsAreWellFormed
  <2> QED
    BY <1>4, <2>1, AttestationIsSound DEF ReceiveBlockAttestation
<1>5. ASSUME NEW e \in AttesterSlashings, ReceiveSlashing(e) PROVE SoundStore(store')
  <2>1. WellFormed(e.attestation_1) /\ WellFormed(e.attestation_2)
    BY MessagesAssumption
  <2> QED
    BY <1>5, <2>1, SlashingIsSound DEF ReceiveSlashing
<1>6. CASE UNCHANGED store
  BY <1>6
<1> QED
  BY <1>1, <1>2, <1>3, <1>4, <1>5, <1>6 DEF Next

IInv == SoundStore(store)

LEMMA AlwaysSound == Spec => []IInv
<1>1. Init => IInv
  BY InitSound DEF IInv
<1>2. IInv /\ [Next]_store => IInv'
  BY StepSound DEF IInv
<1> QED
  BY <1>1, <1>2, PTL DEF Spec

-----------------------------------------------------------------------------
(* Every field of the store keeps its type, and every map the entries that *)
(* the handlers look up.                                                   *)
THEOREM StoreTypes == Spec => []TypeOK
<1>1. IInv => TypeOK
  <2> SUFFICES ASSUME IInv PROVE TypeOK
    OBVIOUS
  <2>1. store \in Store /\ KeysMatch(store)
    BY DEF IInv, SoundStore
  <2>2. StoreCheckpoint \subseteq StoreCheckpoints
    BY DEF StoreCheckpoint, StoreCheckpoints
  <2>3. store.block_timeliness \in [store.blocks \ {anchor} -> BOOLEAN]
    <3>1. PICK S \in SUBSET Blocks : store.block_timeliness \in [S -> BOOLEAN]
      BY <2>1 DEF Store
    <3> QED
      BY <2>1, <3>1 DEF KeysMatch
  <2>4. /\ DOMAIN store.latest_messages \subseteq Validators
        /\ \A i \in DOMAIN store.latest_messages :
             store.latest_messages[i] \in [epoch : Nat, root : store.blocks]
    <3>1. PICK S \in SUBSET Validators :
            store.latest_messages \in [S -> [epoch : Nat, root : Blocks]]
      BY <2>1 DEF Store
    <3> QED
      BY <2>1, <3>1 DEF KeysMatch
  <2> QED
    BY <2>1, <2>2, <2>3, <2>4 DEF Store, KeysMatch, TypeOK
<1> QED
  BY AlwaysSound, <1>1, PTL

(* Whatever the order of ticks and blocks, the store's epochs are the      *)
(* latest that the received blocks realize.                                *)
THEOREM CheckpointsFollowBlocks == Spec => []RealizedCheckpoints
<1>1. IInv => RealizedCheckpoints
  <2> SUFFICES ASSUME IInv PROVE RealizedCheckpoints
    OBVIOUS
  <2>1. store \in Store /\ LatestCheckpoints(store)
    BY DEF IInv, SoundStore
  <2>2. /\ \A x \in Realized(store, JustifiedBy, JustifiedPulledUp) : x.epoch \in Nat
        /\ \A x \in Realized(store, FinalizedBy, FinalizedPulledUp) : x.epoch \in Nat
    BY <2>1, Tables, RealizedAreTyped
  <2> QED
    BY <2>1, <2>2, LatestEpochIs DEF LatestCheckpoints, RealizedCheckpoints
<1> QED
  BY AlwaysSound, <1>1, PTL

(* The unrealized checkpoints are the latest that the received blocks      *)
(* justify or finalize pulled up, and not behind the realized ones.        *)
THEOREM UnrealizedFollowBlocks == Spec => []UnrealizedCheckpoints
<1>1. IInv => UnrealizedCheckpoints
  <2> SUFFICES ASSUME IInv PROVE UnrealizedCheckpoints
    OBVIOUS
  <2>1. store \in Store /\ LatestCheckpoints(store) /\ store.blocks \in SUBSET Blocks
    BY DEF IInv, SoundStore, Store
  <2>2. ASSUME NEW by \in Table, NEW pulled_up \in Table,
               \A r \in Blocks : by[r].epoch <= pulled_up[r].epoch,
               NEW c, Latest(c, Realized(store, by, pulled_up)),
               NEW d, Latest(d, OfBlocks(store.blocks, pulled_up))
        PROVE  d.epoch = LatestEpoch(OfBlocks(store.blocks, pulled_up)) /\ c.epoch <= d.epoch
    <3>1. \A x \in OfBlocks(store.blocks, pulled_up) : x.epoch \in Nat
      BY <2>1, EpochsAreNumbers
    <3>2. d.epoch \in Nat /\ AnchorCheckpoint.epoch <= d.epoch
          /\ \A r \in store.blocks : pulled_up[r].epoch <= d.epoch
      BY <2>2, <3>1 DEF Latest, OfBlocks
    <3>3. \A r \in store.blocks : by[r].epoch <= d.epoch
      <4> TAKE r \in store.blocks
      <4>1. by[r].epoch \in Nat /\ pulled_up[r].epoch \in Nat
        BY <2>1 DEF Table, CheckpointType
      <4> QED
        BY <4>1, <2>1, <2>2, <3>2
    <3>4. \A x \in Realized(store, by, pulled_up) : x.epoch <= d.epoch
      BY <3>2, <3>3 DEF Realized, OfBlocks, BlocksOfPastEpochs
    <3>5. c.epoch <= d.epoch
      BY <2>2, <3>4 DEF Latest
    <3> QED
      BY <2>2, <3>1, <3>5, LatestEpochIs
  <2>3. \A r \in Blocks : /\ JustifiedBy[r].epoch <= JustifiedPulledUp[r].epoch
                          /\ FinalizedBy[r].epoch <= FinalizedPulledUp[r].epoch
    BY StatesAssumption
  <2> QED
    BY <2>1, <2>2, <2>3, Tables DEF LatestCheckpoints, UnrealizedCheckpoints
<1> QED
  BY AlwaysSound, <1>1, PTL

-----------------------------------------------------------------------------
(* What the states of the tree finalize and justify.                       *)
Finalized == {AnchorCheckpoint} \cup {x[r] : x \in {FinalizedBy, FinalizedPulledUp}, r \in Blocks}
Justified == {AnchorCheckpoint} \cup {x[r] : x \in {JustifiedBy, JustifiedPulledUp}, r \in Blocks}

(* A checkpoint of a state is the last block of its chain at the start of  *)
(* the checkpoint's epoch, and one of the anchor's epoch is the anchor.    *)
LEMMA OwnCheckpoint ==
  ASSUME NEW r \in Blocks, NEW c \in CheckpointsOf(r), c.root \in Blocks
  PROVE  /\ c.epoch \in Nat /\ c.epoch >= AnchorCheckpoint.epoch
         /\ compute_start_slot_at_epoch(c.epoch) \in Nat
         /\ c.root = get_checkpoint_block(r, c.epoch)
         /\ c.root \in chain[r]
         /\ block[c.root].slot <= compute_start_slot_at_epoch(c.epoch)
         /\ \A y \in chain[r] :
              block[y].slot <= compute_start_slot_at_epoch(c.epoch) => y \in chain[c.root]
         /\ c.epoch = AnchorCheckpoint.epoch => c.root = anchor
<1> DEFINE n == compute_start_slot_at_epoch(c.epoch)
<1>1. /\ c.epoch \in Nat /\ c.epoch >= AnchorCheckpoint.epoch
      /\ c.root = get_checkpoint_block(r, c.epoch)
  BY StatesAssumption
<1>2. n \in Nat
  BY <1>1, BlockTreeAssumption DEF compute_start_slot_at_epoch
<1>3. c.root = get_ancestor(r, n)
  BY <1>1 DEF get_checkpoint_block
<1> HIDE DEF n
<1>4. /\ c.root \in chain[r] /\ block[c.root].slot <= n
      /\ \A y \in chain[r] : block[y].slot <= n => y \in chain[c.root]
  BY <1>2, <1>3, Ancestor
<1>5. ASSUME c.epoch = AnchorCheckpoint.epoch PROVE c.root = anchor
  <2>1. n = block[anchor].slot
    BY <1>5, BlockTreeAssumption DEF n, AnchorCheckpoint, Checkpoint, block_epoch
  <2>2. anchor \in chain[c.root]
    BY Chains
  <2>3. anchor # c.root => block[anchor].slot < block[c.root].slot
    BY <2>2, Chains
  <2>4. block[anchor].slot \in Nat /\ block[c.root].slot \in Nat
    BY BlockTreeAssumption
  <2> QED
    BY <1>4, <2>1, <2>3, <2>4
<1> QED
  BY <1>1, <1>2, <1>4, <1>5 DEF n

(* Starts of epochs are in the order of the epochs.                        *)
LEMMA EpochStarts ==
  ASSUME NEW d \in Nat, NEW e \in Nat
  PROVE  /\ compute_start_slot_at_epoch(e) \in Nat
         /\ d <= e => compute_start_slot_at_epoch(d) <= compute_start_slot_at_epoch(e)
         /\ \A slot \in Nat : compute_epoch_at_slot(slot) >= e
                                => slot >= compute_start_slot_at_epoch(e)
         /\ \A slot \in Nat : compute_epoch_at_slot(slot) > e
                                => slot > compute_start_slot_at_epoch(e)
         /\ compute_epoch_at_slot(compute_start_slot_at_epoch(e)) = e
<1> DEFINE n == SLOTS_PER_EPOCH
<1>1. n \in Nat \ {0}
  BY BlockTreeAssumption
<1>2. ASSUME NEW a \in Nat, NEW b \in Nat, a <= b
      PROVE  a * n \in Nat /\ b * n \in Nat /\ a * n <= b * n
  BY <1>1, <1>2, SMTT(30)
<1>3. ASSUME NEW a \in Nat, NEW b \in Nat, a > b PROVE a * n >= b * n + n
  <2>1. a >= b + 1 /\ b + 1 \in Nat
    BY <1>3
  <2>2. a * n >= (b + 1) * n
    BY <1>2, <2>1
  <2>3. (b + 1) * n = b * n + n
    BY <1>1, SMTT(30)
  <2> QED
    BY <2>2, <2>3
<1>4. ASSUME NEW slot \in Nat PROVE slot >= (slot \div n) * n /\ slot \div n \in Nat
  BY <1>1, SMTT(30)
<1>5. (e * n) \div n = e
  BY <1>1, DivisionMonotone
<1>6. \A slot \in Nat : compute_epoch_at_slot(slot) >= e => slot >= e * n
  <2> SUFFICES ASSUME NEW slot \in Nat, slot \div n >= e PROVE slot >= e * n
    BY DEF compute_epoch_at_slot
  <2> DEFINE q == slot \div n
  <2>1. q \in Nat /\ slot >= q * n
    BY <1>4
  <2> HIDE DEF q
  <2>2. q * n \in Nat /\ e * n \in Nat /\ e * n <= q * n
    BY <1>2, <2>1 DEF q
  <2> QED
    BY <2>1, <2>2
<1>7. \A slot \in Nat : compute_epoch_at_slot(slot) > e => slot > e * n
  <2> SUFFICES ASSUME NEW slot \in Nat, slot \div n > e PROVE slot > e * n
    BY DEF compute_epoch_at_slot
  <2> DEFINE q == slot \div n
  <2>1. q \in Nat /\ slot >= q * n
    BY <1>4
  <2>2. e * n \in Nat /\ q * n \in Nat
    BY <1>2, <2>1
  <2> HIDE DEF q
  <2>3. q * n >= e * n + n
    BY <1>3, <2>1 DEF q
  <2> QED
    BY <1>1, <2>1, <2>2, <2>3
<1> QED
  BY <1>1, <1>2, <1>5, <1>6, <1>7 DEF compute_start_slot_at_epoch, compute_epoch_at_slot

(* A checkpoint of the tree other than the anchor's is one of a state.     *)
LEMMA OfAState ==
  ASSUME NEW c \in Finalized \cup Justified, c # AnchorCheckpoint
  PROVE  /\ \E r \in Blocks : c \in CheckpointsOf(r)
         /\ c \in Finalized => \E r \in Blocks : c \in {FinalizedBy[r], FinalizedPulledUp[r]}
BY DEF Finalized, Justified, CheckpointsOf

(* What the tree justifies or finalizes descends from all that it has      *)
(* finalized for no later an epoch.                                        *)
LEMMA FinalityDescends ==
  ASSUME NEW f \in Finalized, NEW c \in Finalized \cup Justified,
         f.root \in Blocks, c.root \in Blocks, f.epoch <= c.epoch
  PROVE  Descends(c.root, f.root)
<1>0. f.epoch \in Nat /\ c.epoch \in Nat /\ AnchorCheckpoint.epoch \in Nat
  <2>1. AnchorCheckpoint.epoch \in Nat
    BY BlockFacts DEF CheckpointType
  <2>2. \A d \in Finalized \cup Justified : d.root \in Blocks => d.epoch \in Nat
    BY <2>1, OfAState, OwnCheckpoint
  <2> QED
    BY <2>1, <2>2
<1>1. CASE f.epoch <= AnchorCheckpoint.epoch
  <2>1. f.root = anchor
    <3>1. CASE f = AnchorCheckpoint
      BY <3>1 DEF AnchorCheckpoint, Checkpoint
    <3>2. CASE f # AnchorCheckpoint
      <4>1. PICK q \in Blocks : f \in CheckpointsOf(q)
        BY <3>2, OfAState
      <4>2. f.epoch >= AnchorCheckpoint.epoch
        BY <4>1, OwnCheckpoint
      <4>3. f.epoch = AnchorCheckpoint.epoch
        BY <1>0, <1>1, <4>2
      <4> QED
        BY <4>1, <4>3, OwnCheckpoint
    <3> QED
      BY <3>1, <3>2
  <2> QED
    BY <2>1, Chains DEF Descends
<1>2. CASE f.epoch > AnchorCheckpoint.epoch
  <2>1. f # AnchorCheckpoint /\ c # AnchorCheckpoint
    BY <1>0, <1>2
  <2>2. PICK q \in Blocks : f \in {FinalizedBy[q], FinalizedPulledUp[q]}
    BY <2>1, OfAState
  <2>3. PICK r \in Blocks : c \in CheckpointsOf(r)
    BY <2>1, OfAState
  <2>4. f.root = get_checkpoint_block(r, f.epoch)
    BY <1>2, <2>2, <2>3, NoConflictingFinality
  <2> DEFINE m == compute_start_slot_at_epoch(f.epoch)
             n == compute_start_slot_at_epoch(c.epoch)
  <2>5. m \in Nat /\ n \in Nat /\ m <= n
    BY <1>0, EpochStarts
  <2>6. f.root = get_ancestor(r, m)
    BY <2>4 DEF get_checkpoint_block
  <2>7. f.root \in chain[r] /\ block[f.root].slot <= m
    <3> HIDE DEF m
    <3> QED
      BY <2>5, <2>6, Ancestor
  <2>8. block[f.root].slot \in Nat
    BY BlockTreeAssumption
  <2>9. block[f.root].slot <= n
    BY <2>5, <2>7, <2>8
  <2> QED
    BY <2>3, <2>7, <2>9, OwnCheckpoint DEF Descends
<1> QED
  BY <1>0, <1>1, <1>2

(* What the store finalizes and justifies comes from states of the tree,   *)
(* and the justified checkpoint is not of an earlier epoch: whichever      *)
(* state finalized the one also justified something no later than the      *)
(* other.                                                                  *)
LEMMA FromTheTree ==
  ASSUME NEW s \in Store, LatestCheckpoints(s)
  PROVE  /\ {s.justified_checkpoint, s.unrealized_justified_checkpoint} \subseteq Justified
         /\ {s.finalized_checkpoint, s.unrealized_finalized_checkpoint} \subseteq Finalized
         /\ s.finalized_checkpoint.epoch <= s.justified_checkpoint.epoch
         /\ s.unrealized_finalized_checkpoint.epoch <= s.unrealized_justified_checkpoint.epoch
<1>1. s.blocks \subseteq Blocks /\ BlocksOfPastEpochs(s) \subseteq s.blocks
  BY DEF Store, BlocksOfPastEpochs
<1>2. /\ \A S \in SUBSET Blocks : OfBlocks(S, JustifiedBy) \subseteq Justified
      /\ \A S \in SUBSET Blocks : OfBlocks(S, JustifiedPulledUp) \subseteq Justified
      /\ \A S \in SUBSET Blocks : OfBlocks(S, FinalizedBy) \subseteq Finalized
      /\ \A S \in SUBSET Blocks : OfBlocks(S, FinalizedPulledUp) \subseteq Finalized
  BY DEF OfBlocks, Justified, Finalized
<1>3. /\ {s.justified_checkpoint, s.unrealized_justified_checkpoint} \subseteq Justified
      /\ {s.finalized_checkpoint, s.unrealized_finalized_checkpoint} \subseteq Finalized
  BY <1>1, <1>2 DEF LatestCheckpoints, Latest, Realized
<1>4. ASSUME NEW S \in SUBSET Blocks, NEW f \in Table, NEW j \in Table,
             \A r \in Blocks : f[r].epoch <= j[r].epoch,
             NEW c, c.epoch \in Nat, \A y \in OfBlocks(S, j) : y.epoch <= c.epoch,
             NEW x \in OfBlocks(S, f)
      PROVE  x.epoch <= c.epoch
  <2>1. CASE x = AnchorCheckpoint
    BY <1>4, <2>1 DEF OfBlocks
  <2>2. ASSUME NEW r \in S, x = f[r] PROVE x.epoch <= c.epoch
    <3>1. f[r].epoch \in Nat /\ j[r].epoch \in Nat
      BY DEF Table, CheckpointType
    <3>2. j[r].epoch <= c.epoch /\ f[r].epoch <= j[r].epoch
      BY <1>4 DEF OfBlocks
    <3> QED
      BY <1>4, <2>2, <3>1, <3>2
  <2> QED
    BY <2>1, <2>2 DEF OfBlocks
<1>5. /\ \A r \in Blocks : FinalizedBy[r].epoch <= JustifiedBy[r].epoch
      /\ \A r \in Blocks : FinalizedPulledUp[r].epoch <= JustifiedPulledUp[r].epoch
  BY StatesAssumption
<1>6. s.justified_checkpoint.epoch \in Nat /\ s.unrealized_justified_checkpoint.epoch \in Nat
  BY DEF Store, StoreCheckpoint
<1>7. s.finalized_checkpoint.epoch <= s.justified_checkpoint.epoch
  <2>1. /\ \A y \in OfBlocks(s.blocks, JustifiedBy) : y.epoch <= s.justified_checkpoint.epoch
        /\ \A y \in OfBlocks(BlocksOfPastEpochs(s), JustifiedPulledUp) :
             y.epoch <= s.justified_checkpoint.epoch
    BY DEF LatestCheckpoints, Latest, Realized
  <2>2. \/ s.finalized_checkpoint \in OfBlocks(s.blocks, FinalizedBy)
        \/ s.finalized_checkpoint \in OfBlocks(BlocksOfPastEpochs(s), FinalizedPulledUp)
    BY DEF LatestCheckpoints, Latest, Realized
  <2>3. s.blocks \in SUBSET Blocks /\ BlocksOfPastEpochs(s) \in SUBSET Blocks
    BY <1>1
  <2>4. CASE s.finalized_checkpoint \in OfBlocks(s.blocks, FinalizedBy)
    BY <1>4, <1>5, <1>6, <2>1, <2>3, <2>4, Tables
  <2>5. CASE s.finalized_checkpoint \in OfBlocks(BlocksOfPastEpochs(s), FinalizedPulledUp)
    BY <1>4, <1>5, <1>6, <2>1, <2>3, <2>5, Tables
  <2> QED
    BY <2>2, <2>4, <2>5
<1>8. s.unrealized_finalized_checkpoint.epoch <= s.unrealized_justified_checkpoint.epoch
  <2>1. /\ \A y \in OfBlocks(s.blocks, JustifiedPulledUp) :
             y.epoch <= s.unrealized_justified_checkpoint.epoch
        /\ s.unrealized_finalized_checkpoint \in OfBlocks(s.blocks, FinalizedPulledUp)
    BY DEF LatestCheckpoints, Latest
  <2>2. s.blocks \in SUBSET Blocks
    BY <1>1
  <2> QED
    BY <1>4, <1>5, <1>6, <2>1, <2>2, Tables
<1> QED
  BY <1>3, <1>7, <1>8

(* The justified block descends from the finalized one, and so do the      *)
(* unrealized ones, if the states of the tree do not conflict in what they *)
(* finalize (NoConflictingFinality).                                       *)
THEOREM JustifiedStaysOnFinalized == Spec => []JustifiedExtendsFinalized
<1>1. IInv => JustifiedExtendsFinalized
  <2> SUFFICES ASSUME IInv PROVE JustifiedExtendsFinalized
    OBVIOUS
  <2>1. store \in Store /\ LatestCheckpoints(store)
    BY DEF IInv, SoundStore
  <2>2. /\ store.justified_checkpoint.root \in Blocks
        /\ store.finalized_checkpoint.root \in Blocks
        /\ store.unrealized_justified_checkpoint.root \in Blocks
        /\ store.unrealized_finalized_checkpoint.root \in Blocks
    BY <2>1 DEF Store, StoreCheckpoint
  <2> QED
    BY <2>1, <2>2, FromTheTree, FinalityDescends DEF JustifiedExtendsFinalized
<1> QED
  BY AlwaysSound, <1>1, PTL

(* Each handler leaves the finalized checkpoint or moves it to a later     *)
(* epoch; the new one is a checkpoint of the tree, so it descends from the *)
(* old one.                                                                *)
LEMMA LaterCases ==
  ASSUME NEW c \in StoreCheckpoint, NEW d \in CheckpointType
  PROVE  Later(c, d) = c \/ Later(c, d).epoch > c.epoch
BY DEF Later

LEMMA FinalizedMoves ==
  ASSUME IInv, Next
  PROVE  \/ store'.finalized_checkpoint = store.finalized_checkpoint
         \/ store'.finalized_checkpoint.epoch > store.finalized_checkpoint.epoch
<1> DEFINE c == store.finalized_checkpoint
<1>1. store \in Store /\ c \in StoreCheckpoint /\ c.epoch \in Nat
  BY DEF IInv, SoundStore, Store, StoreCheckpoint
<1>2. ASSUME NEW time \in Times, Tick(time)
      PROVE  store'.finalized_checkpoint = c \/ store'.finalized_checkpoint.epoch > c.epoch
  <2>1. time \in Nat /\ store' = on_tick(store, time)
    BY <1>2, TimesAssumption DEF Tick
  <2>2. \/ store'.finalized_checkpoint = c
        \/ store'.finalized_checkpoint = Later(c, store.unrealized_finalized_checkpoint)
    BY <1>1, <2>1, Ticked
  <2>3. store.unrealized_finalized_checkpoint \in CheckpointType
    BY <1>1, StoreCheckpointIsTyped DEF Store
  <2> QED
    BY <1>1, <2>2, <2>3, LaterCases
<1>3. ASSUME NEW r \in Blocks \ {anchor}, ReceiveBlock(r)
      PROVE  store'.finalized_checkpoint = c \/ store'.finalized_checkpoint.epoch > c.epoch
  <2> DEFINE d == Later(c, FinalizedBy[r])
             e == Later(d, FinalizedPulledUp[r])
  <2>1. store'.finalized_checkpoint \in {d, e}
    BY <1>1, <1>3, BlockReceived DEF ReceiveBlock
  <2>2. FinalizedBy[r] \in CheckpointType /\ FinalizedPulledUp[r] \in CheckpointType
    BY BlockFacts
  <2>3. d \in StoreCheckpoint /\ e \in StoreCheckpoint
    BY <1>1, <2>2, LaterIsTyped
  <2>4. d = c \/ d.epoch > c.epoch
    BY <1>1, <2>2, LaterCases
  <2>5. e = d \/ e.epoch > d.epoch
    BY <2>2, <2>3, LaterCases
  <2>6. d.epoch \in Nat /\ e.epoch \in Nat
    BY <2>3 DEF StoreCheckpoint
  <2> HIDE DEF c, d, e
  <2> QED
    BY <1>1, <2>1, <2>4, <2>5, <2>6
<1>4. ASSUME NEW a, WellFormed(a), NEW b \in BOOLEAN, is_acceptable_attestation(store, a, b),
             store' = on_attestation(store, a)
      PROVE  store'.finalized_checkpoint = c
  <2>1. a.target.root \in Blocks /\ a.beacon_block_root \in Blocks
    BY <1>1, <1>4 DEF is_acceptable_attestation, Store
  <2>2. DiffersIn(store', store, {"checkpoint_states", "latest_messages"})
    BY <1>1, <1>4, <2>1, AttestationReceived
  <2> QED
    BY <1>1, <2>2 DEF DiffersIn, Store
<1>5. ASSUME NEW e \in AttesterSlashings, ReceiveSlashing(e)
      PROVE  store'.finalized_checkpoint = c
  <2>1. DiffersIn(store', store, {"equivocating_indices"})
    BY <1>1, <1>5, MessagesAssumption, SlashingReceived DEF ReceiveSlashing
  <2> QED
    BY <1>1, <2>1 DEF DiffersIn, Store
<1>6. ASSUME NEW a \in WireAttestations, ReceiveAttestation(a)
      PROVE  store'.finalized_checkpoint = c
  <2>1. WellFormed(a)
    BY MessagesAssumption
  <2> QED
    BY <1>4, <1>6, <2>1 DEF ReceiveAttestation
<1>7. ASSUME NEW r \in Blocks, NEW a \in block[r].attestations, ReceiveBlockAttestation(r, a)
      PROVE  store'.finalized_checkpoint = c
  BY <1>4, <1>7, BlockAttestationsAreWellFormed DEF ReceiveBlockAttestation
<1> QED
  BY <1>2, <1>3, <1>5, <1>6, <1>7 DEF Next

(* Finality is never taken back: the finalized checkpoint only moves to a  *)
(* descendant of a later epoch, whichever handler runs.                    *)
THEOREM StoreFinalityStays == Spec => FinalityMovesForward
<1> DEFINE old == store.finalized_checkpoint
           new == store'.finalized_checkpoint
<1>1. ASSUME IInv, IInv', [Next]_store, new # old
      PROVE  new.epoch > old.epoch /\ Descends(new.root, old.root)
  <2>1. Next
    BY <1>1
  <2>2. new.epoch > old.epoch
    BY <1>1, <2>1, FinalizedMoves
  <2>3. old \in Finalized /\ new \in Finalized
    BY <1>1, FromTheTree DEF IInv, SoundStore
  <2>4. /\ old.root \in Blocks /\ new.root \in Blocks
        /\ old.epoch \in Nat /\ new.epoch \in Nat
    BY <1>1 DEF IInv, SoundStore, Store, StoreCheckpoint
  <2> QED
    BY <2>2, <2>3, <2>4, FinalityDescends
<1>2. IInv /\ IInv' /\ [Next]_store =>
        [LET f == store.finalized_checkpoint
             g == store'.finalized_checkpoint
         IN g # f => g.epoch > f.epoch /\ Descends(g.root, f.root)]_store
  BY <1>1
<1> QED
  BY AlwaysSound, <1>2, PTL DEF Spec, FinalityMovesForward

-----------------------------------------------------------------------------
(* The boost belongs to a block of the current slot, and no block takes it *)
(* from another before the next slot.                                      *)
LEMMA BoostStays ==
  ASSUME IInv, Next, store.proposer_boost_root # ZeroRoot,
         get_current_slot(store') = get_current_slot(store)
  PROVE  store'.proposer_boost_root = store.proposer_boost_root
<1>1. store \in Store
  BY DEF IInv, SoundStore
<1>2. ASSUME NEW time \in Times, Tick(time)
      PROVE  store'.proposer_boost_root = store.proposer_boost_root
  <2>1. time \in Nat /\ store' = on_tick(store, time)
    BY <1>2, TimesAssumption DEF Tick
  <2>2. /\ store'.time = time
        /\ store'.proposer_boost_root = IF SlotOf(time) > SlotOf(store.time)
                                        THEN ZeroRoot ELSE store.proposer_boost_root
    BY <1>1, <2>1, Ticked
  <2>3. SlotOf(time) = SlotOf(store.time) /\ SlotOf(time) \in Nat
    BY <1>1, <2>1, <2>2, StoreClock, Clock DEF Store
  <2> QED
    BY <2>2, <2>3
<1>3. ASSUME NEW r \in Blocks \ {anchor}, ReceiveBlock(r)
      PROVE  store'.proposer_boost_root = store.proposer_boost_root
  <2>1. store'.proposer_boost_root = boost_root_after(store, r)
    BY <1>1, <1>3, BlockReceived DEF ReceiveBlock
  <2> QED
    BY <2>1 DEF boost_root_after
<1>4. ASSUME NEW a, WellFormed(a), NEW b \in BOOLEAN, is_acceptable_attestation(store, a, b),
             store' = on_attestation(store, a)
      PROVE  store'.proposer_boost_root = store.proposer_boost_root
  <2>1. a.target.root \in Blocks /\ a.beacon_block_root \in Blocks
    BY <1>1, <1>4 DEF is_acceptable_attestation, Store
  <2>2. DiffersIn(store', store, {"checkpoint_states", "latest_messages"})
    BY <1>1, <1>4, <2>1, AttestationReceived
  <2> QED
    BY <1>1, <2>2 DEF DiffersIn, Store
<1>5. ASSUME NEW e \in AttesterSlashings, ReceiveSlashing(e)
      PROVE  store'.proposer_boost_root = store.proposer_boost_root
  <2>1. DiffersIn(store', store, {"equivocating_indices"})
    BY <1>1, <1>5, MessagesAssumption, SlashingReceived DEF ReceiveSlashing
  <2> QED
    BY <1>1, <2>1 DEF DiffersIn, Store
<1>6. ASSUME NEW a \in WireAttestations, ReceiveAttestation(a)
      PROVE  store'.proposer_boost_root = store.proposer_boost_root
  <2>1. WellFormed(a)
    BY MessagesAssumption
  <2> QED
    BY <1>4, <1>6, <2>1 DEF ReceiveAttestation
<1>7. ASSUME NEW r \in Blocks, NEW a \in block[r].attestations, ReceiveBlockAttestation(r, a)
      PROVE  store'.proposer_boost_root = store.proposer_boost_root
  BY <1>4, <1>7, BlockAttestationsAreWellFormed DEF ReceiveBlockAttestation
<1> QED
  BY <1>2, <1>3, <1>5, <1>6, <1>7 DEF Next

(* The proposer boost goes to at most one block of a slot, the first timely *)
(* one that is received.                                                   *)
THEOREM OneBoostPerSlot == Spec => BoostOncePerSlot
<1>1. ASSUME IInv, IInv', [Next]_store, store' # store
      PROVE  /\ store'.proposer_boost_root # ZeroRoot =>
                  block[store'.proposer_boost_root].slot = get_current_slot(store')
             /\ (store.proposer_boost_root # ZeroRoot
                   /\ get_current_slot(store') = get_current_slot(store)) =>
                  store'.proposer_boost_root = store.proposer_boost_root
  <2>1. Next
    BY <1>1
  <2>2. SoundStore(store')
    BY <1>1 DEF IInv
  <2> QED
    BY <1>1, <2>1, <2>2, BoostStays DEF SoundStore, BlocksInTime
<1>2. IInv /\ IInv' /\ [Next]_store =>
        [/\ store'.proposer_boost_root # ZeroRoot =>
              block[store'.proposer_boost_root].slot = get_current_slot(store')
         /\ (store.proposer_boost_root # ZeroRoot
               /\ get_current_slot(store') = get_current_slot(store)) =>
              store'.proposer_boost_root = store.proposer_boost_root]_store
  BY <1>1
<1> QED
  BY AlwaysSound, <1>2, PTL DEF Spec, BoostOncePerSlot

-----------------------------------------------------------------------------
(* A validator's message is replaced only by one of a later epoch, and an  *)
(* equivocator's never.                                                    *)
LEMMA MessagesAdvance ==
  ASSUME IInv, Next, NEW i \in DOMAIN store.latest_messages,
         store'.latest_messages[i] # store.latest_messages[i]
  PROVE  /\ store'.latest_messages[i].epoch > store.latest_messages[i].epoch
         /\ i \notin store.equivocating_indices
<1>1. store \in Store
  BY DEF IInv, SoundStore
<1>2. ASSUME NEW time \in Times, Tick(time) PROVE FALSE
  <2>1. time \in Nat /\ store' = on_tick(store, time)
    BY <1>2, TimesAssumption DEF Tick
  <2>2. DiffersIn(store', store, Realizing \cup {"time", "proposer_boost_root"})
    BY <1>1, <2>1, Ticked
  <2> QED
    BY <1>1, <2>2 DEF DiffersIn, Realizing, Store
<1>3. ASSUME NEW r \in Blocks \ {anchor}, ReceiveBlock(r) PROVE FALSE
  BY <1>1, <1>3, BlockReceived DEF ReceiveBlock
<1>4. ASSUME NEW a, WellFormed(a), NEW b \in BOOLEAN, is_acceptable_attestation(store, a, b),
             store' = on_attestation(store, a)
      PROVE  /\ store'.latest_messages[i].epoch > store.latest_messages[i].epoch
             /\ i \notin store.equivocating_indices
  <2>1. a.target.root \in Blocks /\ a.beacon_block_root \in Blocks
    BY <1>1, <1>4 DEF is_acceptable_attestation, Store
  <2>2. /\ DOMAIN store'.latest_messages = DOMAIN store.latest_messages \cup Updated(store, a)
        /\ \A x \in DOMAIN store'.latest_messages :
             store'.latest_messages[x] =
               IF x \in Updated(store, a)
               THEN [epoch |-> a.target.epoch, root |-> a.beacon_block_root]
               ELSE store.latest_messages[x]
    BY <1>1, <1>4, <2>1, AttestationReceived
  <2>3. /\ i \in Updated(store, a)
        /\ store'.latest_messages[i].epoch = a.target.epoch
    BY <2>2
  <2> QED
    BY <2>3 DEF Updated, is_newer_message
<1>5. ASSUME NEW e \in AttesterSlashings, ReceiveSlashing(e) PROVE FALSE
  <2>1. DiffersIn(store', store, {"equivocating_indices"})
    BY <1>1, <1>5, MessagesAssumption, SlashingReceived DEF ReceiveSlashing
  <2> QED
    BY <1>1, <2>1 DEF DiffersIn, Store
<1>6. ASSUME NEW a \in WireAttestations, ReceiveAttestation(a)
      PROVE  /\ store'.latest_messages[i].epoch > store.latest_messages[i].epoch
             /\ i \notin store.equivocating_indices
  <2>1. WellFormed(a)
    BY MessagesAssumption
  <2> QED
    BY <1>4, <1>6, <2>1 DEF ReceiveAttestation
<1>7. ASSUME NEW r \in Blocks, NEW a \in block[r].attestations, ReceiveBlockAttestation(r, a)
      PROVE  /\ store'.latest_messages[i].epoch > store.latest_messages[i].epoch
             /\ i \notin store.equivocating_indices
  BY <1>4, <1>7, BlockAttestationsAreWellFormed DEF ReceiveBlockAttestation
<1> QED
  BY <1>2, <1>3, <1>5, <1>6, <1>7 DEF Next

(* A validator's latest message is replaced only by one of a later epoch,  *)
(* and never again once the validator has equivocated.                     *)
THEOREM MessagesOnlyAdvance == Spec => OneMessagePerEpoch
<1>1. IInv /\ [Next]_store =>
        [\A i \in DOMAIN store.latest_messages :
           LET m == store.latest_messages[i]
               n == store'.latest_messages[i]
           IN n # m => n.epoch > m.epoch /\ i \notin store.equivocating_indices]_store
  BY MessagesAdvance
<1> QED
  BY AlwaysSound, <1>1, PTL DEF Spec, OneMessagePerEpoch

-----------------------------------------------------------------------------
(* The loop of on_tick. *)

(* Stores with the same fields are the same. *)
LEMMA SameStore ==
  ASSUME NEW s \in Store, NEW t \in Store, \A x \in DOMAIN s : s[x] = t[x]
  PROVE  s = t
BY DEF Store

(* A tick to this slot or the next: the first slot of an epoch is the only *)
(* one that is in a later epoch than the slot before it.                   *)
LEMMA EpochBegins ==
  ASSUME NEW a \in Nat
  PROVE  /\ compute_slots_since_epoch_start(a) = a % SLOTS_PER_EPOCH
         /\ compute_slots_since_epoch_start(a + 1) = 0
              <=> compute_epoch_at_slot(a + 1) > compute_epoch_at_slot(a)
<1> DEFINE n == SLOTS_PER_EPOCH
           p == a \div n
           q == (a + 1) \div n
<1>1. n \in Nat \ {0}
  BY BlockTreeAssumption
<1>2. /\ p \in Nat /\ p * n <= a /\ a < p * n + n
      /\ q \in Nat /\ q * n <= a + 1 /\ a + 1 < q * n + n
  BY <1>1, SMTT(30)
<1>3. a % n = a - p * n
  BY <1>1, SMTT(30)
<1>4. /\ compute_slots_since_epoch_start(a) = a - p * n
      /\ compute_slots_since_epoch_start(a + 1) = (a + 1) - q * n
      /\ compute_epoch_at_slot(a + 1) = q /\ compute_epoch_at_slot(a) = p
  BY DEF compute_slots_since_epoch_start, compute_epoch_at_slot, compute_start_slot_at_epoch
<1> HIDE DEF n, p, q
<1>5. p * n \in Nat /\ q * n \in Nat
  BY <1>1, <1>2, SMTT(30)
<1>6. CASE q > p
  <2>1. q >= p + 1
    BY <1>2, <1>6
  <2>2. q * n >= p * n + n
    BY <1>1, <1>2, <2>1, SMTT(30)
  <2> QED
    BY <1>2, <1>4, <1>5, <1>6, <2>2, <1>1, <1>3 DEF n
<1>7. CASE ~ q > p
  <2>1. q <= p
    BY <1>2, <1>7
  <2>2. q * n <= p * n
    BY <1>1, <1>2, <2>1, SMTT(30)
  <2>3. (a + 1) - q * n > 0
    BY <1>2, <1>5, <2>2
  <2> QED
    BY <1>4, <1>7, <2>3, <1>3 DEF n
<1> QED
  BY <1>6, <1>7

(* on_tick_per_slot, to this slot or to the next. *)
LEMMA OneSlot ==
  ASSUME NEW s \in Store, NEW time \in Nat,
         SlotOf(time) \in {SlotOf(s.time), SlotOf(s.time) + 1}
  PROVE  on_tick_per_slot(s, time) = on_tick(s, time)
<1> DEFINE ticked == [s EXCEPT !.time = time]
           a == SlotOf(s.time)
           b == SlotOf(time)
<1>1. s.time \in Nat /\ ticked.time = time
  BY DEF Store
<1>2. /\ get_current_slot(ticked) = b /\ get_current_slot(s) = a
      /\ get_current_store_epoch(ticked) = EpochOf(time)
      /\ get_current_store_epoch(s) = EpochOf(s.time)
  BY <1>1, StoreClock
<1>3. /\ EpochOf(time) = compute_epoch_at_slot(b)
      /\ EpochOf(s.time) = compute_epoch_at_slot(a)
  BY DEF EpochOf, compute_epoch_at_slot
<1>4. a \in Nat /\ b \in {a, a + 1}
  BY <1>1, Clock
<1> HIDE DEF a, b
<1>5. compute_epoch_at_slot(a) \in Nat
  BY <1>4, Clock
<1>6. (b > a /\ compute_slots_since_epoch_start(b) = 0)
        <=> compute_epoch_at_slot(b) > compute_epoch_at_slot(a)
  <2>1. CASE b = a
    BY <2>1, <1>4, <1>5
  <2>2. CASE b = a + 1
    BY <2>2, <1>4, EpochBegins
  <2> QED
    BY <2>1, <2>2, <1>4
<1> HIDE DEF ticked
<1> QED
  BY <1>2, <1>3, <1>6 DEF on_tick_per_slot, on_tick, ticked

(* A tick and then a later one do what the later one does. *)
LEMMA TicksCompose ==
  ASSUME NEW s \in Store, NEW now \in Nat, NEW time \in Nat,
         s.time <= now, now <= time
  PROVE  on_tick(on_tick(s, now), time) = on_tick(s, time)
<1> DEFINE t == on_tick(s, now)
           u == on_tick(t, time)
           v == on_tick(s, time)
<1> HIDE DEF t, u, v
<1>a. TickedTo(s, now, t) /\ TickedTo(s, time, v)
  BY Ticks DEF t, v
<1>1. /\ DiffersIn(t, s, Realizing \cup {"time", "proposer_boost_root"})
      /\ t.time = now
      /\ t.proposer_boost_root = IF SlotOf(now) > SlotOf(s.time)
                                 THEN ZeroRoot ELSE s.proposer_boost_root
      /\ IF EpochOf(now) > EpochOf(s.time)
         THEN /\ t.justified_checkpoint =
                   Later(s.justified_checkpoint, s.unrealized_justified_checkpoint)
              /\ t.finalized_checkpoint =
                   Later(s.finalized_checkpoint, s.unrealized_finalized_checkpoint)
         ELSE /\ t.justified_checkpoint = s.justified_checkpoint
              /\ t.finalized_checkpoint = s.finalized_checkpoint
  BY <1>a DEF TickedTo
<1>2. t \in Store /\ t.time \in Nat
  BY <1>1 DEF DiffersIn
<1>b. TickedTo(t, time, u)
  BY <1>2, Ticks DEF u
<1>3. /\ DiffersIn(u, t, Realizing \cup {"time", "proposer_boost_root"})
      /\ u.time = time
      /\ u.proposer_boost_root = IF SlotOf(time) > SlotOf(t.time)
                                 THEN ZeroRoot ELSE t.proposer_boost_root
      /\ IF EpochOf(time) > EpochOf(t.time)
         THEN /\ u.justified_checkpoint =
                   Later(t.justified_checkpoint, t.unrealized_justified_checkpoint)
              /\ u.finalized_checkpoint =
                   Later(t.finalized_checkpoint, t.unrealized_finalized_checkpoint)
         ELSE /\ u.justified_checkpoint = t.justified_checkpoint
              /\ u.finalized_checkpoint = t.finalized_checkpoint
  BY <1>b DEF TickedTo
<1>4. /\ DiffersIn(v, s, Realizing \cup {"time", "proposer_boost_root"})
      /\ v.time = time
      /\ v.proposer_boost_root = IF SlotOf(time) > SlotOf(s.time)
                                 THEN ZeroRoot ELSE s.proposer_boost_root
      /\ IF EpochOf(time) > EpochOf(s.time)
         THEN /\ v.justified_checkpoint =
                   Later(s.justified_checkpoint, s.unrealized_justified_checkpoint)
              /\ v.finalized_checkpoint =
                   Later(s.finalized_checkpoint, s.unrealized_finalized_checkpoint)
         ELSE /\ v.justified_checkpoint = s.justified_checkpoint
              /\ v.finalized_checkpoint = s.finalized_checkpoint
  BY <1>a DEF TickedTo
<1>5. /\ SlotOf(s.time) <= SlotOf(now) /\ SlotOf(now) <= SlotOf(time)
      /\ EpochOf(s.time) <= EpochOf(now) /\ EpochOf(now) <= EpochOf(time)
      /\ {SlotOf(s.time), SlotOf(now), SlotOf(time)} \subseteq Nat
      /\ {EpochOf(s.time), EpochOf(now), EpochOf(time)} \subseteq Nat
  BY Clock DEF Store
<1>6. /\ t.unrealized_justified_checkpoint = s.unrealized_justified_checkpoint
      /\ t.unrealized_finalized_checkpoint = s.unrealized_finalized_checkpoint
      /\ DOMAIN t = DOMAIN s /\ DOMAIN u = DOMAIN s /\ DOMAIN v = DOMAIN s
  BY <1>1, <1>3, <1>4 DEF DiffersIn, Realizing, Store
<1>7. ASSUME NEW c \in StoreCheckpoint, NEW d \in StoreCheckpoint
      PROVE  Later(Later(c, d), d) = Later(c, d)
  BY DEF Later, StoreCheckpoint
<1>8. u.time = v.time /\ u.proposer_boost_root = v.proposer_boost_root
  BY <1>1, <1>3, <1>4, <1>5
<1>9. /\ {s.justified_checkpoint, s.finalized_checkpoint, s.unrealized_justified_checkpoint,
          s.unrealized_finalized_checkpoint} \subseteq StoreCheckpoint
  BY DEF Store
<1>10. /\ u.justified_checkpoint = v.justified_checkpoint
       /\ u.finalized_checkpoint = v.finalized_checkpoint
  <2>1. /\ Later(Later(s.justified_checkpoint, s.unrealized_justified_checkpoint),
                 s.unrealized_justified_checkpoint)
             = Later(s.justified_checkpoint, s.unrealized_justified_checkpoint)
        /\ Later(Later(s.finalized_checkpoint, s.unrealized_finalized_checkpoint),
                 s.unrealized_finalized_checkpoint)
             = Later(s.finalized_checkpoint, s.unrealized_finalized_checkpoint)
    BY <1>7, <1>9
  <2> QED
    BY <2>1, <1>1, <1>3, <1>4, <1>5, <1>6
<1>11. ASSUME NEW x \in DOMAIN s PROVE u[x] = v[x]
  <2>1. CASE x \in Realizing \cup {"time", "proposer_boost_root"}
    BY <2>1, <1>8, <1>10 DEF Realizing
  <2>2. CASE x \notin Realizing \cup {"time", "proposer_boost_root"}
    BY <2>2, <1>1, <1>3, <1>4, <1>6 DEF DiffersIn
  <2> QED
    BY <2>1, <2>2
<1>12. u \in Store /\ v \in Store
  BY <1>3, <1>4 DEF DiffersIn
<1> QED
  BY <1>6, <1>11, <1>12, SameStore DEF t, u, v

TickStep(a, s, n) == on_tick_per_slot(s, genesis_time + n * SECONDS_PER_SLOT)
Ticking == INSTANCE FoldOf WITH op <- TickStep

LEMMA TickingInducts == Ticking!NatInduction
BY NatSetInduction DEF Ticking!NatInduction

(* The loop of on_tick is the one step. *)
LEMMA SlotBySlot ==
  ASSUME NEW s \in Store, NEW time \in Nat, s.time <= time
  PROVE  on_tick_slot_by_slot(s, time) = on_tick(s, time)
<1> DEFINE now == SlotOf(s.time)
           tick_slot == SlotOf(time)
           D == now..tick_slot
           Slots(f) == f = [n \in D |->
                              IF n = now THEN s
                              ELSE on_tick_per_slot(f[n - 1], genesis_time + n * SECONDS_PER_SLOT)]
           at_slot == CHOOSE f : Slots(f)
           Start(n) == SECONDS_PER_SLOT * n
<1>1. s.time \in Nat /\ now \in Nat /\ tick_slot \in Nat /\ now <= tick_slot
  BY Clock DEF Store
<1>2. /\ get_current_slot(s) = now
      /\ (time - genesis_time) \div SECONDS_PER_SLOT = tick_slot
  <2>1. time - 0 = time
    OBVIOUS
  <2> QED
    BY <1>1, <2>1, StoreClock DEF genesis_time, SlotOf
<1>3. on_tick_slot_by_slot(s, time) = on_tick_per_slot(at_slot[tick_slot], time)
  BY <1>2 DEF on_tick_slot_by_slot
<1>4. Slots(at_slot)
  <2> DEFINE base == [n \in {now} |-> s]
             next == [n \in D |-> n - 1]
             left == [n \in D |-> n - now]
  <2> HIDE DEF now, tick_slot
  <2>1. \A n \in D : left[n] \in Nat
    BY <1>1
  <2>2. \A n \in D \ {now} : next[n] \in D /\ left[next[n]] < left[n]
    BY <1>1
  <2>3. PICK f : Ticking!Walk(0, D, {now}, base, next, f)
    <3> HIDE DEF D, base, next, left
    <3> QED
      BY <2>1, <2>2, Ticking!WalkExists, TickingInducts
  <2>4. Slots(f)
    <3>1. f = [n \in D |-> IF n \in {now} THEN base[n] ELSE TickStep(0, f[next[n]], n)]
      BY <2>3 DEF Ticking!Walk
    <3> QED
      BY <3>1 DEF TickStep
  <2> HIDE DEF Slots
  <2> QED
    BY <2>4
<1> HIDE DEF at_slot
<1>5. ASSUME NEW n \in Nat
      PROVE  /\ Start(n) \in Nat /\ SlotOf(Start(n)) = n
             /\ genesis_time + n * SECONDS_PER_SLOT = Start(n)
  <2>1. SECONDS_PER_SLOT \in Nat
    BY ConfigAssumption
  <2>2. n * SECONDS_PER_SLOT = SECONDS_PER_SLOT * n /\ SECONDS_PER_SLOT * n \in Nat
    BY <2>1
  <2> QED
    BY <2>2, Clock DEF genesis_time
<1>6. ASSUME NEW n \in Nat, NEW t \in Nat, n > SlotOf(t) PROVE t <= Start(n)
  <2>1. Start(n) \in Nat /\ SlotOf(Start(n)) = n
    BY <1>5
  <2>2. Start(n) < t => SlotOf(Start(n)) <= SlotOf(t)
    BY <2>1, Clock
  <2>3. SlotOf(t) \in Nat
    BY Clock
  <2> HIDE DEF Start
  <2> QED
    BY <2>1, <2>2, <2>3, <1>6
<1>7. ASSUME NEW n \in Nat, NEW t \in Nat, n <= SlotOf(t) PROVE Start(n) <= t
  <2>1. SECONDS_PER_SLOT \in Nat \ {0}
    BY ConfigAssumption
  <2>2. SECONDS_PER_SLOT * (t \div SECONDS_PER_SLOT) <= t /\ t \div SECONDS_PER_SLOT \in Nat
    BY <2>1, SMTT(30)
  <2> DEFINE q == t \div SECONDS_PER_SLOT
  <2>3. n <= q
    BY <1>7 DEF SlotOf
  <2> HIDE DEF q
  <2>4. SECONDS_PER_SLOT * n <= SECONDS_PER_SLOT * q
    BY <2>1, <2>2, <2>3, SMTT(30) DEF q
  <2> QED
    BY <2>1, <2>2, <2>4, SMTT(30) DEF q
<1> DEFINE Good(n) == at_slot[n] = IF n = now THEN s ELSE on_tick(s, Start(n))
           S == {n \in Nat : n + now \in D => Good(n + now)}
<1> HIDE DEF now, tick_slot
<1>8. 0 \in S
  BY <1>1, <1>4
<1>9. ASSUME NEW k \in Nat, k \in S PROVE k + 1 \in S
  <2> DEFINE n == (k + 1) + now
  <2> SUFFICES ASSUME n \in D PROVE Good(n)
    OBVIOUS
  <2>1. n \in Nat /\ n # now /\ n - 1 = k + now /\ n - 1 \in D /\ n - 1 \in Nat
    BY <1>1
  <2>2. Good(n - 1)
    BY <1>9, <2>1
  <2> DEFINE t == at_slot[n - 1]
  <2>3. at_slot[n] = on_tick_per_slot(t, Start(n))
    BY <1>4, <1>5, <2>1
  <2>4. Start(n) \in Nat /\ SlotOf(Start(n)) = n
    BY <1>5, <2>1
  <2>5. CASE n - 1 = now
    <3>1. t = s
      BY <2>2, <2>5
    <3>2. SlotOf(Start(n)) \in {SlotOf(s.time), SlotOf(s.time) + 1}
      BY <2>4, <2>5, <2>1, <1>1 DEF now
    <3> QED
      BY <2>1, <2>3, <2>4, <3>1, <3>2, OneSlot
  <2>6. CASE n - 1 # now
    <3>1. t = on_tick(s, Start(n - 1))
      BY <2>2, <2>6
    <3>2. Start(n - 1) \in Nat /\ SlotOf(Start(n - 1)) = n - 1
      BY <1>5, <2>1
    <3>3. t \in Store /\ t.time = Start(n - 1)
      <4> DEFINE m == Start(n - 1)
      <4>1. t = on_tick(s, m) /\ m \in Nat
        BY <3>1, <3>2
      <4> HIDE DEF t, m
      <4>2. t.time = m /\ DiffersIn(t, s, Realizing \cup {"time", "proposer_boost_root"})
        BY <4>1, Ticked
      <4> QED
        BY <4>2 DEF DiffersIn, m
    <3>4. n - 1 > now /\ n > n - 1
      BY <2>1, <2>6, <1>1
    <3>5. s.time <= Start(n - 1)
      BY <3>4, <2>1, <1>1, <1>6 DEF now
    <3>6. Start(n - 1) <= Start(n)
      <4>1. n > SlotOf(Start(n - 1))
        BY <3>2, <3>4
      <4> QED
        BY <4>1, <3>2, <2>1, <1>6
    <3>7. on_tick_per_slot(t, Start(n)) = on_tick(t, Start(n))
      <4>1. SlotOf(Start(n)) \in {SlotOf(t.time), SlotOf(t.time) + 1}
        BY <3>2, <3>3, <2>4, <2>1
      <4> HIDE DEF t, Start
      <4> QED
        BY <4>1, <3>3, <2>4, OneSlot
    <3>8. on_tick(t, Start(n)) = on_tick(s, Start(n))
      <4> HIDE DEF t, Start, n
      <4> QED
        BY <3>1, <3>2, <3>5, <3>6, <2>4, <1>1, TicksCompose
    <3> QED
      BY <2>3, <2>1, <3>7, <3>8
  <2> QED
    BY <2>5, <2>6
<1>10. Nat \subseteq S
  <2> HIDE DEF S
  <2> QED
    BY <1>8, <1>9, NatSetInduction
<1>11. Good(tick_slot)
  <2>1. tick_slot - now \in Nat /\ (tick_slot - now) + now = tick_slot /\ tick_slot \in D
    BY <1>1
  <2> HIDE DEF Good, D
  <2> QED
    BY <2>1, <1>10
<1> DEFINE t == at_slot[tick_slot]
<1>12. CASE tick_slot = now
  <2>1. t = s
    BY <1>11, <1>12
  <2>2. SlotOf(time) \in {SlotOf(s.time), SlotOf(s.time) + 1}
    BY <1>12 DEF tick_slot, now
  <2> QED
    BY <1>3, <2>1, <2>2, OneSlot
<1>13. CASE tick_slot # now
  <2>1. t = on_tick(s, Start(tick_slot))
    BY <1>11, <1>13
  <2>2. Start(tick_slot) \in Nat /\ SlotOf(Start(tick_slot)) = tick_slot
    BY <1>5, <1>1
  <2>3. s.time <= Start(tick_slot)
    BY <1>1, <1>6, <1>13 DEF now
  <2>4. Start(tick_slot) <= time
    BY <1>1, <1>7 DEF tick_slot
  <2> HIDE DEF t, Start
  <2>5. t \in Store /\ t.time = Start(tick_slot)
    BY <2>1, <2>2, Ticked DEF DiffersIn
  <2>6. on_tick_per_slot(t, time) = on_tick(t, time)
    BY <2>2, <2>5, OneSlot DEF tick_slot
  <2> QED
    BY <1>3, <1>1, <2>1, <2>2, <2>3, <2>4, <2>6, TicksCompose DEF t
<1> QED
  BY <1>12, <1>13

(* However far the clock of a store is behind, one tick does what the loop *)
(* of on_tick does slot by slot.                                           *)
THEOREM TicksCatchUp == Spec => []CatchUp
<1>1. IInv => CatchUp
  <2> SUFFICES ASSUME IInv, NEW time \in Times, time > store.time
               PROVE  on_tick(store, time) = on_tick_slot_by_slot(store, time)
    BY DEF CatchUp
  <2>1. store \in Store /\ store.time \in Nat /\ time \in Nat
    BY TimesAssumption DEF IInv, SoundStore, Store
  <2> QED
    BY <2>1, SlotBySlot
<1> QED
  BY <1>1, AlwaysSound, PTL

-----------------------------------------------------------------------------
(* The tree of received blocks. *)

(* The received blocks make a tree, and each has what it justifies once    *)
(* pulled up on record.                                                    *)
TreeSound(s) ==
  /\ IsFiniteSet(s.blocks)
  /\ anchor \in s.blocks
  /\ \A r \in s.blocks \ {anchor} : block[r].parent_root \in s.blocks
  /\ \A r \in s.blocks : s.unrealized_justifications[r] =
                           IF r = anchor THEN AnchorCheckpoint ELSE JustifiedPulledUp[r]

(* It is so at the start, *)
LEMMA InitTree == Init => TreeSound(store)
<1> SUFFICES ASSUME Init PROVE TreeSound(store)
  OBVIOUS
<1>1. /\ store.blocks = {anchor}
      /\ store.unrealized_justifications = [r \in {anchor} |-> AnchorCheckpoint]
  BY DEF Init, get_forkchoice_store
<1>2. IsFiniteSet({anchor})
  BY FS_Singleton
<1> QED
  BY <1>1, <1>2 DEF TreeSound

(* stays so, whichever handler runs, *)
LEMMA StepTree == IInv /\ TreeSound(store) /\ [Next]_store => TreeSound(store')
<1> SUFFICES ASSUME IInv, TreeSound(store), [Next]_store PROVE TreeSound(store')
  OBVIOUS
<1>0. store \in Store /\ DOMAIN store.unrealized_justifications = store.blocks
  BY DEF IInv, SoundStore, KeysMatch
<1>1. ASSUME NEW time \in Times, Tick(time) PROVE TreeSound(store')
  <2>1. time \in Nat /\ store' = on_tick(store, time)
    BY <1>1, TimesAssumption DEF Tick
  <2>2. DiffersIn(store', store, Realizing \cup {"time", "proposer_boost_root"})
    BY <1>0, <2>1, Ticked
  <2>3. /\ store'.blocks = store.blocks
        /\ store'.unrealized_justifications = store.unrealized_justifications
    BY <1>0, <2>2 DEF DiffersIn, Realizing, Store
  <2> QED
    BY <2>3 DEF TreeSound
<1>2. ASSUME NEW r \in Blocks \ {anchor}, ReceiveBlock(r) PROVE TreeSound(store')
  <2>1. /\ store' = on_block(store, r)
        /\ block[r].parent_root \in store.blocks
    BY <1>2 DEF ReceiveBlock, is_acceptable_block
  <2>2. /\ store'.blocks = store.blocks \cup {r}
        /\ \A x \in DOMAIN store.unrealized_justifications \cup {r} :
             store'.unrealized_justifications[x] =
               IF x = r THEN JustifiedPulledUp[r] ELSE store.unrealized_justifications[x]
    BY <1>0, <2>1, BlockReceived
  <2>3. IsFiniteSet(store.blocks \cup {r})
    BY FS_AddElement DEF TreeSound
  <2> QED
    BY <1>0, <2>1, <2>2, <2>3 DEF TreeSound
<1>4. ASSUME NEW a, WellFormed(a), NEW b \in BOOLEAN, is_acceptable_attestation(store, a, b),
             store' = on_attestation(store, a)
      PROVE  TreeSound(store')
  <2>1. a.target.root \in Blocks /\ a.beacon_block_root \in Blocks
    BY <1>0, <1>4 DEF is_acceptable_attestation, Store
  <2>2. DiffersIn(store', store, {"checkpoint_states", "latest_messages"})
    BY <1>0, <1>4, <2>1, AttestationReceived
  <2>3. /\ store'.blocks = store.blocks
        /\ store'.unrealized_justifications = store.unrealized_justifications
    BY <1>0, <2>2 DEF DiffersIn, Store
  <2> QED
    BY <2>3 DEF TreeSound
<1>5. ASSUME NEW e \in AttesterSlashings, ReceiveSlashing(e) PROVE TreeSound(store')
  <2>1. DiffersIn(store', store, {"equivocating_indices"})
    BY <1>0, <1>5, MessagesAssumption, SlashingReceived DEF ReceiveSlashing
  <2>2. /\ store'.blocks = store.blocks
        /\ store'.unrealized_justifications = store.unrealized_justifications
    BY <1>0, <2>1 DEF DiffersIn, Store
  <2> QED
    BY <2>2 DEF TreeSound
<1>6. ASSUME NEW a \in WireAttestations, ReceiveAttestation(a) PROVE TreeSound(store')
  <2>1. WellFormed(a)
    BY MessagesAssumption
  <2> QED
    BY <1>4, <1>6, <2>1 DEF ReceiveAttestation
<1>7. ASSUME NEW r \in Blocks, NEW a \in block[r].attestations, ReceiveBlockAttestation(r, a)
      PROVE  TreeSound(store')
  BY <1>4, <1>7, BlockAttestationsAreWellFormed DEF ReceiveBlockAttestation
<1>8. CASE UNCHANGED store
  BY <1>8
<1> QED
  BY <1>1, <1>2, <1>5, <1>6, <1>7, <1>8 DEF Next

(* and so always. *)
LEMMA AlwaysTree == Spec => []TreeSound(store)
<1>1. Init => TreeSound(store)
  BY InitTree
<1>2. IInv /\ TreeSound(store) /\ [Next]_store => TreeSound(store)'
  BY StepTree
<1> QED
  BY <1>1, <1>2, AlwaysSound, PTL DEF Spec

(* What was received is closed under ancestors. *)
LEMMA ChainReceived ==
  ASSUME NEW s, TreeSound(s), NEW r \in Blocks, r \in s.blocks
  PROVE  chain[r] \subseteq s.blocks
<1> DEFINE S == {q \in Blocks : q \in s.blocks => chain[q] \subseteq s.blocks}
<1>1. anchor \in S
  <2>1. anchor \in Blocks
    BY BlockTreeAssumption
  <2>2. chain[anchor] = {anchor}
    BY <2>1, ChainIs
  <2> QED
    BY <2>1, <2>2
<1>2. ASSUME NEW q \in Blocks \ {anchor}, block[q].parent_root \in S PROVE q \in S
  <2>1. chain[q] = {q} \cup chain[block[q].parent_root]
    BY ChainIs
  <2> QED
    BY <1>2, <2>1 DEF TreeSound
<1>3. Blocks \subseteq S
  <2> HIDE DEF S
  <2> QED
    BY <1>1, <1>2, BlockInduction
<1> QED
  BY <1>3

(* What a received block has if all its received children have it, every   *)
(* received block has.                                                     *)
LEMMA TowardsLeaves ==
  ASSUME NEW s \in Store, BlocksInTime(s), NEW S,
         \A r \in s.blocks : Children(s.blocks, r) \subseteq S => r \in S
  PROVE  s.blocks \subseteq S
<1> DEFINE last == get_current_slot(s)
           T == {n \in Nat : \A r \in s.blocks : last - block[r].slot < n => r \in S}
<1>0. /\ last \in Nat /\ s.blocks \subseteq Blocks
      /\ \A r \in s.blocks : block[r].slot \in Nat /\ block[r].slot <= last
  <2>1. s.time \in Nat /\ s.blocks \subseteq Blocks
    BY DEF Store
  <2> QED
    BY <2>1, StoreClock, Clock, BlockFacts DEF BlocksInTime
<1> HIDE DEF last
<1>1. 0 \in T
  BY <1>0
<1>2. ASSUME NEW n \in Nat, n \in T PROVE n + 1 \in T
  <2> SUFFICES ASSUME NEW r \in s.blocks, last - block[r].slot < n + 1 PROVE r \in S
    OBVIOUS
  <2>1. ASSUME NEW c \in Children(s.blocks, r) PROVE c \in S
    <3>1. c \in s.blocks /\ c \in Blocks \ {anchor} /\ block[c].parent_root = r
      BY <1>0 DEF Children
    <3>2. block[r].slot < block[c].slot
      BY <3>1, BlockTreeAssumption
    <3>3. last - block[c].slot < n
      BY <1>0, <3>1, <3>2
    <3> QED
      BY <1>2, <3>1, <3>3
  <2> QED
    BY <2>1
<1>3. Nat \subseteq T
  <2> HIDE DEF T
  <2> QED
    BY <1>1, <1>2, NatSetInduction
<1> QED
  <2> SUFFICES ASSUME NEW r \in s.blocks PROVE r \in S
    OBVIOUS
  <2>1. last - block[r].slot \in Nat /\ (last - block[r].slot) + 1 \in T
    BY <1>0, <1>3
  <2> QED
    BY <2>1

(* Below every received block there is a leaf. *)
LEMMA LeafBelow ==
  ASSUME NEW s \in Store, BlocksInTime(s), NEW r \in s.blocks
  PROVE  \E leaf \in s.blocks : Children(s.blocks, leaf) = {} /\ Descends(leaf, r)
<1> DEFINE S == {q \in s.blocks : \E leaf \in s.blocks :
                    Children(s.blocks, leaf) = {} /\ Descends(leaf, q)}
<1>0. s.blocks \subseteq Blocks
  BY DEF Store
<1>1. ASSUME NEW q \in s.blocks, Children(s.blocks, q) \subseteq S PROVE q \in S
  <2>1. CASE Children(s.blocks, q) = {}
    BY <1>0, <2>1, Chains DEF Descends
  <2>2. CASE Children(s.blocks, q) # {}
    <3>1. PICK c \in Children(s.blocks, q) : TRUE
      BY <2>2
    <3>2. c \in s.blocks /\ c \in Blocks \ {anchor} /\ block[c].parent_root = q
      BY <1>0, <3>1 DEF Children
    <3>3. PICK leaf \in s.blocks : Children(s.blocks, leaf) = {} /\ Descends(leaf, c)
      BY <1>1, <3>1
    <3>4. chain[c] = {c} \cup chain[q] /\ q \in chain[q]
      BY <1>0, <3>2, ChainIs, Chains
    <3>5. chain[c] \subseteq chain[leaf]
      BY <1>0, <3>3, Chains DEF Descends
    <3> QED
      BY <3>3, <3>4, <3>5 DEF Descends
  <2> QED
    BY <2>1, <2>2
<1>2. s.blocks \subseteq S
  <2> HIDE DEF S
  <2> QED
    BY <1>1, TowardsLeaves
<1> QED
  BY <1>2

-----------------------------------------------------------------------------
(* Fractions of a committee are numbers, and grow with the percentage.     *)
LEMMA Weights ==
  /\ \A pct \in Nat : calculate_committee_fraction(pct) \in Nat
  /\ \A p, q \in Nat : p <= q => calculate_committee_fraction(p) <= calculate_committee_fraction(q)
  /\ get_proposer_score \in Nat
<1> DEFINE share == total_active_balance \div SLOTS_PER_EPOCH
<1>1. total_active_balance \in Nat
  BY BalanceAssumption, IncrementAssumption DEF total_active_balance, get_total_balance
<1>2. share \in Nat
  BY <1>1, BlockTreeAssumption, DivisionMonotone
<1> HIDE DEF share
<1>3. ASSUME NEW p \in Nat PROVE share * p \in Nat /\ (share * p) \div 100 \in Nat
  <2>1. share * p \in Nat
    BY <1>2
  <2> DEFINE x == share * p
  <2> HIDE DEF x
  <2>2. x \div 100 \in Nat
    BY <2>1, SMTT(30) DEF x
  <2> QED
    BY <2>1, <2>2 DEF x
<1>4. ASSUME NEW p \in Nat, NEW q \in Nat, p <= q
      PROVE  (share * p) \div 100 <= (share * q) \div 100
  <2>1. share * p <= share * q
    BY <1>2, <1>4, SMTT(30)
  <2> QED
    BY <1>3, <2>1, DivisionMonotone
<1> QED
  BY <1>3, <1>4, ConfigAssumption DEF calculate_committee_fraction, get_proposer_score, share

(* Only validators support a block, and what they hold is a number. *)
LEMMA SupportersAre ==
  ASSUME NEW s \in Store, NEW r
  PROVE  Supporters(s, r) \in SUBSET Validators /\ Balance[Supporters(s, r)] \in Nat
<1>1. DOMAIN s.latest_messages \subseteq Validators
  BY DEF Store
<1>2. Supporters(s, r) \in SUBSET Validators
  BY <1>1 DEF Supporters
<1> QED
  BY <1>2, BalanceAssumption

(* Weights are numbers. *)
LEMMA WeightType ==
  ASSUME NEW s \in Store, NEW r
  PROVE  get_weight(s, r) \in Nat
BY SupportersAre, Weights DEF get_weight

(* The block get_head takes of the blocks in S. *)
Heaviest(s, S, c) == c \in S /\ \A x \in S \ {c} : Heavier(s, c, x)

(* Of finitely many blocks one is the heaviest, roots breaking ties, *)
LEMMA HeaviestExists ==
  ASSUME NEW s \in Store, NEW S \in SUBSET Blocks, IsFiniteSet(S), S # {}
  PROVE  \E c : Heaviest(s, S, c)
<1> DEFINE T == {n \in Nat : \A X \in SUBSET Blocks :
                   IsFiniteSet(X) /\ Cardinality(X) = n /\ X # {} => \E c : Heaviest(s, X, c)}
<1>1. 0 \in T
  BY FS_EmptySet
<1>2. ASSUME NEW n \in Nat, n \in T PROVE n + 1 \in T
  <2> SUFFICES ASSUME NEW X \in SUBSET Blocks, IsFiniteSet(X), Cardinality(X) = n + 1, X # {}
               PROVE  \E c : Heaviest(s, X, c)
    OBVIOUS
  <2>1. PICK x \in X : TRUE
    OBVIOUS
  <2> DEFINE Y == X \ {x}
  <2>2. IsFiniteSet(Y) /\ Cardinality(Y) = n /\ Y \in SUBSET Blocks
    <3> DEFINE k == Cardinality(Y)
    <3>1. IsFiniteSet(Y) /\ k = (n + 1) - 1 /\ Y \in SUBSET Blocks
      BY <2>1, FS_RemoveElement
    <3> HIDE DEF k, Y
    <3>2. k = n
      BY <3>1
    <3> QED
      BY <3>1, <3>2 DEF k
  <2>3. CASE Y = {}
    <3>1. Heaviest(s, X, x)
      BY <2>1, <2>3 DEF Heaviest
    <3> QED
      BY <3>1
  <2>4. CASE Y # {}
    <3>1. PICK c : Heaviest(s, Y, c)
      BY <1>2, <2>2, <2>4
    <3>2. \A y \in X : y \in Nat /\ get_weight(s, y) \in Nat
      BY BlockFacts, WeightType
    <3>3. c \in X /\ c # x
      BY <3>1 DEF Heaviest
    <3>4. CASE Heavier(s, c, x)
      <4>1. Heaviest(s, X, c)
        BY <3>1, <3>4 DEF Heaviest
      <4> QED
        BY <4>1
    <3>5. CASE ~ Heavier(s, c, x)
      <4>1. Heavier(s, x, c)
        BY <2>1, <3>2, <3>3, <3>5 DEF Heavier
      <4>2. ASSUME NEW y \in X \ {x} PROVE Heavier(s, x, y)
        <5>1. CASE y = c
          BY <4>1, <5>1
        <5>2. CASE y # c
          <6>1. Heavier(s, c, y)
            BY <3>1, <5>2 DEF Heaviest
          <6> QED
            BY <2>1, <3>2, <3>3, <4>1, <6>1 DEF Heavier
        <5> QED
          BY <5>1, <5>2
      <4>3. Heaviest(s, X, x)
        BY <2>1, <4>2 DEF Heaviest
      <4> QED
        BY <4>3
    <3> QED
      BY <3>4, <3>5
  <2> QED
    BY <2>3, <2>4
<1>3. Nat \subseteq T
  <2> HIDE DEF T
  <2> QED
    BY <1>1, <1>2, NatSetInduction
<1>4. Cardinality(S) \in T
  BY <1>3, FS_CardinalityType
<1> QED
  BY <1>4

(* and only one. *)
LEMMA OneHeaviest ==
  ASSUME NEW s \in Store, NEW S \in SUBSET Blocks, NEW c, NEW d,
         Heaviest(s, S, c), Heaviest(s, S, d)
  PROVE  c = d
<1> SUFFICES ASSUME c # d PROVE FALSE
  OBVIOUS
<1>1. c \in S /\ d \in S /\ Heavier(s, c, d) /\ Heavier(s, d, c)
  BY DEF Heaviest
<1>2. c \in Nat /\ d \in Nat /\ get_weight(s, c) \in Nat /\ get_weight(s, d) \in Nat
  BY <1>1, BlockFacts, WeightType
<1> QED
  BY <1>1, <1>2 DEF Heavier

-----------------------------------------------------------------------------
(* The filtered tree, and the walk to the head. *)

(* The leaves that get_filtered_block_tree accepts, and what it keeps for  *)
(* their sake.                                                             *)
Viable(s, leaf) ==
  /\ leaf \in s.blocks
  /\ Children(s.blocks, leaf) = {}
  /\ Descends(leaf, s.justified_checkpoint.root)
  /\ correct_justified(s, leaf)
  /\ correct_finalized(s, leaf)

Filtered(s) == get_filtered_block_tree(s)

(* A block is kept for a viable leaf below it. *)
LEMMA FilteredAre ==
  ASSUME NEW s, NEW r
  PROVE  r \in Filtered(s) <=>
           /\ r \in s.blocks /\ Descends(r, s.justified_checkpoint.root)
           /\ \E leaf : Viable(s, leaf) /\ Descends(leaf, r)
BY DEF Filtered, Viable, get_filtered_block_tree

(* get_head's walk: to the best child of each block, or to stay there. *)
BestChild(s, r) ==
  CHOOSE c \in Children(Filtered(s), r) :
    \A x \in Children(Filtered(s), r) \ {c} : Heavier(s, c, x)

Ghost(s, f) ==
  f = [r \in Blocks |-> IF Children(Filtered(s), r) = {} THEN r ELSE f[BestChild(s, r)]]

GhostStep(a, head, r) == head
Descending == INSTANCE FoldOf WITH op <- GhostStep

LEMMA DescendingInducts == Descending!NatInduction
BY NatSetInduction DEF Descending!NatInduction

ghost(s) == CHOOSE f : Ghost(s, f)

(* get_head walks from the justified block. *)
LEMMA HeadIsGhost ==
  ASSUME NEW s
  PROVE  get_head(s) = ghost(s)[s.justified_checkpoint.root]
BY DEF get_head, ghost, Ghost, BestChild, Filtered

(* Where a kept block has kept children, the CHOOSE of get_head finds the  *)
(* heaviest of them.                                                       *)
LEMMA FilteredChildren ==
  ASSUME NEW s \in Store, IsFiniteSet(s.blocks), NEW r \in Blocks
  PROVE  /\ Children(Filtered(s), r) \subseteq Filtered(s) \ {anchor}
         /\ Filtered(s) \subseteq s.blocks
         /\ Children(Filtered(s), r) \in SUBSET Blocks
         /\ \A c \in Children(Filtered(s), r) : block[c].parent_root = r
         /\ Children(Filtered(s), r) # {} =>
              /\ BestChild(s, r) \in Children(Filtered(s), r)
              /\ Heaviest(s, Children(Filtered(s), r), BestChild(s, r))
<1> DEFINE S == Children(Filtered(s), r)
<1>1. S \subseteq Filtered(s) \ {anchor} /\ \A c \in S : block[c].parent_root = r
  BY DEF Children
<1>2. Filtered(s) \subseteq s.blocks /\ s.blocks \subseteq Blocks
  BY FilteredAre DEF Store
<1>3. S \in SUBSET s.blocks /\ S \in SUBSET Blocks
  BY <1>1, <1>2
<1>4. BestChild(s, r) = CHOOSE c \in S : \A x \in S \ {c} : Heavier(s, c, x)
  BY DEF BestChild
<1> HIDE DEF S
<1>5. IsFiniteSet(S)
  BY <1>3, FS_Subset
<1>6. ASSUME S # {} PROVE Heaviest(s, S, BestChild(s, r))
  <2>1. PICK d : Heaviest(s, S, d)
    BY <1>3, <1>5, <1>6, HeaviestExists
  <2>2. \E c \in S : \A x \in S \ {c} : Heavier(s, c, x)
    BY <2>1 DEF Heaviest
  <2> QED
    BY <1>4, <2>2 DEF Heaviest
<1> QED
  BY <1>1, <1>2, <1>3, <1>6 DEF S, Heaviest

(* The walk is defined: every step goes to a later slot, and no received   *)
(* block is of a slot later than the clock.                                *)
LEMMA GhostIs ==
  ASSUME NEW s \in Store, BlocksInTime(s), IsFiniteSet(s.blocks)
  PROVE  Ghost(s, ghost(s))
<1> DEFINE F == Filtered(s)
           last == get_current_slot(s)
           Z == {r \in Blocks : Children(F, r) = {}}
           base == [r \in Blocks |-> r]
           next == [r \in Blocks |-> BestChild(s, r)]
           left == [r \in Blocks |-> IF block[r].slot <= last THEN last - block[r].slot ELSE 0]
<1>0. last \in Nat /\ \A r \in Blocks : block[r].slot \in Nat
  BY StoreClock, Clock, BlockFacts DEF Store
<1>1. \A r \in Blocks : left[r] \in Nat
  <2> HIDE DEF last
  <2> QED
    BY <1>0
<1>2. ASSUME NEW r \in Blocks \ Z PROVE next[r] \in Blocks /\ left[next[r]] < left[r]
  <2> DEFINE c == BestChild(s, r)
  <2>1. c \in Children(F, r) /\ c \in Blocks \ {anchor} /\ c \in s.blocks
        /\ block[c].parent_root = r
    BY FilteredChildren
  <2>2. next[r] = c
    OBVIOUS
  <2> HIDE DEF c
  <2>3. block[c].slot <= last /\ block[r].slot < block[c].slot
    BY <2>1, BlockTreeAssumption DEF BlocksInTime
  <2>4. left[c] = last - block[c].slot
    BY <2>1, <2>3
  <2> HIDE DEF last
  <2> QED
    BY <1>0, <2>1, <2>2, <2>3, <2>4
<1>3. PICK f : Descending!Walk(0, Blocks, Z, base, next, f)
  <2> HIDE DEF Z, base, next, left
  <2> QED
    BY <1>1, <1>2, Descending!WalkExists, DescendingInducts
<1>4. Ghost(s, f)
  <2>1. f = [r \in Blocks |-> IF r \in Z THEN base[r] ELSE GhostStep(0, f[next[r]], r)]
    BY <1>3 DEF Descending!Walk
  <2> QED
    BY <2>1 DEF GhostStep, Ghost
<1>5. \E g : Ghost(s, g)
  BY <1>4
<1> QED
  <2> HIDE DEF Z, base, next, left, last, F
  <2> QED
    BY <1>5 DEF ghost

(* A leaf of the filtered tree is a viable leaf of the received tree: the  *)
(* filter takes whole branches.                                            *)
LEMMA FilteredLeaf ==
  ASSUME NEW s \in Store, TreeSound(s), NEW r \in Filtered(s), Children(Filtered(s), r) = {}
  PROVE  Viable(s, r)
<1>1. /\ r \in s.blocks /\ Descends(r, s.justified_checkpoint.root)
      /\ \E leaf : Viable(s, leaf) /\ Descends(leaf, r)
  BY FilteredAre
<1>2. PICK leaf : Viable(s, leaf) /\ Descends(leaf, r)
  BY <1>1
<1>3. s.blocks \subseteq Blocks /\ leaf \in s.blocks
  BY <1>2 DEF Viable, Store
<1>4. SUFFICES ASSUME leaf # r PROVE FALSE
  BY <1>2
<1>5. PICK c \in chain[leaf] \ {anchor} : block[c].parent_root = r
  BY <1>2, <1>3, <1>4, NextOnChain DEF Descends
<1>6. c \in s.blocks /\ c \in Blocks
  BY <1>3, <1>5, ChainReceived
<1>7. chain[c] = {c} \cup chain[r]
  BY <1>5, <1>6, ChainIs
<1>8. Descends(c, s.justified_checkpoint.root) /\ Descends(leaf, c)
  BY <1>1, <1>5, <1>7 DEF Descends
<1>9. c \in Filtered(s)
  BY <1>2, <1>6, <1>8, FilteredAre
<1> QED
  BY <1>5, <1>9 DEF Children

(* From a filtered block get_head's walk ends at a viable leaf below it.   *)
LEMMA GhostEnds ==
  ASSUME NEW s \in Store, BlocksInTime(s), TreeSound(s), NEW r \in Filtered(s)
  PROVE  Viable(s, ghost(s)[r]) /\ Descends(ghost(s)[r], r)
<1> DEFINE g == ghost(s)
           S == {q \in s.blocks : q \in Filtered(s) => Viable(s, g[q]) /\ Descends(g[q], q)}
<1>0. /\ IsFiniteSet(s.blocks) /\ Filtered(s) \subseteq s.blocks /\ s.blocks \subseteq Blocks
  BY FilteredAre DEF TreeSound, Store
<1>1. \A q \in Blocks : g[q] = IF Children(Filtered(s), q) = {} THEN q ELSE g[BestChild(s, q)]
  BY <1>0, GhostIs DEF Ghost
<1> HIDE DEF g
<1>2. ASSUME NEW q \in s.blocks, Children(s.blocks, q) \subseteq S PROVE q \in S
  <2> SUFFICES ASSUME q \in Filtered(s) PROVE Viable(s, g[q]) /\ Descends(g[q], q)
    OBVIOUS
  <2>0. q \in Blocks
    BY <1>0
  <2>1. CASE Children(Filtered(s), q) = {}
    BY <1>1, <2>0, <2>1, FilteredLeaf, Chains DEF Descends
  <2>2. CASE Children(Filtered(s), q) # {}
    <3> DEFINE c == BestChild(s, q)
    <3>1. /\ c \in Children(Filtered(s), q) /\ c \in Filtered(s) \ {anchor}
          /\ c \in s.blocks /\ block[c].parent_root = q
      BY <1>0, <2>0, <2>2, FilteredChildren
    <3>2. g[q] = g[c]
      BY <1>1, <2>0, <2>2
    <3> HIDE DEF c
    <3>3. c \in Children(s.blocks, q) /\ c \in Blocks \ {anchor}
      BY <1>0, <3>1 DEF Children
    <3>4. Viable(s, g[c]) /\ Descends(g[c], c)
      BY <1>2, <3>1, <3>3
    <3>5. g[c] \in Blocks
      BY <1>0, <3>4 DEF Viable
    <3>6. chain[c] = {c} \cup chain[q] /\ q \in chain[q] /\ chain[c] \subseteq chain[g[c]]
      BY <2>0, <3>1, <3>3, <3>4, <3>5, ChainIs, Chains DEF Descends
    <3> QED
      BY <3>2, <3>4, <3>6 DEF Descends
  <2> QED
    BY <2>1, <2>2
<1>3. s.blocks \subseteq S
  <2> HIDE DEF S
  <2> QED
    BY <1>2, TowardsLeaves
<1> QED
  BY <1>0, <1>3 DEF g

-----------------------------------------------------------------------------
(* The filter keeps a branch. *)

(* Where the justified checkpoint comes from. *)
JustifiedIn(s, r) ==
  \/ s.justified_checkpoint = JustifiedBy[r]
  \/ block_epoch(r) < get_current_store_epoch(s) /\ s.justified_checkpoint = JustifiedPulledUp[r]

(* It is the anchor, or in a received state, *)
LEMMA JustifiedSomewhere ==
  ASSUME NEW s \in Store, LatestCheckpoints(s)
  PROVE  \/ s.justified_checkpoint = AnchorCheckpoint
         \/ \E r \in s.blocks : JustifiedIn(s, r)
BY DEF LatestCheckpoints, Latest, Realized, OfBlocks, BlocksOfPastEpochs, JustifiedIn

(* and no received state justifies a later epoch.                          *)
LEMMA JustifiedIsLatest ==
  ASSUME NEW s \in Store, LatestCheckpoints(s), NEW r \in s.blocks
  PROVE  /\ JustifiedBy[r].epoch <= s.justified_checkpoint.epoch
         /\ block_epoch(r) < get_current_store_epoch(s) =>
              JustifiedPulledUp[r].epoch <= s.justified_checkpoint.epoch
BY DEF LatestCheckpoints, Latest, Realized, OfBlocks, BlocksOfPastEpochs

(* The justified block was received. *)
LEMMA JustifiedReceived ==
  ASSUME NEW s \in Store, LatestCheckpoints(s), TreeSound(s)
  PROVE  s.justified_checkpoint.root \in s.blocks
<1>1. CASE s.justified_checkpoint = AnchorCheckpoint
  BY <1>1 DEF TreeSound, AnchorCheckpoint, Checkpoint
<1>2. CASE \E r \in s.blocks : JustifiedIn(s, r)
  <2>1. PICK r \in s.blocks : JustifiedIn(s, r)
    BY <1>2
  <2>2. /\ r \in Blocks /\ s.justified_checkpoint \in CheckpointsOf(r)
        /\ s.justified_checkpoint.root \in Blocks
    BY <2>1 DEF JustifiedIn, CheckpointsOf, Store, StoreCheckpoint
  <2>3. s.justified_checkpoint.root \in chain[r]
    BY <2>2, OwnCheckpoint
  <2> QED
    BY <2>1, <2>2, <2>3, ChainReceived
<1> QED
  BY <1>1, <1>2, JustifiedSomewhere

(* Along a chain justification is never lost, if slashings take none back. *)
LEMMA JustificationGrows ==
  ASSUME NEW s \in Store, TreeSound(s), JustificationKept(s.blocks),
         NEW q \in s.blocks, NEW x \in chain[q]
  PROVE  /\ JustifiedBy[x].epoch <= JustifiedBy[q].epoch
         /\ JustifiedPulledUp[x].epoch <= JustifiedPulledUp[q].epoch
         /\ block_epoch(x) < block_epoch(q) => JustifiedPulledUp[x].epoch <= JustifiedBy[q].epoch
<1> DEFINE Grows(p, y) ==
             /\ JustifiedBy[y].epoch <= JustifiedBy[p].epoch
             /\ JustifiedPulledUp[y].epoch <= JustifiedPulledUp[p].epoch
             /\ block_epoch(y) < block_epoch(p) =>
                  JustifiedPulledUp[y].epoch <= JustifiedBy[p].epoch
           S == {p \in Blocks : p \in s.blocks => \A y \in chain[p] : Grows(p, y)}
<1>0. \A y \in Blocks : /\ JustifiedBy[y].epoch \in Nat /\ JustifiedPulledUp[y].epoch \in Nat
                        /\ block_epoch(y) \in Nat
  BY BlockFacts DEF CheckpointType
<1>1. anchor \in S
  <2>1. anchor \in Blocks
    BY BlockTreeAssumption
  <2>2. chain[anchor] = {anchor}
    BY <2>1, ChainIs
  <2> QED
    BY <1>0, <2>1, <2>2
<1>2. ASSUME NEW p \in Blocks \ {anchor}, block[p].parent_root \in S PROVE p \in S
  <2> SUFFICES ASSUME p \in s.blocks, NEW y \in chain[p] PROVE Grows(p, y)
    OBVIOUS
  <2> DEFINE o == block[p].parent_root
  <2>1. /\ chain[p] = {p} \cup chain[o] /\ chain[o] \subseteq Blocks
        /\ o \in Blocks /\ o \in s.blocks
    BY ChainIs, Chains, BlockTreeAssumption DEF TreeSound
  <2>2. /\ JustifiedBy[o].epoch <= JustifiedBy[p].epoch
        /\ block_epoch(o) < block_epoch(p) => JustifiedPulledUp[o].epoch <= JustifiedBy[p].epoch
    BY StatesAssumption
  <2>3. JustifiedPulledUp[o].epoch <= JustifiedPulledUp[p].epoch
    BY DEF JustificationKept
  <2>4. block_epoch(o) <= block_epoch(p)
    <3>1. block[o].slot \in Nat /\ block[p].slot \in Nat /\ block[o].slot <= block[p].slot
      <4>1. block[o].slot < block[p].slot
        BY BlockTreeAssumption
      <4>2. block[o].slot \in Nat /\ block[p].slot \in Nat
        BY <2>1, BlockFacts
      <4> HIDE DEF o
      <4> QED
        BY <4>1, <4>2
    <3> HIDE DEF o
    <3> QED
      BY <3>1, Clock DEF block_epoch
  <2>5. CASE y = p
    BY <1>0, <2>5
  <2>6. CASE y \in chain[o]
    <3>1. Grows(o, y)
      BY <1>2, <2>1, <2>6
    <3>2. y \in Blocks /\ o \in Blocks /\ p \in Blocks
      BY <2>1, <2>6
    <3> HIDE DEF o
    <3> QED
      BY <1>0, <2>2, <2>3, <2>4, <3>1, <3>2
  <2> QED
    BY <2>1, <2>5, <2>6
<1>3. Blocks \subseteq S
  <2> HIDE DEF S
  <2> QED
    BY <1>1, <1>2, BlockInduction
<1> QED
  BY <1>3 DEF Store

(* What the store finalizes is on the chain of every block below the one   *)
(* that justifies.                                                         *)
LEMMA FinalizedOnChain ==
  ASSUME NEW s \in Store, LatestCheckpoints(s), AnchorCheckpoint.epoch = GENESIS_EPOCH,
         NEW r \in s.blocks, JustifiedIn(s, r), NEW leaf \in Blocks, r \in chain[leaf]
  PROVE  correct_finalized(s, leaf)
<1> DEFINE f == s.finalized_checkpoint
           j == s.justified_checkpoint
<1>1. f \in Finalized /\ f.epoch <= j.epoch
  BY FromTheTree
<1>2. f.epoch \in Nat /\ j.epoch \in Nat /\ r \in Blocks
  BY DEF Store, StoreCheckpoint
<1> SUFFICES ASSUME f.epoch # GENESIS_EPOCH
             PROVE  f.root = get_checkpoint_block(leaf, f.epoch)
  BY DEF correct_finalized
<1>3. f # AnchorCheckpoint /\ AnchorCheckpoint.epoch < f.epoch
  BY <1>2 DEF GENESIS_EPOCH
<1>4. PICK q \in Blocks : f \in {FinalizedBy[q], FinalizedPulledUp[q]}
  BY <1>1, <1>3, OfAState
<1>5. j \in CheckpointsOf(r)
  BY DEF JustifiedIn, CheckpointsOf
<1>6. f.root = get_checkpoint_block(r, f.epoch)
  BY <1>1, <1>2, <1>3, <1>4, <1>5, NoConflictingFinality
<1>7. j.epoch <= block_epoch(r)
  <2>1. /\ JustifiedBy[r].epoch <= JustifiedPulledUp[r].epoch
        /\ JustifiedPulledUp[r].epoch <= block_epoch(r)
    BY <1>2, StatesAssumption
  <2>2. JustifiedBy[r].epoch \in Nat /\ JustifiedPulledUp[r].epoch \in Nat /\ block_epoch(r) \in Nat
    BY <1>2, BlockFacts DEF CheckpointType
  <2> QED
    BY <2>1, <2>2 DEF JustifiedIn
<1> DEFINE n == compute_start_slot_at_epoch(f.epoch)
<1>8. n \in Nat /\ n <= block[r].slot
  <2>1. block[r].slot \in Nat /\ block_epoch(r) \in Nat
    BY <1>2, BlockFacts
  <2>2. block_epoch(r) >= f.epoch
    BY <1>1, <1>2, <1>7, <2>1
  <2>3. n \in Nat /\ block[r].slot >= n
    BY <1>2, <2>1, <2>2, EpochStarts DEF block_epoch
  <2> HIDE DEF n
  <2> QED
    BY <2>1, <2>3
<1>9. get_ancestor(leaf, n) = get_ancestor(r, n)
  <2> HIDE DEF n
  <2> QED
    BY <1>8, SameAncestor
<1> QED
  BY <1>6, <1>9 DEF get_checkpoint_block

(* The leaf votes from the store's justified epoch. *)
LEMMA JustifiedByLeaf ==
  ASSUME NEW s \in Store, LatestCheckpoints(s), TreeSound(s), JustificationKept(s.blocks),
         AnchorCheckpoint.epoch = GENESIS_EPOCH,
         NEW r \in s.blocks, JustifiedIn(s, r), NEW leaf \in s.blocks, r \in chain[leaf]
  PROVE  correct_justified(s, leaf)
<1> DEFINE j == s.justified_checkpoint
           e == get_current_store_epoch(s)
<1> SUFFICES ASSUME j.epoch # GENESIS_EPOCH PROVE get_voting_source(s, leaf).epoch = j.epoch
  BY DEF correct_justified
<1>0. /\ r \in Blocks /\ leaf \in Blocks /\ e \in Nat /\ j.epoch \in Nat
      /\ block_epoch(r) \in Nat /\ block_epoch(leaf) \in Nat
      /\ JustifiedBy[r].epoch \in Nat /\ JustifiedPulledUp[r].epoch \in Nat
      /\ JustifiedBy[leaf].epoch \in Nat /\ JustifiedPulledUp[leaf].epoch \in Nat
  <2>1. r \in Blocks /\ leaf \in Blocks /\ s.time \in Nat /\ j.epoch \in Nat
    BY DEF Store, StoreCheckpoint
  <2>2. e \in Nat
    BY <2>1, StoreClock, Clock
  <2> QED
    BY <2>1, <2>2, BlockFacts DEF CheckpointType
<1>1. /\ JustifiedBy[r].epoch <= JustifiedBy[leaf].epoch
      /\ JustifiedPulledUp[r].epoch <= JustifiedPulledUp[leaf].epoch
      /\ block_epoch(r) < block_epoch(leaf) => JustifiedPulledUp[r].epoch <= JustifiedBy[leaf].epoch
  BY JustificationGrows
<1>2. JustifiedBy[r].epoch <= JustifiedPulledUp[r].epoch
  BY <1>0, StatesAssumption
<1>3. /\ JustifiedBy[leaf].epoch <= j.epoch
      /\ block_epoch(leaf) < e => JustifiedPulledUp[leaf].epoch <= j.epoch
  BY JustifiedIsLatest
<1>4. \/ j.epoch = JustifiedBy[r].epoch
      \/ block_epoch(r) < e /\ j.epoch = JustifiedPulledUp[r].epoch
  BY DEF JustifiedIn
<1>5. CASE e > block_epoch(leaf)
  <2>1. leaf # anchor
    <3> SUFFICES ASSUME leaf = anchor PROVE FALSE
      OBVIOUS
    <3>1. r = anchor
      BY <1>0, ChainIs
    <3>2. JustifiedPulledUp[anchor].epoch <= block_epoch(anchor)
      BY <1>0, <3>1, StatesAssumption
    <3>3. block_epoch(anchor) = 0
      BY DEF AnchorCheckpoint, Checkpoint, GENESIS_EPOCH
    <3> QED
      BY <1>0, <1>2, <1>4, <3>1, <3>2, <3>3 DEF GENESIS_EPOCH
  <2>2. get_voting_source(s, leaf) = JustifiedPulledUp[leaf]
    BY <1>5, <2>1 DEF get_voting_source, TreeSound
  <2>3. JustifiedPulledUp[leaf].epoch = j.epoch
    BY <1>0, <1>1, <1>2, <1>3, <1>4, <1>5
  <2> QED
    BY <2>2, <2>3
<1>6. CASE ~ e > block_epoch(leaf)
  <2>1. get_voting_source(s, leaf) = JustifiedBy[leaf]
    BY <1>0, <1>6 DEF get_voting_source, JustifiedBy
  <2>2. JustifiedBy[leaf].epoch = j.epoch
    BY <1>0, <1>1, <1>3, <1>4, <1>6
  <2> QED
    BY <2>1, <2>2
<1> QED
  BY <1>5, <1>6

(* The filter keeps a branch. *)
LEMMA SomethingViable ==
  ASSUME NEW s, SoundStore(s), TreeSound(s), JustificationKept(s.blocks),
         AnchorCheckpoint.epoch = GENESIS_EPOCH
  PROVE  s.justified_checkpoint.root \in Filtered(s)
<1> DEFINE j == s.justified_checkpoint
<1>1. s \in Store /\ BlocksInTime(s) /\ LatestCheckpoints(s)
  BY DEF SoundStore
<1>2. /\ j.root \in s.blocks /\ j.root \in Blocks /\ s.blocks \subseteq Blocks
      /\ j.epoch \in Nat /\ s.finalized_checkpoint.epoch \in Nat
  BY <1>1, JustifiedReceived DEF Store, StoreCheckpoint
<1>3. ASSUME NEW leaf, Viable(s, leaf) PROVE j.root \in Filtered(s)
  BY <1>2, <1>3, Chains, FilteredAre DEF Viable, Descends
<1>4. CASE j.epoch = GENESIS_EPOCH
  <2>1. PICK leaf \in s.blocks : Children(s.blocks, leaf) = {} /\ Descends(leaf, j.root)
    BY <1>1, <1>2, LeafBelow
  <2>2. correct_justified(s, leaf)
    BY <1>4 DEF correct_justified
  <2>3. s.finalized_checkpoint.epoch <= j.epoch
    BY <1>1, FromTheTree
  <2>4. correct_finalized(s, leaf)
    BY <1>2, <1>4, <2>3 DEF correct_finalized, GENESIS_EPOCH
  <2>5. Viable(s, leaf)
    BY <2>1, <2>2, <2>4 DEF Viable
  <2> QED
    BY <1>3, <2>5
<1>5. CASE j.epoch # GENESIS_EPOCH
  <2>1. j # AnchorCheckpoint
    BY <1>5
  <2>2. PICK r \in s.blocks : JustifiedIn(s, r)
    BY <1>1, <2>1, JustifiedSomewhere
  <2>3. PICK leaf \in s.blocks : Children(s.blocks, leaf) = {} /\ Descends(leaf, r)
    BY <1>1, LeafBelow
  <2>4. r \in Blocks /\ leaf \in Blocks /\ r \in chain[leaf]
    BY <1>2, <2>3 DEF Descends
  <2>5. correct_justified(s, leaf)
    BY <1>1, <2>2, <2>4, JustifiedByLeaf
  <2>6. correct_finalized(s, leaf)
    BY <1>1, <2>2, <2>4, FinalizedOnChain
  <2>7. Descends(leaf, j.root)
    <3>1. j \in CheckpointsOf(r)
      BY <2>2 DEF JustifiedIn, CheckpointsOf
    <3>2. j.root \in chain[r]
      BY <1>2, <2>4, <3>1, OwnCheckpoint
    <3> QED
      BY <2>4, <3>2, Chains DEF Descends
  <2>8. Viable(s, leaf)
    BY <2>3, <2>5, <2>6, <2>7 DEF Viable
  <2> QED
    BY <1>3, <2>8
<1> QED
  BY <1>4, <1>5

(* A node that starts from genesis never loses its head: as long as the    *)
(* received slashings take back no justification, the filter leaves a      *)
(* branch, and get_head returns a received leaf that descends from the     *)
(* finalized block.                                                        *)
THEOREM HeadsAreViableLeaves ==
  ASSUME AnchorCheckpoint.epoch = GENESIS_EPOCH
  PROVE  Spec => []HeadIsViableLeaf
<1>1. IInv /\ TreeSound(store) /\ JustifiedExtendsFinalized => HeadIsViableLeaf
  <2> SUFFICES ASSUME IInv, TreeSound(store), JustifiedExtendsFinalized,
                      JustificationKept(store.blocks)
               PROVE  /\ Children(store.blocks, get_head(store)) = {}
                      /\ Descends(get_head(store), store.finalized_checkpoint.root)
    BY DEF HeadIsViableLeaf
  <2> DEFINE root == store.justified_checkpoint.root
             head == get_head(store)
  <2>1. store \in Store /\ BlocksInTime(store) /\ SoundStore(store)
    BY DEF IInv, SoundStore
  <2>2. root \in Filtered(store)
    BY <2>1, SomethingViable
  <2>3. Viable(store, head) /\ Descends(head, root)
    BY <2>1, <2>2, GhostEnds, HeadIsGhost
  <2>4. head \in Blocks /\ root \in chain[head]
    BY <2>1, <2>3 DEF Viable, Descends, Store
  <2>5. Descends(root, store.finalized_checkpoint.root)
    BY DEF JustifiedExtendsFinalized
  <2> QED
    BY <2>3, <2>4, <2>5, Chains DEF Viable, Descends
<1> QED
  BY <1>1, AlwaysSound, AlwaysTree, JustifiedStaysOnFinalized, PTL

-----------------------------------------------------------------------------
(* Re-orgs. *)

(* The head is the justified block, or a viable leaf below it. *)
LEMMA HeadPlace ==
  ASSUME NEW s, SoundStore(s), TreeSound(s), get_head(s) # s.justified_checkpoint.root
  PROVE  /\ s.justified_checkpoint.root \in Filtered(s)
         /\ Viable(s, get_head(s)) /\ Descends(get_head(s), s.justified_checkpoint.root)
<1> DEFINE root == s.justified_checkpoint.root
<1>1. s \in Store /\ BlocksInTime(s) /\ LatestCheckpoints(s) /\ IsFiniteSet(s.blocks)
  BY DEF SoundStore, TreeSound
<1>2. root \in s.blocks /\ root \in Blocks
  BY <1>1, JustifiedReceived DEF Store
<1>3. root \in Filtered(s)
  <2> SUFFICES ASSUME root \notin Filtered(s) PROVE FALSE
    OBVIOUS
  <2>1. Children(Filtered(s), root) = {}
    <3> SUFFICES ASSUME NEW c \in Children(Filtered(s), root) PROVE FALSE
      OBVIOUS
    <3>1. c \in Filtered(s)
      BY DEF Children
    <3>2. PICK leaf : Viable(s, leaf)
      BY <3>1, FilteredAre
    <3> QED
      BY <1>2, <3>2, Chains, FilteredAre DEF Viable, Descends
  <2>2. ghost(s)[root] = root
    BY <1>1, <1>2, <2>1, GhostIs DEF Ghost
  <2> QED
    BY <2>2, HeadIsGhost
<1> QED
  BY <1>1, <1>3, GhostEnds, HeadIsGhost

(* The justified checkpoint is that of the anchor or one of a past epoch:  *)
(* an epoch is not justified before it is over.                            *)
LEMMA JustifiedEarlier ==
  ASSUME NEW s, SoundStore(s)
  PROVE  \/ /\ s.justified_checkpoint.root = anchor
            /\ s.justified_checkpoint.epoch = AnchorCheckpoint.epoch
         \/ /\ s.justified_checkpoint.epoch < get_current_store_epoch(s)
            /\ block[s.justified_checkpoint.root].slot
                 <= compute_start_slot_at_epoch(s.justified_checkpoint.epoch)
<1> DEFINE j == s.justified_checkpoint
           e == get_current_store_epoch(s)
<1>1. s \in Store /\ BlocksInTime(s) /\ LatestCheckpoints(s) /\ s.blocks \subseteq Blocks
      /\ j.root \in Blocks /\ j.epoch \in Nat /\ j.epoch >= AnchorCheckpoint.epoch /\ s.time \in Nat
  BY DEF SoundStore, Store, StoreCheckpoint
<1>2. CASE j = AnchorCheckpoint
  BY <1>2 DEF AnchorCheckpoint, Checkpoint
<1>3. ASSUME NEW x \in s.blocks, JustifiedIn(s, x)
      PROVE  \/ j.root = anchor /\ j.epoch = AnchorCheckpoint.epoch
             \/ j.epoch < e /\ block[j.root].slot <= compute_start_slot_at_epoch(j.epoch)
  <2>1. x \in Blocks /\ j \in CheckpointsOf(x)
    BY <1>1, <1>3 DEF JustifiedIn, CheckpointsOf
  <2>2. /\ block[j.root].slot <= compute_start_slot_at_epoch(j.epoch)
        /\ j.epoch = AnchorCheckpoint.epoch => j.root = anchor
    BY <1>1, <1>3, <2>1, OwnCheckpoint
  <2>3. /\ block_epoch(x) \in Nat /\ e \in Nat /\ AnchorCheckpoint.epoch \in Nat
        /\ JustifiedBy[x].epoch \in Nat /\ JustifiedPulledUp[x].epoch \in Nat
    BY <1>1, <2>1, StoreClock, Clock, BlockFacts DEF CheckpointType
  <2>4. block_epoch(x) <= e
    <3>1. /\ block[x].slot <= get_current_slot(s) /\ block[x].slot \in Nat
          /\ get_current_slot(s) \in Nat
      BY <1>1, <2>1, BlockFacts, StoreClock, Clock DEF BlocksInTime
    <3> QED
      BY <3>1, Clock DEF block_epoch, get_current_store_epoch
  <2>5. /\ JustifiedPulledUp[x].epoch <= block_epoch(x)
        /\ \/ JustifiedBy[x].epoch < block_epoch(x)
           \/ JustifiedBy[x].epoch <= AnchorCheckpoint.epoch
    BY <2>1, StatesAssumption
  <2>6. CASE j = JustifiedBy[x]
    BY <1>1, <2>2, <2>3, <2>4, <2>5, <2>6
  <2>7. CASE block_epoch(x) < e /\ j = JustifiedPulledUp[x]
    BY <1>1, <2>2, <2>3, <2>5, <2>7
  <2> QED
    BY <1>3, <2>2, <2>6, <2>7 DEF JustifiedIn
<1> QED
  BY <1>1, <1>2, <1>3, JustifiedSomewhere

-----------------------------------------------------------------------------
(* r is the re-org of the late head h. *)
Reorg(s, r, h) ==
  /\ SoundStore(s) /\ TreeSound(s)
  /\ r \in Blocks \ s.blocks
  /\ h = get_head(s)
  /\ ProposerHeadIsDefined(s, h)
  /\ block[r].slot = get_current_slot(s)
  /\ s.proposer_boost_root = ZeroRoot
  /\ is_shuffling_stable(block[r].slot)
  /\ is_proposing_on_time(s)
  /\ is_single_slot_reorg(h, block[r].slot)
  /\ is_head_weak(s, h)
  /\ block[r].parent_root = block[h].parent_root

(* Head and re-org block are siblings of the current epoch, and the head   *)
(* is a viable leaf, not the justified block itself.                       *)
LEMMA ReorgPlace ==
  ASSUME NEW s, NEW r, NEW h, Reorg(s, r, h)
  PROVE  /\ r \in Blocks \ {anchor} /\ h \in Blocks \ {anchor} /\ h \in s.blocks /\ r # h
         /\ block[r].parent_root \in Blocks /\ block[r].parent_root \in s.blocks
         /\ block[r].slot \in Nat /\ block[h].slot + 1 = block[r].slot
         /\ block[h].slot \in Nat /\ block[block[r].parent_root].slot + 1 = block[h].slot
         /\ block[block[r].parent_root].slot \in Nat
         /\ block_epoch(r) = get_current_store_epoch(s)
         /\ block_epoch(h) = get_current_store_epoch(s)
         /\ s.justified_checkpoint.root # h
         /\ s.justified_checkpoint.root \in Filtered(s)
         /\ Viable(s, h) /\ Descends(h, s.justified_checkpoint.root)
<1> DEFINE j == s.justified_checkpoint
           p == block[r].parent_root
           e == get_current_store_epoch(s)
<1>1. /\ SoundStore(s) /\ TreeSound(s) /\ s \in Store /\ s.blocks \subseteq Blocks
      /\ j.root \in Blocks /\ j.epoch \in Nat /\ s.time \in Nat
      /\ LatestCheckpoints(s)
  BY DEF Reorg, SoundStore, Store, StoreCheckpoint
<1>2. r \in Blocks /\ r \notin s.blocks /\ anchor \in s.blocks
  BY DEF Reorg, TreeSound
<1>3. h = get_head(s) /\ h # anchor
  BY DEF Reorg, ProposerHeadIsDefined
<1>4. h \in s.blocks
  BY <1>1, <1>3, HeadPlace, JustifiedReceived DEF Viable
<1>5. /\ h \in Blocks \ {anchor} /\ r \in Blocks \ {anchor} /\ r # h
      /\ p \in Blocks /\ p \in s.blocks
  BY <1>1, <1>2, <1>3, <1>4, BlockTreeAssumption DEF Reorg, TreeSound
<1>6. /\ block[r].slot \in Nat /\ block[h].slot \in Nat /\ block[p].slot \in Nat
      /\ block[h].slot + 1 = block[r].slot /\ block[p].slot + 1 = block[h].slot
  BY <1>5, BlockTreeAssumption DEF Reorg, is_single_slot_reorg
<1>7. block_epoch(r) = e
  BY DEF Reorg, block_epoch, get_current_store_epoch
<1>8. block_epoch(h) = block_epoch(r)
  <2> DEFINE a == block[h].slot
  <2>1. a \in Nat /\ a + 1 = block[r].slot
    BY <1>6
  <2>2. (a + 1) % SLOTS_PER_EPOCH # 0
    BY <2>1 DEF Reorg, is_shuffling_stable
  <2>3. /\ compute_slots_since_epoch_start(a + 1) = (a + 1) % SLOTS_PER_EPOCH
        /\ compute_slots_since_epoch_start(a + 1) = 0
             <=> compute_epoch_at_slot(a + 1) > compute_epoch_at_slot(a)
    <3> HIDE DEF a
    <3>1. a + 1 \in Nat
      BY <2>1
    <3> QED
      BY <2>1, <3>1, EpochBegins
  <2>4. /\ compute_epoch_at_slot(a + 1) \in Nat /\ compute_epoch_at_slot(a) \in Nat
        /\ compute_epoch_at_slot(a) <= compute_epoch_at_slot(a + 1)
    <3> HIDE DEF a
    <3>1. a + 1 \in Nat /\ a <= a + 1
      BY <2>1
    <3> QED
      BY <2>1, <3>1, Clock
  <2>5. compute_epoch_at_slot(a) = compute_epoch_at_slot(a + 1)
    BY <2>2, <2>3, <2>4
  <2> QED
    BY <2>1, <2>5 DEF block_epoch
<1>9. j.root # h
  <2> SUFFICES ASSUME j.root = h PROVE FALSE
    OBVIOUS
  <2>1. j.epoch < e /\ block[h].slot <= compute_start_slot_at_epoch(j.epoch)
    BY <1>1, <1>3, JustifiedEarlier
  <2>2. e \in Nat
    BY <1>1, StoreClock, Clock
  <2>3. compute_epoch_at_slot(block[h].slot) > j.epoch
    BY <1>1, <1>7, <1>8, <2>1, <2>2 DEF block_epoch
  <2>4. /\ block[h].slot > compute_start_slot_at_epoch(j.epoch)
        /\ compute_start_slot_at_epoch(j.epoch) \in Nat
    BY <1>1, <1>6, <2>3, EpochStarts
  <2> QED
    BY <1>6, <2>1, <2>4
<1>10. j.root \in Filtered(s) /\ Viable(s, h) /\ Descends(h, j.root)
  BY <1>1, <1>3, <1>9, HeadPlace
<1> QED
  BY <1>4, <1>5, <1>6, <1>7, <1>8, <1>9, <1>10

(* The re-org block is timely and takes the boost; nothing else changes.   *)
LEMMA ReorgStore ==
  ASSUME NEW s, NEW r, NEW h, Reorg(s, r, h), NEW t, t = on_block(s, r)
  PROVE  /\ t \in Store /\ t.time = s.time
         /\ t.blocks = s.blocks \cup {r}
         /\ t.proposer_boost_root = r
         /\ t.justified_checkpoint = s.justified_checkpoint
         /\ t.finalized_checkpoint = s.finalized_checkpoint
         /\ t.latest_messages = s.latest_messages
         /\ t.equivocating_indices = s.equivocating_indices
         /\ \A x \in s.blocks : t.unrealized_justifications[x] = s.unrealized_justifications[x]
         /\ BlocksInTime(t) /\ IsFiniteSet(t.blocks)
<1>1. /\ s \in Store /\ KeysMatch(s) /\ BlocksInTime(s) /\ LatestCheckpoints(s)
      /\ s.time \in Nat /\ IsFiniteSet(s.blocks)
  BY DEF Reorg, SoundStore, Store, TreeSound
<1>2. r \in Blocks /\ r \notin s.blocks /\ block[r].slot = get_current_slot(s)
  BY DEF Reorg
<1>3. is_timely(s, r)
  <2> DEFINE q == SECONDS_PER_SLOT \div INTERVALS_PER_SLOT
             m == time_into_slot(s)
  <2>1. /\ SECONDS_PER_SLOT \in Nat /\ INTERVALS_PER_SLOT \in Nat \ {0}
        /\ INTERVALS_PER_SLOT <= SECONDS_PER_SLOT
    BY ConfigAssumption
  <2>2. q \in Nat /\ q > 0
    BY <2>1, SMTT(30)
  <2>3. m \in Nat
    <3>1. SECONDS_PER_SLOT \in Nat \ {0}
      BY <2>1
    <3>2. s.time - genesis_time = s.time
      BY <1>1 DEF genesis_time
    <3> QED
      BY <1>1, <3>1, <3>2, SMTT(30) DEF time_into_slot
  <2>4. m <= q \div 2
    BY DEF Reorg, is_proposing_on_time
  <2> HIDE DEF q, m
  <2>5. m < q
    BY <2>2, <2>3, <2>4
  <2> QED
    BY <1>2, <2>5 DEF is_timely, q, m
<1>4. boost_root_after(s, r) = r
  BY <1>3 DEF boost_root_after, Reorg
<1>5. /\ block_epoch(r) = get_current_store_epoch(s) /\ block_epoch(h) = block_epoch(r)
      /\ h \in s.blocks /\ h \in Blocks \ {anchor} /\ r \in Blocks \ {anchor}
      /\ block[r].parent_root = block[h].parent_root
  BY ReorgPlace DEF Reorg
<1>6. ~ IsPast(s, r)
  <2>1. block_epoch(r) = EpochOf(s.time) /\ EpochOf(s.time) \in Nat
    BY <1>1, <1>5, StoreClock, Clock
  <2> QED
    BY <2>1 DEF IsPast
<1>7. JustifiedBy[r] = JustifiedBy[h] /\ FinalizedBy[r] = FinalizedBy[h]
  BY <1>5, StatesAssumption DEF Siblings
<1>8. /\ Later(s.justified_checkpoint, JustifiedBy[r]) = s.justified_checkpoint
      /\ Later(s.finalized_checkpoint, FinalizedBy[r]) = s.finalized_checkpoint
  <2>1. /\ JustifiedBy[h].epoch <= s.justified_checkpoint.epoch
        /\ FinalizedBy[h].epoch <= s.finalized_checkpoint.epoch
    BY <1>1, <1>5 DEF LatestCheckpoints, Latest, Realized, OfBlocks
  <2>2. /\ JustifiedBy[h].epoch \in Nat /\ FinalizedBy[h].epoch \in Nat
        /\ s.justified_checkpoint.epoch \in Nat /\ s.finalized_checkpoint.epoch \in Nat
    BY <1>1, <1>5, BlockFacts DEF CheckpointType, Store, StoreCheckpoint
  <2> QED
    BY <1>7, <2>1, <2>2 DEF Later
<1>9. /\ t \in Store /\ t.time = s.time
      /\ t.blocks = s.blocks \cup {r}
      /\ t.proposer_boost_root = boost_root_after(s, r)
      /\ t.latest_messages = s.latest_messages
      /\ t.equivocating_indices = s.equivocating_indices
      /\ \A x \in DOMAIN s.unrealized_justifications \cup {r} :
           t.unrealized_justifications[x] =
             IF x = r THEN JustifiedPulledUp[r] ELSE s.unrealized_justifications[x]
      /\ t.justified_checkpoint = Later(s.justified_checkpoint, JustifiedBy[r])
      /\ t.finalized_checkpoint = Later(s.finalized_checkpoint, FinalizedBy[r])
  BY <1>1, <1>2, <1>6, BlockReceived
<1>10. \A x \in s.blocks : t.unrealized_justifications[x] = s.unrealized_justifications[x]
  BY <1>1, <1>2, <1>9 DEF KeysMatch
<1>11. IsFiniteSet(t.blocks)
  BY <1>1, <1>9, FS_AddElement
<1>12. BlocksInTime(t)
  <2>1. get_current_slot(t) = get_current_slot(s) /\ get_current_slot(s) \in Nat
    BY <1>1, <1>9, StoreClock, Clock DEF get_current_slot
  <2> QED
    BY <1>1, <1>2, <1>4, <1>9, <2>1 DEF BlocksInTime
<1> QED
  BY <1>4, <1>8, <1>9, <1>10, <1>11, <1>12

(* The re-org block is a leaf next to h, and the tree is otherwise the     *)
(* same.                                                                   *)
LEMMA ReorgChildren ==
  ASSUME NEW s, NEW r, NEW h, Reorg(s, r, h), NEW t, t = on_block(s, r)
  PROVE  /\ Children(t.blocks, r) = {}
         /\ \A x \in s.blocks : Children(t.blocks, x) = {} <=> Children(s.blocks, x) = {}
         /\ \A x \in s.blocks : r \notin chain[x]
         /\ chain[r] = {r} \cup chain[block[r].parent_root]
         /\ chain[h] = {h} \cup chain[block[r].parent_root]
<1> DEFINE p == block[r].parent_root
<1>1. /\ t.blocks = s.blocks \cup {r} /\ r \notin s.blocks /\ s.blocks \subseteq Blocks
      /\ TreeSound(s) /\ block[h].parent_root = p
  BY ReorgStore DEF Reorg, SoundStore, Store
<1>2. /\ r \in Blocks \ {anchor} /\ h \in Blocks \ {anchor} /\ h \in s.blocks
      /\ p \in s.blocks
  BY ReorgPlace
<1> HIDE DEF p
<1>3. Children(t.blocks, r) = {}
  BY <1>1, <1>2 DEF Children, TreeSound, p
<1>4. ASSUME NEW x \in s.blocks
      PROVE  Children(t.blocks, x) = {} <=> Children(s.blocks, x) = {}
  <2>1. CASE x = p
    <3>1. h \in Children(s.blocks, x) /\ h \in Children(t.blocks, x)
      BY <1>1, <1>2, <2>1 DEF Children
    <3> QED
      BY <3>1
  <2>2. CASE x # p
    BY <1>1, <2>2 DEF Children, p
  <2> QED
    BY <2>1, <2>2
<1>5. \A x \in s.blocks : r \notin chain[x]
  BY <1>1, ChainReceived
<1>6. chain[r] = {r} \cup chain[p] /\ chain[h] = {h} \cup chain[p]
  BY <1>1, <1>2, ChainIs DEF p
<1> QED
  BY <1>3, <1>4, <1>5, <1>6 DEF p

(* It is viable since h is. *)
LEMMA ReorgViable ==
  ASSUME NEW s, NEW r, NEW h, Reorg(s, r, h), NEW t, t = on_block(s, r)
  PROVE  /\ Viable(t, r)
         /\ \A x \in s.blocks : Viable(t, x) <=> Viable(s, x)
<1> DEFINE p == block[r].parent_root
           j == s.justified_checkpoint
           f == s.finalized_checkpoint
           e == get_current_store_epoch(s)
<1>1. /\ t \in Store /\ t.time = s.time
      /\ t.blocks = s.blocks \cup {r}
      /\ t.justified_checkpoint = j
      /\ t.finalized_checkpoint = f
      /\ \A x \in s.blocks : t.unrealized_justifications[x] = s.unrealized_justifications[x]
  BY ReorgStore
<1>2. /\ r \in Blocks \ {anchor} /\ h \in Blocks \ {anchor} /\ h \in s.blocks /\ r # h
      /\ p \in Blocks /\ p \in s.blocks
      /\ block[h].slot \in Nat /\ block[p].slot + 1 = block[h].slot /\ block[p].slot \in Nat
      /\ block_epoch(r) = e /\ block_epoch(h) = e
      /\ j.root # h /\ Viable(s, h) /\ Descends(h, j.root)
  BY ReorgPlace
<1>3. /\ Children(t.blocks, r) = {}
      /\ \A x \in s.blocks : Children(t.blocks, x) = {} <=> Children(s.blocks, x) = {}
      /\ chain[r] = {r} \cup chain[p]
      /\ chain[h] = {h} \cup chain[p]
  BY ReorgChildren
<1>4. /\ SoundStore(s) /\ s \in Store /\ LatestCheckpoints(s)
      /\ s.time \in Nat /\ e \in Nat /\ get_current_store_epoch(t) = e
      /\ f.epoch \in Nat /\ j.epoch \in Nat /\ block[r].parent_root = block[h].parent_root
  <2>1. SoundStore(s) /\ s \in Store /\ s.time \in Nat /\ LatestCheckpoints(s)
        /\ block[r].parent_root = block[h].parent_root
    BY DEF Reorg, SoundStore, Store
  <2>2. f.epoch \in Nat /\ j.epoch \in Nat
    BY <2>1 DEF Store, StoreCheckpoint
  <2>3. e \in Nat /\ get_current_store_epoch(t) = e
    BY <1>1, <2>1, StoreClock, Clock
  <2> QED
    BY <2>1, <2>2, <2>3
<1>5. ASSUME NEW x \in s.blocks PROVE Viable(t, x) <=> Viable(s, x)
  <2>1. get_voting_source(t, x) = get_voting_source(s, x)
    BY <1>1, <1>4 DEF get_voting_source
  <2>2. correct_justified(t, x) <=> correct_justified(s, x)
    BY <1>1, <1>4, <2>1 DEF correct_justified
  <2>3. correct_finalized(t, x) <=> correct_finalized(s, x)
    BY <1>1 DEF correct_finalized
  <2> QED
    BY <1>1, <1>3, <2>2, <2>3 DEF Viable
<1>6. correct_justified(t, r)
  <2>1. JustifiedBy[r] = JustifiedBy[h]
    BY <1>2, <1>4, StatesAssumption DEF Siblings
  <2>2. get_voting_source(t, r) = JustifiedBy[h] /\ get_voting_source(s, h) = JustifiedBy[h]
    <3>1. ~ (e > e)
      BY <1>4
    <3> QED
      BY <1>2, <1>4, <2>1, <3>1 DEF get_voting_source, JustifiedBy
  <2>3. correct_justified(s, h)
    BY <1>2 DEF Viable
  <2> QED
    BY <1>1, <1>4, <2>2, <2>3 DEF correct_justified
<1>7. correct_finalized(t, r)
  <2>1. correct_finalized(s, h)
    BY <1>2 DEF Viable
  <2> SUFFICES ASSUME f.epoch # GENESIS_EPOCH
               PROVE  f.root = get_checkpoint_block(r, f.epoch)
    BY <1>1 DEF correct_finalized
  <2>2. f.root = get_checkpoint_block(h, f.epoch)
    BY <2>1 DEF correct_finalized
  <2> DEFINE n == compute_start_slot_at_epoch(f.epoch)
  <2>3. n \in Nat
    BY <1>4, EpochStarts
  <2>4. n <= block[p].slot
    <3>1. CASE j.epoch = AnchorCheckpoint.epoch
      <4>1. f.epoch >= AnchorCheckpoint.epoch /\ f.epoch <= j.epoch
        BY <1>4, FromTheTree DEF Store, StoreCheckpoint
      <4>2. f.epoch = AnchorCheckpoint.epoch
        BY <1>4, <3>1, <4>1
      <4>3. n = block[anchor].slot
        BY <4>2, BlockTreeAssumption DEF AnchorCheckpoint, Checkpoint, block_epoch
      <4> QED
        BY <1>2, <4>3, Chains
    <3>2. CASE j.epoch # AnchorCheckpoint.epoch
      <4>1. j.epoch < e /\ f.epoch <= j.epoch
        BY <1>4, <3>2, JustifiedEarlier, FromTheTree
      <4>2. compute_epoch_at_slot(block[h].slot) > f.epoch
        BY <1>2, <1>4, <4>1 DEF block_epoch
      <4>3. block[h].slot > n
        BY <1>2, <1>4, <4>2, EpochStarts
      <4> HIDE DEF n
      <4> QED
        BY <1>2, <2>3, <4>3
    <3> QED
      BY <3>1, <3>2
  <2>5. p \in chain[h] /\ p \in chain[r]
    BY <1>2, <1>3, Chains
  <2>6. get_ancestor(h, n) = get_ancestor(p, n) /\ get_ancestor(r, n) = get_ancestor(p, n)
    <3> HIDE DEF n, p
    <3> QED
      BY <1>2, <2>3, <2>4, <2>5, SameAncestor
  <2> QED
    BY <2>2, <2>6 DEF get_checkpoint_block
<1>8. Descends(r, j.root)
  BY <1>2, <1>3 DEF Descends
<1>9. Viable(t, r)
  BY <1>1, <1>3, <1>6, <1>7, <1>8 DEF Viable
<1> QED
  BY <1>5, <1>9

(* The filter keeps the same blocks and the new one. *)
LEMMA ReorgFiltered ==
  ASSUME NEW s, NEW r, NEW h, Reorg(s, r, h), NEW t, t = on_block(s, r)
  PROVE  Filtered(t) = Filtered(s) \cup {r}
<1> DEFINE p == block[r].parent_root
           root == s.justified_checkpoint.root
<1>1. /\ t.blocks = s.blocks \cup {r}
      /\ t.justified_checkpoint = s.justified_checkpoint
  BY ReorgStore
<1>2. /\ r \in Blocks \ {anchor} /\ h \in Blocks \ {anchor} /\ h \in s.blocks
      /\ p \in Blocks /\ p \in s.blocks
      /\ root # h /\ Viable(s, h) /\ Descends(h, root)
  BY ReorgPlace
<1>3. /\ \A x \in s.blocks : r \notin chain[x]
      /\ chain[r] = {r} \cup chain[p]
      /\ chain[h] = {h} \cup chain[p]
  BY ReorgChildren
<1>4. /\ Viable(t, r) /\ r \notin s.blocks
      /\ \A x \in s.blocks : Viable(t, x) <=> Viable(s, x)
  BY ReorgViable DEF Reorg
<1>5. r \in Filtered(t)
  <2>1. Descends(r, root) /\ Descends(r, r)
    BY <1>2, <1>3 DEF Descends
  <2> QED
    BY <1>1, <1>4, <2>1, FilteredAre
<1>6. ASSUME NEW x \in Filtered(s) PROVE x \in Filtered(t)
  <2>1. x \in s.blocks /\ Descends(x, root)
        /\ \E leaf : Viable(s, leaf) /\ Descends(leaf, x)
    BY FilteredAre
  <2>2. PICK leaf : Viable(s, leaf) /\ Descends(leaf, x)
    BY <2>1
  <2>3. Viable(t, leaf)
    BY <1>4, <2>2 DEF Viable
  <2> QED
    BY <1>1, <2>1, <2>2, <2>3, FilteredAre
<1>7. ASSUME NEW x \in Filtered(t), x # r PROVE x \in Filtered(s)
  <2>1. x \in t.blocks /\ Descends(x, root)
        /\ \E leaf : Viable(t, leaf) /\ Descends(leaf, x)
    BY <1>1, FilteredAre
  <2>2. PICK leaf : Viable(t, leaf) /\ Descends(leaf, x)
    BY <2>1
  <2>3. x \in s.blocks
    BY <1>1, <1>7, <2>1
  <2>4. CASE leaf = r
    <3>1. Descends(h, x)
      BY <1>3, <1>7, <2>2, <2>4 DEF Descends
    <3> QED
      BY <1>2, <2>1, <2>3, <3>1, FilteredAre
  <2>5. CASE leaf # r
    <3>1. leaf \in s.blocks
      BY <1>1, <2>2, <2>5 DEF Viable
    <3>2. Viable(s, leaf)
      BY <1>4, <2>2, <3>1
    <3> QED
      BY <2>1, <2>2, <2>3, <3>2, FilteredAre
  <2> QED
    BY <2>4, <2>5
<1> QED
  BY <1>5, <1>6, <1>7

(* The boost adds to the weights along the new block's chain. *)
LEMMA ReorgWeights ==
  ASSUME NEW s, NEW r, NEW h, Reorg(s, r, h), NEW t, t = on_block(s, r),
         REORG_HEAD_WEIGHT_THRESHOLD <= PROPOSER_SCORE_BOOST
  PROVE  /\ \A x \in s.blocks : get_weight(s, x) \in Nat /\ get_weight(t, x) \in Nat
         /\ get_weight(t, r) \in Nat /\ get_weight(s, h) < get_weight(t, r)
         /\ \A x : x \notin chain[r] => get_weight(t, x) = get_weight(s, x)
         /\ \A x \in chain[r] : get_weight(t, x) >= get_weight(s, x)
<1>1. /\ t \in Store /\ s \in Store /\ KeysMatch(s) /\ TreeSound(s) /\ s.blocks \subseteq Blocks
      /\ t.proposer_boost_root = r /\ s.proposer_boost_root = ZeroRoot
      /\ t.justified_checkpoint = s.justified_checkpoint
      /\ t.latest_messages = s.latest_messages
      /\ t.equivocating_indices = s.equivocating_indices
      /\ r \in Blocks /\ r \notin s.blocks /\ r # ZeroRoot
  BY ReorgStore, BlockFacts DEF Reorg, SoundStore, Store
<1>2. \A x : Supporters(t, x) = Supporters(s, x)
  BY <1>1 DEF Supporters
<1>3. /\ \A x : get_weight(s, x) = Balance[Supporters(s, x)]
      /\ \A x : get_weight(t, x) =
                  Balance[Supporters(s, x)] + (IF x \in chain[r] THEN get_proposer_score ELSE 0)
  <2>1. \A x : Boosted(s, x) = FALSE /\ Boosted(t, x) = (x \in chain[r])
    BY <1>1 DEF Boosted, Descends
  <2>2. \A x : Balance[Supporters(s, x)] \in Nat
    BY <1>1, SupportersAre
  <2>3. ASSUME NEW x
        PROVE  /\ get_weight(s, x) = Balance[Supporters(s, x)]
               /\ get_weight(t, x) = Balance[Supporters(s, x)]
                                       + (IF x \in chain[r] THEN get_proposer_score ELSE 0)
    <3>1. get_weight(s, x) = Balance[Supporters(s, x)] + 0
      BY <2>1 DEF get_weight
    <3>2. Balance[Supporters(s, x)] + 0 = Balance[Supporters(s, x)]
      BY <2>2
    <3>3. get_weight(t, x) = Balance[Supporters(s, x)]
                               + (IF x \in chain[r] THEN get_proposer_score ELSE 0)
      BY <1>2, <2>1 DEF get_weight
    <3> QED
      BY <3>1, <3>2, <3>3
  <2> QED
    BY <2>3
<1>4. /\ get_proposer_score \in Nat
      /\ \A x : Balance[Supporters(s, x)] \in Nat
      /\ \A x : get_weight(s, x) \in Nat /\ get_weight(t, x) \in Nat
  BY <1>1, Weights, SupportersAre, WeightType
<1>5. get_weight(s, h) < get_weight(t, r)
  <2>1. get_weight(s, h) < calculate_committee_fraction(REORG_HEAD_WEIGHT_THRESHOLD)
    BY DEF Reorg, is_head_weak
  <2>2. calculate_committee_fraction(REORG_HEAD_WEIGHT_THRESHOLD) <= get_proposer_score
    BY Weights, ConfigAssumption DEF get_proposer_score
  <2>3. calculate_committee_fraction(REORG_HEAD_WEIGHT_THRESHOLD) \in Nat
    BY Weights, ConfigAssumption
  <2>4. r \in chain[r]
    BY <1>1, Chains
  <2>5. get_weight(t, r) = Balance[Supporters(s, r)] + get_proposer_score
    BY <1>3, <2>4
  <2> QED
    BY <1>4, <2>1, <2>2, <2>3, <2>5
<1>6. \A x : x \notin chain[r] => get_weight(t, x) = get_weight(s, x)
  BY <1>3, <1>4
<1>7. \A x \in chain[r] : get_weight(t, x) >= get_weight(s, x)
  BY <1>3, <1>4
<1> QED
  BY <1>4, <1>5, <1>6, <1>7

(* Where get_head's walk led to h it now leads to r. *)
LEMMA ReorgWalk ==
  ASSUME NEW s, NEW r, NEW h, Reorg(s, r, h), NEW t, t = on_block(s, r),
         REORG_HEAD_WEIGHT_THRESHOLD <= PROPOSER_SCORE_BOOST,
         NEW y \in Filtered(s), ghost(s)[y] = h, y # h
  PROVE  ghost(t)[y] = r
<1> DEFINE p == block[r].parent_root
           g == ghost(s)
           k == ghost(t)
           S == {q \in s.blocks : q \in Filtered(s) /\ g[q] = h /\ q # h => k[q] = r}
<1>1. /\ s \in Store /\ BlocksInTime(s) /\ TreeSound(s) /\ IsFiniteSet(s.blocks)
      /\ s.blocks \subseteq Blocks /\ r \in Blocks \ s.blocks
      /\ block[r].parent_root = block[h].parent_root
      /\ Filtered(s) \subseteq s.blocks
  BY FilteredAre DEF Reorg, SoundStore, TreeSound, Store
<1>2. t \in Store /\ BlocksInTime(t) /\ IsFiniteSet(t.blocks)
  BY ReorgStore
<1>3. /\ r \in Blocks \ {anchor} /\ h \in Blocks \ {anchor} /\ h \in s.blocks /\ r # h
      /\ p \in Blocks /\ p \in s.blocks
  BY ReorgPlace
<1>4. /\ \A x \in s.blocks : r \notin chain[x]
      /\ chain[r] = {r} \cup chain[p]
      /\ chain[h] = {h} \cup chain[p]
  BY ReorgChildren
<1>5. Filtered(t) = Filtered(s) \cup {r}
  BY ReorgFiltered
<1>6. /\ \A x \in s.blocks : get_weight(s, x) \in Nat /\ get_weight(t, x) \in Nat
      /\ get_weight(t, r) \in Nat /\ get_weight(s, h) < get_weight(t, r)
      /\ \A x : x \notin chain[r] => get_weight(t, x) = get_weight(s, x)
      /\ \A x \in chain[r] : get_weight(t, x) >= get_weight(s, x)
  BY ReorgWeights
<1>7. /\ \A q \in Blocks : g[q] = IF Children(Filtered(s), q) = {} THEN q ELSE g[BestChild(s, q)]
      /\ \A q \in Blocks : k[q] = IF Children(Filtered(t), q) = {} THEN q ELSE k[BestChild(t, q)]
  BY <1>1, <1>2, GhostIs DEF Ghost
<1> HIDE DEF g, k
<1>8. k[r] = r
  <2>1. Children(Filtered(t), r) = {}
    BY <1>1, <1>3, <1>5 DEF Children, TreeSound
  <2> QED
    BY <1>3, <1>7, <2>1
<1>9. ASSUME NEW q \in s.blocks, Children(s.blocks, q) \subseteq S PROVE q \in S
  <2> SUFFICES ASSUME q \in Filtered(s), g[q] = h, q # h PROVE k[q] = r
    OBVIOUS
  <2> DEFINE X == Children(Filtered(s), q)
             Y == Children(Filtered(t), q)
             c == BestChild(s, q)
  <2>1. q \in Blocks /\ X # {} /\ g[c] = h
    BY <1>1, <1>7
  <2>2. /\ X \subseteq Filtered(s) \ {anchor} /\ X \in SUBSET Blocks
        /\ \A x \in X : block[x].parent_root = q
        /\ c \in X /\ Heaviest(s, X, c)
    BY <1>1, <2>1, FilteredChildren
  <2>3. Y = IF q = p THEN X \cup {r} ELSE X
    BY <1>3, <1>5 DEF Children
  <2>4. ASSUME NEW d, Heaviest(t, Y, d) PROVE k[q] = k[d]
    <3>1. Y # {} /\ Y \in SUBSET Blocks /\ Heaviest(t, Y, BestChild(t, q))
      BY <1>2, <2>1, <2>2, <2>3, FilteredChildren
    <3>2. BestChild(t, q) = d
      <4> HIDE DEF Y
      <4> QED
        BY <1>2, <2>4, <3>1, OneHeaviest
    <3> QED
      BY <1>7, <2>1, <3>1, <3>2
  <2>5. c \in Filtered(s) /\ c \in s.blocks /\ c \in Blocks \ {anchor} /\ block[c].parent_root = q
        /\ c \in Children(s.blocks, q)
    BY <1>1, <2>2 DEF Children
  <2>6. Descends(h, c)
    BY <1>1, <2>1, <2>5, GhostEnds DEF g
  <2> HIDE DEF X, Y, c
  <2>7. CASE c = h
    <3>1. q = p /\ Y = X \cup {r}
      BY <1>1, <2>3, <2>5, <2>7
    <3>2. ASSUME NEW x \in X PROVE Heavier(t, r, x)
      <4>1. x \in Blocks \ {anchor} /\ x \in s.blocks /\ block[x].parent_root = p
        BY <1>1, <2>2, <3>1
      <4>2. x \notin chain[r]
        <5>1. block[p].slot < block[x].slot /\ block[p].slot \in Nat /\ block[x].slot \in Nat
          BY <1>3, <4>1, BlockTreeAssumption
        <5>2. x \notin chain[p]
          BY <1>3, <5>1, Chains
        <5> QED
          BY <1>1, <1>4, <4>1, <5>2
      <4>3. get_weight(s, x) <= get_weight(s, h)
        <5>1. CASE x = h
          BY <1>3, <1>6, <5>1
        <5>2. CASE x # h
          <6>1. Heavier(s, h, x)
            BY <2>2, <2>7, <5>2 DEF Heaviest
          <6> QED
            BY <1>3, <1>6, <4>1, <6>1 DEF Heavier
        <5> QED
          BY <5>1, <5>2
      <4> QED
        BY <1>3, <1>6, <4>1, <4>2, <4>3 DEF Heavier
    <3>3. Heaviest(t, Y, r)
      BY <3>1, <3>2 DEF Heaviest
    <3> QED
      BY <1>8, <2>4, <3>3
  <2>8. CASE c # h
    <3>1. c \in chain[r] /\ c \in chain[p]
      BY <1>4, <2>6, <2>8 DEF Descends
    <3>2. q # p
      <4>1. block[c].slot <= block[p].slot
        BY <1>3, <3>1, Chains
      <4>2. /\ block[block[c].parent_root].slot < block[c].slot
            /\ block[block[c].parent_root].slot \in Nat /\ block[c].slot \in Nat
            /\ block[p].slot \in Nat
        BY <1>3, <2>1, <2>5, BlockTreeAssumption
      <4> HIDE DEF p
      <4> QED
        BY <2>5, <4>1, <4>2
    <3>3. Y = X
      BY <2>3, <3>2
    <3>4. ASSUME NEW x \in X \ {c} PROVE Heavier(t, c, x)
      <4>1. x \in Blocks \ {anchor} /\ x \in s.blocks /\ block[x].parent_root = q
        BY <1>1, <2>2
      <4>2. x \notin chain[r]
        <5> SUFFICES ASSUME x \in chain[r] PROVE FALSE
          OBVIOUS
        <5>1. c \in chain[r] \ {anchor} /\ x \in chain[r] \ {anchor} /\ r \in Blocks
              /\ block[c].parent_root = block[x].parent_root
          BY <1>3, <2>5, <3>1, <4>1
        <5>2. c = x
          BY <5>1, OneNextOnChain
        <5> QED
          BY <5>2
      <4>3. Heavier(s, c, x)
        BY <2>2 DEF Heaviest
      <4> QED
        BY <1>6, <2>5, <3>1, <4>1, <4>2, <4>3 DEF Heavier
    <3>5. Heaviest(t, Y, c)
      BY <2>2, <3>3, <3>4 DEF Heaviest
    <3>6. c \in S
      BY <1>9, <2>5
    <3> QED
      BY <2>1, <2>4, <2>5, <2>8, <3>5, <3>6
  <2> QED
    BY <2>7, <2>8
<1>10. s.blocks \subseteq S
  <2> HIDE DEF S
  <2> QED
    BY <1>1, <1>9, TowardsLeaves
<1> QED
  BY <1>1, <1>10 DEF g, k

(* The proposer's re-org works whenever get_proposer_head asks for it: the *)
(* boost of a timely block on the parent outweighs the late head, which is *)
(* below the re-org threshold, for every threshold that is not above the   *)
(* boost.                                                                  *)
THEOREM ReorgsSucceed ==
  ASSUME REORG_HEAD_WEIGHT_THRESHOLD <= PROPOSER_SCORE_BOOST
  PROVE  Spec => []ReorgSucceeds
<1>1. IInv /\ TreeSound(store) => ReorgSucceeds
  <2> SUFFICES ASSUME IInv, TreeSound(store), NEW r \in Blocks \ store.blocks,
                      NEW h, h = get_head(store),
                      ProposerHeadIsDefined(store, h),
                      block[r].slot = get_current_slot(store),
                      store.proposer_boost_root = ZeroRoot,
                      get_proposer_head(store, h, block[r].slot) # h,
                      get_proposer_head(store, h, block[r].slot) = block[r].parent_root
               PROVE  get_head(on_block(store, r)) = r
    BY DEF ReorgSucceeds
  <2> DEFINE t == on_block(store, r)
             root == store.justified_checkpoint.root
  <2>1. Reorg(store, r, h)
    BY DEF IInv, Reorg, get_proposer_head
  <2>2. root \in Filtered(store) /\ root # h
    BY <2>1, ReorgPlace
  <2>3. ghost(store)[root] = h
    BY HeadIsGhost
  <2>4. t.justified_checkpoint = store.justified_checkpoint
    BY <2>1, ReorgStore
  <2>5. ghost(t)[root] = r
    BY <2>1, <2>2, <2>3, ReorgWalk
  <2> QED
    BY <2>4, <2>5, HeadIsGhost
<1> QED
  BY <1>1, AlwaysSound, AlwaysTree, PTL

=============================================================================
