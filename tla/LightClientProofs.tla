-------------------------- MODULE LightClientProofs --------------------------
(***************************************************************************)
(* Proofs about LightClient, for any chains, any length of a period and    *)
(* any size of the committee.                                              *)
(*                                                                         *)
(* What the store shows does not tell whether a forced update will keep it *)
(* sound: that depends on the store the best update was received with.     *)
(* The invariant says what still holds of that update: it is no older than *)
(* the period of the store, and signed by a committee the store knows.     *)
(* Learning the next committee keeps both, and whatever moves the store    *)
(* into the next period drops the update.                                  *)
(***************************************************************************)
EXTENDS LightClient, TLAPS

Period(slot) == compute_sync_committee_period_at_slot(slot)

(* The last period whose signatures the store can verify. *)
LastSignerPeriod(s) ==
  IF is_next_sync_committee_known(s) THEN StorePeriod(s) + 1 ELSE StorePeriod(s)

Update ==
  [attested_header : Nat, next_sync_committee : Nat \cup {NoCommittee},
   is_finality_update : BOOLEAN, finalized_header : Nat,
   participants : Nat, signature_slot : Nat]

(* What holds of everything that full nodes derive, and of a forced update.*)
SoundUpdate(u) ==
  /\ u \in Update
  /\ u.attested_header \in Blocks /\ u.finalized_header \in Blocks
  /\ u.finalized_header <= u.attested_header
  /\ u.attested_header < u.signature_slot
  /\ u.signature_slot <= current_slot
  /\ u.next_sync_committee \in {NoCommittee, AttestedPeriod(u) + 1}
  /\ u.participants <= SYNC_COMMITTEE_SIZE

(* An update the store can still use. *)
Fits(s, u) ==
  /\ AttestedPeriod(u) >= StorePeriod(s)
  /\ SignaturePeriod(u) <= LastSignerPeriod(s)

Store ==
  [finalized_header : Nat, current_sync_committee : Nat,
   next_sync_committee : Nat \cup {NoCommittee},
   best_valid_update : Update \cup {NoUpdate}, optimistic_header : Nat,
   previous_max_active_participants : 0..SYNC_COMMITTEE_SIZE,
   current_max_active_participants : 0..SYNC_COMMITTEE_SIZE]

SoundStore(s) ==
  /\ s \in Store
  /\ s.finalized_header \in Blocks /\ s.optimistic_header \in Blocks
  /\ s.optimistic_header <= current_slot
  /\ s.finalized_header <= s.optimistic_header
  /\ Period(s.optimistic_header) <= LastSignerPeriod(s)
  /\ s.current_sync_committee = StorePeriod(s)
  /\ s.next_sync_committee \in {NoCommittee, StorePeriod(s) + 1}
  /\ s.best_valid_update # NoUpdate =>
       SoundUpdate(s.best_valid_update) /\ Fits(s, s.best_valid_update)

IInv ==
  /\ chain \in Chains
  /\ current_slot \in 0..MaxSlot
  /\ SoundStore(store)

(* Headers of t are not older than those of s. *)
Newer(t, s) ==
  /\ t.finalized_header >= s.finalized_header
  /\ t.optimistic_header >= s.optimistic_header

-----------------------------------------------------------------------------
(* Periods are in the order of slots. *)
LEMMA PeriodMonotone ==
  /\ \A a \in Nat : Period(a) \in Nat
  /\ \A a, b \in Nat : a <= b => Period(a) <= Period(b)
<1> DEFINE n == SLOTS_PER_PERIOD
<1>n. n \in Nat \ {0}
  BY LightClientConstants
<1> HIDE DEF n
<1>1. ASSUME NEW a \in Nat
      PROVE  a \div n \in Nat /\ a = n * (a \div n) + (a % n) /\ a % n \in 0..(n - 1)
  BY <1>n, SMTT(30)
<1>2. ASSUME NEW p \in Nat, NEW q \in Nat, NEW r \in 0..(n - 1), NEW t \in 0..(n - 1),
             n * p + r <= n * q + t
      PROVE  p <= q
  <2>1. SUFFICES ASSUME p >= q + 1 PROVE FALSE
    BY <1>2
  <2>2. n * p >= n * (q + 1)
    BY <1>n, <2>1, SMTT(30)
  <2>3. n * (q + 1) = n * q + n
    BY <1>n, SMTT(30)
  <2>4. n * p \in Nat /\ n * q \in Nat
    BY <1>n, SMTT(30)
  <2> QED
    BY <1>n, <1>2, <2>2, <2>3, <2>4
<1>3. ASSUME NEW a \in Nat, NEW b \in Nat, a <= b PROVE a \div n <= b \div n
  BY <1>1, <1>2, <1>3
<1> QED
  BY <1>1, <1>3 DEF Period, compute_sync_committee_period_at_slot, n

(* The greater of two slots. *)
LEMMA MaxOfTwo ==
  ASSUME NEW a \in Nat, NEW b \in Nat
  PROVE  Max({a, b}) = IF a >= b THEN a ELSE b
BY DEF Max

(* Blocks of a chain, as the nodes that follow it know them. *)
LEMMA ChainFacts ==
  ASSUME chain \in Chains
  PROVE  /\ Blocks \subseteq Nat /\ GENESIS_SLOT \in Blocks
         /\ \A b \in Blocks :
              /\ chain[b].participants \in 0..SYNC_COMMITTEE_SIZE
              /\ chain[b].finalized \in Blocks /\ chain[b].finalized <= b
              /\ b # GENESIS_SLOT =>
                   chain[b].parent \in Blocks /\ chain[b].parent < b
BY ChainsAssumption, LightClientConstants DEF Blocks

(* Everything nodes send is sound, whole or cut down. *)
LEMMA DerivedUpdatesAreSound ==
  ASSUME chain \in Chains, current_slot \in Nat, NEW u \in LightClientUpdates
  PROVE  /\ SoundUpdate(u)
         /\ SoundUpdate(create_light_client_finality_update(u))
         /\ SoundUpdate(create_light_client_optimistic_update(u))
<1>1. PICK b \in SignedBlocks, f \in BOOLEAN : u = create_light_client_update(b, f)
  BY DEF LightClientUpdates
<1>2. b \in Blocks \ {GENESIS_SLOT} /\ b <= current_slot /\ b \in Nat
  BY ChainFacts DEF SignedBlocks
<1>3. Period(chain[b].parent) \in Nat
  BY ChainFacts, PeriodMonotone, <1>2
<1>4. SoundUpdate(u)
  <2>1. /\ u.attested_header = chain[b].parent
        /\ u.next_sync_committee \in {NoCommittee, AttestedPeriod(u) + 1}
        /\ u.is_finality_update \in BOOLEAN
        /\ u.finalized_header \in {GENESIS_SLOT, chain[chain[b].parent].finalized}
        /\ u.participants = chain[b].participants
        /\ u.signature_slot = b
    BY <1>1 DEF create_light_client_update, AttestedPeriod
  <2>2. /\ u.attested_header \in Blocks /\ u.attested_header \in Nat
        /\ u.attested_header < u.signature_slot
    BY <1>2, <2>1, ChainFacts
  <2>3. /\ u.finalized_header \in Blocks /\ u.finalized_header \in Nat
        /\ u.finalized_header <= u.attested_header
    BY <2>1, <2>2, ChainFacts DEF GENESIS_SLOT
  <2>4. u.participants \in Nat /\ u.participants <= SYNC_COMMITTEE_SIZE
    BY <1>2, <2>1, ChainFacts, LightClientConstants
  <2>5. u.next_sync_committee \in Nat \cup {NoCommittee}
    BY <1>3, <2>1 DEF AttestedPeriod, Period
  <2>6. u \in Update
    BY <1>1, <1>2, <2>1, <2>2, <2>3, <2>4, <2>5 DEF create_light_client_update, Update
  <2> QED
    BY <1>2, <2>1, <2>2, <2>3, <2>4, <2>6 DEF SoundUpdate
<1>5. SoundUpdate(create_light_client_finality_update(u))
  BY <1>4 DEF SoundUpdate, create_light_client_finality_update, Update, AttestedPeriod
<1>6. SoundUpdate(create_light_client_optimistic_update(u))
  <2>1. u.attested_header \in Nat /\ GENESIS_SLOT \in Nat /\ GENESIS_SLOT \in Blocks
        /\ GENESIS_SLOT <= u.attested_header
    BY <1>4, ChainFacts DEF SoundUpdate, Update, GENESIS_SLOT
  <2> QED
    BY <1>4, <2>1
    DEF SoundUpdate, create_light_client_optimistic_update, Update, AttestedPeriod
<1> QED
  BY <1>4, <1>5, <1>6

-----------------------------------------------------------------------------
(* A valid update fits the store, even one that is older than the store's  *)
(* header and was let in for its committee.                                *)
LEMMA ValidFits ==
  ASSUME chain \in Chains, NEW s, SoundStore(s), NEW u, SoundUpdate(u),
         validate_light_client_update(s, u)
  PROVE  Fits(s, u)
<1>1. s.finalized_header \in Nat /\ u.attested_header \in Nat
  BY ChainFacts DEF SoundStore, SoundUpdate
<1>2. AttestedPeriod(u) >= StorePeriod(s)
  <2>1. CASE u.attested_header > s.finalized_header
    BY <1>1, <2>1, PeriodMonotone DEF AttestedPeriod, StorePeriod, Period
  <2>2. CASE update_has_next_sync_committee(s, u)
    BY <1>1, <2>2, PeriodMonotone
    DEF update_has_next_sync_committee, AttestedPeriod, StorePeriod, Period
  <2> QED
    BY <2>1, <2>2 DEF validate_light_client_update
<1>3. StorePeriod(s) \in Nat
  BY <1>1, PeriodMonotone DEF StorePeriod, Period
<1>4. SignaturePeriod(u) <= LastSignerPeriod(s)
  BY <1>3 DEF validate_light_client_update, SignerPeriods, LastSignerPeriod
<1> QED
  BY <1>2, <1>4 DEF Fits

(* Noting an update moves at most the optimistic header. *)
LEMMA NotedIsSound ==
  ASSUME chain \in Chains, current_slot \in Nat,
         NEW s, SoundStore(s), NEW u, SoundUpdate(u), Fits(s, u)
  PROVE  LET t == UpdateNoted(s, u)
         IN SoundStore(t) /\ Fits(t, u) /\ Newer(t, s)
<1> DEFINE best == IF s.best_valid_update = NoUpdate
                        \/ is_better_update(u, s.best_valid_update)
                   THEN u ELSE s.best_valid_update
           t0 == [s EXCEPT !.best_valid_update = best,
                           !.current_max_active_participants = ActiveParticipants(s, u)]
           t == UpdateNoted(s, u)
<1>1. s \in Store /\ u \in Update /\ best \in Update \cup {NoUpdate}
  BY DEF SoundStore, SoundUpdate, Store
<1>2. ActiveParticipants(s, u) \in 0..SYNC_COMMITTEE_SIZE
  <2>1. /\ s.current_max_active_participants \in Nat
        /\ s.current_max_active_participants <= SYNC_COMMITTEE_SIZE
        /\ u.participants \in Nat /\ u.participants <= SYNC_COMMITTEE_SIZE
    BY <1>1, LightClientConstants DEF Store, Update, SoundUpdate
  <2> QED
    BY <2>1, MaxOfTwo, LightClientConstants DEF ActiveParticipants
<1>3. best # NoUpdate => SoundUpdate(best) /\ Fits(s, best)
  BY DEF SoundStore
<1> HIDE DEF best
<1>4. t = t0 \/ (u.attested_header > s.optimistic_header
                  /\ t = [t0 EXCEPT !.optimistic_header = u.attested_header])
  BY <1>1 DEF UpdateNoted, best, Store
<1>5. /\ t \in Store
      /\ t.finalized_header = s.finalized_header
      /\ t.current_sync_committee = s.current_sync_committee
      /\ t.next_sync_committee = s.next_sync_committee
      /\ t.best_valid_update = best
      /\ t.optimistic_header = s.optimistic_header
         \/ (t.optimistic_header = u.attested_header
              /\ u.attested_header > s.optimistic_header)
  BY <1>1, <1>2, <1>4 DEF Store, Update
<1> HIDE DEF t0, t
<1>6. /\ StorePeriod(t) = StorePeriod(s)
      /\ LastSignerPeriod(t) = LastSignerPeriod(s)
      /\ \A w : Fits(s, w) => Fits(t, w)
  BY <1>5 DEF StorePeriod, LastSignerPeriod, is_next_sync_committee_known, Fits
<1>7. Period(u.attested_header) <= LastSignerPeriod(s)
  <2>1. /\ u.attested_header \in Nat /\ u.signature_slot \in Nat
        /\ u.attested_header <= u.signature_slot
    BY <1>1 DEF SoundUpdate, Update
  <2>2. Period(u.attested_header) <= Period(u.signature_slot)
    BY <2>1, PeriodMonotone
  <2>3. Period(u.signature_slot) \in Nat /\ Period(u.attested_header) \in Nat
    BY <2>1, PeriodMonotone
  <2>4. LastSignerPeriod(s) \in Nat
    BY <1>1, PeriodMonotone DEF LastSignerPeriod, StorePeriod, Store, Period
  <2> QED
    BY <2>2, <2>3, <2>4 DEF Fits, SignaturePeriod, Period
<1>8. t.optimistic_header <= current_slot /\ t.finalized_header <= t.optimistic_header
  BY <1>1, <1>5 DEF SoundStore, SoundUpdate, Store, Update
<1>9. SoundStore(t)
  BY <1>3, <1>5, <1>6, <1>7, <1>8 DEF SoundStore, SoundUpdate
<1>10. Newer(t, s)
  BY <1>1, <1>5 DEF Newer, Store, Update
<1> QED
  BY <1>6, <1>9, <1>10 DEF t

(* The last period with a known committee, and what lies between the two   *)
(* headers of an update. *)
LEMMA PeriodsOfUpdate ==
  ASSUME NEW s, SoundStore(s), NEW u, SoundUpdate(u), Fits(s, u)
  PROVE  /\ StorePeriod(s) \in Nat /\ AttestedPeriod(u) \in Nat
         /\ FinalizedPeriod(u) \in Nat
         /\ FinalizedPeriod(u) <= AttestedPeriod(u)
         /\ StorePeriod(s) <= AttestedPeriod(u)
         /\ AttestedPeriod(u) <= LastSignerPeriod(s)
         /\ u.finalized_header > s.finalized_header =>
              StorePeriod(s) <= FinalizedPeriod(u)
         /\ u.finalized_header <= s.finalized_header =>
              FinalizedPeriod(u) <= StorePeriod(s)
<1>1. /\ s.finalized_header \in Nat /\ u.finalized_header \in Nat
      /\ u.attested_header \in Nat /\ u.signature_slot \in Nat
      /\ u.finalized_header <= u.attested_header
      /\ u.attested_header <= u.signature_slot
  BY DEF SoundStore, SoundUpdate, Store, Update
<1>2. /\ StorePeriod(s) \in Nat /\ AttestedPeriod(u) \in Nat
      /\ FinalizedPeriod(u) \in Nat /\ SignaturePeriod(u) \in Nat
      /\ FinalizedPeriod(u) <= AttestedPeriod(u)
      /\ AttestedPeriod(u) <= SignaturePeriod(u)
      /\ u.finalized_header > s.finalized_header => StorePeriod(s) <= FinalizedPeriod(u)
      /\ u.finalized_header <= s.finalized_header => FinalizedPeriod(u) <= StorePeriod(s)
  BY <1>1, PeriodMonotone
  DEF StorePeriod, AttestedPeriod, FinalizedPeriod, SignaturePeriod, Period
<1>3. LastSignerPeriod(s) \in Nat
  BY <1>2 DEF LastSignerPeriod
<1> QED
  BY <1>2, <1>3 DEF Fits

(* Applying an update that fits, and whose finalized header is of the      *)
(* store's period if the next committee is missing, leaves a sound store.  *)
LEMMA AppliedIsSound ==
  ASSUME chain \in Chains, current_slot \in Nat,
         NEW s, SoundStore(s), NEW u, SoundUpdate(u), Fits(s, u), Applicable(s, u)
  PROVE  LET t == [apply_light_client_update(s, u) EXCEPT !.best_valid_update = NoUpdate]
         IN SoundStore(t) /\ Newer(t, s)
<1> DEFINE r == CommitteesRotated(s, u)
           t == [apply_light_client_update(s, u) EXCEPT !.best_valid_update = NoUpdate]
           P == StorePeriod(s)
           known == is_next_sync_committee_known(s)
           enters == known /\ FinalizedPeriod(u) = P + 1
<1>1. s \in Store /\ u \in Update
  BY DEF SoundStore, SoundUpdate
<1>2. /\ P \in Nat /\ AttestedPeriod(u) \in Nat /\ FinalizedPeriod(u) \in Nat
      /\ FinalizedPeriod(u) <= AttestedPeriod(u) /\ P <= AttestedPeriod(u)
      /\ AttestedPeriod(u) <= LastSignerPeriod(s)
      /\ u.finalized_header > s.finalized_header => P <= FinalizedPeriod(u)
      /\ u.finalized_header <= s.finalized_header => FinalizedPeriod(u) <= P
  BY PeriodsOfUpdate
<1>3. LastSignerPeriod(s) = IF known THEN P + 1 ELSE P
  BY DEF LastSignerPeriod
<1>4. /\ r \in Store
      /\ r.finalized_header = s.finalized_header
      /\ r.optimistic_header = s.optimistic_header
      /\ r.current_sync_committee =
           IF enters THEN s.next_sync_committee ELSE s.current_sync_committee
      /\ r.next_sync_committee =
           IF enters \/ ~known THEN u.next_sync_committee ELSE s.next_sync_committee
  <2>1. known => s.next_sync_committee \in Nat
    BY <1>1 DEF is_next_sync_committee_known, Store
  <2>2. CASE ~known
    BY <1>1, <2>2, LightClientConstants DEF CommitteesRotated, Store, Update
  <2>3. CASE enters
    <3>1. r = [s EXCEPT
                 !.current_sync_committee = s.next_sync_committee,
                 !.next_sync_committee = u.next_sync_committee,
                 !.previous_max_active_participants = s.current_max_active_participants,
                 !.current_max_active_participants = 0]
      BY <2>3 DEF CommitteesRotated
    <3>2. /\ u.next_sync_committee \in Nat \cup {NoCommittee}
          /\ 0 \in 0..SYNC_COMMITTEE_SIZE
          /\ s.current_max_active_participants \in 0..SYNC_COMMITTEE_SIZE
      BY <1>1, LightClientConstants DEF Store, Update
    <3> QED
      BY <1>1, <2>1, <2>3, <3>1, <3>2 DEF Store
  <2>4. CASE known /\ ~enters
    BY <1>1, <2>4 DEF CommitteesRotated
  <2> QED
    BY <2>2, <2>3, <2>4
<1> HIDE DEF r
<1>5. /\ t.best_valid_update = NoUpdate
      /\ t \in Store
      /\ t.current_sync_committee = r.current_sync_committee
      /\ t.next_sync_committee = r.next_sync_committee
      /\ t.finalized_header =
           IF u.finalized_header > s.finalized_header
           THEN u.finalized_header ELSE s.finalized_header
      /\ t.optimistic_header =
           IF u.finalized_header > s.finalized_header
              /\ u.finalized_header > s.optimistic_header
           THEN u.finalized_header ELSE s.optimistic_header
  <2>1. s.optimistic_header \in Nat /\ u.finalized_header \in Nat
    BY <1>1 DEF Store, Update
  <2>2. CASE u.finalized_header > s.finalized_header
    <3>1. apply_light_client_update(s, u) =
            [r EXCEPT !.finalized_header = u.finalized_header,
                      !.optimistic_header =
                        IF s.optimistic_header >= u.finalized_header
                        THEN s.optimistic_header ELSE u.finalized_header]
      BY <1>4, <2>1, <2>2, MaxOfTwo DEF apply_light_client_update, r, Store
    <3>2. /\ t.best_valid_update = NoUpdate
          /\ t.current_sync_committee = r.current_sync_committee
          /\ t.next_sync_committee = r.next_sync_committee
          /\ t \in Store
      BY <1>4, <2>1, <3>1 DEF Store
    <3>3. /\ t.finalized_header = u.finalized_header
          /\ t.optimistic_header = IF s.optimistic_header >= u.finalized_header
                                   THEN s.optimistic_header ELSE u.finalized_header
      BY <1>4, <3>1 DEF Store
    <3> QED
      BY <2>1, <2>2, <3>2, <3>3
  <2>3. CASE ~(u.finalized_header > s.finalized_header)
    <3>1. apply_light_client_update(s, u) = r
      BY <2>3 DEF apply_light_client_update, r
    <3> QED
      BY <1>4, <2>3, <3>1 DEF Store
  <2> QED
    BY <2>2, <2>3
<1> HIDE DEF t
<1>6. Newer(t, s)
  BY <1>1, <1>5 DEF Newer, Store, Update
<1>7. /\ t.finalized_header \in Blocks /\ t.optimistic_header \in Blocks
      /\ t.optimistic_header <= current_slot
      /\ t.finalized_header <= t.optimistic_header
  BY <1>1, <1>5 DEF SoundStore, SoundUpdate, Store, Update
<1>8. StorePeriod(t) = IF enters THEN P + 1 ELSE P
  <2>1. StorePeriod(t) = IF u.finalized_header > s.finalized_header
                         THEN FinalizedPeriod(u) ELSE P
    BY <1>5 DEF StorePeriod, FinalizedPeriod
  <2>2. CASE u.finalized_header > s.finalized_header
    BY <1>2, <1>3, <2>1, <2>2 DEF Applicable
  <2>3. CASE ~(u.finalized_header > s.finalized_header)
    <3>1. FinalizedPeriod(u) <= P
      BY <1>1, <1>2, <2>3 DEF Store, Update
    <3> QED
      BY <1>2, <2>1, <2>3, <3>1
  <2> QED
    BY <2>2, <2>3
<1>9. /\ t.current_sync_committee = StorePeriod(t)
      /\ t.next_sync_committee \in {NoCommittee, StorePeriod(t) + 1}
  <2>1. known => s.next_sync_committee = P + 1
    BY DEF SoundStore, is_next_sync_committee_known
  <2>2. CASE enters
    <3>1. AttestedPeriod(u) = P + 1
      BY <1>2, <1>3, <2>2
    <3> QED
      BY <1>4, <1>5, <1>8, <2>1, <2>2, <3>1 DEF SoundUpdate
  <2>3. CASE ~known
    <3>1. AttestedPeriod(u) = P
      BY <1>2, <1>3, <2>3
    <3> QED
      BY <1>4, <1>5, <1>8, <2>3, <3>1 DEF SoundUpdate, SoundStore
  <2>4. CASE known /\ ~enters
    BY <1>4, <1>5, <1>8, <2>1, <2>4 DEF SoundStore
  <2> QED
    BY <2>2, <2>3, <2>4
<1>10. Period(t.optimistic_header) <= LastSignerPeriod(t)
  <2>1. Period(s.optimistic_header) <= LastSignerPeriod(s)
        /\ Period(s.optimistic_header) \in Nat
    BY <1>1, PeriodMonotone DEF SoundStore, Store
  <2>2. Period(t.optimistic_header) \in {Period(s.optimistic_header), FinalizedPeriod(u)}
    BY <1>5 DEF FinalizedPeriod, Period
  <2>3. Period(t.optimistic_header) <= LastSignerPeriod(s)
        /\ Period(t.optimistic_header) \in Nat
    BY <1>2, <1>3, <2>1, <2>2
  <2>4. CASE enters
    BY <1>2, <1>3, <1>8, <2>3, <2>4 DEF LastSignerPeriod
  <2>5. CASE ~known
    BY <1>2, <1>3, <1>8, <2>3, <2>5 DEF LastSignerPeriod
  <2>6. CASE known /\ ~enters
    <3>1. is_next_sync_committee_known(t)
      BY <1>4, <1>5, <2>6 DEF is_next_sync_committee_known
    <3> QED
      BY <1>2, <1>3, <1>8, <2>3, <2>6, <3>1 DEF LastSignerPeriod
  <2> QED
    BY <2>4, <2>5, <2>6
<1>11. SoundStore(t)
  BY <1>5, <1>7, <1>9, <1>10 DEF SoundStore
<1> QED
  BY <1>6, <1>11 DEF t

(* What is final meets the assertion of apply_light_client_update. *)
LEMMA FinalIsApplicable ==
  ASSUME NEW s, SoundStore(s), NEW u, SoundUpdate(u), Fits(s, u), IsFinal(s, u)
  PROVE  Applicable(s, u)
<1>1. CASE is_next_sync_committee_known(s)
  BY <1>1 DEF Applicable
<1>2. CASE ~is_next_sync_committee_known(s)
  <2>1. StorePeriod(s) = AttestedPeriod(u)
    BY <1>2, PeriodsOfUpdate DEF LastSignerPeriod
  <2>2. CASE u.finalized_header > s.finalized_header
    BY <2>1, <2>2, PeriodsOfUpdate DEF Applicable
  <2>3. CASE has_sync_committee_finality(u)
    BY <2>1, <2>3 DEF Applicable, has_sync_committee_finality
  <2> QED
    BY <2>2, <2>3 DEF IsFinal
<1> QED
  BY <1>1, <1>2

(* The best update of a sound store, made ready to be forced, is sound     *)
(* and can be applied.                                                     *)
LEMMA ForcedIsSound ==
  ASSUME chain \in Chains, NEW s, SoundStore(s), s.best_valid_update # NoUpdate
  PROVE  /\ SoundUpdate(ForcedUpdate(s)) /\ Fits(s, ForcedUpdate(s))
         /\ Applicable(s, ForcedUpdate(s))
         /\ FinalizedPeriod(ForcedUpdate(s)) \in SignerPeriods(s)
<1> DEFINE b == s.best_valid_update
           u == ForcedUpdate(s)
<1>1. SoundUpdate(b) /\ Fits(s, b) /\ b \in Update /\ s.finalized_header \in Nat
  BY DEF SoundStore, SoundUpdate, Store
<1>2. /\ u \in Update
      /\ u.attested_header = b.attested_header
      /\ u.signature_slot = b.signature_slot
      /\ u.next_sync_committee = b.next_sync_committee
      /\ u.participants = b.participants
      /\ u.finalized_header = IF b.finalized_header <= s.finalized_header
                              THEN b.attested_header ELSE b.finalized_header
  BY <1>1 DEF ForcedUpdate, Update
<1> HIDE DEF u
<1>3. SoundUpdate(u)
  BY <1>1, <1>2 DEF SoundUpdate, AttestedPeriod, Update
<1>4. Fits(s, u)
  BY <1>1, <1>2 DEF Fits, AttestedPeriod, SignaturePeriod
<1>5. StorePeriod(s) <= FinalizedPeriod(u)
  <2>1. CASE b.finalized_header <= s.finalized_header
    <3>1. FinalizedPeriod(u) = AttestedPeriod(u)
      BY <1>2, <2>1 DEF FinalizedPeriod, AttestedPeriod
    <3> QED
      BY <1>3, <1>4, <3>1, PeriodsOfUpdate
  <2>2. CASE ~(b.finalized_header <= s.finalized_header)
    <3>1. u.finalized_header > s.finalized_header
      BY <1>1, <1>2, <2>2 DEF Update
    <3> QED
      BY <1>3, <1>4, <3>1, PeriodsOfUpdate
  <2> QED
    BY <2>1, <2>2
<1>6. /\ FinalizedPeriod(u) <= AttestedPeriod(u)
      /\ AttestedPeriod(u) <= LastSignerPeriod(s)
      /\ StorePeriod(s) \in Nat /\ FinalizedPeriod(u) \in Nat /\ AttestedPeriod(u) \in Nat
  BY <1>3, <1>4, PeriodsOfUpdate
<1>7. Applicable(s, u)
  BY <1>5, <1>6 DEF Applicable, LastSignerPeriod
<1>8. FinalizedPeriod(u) \in SignerPeriods(s)
  BY <1>5, <1>6 DEF SignerPeriods, LastSignerPeriod
<1> QED
  BY <1>3, <1>4, <1>7, <1>8 DEF u

-----------------------------------------------------------------------------
(* A received update, of whatever kind, keeps the store sound. *)
LEMMA ReceivedIsSound ==
  ASSUME IInv, NEW u, SoundUpdate(u), Receive(u)
  PROVE  SoundStore(store') /\ Newer(store', store)
<1> DEFINE t == UpdateNoted(store, u)
<1>1. chain \in Chains /\ current_slot \in Nat /\ SoundStore(store)
  BY LightClientConstants DEF IInv
<1>2. Fits(store, u)
  BY <1>1, ValidFits DEF Receive
<1>3. SoundStore(t) /\ Fits(t, u) /\ Newer(t, store)
  BY <1>1, <1>2, NotedIsSound
<1>4. store' = process_light_client_update(store, u)
  BY DEF Receive
<1> HIDE DEF t
<1>5. CASE IsFinal(t, u)
  <2> DEFINE f == [apply_light_client_update(t, u) EXCEPT !.best_valid_update = NoUpdate]
  <2>1. SoundStore(f) /\ Newer(f, t)
    BY <1>1, <1>3, <1>5, FinalIsApplicable, AppliedIsSound
  <2>2. store' = f
    BY <1>4, <1>5 DEF process_light_client_update, t
  <2> HIDE DEF f
  <2>3. Newer(f, store)
    BY <1>1, <1>3, <2>1 DEF Newer, SoundStore, Store
  <2> QED
    BY <2>1, <2>2, <2>3
<1>6. CASE ~IsFinal(t, u)
  BY <1>3, <1>4, <1>6 DEF process_light_client_update, t
<1> QED
  BY <1>5, <1>6

LEMMA InitSound == Init => IInv
<1> SUFFICES ASSUME Init PROVE IInv
  OBVIOUS
<1>1. PICK trusted \in TrustedSlots \cap Blocks :
        store = initialize_light_client_store(trusted) /\ current_slot = trusted
  BY DEF Init
<1>2. chain \in Chains /\ trusted \in 0..MaxSlot /\ trusted \in Nat
  BY <1>1, ChainsAssumption, LightClientConstants DEF Init, Blocks
<1>3. Period(trusted) \in Nat
  BY <1>2, PeriodMonotone
<1>4. store \in Store
  BY <1>1, <1>2, <1>3, LightClientConstants
  DEF initialize_light_client_store, Store, Period
<1>5. SoundStore(store)
  BY <1>1, <1>2, <1>3, <1>4
  DEF SoundStore, initialize_light_client_store, StorePeriod, LastSignerPeriod,
      is_next_sync_committee_known, Period
<1> QED
  BY <1>1, <1>2, <1>5 DEF IInv

(* Every step keeps the invariant and takes no header back. *)
LEMMA StepSound == IInv /\ [Next]_vars => IInv' /\ Newer(store', store)
<1> SUFFICES ASSUME IInv, [Next]_vars PROVE IInv' /\ Newer(store', store)
  OBVIOUS
<1>1. chain \in Chains /\ current_slot \in Nat /\ SoundStore(store) /\ store \in Store
  BY LightClientConstants DEF IInv, SoundStore
<1>2. Newer(store, store)
  BY <1>1 DEF Newer, Store
<1>3. ASSUME UNCHANGED <<current_slot, chain>>, SoundStore(store'), Newer(store', store)
      PROVE  IInv' /\ Newer(store', store)
  <2>1. (SoundStore(store))'
    BY <1>3
    DEF SoundStore, SoundUpdate, Fits, Blocks, LastSignerPeriod, StorePeriod,
        AttestedPeriod, SignaturePeriod, is_next_sync_committee_known
  <2> QED
    BY <1>3, <2>1 DEF IInv
<1>4. ASSUME NEW u, SoundUpdate(u), Receive(u) PROVE IInv' /\ Newer(store', store)
  BY <1>3, <1>4, ReceivedIsSound DEF Receive
<1>5. CASE Tick
  <2>1. store' = store /\ chain' = chain
        /\ current_slot' \in 0..MaxSlot /\ current_slot' >= current_slot
    BY <1>1, <1>5, LightClientConstants DEF Tick, IInv
  <2>2. (SoundStore(store))'
    BY <1>1, <2>1
    DEF SoundStore, SoundUpdate, Fits, Blocks, LastSignerPeriod, StorePeriod, Store, Update,
        AttestedPeriod, SignaturePeriod, is_next_sync_committee_known
  <2> QED
    BY <1>1, <1>2, <2>1, <2>2 DEF IInv
<1>6. CASE FetchUpdate
  BY <1>1, <1>4, <1>6, DerivedUpdatesAreSound DEF FetchUpdate, UpdatesOf
<1>7. CASE process_light_client_finality_update
  BY <1>1, <1>4, <1>7, DerivedUpdatesAreSound DEF process_light_client_finality_update
<1>8. CASE process_light_client_optimistic_update
  BY <1>1, <1>4, <1>8, DerivedUpdatesAreSound DEF process_light_client_optimistic_update
<1>9. CASE process_light_client_store_force_update
  <2> DEFINE t == [apply_light_client_update(store, ForcedUpdate(store)) EXCEPT
                     !.best_valid_update = NoUpdate]
  <2>1. store' = t /\ store.best_valid_update # NoUpdate
        /\ UNCHANGED <<current_slot, chain>>
    BY <1>9 DEF process_light_client_store_force_update
  <2>2. SoundStore(t) /\ Newer(t, store)
    BY <1>1, <2>1, ForcedIsSound, AppliedIsSound
  <2> QED
    BY <1>3, <2>1, <2>2
<1>10. CASE UNCHANGED vars
  BY <1>1, <1>2, <1>3, <1>10 DEF vars
<1> QED
  BY <1>5, <1>6, <1>7, <1>8, <1>9, <1>10 DEF Next

LEMMA AlwaysSound == Spec => []IInv
<1>1. IInv /\ [Next]_vars => IInv'
  BY StepSound
<1> QED
  BY InitSound, <1>1, PTL DEF Spec

-----------------------------------------------------------------------------
(* The type invariant: headers are blocks of the chain, of the past. *)
THEOREM StoreTypes == Spec => []TypeOK
<1>1. IInv => TypeOK
  <2> SUFFICES ASSUME IInv PROVE TypeOK
    OBVIOUS
  <2>1. SoundStore(store) /\ store \in Store /\ current_slot \in 0..MaxSlot
    BY DEF IInv, SoundStore
  <2>2. store.finalized_header <= current_slot
    BY <2>1, LightClientConstants DEF SoundStore, Store
  <2> QED
    BY <2>1, <2>2 DEF SoundStore, Store, TypeOK
<1> QED
  BY AlwaysSound, <1>1, PTL

(* The committees of the store are those of the finalized header's period, *)
(* through every mixture of the three kinds of updates and forced ones.    *)
THEOREM CommitteesFollowHeader == Spec => []CommitteesMatchHeader
<1>1. IInv => CommitteesMatchHeader
  BY DEF IInv, SoundStore, CommitteesMatchHeader
<1> QED
  BY AlwaysSound, <1>1, PTL

(* The optimistic header is never behind the finalized one. *)
THEOREM OptimisticKeepsUp == Spec => []OptimisticNotBehind
<1>1. IInv => OptimisticNotBehind
  BY DEF IInv, SoundStore, Store, OptimisticNotBehind
<1> QED
  BY AlwaysSound, <1>1, PTL

(* A client that misses a committee is always in the state in which        *)
(* light-client.md tells it to fetch one.                                  *)
THEOREM MissingCommitteeIsAskedFor == Spec => []MissingCommitteeIsFetched
<1>1. IInv => MissingCommitteeIsFetched
  <2> SUFFICES ASSUME IInv, ~is_next_sync_committee_known(store)
               PROVE  OptimisticPeriod = StorePeriod(store)
    BY DEF MissingCommitteeIsFetched
  <2>1. SoundStore(store) /\ store \in Store
    BY DEF IInv, SoundStore
  <2>2. Period(store.optimistic_header) <= Period(store.finalized_header)
    BY <2>1 DEF SoundStore, LastSignerPeriod, StorePeriod, Period
  <2>3. Period(store.finalized_header) <= Period(store.optimistic_header)
    BY <2>1, PeriodMonotone DEF SoundStore, Store
  <2>4. /\ Period(store.finalized_header) \in Nat
        /\ Period(store.optimistic_header) \in Nat
    BY <2>1, PeriodMonotone DEF Store
  <2>5. Period(store.optimistic_header) = Period(store.finalized_header)
    BY <2>2, <2>3, <2>4
  <2> QED
    BY <2>5 DEF OptimisticPeriod, StorePeriod, Period
<1> QED
  BY AlwaysSound, <1>1, PTL

(* The update kept for a timeout can be forced at any time without failing *)
(* the assertion of apply_light_client_update or skipping a period.        *)
THEOREM ForcedUpdateNeverFails == Spec => []BestUpdateStaysApplicable
<1>1. IInv => BestUpdateStaysApplicable
  BY ForcedIsSound DEF IInv, BestUpdateStaysApplicable
<1> QED
  BY AlwaysSound, <1>1, PTL

(* No update takes a header back. *)
THEOREM HeadersNeverMoveBack == Spec => HeadersMoveForward
<1>1. IInv /\ [Next]_vars =>
        [/\ store'.finalized_header >= store.finalized_header
         /\ store'.optimistic_header >= store.optimistic_header]_vars
  BY StepSound DEF Newer
<1> QED
  BY AlwaysSound, <1>1, PTL DEF Spec, HeadersMoveForward
=============================================================================
