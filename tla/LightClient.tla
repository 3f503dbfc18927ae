---------------------------- MODULE LightClient ----------------------------
(***************************************************************************)
(* A light client that follows a chain through updates that full nodes     *)
(* derive from its blocks.  Updates are lost, repeated and reordered; the  *)
(* client fetches and forces updates as light-client.md tells it to.       *)
(*                                                                         *)
(* chain[slot] is the block of a slot: the slot of its parent, how many of *)
(* the sync committee signed the parent, and the slot of the block that    *)
(* its post-state calls finalized.  A header is known by its slot, a sync  *)
(* committee by its period.                                                *)
(***************************************************************************)
EXTENDS Integers, FiniteSetsExt

CONSTANTS
  SLOTS_PER_PERIOD,      \* SLOTS_PER_EPOCH * EPOCHS_PER_SYNC_COMMITTEE_PERIOD
  SYNC_COMMITTEE_SIZE,
  Chains,                \* the chains to follow
  TrustedSlots,          \* the blocks a client may be bootstrapped from
  MaxSlot,               \* bound on the clock
  NoCommittee, NoUpdate

GENESIS_SLOT == 0

ASSUME LightClientConstants ==
  /\ {SLOTS_PER_PERIOD, SYNC_COMMITTEE_SIZE} \subseteq Nat \ {0}
  /\ MaxSlot \in Nat
  /\ NoCommittee \notin Nat

(* Chains start at genesis; blocks come after their parents and do not     *)
(* finalize what comes after them.                                         *)
ASSUME ChainsAssumption ==
  \A c \in Chains :
    /\ DOMAIN c \subseteq 0..MaxSlot
    /\ GENESIS_SLOT \in DOMAIN c
    /\ \A b \in DOMAIN c :
         /\ c[b].participants \in 0..SYNC_COMMITTEE_SIZE
         /\ c[b].finalized \in DOMAIN c /\ c[b].finalized <= b
         /\ b # GENESIS_SLOT => c[b].parent \in DOMAIN c /\ c[b].parent < b

VARIABLES store, current_slot, chain

vars == <<store, current_slot, chain>>

MIN_SYNC_COMMITTEE_PARTICIPANTS == 1
UPDATE_TIMEOUT == SLOTS_PER_PERIOD

compute_sync_committee_period_at_slot(slot) == slot \div SLOTS_PER_PERIOD

StorePeriod(s) == compute_sync_committee_period_at_slot(s.finalized_header)
AttestedPeriod(u) == compute_sync_committee_period_at_slot(u.attested_header)
SignaturePeriod(u) == compute_sync_committee_period_at_slot(u.signature_slot)
FinalizedPeriod(u) == compute_sync_committee_period_at_slot(u.finalized_header)
CurrentPeriod == compute_sync_committee_period_at_slot(current_slot)

-----------------------------------------------------------------------------
(* What full nodes derive from the chain. *)

Blocks == DOMAIN chain
SignedBlocks ==
  {b \in Blocks \ {GENESIS_SLOT} :
     b <= current_slot /\ chain[b].participants >= MIN_SYNC_COMMITTEE_PARTICIPANTS}

(* The update of the block at slot; a node without the finalized block     *)
(* leaves finality out.  next_sync_committee is that of the period after   *)
(* the attested one.                                                       *)
create_light_client_update(slot, has_finalized_block) ==
  LET attested == chain[slot].parent
      period == compute_sync_committee_period_at_slot(attested)
  IN [attested_header |-> attested,
      next_sync_committee |->
        IF period = compute_sync_committee_period_at_slot(slot)
        THEN period + 1 ELSE NoCommittee,
      is_finality_update |-> has_finalized_block,
      finalized_header |->
        IF has_finalized_block THEN chain[attested].finalized ELSE GENESIS_SLOT,
      participants |-> chain[slot].participants,
      signature_slot |-> slot]

create_light_client_finality_update(u) == [u EXCEPT !.next_sync_committee = NoCommittee]

create_light_client_optimistic_update(u) ==
  [u EXCEPT !.next_sync_committee = NoCommittee,
            !.is_finality_update = FALSE, !.finalized_header = GENESIS_SLOT]

LightClientUpdates ==
  {create_light_client_update(b, f) : b \in SignedBlocks, f \in BOOLEAN}

(* Nodes assign an update to the period of its attested header and offer   *)
(* only those signed in that same period.                                  *)
UpdatesOf(period) ==
  {u \in LightClientUpdates : AttestedPeriod(u) = period /\ SignaturePeriod(u) = period}

-----------------------------------------------------------------------------
is_sync_committee_update(u) == u.next_sync_committee # NoCommittee

HasSupermajority(u) == u.participants * 3 >= SYNC_COMMITTEE_SIZE * 2

has_relevant_sync_committee(u) ==
  is_sync_committee_update(u) /\ AttestedPeriod(u) = SignaturePeriod(u)

has_sync_committee_finality(u) ==
  u.is_finality_update /\ FinalizedPeriod(u) = AttestedPeriod(u)

(* The comparisons of is_better_update, the first that differs decides.    *)
(* Fewer participants than a supermajority weigh more than what is in the  *)
(* update; beyond a supermajority they only break ties.                    *)
Digit(b) == IF b THEN 1 ELSE 0
Merits(u) ==
  <<Digit(HasSupermajority(u)),
    IF HasSupermajority(u) THEN 0 ELSE u.participants,
    Digit(has_relevant_sync_committee(u)),
    Digit(u.is_finality_update),
    Digit(has_sync_committee_finality(u)),
    u.participants,
    -u.attested_header,
    -u.signature_slot>>

is_better_update(new, old) ==
  \E k \in 1..8 :
    /\ Merits(new)[k] > Merits(old)[k]
    /\ \A j \in 1..(k - 1) : Merits(new)[j] = Merits(old)[j]

is_next_sync_committee_known(s) == s.next_sync_committee # NoCommittee

get_safety_threshold(s) ==
  Max({s.previous_max_active_participants, s.current_max_active_participants}) \div 2

initialize_light_client_store(trusted) ==
  [finalized_header |-> trusted,
   current_sync_committee |-> compute_sync_committee_period_at_slot(trusted),
   next_sync_committee |-> NoCommittee,
   best_valid_update |-> NoUpdate,
   optimistic_header |-> trusted,
   previous_max_active_participants |-> 0,
   current_max_active_participants |-> 0]

(* The assertions of validate_light_client_update; Merkle proofs hold for  *)
(* what full nodes derive, and a signature verifies against the committee  *)
(* that signed.                                                            *)
SignerPeriods(s) ==
  IF is_next_sync_committee_known(s)
  THEN {StorePeriod(s), StorePeriod(s) + 1} ELSE {StorePeriod(s)}

update_has_next_sync_committee(s, u) ==
  /\ ~is_next_sync_committee_known(s)
  /\ is_sync_committee_update(u)
  /\ AttestedPeriod(u) = StorePeriod(s)

validate_light_client_update(s, u) ==
  /\ u.participants >= MIN_SYNC_COMMITTEE_PARTICIPANTS
  /\ current_slot >= u.signature_slot
  /\ u.signature_slot > u.attested_header
  /\ u.attested_header >= u.finalized_header
  /\ SignaturePeriod(u) \in SignerPeriods(s)
  /\ \/ u.attested_header > s.finalized_header
     \/ update_has_next_sync_committee(s, u)
  /\ (/\ is_sync_committee_update(u) /\ is_next_sync_committee_known(s)
      /\ AttestedPeriod(u) = StorePeriod(s))
       => u.next_sync_committee = s.next_sync_committee
  /\ SignaturePeriod(u) = IF SignaturePeriod(u) = StorePeriod(s)
                          THEN s.current_sync_committee ELSE s.next_sync_committee

(* The assertion of apply_light_client_update.  A received update meets    *)
(* it: while no next committee is known it is signed in the store's        *)
(* period, and what it finalizes is not older than the store's header.     *)
Applicable(s, u) ==
  is_next_sync_committee_known(s) \/ FinalizedPeriod(u) = StorePeriod(s)

(* Committees rotate at every update. *)
CommitteesRotated_Always(s, u) ==
  IF ~is_next_sync_committee_known(s)
  THEN [s EXCEPT !.next_sync_committee = u.next_sync_committee]
  ELSE [s EXCEPT !.current_sync_committee = s.next_sync_committee,
                 !.next_sync_committee = u.next_sync_committee]

(* The period is entered, the committees stay. *)
CommitteesRotated_Late(s, u) ==
  IF ~is_next_sync_committee_known(s)
  THEN [s EXCEPT !.next_sync_committee = u.next_sync_committee] ELSE s

CommitteesRotated(s, u) ==
  IF ~is_next_sync_committee_known(s)
  THEN [s EXCEPT !.next_sync_committee = u.next_sync_committee]
  ELSE IF FinalizedPeriod(u) = StorePeriod(s) + 1
  THEN [s EXCEPT !.current_sync_committee = s.next_sync_committee,
                 !.next_sync_committee = u.next_sync_committee,
                 !.previous_max_active_participants = s.current_max_active_participants,
                 !.current_max_active_participants = 0]
  ELSE s

(* Whatever the update finalized. *)
apply_light_client_update_any(s, u) ==
  [CommitteesRotated(s, u) EXCEPT !.finalized_header = u.finalized_header]

apply_light_client_update(s, u) ==
  LET t == CommitteesRotated(s, u)
  IN IF u.finalized_header > s.finalized_header
     THEN [t EXCEPT !.finalized_header = u.finalized_header,
                    !.optimistic_header = Max({@, u.finalized_header})]
     ELSE t

(* The best update as it came. *)
ForcedUpdate_AsIs(s) == s.best_valid_update

(* What a forced update applies: in a period without finality the attested *)
(* header stands in for the finalized one.                                 *)
ForcedUpdate(s) ==
  IF s.best_valid_update.finalized_header <= s.finalized_header
  THEN [s.best_valid_update EXCEPT !.finalized_header = s.best_valid_update.attested_header]
  ELSE s.best_valid_update

ActiveParticipants(s, u) == Max({s.current_max_active_participants, u.participants})

(* The part of process_light_client_update before finality is looked at.   *)
UpdateNoted(s, u) ==
  LET t == [s EXCEPT
              !.best_valid_update =
                 IF @ = NoUpdate \/ is_better_update(u, @) THEN u ELSE @,
              !.current_max_active_participants = ActiveParticipants(s, u)]
  IN IF u.participants > get_safety_threshold(t)
        /\ u.attested_header > t.optimistic_header
     THEN [t EXCEPT !.optimistic_header = u.attested_header] ELSE t

IsFinal(s, u) ==
  /\ HasSupermajority(u)
  /\ \/ u.finalized_header > s.finalized_header
     \/ /\ ~is_next_sync_committee_known(s)
        /\ is_sync_committee_update(u)
        /\ has_sync_committee_finality(u)

(* The best update outlives the state it was chosen for. *)
process_light_client_update_kept(s, u) ==
  LET t == UpdateNoted(s, u)
  IN IF IsFinal(t, u) THEN apply_light_client_update(t, u) ELSE t

process_light_client_update(s, u) ==
  LET t == UpdateNoted(s, u)
  IN IF IsFinal(t, u)
     THEN [apply_light_client_update(t, u) EXCEPT !.best_valid_update = NoUpdate]
     ELSE t

-----------------------------------------------------------------------------
Init ==
  /\ chain \in Chains
  /\ \E trusted \in TrustedSlots \cap Blocks :
       /\ store = initialize_light_client_store(trusted)
       /\ current_slot = trusted

Tick ==
  /\ current_slot < MaxSlot
  /\ current_slot' = current_slot + 1
  /\ UNCHANGED <<store, chain>>

Receive(u) ==
  /\ validate_light_client_update(store, u)
  /\ store' = process_light_client_update(store, u)
  /\ UNCHANGED <<current_slot, chain>>

OptimisticPeriod == compute_sync_committee_period_at_slot(store.optimistic_header)

(* The periods whose update the client asks for. *)
PeriodsToFetch ==
  {p \in {StorePeriod(store)} :
     OptimisticPeriod = p /\ ~is_next_sync_committee_known(store)}
  \cup (StorePeriod(store) + 1)..(CurrentPeriod - 1)

FetchUpdate == \E p \in PeriodsToFetch : \E u \in UpdatesOf(p) : Receive(u)

(* Finality and optimistic updates are pushed, to clients that have caught *)
(* up closely enough.                                                      *)
Observing == StorePeriod(store) + 1 >= CurrentPeriod

process_light_client_finality_update ==
  /\ Observing
  /\ \E u \in LightClientUpdates :
       u.is_finality_update /\ Receive(create_light_client_finality_update(u))

process_light_client_optimistic_update ==
  /\ Observing
  /\ \E u \in LightClientUpdates : Receive(create_light_client_optimistic_update(u))

process_light_client_store_force_update ==
  /\ current_slot > store.finalized_header + UPDATE_TIMEOUT
  /\ store.best_valid_update # NoUpdate
  /\ Applicable(store, ForcedUpdate(store))
  /\ store' = [apply_light_client_update(store, ForcedUpdate(store)) EXCEPT
                 !.best_valid_update = NoUpdate]
  /\ UNCHANGED <<current_slot, chain>>

Next ==
  \/ Tick
  \/ FetchUpdate
  \/ process_light_client_finality_update
  \/ process_light_client_optimistic_update
  \/ process_light_client_store_force_update

(* Time passes, what is asked for arrives in the end, and a client that is *)
(* stuck forces an update.                                                 *)
Fairness ==
  /\ WF_vars(Tick)
  /\ WF_vars(FetchUpdate)
  /\ WF_vars(process_light_client_store_force_update)

Spec == Init /\ [][Next]_vars /\ Fairness

-----------------------------------------------------------------------------
(* Headers are blocks of the chain, of the past. *)
TypeOK ==
  /\ store.finalized_header \in Blocks /\ store.optimistic_header \in Blocks
  /\ store.finalized_header <= current_slot /\ store.optimistic_header <= current_slot
  /\ store.current_sync_committee \in Nat
  /\ store.next_sync_committee \in Nat \cup {NoCommittee}
  /\ {store.previous_max_active_participants, store.current_max_active_participants}
       \subseteq 0..SYNC_COMMITTEE_SIZE
  /\ current_slot \in 0..MaxSlot

(* The committees of the store are those of the finalized header's period, *)
(* whichever of the three kinds of updates, forced or not, moved the       *)
(* header: LightClientStore calls them "sync committees corresponding to   *)
(* the finalized header".                                                  *)
CommitteesMatchHeader ==
  /\ store.current_sync_committee = StorePeriod(store)
  /\ store.next_sync_committee \in {NoCommittee, StorePeriod(store) + 1}

(* The optimistic header is never behind the finalized one. *)
OptimisticNotBehind == store.optimistic_header >= store.finalized_header

(* The client asks for a missing committee only while both headers are in  *)
(* one period (light-client.md, 4.1); so they must be whenever it misses   *)
(* one.                                                                    *)
MissingCommitteeIsFetched ==
  ~is_next_sync_committee_known(store) => OptimisticPeriod = StorePeriod(store)

(* The update kept for a timeout stays fit to be applied: neither a newer  *)
(* finalized header nor a learnt committee makes the forced update fail on *)
(* an assertion, enter a period twice, or skip one.                        *)
BestUpdateStaysApplicable ==
  store.best_valid_update # NoUpdate =>
    /\ Applicable(store, ForcedUpdate(store))
    /\ FinalizedPeriod(ForcedUpdate(store)) \in SignerPeriods(store)

(* No update, early, late, repeated or forced, takes a header back. *)
HeadersMoveForward ==
  [][/\ store'.finalized_header >= store.finalized_header
     /\ store'.optimistic_header >= store.optimistic_header]_vars

(* Forced updates "guarantee progression into later sync committee         *)
(* periods": without finality and without supermajorities the client still *)
(* comes within a period of the present.                                   *)
CatchesUp == <>(StorePeriod(store) + 1 >= compute_sync_committee_period_at_slot(MaxSlot))
=============================================================================
