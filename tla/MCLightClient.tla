--------------------------- MODULE MCLightClient ---------------------------
(* Chains of more than three periods of four slots: with finality and      *)
(* supermajorities throughout, with both missing for a time, with neither, *)
(* and with empty slots where a period starts and no finality.             *)
EXTENDS LightClient

Chain(blocks, Participants(_), Finalized(_)) ==
  [b \in blocks |-> [parent |-> Max({GENESIS_SLOT} \cup {a \in blocks : a < b}),
                     participants |-> Participants(b), finalized |-> Finalized(b)]]

Slots == 0..MaxSlot
AllSign(b) == SYNC_COMMITTEE_SIZE
FewSign(b) == IF b % 2 = 0 THEN 1 ELSE SYNC_COMMITTEE_SIZE \div 2
SomeSign(b) == IF b \in 5..9 THEN 1 + (b % 2) ELSE SYNC_COMMITTEE_SIZE

Soon(b) == Max({0, b - 2})
Never(b) == 0
Resumes(b) == IF b \in 5..9 THEN 3 ELSE Soon(b)

MCChains ==
  {Chain(Slots, AllSign, Soon), Chain(Slots, FewSign, Never),
   Chain(Slots, SomeSign, Resumes), Chain(Slots \ {4, 8}, AllSign, Never)}

MCTrustedSlots == {0, 5}
=============================================================================
