------------------------------ MODULE MCFinality ------------------------------
(***************************************************************************)
(* Small instances of Finality for TLC.                                    *)
(***************************************************************************)
EXTENDS Finality, TLC

CONSTANTS v1, v2, v3              \* validators

(* Every validator weighs one increment: any two are a supermajority. *)
EqualBalance == [indices \in SUBSET Validators |-> Cardinality(indices)]

(* v1 weighs exactly two thirds of the total. *)
UnequalBalance ==
  [indices \in SUBSET Validators |-> Cardinality(indices) + IF v1 \in indices THEN 1 ELSE 0]

(* The aggregates that circulate: any set, two overlapping pairs, or v1.   *)
AllAggregates == SUBSET Validators \ {{}}
OverlappingPairs == {{v1, v2}, {v2, v3}}
OnlyV1 == {{v1}}

BranchSymmetry == Permutations(Branches)

-----------------------------------------------------------------------------
(* Vacuity probes, not properties: each must be found violated. *)
NoConflict == \A b, c \in live : ~ Conflicting(state[b], state[c])

=============================================================================
