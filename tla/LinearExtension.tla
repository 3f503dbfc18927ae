--------------------------- MODULE LinearExtension ---------------------------
(***************************************************************************)
(* What ordering the containers promises, without saying how: one step     *)
(* from the words each class mentions to an order in which every class     *)
(* comes after the classes it mentions.  Nothing is promised for classes   *)
(* that depend on each other in a circle.                                  *)
(***************************************************************************)
EXTENDS Naturals

CONSTANTS Classes, Names, Ignored

VARIABLES mentions, result, status

vars == <<mentions, result, status>>

NoOrder == [c \in Classes |-> 0]

dependencies(c) == mentions[c] \ Ignored

Acyclic ==
  \A S \in SUBSET Classes :
    S # {} => \E c \in S : \A d \in dependencies(c) \cap S : d = c

Extends(p) ==
  /\ \A c, d \in Classes : p[c] = p[d] => c = d
  /\ \A c, d \in Classes : (d \in dependencies(c) /\ d # c) => p[d] < p[c]

Init ==
  /\ mentions \in [Classes -> SUBSET Names]
  /\ result = NoOrder
  /\ status = "ordering"

Sort ==
  /\ status = "ordering" /\ status' = "ordered"
  /\ \A c \in Classes : dependencies(c) \subseteq Classes
  /\ result' \in [Classes -> Nat \ {0}]
  /\ Acyclic => Extends(result')
  /\ UNCHANGED mentions

Fail ==
  /\ status = "ordering" /\ status' = "error"
  /\ \E c \in Classes : ~ (dependencies(c) \subseteq Classes)
  /\ UNCHANGED <<mentions, result>>

Next == Sort \/ Fail

Spec == Init /\ [][Next]_vars
==============================================================================
