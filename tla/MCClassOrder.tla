----------------------------- MODULE MCClassOrder -----------------------------
(***************************************************************************)
(* Small instances of ClassOrder for TLC: every set of dependencies, read  *)
(* in one order, since the classes can be renamed.                         *)
(***************************************************************************)
EXTENDS ClassOrder, FiniteSets

FourClasses == 1 .. 4
Unknown == 5
Slot == 6      \* a custom type

(* Every graph of four classes without a circle ... *)
AcyclicGraph == mentions \in [Classes -> SUBSET Classes] /\ Acyclic

(* ... and every graph of the first three, with circles, unknown names and *)
(* names to ignore. *)
AnyGraph ==
  \E m \in [1 .. 3 -> SUBSET {1, 2, 3, Unknown, Slot}] :
    mentions = [c \in Classes |-> IF c = 4 THEN {} ELSE m[c]]

(* The classes are read in the order of their numbers. *)
SmallInit ==
  /\ AcyclicGraph \/ AnyGraph
  /\ order = [c \in Classes |-> c]
  /\ Init

SmallSpec == SmallInit /\ [][Next]_vars /\ WF_vars(Next)
===============================================================================
