------------------------------ MODULE ClassOrder ------------------------------
(***************************************************************************)
(* The order in which the compiler writes the containers of a fork: the    *)
(* loop of build_spec around dependency_order_class_objects.  A container  *)
(* must be written after every container that its fields name.             *)
(*                                                                         *)
(* The dictionary of class objects is the position of every class in it.   *)
(* One pass visits the classes in the order they had when it began and     *)
(* reinserts each one behind its dependencies, one dependency at a time;   *)
(* passes are repeated until one of them leaves the order as it was.       *)
(***************************************************************************)
EXTENDS Naturals

CONSTANTS
  Classes,      \* the keys of class_objects
  Names,        \* every word a field's type may contain
  Ignored,      \* ignored_dependencies, constants and custom types
  Positions     \* the positions the classes are read in

ASSUME ClassesAreNames == Classes \subseteq Names
ASSUME PositionsAreNumbers == Positions \subseteq Nat \ {0}

VARIABLES
  mentions,     \* the words in the field types of every class: the input
  order,        \* class_objects: where each class stands
  new_objects,  \* the copy of the order that the pass started from
  todo,         \* the (class, word) pairs this pass has still to look at
  moved,        \* history, read by no action: the classes this pass moved
  status

vars == <<mentions, order, new_objects, todo, moved, status>>

(* The order before the first copy: no class stands at 0. *)
NoOrder == [c \in Classes |-> 0]

Injective(p) == \A c, d \in Classes : p[c] = p[d] => c = d

dependencies(c) == mentions[c] \ Ignored

Init ==
  /\ mentions \in [Classes -> SUBSET Names]
  /\ order \in [Classes -> Positions] /\ Injective(order)
  /\ new_objects = NoOrder
  /\ todo = {}
  /\ moved = {}
  /\ status = "ordering"

-----------------------------------------------------------------------------
\* Mutant: the copy is taken once, before the loop.
BeginPass_CopyOnce ==
  /\ status = "ordering" /\ todo = {}
  /\ new_objects # order
  /\ new_objects' = IF new_objects = NoOrder THEN order ELSE new_objects
  /\ todo' = {p \in Classes \X Names : p[2] \in dependencies(p[1])}
  /\ moved' = {}
  /\ UNCHANGED <<mentions, order, status>>

(* while new_objects != class_objects: new_objects = copy of class_objects *)
BeginPass ==
  /\ status = "ordering" /\ todo = {}
  /\ new_objects # order
  /\ new_objects' = order
  /\ todo' = {p \in Classes \X Names : p[2] \in dependencies(p[1])}
  /\ moved' = {}
  /\ UNCHANGED <<mentions, order, status>>

(* The loops over items and dependencies are here: classes in the order of *)
(* the copy; the words of one class in any order, as its fields have them. *)
IsNext(c, d) ==
  /\ status = "ordering"
  /\ <<c, d>> \in todo
  /\ \A pair \in todo : new_objects[c] <= new_objects[pair[1]]

\* Mutant: the classes in between do not move up.
Reinserted_NoShift(key, dep) == [c \in Classes |-> IF c = key THEN order[dep] ELSE order[c]]

(* Reinserting dep, key and everything after dep leaves key right behind   *)
(* dep if it stood before it, and changes nothing otherwise.               *)
Reinserted(key, dep) ==
  [c \in Classes |->
     IF c = key THEN order[dep]
     ELSE IF order[key] < order[c] /\ order[c] <= order[dep] THEN order[c] - 1
     ELSE order[c]]

Place(key, dep) ==
  /\ IsNext(key, dep)
  /\ dep \in Classes
  /\ todo' = todo \ {<<key, dep>>}
  /\ IF order[key] < order[dep]
     THEN order' = Reinserted(key, dep) /\ moved' = moved \cup {key}
     ELSE UNCHANGED <<order, moved>>
  /\ UNCHANGED <<mentions, new_objects, status>>

(* key_list.index(dep) raises ValueError: the build stops. *)
UnknownName(key, dep) ==
  /\ IsNext(key, dep)
  /\ dep \notin Classes
  /\ status' = "error"
  /\ UNCHANGED <<mentions, order, new_objects, todo, moved>>

\* Mutant: one pass is taken to be enough.
Finish_AfterOnePass ==
  /\ status = "ordering" /\ todo = {}
  /\ new_objects # NoOrder
  /\ status' = "ordered"
  /\ UNCHANGED <<mentions, order, new_objects, todo, moved>>

Finish ==
  /\ status = "ordering" /\ todo = {}
  /\ new_objects = order
  /\ status' = "ordered"
  /\ UNCHANGED <<mentions, order, new_objects, todo, moved>>

Next ==
  \/ BeginPass
  \/ \E c \in Classes, d \in Names : Place(c, d) \/ UnknownName(c, d)
  \/ Finish

Spec == Init /\ [][Next]_vars

(* The compiler is one sequential program: while it can go on, it does. *)
FairSpec == Spec /\ WF_vars(Next)

-----------------------------------------------------------------------------
(* No set of classes in which each one names another one of the set. *)
Acyclic ==
  \A S \in SUBSET Classes :
    S # {} => \E c \in S : \A d \in dependencies(c) \cap S : d = c

(* The types of the variables. *)
TypeOK ==
  /\ mentions \in [Classes -> SUBSET Names]
  /\ order \in [Classes -> Nat \ {0}]
  /\ new_objects \in [Classes -> Nat]
  /\ todo \subseteq Classes \X Names
  /\ moved \subseteq Classes
  /\ status \in {"ordering", "ordered", "error"}

(* When the loop ends, every class stands behind all the classes its       *)
(* fields name.  A pass that undoes its own moves would also leave the     *)
(* order as it was and end the loop: without cycles no pass can.           *)
OrderedWhenDone ==
  (status = "ordered" /\ Acyclic) =>
    \A c \in Classes : \A d \in dependencies(c) : d # c => order[d] < order[c]

(* Reinserting never makes two classes collide, and a build that goes      *)
(* through has met no name it does not know.                               *)
NoClassLost ==
  /\ Injective(order)
  /\ status = "ordered" => \A c \in Classes : dependencies(c) \subseteq Classes

(* The loop ends for every set of classes without a cycle. *)
Terminates == Acyclic ~> status # "ordering"

-----------------------------------------------------------------------------
(* What the writer of the classes relies on: one step that picks a linear  *)
(* extension of the dependencies, or fails.                                *)
Result == IF status = "ordered" THEN order ELSE NoOrder
Sorting == INSTANCE LinearExtension WITH result <- Result

(* The loop implements that step. *)
ImplementsSorting == Sorting!Spec

=============================================================================
