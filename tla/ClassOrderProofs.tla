--------------------------- MODULE ClassOrderProofs ---------------------------
(***************************************************************************)
(* Proofs about ClassOrder, for any classes and any dependencies.          *)
(*                                                                         *)
(* The loop ends when a pass leaves the order as it was.  That does not by *)
(* itself mean the pass moved nothing: later moves of a pass may undo      *)
(* earlier ones.  The invariant says why they cannot when there is no      *)
(* cycle: to get back behind a class k that was moved behind d, d must     *)
(* have been moved as well, so the moved classes would contain, with each  *)
(* class, one of its dependencies.                                         *)
(***************************************************************************)
EXTENDS ClassOrder, TLAPS

(* Whoever got past another class in this pass was moved. *)
OvertakersMoved ==
  \A a, b \in Classes :
    (new_objects[b] < new_objects[a] /\ order[a] < order[b]) => b \in moved

(* A moved class has a dependency that was moved or is now overtaken. *)
MovedBehind ==
  \A k \in moved :
    \E d \in dependencies(k) \cap Classes :
      /\ d # k
      /\ d \in moved \/ (order[d] < order[k] /\ new_objects[k] < new_objects[d])

(* While nothing moved, all pairs seen so far are in order. *)
SeenInOrder ==
  \A c \in Classes : \A d \in dependencies(c) :
    \/ new_objects = NoOrder
    \/ <<c, d>> \in todo
    \/ /\ d \in Classes
       /\ moved = {} => (d = c \/ order[d] < order[c])

(* During a pass the copy is an order. *)
CopyIsOrder == todo # {} => Injective(new_objects)

TodoMentioned == \A pair \in todo : pair[2] \in dependencies(pair[1])

DoneUnchanged == status = "ordered" => (todo = {} /\ new_objects = order)

IInv ==
  /\ TypeOK
  /\ Injective(order)
  /\ OvertakersMoved
  /\ MovedBehind
  /\ SeenInOrder
  /\ TodoMentioned
  /\ CopyIsOrder
  /\ DoneUnchanged

-----------------------------------------------------------------------------
(* Reinserting a class keeps the others in their order and moves that      *)
(* class alone, forward.                                                   *)
LEMMA ReinsertedKeepsOthers ==
  ASSUME order \in [Classes -> Nat \ {0}], Injective(order),
         NEW key \in Classes, NEW dep \in Classes, order[key] < order[dep],
         NEW p, p = Reinserted(key, dep)
  PROVE  /\ p \in [Classes -> Nat \ {0}]
         /\ Injective(p)
         /\ p[dep] < p[key]
         /\ \A a, b \in Classes \ {key} : p[a] < p[b] <=> order[a] < order[b]
         /\ \A a \in Classes \ {key} : order[a] < order[key] => p[a] < p[key]
<1>1. p = [c \in Classes |->
             IF c = key THEN order[dep]
             ELSE IF order[key] < order[c] /\ order[c] <= order[dep] THEN order[c] - 1
             ELSE order[c]]
  BY DEF Reinserted
<1>2. /\ p[key] = order[dep]
      /\ \A c \in Classes \ {key} :
           p[c] = IF order[key] < order[c] /\ order[c] <= order[dep]
                  THEN order[c] - 1 ELSE order[c]
  BY <1>1
<1>3. \A c \in Classes : order[c] \in Nat /\ order[c] > 0
  OBVIOUS
<1>4. \A a, b \in Classes : a # b => order[a] # order[b]
  BY DEF Injective
<1>5. \A c \in Classes : p[c] \in Nat \ {0}
  <2>1. TAKE c \in Classes
  <2>2. order[key] \in Nat /\ order[key] > 0 /\ order[dep] \in Nat /\ order[dep] > 0
    BY <1>3
  <2>3. order[c] \in Nat /\ order[c] > 0
    BY <1>3
  <2> QED BY <1>2, <2>2, <2>3
<1>6. p \in [Classes -> Nat \ {0}]
  BY <1>1, <1>5
<1>7. \A a, b \in Classes \ {key} : p[a] < p[b] <=> order[a] < order[b]
  BY <1>2, <1>3, <1>4
<1>8. \A a \in Classes \ {key} : p[a] # p[key]
  <2>1. TAKE a \in Classes \ {key}
  <2>2. order[a] # order[key]
    BY <1>4
  <2> QED BY <2>2, <1>2, <1>3
<1>9. Injective(p)
  BY <1>4, <1>7, <1>8, <1>5, <1>3 DEF Injective
<1>10. p[dep] < p[key]
  BY <1>2, <1>3
<1>11. \A a \in Classes \ {key} : order[a] < order[key] => p[a] < p[key]
  BY <1>2, <1>3
<1> QED BY <1>6, <1>7, <1>9, <1>10, <1>11

LEMMA InitInv == Init => IInv
<1> SUFFICES ASSUME Init PROVE IInv
  OBVIOUS
<1>1. TypeOK
  BY PositionsAreNumbers DEF Init, TypeOK, NoOrder
<1>2. \A c \in Classes : new_objects[c] = 0
  BY DEF Init, NoOrder
<1> QED
  BY <1>1, <1>2 DEF Init, IInv, OvertakersMoved, MovedBehind, SeenInOrder, TodoMentioned,
     CopyIsOrder, DoneUnchanged

LEMMA BeginPassInv == IInv /\ BeginPass => IInv'
<1> SUFFICES ASSUME IInv, BeginPass PROVE IInv'
  OBVIOUS
<1> USE DEF IInv, BeginPass
<1>1. TypeOK'
  BY DEF TypeOK
<1>2. \A c \in Classes : order[c] \in Nat
  BY DEF TypeOK
<1>3. OvertakersMoved'
  BY <1>2 DEF OvertakersMoved
<1>4. MovedBehind'
  BY DEF MovedBehind
<1>5. SeenInOrder'
  <2> SUFFICES ASSUME NEW c \in Classes, NEW d \in dependencies(c)
               PROVE  <<c, d>> \in todo'
    BY DEF SeenInOrder, dependencies
  <2>1. d \in Names
    BY DEF TypeOK, dependencies
  <2> QED BY <2>1
<1>6. DoneUnchanged'
  BY DEF DoneUnchanged
<1>7. Injective(order)'
  BY DEF Injective
<1>8. TodoMentioned' /\ CopyIsOrder'
  BY DEF TodoMentioned, CopyIsOrder, Injective, dependencies
<1> QED BY <1>1, <1>3, <1>4, <1>5, <1>6, <1>7, <1>8

LEMMA PlaceInv ==
  ASSUME NEW key \in Classes, NEW dep \in Names, IInv, Place(key, dep)
  PROVE  IInv'
<1> USE DEF IInv
<1>1. /\ status = "ordering" /\ status' = status
      /\ mentions' = mentions /\ new_objects' = new_objects
      /\ todo' = todo \ {<<key, dep>>} /\ <<key, dep>> \in todo
      /\ dep \in Classes
  BY DEF Place, IsNext
<1>2. DoneUnchanged' /\ TodoMentioned' /\ CopyIsOrder'
  BY <1>1 DEF DoneUnchanged, TodoMentioned, CopyIsOrder, Injective, dependencies
<1>3. ASSUME ~ (order[key] < order[dep])
      PROVE  IInv'
  <2>1. order' = order /\ moved' = moved
    BY <1>3 DEF Place
  <2>2. TypeOK'
    BY <1>1, <2>1 DEF TypeOK
  <2>3. OvertakersMoved' /\ MovedBehind' /\ Injective(order)'
    BY <1>1, <2>1 DEF OvertakersMoved, MovedBehind, Injective, dependencies
  <2>4. dep = key \/ order[dep] < order[key]
    BY <1>1, <1>3 DEF Injective, TypeOK
  <2>5. SeenInOrder'
    BY <1>1, <2>1, <2>4 DEF SeenInOrder, dependencies
  <2> QED BY <1>2, <2>2, <2>3, <2>5
<1>4. ASSUME order[key] < order[dep]
      PROVE  IInv'
  <2>1. order' = Reinserted(key, dep) /\ moved' = moved \cup {key}
    BY <1>4 DEF Place
  <2>2. /\ order' \in [Classes -> Nat \ {0}]
        /\ Injective(order')
        /\ order'[dep] < order'[key]
        /\ \A a, b \in Classes \ {key} : order'[a] < order'[b] <=> order[a] < order[b]
        /\ \A a \in Classes \ {key} : order[a] < order[key] => order'[a] < order'[key]
    BY <1>1, <1>4, <2>1, ReinsertedKeepsOthers DEF TypeOK
  <2>3. TypeOK'
    BY <1>1, <2>1, <2>2 DEF TypeOK
  <2>4. \A a \in Classes : order[a] \in Nat /\ order'[a] \in Nat /\ new_objects[a] \in Nat
    BY <2>2 DEF TypeOK
  <2>5. OvertakersMoved'
    <3> SUFFICES ASSUME NEW a \in Classes, NEW b \in Classes, b # key,
                        new_objects[b] < new_objects[a], order'[a] < order'[b]
                 PROVE  b \in moved
      BY <1>1, <2>1 DEF OvertakersMoved
    <3>1. a # b
      BY <2>4
    <3>2. CASE a = key
      <4>1. ~ (order[b] < order[key])
        BY <2>2, <2>4, <3>2
      <4>2. order[key] < order[b]
        BY <4>1, <2>4, <3>1, <3>2 DEF Injective
      <4> QED BY <4>2, <3>2 DEF OvertakersMoved
    <3>3. CASE a # key
      <4>1. order[a] < order[b]
        BY <2>2, <3>3
      <4> QED BY <4>1 DEF OvertakersMoved
    <3> QED BY <3>2, <3>3
  <2>6. MovedBehind'
    <3> SUFFICES ASSUME NEW k \in moved'
                 PROVE  \E d \in dependencies(k) \cap Classes :
                          /\ d # k
                          /\ \/ d \in moved'
                             \/ order'[d] < order'[k] /\ new_objects[k] < new_objects[d]
      BY <1>1 DEF MovedBehind, dependencies
    <3>1. CASE k \in moved
      <4>1. PICK d \in dependencies(k) \cap Classes :
              /\ d # k
              /\ d \in moved \/ (order[d] < order[k] /\ new_objects[k] < new_objects[d])
        BY <3>1 DEF MovedBehind
      <4>2. CASE d \in moved'
        BY <4>1, <4>2
      <4>3. CASE d \notin moved'
        <5>1. d # key /\ order[d] < order[k] /\ new_objects[k] < new_objects[d]
          BY <4>1, <4>3, <2>1
        <5>2. k \in Classes
          BY <3>1 DEF TypeOK
        <5>3. order'[d] < order'[k]
          BY <5>1, <5>2, <2>2
        <5> QED BY <4>1, <5>1, <5>3
      <4> QED BY <4>2, <4>3
    <3>2. CASE k = key
      <4>1. dep # key
        BY <1>4, <2>4
      <4>2. dep \in dependencies(key)
        BY <1>1 DEF TodoMentioned
      <4>3. CASE new_objects[key] < new_objects[dep]
        BY <4>1, <4>2, <4>3, <1>1, <2>2, <3>2
      <4>4. CASE ~ (new_objects[key] < new_objects[dep])
        \* dep overtook key earlier, or stood level with it before any pass
        <5>1. new_objects[dep] < new_objects[key]
          <6>1. Injective(new_objects)
            BY <1>1 DEF CopyIsOrder
          <6> QED BY <6>1, <4>1, <4>4, <1>1, <2>4 DEF Injective
        <5>2. dep \in moved
          BY <5>1, <1>1, <1>4 DEF OvertakersMoved
        <5> QED BY <4>1, <4>2, <5>2, <1>1, <2>1, <3>2
      <4> QED BY <4>3, <4>4
    <3> QED BY <3>1, <3>2, <2>1
  <2>7. SeenInOrder'
    BY <1>1, <2>1 DEF SeenInOrder, dependencies
  <2> QED BY <1>2, <2>2, <2>3, <2>5, <2>6, <2>7
<1> QED BY <1>3, <1>4

LEMMA UnknownNameInv ==
  ASSUME NEW key \in Classes, NEW dep \in Names, IInv, UnknownName(key, dep)
  PROVE  IInv'
<1> QED
  BY DEF IInv, UnknownName, TypeOK, Injective, OvertakersMoved, MovedBehind, SeenInOrder,
         TodoMentioned, CopyIsOrder, DoneUnchanged, dependencies

LEMMA FinishInv == IInv /\ Finish => IInv'
  BY DEF IInv, Finish, TypeOK, Injective, OvertakersMoved, MovedBehind, SeenInOrder,
         TodoMentioned, CopyIsOrder, DoneUnchanged, dependencies

LEMMA StutterInv == IInv /\ UNCHANGED vars => IInv'
  BY DEF IInv, vars, TypeOK, Injective, OvertakersMoved, MovedBehind, SeenInOrder,
         TodoMentioned, CopyIsOrder, DoneUnchanged, dependencies

LEMMA StepInv == IInv /\ [Next]_vars => IInv'
  BY BeginPassInv, PlaceInv, UnknownNameInv, FinishInv, StutterInv DEF Next

LEMMA AlwaysInv == Spec => []IInv
<1>1. Init => IInv
  BY InitInv
<1>2. IInv /\ [Next]_vars => IInv'
  BY StepInv
<1> QED BY <1>1, <1>2, PTL DEF Spec

-----------------------------------------------------------------------------
(* A finished loop moved nothing in its last pass. *)
LEMMA NothingMovedLast ==
  ASSUME IInv, status = "ordered", Acyclic
  PROVE  moved = {}
<1> SUFFICES ASSUME moved # {} PROVE FALSE
  OBVIOUS
<1>1. moved \in SUBSET Classes
  BY DEF IInv, TypeOK
<1>2. PICK c \in moved : \A d \in dependencies(c) \cap moved : d = c
  BY <1>1 DEF Acyclic
<1>3. PICK d \in dependencies(c) \cap Classes :
        /\ d # c
        /\ d \in moved \/ (order[d] < order[c] /\ new_objects[c] < new_objects[d])
  BY DEF IInv, MovedBehind
<1>4. order[d] < order[c] /\ order[c] < order[d]
  BY <1>2, <1>3 DEF IInv, DoneUnchanged
<1>5. order[c] \in Nat /\ order[d] \in Nat
  BY <1>1, <1>3 DEF IInv, TypeOK
<1> QED BY <1>4, <1>5

LEMMA DoneIsOrdered == IInv => OrderedWhenDone
<1> SUFFICES ASSUME IInv, status = "ordered", Acyclic,
                    NEW c \in Classes, NEW d \in dependencies(c), d # c
             PROVE  order[d] < order[c]
  BY DEF OrderedWhenDone
<1>1. moved = {} /\ todo = {} /\ new_objects = order
  BY NothingMovedLast DEF IInv, DoneUnchanged
<1>2. order[c] # 0
  BY DEF IInv, TypeOK
<1>3. new_objects # NoOrder
  BY <1>1, <1>2 DEF NoOrder
<1> QED BY <1>1, <1>3 DEF IInv, SeenInOrder

LEMMA NothingLost == IInv => NoClassLost
<1> SUFFICES ASSUME IInv, status = "ordered", NEW c \in Classes, NEW d \in dependencies(c)
             PROVE  d \in Classes
  BY DEF NoClassLost, IInv
<1>1. todo = {} /\ new_objects = order
  BY DEF IInv, DoneUnchanged
<1>2. order[c] # 0
  BY DEF IInv, TypeOK
<1>3. new_objects # NoOrder
  BY <1>1, <1>2 DEF NoOrder
<1> QED BY <1>1, <1>3 DEF IInv, SeenInOrder

(* Types. *)
THEOREM ClassOrderTypes == Spec => []TypeOK
<1>1. IInv => TypeOK
  BY DEF IInv
<1> QED BY <1>1, AlwaysInv, PTL

(* Whatever the classes and their fields, if none depend on each other in  *)
(* a circle, the loop of build_spec ends only in an order in which every   *)
(* class comes after those it names.                                       *)
THEOREM LoopSorts == Spec => []OrderedWhenDone
<1> QED BY DoneIsOrdered, AlwaysInv, PTL

(* The order stays an order of all the classes, and a loop that ended met  *)
(* no unknown name.                                                        *)
THEOREM LoopKeepsClasses == Spec => []NoClassLost
<1> QED BY NothingLost, AlwaysInv, PTL

(* The loop implements a step that picks a linear extension at once. *)
THEOREM LoopImplementsSorting == Spec => ImplementsSorting
<1>1. Init => Sorting!Init
  BY DEF Init, Sorting!Init, Result, NoOrder, Sorting!NoOrder
<1>2. IInv /\ OrderedWhenDone' /\ NoClassLost' /\ [Next]_vars => [Sorting!Next]_(Sorting!vars)
  <2> SUFFICES ASSUME IInv, OrderedWhenDone', NoClassLost', [Next]_vars
               PROVE  [Sorting!Next]_(Sorting!vars)
    OBVIOUS
  <2>1. CASE Finish
    <3>1. order \in [Classes -> Nat \ {0}] /\ Injective(order)
      BY DEF IInv, TypeOK
    <3>2. Result' = order /\ mentions' = mentions
      BY <2>1 DEF Finish, Result
    <3>3. \A c \in Classes : dependencies(c) \subseteq Classes
      BY <2>1 DEF Finish, NoClassLost, dependencies
    <3>4. Acyclic => \A c \in Classes : \A d \in dependencies(c) : d # c => order[d] < order[c]
      BY <2>1 DEF Finish, OrderedWhenDone, dependencies, Acyclic
    <3>5. Sorting!Sort
      BY <2>1, <3>1, <3>2, <3>3, <3>4
      DEF Finish, Sorting!Sort, Sorting!Extends, Sorting!Acyclic, Sorting!dependencies,
          Acyclic, dependencies, Injective
    <3> QED BY <3>5 DEF Sorting!Next
  <2>2. ASSUME NEW c \in Classes, NEW d \in Names, UnknownName(c, d)
        PROVE  Sorting!Next
    <3>1. d \in dependencies(c)
      BY <2>2 DEF UnknownName, IsNext, IInv, TodoMentioned
    <3>2. Sorting!Fail
      BY <2>2, <3>1
      DEF UnknownName, IsNext, Sorting!Fail, Sorting!dependencies, dependencies, Result
    <3> QED BY <3>2 DEF Sorting!Next
  <2>3. CASE BeginPass
    BY <2>3 DEF BeginPass, Sorting!vars, Result
  <2>4. ASSUME NEW c \in Classes, NEW d \in Names, Place(c, d)
        PROVE  UNCHANGED Sorting!vars
    BY <2>4 DEF Place, IsNext, Sorting!vars, Result
  <2>5. CASE UNCHANGED vars
    BY <2>5 DEF vars, Sorting!vars, Result
  <2> QED BY <2>1, <2>2, <2>3, <2>4, <2>5 DEF Next
<1> QED BY <1>1, <1>2, AlwaysInv, DoneIsOrdered, NothingLost, PTL
    DEF Spec, Sorting!Spec, ImplementsSorting
===============================================================================
