
--------------------------- MODULE BuildSpecProofs ---------------------------
(***************************************************************************)
(* Proofs about the compiler of the documents: what it keeps of those it   *)
(* reads, what the combination of several forks says, the order of classes *)
(* and the module that is written.                                         *)
(***************************************************************************)
EXTENDS BuildSpecInv, FiniteSetTheorems, WellFoundedInduction, TLAPS

-----------------------------------------------------------------------------
(* Induction, for the loops and recursions below. *)

(* A set of naturals with 0 and every successor has all of them.           *)
LEMMA NatSetInduction ==
  \A S : 0 \in S /\ (\A n \in Nat : n \in S => n + 1 \in S) => Nat \subseteq S
<1> SUFFICES ASSUME NEW S, 0 \in S, \A n \in Nat : n \in S => n + 1 \in S
             PROVE  Nat \subseteq S
  OBVIOUS
<1> DEFINE R == {ss \in Nat \X Nat : ss[1] < ss[2]}
           T == Nat \ S
<1> SUFFICES ASSUME T # {} PROVE FALSE
  OBVIOUS
<1>1. IsWellFoundedOn(R, Nat)
  BY NatLessThanWellFounded DEF OpToRel
<1>2. T \subseteq Nat
  OBVIOUS
<1>3. PICK x \in T : \A y \in T : <<y, x>> \notin R
  <2> HIDE DEF R, T
  <2> QED
    BY <1>1, <1>2, WFMin
<1>4. x - 1 \in Nat /\ x - 1 < x /\ (x - 1) + 1 = x
  OBVIOUS
<1>5. <<x - 1, x>> \in R
  BY <1>4
<1>6. x - 1 \in S
  BY <1>3, <1>4, <1>5
<1> QED
  BY <1>4, <1>6

(* What is so before a loop of N turns, and stays so through each of them, *)
(* is so all the way.                                                      *)
LEMMA UpTo ==
  ASSUME NEW N \in Nat, NEW S, 0 \in S, \A n \in 1..N : n - 1 \in S => n \in S
  PROVE  0..N \subseteq S
<1> DEFINE T == {n \in Nat : n <= N => n \in S}
<1>1. 0 \in T
  OBVIOUS
<1>2. ASSUME NEW n \in Nat, n \in T PROVE n + 1 \in T
  <2>1. CASE n + 1 <= N
    <3>1. n + 1 \in 1..N /\ (n + 1) - 1 = n
      BY <2>1
    <3> QED
      BY <1>2, <2>1, <3>1
  <2> QED
    BY <2>1
<1>3. Nat \subseteq T
  <2> HIDE DEF T
  <2> QED
    BY <1>1, <1>2, NatSetInduction
<1> QED
  BY <1>3

RestrictStep(a, r, item) == IF item.name \in a THEN Append(r, item) ELSE r
Restricting == INSTANCE FoldOf WITH op <- RestrictStep

LEMMA RestrictingInducts == Restricting!NatInduction
BY NatSetInduction DEF Restricting!NatInduction

-----------------------------------------------------------------------------
(* Dictionaries. *)

(* The indices of a dictionary.                                            *)
LEMMA DictIs ==
  ASSUME NEW d, Dict(d)
  PROVE  /\ Len(d) \in Nat /\ DOMAIN d = 1..Len(d)
         /\ d = [i \in 1..Len(d) |-> d[i]]
  BY DEF Dict, NamedOnce, IsList

(* What makes a dictionary.                                                *)
LEMMA DictOf ==
  ASSUME NEW d, NEW n \in Nat, d = [i \in 1..n |-> d[i]],
         \A i, j \in 1..n : d[i].name = d[j].name => i = j
  PROVE  Dict(d) /\ Len(d) = n /\ DOMAIN d = 1..n
<1>1. DOMAIN d = 1..n /\ d \in [1..n -> {d[i] : i \in DOMAIN d}]
  OBVIOUS
<1>2. IsList(d) /\ Len(d) = n /\ DOMAIN d = 1..n
  BY <1>1 DEF IsList
<1> QED
  BY <1>2 DEF Dict, NamedOnce, IsList

(* A name is looked up where it stands.                                    *)
LEMMA GetIs ==
  ASSUME NEW d, Dict(d)
  PROVE  /\ \A i \in DOMAIN d : Get(d, d[i].name) = d[i].def /\ d[i].name \in Keys(d)
         /\ \A n \in Keys(d) : \E i \in DOMAIN d : d[i].name = n /\ Get(d, n) = d[i].def
<1>1. ASSUME NEW i \in DOMAIN d PROVE Get(d, d[i].name) = d[i].def
  <2>1. \A j \in DOMAIN d : d[j].name = d[i].name => j = i
    BY DEF Dict, NamedOnce, IsList
  <2>2. (CHOOSE j \in DOMAIN d : d[j].name = d[i].name) = i
    BY <2>1
  <2> QED
    BY <2>2 DEF Get
<1> QED
  BY <1>1 DEF Keys

(* Nothing is in the empty dictionary.                                     *)
LEMMA EmptyDict == Dict(<<>>) /\ Keys(<<>>) = {}
<1>1. <<>> = [i \in 1..0 |-> <<>>[i]]
  OBVIOUS
<1>2. \A i, j \in 1..0 : <<>>[i].name = <<>>[j].name => i = j
  OBVIOUS
<1>3. Dict(<<>>) /\ DOMAIN <<>> = 1..0
  <2> DEFINE d == <<>>
  <2>1. d = [i \in 1..0 |-> d[i]] /\ \A i, j \in 1..0 : d[i].name = d[j].name => i = j
    BY <1>1, <1>2
  <2> HIDE DEF d
  <2>2. Dict(d) /\ DOMAIN d = 1..0
    BY <2>1, DictOf
  <2> QED
    BY <2>2 DEF d
<1> QED
  BY <1>3 DEF Keys

(* d[n] = v puts n and changes nothing else.                               *)
LEMMA PutIs ==
  ASSUME NEW d, Dict(d), NEW n, NEW v
  PROVE  LET e == Put(d, n, v)
         IN /\ Dict(e) /\ Keys(e) = Keys(d) \cup {n}
            /\ Get(e, n) = v
            /\ \A k \in Keys(d) : k # n => Get(e, k) = Get(d, k)
<1> DEFINE e == Put(d, n, v)
           N == Len(d)
           item == [name |-> n, def |-> v]
<1>1. N \in Nat /\ DOMAIN d = 1..N /\ d = [i \in 1..N |-> d[i]]
  BY DictIs
<1>2. \A i, j \in 1..N : d[i].name = d[j].name => i = j
  BY <1>1 DEF Dict, NamedOnce, IsList
<1>3. CASE n \in Keys(d)
  <2>1. e = [i \in 1..N |-> IF d[i].name = n THEN item ELSE d[i]]
    BY <1>1, <1>3 DEF Put
  <2> HIDE DEF e
  <2>2. \A i \in 1..N : e[i] = IF d[i].name = n THEN item ELSE d[i]
    BY <2>1
  <2>3. \A i \in 1..N : e[i].name = d[i].name
    BY <2>2
  <2>4. e = [i \in 1..N |-> e[i]]
    BY <2>1
  <2>5. Dict(e) /\ DOMAIN e = 1..N
    BY <1>1, <1>2, <2>3, <2>4, DictOf
  <2>6. Keys(e) = Keys(d)
    BY <1>1, <2>3, <2>5 DEF Keys
  <2>7. PICK i \in 1..N : d[i].name = n
    BY <1>1, <1>3 DEF Keys
  <2>8. Get(e, n) = v
    BY <2>2, <2>3, <2>5, <2>7, GetIs
  <2>9. ASSUME NEW k \in Keys(d), k # n PROVE Get(e, k) = Get(d, k)
    <3>1. PICK j \in 1..N : d[j].name = k /\ Get(d, k) = d[j].def
      BY <1>1, GetIs
    <3>2. e[j] = d[j]
      BY <2>2, <2>9, <3>1
    <3> QED
      BY <2>5, <3>1, <3>2, GetIs
  <2> QED
    BY <1>3, <2>5, <2>6, <2>8, <2>9 DEF e
<1>4. CASE n \notin Keys(d)
  <2>1. e = Append(d, item)
    BY <1>4 DEF Put
  <2>2. e = [i \in 1..(N + 1) |-> IF i = N + 1 THEN item ELSE d[i]]
    BY <1>1, <2>1
  <2> HIDE DEF e
  <2>3. \A i \in 1..(N + 1) : e[i] = IF i = N + 1 THEN item ELSE d[i]
    BY <2>2
  <2>4. e = [i \in 1..(N + 1) |-> e[i]] /\ N + 1 \in Nat
    BY <1>1, <2>2
  <2>5. \A i \in 1..N : i \in 1..(N + 1) /\ i # N + 1 /\ d[i].name # n
    BY <1>1, <1>4 DEF Keys
  <2>6. \A i \in 1..(N + 1) : i \in 1..N \/ i = N + 1
    BY <1>1
  <2>7. N + 1 \in 1..(N + 1) /\ e[N + 1].name = n /\ e[N + 1].def = v
    BY <1>1, <2>3
  <2>8. \A i \in 1..N : e[i] = d[i]
    BY <2>3, <2>5
  <2>9. \A i, j \in 1..(N + 1) : e[i].name = e[j].name => i = j
    BY <1>2, <2>5, <2>6, <2>7, <2>8
  <2>10. Dict(e) /\ DOMAIN e = 1..(N + 1)
    BY <2>4, <2>9, DictOf
  <2>11. Keys(e) = Keys(d) \cup {n}
    BY <1>1, <2>5, <2>6, <2>7, <2>8, <2>10 DEF Keys
  <2>12. Get(e, n) = v
    BY <2>7, <2>10, GetIs
  <2>13. ASSUME NEW k \in Keys(d) PROVE Get(e, k) = Get(d, k)
    <3>1. PICK j \in 1..N : d[j].name = k /\ Get(d, k) = d[j].def
      BY <1>1, GetIs
    <3> QED
      BY <2>5, <2>8, <2>10, <3>1, GetIs
  <2> QED
    BY <2>10, <2>11, <2>12, <2>13 DEF e
<1> QED
  BY <1>3, <1>4

(* Lists, and what stands before what in one. *)

LEMMA ListIs ==
  ASSUME NEW p
  PROVE  /\ IsList(p) => Len(p) \in Nat /\ DOMAIN p = 1..Len(p) /\ p = [i \in 1..Len(p) |-> p[i]]
         /\ \A n \in Nat : p = [i \in 1..n |-> p[i]] => IsList(p) /\ Len(p) = n /\ DOMAIN p = 1..n
<1>1. ASSUME NEW n \in Nat, p = [i \in 1..n |-> p[i]] PROVE IsList(p) /\ Len(p) = n /\ DOMAIN p = 1..n
  <2>1. DOMAIN p = 1..n /\ p \in [1..n -> {p[i] : i \in DOMAIN p}]
    BY <1>1
  <2> QED
    BY <2>1 DEF IsList
<1>2. IsList(p) => Len(p) \in Nat /\ DOMAIN p = 1..Len(p) /\ p = [i \in 1..Len(p) |-> p[i]]
  BY DEF IsList
<1> QED
  BY <1>1, <1>2

LEMMA EmptyList == IsList(<<>>) /\ Dict(<<>>)
  BY EmptyDict DEF Dict

(* Appending to a list.                                                    *)
LEMMA ListGrows ==
  ASSUME NEW q, IsList(q), NEW x
  PROVE  IsList(Append(q, x)) /\ Len(Append(q, x)) = Len(q) + 1 /\ Len(q) \in Nat
<1> DEFINE T == {q[i] : i \in DOMAIN q}
           r == Append(q, x)
<1>1. q \in Seq(T) /\ q \in Seq(T \cup {x}) /\ x \in T \cup {x}
  BY DEF IsList
<1> HIDE DEF T
<1>2. Len(q) \in Nat /\ Len(r) = Len(q) + 1 /\ r \in Seq(T \cup {x})
  BY <1>1
<1> HIDE DEF r
<1>3. DOMAIN r = 1..Len(r) /\ Len(r) \in Nat /\ r = [i \in 1..Len(r) |-> r[i]]
  BY <1>2
<1>4. r \in [1..Len(r) -> {r[i] : i \in DOMAIN r}]
  BY <1>3
<1>5. r \in Seq({r[i] : i \in DOMAIN r})
  BY <1>3, <1>4
<1> QED
  BY <1>2, <1>5 DEF r, IsList

(* Appending to a list leaves what was there.                              *)
LEMMA Appended ==
  ASSUME NEW q, IsList(q), NEW x
  PROVE  LET r == Append(q, x)
         IN /\ Len(q) \in Nat /\ Len(r) = Len(q) + 1
            /\ \A i \in 1..Len(q) : r[i] = q[i]
            /\ r[Len(q) + 1] = x
<1> DEFINE T == {q[i] : i \in DOMAIN q}
           r == Append(q, x)
<1>1. q \in Seq(T) /\ q \in Seq(T \cup {x}) /\ x \in T \cup {x}
  BY DEF IsList
<1> HIDE DEF T
<1> QED
  BY <1>1

(* Of two names one stands before the other.                               *)
LEMMA OneAhead ==
  ASSUME NEW d, Dict(d)
  PROVE  /\ \A a, b \in Keys(d) : a # b => (Ahead(d, a, b) <=> ~ Ahead(d, b, a))
         /\ \A a, b : Ahead(d, a, b) => a \in Keys(d) /\ b \in Keys(d) /\ a # b
<1> DEFINE N == Len(d)
<1>1. N \in Nat /\ DOMAIN d = 1..N
  BY DictIs
<1>2. \A i, j \in 1..N : d[i].name = d[j].name => i = j
  BY <1>1 DEF Dict, NamedOnce
<1>3. \A i, j \in 1..N : i \in Int /\ j \in Int
  OBVIOUS
<1> HIDE DEF N
<1>4. ASSUME NEW a \in Keys(d), NEW b \in Keys(d), a # b
      PROVE  Ahead(d, a, b) <=> ~ Ahead(d, b, a)
  <2>1. PICK i \in 1..N : d[i].name = a
    BY <1>1 DEF Keys
  <2>2. PICK j \in 1..N : d[j].name = b
    BY <1>1 DEF Keys
  <2>3. i \in Int /\ j \in Int /\ i # j
    BY <1>3, <1>4, <2>1, <2>2
  <2>4. Ahead(d, a, b) <=> i < j
    BY <1>1, <1>2, <2>1, <2>2 DEF Ahead
  <2>5. Ahead(d, b, a) <=> j < i
    BY <1>1, <1>2, <2>1, <2>2 DEF Ahead
  <2> QED
    BY <2>3, <2>4, <2>5
<1>5. ASSUME NEW a, NEW b, Ahead(d, a, b) PROVE a \in Keys(d) /\ b \in Keys(d) /\ a # b
  <2>1. PICK i, j \in 1..N : i < j /\ d[i].name = a /\ d[j].name = b
    BY <1>1, <1>5 DEF Ahead
  <2>2. i # j
    BY <1>3, <2>1
  <2>3. a \in Keys(d) /\ b \in Keys(d)
    BY <1>1, <2>1 DEF Keys
  <2> QED
    BY <1>2, <2>1, <2>2, <2>3
<1> QED
  BY <1>4, <1>5

(* What is appended comes behind all that was there.                       *)
LEMMA AppendOrder ==
  ASSUME NEW d, IsList(d), NEW item
  PROVE  LET e == Append(d, item)
         IN /\ IsList(e) /\ Keys(e) = Keys(d) \cup {item.name}
            /\ \A a, b : Ahead(d, a, b) => Ahead(e, a, b)
            /\ \A a \in Keys(d) : Ahead(e, a, item.name)
<1> DEFINE e == Append(d, item)
           N == Len(d)
<1>1. N \in Nat /\ DOMAIN d = 1..N
  BY ListIs
<1>2. IsList(e) /\ Len(e) = N + 1 /\ (\A i \in 1..N : e[i] = d[i]) /\ e[N + 1] = item
  BY ListGrows, Appended
<1>3. DOMAIN e = 1..(N + 1)
  <2> HIDE DEF e
  <2> QED
    BY <1>2, ListIs
<1> HIDE DEF e, N
<1>4. \A i \in 1..N : i \in 1..(N + 1) /\ i < N + 1
  BY <1>1
<1>5. N + 1 \in 1..(N + 1) /\ \A i \in 1..(N + 1) : i \in 1..N \/ i = N + 1
  BY <1>1
<1>6. \A a, b : Ahead(d, a, b) => Ahead(e, a, b)
  BY <1>1, <1>2, <1>3, <1>4 DEF Ahead
<1>7. \A a \in Keys(d) : Ahead(e, a, item.name)
  BY <1>1, <1>2, <1>3, <1>4, <1>5 DEF Ahead, Keys
<1>8. Keys(e) = Keys(d) \cup {item.name}
  BY <1>1, <1>2, <1>3, <1>4, <1>5 DEF Keys
<1> QED
  BY <1>2, <1>6, <1>7, <1>8 DEF e

(* The order of the names stays as it is; a new one comes last.            *)
LEMMA PutOrder ==
  ASSUME NEW d, Dict(d), NEW n, NEW v
  PROVE  /\ \A a, b : Ahead(d, a, b) => Ahead(Put(d, n, v), a, b)
         /\ n \notin Keys(d) => \A a \in Keys(d) : Ahead(Put(d, n, v), a, n)
<1> DEFINE e == Put(d, n, v)
           item == [name |-> n, def |-> v]
<1>1. CASE n \in Keys(d)
  <2>1. e = [i \in DOMAIN d |-> IF d[i].name = n THEN item ELSE d[i]]
    BY <1>1 DEF Put
  <2>2. DOMAIN e = DOMAIN d /\ \A i \in DOMAIN d : e[i].name = d[i].name
    BY <2>1
  <2> HIDE DEF e
  <2>3. \A a, b : Ahead(d, a, b) => Ahead(e, a, b)
    BY <2>2 DEF Ahead
  <2> QED
    BY <1>1, <2>3 DEF e
<1>2. CASE n \notin Keys(d)
  <2>1. e = Append(d, item) /\ item.name = n
    BY <1>2 DEF Put
  <2> HIDE DEF e, item
  <2>2. /\ \A a, b : Ahead(d, a, b) => Ahead(e, a, b)
        /\ \A a \in Keys(d) : Ahead(e, a, n)
    BY <2>1, AppendOrder DEF Dict
  <2> QED
    BY <2>2 DEF e
<1> QED
  BY <1>1, <1>2

LEMMA FromMore ==
  ASSUME NEW d, Dict(d), NEW E, From(d, E), NEW e, NEW mentions
  PROVE  From(Put(d, e.name, Definition(e.text, mentions)), E \cup {e})
<1> DEFINE v == Definition(e.text, mentions)
           c == Put(d, e.name, v)
<1>1. v.text = e.text
  BY DEF Definition
<1> HIDE DEF v, c
<1>2. /\ Keys(c) = Keys(d) \cup {e.name} /\ Get(c, e.name) = v
      /\ \A k \in Keys(d) : k # e.name => Get(c, k) = Get(d, k)
  BY PutIs DEF c
<1>3. From(c, E \cup {e})
  BY <1>1, <1>2 DEF From
<1> QED
  BY <1>3 DEF c, v

-----------------------------------------------------------------------------
(* What the handlers of elements do with the dictionaries. *)

(* A definition is stored in one section and leaves the others alone.      *)
LEMMA StoreIs ==
  ASSUME NEW r, Result(r), NEW section \in Sections, NEW name, NEW def
  PROVE  LET t == Store(r, section, name, def)
         IN /\ Result(t) /\ t.types = r.types /\ t.ok = r.ok
            /\ t.spec[section] = Put(r.spec[section], name, def)
            /\ \A s \in Sections \ {section} : Same(r, t, s)
<1> DEFINE t == Store(r, section, name, def)
           d == Put(r.spec[section], name, def)
           e == [r.spec EXCEPT ![section] = d]
<1>1. r = Outcome(r.spec, r.types, r.ok) /\ r.spec = [s \in Sections |-> r.spec[s]]
  BY DEF Result
<1>2. t = [r EXCEPT !.spec = e]
  BY DEF Store
<1>3. t = Outcome(e, r.types, r.ok)
  <2> HIDE DEF t, e
  <2> QED
    BY <1>1, <1>2 DEF Outcome
<1>4. Dict(d)
  BY PutIs DEF Result
<1> HIDE DEF t, d
<1>5. e = [s \in Sections |-> IF s = section THEN d ELSE r.spec[s]]
  BY <1>1
<1> HIDE DEF e
<1>6. t.spec = e /\ t.types = r.types /\ t.ok = r.ok
  BY <1>3 DEF Outcome
<1>7. e[section] = d /\ \A s \in Sections \ {section} : e[s] = r.spec[s]
  BY <1>5
<1>8. Result(t)
  <2>1. e = [s \in Sections |-> e[s]] /\ \A s \in Sections : Dict(e[s])
    BY <1>4, <1>5, <1>7 DEF Result
  <2> QED
    BY <1>3, <1>6, <2>1 DEF Result
<1> QED
  BY <1>6, <1>7, <1>8 DEF t, d, Same

(* An exception leaves the dictionaries as they are.                       *)
LEMMA RaiseIs ==
  ASSUME NEW r, Result(r)
  PROVE  LET t == Raise(r)
         IN Result(t) /\ t.spec = r.spec /\ t.types = r.types /\ t.ok = FALSE
<1>1. PICK a, b, c : r = Outcome(a, b, c) /\ a = r.spec /\ b = r.types
  BY DEF Result
<1>2. Raise(r) = Outcome(r.spec, r.types, FALSE)
  <2>1. \A x : [Outcome(a, b, c) EXCEPT !.ok = x] = Outcome(a, b, x)
    BY DEF Outcome
  <2>2. Raise(r) = [Outcome(a, b, c) EXCEPT !.ok = FALSE]
    BY <1>1, Zenon DEF Raise
  <2>3. [Outcome(a, b, c) EXCEPT !.ok = FALSE] = Outcome(a, b, FALSE)
    BY ONLY <2>1, Zenon
  <2> QED
    BY <1>1, <2>2, <2>3, Zenon
<1> DEFINE t == Raise(r)
<1> HIDE DEF t
<1>3. t.spec = r.spec /\ t.types = r.types /\ t.ok = FALSE
  BY <1>2 DEF Outcome, t
<1>4. Result(t)
  BY <1>2, <1>3 DEF Result, t
<1> QED
  BY <1>3, <1>4 DEF t

LEMMA ProcessDefinitionIs ==
  ASSUME NEW r, Result(r), NEW def, NEW heading
  PROVE  DefinitionRead(r, ProcessDefinition(r, def, heading), def, heading)
<1> DEFINE t == ProcessDefinition(r, def, heading)
           entry == Definition(def.text, def.mentions)
<1>0. /\ CodeSections \subseteq Sections /\ "protocols" \in Sections \ CodeSections
      /\ r.ok \in BOOLEAN
  BY DEF CodeSections, Sections, Result
<1>1. CASE ~ r.ok
  <2>1. t = r
    BY <1>1 DEF ProcessDefinition
  <2> HIDE DEF t
  <2>2. DefinitionRead(r, t, def, heading)
    BY <1>1, <2>1 DEF DefinitionRead, Same
  <2> QED
    BY <2>2 DEF t
<1>2. CASE r.ok /\ def.kind = "function"
  <2>1. t = _process_code_def(r, def)
    BY <1>2 DEF ProcessDefinition
  <2>2. CASE def.self = NoName
    <3>1. t = Store(r, "functions", def.name, entry) /\ SectionOf(def) = "functions"
      BY <1>2, <2>1, <2>2 DEF _process_code_def, SectionOf
    <3> HIDE DEF t, entry
    <3>2. DefinitionRead(r, t, def, heading)
      BY <1>0, <1>2, <3>1, StoreIs DEF DefinitionRead, CodeSections, entry
    <3> QED
      BY <3>2 DEF t
  <2>3. CASE def.self # NoName
    <3> DEFINE protocols == r.spec["protocols"]
               functions == IF def.self \in Keys(protocols) THEN Get(protocols, def.self) ELSE <<>>
               more == Put(functions, def.name, entry)
    <3>1. t = Store(r, "protocols", def.self, more) /\ SectionOf(def) = "protocols"
      BY <1>2, <2>1, <2>3 DEF _process_code_def, SectionOf
    <3> HIDE DEF t, more
    <3>2. DefinitionRead(r, t, def, heading)
      BY <1>0, <1>2, <3>1, StoreIs DEF DefinitionRead, CodeSections
    <3> QED
      BY <3>2 DEF t
  <2> QED
    BY <2>2, <2>3
<1>3. CASE r.ok /\ def.kind = "dataclass"
  <2>1. t = Store(r, "dataclasses", def.name, entry) /\ SectionOf(def) = "dataclasses"
    BY <1>3 DEF ProcessDefinition, SectionOf
  <2> HIDE DEF t, entry
  <2>2. DefinitionRead(r, t, def, heading)
    BY <1>0, <1>3, <2>1, StoreIs DEF DefinitionRead, CodeSections, entry
  <2> QED
    BY <2>2 DEF t
<1>4. CASE r.ok /\ def.kind = "class"
  <2>1. t = _process_code_class(r, def, heading) /\ SectionOf(def) = "ssz_objects"
    BY <1>4 DEF ProcessDefinition, SectionOf
  <2>2. CASE def.name # heading \/ def.parent \notin {"Container", NoName}
    <3>1. t = Raise(r)
      BY <2>1, <2>2 DEF _process_code_class
    <3> HIDE DEF t
    <3>2. DefinitionRead(r, t, def, heading)
      BY <1>0, <1>4, <3>1, RaiseIs DEF DefinitionRead, Same
    <3> QED
      BY <3>2 DEF t
  <2>3. CASE ~ (def.name # heading \/ def.parent \notin {"Container", NoName})
    <3>1. t = Store(r, "ssz_objects", def.name, entry)
      BY <2>1, <2>3 DEF _process_code_class
    <3> HIDE DEF t, entry
    <3>2. DefinitionRead(r, t, def, heading)
      BY <1>0, <1>4, <2>1, <2>3, <3>1, StoreIs DEF DefinitionRead, CodeSections, entry
    <3> QED
      BY <3>2 DEF t
  <2> QED
    BY <2>2, <2>3
<1>5. CASE r.ok /\ def.kind \notin {"function", "dataclass", "class"}
  <2>1. t = Raise(r)
    BY <1>5 DEF ProcessDefinition
  <2> HIDE DEF t
  <2>2. DefinitionRead(r, t, def, heading)
    BY <1>0, <1>5, <2>1, RaiseIs DEF DefinitionRead, Same
  <2> QED
    BY <2>2 DEF t
<1> QED
  BY <1>0, <1>1, <1>2, <1>3, <1>4, <1>5

LEMMA StoreAside ==
  ASSUME NEW r, Result(r), NEW section \in TableSections, NEW name, NEW def
  PROVE  Aside(r, Store(r, section, name, def))
<1> DEFINE t == Store(r, section, name, def)
<1>1. /\ CodeSections \cup {"protocols", "constant_vars", "preset_dep_constant_vars"}
           \subseteq Sections \ {section}
      /\ section \in Sections
  BY DEF CodeSections, TableSections, Sections
<1>2. Result(t) /\ t.types = r.types /\ t.ok = r.ok /\ \A s \in Sections \ {section} : Same(r, t, s)
  BY <1>1, StoreIs
<1> HIDE DEF t
<1>3. Aside(r, t)
  BY <1>1, <1>2 DEF Aside
<1> QED
  BY <1>3 DEF t

(* A row that declares nothing is read aside.                              *)
LEMMA AsideRead ==
  ASSUME NEW r, NEW t, Aside(r, t), NEW row, ~ Declares(row)
  PROVE  RowRead(r, t, row)
BY DEF RowRead, Filed, Aside

LEMMA RaiseRead ==
  ASSUME NEW r, Result(r), NEW row
  PROVE  RowRead(r, Raise(r), row)
<1> DEFINE t == Raise(r)
<1>1. Result(t) /\ t.spec = r.spec /\ t.ok = FALSE
  BY RaiseIs
<1> HIDE DEF t
<1>2. RowRead(r, t, row)
  BY <1>1 DEF RowRead, Same
<1> QED
  BY <1>2 DEF t

(* A row of a constant.                                                    *)
LEMMA ProcessVariableIs ==
  ASSUME NEW r, Result(r), NEW row,
         Declares(row) <=> row.name \notin Preset \cup Config, row.constant
  PROVE  RowRead(r, ProcessVariable(r, row), row)
<1> DEFINE t == ProcessVariable(r, row)
           def == Definition(row.text, row.mentions)
           from_file == Definition(Yaml[row.name], {row.type} \ {NoName})
<1>0. /\ CodeSections \cup {"protocols", "constant_vars", "preset_dep_constant_vars"} \subseteq Sections
      /\ CodeSections \cap {"constant_vars", "preset_dep_constant_vars"} = {}
      /\ "constant_vars" # "preset_dep_constant_vars" /\ "protocols" # "constant_vars"
      /\ "protocols" # "preset_dep_constant_vars"
  BY DEF CodeSections, Sections
<1>1. RowRead(r, Raise(r), row)
  BY RaiseRead
<1>2. CASE row.name \in Preset
  <2>1. t = IF check_yaml_matches_spec(row) THEN Store(r, "preset_vars", row.name, from_file) ELSE Raise(r)
    BY <1>2 DEF ProcessVariable
  <2>2. RowRead(r, Store(r, "preset_vars", row.name, from_file), row)
    <3> HIDE DEF from_file
    <3> QED
      BY <1>2, StoreAside, AsideRead DEF TableSections
  <2> HIDE DEF t, from_file
  <2>3. RowRead(r, t, row)
    BY <1>1, <2>1, <2>2
  <2> QED
    BY <2>3 DEF t
<1>3. CASE row.name \in Config \ Preset
  <2>1. t = IF check_yaml_matches_spec(row) THEN Store(r, "config_vars", row.name, from_file) ELSE Raise(r)
    BY <1>3, ConfigNamesDiffer DEF ProcessVariable
  <2>2. RowRead(r, Store(r, "config_vars", row.name, from_file), row)
    <3> HIDE DEF from_file
    <3> QED
      BY <1>3, StoreAside, AsideRead DEF TableSections
  <2> HIDE DEF t, from_file
  <2>3. RowRead(r, t, row)
    BY <1>1, <2>1, <2>2
  <2> QED
    BY <2>3 DEF t
<1>4. CASE row.name \in ConfigRecords \ Preset
  <2>1. t = Raise(r)
    BY <1>4, ConfigNamesDiffer DEF ProcessVariable
  <2> QED
    BY <1>1, <2>1
<1>5. CASE row.name \notin Preset \cup Config \cup ConfigRecords
  <2>1. t = IF DependsOnPreset(row.mentions, r.spec)
            THEN Store(r, "preset_dep_constant_vars", row.name, def)
            ELSE Store(r, "constant_vars", row.name, def)
    BY <1>5 DEF ProcessVariable
  <2>2. Declares(row)
    BY <1>5
  <2> HIDE DEF t, def
  <2>3. /\ Result(t) /\ t.types = r.types /\ t.ok = r.ok
        /\ \A s \in CodeSections \cup {"protocols"} : Same(r, t, s)
    BY <1>0, <2>1, StoreIs
  <2>4. Filed(r, t, row)
    BY <1>0, <2>1, <2>2, StoreIs DEF Filed, def
  <2>5. RowRead(r, t, row)
    BY <2>3, <2>4 DEF RowRead
  <2> QED
    BY <2>5 DEF t
<1> QED
  BY <1>2, <1>3, <1>4, <1>5

LEMMA ProcessRowIs ==
  ASSUME NEW r, Result(r), NEW row
  PROVE  RowRead(r, ProcessRow(r, row), row)
<1> DEFINE t == ProcessRow(r, row)
           def == Definition(row.text, row.mentions)
<1>0. r.ok \in BOOLEAN
  BY DEF Result
<1>1. CASE ~ r.ok
  <2>1. t = r
    BY <1>1 DEF ProcessRow
  <2> HIDE DEF t
  <2>2. RowRead(r, t, row)
    BY <1>0, <1>1, <2>1 DEF RowRead, Same
  <2> QED
    BY <2>2 DEF t
<1>2. ASSUME r.ok, ~ Declares(row), t = r PROVE RowRead(r, t, row)
  <2> HIDE DEF t
  <2>1. Aside(r, t)
    BY <1>2 DEF Aside, Same
  <2> QED
    BY <1>2, <2>1, AsideRead
<1>3. CASE r.ok /\ (row.cells < 2 \/ row.remark = "predefined-type")
  <2>1. t = r /\ ~ Declares(row)
    BY <1>3 DEF ProcessRow, Declares
  <2> QED
    BY <1>2, <1>3, <2>1
<1>4. CASE r.ok /\ ~ (row.cells < 2 \/ row.remark = "predefined-type") /\ ~ row.constant
  <2> DEFINE types == Put(r.types, row.name, def)
  <2>1. t = IF row.shape = "ssz" THEN [r EXCEPT !.types = types] ELSE r
    BY <1>4 DEF ProcessRow
  <2>2. row.shape # "ssz" => ~ Declares(row)
    BY <1>4 DEF Declares
  <2>3. Dict(types)
    BY PutIs DEF Result
  <2>4. ASSUME t = [r EXCEPT !.types = types], Declares(row) PROVE RowRead(r, t, row)
    <3> HIDE DEF t, def
    <3>1. t = Outcome(r.spec, types, r.ok)
      <4> HIDE DEF types
      <4> QED
        BY <2>4 DEF Result, Outcome
    <3>2. t.spec = r.spec /\ t.types = types /\ t.ok = r.ok
      BY <3>1 DEF Outcome
    <3>3. Result(t)
      <4> HIDE DEF types
      <4> QED
        BY <2>3, <3>1, <3>2 DEF Result
    <3>4. Filed(r, t, row)
      BY <2>4, <3>2 DEF Filed, Same, def
    <3> QED
      BY <1>0, <3>2, <3>3, <3>4 DEF RowRead, Same
  <2>5. row.shape = "ssz" => Declares(row)
    BY <1>4 DEF Declares
  <2> QED
    BY <1>2, <1>4, <2>1, <2>2, <2>4, <2>5
<1>5. CASE r.ok /\ ~ (row.cells < 2 \/ row.remark = "predefined-type") /\ row.constant /\ row.shape = "gindex"
  <2>1. t = Store(r, "ssz_dep_constants", row.name, def) /\ ~ Declares(row)
    BY <1>5 DEF ProcessRow, Declares
  <2> HIDE DEF def, t
  <2>2. RowRead(r, t, row)
    BY <2>1, StoreAside, AsideRead DEF TableSections
  <2> QED
    BY <2>2 DEF t
<1>6. CASE r.ok /\ ~ (row.cells < 2 \/ row.remark = "predefined-type") /\ row.constant /\ row.shape # "gindex"
  <2> DEFINE u == IF row.remark = "predefined"
                  THEN Store(r, "func_dep_presets", row.name, def) ELSE r
  <2>1. t = ProcessVariable(u, row) /\ (Declares(row) <=> row.name \notin Preset \cup Config)
    BY <1>6 DEF ProcessRow, Declares
  <2>2. Aside(r, u)
    <3>1. Aside(r, r)
      BY DEF Aside, Same
    <3>2. Aside(r, Store(r, "func_dep_presets", row.name, def))
      <4> HIDE DEF def
      <4> QED
        BY StoreAside DEF TableSections
    <3> QED
      BY <3>1, <3>2
  <2> HIDE DEF t, u
  <2>3. RowRead(u, t, row)
    BY <1>6, <2>1, <2>2, ProcessVariableIs DEF Aside
  <2>4. ASSUME t.ok PROVE Filed(r, t, row)
    <3>1. Filed(u, t, row)
      BY <1>6, <2>2, <2>3, <2>4 DEF RowRead, Aside
    <3> QED
      BY <2>2, <3>1 DEF Filed, Aside, Same, DependsOnPreset
  <2>5. RowRead(r, t, row)
    BY <1>6, <2>2, <2>3, <2>4 DEF RowRead, Aside, Same
  <2> QED
    BY <2>5 DEF t
<1> QED
  BY <1>0, <1>1, <1>3, <1>4, <1>5, <1>6

-----------------------------------------------------------------------------
(* The places of a document, and how far it has been read. *)

(* The elements of a document.                                             *)
LEMMA DocumentIs ==
  ASSUME NEW doc \in Documents
  PROVE  /\ Len(doc) \in Nat /\ DOMAIN doc = 1..Len(doc)
         /\ \A i \in DOMAIN doc :
              /\ doc[i].kind = "code" =>
                   /\ Len(doc[i].defs) \in Nat /\ DOMAIN doc[i].defs = 1..Len(doc[i].defs)
                   /\ \A k \in DOMAIN doc[i].defs : doc[i].defs[k].name # NoName
              /\ doc[i].kind = "table" =>
                   /\ Len(doc[i].rows) \in Nat /\ DOMAIN doc[i].rows = 1..Len(doc[i].rows)
                   /\ \A k \in DOMAIN doc[i].rows : doc[i].rows[k].name \notin {NoName, "curdleproofs", "json"}
<1>1. IsList(doc)
  BY DocumentsAssumption
<1>2. \A q : IsList(q) => Len(q) \in Nat /\ DOMAIN q = 1..Len(q)
  BY DEF IsList
<1>3. ASSUME NEW i \in DOMAIN doc, doc[i].kind = "code"
      PROVE  /\ Len(doc[i].defs) \in Nat /\ DOMAIN doc[i].defs = 1..Len(doc[i].defs)
             /\ \A k \in DOMAIN doc[i].defs : doc[i].defs[k].name # NoName
  <2>1. /\ IsList(doc[i].defs)
        /\ \A k \in DOMAIN doc[i].defs : doc[i].defs[k].name # NoName
    BY <1>3, DocumentsAssumption
  <2> QED
    BY <1>2, <2>1
<1>4. ASSUME NEW i \in DOMAIN doc, doc[i].kind = "table"
      PROVE  /\ Len(doc[i].rows) \in Nat /\ DOMAIN doc[i].rows = 1..Len(doc[i].rows)
             /\ \A k \in DOMAIN doc[i].rows : doc[i].rows[k].name \notin {NoName, "curdleproofs", "json"}
  <2>1. /\ IsList(doc[i].rows)
        /\ \A k \in DOMAIN doc[i].rows : doc[i].rows[k].name \notin {NoName, "curdleproofs", "json"}
    BY <1>4, DocumentsAssumption
  <2> QED
    BY <1>2, <2>1
<1> QED
  BY <1>1, <1>2, <1>3, <1>4

TakenStep(doc, before, i) == doc[i - 1].kind \in Comments /\ ~ before
Taking == INSTANCE FoldOf WITH op <- TakenStep

LEMMA TakingInducts == Taking!NatInduction
BY NatSetInduction DEF Taking!NatInduction

(* An element is taken away by the comment before it, unless that comment  *)
(* is taken away itself.                                                   *)
LEMMA TakenIs ==
  ASSUME NEW doc \in Documents, NEW i \in DOMAIN doc
  PROVE  i \in TakenAway(doc) <=>
           i > 1 /\ doc[i - 1].kind \in Comments /\ i - 1 \notin TakenAway(doc)
<1> DEFINE D == DOMAIN doc
           P(f) == f = [j \in D |-> j > 1 /\ doc[j - 1].kind \in {"skip", "list-of-records"} /\ ~ f[j - 1]]
           taken == CHOOSE f : P(f)
<1>1. D = 1..Len(doc) /\ Len(doc) \in Nat
  BY DocumentIs
<1>2. P(taken)
  <2> DEFINE base == [j \in {1} |-> FALSE]
             next == [j \in D |-> j - 1]
             left == [j \in D |-> j]
  <2>1. \A j \in D : left[j] \in Nat
    BY <1>1
  <2>2. \A j \in D \ {1} : next[j] \in D /\ left[next[j]] < left[j]
    BY <1>1
  <2>3. PICK f : Taking!Walk(doc, D, {1}, base, next, f)
    <3> HIDE DEF D, base, next, left
    <3> QED
      BY <2>1, <2>2, Taking!WalkExists, TakingInducts
  <2>4. P(f)
    <3>1. f = [j \in D |-> IF j \in {1} THEN base[j] ELSE TakenStep(doc, f[next[j]], j)]
      BY <2>3 DEF Taking!Walk
    <3>2. ASSUME NEW j \in D
          PROVE  (IF j \in {1} THEN base[j] ELSE TakenStep(doc, f[next[j]], j))
                   = (j > 1 /\ doc[j - 1].kind \in {"skip", "list-of-records"} /\ ~ f[j - 1])
      <4>1. CASE j = 1
        <5>1. ~ (j > 1) /\ base[j] = FALSE /\ j \in {1}
          BY <4>1
        <5> QED
          BY ONLY <5>1, Zenon
      <4>2. CASE j # 1
        <5>1. j > 1 /\ next[j] = j - 1
          BY <1>1, <4>2
        <5> QED
          BY <4>2, <5>1 DEF TakenStep, Comments
      <4> QED
        BY <4>1, <4>2
    <3> HIDE DEF D, base, next
    <3> QED
      BY <3>1, <3>2
  <2> HIDE DEF P
  <2> QED
    BY <2>4
<1>3. TakenAway(doc) = {j \in D : taken[j]}
  BY DEF TakenAway
<1> HIDE DEF taken
<1>4. taken[i] <=> i > 1 /\ doc[i - 1].kind \in Comments /\ ~ taken[i - 1]
  BY <1>2 DEF Comments
<1>5. i > 1 => i - 1 \in D
  BY <1>1
<1> QED
  BY <1>3, <1>4, <1>5

LEMMA PlacesAre ==
  ASSUME NEW doc \in Documents
  PROVE  /\ Places(DefinitionPlaces(doc)) /\ Places(RowPlaces(doc))
         /\ \A i, k : <<i, k>> \in DefinitionPlaces(doc) <=>
              i \in Live(doc, "code") /\ doc[i].lang = "python" /\ k \in 1..Len(doc[i].defs)
         /\ \A i, k : <<i, k>> \in RowPlaces(doc) <=>
              i \in Live(doc, "table") /\ k \in 1..Len(doc[i].rows)
<1>1. /\ DOMAIN doc = 1..Len(doc) /\ Len(doc) \in Nat
      /\ \A i \in Live(doc, "code") : i \in DOMAIN doc /\ doc[i].kind = "code"
      /\ \A i \in Live(doc, "table") : i \in DOMAIN doc /\ doc[i].kind = "table"
  BY DocumentIs DEF Live
<1>2. /\ \A i \in Live(doc, "code") : Len(doc[i].defs) \in Nat /\ DOMAIN doc[i].defs = 1..Len(doc[i].defs)
      /\ \A i \in Live(doc, "table") : Len(doc[i].rows) \in Nat /\ DOMAIN doc[i].rows = 1..Len(doc[i].rows)
  BY <1>1, DocumentIs
<1>3. \A p : p \in DefinitionPlaces(doc) <=>
        \E i \in Live(doc, "code") : \E k \in 1..Len(doc[i].defs) : p = <<i, k>> /\ doc[i].lang = "python"
  BY <1>2 DEF DefinitionPlaces
<1>4. \A p : p \in RowPlaces(doc) <=>
        \E i \in Live(doc, "table") : \E k \in 1..Len(doc[i].rows) : p = <<i, k>>
  BY <1>2 DEF RowPlaces
<1>5. Places(DefinitionPlaces(doc))
  BY <1>1, <1>2, <1>3 DEF Places
<1>6. Places(RowPlaces(doc))
  BY <1>1, <1>2, <1>4 DEF Places
<1> QED
  BY <1>3, <1>4, <1>5, <1>6

(* Reading on, place by place and element by element.                      *)
LEMMA UptoIs ==
  ASSUME NEW places, Places(places), NEW i \in Nat
  PROVE  /\ \A n \in Nat \ {0} : <<i, n>> \in places =>
              /\ Upto(places, i, n) = Upto(places, i, n - 1) \cup {<<i, n>>}
              /\ \A q \in Upto(places, i, n - 1) : Before(q, <<i, n>>)
         /\ \A n \in Nat : (\A p \in places : p[1] = i => p[2] <= n) =>
              Upto(places, i + 1, 0) = Upto(places, i, n)
<1>1. ASSUME NEW n \in Nat \ {0}, <<i, n>> \in places
      PROVE  /\ Upto(places, i, n) = Upto(places, i, n - 1) \cup {<<i, n>>}
             /\ \A q \in Upto(places, i, n - 1) : Before(q, <<i, n>>)
  <2>1. ASSUME NEW p \in places
        PROVE  p \in Upto(places, i, n) <=> p \in Upto(places, i, n - 1) \/ p = <<i, n>>
    <3>1. p = <<p[1], p[2]>> /\ p[1] \in Nat /\ p[2] \in Nat
      BY DEF Places
    <3>2. p = <<i, n>> <=> p[1] = i /\ p[2] = n
      BY <3>1
    <3>3. p[2] <= n <=> p[2] <= n - 1 \/ p[2] = n
      BY <3>1
    <3> QED
      BY <3>1, <3>2, <3>3 DEF Upto
  <2>2. ASSUME NEW q \in Upto(places, i, n - 1) PROVE Before(q, <<i, n>>)
    <3>1. q[1] \in Nat /\ q[2] \in Nat
      BY DEF Upto, Places
    <3> QED
      BY <3>1 DEF Upto, Before
  <2> QED
    BY <1>1, <2>1, <2>2 DEF Upto
<1>2. ASSUME NEW n \in Nat, \A p \in places : p[1] = i => p[2] <= n
      PROVE  Upto(places, i + 1, 0) = Upto(places, i, n)
  <2>1. ASSUME NEW p \in places
        PROVE  p \in Upto(places, i + 1, 0) <=> p \in Upto(places, i, n)
    <3>1. p[1] \in Nat /\ p[2] \in Nat /\ p[2] > 0 /\ (p[1] = i => p[2] <= n)
      BY <1>2 DEF Places
    <3> QED
      BY <3>1 DEF Upto
  <2> QED
    BY <2>1 DEF Upto
<1> QED
  BY <1>1, <1>2

-----------------------------------------------------------------------------
(* What a code block adds. *)

(* One more definition is read: the last so far.                           *)
LEMMA CodeReadMore ==
  ASSUME NEW doc, NEW P, NEW d, Dict(d), NEW section, CodeRead(doc, P, d, section),
         NEW p, \A q \in P : Before(q, p), NEW e,
         LET def == DefinitionAt(doc, p)
         IN e = IF SectionOf(def) = section
                THEN Put(d, def.name, Definition(def.text, def.mentions)) ELSE d
  PROVE  CodeRead(doc, P \cup {p}, e, section)
<1> DEFINE def == DefinitionAt(doc, p)
           Q == P \cup {p}
           I == In(doc, P, section)
           J == In(doc, Q, section)
<1>1. CASE SectionOf(def) # section
  <2>1. J = I /\ e = d
    BY <1>1 DEF In
  <2> QED
    BY <2>1 DEF CodeRead
<1>2. CASE SectionOf(def) = section
  <2>1. J = I \cup {p} /\ e = Put(d, def.name, Definition(def.text, def.mentions))
    BY <1>2 DEF In
  <2>2. \A q \in I : Before(q, p)
    BY DEF In
  <2> DEFINE entry == Definition(def.text, def.mentions)
  <2>3. entry.text = def.text
    BY DEF Definition
  <2> HIDE DEF def, I, J, entry
  <2>4. /\ Keys(e) = Keys(d) \cup {def.name} /\ Get(e, def.name) = entry
        /\ \A k \in Keys(d) : k # def.name => Get(e, k) = Get(d, k)
    BY <2>1, PutIs DEF entry
  <2>5. /\ Keys(d) = {DefinitionAt(doc, q).name : q \in I}
        /\ \A q \in I : \/ Get(d, DefinitionAt(doc, q).name).text = DefinitionAt(doc, q).text
                        \/ \E z \in I : Before(q, z) /\ DefinitionAt(doc, z).name = DefinitionAt(doc, q).name
    BY DEF CodeRead, I
  <2>6. Keys(e) = {DefinitionAt(doc, q).name : q \in J}
    BY <2>1, <2>4, <2>5 DEF def
  <2>7. ASSUME NEW q \in J
        PROVE  \/ Get(e, DefinitionAt(doc, q).name).text = DefinitionAt(doc, q).text
               \/ \E z \in J : Before(q, z) /\ DefinitionAt(doc, z).name = DefinitionAt(doc, q).name
    <3>1. CASE q = p
      BY <2>3, <2>4, <3>1 DEF def
    <3>2. CASE q \in I /\ DefinitionAt(doc, q).name = def.name
      BY <2>1, <2>2, <3>2 DEF def
    <3>3. CASE q \in I /\ DefinitionAt(doc, q).name # def.name
      <4>1. DefinitionAt(doc, q).name \in Keys(d)
        BY <2>5, <3>3
      <4> QED
        BY <2>1, <2>4, <2>5, <3>3, <4>1
    <3> QED
      BY <2>1, <3>1, <3>2, <3>3
  <2>8. From(e, {DefinitionAt(doc, q) : q \in J})
    <3> DEFINE E == {DefinitionAt(doc, q) : q \in I}
    <3>1. From(d, E)
      BY DEF CodeRead, I
    <3>2. {DefinitionAt(doc, q) : q \in J} = E \cup {def}
      BY <2>1 DEF def
    <3> HIDE DEF E
    <3>3. From(e, E \cup {def})
      <4>1. From(Put(d, def.name, Definition(def.text, def.mentions)), E \cup {def})
        BY <3>1, FromMore
      <4> QED
        BY <2>1, <4>1 DEF entry
    <3> QED
      BY <3>2, <3>3
  <2> QED
    BY <2>6, <2>7, <2>8 DEF CodeRead, J
<1> QED
  BY <1>1, <1>2

(* A definition of a code block under the heading that is in force.        *)
LEMMA ProgressMore ==
  ASSUME NEW doc \in Documents, NEW i \in Live(doc, "code"), NEW k \in 1..Len(doc[i].defs),
         NEW heading, HeadingIs(doc, i, heading),
         NEW P, \A q \in P : Before(q, <<i, k>>),
         NEW r, Result(r), r.ok, Progress(doc, P, r.spec),
         NEW t, DefinitionRead(r, t, doc[i].defs[k], heading), t.ok
  PROVE  Progress(doc, P \cup {<<i, k>>}, t.spec)
<1> DEFINE p == <<i, k>>
           def == doc[i].defs[k]
           Q == P \cup {p}
<1>1. DefinitionAt(doc, p) = def /\ p[1] = i
  BY DEF DefinitionAt
<1>2. /\ i \in DOMAIN doc /\ doc[i].kind = "code" /\ i \in Nat
      /\ def.name # NoName
      /\ \A g \in Live(doc, "heading") : g \in Nat /\ g # i
  BY DocumentIs DEF Live
<1>3. ASSUME NEW section \in CodeSections
      PROVE  CodeRead(doc, Q, t.spec[section], section)
  <2> DEFINE d == r.spec[section]
             e == t.spec[section]
  <2>1. Dict(d) /\ CodeRead(doc, P, d, section)
    BY DEF Result, CodeSections, Sections, Progress
  <2>2. e = IF SectionOf(def) = section
            THEN Put(d, def.name, Definition(def.text, def.mentions)) ELSE d
    BY DEF DefinitionRead, Same
  <2> HIDE DEF p, def, d, e, Q
  <2>3. \A q \in P : Before(q, p)
    BY DEF p
  <2>4. CodeRead(doc, P \cup {p}, e, section)
    BY <1>1, <2>1, <2>2, <2>3, CodeReadMore
  <2> QED
    BY <2>4 DEF e, Q
<1>4. ASSUME NEW q \in In(doc, Q, "ssz_objects") PROVE UnderHeading(doc, q)
  <2>1. CASE q \in P
    <3>1. q \in In(doc, P, "ssz_objects")
      BY <1>4, <2>1 DEF In
    <3> QED
      BY <3>1 DEF Progress
  <2>2. CASE q = p
    <3>1. heading = def.name
      BY <1>1, <1>4, <2>2 DEF In, DefinitionRead
    <3>2. PICK h \in Live(doc, "heading") :
            /\ h < i /\ doc[h].name = heading
            /\ \A g \in Live(doc, "heading") : g <= h \/ i <= g
      BY <1>2, <3>1 DEF HeadingIs
    <3>3. \A g \in Live(doc, "heading") : g <= h \/ i < g
      BY <1>2, <3>2
    <3> HIDE DEF p, def
    <3> QED
      BY <1>1, <2>2, <3>1, <3>2, <3>3 DEF UnderHeading
  <2> QED
    BY <1>4, <2>1, <2>2 DEF In
<1>5. SectionOf(def) \in CodeSections \cup {"protocols"}
  BY DEF DefinitionRead
<1>6. ASSUME NEW q \in Q PROVE SectionOf(DefinitionAt(doc, q)) \in CodeSections \cup {"protocols"}
  BY <1>1, <1>5 DEF Progress
<1> QED
  BY <1>3, <1>4, <1>6 DEF Progress

DefinitionStep(heading, r, def) == ProcessDefinition(r, def, heading)
ReadingCode == INSTANCE FoldOf WITH op <- DefinitionStep

LEMMA ReadingCodeInducts == ReadingCode!NatInduction
BY NatSetInduction DEF ReadingCode!NatInduction

(* All the definitions of a code block.                                    *)
LEMMA CodeBlockIs ==
  ASSUME NEW doc \in Documents, NEW i \in Live(doc, "code"),
         NEW heading, HeadingIs(doc, i, heading),
         NEW r, Result(r), r.ok,
         Progress(doc, Upto(DefinitionPlaces(doc), i, 0), r.spec)
  PROVE  LET t == _process_code_block(r, doc[i], heading)
         IN /\ Result(t) /\ t.types = r.types
            /\ \A s \in Sections \ (CodeSections \cup {"protocols"}) : Same(r, t, s)
            /\ t.ok => Progress(doc, Upto(DefinitionPlaces(doc), i + 1, 0), t.spec)
<1> DEFINE t == _process_code_block(r, doc[i], heading)
           places == DefinitionPlaces(doc)
           Outside == Sections \ (CodeSections \cup {"protocols"})
           defs == doc[i].defs
           N == Len(defs)
           P(n) == Upto(places, i, n)
<1>1. /\ i \in DOMAIN doc /\ doc[i].kind = "code" /\ i \in Nat
      /\ N \in Nat /\ DOMAIN defs = 1..N
  BY DocumentIs DEF Live
<1>2. /\ Places(places)
      /\ \A k : <<i, k>> \in places <=> doc[i].lang = "python" /\ k \in 1..N
  BY PlacesAre
<1>3. \A p \in places : p[1] = i => p = <<i, p[2]>>
  BY <1>2 DEF Places
<1>4. CASE doc[i].lang # "python"
  <2>1. t = r
    BY <1>4 DEF _process_code_block
  <2>2. \A p \in places : p[1] = i => p[2] <= 0
    BY <1>2, <1>3, <1>4
  <2>3. Upto(places, i + 1, 0) = Upto(places, i, 0)
    <3> HIDE DEF places
    <3> QED
      BY <1>1, <1>2, <2>2, UptoIs
  <2> HIDE DEF t, places
  <2> QED
    BY <2>1, <2>3 DEF Same, t, places
<1>5. CASE doc[i].lang = "python"
  <2>2. t = ReadingCode!TheFold(heading, r, defs, N)[1..N]
    BY <1>1, <1>5 DEF _process_code_block, FoldLeft, MapThenFoldSet, Max,
       ReadingCode!TheFold, ReadingCode!Fold, ReadingCode!Largest, DefinitionStep
  <2> HIDE DEF t, N, defs, places
  <2>3. PICK h : /\ ReadingCode!Course(heading, r, defs, N, h)
                 /\ h[N] = ReadingCode!TheFold(heading, r, defs, N)[1..N]
    BY <1>1, ReadingCode!FoldHasCourse, ReadingCodeInducts
  <2>4. /\ h[0] = r /\ \A n \in 1..N : h[n] = ProcessDefinition(h[n - 1], defs[n], heading)
        /\ t = h[N]
    BY <2>2, <2>3 DEF ReadingCode!Course, DefinitionStep
  <2> DEFINE Good(n) == /\ Result(h[n]) /\ h[n].types = r.types
                        /\ \A s \in Outside : Same(r, h[n], s)
                        /\ h[n].ok => Progress(doc, P(n), h[n].spec)
             S == {n \in 0..N : Good(n)}
  <2>5. 0 \in S
    BY <1>1, <2>4 DEF Same, places
  <2>6. ASSUME NEW n \in 1..N, n - 1 \in S PROVE n \in S
    <3> DEFINE u == h[n - 1]
               v == h[n]
    <3>1. Result(u) /\ u.types = r.types /\ \A s \in Outside : Same(r, u, s)
      BY <2>6
    <3>2. DefinitionRead(u, v, defs[n], heading)
      BY <2>4, <3>1, ProcessDefinitionIs
    <3>3. Result(v) /\ v.types = r.types /\ \A s \in Outside : Same(r, v, s)
      BY <3>1, <3>2 DEF DefinitionRead, Same
    <3>4. ASSUME v.ok PROVE Progress(doc, P(n), v.spec)
      <4>1. u.ok
        BY <3>2, <3>4 DEF DefinitionRead
      <4>2. Progress(doc, P(n - 1), u.spec)
        BY <2>6, <4>1
      <4>3. n \in Nat \ {0} /\ <<i, n>> \in places
        BY <1>1, <1>2, <1>5
      <4>4. P(n) = P(n - 1) \cup {<<i, n>>} /\ \A q \in P(n - 1) : Before(q, <<i, n>>)
        BY <1>1, <1>2, <4>3, UptoIs
      <4> HIDE DEF P, u, v
      <4>5. n \in 1..Len(doc[i].defs) /\ defs[n] = doc[i].defs[n]
        BY DEF N, defs
      <4>6. Progress(doc, P(n - 1) \cup {<<i, n>>}, v.spec)
        BY <3>1, <3>2, <3>4, <4>1, <4>2, <4>4, <4>5, ProgressMore
      <4> QED
        BY <4>4, <4>6
    <3> HIDE DEF P
    <3> QED
      BY <3>3, <3>4
  <2> HIDE DEF S
  <2>7. 0..N \subseteq S
    BY <1>1, <2>5, <2>6, UpTo
  <2>8. Good(N)
    <3>1. N \in S
      BY <1>1, <2>7
    <3> HIDE DEF Good
    <3> QED
      BY <3>1 DEF S
  <2>9. Upto(places, i + 1, 0) = P(N)
    <3>1. \A p \in places : p[1] = i => p[2] <= N
      BY <1>1, <1>2, <1>3
    <3> QED
      BY <1>1, <1>2, <3>1, UptoIs
  <2> QED
    BY <2>4, <2>8, <2>9 DEF t, places
<1> QED
  BY <1>4, <1>5

-----------------------------------------------------------------------------
(* What a table adds. *)

LEMMA RowsKeptMore ==
  ASSUME NEW E, NEW r, Result(r), RowsKept(E, r.spec, r.types),
         NEW t, NEW row, Filed(r, t, row)
  PROVE  RowsKept(IF Declares(row) THEN E \cup {row} ELSE E, t.spec, t.types)
<1> DEFINE def == Definition(row.text, row.mentions)
           plain == r.spec["constant_vars"]
           dependent == r.spec["preset_dep_constant_vars"]
           more == E \cup {row}
<1>1. Dict(plain) /\ Dict(dependent) /\ Dict(r.types)
  BY DEF Result, Sections
<1>2. /\ From(plain, E) /\ From(dependent, E) /\ From(r.types, E)
      /\ \A e \in E : e.name \in Keys(plain) \cup Keys(dependent) \cup Keys(r.types)
  BY DEF RowsKept
<1>3. \A d : From(d, E) => From(d, more)
  BY DEF From
<1>4. \A d : Dict(d) /\ From(d, E) =>
        From(Put(d, row.name, def), more) /\ Keys(Put(d, row.name, def)) = Keys(d) \cup {row.name}
  <2> HIDE DEF more
  <2> SUFFICES ASSUME NEW d, Dict(d), From(d, E)
               PROVE  /\ From(Put(d, row.name, def), more)
                      /\ Keys(Put(d, row.name, def)) = Keys(d) \cup {row.name}
    OBVIOUS
  <2>1. From(Put(d, row.name, Definition(row.text, row.mentions)), E \cup {row})
    BY FromMore
  <2>2. Keys(Put(d, row.name, def)) = Keys(d) \cup {row.name}
    <3> HIDE DEF def
    <3> QED
      BY PutIs
  <2> QED
    BY <2>1, <2>2 DEF more
<1>5. \A e \in more : e \in E \/ e = row
  OBVIOUS
<1> HIDE DEF def, plain, dependent, more
<1>6. \/ /\ ~ Declares(row)
         /\ t.types = r.types
         /\ t.spec["constant_vars"] = plain /\ t.spec["preset_dep_constant_vars"] = dependent
      \/ /\ Declares(row)
         /\ t.types = Put(r.types, row.name, def)
         /\ t.spec["constant_vars"] = plain /\ t.spec["preset_dep_constant_vars"] = dependent
      \/ /\ Declares(row)
         /\ t.types = r.types
         /\ t.spec["constant_vars"] = Put(plain, row.name, def) /\ t.spec["preset_dep_constant_vars"] = dependent
      \/ /\ Declares(row)
         /\ t.types = r.types
         /\ t.spec["constant_vars"] = plain /\ t.spec["preset_dep_constant_vars"] = Put(dependent, row.name, def)
  BY DEF Filed, Same, def, plain, dependent
<1>7. CASE ~ Declares(row)
  BY <1>2, <1>6, <1>7 DEF RowsKept
<1>8. CASE Declares(row)
  <2>1. RowsKept(more, t.spec, t.types)
    BY <1>1, <1>2, <1>3, <1>4, <1>5, <1>6, <1>8 DEF RowsKept
  <2> QED
    BY <1>8, <2>1 DEF more
<1> QED
  BY <1>7, <1>8

(* One more row is read: the last so far.                                  *)
LEMMA RowsReadMore ==
  ASSUME NEW doc \in Documents, NEW P \in SUBSET RowPlaces(doc), NEW p \in RowPlaces(doc),
         \A q \in P : Before(q, p),
         NEW r, Result(r), r.ok, RowsRead(doc, P, r.spec, r.types),
         NEW t, RowRead(r, t, RowAt(doc, p)), t.ok
  PROVE  RowsRead(doc, P \cup {p}, t.spec, t.types)
<1> DEFINE row == RowAt(doc, p)
           entry == Definition(row.text, row.mentions)
           plain == r.spec["constant_vars"]
           dependent == r.spec["preset_dep_constant_vars"]
           Plain == t.spec["constant_vars"]
           Dependent == t.spec["preset_dep_constant_vars"]
           Q == P \cup {p}
<1>1. Dict(plain) /\ Dict(dependent)
  BY DEF Result, Sections
<1>2. entry.mentions = row.mentions
  BY DEF Definition
<1>3. /\ \A n \in Keys(dependent) : \E q \in P : RowAt(doc, q).name = n
      /\ \A n \in Keys(plain) : \E q \in P : Get(plain, n).mentions = RowAt(doc, q).mentions
      /\ \A n \in Keys(plain) : Get(plain, n).mentions \cap Preset = {}
      /\ InOrder(doc) => \A n \in Keys(plain) : Get(plain, n).mentions \cap Keys(dependent) = {}
  BY DEF RowsRead
<1>4. \/ Plain = plain /\ Dependent = dependent
      \/ /\ row.mentions \cap (Preset \cup Keys(dependent)) = {}
         /\ Plain = Put(plain, row.name, entry) /\ Dependent = dependent
      \/ Plain = plain /\ Dependent = Put(dependent, row.name, entry)
  <2>1. Filed(r, t, row)
    BY DEF RowRead
  <2> QED
    BY <2>1 DEF Filed, Same, DependsOnPreset
<1>5. ASSUME NEW q \in P, InOrder(doc) PROVE row.name \notin RowAt(doc, q).mentions
  <2>1. Before(q, p) /\ q \in RowPlaces(doc)
    OBVIOUS
  <2>2. p[1] \in Nat /\ p[2] \in Nat /\ q[1] \in Nat /\ q[2] \in Nat
    BY <2>1, PlacesAre DEF Places
  <2>3. ~ Before(p, q)
    BY <2>1, <2>2 DEF Before
  <2> QED
    BY <1>5, <2>1, <2>3 DEF InOrder
<1>0. RowsKept(Entries(doc, Q), t.spec, t.types)
  <2>1. RowsKept(Entries(doc, P), r.spec, r.types)
    BY DEF RowsRead
  <2>2. Entries(doc, Q) = IF Declares(row) THEN Entries(doc, P) \cup {row} ELSE Entries(doc, P)
    BY DEF Entries
  <2>3. Filed(r, t, row)
    BY DEF RowRead
  <2> HIDE DEF row, Q
  <2> QED
    BY <2>1, <2>2, <2>3, RowsKeptMore
<1> SUFFICES /\ \A n \in Keys(Dependent) : \E q \in Q : RowAt(doc, q).name = n
             /\ \A n \in Keys(Plain) : \E q \in Q : Get(Plain, n).mentions = RowAt(doc, q).mentions
             /\ \A n \in Keys(Plain) : Get(Plain, n).mentions \cap Preset = {}
             /\ InOrder(doc) => \A n \in Keys(Plain) : Get(Plain, n).mentions \cap Keys(Dependent) = {}
  BY <1>0 DEF RowsRead
<1>6. p \in Q /\ P \subseteq Q /\ RowAt(doc, p) = row
  OBVIOUS
<1> HIDE DEF row, entry, plain, dependent, Plain, Dependent, Q
<1>7. CASE Plain = plain /\ Dependent = dependent
  BY <1>3, <1>6, <1>7
<1>8. CASE /\ row.mentions \cap (Preset \cup Keys(dependent)) = {}
           /\ Plain = Put(plain, row.name, entry) /\ Dependent = dependent
  <2>1. /\ Keys(Plain) = Keys(plain) \cup {row.name} /\ Get(Plain, row.name) = entry
        /\ \A n \in Keys(plain) : n # row.name => Get(Plain, n) = Get(plain, n)
    BY <1>1, <1>8, PutIs
  <2>2. \A n \in Keys(Plain) : n = row.name \/ (n \in Keys(plain) /\ Get(Plain, n) = Get(plain, n))
    BY <2>1
  <2>3. Get(Plain, row.name).mentions = row.mentions
    BY <1>2, <2>1
  <2> QED
    BY <1>3, <1>6, <1>8, <2>2, <2>3
<1>9. CASE Plain = plain /\ Dependent = Put(dependent, row.name, entry)
  <2>1. Keys(Dependent) = Keys(dependent) \cup {row.name}
    BY <1>1, <1>9, PutIs
  <2>2. ASSUME InOrder(doc), NEW n \in Keys(plain) PROVE row.name \notin Get(plain, n).mentions
    <3>1. PICK q \in P : Get(plain, n).mentions = RowAt(doc, q).mentions
      BY <1>3
    <3> QED
      BY <1>5, <2>2, <3>1
  <2> QED
    BY <1>3, <1>6, <1>9, <2>1, <2>2
<1> QED
  BY <1>4, <1>7, <1>8, <1>9

RowStep(none, r, row) == ProcessRow(r, row)
ReadingRows == INSTANCE FoldOf WITH op <- RowStep

LEMMA ReadingRowsInducts == ReadingRows!NatInduction
BY NatSetInduction DEF ReadingRows!NatInduction

(* All the rows of a table.                                                *)
LEMMA TableIs ==
  ASSUME NEW doc \in Documents, NEW i \in Live(doc, "table"),
         NEW r, Result(r), r.ok,
         RowsRead(doc, Upto(RowPlaces(doc), i, 0), r.spec, r.types)
  PROVE  LET t == _process_table(r, doc[i])
         IN /\ Result(t)
            /\ \A s \in CodeSections \cup {"protocols"} : Same(r, t, s)
            /\ t.ok => RowsRead(doc, Upto(RowPlaces(doc), i + 1, 0), t.spec, t.types)
<1> DEFINE t == _process_table(r, doc[i])
           places == RowPlaces(doc)
           rows == doc[i].rows
           N == Len(rows)
           P(n) == Upto(places, i, n)
<1>1. /\ i \in DOMAIN doc /\ doc[i].kind = "table" /\ i \in Nat
      /\ N \in Nat /\ DOMAIN rows = 1..N
  BY DocumentIs DEF Live
<1>2. /\ Places(places)
      /\ \A k : <<i, k>> \in places <=> k \in 1..N
  BY PlacesAre
<1>3. \A p \in places : p[1] = i => p = <<i, p[2]>>
  BY <1>2 DEF Places
<1>4. t = ReadingRows!TheFold(0, r, rows, N)[1..N]
  BY <1>1 DEF _process_table, FoldLeft, MapThenFoldSet, Max,
     ReadingRows!TheFold, ReadingRows!Fold, ReadingRows!Largest, RowStep
<1> HIDE DEF t, N, places
<1>5. PICK h : /\ ReadingRows!Course(0, r, rows, N, h)
               /\ h[N] = ReadingRows!TheFold(0, r, rows, N)[1..N]
  <2> HIDE DEF rows
  <2> QED
    BY <1>1, ReadingRows!FoldHasCourse, ReadingRowsInducts
<1>6. /\ h[0] = r /\ \A n \in 1..N : h[n] = ProcessRow(h[n - 1], RowAt(doc, <<i, n>>))
      /\ t = h[N]
  BY <1>4, <1>5 DEF ReadingRows!Course, RowStep, RowAt
<1> HIDE DEF rows
<1> DEFINE Good(n) == /\ Result(h[n])
                      /\ \A s \in CodeSections \cup {"protocols"} : Same(r, h[n], s)
                      /\ h[n].ok => RowsRead(doc, P(n), h[n].spec, h[n].types)
           S == {n \in 0..N : Good(n)}
<1>7. 0 \in S
  BY <1>1, <1>6 DEF Same, places
<1>8. ASSUME NEW n \in 1..N, n - 1 \in S PROVE n \in S
  <2> DEFINE u == h[n - 1]
             v == h[n]
             p == <<i, n>>
  <2>1. Result(u) /\ \A s \in CodeSections \cup {"protocols"} : Same(r, u, s)
    BY <1>8
  <2>2. RowRead(u, v, RowAt(doc, p))
    BY <1>6, <2>1, ProcessRowIs
  <2>3. Result(v) /\ \A s \in CodeSections \cup {"protocols"} : Same(r, v, s)
    BY <2>1, <2>2 DEF RowRead, Same
  <2>4. ASSUME v.ok PROVE RowsRead(doc, P(n), v.spec, v.types)
    <3>1. u.ok
      BY <2>2, <2>4 DEF RowRead
    <3>2. RowsRead(doc, P(n - 1), u.spec, u.types)
      BY <1>8, <3>1
    <3>3. n \in Nat \ {0} /\ p \in places
      BY <1>1, <1>2
    <3>4. P(n) = P(n - 1) \cup {p} /\ \A q \in P(n - 1) : Before(q, p)
      BY <1>1, <1>2, <3>3, UptoIs
    <3>5. P(n - 1) \subseteq RowPlaces(doc) /\ p \in RowPlaces(doc)
      BY <3>3 DEF Upto, places
    <3> HIDE DEF P, u, v, p
    <3>6. RowsRead(doc, P(n - 1) \cup {p}, v.spec, v.types)
      BY <2>1, <2>2, <2>4, <3>1, <3>2, <3>4, <3>5, RowsReadMore
    <3> QED
      BY <3>4, <3>6
  <2> HIDE DEF P
  <2> QED
    BY <2>3, <2>4
<1> HIDE DEF S
<1>9. 0..N \subseteq S
  BY <1>1, <1>7, <1>8, UpTo
<1>10. Good(N)
  <2>1. N \in S
    BY <1>1, <1>9
  <2> HIDE DEF Good
  <2> QED
    BY <2>1 DEF S
<1>11. Upto(places, i + 1, 0) = P(N)
  <2>1. \A p \in places : p[1] = i => p[2] <= N
    BY <1>1, <1>2, <1>3
  <2> QED
    BY <1>1, <1>2, <2>1, UptoIs
<1> QED
  BY <1>6, <1>10, <1>11 DEF t, places

(* A list of records becomes a config variable.                            *)
LEMMA ListOfRecordsIs ==
  ASSUME NEW r, Result(r), NEW table, NEW name
  PROVE  LET t == _process_list_of_records_table(r, table, name)
         IN /\ Result(t) /\ t.types = r.types
            /\ \A s \in PassedSections : Same(r, t, s)
<1> DEFINE t == _process_list_of_records_table(r, table, name)
           def == Definition(Yaml[name], table.types)
<1>1. PassedSections \subseteq Sections \ {"config_vars"} /\ "config_vars" \in Sections
  BY DEF PassedSections, CodeSections, Sections
<1>2. t = Raise(r) \/ t = Store(r, "config_vars", name, def)
  BY DEF _process_list_of_records_table
<1> HIDE DEF t, def
<1>3. CASE t = Raise(r)
  <2>1. Result(t) /\ t.spec = r.spec /\ t.types = r.types
    BY <1>3, RaiseIs
  <2> QED
    BY <2>1 DEF Same, t
<1>4. CASE t = Store(r, "config_vars", name, def)
  <2>1. Result(t) /\ t.types = r.types /\ \A s \in Sections \ {"config_vars"} : Same(r, t, s)
    BY <1>1, <1>4, StoreIs
  <2> QED
    BY <1>1, <2>1 DEF t
<1> QED
  BY <1>2, <1>3, <1>4

-----------------------------------------------------------------------------
(* What is done at the end of a document. *)

(* The entries of a dictionary with certain names are some of its entries. *)
LEMMA RestrictedIs ==
  ASSUME NEW d, Dict(d), NEW names
  PROVE  LET e == Restricted(d, names)
         IN /\ Dict(e)
            /\ \A i \in DOMAIN e : \E j \in DOMAIN d : e[i] = d[j] /\ d[j].name \in names
            /\ Keys(e) = Keys(d) \cap names
            /\ \A n \in Keys(e) : Get(e, n) = Get(d, n)
<1> DEFINE e == Restricted(d, names)
           N == Len(d)
<1>1. N \in Nat /\ DOMAIN d = 1..N
  BY DictIs
<1>2. e = Restricting!TheFold(names, <<>>, d, N)[1..N]
  BY <1>1 DEF Restricted, FoldLeft, MapThenFoldSet, Max,
     Restricting!TheFold, Restricting!Fold, Restricting!Largest, RestrictStep
<1> HIDE DEF e, N
<1>3. PICK h : /\ Restricting!Course(names, <<>>, d, N, h)
               /\ h[N] = Restricting!TheFold(names, <<>>, d, N)[1..N]
  BY <1>1, Restricting!FoldHasCourse, RestrictingInducts
<1>4. /\ h[0] = <<>>
      /\ \A n \in 1..N : h[n] = IF d[n].name \in names THEN Append(h[n - 1], d[n]) ELSE h[n - 1]
      /\ e = h[N]
  BY <1>2, <1>3 DEF Restricting!Course, RestrictStep
<1> DEFINE Good(n) == /\ Dict(h[n])
                      /\ \A i \in DOMAIN h[n] : \E j \in 1..n : h[n][i] = d[j] /\ d[j].name \in names
                      /\ \A j \in 1..n : d[j].name \in names => \E i \in DOMAIN h[n] : h[n][i] = d[j]
           S == {n \in 0..N : Good(n)}
<1>5. 0 \in S
  <2>1. Dict(h[0]) /\ DOMAIN h[0] = {}
    BY <1>4, EmptyDict
  <2> QED
    BY <1>1, <2>1
<1>6. ASSUME NEW n \in 1..N, n - 1 \in S PROVE n \in S
  <2> DEFINE u == h[n - 1]
             L == Len(u)
             v == h[n]
  <2>1. /\ Dict(u) /\ L \in Nat /\ DOMAIN u = 1..L /\ u = [i \in 1..L |-> u[i]]
        /\ \A i \in 1..L : \E j \in 1..(n - 1) : u[i] = d[j] /\ d[j].name \in names
        /\ \A j \in 1..(n - 1) : d[j].name \in names => \E i \in 1..L : u[i] = d[j]
    <3>1. /\ Dict(u)
          /\ \A i \in DOMAIN u : \E j \in 1..(n - 1) : u[i] = d[j] /\ d[j].name \in names
          /\ \A j \in 1..(n - 1) : d[j].name \in names => \E i \in DOMAIN u : u[i] = d[j]
      BY <1>6
    <3> HIDE DEF u
    <3>2. L \in Nat /\ DOMAIN u = 1..L /\ u = [i \in 1..L |-> u[i]]
      BY <3>1, DictIs
    <3> QED
      BY <3>1, <3>2
  <2>2. CASE d[n].name \notin names
    <3>1. v = u
      BY <1>4, <2>2
    <3>2. \A j \in 1..n : j \in 1..(n - 1) \/ j = n
      BY <1>1
    <3>3. \A j \in 1..(n - 1) : j \in 1..n
      BY <1>1
    <3> HIDE DEF u, v
    <3>4. n \in 0..N
      BY <1>1
    <3>5. \A i \in DOMAIN v : \E j \in 1..n : v[i] = d[j] /\ d[j].name \in names
      BY <2>1, <3>1, <3>3
    <3>6. \A j \in 1..n : d[j].name \in names => \E i \in DOMAIN v : v[i] = d[j]
      BY <2>1, <2>2, <3>1, <3>2
    <3>7. Good(n)
      BY <2>1, <3>1, <3>5, <3>6 DEF v
    <3> QED
      BY <3>4, <3>7
  <2>3. CASE d[n].name \in names
    <3>1. v = Append(u, d[n])
      BY <1>4, <2>3
    <3> HIDE DEF u, L, v
    <3>2. v = [i \in 1..(L + 1) |-> IF i = L + 1 THEN d[n] ELSE u[i]]
      BY <2>1, <3>1 DEF L
    <3>3. /\ v = [i \in 1..(L + 1) |-> v[i]] /\ L + 1 \in Nat
          /\ \A i \in 1..(L + 1) : v[i] = IF i = L + 1 THEN d[n] ELSE u[i]
      BY <2>1, <3>2
    <3>4. ASSUME NEW i \in 1..L PROVE u[i].name # d[n].name
      <4>1. PICK j \in 1..(n - 1) : u[i] = d[j]
        BY <2>1
      <4>2. j \in DOMAIN d /\ n \in DOMAIN d /\ j # n
        BY <1>1
      <4> QED
        BY <4>1, <4>2 DEF Dict, NamedOnce
    <3>5. \A i, j \in 1..L : u[i].name = u[j].name => i = j
      BY <2>1 DEF Dict, NamedOnce
    <3>6. \A i \in 1..(L + 1) : i = L + 1 \/ i \in 1..L
      BY <2>1
    <3>7. \A i, j \in 1..(L + 1) : v[i].name = v[j].name => i = j
      BY <3>3, <3>4, <3>5, <3>6
    <3>8. Dict(v) /\ DOMAIN v = 1..(L + 1)
      BY <3>3, <3>7, DictOf
    <3>9. ASSUME NEW i \in 1..(L + 1) PROVE \E j \in 1..n : v[i] = d[j] /\ d[j].name \in names
      <4>1. CASE i = L + 1
        BY <1>1, <2>3, <3>3, <4>1
      <4>2. CASE i # L + 1
        <5>1. PICK j \in 1..(n - 1) : u[i] = d[j] /\ d[j].name \in names
          BY <2>1, <3>6, <4>2
        <5>2. j \in 1..n /\ v[i] = d[j]
          BY <1>1, <3>3, <4>2, <5>1
        <5> QED
          BY <5>1, <5>2
      <4> QED
        BY <4>1, <4>2
    <3>10. n \in 0..N
      BY <1>1
    <3>11. \A i \in DOMAIN v : \E j \in 1..n : v[i] = d[j] /\ d[j].name \in names
      BY <3>8, <3>9
    <3>12. ASSUME NEW j \in 1..n, d[j].name \in names PROVE \E i \in DOMAIN v : v[i] = d[j]
      <4>0. L \in Nat /\ L + 1 \in 1..(L + 1) /\ \A i \in 1..L : i \in 1..(L + 1) /\ i # L + 1
        BY <2>1
      <4>1. CASE j = n
        <5>1. v[L + 1] = d[n]
          BY <3>3, <4>0
        <5> QED
          BY <3>8, <4>0, <4>1, <5>1
      <4>2. CASE j # n
        <5>1. j \in 1..(n - 1)
          BY <1>1, <4>2
        <5>2. PICK i \in 1..L : u[i] = d[j]
          BY <2>1, <3>12, <5>1
        <5>3. i \in 1..(L + 1) /\ v[i] = d[j]
          BY <3>3, <4>0, <5>2
        <5> QED
          BY <3>8, <5>3
      <4> QED
        BY <4>1, <4>2
    <3>13. Good(n)
      BY <3>8, <3>11, <3>12 DEF v
    <3> QED
      BY <3>10, <3>13
  <2> QED
    BY <2>2, <2>3
<1> HIDE DEF S
<1>7. 0..N \subseteq S
  BY <1>1, <1>5, <1>6, UpTo
<1>8. Good(N)
  <2>1. N \in S
    BY <1>1, <1>7
  <2> HIDE DEF Good
  <2> QED
    BY <2>1 DEF S
<1>9. /\ Dict(e)
      /\ \A i \in DOMAIN e : \E j \in DOMAIN d : e[i] = d[j] /\ d[j].name \in names
      /\ \A j \in DOMAIN d : d[j].name \in names => \E i \in DOMAIN e : e[i] = d[j]
  BY <1>1, <1>4, <1>8
<1>10. Keys(e) = Keys(d) \cap names
  BY <1>9 DEF Keys
<1>11. ASSUME NEW n \in Keys(e) PROVE Get(e, n) = Get(d, n)
  <2>1. PICK i \in DOMAIN e : e[i].name = n /\ Get(e, n) = e[i].def
    BY <1>9, GetIs
  <2>2. PICK j \in DOMAIN d : e[i] = d[j]
    BY <1>9
  <2>3. Get(d, n) = d[j].def
    BY <2>1, <2>2, GetIs
  <2> QED
    BY <2>1, <2>2, <2>3
<1> QED
  BY <1>9, <1>10, <1>11 DEF e

(* Restricting keeps the order.                                            *)
LEMMA RestrictedOrder ==
  ASSUME NEW d, Dict(d), NEW names, NEW a \in names, NEW b \in names, Ahead(d, a, b)
  PROVE  Ahead(Restricted(d, names), a, b)
<1> DEFINE e == Restricted(d, names)
           N == Len(d)
<1>1. N \in Nat /\ DOMAIN d = 1..N
  BY DictIs
<1>2. e = Restricting!TheFold(names, <<>>, d, N)[1..N]
  BY <1>1 DEF Restricted, FoldLeft, MapThenFoldSet, Max,
     Restricting!TheFold, Restricting!Fold, Restricting!Largest, RestrictStep
<1> HIDE DEF e, N
<1>3. PICK h : /\ Restricting!Course(names, <<>>, d, N, h)
               /\ h[N] = Restricting!TheFold(names, <<>>, d, N)[1..N]
  BY <1>1, Restricting!FoldHasCourse, RestrictingInducts
<1>4. /\ h[0] = <<>>
      /\ \A n \in 1..N : h[n] = IF d[n].name \in names THEN Append(h[n - 1], d[n]) ELSE h[n - 1]
      /\ e = h[N]
  BY <1>2, <1>3 DEF Restricting!Course, RestrictStep
<1> DEFINE Good(n) == /\ IsList(h[n])
                      /\ \A i \in 1..n : d[i].name \in names => d[i].name \in Keys(h[n])
                      /\ \A i, j \in 1..n : i < j /\ d[i].name \in names /\ d[j].name \in names
                                           => Ahead(h[n], d[i].name, d[j].name)
           S == {n \in 0..N : Good(n)}
<1>5. 0 \in S
  <2>1. IsList(h[0])
    BY <1>4, EmptyList
  <2> QED
    BY <1>1, <2>1
<1>6. ASSUME NEW n \in 1..N, n - 1 \in S PROVE n \in S
  <2> DEFINE u == h[n - 1]
             v == h[n]
  <2>1. /\ IsList(u)
        /\ \A i \in 1..(n - 1) : d[i].name \in names => d[i].name \in Keys(u)
        /\ \A i, j \in 1..(n - 1) : i < j /\ d[i].name \in names /\ d[j].name \in names
                                   => Ahead(u, d[i].name, d[j].name)
    BY <1>6
  <2>2. n \in 0..N /\ \A i \in 1..n : i \in 1..(n - 1) \/ i = n
    BY <1>1
  <2>3. \A i, j \in 1..n : i < j => i \in 1..(n - 1)
    BY <1>1
  <2>4. v = IF d[n].name \in names THEN Append(u, d[n]) ELSE u
    BY <1>4
  <2> HIDE DEF u, v
  <2>5. /\ IsList(v)
        /\ \A a_, b_ : Ahead(u, a_, b_) => Ahead(v, a_, b_)
        /\ Keys(u) \subseteq Keys(v)
        /\ d[n].name \in names => d[n].name \in Keys(v) /\ \A a_ \in Keys(u) : Ahead(v, a_, d[n].name)
    BY <2>1, <2>4, AppendOrder
  <2>6. Good(n)
    <3>1. \A i \in 1..n : d[i].name \in names => d[i].name \in Keys(v)
      BY <2>1, <2>2, <2>5
    <3>2. ASSUME NEW i \in 1..n, NEW j \in 1..n, i < j, d[i].name \in names, d[j].name \in names
          PROVE  Ahead(v, d[i].name, d[j].name)
      <4>1. i \in 1..(n - 1) /\ (j \in 1..(n - 1) \/ j = n)
        BY <2>2, <2>3, <3>2
      <4> QED
        BY <2>1, <2>5, <3>2, <4>1
    <3> QED
      BY <2>5, <3>1, <3>2 DEF v
  <2> HIDE DEF Good
  <2> QED
    BY <2>2, <2>6
<1> HIDE DEF S
<1>7. 0..N \subseteq S
  BY <1>1, <1>5, <1>6, UpTo
<1>8. Good(N)
  <2>1. N \in S
    BY <1>1, <1>7
  <2> HIDE DEF Good
  <2> QED
    BY <2>1 DEF S
<1>9. PICK i, j \in 1..N : i < j /\ d[i].name = a /\ d[j].name = b
  BY <1>1 DEF Ahead
<1> QED
  BY <1>4, <1>8, <1>9 DEF e

(* A dictionary entry is loaded from the trusted setup.                    *)
LEMMA LoadedIs ==
  ASSUME NEW d, Dict(d), NEW name \in Keys(d), name \in LoadedNames
  PROVE  LET e == Put(d, name, TrustedSetup(Get(d, name).mentions))
         IN /\ Dict(e) /\ Keys(e) = Keys(d)
            /\ SameTexts(d, e)
            /\ \A n \in Keys(d) : Get(e, n).mentions = Get(d, n).mentions
<1> DEFINE v == TrustedSetup(Get(d, name).mentions)
<1>1. v.mentions = Get(d, name).mentions
  BY DEF TrustedSetup, Definition
<1> HIDE DEF v
<1>2. /\ Dict(Put(d, name, v)) /\ Keys(Put(d, name, v)) = Keys(d) \cup {name}
      /\ Get(Put(d, name, v), name) = v
      /\ \A k \in Keys(d) : k # name => Get(Put(d, name, v), k) = Get(d, k)
  BY PutIs
<1>3. \A n \in Keys(d) : Get(Put(d, name, v), n).mentions = Get(d, n).mentions
  BY <1>1, <1>2
<1>4. SameTexts(d, Put(d, name, v))
  BY <1>2, PutOrder DEF SameTexts
<1> QED
  BY <1>2, <1>3, <1>4 DEF v

LEMMA KzgIs ==
  ASSUME NEW s, Dictionaries(s), KzgSetupComplete(s)
  PROVE  LET t == _update_constant_vars_with_kzg_setups(s)
         IN Finishes(s, t) /\ SameConstants(s, t)
<1> DEFINE t == _update_constant_vars_with_kzg_setups(s)
           dependent == s["preset_dep_constant_vars"]
           plain == s["constant_vars"]
           one == Put(dependent, "KZG_SETUP_G1_MONOMIAL",
                      TrustedSetup(Get(dependent, "KZG_SETUP_G1_MONOMIAL").mentions))
           two == Put(one, "KZG_SETUP_G1_LAGRANGE",
                      TrustedSetup(Get(one, "KZG_SETUP_G1_LAGRANGE").mentions))
           three == Put(plain, "KZG_SETUP_G2_MONOMIAL",
                        TrustedSetup(Get(plain, "KZG_SETUP_G2_MONOMIAL").mentions))
<1>1. /\ {"preset_dep_constant_vars", "constant_vars"} \subseteq Sections
      /\ "preset_dep_constant_vars" # "constant_vars"
      /\ CodeSections \cup {"protocols", "preset_vars"}
           \subseteq Sections \ {"preset_dep_constant_vars", "constant_vars"}
  BY DEF Sections, CodeSections
<1>2. /\ Dict(dependent) /\ Dict(plain)
      /\ "KZG_SETUP_G1_MONOMIAL" \in Keys(dependent) /\ "KZG_SETUP_G1_LAGRANGE" \in Keys(dependent)
      /\ "KZG_SETUP_G2_MONOMIAL" \in Keys(plain)
  BY <1>1 DEF Dictionaries, KzgSetupComplete, KzgOfPreset
<1>3. t = [s EXCEPT !["preset_dep_constant_vars"] = two, !["constant_vars"] = three]
  BY <1>1 DEF _update_constant_vars_with_kzg_setups, Dictionaries
<1>0. {"KZG_SETUP_G1_MONOMIAL", "KZG_SETUP_G1_LAGRANGE", "KZG_SETUP_G2_MONOMIAL"} \subseteq LoadedNames
  BY DEF LoadedNames, KzgSetup
<1>4. /\ Dict(one) /\ Keys(one) = Keys(dependent) /\ SameTexts(dependent, one)
      /\ \A n \in Keys(dependent) : Get(one, n).mentions = Get(dependent, n).mentions
  <2> HIDE DEF dependent
  <2> QED
    BY <1>0, <1>2, LoadedIs
<1>5. /\ Dict(two) /\ Keys(two) = Keys(one) /\ SameTexts(one, two)
      /\ \A n \in Keys(one) : Get(two, n).mentions = Get(one, n).mentions
  <2> HIDE DEF one
  <2> QED
    BY <1>0, <1>2, <1>4, LoadedIs
<1>6. /\ Dict(three) /\ Keys(three) = Keys(plain) /\ SameTexts(plain, three)
      /\ \A n \in Keys(plain) : Get(three, n).mentions = Get(plain, n).mentions
  <2> HIDE DEF plain
  <2> QED
    BY <1>0, <1>2, LoadedIs
<1> HIDE DEF t, one, two, three
<1>7. t = [section \in Sections |-> IF section = "preset_dep_constant_vars" THEN two
                                    ELSE IF section = "constant_vars" THEN three ELSE s[section]]
  BY <1>1, <1>3 DEF Dictionaries
<1>8. /\ t["preset_dep_constant_vars"] = two /\ t["constant_vars"] = three
      /\ \A section \in Sections \ {"preset_dep_constant_vars", "constant_vars"} : t[section] = s[section]
  BY <1>1, <1>7
<1>9. Dictionaries(t)
  <2>1. t = [section \in Sections |-> t[section]]
    BY <1>7
  <2>2. \A section \in Sections : Dict(t[section])
    BY <1>5, <1>6, <1>8 DEF Dictionaries
  <2> QED
    BY <2>1, <2>2 DEF Dictionaries
<1>10. Finishes(s, t)
  BY <1>1, <1>8, <1>9 DEF Finishes
<1>11. SameConstants(s, t)
  <2>1. SameTexts(dependent, two)
    BY <1>4, <1>5 DEF SameTexts
  <2> HIDE DEF plain, dependent
  <2> QED
    BY <1>4, <1>5, <1>6, <1>8, <2>1 DEF SameConstants, plain, dependent
<1> QED
  BY <1>10, <1>11 DEF t

LEMMA CurdleproofsIs ==
  ASSUME NEW s, Dictionaries(s)
  PROVE  LET t == UpdateCurdleproofs(s)
         IN Finishes(s, t) /\ SameConstants(s, t)
<1> DEFINE t == UpdateCurdleproofs(s)
           plain == s["constant_vars"]
           v == TrustedSetup({"curdleproofs", "json"})
           more == Put(plain, "CURDLEPROOFS_CRS", v)
<1>1. /\ "constant_vars" \in Sections /\ "preset_dep_constant_vars" \in Sections \ {"constant_vars"}
      /\ CodeSections \cup {"protocols", "preset_vars"} \subseteq Sections \ {"constant_vars"}
  BY DEF Sections, CodeSections
<1>2. v.mentions = {"curdleproofs", "json"} /\ Dict(plain)
  BY <1>1 DEF TrustedSetup, Definition, Dictionaries
<1>3. CASE "CURDLEPROOFS_CRS" \notin Keys(plain)
  <2>1. t = s
    BY <1>3 DEF UpdateCurdleproofs
  <2> HIDE DEF t
  <2>2. Finishes(s, t) /\ SameConstants(s, t)
    BY <2>1 DEF Finishes, SameConstants, SameTexts
  <2> QED
    BY <2>2 DEF t
<1>4. CASE "CURDLEPROOFS_CRS" \in Keys(plain)
  <2>1. t = [s EXCEPT !["constant_vars"] = more]
    BY <1>1, <1>4 DEF UpdateCurdleproofs, Dictionaries
  <2> HIDE DEF t, plain, v, more
  <2>2. /\ Dict(more) /\ Keys(more) = Keys(plain) /\ SameTexts(plain, more)
        /\ \A n \in Keys(plain) :
             \/ Get(more, n).mentions = Get(plain, n).mentions
             \/ n = "CURDLEPROOFS_CRS" /\ Get(more, n).mentions = {"curdleproofs", "json"}
    <3>1. /\ Dict(more) /\ Keys(more) = Keys(plain) \cup {"CURDLEPROOFS_CRS"}
          /\ Get(more, "CURDLEPROOFS_CRS") = v
          /\ \A k \in Keys(plain) : k # "CURDLEPROOFS_CRS" => Get(more, k) = Get(plain, k)
      BY <1>2, PutIs DEF more
    <3>2. \A a, b : Ahead(plain, a, b) => Ahead(more, a, b)
      BY <1>2, PutOrder DEF more
    <3> QED
      BY <1>2, <1>4, <3>1, <3>2 DEF SameTexts, LoadedNames
  <2>3. t = [section \in Sections |-> IF section = "constant_vars" THEN more ELSE s[section]]
    BY <1>1, <2>1 DEF Dictionaries
  <2>4. /\ t["constant_vars"] = more
        /\ \A section \in Sections \ {"constant_vars"} : t[section] = s[section]
    BY <1>1, <2>3
  <2>5. Dictionaries(t)
    <3>1. t = [section \in Sections |-> t[section]]
      BY <2>3
    <3>2. \A section \in Sections : Dict(t[section])
      BY <2>2, <2>4 DEF Dictionaries
    <3> QED
      BY <3>1, <3>2 DEF Dictionaries
  <2>6. Finishes(s, t)
    BY <1>1, <2>4, <2>5 DEF Finishes
  <2>7. SameConstants(s, t)
    <3>1. SameTexts(s["preset_dep_constant_vars"], t["preset_dep_constant_vars"])
      BY <1>1, <2>4 DEF SameTexts
    <3> QED
      BY <1>1, <2>2, <2>4, <3>1 DEF SameConstants, plain
  <2> QED
    BY <2>6, <2>7 DEF t
<1> QED
  BY <1>3, <1>4

LEMMA SplitTypesIs ==
  ASSUME NEW s, Dictionaries(s), NEW types, Dict(types)
  PROVE  LET t == SplitTypes(s, types)
         IN /\ Finishes(s, t)
            /\ t["constant_vars"] = s["constant_vars"]
            /\ t["preset_dep_constant_vars"] = s["preset_dep_constant_vars"]
            /\ \A i \in DOMAIN t["custom_types"] : ~ DependsOnPreset(t["custom_types"][i].def.mentions, s)
            /\ Keys(types) = Keys(t["custom_types"]) \cup Keys(t["preset_dep_custom_types"])
            /\ \A n \in Keys(t["custom_types"]) : Get(t["custom_types"], n) = Get(types, n)
            /\ \A n \in Keys(t["preset_dep_custom_types"]) : Get(t["preset_dep_custom_types"], n) = Get(types, n)
            /\ TypesInOrder(types, t["custom_types"]) /\ TypesInOrder(types, t["preset_dep_custom_types"])
<1> DEFINE t == SplitTypes(s, types)
           dependent == {item.name : item \in {types[i] : i \in
                          {j \in DOMAIN types : DependsOnPreset(types[j].def.mentions, s)}}}
           a == Restricted(types, dependent)
           b == Restricted(types, Keys(types) \ dependent)
<1>1. /\ {"preset_dep_custom_types", "custom_types"} \subseteq Sections
      /\ "preset_dep_custom_types" # "custom_types"
      /\ CodeSections \cup {"constant_vars", "preset_dep_constant_vars", "protocols", "preset_vars"}
           \subseteq Sections \ {"preset_dep_custom_types", "custom_types"}
  BY DEF Sections, CodeSections
<1>2. t = [s EXCEPT !["preset_dep_custom_types"] = a, !["custom_types"] = b]
  BY DEF SplitTypes
<1>3. \A j \in DOMAIN types : types[j].name \notin dependent => ~ DependsOnPreset(types[j].def.mentions, s)
  OBVIOUS
<1> HIDE DEF t, dependent
<1>4. /\ Dict(a) /\ Dict(b)
      /\ \A i \in DOMAIN b : \E j \in DOMAIN types : b[i] = types[j] /\ types[j].name \notin dependent
      /\ Keys(types) = Keys(b) \cup Keys(a)
      /\ \A n \in Keys(b) : Get(b, n) = Get(types, n)
      /\ \A n \in Keys(a) : Get(a, n) = Get(types, n)
      /\ TypesInOrder(types, b) /\ TypesInOrder(types, a)
  <2>1. /\ Dict(a) /\ Keys(a) = Keys(types) \cap dependent
        /\ \A n \in Keys(a) : Get(a, n) = Get(types, n)
    BY RestrictedIs
  <2>2. /\ Dict(b) /\ Keys(b) = Keys(types) \cap (Keys(types) \ dependent)
        /\ \A n \in Keys(b) : Get(b, n) = Get(types, n)
        /\ \A i \in DOMAIN b : \E j \in DOMAIN types :
             b[i] = types[j] /\ types[j].name \in Keys(types) \ dependent
    BY RestrictedIs
  <2>3. TypesInOrder(types, a)
    BY <2>1, RestrictedOrder DEF TypesInOrder
  <2>4. TypesInOrder(types, b)
    BY <2>2, RestrictedOrder DEF TypesInOrder
  <2> QED
    BY <2>1, <2>2, <2>3, <2>4
<1> HIDE DEF a, b
<1>5. t = [section \in Sections |-> IF section = "preset_dep_custom_types" THEN a
                                    ELSE IF section = "custom_types" THEN b ELSE s[section]]
  BY <1>1, <1>2 DEF Dictionaries
<1>6. /\ t["preset_dep_custom_types"] = a /\ t["custom_types"] = b
      /\ \A section \in Sections \ {"preset_dep_custom_types", "custom_types"} : t[section] = s[section]
  BY <1>1, <1>5
<1>7. Dictionaries(t)
  <2>1. t = [section \in Sections |-> t[section]]
    BY <1>5
  <2>2. \A section \in Sections : Dict(t[section])
    BY <1>4, <1>6 DEF Dictionaries
  <2> QED
    BY <2>1, <2>2 DEF Dictionaries
<1>8. Finishes(s, t)
  BY <1>1, <1>6, <1>7 DEF Finishes
<1>9. \A i \in DOMAIN b : ~ DependsOnPreset(b[i].def.mentions, s)
  BY <1>3, <1>4
<1> QED
  BY <1>1, <1>4, <1>6, <1>8, <1>9 DEF t

(* What is said at the end.                                                *)
LEMMA SaysIs ==
  ASSUME NEW doc, NEW s, NEW types, NEW t,
         Progress(doc, DefinitionPlaces(doc), s), RowsKept(Entries(doc, RowPlaces(doc)), s, types),
         \A section \in CodeSections : t[section] = s[section],
         SameConstants(s, t),
         Keys(types) = Keys(t["custom_types"]) \cup Keys(t["preset_dep_custom_types"]),
         \A n \in Keys(t["custom_types"]) : Get(t["custom_types"], n) = Get(types, n),
         \A n \in Keys(t["preset_dep_custom_types"]) : Get(t["preset_dep_custom_types"], n) = Get(types, n)
  PROVE  Says(doc, t)
<1> DEFINE places == DefinitionPlaces(doc)
           Code == {DefinitionAt(doc, p) : p \in {q \in places : SectionOf(DefinitionAt(doc, q)) # "protocols"}}
           E == Entries(doc, RowPlaces(doc))
           cv == s["constant_vars"]
           dv == s["preset_dep_constant_vars"]
<1>1. Declarations(doc) = Code \cup E
  BY DEF Declarations, Entries
<1>2. \A section \in CodeSections :
        /\ Keys(s[section]) = {DefinitionAt(doc, p).name : p \in In(doc, places, section)}
        /\ From(s[section], {DefinitionAt(doc, p) : p \in In(doc, places, section)})
  BY DEF Progress, CodeRead
<1>3. \A section \in CodeSections : {DefinitionAt(doc, p) : p \in In(doc, places, section)} \subseteq Code
  BY DEF In, CodeSections
<1>4. \A section \in CodeSections : From(s[section], Code)
  BY <1>2, <1>3 DEF From
<1>5. /\ From(cv, E) /\ From(dv, E) /\ From(types, E)
      /\ \A e \in E : e.name \in Keys(cv) \cup Keys(dv) \cup Keys(types)
  BY DEF RowsKept
<1>6. ASSUME NEW e \in Code PROVE \E section \in CodeSections : e.name \in Keys(t[section])
  <2>1. PICK p \in places : e = DefinitionAt(doc, p) /\ SectionOf(e) # "protocols"
    BY DEF Code
  <2>2. SectionOf(e) \in CodeSections
    BY <2>1 DEF Progress
  <2>3. p \in In(doc, places, SectionOf(e))
    BY <2>1 DEF In
  <2>4. e.name \in Keys(s[SectionOf(e)])
    BY <1>2, <2>1, <2>2, <2>3
  <2> QED
    BY <2>2, <2>4
<1>7. SameTexts(cv, t["constant_vars"]) /\ SameTexts(dv, t["preset_dep_constant_vars"])
  BY DEF SameConstants
<1> HIDE DEF Code, E, cv, dv, places
<1>8. \A section \in CodeSections : SectionSays(doc, t[section])
  BY <1>1, <1>4 DEF SectionSays, From
<1>9. /\ SectionSays(doc, t["constant_vars"]) /\ SectionSays(doc, t["preset_dep_constant_vars"])
  BY <1>1, <1>5, <1>7 DEF SectionSays, From, SameTexts
<1>10. /\ SectionSays(doc, t["custom_types"]) /\ SectionSays(doc, t["preset_dep_custom_types"])
  BY <1>1, <1>5 DEF SectionSays, From
<1>11. ASSUME NEW e \in E PROVE \E section \in WrittenSections : e.name \in Keys(t[section])
  BY <1>5, <1>7 DEF SameTexts, WrittenSections
<1> QED
  BY <1>1, <1>6, <1>8, <1>9, <1>10, <1>11 DEF Says, WrittenSections

(* The types are divided and the trusted setup is in place.                *)
LEMMA FinalIs ==
  ASSUME NEW doc \in Documents, NEW s, Dictionaries(s), NEW types, Dict(types),
         UsesKzgSetup(s) => KzgSetupComplete(s),
         RowsRead(doc, RowPlaces(doc), s, types), Progress(doc, DefinitionPlaces(doc), s)
  PROVE  LET t == _finalize_types(s, types)
         IN /\ Finishes(s, t) /\ SameConstants(s, t) /\ TypesSplit(types, t)
            /\ Says(doc, t)
            /\ InOrder(doc) =>
                 \A section \in {"constant_vars", "custom_types"} : \A i \in DOMAIN t[section] :
                   t[section][i].def.mentions
                     \cap (Preset \cup Keys(t["preset_dep_constant_vars"])) = {}
<1> DEFINE u == IF UsesKzgSetup(s) THEN _update_constant_vars_with_kzg_setups(s) ELSE s
           v == UpdateCurdleproofs(u)
           t == SplitTypes(v, types)
           plain == s["constant_vars"]
           dependent == s["preset_dep_constant_vars"]
<1>1. _finalize_types(s, types) = t
  BY DEF _finalize_types
<1>2. Finishes(s, u) /\ SameConstants(s, u)
  <2>1. Finishes(s, s) /\ SameConstants(s, s)
    BY DEF Finishes, SameConstants, SameTexts
  <2> QED
    BY <2>1, KzgIs
<1> HIDE DEF u
<1>3. Finishes(u, v) /\ SameConstants(u, v)
  BY <1>2, CurdleproofsIs DEF Finishes
<1> HIDE DEF v
<1>4. /\ Finishes(v, t)
      /\ t["constant_vars"] = v["constant_vars"]
      /\ t["preset_dep_constant_vars"] = v["preset_dep_constant_vars"]
      /\ \A i \in DOMAIN t["custom_types"] : ~ DependsOnPreset(t["custom_types"][i].def.mentions, v)
      /\ Keys(types) = Keys(t["custom_types"]) \cup Keys(t["preset_dep_custom_types"])
      /\ \A n \in Keys(t["custom_types"]) : Get(t["custom_types"], n) = Get(types, n)
      /\ \A n \in Keys(t["preset_dep_custom_types"]) : Get(t["preset_dep_custom_types"], n) = Get(types, n)
      /\ TypesInOrder(types, t["custom_types"]) /\ TypesInOrder(types, t["preset_dep_custom_types"])
  BY <1>3, SplitTypesIs DEF Finishes
<1> HIDE DEF t
<1>5. Finishes(s, t)
  BY <1>2, <1>3, <1>4 DEF Finishes
<1>6. SameConstants(s, t)
  BY <1>2, <1>3, <1>4 DEF SameConstants, SameTexts
<1>7. Says(doc, t)
  <2>1. RowsKept(Entries(doc, RowPlaces(doc)), s, types)
    BY DEF RowsRead
  <2>2. \A section \in CodeSections : t[section] = s[section]
    BY <1>5 DEF Finishes
  <2> QED
    BY <1>4, <1>6, <2>1, <2>2, SaysIs
<1>8. /\ Keys(t["preset_dep_constant_vars"]) = Keys(dependent)
      /\ Keys(t["constant_vars"]) = Keys(plain)
      /\ \A n \in Keys(plain) : Get(t["constant_vars"], n).mentions
                                  \in {Get(plain, n).mentions, {"curdleproofs", "json"}}
  BY <1>2, <1>3, <1>4 DEF SameConstants, SameTexts
<1>9. {"curdleproofs", "json"} \cap (Preset \cup Keys(dependent)) = {}
  <2>1. \A n \in Keys(dependent) : n \notin {"curdleproofs", "json"}
    <3> SUFFICES ASSUME NEW n \in Keys(dependent) PROVE n \notin {"curdleproofs", "json"}
      OBVIOUS
    <3>1. PICK p \in RowPlaces(doc) : RowAt(doc, p).name = n
      BY DEF RowsRead
    <3>2. p = <<p[1], p[2]>>
      BY PlacesAre DEF Places
    <3>3. p[1] \in Live(doc, "table") /\ p[2] \in 1..Len(doc[p[1]].rows)
      BY <3>2, PlacesAre
    <3>4. p[1] \in DOMAIN doc /\ doc[p[1]].kind = "table"
      BY <3>3 DEF Live
    <3>5. p[2] \in DOMAIN doc[p[1]].rows
      BY <3>3, <3>4, DocumentIs
    <3> QED
      BY <3>1, <3>4, <3>5, DocumentIs DEF RowAt
  <2> QED
    BY <2>1, DocumentsAssumption
<1>10. ASSUME InOrder(doc), NEW n \in Keys(plain)
      PROVE  Get(plain, n).mentions \cap (Preset \cup Keys(dependent)) = {}
  BY <1>10 DEF RowsRead
<1>11. ASSUME InOrder(doc), NEW i \in DOMAIN t["constant_vars"]
      PROVE  t["constant_vars"][i].def.mentions \cap (Preset \cup Keys(dependent)) = {}
  <2> DEFINE d == t["constant_vars"]
             n == d[i].name
  <2>1. Dict(d)
    BY <1>5 DEF Finishes, Dictionaries, Sections
  <2> HIDE DEF d
  <2>2. n \in Keys(d) /\ Get(d, n) = d[i].def
    BY <2>1, <1>11, GetIs DEF d
  <2>3. Get(d, n).mentions \in {Get(plain, n).mentions, {"curdleproofs", "json"}} /\ n \in Keys(plain)
    BY <1>8, <2>2 DEF d
  <2> HIDE DEF n, plain, dependent
  <2>4. Get(d, n).mentions \cap (Preset \cup Keys(dependent)) = {}
    BY <1>9, <1>10, <1>11, <2>3
  <2> QED
    BY <2>2, <2>4 DEF d
<1>12. ASSUME NEW i \in DOMAIN t["custom_types"]
       PROVE  t["custom_types"][i].def.mentions \cap (Preset \cup Keys(dependent)) = {}
  BY <1>4, <1>8 DEF DependsOnPreset
<1>13. TypesSplit(types, t)
  BY <1>4 DEF TypesSplit
<1> HIDE DEF plain, dependent
<1> QED
  BY <1>1, <1>5, <1>6, <1>8, <1>11, <1>12, <1>13, <1>7

-----------------------------------------------------------------------------
(* Rows and where they are stored. *)

(* One more row is kept, the last so far.                                  *)
LEMMA PlacedMore ==
  ASSUME NEW doc \in Documents, NEW P \in SUBSET RowPlaces(doc), NEW p \in RowPlaces(doc),
         \A q \in P : Before(q, p), Kept(RowAt(doc, p)),
         NEW D, \A u \in DOMAIN D : Dict(D[u]), Placed(doc, P, D),
         NEW t \in DOMAIN D, NEW def, def.mentions = Needs(RowAt(doc, p)),
         t = "preset_vars" => def.text = Yaml[RowAt(doc, p).name],
         "preset_vars" \in DOMAIN D,
         NEW E, E = PutIn(D, t, RowAt(doc, p).name, def)
  PROVE  Placed(doc, P \cup {p}, E)
<1> DEFINE row == RowAt(doc, p)
           n == row.name
           Q == P \cup {p}
<1>1. /\ DOMAIN E = DOMAIN D /\ E[t] = Put(D[t], n, def)
      /\ \A u \in DOMAIN D \ {t} : E[u] = D[u]
  BY DEF PutIn
<1>2. /\ Keys(E[t]) = Keys(D[t]) \cup {n} /\ Get(E[t], n) = def
      /\ \A k \in Keys(D[t]) : k # n => Get(E[t], k) = Get(D[t], k)
  BY <1>1, PutIs
<1>3. KeptIn(doc, Q) = KeptIn(doc, P) \cup {p}
  BY DEF KeptIn
<1>4. /\ \A u \in DOMAIN D : \A m \in Keys(D[u]) :
           \E q \in KeptIn(doc, P) : RowAt(doc, q).name = m /\ Comes(D, u, m, RowAt(doc, q))
      /\ \A q \in KeptIn(doc, P) : \E u \in DOMAIN D : RowAt(doc, q).name \in Keys(D[u])
      /\ \A u \in DOMAIN D : \A a, b :
           Sole(D, u, a) /\ Sole(D, u, b) /\ ReadFirst(doc, P, a, b) => Ahead(D[u], a, b)
      /\ \A m \in Keys(D["preset_vars"]) : Get(D["preset_vars"], m).text = Yaml[m]
  BY DEF Placed
<1>5. ASSUME NEW q \in P PROVE ~ Before(p, q)
  <2>1. p[1] \in Nat /\ p[2] \in Nat /\ q[1] \in Nat /\ q[2] \in Nat
    BY PlacesAre DEF Places
  <2>2. Before(q, p)
    OBVIOUS
  <2> QED
    BY <2>1, <2>2 DEF Before
<1>6. ~ Before(p, p)
  <2>1. p[1] \in Nat /\ p[2] \in Nat
    BY PlacesAre DEF Places
  <2> QED
    BY <2>1 DEF Before
<1>7. \A u \in DOMAIN D : Keys(D[u]) \subseteq Keys(E[u])
  BY <1>1, <1>2
<1>8. p \in KeptIn(doc, Q) /\ KeptIn(doc, P) \subseteq P
  BY <1>3 DEF KeptIn
<1>9. def.mentions = Needs(row) /\ (t = "preset_vars" => def.text = Yaml[n])
  OBVIOUS
<1> HIDE DEF n, row, Q
<1>10. ASSUME NEW u \in DOMAIN E, NEW m \in Keys(E[u])
       PROVE  \E q \in KeptIn(doc, Q) : RowAt(doc, q).name = m /\ Comes(E, u, m, RowAt(doc, q))
  <2>1. CASE u = t /\ m = n
    <3>1. RowAt(doc, p) = row /\ row.name = n
      BY DEF row, n
    <3>2. Comes(E, u, m, row)
      BY <1>2, <1>9, <2>1 DEF Comes
    <3> QED
      BY <1>8, <2>1, <3>1, <3>2
  <2>2. CASE ~ (u = t /\ m = n)
    <3>1. m \in Keys(D[u]) /\ Get(E[u], m) = Get(D[u], m) /\ u \in DOMAIN D
      BY <1>1, <1>2, <1>10, <2>2
    <3>2. PICK q \in KeptIn(doc, P) : RowAt(doc, q).name = m /\ Comes(D, u, m, RowAt(doc, q))
      BY <1>4, <3>1
    <3>3. Comes(E, u, m, RowAt(doc, q))
      BY <3>1, <3>2 DEF Comes
    <3> QED
      BY <1>3, <3>2, <3>3
  <2> QED
    BY <2>1, <2>2
<1>11. ASSUME NEW q \in KeptIn(doc, Q)
       PROVE  \E u \in DOMAIN E : RowAt(doc, q).name \in Keys(E[u])
  <2>1. CASE q = p
    <3>1. RowAt(doc, q).name = n
      BY <2>1 DEF n, row
    <3> QED
      BY <1>1, <1>2, <3>1
  <2>2. CASE q # p
    BY <1>1, <1>3, <1>4, <1>7, <2>2
  <2> QED
    BY <2>1, <2>2
<1>12. ASSUME NEW u \in DOMAIN E, NEW a, NEW b, Sole(E, u, a), Sole(E, u, b), ReadFirst(doc, Q, a, b)
       PROVE  Ahead(E[u], a, b)
  <2>1. PICK q \in KeptIn(doc, Q) :
           RowAt(doc, q).name = a /\ \A k \in KeptIn(doc, Q) : RowAt(doc, k).name = b => Before(q, k)
    BY <1>12 DEF ReadFirst
  <2>2. \E k \in KeptIn(doc, Q) : RowAt(doc, k).name = b /\ Before(q, k)
    BY <1>10, <1>12, <2>1 DEF Sole
  <2>3. q # p
    BY <1>3, <1>5, <1>6, <1>8, <2>2
  <2>4. q \in KeptIn(doc, P)
    BY <1>3, <2>3
  <2>5. ReadFirst(doc, P, a, b)
    BY <1>3, <2>1, <2>4 DEF ReadFirst
  <2>6. Sole(D, u, a)
    <3>1. PICK w \in DOMAIN D : a \in Keys(D[w])
      BY <1>4, <2>1, <2>4
    <3>2. w = u
      BY <1>1, <1>7, <1>12, <3>1 DEF Sole
    <3> QED
      BY <1>1, <1>7, <1>12, <3>1, <3>2 DEF Sole
  <2>7. CASE b \in Keys(D[u])
    <3>1. Sole(D, u, b)
      BY <1>1, <1>7, <1>12, <2>7 DEF Sole
    <3>2. Ahead(D[u], a, b) /\ Dict(D[u])
      BY <1>1, <1>4, <1>12, <2>5, <2>6, <3>1
    <3>3. Ahead(Put(D[u], n, def), a, b)
      BY <3>2, PutOrder
    <3> QED
      BY <1>1, <3>2, <3>3
  <2>8. CASE b \notin Keys(D[u])
    <3>1. b \in Keys(E[u])
      BY <1>12 DEF Sole
    <3>2. u = t /\ b = n
      BY <1>1, <1>2, <2>8, <3>1
    <3>3. a \in Keys(D[t]) /\ Dict(D[t]) /\ n \notin Keys(D[t])
      BY <2>6, <2>8, <3>2 DEF Sole
    <3>4. Ahead(Put(D[t], n, def), a, n)
      BY <3>3, PutOrder
    <3> QED
      BY <1>1, <3>2, <3>4
  <2> QED
    BY <2>7, <2>8
<1>13. ASSUME NEW m \in Keys(E["preset_vars"])
       PROVE  Get(E["preset_vars"], m).text = Yaml[m]
  BY <1>1, <1>2, <1>4, <1>9, <1>13
<1>14. Placed(doc, Q, E)
  BY <1>10, <1>11, <1>12, <1>13 DEF Placed
<1> QED
  BY <1>14 DEF Q

LEMMA StoreStores ==
  ASSUME NEW r, Result(r), NEW section \in Sections, NEW name, NEW def,
         NEW t, t = Store(r, section, name, def),
         NEW D, D = Stores(r.spec, r.types), NEW E, E = Stores(t.spec, t.types)
  PROVE  /\ section \in RowStores => E = PutIn(D, section, name, def)
         /\ section \notin RowStores => E = D
<1> DEFINE value == Put(r.spec[section], name, def)
<1>1. /\ t.spec[section] = value /\ t.types = r.types
      /\ \A s \in Sections \ {section} : t.spec[s] = r.spec[s]
  BY StoreIs DEF Same
<1>2. "types" \notin Sections /\ RowStores \subseteq Sections \cup {"types"}
  BY DEF Sections, RowStores
<1>3. \A u \in RowStores : Stores(t.spec, t.types)[u] = IF u = section THEN value ELSE Stores(r.spec, r.types)[u]
  BY <1>1, <1>2 DEF Stores
<1>4. section \in RowStores => value = Put(Stores(r.spec, r.types)[section], name, def)
  BY <1>2 DEF Stores
<1> HIDE DEF value
<1>5. /\ Stores(t.spec, t.types) = [u \in RowStores |-> Stores(t.spec, t.types)[u]]
      /\ Stores(r.spec, r.types) = [u \in RowStores |-> Stores(r.spec, r.types)[u]]
  BY DEF Stores
<1>6. section \in RowStores =>
        Stores(t.spec, t.types) = PutIn(Stores(r.spec, r.types), section, name, def)
  BY <1>3, <1>4, <1>5 DEF PutIn
<1>7. section \notin RowStores => Stores(t.spec, t.types) = Stores(r.spec, r.types)
  BY <1>3, <1>5
<1> QED
  BY <1>6, <1>7

LEMMA ProcessRowStores ==
  ASSUME NEW r, Result(r), r.ok, NEW row, ProcessRow(r, row).ok
  PROVE  LET t == ProcessRow(r, row)
         IN Stored(row, Stores(r.spec, r.types), Stores(t.spec, t.types))
<1> DEFINE t == ProcessRow(r, row)
           def == Definition(row.text, row.mentions)
           from_file == Definition(Yaml[row.name], {row.type} \ {NoName})
           D == Stores(r.spec, r.types)
<1>1. def.mentions = row.mentions /\ from_file.mentions = {row.type} \ {NoName} /\ from_file.text = Yaml[row.name]
  BY DEF Definition
<1>2. DOMAIN D = RowStores
  BY DEF Stores
<1>0. ASSUME Kept(row), NEW u \in RowStores, NEW d, d.mentions = Needs(row),
             u = "preset_vars" => d.text = Yaml[row.name],
             NEW E, E = PutIn(D, u, row.name, d)
      PROVE  Stored(row, D, E)
  <2> HIDE DEF D
  <2> QED
    BY <1>0, <1>2, Zenon DEF Stored
<1>3. CASE row.cells < 2 \/ row.remark = "predefined-type"
  <2>1. t = r /\ ~ Kept(row)
    BY <1>3 DEF ProcessRow, Kept
  <2> QED
    BY <2>1 DEF Stored
<1>4. CASE ~ (row.cells < 2 \/ row.remark = "predefined-type") /\ ~ row.constant
  <2>1. t = IF row.shape = "ssz" THEN [r EXCEPT !.types = Put(r.types, row.name, def)] ELSE r
    BY <1>4 DEF ProcessRow
  <2>2. Kept(row) <=> row.shape = "ssz"
    BY <1>4 DEF Kept
  <2>3. Needs(row) = row.mentions
    BY <1>4 DEF Needs
  <2>4. CASE row.shape = "ssz"
    <3> DEFINE types == Put(r.types, row.name, def)
    <3>1. t.spec = r.spec /\ t.types = types
      <4>1. t = [r EXCEPT !.types = types]
        BY <2>1, <2>4
      <4> HIDE DEF t, types
      <4>2. t = Outcome(r.spec, types, r.ok)
        BY <4>1 DEF Result, Outcome
      <4> QED
        BY <4>2 DEF Outcome
    <3> HIDE DEF t, types
    <3>2. Stores(t.spec, t.types) = [D EXCEPT !["types"] = types]
      BY <3>1 DEF Stores
    <3>3. "types" \in DOMAIN D /\ types = Put(D["types"], row.name, def)
      BY <1>2 DEF RowStores, Stores, types
    <3> HIDE DEF D, def
    <3> HIDE DEF types
    <3>5. Stores(t.spec, t.types) = PutIn(D, "types", row.name, def)
      BY <3>2, <3>3 DEF PutIn
    <3>6. Kept(row) /\ "types" \in RowStores /\ "types" # "preset_vars"
      BY <2>2, <2>4 DEF RowStores
    <3>4. Stored(row, D, Stores(t.spec, t.types))
      BY <1>0, <1>1, <2>3, <3>5, <3>6
    <3> QED
      BY <3>4 DEF D, t
  <2>5. CASE row.shape # "ssz"
    BY <2>1, <2>2, <2>5 DEF Stored
  <2> QED
    BY <2>4, <2>5
<1>5. CASE ~ (row.cells < 2 \/ row.remark = "predefined-type") /\ row.constant /\ row.shape = "gindex"
  <2>1. t = Store(r, "ssz_dep_constants", row.name, def) /\ ~ Kept(row)
    BY <1>5 DEF ProcessRow, Kept
  <2>2. "ssz_dep_constants" \in Sections \ RowStores
    BY DEF Sections, RowStores
  <2> HIDE DEF def, t
  <2>3. Stores(t.spec, t.types) = D
    BY <2>1, <2>2, StoreStores
  <2>4. Stored(row, D, Stores(t.spec, t.types))
    BY <2>1, <2>3 DEF Stored
  <2> QED
    BY <2>4 DEF t
<1>6. CASE ~ (row.cells < 2 \/ row.remark = "predefined-type") /\ row.constant /\ row.shape # "gindex"
  <2> DEFINE v == IF row.remark = "predefined" THEN Store(r, "func_dep_presets", row.name, def) ELSE r
  <2>1. t = ProcessVariable(v, row) /\ (Kept(row) <=> row.name \notin Config \ Preset)
    BY <1>6 DEF ProcessRow, Kept
  <2>2. "func_dep_presets" \in Sections \ RowStores
    BY DEF Sections, RowStores
  <2>3. Stores(v.spec, v.types) = D /\ Result(v)
    <3> HIDE DEF def
    <3> DEFINE w == Store(r, "func_dep_presets", row.name, def)
    <3>1. Result(w)
      BY <2>2, StoreIs
    <3>2. w = Store(r, "func_dep_presets", row.name, def)
      OBVIOUS
    <3> HIDE DEF w
    <3>3. Stores(w.spec, w.types) = D
      BY <2>2, <3>2, StoreStores
    <3> QED
      BY <3>1, <3>3 DEF w
  <2>4. {"preset_vars", "preset_dep_constant_vars", "constant_vars"} \subseteq RowStores \cap Sections
        /\ "config_vars" \in Sections \ RowStores
    BY DEF Sections, RowStores
  <2>5. Raise(v).ok = FALSE /\ t.ok
    BY <2>3, RaiseIs
  <2> HIDE DEF v, t, def, from_file, D
  <2>9. ASSUME NEW u \in RowStores \cap Sections, NEW d, t = Store(v, u, row.name, d), Kept(row),
               d.mentions = Needs(row), u = "preset_vars" => d.text = Yaml[row.name]
        PROVE  Stored(row, D, Stores(t.spec, t.types))
    <3> DEFINE E == Stores(t.spec, t.types)
    <3>1. E = Stores(t.spec, t.types) /\ D = Stores(v.spec, v.types) /\ Result(v)
      BY <2>3
    <3> HIDE DEF E
    <3>2. E = PutIn(D, u, row.name, d)
      BY <2>9, <3>1, StoreStores
    <3>3. Stored(row, D, E)
      BY <1>0, <2>9, <3>2
    <3> QED
      BY <3>3 DEF E
  <2>6. CASE row.name \in Preset
    <3>1. t = Store(v, "preset_vars", row.name, from_file) /\ Needs(row) = {row.type} \ {NoName} /\ Kept(row)
      BY <1>6, <2>1, <2>5, <2>6 DEF ProcessVariable, from_file, Needs
    <3>2. Stored(row, D, Stores(t.spec, t.types))
      BY <1>1, <2>4, <2>9, <3>1
    <3> QED
      BY <3>2 DEF D, t
  <2>7. CASE row.name \in Config \ Preset
    <3>1. t = Store(v, "config_vars", row.name, from_file) /\ ~ Kept(row)
      BY <2>1, <2>5, <2>7, ConfigNamesDiffer DEF ProcessVariable, from_file
    <3>2. Stores(t.spec, t.types) = D
      BY <2>3, <2>4, <3>1, StoreStores
    <3>3. Stored(row, D, Stores(t.spec, t.types))
      BY <3>1, <3>2 DEF Stored
    <3> QED
      BY <3>3 DEF D, t
  <2>8. CASE row.name \notin Preset \cup Config
    <3>1. /\ \/ t = Store(v, "preset_dep_constant_vars", row.name, def)
             \/ t = Store(v, "constant_vars", row.name, def)
          /\ Needs(row) = row.mentions /\ Kept(row)
      BY <2>1, <2>5, <2>8 DEF ProcessVariable, def, Needs
    <3>2. Stored(row, D, Stores(t.spec, t.types))
      BY <1>1, <2>4, <2>9, <3>1
    <3> QED
      BY <3>2 DEF D, t
  <2> QED
    BY <2>6, <2>7, <2>8
<1> QED
  BY <1>3, <1>4, <1>5, <1>6
(* A row that is read, the last so far.                                    *)
LEMMA PlacedStored ==
  ASSUME NEW doc \in Documents, NEW P \in SUBSET RowPlaces(doc), NEW p \in RowPlaces(doc),
         \A q \in P : Before(q, p),
         NEW D, \A u \in DOMAIN D : Dict(D[u]), "preset_vars" \in DOMAIN D, Placed(doc, P, D),
         NEW E, Stored(RowAt(doc, p), D, E)
  PROVE  Placed(doc, P \cup {p}, E)
<1>1. CASE ~ Kept(RowAt(doc, p))
  <2>1. E = D
    BY <1>1 DEF Stored
  <2>2. KeptIn(doc, P \cup {p}) = KeptIn(doc, P)
    BY <1>1 DEF KeptIn
  <2>3. \A a, b : ReadFirst(doc, P \cup {p}, a, b) <=> ReadFirst(doc, P, a, b)
    BY <2>2 DEF ReadFirst
  <2> QED
    BY <2>1, <2>2, <2>3 DEF Placed
<1>2. CASE Kept(RowAt(doc, p))
  <2>1. PICK u \in DOMAIN D : \E def :
          /\ def.mentions = Needs(RowAt(doc, p))
          /\ u = "preset_vars" => def.text = Yaml[RowAt(doc, p).name]
          /\ E = PutIn(D, u, RowAt(doc, p).name, def)
    BY <1>2 DEF Stored
  <2>2. PICK def :
          /\ def.mentions = Needs(RowAt(doc, p))
          /\ u = "preset_vars" => def.text = Yaml[RowAt(doc, p).name]
          /\ E = PutIn(D, u, RowAt(doc, p).name, def)
    BY <2>1
  <2> QED
    BY <1>2, <2>2, PlacedMore
<1> QED
  BY <1>1, <1>2

(* All the rows of a table.                                                *)
LEMMA TablePlaced ==
  ASSUME NEW doc \in Documents, NEW i \in Live(doc, "table"),
         NEW r, Result(r), r.ok,
         Placed(doc, Upto(RowPlaces(doc), i, 0), Stores(r.spec, r.types)),
         _process_table(r, doc[i]).ok
  PROVE  LET t == _process_table(r, doc[i])
         IN Placed(doc, Upto(RowPlaces(doc), i + 1, 0), Stores(t.spec, t.types))
<1> DEFINE t == _process_table(r, doc[i])
           places == RowPlaces(doc)
           rows == doc[i].rows
           N == Len(rows)
           P(n) == Upto(places, i, n)
<1>1. /\ i \in DOMAIN doc /\ doc[i].kind = "table" /\ i \in Nat
      /\ N \in Nat /\ DOMAIN rows = 1..N
  BY DocumentIs DEF Live
<1>2. /\ Places(places)
      /\ \A k : <<i, k>> \in places <=> k \in 1..N
  BY PlacesAre
<1>3. \A p \in places : p[1] = i => p = <<i, p[2]>>
  BY <1>2 DEF Places
<1>4. t = ReadingRows!TheFold(0, r, rows, N)[1..N]
  BY <1>1 DEF _process_table, FoldLeft, MapThenFoldSet, Max,
     ReadingRows!TheFold, ReadingRows!Fold, ReadingRows!Largest, RowStep
<1>0. t.ok
  OBVIOUS
<1> HIDE DEF t, N, places
<1>5. PICK h : /\ ReadingRows!Course(0, r, rows, N, h)
               /\ h[N] = ReadingRows!TheFold(0, r, rows, N)[1..N]
  <2> HIDE DEF rows
  <2> QED
    BY <1>1, ReadingRows!FoldHasCourse, ReadingRowsInducts
<1>6. /\ h[0] = r /\ \A n \in 1..N : h[n] = ProcessRow(h[n - 1], RowAt(doc, <<i, n>>))
      /\ t = h[N]
  BY <1>4, <1>5 DEF ReadingRows!Course, RowStep, RowAt
<1> HIDE DEF rows
<1> DEFINE Good(n) == /\ Result(h[n])
                      /\ h[n].ok => Placed(doc, P(n), Stores(h[n].spec, h[n].types))
           S == {n \in 0..N : Good(n)}
<1>7. 0 \in S
  BY <1>1, <1>6 DEF places
<1>8. ASSUME NEW n \in 1..N, n - 1 \in S PROVE n \in S
  <2> DEFINE u == h[n - 1]
             v == h[n]
             p == <<i, n>>
  <2>1. Result(u) /\ v = ProcessRow(u, RowAt(doc, p))
    BY <1>6, <1>8
  <2>2. RowRead(u, v, RowAt(doc, p))
    BY <2>1, ProcessRowIs
  <2>3. Result(v)
    BY <2>2 DEF RowRead
  <2>4. ASSUME v.ok PROVE Placed(doc, P(n), Stores(v.spec, v.types))
    <3>1. u.ok
      BY <2>2, <2>4 DEF RowRead
    <3>2. Placed(doc, P(n - 1), Stores(u.spec, u.types))
      BY <1>8, <3>1
    <3>3. n \in Nat \ {0} /\ p \in places
      BY <1>1, <1>2
    <3>4. P(n) = P(n - 1) \cup {p} /\ \A q \in P(n - 1) : Before(q, p)
      BY <1>1, <1>2, <3>3, UptoIs
    <3>5. P(n - 1) \subseteq RowPlaces(doc) /\ p \in RowPlaces(doc)
      BY <3>3 DEF Upto, places
    <3> HIDE DEF P, u, v, p
    <3>6. Stored(RowAt(doc, p), Stores(u.spec, u.types), Stores(v.spec, v.types))
      BY <2>1, <2>4, <3>1, ProcessRowStores
    <3>7. /\ \A w \in DOMAIN Stores(u.spec, u.types) : Dict(Stores(u.spec, u.types)[w])
          /\ "preset_vars" \in DOMAIN Stores(u.spec, u.types)
      BY <2>1 DEF Stores, RowStores, Result, Sections
    <3> DEFINE D == Stores(u.spec, u.types)
               E == Stores(v.spec, v.types)
    <3> HIDE DEF D, E
    <3>8. /\ Placed(doc, P(n - 1), D) /\ Stored(RowAt(doc, p), D, E)
          /\ (\A w \in DOMAIN D : Dict(D[w])) /\ "preset_vars" \in DOMAIN D
      BY <3>2, <3>6, <3>7 DEF D, E
    <3>9. Placed(doc, P(n - 1) \cup {p}, E)
      BY <3>4, <3>5, <3>8, PlacedStored
    <3> QED
      BY <3>4, <3>9 DEF E
  <2> HIDE DEF P
  <2> QED
    BY <2>3, <2>4
<1> HIDE DEF S
<1>9. 0..N \subseteq S
  BY <1>1, <1>7, <1>8, UpTo
<1>10. Good(N)
  <2>1. N \in S
    BY <1>1, <1>9
  <2> HIDE DEF Good
  <2> QED
    BY <2>1 DEF S
<1>11. Upto(places, i + 1, 0) = P(N)
  <2>1. \A p \in places : p[1] = i => p[2] <= N
    BY <1>1, <1>2, <1>3
  <2> QED
    BY <1>1, <1>2, <2>1, UptoIs
<1> QED
  BY <1>0, <1>6, <1>10, <1>11 DEF t, places

(* No protocol is called None, whatever code blocks say.                   *)
LEMMA ProtocolsNamed ==
  ASSUME NEW r, Result(r), NoName \notin Keys(r.spec["protocols"]), NEW def, NEW heading
  PROVE  NoName \notin Keys(ProcessDefinition(r, def, heading).spec["protocols"])
<1> DEFINE t == ProcessDefinition(r, def, heading)
           stored == Definition(def.text, def.mentions)
<1>1. "protocols" \in Sections /\ \A s \in CodeSections : s \in Sections \ {"protocols"}
  BY DEF Sections, CodeSections
<1>2. {"functions", "dataclasses", "ssz_objects"} \subseteq CodeSections
  BY DEF CodeSections
<1>3. \/ t = r \/ t = Raise(r)
      \/ \E s \in CodeSections : t = Store(r, s, def.name, stored)
      \/ \E value : def.self # NoName /\ t = Store(r, "protocols", def.self, value)
  BY <1>2, Zenon DEF ProcessDefinition, _process_code_def, _process_code_class, stored
<1> HIDE DEF t, stored
<1>4. CASE t = r \/ t = Raise(r)
  BY <1>4, RaiseIs DEF t
<1>5. ASSUME NEW s \in CodeSections, t = Store(r, s, def.name, stored)
      PROVE  NoName \notin Keys(t.spec["protocols"])
  <2>1. Same(r, t, "protocols")
    BY <1>1, <1>5, StoreIs
  <2> QED
    BY <2>1 DEF Same
<1>6. ASSUME NEW value, def.self # NoName, t = Store(r, "protocols", def.self, value)
      PROVE  NoName \notin Keys(t.spec["protocols"])
  <2> DEFINE name == def.self
  <2>1. Dict(r.spec["protocols"])
    BY <1>1 DEF Result
  <2> HIDE DEF name
  <2>2. Store(r, "protocols", name, value).spec["protocols"] = Put(r.spec["protocols"], name, value)
    BY <1>1, StoreIs
  <2>3. t.spec["protocols"] = Put(r.spec["protocols"], name, value) /\ name # NoName
    BY <1>6, <2>2 DEF name
  <2> QED
    BY <2>1, <2>3, PutIs
<1> QED
  BY <1>3, <1>4, <1>5, <1>6 DEF t

LEMMA CodeNamed ==
  ASSUME NEW r, Result(r), NoName \notin Keys(r.spec["protocols"]), NEW block, IsList(block.defs), NEW heading
  PROVE  NoName \notin Keys(_process_code_block(r, block, heading).spec["protocols"])
<1> DEFINE t == _process_code_block(r, block, heading)
           defs == block.defs
           N == Len(defs)
<1>1. N \in Nat /\ DOMAIN defs = 1..N
  BY ListIs
<1>2. CASE block.lang # "python"
  BY <1>2 DEF _process_code_block
<1>3. CASE block.lang = "python"
  <2>1. t = ReadingCode!TheFold(heading, r, defs, N)[1..N]
    BY <1>1, <1>3 DEF _process_code_block, FoldLeft, MapThenFoldSet, Max,
       ReadingCode!TheFold, ReadingCode!Fold, ReadingCode!Largest, DefinitionStep
  <2> HIDE DEF t, N, defs
  <2>2. PICK h : /\ ReadingCode!Course(heading, r, defs, N, h)
                 /\ h[N] = ReadingCode!TheFold(heading, r, defs, N)[1..N]
    BY <1>1, ReadingCode!FoldHasCourse, ReadingCodeInducts
  <2>3. /\ h[0] = r /\ \A n \in 1..N : h[n] = ProcessDefinition(h[n - 1], defs[n], heading)
        /\ t = h[N]
    BY <2>1, <2>2 DEF ReadingCode!Course, DefinitionStep
  <2> DEFINE Good(n) == Result(h[n]) /\ NoName \notin Keys(h[n].spec["protocols"])
             S == {n \in 0..N : Good(n)}
  <2>4. 0 \in S
    BY <1>1, <2>3
  <2>5. ASSUME NEW n \in 1..N, n - 1 \in S PROVE n \in S
    <3>1. Good(n - 1) /\ n \in 0..N
      BY <1>1, <2>5
    <3>2. h[n] = ProcessDefinition(h[n - 1], defs[n], heading)
      BY <2>3
    <3>3. Result(h[n])
      BY <3>1, <3>2, ProcessDefinitionIs DEF DefinitionRead
    <3>4. NoName \notin Keys(h[n].spec["protocols"])
      BY <3>1, <3>2, ProtocolsNamed
    <3> QED
      BY <3>1, <3>3, <3>4
  <2> HIDE DEF S
  <2>6. 0..N \subseteq S
    BY <1>1, <2>4, <2>5, UpTo
  <2>7. N \in S
    BY <1>1, <2>6
  <2> QED
    BY <2>3, <2>7 DEF S, t
<1> QED
  BY <1>2, <1>3

(* At the end of a document the rows are still in their order.             *)
LEMMA FinalPlaced ==
  ASSUME NEW doc, NEW P, NEW s, NEW types, Placed(doc, P, Stores(s, types)),
         NEW t, Finishes(s, t), SameConstants(s, t), TypesSplit(types, t)
  PROVE  Placed(doc, P, Ranked(t))
<1> DEFINE D == Stores(s, types)
           E == Ranked(t)
           Types == {"custom_types", "preset_dep_custom_types"}
           home(u) == IF u \in Types THEN "types" ELSE u
<1>1. /\ DOMAIN D = {"constant_vars", "preset_vars", "preset_dep_constant_vars", "types"}
      /\ DOMAIN E = {"constant_vars", "preset_vars", "preset_dep_constant_vars"} \cup Types
  BY DEF Stores, RowStores, Ranked, Rank
<1>2. /\ E["preset_vars"] = D["preset_vars"]
      /\ D["types"] = types
      /\ \A u \in {"constant_vars", "preset_dep_constant_vars"} : D[u] = s[u]
      /\ \A u \in {"constant_vars", "preset_dep_constant_vars"} \cup Types : E[u] = t[u]
  BY <1>1 DEF Stores, RowStores, Ranked, Finishes
<1>3. Placed(doc, P, D)
  OBVIOUS
<1> HIDE DEF D, E
<1>4. \A u \in DOMAIN E : home(u) \in DOMAIN D /\ Keys(E[u]) \subseteq Keys(D[home(u)])
  BY <1>1, <1>2 DEF SameConstants, SameTexts, TypesSplit
<1>5. \A w \in DOMAIN D : \A n \in Keys(D[w]) : \E u \in DOMAIN E : home(u) = w /\ n \in Keys(E[u])
  <2>1. \A n \in Keys(D["types"]) : \E u \in Types : n \in Keys(E[u])
    BY <1>2 DEF TypesSplit
  <2>2. \A w \in {"constant_vars", "preset_vars", "preset_dep_constant_vars"} : Keys(D[w]) = Keys(E[w])
    BY <1>2 DEF SameConstants, SameTexts
  <2>3. \A u \in Types : u \in DOMAIN E /\ home(u) = "types"
    BY <1>1
  <2>4. \A w \in {"constant_vars", "preset_vars", "preset_dep_constant_vars"} : w \in DOMAIN E /\ home(w) = w
    BY <1>1
  <2> QED
    BY <1>1, <2>1, <2>2, <2>3, <2>4
<1>6. ASSUME NEW u \in DOMAIN E, NEW n \in Keys(E[u]), NEW row, Comes(D, home(u), n, row)
      PROVE  Comes(E, u, n, row)
  <2>1. CASE u \in Types
    <3>1. Get(E[u], n) = Get(D["types"], n)
      BY <1>2, <1>6, <2>1 DEF TypesSplit
    <3> QED
      BY <1>6, <2>1, <3>1 DEF Comes
  <2>2. CASE u = "preset_vars"
    BY <1>2, <1>6, <2>2 DEF Comes
  <2>3. CASE u \in {"constant_vars", "preset_dep_constant_vars"}
    <3>1. \/ Get(E[u], n).mentions = Get(D[u], n).mentions
          \/ u = "constant_vars" /\ n = "CURDLEPROOFS_CRS" /\ Get(E[u], n).mentions = {"curdleproofs", "json"}
      BY <1>2, <1>6, <2>3 DEF SameConstants
    <3>2. Comes(D, u, n, row)
      BY <1>6, <2>3
    <3> QED
      BY <3>1, <3>2 DEF Comes
  <2> QED
    BY <1>1, <2>1, <2>2, <2>3
<1>7. ASSUME NEW u \in DOMAIN E, NEW a \in Keys(E[u]), NEW b \in Keys(E[u]), Ahead(D[home(u)], a, b)
      PROVE  Ahead(E[u], a, b)
  <2>1. CASE u \in Types
    <3>1. TypesInOrder(types, E[u]) /\ D[home(u)] = types
      BY <1>2, <2>1 DEF TypesSplit
    <3> QED
      BY <1>7, <3>1 DEF TypesInOrder
  <2>2. CASE u = "preset_vars"
    BY <1>2, <1>7, <2>2
  <2>3. CASE u \in {"constant_vars", "preset_dep_constant_vars"}
    BY <1>2, <1>7, <2>3 DEF SameConstants, SameTexts
  <2> QED
    BY <1>1, <2>1, <2>2, <2>3
<1> HIDE DEF home
<1>8. \A u \in DOMAIN E : \A a : Sole(E, u, a) => Sole(D, home(u), a)
  BY <1>4, <1>5 DEF Sole
<1>9. ASSUME NEW u \in DOMAIN E, NEW n \in Keys(E[u])
      PROVE  \E p \in KeptIn(doc, P) : RowAt(doc, p).name = n /\ Comes(E, u, n, RowAt(doc, p))
  <2>1. home(u) \in DOMAIN D /\ n \in Keys(D[home(u)])
    BY <1>4, <1>9
  <2>2. PICK p \in KeptIn(doc, P) : RowAt(doc, p).name = n /\ Comes(D, home(u), n, RowAt(doc, p))
    BY <1>3, <2>1 DEF Placed
  <2> QED
    BY <1>6, <1>9, <2>2
<1>10. ASSUME NEW p \in KeptIn(doc, P) PROVE \E u \in DOMAIN E : RowAt(doc, p).name \in Keys(E[u])
  <2>1. PICK w \in DOMAIN D : RowAt(doc, p).name \in Keys(D[w])
    BY <1>3 DEF Placed
  <2> QED
    BY <1>5, <2>1
<1>11. ASSUME NEW u \in DOMAIN E, NEW a, NEW b, Sole(E, u, a), Sole(E, u, b), ReadFirst(doc, P, a, b)
       PROVE  Ahead(E[u], a, b)
  <2>1. home(u) \in DOMAIN D /\ Sole(D, home(u), a) /\ Sole(D, home(u), b)
    BY <1>4, <1>8, <1>11
  <2>2. Ahead(D[home(u)], a, b)
    BY <1>3, <1>11, <2>1 DEF Placed
  <2>3. a \in Keys(E[u]) /\ b \in Keys(E[u])
    BY <1>11 DEF Sole
  <2> QED
    BY <1>7, <2>2, <2>3
<1>12. \A n \in Keys(E["preset_vars"]) : Get(E["preset_vars"], n).text = Yaml[n]
  BY <1>2, <1>3 DEF Placed
<1>13. Placed(doc, P, E)
  BY <1>9, <1>10, <1>11, <1>12 DEF Placed
<1> QED
  BY <1>13 DEF E

(* Nothing is stored yet.                                                  *)
LEMMA NonePlaced ==
  ASSUME NEW doc
  PROVE  Placed(doc, {}, Stores(EmptySpec, <<>>))
<1> DEFINE D == Stores(EmptySpec, <<>>)
<1>1. \A u \in DOMAIN D : Keys(D[u]) = {}
  BY EmptyDict DEF Stores, RowStores, EmptySpec, Sections
<1>2. KeptIn(doc, {}) = {} /\ "preset_vars" \in DOMAIN D
  BY DEF KeptIn, Stores, RowStores
<1> HIDE DEF D
<1>3. Placed(doc, {}, D)
  BY <1>1, <1>2 DEF Placed, Sole
<1> QED
  BY <1>3 DEF D

-----------------------------------------------------------------------------
(* The invariant: as far as the iterator has come, the dictionaries hold   *)
(* what the document says.                                                 *)

(* Elements without definitions, rows or a heading are passed.             *)
LEMMA Passing ==
  ASSUME NEW doc \in Documents, NEW i \in Nat
  PROVE  /\ i \notin Live(doc, "code") =>
              Upto(DefinitionPlaces(doc), i + 1, 0) = Upto(DefinitionPlaces(doc), i, 0)
         /\ i \notin Live(doc, "table") =>
              Upto(RowPlaces(doc), i + 1, 0) = Upto(RowPlaces(doc), i, 0)
         /\ \A heading : i \notin Live(doc, "heading") /\ HeadingIs(doc, i, heading)
                           => HeadingIs(doc, i + 1, heading)
<1>1. /\ Places(DefinitionPlaces(doc)) /\ Places(RowPlaces(doc))
      /\ \A p \in DefinitionPlaces(doc) : p[1] \in Live(doc, "code")
      /\ \A p \in RowPlaces(doc) : p[1] \in Live(doc, "table")
  BY PlacesAre DEF Places
<1>2. ASSUME i \notin Live(doc, "code")
      PROVE  Upto(DefinitionPlaces(doc), i + 1, 0) = Upto(DefinitionPlaces(doc), i, 0)
  <2>1. \A p \in DefinitionPlaces(doc) : p[1] = i => p[2] <= 0
    BY <1>1, <1>2
  <2> QED
    BY <1>1, <2>1, UptoIs
<1>3. ASSUME i \notin Live(doc, "table")
      PROVE  Upto(RowPlaces(doc), i + 1, 0) = Upto(RowPlaces(doc), i, 0)
  <2>1. \A p \in RowPlaces(doc) : p[1] = i => p[2] <= 0
    BY <1>1, <1>3
  <2> QED
    BY <1>1, <2>1, UptoIs
<1>4. ASSUME NEW heading, i \notin Live(doc, "heading"), HeadingIs(doc, i, heading)
      PROVE  HeadingIs(doc, i + 1, heading)
  <2>1. \A g \in Live(doc, "heading") : g \in Nat /\ g # i
    BY <1>4, DocumentIs DEF Live
  <2> QED
    BY <1>4, <2>1 DEF HeadingIs
<1> QED
  BY <1>2, <1>3, <1>4

(* Where the iterator stands after an element.                             *)
LEMMA Standing ==
  ASSUME NEW doc \in Documents, NEW i \in DOMAIN doc, i \notin TakenAway(doc)
  PROVE  /\ i \in Nat /\ i \in 1..Len(doc) /\ Len(doc) \in Nat
         /\ \A kind : i \in Live(doc, kind) <=> doc[i].kind = kind
         /\ doc[i].kind \notin Comments => (i + 1 \in DOMAIN doc => i + 1 \notin TakenAway(doc))
         /\ doc[i].kind \in Comments =>
              /\ \A kind : i + 1 \notin Live(doc, kind)
              /\ i + 2 \in DOMAIN doc => i + 2 \notin TakenAway(doc)
<1>1. DOMAIN doc = 1..Len(doc) /\ Len(doc) \in Nat
  BY DocumentIs
<1>2. i \in Nat /\ i > 0 /\ (i + 1) - 1 = i /\ (i + 2) - 1 = i + 1
  BY <1>1
<1>3. i + 1 \in DOMAIN doc => (i + 1 \in TakenAway(doc) <=> doc[i].kind \in Comments)
  <2> DEFINE j == i + 1
  <2>1. j > 1 /\ j - 1 = i
    BY <1>2
  <2> HIDE DEF j
  <2>2. j \in DOMAIN doc => (j \in TakenAway(doc) <=> doc[i].kind \in Comments)
    BY <2>1, TakenIs
  <2> QED
    BY <2>2 DEF j
<1>4. ASSUME doc[i].kind \in Comments, i + 2 \in DOMAIN doc
      PROVE  i + 2 \notin TakenAway(doc)
  <2> DEFINE j == i + 2
  <2>1. j - 1 = i + 1 /\ j \in DOMAIN doc
    BY <1>2, <1>4
  <2>2. i + 1 \in DOMAIN doc
    BY <1>1, <1>4
  <2>3. i + 1 \in TakenAway(doc)
    BY <1>3, <1>4, <2>2
  <2> HIDE DEF j
  <2>4. j \notin TakenAway(doc)
    BY <2>1, <2>3, TakenIs
  <2> QED
    BY <2>4 DEF j
<1>5. \A kind : i \in Live(doc, kind) <=> doc[i].kind = kind
  BY DEF Live
<1>6. doc[i].kind \in Comments => \A kind : i + 1 \notin Live(doc, kind)
  BY <1>3 DEF Live
<1> QED
  BY <1>1, <1>2, <1>3, <1>4, <1>5, <1>6

(* Progress is about code sections, RowsRead about two sections of tables, *)
(* Arranged about these, the presets and the protocols.                    *)
LEMMA Untouched ==
  ASSUME NEW doc, NEW P, NEW s, NEW t, NEW types
  PROVE  /\ Progress(doc, P, s) /\ (\A section \in CodeSections : t[section] = s[section])
              => Progress(doc, P, t)
         /\ RowsRead(doc, P, s, types) /\ t["constant_vars"] = s["constant_vars"]
              /\ t["preset_dep_constant_vars"] = s["preset_dep_constant_vars"]
              => RowsRead(doc, P, t, types)
         /\ Arranged(doc, P, s, types) /\ NoName \notin Keys(t["protocols"])
              /\ (\A section \in RowStores \ {"types"} : t[section] = s[section])
              => Arranged(doc, P, t, types)
<1>1. ASSUME Progress(doc, P, s), \A section \in CodeSections : t[section] = s[section]
      PROVE  Progress(doc, P, t)
  BY <1>1 DEF Progress
<1>2. ASSUME RowsRead(doc, P, s, types), t["constant_vars"] = s["constant_vars"],
             t["preset_dep_constant_vars"] = s["preset_dep_constant_vars"]
      PROVE  RowsRead(doc, P, t, types)
  BY <1>2 DEF RowsRead, RowsKept
<1>3. ASSUME Arranged(doc, P, s, types), NoName \notin Keys(t["protocols"]),
             \A section \in RowStores \ {"types"} : t[section] = s[section]
      PROVE  Arranged(doc, P, t, types)
  <2>1. Stores(t, types) = Stores(s, types)
    BY <1>3 DEF Stores
  <2> QED
    BY <1>3, <2>1 DEF Arranged
<1> QED
  BY <1>1, <1>2, <1>3

(* The beginning of a document.                                            *)
LEMMA Beginning ==
  ASSUME NEW doc \in Documents
  PROVE  ReadSoFar(doc, 1, NoName, EmptySpec, <<>>, "parsing")
<1>1. DOMAIN doc = 1..Len(doc) /\ Len(doc) \in Nat
  BY DocumentIs
<1>2. /\ \A p \in DefinitionPlaces(doc) : p[1] \in Live(doc, "code") /\ p[2] \in Nat
      /\ \A p \in RowPlaces(doc) : p[1] \in Live(doc, "table") /\ p[2] \in Nat
      /\ \A p \in DefinitionPlaces(doc) \cup RowPlaces(doc) : p[2] > 0
  BY PlacesAre DEF Places
<1>3. Upto(DefinitionPlaces(doc), 1, 0) = {} /\ Upto(RowPlaces(doc), 1, 0) = {}
  BY <1>1, <1>2 DEF Upto, Live
<1>4. /\ Dictionaries(EmptySpec) /\ Dict(<<>>)
      /\ \A section \in Sections : Keys(EmptySpec[section]) = {}
  BY EmptyDict DEF Dictionaries, EmptySpec
<1>5. Progress(doc, {}, EmptySpec)
  BY <1>4 DEF Progress, CodeRead, In, CodeSections, Sections, From
<1>6. RowsRead(doc, {}, EmptySpec, <<>>)
  <2>1. Entries(doc, {}) = {}
    BY DEF Entries
  <2>2. Keys(<<>>) = {}
    BY EmptyDict
  <2> QED
    BY <1>4, <2>1, <2>2 DEF RowsRead, Sections, RowsKept, From
<1>7. 1 \in DOMAIN doc => 1 \notin TakenAway(doc)
  <2> DEFINE j == 1
  <2>1. ~ (j > 1)
    OBVIOUS
  <2> HIDE DEF j
  <2>2. j \in DOMAIN doc => j \notin TakenAway(doc)
    BY <2>1, TakenIs
  <2> QED
    BY <2>2 DEF j
<1>8. Arranged(doc, {}, EmptySpec, <<>>)
  BY <1>4, NonePlaced DEF Arranged, Sections
<1>9. Parsing(doc, 1, NoName, EmptySpec, <<>>)
  BY <1>3, <1>5, <1>6, <1>7, <1>8 DEF Parsing, HeadingIs
<1> QED
  BY <1>1, <1>4, <1>9 DEF ReadSoFar

(* An outcome that comes from the dictionaries and is stored there.        *)
LEMMA HereIs ==
  ASSUME Inv
  PROVE  /\ Result(Here) /\ Here.ok /\ Here.spec = spec /\ Here.types = all_custom_types
         /\ \A t : Result(t) /\ Becomes(t) =>
              /\ spec' = t.spec /\ all_custom_types' = t.types
              /\ Dictionaries(spec') /\ Dict(all_custom_types')
              /\ status' = IF t.ok THEN "parsing" ELSE "error"
<1>1. Here.ok = TRUE /\ Here.spec = spec /\ Here.types = all_custom_types
  BY DEF Here, Outcome
<1>2. Result(Here)
  <2>1. Dictionaries(spec) /\ Dict(all_custom_types)
    BY DEF Inv, ReadSoFar
  <2>2. Here = Outcome(Here.spec, Here.types, Here.ok)
    BY <1>1, Zenon DEF Here
  <2> HIDE DEF Here
  <2> QED
    BY <1>1, <2>1, <2>2 DEF Result, Dictionaries
<1>3. ASSUME NEW t, Result(t), Becomes(t)
      PROVE  /\ spec' = t.spec /\ all_custom_types' = t.types
             /\ Dictionaries(spec') /\ Dict(all_custom_types')
             /\ status' = IF t.ok THEN "parsing" ELSE "error"
  <2>1. spec' = t.spec /\ all_custom_types' = t.types /\ status' = IF t.ok THEN "parsing" ELSE "error"
    BY <1>3 DEF Becomes
  <2>2. Dictionaries(t.spec) /\ Dict(t.types)
    BY <1>3 DEF Result, Dictionaries
  <2> QED
    BY <2>1, <2>2
<1> QED
  BY <1>1, <1>2, <1>3

(* What an action finds when it takes an element.                          *)
LEMMA TakesIs ==
  ASSUME Inv, NEW kind, Takes(kind)
  PROVE  /\ document \in Documents /\ document' = document
         /\ at \in Nat /\ at \in 1..Len(document) /\ Len(document) \in Nat
         /\ at \in DOMAIN document /\ at \notin TakenAway(document)
         /\ document[at].kind = kind /\ Element = document[at]
         /\ status = "parsing"
         /\ Dictionaries(spec) /\ Dict(all_custom_types)
         /\ Parsing(document, at, current_heading_name, spec, all_custom_types)
<1>1. /\ document \in Documents /\ at \in 1..(Len(document) + 2) /\ status = "parsing"
      /\ at <= Len(document) /\ document' = document /\ Element = document[at] /\ Element.kind = kind
      /\ Dictionaries(spec) /\ Dict(all_custom_types)
      /\ Parsing(document, at, current_heading_name, spec, all_custom_types)
  BY DEF Inv, ReadSoFar, Takes, Element
<1>2. Len(document) \in Nat /\ DOMAIN document = 1..Len(document)
  BY <1>1, DocumentIs
<1>3. at \in 1..Len(document) /\ at \in Nat
  BY <1>1, <1>2
<1> QED
  BY <1>1, <1>2, <1>3 DEF Parsing

LEMMA HeadingKeeps ==
  ASSUME Inv, _process_heading
  PROVE  Inv'
<1> DEFINE doc == document
           heading == document[at].name
<1>1. Takes("heading")
  BY DEF _process_heading
<1>2. /\ doc \in Documents /\ document' = doc /\ at \in Nat /\ at \in 1..Len(doc) /\ Len(doc) \in Nat
      /\ at \in DOMAIN doc /\ at \notin TakenAway(doc) /\ doc[at].kind = "heading"
      /\ status = "parsing" /\ Dictionaries(spec) /\ Dict(all_custom_types)
      /\ Parsing(doc, at, current_heading_name, spec, all_custom_types) /\ Element = doc[at]
  BY <1>1, TakesIs
<1>3. /\ at' = at + 1 /\ current_heading_name' = heading /\ spec' = spec
      /\ all_custom_types' = all_custom_types /\ status' = status
  BY <1>2 DEF _process_heading
<1>4. /\ \A kind : at \in Live(doc, kind) <=> doc[at].kind = kind
      /\ at + 1 \in DOMAIN doc => at + 1 \notin TakenAway(doc)
  BY <1>2, Standing DEF Comments
<1>5. /\ Upto(DefinitionPlaces(doc), at + 1, 0) = Upto(DefinitionPlaces(doc), at, 0)
      /\ Upto(RowPlaces(doc), at + 1, 0) = Upto(RowPlaces(doc), at, 0)
  BY <1>2, <1>4, Passing
<1>6. HeadingIs(doc, at + 1, heading)
  <2>1. at \in Live(doc, "heading") /\ at < at + 1 /\ doc[at].name = heading
    BY <1>2, <1>4
  <2>2. \A g \in Live(doc, "heading") : g <= at \/ at + 1 <= g
    BY <1>2, DocumentIs DEF Live
  <2> HIDE DEF heading
  <2> QED
    BY <2>1, <2>2 DEF HeadingIs
<1> HIDE DEF heading
<1>7. Parsing(doc, at + 1, heading, spec, all_custom_types)
  BY <1>2, <1>4, <1>5, <1>6 DEF Parsing
<1>8. at + 1 \in 1..(Len(doc) + 2)
  BY <1>2
<1>9. ReadSoFar(doc, at + 1, heading, spec, all_custom_types, "parsing")
  BY <1>2, <1>7, <1>8 DEF ReadSoFar
<1> QED
  BY <1>2, <1>3, <1>9 DEF Inv

LEMMA CodeKeeps ==
  ASSUME Inv, ProcessCode
  PROVE  Inv'
<1> DEFINE doc == document
           t == _process_code_block(Here, doc[at], current_heading_name)
<1>1. Takes("code")
  BY DEF ProcessCode
<1>2. /\ doc \in Documents /\ document' = doc /\ at \in Nat /\ at \in 1..Len(doc) /\ Len(doc) \in Nat
      /\ at \in DOMAIN doc /\ at \notin TakenAway(doc) /\ doc[at].kind = "code"
      /\ status = "parsing" /\ Dictionaries(spec) /\ Dict(all_custom_types)
      /\ Parsing(doc, at, current_heading_name, spec, all_custom_types) /\ Element = doc[at]
  BY <1>1, TakesIs
<1>3. /\ at' = at + 1 /\ current_heading_name' = current_heading_name /\ Becomes(t)
  BY <1>2 DEF ProcessCode
<1>4. /\ \A kind : at \in Live(doc, kind) <=> doc[at].kind = kind
      /\ at + 1 \in DOMAIN doc => at + 1 \notin TakenAway(doc)
  BY <1>2, Standing DEF Comments
<1>5. at \in Live(doc, "code") /\ at \notin Live(doc, "table") /\ at \notin Live(doc, "heading")
  BY <1>2, <1>4
<1>6. /\ HeadingIs(doc, at, current_heading_name)
      /\ Progress(doc, Upto(DefinitionPlaces(doc), at, 0), spec)
      /\ RowsRead(doc, Upto(RowPlaces(doc), at, 0), spec, all_custom_types)
      /\ Arranged(doc, Upto(RowPlaces(doc), at, 0), spec, all_custom_types)
  BY <1>2 DEF Parsing
<1>7. Result(Here) /\ Here.ok /\ Here.spec = spec /\ Here.types = all_custom_types
  BY HereIs
<1>8. /\ Result(t) /\ t.types = all_custom_types
      /\ \A s \in Sections \ (CodeSections \cup {"protocols"}) : Same(Here, t, s)
      /\ t.ok => Progress(doc, Upto(DefinitionPlaces(doc), at + 1, 0), t.spec)
      /\ NoName \notin Keys(t.spec["protocols"])
  <2> HIDE DEF Here
  <2>1. IsList(doc[at].defs) /\ NoName \notin Keys(Here.spec["protocols"])
    BY <1>2, <1>6, <1>7, DocumentsAssumption DEF Arranged
  <2> QED
    BY <1>2, <1>5, <1>6, <1>7, <2>1, CodeBlockIs, CodeNamed
<1> HIDE DEF t
<1>9. /\ spec' = t.spec /\ all_custom_types' = t.types
      /\ Dictionaries(spec') /\ Dict(all_custom_types')
      /\ status' = IF t.ok THEN "parsing" ELSE "error"
  BY <1>3, <1>8, HereIs
<1>10. ASSUME t.ok PROVE Parsing(doc, at + 1, current_heading_name, t.spec, t.types)
  <2>1. /\ t.spec["constant_vars"] = spec["constant_vars"]
        /\ t.spec["preset_dep_constant_vars"] = spec["preset_dep_constant_vars"]
    BY <1>7, <1>8 DEF Same, Sections, CodeSections
  <2>2. RowsRead(doc, Upto(RowPlaces(doc), at + 1, 0), t.spec, t.types)
    BY <1>2, <1>5, <1>6, <1>8, <2>1, Passing, Untouched
  <2>3. HeadingIs(doc, at + 1, current_heading_name)
    BY <1>2, <1>5, <1>6, Passing
  <2>4. \A section \in RowStores \ {"types"} : t.spec[section] = spec[section]
    BY <1>7, <1>8 DEF Same, Sections, CodeSections, RowStores
  <2>5. Arranged(doc, Upto(RowPlaces(doc), at + 1, 0), t.spec, t.types)
    BY <1>2, <1>5, <1>6, <1>8, <2>4, Passing, Untouched
  <2> QED
    BY <1>4, <1>8, <1>10, <2>2, <2>3, <2>5 DEF Parsing
<1>11. at + 1 \in 1..(Len(doc) + 2)
  BY <1>2
<1>12. ReadSoFar(doc, at + 1, current_heading_name, spec', all_custom_types', status')
  BY <1>2, <1>9, <1>10, <1>11 DEF ReadSoFar
<1> QED
  BY <1>2, <1>3, <1>12 DEF Inv

LEMMA TableKeeps ==
  ASSUME Inv, ProcessTable
  PROVE  Inv'
<1> DEFINE doc == document
           t == _process_table(Here, doc[at])
<1>1. Takes("table")
  BY DEF ProcessTable
<1>2. /\ doc \in Documents /\ document' = doc /\ at \in Nat /\ at \in 1..Len(doc) /\ Len(doc) \in Nat
      /\ at \in DOMAIN doc /\ at \notin TakenAway(doc) /\ doc[at].kind = "table"
      /\ status = "parsing" /\ Dictionaries(spec) /\ Dict(all_custom_types)
      /\ Parsing(doc, at, current_heading_name, spec, all_custom_types) /\ Element = doc[at]
  BY <1>1, TakesIs
<1>3. /\ at' = at + 1 /\ current_heading_name' = current_heading_name /\ Becomes(t)
  BY <1>2 DEF ProcessTable
<1>4. /\ \A kind : at \in Live(doc, kind) <=> doc[at].kind = kind
      /\ at + 1 \in DOMAIN doc => at + 1 \notin TakenAway(doc)
  BY <1>2, Standing DEF Comments
<1>5. at \in Live(doc, "table") /\ at \notin Live(doc, "code") /\ at \notin Live(doc, "heading")
  BY <1>2, <1>4
<1>6. /\ HeadingIs(doc, at, current_heading_name)
      /\ Progress(doc, Upto(DefinitionPlaces(doc), at, 0), spec)
      /\ RowsRead(doc, Upto(RowPlaces(doc), at, 0), spec, all_custom_types)
      /\ Arranged(doc, Upto(RowPlaces(doc), at, 0), spec, all_custom_types)
  BY <1>2 DEF Parsing
<1>7. Result(Here) /\ Here.ok /\ Here.spec = spec /\ Here.types = all_custom_types
  BY HereIs
<1>8. /\ Result(t)
      /\ \A s \in CodeSections \cup {"protocols"} : Same(Here, t, s)
      /\ t.ok => RowsRead(doc, Upto(RowPlaces(doc), at + 1, 0), t.spec, t.types)
      /\ t.ok => Placed(doc, Upto(RowPlaces(doc), at + 1, 0), Stores(t.spec, t.types))
  <2> HIDE DEF Here
  <2>1. Placed(doc, Upto(RowPlaces(doc), at, 0), Stores(Here.spec, Here.types))
    BY <1>6, <1>7 DEF Arranged
  <2> QED
    BY <1>2, <1>5, <1>6, <1>7, <2>1, TableIs, TablePlaced
<1> HIDE DEF t
<1>9. /\ spec' = t.spec /\ all_custom_types' = t.types
      /\ Dictionaries(spec') /\ Dict(all_custom_types')
      /\ status' = IF t.ok THEN "parsing" ELSE "error"
  BY <1>3, <1>8, HereIs
<1>10. ASSUME t.ok PROVE Parsing(doc, at + 1, current_heading_name, t.spec, t.types)
  <2>1. \A section \in CodeSections : t.spec[section] = spec[section]
    BY <1>7, <1>8 DEF Same
  <2>2. Progress(doc, Upto(DefinitionPlaces(doc), at + 1, 0), t.spec)
    BY <1>2, <1>5, <1>6, <2>1, Passing, Untouched
  <2>3. HeadingIs(doc, at + 1, current_heading_name)
    BY <1>2, <1>5, <1>6, Passing
  <2>4. NoName \notin Keys(t.spec["protocols"])
    BY <1>6, <1>7, <1>8 DEF Arranged, Same
  <2>5. Arranged(doc, Upto(RowPlaces(doc), at + 1, 0), t.spec, t.types)
    BY <1>8, <1>10, <2>4 DEF Arranged
  <2> QED
    BY <1>4, <1>8, <1>10, <2>2, <2>3, <2>5 DEF Parsing
<1>11. at + 1 \in 1..(Len(doc) + 2)
  BY <1>2
<1>12. ReadSoFar(doc, at + 1, current_heading_name, spec', all_custom_types', status')
  BY <1>2, <1>9, <1>10, <1>11 DEF ReadSoFar
<1> QED
  BY <1>2, <1>3, <1>12 DEF Inv

(* After a comment and the element it takes away.                          *)
LEMMA AfterComment ==
  ASSUME NEW doc \in Documents, NEW i \in DOMAIN doc, i \notin TakenAway(doc),
         doc[i].kind \in Comments, NEW heading, NEW s, NEW types, Parsing(doc, i, heading, s, types), NEW t,
         \A section \in PassedSections : t[section] = s[section]
  PROVE  Parsing(doc, i + 2, heading, t, types) /\ i + 2 \in 1..(Len(doc) + 2)
<1>1. /\ i \in Nat /\ i \in 1..Len(doc) /\ Len(doc) \in Nat
      /\ \A kind \in {"code", "table", "heading"} : i \notin Live(doc, kind) /\ i + 1 \notin Live(doc, kind)
      /\ i + 2 \in DOMAIN doc => i + 2 \notin TakenAway(doc)
  BY Standing DEF Comments
<1> DEFINE j == i + 1
<1>2. j \in Nat /\ j + 1 = i + 2 /\ i + 2 \in 1..(Len(doc) + 2)
  BY <1>1
<1>3. /\ Upto(DefinitionPlaces(doc), j, 0) = Upto(DefinitionPlaces(doc), i, 0)
      /\ Upto(RowPlaces(doc), j, 0) = Upto(RowPlaces(doc), i, 0)
      /\ HeadingIs(doc, j, heading)
  BY <1>1, Passing DEF Parsing
<1>4. \A kind \in {"code", "table", "heading"} : j \notin Live(doc, kind)
  BY <1>1
<1> HIDE DEF j
<1>5. /\ Upto(DefinitionPlaces(doc), i + 2, 0) = Upto(DefinitionPlaces(doc), i, 0)
      /\ Upto(RowPlaces(doc), i + 2, 0) = Upto(RowPlaces(doc), i, 0)
      /\ HeadingIs(doc, i + 2, heading)
  BY <1>2, <1>3, <1>4, Passing
<1>6. /\ Progress(doc, Upto(DefinitionPlaces(doc), i + 2, 0), t)
      /\ RowsRead(doc, Upto(RowPlaces(doc), i + 2, 0), t, types)
  BY <1>5, Untouched DEF Parsing, PassedSections
<1>7. Arranged(doc, Upto(RowPlaces(doc), i + 2, 0), t, types)
  <2>1. \A section \in RowStores \ {"types"} : t[section] = s[section]
    BY DEF PassedSections, RowStores
  <2>2. Arranged(doc, Upto(RowPlaces(doc), i, 0), s, types) /\ t["protocols"] = s["protocols"]
    BY DEF Parsing, PassedSections
  <2> QED
    BY <1>5, <2>1, <2>2, Untouched DEF Arranged
<1> QED
  BY <1>1, <1>2, <1>5, <1>6, <1>7 DEF Parsing

LEMMA SkipKeeps ==
  ASSUME Inv, Skip
  PROVE  Inv'
<1> DEFINE doc == document
<1>1. Takes("skip")
  BY DEF Skip
<1>2. /\ doc \in Documents /\ document' = doc
      /\ at \in DOMAIN doc /\ at \notin TakenAway(doc) /\ doc[at].kind = "skip"
      /\ status = "parsing" /\ Dictionaries(spec) /\ Dict(all_custom_types)
      /\ Parsing(doc, at, current_heading_name, spec, all_custom_types)
  BY <1>1, TakesIs
<1>3. /\ at' = at + 2 /\ current_heading_name' = current_heading_name /\ spec' = spec
      /\ all_custom_types' = all_custom_types /\ status' = status
  BY DEF Skip
<1>4. Parsing(doc, at + 2, current_heading_name, spec, all_custom_types) /\ at + 2 \in 1..(Len(doc) + 2)
  BY <1>2, AfterComment DEF Comments
<1>5. ReadSoFar(doc, at + 2, current_heading_name, spec, all_custom_types, "parsing")
  BY <1>2, <1>4 DEF ReadSoFar
<1> QED
  BY <1>2, <1>3, <1>5 DEF Inv

LEMMA ListKeeps ==
  ASSUME Inv, ListOfRecords
  PROVE  Inv'
<1> DEFINE doc == document
           t == IF at < Len(doc) /\ doc[at + 1].kind = "table"
                THEN _process_list_of_records_table(Here, doc[at + 1], Element.name) ELSE Raise(Here)
<1>1. Takes("list-of-records")
  BY DEF ListOfRecords
<1>2. /\ doc \in Documents /\ document' = doc
      /\ at \in DOMAIN doc /\ at \notin TakenAway(doc) /\ doc[at].kind = "list-of-records"
      /\ status = "parsing" /\ Dictionaries(spec) /\ Dict(all_custom_types)
      /\ Parsing(doc, at, current_heading_name, spec, all_custom_types)
  BY <1>1, TakesIs
<1>3. /\ at' = at + 2 /\ current_heading_name' = current_heading_name /\ Becomes(t)
  BY DEF ListOfRecords
<1>4. Result(Here) /\ Here.ok /\ Here.spec = spec /\ Here.types = all_custom_types
  BY HereIs
<1>5. /\ Result(t) /\ t.types = all_custom_types
      /\ t.ok => \A s \in PassedSections : Same(Here, t, s)
  <2> HIDE DEF Here
  <2>1. /\ Result(_process_list_of_records_table(Here, doc[at + 1], Element.name))
        /\ _process_list_of_records_table(Here, doc[at + 1], Element.name).types = Here.types
        /\ \A s \in PassedSections :
             Same(Here, _process_list_of_records_table(Here, doc[at + 1], Element.name), s)
    BY <1>4, ListOfRecordsIs
  <2>2. Result(Raise(Here)) /\ Raise(Here).types = Here.types /\ ~ Raise(Here).ok
    BY <1>4, RaiseIs
  <2> QED
    BY <1>4, <2>1, <2>2
<1> HIDE DEF t
<1>6. /\ spec' = t.spec /\ all_custom_types' = t.types
      /\ Dictionaries(spec') /\ Dict(all_custom_types')
      /\ status' = IF t.ok THEN "parsing" ELSE "error"
  BY <1>3, <1>5, HereIs
<1>7. Parsing(doc, at + 2, current_heading_name, spec, all_custom_types) /\ at + 2 \in 1..(Len(doc) + 2)
  BY <1>2, AfterComment DEF Comments
<1>8. ASSUME t.ok PROVE Parsing(doc, at + 2, current_heading_name, t.spec, t.types)
  <2>1. \A s \in PassedSections : t.spec[s] = spec[s]
    BY <1>4, <1>5, <1>8 DEF Same
  <2> QED
    BY <1>2, <1>5, <2>1, AfterComment DEF Comments
<1>9. ReadSoFar(doc, at + 2, current_heading_name, spec', all_custom_types', status')
  BY <1>2, <1>6, <1>7, <1>8 DEF ReadSoFar
<1> QED
  BY <1>2, <1>3, <1>9 DEF Inv

LEMMA OtherKeeps ==
  ASSUME Inv, IgnoreElement
  PROVE  Inv'
<1> DEFINE doc == document
<1>1. Takes("other")
  BY DEF IgnoreElement
<1>2. /\ doc \in Documents /\ document' = doc /\ at \in Nat /\ at \in 1..Len(doc) /\ Len(doc) \in Nat
      /\ at \in DOMAIN doc /\ at \notin TakenAway(doc) /\ doc[at].kind = "other"
      /\ status = "parsing" /\ Dictionaries(spec) /\ Dict(all_custom_types)
      /\ Parsing(doc, at, current_heading_name, spec, all_custom_types)
  BY <1>1, TakesIs
<1>3. /\ at' = at + 1 /\ current_heading_name' = current_heading_name /\ spec' = spec
      /\ all_custom_types' = all_custom_types /\ status' = status
  BY DEF IgnoreElement
<1>4. /\ \A kind \in {"code", "table", "heading"} : at \notin Live(doc, kind)
      /\ at + 1 \in DOMAIN doc => at + 1 \notin TakenAway(doc)
  BY <1>2, Standing DEF Comments
<1>5. /\ Upto(DefinitionPlaces(doc), at + 1, 0) = Upto(DefinitionPlaces(doc), at, 0)
      /\ Upto(RowPlaces(doc), at + 1, 0) = Upto(RowPlaces(doc), at, 0)
      /\ HeadingIs(doc, at + 1, current_heading_name)
  BY <1>2, <1>4, Passing DEF Parsing
<1>6. Parsing(doc, at + 1, current_heading_name, spec, all_custom_types)
  BY <1>2, <1>4, <1>5 DEF Parsing
<1>7. at + 1 \in 1..(Len(doc) + 2)
  BY <1>2
<1>8. ReadSoFar(doc, at + 1, current_heading_name, spec, all_custom_types, "parsing")
  BY <1>2, <1>6, <1>7 DEF ReadSoFar
<1> QED
  BY <1>2, <1>3, <1>8 DEF Inv

LEMMA FinalizeKeeps ==
  ASSUME Inv, Finalize
  PROVE  Inv'
<1> DEFINE doc == document
           t == _finalize_types(spec, all_custom_types)
<1>1. /\ doc \in Documents /\ document' = doc /\ at \in 1..(Len(doc) + 2) /\ at' = at
      /\ status = "parsing" /\ Dictionaries(spec) /\ Dict(all_custom_types)
      /\ Parsing(doc, at, current_heading_name, spec, all_custom_types) /\ at > Len(doc)
      /\ current_heading_name' = current_heading_name /\ all_custom_types' = all_custom_types
  BY DEF Inv, ReadSoFar, Finalize
<1>2. DOMAIN doc = 1..Len(doc) /\ Len(doc) \in Nat /\ at \in Nat
  BY <1>1, DocumentIs
<1>3. /\ \A p \in DefinitionPlaces(doc) : p[1] \in Live(doc, "code")
      /\ \A p \in RowPlaces(doc) : p[1] \in Live(doc, "table")
  BY <1>1, PlacesAre DEF Places
<1>4. \A kind : \A i \in Live(doc, kind) : i < at
  BY <1>1, <1>2 DEF Live
<1>5. /\ Upto(DefinitionPlaces(doc), at, 0) = DefinitionPlaces(doc)
      /\ Upto(RowPlaces(doc), at, 0) = RowPlaces(doc)
  BY <1>3, <1>4 DEF Upto
<1>6. /\ Progress(doc, DefinitionPlaces(doc), spec) /\ RowsRead(doc, RowPlaces(doc), spec, all_custom_types)
      /\ NoName \notin Keys(spec["protocols"])
      /\ Placed(doc, RowPlaces(doc), Stores(spec, all_custom_types))
  BY <1>1, <1>5 DEF Parsing, Arranged
<1>7. CASE UsesKzgSetup(spec) => KzgSetupComplete(spec)
  <2>1. spec' = t /\ status' = "done"
    BY <1>7 DEF Finalize
  <2>2. /\ Finishes(spec, t) /\ SameConstants(spec, t) /\ TypesSplit(all_custom_types, t)
        /\ Says(doc, t)
        /\ InOrder(doc) =>
             \A section \in {"constant_vars", "custom_types"} : \A i \in DOMAIN t[section] :
               t[section][i].def.mentions
                 \cap (Preset \cup Keys(t["preset_dep_constant_vars"])) = {}
    BY <1>1, <1>6, <1>7, FinalIs
  <2> HIDE DEF t
  <2>3. Dictionaries(t) /\ Progress(doc, DefinitionPlaces(doc), t)
    BY <1>6, <2>2, Untouched DEF Finishes
  <2>4. Placed(doc, RowPlaces(doc), Ranked(t)) /\ NoName \notin Keys(t["protocols"])
    BY <1>6, <2>2, FinalPlaced DEF Finishes
  <2>5. Done(doc, t)
    BY <2>2, <2>3, <2>4 DEF Done
  <2>6. ReadSoFar(doc, at, current_heading_name, t, all_custom_types, "done")
    BY <1>1, <2>3, <2>5 DEF ReadSoFar
  <2> QED
    BY <1>1, <2>1, <2>6 DEF Inv
<1>8. CASE ~ (UsesKzgSetup(spec) => KzgSetupComplete(spec))
  <2>1. spec' = spec /\ status' = "error"
    BY <1>8 DEF Finalize
  <2>2. ReadSoFar(doc, at, current_heading_name, spec, all_custom_types, "error")
    BY <1>1 DEF ReadSoFar
  <2> QED
    BY <1>1, <2>1, <2>2 DEF Inv
<1> QED
  BY <1>7, <1>8

(* Every step of the parser keeps the invariant.                           *)
LEMMA ParserKeeps ==
  ASSUME Inv, [Next]_vars
  PROVE  Inv'
<1>1. CASE _process_heading
  BY <1>1, HeadingKeeps
<1>2. CASE ProcessCode
  BY <1>2, CodeKeeps
<1>3. CASE ProcessTable
  BY <1>3, TableKeeps
<1>4. CASE Skip
  BY <1>4, SkipKeeps
<1>5. CASE ListOfRecords
  BY <1>5, ListKeeps
<1>6. CASE IgnoreElement
  BY <1>6, OtherKeeps
<1>7. CASE Finalize
  BY <1>7, FinalizeKeeps
<1>8. CASE UNCHANGED vars
  BY <1>8 DEF vars, Inv
<1> QED
  BY <1>1, <1>2, <1>3, <1>4, <1>5, <1>6, <1>7, <1>8 DEF Next

(* The invariant says of a finished document what the properties say.      *)
LEMMA WhatIsRead ==
  ASSUME Inv
  PROVE  TypeOK /\ LastDefinitionStands /\ ClassesUnderTheirHeading /\ PlainNeedsNoPreset
<1>1. TypeOK
  BY DEF Inv, ReadSoFar, Dictionaries, Dict, TypeOK
<1>2. status = "done" => Done(document, spec)
  BY DEF Inv, ReadSoFar
<1>3. \A section : PlacesOf(section) = In(document, DefinitionPlaces(document), section)
  BY DEF PlacesOf, In
<1>4. LastDefinitionStands
  <2> SUFFICES ASSUME status = "done", NEW s \in CodeSections
               PROVE  /\ Keys(spec[s]) = {DefinitionAt(document, p).name : p \in PlacesOf(s)}
                      /\ \A p \in PlacesOf(s) :
                           LET def == DefinitionAt(document, p)
                           IN \/ Get(spec[s], def.name).text = def.text
                              \/ \E q \in PlacesOf(s) :
                                   Before(p, q) /\ DefinitionAt(document, q).name = def.name
    BY DEF LastDefinitionStands, CodeSections
  <2>1. CodeRead(document, DefinitionPlaces(document), spec[s], s)
    BY <1>2 DEF Done, Progress
  <2> QED
    BY <1>3, <2>1 DEF CodeRead
<1>5. ClassesUnderTheirHeading
  BY <1>2, <1>3 DEF ClassesUnderTheirHeading, Done, Progress, UnderHeading
<1>6. PlainNeedsNoPreset
  <2>1. DeclaredBeforeUse => InOrder(document)
    BY DEF DeclaredBeforeUse, InOrder
  <2> QED
    BY <1>2, <2>1 DEF PlainNeedsNoPreset, Done
<1> QED
  BY <1>1, <1>4, <1>5, <1>6

(* One document: whatever comments, headings and definitions it has, in    *)
(* whatever order, MarkdownToSpec makes of it what it says.                *)
THEOREM DocumentIsRead ==
  Spec => [](TypeOK /\ LastDefinitionStands /\ ClassesUnderTheirHeading /\ PlainNeedsNoPreset)
<1>1. Init => Inv
  <2> SUFFICES ASSUME Init PROVE Inv
    OBVIOUS
  <2>1. /\ document \in Documents /\ at = 1 /\ current_heading_name = NoName
        /\ spec = EmptySpec /\ all_custom_types = <<>> /\ status = "parsing"
    BY DEF Init
  <2> QED
    BY <2>1, Beginning DEF Inv
<1>2. Inv /\ [Next]_vars => Inv'
  BY ParserKeeps
<1>3. Inv => TypeOK /\ LastDefinitionStands /\ ClassesUnderTheirHeading /\ PlainNeedsNoPreset
  BY WhatIsRead
<1> QED
  BY <1>1, <1>2, <1>3, PTL DEF Spec

-----------------------------------------------------------------------------
(* Lists. *)

(* Two lists after each other.                                             *)
LEMMA Concatenation ==
  ASSUME NEW p, IsList(p), NEW q, IsList(q), NEW r, r = p \o q
  PROVE  Joined(p, q, r)
<1> DEFINE P == Len(p)
           Q == Len(q)
<1>1. P \in Nat /\ Q \in Nat /\ DOMAIN p = 1..P /\ DOMAIN q = 1..Q
  BY ListIs
<1>2. r = [i \in 1..(P + Q) |-> IF i <= P THEN p[i] ELSE q[i - P]]
  <2> DEFINE A == {p[i] : i \in DOMAIN p}
             B == {q[i] : i \in DOMAIN q}
  <2>1. p \in Seq(A) /\ q \in Seq(B)
    BY DEF IsList
  <2> HIDE DEF A, B
  <2>2. p \in Seq(A \cup B) /\ q \in Seq(A \cup B)
    BY <2>1
  <2>3. r \in Seq(A \cup B) /\ Len(r) = P + Q
    BY <2>2
  <2>4. \A i \in 1..(P + Q) : r[i] = IF i <= P THEN p[i] ELSE q[i - P]
    BY <1>1, <2>2
  <2> HIDE DEF P, Q
  <2> DEFINE C == A \cup B
  <2>5. r \in Seq(C) /\ P + Q \in Nat
    BY <1>1, <2>3
  <2> HIDE DEF C
  <2>6. r = [i \in 1..(P + Q) |-> r[i]]
    BY ONLY <2>3, <2>5
  <2> QED
    BY <2>4, <2>6
<1> HIDE DEF P, Q
<1>3. P + Q \in Nat /\ r = [i \in 1..(P + Q) |-> r[i]]
  BY <1>1, <1>2
<1>4. IsList(r) /\ Len(r) = P + Q /\ DOMAIN r = 1..(P + Q)
  BY <1>3, ListIs
<1>5. ASSUME NEW i \in 1..P PROVE i \in 1..(P + Q) /\ r[i] = p[i]
  BY <1>1, <1>2
<1>6. ASSUME NEW i \in 1..Q PROVE P + i \in 1..(P + Q) /\ r[P + i] = q[i]
  <2>1. P + i \in 1..(P + Q) /\ ~ (P + i <= P) /\ (P + i) - P = i
    BY <1>1
  <2> QED
    BY <1>2, <2>1
<1>7. ASSUME NEW i \in 1..(P + Q) PROVE i \in 1..P \/ (i - P \in 1..Q /\ i = P + (i - P))
  BY <1>1
<1> QED
  BY <1>1, <1>4, <1>5, <1>6, <1>7 DEF P, Q, Joined

FlattenStep(seqs, before, i) == before \o seqs[i]
Flattening == INSTANCE FoldOf WITH op <- FlattenStep

LEMMA FlatteningInducts == Flattening!NatInduction
BY NatSetInduction DEF Flattening!NatInduction

LEMMA FlattenMore ==
  ASSUME NEW seqs, NEW n \in Nat, NEW u, Flattened(u, seqs, n - 1), IsList(seqs[n]),
         NEW v, v = u \o seqs[n], n > 0
  PROVE  Flattened(v, seqs, n)
<1> DEFINE w == seqs[n]
           L == Len(u)
<1>1. PICK g : /\ \A i \in DOMAIN u : /\ g[i] \in 1..(n - 1)
                                     /\ \E k \in DOMAIN seqs[g[i]] : u[i] = seqs[g[i]][k]
               /\ \A i, j \in DOMAIN u : i <= j => g[i] <= g[j]
  BY DEF Flattened
<1>2. IsList(u) /\ IsList(w) /\ v = u \o w
  BY DEF Flattened
<1> HIDE DEF w
<1>3. /\ IsList(v) /\ DOMAIN v = 1..Len(v)
      /\ \A i \in DOMAIN u : i \in DOMAIN v /\ v[i] = u[i]
      /\ \A i \in DOMAIN w : v[L + i] = w[i]
      /\ \A i \in DOMAIN v : i \in DOMAIN u \/ (i - L \in DOMAIN w /\ i = L + (i - L))
  <2>1. Joined(u, w, v)
    BY <1>2, Concatenation
  <2> QED
    BY <2>1 DEF Joined, L
<1>4. /\ L \in Nat /\ DOMAIN u = 1..L /\ Len(v) \in Nat
      /\ DOMAIN w = 1..Len(w) /\ Len(w) \in Nat
  BY <1>2, <1>3, ListIs DEF L
<1> HIDE DEF L
<1> DEFINE home == [i \in DOMAIN v |-> IF i \in DOMAIN u THEN g[i] ELSE n]
<1>5. ASSUME NEW i \in DOMAIN v
      PROVE  home[i] \in 1..n /\ \E k \in DOMAIN seqs[home[i]] : v[i] = seqs[home[i]][k]
  <2>1. CASE i \in DOMAIN u
    <3>1. home[i] = g[i] /\ g[i] \in 1..n /\ v[i] = u[i]
      BY <1>1, <1>3, <2>1
    <3> HIDE DEF home
    <3> QED
      BY <1>1, <2>1, <3>1
  <2>2. CASE i \notin DOMAIN u
    <3>1. home[i] = n /\ n \in 1..n
      BY <2>2
    <3>2. i - L \in DOMAIN w /\ v[i] = w[i - L]
      BY <1>3, <2>2
    <3> HIDE DEF home
    <3> QED
      BY <3>1, <3>2 DEF w
  <2> QED
    BY <2>1, <2>2
<1>6. ASSUME NEW i \in DOMAIN v, NEW j \in DOMAIN v, i <= j PROVE home[i] <= home[j]
  <2>1. \A k \in DOMAIN u : g[k] \in 1..(n - 1) /\ g[k] <= n
    BY <1>1
  <2>2. j \in DOMAIN u => i \in DOMAIN u
    BY <1>3, <1>4, <1>6
  <2> QED
    BY <1>1, <1>6, <2>1, <2>2
<1> HIDE DEF home
<1>7. \E h : /\ \A i \in DOMAIN v : h[i] \in 1..n /\ \E k \in DOMAIN seqs[h[i]] : v[i] = seqs[h[i]][k]
             /\ \A i, j \in DOMAIN v : i <= j => h[i] <= h[j]
  BY <1>5, <1>6
<1> QED
  BY <1>3, <1>7 DEF Flattened

(* Lists after each other are what comes of one after the other.           *)
LEMMA FlattenCourse ==
  ASSUME NEW seqs, IsList(seqs), Len(seqs) # 0
  PROVE  \E h : /\ h[1] = seqs[1] /\ FlattenSeq(seqs) = h[Len(seqs)]
               /\ \A i \in (1..Len(seqs)) \ {1} : h[i] = h[i - 1] \o seqs[i]
<1> DEFINE N == Len(seqs)
           D == 1..N
           P(f) == f = [i \in 1..Len(seqs) |-> IF i = 1 THEN seqs[i] ELSE f[i - 1] \o seqs[i]]
           flatten == CHOOSE f : P(f)
<1>1. N \in Nat /\ N # 0 /\ DOMAIN seqs = D
  BY ListIs
<1>2. P(flatten)
  <2> DEFINE base == [i \in {1} |-> seqs[1]]
             next == [i \in D |-> i - 1]
             left == [i \in D |-> i]
  <2>1. \A i \in D : left[i] \in Nat
    BY <1>1
  <2>2. \A i \in D \ {1} : next[i] \in D /\ left[next[i]] < left[i]
    BY <1>1
  <2>3. PICK f : Flattening!Walk(seqs, D, {1}, base, next, f)
    <3> HIDE DEF D, base, next, left
    <3> QED
      BY <2>1, <2>2, Flattening!WalkExists, FlatteningInducts
  <2>4. P(f)
    <3>1. f = [i \in D |-> IF i \in {1} THEN base[i] ELSE FlattenStep(seqs, f[next[i]], i)]
      BY <2>3 DEF Flattening!Walk
    <3>2. ASSUME NEW i \in D
          PROVE  (IF i \in {1} THEN base[i] ELSE FlattenStep(seqs, f[next[i]], i))
                   = IF i = 1 THEN seqs[i] ELSE f[i - 1] \o seqs[i]
      BY DEF FlattenStep
    <3> HIDE DEF base, next
    <3>3. f = [i \in D |-> IF i = 1 THEN seqs[i] ELSE f[i - 1] \o seqs[i]]
      BY <3>1, <3>2
    <3> QED
      BY <3>3
  <2> HIDE DEF P
  <2> QED
    BY <2>4
<1>3. FlattenSeq(seqs) = flatten[N]
  BY <1>1 DEF FlattenSeq
<1> HIDE DEF flatten
<1>4. /\ flatten[1] = seqs[1]
      /\ \A i \in D \ {1} : flatten[i] = flatten[i - 1] \o seqs[i]
  <2> HIDE DEF flatten
  <2>1. flatten = [i \in 1..Len(seqs) |-> IF i = 1 THEN seqs[i] ELSE flatten[i - 1] \o seqs[i]]
    BY <1>2
  <2>2. 1 \in 1..Len(seqs)
    BY <1>1
  <2> QED
    BY <2>1, <2>2
<1> QED
  BY <1>3, <1>4

LEMMA FlattenIs ==
  ASSUME NEW seqs, IsList(seqs), \A i \in DOMAIN seqs : IsList(seqs[i])
  PROVE  Flattened(FlattenSeq(seqs), seqs, Len(seqs))
<1> DEFINE N == Len(seqs)
           D == 1..N
<1>1. N \in Nat /\ DOMAIN seqs = D
  BY ListIs
<1>2. CASE N = 0
  <2>1. FlattenSeq(seqs) = seqs /\ DOMAIN seqs = {}
    BY <1>1, <1>2 DEF FlattenSeq
  <2> QED
    BY <2>1 DEF Flattened
<1>3. CASE N # 0
  <2>2. PICK flatten : /\ flatten[1] = seqs[1] /\ FlattenSeq(seqs) = flatten[N]
                       /\ \A i \in D \ {1} : flatten[i] = flatten[i - 1] \o seqs[i]
    BY <1>3, FlattenCourse
  <2> DEFINE S == {n \in 0..N : n > 0 => Flattened(flatten[n], seqs, n)}
  <2>4. 0 \in S
    BY <1>1
  <2>5. ASSUME NEW n \in 1..N, n - 1 \in S PROVE n \in S
    <3>1. n \in 0..N /\ n \in Nat /\ IsList(seqs[n])
      BY <1>1
    <3>2. CASE n = 1
      <4>1. flatten[n] = seqs[n]
        BY <2>2, <3>2
      <4> DEFINE home == [i \in DOMAIN seqs[n] |-> n]
      <4>2. /\ \A i \in DOMAIN seqs[n] : home[i] \in 1..n /\ \E k \in DOMAIN seqs[home[i]] : seqs[n][i] = seqs[home[i]][k]
            /\ \A i, j \in DOMAIN seqs[n] : i <= j => home[i] <= home[j]
        BY <3>1
      <4>3. Flattened(seqs[n], seqs, n)
        BY <3>1, <4>2 DEF Flattened
      <4> QED
        BY <3>1, <4>1, <4>3
    <3>3. CASE n # 1
      <4> DEFINE u == flatten[n - 1]
                 v == flatten[n]
      <4>1. Flattened(u, seqs, n - 1) /\ v = u \o seqs[n]
        <5>1. n - 1 > 0 /\ n \in D \ {1}
          BY <3>1, <3>3
        <5>2. Flattened(u, seqs, n - 1)
          BY <2>5, <5>1
        <5> QED
          BY <2>2, <5>1, <5>2
      <4> HIDE DEF u, v
      <4>2. Flattened(v, seqs, n)
        <5>1. n \in Nat /\ n > 0 /\ IsList(seqs[n])
          BY <3>1
        <5> QED
          BY <4>1, <5>1, FlattenMore
      <4> QED
        BY <3>1, <4>2 DEF v
    <3> QED
      BY <3>2, <3>3
  <2> HIDE DEF S
  <2>6. 0..N \subseteq S
    BY <1>1, <2>4, <2>5, UpTo
  <2>7. Flattened(flatten[N], seqs, N)
    <3>1. N \in S /\ N > 0
      BY <1>1, <1>3, <2>6
    <3> QED
      BY <3>1 DEF S
  <2> QED
    BY <2>2, <2>7
<1> QED
  BY <1>2, <1>3

-----------------------------------------------------------------------------
(* Combining. *)

CombineStep(none, d, item) == Put(d, item.name, item.def)
Combining == INSTANCE FoldOf WITH op <- CombineStep

LEMMA CombiningInducts == Combining!NatInduction
BY NatSetInduction DEF Combining!NatInduction

(* The newer dictionary wins; its new names come last, in their order.     *)
LEMMA CombineIs ==
  ASSUME NEW a, Dict(a), NEW b, Dict(b)
  PROVE  Combination(a, b, combine_dicts(a, b)) /\ Combination(a, b, combine_ssz_objects(a, b))
<1> DEFINE c == combine_dicts(a, b)
           N == Len(b)
<1>1. N \in Nat /\ DOMAIN b = 1..N
  BY DictIs
<1>2. c = Combining!TheFold(0, a, b, N)[1..N]
  BY <1>1 DEF combine_dicts, FoldLeft, MapThenFoldSet, Max,
     Combining!TheFold, Combining!Fold, Combining!Largest, CombineStep
<1>3. combine_ssz_objects(a, b) = Combining!TheFold(0, a, b, N)[1..N]
  BY <1>1 DEF combine_ssz_objects, FoldLeft, MapThenFoldSet, Max,
     Combining!TheFold, Combining!Fold, Combining!Largest, CombineStep
<1> HIDE DEF c, N
<1>4. PICK h : /\ Combining!Course(0, a, b, N, h)
               /\ h[N] = Combining!TheFold(0, a, b, N)[1..N]
  BY <1>1, Combining!FoldHasCourse, CombiningInducts
<1>5. /\ h[0] = a
      /\ \A n \in 1..N : h[n] = Put(h[n - 1], b[n].name, b[n].def)
      /\ c = h[N]
  BY <1>2, <1>4 DEF Combining!Course, CombineStep
<1> DEFINE First(n) == {b[j].name : j \in 1..n}
           Good(n) == /\ Dict(h[n])
                      /\ Keys(h[n]) = Keys(a) \cup First(n)
                      /\ \A j \in 1..n : Get(h[n], b[j].name) = b[j].def
                      /\ \A k \in Keys(a) \ First(n) : Get(h[n], k) = Get(a, k)
                      /\ CombinedOrder(a, b, n, h[n])
           S == {n \in 0..N : Good(n)}
<1>6. 0 \in S
  BY <1>1, <1>5 DEF CombinedOrder
<1>7. ASSUME NEW n \in 1..N, n - 1 \in S PROVE n \in S
  <2> DEFINE u == h[n - 1]
             v == h[n]
             name == b[n].name
             F == First(n - 1)
  <2>1. /\ Dict(u) /\ Keys(u) = Keys(a) \cup F
        /\ \A j \in 1..(n - 1) : Get(u, b[j].name) = b[j].def
        /\ \A k \in Keys(a) \ F : Get(u, k) = Get(a, k)
        /\ CombinedOrder(a, b, n - 1, u)
    BY <1>7
  <2>2. v = Put(u, name, b[n].def)
    BY <1>5
  <2>3. First(n) = F \cup {name} /\ \A j \in 1..(n - 1) : b[j].name \in F /\ b[j].name # name
    <3>1. \A j \in 1..n : j \in 1..(n - 1) \/ j = n
      BY <1>1
    <3>2. \A j \in 1..(n - 1) : j \in 1..n /\ j \in DOMAIN b /\ j # n
      BY <1>1
    <3>3. n \in 1..n /\ n \in DOMAIN b
      BY <1>1
    <3>4. \A j \in 1..(n - 1) : b[j].name # name
      BY <3>2, <3>3 DEF Dict, NamedOnce
    <3> QED
      BY <3>1, <3>2, <3>3, <3>4
  <2>4. \A j \in 1..n : j \in 1..(n - 1) \/ (j = n /\ ~ (n < j))
    BY <1>1
  <2>11. name \notin F /\ ~ (n < n)
    BY <2>3
  <2> DEFINE G == First(n)
  <2>5. G = First(n)
    OBVIOUS
  <2> HIDE DEF u, v, name, F, First, G
  <2>6. /\ Dict(v) /\ Keys(v) = Keys(u) \cup {name} /\ Get(v, name) = b[n].def
        /\ \A k \in Keys(u) : k # name => Get(v, k) = Get(u, k)
        /\ \A x, y : Ahead(u, x, y) => Ahead(v, x, y)
        /\ name \notin Keys(u) => \A x \in Keys(u) : Ahead(v, x, name)
    BY <2>1, <2>2, PutIs, PutOrder
  <2>7. ASSUME NEW j \in 1..n PROVE Get(v, b[j].name) = b[j].def
    <3>1. CASE j = n
      BY <2>6, <3>1 DEF name
    <3>2. CASE j # n
      <4>1. j \in 1..(n - 1)
        BY <2>4, <3>2
      <4>2. b[j].name \in F /\ b[j].name # name
        BY <2>3, <4>1
      <4> QED
        BY <2>1, <2>6, <4>1, <4>2
    <3> QED
      BY <3>1, <3>2
  <2>8. Keys(v) = Keys(a) \cup G /\ \A k \in Keys(a) \ G : Get(v, k) = Get(a, k)
    BY <2>1, <2>3, <2>5, <2>6
  <2>12. CombinedOrder(a, b, n, v)
    <3>1. \A x, y : Ahead(a, x, y) => Ahead(v, x, y)
      BY <2>1, <2>6 DEF CombinedOrder
    <3>2. ASSUME NEW x \in Keys(a), NEW j \in 1..n, b[j].name \notin Keys(a) PROVE Ahead(v, x, b[j].name)
      <4>1. CASE j = n
        BY <2>1, <2>6, <2>11, <3>2, <4>1 DEF name
      <4>2. CASE j # n
        BY <2>1, <2>4, <2>6, <3>2, <4>2 DEF CombinedOrder
      <4> QED
        BY <4>1, <4>2
    <3>3. ASSUME NEW i \in 1..n, NEW j \in 1..n, i < j, b[i].name \notin Keys(a), b[j].name \notin Keys(a)
          PROVE  Ahead(v, b[i].name, b[j].name)
      <4>1. i \in 1..(n - 1)
        BY <1>1, <3>3
      <4>2. CASE j = n
        BY <2>1, <2>3, <2>6, <2>11, <3>3, <4>1, <4>2 DEF name
      <4>3. CASE j # n
        BY <2>1, <2>4, <2>6, <3>3, <4>1, <4>3 DEF CombinedOrder
      <4> QED
        BY <4>2, <4>3
    <3> QED
      BY <3>1, <3>2, <3>3 DEF CombinedOrder
  <2>9. Good(n)
    BY <2>5, <2>6, <2>7, <2>8, <2>12 DEF v
  <2>10. n \in 0..N
    BY <1>1
  <2> QED
    BY <2>9, <2>10
<1> HIDE DEF S
<1>8. 0..N \subseteq S
  BY <1>1, <1>6, <1>7, UpTo
<1>9. Good(N)
  <2>1. N \in S
    BY <1>1, <1>8
  <2> HIDE DEF Good
  <2> QED
    BY <2>1 DEF S
<1>10. First(N) = Keys(b)
  BY <1>1 DEF Keys
<1>11. ASSUME NEW n \in Keys(b) PROVE Get(c, n) = Get(b, n)
  <2>1. PICK j \in 1..N : b[j].name = n /\ Get(b, n) = b[j].def
    BY <1>1, GetIs
  <2> QED
    BY <1>5, <1>9, <2>1
<1>12. CombinedOrder(a, b, N, c)
  BY <1>5, <1>9
<1>13. ASSUME NEW x, NEW y, Ahead(b, x, y), x \notin Keys(a), y \notin Keys(a) PROVE Ahead(c, x, y)
  <2>1. PICK i \in 1..N, j \in 1..N : i < j /\ b[i].name = x /\ b[j].name = y
    BY <1>1, <1>13 DEF Ahead
  <2> QED
    BY <1>12, <1>13, <2>1 DEF CombinedOrder
<1>14. ASSUME NEW x \in Keys(a), NEW y \in Keys(b) \ Keys(a) PROVE Ahead(c, x, y)
  <2>1. PICK j \in 1..N : b[j].name = y
    BY <1>1 DEF Keys
  <2> QED
    BY <1>12, <2>1 DEF CombinedOrder
<1>15. \A x, y : Ahead(a, x, y) => Ahead(c, x, y)
  BY <1>12 DEF CombinedOrder
<1>16. Combination(a, b, c)
  BY <1>5, <1>9, <1>10, <1>11, <1>13, <1>14, <1>15 DEF Combination
<1> QED
  BY <1>2, <1>3, <1>16 DEF c

ProtocolStep(none, d, item) ==
  Put(d, item.name, IF item.name \in Keys(d)
                    THEN combine_dicts(Get(d, item.name), item.def) ELSE item.def)
CombiningProtocols == INSTANCE FoldOf WITH op <- ProtocolStep

LEMMA CombiningProtocolsInducts == CombiningProtocols!NatInduction
BY NatSetInduction DEF CombiningProtocols!NatInduction

(* The protocols of two documents, each of them once.                      *)
LEMMA ProtocolsAre ==
  ASSUME NEW a, Dict(a), NEW b, Dict(b)
  PROVE  Dict(combine_protocols(a, b)) /\ Keys(combine_protocols(a, b)) = Keys(a) \cup Keys(b)
<1> DEFINE c == combine_protocols(a, b)
           N == Len(b)
<1>1. N \in Nat /\ DOMAIN b = 1..N
  BY DictIs
<1>2. c = CombiningProtocols!TheFold(0, a, b, N)[1..N]
  BY <1>1 DEF combine_protocols, FoldLeft, MapThenFoldSet, Max,
     CombiningProtocols!TheFold, CombiningProtocols!Fold, CombiningProtocols!Largest, ProtocolStep
<1> HIDE DEF c, N
<1>3. PICK h : /\ CombiningProtocols!Course(0, a, b, N, h)
               /\ h[N] = CombiningProtocols!TheFold(0, a, b, N)[1..N]
  BY <1>1, CombiningProtocols!FoldHasCourse, CombiningProtocolsInducts
<1>4. /\ h[0] = a
      /\ \A n \in 1..N : \E v : h[n] = Put(h[n - 1], b[n].name, v)
      /\ c = h[N]
  BY <1>2, <1>3 DEF CombiningProtocols!Course, ProtocolStep
<1> DEFINE First(n) == {b[j].name : j \in 1..n}
           S == {n \in 0..N : Dict(h[n]) /\ Keys(h[n]) = Keys(a) \cup First(n)}
<1>5. 0 \in S
  BY <1>1, <1>4
<1>6. ASSUME NEW n \in 1..N, n - 1 \in S PROVE n \in S
  <2> DEFINE u == h[n - 1]
  <2>1. Dict(u) /\ n \in 0..N /\ Keys(u) = Keys(a) \cup First(n - 1)
    BY <1>1, <1>6
  <2>4. First(n) = First(n - 1) \cup {b[n].name}
    <3>1. \A j : j \in 1..n <=> j \in 1..(n - 1) \/ j = n
      BY <1>1
    <3> QED
      BY <3>1
  <2>2. PICK v : h[n] = Put(u, b[n].name, v)
    BY <1>4
  <2> DEFINE name == b[n].name
             w == Put(u, name, v)
  <2> HIDE DEF u, name
  <2>3. Dict(w) /\ Keys(w) = Keys(u) \cup {name}
    BY <2>1, PutIs
  <2>5. Keys(w) = Keys(a) \cup First(n)
    BY <2>1, <2>3, <2>4 DEF name
  <2> HIDE DEF First
  <2> QED
    BY <2>1, <2>2, <2>3, <2>5 DEF name
<1> HIDE DEF S
<1>7. 0..N \subseteq S
  BY <1>1, <1>5, <1>6, UpTo
<1>8. N \in S
  BY <1>1, <1>7
<1>9. First(N) = Keys(b)
  BY <1>1 DEF Keys
<1> QED
  BY <1>4, <1>8, <1>9 DEF S, c

(* Section by section.                                                     *)
LEMMA SpecsCombine ==
  ASSUME NEW a, Dictionaries(a), NEW b, Dictionaries(b)
  PROVE  LET c == combine_spec_objects(a, b)
         IN /\ Dictionaries(c)
            /\ \A s \in Sections \ {"protocols"} : Combination(a[s], b[s], c[s])
            /\ Keys(c["protocols"]) = Keys(a["protocols"]) \cup Keys(b["protocols"])
<1> DEFINE c == combine_spec_objects(a, b)
<1>1. c = [s \in Sections |-> c[s]]
  BY DEF combine_spec_objects
<1>2. /\ c["protocols"] = combine_protocols(a["protocols"], b["protocols"])
      /\ c["ssz_objects"] = combine_ssz_objects(a["ssz_objects"], b["ssz_objects"])
      /\ \A s \in Sections \ {"protocols", "ssz_objects"} : c[s] = combine_dicts(a[s], b[s])
  BY DEF combine_spec_objects, Sections
<1> HIDE DEF c
<1>3. \A s \in Sections : Dict(a[s]) /\ Dict(b[s])
  BY DEF Dictionaries
<1>4. "protocols" \in Sections /\ "ssz_objects" \in Sections
  BY DEF Sections
<1>5. Dict(c["protocols"]) /\ Keys(c["protocols"]) = Keys(a["protocols"]) \cup Keys(b["protocols"])
  <2> DEFINE p == a["protocols"]
             q == b["protocols"]
  <2>1. Dict(p) /\ Dict(q) /\ c["protocols"] = combine_protocols(p, q)
    BY <1>2, <1>3, <1>4
  <2> HIDE DEF p, q
  <2>2. Dict(c["protocols"]) /\ Keys(c["protocols"]) = Keys(p) \cup Keys(q)
    BY <2>1, ProtocolsAre
  <2> QED
    BY <2>2 DEF p, q
<1>6. ASSUME NEW s \in Sections \ {"protocols"} PROVE Combination(a[s], b[s], c[s])
  <2> DEFINE p == a[s]
             q == b[s]
  <2>1. Dict(p) /\ Dict(q) /\ (c[s] = combine_dicts(p, q) \/ c[s] = combine_ssz_objects(p, q))
    BY <1>2, <1>3
  <2> HIDE DEF p, q
  <2>2. Combination(p, q, c[s])
    BY <2>1, CombineIs
  <2> QED
    BY <2>2 DEF p, q
<1>7. \A s \in Sections : Dict(c[s])
  BY <1>5, <1>6 DEF Combination
<1> QED
  BY <1>1, <1>5, <1>6, <1>7 DEF c, Dictionaries

LEMMA WrittenAre == WrittenSections \subseteq Sections \ {"protocols"}
  BY DEF WrittenSections, CodeSections, Sections

LEMMA FirstCombined ==
  ASSUME NEW specs, Dictionaries(specs[1])
  PROVE  Combined(specs[1], specs, 1)
<1>1. \A i \in 1..1 : i = 1
  OBVIOUS
<1>2. 1 \in 1..1 /\ 1 <= 1 /\ ~ (1 < 1) /\ 1..(1 - 1) = {}
  OBVIOUS
<1>3. ASSUME NEW t \in Sections \ {"protocols"} PROVE CombinedSection(specs[1][t], specs, t, 1)
  <2>1. \A k \in Keys(specs[1][t]) : FirstIn(specs, t, 1, k)
    BY <1>2 DEF FirstIn
  <2> QED
    BY <1>1, <1>2, <2>1 DEF CombinedSection
<1> QED
  BY <1>2, <1>3 DEF Combined

LEMMA MoreCombined ==
  ASSUME NEW specs, NEW n \in Nat, NEW s, Combined(s, specs, n), Dictionaries(specs[n + 1])
  PROVE  Combined(combine_spec_objects(s, specs[n + 1]), specs, n + 1)
<1> DEFINE b == specs[n + 1]
           c == combine_spec_objects(s, b)
<1>1. Dictionaries(s) /\ Dictionaries(b)
  BY DEF Combined
<1> HIDE DEF b
<1>2. /\ Dictionaries(c) /\ \A t \in Sections \ {"protocols"} : Combination(s[t], b[t], c[t])
      /\ Keys(c["protocols"]) = Keys(s["protocols"]) \cup Keys(b["protocols"])
  BY <1>1, SpecsCombine
<1> HIDE DEF c
<1>4. \A i \in 1..(n + 1) : (i \in 1..n \/ i = n + 1) /\ i <= n + 1
  OBVIOUS
<1>5. \A i \in 1..n : i \in 1..(n + 1) /\ i # n + 1 /\ i < n + 1
  OBVIOUS
<1>6. n + 1 \in 1..(n + 1) /\ (n + 1) - 1 = n
  OBVIOUS
<1>3. ASSUME NEW t \in Sections \ {"protocols"}
      PROVE  CombinedSection(c[t], specs, t, n + 1)
  <2> DEFINE x == s[t]
             y == b[t]
             z == c[t]
  <2>1. CombinedSection(x, specs, t, n)
    BY DEF Combined
  <2>2. Combination(x, y, z)
    BY <1>2
  <2>3. specs[n + 1][t] = y
    BY DEF b
  <2> HIDE DEF x, y, z
  <2>7. ASSUME NEW i \in 1..(n + 1) PROVE Keys(specs[i][t]) \subseteq Keys(z)
    <3>1. CASE i = n + 1
      BY <2>2, <2>3, <3>1 DEF Combination
    <3>2. CASE i # n + 1
      BY <1>4, <2>1, <2>2, <3>2 DEF Combination, CombinedSection
    <3> QED
      BY <3>1, <3>2
  <2>8. ASSUME NEW k \in Keys(z)
        PROVE  \E i \in 1..(n + 1) :
                 /\ k \in Keys(specs[i][t]) /\ Get(z, k) = Get(specs[i][t], k)
                 /\ \A j \in 1..(n + 1) : k \in Keys(specs[j][t]) => j <= i
    <3>1. CASE k \in Keys(y)
      BY <1>4, <1>6, <2>2, <2>3, <3>1 DEF Combination
    <3>2. CASE k \notin Keys(y)
      <4>1. PICK i \in 1..n : /\ k \in Keys(specs[i][t]) /\ Get(x, k) = Get(specs[i][t], k)
                              /\ \A j \in 1..n : k \in Keys(specs[j][t]) => j <= i
        BY <2>1, <2>2, <3>2 DEF Combination, CombinedSection
      <4>2. \A j \in 1..(n + 1) : k \in Keys(specs[j][t]) => j <= i
        BY <1>4, <2>3, <3>2, <4>1
      <4>3. Get(z, k) = Get(specs[i][t], k)
        BY <2>2, <3>2, <4>1 DEF Combination
      <4> QED
        BY <1>5, <4>1, <4>2, <4>3
    <3> QED
      BY <3>1, <3>2
  <2>9. \A k : k \notin Keys(x) <=> \A j \in 1..n : k \notin Keys(specs[j][t])
    BY <2>1 DEF CombinedSection
  <2>10. ASSUME NEW k \in Keys(z) PROVE \E i \in 1..(n + 1) : FirstIn(specs, t, i, k)
    <3>1. CASE k \in Keys(x)
      BY <1>5, <2>1, <3>1 DEF CombinedSection
    <3>2. CASE k \notin Keys(x)
      <4>1. k \in Keys(y)
        BY <2>2, <3>2 DEF Combination
      <4>2. FirstIn(specs, t, n + 1, k)
        BY <1>6, <2>3, <2>9, <3>2, <4>1 DEF FirstIn
      <4> QED
        BY <1>6, <4>2
    <3> QED
      BY <3>1, <3>2
  <2>11. ASSUME NEW i \in 1..(n + 1), NEW j \in 1..(n + 1), NEW p, NEW q,
                FirstIn(specs, t, i, p), FirstIn(specs, t, j, q),
                i < j \/ (i = j /\ Ahead(specs[i][t], p, q))
         PROVE  Ahead(z, p, q)
    <3>1. \A k : FirstIn(specs, t, n + 1, k) => k \in Keys(y) /\ k \notin Keys(x)
      BY <1>6, <2>3, <2>9 DEF FirstIn
    <3>2. CASE j # n + 1
      <4>1. i \in 1..n /\ j \in 1..n
        BY <1>4, <2>11, <3>2
      <4>2. Ahead(x, p, q)
        BY <2>1, <2>11, <4>1 DEF CombinedSection
      <4> QED
        BY <2>2, <4>2 DEF Combination
    <3>3. CASE j = n + 1 /\ i # n + 1
      <4>1. p \in Keys(x)
        BY <1>4, <2>9, <2>11, <3>3 DEF FirstIn
      <4> QED
        BY <2>2, <2>11, <3>1, <3>3, <4>1 DEF Combination
    <3>4. CASE j = n + 1 /\ i = n + 1
      <4>1. Ahead(y, p, q)
        BY <2>3, <2>11, <3>4
      <4> QED
        BY <2>2, <2>11, <3>1, <3>4, <4>1 DEF Combination
    <3> QED
      BY <3>2, <3>3, <3>4
  <2> QED
    BY <2>7, <2>8, <2>10, <2>11 DEF z, CombinedSection
<1>7. ASSUME NEW k \in Keys(c["protocols"]) PROVE \E i \in 1..(n + 1) : k \in Keys(specs[i]["protocols"])
  BY <1>2, <1>5, <1>6 DEF Combined, b
<1> QED
  BY <1>2, <1>3, <1>7 DEF Combined, b, c

-----------------------------------------------------------------------------
(* Ordering. *)

LEMMA PermutedIs ==
  ASSUME NEW d, Dict(d), NEW N, N = Len(d), NEW from, NEW e, e = [i \in 1..N |-> d[from[i]]],
         \A i \in 1..N : from[i] \in 1..N,
         \A i, j \in 1..N : from[i] = from[j] => i = j,
         \A k \in 1..N : \E i \in 1..N : from[i] = k
  PROVE  Reordered(d, e)
<1>1. N \in Nat /\ DOMAIN d = 1..N
  BY DictIs
<1>2. /\ \A i \in 1..N : e[i] = d[from[i]] /\ from[i] \in 1..N
      /\ \A i, j \in 1..N : from[i] = from[j] => i = j
      /\ \A k \in 1..N : \E i \in 1..N : from[i] = k
  OBVIOUS
<1>3. \A i, j \in 1..N : e[i].name = e[j].name => i = j
  <2>1. \A i, j \in 1..N : d[i].name = d[j].name => i = j
    BY <1>1 DEF Dict, NamedOnce
  <2> QED
    BY ONLY <1>2, <2>1
<1>4. e = [i \in 1..N |-> e[i]]
  OBVIOUS
<1>5. Dict(e) /\ DOMAIN e = 1..N
  BY ONLY <1>1, <1>3, <1>4, DictOf
<1>6. Keys(e) = Keys(d)
  <2>1. \A i \in 1..N : \E k \in 1..N : e[i].name = d[k].name
    BY ONLY <1>2
  <2>2. \A k \in 1..N : \E i \in 1..N : e[i].name = d[k].name
    <3> SUFFICES ASSUME NEW k \in 1..N PROVE \E i \in 1..N : e[i].name = d[k].name
      OBVIOUS
    <3>1. PICK i \in 1..N : from[i] = k
      BY ONLY <1>2, k \in 1..N
    <3>2. e[i] = d[k]
      BY ONLY <1>2, <3>1
    <3> QED
      BY <3>2
  <2> QED
    <3>1. ASSUME NEW x \in Keys(e) PROVE x \in Keys(d)
      <4>1. PICK i \in 1..N : x = e[i].name
        BY ONLY x \in Keys(e), <1>5 DEF Keys
      <4>2. PICK k \in 1..N : e[i].name = d[k].name
        BY ONLY <2>1, i \in 1..N
      <4> QED
        BY ONLY <1>1, <4>1, <4>2 DEF Keys
    <3>2. ASSUME NEW x \in Keys(d) PROVE x \in Keys(e)
      <4>1. PICK k \in 1..N : x = d[k].name
        BY ONLY x \in Keys(d), <1>1 DEF Keys
      <4>2. PICK i \in 1..N : e[i].name = d[k].name
        BY ONLY <2>2, k \in 1..N
      <4> QED
        BY ONLY <1>5, <4>1, <4>2 DEF Keys
    <3> QED
      BY <3>1, <3>2
<1>7. ASSUME NEW n \in Keys(d) PROVE Get(e, n) = Get(d, n)
  <2>1. PICK k \in 1..N : d[k].name = n /\ Get(d, n) = d[k].def
    BY <1>1, GetIs
  <2>2. PICK i \in 1..N : from[i] = k
    OBVIOUS
  <2>3. e[i] = d[k]
    BY <1>2, <2>2
  <2>4. Get(e, e[i].name) = e[i].def
    BY ONLY <1>5, GetIs
  <2> QED
    BY ONLY <2>1, <2>3, <2>4
<1> QED
  BY <1>5, <1>6, <1>7 DEF Reordered

LEMMA ReinsertedIs ==
  ASSUME NEW d, Dict(d), NEW key \in Keys(d), NEW dep \in Keys(d)
  PROVE  Reordered(d, Reinserted(d, key, dep))
<1> DEFINE e == Reinserted(d, key, dep)
           N == Len(d)
           k == Place(d, key)
           m == Place(d, dep)
<1>1. N \in Nat /\ DOMAIN d = 1..N
  BY DictIs
<1>2. k \in 1..N /\ m \in 1..N
  BY <1>1 DEF Place, Keys
<1>3. CASE k >= m
  <2>1. e = d
    BY <1>3 DEF Reinserted
  <2> QED
    BY <2>1 DEF Reordered
<1>4. CASE ~ (k >= m)
  <2> DEFINE from == [i \in 1..N |-> IF i = m THEN k ELSE IF i \in k..m THEN i + 1 ELSE i]
  <2>1. e = [i \in 1..N |-> IF i = m THEN d[k] ELSE IF i \in k..m THEN d[i + 1] ELSE d[i]]
    BY <1>1, <1>4 DEF Reinserted
  <2>2. e = [i \in 1..N |-> d[from[i]]]
    BY <2>1
  <2> HIDE DEF e, N, k, m
  <2>3. k \in Int /\ m \in Int /\ k < m /\ 1 <= k /\ m <= N
    BY <1>1, <1>2, <1>4
  <2>4. \A i \in 1..N : from[i] = IF i = m THEN k ELSE IF i >= k /\ i < m THEN i + 1 ELSE i
    BY <1>1, <2>3
  <2> HIDE DEF from
  <2>5. \A i \in 1..N : from[i] \in 1..N
    BY <1>1, <2>3, <2>4
  <2>6. \A i, j \in 1..N : from[i] = from[j] => i = j
    BY <1>1, <2>3, <2>4
  <2>7. ASSUME NEW j \in 1..N PROVE \E i \in 1..N : from[i] = j
    <3>1. CASE j = k
      BY <1>2, <2>4, <3>1
    <3>2. CASE j > k /\ j <= m
      <4>1. j - 1 \in 1..N /\ j - 1 # m /\ j - 1 >= k /\ j - 1 < m /\ (j - 1) + 1 = j
        BY <1>1, <2>3, <3>2
      <4> QED
        BY <2>4, <4>1
    <3>3. CASE j < k \/ j > m
      BY <1>1, <2>3, <2>4, <3>3
    <3> QED
      BY <1>1, <2>3, <3>1, <3>2, <3>3
  <2> QED
    BY <2>2, <2>5, <2>6, <2>7, PermutedIs DEF N, e
<1> QED
  BY <1>3, <1>4

(* The names of a dictionary are finitely many.                            *)
LEMMA KeysFinite ==
  ASSUME NEW d, Dict(d)
  PROVE  IsFiniteSet(Keys(d))
<1> DEFINE N == Len(d)
           f == [i \in 1..N |-> d[i].name]
<1>1. N \in Nat /\ DOMAIN d = 1..N
  BY DictIs
<1> HIDE DEF N
<1>2. f \in [1..N -> Keys(d)] /\ \A n \in Keys(d) : \E i \in 1..N : f[i] = n
  BY <1>1 DEF Keys
<1> HIDE DEF f
<1>3. ExistsSurjection(1..N, Keys(d))
  BY <1>2 DEF ExistsSurjection, Surjection
<1> QED
  BY <1>1, <1>3, FS_NatSurjection

(* A set as a list.                                                        *)
LEMMA ListOfSet ==
  ASSUME NEW S, IsFiniteSet(S)
  PROVE  LET q == SetToSeq(S)
         IN /\ Len(q) \in Nat /\ DOMAIN q = 1..Len(q)
            /\ \A i \in DOMAIN q : q[i] \in S
            /\ \A x \in S : \E i \in DOMAIN q : q[i] = x
<1> DEFINE N == Cardinality(S)
           q == SetToSeq(S)
<1>1. N \in Nat /\ ExistsBijection(1..N, S)
  BY FS_CardinalityType
<1>2. \E f \in [1..N -> S] : IsInjective(f)
  BY <1>1 DEF ExistsBijection, Bijection, Injection
<1>3. q = CHOOSE f \in [1..N -> S] : IsInjective(f)
  BY DEF SetToSeq
<1>4. Cardinality(1..N) = N
  BY <1>1, FS_Interval
<1> HIDE DEF N
<1>5. q \in [1..N -> S] /\ IsInjective(q)
  BY <1>2, <1>3
<1> HIDE DEF q
<1>6. q \in Injection(1..N, S)
  BY <1>5 DEF Injection, IsInjective
<1>7. q \in Surjection(1..N, S)
  BY <1>4, <1>6, FS_Injection DEF N
<1>8. \A x \in S : \E i \in 1..N : q[i] = x
  BY <1>7 DEF Surjection
<1>9. Len(q) = N
  BY <1>1, <1>5
<1> QED
  BY <1>1, <1>5, <1>8, <1>9 DEF q

ReinsertStep(key, p, dep) == Reinserted(p, key, dep)
Reinserting == INSTANCE FoldOf WITH op <- ReinsertStep

LEMMA ReinsertingInducts == Reinserting!NatInduction
BY NatSetInduction DEF Reinserting!NatInduction
OrderStep(custom_types, o, item) ==
  FoldLeft(LAMBDA p, dep : Reinserted(p, item.name, dep), o, SetToSeq(dependencies(item, custom_types)))
OrderingAll == INSTANCE FoldOf WITH op <- OrderStep

LEMMA OrderingAllInducts == OrderingAll!NatInduction
BY NatSetInduction DEF OrderingAll!NatInduction

LEMMA ReorderedAgain ==
  ASSUME NEW d, NEW e, NEW f, Reordered(d, e), Reordered(e, f)
  PROVE  Reordered(d, f)
BY DEF Reordered

(* One class goes behind all that it depends on.                           *)
LEMMA OneOrdered ==
  ASSUME NEW d, Dict(d), NEW item, item.name \in Keys(d), NEW custom_types,
         dependencies(item, custom_types) \subseteq Keys(d)
  PROVE  Reordered(d, OrderStep(custom_types, d, item))
<1> DEFINE key == item.name
           deps == dependencies(item, custom_types)
           seq == SetToSeq(deps)
           N == Len(seq)
           e == OrderStep(custom_types, d, item)
<1>1. IsFiniteSet(deps)
  BY KeysFinite, FS_Subset
<1>2. N \in Nat /\ DOMAIN seq = 1..N /\ \A i \in 1..N : seq[i] \in Keys(d)
  <2> HIDE DEF deps
  <2>1. deps \subseteq Keys(d)
    BY DEF deps
  <2> QED
    BY <1>1, <2>1, ListOfSet
<1>3. e = Reinserting!TheFold(key, d, seq, N)[1..N]
  BY <1>2 DEF OrderStep, FoldLeft, MapThenFoldSet, Max,
     Reinserting!TheFold, Reinserting!Fold, Reinserting!Largest, ReinsertStep
<1>4. key \in Keys(d)
  OBVIOUS
<1> HIDE DEF e, N, seq, deps, key
<1>5. PICK h : /\ Reinserting!Course(key, d, seq, N, h)
               /\ h[N] = Reinserting!TheFold(key, d, seq, N)[1..N]
  BY <1>2, Reinserting!FoldHasCourse, ReinsertingInducts
<1>6. /\ h[0] = d
      /\ \A n \in 1..N : h[n] = Reinserted(h[n - 1], key, seq[n])
      /\ e = h[N]
  BY <1>3, <1>5 DEF Reinserting!Course, ReinsertStep
<1> DEFINE S == {n \in 0..N : Reordered(d, h[n])}
<1>7. 0 \in S
  BY <1>2, <1>6 DEF Reordered
<1>8. ASSUME NEW n \in 1..N, n - 1 \in S PROVE n \in S
  <2> DEFINE u == h[n - 1]
             v == h[n]
             x == seq[n]
  <2>1. Reordered(d, u) /\ v = Reinserted(u, key, x) /\ x \in Keys(d) /\ n \in 0..N
    BY <1>2, <1>6, <1>8
  <2> HIDE DEF u, v, x
  <2>2. Dict(u) /\ key \in Keys(u) /\ x \in Keys(u)
    BY <1>4, <2>1 DEF Reordered
  <2>3. Reordered(u, v)
    BY <2>1, <2>2, ReinsertedIs
  <2>4. Reordered(d, v)
    BY <2>1, <2>3, ReorderedAgain
  <2> QED
    BY <2>1, <2>4 DEF v
<1> HIDE DEF S
<1>9. 0..N \subseteq S
  BY <1>2, <1>7, <1>8, UpTo
<1>10. N \in S
  BY <1>2, <1>9
<1> QED
  BY <1>6, <1>10 DEF S, e

(* A pass over the classes loses none of them and changes none of them.    *)
LEMMA PassIs ==
  ASSUME NEW d, Dict(d), NEW custom_types,
         \A i \in DOMAIN d : dependencies(d[i], custom_types) \subseteq Keys(d)
  PROVE  Reordered(d, dependency_order_class_objects(d, custom_types))
<1> DEFINE e == dependency_order_class_objects(d, custom_types)
           N == Len(d)
<1>1. N \in Nat /\ DOMAIN d = 1..N
  BY DictIs
<1>2. e = OrderingAll!TheFold(custom_types, d, d, N)[1..N]
  BY <1>1 DEF dependency_order_class_objects, FoldLeft, MapThenFoldSet, Max,
     OrderingAll!TheFold, OrderingAll!Fold, OrderingAll!Largest, OrderStep
<1> HIDE DEF e, N
<1>3. PICK h : /\ OrderingAll!Course(custom_types, d, d, N, h)
               /\ h[N] = OrderingAll!TheFold(custom_types, d, d, N)[1..N]
  BY <1>1, OrderingAll!FoldHasCourse, OrderingAllInducts
<1>4. /\ h[0] = d
      /\ \A n \in 1..N : h[n] = OrderStep(custom_types, h[n - 1], d[n])
      /\ e = h[N]
  BY <1>2, <1>3 DEF OrderingAll!Course
<1> DEFINE S == {n \in 0..N : Reordered(d, h[n])}
<1>5. 0 \in S
  BY <1>1, <1>4 DEF Reordered
<1>6. ASSUME NEW n \in 1..N, n - 1 \in S PROVE n \in S
  <2> DEFINE u == h[n - 1]
             v == h[n]
             x == d[n]
  <2>1. Reordered(d, u) /\ v = OrderStep(custom_types, u, x) /\ n \in 0..N
    BY <1>1, <1>4, <1>6
  <2>2. x.name \in Keys(d) /\ dependencies(x, custom_types) \subseteq Keys(d)
    BY <1>1 DEF Keys
  <2> HIDE DEF u, v, x
  <2>3. Dict(u) /\ Keys(u) = Keys(d)
    BY <2>1 DEF Reordered
  <2>4. Reordered(u, v)
    BY <2>1, <2>2, <2>3, OneOrdered
  <2>5. Reordered(d, v)
    BY <2>1, <2>4, ReorderedAgain
  <2> QED
    BY <2>1, <2>5 DEF v
<1> HIDE DEF S
<1>7. 0..N \subseteq S
  BY <1>1, <1>5, <1>6, UpTo
<1>8. N \in S
  BY <1>1, <1>7
<1> QED
  BY <1>4, <1>8 DEF S, e

-----------------------------------------------------------------------------
(* The order that passes come to. *)

(* What reinserting does to the order: key comes behind dep and in front   *)
(* of nothing new, the others stay as they were.                           *)
LEMMA ReinsertedAhead ==
  ASSUME NEW d, Dict(d), NEW key \in Keys(d), NEW dep \in Keys(d)
  PROVE  LET e == Reinserted(d, key, dep)
         IN /\ \A a, b : a # key /\ b # key => (Ahead(e, a, b) <=> Ahead(d, a, b))
            /\ \A a : Ahead(d, a, key) => Ahead(e, a, key)
            /\ dep # key => Ahead(e, dep, key)
            /\ dep = key \/ Ahead(d, dep, key) => e = d
<1> DEFINE e == Reinserted(d, key, dep)
           N == Len(d)
           k == Place(d, key)
           m == Place(d, dep)
<1>1. N \in Nat /\ DOMAIN d = 1..N
  BY DictIs
<1>2. k \in 1..N /\ m \in 1..N /\ d[k].name = key /\ d[m].name = dep
  BY <1>1 DEF Place, Keys
<1>3. \A i, j \in 1..N : d[i].name = d[j].name => i = j
  BY <1>1 DEF Dict, NamedOnce
<1>4. Reordered(d, e)
  BY ReinsertedIs
<1>5. k >= m => e = d
  BY DEF Reinserted
<1>6. ~ (k >= m) => e = [i \in 1..N |-> IF i = m THEN d[k] ELSE IF i \in k..m THEN d[i + 1] ELSE d[i]]
  BY <1>1 DEF Reinserted
<1> HIDE DEF e, N, k, m
<1>7. dep = key \/ Ahead(d, dep, key) => e = d
  <2>1. CASE dep = key
    BY <1>1, <1>2, <1>3, <1>5, <2>1
  <2>2. CASE Ahead(d, dep, key)
    <3>1. PICK i, j \in 1..N : i < j /\ d[i].name = dep /\ d[j].name = key
      BY <1>1, <2>2 DEF Ahead
    <3>2. i = m /\ j = k
      BY <1>2, <1>3, <3>1
    <3> QED
      BY <1>1, <1>2, <1>5, <3>1, <3>2
  <2> QED
    BY <2>1, <2>2
<1>8. CASE k >= m
  <2>1. dep # key => Ahead(d, dep, key)
    <3> SUFFICES ASSUME dep # key PROVE Ahead(d, dep, key)
      OBVIOUS
    <3>1. m < k
      BY <1>1, <1>2, <1>8
    <3> QED
      BY <1>1, <1>2, <3>1 DEF Ahead
  <2> QED
    BY <1>5, <1>7, <1>8, <2>1 DEF e
<1>9. CASE ~ (k >= m)
  <2> DEFINE to == [i \in 1..N |-> IF i = k THEN m ELSE IF i > k /\ i <= m THEN i - 1 ELSE i]
  <2>1. k \in Int /\ m \in Int /\ k < m /\ 1 <= k /\ m <= N
    BY <1>1, <1>2, <1>9
  <2>2. DOMAIN e = 1..N /\ \A i \in 1..N : e[i] = IF i = m THEN d[k] ELSE IF i >= k /\ i < m THEN d[i + 1] ELSE d[i]
    BY <1>1, <1>6, <1>9, <2>1
  <2>3. \A i \in 1..N : to[i] = IF i = k THEN m ELSE IF i > k /\ i <= m THEN i - 1 ELSE i
    OBVIOUS
  <2> HIDE DEF to
  <2>4. ASSUME NEW i \in 1..N PROVE to[i] \in 1..N /\ e[to[i]] = d[i]
    <3>1. CASE i = k
      BY <1>1, <2>1, <2>2, <2>3, <3>1
    <3>2. CASE i > k /\ i <= m
      <4>1. to[i] = i - 1 /\ i - 1 \in 1..N /\ i - 1 >= k /\ i - 1 < m /\ i - 1 # m /\ (i - 1) + 1 = i
        BY <1>1, <2>1, <2>3, <3>2
      <4> QED
        BY <2>2, <4>1
    <3>3. CASE i < k \/ i > m
      <4>1. to[i] = i /\ i # m /\ ~ (i >= k /\ i < m)
        BY <1>1, <2>1, <2>3, <3>3
      <4> QED
        BY <2>2, <4>1
    <3> QED
      BY <1>1, <2>1, <3>1, <3>2, <3>3
  <2>5. ASSUME NEW i \in 1..N, NEW j \in 1..N, i < j, i # k PROVE to[i] < to[j]
    BY <1>1, <2>1, <2>3, <2>5
  <2>6. ASSUME NEW a, NEW b, Ahead(d, a, b), a # key PROVE Ahead(e, a, b)
    <3>1. PICK i, j \in 1..N : i < j /\ d[i].name = a /\ d[j].name = b
      BY <1>1, <2>6 DEF Ahead
    <3>2. i # k
      BY <1>2, <2>6, <3>1
    <3>3. to[i] < to[j] /\ to[i] \in 1..N /\ to[j] \in 1..N /\ e[to[i]].name = a /\ e[to[j]].name = b
      BY <2>4, <2>5, <3>1, <3>2
    <3> QED
      BY <2>2, <3>3 DEF Ahead
  <2>7. ASSUME NEW a, NEW b, Ahead(e, a, b), a # key, b # key PROVE Ahead(d, a, b)
    <3>1. Dict(e) /\ Keys(e) = Keys(d)
      BY <1>4 DEF Reordered
    <3>2. a \in Keys(d) /\ b \in Keys(d) /\ a # b
      BY <2>7, <3>1, OneAhead
    <3>3. ~ Ahead(e, b, a)
      BY <2>7, <3>1, <3>2, OneAhead
    <3>4. ~ Ahead(d, b, a)
      BY <2>6, <2>7, <3>3
    <3> QED
      BY <3>2, <3>4, OneAhead
  <2>8. \A a : Ahead(d, a, key) => a # key
    BY OneAhead
  <2>9. Ahead(e, dep, key)
    <3>1. m # k
      BY <2>1
    <3>2. to[m] \in 1..N /\ to[k] \in 1..N /\ e[to[m]].name = dep /\ e[to[k]].name = key
      BY <1>2, <2>4
    <3>3. to[m] < to[k]
      BY <1>2, <2>1, <2>3
    <3> QED
      BY <2>2, <3>2, <3>3 DEF Ahead
  <2> QED
    BY <1>7, <2>6, <2>7, <2>8, <2>9 DEF e
<1> QED
  BY <1>1, <1>2, <1>8, <1>9

(* And what putting one class behind all that it depends on does.          *)
LEMMA OneOrderedAhead ==
  ASSUME NEW d, Dict(d), NEW item, item.name \in Keys(d), NEW custom_types,
         dependencies(item, custom_types) \subseteq Keys(d)
  PROVE  LET e == OrderStep(custom_types, d, item)
             deps == dependencies(item, custom_types)
         IN /\ \A a, b : a # item.name /\ b # item.name => (Ahead(e, a, b) <=> Ahead(d, a, b))
            /\ \A dep \in deps : dep # item.name => Ahead(e, dep, item.name)
            /\ (\A dep \in deps : dep = item.name \/ Ahead(d, dep, item.name)) => e = d
<1> DEFINE key == item.name
           deps == dependencies(item, custom_types)
           seq == SetToSeq(deps)
           N == Len(seq)
           e == OrderStep(custom_types, d, item)
<1>1. IsFiniteSet(deps)
  BY KeysFinite, FS_Subset
<1>2. /\ N \in Nat /\ DOMAIN seq = 1..N
      /\ \A i \in 1..N : seq[i] \in Keys(d) /\ seq[i] \in deps
      /\ \A x \in deps : \E i \in 1..N : seq[i] = x
  <2> HIDE DEF deps
  <2>1. deps \subseteq Keys(d)
    BY DEF deps
  <2> QED
    BY <1>1, <2>1, ListOfSet
<1>3. e = Reinserting!TheFold(key, d, seq, N)[1..N]
  BY <1>2 DEF OrderStep, FoldLeft, MapThenFoldSet, Max,
     Reinserting!TheFold, Reinserting!Fold, Reinserting!Largest, ReinsertStep
<1>4. key \in Keys(d)
  OBVIOUS
<1> HIDE DEF e, N, seq, deps, key
<1>5. PICK h : /\ Reinserting!Course(key, d, seq, N, h)
               /\ h[N] = Reinserting!TheFold(key, d, seq, N)[1..N]
  BY <1>2, Reinserting!FoldHasCourse, ReinsertingInducts
<1>6. /\ h[0] = d
      /\ \A n \in 1..N : h[n] = Reinserted(h[n - 1], key, seq[n])
      /\ e = h[N]
  BY <1>3, <1>5 DEF Reinserting!Course, ReinsertStep
<1> DEFINE Behind(n) == \A i \in 1..n : seq[i] # key => Ahead(h[n], seq[i], key)
           S == {n \in 0..N : /\ Reordered(d, h[n])
                              /\ \A a, b : a # key /\ b # key => (Ahead(h[n], a, b) <=> Ahead(d, a, b))
                              /\ Behind(n)
                              /\ (\A dep \in deps : dep = key \/ Ahead(d, dep, key)) => h[n] = d}
<1>7. 0 \in S
  BY <1>2, <1>6 DEF Reordered
<1>8. ASSUME NEW n \in 1..N, n - 1 \in S PROVE n \in S
  <2> DEFINE u == h[n - 1]
             v == h[n]
             x == seq[n]
  <2>1. /\ Reordered(d, u) /\ v = Reinserted(u, key, x) /\ x \in Keys(d) /\ x \in deps /\ n \in 0..N
        /\ \A a, b : a # key /\ b # key => (Ahead(u, a, b) <=> Ahead(d, a, b))
        /\ \A i \in 1..(n - 1) : seq[i] # key => Ahead(u, seq[i], key)
        /\ (\A dep \in deps : dep = key \/ Ahead(d, dep, key)) => u = d
    BY <1>2, <1>6, <1>8
  <2>2. \A i \in 1..n : i \in 1..(n - 1) \/ i = n
    OBVIOUS
  <2>3. x = seq[n]
    OBVIOUS
  <2> HIDE DEF u, v, x
  <2>4. Dict(u) /\ key \in Keys(u) /\ x \in Keys(u)
    BY <1>4, <2>1 DEF Reordered
  <2>5. Reordered(u, v)
    BY <2>1, <2>4, ReinsertedIs
  <2>6. Reordered(d, v)
    BY <2>1, <2>5, ReorderedAgain
  <2>7. /\ \A a, b : a # key /\ b # key => (Ahead(v, a, b) <=> Ahead(u, a, b))
        /\ \A a : Ahead(u, a, key) => Ahead(v, a, key)
        /\ x # key => Ahead(v, x, key)
        /\ x = key \/ Ahead(u, x, key) => v = u
    BY <2>1, <2>4, ReinsertedAhead
  <2>8. \A i \in 1..n : seq[i] # key => Ahead(v, seq[i], key)
    BY <2>1, <2>2, <2>3, <2>7
  <2>9. (\A dep \in deps : dep = key \/ Ahead(d, dep, key)) => v = d
    BY <2>1, <2>7
  <2> QED
    BY <2>1, <2>6, <2>7, <2>8, <2>9 DEF v
<1> HIDE DEF S
<1>9. 0..N \subseteq S
  BY <1>2, <1>7, <1>8, UpTo
<1>10. N \in S
  BY <1>2, <1>9
<1> QED
  BY <1>2, <1>6, <1>10 DEF S, e, deps, key

(* A pass that leaves the classes in their order finds every class behind  *)
(* those it depends on: it cannot have moved a class and moved it back.    *)
(* If it moved any, take one that depends on no other one it moved: it was *)
(* moved behind a class that stays, so that one was behind it, and nothing *)
(* else in the pass changes the order of the two.                          *)
LEMMA SettledIsOrdered ==
  ASSUME NEW d, Dict(d), NEW custom_types,
         \A i \in DOMAIN d : dependencies(d[i], custom_types) \subseteq Keys(d),
         d = dependency_order_class_objects(d, custom_types),
         Unentangled(d, custom_types)
  PROVE  \A i \in DOMAIN d : \A dep \in dependencies(d[i], custom_types) :
           dep # d[i].name => Ahead(d, dep, d[i].name)
<1> DEFINE N == Len(d)
           deps(i) == dependencies(d[i], custom_types)
<1>1. N \in Nat /\ DOMAIN d = 1..N
  BY DictIs
<1>2. d = OrderingAll!TheFold(custom_types, d, d, N)[1..N]
  BY <1>1 DEF dependency_order_class_objects, FoldLeft, MapThenFoldSet, Max,
     OrderingAll!TheFold, OrderingAll!Fold, OrderingAll!Largest, OrderStep
<1>3. /\ \A i \in 1..N : deps(i) \subseteq Keys(d)
      /\ \A i \in 1..N : d[i].name \in Keys(d)
      /\ \A n \in Keys(d) : \E i \in 1..N : d[i].name = n
      /\ \A i, j \in 1..N : d[i].name = d[j].name => i = j
  BY <1>1 DEF Keys, Dict, NamedOnce
<1> HIDE DEF N
<1>4. PICK h : /\ OrderingAll!Course(custom_types, d, d, N, h)
               /\ h[N] = OrderingAll!TheFold(custom_types, d, d, N)[1..N]
  BY <1>1, OrderingAll!FoldHasCourse, OrderingAllInducts
<1>5. /\ h[0] = d
      /\ \A n \in 1..N : h[n] = OrderStep(custom_types, h[n - 1], d[n])
      /\ d = h[N]
  BY <1>2, <1>4 DEF OrderingAll!Course
<1>6. \A n \in 0..N : Reordered(d, h[n])
  <2> DEFINE S == {n \in 0..N : Reordered(d, h[n])}
  <2>1. 0 \in S
    BY <1>1, <1>5 DEF Reordered
  <2>2. ASSUME NEW n \in 1..N, n - 1 \in S PROVE n \in S
    <3> DEFINE u == h[n - 1]
               v == h[n]
               x == d[n]
    <3>1. Reordered(d, u) /\ v = OrderStep(custom_types, u, x) /\ n \in 0..N
      BY <1>1, <1>5, <2>2
    <3>2. x.name \in Keys(d) /\ dependencies(x, custom_types) \subseteq Keys(d)
      BY <1>3
    <3> HIDE DEF u, v, x
    <3>3. Dict(u) /\ Keys(u) = Keys(d)
      BY <3>1 DEF Reordered
    <3>4. Reordered(u, v)
      BY <3>1, <3>2, <3>3, OneOrdered
    <3>5. Reordered(d, v)
      BY <3>1, <3>4, ReorderedAgain
    <3> QED
      BY <3>1, <3>5 DEF v
  <2> HIDE DEF S
  <2>3. 0..N \subseteq S
    BY <1>1, <2>1, <2>2, UpTo
  <2> QED
    BY <2>3 DEF S
<1>7. ASSUME NEW n \in 1..N
      PROVE  /\ \A a, b : a # d[n].name /\ b # d[n].name => (Ahead(h[n], a, b) <=> Ahead(h[n - 1], a, b))
             /\ \A dep \in deps(n) : dep # d[n].name => Ahead(h[n], dep, d[n].name)
             /\ (\A dep \in deps(n) : dep = d[n].name \/ Ahead(h[n - 1], dep, d[n].name)) => h[n] = h[n - 1]
  <2>1. n - 1 \in 0..N
    BY <1>1
  <2>2. Dict(h[n - 1]) /\ Keys(h[n - 1]) = Keys(d)
    BY <1>6, <2>1 DEF Reordered
  <2>3. d[n].name \in Keys(h[n - 1]) /\ dependencies(d[n], custom_types) \subseteq Keys(h[n - 1])
    BY <1>3, <2>2
  <2>4. h[n] = OrderStep(custom_types, h[n - 1], d[n])
    BY <1>5
  <2> QED
    BY <2>2, <2>3, <2>4, OneOrderedAhead
<1> HIDE DEF deps
<1> DEFINE Moved == {n \in 1..N : h[n] # h[n - 1]}
<1>8. ASSUME Moved # {} PROVE FALSE
  <2>1. PICK m \in Moved : \A j \in Moved : d[j].name \in deps(m) => j = m
    BY <1>1, <1>8 DEF Unentangled, deps
  <2> DEFINE key == d[m].name
  <2>2. m \in 1..N /\ h[m] # h[m - 1]
    BY <2>1
  <2>3. PICK e \in deps(m) : e # key /\ ~ Ahead(h[m - 1], e, key)
    BY <1>7, <2>2
  <2>4. Ahead(h[m], e, key)
    BY <1>7, <2>2, <2>3
  <2>5. PICK k \in 1..N : d[k].name = e
    BY <1>3, <2>2, <2>3
  <2>6. k \notin Moved
    BY <2>1, <2>3, <2>5
  <2>7. h[k] = h[k - 1]
    BY <2>5, <2>6
  <2> HIDE DEF Moved
  <2>8. \A n \in 1..N : n # m => (Ahead(h[n], e, key) <=> Ahead(h[n - 1], e, key))
    <3> SUFFICES ASSUME NEW n \in 1..N, n # m PROVE Ahead(h[n], e, key) <=> Ahead(h[n - 1], e, key)
      OBVIOUS
    <3>1. d[n].name # key
      BY <1>3, <2>2
    <3>2. CASE n = k
      BY <2>7, <3>2
    <3>3. CASE n # k
      <4>1. d[n].name # e
        BY <1>3, <2>5, <3>3
      <4> HIDE DEF key
      <4> QED
        BY <1>7, <3>1, <4>1
    <3> QED
      BY <3>2, <3>3
  <2> HIDE DEF key
  <2>9. Ahead(d, e, key)
    <3> DEFINE T == {n \in 0..N : n >= m => Ahead(h[n], e, key)}
    <3>1. 0 \in T
      BY <1>1, <2>2
    <3>2. ASSUME NEW n \in 1..N, n - 1 \in T PROVE n \in T
      <4>1. n \in 0..N /\ m \in Int /\ n \in Int
        BY <1>1, <2>2
      <4>2. CASE n = m
        BY <2>4, <4>1, <4>2
      <4>3. CASE n # m
        <5>1. n >= m => n - 1 >= m
          BY <4>1, <4>3
        <5>2. n - 1 >= m => Ahead(h[n - 1], e, key)
          BY <3>2
        <5> QED
          BY <2>8, <4>1, <4>3, <5>1, <5>2
      <4> QED
        BY <4>2, <4>3
    <3> HIDE DEF T
    <3>3. N \in T
      BY <1>1, <3>1, <3>2, UpTo
    <3>4. N >= m
      BY <1>1, <2>2
    <3> QED
      BY <1>5, <3>3, <3>4 DEF T
  <2>10. Ahead(h[m - 1], e, key)
    <3> DEFINE T == {n \in 0..N : n < m => Ahead(h[n], e, key)}
    <3>1. 0 \in T
      BY <1>1, <1>5, <2>9
    <3>2. ASSUME NEW n \in 1..N, n - 1 \in T PROVE n \in T
      <4>1. n \in 0..N /\ m \in Int /\ n \in Int
        BY <1>1, <2>2
      <4>2. n < m => n - 1 < m /\ n # m
        BY <4>1
      <4>3. n - 1 < m => Ahead(h[n - 1], e, key)
        BY <3>2
      <4> QED
        BY <2>8, <4>1, <4>2, <4>3
    <3> HIDE DEF T
    <3>3. m - 1 \in 0..N /\ m - 1 < m
      BY <1>1, <2>2
    <3>4. m - 1 \in T
      BY <1>1, <3>1, <3>2, <3>3, UpTo
    <3> QED
      BY <3>3, <3>4 DEF T
  <2> QED
    BY <2>3, <2>10
<1>9. \A n \in 0..N : h[n] = d
  <2> DEFINE T == {n \in 0..N : h[n] = d}
  <2>1. 0 \in T
    BY <1>1, <1>5
  <2>2. ASSUME NEW n \in 1..N, n - 1 \in T PROVE n \in T
    BY <1>1, <1>8, <2>2
  <2> HIDE DEF T
  <2>3. 0..N \subseteq T
    BY <1>1, <2>1, <2>2, UpTo
  <2> QED
    BY <2>3 DEF T
<1>10. ASSUME NEW i \in 1..N, NEW dep \in deps(i), dep # d[i].name PROVE Ahead(d, dep, d[i].name)
  <2>1. h[i] = d
    BY <1>9
  <2> QED
    BY <1>7, <1>10, <2>1
<1> QED
  BY <1>1, <1>10 DEF deps

-----------------------------------------------------------------------------
(* Writing: what a list of statements tells of a name. *)

LEMMA PartAfter ==
  ASSUME NEW p, IsList(p), NEW q, NEW n, NEW x, Part(q, n, x)
  PROVE  IsList(p \o q) /\ (Tells(p, n, x) \/ Tells(q, n, x) => Tells(p \o q, n, x))
<1> DEFINE r == p \o q
           P == Len(p)
<1>1. IsList(q)
  BY DEF Part, Silent, Tells
<1>2. Joined(p, q, r)
  BY <1>1, Concatenation
<1> HIDE DEF r
<1>3. P \in Nat /\ DOMAIN p = 1..P /\ DOMAIN q = 1..Len(q) /\ Len(q) \in Nat
  BY <1>1, ListIs
<1>4. /\ IsList(r) /\ DOMAIN r = 1..Len(r)
      /\ \A i \in DOMAIN p : i \in DOMAIN r /\ r[i] = p[i]
      /\ \A i \in DOMAIN q : P + i \in DOMAIN r /\ r[P + i] = q[i]
      /\ \A i \in DOMAIN r : i \in DOMAIN p \/ (i - P \in DOMAIN q /\ i = P + (i - P))
  BY <1>2 DEF Joined
<1>5. Len(r) \in Nat
  BY <1>4, ListIs
<1> HIDE DEF P
<1>6. \A i \in DOMAIN r : i \in DOMAIN p \/ \E k \in DOMAIN q : i = P + k
  BY <1>4
<1>7. \A i \in DOMAIN p, k \in DOMAIN q : i <= P + k
  BY <1>3
<1>8. CASE Tells(q, n, x)
  <2>1. PICK k \in DOMAIN q : /\ q[k].name = n /\ q[k].text = x
                              /\ \A j \in DOMAIN q : q[j].name = n => j <= k
    BY <1>8 DEF Tells
  <2>2. P + k \in DOMAIN r /\ r[P + k] = q[k]
    BY <1>4
  <2>3. ASSUME NEW j \in DOMAIN r, r[j].name = n PROVE j <= P + k
    <3>1. CASE j \in DOMAIN p
      BY <1>7, <3>1
    <3>2. CASE j \notin DOMAIN p
      <4>1. PICK l \in DOMAIN q : j = P + l
        BY <1>6, <3>2
      <4>2. q[l].name = n
        BY <1>4, <2>3, <4>1
      <4>3. l <= k /\ l \in Nat /\ k \in Nat
        BY <1>3, <2>1, <4>2
      <4> QED
        BY <1>3, <4>1, <4>3
    <3> QED
      BY <3>1, <3>2
  <2>4. Tells(r, n, x)
    BY <1>4, <2>1, <2>2, <2>3 DEF Tells
  <2> QED
    BY <1>4, <2>4 DEF r
<1>9. CASE ~ Tells(q, n, x)
  <2>1. \A k \in DOMAIN q : q[k].name # n
    BY <1>9 DEF Part, Silent
  <2>2. ASSUME Tells(p, n, x) PROVE Tells(r, n, x)
    <3>1. PICK i \in DOMAIN p : /\ p[i].name = n /\ p[i].text = x
                                /\ \A j \in DOMAIN p : p[j].name = n => j <= i
      BY <2>2 DEF Tells
    <3>2. i \in DOMAIN r /\ r[i] = p[i]
      BY <1>4
    <3>3. \A j \in DOMAIN r : r[j].name = n => j \in DOMAIN p /\ p[j].name = n
      BY <1>4, <1>6, <2>1
    <3> QED
      BY <1>4, <3>1, <3>2, <3>3 DEF Tells
  <2> QED
    BY <1>4, <1>9, <2>2 DEF r
<1> QED
  BY <1>8, <1>9

(* A module: what comes first may bind n, the parts after it say nothing   *)
(* else of it, and one of them does.                                       *)
LEMMA PartsTell ==
  ASSUME NEW n, NEW x, NEW a1, IsList(a1), NEW a2, IsList(a2), NEW a3, IsList(a3),
         NEW b1, Part(b1, n, x), NEW b2, Part(b2, n, x), NEW b3, Part(b3, n, x),
         NEW b4, Part(b4, n, x), NEW b5, Part(b5, n, x), NEW b6, Part(b6, n, x),
         NEW b7, Part(b7, n, x), NEW b8, Part(b8, n, x), NEW b9, Part(b9, n, x),
         NEW b10, Part(b10, n, x), NEW b11, Part(b11, n, x), NEW b12, Part(b12, n, x),
         NEW b13, Part(b13, n, x), NEW b14, Part(b14, n, x), NEW b15, Part(b15, n, x),
         \/ Tells(b1, n, x) \/ Tells(b2, n, x) \/ Tells(b3, n, x) \/ Tells(b4, n, x)
         \/ Tells(b5, n, x) \/ Tells(b6, n, x) \/ Tells(b9, n, x) \/ Tells(b11, n, x)
  PROVE  Tells(a1 \o a2 \o a3 \o b1 \o b2 \o b3 \o b4 \o b5 \o b6 \o b7 \o b8 \o b9 \o b10
               \o b11 \o b12 \o b13 \o b14 \o b15, n, x)
<1> DEFINE p1 == a1 \o a2
           p2 == p1 \o a3
           q1 == p2 \o b1
           q2 == q1 \o b2
           q3 == q2 \o b3
           q4 == q3 \o b4
           q5 == q4 \o b5
           q6 == q5 \o b6
           q7 == q6 \o b7
           q8 == q7 \o b8
           q9 == q8 \o b9
           q10 == q9 \o b10
           q11 == q10 \o b11
           q12 == q11 \o b12
           q13 == q12 \o b13
           q14 == q13 \o b14
           q15 == q14 \o b15
<1>1. IsList(p1)
  BY Concatenation DEF Joined
<1> HIDE DEF p1
<1>2. IsList(p2)
  BY <1>1, Concatenation DEF Joined
<1> HIDE DEF p2
<1>3. IsList(q1) /\ (Tells(b1, n, x) => Tells(q1, n, x))
  BY <1>2, PartAfter
<1> HIDE DEF q1
<1>4. IsList(q2) /\ (Tells(q1, n, x) \/ Tells(b2, n, x) => Tells(q2, n, x))
  BY <1>3, PartAfter
<1> HIDE DEF q2
<1>5. IsList(q3) /\ (Tells(q2, n, x) \/ Tells(b3, n, x) => Tells(q3, n, x))
  BY <1>4, PartAfter
<1> HIDE DEF q3
<1>6. IsList(q4) /\ (Tells(q3, n, x) \/ Tells(b4, n, x) => Tells(q4, n, x))
  BY <1>5, PartAfter
<1> HIDE DEF q4
<1>7. IsList(q5) /\ (Tells(q4, n, x) \/ Tells(b5, n, x) => Tells(q5, n, x))
  BY <1>6, PartAfter
<1> HIDE DEF q5
<1>8. IsList(q6) /\ (Tells(q5, n, x) \/ Tells(b6, n, x) => Tells(q6, n, x))
  BY <1>7, PartAfter
<1> HIDE DEF q6
<1>9. IsList(q7) /\ (Tells(q6, n, x) => Tells(q7, n, x))
  BY <1>8, PartAfter
<1> HIDE DEF q7
<1>10. IsList(q8) /\ (Tells(q7, n, x) => Tells(q8, n, x))
  BY <1>9, PartAfter
<1> HIDE DEF q8
<1>11. IsList(q9) /\ (Tells(q8, n, x) \/ Tells(b9, n, x) => Tells(q9, n, x))
  BY <1>10, PartAfter
<1> HIDE DEF q9
<1>12. IsList(q10) /\ (Tells(q9, n, x) => Tells(q10, n, x))
  BY <1>11, PartAfter
<1> HIDE DEF q10
<1>13. IsList(q11) /\ (Tells(q10, n, x) \/ Tells(b11, n, x) => Tells(q11, n, x))
  BY <1>12, PartAfter
<1> HIDE DEF q11
<1>14. IsList(q12) /\ (Tells(q11, n, x) => Tells(q12, n, x))
  BY <1>13, PartAfter
<1> HIDE DEF q12
<1>15. IsList(q13) /\ (Tells(q12, n, x) => Tells(q13, n, x))
  BY <1>14, PartAfter
<1> HIDE DEF q13
<1>16. IsList(q14) /\ (Tells(q13, n, x) => Tells(q14, n, x))
  BY <1>15, PartAfter
<1> HIDE DEF q14
<1>17. IsList(q15) /\ (Tells(q14, n, x) => Tells(q15, n, x))
  BY <1>16, PartAfter
<1>18. Tells(q14, n, x)
  BY <1>3, <1>4, <1>5, <1>6, <1>7, <1>8, <1>9, <1>10, <1>11, <1>12, <1>13, <1>14, <1>15, <1>16
<1>19. Tells(q15, n, x)
  BY <1>17, <1>18
<1> QED
  BY <1>19 DEF p1, p2, q1, q2, q3, q4, q5, q6, q7, q8, q9, q10, q11, q12, q13, q14

(* The parts of a module. *)

(* A part made of the entries of a list, one statement of each.            *)
LEMMA StatementsAre ==
  ASSUME NEW d, IsList(d), NEW p, p = [i \in DOMAIN d |-> p[i]]
  PROVE  IsList(p) /\ DOMAIN p = DOMAIN d
<1>1. Len(d) \in Nat /\ DOMAIN d = 1..Len(d)
  BY ListIs
<1>2. p = [i \in 1..Len(d) |-> p[i]]
  BY <1>1
<1> QED
  BY ONLY <1>1, <1>2, ListIs

LEMMA NamesAre ==
  ASSUME NEW names, IsList(names)
  PROVE  IsList(Names(names))
<1> DEFINE p == Names(names)
<1>1. p = [i \in DOMAIN names |-> p[i]]
  BY DEF Names
<1> HIDE DEF p
<1>2. IsList(p)
  BY <1>1, StatementsAre
<1> QED
  BY <1>2 DEF p

(* The definitions of a dictionary.                                        *)
LEMMA DefinitionsTell ==
  ASSUME NEW d, Dict(d), NEW n
  PROVE  /\ n \notin Keys(d) => Silent(Definitions(d), n)
         /\ n \in Keys(d) => Tells(Definitions(d), n, Get(d, n).text)
<1> DEFINE p == Definitions(d)
<1>1. /\ p = [i \in DOMAIN d |-> p[i]]
      /\ \A i \in DOMAIN d : p[i].name = d[i].name /\ p[i].text = d[i].def.text
  BY DEF Definitions, Statement
<1> HIDE DEF p
<1>2. IsList(p) /\ DOMAIN p = DOMAIN d
  BY <1>1, StatementsAre DEF Dict
<1>3. n \notin Keys(d) => Silent(p, n)
  BY <1>1, <1>2 DEF Keys, Silent
<1>4. ASSUME n \in Keys(d) PROVE Tells(p, n, Get(d, n).text)
  <2>1. PICK i \in DOMAIN d : d[i].name = n /\ Get(d, n) = d[i].def
    BY <1>4, GetIs
  <2>2. \A j \in DOMAIN d : d[j].name = n => j = i
    BY <2>1 DEF Dict, NamedOnce
  <2>3. i <= i
    BY DictIs
  <2> QED
    BY <1>1, <1>2, <2>1, <2>2, <2>3 DEF Tells
<1> QED
  BY <1>3, <1>4 DEF p

(* A part of the module whose text does not matter for n.                  *)
LEMMA SilentIs ==
  ASSUME NEW d, IsList(d), NEW p, p = [i \in DOMAIN d |-> p[i]], NEW n,
         \A i \in DOMAIN d : p[i].name # n
  PROVE  Silent(p, n)
<1>1. IsList(p) /\ DOMAIN p = DOMAIN d
  BY StatementsAre
<1> QED
  BY <1>1 DEF Silent

(* Entries that keep their names.                                          *)
LEMMA RenderedIs ==
  ASSUME NEW d, Dict(d), NEW e, e = [i \in DOMAIN d |-> e[i]],
         \A i \in DOMAIN d : e[i].name = d[i].name
  PROVE  /\ Dict(e) /\ Keys(e) = Keys(d)
         /\ \A i \in DOMAIN d : Get(e, d[i].name) = e[i].def
<1>1. IsList(e) /\ DOMAIN e = DOMAIN d
  BY StatementsAre DEF Dict
<1>2. Dict(e)
  BY <1>1 DEF Dict, NamedOnce
<1>3. Keys(e) = Keys(d)
  BY <1>1 DEF Keys
<1>4. \A i \in DOMAIN d : Get(e, d[i].name) = e[i].def
  BY <1>1, <1>2, GetIs
<1> QED
  BY <1>2, <1>3, <1>4

(* Reading config variables through config keeps names and texts.          *)
LEMMA ConfiguredIs ==
  ASSUME NEW d, Dict(d), NEW s
  PROVE  LET e == Configured(d, s)
         IN /\ Dict(e) /\ Keys(e) = Keys(d)
            /\ \A n \in Keys(d) :
                 /\ Get(e, n).text = Get(d, n).text
                 /\ Get(e, n).mentions \subseteq (Get(d, n).mentions \ Keys(s["config_vars"])) \cup {"config"}
<1> DEFINE e == Configured(d, s)
<1>1. /\ e = [i \in DOMAIN d |-> e[i]]
      /\ \A i \in DOMAIN d :
           /\ e[i].name = d[i].name /\ e[i].def.text = d[i].def.text
           /\ e[i].def.mentions \subseteq (d[i].def.mentions \ Keys(s["config_vars"])) \cup {"config"}
  BY DEF Configured, Definition
<1> HIDE DEF e
<1>2. Dict(e) /\ Keys(e) = Keys(d) /\ \A i \in DOMAIN d : Get(e, d[i].name) = e[i].def
  BY <1>1, RenderedIs
<1>3. ASSUME NEW n \in Keys(d)
      PROVE  /\ Get(e, n).text = Get(d, n).text
             /\ Get(e, n).mentions \subseteq (Get(d, n).mentions \ Keys(s["config_vars"])) \cup {"config"}
  <2>1. PICK i \in DOMAIN d : d[i].name = n /\ Get(d, n) = d[i].def
    BY GetIs
  <2> QED
    BY <1>1, <1>2, <2>1
<1> QED
  BY <1>2, <1>3 DEF e

(* The functions but for those the module has anyway; those that are not   *)
(* optimized keep their texts.                                             *)
LEMMA FunctionsAre ==
  ASSUME NEW s, Dict(s["functions"]), NEW fork
  PROVE  LET e == Functions(s, fork)
         IN /\ Dict(e) /\ Keys(e) = Keys(s["functions"]) \ DeletedFunctions
            /\ \A n \in Keys(e) : Get(e, n).mentions = Get(s["functions"], n).mentions
            /\ \A n \in Keys(e) : n \notin UNION {builders(fork)[i].optimized : i \in DOMAIN builders(fork)}
                                    => Get(e, n).text = Get(s["functions"], n).text
<1> DEFINE c == s["functions"]
           kept == Keys(c) \ DeletedFunctions
           d == Restricted(c, kept)
           e == Functions(s, fork)
           optimized == UNION {builders(fork)[i].optimized : i \in DOMAIN builders(fork)}
<1>1. e = implement_optimizations(d, fork)
  BY DEF Functions, Without
<1>2. Dict(d) /\ Keys(d) = Keys(c) \cap kept /\ \A n \in Keys(d) : Get(d, n) = Get(c, n)
  <2> HIDE DEF kept, c
  <2>1. Dict(c)
    BY DEF c
  <2> QED
    BY <2>1, RestrictedIs
<1> HIDE DEF d
<1>3. /\ e = [i \in DOMAIN d |-> e[i]]
      /\ \A i \in DOMAIN d : e[i].name = d[i].name
      /\ \A i \in DOMAIN d : e[i].def.mentions = d[i].def.mentions
      /\ \A i \in DOMAIN d : d[i].name \notin optimized => e[i].def.text = d[i].def.text
  BY <1>1 DEF implement_optimizations, Definition
<1> HIDE DEF e, optimized
<1>4. Dict(e) /\ Keys(e) = Keys(d) /\ \A i \in DOMAIN d : Get(e, d[i].name) = e[i].def
  BY <1>2, <1>3, RenderedIs
<1>5. ASSUME NEW n \in Keys(e), n \notin optimized PROVE Get(e, n).text = Get(c, n).text
  <2>1. PICK i \in DOMAIN d : d[i].name = n /\ Get(d, n) = d[i].def
    BY <1>2, <1>4, GetIs
  <2> QED
    BY <1>2, <1>3, <1>4, <1>5, <2>1
<1>6. ASSUME NEW n \in Keys(e) PROVE Get(e, n).mentions = Get(c, n).mentions
  <2>1. PICK i \in DOMAIN d : d[i].name = n /\ Get(d, n) = d[i].def
    BY <1>2, <1>4, GetIs
  <2> QED
    BY <1>2, <1>3, <1>4, <2>1
<1> QED
  BY <1>2, <1>4, <1>5, <1>6 DEF e, optimized

-----------------------------------------------------------------------------
(* The forks. *)

LEMMA SeqIsList ==
  ASSUME NEW T, NEW q \in Seq(T)
  PROVE  IsList(q)
<1>1. Len(q) \in Nat /\ q = [i \in 1..Len(q) |-> q[i]]
  OBVIOUS
<1> QED
  BY <1>1, ListIs

LEMMA ForksAre ==
  /\ Forks = ForkNames /\ IsList(ALL_FORKS) /\ DOMAIN ALL_FORKS = 1..11
  /\ ALL_FORKS[1] = "phase0" /\ ALL_FORKS[2] = "altair" /\ ALL_FORKS[3] = "bellatrix"
  /\ ALL_FORKS[4] = "capella" /\ ALL_FORKS[5] = "deneb" /\ ALL_FORKS[6] = "electra"
  /\ ALL_FORKS[7] = "fulu" /\ ALL_FORKS[8] = "eip6800" /\ ALL_FORKS[9] = "eip7441"
  /\ ALL_FORKS[10] = "eip7732" /\ ALL_FORKS[11] = "eip7805"
<1>1. ALL_FORKS = [i \in 1..11 |-> ALL_FORKS[i]]
  BY DEF ALL_FORKS
<1>2. IsList(ALL_FORKS) /\ DOMAIN ALL_FORKS = 1..11
  BY <1>1, ListIs
<1>3. /\ ALL_FORKS[1] = "phase0" /\ ALL_FORKS[2] = "altair" /\ ALL_FORKS[3] = "bellatrix"
      /\ ALL_FORKS[4] = "capella" /\ ALL_FORKS[5] = "deneb" /\ ALL_FORKS[6] = "electra"
      /\ ALL_FORKS[7] = "fulu" /\ ALL_FORKS[8] = "eip6800" /\ ALL_FORKS[9] = "eip7441"
      /\ ALL_FORKS[10] = "eip7732" /\ ALL_FORKS[11] = "eip7805"
  BY DEF ALL_FORKS
<1>4. \A i \in 1..11 : \/ i = 1 \/ i = 2 \/ i = 3 \/ i = 4 \/ i = 5 \/ i = 6 \/ i = 7 \/ i = 8
                       \/ i = 9 \/ i = 10 \/ i = 11
  OBVIOUS
<1>5. /\ 1 \in 1..11 /\ 2 \in 1..11 /\ 3 \in 1..11 /\ 4 \in 1..11 /\ 5 \in 1..11 /\ 6 \in 1..11
      /\ 7 \in 1..11 /\ 8 \in 1..11 /\ 9 \in 1..11 /\ 10 \in 1..11 /\ 11 \in 1..11
  OBVIOUS
<1>6. Forks = {ALL_FORKS[i] : i \in 1..11}
  BY <1>2 DEF Forks, ToSet
<1>7. ForkNames \subseteq Forks
  BY <1>3, <1>5, <1>6 DEF ForkNames
<1>8. Forks \subseteq ForkNames
  BY <1>3, <1>4, <1>6 DEF ForkNames
<1> QED
  BY <1>2, <1>3, <1>7, <1>8

LEMMA PreviousForks ==
  /\ PREVIOUS_FORK_OF["phase0"] = NoFork /\ PREVIOUS_FORK_OF["altair"] = "phase0"
  /\ PREVIOUS_FORK_OF["bellatrix"] = "altair" /\ PREVIOUS_FORK_OF["capella"] = "bellatrix"
  /\ PREVIOUS_FORK_OF["deneb"] = "capella" /\ PREVIOUS_FORK_OF["electra"] = "deneb"
  /\ PREVIOUS_FORK_OF["fulu"] = "electra" /\ PREVIOUS_FORK_OF["eip6800"] = "deneb"
  /\ PREVIOUS_FORK_OF["eip7441"] = "capella" /\ PREVIOUS_FORK_OF["eip7732"] = "electra"
  /\ PREVIOUS_FORK_OF["eip7805"] = "electra"
  /\ NoFork \notin Forks
BY ForksAre DEF PREVIOUS_FORK_OF, NoFork, ForkNames

LEMMA AgesAre ==
  /\ Age["phase0"] = 1 /\ Age["altair"] = 2 /\ Age["bellatrix"] = 3 /\ Age["capella"] = 4
  /\ Age["deneb"] = 5 /\ Age["electra"] = 6 /\ Age["fulu"] = 7 /\ Age["eip6800"] = 6
  /\ Age["eip7441"] = 5 /\ Age["eip7732"] = 7 /\ Age["eip7805"] = 7
BY DEF Age

LEMMA AgeDecreases ==
  /\ \A fork \in Forks : Age[fork] \in Nat
  /\ \A fork \in Forks \ {"phase0"} :
       /\ PREVIOUS_FORK_OF[fork] \in Forks /\ PREVIOUS_FORK_OF[fork] # NoFork
       /\ Age[PREVIOUS_FORK_OF[fork]] < Age[fork]
<1>1. \A fork \in ForkNames : Age[fork] \in Nat
  BY AgesAre DEF ForkNames
<1>2. ASSUME NEW fork \in ForkNames \ {"phase0"}
      PROVE  PREVIOUS_FORK_OF[fork] \in ForkNames /\ Age[PREVIOUS_FORK_OF[fork]] < Age[fork]
  BY AgesAre, PreviousForks DEF ForkNames
<1> QED
  BY <1>1, <1>2, ForksAre, PreviousForks

PrevStep(none, forks, fork) == <<fork>> \o forks
PrevForks == INSTANCE FoldOf WITH op <- PrevStep

LEMMA PrevForksInducts == PrevForks!NatInduction
BY NatSetInduction DEF PrevForks!NatInduction

LEMMA PrevForksRecursion ==
  /\ collect_prev_forks("phase0") = <<"phase0">>
  /\ \A fork \in Forks \ {"phase0"} :
       collect_prev_forks(fork) = <<fork>> \o collect_prev_forks(PREVIOUS_FORK_OF[fork])
<1> DEFINE P(f) == f = [fork \in Forks |->
                          IF PREVIOUS_FORK_OF[fork] = NoFork THEN <<fork>>
                          ELSE <<fork>> \o f[PREVIOUS_FORK_OF[fork]]]
           base == [fork \in {"phase0"} |-> <<fork>>]
<1>1. "phase0" \in Forks
  BY ForksAre DEF ForkNames
<1>2. PICK f : PrevForks!Walk(0, Forks, {"phase0"}, base, PREVIOUS_FORK_OF, f)
  <2> HIDE DEF base
  <2> QED
    BY AgeDecreases, PrevForks!WalkExists, PrevForksInducts
<1>3. P(f)
  <2>1. f = [fork \in Forks |-> IF fork \in {"phase0"} THEN base[fork]
                                ELSE PrevStep(0, f[PREVIOUS_FORK_OF[fork]], fork)]
    BY <1>2 DEF PrevForks!Walk
  <2>2. ASSUME NEW fork \in Forks
        PROVE  (IF fork \in {"phase0"} THEN base[fork] ELSE PrevStep(0, f[PREVIOUS_FORK_OF[fork]], fork))
                 = IF PREVIOUS_FORK_OF[fork] = NoFork THEN <<fork>>
                   ELSE <<fork>> \o f[PREVIOUS_FORK_OF[fork]]
    BY AgeDecreases, PreviousForks DEF PrevStep
  <2> HIDE DEF base
  <2> QED
    BY <2>1, <2>2
<1>4. PrevForksOf = CHOOSE g : P(g)
  BY DEF PrevForksOf
<1> HIDE DEF P
<1>5. P(PrevForksOf)
  BY <1>3, <1>4
<1>6. PrevForksOf = [fork \in Forks |->
                       IF PREVIOUS_FORK_OF[fork] = NoFork THEN <<fork>>
                       ELSE <<fork>> \o PrevForksOf[PREVIOUS_FORK_OF[fork]]]
  BY <1>5 DEF P
<1> QED
  BY <1>1, <1>6, AgeDecreases, PreviousForks DEF collect_prev_forks

LEMMA ForkListMore ==
  ASSUME NEW p, NEW n \in Nat, ForkList(p, n), NEW fork \in Forks
  PROVE  ForkList(<<fork>> \o p, n + 1)
<1>1. p \in Seq(Forks)
  <2>1. p \in Seq({p[i] : i \in DOMAIN p}) /\ {p[i] : i \in DOMAIN p} \subseteq Forks
    BY DEF ForkList, IsList
  <2> DEFINE T == {p[i] : i \in DOMAIN p}
  <2> HIDE DEF T
  <2>2. p \in Seq(T) /\ T \subseteq Forks
    BY <2>1 DEF T
  <2> QED
    BY <2>2
<1>2. Len(p) = n
  BY DEF ForkList
<1> DEFINE q == <<fork>> \o p
<1>3. q \in Seq(Forks) /\ Len(q) = n + 1
  BY <1>1, <1>2
<1> HIDE DEF q
<1>4. \A i \in DOMAIN q : q[i] \in Forks
  BY <1>3
<1>5. ForkList(q, n + 1)
  BY <1>3, <1>4, SeqIsList DEF ForkList
<1> QED
  BY <1>5 DEF q

LEMMA PrevForksAre == \A fork \in Forks : ForkList(collect_prev_forks(fork), Age[fork])
<1> DEFINE Good(fork) == ForkList(collect_prev_forks(fork), Age[fork])
<1>1. Good("phase0")
  <2>1. <<"phase0">> \in Seq(Forks) /\ Len(<<"phase0">>) = 1 /\ \A i \in DOMAIN <<"phase0">> : <<"phase0">>[i] \in Forks
    BY ForksAre DEF ForkNames
  <2>2. ForkList(<<"phase0">>, 1)
    BY <2>1, SeqIsList DEF ForkList
  <2> QED
    BY <2>2, PrevForksRecursion, AgesAre
<1>2. ASSUME NEW fork \in Forks \ {"phase0"}, NEW prev, prev = PREVIOUS_FORK_OF[fork], Good(prev),
             Age[fork] = Age[prev] + 1
      PROVE  Good(fork)
  <2> DEFINE p == collect_prev_forks(prev)
             n == Age[prev]
  <2>1. ForkList(p, n) /\ n \in Nat /\ collect_prev_forks(fork) = <<fork>> \o p
    BY <1>2, AgeDecreases, PrevForksRecursion
  <2> HIDE DEF p, n
  <2>2. ForkList(<<fork>> \o p, n + 1)
    BY <2>1, ForkListMore
  <2> QED
    BY <1>2, <2>1, <2>2 DEF n
<1> HIDE DEF Good
<1>3. Good("altair")
  BY <1>1, <1>2, AgesAre, PreviousForks, ForksAre DEF ForkNames
<1>4. Good("bellatrix")
  BY <1>2, <1>3, AgesAre, PreviousForks, ForksAre DEF ForkNames
<1>5. Good("capella")
  BY <1>2, <1>4, AgesAre, PreviousForks, ForksAre DEF ForkNames
<1>6. Good("deneb")
  BY <1>2, <1>5, AgesAre, PreviousForks, ForksAre DEF ForkNames
<1>7. Good("electra")
  BY <1>2, <1>6, AgesAre, PreviousForks, ForksAre DEF ForkNames
<1>8. Good("fulu") /\ Good("eip7732") /\ Good("eip7805")
  BY <1>2, <1>7, AgesAre, PreviousForks, ForksAre DEF ForkNames
<1>9. Good("eip6800") /\ Good("eip7441")
  BY <1>2, <1>5, <1>6, AgesAre, PreviousForks, ForksAre DEF ForkNames
<1>10. \A fork \in ForkNames : Good(fork)
  BY <1>1, <1>3, <1>4, <1>5, <1>6, <1>7, <1>8, <1>9 DEF ForkNames
<1> QED
  BY <1>10, ForksAre DEF Good

PostStep(none, post, a) == [b \in Forks |-> a = b \/ (a # "phase0" /\ post[b])]
PostForks == INSTANCE FoldOf WITH op <- PostStep

LEMMA PostForksInducts == PostForks!NatInduction
BY NatSetInduction DEF PostForks!NatInduction

LEMMA PostForkRecursion ==
  \A a, b \in Forks :
    is_post_fork(a, b) => a = b \/ (a # "phase0" /\ is_post_fork(PREVIOUS_FORK_OF[a], b))
<1> DEFINE P(f) == f = [a \in Forks |->
                          [b \in Forks |-> \/ a = b
                                           \/ PREVIOUS_FORK_OF[a] # NoFork /\ f[PREVIOUS_FORK_OF[a]][b]]]
           base == [a \in {"phase0"} |-> [b \in Forks |-> a = b]]
<1>1. "phase0" \in Forks
  BY ForksAre DEF ForkNames
<1>2. PICK f : PostForks!Walk(0, Forks, {"phase0"}, base, PREVIOUS_FORK_OF, f)
  <2> HIDE DEF base
  <2> QED
    BY AgeDecreases, PostForks!WalkExists, PostForksInducts
<1>3. P(f)
  <2>1. f = [a \in Forks |-> IF a \in {"phase0"} THEN base[a]
                             ELSE PostStep(0, f[PREVIOUS_FORK_OF[a]], a)]
    BY <1>2 DEF PostForks!Walk
  <2>2. ASSUME NEW a \in Forks
        PROVE  (IF a \in {"phase0"} THEN base[a] ELSE PostStep(0, f[PREVIOUS_FORK_OF[a]], a))
                 = [b \in Forks |-> \/ a = b
                                    \/ PREVIOUS_FORK_OF[a] # NoFork /\ f[PREVIOUS_FORK_OF[a]][b]]
    <3>1. CASE a = "phase0"
      <4>1. PREVIOUS_FORK_OF[a] = NoFork
        BY <3>1, PreviousForks
      <4> QED
        BY <3>1, <4>1
    <3>2. CASE a # "phase0"
      <4>1. PREVIOUS_FORK_OF[a] # NoFork
        BY <3>2, AgeDecreases
      <4> QED
        BY <3>2, <4>1 DEF PostStep
    <3> QED
      BY <3>1, <3>2
  <2> HIDE DEF base
  <2> QED
    BY <2>1, <2>2
<1>4. PostForkOf = CHOOSE g : P(g)
  BY DEF PostForkOf
<1> HIDE DEF P
<1>5. P(PostForkOf)
  BY <1>3, <1>4
<1>6. PostForkOf = [a \in Forks |->
                      [b \in Forks |-> \/ a = b
                                       \/ PREVIOUS_FORK_OF[a] # NoFork /\ PostForkOf[PREVIOUS_FORK_OF[a]][b]]]
  BY <1>5 DEF P
<1>7. ASSUME NEW a \in Forks, NEW b \in Forks
      PROVE  PostForkOf[a][b] = (\/ a = b
                                 \/ PREVIOUS_FORK_OF[a] # NoFork /\ PostForkOf[PREVIOUS_FORK_OF[a]][b])
  <2>1. PostForkOf[a] = [c \in Forks |-> \/ a = c
                                         \/ PREVIOUS_FORK_OF[a] # NoFork /\ PostForkOf[PREVIOUS_FORK_OF[a]][c]]
    BY <1>6
  <2> QED
    BY <2>1, Zenon
<1>8. PREVIOUS_FORK_OF["phase0"] = NoFork
  BY PreviousForks
<1> QED
  BY <1>7, <1>8 DEF is_post_fork

LEMMA ChainsAre ==
  \A fork \in Forks : \A i \in 1..11 : is_post_fork(fork, ALL_FORKS[i]) => i \in Chain[fork]
<1> DEFINE Good(fork) == \A i \in 1..11 : is_post_fork(fork, ALL_FORKS[i]) => i \in Chain[fork]
<1>1. \A i \in 1..11 : \/ i = 1 \/ i = 2 \/ i = 3 \/ i = 4 \/ i = 5 \/ i = 6 \/ i = 7 \/ i = 8
                       \/ i = 9 \/ i = 10 \/ i = 11
  OBVIOUS
<1>2. \A i \in 1..11 : ALL_FORKS[i] \in Forks
  BY ForksAre DEF Forks, ToSet
<1>3. /\ \A i \in 1..11 : ALL_FORKS[i] = "phase0" => i = 1
      /\ \A i \in 1..11 : ALL_FORKS[i] = "altair" => i = 2
      /\ \A i \in 1..11 : ALL_FORKS[i] = "bellatrix" => i = 3
      /\ \A i \in 1..11 : ALL_FORKS[i] = "capella" => i = 4
      /\ \A i \in 1..11 : ALL_FORKS[i] = "deneb" => i = 5
      /\ \A i \in 1..11 : ALL_FORKS[i] = "electra" => i = 6
      /\ \A i \in 1..11 : ALL_FORKS[i] = "fulu" => i = 7
      /\ \A i \in 1..11 : ALL_FORKS[i] = "eip6800" => i = 8
      /\ \A i \in 1..11 : ALL_FORKS[i] = "eip7441" => i = 9
      /\ \A i \in 1..11 : ALL_FORKS[i] = "eip7732" => i = 10
      /\ \A i \in 1..11 : ALL_FORKS[i] = "eip7805" => i = 11
  BY <1>1, ForksAre
<1>4. ASSUME NEW fork \in Forks \ {"phase0"}, NEW prev, prev = PREVIOUS_FORK_OF[fork], Good(prev),
             NEW n, \A i \in 1..11 : ALL_FORKS[i] = fork => i = n, Chain[fork] = Chain[prev] \cup {n}
      PROVE  Good(fork)
  BY <1>2, <1>4, PostForkRecursion
<1>5. /\ Chain["phase0"] = {1} /\ Chain["altair"] = {1, 2} /\ Chain["bellatrix"] = {1, 2, 3}
      /\ Chain["capella"] = {1, 2, 3, 4} /\ Chain["deneb"] = {1, 2, 3, 4, 5}
      /\ Chain["electra"] = {1, 2, 3, 4, 5, 6} /\ Chain["fulu"] = {1, 2, 3, 4, 5, 6, 7}
      /\ Chain["eip6800"] = {1, 2, 3, 4, 5, 8} /\ Chain["eip7441"] = {1, 2, 3, 4, 9}
      /\ Chain["eip7732"] = {1, 2, 3, 4, 5, 6, 10} /\ Chain["eip7805"] = {1, 2, 3, 4, 5, 6, 11}
  BY DEF Chain
<1>6. /\ Chain["altair"] = Chain["phase0"] \cup {2} /\ Chain["bellatrix"] = Chain["altair"] \cup {3}
      /\ Chain["capella"] = Chain["bellatrix"] \cup {4} /\ Chain["deneb"] = Chain["capella"] \cup {5}
      /\ Chain["electra"] = Chain["deneb"] \cup {6} /\ Chain["fulu"] = Chain["electra"] \cup {7}
      /\ Chain["eip6800"] = Chain["deneb"] \cup {8} /\ Chain["eip7441"] = Chain["capella"] \cup {9}
      /\ Chain["eip7732"] = Chain["electra"] \cup {10} /\ Chain["eip7805"] = Chain["electra"] \cup {11}
  BY <1>5
<1>7. Good("phase0")
  <2>1. "phase0" \in Forks
    BY ForksAre DEF ForkNames
  <2> QED
    BY <1>2, <1>3, <1>5, <2>1, PostForkRecursion
<1>8. ForkNames = Forks
  BY ForksAre
<1> HIDE DEF Good
<1>9. Good("altair")
  BY <1>3, <1>4, <1>6, <1>7, <1>8, PreviousForks DEF ForkNames
<1>10. Good("bellatrix")
  BY <1>3, <1>4, <1>6, <1>8, <1>9, PreviousForks DEF ForkNames
<1>11. Good("capella")
  BY <1>3, <1>4, <1>6, <1>8, <1>10, PreviousForks DEF ForkNames
<1>12. Good("deneb")
  BY <1>3, <1>4, <1>6, <1>8, <1>11, PreviousForks DEF ForkNames
<1>13. Good("electra")
  BY <1>3, <1>4, <1>6, <1>8, <1>12, PreviousForks DEF ForkNames
<1>14. Good("fulu")
  BY <1>3, <1>4, <1>6, <1>8, <1>13, PreviousForks DEF ForkNames
<1>15. Good("eip6800")
  BY <1>3, <1>4, <1>6, <1>8, <1>12, PreviousForks DEF ForkNames
<1>16. Good("eip7441")
  BY <1>3, <1>4, <1>6, <1>8, <1>11, PreviousForks DEF ForkNames
<1>17. Good("eip7732")
  BY <1>3, <1>4, <1>6, <1>8, <1>13, PreviousForks DEF ForkNames
<1>18. Good("eip7805")
  BY <1>3, <1>4, <1>6, <1>8, <1>13, PreviousForks DEF ForkNames
<1>19. \A fork \in ForkNames : Good(fork)
  BY <1>7, <1>9, <1>10, <1>11, <1>12, <1>13, <1>14, <1>15, <1>16, <1>17, <1>18 DEF ForkNames
<1> QED
  BY <1>8, <1>19 DEF Good

(* Of the forks that a fork builds on, later ones build on more.           *)
LEMMA LaterForksBuildOnMore ==
  ASSUME NEW fork \in Forks, NEW i \in 1..11, NEW j \in 1..11, i <= j,
         is_post_fork(fork, ALL_FORKS[i]), is_post_fork(fork, ALL_FORKS[j])
  PROVE  Age[ALL_FORKS[i]] <= Age[ALL_FORKS[j]]
<1>1. i \in Chain[fork] /\ j \in Chain[fork] /\ fork \in ForkNames /\ i <= j
  BY ChainsAre, ForksAre
<1>2. /\ Age[ALL_FORKS[1]] = 1 /\ Age[ALL_FORKS[2]] = 2 /\ Age[ALL_FORKS[3]] = 3
      /\ Age[ALL_FORKS[4]] = 4 /\ Age[ALL_FORKS[5]] = 5 /\ Age[ALL_FORKS[6]] = 6
      /\ Age[ALL_FORKS[7]] = 7 /\ Age[ALL_FORKS[8]] = 6 /\ Age[ALL_FORKS[9]] = 5
      /\ Age[ALL_FORKS[10]] = 7 /\ Age[ALL_FORKS[11]] = 7
  BY AgesAre, ForksAre
<1> DEFINE Year(k) == Age[ALL_FORKS[k]]
           ByYear(S) == \A k, l \in S : k <= l => Year(k) <= Year(l)
<1> HIDE DEF Year
<1>3. /\ Year(1) = 1 /\ Year(2) = 2 /\ Year(3) = 3 /\ Year(4) = 4 /\ Year(5) = 5 /\ Year(6) = 6
      /\ Year(7) = 7 /\ Year(8) = 6 /\ Year(9) = 5 /\ Year(10) = 7 /\ Year(11) = 7
  BY <1>2 DEF Year
<1>4. ByYear({1, 2, 3, 4, 5, 6, 7})
  BY ONLY <1>3
<1>5. ByYear({1, 2, 3, 4, 5, 8})
  BY ONLY <1>3
<1>6. ByYear({1, 2, 3, 4, 9})
  BY ONLY <1>3
<1>7. ByYear({1, 2, 3, 4, 5, 6, 10})
  BY ONLY <1>3
<1>8. ByYear({1, 2, 3, 4, 5, 6, 11})
  BY ONLY <1>3
<1>9. \/ i \in {1, 2, 3, 4, 5, 6, 7} /\ j \in {1, 2, 3, 4, 5, 6, 7}
      \/ i \in {1, 2, 3, 4, 5, 8} /\ j \in {1, 2, 3, 4, 5, 8}
      \/ i \in {1, 2, 3, 4, 9} /\ j \in {1, 2, 3, 4, 9}
      \/ i \in {1, 2, 3, 4, 5, 6, 10} /\ j \in {1, 2, 3, 4, 5, 6, 10}
      \/ i \in {1, 2, 3, 4, 5, 6, 11} /\ j \in {1, 2, 3, 4, 5, 6, 11}
  BY <1>1 DEF Chain, ForkNames
<1>10. Year(i) <= Year(j)
  BY <1>1, <1>4, <1>5, <1>6, <1>7, <1>8, <1>9
<1> QED
  BY <1>10 DEF Year

(* The documents are read fork by fork.                                    *)
LEMMA FilesAre ==
  ASSUME NEW fork \in Targets, NEW tree \in Trees[fork]
  PROVE  LET files == get_md_doc_paths(tree, fork)
         IN /\ IsList(files) /\ files # <<>>
            /\ \A i \in DOMAIN files : files[i].elements \in Documents /\ files[i].fork \in Forks
            /\ \A i, j \in DOMAIN files :
                 i <= j => Len(collect_prev_forks(files[i].fork)) <= Len(collect_prev_forks(files[j].fork))
<1> DEFINE Of(k) == IF is_post_fork(fork, ALL_FORKS[k]) THEN FilesOf(tree, ALL_FORKS[k]) ELSE <<>>
           seqs == [k \in DOMAIN ALL_FORKS |-> Of(k)]
           files == get_md_doc_paths(tree, fork)
<1>1. fork \in Forks /\ files = FlattenSeq(seqs) /\ files # <<>>
  BY TargetsAreForks, TreesAssumption DEF get_md_doc_paths
<1>2. \A k \in 1..11 : ALL_FORKS[k] \in Forks
  BY ForksAre DEF Forks, ToSet
<1>3. ASSUME NEW k \in 1..11
      PROVE  /\ IsList(Of(k))
             /\ \A m \in DOMAIN Of(k) : /\ is_post_fork(fork, ALL_FORKS[k])
                                        /\ Of(k)[m].fork = ALL_FORKS[k] /\ Of(k)[m].elements \in Documents
  <2>1. CASE is_post_fork(fork, ALL_FORKS[k])
    <3> DEFINE q == FilesOf(tree, ALL_FORKS[k])
    <3>1. IsList(q) /\ \A m \in DOMAIN q : q[m].fork = ALL_FORKS[k] /\ q[m].elements \in Documents
      BY <1>2, TreesAssumption
    <3>2. Of(k) = q
      BY <2>1
    <3> QED
      BY <2>1, <3>1, <3>2
  <2>2. CASE ~ is_post_fork(fork, ALL_FORKS[k])
    <3>1. Of(k) = <<>> /\ IsList(<<>>)
      BY <2>2, EmptyDict DEF Dict
    <3>2. DOMAIN <<>> = {}
      OBVIOUS
    <3> QED
      BY <3>1, <3>2
  <2> QED
    BY <2>1, <2>2
<1> HIDE DEF Of
<1>4. IsList(seqs) /\ DOMAIN seqs = 1..11 /\ \A k \in 1..11 : seqs[k] = Of(k)
  <2>1. DOMAIN seqs = 1..11 /\ \A k \in 1..11 : seqs[k] = Of(k)
    BY ForksAre
  <2>2. seqs = [k \in 1..11 |-> seqs[k]]
    BY <2>1
  <2> QED
    BY <2>1, <2>2, ListIs
<1> HIDE DEF seqs, files
<1>5. Len(seqs) = 11
  BY <1>4, ListIs
<1>6. Flattened(files, seqs, 11)
  BY <1>1, <1>3, <1>4, <1>5, FlattenIs
<1>7. PICK home : /\ \A i \in DOMAIN files : /\ home[i] \in 1..11
                                             /\ \E k \in DOMAIN seqs[home[i]] : files[i] = seqs[home[i]][k]
                  /\ \A i, j \in DOMAIN files : i <= j => home[i] <= home[j]
  BY <1>6 DEF Flattened
<1>8. \A i \in DOMAIN files : /\ home[i] \in 1..11 /\ is_post_fork(fork, ALL_FORKS[home[i]])
                              /\ files[i].fork = ALL_FORKS[home[i]] /\ files[i].elements \in Documents
  BY <1>3, <1>4, <1>7
<1>9. ASSUME NEW i \in DOMAIN files, NEW j \in DOMAIN files, i <= j
      PROVE  Len(collect_prev_forks(files[i].fork)) <= Len(collect_prev_forks(files[j].fork))
  <2>1. Age[ALL_FORKS[home[i]]] <= Age[ALL_FORKS[home[j]]]
    BY <1>1, <1>7, <1>8, <1>9, LaterForksBuildOnMore
  <2>2. /\ Len(collect_prev_forks(files[i].fork)) = Age[ALL_FORKS[home[i]]]
        /\ Len(collect_prev_forks(files[j].fork)) = Age[ALL_FORKS[home[j]]]
    BY <1>2, <1>8, PrevForksAre DEF ForkList
  <2> QED
    BY <2>1, <2>2
<1>10. IsList(files)
  BY <1>6 DEF Flattened
<1> QED
  BY <1>1, <1>2, <1>8, <1>9, <1>10 DEF files

-----------------------------------------------------------------------------
(* Statements that can be executed one after the other. *)

(* The statements of two lists.                                            *)
LEMMA JoinedSet ==
  ASSUME NEW p, IsList(p), NEW q, IsList(q)
  PROVE  /\ IsList(p \o q) /\ ToSet(p \o q) = ToSet(p) \cup ToSet(q)
         /\ Keys(p \o q) = Keys(p) \cup Keys(q)
<1> DEFINE r == p \o q
           P == Len(p)
<1>1. Joined(p, q, r)
  BY Concatenation
<1> HIDE DEF r
<1>2. /\ IsList(r)
      /\ \A i \in DOMAIN p : i \in DOMAIN r /\ r[i] = p[i]
      /\ \A i \in DOMAIN q : P + i \in DOMAIN r /\ r[P + i] = q[i]
      /\ \A i \in DOMAIN r : i \in DOMAIN p \/ (i - P \in DOMAIN q /\ i = P + (i - P))
  BY <1>1 DEF Joined
<1> HIDE DEF P
<1>3. ASSUME NEW i \in DOMAIN r
      PROVE  (\E k \in DOMAIN p : r[i] = p[k]) \/ (\E k \in DOMAIN q : r[i] = q[k])
  <2>1. CASE i \in DOMAIN p
    BY <1>2, <2>1
  <2>2. CASE i \notin DOMAIN p
    <3>1. i - P \in DOMAIN q /\ r[i] = q[i - P]
      BY <1>2, <2>2
    <3> QED
      BY <3>1
  <2> QED
    BY <2>1, <2>2
<1>4. ToSet(r) = ToSet(p) \cup ToSet(q)
  BY <1>2, <1>3 DEF ToSet
<1>5. Keys(r) = Keys(p) \cup Keys(q)
  BY <1>2, <1>3 DEF Keys
<1> QED
  BY <1>2, <1>4, <1>5 DEF r

LEMMA LoadsMore ==
  ASSUME NEW p, NEW q, NEW known, NEW later, Loads(p, known), Loads(q, later), later \subseteq known \cup Keys(p)
  PROVE  /\ Loads(p \o q, known) /\ ToSet(p \o q) = ToSet(p) \cup ToSet(q)
         /\ Keys(p \o q) = Keys(p) \cup Keys(q)
<1> DEFINE r == p \o q
           P == Len(p)
<1>1. IsList(p) /\ IsList(q)
  BY DEF Loads
<1>2. Joined(p, q, r)
  BY <1>1, Concatenation
<1>9. ToSet(r) = ToSet(p) \cup ToSet(q) /\ Keys(r) = Keys(p) \cup Keys(q)
  BY <1>1, JoinedSet
<1> HIDE DEF r
<1>3. /\ IsList(r)
      /\ \A i \in DOMAIN p : i \in DOMAIN r /\ r[i] = p[i]
      /\ \A i \in DOMAIN q : P + i \in DOMAIN r /\ r[P + i] = q[i]
      /\ \A i \in DOMAIN r : i \in DOMAIN p \/ (i - P \in DOMAIN q /\ i = P + (i - P))
  BY <1>2 DEF Joined
<1>4. P \in Nat /\ DOMAIN p = 1..P /\ DOMAIN q = 1..Len(q) /\ Len(q) \in Nat
  BY <1>1, ListIs
<1> HIDE DEF P
<1>5. ASSUME NEW i \in DOMAIN p, NEW n \in p[i].needs
      PROVE  n \in known \/ \E j \in DOMAIN r : j < i /\ r[j].name = n
  BY <1>3 DEF Loads
<1>6. ASSUME NEW i \in DOMAIN q, NEW n \in q[i].needs
      PROVE  n \in known \/ \E j \in DOMAIN r : j < P + i /\ r[j].name = n
  <2>1. CASE n \in later /\ n \notin known
    <3>1. PICK j \in DOMAIN p : p[j].name = n
      BY <2>1 DEF Keys
    <3>2. j < P + i
      BY <1>4
    <3> QED
      BY <1>3, <3>1, <3>2
  <2>2. CASE n \notin later
    <3>1. PICK j \in DOMAIN q : j < i /\ q[j].name = n
      BY <2>2 DEF Loads
    <3>2. P + j < P + i
      BY <1>4, <3>1
    <3> QED
      BY <1>3, <3>1, <3>2
  <2> QED
    BY <2>1, <2>2
<1>7. ASSUME NEW i \in DOMAIN r, NEW n \in r[i].needs
      PROVE  n \in known \/ \E j \in DOMAIN r : j < i /\ r[j].name = n
  <2>1. CASE i \in DOMAIN p
    BY <1>3, <1>5, <2>1
  <2>2. CASE i \notin DOMAIN p
    <3> DEFINE k == i - P
    <3>1. k \in DOMAIN q /\ i = P + k
      BY <1>3, <2>2
    <3> HIDE DEF k
    <3>2. r[i] = q[k]
      BY <1>3, <3>1
    <3> QED
      BY <1>6, <3>1, <3>2
  <2> QED
    BY <2>1, <2>2
<1>8. Loads(r, known)
  BY <1>3, <1>7 DEF Loads
<1> QED
  BY <1>8, <1>9 DEF r

(* Knowing more does no harm.                                              *)
LEMMA LoadsWith ==
  ASSUME NEW p, NEW known, NEW more, Loads(p, known), known \subseteq more
  PROVE  Loads(p, more)
BY DEF Loads

(* Lists of statements after each other.                                   *)
LEMMA FlattenLoads ==
  ASSUME NEW known, NEW seqs, IsList(seqs),
         \A i \in DOMAIN seqs : Loads(seqs[i], known \cup {n \in UNION {Keys(seqs[j]) : j \in DOMAIN seqs} :
                                                            \E j \in DOMAIN seqs : j < i /\ n \in Keys(seqs[j])})
  PROVE  /\ Loads(FlattenSeq(seqs), known)
         /\ ToSet(FlattenSeq(seqs)) = UNION {ToSet(seqs[i]) : i \in DOMAIN seqs}
<1> DEFINE N == Len(seqs)
           flat == FlattenSeq(seqs)
           All == UNION {Keys(seqs[j]) : j \in DOMAIN seqs}
           Earlier(i) == {n \in All : \E j \in DOMAIN seqs : j < i /\ n \in Keys(seqs[j])}
           Have(n) == UNION {ToSet(seqs[i]) : i \in 1..n}
           Good(p, n) == Loads(p, known) /\ ToSet(p) = Have(n)
<1>1. N \in Nat /\ DOMAIN seqs = 1..N
  BY ListIs
<1>2. \A i \in 1..N : Loads(seqs[i], known \cup Earlier(i))
  BY <1>1
<1>3. CASE N = 0
  <2>1. flat = seqs /\ DOMAIN seqs = {}
    BY <1>1, <1>3 DEF FlattenSeq
  <2>2. Loads(seqs, known) /\ ToSet(seqs) = {}
    BY <2>1 DEF Loads, ToSet
  <2> QED
    BY <1>1, <2>1, <2>2
<1>4. CASE N # 0
  <2>1. PICK h : /\ h[1] = seqs[1] /\ flat = h[N]
                 /\ \A i \in (1..N) \ {1} : h[i] = h[i - 1] \o seqs[i]
    BY <1>4, FlattenCourse
  <2> DEFINE S == {n \in 0..N : n > 0 => Good(h[n], n)}
  <2>2. 0 \in S
    BY <1>1
  <2>3. ASSUME NEW n \in 1..N, n - 1 \in S PROVE n \in S
    <3>1. n \in 0..N /\ n \in Nat /\ n > 0 /\ 1 \in 1..N
      BY <1>1
    <3>2. CASE n = 1
      <4>1. h[n] = seqs[n] /\ Earlier(n) = {} /\ Have(n) = ToSet(seqs[n])
        BY <1>1, <2>1, <3>2
      <4>2. Good(h[n], n)
        <5> HIDE DEF Earlier, Have
        <5>1. known \cup Earlier(n) = known
          BY <4>1
        <5> QED
          BY <1>2, <4>1, <5>1
      <4> QED
        BY <3>1, <4>2
    <3>3. CASE n # 1
      <4> DEFINE u == h[n - 1]
                 v == h[n]
                 w == seqs[n]
      <4>1. n - 1 > 0 /\ n \in (1..N) \ {1} /\ n - 1 \in Nat
        BY <3>1, <3>3
      <4>2. Good(u, n - 1) /\ v = u \o w
        BY <2>1, <2>3, <4>1
      <4>3. Loads(w, known \cup Earlier(n))
        BY <1>2
      <4>4. ASSUME NEW name \in Earlier(n) PROVE name \in Keys(u)
        <5>1. PICK j \in 1..N : j < n /\ name \in Keys(seqs[j])
          BY <1>1
        <5>2. j \in 1..(n - 1)
          BY <5>1
        <5>3. PICK k \in DOMAIN seqs[j] : seqs[j][k].name = name
          BY <5>1 DEF Keys
        <5>4. seqs[j][k] \in ToSet(u)
          <6>1. seqs[j][k] \in ToSet(seqs[j])
            BY DEF ToSet
          <6> QED
            BY <4>2, <5>2, <6>1
        <5> HIDE DEF u
        <5> QED
          BY <5>3, <5>4 DEF ToSet, Keys
      <4>5. Have(n) = Have(n - 1) \cup ToSet(w)
        <5>1. \A i : i \in 1..n <=> i \in 1..(n - 1) \/ i = n
          BY <3>1
        <5> QED
          BY <5>1
      <4> HIDE DEF u, v, w, Earlier, Have
      <4>6. known \cup Earlier(n) \subseteq known \cup Keys(u)
        BY <4>4
      <4>7. Loads(v, known) /\ ToSet(v) = ToSet(u) \cup ToSet(w)
        BY <4>2, <4>3, <4>6, LoadsMore
      <4>8. Good(v, n)
        BY <4>2, <4>5, <4>7
      <4> QED
        BY <3>1, <4>8 DEF v
    <3> QED
      BY <3>2, <3>3
  <2> HIDE DEF S
  <2>4. 0..N \subseteq S
    BY <1>1, <2>2, <2>3, UpTo
  <2>5. Good(h[N], N)
    <3>1. N \in S /\ N > 0
      BY <1>1, <1>4, <2>4
    <3> QED
      BY <3>1 DEF S
  <2> QED
    BY <1>1, <2>1, <2>5
<1> QED
  BY <1>3, <1>4

-----------------------------------------------------------------------------
(* What the pieces of a builder need of each other. *)

LEMMA SortedLoads ==
  ASSUME NEW p, IsList(p), Sorted(p), NEW known, CachedFunctions \subseteq known, Wants(p) \ Keys(p) \subseteq known
  PROVE  Loads(p, known)
<1> SUFFICES ASSUME NEW i \in DOMAIN p, NEW n \in p[i].needs, n \notin known
             PROVE  \E j \in DOMAIN p : j < i /\ p[j].name = n
  BY DEF Loads
<1>1. n \in Keys(p)
  BY DEF Wants
<1>2. PICK j \in DOMAIN p : p[j].name = n
  BY <1>1 DEF Keys
<1> QED
  BY <1>2 DEF Sorted

LEMMA SortedMore ==
  ASSUME NEW p, IsList(p), Sorted(p), NEW q, IsList(q), Sorted(q), Wants(p) \cap Keys(q) \subseteq CachedFunctions
  PROVE  IsList(p \o q) /\ Sorted(p \o q) /\ Wants(p \o q) = Wants(p) \cup Wants(q)
<1> DEFINE r == p \o q
           P == Len(p)
<1>1. Joined(p, q, r)
  BY Concatenation
<1> HIDE DEF r
<1>2. /\ IsList(r)
      /\ \A i \in DOMAIN p : i \in DOMAIN r /\ r[i] = p[i]
      /\ \A i \in DOMAIN q : P + i \in DOMAIN r /\ r[P + i] = q[i]
      /\ \A i \in DOMAIN r : i \in DOMAIN p \/ (i - P \in DOMAIN q /\ i = P + (i - P))
  BY <1>1 DEF Joined
<1>3. P \in Nat /\ DOMAIN p = 1..P /\ DOMAIN q = 1..Len(q) /\ Len(q) \in Nat
  BY ListIs
<1> HIDE DEF P
<1>4. \A i \in DOMAIN r : i \in DOMAIN p \/ \E k \in DOMAIN q : i = P + k
  BY <1>2
<1>5. ASSUME NEW i \in DOMAIN r, NEW j \in DOMAIN r, r[j].name \in r[i].needs, r[j].name \notin CachedFunctions
      PROVE  j < i
  <2>1. CASE i \in DOMAIN p /\ j \in DOMAIN p
    BY <1>2, <1>5, <2>1 DEF Sorted
  <2>2. CASE i \in DOMAIN p /\ j \notin DOMAIN p
    <3>1. PICK l \in DOMAIN q : j = P + l
      BY <1>4, <2>2
    <3>2. r[j].name \in Wants(p) /\ r[j].name \in Keys(q)
      BY <1>2, <1>5, <2>2, <3>1 DEF Wants, Keys
    <3> QED
      BY <1>5, <3>2
  <2>3. CASE i \notin DOMAIN p
    <3>1. PICK k \in DOMAIN q : i = P + k
      BY <1>4, <2>3
    <3>2. CASE j \in DOMAIN p
      BY <1>3, <3>1, <3>2
    <3>3. CASE j \notin DOMAIN p
      <4>1. PICK l \in DOMAIN q : j = P + l
        BY <1>4, <3>3
      <4>2. l < k
        BY <1>2, <1>5, <3>1, <4>1 DEF Sorted
      <4> QED
        BY <1>3, <3>1, <4>1, <4>2
    <3> QED
      BY <3>2, <3>3
  <2> QED
    BY <2>1, <2>2, <2>3
<1>6. Sorted(r)
  BY <1>5 DEF Sorted
<1>7. \A i \in DOMAIN r : r[i].needs \subseteq Wants(p) \cup Wants(q)
  BY <1>2, <1>4 DEF Wants
<1>8. Wants(r) = Wants(p) \cup Wants(q)
  <2>1. Wants(r) \subseteq Wants(p) \cup Wants(q)
    BY <1>7 DEF Wants
  <2>2. Wants(p) \subseteq Wants(r) /\ Wants(q) \subseteq Wants(r)
    BY <1>2 DEF Wants
  <2> QED
    BY <2>1, <2>2
<1> QED
  BY <1>2, <1>6, <1>8 DEF r

LEMMA NoPieces == Sorted(<<>>) /\ Wants(<<>>) = {} /\ Keys(<<>>) = {} /\ DOMAIN <<>> = {}
BY EmptyDict DEF Sorted, Wants

(* Pieces that do not need each other.                                     *)
LEMMA ApartSorted ==
  ASSUME NEW p, Wants(p) \cap Keys(p) \subseteq CachedFunctions
  PROVE  Sorted(p)
BY DEF Sorted, Wants, Keys

LEMMA PairIs ==
  ASSUME NEW m, NEW n, NEW A, NEW B
  PROVE  LET p == <<Piece(m, A), Piece(n, B)>>
         IN Keys(p) = {m, n} /\ Wants(p) = A \cup B
<1> DEFINE p == <<Piece(m, A), Piece(n, B)>>
<1>1. DOMAIN p = {1, 2} /\ p[1].name = m /\ p[1].needs = A /\ p[2].name = n /\ p[2].needs = B
  BY DEF Piece
<1> HIDE DEF p
<1>2. Keys(p) = {m, n}
  BY <1>1 DEF Keys
<1>3. Wants(p) = A \cup B
  BY <1>1 DEF Wants
<1> QED
  BY <1>2, <1>3 DEF p

LEMMA OnePieceIs ==
  ASSUME NEW m, NEW A
  PROVE  LET p == <<Piece(m, A)>>
         IN Keys(p) = {m} /\ Wants(p) = A
<1> DEFINE p == <<Piece(m, A)>>
<1>1. DOMAIN p = {1} /\ p[1].name = m /\ p[1].needs = A
  BY DEF Piece
<1> HIDE DEF p
<1>2. Keys(p) = {m}
  BY <1>1 DEF Keys
<1>3. Wants(p) = A
  BY <1>1 DEF Wants
<1> QED
  BY <1>2, <1>3 DEF p

(* What is cached.                                                         *)
LEMMA CachedPieces ==
  ASSUME NEW p, IsList(p), Sorted(p), NEW function \in CachedFunctions, NEW uncached, uncached \notin Wants(p),
         uncached # function, uncached # "cache_this", NEW needs, uncached \notin needs
  PROVE  LET r == p \o Cached(function, uncached, needs)
         IN /\ IsList(r) /\ Sorted(r) /\ Keys(r) = Keys(p) \cup {uncached, function}
            /\ Wants(r) = Wants(p) \cup {function, uncached, "cache_this"} \cup needs
<1> DEFINE q == Cached(function, uncached, needs)
<1>1. /\ q = [i \in 1..2 |-> q[i]] /\ q[1].name = uncached /\ q[1].needs = {function}
      /\ q[2].name = function /\ q[2].needs = {uncached, "cache_this"} \cup needs
  BY DEF Cached, Piece
<1> HIDE DEF q
<1>2. IsList(q) /\ DOMAIN q = 1..2
  BY <1>1, ListIs
<1>3. \A i \in 1..2 : i = 1 \/ i = 2
  OBVIOUS
<1>4. Keys(q) = {uncached, function}
  BY <1>1, <1>2, <1>3 DEF Keys
<1>5. Wants(q) = {function, uncached, "cache_this"} \cup needs
  <2>1. 1 \in 1..2 /\ 2 \in 1..2
    OBVIOUS
  <2> QED
    BY <1>1, <1>2, <1>3, <2>1 DEF Wants
<1>6. Sorted(q)
  BY <1>1, <1>2, <1>3 DEF Sorted
<1>7. Wants(p) \cap Keys(q) \subseteq CachedFunctions
  BY <1>4
<1>8. IsList(p \o q) /\ Sorted(p \o q) /\ Wants(p \o q) = Wants(p) \cup Wants(q)
  BY <1>2, <1>6, <1>7, SortedMore
<1>9. Keys(p \o q) = Keys(p) \cup Keys(q)
  BY <1>2, JoinedSet
<1> QED
  BY <1>4, <1>5, <1>8, <1>9 DEF q

-----------------------------------------------------------------------------
(* The builders. *)

LEMMA EngineIs == \A needs : IsList(Engine(needs))
<1> SUFFICES ASSUME NEW needs PROVE IsList(Engine(needs))
  OBVIOUS
<1> DEFINE p == Engine(needs)
<1>1. p = [i \in 1..2 |-> p[i]]
  BY DEF Engine
<1> HIDE DEF p
<1>2. IsList(p)
  BY <1>1, ListIs
<1> QED
  BY <1>2 DEF p

LEMMA PresetIs == \A name : Dict(FromPreset(name))
<1> SUFFICES ASSUME NEW name PROVE Dict(FromPreset(name))
  OBVIOUS
<1> DEFINE p == FromPreset(name)
<1>1. p = [i \in 1..1 |-> p[i]]
  BY DEF FromPreset
<1> HIDE DEF p
<1>2. \A i, j \in 1..1 : p[i].name = p[j].name => i = j
  OBVIOUS
<1>3. Dict(p)
  BY <1>1, <1>2, DictOf
<1> QED
  BY <1>3 DEF p

LEMMA IndicesAre ==
  /\ \A a, x : Dict(GeneralizedIndices(<< <<a, x>> >>))
  /\ \A a, x, b, y, c, z :
       a # b /\ a # c /\ b # c => Dict(GeneralizedIndices(<< <<a, x>>, <<b, y>>, <<c, z>> >>))
<1>1. ASSUME NEW a, NEW x PROVE Dict(GeneralizedIndices(<< <<a, x>> >>))
  <2> DEFINE p == GeneralizedIndices(<< <<a, x>> >>)
  <2>1. p = [i \in 1..1 |-> p[i]]
    BY DEF GeneralizedIndices
  <2> HIDE DEF p
  <2>2. \A i, j \in 1..1 : p[i].name = p[j].name => i = j
    OBVIOUS
  <2>3. Dict(p)
    BY <2>1, <2>2, DictOf
  <2> QED
    BY <2>3 DEF p
<1>2. ASSUME NEW a, NEW x, NEW b, NEW y, NEW c, NEW z, a # b, a # c, b # c
      PROVE  Dict(GeneralizedIndices(<< <<a, x>>, <<b, y>>, <<c, z>> >>))
  <2> DEFINE p == GeneralizedIndices(<< <<a, x>>, <<b, y>>, <<c, z>> >>)
  <2>1. p = [i \in 1..3 |-> p[i]]
    BY DEF GeneralizedIndices
  <2>2. p[1].name = a /\ p[2].name = b /\ p[3].name = c
    BY DEF GeneralizedIndices
  <2> HIDE DEF p
  <2>3. \A i \in 1..3 : i = 1 \/ i = 2 \/ i = 3
    OBVIOUS
  <2>4. \A i, j \in 1..3 : p[i].name = p[j].name => i = j
    BY <1>2, <2>2, <2>3
  <2>5. Dict(p)
    BY <2>1, <2>4, DictOf
  <2> QED
    BY <2>5 DEF p
<1> QED
  BY <1>1, <1>2

LEMMA Phase0Sundry ==
  /\ IsList(Phase0SpecBuilder.sundry_functions) /\ Sorted(Phase0SpecBuilder.sundry_functions)
  /\ Keys(Phase0SpecBuilder.sundry_functions)
       \subseteq CachedFunctions \cup UncachedFunctions \cup {"get_eth1_data", "cache_this"}
<1> DEFINE p1 == << Piece("get_eth1_data", {"Eth1Block", "Eth1Data"}), Piece("cache_this", {}) >>
           p2 == p1 \o Cached("compute_shuffled_index", "_compute_shuffled_index", {"SLOTS_PER_EPOCH"})
           p3 == p2 \o Cached("get_total_active_balance", "_get_total_active_balance", {})
           p4 == p3 \o Cached("get_base_reward", "_get_base_reward", {})
           p5 == p4 \o Cached("get_committee_count_per_slot", "_get_committee_count_per_slot", {"SLOTS_PER_EPOCH"})
           p6 == p5 \o Cached("get_active_validator_indices", "_get_active_validator_indices", {})
           p7 == p6 \o Cached("get_beacon_committee", "_get_beacon_committee", {"SLOTS_PER_EPOCH", "MAX_COMMITTEES_PER_SLOT"})
           p8 == p7 \o Cached("get_matching_target_attestations", "_get_matching_target_attestations", {})
           p9 == p8 \o Cached("get_matching_head_attestations", "_get_matching_head_attestations", {})
           p10 == p9 \o Cached("get_attesting_indices", "_get_attesting_indices", {"SLOTS_PER_EPOCH", "MAX_COMMITTEES_PER_SLOT"})
           Others == CachedFunctions \cup {"Eth1Block", "Eth1Data", "cache_this", "SLOTS_PER_EPOCH",
                                            "MAX_COMMITTEES_PER_SLOT"}
           AllKeys == CachedFunctions \cup UncachedFunctions \cup {"get_eth1_data", "cache_this"}
           Good(p, seen) == IsList(p) /\ Sorted(p) /\ Keys(p) \subseteq AllKeys /\ Wants(p) \subseteq Others \cup seen
<1>1. Phase0SpecBuilder.sundry_functions = p10
  BY DEF Phase0SpecBuilder, BaseSpecBuilder
<1>2. Others \cap UncachedFunctions = {} /\ CachedFunctions \cap UncachedFunctions = {}
  BY DEF CachedFunctions, UncachedFunctions
<1>3. Good(p1, {})
  <2>1. p1 = [i \in 1..2 |-> p1[i]]
    BY DEF Piece
  <2>2. Keys(p1) = {"get_eth1_data", "cache_this"} /\ Wants(p1) = {"Eth1Block", "Eth1Data"}
    BY PairIs
  <2> HIDE DEF p1
  <2>3. IsList(p1)
    BY <2>1, ListIs
  <2>4. Sorted(p1)
    BY <2>2, ApartSorted
  <2> QED
    BY <2>2, <2>3, <2>4
<1> HIDE DEF p1, Others
<1>4. ASSUME NEW p, NEW seen, Good(p, seen), NEW function \in CachedFunctions,
             NEW uncached \in UncachedFunctions \ seen, NEW needs, needs \subseteq {"SLOTS_PER_EPOCH", "MAX_COMMITTEES_PER_SLOT"},
             NEW now, now = seen \cup {uncached}
      PROVE  Good(p \o Cached(function, uncached, needs), now)
  <2> DEFINE r == p \o Cached(function, uncached, needs)
  <2>1. uncached \notin Wants(p) /\ uncached # function
    BY <1>2, <1>4
  <2>2. uncached # "cache_this" /\ uncached \notin needs /\ needs \cup {function, "cache_this"} \subseteq Others
    BY <1>2, <1>4 DEF Others
  <2>3. /\ IsList(r) /\ Sorted(r) /\ Keys(r) = Keys(p) \cup {uncached, function}
        /\ Wants(r) = Wants(p) \cup {function, uncached, "cache_this"} \cup needs
    BY <1>4, <2>1, <2>2, CachedPieces
  <2> HIDE DEF r
  <2> QED
    BY <1>4, <2>2, <2>3 DEF r
<1> HIDE DEF Good
<1>5. Good(p2, {"_compute_shuffled_index"})
  <2>1. "_compute_shuffled_index" \in UncachedFunctions \ {}
    BY DEF UncachedFunctions
  <2>2. "compute_shuffled_index" \in CachedFunctions
    BY DEF CachedFunctions
  <2> QED
    BY <1>3, <1>4, <2>1, <2>2
<1> HIDE DEF p2
<1>6. Good(p3, {"_compute_shuffled_index", "_get_total_active_balance"})
  <2>1. "_get_total_active_balance" \in UncachedFunctions \ {"_compute_shuffled_index"}
    BY DEF UncachedFunctions
  <2>2. "get_total_active_balance" \in CachedFunctions
    BY DEF CachedFunctions
  <2> QED
    BY <1>5, <1>4, <2>1, <2>2
<1> HIDE DEF p3
<1>7. Good(p4, {"_compute_shuffled_index", "_get_total_active_balance", "_get_base_reward"})
  <2>1. "_get_base_reward" \in UncachedFunctions \ {"_compute_shuffled_index", "_get_total_active_balance"}
    BY DEF UncachedFunctions
  <2>2. "get_base_reward" \in CachedFunctions
    BY DEF CachedFunctions
  <2> QED
    BY <1>6, <1>4, <2>1, <2>2
<1> HIDE DEF p4
<1>8. Good(p5, {"_compute_shuffled_index", "_get_total_active_balance", "_get_base_reward", "_get_committee_count_per_slot"})
  <2>1. "_get_committee_count_per_slot" \in UncachedFunctions \ {"_compute_shuffled_index", "_get_total_active_balance", "_get_base_reward"}
    BY DEF UncachedFunctions
  <2>2. "get_committee_count_per_slot" \in CachedFunctions
    BY DEF CachedFunctions
  <2> QED
    BY <1>7, <1>4, <2>1, <2>2
<1> HIDE DEF p5
<1>9. Good(p6, {"_compute_shuffled_index", "_get_total_active_balance", "_get_base_reward", "_get_committee_count_per_slot", "_get_active_validator_indices"})
  <2>1. "_get_active_validator_indices" \in UncachedFunctions \ {"_compute_shuffled_index", "_get_total_active_balance", "_get_base_reward", "_get_committee_count_per_slot"}
    BY DEF UncachedFunctions
  <2>2. "get_active_validator_indices" \in CachedFunctions
    BY DEF CachedFunctions
  <2> QED
    BY <1>8, <1>4, <2>1, <2>2
<1> HIDE DEF p6
<1>10. Good(p7, {"_compute_shuffled_index", "_get_total_active_balance", "_get_base_reward", "_get_committee_count_per_slot", "_get_active_validator_indices", "_get_beacon_committee"})
  <2>1. "_get_beacon_committee" \in UncachedFunctions \ {"_compute_shuffled_index", "_get_total_active_balance", "_get_base_reward", "_get_committee_count_per_slot", "_get_active_validator_indices"}
    BY DEF UncachedFunctions
  <2>2. "get_beacon_committee" \in CachedFunctions
    BY DEF CachedFunctions
  <2> QED
    BY <1>9, <1>4, <2>1, <2>2
<1> HIDE DEF p7
<1>11. Good(p8, {"_compute_shuffled_index", "_get_total_active_balance", "_get_base_reward", "_get_committee_count_per_slot", "_get_active_validator_indices", "_get_beacon_committee", "_get_matching_target_attestations"})
  <2>1. "_get_matching_target_attestations" \in UncachedFunctions \ {"_compute_shuffled_index", "_get_total_active_balance", "_get_base_reward", "_get_committee_count_per_slot", "_get_active_validator_indices", "_get_beacon_committee"}
    BY DEF UncachedFunctions
  <2>2. "get_matching_target_attestations" \in CachedFunctions
    BY DEF CachedFunctions
  <2> QED
    BY <1>10, <1>4, <2>1, <2>2
<1> HIDE DEF p8
<1>12. Good(p9, {"_compute_shuffled_index", "_get_total_active_balance", "_get_base_reward", "_get_committee_count_per_slot", "_get_active_validator_indices", "_get_beacon_committee", "_get_matching_target_attestations", "_get_matching_head_attestations"})
  <2>1. "_get_matching_head_attestations" \in UncachedFunctions \ {"_compute_shuffled_index", "_get_total_active_balance", "_get_base_reward", "_get_committee_count_per_slot", "_get_active_validator_indices", "_get_beacon_committee", "_get_matching_target_attestations"}
    BY DEF UncachedFunctions
  <2>2. "get_matching_head_attestations" \in CachedFunctions
    BY DEF CachedFunctions
  <2> QED
    BY <1>11, <1>4, <2>1, <2>2
<1> HIDE DEF p9
<1>13. Good(p10, {"_compute_shuffled_index", "_get_total_active_balance", "_get_base_reward", "_get_committee_count_per_slot", "_get_active_validator_indices", "_get_beacon_committee", "_get_matching_target_attestations", "_get_matching_head_attestations", "_get_attesting_indices"})
  <2>1. "_get_attesting_indices" \in UncachedFunctions \ {"_compute_shuffled_index", "_get_total_active_balance", "_get_base_reward", "_get_committee_count_per_slot", "_get_active_validator_indices", "_get_beacon_committee", "_get_matching_target_attestations", "_get_matching_head_attestations"}
    BY DEF UncachedFunctions
  <2>2. "get_attesting_indices" \in CachedFunctions
    BY DEF CachedFunctions
  <2> QED
    BY <1>12, <1>4, <2>1, <2>2
<1> QED
  BY <1>1, <1>13 DEF Good, p1, p2, p3, p4, p5, p6, p7, p8, p9

LEMMA Phase0Is == Builder(Phase0SpecBuilder)
<1>1. /\ Phase0SpecBuilder.classes = <<>>
      /\ Phase0SpecBuilder.execution_engine_cls = <<>>
      /\ Phase0SpecBuilder.hardcoded_ssz_dep_constants = <<>>
      /\ Phase0SpecBuilder.hardcoded_func_dep_presets = <<>>
  BY DEF Phase0SpecBuilder, BaseSpecBuilder
<1>2. Phase0SpecBuilder.imports = [i \in 1..29 |-> Phase0SpecBuilder.imports[i]]
  BY SMTT(60) DEF Phase0SpecBuilder, BaseSpecBuilder
<1>3. IsList(Phase0SpecBuilder.imports)
  <2> DEFINE p == Phase0SpecBuilder.imports
  <2>1. p = [i \in 1..29 |-> p[i]]
    BY <1>2
  <2> HIDE DEF p
  <2>2. IsList(p)
    BY <2>1, ListIs
  <2> QED
    BY <2>2 DEF p
<1>4. Phase0SpecBuilder.preparations = [i \in 1..1 |-> Phase0SpecBuilder.preparations[i]]
  BY SMTT(60) DEF Phase0SpecBuilder, BaseSpecBuilder
<1>5. IsList(Phase0SpecBuilder.preparations)
  <2> DEFINE p == Phase0SpecBuilder.preparations
  <2>1. p = [i \in 1..1 |-> p[i]]
    BY <1>4
  <2> HIDE DEF p
  <2>2. IsList(p)
    BY <2>1, ListIs
  <2> QED
    BY <2>2 DEF p
<1>6. IsList(Phase0SpecBuilder.sundry_functions)
  BY Phase0Sundry
<1> QED
  BY <1>1, <1>3, <1>5, <1>6, EmptyList DEF Builder

LEMMA AltairIs == Builder(AltairSpecBuilder)
<1>1. /\ AltairSpecBuilder.classes = <<>>
      /\ AltairSpecBuilder.execution_engine_cls = <<>>
      /\ AltairSpecBuilder.hardcoded_func_dep_presets = <<>>
  BY DEF AltairSpecBuilder, BaseSpecBuilder
<1>2. AltairSpecBuilder.imports = [i \in 1..5 |-> AltairSpecBuilder.imports[i]]
  BY SMTT(60) DEF AltairSpecBuilder, BaseSpecBuilder
<1>3. IsList(AltairSpecBuilder.imports)
  <2> DEFINE p == AltairSpecBuilder.imports
  <2>1. p = [i \in 1..5 |-> p[i]]
    BY <1>2
  <2> HIDE DEF p
  <2>2. IsList(p)
    BY <2>1, ListIs
  <2> QED
    BY <2>2 DEF p
<1>4. AltairSpecBuilder.preparations = [i \in 1..2 |-> AltairSpecBuilder.preparations[i]]
  BY SMTT(60) DEF AltairSpecBuilder, BaseSpecBuilder
<1>5. IsList(AltairSpecBuilder.preparations)
  <2> DEFINE p == AltairSpecBuilder.preparations
  <2>1. p = [i \in 1..2 |-> p[i]]
    BY <1>4
  <2> HIDE DEF p
  <2>2. IsList(p)
    BY <2>1, ListIs
  <2> QED
    BY <2>2 DEF p
<1>6. AltairSpecBuilder.sundry_functions = [i \in 1..2 |-> AltairSpecBuilder.sundry_functions[i]]
  BY SMTT(60) DEF AltairSpecBuilder, BaseSpecBuilder
<1>7. IsList(AltairSpecBuilder.sundry_functions)
  <2> DEFINE p == AltairSpecBuilder.sundry_functions
  <2>1. p = [i \in 1..2 |-> p[i]]
    BY <1>6
  <2> HIDE DEF p
  <2>2. IsList(p)
    BY <2>1, ListIs
  <2> QED
    BY <2>2 DEF p
<1>8. AltairSpecBuilder.hardcoded_ssz_dep_constants = GeneralizedIndices(
          << <<"FINALIZED_ROOT_GINDEX", "105">>, <<"CURRENT_SYNC_COMMITTEE_GINDEX", "54">>, <<"NEXT_SYNC_COMMITTEE_GINDEX", "55">> >>)
  BY DEF AltairSpecBuilder, BaseSpecBuilder
<1> QED
  BY <1>1, <1>3, <1>5, <1>7, <1>8, IndicesAre, EmptyList DEF Builder

LEMMA BellatrixIs == Builder(BellatrixSpecBuilder)
<1>1. /\ BellatrixSpecBuilder.preparations = <<>>
      /\ BellatrixSpecBuilder.classes = <<>>
      /\ BellatrixSpecBuilder.hardcoded_ssz_dep_constants = <<>>
      /\ BellatrixSpecBuilder.hardcoded_func_dep_presets = <<>>
  BY DEF BellatrixSpecBuilder, BaseSpecBuilder
<1>2. BellatrixSpecBuilder.imports = [i \in 1..6 |-> BellatrixSpecBuilder.imports[i]]
  BY SMTT(60) DEF BellatrixSpecBuilder, BaseSpecBuilder
<1>3. IsList(BellatrixSpecBuilder.imports)
  <2> DEFINE p == BellatrixSpecBuilder.imports
  <2>1. p = [i \in 1..6 |-> p[i]]
    BY <1>2
  <2> HIDE DEF p
  <2>2. IsList(p)
    BY <2>1, ListIs
  <2> QED
    BY <2>2 DEF p
<1>4. BellatrixSpecBuilder.sundry_functions = [i \in 1..5 |-> BellatrixSpecBuilder.sundry_functions[i]]
  BY SMTT(60) DEF BellatrixSpecBuilder, BaseSpecBuilder
<1>5. IsList(BellatrixSpecBuilder.sundry_functions)
  <2> DEFINE p == BellatrixSpecBuilder.sundry_functions
  <2>1. p = [i \in 1..5 |-> p[i]]
    BY <1>4
  <2> HIDE DEF p
  <2>2. IsList(p)
    BY <2>1, ListIs
  <2> QED
    BY <2>2 DEF p
<1>6. BellatrixSpecBuilder.execution_engine_cls = Engine({})
  BY DEF BellatrixSpecBuilder, BaseSpecBuilder
<1> QED
  BY <1>1, <1>3, <1>5, <1>6, EngineIs, EmptyList DEF Builder

LEMMA CapellaIs == Builder(CapellaSpecBuilder)
<1>1. /\ CapellaSpecBuilder.preparations = <<>>
      /\ CapellaSpecBuilder.classes = <<>>
      /\ CapellaSpecBuilder.sundry_functions = <<>>
      /\ CapellaSpecBuilder.execution_engine_cls = <<>>
      /\ CapellaSpecBuilder.hardcoded_func_dep_presets = <<>>
  BY DEF CapellaSpecBuilder, BaseSpecBuilder
<1>2. CapellaSpecBuilder.imports = [i \in 1..1 |-> CapellaSpecBuilder.imports[i]]
  BY SMTT(60) DEF CapellaSpecBuilder, BaseSpecBuilder
<1>3. IsList(CapellaSpecBuilder.imports)
  <2> DEFINE p == CapellaSpecBuilder.imports
  <2>1. p = [i \in 1..1 |-> p[i]]
    BY <1>2
  <2> HIDE DEF p
  <2>2. IsList(p)
    BY <2>1, ListIs
  <2> QED
    BY <2>2 DEF p
<1>4. CapellaSpecBuilder.hardcoded_ssz_dep_constants = GeneralizedIndices(
          << <<"EXECUTION_PAYLOAD_GINDEX", "25">> >>)
  BY DEF CapellaSpecBuilder, BaseSpecBuilder
<1> QED
  BY <1>1, <1>3, <1>4, IndicesAre, EmptyList DEF Builder

LEMMA DenebIs == Builder(DenebSpecBuilder)
<1>1. /\ DenebSpecBuilder.hardcoded_ssz_dep_constants = <<>>
  BY DEF DenebSpecBuilder, BaseSpecBuilder
<1>2. DenebSpecBuilder.imports = [i \in 1..1 |-> DenebSpecBuilder.imports[i]]
  BY SMTT(60) DEF DenebSpecBuilder, BaseSpecBuilder
<1>3. IsList(DenebSpecBuilder.imports)
  <2> DEFINE p == DenebSpecBuilder.imports
  <2>1. p = [i \in 1..1 |-> p[i]]
    BY <1>2
  <2> HIDE DEF p
  <2>2. IsList(p)
    BY <2>1, ListIs
  <2> QED
    BY <2>2 DEF p
<1>4. DenebSpecBuilder.classes = [i \in 1..2 |-> DenebSpecBuilder.classes[i]]
  BY SMTT(60) DEF DenebSpecBuilder, BaseSpecBuilder
<1>5. IsList(DenebSpecBuilder.classes)
  <2> DEFINE p == DenebSpecBuilder.classes
  <2>1. p = [i \in 1..2 |-> p[i]]
    BY <1>4
  <2> HIDE DEF p
  <2>2. IsList(p)
    BY <2>1, ListIs
  <2> QED
    BY <2>2 DEF p
<1>6. DenebSpecBuilder.preparations = [i \in 1..2 |-> DenebSpecBuilder.preparations[i]]
  BY SMTT(60) DEF DenebSpecBuilder, BaseSpecBuilder
<1>7. IsList(DenebSpecBuilder.preparations)
  <2> DEFINE p == DenebSpecBuilder.preparations
  <2>1. p = [i \in 1..2 |-> p[i]]
    BY <1>6
  <2> HIDE DEF p
  <2>2. IsList(p)
    BY <2>1, ListIs
  <2> QED
    BY <2>2 DEF p
<1>8. DenebSpecBuilder.sundry_functions = [i \in 1..1 |-> DenebSpecBuilder.sundry_functions[i]]
  BY SMTT(60) DEF DenebSpecBuilder, BaseSpecBuilder
<1>9. IsList(DenebSpecBuilder.sundry_functions)
  <2> DEFINE p == DenebSpecBuilder.sundry_functions
  <2>1. p = [i \in 1..1 |-> p[i]]
    BY <1>8
  <2> HIDE DEF p
  <2>2. IsList(p)
    BY <2>1, ListIs
  <2> QED
    BY <2>2 DEF p
<1>10. DenebSpecBuilder.execution_engine_cls = Engine({"Root"})
  BY DEF DenebSpecBuilder, BaseSpecBuilder
<1>11. DenebSpecBuilder.hardcoded_func_dep_presets = FromPreset("KZG_COMMITMENT_INCLUSION_PROOF_DEPTH")
  BY DEF DenebSpecBuilder, BaseSpecBuilder
<1> QED
  BY <1>1, <1>3, <1>5, <1>7, <1>9, <1>10, EngineIs, <1>11, PresetIs, EmptyList DEF Builder

LEMMA ElectraIs == Builder(ElectraSpecBuilder)
<1>1. /\ ElectraSpecBuilder.preparations = <<>>
      /\ ElectraSpecBuilder.classes = <<>>
      /\ ElectraSpecBuilder.sundry_functions = <<>>
      /\ ElectraSpecBuilder.hardcoded_func_dep_presets = <<>>
  BY DEF ElectraSpecBuilder, BaseSpecBuilder
<1>2. ElectraSpecBuilder.imports = [i \in 1..3 |-> ElectraSpecBuilder.imports[i]]
  BY SMTT(60) DEF ElectraSpecBuilder, BaseSpecBuilder
<1>3. IsList(ElectraSpecBuilder.imports)
  <2> DEFINE p == ElectraSpecBuilder.imports
  <2>1. p = [i \in 1..3 |-> p[i]]
    BY <1>2
  <2> HIDE DEF p
  <2>2. IsList(p)
    BY <2>1, ListIs
  <2> QED
    BY <2>2 DEF p
<1>4. ElectraSpecBuilder.hardcoded_ssz_dep_constants = GeneralizedIndices(
          << <<"FINALIZED_ROOT_GINDEX_ELECTRA", "169">>, <<"CURRENT_SYNC_COMMITTEE_GINDEX_ELECTRA", "86">>, <<"NEXT_SYNC_COMMITTEE_GINDEX_ELECTRA", "87">> >>)
  BY DEF ElectraSpecBuilder, BaseSpecBuilder
<1>5. ElectraSpecBuilder.execution_engine_cls = Engine({"Root", "Sequence"})
  BY DEF ElectraSpecBuilder, BaseSpecBuilder
<1> QED
  BY <1>1, <1>3, <1>4, IndicesAre, <1>5, EngineIs, EmptyList DEF Builder

LEMMA FuluIs == Builder(FuluSpecBuilder)
<1>1. /\ FuluSpecBuilder.preparations = <<>>
      /\ FuluSpecBuilder.execution_engine_cls = <<>>
      /\ FuluSpecBuilder.hardcoded_ssz_dep_constants = <<>>
  BY DEF FuluSpecBuilder, BaseSpecBuilder
<1>2. FuluSpecBuilder.imports = [i \in 1..2 |-> FuluSpecBuilder.imports[i]]
  BY SMTT(60) DEF FuluSpecBuilder, BaseSpecBuilder
<1>3. IsList(FuluSpecBuilder.imports)
  <2> DEFINE p == FuluSpecBuilder.imports
  <2>1. p = [i \in 1..2 |-> p[i]]
    BY <1>2
  <2> HIDE DEF p
  <2>2. IsList(p)
    BY <2>1, ListIs
  <2> QED
    BY <2>2 DEF p
<1>4. FuluSpecBuilder.classes = [i \in 1..3 |-> FuluSpecBuilder.classes[i]]
  BY SMTT(60) DEF FuluSpecBuilder, BaseSpecBuilder
<1>5. IsList(FuluSpecBuilder.classes)
  <2> DEFINE p == FuluSpecBuilder.classes
  <2>1. p = [i \in 1..3 |-> p[i]]
    BY <1>4
  <2> HIDE DEF p
  <2>2. IsList(p)
    BY <2>1, ListIs
  <2> QED
    BY <2>2 DEF p
<1>6. FuluSpecBuilder.sundry_functions = [i \in 1..1 |-> FuluSpecBuilder.sundry_functions[i]]
  BY SMTT(60) DEF FuluSpecBuilder, BaseSpecBuilder
<1>7. IsList(FuluSpecBuilder.sundry_functions)
  <2> DEFINE p == FuluSpecBuilder.sundry_functions
  <2>1. p = [i \in 1..1 |-> p[i]]
    BY <1>6
  <2> HIDE DEF p
  <2>2. IsList(p)
    BY <2>1, ListIs
  <2> QED
    BY <2>2 DEF p
<1>8. FuluSpecBuilder.hardcoded_func_dep_presets = FromPreset("KZG_COMMITMENTS_INCLUSION_PROOF_DEPTH")
  BY DEF FuluSpecBuilder, BaseSpecBuilder
<1> QED
  BY <1>1, <1>3, <1>5, <1>7, <1>8, PresetIs, EmptyList DEF Builder

LEMMA EIP6800Is == Builder(EIP6800SpecBuilder)
<1>1. /\ EIP6800SpecBuilder.preparations = <<>>
      /\ EIP6800SpecBuilder.classes = <<>>
      /\ EIP6800SpecBuilder.sundry_functions = <<>>
      /\ EIP6800SpecBuilder.execution_engine_cls = <<>>
      /\ EIP6800SpecBuilder.hardcoded_ssz_dep_constants = <<>>
      /\ EIP6800SpecBuilder.hardcoded_func_dep_presets = <<>>
  BY DEF EIP6800SpecBuilder, BaseSpecBuilder
<1>2. EIP6800SpecBuilder.imports = [i \in 1..2 |-> EIP6800SpecBuilder.imports[i]]
  BY SMTT(60) DEF EIP6800SpecBuilder, BaseSpecBuilder
<1>3. IsList(EIP6800SpecBuilder.imports)
  <2> DEFINE p == EIP6800SpecBuilder.imports
  <2>1. p = [i \in 1..2 |-> p[i]]
    BY <1>2
  <2> HIDE DEF p
  <2>2. IsList(p)
    BY <2>1, ListIs
  <2> QED
    BY <2>2 DEF p
<1> QED
  BY <1>1, <1>3, EmptyList DEF Builder

LEMMA EIP7441Is == Builder(EIP7441SpecBuilder)
<1>1. /\ EIP7441SpecBuilder.preparations = <<>>
      /\ EIP7441SpecBuilder.classes = <<>>
      /\ EIP7441SpecBuilder.sundry_functions = <<>>
      /\ EIP7441SpecBuilder.execution_engine_cls = <<>>
      /\ EIP7441SpecBuilder.hardcoded_func_dep_presets = <<>>
  BY DEF EIP7441SpecBuilder, BaseSpecBuilder
<1>2. EIP7441SpecBuilder.imports = [i \in 1..3 |-> EIP7441SpecBuilder.imports[i]]
  BY SMTT(60) DEF EIP7441SpecBuilder, BaseSpecBuilder
<1>3. IsList(EIP7441SpecBuilder.imports)
  <2> DEFINE p == EIP7441SpecBuilder.imports
  <2>1. p = [i \in 1..3 |-> p[i]]
    BY <1>2
  <2> HIDE DEF p
  <2>2. IsList(p)
    BY <2>1, ListIs
  <2> QED
    BY <2>2 DEF p
<1>4. EIP7441SpecBuilder.hardcoded_ssz_dep_constants = GeneralizedIndices(
          << <<"EXECUTION_PAYLOAD_GINDEX", "41">> >>)
  BY DEF EIP7441SpecBuilder, BaseSpecBuilder
<1> QED
  BY <1>1, <1>3, <1>4, IndicesAre, EmptyList DEF Builder

LEMMA EIP7732Is == Builder(EIP7732SpecBuilder)
<1>1. /\ EIP7732SpecBuilder.preparations = <<>>
      /\ EIP7732SpecBuilder.classes = <<>>
      /\ EIP7732SpecBuilder.execution_engine_cls = <<>>
      /\ EIP7732SpecBuilder.hardcoded_ssz_dep_constants = <<>>
      /\ EIP7732SpecBuilder.hardcoded_func_dep_presets = <<>>
  BY DEF EIP7732SpecBuilder, BaseSpecBuilder
<1>2. EIP7732SpecBuilder.imports = [i \in 1..1 |-> EIP7732SpecBuilder.imports[i]]
  BY SMTT(60) DEF EIP7732SpecBuilder, BaseSpecBuilder
<1>3. IsList(EIP7732SpecBuilder.imports)
  <2> DEFINE p == EIP7732SpecBuilder.imports
  <2>1. p = [i \in 1..1 |-> p[i]]
    BY <1>2
  <2> HIDE DEF p
  <2>2. IsList(p)
    BY <2>1, ListIs
  <2> QED
    BY <2>2 DEF p
<1>4. EIP7732SpecBuilder.sundry_functions = [i \in 1..1 |-> EIP7732SpecBuilder.sundry_functions[i]]
  BY SMTT(60) DEF EIP7732SpecBuilder, BaseSpecBuilder
<1>5. IsList(EIP7732SpecBuilder.sundry_functions)
  <2> DEFINE p == EIP7732SpecBuilder.sundry_functions
  <2>1. p = [i \in 1..1 |-> p[i]]
    BY <1>4
  <2> HIDE DEF p
  <2>2. IsList(p)
    BY <2>1, ListIs
  <2> QED
    BY <2>2 DEF p
<1> QED
  BY <1>1, <1>3, <1>5, EmptyList DEF Builder

LEMMA EIP7805Is == Builder(EIP7805SpecBuilder)
<1>1. /\ EIP7805SpecBuilder.preparations = <<>>
      /\ EIP7805SpecBuilder.classes = <<>>
      /\ EIP7805SpecBuilder.sundry_functions = <<>>
      /\ EIP7805SpecBuilder.hardcoded_ssz_dep_constants = <<>>
      /\ EIP7805SpecBuilder.hardcoded_func_dep_presets = <<>>
  BY DEF EIP7805SpecBuilder, BaseSpecBuilder
<1>2. EIP7805SpecBuilder.imports = [i \in 1..1 |-> EIP7805SpecBuilder.imports[i]]
  BY SMTT(60) DEF EIP7805SpecBuilder, BaseSpecBuilder
<1>3. IsList(EIP7805SpecBuilder.imports)
  <2> DEFINE p == EIP7805SpecBuilder.imports
  <2>1. p = [i \in 1..1 |-> p[i]]
    BY <1>2
  <2> HIDE DEF p
  <2>2. IsList(p)
    BY <2>1, ListIs
  <2> QED
    BY <2>2 DEF p
<1>4. EIP7805SpecBuilder.execution_engine_cls = Engine({"Root", "Sequence", "Transaction"})
  BY DEF EIP7805SpecBuilder, BaseSpecBuilder
<1> QED
  BY <1>1, <1>3, <1>4, EngineIs, EmptyList DEF Builder

LEMMA BuildersAre == \A fork \in Forks : Builder(spec_builders[fork])
<1>1. /\ spec_builders["phase0"] = Phase0SpecBuilder /\ spec_builders["altair"] = AltairSpecBuilder
      /\ spec_builders["bellatrix"] = BellatrixSpecBuilder /\ spec_builders["capella"] = CapellaSpecBuilder
      /\ spec_builders["deneb"] = DenebSpecBuilder /\ spec_builders["electra"] = ElectraSpecBuilder
      /\ spec_builders["fulu"] = FuluSpecBuilder /\ spec_builders["eip6800"] = EIP6800SpecBuilder
      /\ spec_builders["eip7441"] = EIP7441SpecBuilder /\ spec_builders["eip7732"] = EIP7732SpecBuilder
      /\ spec_builders["eip7805"] = EIP7805SpecBuilder
  BY DEF spec_builders
<1> QED
  BY <1>1, ForksAre, Phase0Is, AltairIs, BellatrixIs, CapellaIs, DenebIs, ElectraIs, FuluIs,
     EIP6800Is, EIP7441Is, EIP7732Is, EIP7805Is DEF ForkNames

LEMMA BuilderList ==
  ASSUME NEW fork \in Forks
  PROVE  /\ IsList(builders(fork))
         /\ \A i \in DOMAIN builders(fork) : Builder(builders(fork)[i])
<1> DEFINE prev == collect_prev_forks(fork)
           forks == Reverse(prev)
           bs == builders(fork)
           N == Len(prev)
<1>1. IsList(prev) /\ \A i \in DOMAIN prev : prev[i] \in Forks
  BY PrevForksAre DEF ForkList
<1>2. bs = [i \in DOMAIN forks |-> spec_builders[forks[i]]]
  BY DEF builders
<1> HIDE DEF prev, bs
<1>3. N \in Nat /\ DOMAIN prev = 1..N
  BY <1>1, ListIs
<1>4. forks = [i \in 1..N |-> prev[(N - i) + 1]]
  BY DEF Reverse
<1> HIDE DEF N
<1>5. DOMAIN forks = 1..N /\ \A i \in 1..N : forks[i] \in Forks
  <2>1. \A i \in 1..N : (N - i) + 1 \in 1..N
    BY <1>3
  <2> QED
    BY <1>1, <1>3, <1>4, <2>1
<1> HIDE DEF forks
<1>6. bs = [i \in 1..N |-> bs[i]] /\ \A i \in 1..N : bs[i] = spec_builders[forks[i]]
  BY <1>2, <1>5
<1>7. IsList(bs) /\ DOMAIN bs = 1..N
  BY <1>3, <1>6, ListIs
<1>8. \A i \in 1..N : Builder(bs[i])
  BY <1>5, <1>6, BuildersAre
<1> QED
  BY <1>7, <1>8 DEF bs

(* Pieces after each other.                                                *)
LEMMA PiecesAre ==
  ASSUME NEW bs, IsList(bs), NEW seqs, seqs = [i \in DOMAIN bs |-> seqs[i]],
         \A i \in DOMAIN bs : IsList(seqs[i])
  PROVE  IsList(FlattenSeq(seqs))
<1>1. IsList(seqs) /\ DOMAIN seqs = DOMAIN bs
  BY StatementsAre
<1>2. Flattened(FlattenSeq(seqs), seqs, Len(seqs))
  BY <1>1, FlattenIs
<1> QED
  BY <1>2 DEF Flattened

LEMMA ImportsAre ==
  ASSUME NEW fork \in Forks
  PROVE  IsList(Pieces(fork, LAMBDA b : Names(b.imports)))
<1> DEFINE bs == builders(fork)
           seqs == [i \in DOMAIN bs |-> Names(bs[i].imports)]
<1>1. Pieces(fork, LAMBDA b : Names(b.imports)) = FlattenSeq(seqs)
  BY DEF Pieces
<1>2. IsList(bs) /\ \A i \in DOMAIN bs : Builder(bs[i])
  BY BuilderList
<1> HIDE DEF bs
<1>3. seqs = [i \in DOMAIN bs |-> seqs[i]] /\ \A i \in DOMAIN bs : IsList(seqs[i])
  BY <1>2, NamesAre DEF Builder
<1> HIDE DEF seqs
<1>4. IsList(FlattenSeq(seqs))
  BY <1>2, <1>3, PiecesAre
<1> QED
  BY <1>1, <1>4

LEMMA PreparationsAre ==
  ASSUME NEW fork \in Forks
  PROVE  IsList(Pieces(fork, LAMBDA b : Names(b.preparations)))
<1> DEFINE bs == builders(fork)
           seqs == [i \in DOMAIN bs |-> Names(bs[i].preparations)]
<1>1. Pieces(fork, LAMBDA b : Names(b.preparations)) = FlattenSeq(seqs)
  BY DEF Pieces
<1>2. IsList(bs) /\ \A i \in DOMAIN bs : Builder(bs[i])
  BY BuilderList
<1> HIDE DEF bs
<1>3. seqs = [i \in DOMAIN bs |-> seqs[i]] /\ \A i \in DOMAIN bs : IsList(seqs[i])
  BY <1>2, NamesAre DEF Builder
<1> HIDE DEF seqs
<1>4. IsList(FlattenSeq(seqs))
  BY <1>2, <1>3, PiecesAre
<1> QED
  BY <1>1, <1>4

LEMMA ClassesAre ==
  ASSUME NEW fork \in Forks
  PROVE  IsList(Pieces(fork, LAMBDA b : b.classes))
<1> DEFINE bs == builders(fork)
           seqs == [i \in DOMAIN bs |-> bs[i].classes]
<1>1. Pieces(fork, LAMBDA b : b.classes) = FlattenSeq(seqs)
  BY DEF Pieces
<1>2. IsList(bs) /\ \A i \in DOMAIN bs : Builder(bs[i])
  BY BuilderList
<1> HIDE DEF bs
<1>3. seqs = [i \in DOMAIN bs |-> seqs[i]] /\ \A i \in DOMAIN bs : IsList(seqs[i])
  BY <1>2 DEF Builder
<1> HIDE DEF seqs
<1>4. IsList(FlattenSeq(seqs))
  BY <1>2, <1>3, PiecesAre
<1> QED
  BY <1>1, <1>4

LEMMA SundryAre ==
  ASSUME NEW fork \in Forks
  PROVE  IsList(Pieces(fork, LAMBDA b : b.sundry_functions))
<1> DEFINE bs == builders(fork)
           seqs == [i \in DOMAIN bs |-> bs[i].sundry_functions]
<1>1. Pieces(fork, LAMBDA b : b.sundry_functions) = FlattenSeq(seqs)
  BY DEF Pieces
<1>2. IsList(bs) /\ \A i \in DOMAIN bs : Builder(bs[i])
  BY BuilderList
<1> HIDE DEF bs
<1>3. seqs = [i \in DOMAIN bs |-> seqs[i]] /\ \A i \in DOMAIN bs : IsList(seqs[i])
  BY <1>2 DEF Builder
<1> HIDE DEF seqs
<1>4. IsList(FlattenSeq(seqs))
  BY <1>2, <1>3, PiecesAre
<1> QED
  BY <1>1, <1>4

ConstantsStep(none, d, b) == combine_dicts(d, b.hardcoded_ssz_dep_constants)
AddingConstants == INSTANCE FoldOf WITH op <- ConstantsStep

LEMMA AddingConstantsInducts == AddingConstants!NatInduction
BY NatSetInduction DEF AddingConstants!NatInduction

LEMMA ConstantsAre ==
  ASSUME NEW fork \in Forks
  PROVE  LET d == hardcoded_ssz_dep_constants(fork)
         IN /\ Dict(d)
            /\ \A n \in Keys(d) : \E i \in DOMAIN builders(fork) :
                 LET e == builders(fork)[i].hardcoded_ssz_dep_constants
                 IN n \in Keys(e) /\ Get(d, n) = Get(e, n)
<1> DEFINE bs == builders(fork)
           N == Len(bs)
           c == hardcoded_ssz_dep_constants(fork)
<1>1. IsList(bs) /\ \A i \in DOMAIN bs : Builder(bs[i])
  BY BuilderList
<1>2. N \in Nat /\ DOMAIN bs = 1..N
  BY <1>1, ListIs
<1>3. c = AddingConstants!TheFold(0, <<>>, bs, N)[1..N]
  BY <1>2 DEF hardcoded_ssz_dep_constants, FoldLeft, MapThenFoldSet, Max,
     AddingConstants!TheFold, AddingConstants!Fold, AddingConstants!Largest, ConstantsStep
<1> HIDE DEF c, N, bs
<1>4. PICK h : /\ AddingConstants!Course(0, <<>>, bs, N, h)
               /\ h[N] = AddingConstants!TheFold(0, <<>>, bs, N)[1..N]
  BY <1>2, AddingConstants!FoldHasCourse, AddingConstantsInducts
<1>5. /\ h[0] = <<>>
      /\ \A n \in 1..N : h[n] = ConstantsStep(0, h[n - 1], bs[n])
      /\ c = h[N]
  BY <1>3, <1>4 DEF AddingConstants!Course
<1> DEFINE Came(n, k) ==
             \E i \in DOMAIN bs : n \in Keys(bs[i].hardcoded_ssz_dep_constants) /\ Get(k, n) = Get(bs[i].hardcoded_ssz_dep_constants, n)
           Good(k) == Dict(k) /\ \A n \in Keys(k) : Came(n, k)
           S == {n \in 0..N : Good(h[n])}
<1>6. 0 \in S
  BY <1>2, <1>5, EmptyDict
<1>7. ASSUME NEW n \in 1..N, n - 1 \in S PROVE n \in S
  <2> DEFINE u == h[n - 1]
             v == h[n]
             w == bs[n].hardcoded_ssz_dep_constants
  <2>1. Good(u) /\ v = ConstantsStep(0, u, bs[n]) /\ n \in 0..N /\ n \in DOMAIN bs /\ Dict(w)
    <3>1. Good(u)
      BY <1>7
    <3>2. v = ConstantsStep(0, u, bs[n]) /\ n \in 0..N /\ n \in DOMAIN bs
      BY <1>2, <1>5
    <3>3. Builder(bs[n])
      BY ONLY <1>1, <3>2
    <3>4. Dict(w)
      BY ONLY <3>3 DEF Builder
    <3> QED
      BY <3>1, <3>2, <3>4
  <2>2. v = combine_dicts(u, w)
    BY <2>1 DEF ConstantsStep
  <2>3. \A k \in Keys(w) : Get(v, k) = Get(w, k) => Came(k, v)
    BY <2>1
  <2>4. \A k : Get(v, k) = Get(u, k) /\ Came(k, u) => Came(k, v)
    OBVIOUS
  <2> HIDE DEF u, v, w, Came
  <2>5. Combination(u, w, v)
    BY <2>1, <2>2, CombineIs
  <2>6. Good(v)
    BY <2>1, <2>3, <2>4, <2>5 DEF Combination
  <2> QED
    BY <2>1, <2>6 DEF v
<1> HIDE DEF S
<1>8. 0..N \subseteq S
  BY <1>2, <1>6, <1>7, UpTo
<1>9. N \in S
  BY <1>2, <1>8
<1> QED
  BY <1>5, <1>9 DEF S, c, bs

PresetsStep(none, d, b) == combine_dicts(d, b.hardcoded_func_dep_presets)
AddingPresets == INSTANCE FoldOf WITH op <- PresetsStep

LEMMA AddingPresetsInducts == AddingPresets!NatInduction
BY NatSetInduction DEF AddingPresets!NatInduction

LEMMA PresetsAre ==
  ASSUME NEW fork \in Forks
  PROVE  LET d == hardcoded_func_dep_presets(fork)
         IN /\ Dict(d)
            /\ \A n \in Keys(d) : \E i \in DOMAIN builders(fork) :
                 LET e == builders(fork)[i].hardcoded_func_dep_presets
                 IN n \in Keys(e) /\ Get(d, n) = Get(e, n)
<1> DEFINE bs == builders(fork)
           N == Len(bs)
           c == hardcoded_func_dep_presets(fork)
<1>1. IsList(bs) /\ \A i \in DOMAIN bs : Builder(bs[i])
  BY BuilderList
<1>2. N \in Nat /\ DOMAIN bs = 1..N
  BY <1>1, ListIs
<1>3. c = AddingPresets!TheFold(0, <<>>, bs, N)[1..N]
  BY <1>2 DEF hardcoded_func_dep_presets, FoldLeft, MapThenFoldSet, Max,
     AddingPresets!TheFold, AddingPresets!Fold, AddingPresets!Largest, PresetsStep
<1> HIDE DEF c, N, bs
<1>4. PICK h : /\ AddingPresets!Course(0, <<>>, bs, N, h)
               /\ h[N] = AddingPresets!TheFold(0, <<>>, bs, N)[1..N]
  BY <1>2, AddingPresets!FoldHasCourse, AddingPresetsInducts
<1>5. /\ h[0] = <<>>
      /\ \A n \in 1..N : h[n] = PresetsStep(0, h[n - 1], bs[n])
      /\ c = h[N]
  BY <1>3, <1>4 DEF AddingPresets!Course
<1> DEFINE Came(n, k) ==
             \E i \in DOMAIN bs : n \in Keys(bs[i].hardcoded_func_dep_presets) /\ Get(k, n) = Get(bs[i].hardcoded_func_dep_presets, n)
           Good(k) == Dict(k) /\ \A n \in Keys(k) : Came(n, k)
           S == {n \in 0..N : Good(h[n])}
<1>6. 0 \in S
  BY <1>2, <1>5, EmptyDict
<1>7. ASSUME NEW n \in 1..N, n - 1 \in S PROVE n \in S
  <2> DEFINE u == h[n - 1]
             v == h[n]
             w == bs[n].hardcoded_func_dep_presets
  <2>1. Good(u) /\ v = PresetsStep(0, u, bs[n]) /\ n \in 0..N /\ n \in DOMAIN bs /\ Dict(w)
    <3>1. Good(u)
      BY <1>7
    <3>2. v = PresetsStep(0, u, bs[n]) /\ n \in 0..N /\ n \in DOMAIN bs
      BY <1>2, <1>5
    <3>3. Builder(bs[n])
      BY ONLY <1>1, <3>2
    <3>4. Dict(w)
      BY ONLY <3>3 DEF Builder
    <3> QED
      BY <3>1, <3>2, <3>4
  <2>2. v = combine_dicts(u, w)
    BY <2>1 DEF PresetsStep
  <2>3. \A k \in Keys(w) : Get(v, k) = Get(w, k) => Came(k, v)
    BY <2>1
  <2>4. \A k : Get(v, k) = Get(u, k) /\ Came(k, u) => Came(k, v)
    OBVIOUS
  <2> HIDE DEF u, v, w, Came
  <2>5. Combination(u, w, v)
    BY <2>1, <2>2, CombineIs
  <2>6. Good(v)
    BY <2>1, <2>3, <2>4, <2>5 DEF Combination
  <2> QED
    BY <2>1, <2>6 DEF v
<1> HIDE DEF S
<1>8. 0..N \subseteq S
  BY <1>2, <1>6, <1>7, UpTo
<1>9. N \in S
  BY <1>2, <1>8
<1> QED
  BY <1>5, <1>9 DEF S, c, bs

EngineStep(none, d, b) == IF b.execution_engine_cls # <<>> THEN b.execution_engine_cls ELSE d
AddingEngine == INSTANCE FoldOf WITH op <- EngineStep

LEMMA AddingEngineInducts == AddingEngine!NatInduction
BY NatSetInduction DEF AddingEngine!NatInduction

LEMMA EngineAre ==
  ASSUME NEW fork \in Forks
  PROVE  LET p == execution_engine_cls(fork)
         IN /\ IsList(p)
            /\ p = <<>> \/ \E i \in DOMAIN builders(fork) : p = builders(fork)[i].execution_engine_cls
<1> DEFINE bs == builders(fork)
           N == Len(bs)
           c == execution_engine_cls(fork)
<1>1. IsList(bs) /\ \A i \in DOMAIN bs : Builder(bs[i])
  BY BuilderList
<1>2. N \in Nat /\ DOMAIN bs = 1..N
  BY <1>1, ListIs
<1>3. c = AddingEngine!TheFold(0, <<>>, bs, N)[1..N]
  BY <1>2 DEF execution_engine_cls, FoldLeft, MapThenFoldSet, Max,
     AddingEngine!TheFold, AddingEngine!Fold, AddingEngine!Largest, EngineStep
<1> HIDE DEF c, N, bs
<1>4. PICK h : /\ AddingEngine!Course(0, <<>>, bs, N, h)
               /\ h[N] = AddingEngine!TheFold(0, <<>>, bs, N)[1..N]
  BY <1>2, AddingEngine!FoldHasCourse, AddingEngineInducts
<1>5. /\ h[0] = <<>>
      /\ \A n \in 1..N : h[n] = EngineStep(0, h[n - 1], bs[n])
      /\ c = h[N]
  BY <1>3, <1>4 DEF AddingEngine!Course
<1> DEFINE Good(p) == IsList(p) /\ (p = <<>> \/ \E i \in DOMAIN bs : p = bs[i].execution_engine_cls)
           S == {n \in 0..N : Good(h[n])}
<1>6. 0 \in S
  BY <1>2, <1>5, EmptyList
<1>7. ASSUME NEW n \in 1..N, n - 1 \in S PROVE n \in S
  <2> DEFINE u == h[n - 1]
             v == h[n]
             w == bs[n].execution_engine_cls
  <2>1. Good(u) /\ v = EngineStep(0, u, bs[n]) /\ n \in 0..N /\ n \in DOMAIN bs /\ IsList(w)
    <3>1. Good(u)
      BY <1>7
    <3>2. v = EngineStep(0, u, bs[n]) /\ n \in 0..N /\ n \in DOMAIN bs
      BY <1>2, <1>5
    <3>3. Builder(bs[n])
      BY ONLY <1>1, <3>2
    <3>4. IsList(w)
      BY ONLY <3>3 DEF Builder
    <3> QED
      BY <3>1, <3>2, <3>4
  <2>2. v = IF w # <<>> THEN w ELSE u
    BY <2>1 DEF EngineStep
  <2>3. Good(w)
    BY <2>1
  <2> HIDE DEF u, v, w, Good
  <2>4. Good(v)
    BY <2>1, <2>2, <2>3
  <2> QED
    BY <2>1, <2>4 DEF v
<1> HIDE DEF S
<1>8. 0..N \subseteq S
  BY <1>2, <1>6, <1>7, UpTo
<1>9. N \in S
  BY <1>2, <1>8
<1> QED
  BY <1>5, <1>9 DEF S, c, bs

-----------------------------------------------------------------------------
(* The written module tells of a name what the combined dictionaries say.  *)

LEMMA KeysSilent ==
  ASSUME NEW p, IsList(p), NEW n, n \notin Keys(p)
  PROVE  Silent(p, n)
BY DEF Keys, Silent

LEMMA ConfigSilent ==
  ASSUME NEW s, NEW n, n \notin {"Configuration", "config"}
  PROVE  Silent(config_spec(s), n)
<1> DEFINE p == config_spec(s)
<1>1. p = [i \in 1..2 |-> p[i]] /\ p[1].name = "Configuration" /\ p[2].name = "config"
  BY DEF config_spec, Statement
<1> HIDE DEF p
<1>2. IsList(p) /\ DOMAIN p = 1..2
  BY <1>1, ListIs
<1>3. \A i \in 1..2 : i = 1 \/ i = 2
  OBVIOUS
<1>4. Silent(p, n)
  BY <1>1, <1>2, <1>3 DEF Silent
<1> QED
  BY <1>4 DEF p

LEMMA ProtocolsSilent ==
  ASSUME NEW s, Dict(s["protocols"]), NEW n, n \notin Keys(s["protocols"])
  PROVE  Silent(protocols_spec(s), n)
<1> DEFINE p == protocols_spec(s)
           d == s["protocols"]
<1>1. p = [i \in DOMAIN d |-> p[i]] /\ \A i \in DOMAIN d : p[i].name = d[i].name
  BY DEF protocols_spec, Statement
<1>2. IsList(d) /\ \A i \in DOMAIN d : d[i].name # n
  BY DEF Dict, Keys
<1> HIDE DEF p, d
<1>3. \A i \in DOMAIN d : p[i].name # n
  BY <1>1, <1>2
<1>4. Silent(p, n)
  BY <1>1, <1>2, <1>3, SilentIs
<1> QED
  BY <1>4 DEF p

(* The assertions of a module.                                             *)
LEMMA AssertedIs ==
  ASSUME NEW s, NEW fork \in Forks
  PROVE  LET p == ssz_dep_constants_verification(s, fork)
             q == func_dep_presets_verification(s, fork)
         IN /\ IsList(p) /\ IsList(q)
            /\ \A i \in DOMAIN p : \E n \in Keys(hardcoded_ssz_dep_constants(fork)) \ deprecate_constants(fork) :
                 p[i] = Assertion(n, Get(s["ssz_dep_constants"], n).text)
            /\ \A i \in DOMAIN q : \E n \in Keys(hardcoded_func_dep_presets(fork)) \ deprecate_presets(fork) :
                 q[i] = Assertion(n, Get(s["func_dep_presets"], n).text)
<1>1. ASSUME NEW c, Dict(c), NEW names
      PROVE  IsList(Without(c, names)) /\ Keys(Without(c, names)) \subseteq Keys(c) \ names
  BY <1>1, RestrictedIs DEF Without, Dict
<1> DEFINE p == ssz_dep_constants_verification(s, fork)
           q == func_dep_presets_verification(s, fork)
           c == Without(hardcoded_ssz_dep_constants(fork), deprecate_constants(fork))
           d == Without(hardcoded_func_dep_presets(fork), deprecate_presets(fork))
<1>2. IsList(c) /\ Keys(c) \subseteq Keys(hardcoded_ssz_dep_constants(fork)) \ deprecate_constants(fork)
  BY <1>1, ConstantsAre
<1>3. IsList(d) /\ Keys(d) \subseteq Keys(hardcoded_func_dep_presets(fork)) \ deprecate_presets(fork)
  BY <1>1, PresetsAre
<1>4. /\ p = [i \in DOMAIN c |-> p[i]]
      /\ \A i \in DOMAIN c : p[i] = Assertion(c[i].name, Get(s["ssz_dep_constants"], c[i].name).text)
  BY DEF ssz_dep_constants_verification
<1>5. /\ q = [i \in DOMAIN d |-> q[i]]
      /\ \A i \in DOMAIN d : q[i] = Assertion(d[i].name, Get(s["func_dep_presets"], d[i].name).text)
  BY DEF func_dep_presets_verification
<1> HIDE DEF p, q, c, d
<1>6. IsList(p) /\ DOMAIN p = DOMAIN c /\ IsList(q) /\ DOMAIN q = DOMAIN d
  BY <1>2, <1>3, <1>4, <1>5, StatementsAre
<1>7. /\ \A i \in DOMAIN c : c[i].name \in Keys(c)
      /\ \A i \in DOMAIN d : d[i].name \in Keys(d)
  BY DEF Keys
<1>8. \A i \in DOMAIN p : \E n \in Keys(hardcoded_ssz_dep_constants(fork)) \ deprecate_constants(fork) :
                 p[i] = Assertion(n, Get(s["ssz_dep_constants"], n).text)
  BY <1>2, <1>4, <1>6, <1>7
<1>9. \A i \in DOMAIN q : \E n \in Keys(hardcoded_func_dep_presets(fork)) \ deprecate_presets(fork) :
                 q[i] = Assertion(n, Get(s["func_dep_presets"], n).text)
  BY <1>3, <1>5, <1>6, <1>7
<1> QED
  BY <1>6, <1>8, <1>9 DEF p, q

(* Assertions bind no name.                                                *)
LEMMA AssertionsSilent ==
  ASSUME NEW s, NEW fork \in Forks, NEW n, n # NoName
  PROVE  /\ Silent(ssz_dep_constants_verification(s, fork), n)
         /\ Silent(func_dep_presets_verification(s, fork), n)
<1> DEFINE p == ssz_dep_constants_verification(s, fork)
           q == func_dep_presets_verification(s, fork)
<1>1. /\ IsList(p) /\ \A i \in DOMAIN p : p[i].name = NoName
      /\ IsList(q) /\ \A i \in DOMAIN q : q[i].name = NoName
  BY AssertedIs DEF Assertion, Statement
<1> HIDE DEF p, q
<1>2. Silent(p, n) /\ Silent(q, n)
  BY <1>1 DEF Silent
<1> QED
  BY <1>2 DEF p, q

(* A dictionary that has n, if at all, with text x.                        *)
LEMMA DefinitionsPart ==
  ASSUME NEW d, Dict(d), NEW n, NEW x, n \in Keys(d) => Get(d, n).text = x
  PROVE  Part(Definitions(d), n, x) /\ (n \in Keys(d) => Tells(Definitions(d), n, x))
BY DefinitionsTell DEF Part

LEMMA ClassesTell ==
  ASSUME NEW s, Dictionaries(s), NEW classes, ClassesOf(s, classes), NEW n, NEW t \in WrittenSections,
         n \in Keys(s[t]), \A u \in Sections \ {t} : n \notin Keys(s[u])
  PROVE  LET d == Configured(classes, s)
             x == Get(s[t], n).text
         IN /\ Part(Definitions(d), n, x)
            /\ t \in {"ssz_objects", "dataclasses"} => Tells(Definitions(d), n, x)
<1> DEFINE a == s["ssz_objects"]
           b == s["dataclasses"]
           c == combine_dicts(a, b)
           d == Configured(classes, s)
           x == Get(s[t], n).text
<1>1. "ssz_objects" \in Sections /\ "dataclasses" \in Sections /\ t \in Sections
  BY WrittenAre DEF Sections
<1>2. Dict(a) /\ Dict(b)
  BY <1>1 DEF Dictionaries
<1>3. /\ n \in Keys(a) => t = "ssz_objects"
      /\ n \in Keys(b) => t = "dataclasses"
  BY <1>1
<1>4. /\ t = "ssz_objects" => n \in Keys(a) /\ n \notin Keys(b) /\ x = Get(a, n).text
      /\ t = "dataclasses" => n \in Keys(b) /\ x = Get(b, n).text
  BY <1>1
<1> HIDE DEF a, b, x
<1>5. Combination(a, b, c)
  BY <1>2, CombineIs
<1>6. Reordered(c, classes)
  BY DEF ClassesOf, a, b
<1> HIDE DEF c
<1>7. /\ Dict(classes) /\ Keys(classes) = Keys(a) \cup Keys(b)
      /\ n \in Keys(classes) => Get(classes, n) = Get(c, n)
  BY <1>5, <1>6 DEF Reordered, Combination
<1>8. n \in Keys(classes) => Get(classes, n).text = x
  BY <1>3, <1>4, <1>5, <1>7 DEF Combination
<1>9. Dict(d) /\ Keys(d) = Keys(classes) /\ \A k \in Keys(classes) : Get(d, k).text = Get(classes, k).text
  BY <1>7, ConfiguredIs
<1> HIDE DEF d
<1>10. n \in Keys(d) => Get(d, n).text = x
  BY <1>8, <1>9
<1>11. Part(Definitions(d), n, x) /\ (n \in Keys(d) => Tells(Definitions(d), n, x))
  BY <1>9, <1>10, DefinitionsPart
<1>12. t \in {"ssz_objects", "dataclasses"} => n \in Keys(d)
  BY <1>4, <1>7, <1>9
<1> QED
  BY <1>11, <1>12 DEF d, x

LEMMA FunctionsTell ==
  ASSUME NEW s, Dictionaries(s), NEW fork, NEW n, NEW t \in WrittenSections,
         n \in Keys(s[t]), \A u \in Sections \ {t} : n \notin Keys(s[u]),
         n \notin DeletedFunctions,
         n \notin UNION {builders(fork)[i].optimized : i \in DOMAIN builders(fork)}
  PROVE  LET d == Configured(Functions(s, fork), s)
             x == Get(s[t], n).text
         IN /\ Part(Definitions(d), n, x)
            /\ t = "functions" => Tells(Definitions(d), n, x)
<1> DEFINE c == Functions(s, fork)
           d == Configured(c, s)
           x == Get(s[t], n).text
           f == s["functions"]
<1>1. "functions" \in Sections
  BY DEF Sections
<1>2. Dict(f)
  BY <1>1 DEF Dictionaries
<1>3. /\ n \in Keys(f) => t = "functions"
      /\ t = "functions" => n \in Keys(f) /\ x = Get(f, n).text
  BY <1>1
<1>4. /\ Dict(c) /\ Keys(c) = Keys(f) \ DeletedFunctions
      /\ n \in Keys(c) => Get(c, n).text = Get(f, n).text
  BY <1>2, FunctionsAre
<1> HIDE DEF c, f, x
<1>5. Dict(d) /\ Keys(d) = Keys(c) /\ \A k \in Keys(c) : Get(d, k).text = Get(c, k).text
  BY <1>4, ConfiguredIs
<1> HIDE DEF d
<1>6. n \in Keys(d) => Get(d, n).text = x
  BY <1>3, <1>4, <1>5
<1>7. Part(Definitions(d), n, x) /\ (n \in Keys(d) => Tells(Definitions(d), n, x))
  BY <1>5, <1>6, DefinitionsPart
<1>8. t = "functions" => n \in Keys(d)
  BY <1>3, <1>4, <1>5
<1> QED
  BY <1>7, <1>8 DEF c, d, x

(* The last binding of a name that is said in one section only.            *)
LEMMA ModuleTells ==
  ASSUME spec_fork \in Forks, NEW s, Dictionaries(s), NEW classes, ClassesOf(s, classes),
         NEW n, n # NoName, n \notin BuilderNames, NEW t \in WrittenSections,
         n \in Keys(s[t]), \A u \in Sections \ {t} : n \notin Keys(s[u])
  PROVE  Tells(objects_to_spec(s, spec_fork, classes), n, Get(s[t], n).text)
<1> DEFINE x == Get(s[t], n).text
           a1 == Pieces(spec_fork, LAMBDA b : Names(b.imports))
           a2 == Pieces(spec_fork, LAMBDA b : Names(b.preparations))
           a3 == Names(<<"fork", "ceillog2", "floorlog2">>)
           b1 == Definitions(hardcoded_ssz_dep_constants(spec_fork))
           b2 == Definitions(s["custom_types"])
           b3 == Definitions(s["constant_vars"])
           b4 == Definitions(s["preset_vars"])
           b5 == Definitions(s["preset_dep_constant_vars"])
           b6 == Definitions(s["preset_dep_custom_types"])
           b7 == config_spec(s)
           b8 == Pieces(spec_fork, LAMBDA b : b.classes)
           b9 == Definitions(Configured(classes, s))
           b10 == protocols_spec(s)
           b11 == Definitions(Configured(Functions(s, spec_fork), s))
           b12 == Pieces(spec_fork, LAMBDA b : b.sundry_functions)
           b13 == execution_engine_cls(spec_fork)
           b14 == ssz_dep_constants_verification(s, spec_fork)
           b15 == func_dep_presets_verification(s, spec_fork)
<1>1. objects_to_spec(s, spec_fork, classes)
        = a1 \o a2 \o a3 \o b1 \o b2 \o b3 \o b4 \o b5 \o b6 \o b7 \o b8 \o b9 \o b10
            \o b11 \o b12 \o b13 \o b14 \o b15
  BY DEF objects_to_spec
<1>2. IsList(a1) /\ IsList(a2) /\ IsList(b8) /\ IsList(b12) /\ IsList(b13)
  BY ImportsAre, PreparationsAre, ClassesAre, SundryAre, EngineAre
<1>3. IsList(a3)
  <2> DEFINE names == <<"fork", "ceillog2", "floorlog2">>
  <2>1. names = [i \in 1..3 |-> names[i]]
    OBVIOUS
  <2> HIDE DEF names
  <2>2. IsList(names)
    BY <2>1, ListIs
  <2>3. IsList(Names(names))
    BY <2>2, NamesAre
  <2> QED
    BY <2>3 DEF names
<1>4. /\ n \notin Keys(b8) /\ n \notin Keys(b12) /\ n \notin Keys(b13)
      /\ n \notin Keys(hardcoded_ssz_dep_constants(spec_fork))
      /\ n \notin UNION {builders(spec_fork)[i].optimized : i \in DOMAIN builders(spec_fork)}
      /\ n \notin DeletedFunctions /\ n \notin {"Configuration", "config"}
  <2> DEFINE c1 == Keys(b8)
             c2 == Keys(b12)
             c3 == Keys(b13)
             c4 == Keys(hardcoded_ssz_dep_constants(spec_fork))
             c5 == UNION {builders(spec_fork)[i].optimized : i \in DOMAIN builders(spec_fork)}
             c6 == DeletedFunctions
             c7 == {"Configuration", "config", "CURDLEPROOFS_CRS"}
             c8 == KzgSetup
  <2>1. BuilderNames = c1 \cup c2 \cup c3 \cup c4 \cup c5 \cup c6 \cup c7 \cup c8
    BY ONLY Zenon DEF BuilderNames
  <2>2. n \notin BuilderNames
    OBVIOUS
  <2> HIDE DEF c1, c2, c3, c4, c5, c6, c7, c8
  <2>3. n \notin c1 /\ n \notin c2 /\ n \notin c3 /\ n \notin c4 /\ n \notin c5 /\ n \notin c6 /\ n \notin c7
    BY ONLY <2>1, <2>2
  <2> QED
    BY ONLY <2>3, Zenon DEF c1, c2, c3, c4, c5, c6, c7
<1>5. Silent(b8, n) /\ Silent(b12, n) /\ Silent(b13, n)
  BY <1>2, <1>4, KeysSilent
<1>6. Silent(b7, n)
  BY <1>4, ConfigSilent
<1>7. Silent(b14, n) /\ Silent(b15, n)
  BY AssertionsSilent
<1>8. Silent(b1, n)
  BY <1>4, ConstantsAre, DefinitionsTell
<1>9. \A u \in Sections : Dict(s[u]) /\ (u # t => n \notin Keys(s[u]))
  BY DEF Dictionaries
<1>10. Silent(b10, n)
  <2>1. "protocols" \in Sections /\ "protocols" # t
    BY WrittenAre DEF Sections
  <2> QED
    BY <1>9, <2>1, ProtocolsSilent
<1>11. Part(b9, n, x) /\ (t \in {"ssz_objects", "dataclasses"} => Tells(b9, n, x))
  BY ClassesTell
<1>12. Part(b11, n, x) /\ (t = "functions" => Tells(b11, n, x))
  BY <1>4, FunctionsTell
<1>13. ASSUME NEW u \in Sections
       PROVE  Part(Definitions(s[u]), n, x) /\ (t = u => Tells(Definitions(s[u]), n, x))
  <2> DEFINE d == s[u]
  <2>1. Dict(d) /\ (n \in Keys(d) => Get(d, n).text = x) /\ (t = u => n \in Keys(d))
    BY <1>9
  <2> HIDE DEF d, x
  <2>2. Part(Definitions(d), n, x) /\ (n \in Keys(d) => Tells(Definitions(d), n, x))
    BY <2>1, DefinitionsPart
  <2> QED
    BY <2>1, <2>2 DEF d
<1>14. /\ "custom_types" \in Sections /\ "constant_vars" \in Sections /\ "preset_vars" \in Sections
       /\ "preset_dep_constant_vars" \in Sections /\ "preset_dep_custom_types" \in Sections
  BY DEF Sections
<1>15. /\ Part(b2, n, x) /\ Part(b3, n, x) /\ Part(b4, n, x) /\ Part(b5, n, x) /\ Part(b6, n, x)
       /\ t = "custom_types" => Tells(b2, n, x)
       /\ t = "constant_vars" => Tells(b3, n, x)
       /\ t = "preset_dep_constant_vars" => Tells(b5, n, x)
       /\ t = "preset_dep_custom_types" => Tells(b6, n, x)
  BY <1>13, <1>14
<1> HIDE DEF x, a1, a2, a3, b1, b2, b3, b4, b5, b6, b7, b8, b9, b10, b11, b12, b13, b14, b15
<1>16. /\ Part(b1, n, x) /\ Part(b7, n, x) /\ Part(b8, n, x) /\ Part(b10, n, x) /\ Part(b12, n, x)
       /\ Part(b13, n, x) /\ Part(b14, n, x) /\ Part(b15, n, x)
  BY <1>5, <1>6, <1>7, <1>8, <1>10 DEF Part
<1>17. \/ Tells(b2, n, x) \/ Tells(b3, n, x) \/ Tells(b5, n, x) \/ Tells(b6, n, x)
       \/ Tells(b9, n, x) \/ Tells(b11, n, x)
  BY <1>11, <1>12, <1>15 DEF WrittenSections, CodeSections
<1>18. Tells(a1 \o a2 \o a3 \o b1 \o b2 \o b3 \o b4 \o b5 \o b6 \o b7 \o b8 \o b9 \o b10
               \o b11 \o b12 \o b13 \o b14 \o b15, n, x)
  BY <1>2, <1>3, <1>11, <1>12, <1>15, <1>16, <1>17, PartsTell
<1> QED
  BY <1>1, <1>18 DEF x

-----------------------------------------------------------------------------
(* A build: the documents one after the other, each from its beginning.    *)

LEMMA BuildBegins ==
  ASSUME BuildInit
  PROVE  BuildInv
<1>1. PICK tree \in Trees[spec_fork] : source_files = get_md_doc_paths(tree, spec_fork)
  BY DEF BuildInit
<1>2. /\ IsList(source_files) /\ source_files # <<>>
      /\ \A i \in DOMAIN source_files : source_files[i].elements \in Documents
  BY <1>1, FilesAre DEF BuildInit
<1>3. IsList(all_specs)
  BY EmptyDict DEF BuildInit, Dict
<1>4. /\ document \in Documents /\ at = 1 /\ current_heading_name = NoName
      /\ spec = EmptySpec /\ all_custom_types = <<>> /\ status = "parsing"
  BY DEF BuildInit, Init
<1>5. Inv
  BY <1>4, Beginning DEF Inv
<1> QED
  BY <1>2, <1>3, <1>5 DEF BuildInv

(* Between two documents the parser starts anew.                           *)
LEMMA NextDocument ==
  ASSUME BuildInv, get_spec
  PROVE  BuildInv'
<1>1. source_files' = source_files
  BY DEF get_spec, Input
<1>2. /\ IsList(source_files) /\ IsList(all_specs)
      /\ \A i \in DOMAIN source_files : source_files[i].elements \in Documents
  BY DEF BuildInv
<1>3. CASE status = "error"
  <2>1. UNCHANGED parser /\ all_specs' = all_specs
    BY <1>3 DEF get_spec, Fail
  <2>2. Inv'
    BY <2>1 DEF BuildInv, Inv, parser
  <2> QED
    BY <1>1, <1>2, <2>1, <2>2 DEF BuildInv
<1>4. CASE status # "error"
  <2>1. all_specs' = Append(all_specs, spec)
    BY <1>4 DEF get_spec
  <2>2. IsList(all_specs') /\ Len(all_specs') \in Nat
    BY <1>2, <2>1, ListGrows
  <2>3. CASE Len(all_specs') < Len(source_files)
    <3> DEFINE doc == source_files[Len(all_specs') + 1].elements
    <3>1. /\ document' = doc /\ at' = 1 /\ current_heading_name' = NoName
          /\ spec' = EmptySpec /\ all_custom_types' = <<>> /\ status' = "parsing"
      BY <1>4, <2>3 DEF get_spec
    <3>2. Len(all_specs') + 1 \in DOMAIN source_files
      <4>1. DOMAIN source_files = 1..Len(source_files) /\ Len(source_files) \in Nat
        BY <1>2 DEF IsList
      <4> QED
        BY <2>2, <2>3, <4>1
    <3>3. doc \in Documents
      BY <1>2, <3>2
    <3> HIDE DEF doc
    <3>4. Inv'
      BY <3>1, <3>3, Beginning DEF Inv
    <3> QED
      BY <1>1, <1>2, <2>2, <3>4 DEF BuildInv
  <2>4. CASE ~ (Len(all_specs') < Len(source_files))
    <3>1. UNCHANGED parser
      BY <1>4, <2>4 DEF get_spec
    <3>2. Inv'
      BY <3>1 DEF BuildInv, Inv, parser
    <3> QED
      BY <1>1, <1>2, <2>2, <3>2 DEF BuildInv
  <2> QED
    BY <2>3, <2>4
<1> QED
  BY <1>3, <1>4

LEMMA BuildKeeps ==
  ASSUME BuildInv, [BuildNext]_<<parser, builder>>
  PROVE  BuildInv'
<1>1. CASE Parse
  <2>1. Inv'
    BY <1>1, ParserKeeps DEF Parse, BuildInv
  <2>2. source_files' = source_files /\ all_specs' = all_specs
    BY <1>1 DEF Parse, builder
  <2> QED
    BY <2>1, <2>2 DEF BuildInv
<1>2. CASE get_spec
  BY <1>2, NextDocument
<1>3. ASSUME UNCHANGED parser, source_files' = source_files, all_specs' = all_specs
      PROVE  BuildInv'
  <2>1. Inv'
    BY <1>3 DEF BuildInv, Inv, parser
  <2> QED
    BY <1>3, <2>1 DEF BuildInv
<1>4. CASE load_preset
  BY <1>3, <1>4 DEF load_preset, Fail, Input
<1>5. CASE Combine
  BY <1>3, <1>5 DEF Combine, Input
<1>6. CASE OrderClasses
  BY <1>3, <1>6 DEF OrderClasses, Fail, Input
<1>7. CASE WriteSpec
  BY <1>3, <1>7 DEF WriteSpec, Fail, Input
<1>8. CASE UNCHANGED <<parser, builder>>
  BY <1>3, <1>8 DEF builder
<1> QED
  BY <1>1, <1>2, <1>4, <1>5, <1>6, <1>7, <1>8 DEF BuildNext

LEMMA BuildInvariant == BuildSpecification => []BuildInv
<1>1. BuildInit => BuildInv
  BY BuildBegins
<1>2. BuildInv /\ [BuildNext]_<<parser, builder>> => BuildInv'
  BY BuildKeeps
<1> QED
  BY <1>1, <1>2, PTL DEF BuildSpecification

(* The dictionaries of every document have a name once.                    *)
THEOREM DictionariesTyped == BuildSpecification => []TypeOK
<1>1. BuildInv => TypeOK
  BY WhatIsRead DEF BuildInv
<1> QED
  BY <1>1, BuildInvariant, PTL

(* Of every document of a build, exactly the definitions that no comment   *)
(* takes away are kept, and the last one of each name.                     *)
THEOREM LastDefinitionsStand == BuildSpecification => []LastDefinitionStands
<1>1. BuildInv => LastDefinitionStands
  BY WhatIsRead DEF BuildInv
<1> QED
  BY <1>1, BuildInvariant, PTL

(* Every container of a document stands under the heading of its name.     *)
THEOREM HeadingsNameClasses == BuildSpecification => []ClassesUnderTheirHeading
<1>1. BuildInv => ClassesUnderTheirHeading
  BY WhatIsRead DEF BuildInv
<1> QED
  BY <1>1, BuildInvariant, PTL

(* What is written before the presets needs none of them, however many     *)
(* constants are between it and the preset.                                *)
THEOREM PlainBeforePresets == BuildSpecification => []PlainNeedsNoPreset
<1>1. BuildInv => PlainNeedsNoPreset
  BY WhatIsRead DEF BuildInv
<1> QED
  BY <1>1, BuildInvariant, PTL
-----------------------------------------------------------------------------
LEMMA SourcesAre ==
  ASSUME Sources
  PROVE  /\ spec_fork \in Forks
         /\ IsList(source_files) /\ DOMAIN source_files = 1..Len(source_files)
         /\ Len(source_files) \in Nat \ {0}
         /\ \A i \in DOMAIN source_files :
              source_files[i].elements \in Documents /\ source_files[i].fork \in Forks
         /\ \A i, j \in DOMAIN source_files :
              i <= j => Len(collect_prev_forks(source_files[i].fork)) <= Len(collect_prev_forks(source_files[j].fork))
<1>1. PICK tree \in Trees[spec_fork] : source_files = get_md_doc_paths(tree, spec_fork)
  BY DEF Sources
<1>2. spec_fork \in Targets /\ spec_fork \in Forks
  BY TargetsAreForks DEF Sources
<1> DEFINE files == get_md_doc_paths(tree, spec_fork)
<1>3. /\ IsList(files) /\ files # <<>>
      /\ \A i \in DOMAIN files : files[i].elements \in Documents /\ files[i].fork \in Forks
      /\ \A i, j \in DOMAIN files :
           i <= j => Len(collect_prev_forks(files[i].fork)) <= Len(collect_prev_forks(files[j].fork))
  BY <1>2, FilesAre
<1> HIDE DEF files
<1>4. DOMAIN files = 1..Len(files) /\ Len(files) \in Nat \ {0}
  BY <1>3 DEF IsList
<1>5. source_files = files
  BY <1>1 DEF files
<1> QED
  BY <1>2, <1>3, <1>4, <1>5

LEMMA CompilerBegins ==
  ASSUME BuildInit
  PROVE  CompilerInv
<1>1. BuildInv /\ Sources
  BY BuildBegins DEF BuildInit, Sources
<1>2. phase = "loading" /\ all_specs = <<>> /\ document = source_files[1].elements /\ combined = 0
  BY DEF BuildInit
<1>3. Len(all_specs) = 0 /\ Len(source_files) \in Nat \ {0}
  BY <1>1, <1>2, SourcesAre
<1>4. ReadFiles
  BY <1>2, <1>3 DEF ReadFiles
<1>5. Compiled
  BY <1>2 DEF Compiled
<1> QED
  BY <1>1, <1>2, <1>4, <1>5 DEF CompilerInv, Phases

(* Nothing of a build changes but what follows the documents.              *)
LEMMA StillRead ==
  ASSUME ReadFiles, source_files' = source_files, all_specs' = all_specs,
         \/ phase' = phase /\ document' = document
         \/ phase \in {"combining", "ordering", "written"} /\ phase' \in {"combining", "ordering", "written"}
         \/ phase = "loading" /\ phase' = "parsing" /\ document' = document
         \/ phase' = "failed"
  PROVE  ReadFiles'
<1>1. \A i \in 1..Len(all_specs) : SpecRead(source_files[i].elements, all_specs[i])
  BY DEF ReadFiles
<1>2. \A i \in 1..Len(all_specs') : SpecRead(source_files'[i].elements, all_specs'[i])
  BY <1>1
<1>3. /\ phase' \in {"loading", "parsing"} =>
           Len(all_specs') < Len(source_files') /\ document' = source_files'[Len(all_specs') + 1].elements
      /\ phase' \in {"combining", "ordering", "written"} => Len(all_specs') = Len(source_files')
  BY DEF ReadFiles
<1> QED
  BY <1>2, <1>3 DEF ReadFiles

(* The SpecObject of a document joins the others.                          *)
LEMMA OneMore ==
  ASSUME CompilerInv, get_spec
  PROVE  ReadFiles' /\ Compiled' /\ phase' \in Phases
<1>1. /\ source_files' = source_files /\ phase = "parsing" /\ status # "parsing"
  BY DEF get_spec, Input
<1>2. IsList(all_specs) /\ BuildInv /\ ReadFiles /\ Compiled /\ Sources
  BY DEF CompilerInv, BuildInv
<1>3. CASE status = "error"
  <2>1. all_specs' = all_specs /\ phase' = "failed"
    BY <1>3 DEF get_spec, Fail
  <2>2. ReadFiles'
    BY <1>1, <1>2, <2>1, StillRead
  <2>3. Compiled'
    BY <2>1 DEF Compiled
  <2> QED
    BY <2>1, <2>2, <2>3 DEF Phases
<1>4. CASE status # "error"
  <2>1. status = "done" /\ SpecRead(document, spec)
    BY <1>1, <1>2, <1>4 DEF BuildInv, Inv, ReadSoFar, Done, SpecRead
  <2>2. /\ all_specs' = Append(all_specs, spec) /\ combined' = combined
        /\ IF Len(all_specs') < Len(source_files)
           THEN document' = source_files[Len(all_specs') + 1].elements /\ phase' = phase
           ELSE phase' = "combining"
    BY <1>4 DEF get_spec
  <2> DEFINE N == Len(all_specs)
             r == Append(all_specs, spec)
  <2>3. /\ N \in Nat /\ Len(r) = N + 1
        /\ \A i \in 1..N : r[i] = all_specs[i]
        /\ r[N + 1] = spec
    BY <1>2, Appended
  <2> HIDE DEF r
  <2>4. all_specs' = r
    BY <2>2 DEF r
  <2>5. N < Len(source_files) /\ document = source_files[N + 1].elements
    BY <1>1, <1>2 DEF ReadFiles
  <2>6. \A i \in 1..N : SpecRead(source_files[i].elements, all_specs[i])
    BY <1>2 DEF ReadFiles
  <2>7. combined = 0
    BY <1>1, <1>2 DEF Compiled
  <2>8. Len(source_files) \in Nat
    BY <1>2, SourcesAre
  <2> HIDE DEF N
  <2>9. ASSUME NEW i \in 1..Len(r)
        PROVE  SpecRead(source_files[i].elements, r[i])
    <3>1. CASE i = N + 1
      BY <2>1, <2>3, <2>5, <3>1
    <3>2. CASE i # N + 1
      <4>1. i \in 1..N
        BY <2>3, <2>9, <3>2
      <4> QED
        BY <2>3, <2>6, <4>1
    <3> QED
      BY <3>1, <3>2
  <2>10. phase' \in {"parsing", "combining"} /\ phase' \in Phases
    BY <1>1, <2>2 DEF Phases
  <2>11. ReadFiles'
    <3>1. phase' = "parsing" => Len(r) < Len(source_files) /\ document' = source_files[Len(r) + 1].elements
      BY <2>2, <2>4
    <3>2. phase' = "combining" => Len(r) = Len(source_files)
      BY <1>1, <2>2, <2>3, <2>4, <2>5, <2>8
    <3> QED
      BY <1>1, <2>4, <2>9, <2>10, <3>1, <3>2 DEF ReadFiles
  <2>12. Compiled'
    <3>1. combined' = 0 /\ 0 \in 0..Len(r)
      BY <2>2, <2>3, <2>7
    <3> QED
      BY <2>4, <2>10, <3>1 DEF Compiled
  <2> QED
    BY <2>10, <2>11, <2>12
<1> QED
  BY <1>3, <1>4

(* One more of them is combined, or they all are.                          *)
LEMMA CombineKeeps ==
  ASSUME CompilerInv, Combine
  PROVE  ReadFiles' /\ Compiled' /\ phase' \in Phases
<1>1. /\ phase = "combining" /\ all_specs' = all_specs /\ source_files' = source_files
      /\ phase' \in {"combining", "ordering"}
  BY DEF Combine, Input
<1>2. ReadFiles'
  BY <1>1, StillRead DEF CompilerInv
<1> DEFINE N == Len(all_specs)
<1>3. /\ N = Len(source_files) /\ N \in Nat \ {0}
      /\ \A i \in 1..N : Dictionaries(all_specs[i])
  BY <1>1, SourcesAre DEF CompilerInv, ReadFiles, SpecRead
<1>4. combined \in 0..N /\ (combined > 0 => Combined(spec_object, all_specs, combined))
  BY <1>1 DEF CompilerInv, Compiled
<1> HIDE DEF N
<1>5. CASE combined < N
  <2>1. /\ spec_object' = IF combined = 0 THEN all_specs[1]
                          ELSE combine_spec_objects(spec_object, all_specs[combined + 1])
        /\ combined' = combined + 1 /\ phase' = "combining"
    BY <1>1, <1>5 DEF Combine, N
  <2>2. combined + 1 \in 0..N /\ combined + 1 \in 1..N /\ combined \in Nat
    BY <1>3, <1>4, <1>5
  <2>3. Combined(spec_object', all_specs, combined + 1)
    <3>1. CASE combined = 0
      <4>1. spec_object' = all_specs[1] /\ combined + 1 = 1 /\ Dictionaries(all_specs[1])
        BY <1>3, <2>1, <2>2, <3>1
      <4> QED
        BY <4>1, FirstCombined
    <3>2. CASE combined # 0
      <4>1. Combined(spec_object, all_specs, combined) /\ Dictionaries(all_specs[combined + 1])
        BY <1>3, <1>4, <2>2, <3>2
      <4>2. Combined(combine_spec_objects(spec_object, all_specs[combined + 1]), all_specs, combined + 1)
        BY <2>2, <4>1, MoreCombined
      <4> QED
        BY <2>1, <3>2, <4>2
    <3> QED
      BY <3>1, <3>2
  <2>4. Compiled'
    BY <1>1, <2>1, <2>2, <2>3 DEF Compiled, N
  <2> QED
    BY <1>2, <2>1, <2>4 DEF Phases
<1>6. CASE ~ (combined < N)
  <2>1. /\ class_objects' = combine_dicts(spec_object["ssz_objects"], spec_object["dataclasses"])
        /\ phase' = "ordering" /\ spec_object' = spec_object
    BY <1>1, <1>6 DEF Combine, N
  <2>2. combined = N /\ Combined(spec_object, all_specs, N)
    BY <1>3, <1>4, <1>6
  <2>3. ClassesOf(spec_object, class_objects')
    <3> DEFINE a == spec_object["ssz_objects"]
               b == spec_object["dataclasses"]
               c == combine_dicts(a, b)
    <3>1. Dict(a) /\ Dict(b)
      BY <2>2 DEF Combined, Dictionaries, Sections
    <3> HIDE DEF a, b
    <3>2. Dict(c)
      BY <3>1, CombineIs DEF Combination
    <3> HIDE DEF c
    <3>3. Reordered(c, c)
      BY <3>2 DEF Reordered
    <3> QED
      BY <2>1, <3>3 DEF ClassesOf, a, b, c
  <2>4. Compiled'
    BY <1>1, <2>1, <2>2, <2>3 DEF Compiled, N
  <2> QED
    BY <1>2, <2>1, <2>4 DEF Phases
<1> QED
  BY <1>5, <1>6

(* A pass keeps the classes.                                               *)
LEMMA OrderKeeps ==
  ASSUME CompilerInv, OrderClasses
  PROVE  ReadFiles' /\ Compiled' /\ phase' \in Phases
<1>1. /\ phase = "ordering" /\ all_specs' = all_specs /\ source_files' = source_files
      /\ phase' \in {"ordering", "failed"}
  BY DEF OrderClasses, Fail, Input
<1>2. ReadFiles'
  BY <1>1, StillRead DEF CompilerInv
<1>3. /\ Combined(spec_object, all_specs, Len(all_specs)) /\ ClassesOf(spec_object, class_objects)
  BY <1>1 DEF CompilerInv, Compiled
<1>4. CASE phase' = "failed"
  BY <1>2, <1>4 DEF Compiled, Phases
<1>5. CASE phase' = "ordering"
  <2>1. /\ \A i \in DOMAIN class_objects :
             dependencies(class_objects[i], CustomTypes) \subseteq Keys(class_objects)
        /\ class_objects' = dependency_order_class_objects(class_objects, CustomTypes)
        /\ spec_object' = spec_object
    BY <1>5 DEF OrderClasses, Fail
  <2> DEFINE d == class_objects
             e == dependency_order_class_objects(d, CustomTypes)
             c == combine_dicts(spec_object["ssz_objects"], spec_object["dataclasses"])
  <2>2. Reordered(c, d)
    BY <1>3 DEF ClassesOf
  <2>3. Reordered(d, e)
    BY <2>1, <2>2, PassIs DEF Reordered
  <2> HIDE DEF c, d, e
  <2>4. Reordered(c, e)
    BY <2>2, <2>3, ReorderedAgain
  <2>5. ClassesOf(spec_object, e)
    BY <2>4 DEF ClassesOf, c
  <2>6. class_objects' = e
    BY <2>1 DEF d, e
  <2>7. Compiled'
    BY <1>1, <1>3, <1>5, <2>1, <2>5, <2>6 DEF Compiled
  <2> QED
    BY <1>2, <1>5, <2>7 DEF Phases
<1> QED
  BY <1>1, <1>4, <1>5

(* The module is written from what was combined and ordered.               *)
LEMMA WriteKeeps ==
  ASSUME CompilerInv, WriteSpec
  PROVE  ReadFiles' /\ Compiled' /\ phase' \in Phases
<1>1. /\ phase = "ordering" /\ all_specs' = all_specs /\ source_files' = source_files
      /\ phase' \in {"written", "failed"} /\ spec_fork' = spec_fork
      /\ spec_object' = spec_object /\ class_objects' = class_objects
  BY DEF WriteSpec, Fail, Input
<1>2. ReadFiles'
  BY <1>1, StillRead DEF CompilerInv
<1>3. /\ Combined(spec_object, all_specs, Len(all_specs)) /\ ClassesOf(spec_object, class_objects)
  BY <1>1 DEF CompilerInv, Compiled
<1>4. phase' = "written" =>
        /\ pyspec' = objects_to_spec(spec_object, spec_fork, class_objects)
        /\ Writable(spec_object, spec_fork)
  BY DEF WriteSpec, Fail
<1>5. Compiled'
  BY <1>1, <1>3, <1>4 DEF Compiled
<1> QED
  BY <1>1, <1>2, <1>5 DEF Phases

LEMMA CompilerKeeps ==
  ASSUME CompilerInv, [BuildNext]_<<parser, builder>>
  PROVE  CompilerInv'
<1>1. BuildInv'
  BY BuildKeeps DEF CompilerInv
<1>2. spec_fork' = spec_fork /\ source_files' = source_files
  BY DEF BuildNext, load_preset, Parse, get_spec, Combine, OrderClasses, WriteSpec, Input, builder
<1>3. Sources'
  BY <1>2 DEF CompilerInv, Sources
<1>4. ReadFiles /\ Compiled /\ phase \in Phases
  BY DEF CompilerInv
<1> SUFFICES ReadFiles' /\ Compiled' /\ phase' \in Phases
  BY <1>1, <1>3 DEF CompilerInv
<1>5. CASE load_preset
  <2>1. /\ phase = "loading" /\ phase' \in {"parsing", "failed"} /\ document' = document
        /\ all_specs' = all_specs /\ combined' = combined
    BY <1>5 DEF load_preset, Fail, parser
  <2>2. ReadFiles'
    BY <1>2, <1>4, <2>1, StillRead
  <2>3. Compiled'
    BY <1>4, <2>1 DEF Compiled
  <2> QED
    BY <2>1, <2>2, <2>3 DEF Phases
<1>6. ASSUME UNCHANGED builder, document' = document
      PROVE  ReadFiles' /\ Compiled' /\ phase' \in Phases
  <2>1. /\ phase' = phase /\ all_specs' = all_specs /\ spec_object' = spec_object /\ combined' = combined
        /\ class_objects' = class_objects /\ pyspec' = pyspec
    BY <1>6 DEF builder
  <2>2. ReadFiles'
    BY <1>2, <1>4, <1>6, <2>1, StillRead
  <2>3. Compiled'
    BY <1>2, <1>4, <2>1 DEF Compiled
  <2> QED
    BY <1>4, <2>1, <2>2, <2>3
<1>7. CASE Parse
  <2>1. document' = document
    BY <1>7 DEF Parse, Next, _process_heading, ProcessCode, ProcessTable, Skip, ListOfRecords,
                IgnoreElement, Finalize, Takes
  <2> QED
    BY <1>6, <1>7, <2>1 DEF Parse
<1>8. CASE UNCHANGED <<parser, builder>>
  BY <1>6, <1>8 DEF parser
<1> QED
  BY <1>5, <1>7, <1>8, OneMore, CombineKeeps, OrderKeeps, WriteKeeps DEF BuildNext

LEMMA CompilerInvariant == BuildSpecification => []CompilerInv
<1>1. BuildInit => CompilerInv
  BY CompilerBegins
<1>2. CompilerInv /\ [BuildNext]_<<parser, builder>> => CompilerInv'
  BY CompilerKeeps
<1> QED
  BY <1>1, <1>2, PTL DEF BuildSpecification

-----------------------------------------------------------------------------
(* The newest definition stands. *)

LEMMA SectionsFinite == IsFiniteSet(Sections)
<1> DEFINE A == {"config_vars", "constant_vars", "custom_types", "dataclasses"}
           B == {"func_dep_presets", "functions", "preset_dep_constant_vars", "preset_dep_custom_types"}
           C == {"preset_vars", "protocols", "ssz_dep_constants", "ssz_objects"}
<1>1. \A a, b, c, d : IsFiniteSet({a, b, c, d})
  <2> SUFFICES ASSUME NEW a, NEW b, NEW c, NEW d PROVE IsFiniteSet({a, b, c, d})
    OBVIOUS
  <2>1. IsFiniteSet({a} \cup {b}) /\ IsFiniteSet({c} \cup {d})
    BY FS_Singleton, FS_Union
  <2>2. IsFiniteSet(({a} \cup {b}) \cup ({c} \cup {d}))
    BY <2>1, FS_Union
  <2>3. ({a} \cup {b}) \cup ({c} \cup {d}) = {a, b, c, d}
    OBVIOUS
  <2> QED
    BY <2>2, <2>3
<1>2. IsFiniteSet(A) /\ IsFiniteSet(B) /\ IsFiniteSet(C)
  BY <1>1
<1>3. Sections = (A \cup B) \cup C
  BY DEF Sections
<1> HIDE DEF A, B, C
<1>4. IsFiniteSet(A \cup B)
  BY <1>2, FS_Union
<1>5. IsFiniteSet((A \cup B) \cup C)
  BY <1>2, <1>4, FS_Union
<1> QED
  BY <1>3, <1>5

(* A name that is in one section only.                                     *)
LEMMA OneSection ==
  ASSUME NEW n, Cardinality(SectionsOf(n)) = 1
  PROVE  \E t \in Sections : n \in Keys(spec_object[t]) /\ \A u \in Sections \ {t} : n \notin Keys(spec_object[u])
<1> DEFINE S == SectionsOf(n)
<1>1. S \subseteq Sections /\ \A u \in Sections : u \in S <=> n \in Keys(spec_object[u])
  BY DEF SectionsOf
<1> HIDE DEF S
<1>2. IsFiniteSet(S)
  BY <1>1, SectionsFinite, FS_Subset
<1>3. PICK t : S = {t}
  BY <1>2, FS_Singleton DEF S
<1> QED
  BY <1>1, <1>3

(* What a document declares has a name.                                    *)
LEMMA DeclaredNames ==
  ASSUME NEW doc \in Documents, NEW e \in Declarations(doc)
  PROVE  e.name # NoName
<1>1. ASSUME NEW p \in DefinitionPlaces(doc), e = DefinitionAt(doc, p)
      PROVE  e.name # NoName
  <2>1. p = <<p[1], p[2]>>
    BY PlacesAre DEF Places
  <2>2. p[1] \in Live(doc, "code") /\ p[2] \in 1..Len(doc[p[1]].defs)
    BY <2>1, PlacesAre
  <2>3. p[1] \in DOMAIN doc /\ doc[p[1]].kind = "code"
    BY <2>2 DEF Live
  <2>4. p[2] \in DOMAIN doc[p[1]].defs
    BY <2>2, <2>3, DocumentIs
  <2> QED
    BY <1>1, <2>3, <2>4, DocumentIs DEF DefinitionAt
<1>2. ASSUME NEW p \in RowPlaces(doc), e = RowAt(doc, p)
      PROVE  e.name # NoName
  <2>1. p = <<p[1], p[2]>>
    BY PlacesAre DEF Places
  <2>2. p[1] \in Live(doc, "table") /\ p[2] \in 1..Len(doc[p[1]].rows)
    BY <2>1, PlacesAre
  <2>3. p[1] \in DOMAIN doc /\ doc[p[1]].kind = "table"
    BY <2>2 DEF Live
  <2>4. p[2] \in DOMAIN doc[p[1]].rows
    BY <2>2, <2>3, DocumentIs
  <2> QED
    BY <1>2, <2>3, <2>4, DocumentIs DEF RowAt
<1> QED
  BY <1>1, <1>2 DEF Declarations

(* The last binding of a name of the module.                               *)
LEMMA LastBindingIs ==
  ASSUME NEW n, NEW x, Tells(pyspec, n, x)
  PROVE  Bindings(n) # {} /\ pyspec[LastBinding(n)].text = x
<1>1. /\ DOMAIN pyspec = 1..Len(pyspec) /\ Len(pyspec) \in Nat
  BY DEF Tells, IsList
<1>2. PICK i \in DOMAIN pyspec : /\ pyspec[i].name = n /\ pyspec[i].text = x
                                 /\ \A j \in DOMAIN pyspec : pyspec[j].name = n => j <= i
  BY DEF Tells
<1>3. i \in Bindings(n) /\ \A j \in Bindings(n) : j <= i /\ j \in Nat
  BY <1>1, <1>2 DEF Bindings
<1>4. \A k \in Bindings(n) : (\A j \in Bindings(n) : j <= k) => k = i
  BY <1>3
<1>5. LastBinding(n) = i
  BY <1>3, <1>4 DEF LastBinding
<1> QED
  BY <1>2, <1>3, <1>5

LEMMA NewestIs ==
  ASSUME CompilerInv, phase = "written", NEW i \in Files, NEW d \in Declared(i),
         d.name \notin BuilderNames, Cardinality(SectionsOf(d.name)) = 1
  PROVE  /\ Bindings(d.name) # {}
         /\ \/ pyspec[LastBinding(d.name)].text = d.text
            \/ \E j \in Files : \E e \in Declared(j) :
                 e.name = d.name /\ (NewerThan(j, i) \/ (j = i /\ e # d))
<1> DEFINE n == d.name
           N == Len(all_specs)
           doc(k) == source_files[k].elements
<1>1. /\ spec_fork \in Forks /\ Files = 1..N /\ N \in Nat \ {0}
      /\ \A k \in 1..N : /\ doc(k) \in Documents /\ Declared(k) = Declarations(doc(k))
                         /\ Dictionaries(all_specs[k]) /\ Says(doc(k), all_specs[k])
  BY SourcesAre DEF CompilerInv, ReadFiles, SpecRead, Files, Declared
<1> DEFINE age(k) == Len(collect_prev_forks(source_files[k].fork))
<1>2. /\ \A j, k \in 1..N : j <= k => age(j) <= age(k)
      /\ \A k \in 1..N : age(k) \in Nat
  BY <1>1, SourcesAre, PrevForksAre, AgeDecreases DEF CompilerInv, Files, ForkList
<1>3. /\ Combined(spec_object, all_specs, N) /\ ClassesOf(spec_object, class_objects)
      /\ pyspec = objects_to_spec(spec_object, spec_fork, class_objects)
  BY DEF CompilerInv, Compiled
<1>4. n # NoName
  BY <1>1, DeclaredNames
<1>5. PICK t \in Sections : n \in Keys(spec_object[t]) /\ \A u \in Sections \ {t} : n \notin Keys(spec_object[u])
  BY OneSection
<1>6. n \notin LoadedNames
  BY DEF BuilderNames, LoadedNames
<1> HIDE DEF n, N
<1>7. PICK section \in WrittenSections : n \in Keys(all_specs[i][section])
  BY <1>1 DEF Says, n
<1>16. \A u \in WrittenSections : CombinedSection(spec_object[u], all_specs, u, N)
  BY <1>3, WrittenAre DEF Combined
<1>8. section = t
  <2>1. n \in Keys(spec_object[section])
    BY <1>1, <1>7, <1>16 DEF CombinedSection
  <2> QED
    BY <1>5, <2>1, WrittenAre
<1> DEFINE x == Get(spec_object[t], n).text
<1>9. PICK m \in 1..N : /\ n \in Keys(all_specs[m][t]) /\ Get(spec_object[t], n) = Get(all_specs[m][t], n)
                        /\ \A j \in 1..N : n \in Keys(all_specs[j][t]) => j <= m
  BY <1>5, <1>7, <1>8, <1>16 DEF CombinedSection
<1>10. PICK e \in Declared(m) : e.name = n /\ e.text = x
  BY <1>1, <1>6, <1>7, <1>8, <1>9 DEF Says, SectionSays
<1>11. Tells(pyspec, n, x)
  <2>1. Dictionaries(spec_object) /\ n \notin BuilderNames
    BY <1>3 DEF Combined, n
  <2>2. Tells(objects_to_spec(spec_object, spec_fork, class_objects), n, Get(spec_object[t], n).text)
    BY <1>1, <1>3, <1>4, <1>5, <1>7, <1>8, <2>1, ModuleTells
  <2> QED
    BY <1>3, <2>2
<1>12. Bindings(n) # {} /\ pyspec[LastBinding(n)].text = x
  BY <1>11, LastBindingIs
<1>13. i \in 1..N /\ i <= m
  BY <1>1, <1>7, <1>8, <1>9
<1>14. CASE m = i
  BY <1>1, <1>10, <1>12, <1>14 DEF n
<1>15. CASE m # i
  <2>1. /\ age(i) <= age(m) /\ m > i
        /\ age(i) \in Nat /\ age(m) \in Nat
    BY <1>1, <1>2, <1>13, <1>15
  <2>2. NewerThan(m, i)
    BY <2>1 DEF NewerThan
  <2> QED
    BY <1>1, <1>10, <1>12, <2>2 DEF n
<1> QED
  BY <1>14, <1>15

(* What a document of a later fork defines replaces what earlier documents *)
(* say, wherever the module writes it; no definition is lost.              *)
THEOREM NewestDefinitionsStand == BuildSpecification => []NewestDefinitionStands
<1>1. CompilerInv => NewestDefinitionStands
  BY NewestIs DEF NewestDefinitionStands
<1> QED
  BY <1>1, CompilerInvariant, PTL
-----------------------------------------------------------------------------
(* Classes follow what they depend on. *)

LEMMA PassedBegins ==
  ASSUME BuildInit
  PROVE  Passed
BY DEF BuildInit, Passed

LEMMA PassedKeeps ==
  ASSUME CompilerInv, Passed, [BuildNext]_<<parser, builder>>
  PROVE  Passed'
<1>1. CASE load_preset
  BY <1>1 DEF load_preset, Fail, Passed
<1>2. CASE Parse
  <2>1. UNCHANGED <<phase, new_objects, class_objects, spec_object>>
    BY <1>2 DEF Parse, builder
  <2> QED
    BY <2>1 DEF Passed, CustomTypes
<1>3. CASE get_spec
  <2>1. /\ phase = "parsing" /\ phase' \in {"parsing", "combining", "failed"} /\ new_objects' = new_objects
    BY <1>3 DEF get_spec, Fail
  <2> QED
    BY <2>1 DEF Passed
<1>4. CASE Combine
  <2>1. /\ phase = "combining" /\ phase' \in {"combining", "ordering"} /\ new_objects' = new_objects
    BY <1>4 DEF Combine
  <2> QED
    BY <2>1 DEF Passed
<1>5. CASE OrderClasses
  <2>1. phase = "ordering" /\ phase' \in {"ordering", "failed"}
    BY <1>5 DEF OrderClasses, Fail
  <2>2. CASE phase' = "ordering"
    <3>1. /\ \A i \in DOMAIN class_objects :
               dependencies(class_objects[i], CustomTypes) \subseteq Keys(class_objects)
          /\ class_objects' = dependency_order_class_objects(class_objects, CustomTypes)
          /\ new_objects' = class_objects /\ spec_object' = spec_object
      BY <1>5, <2>2 DEF OrderClasses, Fail
    <3>2. Dict(class_objects)
      BY <2>1 DEF CompilerInv, Compiled, ClassesOf, Reordered
    <3>3. CustomTypes' = CustomTypes
      BY <3>1 DEF CustomTypes
    <3> QED
      BY <2>2, <3>1, <3>2, <3>3 DEF Passed
  <2>3. CASE phase' = "failed"
    BY <2>3 DEF Passed
  <2> QED
    BY <2>1, <2>2, <2>3
<1>6. CASE WriteSpec
  <2>1. /\ phase = "ordering" /\ phase' \in {"written", "failed"} /\ new_objects = class_objects
        /\ UNCHANGED <<new_objects, class_objects, spec_object>>
    BY <1>6 DEF WriteSpec, Fail
  <2> QED
    BY <2>1 DEF Passed, CustomTypes
<1>7. CASE UNCHANGED <<parser, builder>>
  <2>1. UNCHANGED <<phase, new_objects, class_objects, spec_object>>
    BY <1>7 DEF builder
  <2> QED
    BY <2>1 DEF Passed, CustomTypes
<1> QED
  BY <1>1, <1>2, <1>3, <1>4, <1>5, <1>6, <1>7 DEF BuildNext

LEMMA FollowIs ==
  ASSUME CompilerInv, Passed
  PROVE  ClassesFollow
<1> SUFFICES ASSUME phase = "written", Unentangled(class_objects, CustomTypes),
                    NEW item \in ToSet(class_objects), NEW dep \in dependencies(item, CustomTypes),
                    dep # item.name
             PROVE  Ahead(class_objects, dep, item.name)
  BY DEF ClassesFollow
<1> DEFINE d == class_objects
           T == CustomTypes
<1>1. PICK i \in DOMAIN d : item = d[i]
  BY DEF ToSet
<1>2. Dict(d)
  BY DEF CompilerInv, Compiled, ClassesOf, Reordered
<1>3. new_objects = d /\ d # <<>>
  BY <1>1 DEF Passed
<1>4. /\ \A j \in DOMAIN d : dependencies(d[j], T) \subseteq Keys(d)
      /\ d = dependency_order_class_objects(d, T)
  BY <1>3 DEF Passed
<1>5. Unentangled(d, T) /\ dep \in dependencies(d[i], T) /\ dep # d[i].name
  BY <1>1
<1> HIDE DEF d, T
<1>6. Ahead(d, dep, d[i].name)
  BY <1>1, <1>2, <1>4, <1>5, SettledIsOrdered
<1> QED
  BY <1>1, <1>6 DEF d

(* In a written module, unless classes depend on each other in a circle,   *)
(* every class stands behind the classes it depends on, however the        *)
(* documents and the forks arranged them.                                  *)
THEOREM ClassesFollowTheirs == BuildSpecification => []ClassesFollow
<1>1. BuildInit => Passed
  BY PassedBegins
<1>2. CompilerInv /\ Passed /\ [BuildNext]_<<parser, builder>> => Passed'
  BY PassedKeeps
<1>3. CompilerInv /\ Passed => ClassesFollow
  BY FollowIs
<1> QED
  BY <1>1, <1>2, <1>3, CompilerInvariant, PTL DEF BuildSpecification
-----------------------------------------------------------------------------
(* The rows of all documents, combined. *)

(* The constants and types of the combination come from rows, each of them *)
(* from the last row of its name, and are in the order of their first rows. *)
LEMMA RowsCombined ==
  ASSUME CompilerInv, phase = "written"
  PROVE  LET D == Ranked(spec_object)
         IN /\ \A t \in DOMAIN Rank : \A n \in Keys(D[t]) :
                 \E r \in Rows : TheRow(r).name = n /\ Comes(D, t, n, TheRow(r))
            /\ \A r \in Rows : \E t \in DOMAIN Rank : TheRow(r).name \in Keys(D[t])
            /\ \A t \in DOMAIN Rank : \A a, b :
                 /\ Sole(D, t, a) /\ Sole(D, t, b)
                 /\ \E q \in Rows : /\ TheRow(q).name = a
                                    /\ \A r \in Rows : TheRow(r).name = b => ReadBefore(q, r)
                 => Ahead(D[t], a, b)
            /\ \A n \in Keys(D["preset_vars"]) : Get(D["preset_vars"], n).text = Yaml[n]
<1> DEFINE D == Ranked(spec_object)
           N == Len(all_specs)
           doc(i) == source_files[i].elements
           E(i) == Ranked(all_specs[i])
           P(i) == RowPlaces(doc(i))
<1>1. N \in Nat /\ Files = 1..N /\ \A i \in 1..N : Placed(doc(i), P(i), E(i))
  BY SourcesAre DEF CompilerInv, ReadFiles, SpecRead, Files
<1>2. ASSUME NEW t \in DOMAIN Rank PROVE CombinedSection(D[t], all_specs, t, N)
  <2>1. t \in Sections \ {"protocols"}
    BY DEF Rank, Sections
  <2> QED
    BY <2>1 DEF CompilerInv, Compiled, Combined, Ranked
<1>3. /\ \A i : DOMAIN E(i) = DOMAIN Rank /\ \A t \in DOMAIN Rank : E(i)[t] = all_specs[i][t]
      /\ DOMAIN D = DOMAIN Rank /\ "preset_vars" \in DOMAIN Rank
  BY DEF Ranked, Rank
<1>4. ASSUME NEW i \in 1..N, NEW p \in KeptIn(doc(i), P(i))
      PROVE  <<i, p>> \in Rows /\ TheRow(<<i, p>>) = RowAt(doc(i), p)
  BY <1>1 DEF Rows, KeptRows, KeptIn, TheRow
<1>5. ASSUME NEW r \in Rows
      PROVE  \E i \in 1..N : \E p \in KeptIn(doc(i), P(i)) : r = <<i, p>> /\ TheRow(r) = RowAt(doc(i), p)
  BY <1>1 DEF Rows, KeptRows, KeptIn, TheRow
<1> HIDE DEF N, D, E, P, doc
<1>6. ASSUME NEW t \in DOMAIN Rank, NEW n \in Keys(D[t])
      PROVE  \E r \in Rows : TheRow(r).name = n /\ Comes(D, t, n, TheRow(r))
  <2>1. PICK i \in 1..N : n \in Keys(E(i)[t]) /\ Get(D[t], n) = Get(E(i)[t], n)
    BY <1>2, <1>3, <1>6 DEF CombinedSection
  <2>2. PICK p \in KeptIn(doc(i), P(i)) : RowAt(doc(i), p).name = n /\ Comes(E(i), t, n, RowAt(doc(i), p))
    BY <1>1, <1>3, <2>1 DEF Placed
  <2>3. Comes(D, t, n, RowAt(doc(i), p))
    BY <2>1, <2>2 DEF Comes
  <2> QED
    BY <1>4, <2>2, <2>3
<1>7. ASSUME NEW r \in Rows PROVE \E t \in DOMAIN Rank : TheRow(r).name \in Keys(D[t])
  <2>3. PICK i \in 1..N : \E p \in KeptIn(doc(i), P(i)) : TheRow(r) = RowAt(doc(i), p)
    BY <1>5
  <2>1. PICK p \in KeptIn(doc(i), P(i)) : TheRow(r) = RowAt(doc(i), p)
    BY <2>3
  <2>2. PICK t \in DOMAIN Rank : RowAt(doc(i), p).name \in Keys(E(i)[t])
    BY <1>1, <1>3 DEF Placed
  <2> QED
    BY <1>2, <1>3, <2>1, <2>2 DEF CombinedSection
<1>8. ASSUME NEW t \in DOMAIN Rank, NEW i \in 1..N, NEW n, Sole(D, t, n)
      PROVE  /\ n \in Keys(E(i)[t]) => Sole(E(i), t, n)
             /\ n \in Keys(E(i)[t]) <=> \E p \in KeptIn(doc(i), P(i)) : RowAt(doc(i), p).name = n
  <2>1. \A u \in DOMAIN Rank \ {t} : n \notin Keys(E(i)[u])
    BY <1>2, <1>3, <1>8 DEF Sole, CombinedSection
  <2>2. n \in Keys(E(i)[t]) => \E p \in KeptIn(doc(i), P(i)) : RowAt(doc(i), p).name = n
    BY <1>1, <1>3 DEF Placed
  <2>3. (\E p \in KeptIn(doc(i), P(i)) : RowAt(doc(i), p).name = n) => n \in Keys(E(i)[t])
    BY <1>1, <1>3, <2>1 DEF Placed
  <2> QED
    BY <1>3, <2>1, <2>2, <2>3 DEF Sole
<1>9. ASSUME NEW t \in DOMAIN Rank, NEW a, NEW b, Sole(D, t, a), Sole(D, t, b),
             NEW q \in Rows, TheRow(q).name = a, \A r \in Rows : TheRow(r).name = b => ReadBefore(q, r)
      PROVE  Ahead(D[t], a, b)
  <2>9. PICK i \in 1..N : \E p \in KeptIn(doc(i), P(i)) : q = <<i, p>> /\ RowAt(doc(i), p).name = a
    BY <1>5, <1>9
  <2>1. PICK p \in KeptIn(doc(i), P(i)) : q = <<i, p>> /\ RowAt(doc(i), p).name = a
    BY <2>9
  <2>2. PICK j \in 1..N : FirstIn(all_specs, t, j, a)
    BY <1>2, <1>9 DEF Sole, CombinedSection
  <2>3. PICK k \in 1..N : FirstIn(all_specs, t, k, b)
    BY <1>2, <1>9 DEF Sole, CombinedSection
  <2>4. j <= i
    <3>1. a \in Keys(E(i)[t])
      BY <1>8, <1>9, <2>1
    <3>2. a \in Keys(all_specs[i][t])
      BY <1>3, <3>1
    <3> QED
      BY <1>1, <2>2, <3>2 DEF FirstIn
  <2>5. PICK m \in KeptIn(doc(k), P(k)) : RowAt(doc(k), m).name = b
    <3>1. b \in Keys(E(k)[t])
      BY <1>3, <2>3 DEF FirstIn
    <3> QED
      BY <1>8, <1>9, <3>1
  <2>6. i < k \/ i = k
    <3>1. <<k, m>> \in Rows /\ TheRow(<<k, m>>).name = b
      BY <1>4, <2>5
    <3>2. ReadBefore(q, <<k, m>>)
      BY <1>9, <3>1
    <3> QED
      BY <2>1, <3>2 DEF ReadBefore
  <2>7. CASE j < k
    BY <1>2, <2>2, <2>3, <2>7 DEF CombinedSection
  <2>8. CASE ~ (j < k)
    <3>1. i = k /\ j = k
      BY <1>1, <2>4, <2>6, <2>8
    <3>2. \A z \in KeptIn(doc(i), P(i)) : RowAt(doc(i), z).name = b => Before(p, z)
      <4> SUFFICES ASSUME NEW z \in KeptIn(doc(i), P(i)), RowAt(doc(i), z).name = b PROVE Before(p, z)
        OBVIOUS
      <4>1. <<i, z>> \in Rows /\ TheRow(<<i, z>>).name = b
        BY <1>4
      <4>2. ReadBefore(q, <<i, z>>)
        BY <1>9, <4>1
      <4> QED
        BY <1>1, <2>1, <4>2 DEF ReadBefore
    <3>3. ReadFirst(doc(i), P(i), a, b)
      BY <2>1, <3>2 DEF ReadFirst
    <3>4. Sole(E(i), t, a) /\ Sole(E(i), t, b)
      BY <1>3, <1>8, <1>9, <2>2, <2>3, <3>1 DEF FirstIn
    <3>5. Ahead(E(i)[t], a, b)
      BY <1>1, <1>3, <3>3, <3>4 DEF Placed
    <3> QED
      BY <1>2, <1>3, <2>2, <2>3, <3>1, <3>5 DEF CombinedSection
  <2> QED
    BY <2>7, <2>8
<1>10. ASSUME NEW n \in Keys(D["preset_vars"]) PROVE Get(D["preset_vars"], n).text = Yaml[n]
  <2>1. PICK i \in 1..N : n \in Keys(E(i)["preset_vars"])
                          /\ Get(D["preset_vars"], n) = Get(E(i)["preset_vars"], n)
    BY <1>2, <1>3, <1>10 DEF CombinedSection
  <2> QED
    BY <1>1, <2>1 DEF Placed
<1> QED
  BY <1>6, <1>7, <1>9, <1>10 DEF D
(* A constant or type that needs another one stands behind it, whatever    *)
(* documents declare and redefine the two.                                 *)
LEMMA RowsSorted ==
  ASSUME CompilerInv, phase = "written", RowsInOrder, NamesApart,
         "CURDLEPROOFS_CRS" \in Keys(spec_object["constant_vars"]) => {"curdleproofs", "json"} \subseteq Library,
         NEW t \in DOMAIN Rank, NEW n \in Keys(spec_object[t]), NEW m \in Get(spec_object[t], n).mentions
  PROVE  \/ m \in Library
         \/ \E u \in DOMAIN Rank : Rank[u] < Rank[t] /\ m \in Keys(spec_object[u])
         \/ Ahead(spec_object[t], m, n)
<1> DEFINE D == Ranked(spec_object)
<1>1. DOMAIN D = DOMAIN Rank /\ \A u \in DOMAIN Rank : D[u] = spec_object[u]
  BY DEF Ranked
<1>2. \A u, w \in DOMAIN Rank : u # w => Keys(D[u]) \cap Keys(D[w]) = {}
  <2>1. DOMAIN Rank \subseteq Sections /\ "func_dep_presets" \notin DOMAIN Rank
    BY DEF Rank, Sections
  <2>2. \A u, w \in DOMAIN Rank : {u, w} # {"preset_vars", "func_dep_presets"}
    BY <2>1
  <2> QED
    BY <1>1, <2>1, <2>2 DEF NamesApart
<1>3. /\ \A r \in Rows : \E u \in DOMAIN Rank : TheRow(r).name \in Keys(D[u])
      /\ \E r \in Rows : TheRow(r).name = n /\ Comes(D, t, n, TheRow(r))
      /\ \A u \in DOMAIN Rank : \A a, b :
           /\ Sole(D, u, a) /\ Sole(D, u, b)
           /\ \E q \in Rows : /\ TheRow(q).name = a
                              /\ \A r \in Rows : TheRow(r).name = b => ReadBefore(q, r)
           => Ahead(D[u], a, b)
  BY <1>1, RowsCombined
<1>4. NamesOfRows = UNION {Keys(D[u]) : u \in DOMAIN Rank}
  BY <1>1 DEF NamesOfRows
<1>5. ASSUME NEW u \in DOMAIN Rank, NEW k \in Keys(D[u]) PROVE RankOf(k) = Rank[u] /\ Sole(D, u, k)
  <2>1. \A w \in DOMAIN Rank : k \in Keys(spec_object[w]) <=> w = u
    BY <1>1, <1>2, <1>5
  <2>2. (CHOOSE w \in DOMAIN Rank : k \in Keys(spec_object[w])) = u
    BY <2>1
  <2> QED
    BY <1>1, <2>1, <2>2 DEF RankOf, Sole
<1>6. \A u, w \in DOMAIN Rank : Rank[u] = Rank[w] => u = w
  BY DEF Rank
<1> HIDE DEF D
<1>7. PICK r \in Rows : TheRow(r).name = n /\ Comes(D, t, n, TheRow(r))
  BY <1>3
<1>8. CASE Get(D[t], n).mentions = {"curdleproofs", "json"} /\ t = "constant_vars" /\ n = "CURDLEPROOFS_CRS"
  BY <1>1, <1>8
<1>9. CASE Get(D[t], n).mentions = Needs(TheRow(r)) /\ m \notin Library
  <2>1. /\ m \in NamesOfRows
        /\ \/ RankOf(m) < RankOf(n)
           \/ /\ RankOf(m) = RankOf(n)
              /\ \E q \in Rows : /\ TheRow(q).name = m
                                 /\ \A z \in Rows : TheRow(z).name = n => ReadBefore(q, z)
    BY <1>1, <1>7, <1>9 DEF RowsInOrder
  <2>2. PICK u \in DOMAIN Rank : m \in Keys(D[u])
    BY <1>4, <2>1
  <2>3. RankOf(m) = Rank[u] /\ Sole(D, u, m) /\ RankOf(n) = Rank[t] /\ Sole(D, t, n)
    BY <1>1, <1>5, <2>2
  <2>4. CASE Rank[u] < Rank[t]
    BY <1>1, <2>2, <2>4
  <2>5. CASE ~ (Rank[u] < Rank[t])
    <3>1. u = t /\ \E q \in Rows : /\ TheRow(q).name = m
                                   /\ \A z \in Rows : TheRow(z).name = n => ReadBefore(q, z)
      BY <1>6, <2>1, <2>3, <2>5
    <3>2. Ahead(D[t], m, n)
      BY <1>3, <2>3, <3>1
    <3> QED
      BY <1>1, <3>2
  <2> QED
    BY <2>4, <2>5
<1>10. \/ Get(D[t], n).mentions = Needs(TheRow(r))
       \/ Get(D[t], n).mentions = {"curdleproofs", "json"} /\ t = "constant_vars" /\ n = "CURDLEPROOFS_CRS"
  BY <1>7 DEF Comes
<1> QED
  BY <1>8, <1>9, <1>10

-----------------------------------------------------------------------------
(* What the builders write can be executed. *)

LEMMA EnginePieces ==
  ASSUME NEW needs, needs \cap {"NoopExecutionEngine", "EXECUTION_ENGINE"} = {}
  PROVE  Sorted(Engine(needs)) /\ Keys(Engine(needs)) = {"NoopExecutionEngine", "EXECUTION_ENGINE"}
<1> DEFINE p == Engine(needs)
           A == {"ExecutionEngine", "ExecutionPayload", "Hash32", "Optional", "PayloadAttributes", "PayloadId",
                 "GetPayloadResponse", "NewPayloadRequest"} \cup needs
<1>1. DOMAIN p = {1, 2} /\ p[1].name = "NoopExecutionEngine" /\ p[1].needs = A /\ p[2].name = "EXECUTION_ENGINE"
  BY DEF Engine, Piece
<1>2. "NoopExecutionEngine" \notin A /\ "EXECUTION_ENGINE" \notin A
  OBVIOUS
<1>3. p[2].needs = {"NoopExecutionEngine"}
  BY DEF Engine, Piece
<1> HIDE DEF p, A
<1>4. \A i, j \in DOMAIN p : p[j].name \in p[i].needs => j < i
  BY <1>1, <1>2, <1>3
<1>5. Sorted(p)
  BY <1>4 DEF Sorted
<1>6. Keys(p) = {"NoopExecutionEngine", "EXECUTION_ENGINE"}
  BY <1>1 DEF Keys
<1> QED
  BY <1>5, <1>6 DEF p

LEMMA GindicesAre ==
  /\ \A a, x : a \in Gindices =>
       LET d == GeneralizedIndices(<< <<a, x>> >>)
       IN \A i \in DOMAIN d : d[i].name \in Gindices /\ d[i].def.mentions = {"GeneralizedIndex"}
  /\ \A a, x, b, y, c, z : {a, b, c} \subseteq Gindices =>
       LET d == GeneralizedIndices(<< <<a, x>>, <<b, y>>, <<c, z>> >>)
       IN \A i \in DOMAIN d : d[i].name \in Gindices /\ d[i].def.mentions = {"GeneralizedIndex"}
<1>1. ASSUME NEW a \in Gindices, NEW x
      PROVE  LET d == GeneralizedIndices(<< <<a, x>> >>)
             IN \A i \in DOMAIN d : d[i].name \in Gindices /\ d[i].def.mentions = {"GeneralizedIndex"}
  <2> DEFINE d == GeneralizedIndices(<< <<a, x>> >>)
  <2>1. /\ DOMAIN d = {1} /\ d[1].name = a
        /\ \A i \in DOMAIN d : d[i].def.mentions = {"GeneralizedIndex"}
    BY DEF GeneralizedIndices
  <2> QED
    BY <2>1
<1>2. ASSUME NEW a \in Gindices, NEW x, NEW b \in Gindices, NEW y, NEW c \in Gindices, NEW z
      PROVE  LET d == GeneralizedIndices(<< <<a, x>>, <<b, y>>, <<c, z>> >>)
             IN \A i \in DOMAIN d : d[i].name \in Gindices /\ d[i].def.mentions = {"GeneralizedIndex"}
  <2> DEFINE d == GeneralizedIndices(<< <<a, x>>, <<b, y>>, <<c, z>> >>)
  <2>1. /\ DOMAIN d = {1, 2, 3} /\ d[1].name = a /\ d[2].name = b /\ d[3].name = c
        /\ \A i \in DOMAIN d : d[i].def.mentions = {"GeneralizedIndex"}
    BY DEF GeneralizedIndices
  <2> HIDE DEF d
  <2>2. \A i \in DOMAIN d : d[i].name \in Gindices /\ d[i].def.mentions = {"GeneralizedIndex"}
    BY <2>1
  <2> QED
    BY <2>2 DEF d
<1> QED
  BY <1>1, <1>2

LEMMA FromPresetIs == \A name : Keys(FromPreset(name)) = {name}
<1> SUFFICES ASSUME NEW name PROVE Keys(FromPreset(name)) = {name}
  OBVIOUS
<1>1. DOMAIN FromPreset(name) = {1} /\ FromPreset(name)[1].name = name
  BY DEF FromPreset
<1> QED
  BY <1>1 DEF Keys

LEMMA AltairPieces == Pieced(AltairSpecBuilder)
<1>1. /\ AltairSpecBuilder.execution_engine_cls = <<>>
      /\ AltairSpecBuilder.classes = <<>>
      /\ AltairSpecBuilder.hardcoded_func_dep_presets = <<>>
  BY DEF AltairSpecBuilder, BaseSpecBuilder
<1>2. AltairSpecBuilder.sundry_functions
         = << Piece("get_generalized_index", {"Any", "PyUnion", "SSZVariableName", "GeneralizedIndex"}),
              Piece("compute_merkle_proof", {"SSZObject", "GeneralizedIndex", "Bytes32"}) >>
  BY DEF AltairSpecBuilder, BaseSpecBuilder
<1>3. Keys(AltairSpecBuilder.sundry_functions) = {"get_generalized_index", "compute_merkle_proof"}
      /\ Wants(AltairSpecBuilder.sundry_functions) = {"Any", "PyUnion", "SSZVariableName", "GeneralizedIndex", "SSZObject", "Bytes32"}
  BY <1>2, PairIs
<1>4. Sorted(AltairSpecBuilder.sundry_functions)
  BY <1>3, ApartSorted
<1>5. AltairSpecBuilder.hardcoded_ssz_dep_constants
         = GeneralizedIndices(<< <<"FINALIZED_ROOT_GINDEX", "105">>, <<"CURRENT_SYNC_COMMITTEE_GINDEX", "54">>, <<"NEXT_SYNC_COMMITTEE_GINDEX", "55">> >>)
  BY DEF AltairSpecBuilder, BaseSpecBuilder
<1>6. \A i \in DOMAIN AltairSpecBuilder.hardcoded_ssz_dep_constants :
        /\ AltairSpecBuilder.hardcoded_ssz_dep_constants[i].name \in Gindices
        /\ AltairSpecBuilder.hardcoded_ssz_dep_constants[i].def.mentions = {"GeneralizedIndex"}
  <2>1. {"FINALIZED_ROOT_GINDEX", "CURRENT_SYNC_COMMITTEE_GINDEX", "NEXT_SYNC_COMMITTEE_GINDEX"} \subseteq Gindices
    BY DEF Gindices
  <2> QED
    BY <1>5, <2>1, GindicesAre
<1> QED
  BY <1>1, <1>3, <1>4, <1>6, NoPieces DEF Pieced, Reserved, Gindices, ProofDepths

LEMMA CapellaPieces == Pieced(CapellaSpecBuilder)
<1>1. /\ CapellaSpecBuilder.sundry_functions = <<>>
      /\ CapellaSpecBuilder.execution_engine_cls = <<>>
      /\ CapellaSpecBuilder.classes = <<>>
      /\ CapellaSpecBuilder.hardcoded_func_dep_presets = <<>>
  BY DEF CapellaSpecBuilder, BaseSpecBuilder
<1>2. CapellaSpecBuilder.hardcoded_ssz_dep_constants
         = GeneralizedIndices(<< <<"EXECUTION_PAYLOAD_GINDEX", "25">> >>)
  BY DEF CapellaSpecBuilder, BaseSpecBuilder
<1>3. \A i \in DOMAIN CapellaSpecBuilder.hardcoded_ssz_dep_constants :
        /\ CapellaSpecBuilder.hardcoded_ssz_dep_constants[i].name \in Gindices
        /\ CapellaSpecBuilder.hardcoded_ssz_dep_constants[i].def.mentions = {"GeneralizedIndex"}
  <2>1. {"EXECUTION_PAYLOAD_GINDEX"} \subseteq Gindices
    BY DEF Gindices
  <2> QED
    BY <1>2, <2>1, GindicesAre
<1> QED
  BY <1>1, <1>3, NoPieces DEF Pieced, Reserved, Gindices, ProofDepths

LEMMA DenebPieces == Pieced(DenebSpecBuilder)
<1>1. /\ DenebSpecBuilder.hardcoded_ssz_dep_constants = <<>>
  BY DEF DenebSpecBuilder, BaseSpecBuilder
<1>2. DenebSpecBuilder.sundry_functions
         = << Piece("retrieve_blobs_and_proofs", {"Root", "Tuple", "Sequence", "Blob", "KZGProof"}) >>
  BY DEF DenebSpecBuilder, BaseSpecBuilder
<1>3. Keys(DenebSpecBuilder.sundry_functions) = {"retrieve_blobs_and_proofs"}
      /\ Wants(DenebSpecBuilder.sundry_functions) = {"Root", "Tuple", "Sequence", "Blob", "KZGProof"}
  BY <1>2, OnePieceIs
<1>4. DenebSpecBuilder.classes
         = << Piece("BLSFieldElement", {"bls"}),
              Piece("Polynomial", {"Optional", "Sequence", "BLSFieldElement"}) >>
  BY DEF DenebSpecBuilder, BaseSpecBuilder
<1>5. Keys(DenebSpecBuilder.classes) = {"BLSFieldElement", "Polynomial"}
      /\ Wants(DenebSpecBuilder.classes) = {"bls", "Optional", "Sequence", "BLSFieldElement"}
  BY <1>4, PairIs
<1>6. DenebSpecBuilder.execution_engine_cls = Engine({"Root"})
  BY DEF DenebSpecBuilder, BaseSpecBuilder
<1>7. /\ Sorted(DenebSpecBuilder.execution_engine_cls)
      /\ Keys(DenebSpecBuilder.execution_engine_cls) = {"NoopExecutionEngine", "EXECUTION_ENGINE"}
  BY <1>6, EnginePieces
<1>8. Sorted(DenebSpecBuilder.sundry_functions)
  BY <1>3, ApartSorted
<1>9. Keys(DenebSpecBuilder.hardcoded_func_dep_presets) = {"KZG_COMMITMENT_INCLUSION_PROOF_DEPTH"}
  BY FromPresetIs DEF DenebSpecBuilder, BaseSpecBuilder
<1> QED
  BY <1>1, <1>3, <1>5, <1>7, <1>8, <1>9, NoPieces DEF Pieced, Reserved, Gindices, ProofDepths

LEMMA ElectraPieces == Pieced(ElectraSpecBuilder)
<1>1. /\ ElectraSpecBuilder.sundry_functions = <<>>
      /\ ElectraSpecBuilder.classes = <<>>
      /\ ElectraSpecBuilder.hardcoded_func_dep_presets = <<>>
  BY DEF ElectraSpecBuilder, BaseSpecBuilder
<1>2. ElectraSpecBuilder.execution_engine_cls = Engine({"Root", "Sequence"})
  BY DEF ElectraSpecBuilder, BaseSpecBuilder
<1>3. /\ Sorted(ElectraSpecBuilder.execution_engine_cls)
      /\ Keys(ElectraSpecBuilder.execution_engine_cls) = {"NoopExecutionEngine", "EXECUTION_ENGINE"}
  BY <1>2, EnginePieces
<1>4. ElectraSpecBuilder.hardcoded_ssz_dep_constants
         = GeneralizedIndices(<< <<"FINALIZED_ROOT_GINDEX_ELECTRA", "169">>, <<"CURRENT_SYNC_COMMITTEE_GINDEX_ELECTRA", "86">>, <<"NEXT_SYNC_COMMITTEE_GINDEX_ELECTRA", "87">> >>)
  BY DEF ElectraSpecBuilder, BaseSpecBuilder
<1>5. \A i \in DOMAIN ElectraSpecBuilder.hardcoded_ssz_dep_constants :
        /\ ElectraSpecBuilder.hardcoded_ssz_dep_constants[i].name \in Gindices
        /\ ElectraSpecBuilder.hardcoded_ssz_dep_constants[i].def.mentions = {"GeneralizedIndex"}
  <2>1. {"FINALIZED_ROOT_GINDEX_ELECTRA", "CURRENT_SYNC_COMMITTEE_GINDEX_ELECTRA", "NEXT_SYNC_COMMITTEE_GINDEX_ELECTRA"} \subseteq Gindices
    BY DEF Gindices
  <2> QED
    BY <1>4, <2>1, GindicesAre
<1> QED
  BY <1>1, <1>3, <1>5, NoPieces DEF Pieced, Reserved, Gindices, ProofDepths

LEMMA EIP6800Pieces == Pieced(EIP6800SpecBuilder)
<1>1. /\ EIP6800SpecBuilder.sundry_functions = <<>>
      /\ EIP6800SpecBuilder.execution_engine_cls = <<>>
      /\ EIP6800SpecBuilder.classes = <<>>
      /\ EIP6800SpecBuilder.hardcoded_ssz_dep_constants = <<>>
      /\ EIP6800SpecBuilder.hardcoded_func_dep_presets = <<>>
  BY DEF EIP6800SpecBuilder, BaseSpecBuilder
<1> QED
  BY <1>1, NoPieces DEF Pieced, Reserved, Gindices, ProofDepths

LEMMA EIP7441Pieces == Pieced(EIP7441SpecBuilder)
<1>1. /\ EIP7441SpecBuilder.sundry_functions = <<>>
      /\ EIP7441SpecBuilder.execution_engine_cls = <<>>
      /\ EIP7441SpecBuilder.classes = <<>>
      /\ EIP7441SpecBuilder.hardcoded_func_dep_presets = <<>>
  BY DEF EIP7441SpecBuilder, BaseSpecBuilder
<1>2. EIP7441SpecBuilder.hardcoded_ssz_dep_constants
         = GeneralizedIndices(<< <<"EXECUTION_PAYLOAD_GINDEX", "41">> >>)
  BY DEF EIP7441SpecBuilder, BaseSpecBuilder
<1>3. \A i \in DOMAIN EIP7441SpecBuilder.hardcoded_ssz_dep_constants :
        /\ EIP7441SpecBuilder.hardcoded_ssz_dep_constants[i].name \in Gindices
        /\ EIP7441SpecBuilder.hardcoded_ssz_dep_constants[i].def.mentions = {"GeneralizedIndex"}
  <2>1. {"EXECUTION_PAYLOAD_GINDEX"} \subseteq Gindices
    BY DEF Gindices
  <2> QED
    BY <1>2, <2>1, GindicesAre
<1> QED
  BY <1>1, <1>3, NoPieces DEF Pieced, Reserved, Gindices, ProofDepths

LEMMA EIP7732Pieces == Pieced(EIP7732SpecBuilder)
<1>1. /\ EIP7732SpecBuilder.execution_engine_cls = <<>>
      /\ EIP7732SpecBuilder.classes = <<>>
      /\ EIP7732SpecBuilder.hardcoded_ssz_dep_constants = <<>>
      /\ EIP7732SpecBuilder.hardcoded_func_dep_presets = <<>>
  BY DEF EIP7732SpecBuilder, BaseSpecBuilder
<1>2. EIP7732SpecBuilder.sundry_functions
         = << Piece("concat_generalized_indices", {"GeneralizedIndex"}) >>
  BY DEF EIP7732SpecBuilder, BaseSpecBuilder
<1>3. Keys(EIP7732SpecBuilder.sundry_functions) = {"concat_generalized_indices"}
      /\ Wants(EIP7732SpecBuilder.sundry_functions) = {"GeneralizedIndex"}
  BY <1>2, OnePieceIs
<1>4. Sorted(EIP7732SpecBuilder.sundry_functions)
  BY <1>3, ApartSorted
<1> QED
  BY <1>1, <1>3, <1>4, NoPieces DEF Pieced, Reserved, Gindices, ProofDepths

LEMMA EIP7805Pieces == Pieced(EIP7805SpecBuilder)
<1>1. /\ EIP7805SpecBuilder.sundry_functions = <<>>
      /\ EIP7805SpecBuilder.classes = <<>>
      /\ EIP7805SpecBuilder.hardcoded_ssz_dep_constants = <<>>
      /\ EIP7805SpecBuilder.hardcoded_func_dep_presets = <<>>
  BY DEF EIP7805SpecBuilder, BaseSpecBuilder
<1>2. EIP7805SpecBuilder.execution_engine_cls = Engine({"Root", "Sequence", "Transaction"})
  BY DEF EIP7805SpecBuilder, BaseSpecBuilder
<1>3. /\ Sorted(EIP7805SpecBuilder.execution_engine_cls)
      /\ Keys(EIP7805SpecBuilder.execution_engine_cls) = {"NoopExecutionEngine", "EXECUTION_ENGINE"}
  BY <1>2, EnginePieces
<1> QED
  BY <1>1, <1>3, NoPieces DEF Pieced, Reserved, Gindices, ProofDepths

LEMMA BellatrixPieces == Pieced(BellatrixSpecBuilder)
<1> DEFINE p == BellatrixSpecBuilder.sundry_functions
<1>1. /\ BellatrixSpecBuilder.classes = <<>>
      /\ BellatrixSpecBuilder.hardcoded_ssz_dep_constants = <<>>
      /\ BellatrixSpecBuilder.hardcoded_func_dep_presets = <<>>
  BY DEF BellatrixSpecBuilder, BaseSpecBuilder
<1>2. p = << Piece("ExecutionState", {"Any"}),
             Piece("get_pow_block", {"Bytes32", "Optional", "PowBlock"}),
             Piece("get_execution_state", {"Bytes32", "ExecutionState"}),
             Piece("get_pow_chain_head", {"PowBlock"}),
             Piece("validator_is_connected", {"ValidatorIndex"}) >>
  BY DEF BellatrixSpecBuilder, BaseSpecBuilder
<1>3. /\ DOMAIN p = 1..5
      /\ p[1].name = "ExecutionState" /\ p[2].name = "get_pow_block" /\ p[3].name = "get_execution_state"
      /\ p[4].name = "get_pow_chain_head" /\ p[5].name = "validator_is_connected"
      /\ p[1].needs = {"Any"} /\ p[2].needs = {"Bytes32", "Optional", "PowBlock"}
      /\ p[3].needs = {"Bytes32", "ExecutionState"} /\ p[4].needs = {"PowBlock"} /\ p[5].needs = {"ValidatorIndex"}
  BY <1>2 DEF Piece
<1>4. \A i \in 1..5 : i = 1 \/ i = 2 \/ i = 3 \/ i = 4 \/ i = 5
  OBVIOUS
<1> HIDE DEF p
<1>5. /\ \A i \in DOMAIN p : p[i].needs \subseteq
           {"Any", "Bytes32", "Optional", "PowBlock", "ExecutionState", "ValidatorIndex"}
      /\ \A i \in DOMAIN p : p[i].name \in
           {"ExecutionState", "get_pow_block", "get_execution_state", "get_pow_chain_head", "validator_is_connected"}
      /\ \A i \in DOMAIN p : "ExecutionState" \in p[i].needs => i = 3
      /\ \A i \in DOMAIN p : p[i].name = "ExecutionState" => i = 1
  BY <1>3, <1>4
<1>6. \A i, j \in DOMAIN p : p[j].name \in p[i].needs => i = 3 /\ j = 1
  BY <1>5
<1>7. Sorted(p)
  BY <1>6 DEF Sorted
<1>8. /\ Keys(p) \subseteq {"ExecutionState", "get_pow_block", "get_execution_state", "get_pow_chain_head",
                           "validator_is_connected"}
      /\ Wants(p) \subseteq {"Any", "Bytes32", "Optional", "PowBlock", "ExecutionState", "ValidatorIndex"}
  BY <1>5 DEF Keys, Wants
<1>9. BellatrixSpecBuilder.execution_engine_cls = Engine({})
  BY DEF BellatrixSpecBuilder, BaseSpecBuilder
<1>10. /\ Sorted(BellatrixSpecBuilder.execution_engine_cls)
       /\ Keys(BellatrixSpecBuilder.execution_engine_cls) = {"NoopExecutionEngine", "EXECUTION_ENGINE"}
  BY <1>9, EnginePieces
<1> QED
  BY <1>1, <1>7, <1>8, <1>10, NoPieces DEF Pieced, Reserved, Gindices, ProofDepths, p

LEMMA FuluPieces == Pieced(FuluSpecBuilder)
<1> DEFINE p == FuluSpecBuilder.classes
<1>1. FuluSpecBuilder.execution_engine_cls = <<>> /\ FuluSpecBuilder.hardcoded_ssz_dep_constants = <<>>
  BY DEF FuluSpecBuilder, BaseSpecBuilder
<1>2. FuluSpecBuilder.sundry_functions = << Piece("retrieve_column_sidecars", {"Root", "Sequence", "DataColumnSidecar"}) >>
  BY DEF FuluSpecBuilder, BaseSpecBuilder
<1>3. /\ Keys(FuluSpecBuilder.sundry_functions) = {"retrieve_column_sidecars"}
      /\ Wants(FuluSpecBuilder.sundry_functions) = {"Root", "Sequence", "DataColumnSidecar"}
  BY <1>2, OnePieceIs
<1>4. Sorted(FuluSpecBuilder.sundry_functions)
  BY <1>3, ApartSorted
<1>5. DOMAIN p = {1, 2, 3} /\ p[1].name = "PolynomialCoeff" /\ p[2].name = "Coset" /\ p[3].name = "CosetEvals"
  BY DEF FuluSpecBuilder, BaseSpecBuilder, Piece
<1> HIDE DEF p
<1>6. Keys(p) = {"PolynomialCoeff", "Coset", "CosetEvals"}
  BY <1>5 DEF Keys
<1>7. Keys(FuluSpecBuilder.hardcoded_func_dep_presets) = {"KZG_COMMITMENTS_INCLUSION_PROOF_DEPTH"}
  BY FromPresetIs DEF FuluSpecBuilder, BaseSpecBuilder
<1> QED
  BY <1>1, <1>3, <1>4, <1>6, <1>7, NoPieces DEF Pieced, Reserved, Gindices, ProofDepths, p

LEMMA Phase0Pieces == Pieced(Phase0SpecBuilder)
<1>1. /\ Phase0SpecBuilder.execution_engine_cls = <<>> /\ Phase0SpecBuilder.classes = <<>>
      /\ Phase0SpecBuilder.hardcoded_ssz_dep_constants = <<>>
      /\ Phase0SpecBuilder.hardcoded_func_dep_presets = <<>>
  BY DEF Phase0SpecBuilder, BaseSpecBuilder
<1> DEFINE N == CachedFunctions \cup UncachedFunctions \cup {"get_eth1_data", "cache_this"}
<1>2. N \cap Reserved = {}
  BY DEF CachedFunctions, UncachedFunctions, Reserved, Gindices, ProofDepths
<1>3. Sorted(Phase0SpecBuilder.sundry_functions) /\ Keys(Phase0SpecBuilder.sundry_functions) \subseteq N
  BY Phase0Sundry
<1> HIDE DEF N
<1> QED
  BY <1>1, <1>2, <1>3, NoPieces DEF Pieced

(* Every builder's pieces.                                                 *)
LEMMA AllPieces == \A fork \in Forks : Pieced(spec_builders[fork])
<1>1. /\ spec_builders["phase0"] = Phase0SpecBuilder /\ spec_builders["altair"] = AltairSpecBuilder
      /\ spec_builders["bellatrix"] = BellatrixSpecBuilder /\ spec_builders["capella"] = CapellaSpecBuilder
      /\ spec_builders["deneb"] = DenebSpecBuilder /\ spec_builders["electra"] = ElectraSpecBuilder
      /\ spec_builders["fulu"] = FuluSpecBuilder /\ spec_builders["eip6800"] = EIP6800SpecBuilder
      /\ spec_builders["eip7441"] = EIP7441SpecBuilder /\ spec_builders["eip7732"] = EIP7732SpecBuilder
      /\ spec_builders["eip7805"] = EIP7805SpecBuilder
  BY DEF spec_builders
<1> QED
  BY <1>1, ForksAre, Phase0Pieces, AltairPieces, BellatrixPieces, CapellaPieces, DenebPieces, ElectraPieces, FuluPieces,
     EIP6800Pieces, EIP7441Pieces, EIP7732Pieces, EIP7805Pieces DEF ForkNames

(* The classes that builders write: the later ones build on one of deneb.  *)
LEMMA BuilderClasses ==
  /\ \A fork \in Forks \ {"deneb", "fulu"} : spec_builders[fork].classes = <<>>
  /\ Loads(spec_builders["deneb"].classes, {"bls", "Optional", "Sequence"})
  /\ "BLSFieldElement" \in Keys(spec_builders["deneb"].classes)
  /\ Loads(spec_builders["fulu"].classes, {"Optional", "Sequence", "BLSFieldElement"})
<1>1. /\ spec_builders["phase0"] = Phase0SpecBuilder /\ spec_builders["altair"] = AltairSpecBuilder
      /\ spec_builders["bellatrix"] = BellatrixSpecBuilder /\ spec_builders["capella"] = CapellaSpecBuilder
      /\ spec_builders["deneb"] = DenebSpecBuilder /\ spec_builders["electra"] = ElectraSpecBuilder
      /\ spec_builders["fulu"] = FuluSpecBuilder /\ spec_builders["eip6800"] = EIP6800SpecBuilder
      /\ spec_builders["eip7441"] = EIP7441SpecBuilder /\ spec_builders["eip7732"] = EIP7732SpecBuilder
      /\ spec_builders["eip7805"] = EIP7805SpecBuilder
  BY DEF spec_builders
<1>2. /\ Phase0SpecBuilder.classes = <<>> /\ AltairSpecBuilder.classes = <<>> /\ BellatrixSpecBuilder.classes = <<>>
      /\ CapellaSpecBuilder.classes = <<>> /\ ElectraSpecBuilder.classes = <<>> /\ EIP6800SpecBuilder.classes = <<>>
      /\ EIP7441SpecBuilder.classes = <<>> /\ EIP7732SpecBuilder.classes = <<>> /\ EIP7805SpecBuilder.classes = <<>>
  BY DEF Phase0SpecBuilder, AltairSpecBuilder, BellatrixSpecBuilder, CapellaSpecBuilder, ElectraSpecBuilder,
         EIP6800SpecBuilder, EIP7441SpecBuilder, EIP7732SpecBuilder, EIP7805SpecBuilder, BaseSpecBuilder
<1>3. \A fork \in Forks \ {"deneb", "fulu"} : spec_builders[fork].classes = <<>>
  BY <1>1, <1>2, ForksAre DEF ForkNames
<1>4. Loads(DenebSpecBuilder.classes, {"bls", "Optional", "Sequence"}) /\ "BLSFieldElement" \in Keys(DenebSpecBuilder.classes)
  <2> DEFINE p == DenebSpecBuilder.classes
  <2>1. /\ DOMAIN p = {1, 2} /\ p[1].name = "BLSFieldElement" /\ p[1].needs = {"bls"}
        /\ p[2].needs = {"Optional", "Sequence", "BLSFieldElement"}
    BY DEF DenebSpecBuilder, BaseSpecBuilder, Piece
  <2>2. IsList(p)
    BY DenebIs DEF Builder
  <2> HIDE DEF p
  <2>3. \A i \in DOMAIN p : \A n \in p[i].needs :
          n \in {"bls", "Optional", "Sequence"} \/ (i = 2 /\ n = p[1].name)
    BY <2>1
  <2>4. Loads(p, {"bls", "Optional", "Sequence"})
    BY <2>1, <2>2, <2>3 DEF Loads
  <2> QED
    BY <2>1, <2>4 DEF Keys, p
<1>5. Loads(FuluSpecBuilder.classes, {"Optional", "Sequence", "BLSFieldElement"})
  <2> DEFINE p == FuluSpecBuilder.classes
  <2>1. /\ DOMAIN p = {1, 2, 3} /\ p[1].needs = {"Sequence", "BLSFieldElement"}
        /\ p[2].needs = {"Optional", "Sequence", "BLSFieldElement"}
        /\ p[3].needs = {"Optional", "Sequence", "BLSFieldElement"}
    BY DEF FuluSpecBuilder, BaseSpecBuilder, Piece
  <2>2. IsList(p)
    BY FuluIs DEF Builder
  <2> HIDE DEF p
  <2>3. \A i \in DOMAIN p : p[i].needs \subseteq {"Optional", "Sequence", "BLSFieldElement"}
    BY <2>1
  <2>4. Loads(p, {"Optional", "Sequence", "BLSFieldElement"})
    BY <2>2, <2>3 DEF Loads
  <2> QED
    BY <2>4 DEF p
<1> QED
  BY <1>1, <1>3, <1>4, <1>5

-----------------------------------------------------------------------------
(* The builders of a fork. *)

LEMMA LineageMore ==
  ASSUME NEW prev, NEW p, IsList(p), Lineage(prev, p), prev # "fulu", NEW fork, fork # "phase0",
         prev = "phase0" => fork = "altair", fork \in BlobForks => fork = "deneb" \/ prev \in BlobForks
  PROVE  Lineage(fork, <<fork>> \o p)
<1> DEFINE one == <<fork>>
           q == one \o p
<1>1. one = [i \in 1..1 |-> one[i]] /\ one[1] = fork
  OBVIOUS
<1> HIDE DEF one
<1>2. IsList(one) /\ Len(one) = 1 /\ DOMAIN one = 1..1
  BY <1>1, ListIs
<1>3. Joined(one, p, q)
  BY <1>2, Concatenation
<1> HIDE DEF q
<1>4. /\ 1 \in DOMAIN q /\ q[1] = fork
      /\ \A i \in DOMAIN p : 1 + i \in DOMAIN q /\ q[1 + i] = p[i]
      /\ \A i \in DOMAIN q : i = 1 \/ (i - 1 \in DOMAIN p /\ q[i] = p[i - 1])
  <2>1. /\ \A i \in DOMAIN one : i \in DOMAIN q /\ q[i] = one[i]
        /\ \A i \in DOMAIN p : Len(one) + i \in DOMAIN q /\ q[Len(one) + i] = p[i]
        /\ \A i \in DOMAIN q : i \in DOMAIN one \/ (i - Len(one) \in DOMAIN p /\ i = Len(one) + (i - Len(one)))
    BY <1>3 DEF Joined
  <2>2. ASSUME NEW i \in DOMAIN q, i # 1 PROVE i - 1 \in DOMAIN p /\ q[i] = p[i - 1]
    <3>1. i - 1 \in DOMAIN p /\ i = 1 + (i - 1)
      BY <1>2, <2>1, <2>2
    <3> QED
      BY <1>2, <2>1, <3>1
  <2> QED
    BY <1>1, <1>2, <2>1, <2>2
<1>5. \E i \in DOMAIN q : q[i] = "phase0"
  BY <1>4 DEF Lineage
<1>6. \E i \in DOMAIN q : q[i] = "altair"
  BY <1>4 DEF Lineage
<1>7. fork \in BlobForks => \E i \in DOMAIN q : q[i] = "deneb"
  BY <1>4 DEF Lineage
<1>8. \A i \in DOMAIN q : q[i] = "fulu" => i = 1 /\ fork = "fulu"
  BY <1>4 DEF Lineage
<1>9. Lineage(fork, q)
  BY <1>5, <1>6, <1>7, <1>8 DEF Lineage
<1> QED
  BY <1>9 DEF q, one

LEMMA LineagesAre == \A fork \in Forks : Lineage(fork, collect_prev_forks(fork))
<1> DEFINE Good(fork) == Lineage(fork, collect_prev_forks(fork))
<1>1. Good("phase0")
  <2> DEFINE p == <<"phase0">>
  <2>1. DOMAIN p = {1} /\ p[1] = "phase0"
    OBVIOUS
  <2> HIDE DEF p
  <2>2. Lineage("phase0", p)
    BY <2>1 DEF Lineage, BlobForks
  <2> QED
    BY <2>2, PrevForksRecursion DEF p
<1>2. ASSUME NEW fork \in Forks \ {"phase0"}, NEW prev \in Forks \ {"fulu"}, prev = PREVIOUS_FORK_OF[fork], Good(prev),
             prev = "phase0" => fork = "altair", fork \in BlobForks => fork = "deneb" \/ prev \in BlobForks
      PROVE  Good(fork)
  <2> DEFINE p == collect_prev_forks(prev)
  <2>1. IsList(p) /\ Lineage(prev, p) /\ collect_prev_forks(fork) = <<fork>> \o p
    BY <1>2, PrevForksAre, PrevForksRecursion DEF ForkList
  <2> HIDE DEF p
  <2>2. Lineage(fork, <<fork>> \o p)
    BY <1>2, <2>1, LineageMore
  <2> QED
    BY <2>1, <2>2
<1> HIDE DEF Good
<1>3. Good("altair")
  BY <1>1, <1>2, PreviousForks, ForksAre DEF ForkNames, BlobForks
<1>4. Good("bellatrix")
  BY <1>2, <1>3, PreviousForks, ForksAre DEF ForkNames, BlobForks
<1>5. Good("capella")
  BY <1>2, <1>4, PreviousForks, ForksAre DEF ForkNames, BlobForks
<1>6. Good("deneb")
  BY <1>2, <1>5, PreviousForks, ForksAre DEF ForkNames, BlobForks
<1>7. Good("electra")
  BY <1>2, <1>6, PreviousForks, ForksAre DEF ForkNames, BlobForks
<1>8. Good("fulu") /\ Good("eip7732") /\ Good("eip7805")
  BY <1>2, <1>7, PreviousForks, ForksAre DEF ForkNames, BlobForks
<1>9. Good("eip6800") /\ Good("eip7441")
  BY <1>2, <1>5, <1>6, PreviousForks, ForksAre DEF ForkNames, BlobForks
<1>10. \A fork \in ForkNames : Good(fork)
  BY <1>1, <1>3, <1>4, <1>5, <1>6, <1>7, <1>8, <1>9 DEF ForkNames
<1> QED
  BY <1>10, ForksAre DEF Good

LEMMA BuildersFrom ==
  ASSUME NEW fork \in Forks
  PROVE  \E from : BuiltFrom(builders(fork), from)
<1> DEFINE prev == collect_prev_forks(fork)
           forks == Reverse(prev)
           bs == builders(fork)
           N == Len(prev)
<1>1. IsList(prev) /\ \A i \in DOMAIN prev : prev[i] \in Forks
  BY PrevForksAre DEF ForkList
<1>2. bs = [i \in DOMAIN forks |-> spec_builders[forks[i]]] /\ IsList(bs)
  BY BuilderList DEF builders
<1>3. Lineage(fork, prev)
  BY LineagesAre
<1> HIDE DEF prev, bs
<1>4. N \in Nat /\ DOMAIN prev = 1..N
  BY <1>1, ListIs
<1>5. forks = [i \in 1..N |-> prev[(N - i) + 1]]
  BY DEF Reverse
<1> HIDE DEF N
<1>6. /\ DOMAIN forks = 1..N /\ \A i \in 1..N : forks[i] \in Forks
      /\ \A i \in 1..N : (N - i) + 1 \in 1..N /\ forks[i] = prev[(N - i) + 1] /\ forks[(N - i) + 1] = prev[i]
  <2>1. \A i \in 1..N : (N - i) + 1 \in 1..N /\ (N - ((N - i) + 1)) + 1 = i
    BY <1>4
  <2> QED
    BY <1>1, <1>4, <1>5, <2>1
<1> HIDE DEF forks
<1>7. DOMAIN bs = 1..N /\ \A i \in 1..N : bs[i] = spec_builders[forks[i]]
  BY <1>2, <1>6
<1>8. \E i \in 1..N : forks[i] = "phase0"
  BY <1>3, <1>4, <1>6 DEF Lineage
<1>9. ASSUME NEW i \in 1..N, forks[i] # "phase0" PROVE \E j \in 1..N : forks[j] = "altair"
  <2>1. fork # "phase0"
    BY <1>3, <1>4, <1>6, <1>9 DEF Lineage
  <2> QED
    BY <1>3, <1>4, <1>6, <2>1 DEF Lineage
<1>10. ASSUME NEW i \in 1..N, forks[i] = "fulu" PROVE \E j \in 1..N : j < i /\ forks[j] = "deneb"
  <2>1. (N - i) + 1 = 1 /\ fork = "fulu"
    BY <1>3, <1>4, <1>6, <1>10 DEF Lineage
  <2>2. PICK k \in 1..N : prev[k] = "deneb"
    BY <1>3, <1>4, <2>1 DEF Lineage, BlobForks
  <2>3. forks[(N - k) + 1] = "deneb" /\ (N - k) + 1 \in 1..N
    BY <1>6, <2>2
  <2>4. (N - k) + 1 # i
    BY <1>10, <2>3
  <2> QED
    BY <1>4, <2>1, <2>3, <2>4
<1>11. BuiltFrom(bs, forks)
  BY <1>2, <1>6, <1>7, <1>8, <1>9, <1>10 DEF BuiltFrom
<1> QED
  BY <1>11 DEF bs

(* The pieces of a list of builders, one after the other.                  *)
LEMMA PiecesSet ==
  ASSUME NEW bs, IsList(bs), NEW seqs, seqs = [i \in DOMAIN bs |-> seqs[i]],
         NEW known, \A i \in DOMAIN bs : Loads(seqs[i], known)
  PROVE  /\ Loads(FlattenSeq(seqs), known)
         /\ \A n : n \in Keys(FlattenSeq(seqs)) <=> \E i \in DOMAIN bs : n \in Keys(seqs[i])
<1> DEFINE flat == FlattenSeq(seqs)
           Earlier(i) == {n \in UNION {Keys(seqs[j]) : j \in DOMAIN seqs} :
                            \E j \in DOMAIN seqs : j < i /\ n \in Keys(seqs[j])}
<1>1. IsList(seqs) /\ DOMAIN seqs = DOMAIN bs
  BY StatementsAre
<1>2. ASSUME NEW i \in DOMAIN seqs PROVE Loads(seqs[i], known \cup Earlier(i))
  <2> DEFINE more == known \cup Earlier(i)
  <2>1. Loads(seqs[i], known) /\ known \subseteq more
    BY <1>1
  <2> HIDE DEF more
  <2>2. Loads(seqs[i], more)
    BY <2>1, LoadsWith
  <2> QED
    BY <2>2 DEF more
<1>3. Loads(flat, known) /\ ToSet(flat) = UNION {ToSet(seqs[i]) : i \in DOMAIN seqs}
  BY <1>1, <1>2, FlattenLoads
<1> HIDE DEF flat
<1>4. ASSUME NEW n \in Keys(flat) PROVE \E i \in DOMAIN bs : n \in Keys(seqs[i])
  <2>1. PICK k \in DOMAIN flat : flat[k].name = n
    BY <1>4 DEF Keys
  <2>2. flat[k] \in ToSet(flat)
    BY DEF ToSet
  <2>3. PICK i \in DOMAIN seqs : flat[k] \in ToSet(seqs[i])
    BY <1>3, <2>2
  <2> QED
    BY <1>1, <2>1, <2>3 DEF ToSet, Keys
<1>5. ASSUME NEW i \in DOMAIN bs, NEW n \in Keys(seqs[i]) PROVE n \in Keys(flat)
  <2>1. PICK k \in DOMAIN seqs[i] : seqs[i][k].name = n
    BY <1>5 DEF Keys
  <2>2. seqs[i][k] \in ToSet(seqs[i])
    BY DEF ToSet
  <2>3. seqs[i][k] \in ToSet(flat)
    BY <1>1, <1>3, <2>2
  <2> QED
    BY <2>1, <2>3 DEF ToSet, Keys
<1> QED
  BY <1>3, <1>4, <1>5 DEF flat

(* A list of names needs nothing.                                          *)
LEMMA NamesLoad ==
  ASSUME NEW names, IsList(names)
  PROVE  Loads(Names(names), {}) /\ Keys(Names(names)) = ToSet(names)
<1> DEFINE p == Names(names)
<1>1. IsList(p) /\ DOMAIN p = DOMAIN names
  BY NamesAre DEF Names
<1>2. \A i \in DOMAIN names : p[i].name = names[i] /\ p[i].needs = {}
  BY DEF Names, Statement
<1> HIDE DEF p
<1>3. Loads(p, {}) /\ Keys(p) = ToSet(names)
  BY <1>1, <1>2 DEF Loads, Keys, ToSet
<1> QED
  BY <1>3 DEF p

LEMMA Phase0Imports ==
  {"bls", "Optional", "Sequence", "NamedTuple", "Any"} \subseteq ToSet(spec_builders["phase0"].imports)
<1> DEFINE p == Phase0SpecBuilder.imports
<1>1. /\ 3 \in DOMAIN p /\ 6 \in DOMAIN p /\ 8 \in DOMAIN p /\ 10 \in DOMAIN p /\ 28 \in DOMAIN p
      /\ p[3] = "Any" /\ p[6] = "Sequence" /\ p[8] = "Optional" /\ p[10] = "NamedTuple" /\ p[28] = "bls"
  BY SMTT(60) DEF Phase0SpecBuilder, BaseSpecBuilder
<1>2. spec_builders["phase0"].imports = p
  BY DEF spec_builders
<1> HIDE DEF p
<1>3. {"bls", "Optional", "Sequence", "NamedTuple", "Any"} \subseteq ToSet(p)
  BY <1>1 DEF ToSet
<1> QED
  BY <1>2, <1>3

LEMMA AltairPreparations == "GeneralizedIndex" \in ToSet(spec_builders["altair"].preparations)
<1> DEFINE p == AltairSpecBuilder.preparations
<1>1. 2 \in DOMAIN p /\ p[2] = "GeneralizedIndex"
  BY DEF AltairSpecBuilder, BaseSpecBuilder
<1>2. spec_builders["altair"].preparations = p
  BY DEF spec_builders
<1> HIDE DEF p
<1>3. "GeneralizedIndex" \in ToSet(p)
  BY <1>1 DEF ToSet
<1> QED
  BY <1>2, <1>3

(* What the builders of a fork import.                                     *)
LEMMA ImportsLoad ==
  ASSUME NEW fork \in Forks
  PROVE  LET p == Pieces(fork, LAMBDA b : Names(b.imports))
         IN /\ Loads(p, {}) /\ NoName \notin Keys(p)
            /\ {"bls", "Optional", "Sequence", "NamedTuple", "Any"} \subseteq Keys(p)
<1> DEFINE bs == builders(fork)
           seqs == [i \in DOMAIN bs |-> Names(bs[i].imports)]
<1>1. Pieces(fork, LAMBDA b : Names(b.imports)) = FlattenSeq(seqs)
  BY DEF Pieces
<1>2. IsList(bs) /\ \A i \in DOMAIN bs : IsList(bs[i].imports)
  BY BuilderList DEF Builder
<1>3. PICK from : BuiltFrom(bs, from)
  BY BuildersFrom
<1> HIDE DEF bs
<1>5. seqs = [i \in DOMAIN bs |-> seqs[i]]
      /\ \A i \in DOMAIN bs : Loads(seqs[i], {}) /\ Keys(seqs[i]) = ToSet(bs[i].imports)
  BY <1>2, NamesLoad
<1> HIDE DEF seqs
<1>6. /\ Loads(FlattenSeq(seqs), {})
      /\ \A n : n \in Keys(FlattenSeq(seqs)) <=> \E i \in DOMAIN bs : n \in ToSet(bs[i].imports)
  <2>1. /\ Loads(FlattenSeq(seqs), {})
        /\ \A n : n \in Keys(FlattenSeq(seqs)) <=> \E i \in DOMAIN bs : n \in Keys(seqs[i])
    BY ONLY <1>2, <1>5, PiecesSet
  <2> QED
    BY ONLY <1>5, <2>1
<1>7. \A i \in DOMAIN bs : NoName \notin ToSet(bs[i].imports)
  <2>1. \A f \in Forks : NoName \notin ToSet(spec_builders[f].imports)
    BY NoNameIsNone
  <2> QED
    BY <1>3, <2>1 DEF BuiltFrom
<1>8. \E i \in DOMAIN bs : bs[i] = spec_builders["phase0"]
  BY <1>3 DEF BuiltFrom
<1> QED
  BY <1>1, <1>6, <1>7, <1>8, Phase0Imports

LEMMA PreparationsLoad ==
  ASSUME NEW fork \in Forks
  PROVE  LET p == Pieces(fork, LAMBDA b : Names(b.preparations))
         IN /\ Loads(p, {}) /\ NoName \notin Keys(p)
            /\ (\E i \in DOMAIN builders(fork) : builders(fork)[i] # spec_builders["phase0"])
                 => "GeneralizedIndex" \in Keys(p)
<1> DEFINE bs == builders(fork)
           seqs == [i \in DOMAIN bs |-> Names(bs[i].preparations)]
<1>1. Pieces(fork, LAMBDA b : Names(b.preparations)) = FlattenSeq(seqs)
  BY DEF Pieces
<1>2. IsList(bs) /\ \A i \in DOMAIN bs : IsList(bs[i].preparations)
  BY BuilderList DEF Builder
<1>3. PICK from : BuiltFrom(bs, from)
  BY BuildersFrom
<1> HIDE DEF bs
<1>5. seqs = [i \in DOMAIN bs |-> seqs[i]]
      /\ \A i \in DOMAIN bs : Loads(seqs[i], {}) /\ Keys(seqs[i]) = ToSet(bs[i].preparations)
  BY <1>2, NamesLoad
<1> HIDE DEF seqs
<1>6. /\ Loads(FlattenSeq(seqs), {})
      /\ \A n : n \in Keys(FlattenSeq(seqs)) <=> \E i \in DOMAIN bs : n \in ToSet(bs[i].preparations)
  <2>1. /\ Loads(FlattenSeq(seqs), {})
        /\ \A n : n \in Keys(FlattenSeq(seqs)) <=> \E i \in DOMAIN bs : n \in Keys(seqs[i])
    BY ONLY <1>2, <1>5, PiecesSet
  <2> QED
    BY ONLY <1>5, <2>1
<1>7. \A i \in DOMAIN bs : NoName \notin ToSet(bs[i].preparations)
  <2>1. \A f \in Forks : NoName \notin ToSet(spec_builders[f].preparations)
    BY NoNameIsNone
  <2> QED
    BY <1>3, <2>1 DEF BuiltFrom
<1>8. (\E i \in DOMAIN bs : bs[i] # spec_builders["phase0"]) => \E i \in DOMAIN bs : bs[i] = spec_builders["altair"]
  BY <1>3 DEF BuiltFrom
<1> QED
  BY <1>1, <1>6, <1>7, <1>8, AltairPreparations DEF bs

(* The classes the builders write.                                         *)
LEMMA ClassesLoad ==
  ASSUME NEW fork \in Forks
  PROVE  LET p == Pieces(fork, LAMBDA b : b.classes)
         IN /\ Loads(p, {"bls", "Optional", "Sequence"}) /\ NoName \notin Keys(p)
            /\ Keys(p) \cap Reserved = {}
<1> DEFINE bs == builders(fork)
           seqs == [i \in DOMAIN bs |-> bs[i].classes]
           known == {"bls", "Optional", "Sequence"}
           Earlier(i) == {n \in UNION {Keys(seqs[j]) : j \in DOMAIN seqs} :
                            \E j \in DOMAIN seqs : j < i /\ n \in Keys(seqs[j])}
<1>1. Pieces(fork, LAMBDA b : b.classes) = FlattenSeq(seqs)
  BY DEF Pieces
<1>2. IsList(bs) /\ \A i \in DOMAIN bs : IsList(bs[i].classes)
  BY BuilderList DEF Builder
<1>3. PICK from : BuiltFrom(bs, from)
  BY BuildersFrom
<1> HIDE DEF bs
<1>4. seqs = [i \in DOMAIN bs |-> seqs[i]] /\ \A i \in DOMAIN bs : seqs[i] = bs[i].classes
  OBVIOUS
<1> HIDE DEF seqs
<1>5. IsList(seqs) /\ DOMAIN seqs = DOMAIN bs
  BY <1>2, <1>4, StatementsAre
<1>6. ASSUME NEW i \in DOMAIN seqs PROVE Loads(seqs[i], known \cup Earlier(i))
  <2> DEFINE more == known \cup Earlier(i)
  <2>1. from[i] \in Forks /\ seqs[i] = spec_builders[from[i]].classes
    BY <1>3, <1>4, <1>5 DEF BuiltFrom
  <2>2. CASE from[i] \notin {"deneb", "fulu"}
    <3>1. seqs[i] = <<>>
      BY <2>1, <2>2, BuilderClasses
    <3>2. IsList(seqs[i]) /\ DOMAIN seqs[i] = {}
      BY <3>1, EmptyList, NoPieces
    <3> QED
      BY <3>2 DEF Loads
  <2>3. CASE from[i] = "deneb"
    <3>1. Loads(seqs[i], known) /\ known \subseteq more
      BY <2>1, <2>3, BuilderClasses
    <3> HIDE DEF more, known
    <3>2. Loads(seqs[i], more)
      BY <3>1, LoadsWith
    <3> QED
      BY <3>2 DEF more
  <2>4. CASE from[i] = "fulu"
    <3> DEFINE less == {"Optional", "Sequence", "BLSFieldElement"}
    <3>1. PICK j \in DOMAIN bs : j < i /\ from[j] = "deneb"
      BY <1>3, <1>5, <2>4 DEF BuiltFrom
    <3>2. j \in DOMAIN seqs /\ seqs[j] = spec_builders["deneb"].classes
      BY <1>3, <1>4, <1>5, <3>1 DEF BuiltFrom
    <3>3. "BLSFieldElement" \in Keys(seqs[j])
      BY <3>2, BuilderClasses
    <3>4. "BLSFieldElement" \in Earlier(i)
      BY <3>1, <3>2, <3>3
    <3>5. Loads(seqs[i], less)
      BY <2>1, <2>4, BuilderClasses
    <3> HIDE DEF Earlier
    <3>6. less \subseteq more
      BY <3>4
    <3> HIDE DEF less, more
    <3>7. Loads(seqs[i], more)
      BY <3>5, <3>6, LoadsWith
    <3> QED
      BY <3>7 DEF more
  <2> QED
    BY <2>2, <2>3, <2>4
<1>7. Loads(FlattenSeq(seqs), known)
  <2> HIDE DEF known
  <2> QED
    BY <1>5, <1>6, FlattenLoads
<1>8. \A n : n \in Keys(FlattenSeq(seqs)) <=> \E i \in DOMAIN bs : n \in Keys(seqs[i])
  <2> DEFINE all == UNION {Wants(seqs[i]) : i \in DOMAIN bs}
  <2>1. \A i \in DOMAIN bs : \A k \in DOMAIN seqs[i] : seqs[i][k].needs \subseteq Wants(seqs[i])
    BY DEF Wants
  <2>2. \A i \in DOMAIN bs : \A k \in DOMAIN seqs[i] : seqs[i][k].needs \subseteq all
    BY <2>1
  <2> HIDE DEF all
  <2>3. \A i \in DOMAIN bs : Loads(seqs[i], all)
    BY <1>2, <1>4, <2>2 DEF Loads
  <2> QED
    BY <1>2, <1>4, <2>3, PiecesSet
<1>9. \A i \in DOMAIN bs : NoName \notin Keys(seqs[i]) /\ Keys(seqs[i]) \cap Reserved = {}
  <2>1. \A f \in Forks : NoName \notin Keys(spec_builders[f].classes)
    BY NoNameIsNone
  <2>2. \A f \in Forks : Keys(spec_builders[f].classes) \cap Reserved = {}
    BY AllPieces DEF Pieced
  <2> QED
    BY <1>3, <1>4, <2>1, <2>2 DEF BuiltFrom
<1> QED
  BY <1>1, <1>7, <1>8, <1>9

LEMMA BuiltPieces ==
  ASSUME NEW fork \in Forks, NEW i \in DOMAIN builders(fork)
  PROVE  LET b == builders(fork)[i]
         IN /\ Pieced(b) /\ Builder(b)
            /\ NoName \notin Keys(b.sundry_functions) \cup Keys(b.execution_engine_cls)
                             \cup Keys(b.hardcoded_ssz_dep_constants)
<1>1. PICK from : BuiltFrom(builders(fork), from)
  BY BuildersFrom
<1>2. from[i] \in Forks /\ builders(fork)[i] = spec_builders[from[i]]
  BY <1>1 DEF BuiltFrom
<1>3. Builder(builders(fork)[i])
  BY BuilderList
<1>4. Pieced(spec_builders[from[i]])
  BY <1>2, AllPieces
<1>5. LET b == spec_builders[from[i]]
      IN NoName \notin Keys(b.sundry_functions) \cup Keys(b.execution_engine_cls) \cup Keys(b.hardcoded_ssz_dep_constants)
  BY <1>2, NoNameIsNone
<1> QED
  BY <1>2, <1>3, <1>4, <1>5

(* The constants that builders write are of a type that is prepared.       *)
LEMMA GindicesFrom ==
  ASSUME NEW fork \in Forks, NEW n \in Keys(hardcoded_ssz_dep_constants(fork))
  PROVE  /\ n \in Gindices /\ n # NoName
         /\ Get(hardcoded_ssz_dep_constants(fork), n).mentions = {"GeneralizedIndex"}
         /\ "GeneralizedIndex" \in Keys(Pieces(fork, LAMBDA b : Names(b.preparations)))
<1> DEFINE d == hardcoded_ssz_dep_constants(fork)
<1>1. PICK i \in DOMAIN builders(fork) :
        LET e == builders(fork)[i].hardcoded_ssz_dep_constants IN n \in Keys(e) /\ Get(d, n) = Get(e, n)
  BY ConstantsAre
<1> DEFINE b == builders(fork)[i]
           e == b.hardcoded_ssz_dep_constants
<1>2. Pieced(b) /\ Builder(b) /\ NoName \notin Keys(e)
  BY BuiltPieces
<1>3. Dict(e)
  BY <1>2 DEF Builder
<1>4. b # spec_builders["phase0"]
  <2>1. spec_builders["phase0"].hardcoded_ssz_dep_constants = <<>>
    BY DEF spec_builders, Phase0SpecBuilder, BaseSpecBuilder
  <2> QED
    BY <1>1, <2>1, EmptyDict
<1>5. "GeneralizedIndex" \in Keys(Pieces(fork, LAMBDA c : Names(c.preparations)))
  BY <1>4, PreparationsLoad
<1>6. \A k \in DOMAIN e : e[k].name \in Gindices /\ e[k].def.mentions = {"GeneralizedIndex"}
  BY <1>2 DEF Pieced
<1>7. n \in Keys(e) /\ Get(d, n) = Get(e, n)
  BY <1>1
<1> HIDE DEF d, e, b
<1>8. PICK k \in DOMAIN e : e[k].name = n /\ Get(e, n) = e[k].def
  BY <1>3, <1>7, GetIs
<1>9. n \in Gindices /\ n # NoName /\ Get(d, n).mentions = {"GeneralizedIndex"}
  BY <1>2, <1>6, <1>7, <1>8
<1> QED
  BY <1>5, <1>9 DEF d

LEMMA DepthsFrom ==
  ASSUME NEW fork \in Forks
  PROVE  Keys(hardcoded_func_dep_presets(fork)) \subseteq ProofDepths
<1> SUFFICES ASSUME NEW n \in Keys(hardcoded_func_dep_presets(fork)) PROVE n \in ProofDepths
  OBVIOUS
<1>1. PICK i \in DOMAIN builders(fork) : n \in Keys(builders(fork)[i].hardcoded_func_dep_presets)
  BY PresetsAre
<1>2. Pieced(builders(fork)[i])
  BY BuiltPieces
<1> QED
  BY <1>1, <1>2 DEF Pieced

(* The constants that builders write can be executed once their type is    *)
(* there.                                                                  *)
LEMMA DefinitionsLoad ==
  ASSUME NEW d, Dict(d), NEW known,
         \A n \in Keys(d) : \A m \in Get(d, n).mentions : m \in known \/ Ahead(d, m, n)
  PROVE  Loads(Definitions(d), known) /\ Keys(Definitions(d)) = Keys(d)
<1> DEFINE p == Definitions(d)
<1>1. IsList(d) /\ p = [i \in DOMAIN d |-> p[i]]
  BY DEF Dict, Definitions
<1>2. \A i \in DOMAIN d : p[i].name = d[i].name /\ p[i].needs = d[i].def.mentions
  BY DEF Definitions, Statement
<1> HIDE DEF p
<1>3. IsList(p) /\ DOMAIN p = DOMAIN d
  BY <1>1, StatementsAre
<1>4. Keys(p) = Keys(d)
  BY <1>2, <1>3 DEF Keys
<1>5. ASSUME NEW i \in DOMAIN p, NEW m \in p[i].needs, m \notin known
      PROVE  \E j \in DOMAIN p : j < i /\ p[j].name = m
  <2>1. d[i].name \in Keys(d) /\ Get(d, d[i].name) = d[i].def
    BY <1>3, GetIs
  <2>2. Ahead(d, m, d[i].name)
    BY <1>2, <1>3, <1>5, <2>1
  <2>3. PICK j, k \in DOMAIN d : j < k /\ d[j].name = m /\ d[k].name = d[i].name
    BY <2>2 DEF Ahead
  <2>4. k = i
    BY <1>3, <2>3 DEF Dict, NamedOnce
  <2> QED
    BY <1>2, <1>3, <2>3, <2>4
<1>6. Loads(p, known)
  BY <1>3, <1>5 DEF Loads
<1> QED
  BY <1>4, <1>6 DEF p

(* The functions the builders write, given what builders count on.         *)
LEMMA SundryLoad ==
  ASSUME NEW fork \in Forks, NEW known, CachedFunctions \subseteq known,
         \A i \in DOMAIN builders(fork) :
           LET pieces == builders(fork)[i].sundry_functions \o builders(fork)[i].execution_engine_cls
           IN \A k \in DOMAIN pieces : pieces[k].needs \ Keys(pieces) \subseteq known
  PROVE  LET p == Pieces(fork, LAMBDA b : b.sundry_functions)
             q == execution_engine_cls(fork)
         IN /\ Loads(p, known) /\ Loads(q, known \cup Keys(p))
            /\ NoName \notin Keys(p) \cup Keys(q) /\ (Keys(p) \cup Keys(q)) \cap Reserved = {}
<1> DEFINE bs == builders(fork)
           seqs == [i \in DOMAIN bs |-> bs[i].sundry_functions]
           p == FlattenSeq(seqs)
           q == execution_engine_cls(fork)
<1>1. Pieces(fork, LAMBDA b : b.sundry_functions) = p
  BY DEF Pieces
<1>2. IsList(bs)
  BY BuilderList
<1>3. ASSUME NEW i \in DOMAIN bs
      PROVE  LET r == bs[i].sundry_functions
                 e == bs[i].execution_engine_cls
             IN /\ Loads(r, known) /\ Loads(e, known \cup Keys(r))
                /\ NoName \notin Keys(r) \cup Keys(e) /\ (Keys(r) \cup Keys(e)) \cap Reserved = {}
  <2> DEFINE b == bs[i]
             r == b.sundry_functions
             e == b.execution_engine_cls
             pieces == r \o e
  <2>1. Pieced(b) /\ Builder(b) /\ NoName \notin Keys(r) \cup Keys(e)
    BY BuiltPieces
  <2>2. /\ IsList(r) /\ IsList(e) /\ Sorted(r) /\ Sorted(e)
        /\ Wants(r) \cap Keys(e) = {}
        /\ Keys(r) \cap Reserved = {} /\ Keys(e) \cap Reserved = {}
    BY <2>1 DEF Builder, Pieced
  <2>3. \A k \in DOMAIN pieces : pieces[k].needs \ Keys(pieces) \subseteq known
    OBVIOUS
  <2>4. NoName \notin Keys(r) \cup Keys(e)
    BY <2>1
  <2> HIDE DEF bs, b, r, e
  <2>5. ToSet(pieces) = ToSet(r) \cup ToSet(e) /\ Keys(pieces) = Keys(r) \cup Keys(e)
    BY <2>2, JoinedSet
  <2> HIDE DEF pieces
  <2>6. \A c \in ToSet(r) \cup ToSet(e) : c.needs \ (Keys(r) \cup Keys(e)) \subseteq known
    BY <2>3, <2>5 DEF ToSet
  <2>7. Wants(r) \ (Keys(r) \cup Keys(e)) \subseteq known
    BY <2>6 DEF Wants, ToSet
  <2>8. Wants(e) \ (Keys(r) \cup Keys(e)) \subseteq known
    BY <2>6 DEF Wants, ToSet
  <2>9. Loads(r, known)
    <3>1. Wants(r) \ Keys(r) \subseteq known
      BY <2>2, <2>7
    <3> QED
      BY <2>2, <3>1, SortedLoads
  <2>10. Loads(e, known \cup Keys(r))
    <3> DEFINE more == known \cup Keys(r)
    <3>1. Wants(e) \ Keys(e) \subseteq more /\ CachedFunctions \subseteq more
      BY <2>8
    <3> HIDE DEF more
    <3>2. Loads(e, more)
      BY <2>2, <3>1, SortedLoads
    <3> QED
      BY <3>2 DEF more
  <2>11. /\ Loads(r, known) /\ Loads(e, known \cup Keys(r))
         /\ NoName \notin Keys(r) \cup Keys(e) /\ (Keys(r) \cup Keys(e)) \cap Reserved = {}
    BY <2>2, <2>4, <2>9, <2>10
  <2> QED
    BY <2>11 DEF r, e, b
<1>4. IsList(q) /\ (q = <<>> \/ \E i \in DOMAIN bs : q = bs[i].execution_engine_cls)
  BY EngineAre
<1> HIDE DEF bs, q
<1>5. /\ seqs = [i \in DOMAIN bs |-> seqs[i]]
      /\ \A i \in DOMAIN bs : seqs[i] = bs[i].sundry_functions
  OBVIOUS
<1> HIDE DEF seqs
<1>6. \A i \in DOMAIN bs : Loads(seqs[i], known)
  BY <1>3, <1>5
<1>7. Loads(p, known) /\ \A n : n \in Keys(p) <=> \E i \in DOMAIN bs : n \in Keys(seqs[i])
  BY <1>2, <1>5, <1>6, PiecesSet
<1> HIDE DEF p
<1>8. NoName \notin Keys(p) /\ Keys(p) \cap Reserved = {}
  BY <1>3, <1>5, <1>7
<1>9. Loads(q, known \cup Keys(p)) /\ NoName \notin Keys(q) /\ Keys(q) \cap Reserved = {}
  <2>1. CASE q = <<>>
    <3>1. Keys(q) = {} /\ DOMAIN q = {}
      BY <2>1, NoPieces
    <3> QED
      BY <1>4, <3>1 DEF Loads
  <2>2. ASSUME NEW i \in DOMAIN bs, q = bs[i].execution_engine_cls
        PROVE  Loads(q, known \cup Keys(p)) /\ NoName \notin Keys(q) /\ Keys(q) \cap Reserved = {}
    <3> DEFINE r == bs[i].sundry_functions
               less == known \cup Keys(r)
               more == known \cup Keys(p)
    <3>1. Loads(q, less) /\ NoName \notin Keys(q) /\ Keys(q) \cap Reserved = {}
      BY <1>3, <2>2
    <3>2. less \subseteq more
      BY <1>5, <1>7
    <3> HIDE DEF less, more
    <3>3. Loads(q, more)
      BY <3>1, <3>2, LoadsWith
    <3> QED
      BY <3>1, <3>3 DEF more
  <2> QED
    BY <1>4, <2>1, <2>2
<1> QED
  BY <1>1, <1>7, <1>8, <1>9 DEF q, p

-----------------------------------------------------------------------------
(* The parts of a module that keeps to the conventions. *)

LEMMA WrittenFrom ==
  ASSUME CompilerInv, phase = "written"
  PROVE  /\ spec_fork \in Forks /\ Dictionaries(spec_object) /\ \A t \in Sections : Dict(spec_object[t])
         /\ Dict(class_objects)
         /\ NamesOfClasses = Keys(spec_object["ssz_objects"]) \cup Keys(spec_object["dataclasses"])
         /\ pyspec = objects_to_spec(spec_object, spec_fork, class_objects)
         /\ Writable(spec_object, spec_fork)
<1> DEFINE s == spec_object
           c == combine_dicts(s["ssz_objects"], s["dataclasses"])
<1>1. spec_fork \in Forks
  BY SourcesAre DEF CompilerInv
<1>2. /\ Dictionaries(s) /\ Reordered(c, class_objects)
      /\ pyspec = objects_to_spec(s, spec_fork, class_objects)
      /\ Writable(s, spec_fork)
  BY DEF CompilerInv, Compiled, Combined, ClassesOf
<1>3. \A t \in Sections : Dict(s[t])
  BY <1>2 DEF Dictionaries
<1>4. Dict(s["ssz_objects"]) /\ Dict(s["dataclasses"])
  BY <1>3 DEF Sections
<1>5. Combination(s["ssz_objects"], s["dataclasses"], c)
  BY <1>4, CombineIs
<1> HIDE DEF c, s
<1>6. Dict(class_objects) /\ NamesOfClasses = Keys(s["ssz_objects"]) \cup Keys(s["dataclasses"])
  BY <1>2, <1>5 DEF Reordered, Combination, NamesOfClasses
<1> QED
  BY <1>1, <1>2, <1>3, <1>6 DEF s

LEMMA RowNamed ==
  ASSUME NEW doc \in Documents, NEW p \in RowPlaces(doc)
  PROVE  RowAt(doc, p).name # NoName
<1>1. p = <<p[1], p[2]>>
  BY PlacesAre DEF Places
<1>2. p[1] \in Live(doc, "table") /\ p[2] \in 1..Len(doc[p[1]].rows)
  BY <1>1, PlacesAre
<1>3. p[1] \in DOMAIN doc /\ doc[p[1]].kind = "table"
  BY <1>2 DEF Live
<1>4. p[2] \in DOMAIN doc[p[1]].rows
  BY <1>2, <1>3, DocumentIs
<1> QED
  BY <1>3, <1>4, DocumentIs DEF RowAt

(* Whatever is combined has a name.                                        *)
LEMMA SectionsNamed ==
  ASSUME CompilerInv, phase = "written", NEW t \in WrittenSections \cup {"preset_vars", "protocols"}
  PROVE  NoName \notin Keys(spec_object[t])
<1> DEFINE N == Len(all_specs)
<1>1. /\ \A k \in 1..N : source_files[k].elements \in Documents /\ SpecRead(source_files[k].elements, all_specs[k])
      /\ Files = 1..N
  BY SourcesAre DEF CompilerInv, ReadFiles, Files
<1>2. Combined(spec_object, all_specs, N)
  BY DEF CompilerInv, Compiled
<1> HIDE DEF N
<1>3. CASE t \in WrittenSections
  <2> SUFFICES ASSUME NoName \in Keys(spec_object[t]) PROVE FALSE
    OBVIOUS
  <2>1. CombinedSection(spec_object[t], all_specs, t, N)
    BY <1>2, <1>3, WrittenAre DEF Combined
  <2>2. PICK k \in 1..N : NoName \in Keys(all_specs[k][t])
    BY <2>1 DEF CombinedSection
  <2>3. SectionSays(source_files[k].elements, all_specs[k][t]) /\ source_files[k].elements \in Documents
    BY <1>1, <1>3 DEF SpecRead, Says
  <2>4. NoName \notin LoadedNames
    BY NoNameIsNone DEF LoadedNames
  <2>5. PICK e \in Declarations(source_files[k].elements) : e.name = NoName
    BY <2>2, <2>3, <2>4 DEF SectionSays
  <2> QED
    BY <2>3, <2>5, DeclaredNames
<1>4. CASE t = "preset_vars"
  <2> SUFFICES ASSUME NoName \in Keys(spec_object[t]) PROVE FALSE
    OBVIOUS
  <2>1. t \in DOMAIN Rank /\ Ranked(spec_object)[t] = spec_object[t]
    BY <1>4 DEF Rank, Ranked
  <2>2. PICK r \in Rows : TheRow(r).name = NoName
    BY <2>1, RowsCombined
  <2>3. r[1] \in Files /\ r[2] \in KeptRows(source_files[r[1]].elements)
    BY DEF Rows
  <2>4. source_files[r[1]].elements \in Documents /\ r[2] \in RowPlaces(source_files[r[1]].elements)
    BY <1>1, <2>3 DEF KeptRows
  <2> QED
    BY <2>2, <2>4, RowNamed DEF TheRow
<1>5. CASE t = "protocols"
  BY <1>1, <1>2, <1>5 DEF Combined, SpecRead
<1> QED
  BY <1>3, <1>4, <1>5

(* Constants and types of a section, after the library and the sections    *)
(* before it.                                                              *)
LEMMA RowsLoad ==
  ASSUME Importable, NEW t \in DOMAIN Rank, NEW known, Library \subseteq known,
         \A u \in DOMAIN Rank : Rank[u] < Rank[t] => Keys(spec_object[u]) \subseteq known
  PROVE  LET p == Definitions(spec_object[t])
         IN Loads(p, known) /\ Keys(p) = Keys(spec_object[t]) /\ NoName \notin Keys(p)
<1> DEFINE d == spec_object[t]
<1>1. CompilerInv /\ phase = "written" /\ RowsInOrder /\ NamesApart
      /\ ("CURDLEPROOFS_CRS" \in Keys(spec_object["constant_vars"]) => {"curdleproofs", "json"} \subseteq Library)
  BY DEF Importable, Conventional, BuildersServed
<1>2. t \in Sections /\ t \in WrittenSections \cup {"preset_vars", "protocols"}
  BY DEF Rank, Sections, WrittenSections
<1>3. Dict(d) /\ NoName \notin Keys(d)
  BY <1>1, <1>2, WrittenFrom, SectionsNamed
<1>4. ASSUME NEW n \in Keys(d), NEW m \in Get(d, n).mentions, m \notin known
      PROVE  Ahead(d, m, n)
  <2>1. \/ m \in Library
        \/ \E u \in DOMAIN Rank : Rank[u] < Rank[t] /\ m \in Keys(spec_object[u])
        \/ Ahead(d, m, n)
    BY <1>1, RowsSorted
  <2> QED
    BY <1>4, <2>1
<1> HIDE DEF d
<1>5. Loads(Definitions(d), known) /\ Keys(Definitions(d)) = Keys(d)
  BY <1>3, <1>4, DefinitionsLoad
<1> QED
  BY <1>3, <1>5 DEF d

(* The configuration, after the constants and types.                       *)
LEMMA ConfigLoad ==
  ASSUME Importable, NEW known, Library \cup NamesOfRows \subseteq known
  PROVE  LET p == config_spec(spec_object)
         IN Loads(p, known) /\ Keys(p) = {"Configuration", "config"} /\ NoName \notin Keys(p)
<1> DEFINE vars_ == spec_object["config_vars"]
           records == {i \in DOMAIN vars_ : vars_[i].name \in ConfigRecords}
           types == (UNION {vars_[i].def.mentions : i \in DOMAIN vars_})
                    \cup (IF records # {} THEN {"frozendict", "Any"} ELSE {})
           p == config_spec(spec_object)
<1>1. {"NamedTuple", "Any"} \subseteq Library
  BY WrittenFrom, ImportsLoad DEF Importable, Library
<1>2. records # {} => "frozendict" \in Library
  <2>1. records # {} => Keys(vars_) \cap ConfigRecords # {}
    BY DEF Keys
  <2> QED
    BY <2>1 DEF Importable, Conventional, BuildersServed
<1>3. \A i \in DOMAIN vars_ : vars_[i].def.mentions \subseteq Library \cup NamesOfRows
  BY DEF Importable, Conventional, MentionsKnown, ToSet
<1>4. types \subseteq known
  BY <1>1, <1>2, <1>3
<1>5. p = <<Statement("Configuration", {"NamedTuple"} \cup types, "config"),
            Statement("config", {"Configuration"} \cup types, "config")>>
  BY DEF config_spec
<1> HIDE DEF types, vars_
<1>6. /\ p = [i \in 1..2 |-> p[i]]
      /\ p[1].name = "Configuration" /\ p[2].name = "config"
      /\ p[1].needs = {"NamedTuple"} \cup types /\ p[2].needs = {"Configuration"} \cup types
  BY <1>5 DEF Statement
<1> HIDE DEF p
<1>7. IsList(p) /\ DOMAIN p = 1..2
  BY <1>6, ListIs
<1>8. Loads(p, known)
  BY <1>1, <1>4, <1>6, <1>7 DEF Loads
<1>9. Keys(p) = {"Configuration", "config"}
  BY <1>6, <1>7 DEF Keys
<1>10. NoName \notin {"Configuration", "config"}
  BY NoNameIsNone
<1> QED
  BY <1>8, <1>9, <1>10 DEF p

(* Classes that do not mention each other in a circle do not depend on     *)
(* each other in one.                                                      *)
LEMMA NotEntangled ==
  ASSUME Importable
  PROVE  Unentangled(class_objects, CustomTypes)
<1> DEFINE d == class_objects
<1>1. Dict(d) /\ NamesOfClasses = Keys(d)
  BY WrittenFrom DEF Importable, NamesOfClasses
<1>2. \A S \in SUBSET Keys(d) : S # {} => \E n \in S : Get(d, n).mentions \cap S = {}
  BY <1>1 DEF Importable, Conventional, ClassesInOrder
<1> SUFFICES ASSUME NEW S \in SUBSET DOMAIN d, S # {}
             PROVE  \E i \in S : \A j \in S : d[j].name \in dependencies(d[i], CustomTypes) => j = i
  BY DEF Unentangled
<1> DEFINE T == {d[i].name : i \in S}
<1> HIDE DEF d
<1>3. T \in SUBSET Keys(d) /\ T # {}
  BY DEF Keys
<1>4. PICK n \in T : Get(d, n).mentions \cap T = {}
  BY <1>2, <1>3
<1>5. PICK i \in S : d[i].name = n
  BY DEF T
<1>6. Get(d, n) = d[i].def
  BY <1>1, <1>5, GetIs
<1>7. \A j \in S : d[j].name \notin dependencies(d[i], CustomTypes)
  BY <1>4, <1>6 DEF dependencies
<1> QED
  BY <1>7

(* The classes of the documents, after the configuration and the classes   *)
(* of the builders.                                                        *)
LEMMA ClassObjectsLoad ==
  ASSUME Importable, NEW known,
         Library \cup Keys(Pieces(spec_fork, LAMBDA b : b.classes)) \cup NamesOfRows \cup {"config"} \subseteq known
  PROVE  LET p == Definitions(Configured(class_objects, spec_object))
         IN Loads(p, known) /\ Keys(p) = NamesOfClasses /\ NoName \notin Keys(p)
<1> DEFINE s == spec_object
           d == class_objects
           e == Configured(d, s)
           types == CustomTypes
           configs == Keys(s["config_vars"])
<1>1. Dict(d) /\ NamesOfClasses = Keys(d)
  BY WrittenFrom DEF Importable, NamesOfClasses
<1>2. NoName \notin Keys(d)
  <2>1. NamesOfClasses = Keys(s["ssz_objects"]) \cup Keys(s["dataclasses"])
    BY WrittenFrom DEF Importable
  <2>2. NoName \notin Keys(s["ssz_objects"]) /\ NoName \notin Keys(s["dataclasses"])
    BY SectionsNamed DEF Importable, WrittenSections, CodeSections
  <2> QED
    BY <1>1, <2>1, <2>2
<1>3. /\ \A item \in ToSet(d) : item.def.mentions \subseteq Known \cup configs
      /\ Keys(d) \cap (UpperCaseNames \cup ignored_dependencies) = {}
      /\ \A n \in Keys(d) : n \notin Get(d, n).mentions
  <2>1. /\ \A item \in ToSet(d) : item.def.mentions \subseteq Known \cup configs
        /\ Keys(d) \cap (UpperCaseNames \cup ignored_dependencies) = {}
        /\ \A S \in SUBSET Keys(d) : S # {} => \E n \in S : Get(d, n).mentions \cap S = {}
    BY <1>1 DEF Importable, Conventional, ClassesInOrder, MentionsKnown
  <2>2. ASSUME NEW n \in Keys(d) PROVE n \notin Get(d, n).mentions
    <3>1. {n} \in SUBSET Keys(d) /\ {n} # {}
      OBVIOUS
    <3>2. \E k \in {n} : Get(d, k).mentions \cap {n} = {}
      BY <2>1, <3>1
    <3> QED
      BY <3>2
  <2> QED
    BY <2>1, <2>2
<1>4. \A item \in ToSet(d) : \A dep \in dependencies(item, types) : dep # item.name => Ahead(d, dep, item.name)
  BY NotEntangled, FollowIs DEF Importable, ClassesFollow
<1>5. types \subseteq NamesOfRows
  BY DEF CustomTypes, NamesOfRows, Rank
<1>6. /\ Dict(e) /\ Keys(e) = Keys(d)
      /\ \A n \in Keys(d) : Get(e, n).mentions \subseteq (Get(d, n).mentions \ configs) \cup {"config"}
  BY <1>1, ConfiguredIs
<1>7. \A a, b : Ahead(d, a, b) => Ahead(e, a, b)
  <2>1. DOMAIN e = DOMAIN d /\ \A i \in DOMAIN d : e[i].name = d[i].name
    BY DEF Configured
  <2> HIDE DEF e, d
  <2> QED
    BY <2>1 DEF Ahead
<1>8. Known = Library \cup Keys(Pieces(spec_fork, LAMBDA b : b.classes)) \cup NamesOfRows \cup Keys(d)
  BY <1>1 DEF Known
<1> HIDE DEF e, d, s, types, configs
<1>9. ASSUME NEW n \in Keys(e), NEW m \in Get(e, n).mentions, m \notin known
      PROVE  Ahead(e, m, n)
  <2>1. m \in Get(d, n).mentions \ configs
    BY <1>6, <1>9
  <2>2. PICK i \in DOMAIN d : d[i].name = n /\ Get(d, n) = d[i].def
    BY <1>1, <1>6, GetIs
  <2>3. d[i] \in ToSet(d)
    BY DEF ToSet
  <2>4. m \in Keys(d)
    BY <1>3, <1>8, <1>9, <2>1, <2>2, <2>3
  <2>5. m \in dependencies(d[i], types)
    <3>1. m \notin types /\ m \notin UpperCaseNames \cup ignored_dependencies
      BY <1>3, <1>5, <1>9, <2>4
    <3> QED
      BY <2>1, <2>2, <3>1 DEF dependencies
  <2>6. m # n
    BY <1>3, <1>6, <2>1
  <2>7. Ahead(d, m, n)
    BY <1>4, <2>2, <2>3, <2>5, <2>6
  <2> QED
    BY <1>7, <2>7
<1>10. Loads(Definitions(e), known) /\ Keys(Definitions(e)) = Keys(e)
  BY <1>6, <1>9, DefinitionsLoad
<1> QED
  BY <1>1, <1>2, <1>6, <1>10 DEF e, d, s

LEMMA ProtocolsLoad ==
  ASSUME Importable, NEW known, Known \subseteq known
  PROVE  LET p == protocols_spec(spec_object)
         IN Loads(p, known) /\ Keys(p) = Keys(spec_object["protocols"]) /\ NoName \notin Keys(p)
<1> DEFINE d == spec_object["protocols"]
           p == protocols_spec(spec_object)
<1>1. Dict(d) /\ NoName \notin Keys(d)
  BY WrittenFrom, SectionsNamed DEF Importable, Sections
<1>2. d # <<>> => "Protocol" \in known
  BY DEF Importable, Conventional, BuildersServed, Known
<1>3. \A protocol \in ToSet(d) : \A function \in ToSet(protocol.def) : function.def.mentions \subseteq known
  BY DEF Importable, Conventional, MentionsKnown
<1>4. /\ p = [i \in DOMAIN d |-> p[i]]
      /\ \A i \in DOMAIN d :
           p[i].name = d[i].name
           /\ p[i].needs = {"Protocol"} \cup UNION {d[i].def[j].def.mentions : j \in DOMAIN d[i].def}
  BY DEF protocols_spec, Statement
<1> HIDE DEF d, p
<1>5. IsList(p) /\ DOMAIN p = DOMAIN d
  BY <1>1, <1>4, StatementsAre DEF Dict
<1>6. Keys(p) = Keys(d)
  BY <1>4, <1>5 DEF Keys
<1>7. ASSUME NEW i \in DOMAIN d PROVE p[i].needs \subseteq known
  <2>1. "Protocol" \in known
    <3>1. d # <<>>
      BY NoPieces
    <3> QED
      BY <1>2, <3>1
  <2>2. \A j \in DOMAIN d[i].def : d[i].def[j].def.mentions \subseteq known
    BY <1>3 DEF ToSet
  <2> QED
    BY <1>4, <2>1, <2>2
<1>8. Loads(p, known)
  BY <1>5, <1>7 DEF Loads
<1> QED
  BY <1>1, <1>6, <1>8 DEF d, p

LEMMA FunctionsLoad ==
  ASSUME Importable, NEW known, Known \cup Keys(spec_object["protocols"]) \cup {"config"} \subseteq known
  PROVE  LET p == Definitions(Configured(Functions(spec_object, spec_fork), spec_object))
         IN Loads(p, known) /\ CachedFunctions \subseteq Keys(p) /\ NoName \notin Keys(p)
<1> DEFINE s == spec_object
           d == s["functions"]
           f == Functions(s, spec_fork)
           e == Configured(f, s)
           configs == Keys(s["config_vars"])
<1>1. Dict(d) /\ NoName \notin Keys(d)
  BY WrittenFrom, SectionsNamed DEF Importable, Sections, WrittenSections, CodeSections
<1>2. /\ Dict(f) /\ Keys(f) \subseteq Keys(d)
      /\ \A n \in Keys(f) : Get(f, n).mentions = Get(d, n).mentions
  BY <1>1, FunctionsAre
<1>3. /\ CachedFunctions \subseteq Keys(f)
      /\ \A item \in ToSet(d) : item.def.mentions \subseteq Known \cup configs \cup Keys(s["protocols"])
  BY DEF Importable, Conventional, BuildersServed, MentionsKnown
<1> HIDE DEF f
<1>4. /\ Dict(e) /\ Keys(e) = Keys(f)
      /\ \A n \in Keys(f) : Get(e, n).mentions \subseteq (Get(f, n).mentions \ configs) \cup {"config"}
  BY <1>2, ConfiguredIs
<1>5. Known \cup Keys(s["protocols"]) \cup {"config"} \subseteq known
  OBVIOUS
<1> HIDE DEF e, d, s, configs
<1>6. ASSUME NEW n \in Keys(e) PROVE Get(e, n).mentions \subseteq known
  <2>1. PICK i \in DOMAIN d : d[i].name = n /\ Get(d, n) = d[i].def
    BY <1>1, <1>2, <1>4, GetIs
  <2>2. d[i] \in ToSet(d)
    BY DEF ToSet
  <2> QED
    BY <1>2, <1>3, <1>4, <1>5, <2>1, <2>2
<1>7. Loads(Definitions(e), known) /\ Keys(Definitions(e)) = Keys(e)
  BY <1>4, <1>6, DefinitionsLoad
<1> QED
  BY <1>1, <1>2, <1>3, <1>4, <1>7 DEF e, d, s, f

(* The assertions, one of each constant or preset that is in use.          *)

(* Part by part, the module finds all it needs in the parts before, and    *)
(* only the assertions have no name.                                       *)
LEMMA ModuleLoads ==
  ASSUME Importable
  PROVE  Loads(pyspec, {}) /\ \A i \in DOMAIN pyspec : pyspec[i].name = NoName => pyspec[i] \in Asserted
<1> DEFINE s == spec_object
           hardcoded == hardcoded_ssz_dep_constants(spec_fork)
           names == <<"fork", "ceillog2", "floorlog2">>
           a1 == Pieces(spec_fork, LAMBDA b : Names(b.imports))
           a2 == Pieces(spec_fork, LAMBDA b : Names(b.preparations))
           a3 == Names(names)
           b1 == Definitions(hardcoded)
           b2 == Definitions(s["custom_types"])
           b3 == Definitions(s["constant_vars"])
           b4 == Definitions(s["preset_vars"])
           b5 == Definitions(s["preset_dep_constant_vars"])
           b6 == Definitions(s["preset_dep_custom_types"])
           b7 == config_spec(s)
           b8 == Pieces(spec_fork, LAMBDA b : b.classes)
           b9 == Definitions(Configured(class_objects, s))
           b10 == protocols_spec(s)
           b11 == Definitions(Configured(Functions(s, spec_fork), s))
           b12 == Pieces(spec_fork, LAMBDA b : b.sundry_functions)
           b13 == execution_engine_cls(spec_fork)
           b14 == ssz_dep_constants_verification(s, spec_fork)
           b15 == func_dep_presets_verification(s, spec_fork)
           p2 == a1 \o a2      p3 == p2 \o a3      p4 == p3 \o b1     p5 == p4 \o b2
           p6 == p5 \o b3      p7 == p6 \o b4      p8 == p7 \o b5     p9 == p8 \o b6
           p10 == p9 \o b7     p11 == p10 \o b8    p12 == p11 \o b9   p13 == p12 \o b10
           p14 == p13 \o b11   p15 == p14 \o b12   p16 == p15 \o b13  p17 == p16 \o b14
           p18 == p17 \o b15
           Fine(p) == Loads(p, {}) /\ NoName \notin Keys(p)
<1>1. /\ spec_fork \in Forks /\ Writable(s, spec_fork)
      /\ pyspec = p18
  <2>1. /\ spec_fork \in Forks /\ Writable(s, spec_fork)
        /\ pyspec = objects_to_spec(spec_object, spec_fork, class_objects)
    BY WrittenFrom DEF Importable
  <2> QED
    BY <2>1 DEF objects_to_spec
<1>2. ASSUME NEW p, NEW q, Fine(p), Loads(q, Keys(p)), NoName \notin Keys(q)
      PROVE  Fine(p \o q) /\ Keys(p \o q) = Keys(p) \cup Keys(q)
  <2> DEFINE none == {}
  <2>1. Loads(p, none) /\ Keys(p) \subseteq none \cup Keys(p)
    BY <1>2
  <2> HIDE DEF none
  <2>2. Loads(p \o q, none) /\ Keys(p \o q) = Keys(p) \cup Keys(q)
    BY <1>2, <2>1, LoadsMore
  <2>3. NoName \notin Keys(p \o q)
    BY <1>2, <2>2
  <2> QED
    BY <2>2, <2>3 DEF none
<1>3. Fine(a1) /\ {"bls", "Optional", "Sequence"} \subseteq Keys(a1)
  BY <1>1, ImportsLoad
<1>4. Fine(a2)
  BY <1>1, PreparationsLoad
<1>5. Fine(a3) /\ Keys(a3) = {"fork", "ceillog2", "floorlog2"}
  <2>1. names = [i \in 1..3 |-> names[i]] /\ ToSet(names) = {"fork", "ceillog2", "floorlog2"}
    BY DEF ToSet
  <2> HIDE DEF names
  <2>2. IsList(names)
    BY <2>1, ListIs
  <2>3. Loads(Names(names), {}) /\ Keys(Names(names)) = ToSet(names)
    BY <2>2, NamesLoad
  <2>4. NoName \notin {"fork", "ceillog2", "floorlog2"}
    BY NoNameIsNone
  <2> QED
    BY <2>1, <2>3, <2>4
<1>6. ASSUME NEW known, Keys(a2) \subseteq known
      PROVE  Loads(b1, known) /\ Keys(b1) = Keys(hardcoded) /\ NoName \notin Keys(b1)
  <2>1. Dict(hardcoded)
    BY <1>1, ConstantsAre
  <2>2. \A n \in Keys(hardcoded) : n # NoName /\ \A m \in Get(hardcoded, n).mentions : m \in known
    BY <1>1, <1>6, GindicesFrom
  <2> HIDE DEF hardcoded
  <2> QED
    BY <2>1, <2>2, DefinitionsLoad
<1>7. Library = Keys(a1) \cup Keys(a2) \cup Keys(a3) \cup Keys(hardcoded)
  BY <1>5 DEF Library
<1>8. /\ DOMAIN Rank = {"custom_types", "constant_vars", "preset_vars", "preset_dep_constant_vars", "preset_dep_custom_types"}
      /\ Rank["custom_types"] = 1 /\ Rank["constant_vars"] = 2 /\ Rank["preset_vars"] = 3
      /\ Rank["preset_dep_constant_vars"] = 4 /\ Rank["preset_dep_custom_types"] = 5
  BY DEF Rank
<1>9. /\ Fine(p4) /\ Keys(p4) = Library
      /\ Keys(a1) \subseteq Keys(p4)
  <2> HIDE DEF a1, a2, a3, b1, hardcoded
  <2>1. ASSUME NEW p, NEW q, Fine(q) PROVE Loads(q, Keys(p)) /\ NoName \notin Keys(q)
    <3> DEFINE none == {}
    <3>1. Loads(q, none) /\ none \subseteq Keys(p)
      BY <2>1
    <3> HIDE DEF none
    <3> QED
      BY <2>1, <3>1, LoadsWith
  <2>2. Fine(p2) /\ Keys(p2) = Keys(a1) \cup Keys(a2)
    BY <1>2, <1>3, <1>4, <2>1
  <2> HIDE DEF p2
  <2>3. Fine(p3) /\ Keys(p3) = Keys(p2) \cup Keys(a3)
    BY <1>2, <1>5, <2>1, <2>2
  <2> HIDE DEF p3
  <2>4. Loads(b1, Keys(p3)) /\ Keys(b1) = Keys(hardcoded) /\ NoName \notin Keys(b1)
    BY <1>6, <2>2, <2>3
  <2>5. Fine(p4) /\ Keys(p4) = Keys(p3) \cup Keys(b1)
    BY <1>2, <2>3, <2>4
  <2> HIDE DEF p4
  <2> QED
    BY <1>7, <2>2, <2>3, <2>4, <2>5
<1> HIDE DEF p4
<1>10. ASSUME NEW t \in DOMAIN Rank, NEW p, Library \subseteq Keys(p),
              \A u \in DOMAIN Rank : Rank[u] < Rank[t] => Keys(s[u]) \subseteq Keys(p), Fine(p)
       PROVE  LET q == Definitions(s[t]) IN Fine(p \o q) /\ Keys(p \o q) = Keys(p) \cup Keys(s[t])
  <2> DEFINE known == Keys(p)
             q == Definitions(s[t])
  <2>1. Library \subseteq known /\ \A u \in DOMAIN Rank : Rank[u] < Rank[t] => Keys(s[u]) \subseteq known
    BY <1>10
  <2> HIDE DEF known
  <2>2. Loads(q, known) /\ Keys(q) = Keys(s[t]) /\ NoName \notin Keys(q)
    BY <2>1, RowsLoad
  <2> HIDE DEF q
  <2>3. Fine(p \o q) /\ Keys(p \o q) = Keys(p) \cup Keys(q)
    BY <1>2, <1>10, <2>2 DEF known
  <2> QED
    BY <2>2, <2>3 DEF q
<1>11. Fine(p9) /\ Keys(p9) = Library \cup NamesOfRows
  <2> HIDE DEF Fine
  <2>1. Fine(p5) /\ Keys(p5) = Keys(p4) \cup Keys(s["custom_types"])
    BY <1>8, <1>9, <1>10
  <2> HIDE DEF p5
  <2>2. Fine(p6) /\ Keys(p6) = Keys(p5) \cup Keys(s["constant_vars"])
    BY <1>8, <1>9, <1>10, <2>1
  <2> HIDE DEF p6
  <2>3. Fine(p7) /\ Keys(p7) = Keys(p6) \cup Keys(s["preset_vars"])
    BY <1>8, <1>9, <1>10, <2>1, <2>2
  <2> HIDE DEF p7
  <2>4. Fine(p8) /\ Keys(p8) = Keys(p7) \cup Keys(s["preset_dep_constant_vars"])
    BY <1>8, <1>9, <1>10, <2>1, <2>2, <2>3
  <2> HIDE DEF p8
  <2>5. Fine(p9) /\ Keys(p9) = Keys(p8) \cup Keys(s["preset_dep_custom_types"])
    BY <1>8, <1>9, <1>10, <2>1, <2>2, <2>3, <2>4
  <2> HIDE DEF p9
  <2>6. NamesOfRows = Keys(s["custom_types"]) \cup Keys(s["constant_vars"]) \cup Keys(s["preset_vars"])
                        \cup Keys(s["preset_dep_constant_vars"]) \cup Keys(s["preset_dep_custom_types"])
    BY <1>8 DEF NamesOfRows
  <2> QED
    BY <1>9, <2>1, <2>2, <2>3, <2>4, <2>5, <2>6
<1> HIDE DEF p9
<1>12. Fine(p10) /\ Keys(p10) = Library \cup NamesOfRows \cup {"Configuration", "config"}
  <2> DEFINE known == Keys(p9)
  <2>1. Library \cup NamesOfRows \subseteq known
    BY <1>11
  <2> HIDE DEF known
  <2>2. Loads(b7, known) /\ Keys(b7) = {"Configuration", "config"} /\ NoName \notin Keys(b7)
    BY <2>1, ConfigLoad
  <2> HIDE DEF b7
  <2> QED
    BY <1>2, <1>11, <2>2 DEF known
<1> HIDE DEF p10
<1>13. Fine(p11) /\ Keys(p11) = Keys(p10) \cup Keys(b8)
  <2> DEFINE less == {"bls", "Optional", "Sequence"}
  <2>1. Loads(b8, less) /\ NoName \notin Keys(b8)
    BY <1>1, ClassesLoad
  <2>2. less \subseteq Keys(p10)
    BY <1>3, <1>9, <1>12
  <2> HIDE DEF b8, less
  <2>3. Loads(b8, Keys(p10))
    BY <2>1, <2>2, LoadsWith
  <2> QED
    BY <1>2, <1>12, <2>1, <2>3
<1> HIDE DEF p11
<1>14. Fine(p12) /\ Keys(p12) = Keys(p11) \cup NamesOfClasses
  <2> DEFINE known == Keys(p11)
  <2>1. Library \cup Keys(b8) \cup NamesOfRows \cup {"config"} \subseteq known
    BY <1>12, <1>13
  <2> HIDE DEF known
  <2>2. Loads(b9, known) /\ Keys(b9) = NamesOfClasses /\ NoName \notin Keys(b9)
    BY <2>1, ClassObjectsLoad
  <2> HIDE DEF b9
  <2> QED
    BY <1>2, <1>13, <2>2 DEF known
<1> HIDE DEF p12
<1>15. Known \cup {"config"} \subseteq Keys(p12)
  BY <1>12, <1>13, <1>14 DEF Known
<1>16. Fine(p13) /\ Keys(p13) = Keys(p12) \cup Keys(s["protocols"])
  <2> DEFINE known == Keys(p12)
  <2>1. Known \subseteq known
    BY <1>15
  <2> HIDE DEF known
  <2>2. Loads(b10, known) /\ Keys(b10) = Keys(s["protocols"]) /\ NoName \notin Keys(b10)
    BY <2>1, ProtocolsLoad
  <2> HIDE DEF b10
  <2> QED
    BY <1>2, <1>14, <2>2 DEF known
<1> HIDE DEF p13
<1>17. Fine(p14) /\ Keys(p13) \subseteq Keys(p14) /\ CachedFunctions \subseteq Keys(p14)
  <2> DEFINE known == Keys(p13)
  <2>1. Known \cup Keys(s["protocols"]) \cup {"config"} \subseteq known
    BY <1>15, <1>16
  <2> HIDE DEF known
  <2>2. Loads(b11, known) /\ CachedFunctions \subseteq Keys(b11) /\ NoName \notin Keys(b11)
    BY <2>1, FunctionsLoad
  <2> HIDE DEF b11
  <2>3. Fine(p14) /\ Keys(p14) = Keys(p13) \cup Keys(b11)
    BY <1>2, <1>16, <2>2 DEF known
  <2> QED
    BY <2>2, <2>3
<1> HIDE DEF p14
<1>18. Fine(p16) /\ Keys(p14) \subseteq Keys(p16)
  <2> DEFINE known == Keys(p14)
  <2>1. /\ CachedFunctions \subseteq known
        /\ Known \cup Keys(s["protocols"]) \subseteq known
    BY <1>15, <1>16, <1>17
  <2> HIDE DEF known
  <2>2. \A i \in DOMAIN builders(spec_fork) :
          LET pieces == builders(spec_fork)[i].sundry_functions \o builders(spec_fork)[i].execution_engine_cls
          IN \A k \in DOMAIN pieces : pieces[k].needs \ Keys(pieces) \subseteq known
    BY <2>1 DEF Importable, Conventional, BuildersServed
  <2>3. /\ Loads(b12, known) /\ Loads(b13, known \cup Keys(b12)) /\ NoName \notin Keys(b12) \cup Keys(b13)
    BY <1>1, <2>1, <2>2, SundryLoad
  <2> HIDE DEF b12, b13
  <2>4. Fine(p15) /\ Keys(p15) = known \cup Keys(b12)
    BY <1>2, <1>17, <2>3 DEF known
  <2> HIDE DEF p15
  <2>5. Fine(p16) /\ Keys(p16) = Keys(p15) \cup Keys(b13)
    BY <1>2, <2>3, <2>4
  <2> QED
    BY <2>4, <2>5 DEF known
<1> HIDE DEF p16
<1>19. /\ IsList(b14) /\ IsList(b15)
       /\ \A i \in DOMAIN b14 : \E n \in Keys(hardcoded) : b14[i].needs = {n}
       /\ \A i \in DOMAIN b15 : \E n \in Keys(hardcoded_func_dep_presets(spec_fork)) : b15[i].needs = {n}
  BY <1>1, AssertedIs DEF Assertion, Statement
<1>20. Keys(hardcoded_func_dep_presets(spec_fork)) \subseteq NamesOfRows
  BY <1>1, <1>8 DEF Writable, NamesOfRows
<1>21. Loads(b14, Keys(p16)) /\ Loads(b15, Keys(p16))
  <2>1. Library \cup NamesOfRows \subseteq Keys(p16)
    BY <1>15, <1>16, <1>17, <1>18 DEF Known
  <2> HIDE DEF b14, b15, hardcoded
  <2>2. /\ \A i \in DOMAIN b14 : b14[i].needs \subseteq Keys(p16)
        /\ \A i \in DOMAIN b15 : b15[i].needs \subseteq Keys(p16)
    BY <1>7, <1>19, <1>20, <2>1
  <2> QED
    BY <1>19, <2>2 DEF Loads
<1> HIDE DEF b14, b15
<1>22. Loads(p17, {}) /\ ToSet(p17) = ToSet(p16) \cup ToSet(b14) /\ Keys(p17) = Keys(p16) \cup Keys(b14)
  <2> DEFINE none == {}
             more == Keys(p16)
  <2>1. Loads(p16, none) /\ Loads(b14, more) /\ more \subseteq none \cup Keys(p16)
    BY <1>18, <1>21
  <2> HIDE DEF none, more
  <2>2. Loads(p17, none) /\ ToSet(p17) = ToSet(p16) \cup ToSet(b14) /\ Keys(p17) = Keys(p16) \cup Keys(b14)
    BY <2>1, LoadsMore
  <2> QED
    BY <2>2 DEF none
<1> HIDE DEF p17
<1>23. Loads(p18, {}) /\ ToSet(p18) = ToSet(p17) \cup ToSet(b15)
  <2> DEFINE none == {}
             more == Keys(p16)
  <2>1. Loads(p17, none) /\ Loads(b15, more) /\ more \subseteq none \cup Keys(p17)
    BY <1>21, <1>22
  <2> HIDE DEF none, more
  <2>2. Loads(p18, none) /\ ToSet(p18) = ToSet(p17) \cup ToSet(b15)
    BY <2>1, LoadsMore
  <2> QED
    BY <2>2 DEF none
<1> HIDE DEF p18
<1>24. ASSUME NEW i \in DOMAIN p18, p18[i].name = NoName
       PROVE  p18[i] \in ToSet(b14) \cup ToSet(b15)
  <2>1. p18[i] \in ToSet(p16) \cup ToSet(b14) \cup ToSet(b15)
    <3>1. p18[i] \in ToSet(p18)
      BY DEF ToSet
    <3> QED
      BY <1>22, <1>23, <3>1
  <2>2. p18[i] \notin ToSet(p16)
    BY <1>18, <1>24 DEF ToSet, Keys
  <2> QED
    BY <2>1, <2>2
<1>25. Asserted = ToSet(b14) \cup ToSet(b15)
  BY DEF Asserted, b14, b15
<1> QED
  BY <1>1, <1>23, <1>24, <1>25

(* Names of generalized indices and proof depths: the last binding is the  *)
(* builders' or the preset's.                                              *)
LEMMA ReservedTells ==
  ASSUME Importable, NEW n \in Gindices \cup ProofDepths, n # NoName, NEW x,
         \A u \in Sections \ {"preset_vars", "ssz_dep_constants", "func_dep_presets"} : n \notin Keys(spec_object[u]),
         n \in Keys(hardcoded_ssz_dep_constants(spec_fork)) => Get(hardcoded_ssz_dep_constants(spec_fork), n).text = x,
         n \in Keys(spec_object["preset_vars"]) => Get(spec_object["preset_vars"], n).text = x,
         n \in Keys(hardcoded_ssz_dep_constants(spec_fork)) \cup Keys(spec_object["preset_vars"])
  PROVE  Tells(pyspec, n, x)
<1> DEFINE s == spec_object
           hardcoded == hardcoded_ssz_dep_constants(spec_fork)
           names == <<"fork", "ceillog2", "floorlog2">>
           a1 == Pieces(spec_fork, LAMBDA b : Names(b.imports))
           a2 == Pieces(spec_fork, LAMBDA b : Names(b.preparations))
           a3 == Names(names)
           b1 == Definitions(hardcoded)
           b2 == Definitions(s["custom_types"])
           b3 == Definitions(s["constant_vars"])
           b4 == Definitions(s["preset_vars"])
           b5 == Definitions(s["preset_dep_constant_vars"])
           b6 == Definitions(s["preset_dep_custom_types"])
           b7 == config_spec(s)
           b8 == Pieces(spec_fork, LAMBDA b : b.classes)
           b9 == Definitions(Configured(class_objects, s))
           b10 == protocols_spec(s)
           b11 == Definitions(Configured(Functions(s, spec_fork), s))
           b12 == Pieces(spec_fork, LAMBDA b : b.sundry_functions)
           b13 == execution_engine_cls(spec_fork)
           b14 == ssz_dep_constants_verification(s, spec_fork)
           b15 == func_dep_presets_verification(s, spec_fork)
<1>1. /\ spec_fork \in Forks /\ \A u \in Sections : Dict(s[u])
      /\ Dict(class_objects) /\ NamesOfClasses = Keys(s["ssz_objects"]) \cup Keys(s["dataclasses"])
      /\ pyspec = objects_to_spec(s, spec_fork, class_objects)
  BY WrittenFrom DEF Importable
<1>2. pyspec = a1 \o a2 \o a3 \o b1 \o b2 \o b3 \o b4 \o b5 \o b6 \o b7 \o b8 \o b9 \o b10
            \o b11 \o b12 \o b13 \o b14 \o b15
  BY <1>1 DEF objects_to_spec
<1>3. IsList(a1) /\ IsList(a2) /\ IsList(b8) /\ IsList(b12) /\ IsList(b13)
  BY <1>1, ImportsAre, PreparationsAre, ClassesAre, SundryAre, EngineAre
<1>4. IsList(a3)
  <2>1. names = [i \in 1..3 |-> names[i]]
    OBVIOUS
  <2> HIDE DEF names
  <2>2. IsList(names)
    BY <2>1, ListIs
  <2> QED
    BY <2>2, NamesAre
<1>5. n \notin {"Configuration", "config"} /\ n \in Reserved
  BY DEF Gindices, ProofDepths, Reserved
<1>6. n \notin Keys(b8) /\ n \notin Keys(b12) /\ n \notin Keys(b13)
  <2> DEFINE known == Known \cup Keys(s["protocols"]) \cup CachedFunctions
  <2>1. \A i \in DOMAIN builders(spec_fork) :
          LET pieces == builders(spec_fork)[i].sundry_functions \o builders(spec_fork)[i].execution_engine_cls
          IN \A k \in DOMAIN pieces : pieces[k].needs \ Keys(pieces) \subseteq known
    BY DEF Importable, Conventional, BuildersServed
  <2>2. CachedFunctions \subseteq known
    OBVIOUS
  <2> HIDE DEF known
  <2>3. (Keys(b12) \cup Keys(b13)) \cap Reserved = {}
    BY <1>1, <2>1, <2>2, SundryLoad
  <2>4. Keys(b8) \cap Reserved = {}
    BY <1>1, ClassesLoad
  <2> QED
    BY <1>5, <2>3, <2>4
<1>7. Silent(b8, n) /\ Silent(b12, n) /\ Silent(b13, n)
  BY <1>3, <1>6, KeysSilent
<1>8. Silent(b7, n)
  BY <1>5, ConfigSilent
<1>9. Silent(b14, n) /\ Silent(b15, n)
  BY <1>1, AssertionsSilent
<1>10. Part(b1, n, x) /\ (n \in Keys(hardcoded) => Tells(b1, n, x))
  <2>1. Dict(hardcoded)
    BY <1>1, ConstantsAre
  <2> HIDE DEF hardcoded
  <2> QED
    BY <2>1, DefinitionsPart DEF hardcoded
<1>11. \A u \in Sections \ {"preset_vars", "ssz_dep_constants", "func_dep_presets"} :
         Dict(s[u]) /\ n \notin Keys(s[u])
  BY <1>1
<1>12. {"custom_types", "constant_vars", "preset_dep_constant_vars", "preset_dep_custom_types", "protocols",
        "ssz_objects", "dataclasses", "functions"}
         \subseteq Sections \ {"preset_vars", "ssz_dep_constants", "func_dep_presets"}
  BY DEF Sections
<1>13. ASSUME NEW u \in Sections, n \notin Keys(s[u])
       PROVE  Silent(Definitions(s[u]), n)
  BY <1>1, <1>13, DefinitionsTell
<1>14. Silent(b2, n) /\ Silent(b3, n) /\ Silent(b5, n) /\ Silent(b6, n)
  BY <1>11, <1>12, <1>13
<1>15. Part(b4, n, x) /\ (n \in Keys(s["preset_vars"]) => Tells(b4, n, x))
  <2> DEFINE d == s["preset_vars"]
  <2>1. Dict(d)
    BY <1>1 DEF Sections
  <2>2. n \in Keys(d) => Get(d, n).text = x
    OBVIOUS
  <2> HIDE DEF d
  <2>3. Part(Definitions(d), n, x) /\ (n \in Keys(d) => Tells(Definitions(d), n, x))
    BY <2>1, <2>2, DefinitionsPart
  <2> QED
    BY <2>3 DEF d
<1>16. Silent(b10, n)
  BY <1>11, <1>12, ProtocolsSilent
<1>17. Silent(b9, n)
  <2> DEFINE d == Configured(class_objects, s)
  <2>1. Dict(d) /\ Keys(d) = Keys(class_objects)
    BY <1>1, ConfiguredIs
  <2>2. n \notin Keys(class_objects)
    BY <1>1, <1>11, <1>12 DEF NamesOfClasses
  <2> HIDE DEF d
  <2>3. Silent(Definitions(d), n)
    BY <2>1, <2>2, DefinitionsTell
  <2> QED
    BY <2>3 DEF d
<1>18. Silent(b11, n)
  <2> DEFINE c == Functions(s, spec_fork)
             d == Configured(c, s)
  <2>1. Dict(s["functions"]) /\ n \notin Keys(s["functions"])
    BY <1>11, <1>12
  <2>2. Dict(c) /\ Keys(c) = Keys(s["functions"]) \ DeletedFunctions
    BY <2>1, FunctionsAre
  <2> HIDE DEF c
  <2>3. Dict(d) /\ Keys(d) = Keys(c)
    BY <2>2, ConfiguredIs
  <2> HIDE DEF d
  <2>4. Silent(Definitions(d), n)
    BY <2>1, <2>2, <2>3, DefinitionsTell
  <2> QED
    BY <2>4 DEF c, d
<1>19. Tells(b1, n, x) \/ Tells(b4, n, x)
  BY <1>10, <1>15
<1> HIDE DEF a1, a2, a3, b1, b2, b3, b4, b5, b6, b7, b8, b9, b10, b11, b12, b13, b14, b15, s
<1>20. /\ Part(b2, n, x) /\ Part(b3, n, x) /\ Part(b5, n, x) /\ Part(b6, n, x) /\ Part(b7, n, x)
       /\ Part(b8, n, x) /\ Part(b9, n, x) /\ Part(b10, n, x) /\ Part(b11, n, x) /\ Part(b12, n, x)
       /\ Part(b13, n, x) /\ Part(b14, n, x) /\ Part(b15, n, x)
  BY <1>7, <1>8, <1>9, <1>14, <1>16, <1>17, <1>18 DEF Part
<1>21. Tells(a1 \o a2 \o a3 \o b1 \o b2 \o b3 \o b4 \o b5 \o b6 \o b7 \o b8 \o b9 \o b10
               \o b11 \o b12 \o b13 \o b14 \o b15, n, x)
  BY <1>3, <1>4, <1>10, <1>15, <1>19, <1>20, PartsTell
<1> QED
  BY <1>2, <1>21

(* What is asserted is what the name is last bound to.                     *)
LEMMA AssertedHold ==
  ASSUME Importable, NEW a \in Asserted
  PROVE  \A n \in a.needs : pyspec[LastBinding(n)].text = a.text
<1> DEFINE s == spec_object
           c == hardcoded_ssz_dep_constants(spec_fork)
           d == hardcoded_func_dep_presets(spec_fork)
           v == s["preset_vars"]
           p == ssz_dep_constants_verification(s, spec_fork)
           q == func_dep_presets_verification(s, spec_fork)
<1>1. /\ spec_fork \in Forks /\ Writable(s, spec_fork) /\ CompilerInv /\ phase = "written"
      /\ NamesApart /\ BuildersServed
  BY WrittenFrom DEF Importable, Conventional
<1>2. \A n \in Keys(v) : Get(v, n).text = Yaml[n]
  <2>1. Ranked(s)["preset_vars"] = v
    BY DEF Ranked, Rank
  <2> QED
    BY <1>1, <2>1, RowsCombined
<1>3. /\ Keys(c) \ deprecate_constants(spec_fork) \subseteq Keys(s["ssz_dep_constants"])
      /\ Keys(d) \ deprecate_presets(spec_fork) \subseteq Keys(s["func_dep_presets"])
      /\ Keys(d) \subseteq Keys(v)
  BY <1>1 DEF Writable
<1>4. {"preset_vars", "ssz_dep_constants", "func_dep_presets"} \subseteq Sections
  BY DEF Sections
<1>5. ASSUME NEW n, NEW x, Tells(pyspec, n, x), a = Assertion(n, x)
      PROVE  \A m \in a.needs : pyspec[LastBinding(m)].text = a.text
  BY <1>5, LastBindingIs DEF Assertion, Statement
<1>6. ASSUME NEW n \in Keys(c) \ deprecate_constants(spec_fork),
             a = Assertion(n, Get(s["ssz_dep_constants"], n).text)
      PROVE  \A m \in a.needs : pyspec[LastBinding(m)].text = a.text
  <2> DEFINE x == Get(s["ssz_dep_constants"], n).text
  <2>1. n \in Gindices /\ n # NoName
    BY <1>1, GindicesFrom
  <2>2. Get(c, n).text = x
    BY <1>1 DEF BuildersServed
  <2>3. n \in Keys(s["ssz_dep_constants"])
    BY <1>3
  <2>4. \A u \in Sections : u # "ssz_dep_constants" => n \notin Keys(s[u])
    BY <1>1, <1>4, <2>3 DEF NamesApart
  <2> HIDE DEF x
  <2>5. Tells(pyspec, n, x)
    BY <1>4, <2>1, <2>2, <2>4, ReservedTells
  <2> QED
    BY <1>5, <1>6, <2>5 DEF x
<1>7. ASSUME NEW n \in Keys(d) \ deprecate_presets(spec_fork),
             a = Assertion(n, Get(s["func_dep_presets"], n).text)
      PROVE  \A m \in a.needs : pyspec[LastBinding(m)].text = a.text
  <2> DEFINE x == Yaml[n]
  <2>1. n \in ProofDepths
    BY <1>1, DepthsFrom
  <2>2. Get(s["func_dep_presets"], n).text = x
    BY <1>1 DEF BuildersServed
  <2>3. n \in Keys(v) /\ n \in Keys(s["func_dep_presets"]) /\ n # NoName
    <3>1. NoName \notin Keys(v)
      BY <1>1, SectionsNamed
    <3> QED
      BY <1>3, <3>1
  <2>4. \A u \in Sections : u \notin {"preset_vars", "func_dep_presets"} => n \notin Keys(s[u])
    BY <1>1, <1>4, <2>3 DEF NamesApart
  <2>5. n \notin Keys(c)
    <3>1. n \notin Gindices
      BY <2>1 DEF Gindices, ProofDepths
    <3> QED
      BY <1>1, <3>1, GindicesFrom
  <2>6. Get(v, n).text = x
    BY <1>2, <2>3
  <2> HIDE DEF x
  <2>7. Tells(pyspec, n, x)
    BY <1>4, <2>1, <2>3, <2>4, <2>5, <2>6, ReservedTells
  <2> QED
    BY <1>5, <1>7, <2>2, <2>7
<1>8. CASE a \in ToSet(p)
  <2>1. PICK i \in DOMAIN p : a = p[i]
    BY <1>8 DEF ToSet
  <2>2. \E n \in Keys(c) \ deprecate_constants(spec_fork) : a = Assertion(n, Get(s["ssz_dep_constants"], n).text)
    BY <1>1, <2>1, AssertedIs
  <2> QED
    BY <1>6, <2>2
<1>9. CASE a \in ToSet(q)
  <2>1. PICK i \in DOMAIN q : a = q[i]
    BY <1>9 DEF ToSet
  <2>2. \E n \in Keys(d) \ deprecate_presets(spec_fork) : a = Assertion(n, Get(s["func_dep_presets"], n).text)
    BY <1>1, <2>1, AssertedIs
  <2> QED
    BY <1>7, <2>2
<1> QED
  BY <1>8, <1>9 DEF Asserted

LEMMA ModuleRuns ==
  ASSUME Importable
  PROVE  Runs
<1>1. Loads(pyspec, {}) /\ \A i \in DOMAIN pyspec : pyspec[i].name = NoName => pyspec[i] \in Asserted
  BY ModuleLoads
<1> SUFFICES ASSUME NEW i \in DOMAIN pyspec
             PROVE  LET Defined == {pyspec[j].name : j \in 1 .. i - 1}
                    IN /\ pyspec[i].needs \subseteq Defined
                       /\ pyspec[i].name = NoName =>
                            \A n \in pyspec[i].needs : pyspec[LastBinding(n)].text = pyspec[i].text
  BY DEF Runs
<1>2. IsList(pyspec) /\ DOMAIN pyspec = 1..Len(pyspec) /\ Len(pyspec) \in Nat
  BY <1>1, ListIs DEF Loads
<1>3. pyspec[i].needs \subseteq {pyspec[j].name : j \in 1 .. i - 1}
  <2> SUFFICES ASSUME NEW n \in pyspec[i].needs
               PROVE  \E j \in 1 .. i - 1 : pyspec[j].name = n
    OBVIOUS
  <2>1. PICK j \in DOMAIN pyspec : j < i /\ pyspec[j].name = n
    BY <1>1 DEF Loads
  <2> QED
    BY <1>2, <2>1
<1> QED
  BY <1>1, <1>3, AssertedHold

(* Every name in a written module is bound before it is looked up, and     *)
(* every assertion holds, whatever forks and documents it is made of, if   *)
(* they keep to the conventions.                                           *)
THEOREM WrittenModulesRun == BuildSpecification => []WrittenModuleRuns
<1>1. BuildInit => Passed
  BY PassedBegins
<1>2. CompilerInv /\ Passed /\ [BuildNext]_<<parser, builder>> => Passed'
  BY PassedKeeps
<1>3. CompilerInv /\ Passed => WrittenModuleRuns
  BY ModuleRuns DEF WrittenModuleRuns, Importable
<1> QED
  BY <1>1, <1>2, <1>3, CompilerInvariant, PTL DEF BuildSpecification
=============================================================================
