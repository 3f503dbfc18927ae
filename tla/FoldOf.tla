-------------------------------- MODULE FoldOf --------------------------------
(***************************************************************************)
(* What a loop over a sequence computes, and what a recursion does.  The   *)
(* components write such a loop as a FoldLeft of one of their operators,   *)
(* with a parameter a that stays the same throughout, and a recursion as a *)
(* recursive function.  Both are a CHOOSE of a function.  The theorems     *)
(* here give the loop its course instead, the value h[n] after each of the *)
(* first n elements, and say that the recursion is defined when every call *)
(* comes closer to its end.  A component instantiates this module with its *)
(* operator for op and gets them for its own loops and recursions.         *)
(*                                                                         *)
(* Nothing here is about an operator of the components, so the induction   *)
(* is for sets of naturals.  The theorems assume it, and the components    *)
(* prove it once for all their loops: an instance of this module has to be *)
(* small, the provers see all of them in every step.                       *)
(***************************************************************************)
EXTENDS Integers

CONSTANT op(_, _, _)

(* A set of naturals with 0 and every successor has all of them.           *)
NatInduction == \A S : 0 \in S /\ (\A n \in Nat : n \in S => n + 1 \in S) => Nat \subseteq S

(* Max of the community modules, which FoldLeft goes by.                   *)
Largest(S) == CHOOSE x \in S : \A y \in S : x >= y

(* f folds op over each subset of the first m elements, the last one last. *)
Fold(a, base, seq, m, f) ==
  f = [s \in SUBSET (1..m) |->
         IF s = {} THEN base
         ELSE LET x == Largest(s) IN op(a, f[s \ {x}], seq[x])]

TheFold(a, base, seq, m) == CHOOSE f : Fold(a, base, seq, m, f)

(* h is the course of the loop over the first m elements.                  *)
Course(a, base, seq, m, h) ==
  /\ h = [n \in 0..m |-> h[n]]
  /\ h[0] = base
  /\ \A n \in 1..m : h[n] = op(a, h[n - 1], seq[n])

(* There is a function that folds: from m elements to m + 1.               *)
LEMMA FoldExists ==
  ASSUME NatInduction,
         NEW a, NEW base, NEW seq, NEW N \in Nat
  PROVE  \E f : Fold(a, base, seq, N, f)
<1> DEFINE S == {m \in Nat : \E f : Fold(a, base, seq, m, f)}
<1>1. 0 \in S
  <2> DEFINE f == [s \in {{}} |-> base]
  <2>1. SUBSET (1..0) = {{}}
    OBVIOUS
  <2>2. Fold(a, base, seq, 0, f)
    BY <2>1 DEF Fold
  <2> QED
    BY <2>2
<1>2. ASSUME NEW m \in Nat, m \in S PROVE m + 1 \in S
  <2>1. PICK f : Fold(a, base, seq, m, f)
    BY <1>2
  <2> DEFINE T == SUBSET (1..(m + 1))
             g == [s \in T |-> IF m + 1 \in s
                               THEN op(a, f[s \ {m + 1}], seq[m + 1])
                               ELSE f[s]]
  <2>2. ASSUME NEW s \in T, s # {}
        PROVE  g[s] = op(a, g[s \ {Largest(s)}], seq[Largest(s)])
    <3>1. CASE m + 1 \in s
      <4>1. \A y \in s : m + 1 >= y
        OBVIOUS
      <4>2. \A x \in s : (\A y \in s : x >= y) => x = m + 1
        BY <3>1
      <4>3. Largest(s) = m + 1
        BY <3>1, <4>1, <4>2 DEF Largest
      <4>4. s \ {m + 1} \in T /\ m + 1 \notin s \ {m + 1}
        OBVIOUS
      <4> QED
        BY <3>1, <4>3, <4>4
    <3>2. CASE m + 1 \notin s
      <4>1. s \subseteq 1..m
        BY <3>2
      <4>2. f[s] = op(a, f[s \ {Largest(s)}], seq[Largest(s)])
        BY <2>1, <2>2, <4>1 DEF Fold
      <4>3. s \ {Largest(s)} \in T /\ m + 1 \notin s \ {Largest(s)}
        BY <3>2
      <4> QED
        BY <3>2, <4>2, <4>3
    <3> QED
      BY <3>1, <3>2
  <2>3. g[{}] = base
    BY <2>1 DEF Fold
  <2>4. Fold(a, base, seq, m + 1, g)
    <3>1. g = [s \in T |-> g[s]]
      OBVIOUS
    <3> HIDE DEF g
    <3>2. \A s \in T : g[s] = IF s = {} THEN base
                              ELSE LET x == Largest(s) IN op(a, g[s \ {x}], seq[x])
      BY <2>2, <2>3
    <3> QED
      BY <3>1, <3>2 DEF Fold
  <2> QED
    BY <2>4
<1>3. Nat \subseteq S
  <2> HIDE DEF S
  <2> QED
    BY <1>1, <1>2 DEF NatInduction
<1> QED
  BY <1>3

(* The set of the first n indices, and what is left of it without n.       *)
LEMMA FirstIndices ==
  ASSUME NEW n \in Nat, n > 0
  PROVE  Largest(1..n) = n /\ (1..n) \ {n} = 1..(n - 1)
<1>1. \A x \in 1..n : (\A y \in 1..n : x >= y) => x = n
  OBVIOUS
<1>2. n \in 1..n /\ \A y \in 1..n : n >= y
  OBVIOUS
<1>3. Largest(1..n) = n
  BY <1>1, <1>2 DEF Largest
<1>4. \A k : k \in (1..n) \ {n} <=> k \in 1..(n - 1)
  OBVIOUS
<1> QED
  BY <1>3, <1>4

(* The loop has a course, and the fold is where it ends.                   *)
THEOREM FoldHasCourse ==
  ASSUME NatInduction,
         NEW a, NEW base, NEW seq, NEW N \in Nat
  PROVE  \E h : /\ Course(a, base, seq, N, h)
                /\ h[N] = TheFold(a, base, seq, N)[1..N]
<1> DEFINE f == TheFold(a, base, seq, N)
           h == [n \in 0..N |-> f[1..n]]
<1>1. Fold(a, base, seq, N, f)
  BY FoldExists DEF TheFold
<1> HIDE DEF f
<1>2. h[0] = base
  BY <1>1 DEF Fold
<1>3. ASSUME NEW n \in 1..N PROVE h[n] = op(a, h[n - 1], seq[n])
  <2> DEFINE I == 1..n
  <2>1. I \in SUBSET (1..N) /\ I # {}
    OBVIOUS
  <2>2. Largest(I) = n /\ I \ {n} = 1..(n - 1)
    BY FirstIndices
  <2>3. h[n] = f[I] /\ h[n - 1] = f[1..(n - 1)]
    OBVIOUS
  <2> HIDE DEF I
  <2>4. f[I] = op(a, f[I \ {Largest(I)}], seq[Largest(I)])
    BY <1>1, <2>1 DEF Fold
  <2> QED
    BY <2>2, <2>3, <2>4
<1>4. h = [n \in 0..N |-> h[n]] /\ h[N] = f[1..N]
  OBVIOUS
<1> HIDE DEF h
<1>5. Course(a, base, seq, N, h)
  BY <1>2, <1>3, <1>4 DEF Course
<1> QED
  BY <1>4, <1>5 DEF f

-----------------------------------------------------------------------------
(* f of x is what f of next[x] makes of it, and so on until an x in Z.     *)
Walk(a, D, Z, base, next, f) ==
  f = [x \in D |-> IF x \in Z THEN base[x] ELSE op(a, f[next[x]], x)]

(* Two walks agree where both are defined, if they come to an end.         *)
LEMMA WalksAgree ==
  ASSUME NatInduction,
         NEW a, NEW Z, NEW base, NEW next, NEW D, NEW E, NEW f, NEW g,
         NEW left, \A x \in D : left[x] \in Nat,
         \A x \in (D \cap E) \ Z : next[x] \in D \cap E /\ left[next[x]] < left[x],
         Walk(a, D, Z, base, next, f), Walk(a, E, Z, base, next, g)
  PROVE  \A x \in D \cap E : f[x] = g[x]
<1> DEFINE S == {k \in Nat : \A x \in D \cap E : left[x] < k => f[x] = g[x]}
<1>1. 0 \in S
  OBVIOUS
<1>2. ASSUME NEW k \in Nat, k \in S PROVE k + 1 \in S
  <2> SUFFICES ASSUME NEW x \in D \cap E, left[x] < k + 1
               PROVE  f[x] = g[x]
    OBVIOUS
  <2>1. CASE x \in Z
    BY <2>1 DEF Walk
  <2>2. CASE x \notin Z
    <3>1. next[x] \in D \cap E /\ left[next[x]] < k
      BY <2>2
    <3>2. f[next[x]] = g[next[x]]
      BY <1>2, <3>1
    <3> QED
      BY <2>2, <3>2 DEF Walk
  <2> QED
    BY <2>1, <2>2
<1>3. Nat \subseteq S
  <2> HIDE DEF S
  <2> QED
    BY <1>1, <1>2 DEF NatInduction
<1>4. ASSUME NEW x \in D \cap E PROVE f[x] = g[x]
  <2>1. left[x] + 1 \in S /\ left[x] < left[x] + 1
    BY <1>3
  <2> QED
    BY <2>1
<1> QED
  BY <1>4

(* A recursion that comes closer to its end with every call is defined:    *)
(* first for the x within n calls of it, then for all of D.                *)
THEOREM WalkExists ==
  ASSUME NatInduction,
         NEW a, NEW D, NEW Z, NEW base, NEW next,
         NEW left, \A x \in D : left[x] \in Nat,
         \A x \in D \ Z : next[x] \in D /\ left[next[x]] < left[x]
  PROVE  \E f : Walk(a, D, Z, base, next, f)
<1> DEFINE Near(n) == {x \in D : left[x] < n}
           S == {n \in Nat : \E f : Walk(a, Near(n), Z, base, next, f)}
<1>1. 0 \in S
  <2>1. Near(0) = {}
    OBVIOUS
  <2>2. Walk(a, {}, Z, base, next, [x \in {} |-> x])
    BY DEF Walk
  <2> QED
    BY <2>1, <2>2
<1>2. ASSUME NEW n \in Nat, n \in S PROVE n + 1 \in S
  <2>1. PICK f : Walk(a, Near(n), Z, base, next, f)
    BY <1>2
  <2> DEFINE g == [x \in Near(n + 1) |->
                     IF x \in Z THEN base[x] ELSE op(a, f[next[x]], x)]
  <2>2. ASSUME NEW x \in Near(n + 1) \ Z
        PROVE  next[x] \in Near(n) /\ next[x] \in Near(n + 1)
    OBVIOUS
  <2>3. ASSUME NEW x \in Near(n + 1) \ Z
        PROVE  g[next[x]] = f[next[x]]
    <3> HIDE DEF Near
    <3> QED
      BY <2>1, <2>2 DEF Walk
  <2>4. Walk(a, Near(n + 1), Z, base, next, g)
    <3> HIDE DEF Near
    <3> QED
      BY <2>3 DEF Walk
  <2> HIDE DEF g, Near
  <2>5. n + 1 \in Nat
    OBVIOUS
  <2> QED
    BY ONLY <2>4, <2>5
<1>3. Nat \subseteq S
  <2> HIDE DEF S
  <2> QED
    BY <1>1, <1>2 DEF NatInduction
<1> DEFINE B(n) == CHOOSE f : Walk(a, Near(n), Z, base, next, f)
           h == [x \in D |-> B(left[x] + 1)[x]]
<1>4. ASSUME NEW n \in Nat PROVE Walk(a, Near(n), Z, base, next, B(n))
  <2>1. \E f : Walk(a, Near(n), Z, base, next, f)
    BY <1>3
  <2> HIDE DEF Near
  <2> QED
    BY <2>1
<1>5. ASSUME NEW x \in D \ Z PROVE h[x] = op(a, h[next[x]], x)
  <2> DEFINE n == left[x] + 1
             m == left[next[x]] + 1
  <2>1. /\ next[x] \in D /\ n \in Nat /\ m \in Nat
        /\ x \in Near(n) /\ next[x] \in Near(n) /\ next[x] \in Near(m)
    OBVIOUS
  <2>2. \A y \in Near(n) : left[y] \in Nat
    OBVIOUS
  <2>3. \A y \in (Near(n) \cap Near(m)) \ Z :
          next[y] \in Near(n) \cap Near(m) /\ left[next[y]] < left[y]
    OBVIOUS
  <2>4. h[x] = B(n)[x] /\ h[next[x]] = B(m)[next[x]]
    BY <2>1
  <2>5. Walk(a, Near(n), Z, base, next, B(n)) /\ Walk(a, Near(m), Z, base, next, B(m))
    BY <1>4, <2>1
  <2> HIDE DEF Near, B, h, n, m
  <2>6. B(n)[next[x]] = B(m)[next[x]]
    BY <2>1, <2>2, <2>3, <2>5, WalksAgree
  <2>7. B(n)[x] = op(a, B(n)[next[x]], x)
    BY <2>1, <2>5 DEF Walk
  <2> QED
    BY <2>4, <2>6, <2>7
<1>6. ASSUME NEW x \in D \cap Z PROVE h[x] = base[x]
  <2>1. left[x] + 1 \in Nat /\ x \in Near(left[x] + 1) /\ h[x] = B(left[x] + 1)[x]
    OBVIOUS
  <2> HIDE DEF Near, B, h
  <2> QED
    BY <1>4, <2>1 DEF Walk
<1>7. h = [x \in D |-> h[x]]
  OBVIOUS
<1> HIDE DEF h
<1>8. Walk(a, D, Z, base, next, h)
  BY <1>5, <1>6, <1>7 DEF Walk
<1> QED
  BY <1>8

=============================================================================
