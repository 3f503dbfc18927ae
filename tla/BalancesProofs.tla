---------------------------- MODULE BalancesProofs ----------------------------
(***************************************************************************)
(* The money of an Electra chain, for every registry, every bound and      *)
(* every course of finality and rewards.                                   *)
(*                                                                         *)
(* First, what the churn of exits amounts to.  The state keeps the epoch   *)
(* the exit queue has reached and what is left of that epoch's churn; from *)
(* any exit on, what has left and what is left over together are at most   *)
(* the maximal churn of the epochs since.                                  *)
(*                                                                         *)
(* Then one lemma for each function of the code that changes a state.  It  *)
(* says which fields the function may change, and that the result is as    *)
(* sound and as well accounted for as what it was given.  A loop of the    *)
(* code is a FoldLeft of its body; FoldOf gives it a course, and the lemma *)
(* of the body is what each turn keeps.                                    *)
(*                                                                         *)
(* The withdrawals of a block are collected first and paid afterwards.  No *)
(* validator is in the list for more than it has (WithinBalances), so each *)
(* payment takes all of its amount and the sum of the list is what leaves  *)
(* the balances.                                                           *)
(*                                                                         *)
(* At the end, the invariant that every step of Balances keeps.            *)
(***************************************************************************)
EXTENDS Balances, WellFoundedInduction, TLAPS

-----------------------------------------------------------------------------
(* Induction, for the loops and recursions below. *)

(* A set of naturals with 0 and every successor has all of them.           *)
LEMMA NatSetInduction ==
  \A S : 0 \in S /\ (\A n \in Nat : n \in S => n + 1 \in S) => Nat \subseteq S
<1> SUFFICES ASSUME NEW S, 0 \in S, \A n \in Nat : n \in S => n + 1 \in S
             PROVE  Nat \subseteq S
  OBVIOUS
<1> DEFINE R == {ss \in Nat \X Nat : ss[1] < ss[2]}
           T == Nat \ S
<1> SUFFICES ASSUME T # {} PROVE FALSE
  OBVIOUS
<1>1. IsWellFoundedOn(R, Nat)
  BY NatLessThanWellFounded DEF OpToRel
<1>2. T \subseteq Nat
  OBVIOUS
<1>3. PICK x \in T : \A y \in T : <<y, x>> \notin R
  <2> HIDE DEF R, T
  <2> QED
    BY <1>1, <1>2, WFMin
<1>4. x - 1 \in Nat /\ x - 1 < x /\ (x - 1) + 1 = x
  OBVIOUS
<1>5. <<x - 1, x>> \in R
  BY <1>4
<1>6. x - 1 \in S
  BY <1>3, <1>4, <1>5
<1> QED
  BY <1>4, <1>6

(* What is so before a loop of N turns, and stays so through each of them, *)
(* is so all the way.                                                      *)
LEMMA UpTo ==
  ASSUME NEW N \in Nat, NEW S, 0 \in S, \A n \in 1..N : n - 1 \in S => n \in S
  PROVE  0..N \subseteq S
<1> DEFINE T == {n \in Nat : n <= N => n \in S}
<1>1. 0 \in T
  OBVIOUS
<1>2. ASSUME NEW n \in Nat, n \in T PROVE n + 1 \in T
  <2>1. CASE n + 1 <= N
    <3>1. n + 1 \in 1..N /\ (n + 1) - 1 = n
      BY <2>1
    <3> QED
      BY <1>2, <2>1, <3>1
  <2> QED
    BY <2>1
<1>3. Nat \subseteq T
  <2> HIDE DEF T
  <2> QED
    BY <1>1, <1>2, NatSetInduction
<1> QED
  BY <1>3

MaxChurn == MAX_PER_EPOCH_ACTIVATION_EXIT_CHURN_LIMIT

(* The exit queue of a state, with the exits it has taken. *)
QueueSound(s) ==
  /\ {"earliest_exit_epoch", "exit_balance_to_consume", "exits"} \subseteq DOMAIN s
  /\ s.earliest_exit_epoch \in Nat
  /\ s.exit_balance_to_consume \in 0..MaxChurn
  /\ s.exits \in Seq([epoch : Nat, so_far : Nat])
  /\ \A i \in DOMAIN s.exits :
       /\ s.exits[i].epoch <= s.earliest_exit_epoch
       /\ TakenSoFar(s.exits) - s.exits[i].so_far + s.exit_balance_to_consume
            <= (s.earliest_exit_epoch - s.exits[i].epoch + 1) * MaxChurn

-----------------------------------------------------------------------------
(* Arithmetic of products, for the steps below. *)
LEMMA Products ==
  ASSUME NEW a \in Nat, NEW b \in Nat, NEW m \in Nat
  PROVE  /\ a * m \in Nat /\ m * a = a * m
         /\ (a + b) * m = a * m + b * m
         /\ a <= b => a * m <= b * m
         /\ b >= 1 => a * b >= a
<1>1. a * m \in Nat /\ m * a = a * m /\ (a + b) * m = a * m + b * m
  BY SMTT(30)
<1>2. ASSUME a <= b PROVE a * m <= b * m
  BY <1>2, SMTT(30)
<1>3. ASSUME b >= 1 PROVE a * b >= a
  BY <1>3, SMTT(30)
<1> QED
  BY <1>1, <1>2, <1>3

(* The limit is positive and never above its maximum, whatever is active.  *)
LEMMA LimitInRange ==
  ASSUME NEW s, get_total_active_balance(s) \in Nat,
         MAX_PER_EPOCH_ACTIVATION_EXIT_CHURN_LIMIT \in Nat,
         MIN_PER_EPOCH_CHURN_LIMIT_ELECTRA \in Nat
  PROVE  get_activation_exit_churn_limit(s) \in 1..MaxChurn
<1> DEFINE total == get_total_active_balance(s)
           inc == EFFECTIVE_BALANCE_INCREMENT
           churn == Greatest(MIN_PER_EPOCH_CHURN_LIMIT_ELECTRA,
                             total \div CHURN_LIMIT_QUOTIENT)
<1>1. /\ inc \in Nat /\ inc > 0 /\ CHURN_LIMIT_QUOTIENT \in Nat
      /\ CHURN_LIMIT_QUOTIENT > 0
      /\ MIN_PER_EPOCH_CHURN_LIMIT_ELECTRA >= inc /\ MaxChurn >= inc
  BY RegistryConstants DEF MaxChurn
<1>2. total \div CHURN_LIMIT_QUOTIENT \in Nat
  BY <1>1, SMTT(30)
<1> HIDE DEF total
<1>3. churn \in Nat /\ churn >= inc
  BY <1>1, <1>2 DEF Greatest
<1> HIDE DEF churn
<1>4. churn % inc \in 0..(inc - 1) /\ churn % inc <= churn - inc
  <2>1. churn % inc \in 0..(inc - 1) /\ churn = inc * (churn \div inc) + (churn % inc)
        /\ churn \div inc \in Nat
    BY <1>1, <1>3, SMTT(30)
  <2>2. churn \div inc >= 1
    BY <1>1, <1>3, <2>1, SMTT(30)
  <2>3. inc * (churn \div inc) >= inc
    <3>1. inc \in Nat /\ churn \div inc \in Nat
      BY <1>1, <2>1
    <3> QED
      BY <3>1, <2>2, Products
  <2> QED
    BY <1>1, <1>3, <2>1, <2>3, SMTT(30)
<1>5. get_balance_churn_limit(s) \in Nat /\ get_balance_churn_limit(s) >= inc
  BY <1>1, <1>3, <1>4 DEF get_balance_churn_limit, churn, total
<1> QED
  BY <1>1, <1>5 DEF get_activation_exit_churn_limit, Least, MaxChurn

(* How a balance spreads over the epochs: none of it is lost, and less than *)
(* one epoch's limit stays over if it opened a new epoch.                  *)
LEMMA SpreadIsExact ==
  ASSUME NEW epoch \in Nat, NEW left \in Nat, NEW limit \in Nat, limit > 0,
         NEW balance \in Nat
  PROVE  LET taken == Spread(epoch, left, limit, balance)
             k == taken.epoch - epoch
         IN /\ taken.epoch \in Nat /\ taken.left \in Nat /\ k \in Nat
            /\ taken.left + balance = left + k * limit
            /\ taken.left <= left \/ taken.left < limit
<1> DEFINE gap == balance - left - 1
           q == gap \div limit
           k == IF balance > left THEN q + 1 ELSE 0
<1>1. Spread(epoch, left, limit, balance) =
        [epoch |-> epoch + k, left |-> left + k * limit - balance]
  BY DEF Spread
<1>2. CASE balance > left
  <2>1. gap \in Nat
    BY <1>2
  <2> HIDE DEF gap
  <2>2. q \in Nat /\ gap % limit \in 0..(limit - 1) /\ gap = limit * q + (gap % limit)
    BY <2>1, SMTT(30)
  <2> HIDE DEF q
  <2>3. k = q + 1 /\ k * limit = limit * q + limit /\ k * limit \in Nat
    BY <1>2, <2>2, SMTT(30)
  <2>4. limit * q \in Nat
    BY <2>2, SMTT(30)
  <2>5. left + k * limit - balance = limit - 1 - (gap % limit)
    BY <2>2, <2>3, <2>4 DEF gap
  <2> QED
    BY <1>1, <2>2, <2>3, <2>5
<1>3. CASE ~(balance > left)
  BY <1>1, <1>3
<1> QED
  BY <1>2, <1>3

(* What leaves in a step, bounded by the epochs the step opens. *)
LEMMA TakenIsBounded ==
  ASSUME NEW earliest \in Nat, NEW left \in 0..MaxChurn, NEW limit \in 1..MaxChurn,
         NEW floor \in Nat, NEW balance \in Nat, MaxChurn \in Nat
  PROVE  LET taken == ChurnTaken(earliest, left, limit, floor, balance)
         IN /\ taken.epoch \in Nat /\ taken.epoch >= earliest
            /\ taken.left \in 0..MaxChurn
            /\ taken.left + balance <= left + (taken.epoch - earliest) * MaxChurn
<1> DEFINE taken == ChurnTaken(earliest, left, limit, floor, balance)
<1>0. limit \in Nat /\ limit > 0 /\ limit <= MaxChurn /\ left \in Nat /\ left <= MaxChurn
  OBVIOUS
<1>1. CASE earliest < floor
  <2> DEFINE k == taken.epoch - floor
  <2>1. taken = Spread(floor, limit, limit, balance)
    BY <1>1 DEF ChurnTaken
  <2> HIDE DEF taken
  <2>2. /\ taken.epoch \in Nat /\ taken.left \in Nat /\ k \in Nat
        /\ taken.left + balance = limit + k * limit
        /\ taken.left <= limit
    <3>1. LET x == Spread(floor, limit, limit, balance)
          IN /\ x.epoch \in Nat /\ x.left \in Nat /\ x.epoch - floor \in Nat
             /\ x.left + balance = limit + (x.epoch - floor) * limit
             /\ x.left <= limit \/ x.left < limit
      BY <1>0, SpreadIsExact
    <3> QED
      BY <1>0, <2>1, <3>1
  <2>3. taken.epoch - earliest >= k + 1 /\ taken.epoch - earliest \in Nat
    BY <1>1, <2>2
  <2> HIDE DEF k
  <2>4. /\ k * limit <= k * MaxChurn
        /\ (k + 1) * MaxChurn = k * MaxChurn + 1 * MaxChurn
        /\ k * limit \in Nat /\ k * MaxChurn \in Nat
        /\ k + 1 \in Nat
    BY <1>0, <2>2, Products
  <2>5. (k + 1) * MaxChurn <= (taken.epoch - earliest) * MaxChurn
        /\ (taken.epoch - earliest) * MaxChurn \in Nat
    BY <2>3, <2>4, Products
  <2>6. limit + k * limit <= MaxChurn + k * MaxChurn
    BY <1>0, <2>4
  <2>7. taken.left + balance <= (taken.epoch - earliest) * MaxChurn
    BY <1>0, <2>2, <2>4, <2>5, <2>6
  <2> QED
    BY <1>0, <1>1, <2>2, <2>3, <2>5, <2>7 DEF taken
<1>2. CASE ~(earliest < floor)
  <2> DEFINE k == taken.epoch - earliest
  <2>1. taken = Spread(earliest, left, limit, balance)
    BY <1>2 DEF ChurnTaken
  <2> HIDE DEF taken
  <2>2. /\ taken.epoch \in Nat /\ taken.left \in Nat /\ k \in Nat
        /\ taken.left + balance = left + k * limit
        /\ taken.left <= left \/ taken.left < limit
    <3>1. LET x == Spread(earliest, left, limit, balance)
          IN /\ x.epoch \in Nat /\ x.left \in Nat /\ x.epoch - earliest \in Nat
             /\ x.left + balance = left + (x.epoch - earliest) * limit
             /\ x.left <= left \/ x.left < limit
      BY <1>0, SpreadIsExact
    <3> QED
      BY <2>1, <3>1
  <2>3. taken.epoch >= earliest /\ taken.left <= MaxChurn
    BY <1>0, <2>2
  <2>4. k * limit <= k * MaxChurn /\ k * limit \in Nat /\ k * MaxChurn \in Nat
    BY <1>0, <2>2, Products
  <2> QED
    BY <1>0, <2>2, <2>3, <2>4 DEF taken
<1> QED
  BY <1>1, <1>2

(* One more exit keeps the queue sound, and exits that fit, whatever the   *)
(* churn limit has become since the last one.                              *)
THEOREM ExitsKeepWithinChurn ==
  ASSUME MAX_PER_EPOCH_ACTIVATION_EXIT_CHURN_LIMIT \in Nat,
         MIN_PER_EPOCH_CHURN_LIMIT_ELECTRA \in Nat,
         NEW s, QueueSound(s),
         get_total_active_balance(s) \in Nat, get_current_epoch(s) \in Nat,
         NEW exit_balance \in Nat
  PROVE  LET t == compute_exit_epoch_and_update_churn(s, exit_balance)
         IN /\ QueueSound(t)
            /\ AllExitsFit(s) => AllExitsFit(t)
<1> DEFINE t == compute_exit_epoch_and_update_churn(s, exit_balance)
           exits == s.exits
           n == Len(exits)
           earliest == s.earliest_exit_epoch
           left == s.exit_balance_to_consume
           so_far == TakenSoFar(exits)
           limit == get_activation_exit_churn_limit(s)
           floor == compute_activation_exit_epoch(get_current_epoch(s))
           taken == ChurnTaken(earliest, left, limit, floor, exit_balance)
           exit == [epoch |-> taken.epoch, so_far |-> so_far + exit_balance]
<1>1. limit \in 1..MaxChurn /\ floor \in Nat /\ MaxChurn \in Nat
  BY LimitInRange, RegistryConstants DEF compute_activation_exit_epoch, MaxChurn
<1>2. /\ earliest \in Nat /\ left \in 0..MaxChurn
      /\ exits \in Seq([epoch : Nat, so_far : Nat])
      /\ \A i \in DOMAIN exits :
           /\ exits[i].epoch <= earliest
           /\ so_far - exits[i].so_far + left <= (earliest - exits[i].epoch + 1) * MaxChurn
  BY DEF QueueSound
<1>3. /\ \A i \in DOMAIN t.exits :
           /\ t.exits[i].epoch <= t.earliest_exit_epoch
           /\ TakenSoFar(t.exits) - t.exits[i].so_far + t.exit_balance_to_consume
                <= (t.earliest_exit_epoch - t.exits[i].epoch + 1) * MaxChurn
      /\ t.earliest_exit_epoch \in Nat
      /\ t.exit_balance_to_consume \in 0..MaxChurn
      /\ t.exits \in Seq([epoch : Nat, so_far : Nat])
      /\ {"earliest_exit_epoch", "exit_balance_to_consume", "exits"} \subseteq DOMAIN t
      => QueueSound(t)
  BY DEF QueueSound
<1>4. /\ t.exits = Append(exits, exit)
      /\ t.earliest_exit_epoch = taken.epoch
      /\ t.exit_balance_to_consume = taken.left
      /\ {"earliest_exit_epoch", "exit_balance_to_consume", "exits"} \subseteq DOMAIN t
  BY DEF compute_exit_epoch_and_update_churn, QueueSound
<1> HIDE DEF t, exits, earliest, left, limit, floor, taken
<1>5. /\ n \in Nat /\ DOMAIN exits = 1..n
      /\ \A i \in 1..n : exits[i].epoch \in Nat /\ exits[i].so_far \in Nat
  <2> DEFINE R == [epoch : Nat, so_far : Nat]
  <2>1. \A x \in R : x.epoch \in Nat /\ x.so_far \in Nat
    OBVIOUS
  <2> HIDE DEF R
  <2>2. exits \in Seq(R)
    BY <1>2 DEF R
  <2>3. n \in Nat /\ DOMAIN exits = 1..n /\ \A i \in 1..n : exits[i] \in R
    BY <2>2
  <2> QED
    BY <2>1, <2>3
<1>6. so_far \in Nat
  <2>1. CASE exits = <<>>
    BY <2>1 DEF TakenSoFar
  <2>2. CASE exits # <<>>
    <3>1. n \in 1..n
      BY <1>2, <1>5, <2>2
    <3> QED
      BY <1>5, <2>2, <3>1 DEF TakenSoFar
  <2> QED
    BY <2>1, <2>2
<1> HIDE DEF so_far
<1>7. /\ taken.epoch \in Nat /\ taken.epoch >= earliest
      /\ taken.left \in 0..MaxChurn
      /\ taken.left + exit_balance <= left + (taken.epoch - earliest) * MaxChurn
  BY <1>1, <1>2, TakenIsBounded DEF taken
<1>8. /\ exit \in [epoch : Nat, so_far : Nat]
      /\ exit.epoch = taken.epoch /\ exit.so_far = so_far + exit_balance
  BY <1>6, <1>7
<1> HIDE DEF exit
<1>9. /\ t.exits \in Seq([epoch : Nat, so_far : Nat])
      /\ Len(t.exits) = n + 1
      /\ t.exits[n + 1] = exit
      /\ \A i \in 1..n : t.exits[i] = exits[i]
      /\ DOMAIN t.exits = 1..(n + 1)
      /\ t.exits # <<>>
  <2> DEFINE R == [epoch : Nat, so_far : Nat]
             new == Append(exits, exit)
  <2>1. exits \in Seq(R) /\ exit \in R
    BY <1>2, <1>8
  <2> HIDE DEF R
  <2>2. /\ new \in Seq(R) /\ Len(new) = n + 1 /\ new[n + 1] = exit
        /\ \A i \in 1..n : new[i] = exits[i]
        /\ DOMAIN new = 1..(n + 1)
    BY <2>1
  <2>3. new # <<>>
    BY <1>5, <2>2
  <2> QED
    BY <1>4, <2>2, <2>3 DEF R
<1> HIDE DEF n
<1>10. TakenSoFar(t.exits) = exit.so_far
  BY <1>9 DEF TakenSoFar
<1>11. ASSUME NEW i \in 1..n
      PROVE  /\ exits[i].epoch <= taken.epoch
             /\ exit.so_far - exits[i].so_far + taken.left
                  <= (taken.epoch - exits[i].epoch + 1) * MaxChurn
             /\ (taken.epoch - exits[i].epoch + 1) * MaxChurn \in Nat
  <2> DEFINE a == earliest - exits[i].epoch + 1
             b == taken.epoch - earliest
             before == exits[i].so_far
  <2>1. /\ exits[i].epoch \in Nat /\ before \in Nat
        /\ exits[i].epoch <= earliest
        /\ so_far - before + left <= a * MaxChurn
    BY <1>2, <1>5
  <2>2. a \in Nat /\ b \in Nat /\ a + b = taken.epoch - exits[i].epoch + 1
        /\ exits[i].epoch <= taken.epoch
    <3>1. earliest \in Nat /\ taken.epoch \in Nat /\ taken.epoch >= earliest
      BY <1>2, <1>7
    <3> QED
      BY <2>1, <3>1
  <2>3. taken.left + exit_balance <= left + b * MaxChurn
    BY <1>7
  <2> HIDE DEF a, b, before
  <2>4. (a + b) * MaxChurn = a * MaxChurn + b * MaxChurn
        /\ a * MaxChurn \in Nat /\ b * MaxChurn \in Nat
    BY <1>1, <2>2, Products
  <2>5. taken.left \in Nat /\ left \in Nat
    BY <1>1, <1>2, <1>7
  <2>6. so_far + exit_balance - before + taken.left <= (a + b) * MaxChurn
    BY <1>6, <2>1, <2>3, <2>4, <2>5
  <2>7. (a + b) * MaxChurn \in Nat
    BY <2>4
  <2>8. exit.so_far - exits[i].so_far + taken.left <= (a + b) * MaxChurn
    <3>1. exits[i].so_far = before
      BY DEF before
    <3>2. exit.so_far = so_far + exit_balance
      BY <1>8
    <3> QED
      BY <1>6, <2>1, <2>5, <2>6, <2>7, <3>1, <3>2
  <2> QED
    BY <2>2, <2>7, <2>8
<1>12. ASSUME NEW i \in 1..(n + 1)
       PROVE  /\ t.exits[i].epoch <= taken.epoch
              /\ exit.so_far - t.exits[i].so_far + taken.left
                   <= (taken.epoch - t.exits[i].epoch + 1) * MaxChurn
  <2>1. CASE i \in 1..n
    BY <1>9, <1>11, <2>1
  <2>2. CASE i = n + 1
    <3>1. taken.epoch - exit.epoch + 1 = 1 /\ exit.so_far - exit.so_far = 0
      BY <1>6, <1>7, <1>8
    <3>2. 1 * MaxChurn = MaxChurn /\ taken.left \in Nat /\ taken.left <= MaxChurn
      BY <1>1, <1>7
    <3>3. exit.so_far - exit.so_far + taken.left
            <= (taken.epoch - exit.epoch + 1) * MaxChurn
      BY <3>1, <3>2
    <3> QED
      BY <1>7, <1>8, <1>9, <2>2, <3>3
  <2> QED
    BY <1>5, <2>1, <2>2 DEF n
<1>13. QueueSound(t)
  BY <1>3, <1>4, <1>7, <1>9, <1>10, <1>12
<1>14. ASSUME NEW i \in 1..n PROVE ExitsFit(t, i, Len(t.exits))
  <2> DEFINE bound == (taken.epoch - exits[i].epoch + 1) * MaxChurn
  <2>1. /\ exit.so_far \in Nat /\ exits[i].so_far \in Nat /\ taken.left \in Nat
        /\ bound \in Nat /\ exit.so_far - exits[i].so_far + taken.left <= bound
    BY <1>5, <1>6, <1>7, <1>8, <1>11
  <2> HIDE DEF bound
  <2>2. exit.so_far - exits[i].so_far <= bound
    BY <2>1
  <2> QED
    BY <1>8, <1>9, <2>2 DEF ExitsFit, MaxChurn, bound
<1>15. ASSUME AllExitsFit(s) PROVE AllExitsFit(t)
  <2>1. SUFFICES ASSUME NEW j \in 1..(n + 1), NEW i \in 1..(j - 1)
                 PROVE  ExitsFit(t, i, j)
    BY <1>9 DEF AllExitsFit
  <2>2. n \in Nat
    BY <1>5
  <2>3. CASE j = n + 1
    <3>1. i \in 1..n
      BY <2>2, <2>3
    <3> QED
      BY <1>9, <1>14, <2>3, <3>1
  <2>4. CASE j # n + 1
    <3>1. j \in 1..n /\ i \in 1..n
      BY <2>2, <2>4
    <3>2. ExitsFit(s, i, j)
      BY <1>5, <1>15, <3>1 DEF AllExitsFit, exits
    <3>3. t.exits[i] = s.exits[i] /\ t.exits[j] = s.exits[j]
      BY <1>9, <3>1 DEF exits
    <3> QED
      BY <3>2, <3>3 DEF ExitsFit
  <2> QED
    BY <2>3, <2>4
<1> QED
  BY <1>13, <1>15 DEF t

-----------------------------------------------------------------------------
(* Sums. *)

Plus(a, x, y) == x + y
Adding == INSTANCE FoldOf WITH op <- Plus

LEMMA AddingInducts == Adding!NatInduction
BY NatSetInduction DEF Adding!NatInduction

(* A sum is where its partial sums end, and these are natural numbers if   *)
(* all the terms are.                                                      *)
LEMMA PartialSums ==
  ASSUME NEW seq \in Seq(Int)
  PROVE  \E P \in [0..Len(seq) -> Int] :
           /\ P[0] = 0
           /\ \A n \in 1..Len(seq) : P[n] = P[n - 1] + seq[n]
           /\ Total(seq) = P[Len(seq)]
           /\ seq \in Seq(Nat) => P[Len(seq)] \in Nat
<1> DEFINE N == Len(seq)
<1>1. N \in Nat /\ DOMAIN seq = 1..N /\ \A n \in 1..N : seq[n] \in Int
  OBVIOUS
<1>2. PICK h : /\ Adding!Course(0, 0, seq, N, h)
               /\ h[N] = Adding!TheFold(0, 0, seq, N)[1..N]
  <2> HIDE DEF N
  <2> QED
    BY <1>1, Adding!FoldHasCourse, AddingInducts
<1>3. Total(seq) = h[N]
  <2>1. Total(seq) = Adding!TheFold(0, 0, seq, N)[1..N]
    BY <1>1 DEF Total, FoldLeft, MapThenFoldSet, Max,
       Adding!TheFold, Adding!Fold, Adding!Largest, Plus
  <2> QED
    BY <1>2, <2>1
<1>4. h[0] = 0 /\ \A n \in 1..N : h[n] = h[n - 1] + seq[n]
  BY <1>2 DEF Adding!Course, Plus
<1> HIDE DEF N
<1>5. \A n \in 0..N : h[n] \in Int
  <2> DEFINE S == {n \in 0..N : h[n] \in Int}
  <2>1. 0 \in S /\ \A n \in 1..N : n - 1 \in S => n \in S
    BY <1>1, <1>4
  <2> HIDE DEF S
  <2>2. 0..N \subseteq S
    BY <1>1, <2>1, UpTo
  <2> QED
    BY <2>2 DEF S
<1>6. ASSUME seq \in Seq(Nat) PROVE h[N] \in Nat
  <2> DEFINE S == {n \in 0..N : h[n] \in Nat}
  <2>1. \A n \in 1..N : seq[n] \in Nat
    BY <1>6 DEF N
  <2>2. 0 \in S /\ \A n \in 1..N : n - 1 \in S => n \in S
    BY <1>1, <1>4, <2>1
  <2> HIDE DEF S
  <2>3. 0..N \subseteq S
    BY <1>1, <2>2, UpTo
  <2> QED
    BY <1>1, <2>3 DEF S
<1>7. h \in [0..N -> Int]
  BY <1>2, <1>5 DEF Adding!Course
<1> QED
  BY <1>3, <1>4, <1>6, <1>7 DEF N

(* Whoever adds the terms up one by one arrives at the same sum.           *)
LEMMA TotalIs ==
  ASSUME NEW seq \in Seq(Int), NEW Q, Q[0] = 0,
         \A n \in 1..Len(seq) : Q[n] = Q[n - 1] + seq[n]
  PROVE  Total(seq) = Q[Len(seq)]
<1> DEFINE N == Len(seq)
<1>1. PICK P \in [0..N -> Int] :
        /\ P[0] = 0 /\ Total(seq) = P[N]
        /\ \A n \in 1..N : P[n] = P[n - 1] + seq[n]
  BY PartialSums
<1>2. N \in Nat
  OBVIOUS
<1> DEFINE S == {n \in 0..N : P[n] = Q[n]}
<1>3. 0 \in S /\ \A n \in 1..N : n - 1 \in S => n \in S
  BY <1>1
<1>4. 0..N \subseteq S
  <2> HIDE DEF S, N
  <2> QED
    BY <1>2, <1>3, UpTo
<1> QED
  BY <1>1, <1>2, <1>4

(* A sum is of the type of its terms.                                      *)
LEMMA TotalType ==
  /\ Total(<<>>) = 0
  /\ \A seq \in Seq(Int) : Total(seq) \in Int
  /\ \A seq \in Seq(Nat) : Total(seq) \in Nat
<1>1. \A seq \in Seq(Int) : Total(seq) \in Int
  <2> SUFFICES ASSUME NEW seq \in Seq(Int) PROVE Total(seq) \in Int
    OBVIOUS
  <2> QED
    BY PartialSums
<1>2. \A seq \in Seq(Nat) : Total(seq) \in Nat
  <2> SUFFICES ASSUME NEW seq \in Seq(Nat) PROVE Total(seq) \in Nat
    OBVIOUS
  <2>1. seq \in Seq(Int)
    OBVIOUS
  <2> QED
    BY <2>1, PartialSums
<1>3. Total(<<>>) = 0
  <2>1. <<>> \in Seq(Int) /\ Len(<<>>) = 0
    OBVIOUS
  <2> QED
    BY <2>1, PartialSums
<1> QED
  BY <1>1, <1>2, <1>3

(* The sum of two sequences, one after the other.                          *)
LEMMA TotalJoined ==
  ASSUME NEW s \in Seq(Int), NEW t \in Seq(Int), NEW u \in Seq(Int),
         Len(u) = Len(s) + Len(t),
         \A k \in 1..Len(s) : u[k] = s[k],
         \A k \in 1..Len(t) : u[Len(s) + k] = t[k]
  PROVE  Total(u) = Total(s) + Total(t)
<1> DEFINE m == Len(s)
           n == Len(t)
<1>1. m \in Nat /\ n \in Nat /\ \A k \in 1..n : t[k] \in Int
  OBVIOUS
<1>2. PICK P \in [0..m -> Int] :
        P[0] = 0 /\ Total(s) = P[m] /\ \A k \in 1..m : P[k] = P[k - 1] + s[k]
  BY PartialSums
<1>3. PICK R \in [0..n -> Int] :
        R[0] = 0 /\ Total(t) = R[n] /\ \A k \in 1..n : R[k] = R[k - 1] + t[k]
  BY PartialSums
<1> HIDE DEF m, n
<1> DEFINE Q == [k \in 0..(m + n) |-> IF k <= m THEN P[k] ELSE P[m] + R[k - m]]
<1>4. Q[0] = 0 /\ Q[m + n] = P[m] + R[n]
  BY <1>1, <1>2, <1>3
<1>5. ASSUME NEW k \in 1..(m + n) PROVE Q[k] = Q[k - 1] + u[k]
  <2>1. CASE k <= m
    BY <1>1, <1>2, <2>1 DEF m, n
  <2>2. CASE k > m
    <3> DEFINE j == k - m
    <3>1. j \in 1..n /\ k = m + j
      BY <1>1, <2>2
    <3> HIDE DEF j
    <3>2. u[k] = t[j]
      BY <3>1 DEF m, n
    <3>3. R[j] = R[j - 1] + t[j] /\ R[j - 1] \in Int /\ R[j] \in Int /\ t[j] \in Int
      <4>1. R[j] = R[j - 1] + t[j] /\ t[j] \in Int
        BY <1>1, <1>3, <3>1
      <4>2. j - 1 \in 0..n /\ j \in 0..n
        BY <1>1, <3>1
      <4> QED
        BY <1>3, <4>1, <4>2
    <3>4. Q[k] = P[m] + R[j]
      BY <1>1, <2>2, <3>1
    <3>5. Q[k - 1] = P[m] + R[j - 1]
      <4>1. CASE j = 1
        BY <1>1, <1>2, <1>3, <3>1, <4>1
      <4>2. CASE j # 1
        BY <1>1, <3>1, <4>2
      <4> QED
        BY <4>1, <4>2
    <3>6. P[m] \in Int
      BY <1>1, <1>2
    <3> HIDE DEF Q
    <3> QED
      BY <3>2, <3>3, <3>4, <3>5, <3>6
  <2> QED
    BY <1>1, <2>1, <2>2
<1>6. Total(u) = Q[m + n]
  <2> HIDE DEF Q
  <2> QED
    BY <1>4, <1>5, TotalIs DEF m, n
<1> QED
  BY <1>2, <1>3, <1>4, <1>6

(* One more term.                                                          *)
LEMMA TotalAppend ==
  ASSUME NEW s \in Seq(Int), NEW x \in Int
  PROVE  Total(Append(s, x)) = Total(s) + x
<1> DEFINE u == Append(s, x)
           one == <<x>>
<1>1. one \in Seq(Int) /\ Len(one) = 1 /\ one[1] = x
  OBVIOUS
<1>2. u \in Seq(Int) /\ Len(u) = Len(s) + 1 /\ u[Len(s) + 1] = x
      /\ \A k \in 1..Len(s) : u[k] = s[k]
  OBVIOUS
<1> HIDE DEF u, one
<1>3. Total(u) = Total(s) + Total(one)
  <2>1. \A k \in 1..Len(one) : u[Len(s) + k] = one[k]
    BY <1>1, <1>2
  <2> QED
    <3>1. Len(u) = Len(s) + Len(one)
      BY <1>1, <1>2
    <3> QED
      BY <1>1, <1>2, <2>1, <3>1, TotalJoined
<1>4. Total(one) = x
  <2>1. PICK P \in [0..1 -> Int] :
          P[0] = 0 /\ Total(one) = P[1] /\ \A k \in 1..1 : P[k] = P[k - 1] + one[k]
    BY <1>1, PartialSums
  <2>2. P[1] = P[0] + x
    BY <1>1, <2>1
  <2> QED
    BY <2>1, <2>2
<1> QED
  BY <1>3, <1>4 DEF u

(* One term exchanged for another.                                         *)
LEMMA TotalExcept ==
  ASSUME NEW s \in Seq(Int), NEW t \in Seq(Int), Len(t) = Len(s),
         NEW i \in 1..Len(s), \A k \in 1..Len(s) : k # i => t[k] = s[k]
  PROVE  Total(t) = Total(s) - s[i] + t[i]
<1> DEFINE N == Len(s)
<1>1. N \in Nat /\ i \in 1..N /\ Len(t) = N
  OBVIOUS
<1>2. PICK P \in [0..N -> Int] :
        P[0] = 0 /\ Total(s) = P[N] /\ \A k \in 1..N : P[k] = P[k - 1] + s[k]
  BY PartialSums
<1>3. \A k \in 1..N : s[k] \in Int /\ t[k] \in Int /\ (k # i => t[k] = s[k])
  OBVIOUS
<1> HIDE DEF N
<1> DEFINE Q == [k \in 0..N |-> IF k < i THEN P[k] ELSE P[k] - s[i] + t[i]]
<1>4. Q[0] = 0 /\ Q[N] = P[N] - s[i] + t[i]
  BY <1>1, <1>2
<1>5. ASSUME NEW k \in 1..N PROVE Q[k] = Q[k - 1] + t[k]
  <2>1. P[k] = P[k - 1] + s[k] /\ P[k] \in Int /\ P[k - 1] \in Int
    BY <1>1, <1>2
  <2>2. s[k] \in Int /\ t[k] \in Int /\ s[i] \in Int /\ t[i] \in Int
    BY <1>1, <1>3
  <2>3. CASE k < i
    <3>1. Q[k] = P[k] /\ Q[k - 1] = P[k - 1] /\ t[k] = s[k]
      BY <1>1, <1>3, <2>3
    <3> QED
      BY <2>1, <3>1
  <2>4. CASE k = i
    BY <1>1, <2>1, <2>2, <2>4
  <2>5. CASE k > i
    <3>1. /\ Q[k] = P[k] - s[i] + t[i] /\ Q[k - 1] = P[k - 1] - s[i] + t[i]
          /\ t[k] = s[k]
      BY <1>1, <1>3, <2>5
    <3>2. P[k] - s[i] + t[i] = (P[k - 1] - s[i] + t[i]) + s[k]
      <4>1. \A a, b, c, d \in Int : (a + b) - c + d = (a - c + d) + b
        OBVIOUS
      <4>2. P[k - 1] \in Int
        BY <2>1
      <4>3. s[k] \in Int
        BY <2>2
      <4>4. s[i] \in Int
        BY <2>2
      <4>5. t[i] \in Int
        BY <2>2
      <4>6. (P[k - 1] + s[k]) - s[i] + t[i] = (P[k - 1] - s[i] + t[i]) + s[k]
        BY ONLY <4>1, <4>2, <4>3, <4>4, <4>5
      <4> QED
        BY ONLY <2>1, <4>6
    <3> HIDE DEF Q
    <3> QED
      BY <3>1, <3>2
  <2> QED
    BY <1>1, <2>3, <2>4, <2>5
<1>6. Total(t) = Q[N]
  <2> HIDE DEF Q
  <2> QED
    BY <1>1, <1>4, <1>5, TotalIs
<1> QED
  BY <1>2, <1>4, <1>6

(* No term of a sum of balances exceeds it.                                *)
LEMMA TermAtMostTotal ==
  ASSUME NEW s \in Seq(Nat), NEW i \in 1..Len(s)
  PROVE  s[i] <= Total(s)
<1> DEFINE t == [s EXCEPT ![i] = 0]
<1>1. t \in Seq(Nat) /\ t \in Seq(Int) /\ s \in Seq(Int) /\ Len(t) = Len(s) /\ t[i] = 0
      /\ \A k \in 1..Len(s) : k # i => t[k] = s[k]
  OBVIOUS
<1> HIDE DEF t
<1>2. Total(t) = Total(s) - s[i] + t[i]
  BY <1>1, TotalExcept
<1>3. Total(t) \in Nat /\ Total(s) \in Nat /\ s[i] \in Nat
  BY <1>1, TotalType
<1> QED
  BY <1>1, <1>2, <1>3

-----------------------------------------------------------------------------
(* States that differ in some fields. *)

Fields ==
  {"slot", "finalized_epoch", "validators", "balances", "slashings",
   "pending_deposits", "pending_partial_withdrawals", "pending_consolidations",
   "deposit_balance_to_consume", "exit_balance_to_consume", "earliest_exit_epoch",
   "consolidation_balance_to_consume", "earliest_consolidation_epoch",
   "eth1_deposit_index", "deposit_requests_start_index",
   "next_withdrawal_validator_index", "supply", "exits"}

(* t is a state that agrees with s on every field outside F.               *)
SameBut(s, t, F) ==
  /\ s \in BeaconState /\ t \in BeaconState
  /\ \A f \in Fields \ F : t[f] = s[f]

(* Changes of two sets of fields, one after the other.                     *)
LEMMA SameButTransitive ==
  ASSUME NEW s, NEW t, NEW u, NEW F, NEW G, SameBut(s, t, F), SameBut(t, u, G)
  PROVE  SameBut(s, u, F \cup G)
BY DEF SameBut

(* No change at all.                                                       *)
LEMMA SameButItself ==
  ASSUME NEW s \in BeaconState PROVE SameBut(s, s, {})
BY DEF SameBut

(* The types of the fields of a state.                                     *)
LEMMA FieldTypes ==
  ASSUME NEW s \in BeaconState
  PROVE  /\ s.slot \in Nat /\ s.finalized_epoch \in Nat
         /\ s.validators \in Seq(Validator) /\ s.balances \in Seq(Nat)
         /\ s.slashings \in [0..(EPOCHS_PER_SLASHINGS_VECTOR - 1) -> Nat]
         /\ s.pending_deposits \in Seq(PendingDeposit)
         /\ s.pending_partial_withdrawals \in Seq(PendingPartialWithdrawal)
         /\ s.pending_consolidations \in Seq(PendingConsolidation)
         /\ s.deposit_balance_to_consume \in Nat
         /\ s.exit_balance_to_consume \in Nat /\ s.earliest_exit_epoch \in Nat
         /\ s.consolidation_balance_to_consume \in Nat
         /\ s.earliest_consolidation_epoch \in Nat
         /\ s.eth1_deposit_index \in Nat /\ s.deposit_requests_start_index \in Nat
         /\ s.next_withdrawal_validator_index \in Nat
         /\ s.supply \in Int /\ s.exits \in Seq([epoch : Nat, so_far : Nat])
         /\ DOMAIN s = Fields
BY DEF BeaconState, Fields

(* What SameBut says of each field.                                        *)
LEMMA Agreement ==
  ASSUME NEW s, NEW t, NEW F, SameBut(s, t, F)
  PROVE  /\ "slot" \notin F => t.slot = s.slot
         /\ "finalized_epoch" \notin F => t.finalized_epoch = s.finalized_epoch
         /\ "validators" \notin F => t.validators = s.validators
         /\ "balances" \notin F => t.balances = s.balances
         /\ "slashings" \notin F => t.slashings = s.slashings
         /\ "pending_deposits" \notin F => t.pending_deposits = s.pending_deposits
         /\ "pending_partial_withdrawals" \notin F
              => t.pending_partial_withdrawals = s.pending_partial_withdrawals
         /\ "pending_consolidations" \notin F
              => t.pending_consolidations = s.pending_consolidations
         /\ "deposit_balance_to_consume" \notin F
              => t.deposit_balance_to_consume = s.deposit_balance_to_consume
         /\ "exit_balance_to_consume" \notin F
              => t.exit_balance_to_consume = s.exit_balance_to_consume
         /\ "earliest_exit_epoch" \notin F => t.earliest_exit_epoch = s.earliest_exit_epoch
         /\ "consolidation_balance_to_consume" \notin F
              => t.consolidation_balance_to_consume = s.consolidation_balance_to_consume
         /\ "earliest_consolidation_epoch" \notin F
              => t.earliest_consolidation_epoch = s.earliest_consolidation_epoch
         /\ "eth1_deposit_index" \notin F => t.eth1_deposit_index = s.eth1_deposit_index
         /\ "deposit_requests_start_index" \notin F
              => t.deposit_requests_start_index = s.deposit_requests_start_index
         /\ "next_withdrawal_validator_index" \notin F
              => t.next_withdrawal_validator_index = s.next_withdrawal_validator_index
         /\ "supply" \notin F => t.supply = s.supply
         /\ "exits" \notin F => t.exits = s.exits
BY DEF SameBut, Fields

(* A field given a value of its type. *)
LEMMA FieldSet ==
  ASSUME NEW s \in BeaconState
  PROVE  /\ \A x \in Nat :
              SameBut(s, [s EXCEPT !.slot = x], {"slot"})
              /\ [s EXCEPT !.slot = x].slot = x
         /\ \A x \in Nat :
              SameBut(s, [s EXCEPT !.finalized_epoch = x], {"finalized_epoch"})
              /\ [s EXCEPT !.finalized_epoch = x].finalized_epoch = x
         /\ \A x \in Seq(Validator) :
              SameBut(s, [s EXCEPT !.validators = x], {"validators"})
              /\ [s EXCEPT !.validators = x].validators = x
         /\ \A x \in Seq(Nat) :
              SameBut(s, [s EXCEPT !.balances = x], {"balances"})
              /\ [s EXCEPT !.balances = x].balances = x
         /\ \A x \in [0..(EPOCHS_PER_SLASHINGS_VECTOR - 1) -> Nat] :
              SameBut(s, [s EXCEPT !.slashings = x], {"slashings"})
              /\ [s EXCEPT !.slashings = x].slashings = x
         /\ \A x \in Seq(PendingDeposit) :
              SameBut(s, [s EXCEPT !.pending_deposits = x], {"pending_deposits"})
              /\ [s EXCEPT !.pending_deposits = x].pending_deposits = x
         /\ \A x \in Seq(PendingPartialWithdrawal) :
              SameBut(s, [s EXCEPT !.pending_partial_withdrawals = x], {"pending_partial_withdrawals"})
              /\ [s EXCEPT !.pending_partial_withdrawals = x].pending_partial_withdrawals = x
         /\ \A x \in Seq(PendingConsolidation) :
              SameBut(s, [s EXCEPT !.pending_consolidations = x], {"pending_consolidations"})
              /\ [s EXCEPT !.pending_consolidations = x].pending_consolidations = x
         /\ \A x \in Nat :
              SameBut(s, [s EXCEPT !.deposit_balance_to_consume = x], {"deposit_balance_to_consume"})
              /\ [s EXCEPT !.deposit_balance_to_consume = x].deposit_balance_to_consume = x
         /\ \A x \in Nat :
              SameBut(s, [s EXCEPT !.exit_balance_to_consume = x], {"exit_balance_to_consume"})
              /\ [s EXCEPT !.exit_balance_to_consume = x].exit_balance_to_consume = x
         /\ \A x \in Nat :
              SameBut(s, [s EXCEPT !.earliest_exit_epoch = x], {"earliest_exit_epoch"})
              /\ [s EXCEPT !.earliest_exit_epoch = x].earliest_exit_epoch = x
         /\ \A x \in Nat :
              SameBut(s, [s EXCEPT !.consolidation_balance_to_consume = x], {"consolidation_balance_to_consume"})
              /\ [s EXCEPT !.consolidation_balance_to_consume = x].consolidation_balance_to_consume = x
         /\ \A x \in Nat :
              SameBut(s, [s EXCEPT !.earliest_consolidation_epoch = x], {"earliest_consolidation_epoch"})
              /\ [s EXCEPT !.earliest_consolidation_epoch = x].earliest_consolidation_epoch = x
         /\ \A x \in Nat :
              SameBut(s, [s EXCEPT !.eth1_deposit_index = x], {"eth1_deposit_index"})
              /\ [s EXCEPT !.eth1_deposit_index = x].eth1_deposit_index = x
         /\ \A x \in Nat :
              SameBut(s, [s EXCEPT !.deposit_requests_start_index = x], {"deposit_requests_start_index"})
              /\ [s EXCEPT !.deposit_requests_start_index = x].deposit_requests_start_index = x
         /\ \A x \in Nat :
              SameBut(s, [s EXCEPT !.next_withdrawal_validator_index = x], {"next_withdrawal_validator_index"})
              /\ [s EXCEPT !.next_withdrawal_validator_index = x].next_withdrawal_validator_index = x
         /\ \A x \in Int :
              SameBut(s, [s EXCEPT !.supply = x], {"supply"})
              /\ [s EXCEPT !.supply = x].supply = x
         /\ \A x \in Seq([epoch : Nat, so_far : Nat]) :
              SameBut(s, [s EXCEPT !.exits = x], {"exits"})
              /\ [s EXCEPT !.exits = x].exits = x
<1>1. ASSUME NEW x \in Nat
       PROVE  SameBut(s, [s EXCEPT !.slot = x], {"slot"})
              /\ [s EXCEPT !.slot = x].slot = x
  BY DEF SameBut, BeaconState, Fields
<1>2. ASSUME NEW x \in Nat
       PROVE  SameBut(s, [s EXCEPT !.finalized_epoch = x], {"finalized_epoch"})
              /\ [s EXCEPT !.finalized_epoch = x].finalized_epoch = x
  BY DEF SameBut, BeaconState, Fields
<1>3. ASSUME NEW x \in Seq(Validator)
       PROVE  SameBut(s, [s EXCEPT !.validators = x], {"validators"})
              /\ [s EXCEPT !.validators = x].validators = x
  BY DEF SameBut, BeaconState, Fields
<1>4. ASSUME NEW x \in Seq(Nat)
       PROVE  SameBut(s, [s EXCEPT !.balances = x], {"balances"})
              /\ [s EXCEPT !.balances = x].balances = x
  BY DEF SameBut, BeaconState, Fields
<1>5. ASSUME NEW x \in [0..(EPOCHS_PER_SLASHINGS_VECTOR - 1) -> Nat]
       PROVE  SameBut(s, [s EXCEPT !.slashings = x], {"slashings"})
              /\ [s EXCEPT !.slashings = x].slashings = x
  BY DEF SameBut, BeaconState, Fields
<1>6. ASSUME NEW x \in Seq(PendingDeposit)
       PROVE  SameBut(s, [s EXCEPT !.pending_deposits = x], {"pending_deposits"})
              /\ [s EXCEPT !.pending_deposits = x].pending_deposits = x
  BY DEF SameBut, BeaconState, Fields
<1>7. ASSUME NEW x \in Seq(PendingPartialWithdrawal)
       PROVE  SameBut(s, [s EXCEPT !.pending_partial_withdrawals = x], {"pending_partial_withdrawals"})
              /\ [s EXCEPT !.pending_partial_withdrawals = x].pending_partial_withdrawals = x
  BY DEF SameBut, BeaconState, Fields
<1>8. ASSUME NEW x \in Seq(PendingConsolidation)
       PROVE  SameBut(s, [s EXCEPT !.pending_consolidations = x], {"pending_consolidations"})
              /\ [s EXCEPT !.pending_consolidations = x].pending_consolidations = x
  BY DEF SameBut, BeaconState, Fields
<1>9. ASSUME NEW x \in Nat
       PROVE  SameBut(s, [s EXCEPT !.deposit_balance_to_consume = x], {"deposit_balance_to_consume"})
              /\ [s EXCEPT !.deposit_balance_to_consume = x].deposit_balance_to_consume = x
  BY DEF SameBut, BeaconState, Fields
<1>10. ASSUME NEW x \in Nat
       PROVE  SameBut(s, [s EXCEPT !.exit_balance_to_consume = x], {"exit_balance_to_consume"})
              /\ [s EXCEPT !.exit_balance_to_consume = x].exit_balance_to_consume = x
  BY DEF SameBut, BeaconState, Fields
<1>11. ASSUME NEW x \in Nat
       PROVE  SameBut(s, [s EXCEPT !.earliest_exit_epoch = x], {"earliest_exit_epoch"})
              /\ [s EXCEPT !.earliest_exit_epoch = x].earliest_exit_epoch = x
  BY DEF SameBut, BeaconState, Fields
<1>12. ASSUME NEW x \in Nat
       PROVE  SameBut(s, [s EXCEPT !.consolidation_balance_to_consume = x], {"consolidation_balance_to_consume"})
              /\ [s EXCEPT !.consolidation_balance_to_consume = x].consolidation_balance_to_consume = x
  BY DEF SameBut, BeaconState, Fields
<1>13. ASSUME NEW x \in Nat
       PROVE  SameBut(s, [s EXCEPT !.earliest_consolidation_epoch = x], {"earliest_consolidation_epoch"})
              /\ [s EXCEPT !.earliest_consolidation_epoch = x].earliest_consolidation_epoch = x
  BY DEF SameBut, BeaconState, Fields
<1>14. ASSUME NEW x \in Nat
       PROVE  SameBut(s, [s EXCEPT !.eth1_deposit_index = x], {"eth1_deposit_index"})
              /\ [s EXCEPT !.eth1_deposit_index = x].eth1_deposit_index = x
  BY DEF SameBut, BeaconState, Fields
<1>15. ASSUME NEW x \in Nat
       PROVE  SameBut(s, [s EXCEPT !.deposit_requests_start_index = x], {"deposit_requests_start_index"})
              /\ [s EXCEPT !.deposit_requests_start_index = x].deposit_requests_start_index = x
  BY DEF SameBut, BeaconState, Fields
<1>16. ASSUME NEW x \in Nat
       PROVE  SameBut(s, [s EXCEPT !.next_withdrawal_validator_index = x], {"next_withdrawal_validator_index"})
              /\ [s EXCEPT !.next_withdrawal_validator_index = x].next_withdrawal_validator_index = x
  BY DEF SameBut, BeaconState, Fields
<1>17. ASSUME NEW x \in Int
       PROVE  SameBut(s, [s EXCEPT !.supply = x], {"supply"})
              /\ [s EXCEPT !.supply = x].supply = x
  BY DEF SameBut, BeaconState, Fields
<1>18. ASSUME NEW x \in Seq([epoch : Nat, so_far : Nat])
       PROVE  SameBut(s, [s EXCEPT !.exits = x], {"exits"})
              /\ [s EXCEPT !.exits = x].exits = x
  BY DEF SameBut, BeaconState, Fields
<1> QED
  BY <1>1, <1>2, <1>3, <1>4, <1>5, <1>6, <1>7, <1>8, <1>9, <1>10, <1>11, <1>12, <1>13, <1>14, <1>15, <1>16, <1>17, <1>18

-----------------------------------------------------------------------------
(* Balances. *)

(* One balance set to another value. *)
LEMMA BalanceSet ==
  ASSUME NEW s \in BeaconState, NEW i \in DOMAIN s.balances, NEW x \in Nat
  PROVE  LET t == [s EXCEPT !.balances[i] = x]
         IN /\ SameBut(s, t, {"balances"})
            /\ t.balances = [s.balances EXCEPT ![i] = x]
            /\ Len(t.balances) = Len(s.balances)
            /\ Total(t.balances) = Total(s.balances) - s.balances[i] + x
            /\ s.balances[i] \in Nat
<1> DEFINE b == s.balances
           c == [b EXCEPT ![i] = x]
           t == [s EXCEPT !.balances = c]
<1>1. b \in Seq(Nat) /\ b \in Seq(Int)
  BY FieldTypes
<1>2. i \in 1..Len(b) /\ Len(b) \in Nat /\ b[i] \in Nat
  BY <1>1
<1>3. c \in Seq(Nat) /\ Len(c) = Len(b) /\ c[i] = x
      /\ \A k \in 1..Len(b) : k # i => c[k] = b[k]
  BY <1>1, <1>2
<1>4. c \in Seq(Int)
  BY <1>3
<1>5. [s EXCEPT !.balances[i] = x] = t
  OBVIOUS
<1>6. SameBut(s, t, {"balances"}) /\ t.balances = c
  <2>1. c \in Seq(Nat)
    BY <1>3
  <2> HIDE DEF c
  <2> QED
    BY <2>1, FieldSet
<1> HIDE DEF t
<1>7. Total(c) = Total(b) - b[i] + c[i]
  <2> HIDE DEF b, c
  <2> QED
    BY <1>1, <1>2, <1>3, <1>4, TotalExcept
<1> QED
  BY <1>2, <1>3, <1>5, <1>6, <1>7

(* increase_balance adds its delta to the balances as a whole.             *)
LEMMA BalanceIncreased ==
  ASSUME NEW s \in BeaconState, NEW i \in DOMAIN s.balances, NEW delta \in Nat
  PROVE  LET t == increase_balance(s, i, delta)
         IN /\ SameBut(s, t, {"balances"})
            /\ t.balances = [s.balances EXCEPT ![i] = s.balances[i] + delta]
            /\ Len(t.balances) = Len(s.balances)
            /\ Total(t.balances) = Total(s.balances) + delta
<1>1. s.balances[i] \in Nat
  BY BalanceSet
<1> DEFINE x == s.balances[i] + delta
<1>2. x \in Nat /\ increase_balance(s, i, delta) = [s EXCEPT !.balances[i] = x]
  BY <1>1 DEF increase_balance
<1>3. Total(s.balances) \in Int
  BY FieldTypes, TotalType
<1>4. Total(s.balances) - s.balances[i] + x = Total(s.balances) + delta
  BY <1>1, <1>3
<1> HIDE DEF x
<1>5. LET t == [s EXCEPT !.balances[i] = x]
      IN /\ SameBut(s, t, {"balances"})
         /\ t.balances = [s.balances EXCEPT ![i] = x]
         /\ Len(t.balances) = Len(s.balances)
         /\ Total(t.balances) = Total(s.balances) - s.balances[i] + x
  BY <1>2, BalanceSet
<1> QED
  BY <1>2, <1>4, <1>5 DEF x

(* A balance is never decreased below zero. *)
LEMMA BalanceDecreased ==
  ASSUME NEW s \in BeaconState, NEW i \in DOMAIN s.balances, NEW delta \in Nat
  PROVE  LET t == decrease_balance(s, i, delta)
             taken == Least(delta, s.balances[i])
         IN /\ SameBut(s, t, {"balances"})
            /\ t.balances = [s.balances EXCEPT ![i] = s.balances[i] - taken]
            /\ Len(t.balances) = Len(s.balances)
            /\ Total(t.balances) = Total(s.balances) - taken
            /\ taken \in Nat /\ s.balances[i] - taken \in Nat
<1>1. s.balances[i] \in Nat
  BY BalanceSet
<1> DEFINE taken == Least(delta, s.balances[i])
           x == s.balances[i] - taken
<1>2. taken \in Nat /\ x \in Nat
  BY <1>1 DEF Least
<1>3. x = IF delta > s.balances[i] THEN 0 ELSE s.balances[i] - delta
  BY <1>1 DEF Least
<1>4. decrease_balance(s, i, delta) = [s EXCEPT !.balances[i] = x]
  BY <1>3 DEF decrease_balance
<1>5. Total(s.balances) \in Int
  BY FieldTypes, TotalType
<1>6. Total(s.balances) - s.balances[i] + x = Total(s.balances) - taken
  BY <1>1, <1>2, <1>5
<1> HIDE DEF x
<1>7. LET t == [s EXCEPT !.balances[i] = x]
      IN /\ SameBut(s, t, {"balances"})
         /\ t.balances = [s.balances EXCEPT ![i] = x]
         /\ Len(t.balances) = Len(s.balances)
         /\ Total(t.balances) = Total(s.balances) - s.balances[i] + x
  BY <1>2, BalanceSet
<1> QED
  BY <1>2, <1>4, <1>6, <1>7 DEF x

(* What a state holds besides what it should hold.                         *)
Surplus(s) == Total(s.balances) + Total(Amounts(s.pending_deposits)) - s.supply

(* The amounts of a queue of deposits.                                     *)
LEMMA AmountsType ==
  /\ \A q \in Seq(PendingDeposit) : Amounts(q) \in Seq(Nat) /\ Amounts(q) \in Seq(Int)
                                    /\ Len(Amounts(q)) = Len(q)
  /\ Amounts(<<>>) = <<>>
<1>1. ASSUME NEW q \in Seq(PendingDeposit)
      PROVE  Amounts(q) \in Seq(Nat) /\ Amounts(q) \in Seq(Int) /\ Len(Amounts(q)) = Len(q)
  <2>1. DOMAIN q = 1..Len(q) /\ Len(q) \in Nat /\ \A k \in 1..Len(q) : q[k] \in PendingDeposit
    OBVIOUS
  <2>2. \A d \in PendingDeposit : d.amount \in Nat
    BY DEF PendingDeposit
  <2>3. Amounts(q) \in [1..Len(q) -> Nat]
    BY <2>1, <2>2 DEF Amounts
  <2> QED
    BY <2>1, <2>3
<1>2. Amounts(<<>>) = <<>>
  BY DEF Amounts
<1> QED
  BY <1>1, <1>2

(* A state is accounted for when it has no surplus.                        *)
LEMMA SurplusType ==
  ASSUME NEW s \in BeaconState
  PROVE  /\ Total(s.balances) \in Nat /\ Total(Amounts(s.pending_deposits)) \in Nat
         /\ s.supply \in Int /\ Surplus(s) \in Int /\ (Accounted(s) <=> Surplus(s) = 0)
<1>1. Total(s.balances) \in Nat /\ s.supply \in Int
  BY FieldTypes, TotalType
<1>2. Total(Amounts(s.pending_deposits)) \in Nat
  BY FieldTypes, TotalType, AmountsType
<1> QED
  BY <1>1, <1>2 DEF Surplus, Accounted

(* A reward is money that should be there.                                 *)
LEMMA RewardedKeeps ==
  ASSUME NEW s \in BeaconState, NEW i \in DOMAIN s.balances, NEW delta \in Nat
  PROVE  LET t == Rewarded(s, i, delta)
         IN /\ SameBut(s, t, {"balances", "supply"})
            /\ Len(t.balances) = Len(s.balances)
            /\ Surplus(t) = Surplus(s)
<1> DEFINE u == increase_balance(s, i, delta)
           x == u.supply + delta
           t == [u EXCEPT !.supply = x]
<1>1. /\ SameBut(s, u, {"balances"}) /\ Len(u.balances) = Len(s.balances)
      /\ Total(u.balances) = Total(s.balances) + delta
  BY BalanceIncreased
<1>2. Rewarded(s, i, delta) = t
  BY DEF Rewarded
<1> HIDE DEF u
<1>3. u \in BeaconState /\ u.supply \in Int /\ u.supply = s.supply
      /\ u.pending_deposits = s.pending_deposits
  BY <1>1, Agreement, FieldTypes DEF SameBut
<1>4. SameBut(u, t, {"supply"}) /\ t.supply = x
  BY <1>3, FieldSet
<1> HIDE DEF t
<1>5. t.balances = u.balances /\ t.pending_deposits = u.pending_deposits
  BY <1>4, Agreement
<1>6. SameBut(s, t, {"balances", "supply"})
  <2>1. SameBut(s, t, {"balances"} \cup {"supply"})
    BY <1>1, <1>4, SameButTransitive
  <2>2. {"balances"} \cup {"supply"} = {"balances", "supply"}
    OBVIOUS
  <2> QED
    BY <2>1, <2>2
<1>7. Surplus(t) = Surplus(s)
  BY <1>1, <1>3, <1>4, <1>5, SurplusType DEF Surplus
<1> QED
  BY <1>1, <1>2, <1>5, <1>6, <1>7

(* A penalty destroys no more than it takes.                               *)
LEMMA PenalisedKeeps ==
  ASSUME NEW s \in BeaconState, NEW i \in DOMAIN s.balances, NEW delta \in Nat
  PROVE  LET t == Penalised(s, i, delta)
         IN /\ SameBut(s, t, {"balances", "supply"})
            /\ Len(t.balances) = Len(s.balances)
            /\ Surplus(t) = Surplus(s)
<1> DEFINE taken == Least(delta, s.balances[i])
           u == decrease_balance(s, i, delta)
           x == u.supply - taken
           t == [u EXCEPT !.supply = x]
<1>1. /\ SameBut(s, u, {"balances"}) /\ Len(u.balances) = Len(s.balances)
      /\ Total(u.balances) = Total(s.balances) - taken /\ taken \in Nat
  BY BalanceDecreased
<1>2. Penalised(s, i, delta) = t
  BY DEF Penalised
<1> HIDE DEF u, taken
<1>3. u \in BeaconState /\ u.supply \in Int /\ u.supply = s.supply
      /\ u.pending_deposits = s.pending_deposits
  BY <1>1, Agreement, FieldTypes DEF SameBut
<1>4. SameBut(u, t, {"supply"}) /\ t.supply = x
  <2>1. x \in Int
    BY <1>1, <1>3
  <2> HIDE DEF x
  <2> QED
    BY <1>3, <2>1, FieldSet
<1> HIDE DEF t
<1>5. t.balances = u.balances /\ t.pending_deposits = u.pending_deposits
  BY <1>4, Agreement
<1>6. SameBut(s, t, {"balances", "supply"})
  <2>1. SameBut(s, t, {"balances"} \cup {"supply"})
    BY <1>1, <1>4, SameButTransitive
  <2>2. {"balances"} \cup {"supply"} = {"balances", "supply"}
    OBVIOUS
  <2> QED
    BY <2>1, <2>2
<1>7. Surplus(t) = Surplus(s)
  BY <1>1, <1>3, <1>4, <1>5, SurplusType DEF Surplus
<1> QED
  BY <1>1, <1>2, <1>5, <1>6, <1>7

(* A field of a validator given a value of its type.                       *)
LEMMA ValidatorFields ==
  ASSUME NEW v \in Validator
  PROVE  /\ \A e \in Nat : [v EXCEPT !.exit_epoch = e] \in Validator
         /\ \A e \in Nat : [v EXCEPT !.withdrawable_epoch = e] \in Validator
         /\ \A e \in Nat : [v EXCEPT !.activation_epoch = e] \in Validator
         /\ \A e \in Nat : [v EXCEPT !.activation_eligibility_epoch = e] \in Validator
         /\ \A e \in Nat : [v EXCEPT !.effective_balance = e] \in Validator
         /\ \A c \in Credentials : [v EXCEPT !.withdrawal_credentials = c] \in Validator
         /\ [v EXCEPT !.slashed = TRUE] \in Validator
<1>1. \A e \in Nat : [v EXCEPT !.exit_epoch = e] \in Validator
  BY DEF Validator
<1>2. \A e \in Nat : [v EXCEPT !.withdrawable_epoch = e] \in Validator
  BY DEF Validator
<1>3. \A e \in Nat : [v EXCEPT !.activation_epoch = e] \in Validator
  BY DEF Validator
<1>4. \A e \in Nat : [v EXCEPT !.activation_eligibility_epoch = e] \in Validator
  BY DEF Validator
<1>5. \A e \in Nat : [v EXCEPT !.effective_balance = e] \in Validator
  BY DEF Validator
<1>6. \A c \in Credentials : [v EXCEPT !.withdrawal_credentials = c] \in Validator
  BY DEF Validator
<1>7. [v EXCEPT !.slashed = TRUE] \in Validator
  BY DEF Validator
<1> QED
  BY <1>1, <1>2, <1>3, <1>4, <1>5, <1>6, <1>7


-----------------------------------------------------------------------------
(* What every operation and every step of an epoch keeps. *)

InOrder(v) ==
  /\ v.effective_balance <= get_max_effective_balance(v)
  /\ v.activation_epoch <= v.exit_epoch
  /\ v.exit_epoch <= v.withdrawable_epoch

(* A state with well-formed contents, whose exits fit in the churn.        *)
Sound(s) ==
  s \in BeaconState /\ s.slot <= MaxSlot /\ WellFormed(s) /\ QueueSound(s) /\ AllExitsFit(s)

(* An exit is final, and only a slashing moves a withdrawable epoch.       *)
KeptValidator(v, w) ==
  v.exit_epoch # FAR_FUTURE_EPOCH =>
    /\ w.exit_epoch = v.exit_epoch
    /\ w.slashed \/ (~v.slashed /\ w.withdrawable_epoch = v.withdrawable_epoch)

Kept(s, t) ==
  \A i \in DOMAIN s.validators :
    i \in DOMAIN t.validators /\ KeptValidator(s.validators[i], t.validators[i])

(* t is a sound state after s that agrees with it on all fields but F.     *)
Evolved(s, t, F) == SameBut(s, t, F) /\ Sound(t) /\ Kept(s, t)

(* Soundness, with its parts one by one.                                   *)
LEMMA SoundWhole ==
  ASSUME NEW s
  PROVE  Sound(s) <=>
           /\ s \in BeaconState /\ s.slot <= MaxSlot
           /\ QueueSound(s) /\ AllExitsFit(s)
           /\ Len(s.balances) = Len(s.validators)
           /\ s.next_withdrawal_validator_index \in DOMAIN s.validators
           /\ \A i \in DOMAIN s.validators : InOrder(s.validators[i])
           /\ \A k \in DOMAIN s.pending_partial_withdrawals :
                s.pending_partial_withdrawals[k].validator_index \in DOMAIN s.validators
           /\ \A k \in DOMAIN s.pending_consolidations :
                /\ s.pending_consolidations[k].source_index \in DOMAIN s.validators
                /\ s.pending_consolidations[k].target_index \in DOMAIN s.validators
BY DEF Sound, WellFormed, InOrder

(* No step at all.                                                         *)
LEMMA EvolvedItself ==
  ASSUME NEW s, Sound(s) PROVE Evolved(s, s, {})
<1>1. Kept(s, s)
  BY DEF Kept, KeptValidator
<1> QED
  BY <1>1, SameButItself DEF Evolved, Sound

(* Two steps, one after the other.                                         *)
LEMMA EvolvedTransitive ==
  ASSUME NEW s, NEW t, NEW u, NEW F, NEW G, Evolved(s, t, F), Evolved(t, u, G)
  PROVE  Evolved(s, u, F \cup G)
<1>1. SameBut(s, u, F \cup G)
  BY SameButTransitive DEF Evolved
<1>2. Kept(s, u)
  BY DEF Evolved, Kept, KeptValidator
<1> QED
  BY <1>1, <1>2 DEF Evolved

(* A step that changes less.                                               *)
LEMMA EvolvedWithin ==
  ASSUME NEW s, NEW t, NEW F, NEW G, F \subseteq G, Evolved(s, t, F)
  PROVE  Evolved(s, t, G)
BY DEF Evolved, SameBut

(* The registry, the queues that point into it and the exits unchanged:    *)
(* nothing that makes a state sound has changed.                           *)
LEMMA SoundOutside ==
  ASSUME NEW s, Sound(s), NEW t, NEW F, SameBut(s, t, F),
         F \cap {"validators", "pending_partial_withdrawals", "pending_consolidations",
                 "earliest_exit_epoch", "exit_balance_to_consume", "exits"} = {},
         Len(t.balances) = Len(s.balances), t.slot <= MaxSlot,
         t.next_withdrawal_validator_index \in DOMAIN t.validators
  PROVE  Evolved(s, t, F)
<1>1. /\ t.validators = s.validators
      /\ t.pending_partial_withdrawals = s.pending_partial_withdrawals
      /\ t.pending_consolidations = s.pending_consolidations
      /\ t.earliest_exit_epoch = s.earliest_exit_epoch
      /\ t.exit_balance_to_consume = s.exit_balance_to_consume
      /\ t.exits = s.exits
  BY Agreement
<1>2. QueueSound(t) /\ AllExitsFit(t)
  <2>1. DOMAIN t = DOMAIN s
    BY FieldTypes DEF SameBut
  <2> QED
    BY <1>1, <2>1 DEF Sound, QueueSound, AllExitsFit, ExitsFit
<1>3. Sound(t)
  BY <1>1, <1>2, SoundWhole DEF SameBut
<1>4. Kept(s, t)
  BY <1>1 DEF Kept, KeptValidator
<1> QED
  BY <1>3, <1>4 DEF Evolved

(* Nothing that is counted has changed.                                    *)
LEMMA SurplusSame ==
  ASSUME NEW s, NEW t, NEW F, SameBut(s, t, F),
         F \cap {"balances", "pending_deposits", "supply"} = {}
  PROVE  Surplus(t) = Surplus(s)
BY Agreement DEF Surplus

(* Rewards and penalties. *)
LEMMA BalancesEvolve ==
  ASSUME NEW s, Sound(s), NEW i \in DOMAIN s.balances, NEW delta \in Nat
  PROVE  /\ LET t == Rewarded(s, i, delta)
            IN Evolved(s, t, {"balances", "supply"}) /\ Surplus(t) = Surplus(s)
         /\ LET t == Penalised(s, i, delta)
            IN Evolved(s, t, {"balances", "supply"}) /\ Surplus(t) = Surplus(s)
<1>0. s \in BeaconState /\ s.slot <= MaxSlot
      /\ s.next_withdrawal_validator_index \in DOMAIN s.validators
  BY SoundWhole
<1>1. ASSUME NEW t, SameBut(s, t, {"balances", "supply"}), Len(t.balances) = Len(s.balances)
      PROVE  Evolved(s, t, {"balances", "supply"})
  <2>1. t.slot = s.slot /\ t.validators = s.validators
        /\ t.next_withdrawal_validator_index = s.next_withdrawal_validator_index
    BY <1>1, Agreement
  <2> QED
    BY <1>0, <1>1, <2>1, SoundOutside
<1> QED
  BY <1>0, <1>1, RewardedKeeps, PenalisedKeeps

-----------------------------------------------------------------------------
(* The registry. *)

(* A validator set to another that is in order.                            *)
LEMMA ValidatorSet ==
  ASSUME NEW s, Sound(s), NEW i \in DOMAIN s.validators,
         NEW w \in Validator, InOrder(w), KeptValidator(s.validators[i], w)
  PROVE  LET t == [s EXCEPT !.validators = [s.validators EXCEPT ![i] = w]]
         IN /\ Evolved(s, t, {"validators"}) /\ Surplus(t) = Surplus(s)
            /\ t.validators = [s.validators EXCEPT ![i] = w]
            /\ DOMAIN t.validators = DOMAIN s.validators
<1> DEFINE x == [s.validators EXCEPT ![i] = w]
           t == [s EXCEPT !.validators = x]
<1>1. s \in BeaconState /\ s.validators \in Seq(Validator)
  BY FieldTypes DEF Sound
<1>2. /\ x \in Seq(Validator) /\ Len(x) = Len(s.validators) /\ DOMAIN x = DOMAIN s.validators
      /\ x[i] = w /\ \A k \in DOMAIN s.validators : k # i => x[k] = s.validators[k]
  BY <1>1
<1> HIDE DEF x
<1>3. SameBut(s, t, {"validators"}) /\ t.validators = x
  BY <1>1, <1>2, FieldSet
<1> HIDE DEF t
<1>4. /\ t.balances = s.balances /\ t.slot = s.slot
      /\ t.pending_partial_withdrawals = s.pending_partial_withdrawals
      /\ t.pending_consolidations = s.pending_consolidations
      /\ t.earliest_exit_epoch = s.earliest_exit_epoch
      /\ t.exit_balance_to_consume = s.exit_balance_to_consume
      /\ t.exits = s.exits
      /\ t.next_withdrawal_validator_index = s.next_withdrawal_validator_index
  BY <1>3, Agreement
<1>5. QueueSound(t) /\ AllExitsFit(t)
  <2>1. DOMAIN t = DOMAIN s
    BY <1>3, FieldTypes DEF SameBut
  <2> QED
    BY <1>4, <2>1 DEF Sound, QueueSound, AllExitsFit, ExitsFit
<1>6. \A k \in DOMAIN t.validators : InOrder(t.validators[k])
  BY <1>2, <1>3, SoundWhole
<1>7. Sound(t)
  BY <1>2, <1>3, <1>4, <1>5, <1>6, SoundWhole DEF SameBut
<1>8. Kept(s, t)
  BY <1>2, <1>3 DEF Kept, KeptValidator
<1>9. Surplus(t) = Surplus(s)
  BY <1>3, SurplusSame
<1> QED
  BY <1>2, <1>3, <1>7, <1>8, <1>9 DEF Evolved, t, x

-----------------------------------------------------------------------------
(* Epochs. *)

(* Division by a positive number, of one number and of the next.           *)
LEMMA Division ==
  ASSUME NEW a \in Nat, NEW d \in Nat, d > 0
  PROVE  /\ a \div d \in Nat /\ a \div d <= a
         /\ (a + 1) \div d = IF (a + 1) % d = 0 THEN a \div d + 1 ELSE a \div d
         /\ \A b \in Nat : a <= b => a \div d <= b \div d
<1> DEFINE q == a \div d
           r == a % d
<1>1. q \in Nat /\ r \in 0..(d - 1) /\ a = d * q + r
  BY SMTT(30)
<1>2. q <= a
  <2>1. d * q >= q
    BY <1>1, Products
  <2>2. d * q \in Nat
    BY <1>1, Products
  <2> QED
    BY <1>1, <2>1, <2>2
<1>3. ASSUME NEW b \in Nat, a <= b PROVE q <= b \div d
  <2> DEFINE p == b \div d
  <2>1. p \in Nat /\ b % d \in 0..(d - 1) /\ b = d * p + (b % d)
    BY SMTT(30)
  <2> HIDE DEF p, q
  <2>2. ASSUME q > p PROVE FALSE
    <3>1. q >= p + 1 /\ p + 1 \in Nat
      BY <1>1, <2>1, <2>2
    <3>2. (p + 1) * d <= q * d /\ (p + 1) * d = p * d + 1 * d
      BY <1>1, <2>1, <3>1, Products
    <3>3. d * q \in Nat /\ d * p \in Nat /\ q * d = d * q /\ p * d = d * p
      BY <1>1, <2>1, Products
    <3> QED
      BY <1>1, <1>3, <2>1, <3>2, <3>3
  <2> QED
    BY <1>1, <2>1, <2>2 DEF p
<1>4. (a + 1) \div d = IF (a + 1) % d = 0 THEN q + 1 ELSE q
  <2> DEFINE p == (a + 1) \div d
             m == (a + 1) % d
  <2>1. p \in Nat /\ m \in 0..(d - 1) /\ a + 1 = d * p + m
    <3> DEFINE c == a + 1
    <3>1. c \in Nat
      OBVIOUS
    <3> HIDE DEF c
    <3>2. c \div d \in Nat /\ c % d \in 0..(d - 1) /\ c = d * (c \div d) + (c % d)
      BY <3>1, SMTT(30)
    <3> QED
      BY <3>2 DEF c
  <2> HIDE DEF p, m, q, r
  <2>2. d * q \in Nat /\ d * p \in Nat /\ q * d = d * q /\ p * d = d * p
    BY <1>1, <2>1, Products
  <2>3. ASSUME NEW x \in Nat, NEW y \in Nat, x < y PROVE d * x + d <= d * y
    <3>1. x + 1 \in Nat /\ x + 1 <= y
      BY <2>3
    <3>2. (x + 1) * d <= y * d /\ (x + 1) * d = x * d + 1 * d
      BY <3>1, Products
    <3>3. x * d = d * x /\ y * d = d * y /\ d * x \in Nat /\ d * y \in Nat
      BY Products
    <3> QED
      BY <3>2, <3>3
  <2>4. CASE m = 0
    <3>1. q < p
      <4>1. ASSUME p <= q PROVE FALSE
        <5>1. p * d <= q * d
          BY <1>1, <2>1, <4>1, Products
        <5> QED
          BY <1>1, <2>1, <2>2, <2>4, <5>1
      <4> QED
        BY <1>1, <2>1, <4>1
    <3>2. ~(q + 1 < p)
      <4>1. ASSUME q + 1 < p PROVE FALSE
        <5>1. q + 1 \in Nat /\ (q + 1) * d = q * d + 1 * d
          BY <1>1, Products
        <5>2. d * (q + 1) + d <= d * p /\ d * (q + 1) = (q + 1) * d
          BY <2>1, <2>3, <4>1, <5>1, Products
        <5> QED
          BY <1>1, <2>1, <2>2, <2>4, <5>1, <5>2
      <4> QED
        BY <4>1
    <3> QED
      BY <1>1, <2>1, <2>4, <3>1, <3>2 DEF p, m
  <2>5. CASE m # 0
    <3>1. ~(q < p)
      <4>1. ASSUME q < p PROVE FALSE
        <5>1. d * q + d <= d * p
          BY <1>1, <2>1, <2>3, <4>1
        <5> QED
          BY <1>1, <2>1, <2>2, <2>5, <5>1
      <4> QED
        BY <4>1
    <3>2. ~(p < q)
      <4>1. ASSUME p < q PROVE FALSE
        <5>1. d * p + d <= d * q
          BY <1>1, <2>1, <2>3, <4>1
        <5> QED
          BY <1>1, <2>1, <2>2, <2>5, <5>1
      <4> QED
        BY <4>1
    <3> QED
      BY <1>1, <2>1, <2>5, <3>1, <3>2 DEF p, m
  <2> QED
    BY <2>4, <2>5 DEF m
<1> QED
  BY <1>1, <1>2, <1>3, <1>4

LastFloor == compute_activation_exit_epoch(MaxSlot \div SLOTS_PER_EPOCH)

(* No floor of the exit queue reaches FAR_FUTURE_EPOCH.                    *)
LEMMA EpochBounds ==
  ASSUME NEW s, s \in BeaconState, s.slot <= MaxSlot
  PROVE  /\ get_current_epoch(s) \in Nat
         /\ compute_activation_exit_epoch(get_current_epoch(s)) \in Nat
         /\ get_current_epoch(s) < compute_activation_exit_epoch(get_current_epoch(s))
         /\ compute_activation_exit_epoch(get_current_epoch(s)) <= LastFloor
         /\ LastFloor \in Nat /\ LastFloor < FAR_FUTURE_EPOCH /\ FAR_FUTURE_EPOCH \in Nat
<1>1. /\ s.slot \in Nat /\ MaxSlot \in Nat /\ SLOTS_PER_EPOCH \in Nat /\ SLOTS_PER_EPOCH > 0
      /\ MAX_SEED_LOOKAHEAD \in Nat /\ FAR_FUTURE_EPOCH \in Nat
      /\ MaxOperations \in Nat /\ MAX_EFFECTIVE_BALANCE_ELECTRA \in Nat
  BY FieldTypes, RegistryConstants, BoundsAssumption
<1>2. s.slot \div SLOTS_PER_EPOCH \in Nat /\ MaxSlot \div SLOTS_PER_EPOCH \in Nat
      /\ s.slot \div SLOTS_PER_EPOCH <= MaxSlot \div SLOTS_PER_EPOCH
  BY <1>1, Division
<1>3. MaxOperations * MAX_EFFECTIVE_BALANCE_ELECTRA \in Nat
  BY <1>1, Products
<1> DEFINE e == s.slot \div SLOTS_PER_EPOCH
           m == MaxSlot \div SLOTS_PER_EPOCH
           b == MaxOperations * MAX_EFFECTIVE_BALANCE_ELECTRA
<1>4. (m + 1 + MAX_SEED_LOOKAHEAD) + b < FAR_FUTURE_EPOCH
  BY FarFutureAssumption DEF compute_activation_exit_epoch
<1>5. e \in Nat /\ m \in Nat /\ e <= m /\ b \in Nat
  BY <1>2, <1>3
<1>6. get_current_epoch(s) = e /\ LastFloor = m + 1 + MAX_SEED_LOOKAHEAD
      /\ compute_activation_exit_epoch(get_current_epoch(s)) = e + 1 + MAX_SEED_LOOKAHEAD
  BY DEF get_current_epoch, LastFloor, compute_activation_exit_epoch
<1> HIDE DEF e, m, b
<1> QED
  BY <1>1, <1>4, <1>5, <1>6

(* The total active balance is never below one increment.                  *)
LEMMA ActiveBalance ==
  ASSUME NEW s \in BeaconState
  PROVE  get_total_active_balance(s) \in Nat
         /\ get_total_active_balance(s) >= EFFECTIVE_BALANCE_INCREMENT
<1> DEFINE x == [i \in DOMAIN s.validators |->
                   IF is_active_validator(s.validators[i], get_current_epoch(s))
                   THEN s.validators[i].effective_balance ELSE 0]
<1>1. x \in Seq(Nat)
  <2>1. s.validators \in Seq(Validator)
    BY FieldTypes
  <2>2. Len(s.validators) \in Nat /\ DOMAIN s.validators = 1..Len(s.validators)
        /\ \A i \in DOMAIN s.validators : s.validators[i] \in Validator
    BY <2>1
  <2>3. \A v \in Validator : v.effective_balance \in Nat
    BY DEF Validator
  <2>4. x \in [1..Len(s.validators) -> Nat]
    BY <2>2, <2>3
  <2> QED
    BY <2>2, <2>4
<1> HIDE DEF x
<1>2. Total(x) \in Nat
  BY <1>1, TotalType
<1> QED
  BY <1>2, RegistryConstants DEF get_total_active_balance, Greatest, x

-----------------------------------------------------------------------------
(* Exits. *)

ExitFields == {"earliest_exit_epoch", "exit_balance_to_consume", "exits"}

(* compute_exit_epoch_and_update_churn: exits go on fitting in the churn.  *)
LEMMA ExitQueueEvolves ==
  ASSUME NEW s, Sound(s), NEW balance \in Nat
  PROVE  LET t == compute_exit_epoch_and_update_churn(s, balance)
         IN /\ Evolved(s, t, ExitFields) /\ Surplus(t) = Surplus(s)
            /\ t.earliest_exit_epoch
                 >= compute_activation_exit_epoch(get_current_epoch(s))
<1> DEFINE floor == compute_activation_exit_epoch(get_current_epoch(s))
           taken == ChurnTaken(s.earliest_exit_epoch, s.exit_balance_to_consume,
                               get_activation_exit_churn_limit(s), floor, balance)
           exit == [epoch |-> taken.epoch, so_far |-> TakenSoFar(s.exits) + balance]
           more == Append(s.exits, exit)
           t == [s EXCEPT !.earliest_exit_epoch = taken.epoch,
                          !.exit_balance_to_consume = taken.left,
                          !.exits = more]
<1>0. s \in BeaconState /\ s.slot <= MaxSlot /\ QueueSound(s) /\ AllExitsFit(s)
      /\ s.next_withdrawal_validator_index \in DOMAIN s.validators
  BY SoundWhole
<1>1. t = compute_exit_epoch_and_update_churn(s, balance)
  BY DEF compute_exit_epoch_and_update_churn
<1>2. /\ MAX_PER_EPOCH_ACTIVATION_EXIT_CHURN_LIMIT \in Nat
      /\ MIN_PER_EPOCH_CHURN_LIMIT_ELECTRA \in Nat
      /\ get_total_active_balance(s) \in Nat /\ floor \in Nat
  BY <1>0, BoundsAssumption, ActiveBalance, EpochBounds
<1>3. QueueSound(t) /\ AllExitsFit(t)
  <2>1. get_current_epoch(s) \in Nat
    BY <1>0, EpochBounds
  <2> QED
    BY <1>0, <1>1, <1>2, <2>1, ExitsKeepWithinChurn
<1>4. /\ taken.epoch \in Nat /\ taken.left \in Nat /\ taken.epoch >= floor
  <2> DEFINE limit == get_activation_exit_churn_limit(s)
             earliest == s.earliest_exit_epoch
             left == s.exit_balance_to_consume
  <2>1. limit \in Nat /\ limit > 0
    BY <1>2, LimitInRange DEF MaxChurn
  <2>2. earliest \in Nat /\ left \in Nat
    BY <1>0, FieldTypes
  <2> HIDE DEF limit, earliest, left, floor
  <2>3. LET x == Spread(floor, limit, limit, balance)
        IN x.epoch \in Nat /\ x.left \in Nat /\ x.epoch - floor \in Nat
    BY <1>2, <2>1, SpreadIsExact
  <2>4. LET x == Spread(earliest, left, limit, balance)
        IN x.epoch \in Nat /\ x.left \in Nat /\ x.epoch - earliest \in Nat
    BY <2>1, <2>2, SpreadIsExact
  <2>5. taken = IF earliest < floor THEN Spread(floor, limit, limit, balance)
                ELSE Spread(earliest, left, limit, balance)
    BY DEF ChurnTaken, limit, earliest, left, floor
  <2> HIDE DEF taken
  <2>6. CASE earliest < floor
    BY <1>2, <2>3, <2>5, <2>6
  <2>7. CASE ~(earliest < floor)
    BY <1>2, <2>2, <2>4, <2>5, <2>7
  <2> QED
    BY <2>6, <2>7
<1>5. more \in Seq([epoch : Nat, so_far : Nat])
  BY <1>1, <1>3 DEF QueueSound
<1> HIDE DEF taken, more
<1> DEFINE t1 == [s EXCEPT !.earliest_exit_epoch = taken.epoch]
           t2 == [t1 EXCEPT !.exit_balance_to_consume = taken.left]
           t3 == [t2 EXCEPT !.exits = more]
<1>6. t = t3
  OBVIOUS
<1>7. SameBut(s, t1, {"earliest_exit_epoch"}) /\ t1.earliest_exit_epoch = taken.epoch
      /\ t1 \in BeaconState
  BY <1>0, <1>4, FieldSet DEF SameBut
<1> HIDE DEF t1
<1>8. SameBut(t1, t2, {"exit_balance_to_consume"}) /\ t2 \in BeaconState
  BY <1>4, <1>7, FieldSet DEF SameBut
<1> HIDE DEF t2
<1>9. SameBut(t2, t3, {"exits"})
  BY <1>5, <1>8, FieldSet
<1> HIDE DEF t3, t
<1>10. SameBut(s, t, ExitFields)
  BY <1>6, <1>7, <1>8, <1>9 DEF SameBut, ExitFields
<1>11. t.earliest_exit_epoch = taken.epoch
  BY <1>6, <1>7, <1>8, <1>9, Agreement
<1>12. /\ t.validators = s.validators /\ t.balances = s.balances /\ t.slot = s.slot
       /\ t.pending_partial_withdrawals = s.pending_partial_withdrawals
       /\ t.pending_consolidations = s.pending_consolidations
       /\ t.next_withdrawal_validator_index = s.next_withdrawal_validator_index
  BY <1>10, Agreement DEF ExitFields
<1>13. Sound(t)
  BY <1>3, <1>10, <1>12, SoundWhole DEF SameBut
<1>14. Kept(s, t)
  BY <1>12 DEF Kept, KeptValidator
<1>15. Surplus(t) = Surplus(s)
  BY <1>10, SurplusSame DEF ExitFields
<1> QED
  BY <1>1, <1>4, <1>10, <1>11, <1>13, <1>14, <1>15 DEF Evolved

(* A validator that is sent out at an epoch it can leave in.               *)
LEMMA ExitingEvolves ==
  ASSUME NEW s, Sound(s), NEW i \in DOMAIN s.validators,
         NEW epoch \in Nat, s.validators[i].activation_epoch <= epoch,
         s.validators[i].exit_epoch = FAR_FUTURE_EPOCH
  PROVE  LET t == Exiting(s, i, epoch)
         IN /\ Evolved(s, t, {"validators"}) /\ Surplus(t) = Surplus(s)
            /\ \A k \in DOMAIN s.validators : k # i => t.validators[k] = s.validators[k]
            /\ t.validators[i].exit_epoch = epoch
            /\ t.validators[i].withdrawable_epoch = epoch + MIN_VALIDATOR_WITHDRAWABILITY_DELAY
            /\ t.validators[i].effective_balance = s.validators[i].effective_balance
            /\ t.validators[i].slashed = s.validators[i].slashed
            /\ DOMAIN t.validators = DOMAIN s.validators
<1> DEFINE d == epoch + MIN_VALIDATOR_WITHDRAWABILITY_DELAY
           v == s.validators[i]
           v1 == [v EXCEPT !.exit_epoch = epoch]
           w == [v1 EXCEPT !.withdrawable_epoch = d]
           t == [s EXCEPT !.validators = [s.validators EXCEPT ![i] = w]]
<1>0. s \in BeaconState /\ InOrder(v)
  BY SoundWhole
<1>1. Exiting(s, i, epoch) = t
  BY <1>0 DEF Exiting
<1>2. d \in Nat /\ d >= epoch
  BY RegistryConstants
<1>3. v \in Validator
  <2>1. s.validators \in Seq(Validator)
    BY <1>0, FieldTypes
  <2> QED
    BY <2>1
<1>4. v1 \in Validator
  BY <1>3, ValidatorFields
<1>5. w \in Validator
  <2> HIDE DEF v1, d
  <2> QED
    BY <1>2, <1>4, ValidatorFields
<1>6. /\ w.exit_epoch = epoch /\ w.withdrawable_epoch = d
      /\ w.effective_balance = v.effective_balance
      /\ w.activation_epoch = v.activation_epoch
      /\ w.withdrawal_credentials = v.withdrawal_credentials
      /\ w.slashed = v.slashed
  BY <1>3 DEF Validator
<1> HIDE DEF w, v
<1>7. InOrder(w)
  BY <1>0, <1>2, <1>6
    DEF InOrder, get_max_effective_balance, has_compounding_withdrawal_credential, v
<1>8. KeptValidator(v, w)
  BY DEF KeptValidator, v
<1>9. /\ Evolved(s, t, {"validators"}) /\ Surplus(t) = Surplus(s)
      /\ t.validators = [s.validators EXCEPT ![i] = w]
      /\ DOMAIN t.validators = DOMAIN s.validators
  BY <1>5, <1>7, <1>8, ValidatorSet DEF v
<1> HIDE DEF t
<1>10. t.validators[i] = w /\ \A k \in DOMAIN s.validators : k # i => t.validators[k] = s.validators[k]
  BY <1>9
<1> QED
  BY <1>1, <1>6, <1>9, <1>10 DEF v

(* initiate_validator_exit, of a validator that has been activated.        *)
LEMMA ExitEvolves ==
  ASSUME NEW s, Sound(s), NEW i \in DOMAIN s.validators,
         s.validators[i].activation_epoch <= get_current_epoch(s)
  PROVE  LET t == initiate_validator_exit(s, i)
         IN /\ Evolved(s, t, ExitFields \cup {"validators"}) /\ Surplus(t) = Surplus(s)
            /\ DOMAIN t.validators = DOMAIN s.validators
<1> DEFINE v == s.validators[i]
           u == compute_exit_epoch_and_update_churn(s, v.effective_balance)
           t == Exiting(u, i, u.earliest_exit_epoch)
<1>1. CASE v.exit_epoch # FAR_FUTURE_EPOCH
  <2>1. initiate_validator_exit(s, i) = s
    BY <1>1 DEF initiate_validator_exit
  <2> QED
    BY <2>1, EvolvedItself, EvolvedWithin
<1>2. CASE v.exit_epoch = FAR_FUTURE_EPOCH
  <2>1. initiate_validator_exit(s, i) = t
    BY <1>2 DEF initiate_validator_exit
  <2>2. s \in BeaconState /\ s.slot <= MaxSlot
    BY DEF Sound
  <2>3. v \in Validator /\ v.effective_balance \in Nat /\ v.activation_epoch \in Nat
    <3>1. s.validators \in Seq(Validator)
      BY <2>2, FieldTypes
    <3>2. v \in Validator
      BY <3>1
    <3> QED
      BY <3>2 DEF Validator
  <2>4. /\ Evolved(s, u, ExitFields) /\ Surplus(u) = Surplus(s)
        /\ u.earliest_exit_epoch >= compute_activation_exit_epoch(get_current_epoch(s))
    BY <2>3, ExitQueueEvolves
  <2> HIDE DEF u
  <2>5. u.validators = s.validators /\ u.earliest_exit_epoch \in Nat /\ Sound(u)
    BY <2>4, Agreement, FieldTypes DEF Evolved, ExitFields, SameBut
  <2>6. v.activation_epoch <= u.earliest_exit_epoch
    BY <2>2, <2>3, <2>4, <2>5, EpochBounds
  <2>7. /\ Evolved(u, t, {"validators"}) /\ Surplus(t) = Surplus(u)
        /\ DOMAIN t.validators = DOMAIN u.validators
    BY <1>2, <2>5, <2>6, ExitingEvolves
  <2> HIDE DEF t
  <2> QED
    BY <2>1, <2>4, <2>5, <2>7, EvolvedTransitive
<1> QED
  BY <1>1, <1>2

-----------------------------------------------------------------------------
(* Slashing. *)

(* slash_validator: its penalty and its rewards are accounted for.         *)
LEMMA SlashingEvolves ==
  ASSUME NEW s, Sound(s),
         NEW i \in DOMAIN s.validators, NEW proposer \in DOMAIN s.validators,
         s.validators[i].activation_epoch <= get_current_epoch(s)
  PROVE  LET t == slash_validator(s, i, proposer)
         IN /\ Evolved(s, t, ExitFields \cup {"validators", "slashings", "balances", "supply"})
            /\ Surplus(t) = Surplus(s)
<1> DEFINE epoch == get_current_epoch(s)
           n == epoch % EPOCHS_PER_SLASHINGS_VECTOR
           late == epoch + EPOCHS_PER_SLASHINGS_VECTOR
           t == initiate_validator_exit(s, i)
           v == t.validators[i]
           d == v.effective_balance
           v1 == [v EXCEPT !.slashed = TRUE]
           w == [v1 EXCEPT !.withdrawable_epoch = Greatest(v.withdrawable_epoch, late)]
           t1 == [t EXCEPT !.validators = [t.validators EXCEPT ![i] = w]]
           more == [t.slashings EXCEPT ![n] = t.slashings[n] + d]
           u == [t1 EXCEPT !.slashings = more]
<1>1. /\ Evolved(s, t, ExitFields \cup {"validators"}) /\ Surplus(t) = Surplus(s)
      /\ DOMAIN t.validators = DOMAIN s.validators
  BY ExitEvolves
<1>2. s \in BeaconState /\ s.slot <= MaxSlot /\ Sound(t) /\ t \in BeaconState
      /\ i \in DOMAIN t.validators
  BY <1>1 DEF Evolved, Sound
<1>3. epoch \in Nat /\ n \in 0..(EPOCHS_PER_SLASHINGS_VECTOR - 1) /\ late \in Nat
  <2>1. epoch \in Nat /\ EPOCHS_PER_SLASHINGS_VECTOR \in Nat \ {0}
    BY <1>2, EpochBounds, RegistryConstants
  <2> HIDE DEF epoch
  <2> QED
    BY <2>1, SMTT(30)
<1>4. slash_validator(s, i, proposer) =
        LET penalty == u.validators[i].effective_balance \div MIN_SLASHING_PENALTY_QUOTIENT_ELECTRA
            reward == u.validators[i].effective_balance \div WHISTLEBLOWER_REWARD_QUOTIENT_ELECTRA
        IN Rewarded(Penalised(u, i, penalty), proposer, reward)
  <2>1. u = [t EXCEPT
              !.validators[i].slashed = TRUE,
              !.validators[i].withdrawable_epoch = Greatest(@, late),
              !.slashings[n] = @ + d]
    <3> HIDE DEF t, n, late
    <3> QED
      BY <1>2
  <2> HIDE DEF u
  <2> QED
    BY <2>1 DEF slash_validator
<1> HIDE DEF t, n, late
<1>5. v \in Validator /\ d \in Nat /\ InOrder(v)
  <2>1. t.validators \in Seq(Validator)
    BY <1>2, FieldTypes
  <2>2. v \in Validator
    BY <1>2, <2>1
  <2>3. InOrder(v)
    BY <1>2, SoundWhole
  <2> QED
    BY <2>2, <2>3 DEF Validator
<1> HIDE DEF v
<1>6. v1 \in Validator
  BY <1>5, ValidatorFields
<1>7. w \in Validator
  <2>1. Greatest(v.withdrawable_epoch, late) \in Nat
    BY <1>3, <1>5 DEF Greatest, Validator
  <2> HIDE DEF v1
  <2> QED
    BY <1>6, <2>1, ValidatorFields
<1>8. /\ w.slashed = TRUE /\ w.exit_epoch = v.exit_epoch
      /\ w.withdrawable_epoch = Greatest(v.withdrawable_epoch, late)
      /\ w.activation_epoch = v.activation_epoch
      /\ w.effective_balance = v.effective_balance
      /\ w.withdrawal_credentials = v.withdrawal_credentials
  BY <1>5 DEF Validator
<1> HIDE DEF w
<1>9. InOrder(w) /\ KeptValidator(v, w)
  <2>1. v.exit_epoch \in Nat /\ v.withdrawable_epoch \in Nat
    BY <1>5 DEF Validator
  <2> QED
    BY <1>3, <1>5, <1>8, <2>1
      DEF InOrder, KeptValidator, Greatest, get_max_effective_balance,
          has_compounding_withdrawal_credential
<1>10. /\ Evolved(t, t1, {"validators"}) /\ Surplus(t1) = Surplus(t)
       /\ t1.validators = [t.validators EXCEPT ![i] = w]
       /\ DOMAIN t1.validators = DOMAIN t.validators
  BY <1>2, <1>7, <1>9, ValidatorSet DEF v
<1> HIDE DEF t1
<1>11. Sound(t1) /\ t1 \in BeaconState /\ t1.slashings = t.slashings /\ t1.slot <= MaxSlot
       /\ t1.next_withdrawal_validator_index \in DOMAIN t1.validators
  BY <1>10, Agreement, SoundWhole DEF Evolved
<1>12. more \in [0..(EPOCHS_PER_SLASHINGS_VECTOR - 1) -> Nat]
  <2>1. t.slashings \in [0..(EPOCHS_PER_SLASHINGS_VECTOR - 1) -> Nat]
    BY <1>2, FieldTypes
  <2>2. t.slashings[n] + d \in Nat
    <3>1. \A k \in 0..(EPOCHS_PER_SLASHINGS_VECTOR - 1) : t.slashings[k] \in Nat
      BY <2>1
    <3>2. t.slashings[n] \in Nat
      BY <1>3, <3>1
    <3>3. d \in Nat
      BY <1>5
    <3> HIDE DEF d
    <3> QED
      BY <3>2, <3>3
  <2> HIDE DEF d
  <2>3. n \in 0..(EPOCHS_PER_SLASHINGS_VECTOR - 1)
    BY <1>3
  <2> DEFINE D == 0..(EPOCHS_PER_SLASHINGS_VECTOR - 1)
  <2> HIDE DEF D
  <2> QED
    BY <2>1, <2>2, <2>3 DEF D
<1> HIDE DEF more
<1>13. SameBut(t1, u, {"slashings"})
  BY <1>11, <1>12, FieldSet
<1> HIDE DEF u
<1>14. u.validators = t1.validators /\ u.balances = t1.balances /\ u.slot = t1.slot
       /\ u.next_withdrawal_validator_index = t1.next_withdrawal_validator_index
  BY <1>13, Agreement
<1>15. Evolved(t1, u, {"slashings"}) /\ Surplus(u) = Surplus(t1)
  BY <1>11, <1>13, <1>14, SoundOutside, SurplusSame
<1> DEFINE e == u.validators[i].effective_balance
           penalty == e \div MIN_SLASHING_PENALTY_QUOTIENT_ELECTRA
           reward == e \div WHISTLEBLOWER_REWARD_QUOTIENT_ELECTRA
           x == Penalised(u, i, penalty)
           y == Rewarded(x, proposer, reward)
<1>16. penalty \in Nat /\ reward \in Nat
  <2>1. e \in Nat
    BY <1>2, <1>5, <1>8, <1>10, <1>14
  <2> HIDE DEF e
  <2> QED
    BY <2>1, RegistryConstants, Division
<1> HIDE DEF penalty, reward
<1>17. Sound(u) /\ i \in DOMAIN u.balances /\ proposer \in DOMAIN u.balances
  <2>1. Sound(u) /\ DOMAIN u.validators = DOMAIN s.validators
    BY <1>1, <1>10, <1>14, <1>15 DEF Evolved
  <2>2. DOMAIN u.balances = DOMAIN u.validators
    <3>1. u.balances \in Seq(Nat) /\ u.validators \in Seq(Validator)
      BY <2>1, FieldTypes DEF Sound
    <3>2. Len(u.balances) = Len(u.validators)
      BY <2>1, SoundWhole
    <3> QED
      BY <3>1, <3>2
  <2> QED
    BY <2>1, <2>2
<1>18. Evolved(u, x, {"balances", "supply"}) /\ Surplus(x) = Surplus(u)
  BY <1>16, <1>17, BalancesEvolve
<1> HIDE DEF x
<1>19. Sound(x) /\ proposer \in DOMAIN x.balances
  <2>1. Sound(x) /\ x.validators = u.validators
    BY <1>18, Agreement DEF Evolved
  <2>2. Len(x.balances) = Len(u.balances) /\ x.balances \in Seq(Nat) /\ u.balances \in Seq(Nat)
    BY <1>17, <2>1, SoundWhole, FieldTypes
  <2> QED
    BY <1>17, <2>1, <2>2
<1>20. Evolved(x, y, {"balances", "supply"}) /\ Surplus(y) = Surplus(x)
  BY <1>16, <1>19, BalancesEvolve
<1> HIDE DEF y
<1>21. slash_validator(s, i, proposer) = y
  BY <1>4 DEF y, x, penalty, reward
<1>22. Surplus(y) = Surplus(s)
  BY <1>1, <1>10, <1>15, <1>18, <1>20
<1> DEFINE G == (((ExitFields \cup {"validators"}) \cup {"validators"}) \cup {"slashings"})
                  \cup {"balances", "supply"} \cup {"balances", "supply"}
<1>23. Evolved(s, y, G)
  BY <1>1, <1>10, <1>15, <1>18, <1>20, EvolvedTransitive
<1>24. G = ExitFields \cup {"validators", "slashings", "balances", "supply"}
  OBVIOUS
<1> QED
  BY <1>21, <1>22, <1>23, <1>24

(* A validator has a balance.                                              *)
LEMMA SameIndices ==
  ASSUME NEW s, Sound(s) PROVE DOMAIN s.balances = DOMAIN s.validators
<1>1. s.balances \in Seq(Nat) /\ s.validators \in Seq(Validator)
  BY FieldTypes DEF Sound
<1>2. Len(s.balances) = Len(s.validators)
  BY SoundWhole
<1> QED
  BY <1>1, <1>2

-----------------------------------------------------------------------------
(* Deposits. *)

(* add_validator_to_registry: the amount is new money in the balances.     *)
LEMMA RegistryGrows ==
  ASSUME NEW s, Sound(s), NEW deposit, deposit.pubkey \in Pubkeys,
         deposit.withdrawal_credentials \in Credentials, NEW amount \in Nat
  PROVE  LET t == add_validator_to_registry(s, deposit, amount)
         IN Evolved(s, t, {"validators", "balances"}) /\ Surplus(t) = Surplus(s) + amount
<1> DEFINE fresh == [pubkey |-> deposit.pubkey,
                     withdrawal_credentials |-> deposit.withdrawal_credentials,
                     effective_balance |-> 0,
                     slashed |-> FALSE,
                     activation_eligibility_epoch |-> FAR_FUTURE_EPOCH,
                     activation_epoch |-> FAR_FUTURE_EPOCH,
                     exit_epoch |-> FAR_FUTURE_EPOCH,
                     withdrawable_epoch |-> FAR_FUTURE_EPOCH]
           effective == Least(amount - (amount % EFFECTIVE_BALANCE_INCREMENT),
                              get_max_effective_balance(fresh))
           w == [fresh EXCEPT !.effective_balance = effective]
           vs == Append(s.validators, w)
           bs == Append(s.balances, amount)
           t1 == [s EXCEPT !.validators = vs]
           t == [t1 EXCEPT !.balances = bs]
<1>0. s \in BeaconState /\ s.slot <= MaxSlot
  BY DEF Sound
<1>1. add_validator_to_registry(s, deposit, amount) = t
  BY DEF add_validator_to_registry
<1>2. fresh \in Validator
  BY <1>0, EpochBounds DEF Validator
<1>3. effective \in Nat /\ effective <= get_max_effective_balance(fresh)
  <2>1. amount % EFFECTIVE_BALANCE_INCREMENT \in 0..amount
    BY RegistryConstants, SMTT(30)
  <2>2. get_max_effective_balance(fresh) \in Nat
    BY RegistryConstants DEF get_max_effective_balance
  <2> HIDE DEF fresh
  <2> QED
    BY <2>1, <2>2 DEF Least
<1>4. w \in Validator
  <2> HIDE DEF fresh, effective
  <2> QED
    BY <1>2, <1>3, ValidatorFields
<1>5. InOrder(w)
  <2> HIDE DEF effective
  <2>1. FAR_FUTURE_EPOCH \in Nat
    BY RegistryConstants
  <2> QED
    BY <1>3, <2>1 DEF InOrder, get_max_effective_balance, has_compounding_withdrawal_credential
<1> HIDE DEF w
<1>6. s.validators \in Seq(Validator) /\ s.balances \in Seq(Nat) /\ s.balances \in Seq(Int)
      /\ Len(s.balances) = Len(s.validators)
  BY <1>0, FieldTypes, SoundWhole
<1>7. /\ vs \in Seq(Validator) /\ Len(vs) = Len(s.validators) + 1
      /\ DOMAIN s.validators \subseteq DOMAIN vs
      /\ \A k \in DOMAIN vs : (k \in DOMAIN s.validators /\ vs[k] = s.validators[k]) \/ vs[k] = w
      /\ \A k \in DOMAIN s.validators : vs[k] = s.validators[k]
      /\ bs \in Seq(Nat) /\ Len(bs) = Len(s.balances) + 1
  BY <1>4, <1>6
<1>8. Total(bs) = Total(s.balances) + amount
  BY <1>6, TotalAppend
<1> HIDE DEF vs, bs
<1>9. SameBut(s, t1, {"validators"}) /\ t1.validators = vs /\ t1 \in BeaconState
  BY <1>0, <1>7, FieldSet DEF SameBut
<1> HIDE DEF t1
<1>10. SameBut(t1, t, {"balances"}) /\ t.balances = bs
  BY <1>7, <1>9, FieldSet
<1> HIDE DEF t
<1>11. SameBut(s, t, {"validators", "balances"})
  <2>1. SameBut(s, t, {"validators"} \cup {"balances"})
    BY <1>9, <1>10, SameButTransitive
  <2>2. {"validators"} \cup {"balances"} = {"validators", "balances"}
    OBVIOUS
  <2> QED
    BY <2>1, <2>2
<1>12. /\ t.validators = vs /\ t.slot = s.slot
       /\ t.pending_partial_withdrawals = s.pending_partial_withdrawals
       /\ t.pending_consolidations = s.pending_consolidations
       /\ t.earliest_exit_epoch = s.earliest_exit_epoch
       /\ t.exit_balance_to_consume = s.exit_balance_to_consume
       /\ t.exits = s.exits /\ t.supply = s.supply
       /\ t.pending_deposits = s.pending_deposits
       /\ t.next_withdrawal_validator_index = s.next_withdrawal_validator_index
  BY <1>9, <1>10, <1>11, Agreement
<1>13. QueueSound(t) /\ AllExitsFit(t)
  <2>1. DOMAIN t = DOMAIN s
    BY <1>11, FieldTypes DEF SameBut
  <2> QED
    BY <1>12, <2>1 DEF Sound, QueueSound, AllExitsFit, ExitsFit
<1>14. Sound(t)
  <2>1. \A k \in DOMAIN t.validators : InOrder(t.validators[k])
    BY <1>5, <1>7, <1>12, SoundWhole
  <2>2. Len(t.balances) = Len(t.validators)
    BY <1>6, <1>7, <1>10, <1>12
  <2> QED
    BY <1>7, <1>11, <1>12, <1>13, <2>1, <2>2, SoundWhole DEF SameBut
<1>15. Kept(s, t)
  BY <1>7, <1>12 DEF Kept, KeptValidator
<1>16. Surplus(t) = Surplus(s) + amount
  BY <1>0, <1>8, <1>10, <1>12, SurplusType DEF Surplus
<1> QED
  BY <1>1, <1>11, <1>14, <1>15, <1>16 DEF Evolved

(* What a queue holds after one more, and from an index on.                *)
LEMMA AmountsAppend ==
  ASSUME NEW q \in Seq(PendingDeposit), NEW d \in PendingDeposit
  PROVE  /\ Append(q, d) \in Seq(PendingDeposit)
         /\ Total(Amounts(Append(q, d))) = Total(Amounts(q)) + d.amount
         /\ d.amount \in Nat
<1>1. Amounts(q) \in Seq(Int) /\ Len(Amounts(q)) = Len(q)
  BY AmountsType
<1>2. d.amount \in Nat
  BY DEF PendingDeposit
<1>3. Append(q, d) \in Seq(PendingDeposit)
  OBVIOUS
<1>4. Amounts(Append(q, d)) = Append(Amounts(q), d.amount)
  <2> DEFINE a == Amounts(Append(q, d))
             b == Append(Amounts(q), d.amount)
             n == Len(q) + 1
  <2>1. n \in Nat /\ DOMAIN Append(q, d) = 1..n /\ DOMAIN q = 1..Len(q)
        /\ Append(q, d)[n] = d /\ \A k \in 1..Len(q) : Append(q, d)[k] = q[k]
    OBVIOUS
  <2>2. a = [k \in 1..n |-> a[k]]
    BY <2>1 DEF Amounts
  <2>3. b = [k \in 1..n |-> b[k]]
    BY <1>1, <1>2
  <2>4. \A k \in 1..n : a[k] = b[k]
    <3>1. \A k \in 1..n : a[k] = Append(q, d)[k].amount
      BY <2>1 DEF Amounts
    <3>2. \A k \in 1..Len(q) : b[k] = q[k].amount
      BY <1>1, <2>1 DEF Amounts
    <3>3. b[n] = d.amount
      BY <1>1
    <3> HIDE DEF a, b
    <3> QED
      BY <2>1, <3>1, <3>2, <3>3
  <2> HIDE DEF a, b, n
  <2> QED
    BY <2>2, <2>3, <2>4 DEF a, b
<1> QED
  BY <1>1, <1>2, <1>3, <1>4, TotalAppend

(* A deposit in the queue is money that should be there.                   *)
LEMMA DepositQueued ==
  ASSUME NEW s, Sound(s), NEW deposit \in DepositData, NEW slot \in Nat
  PROVE  LET t == AppendDeposit(s, deposit, slot)
         IN /\ Evolved(s, t, {"pending_deposits", "supply"}) /\ Surplus(t) = Surplus(s)
            /\ t.pending_deposits = Append(s.pending_deposits, Pending(deposit, slot))
<1> DEFINE d == Pending(deposit, slot)
           q == Append(s.pending_deposits, d)
           x == s.supply + deposit.amount
           t1 == [s EXCEPT !.pending_deposits = q]
           t == [t1 EXCEPT !.supply = x]
<1>0. s \in BeaconState /\ s.slot <= MaxSlot /\ s.next_withdrawal_validator_index \in DOMAIN s.validators
  BY SoundWhole
<1>1. AppendDeposit(s, deposit, slot) = t
  BY DEF AppendDeposit
<1>2. d \in PendingDeposit /\ d.amount = deposit.amount /\ deposit.amount \in Nat
  BY DEF Pending, PendingDeposit, DepositData
<1> HIDE DEF d
<1>3. q \in Seq(PendingDeposit) /\ Total(Amounts(q)) = Total(Amounts(s.pending_deposits)) + d.amount
  BY <1>0, <1>2, AmountsAppend, FieldTypes
<1>4. x \in Int
  BY <1>0, <1>2, FieldTypes
<1> HIDE DEF q, x
<1>5. SameBut(s, t1, {"pending_deposits"}) /\ t1.pending_deposits = q /\ t1 \in BeaconState
  BY <1>0, <1>3, FieldSet DEF SameBut
<1> HIDE DEF t1
<1>6. SameBut(t1, t, {"supply"}) /\ t.supply = x
  BY <1>4, <1>5, FieldSet
<1> HIDE DEF t
<1>7. SameBut(s, t, {"pending_deposits", "supply"})
  <2>1. SameBut(s, t, {"pending_deposits"} \cup {"supply"})
    BY <1>5, <1>6, SameButTransitive
  <2>2. {"pending_deposits"} \cup {"supply"} = {"pending_deposits", "supply"}
    OBVIOUS
  <2> QED
    BY <2>1, <2>2
<1>8. t.pending_deposits = q /\ t.balances = s.balances /\ t.slot = s.slot
      /\ t.validators = s.validators
      /\ t.next_withdrawal_validator_index = s.next_withdrawal_validator_index
  BY <1>5, <1>6, <1>7, Agreement
<1>9. Evolved(s, t, {"pending_deposits", "supply"})
  BY <1>0, <1>7, <1>8, SoundOutside
<1>10. Surplus(t) = Surplus(s)
  BY <1>0, <1>2, <1>3, <1>6, <1>8, SurplusType DEF Surplus, x
<1> QED
  BY <1>1, <1>8, <1>9, <1>10 DEF q, d

RegistryStep(a, s, index) == RegistryUpdated(s, index)
PenaltyStep(a, s, index) == CorrelationPenalty(a, s, index)
DeltaStep(a, s, index) == DeltaApplied(a, s, index)
Updating == INSTANCE FoldOf WITH op <- RegistryStep

LEMMA UpdatingInducts == Updating!NatInduction
BY NatSetInduction DEF Updating!NatInduction
Penalising == INSTANCE FoldOf WITH op <- PenaltyStep

LEMMA PenalisingInducts == Penalising!NatInduction
BY NatSetInduction DEF Penalising!NatInduction
Rewarding == INSTANCE FoldOf WITH op <- DeltaStep

LEMMA RewardingInducts == Rewarding!NatInduction
BY NatSetInduction DEF Rewarding!NatInduction

-----------------------------------------------------------------------------
(* The loops of an epoch over the registry. *)

(* A loop each turn of which keeps the state sound.                        *)
LEMMA LoopEvolves ==
  ASSUME NEW s, Sound(s), NEW N \in Nat, NEW h, h[0] = s, NEW F,
         \A n \in 1..N : Evolved(s, h[n - 1], F) =>
           Evolved(h[n - 1], h[n], F) /\ Surplus(h[n]) = Surplus(h[n - 1])
  PROVE  Evolved(s, h[N], F) /\ Surplus(h[N]) = Surplus(s)
<1> DEFINE S == {n \in 0..N : Evolved(s, h[n], F) /\ Surplus(h[n]) = Surplus(s)}
<1>1. 0 \in S
  BY EvolvedItself, EvolvedWithin
<1>2. ASSUME NEW n \in 1..N, n - 1 \in S PROVE n \in S
  <2>1. Evolved(s, h[n - 1], F) /\ Surplus(h[n - 1]) = Surplus(s)
    BY <1>2
  <2>2. Evolved(h[n - 1], h[n], F) /\ Surplus(h[n]) = Surplus(h[n - 1])
    BY <2>1
  <2>3. Evolved(s, h[n], F \cup F)
    BY <2>1, <2>2, EvolvedTransitive
  <2>4. F \cup F = F
    OBVIOUS
  <2> QED
    BY <2>1, <2>2, <2>3, <2>4
<1>3. 0..N \subseteq S
  <2> HIDE DEF S
  <2> QED
    BY <1>1, <1>2, UpTo
<1> QED
  BY <1>3

(* Every validator is one, with its epochs in order.                       *)
LEMMA ValidatorAt ==
  ASSUME NEW s, Sound(s), NEW i \in DOMAIN s.validators
  PROVE  s.validators[i] \in Validator /\ InOrder(s.validators[i])
<1>1. s.validators \in Seq(Validator)
  BY FieldTypes DEF Sound
<1> QED
  BY <1>1, SoundWhole

(* One epoch of a validator's set to another; its exit epochs are as they  *)
(* were.                                                                   *)
LEMMA RegistryUpdatedEvolves ==
  ASSUME NEW s, Sound(s), NEW i \in DOMAIN s.validators
  PROVE  LET t == RegistryUpdated(s, i)
         IN Evolved(s, t, ExitFields \cup {"validators"}) /\ Surplus(t) = Surplus(s)
<1> DEFINE epoch == get_current_epoch(s)
           v == s.validators[i]
           t == RegistryUpdated(s, i)
           F == ExitFields \cup {"validators"}
<1>1. s \in BeaconState /\ s.slot <= MaxSlot /\ v \in Validator /\ InOrder(v)
  BY ValidatorAt DEF Sound
<1>2. epoch \in Nat /\ compute_activation_exit_epoch(epoch) \in Nat
      /\ compute_activation_exit_epoch(epoch) < FAR_FUTURE_EPOCH /\ FAR_FUTURE_EPOCH \in Nat
  BY <1>1, EpochBounds
<1>3. CASE is_eligible_for_activation_queue(v)
  <2> DEFINE x == epoch + 1
             w == [v EXCEPT !.activation_eligibility_epoch = x]
             u == [s EXCEPT !.validators = [s.validators EXCEPT ![i] = w]]
  <2>1. t = u
    BY <1>3 DEF RegistryUpdated
  <2>2. w \in Validator
    <3>1. x \in Nat
      BY <1>2
    <3> HIDE DEF x, v
    <3> QED
      BY <1>1, <3>1, ValidatorFields
  <2>3. InOrder(w) /\ KeptValidator(v, w)
    BY <1>1 DEF Validator, InOrder, KeptValidator, get_max_effective_balance,
                has_compounding_withdrawal_credential
  <2> HIDE DEF w
  <2>4. Evolved(s, u, {"validators"}) /\ Surplus(u) = Surplus(s)
    BY <2>2, <2>3, ValidatorSet
  <2> HIDE DEF u
  <2> QED
    BY <2>1, <2>4, EvolvedWithin
<1>4. CASE /\ ~is_eligible_for_activation_queue(v)
           /\ is_active_validator(v, epoch) /\ v.effective_balance <= EJECTION_BALANCE
  <2>1. t = initiate_validator_exit(s, i)
    BY <1>4 DEF RegistryUpdated
  <2>2. v.activation_epoch <= epoch
    BY <1>4 DEF is_active_validator
  <2> QED
    BY <2>1, <2>2, ExitEvolves
<1>5. CASE /\ ~is_eligible_for_activation_queue(v)
           /\ ~(is_active_validator(v, epoch) /\ v.effective_balance <= EJECTION_BALANCE)
           /\ is_eligible_for_activation(s, v)
  <2> DEFINE x == compute_activation_exit_epoch(epoch)
             w == [v EXCEPT !.activation_epoch = x]
             u == [s EXCEPT !.validators = [s.validators EXCEPT ![i] = w]]
  <2>1. t = u
    BY <1>5 DEF RegistryUpdated
  <2>2. w \in Validator
    <3>1. x \in Nat
      BY <1>2
    <3> HIDE DEF x, v
    <3> QED
      BY <1>1, <3>1, ValidatorFields
  <2>3. InOrder(w) /\ KeptValidator(v, w)
    <3>1. v.activation_epoch = FAR_FUTURE_EPOCH
      BY <1>5 DEF is_eligible_for_activation
    <3> QED
      BY <1>1, <1>2, <3>1
        DEF Validator, InOrder, KeptValidator, get_max_effective_balance,
            has_compounding_withdrawal_credential
  <2> HIDE DEF w
  <2>4. Evolved(s, u, {"validators"}) /\ Surplus(u) = Surplus(s)
    BY <2>2, <2>3, ValidatorSet
  <2> HIDE DEF u
  <2> QED
    BY <2>1, <2>4, EvolvedWithin
<1>6. CASE /\ ~is_eligible_for_activation_queue(v)
           /\ ~(is_active_validator(v, epoch) /\ v.effective_balance <= EJECTION_BALANCE)
           /\ ~is_eligible_for_activation(s, v)
  <2>1. t = s
    BY <1>6 DEF RegistryUpdated
  <2> QED
    BY <2>1, EvolvedItself, EvolvedWithin
<1> QED
  BY <1>3, <1>4, <1>5, <1>6

(* One turn of process_slashings.                                          *)
LEMMA CorrelationPenaltyEvolves ==
  ASSUME NEW s, Sound(s), NEW i \in DOMAIN s.validators, NEW penalty \in Nat
  PROVE  LET t == CorrelationPenalty(penalty, s, i)
         IN Evolved(s, t, {"balances", "supply"}) /\ Surplus(t) = Surplus(s)
<1> DEFINE v == s.validators[i]
           amount == penalty * (v.effective_balance \div EFFECTIVE_BALANCE_INCREMENT)
           t == CorrelationPenalty(penalty, s, i)
<1>1. t = s \/ t = Penalised(s, i, amount)
  BY DEF CorrelationPenalty
<1>2. amount \in Nat
  <2>1. v.effective_balance \in Nat
    BY ValidatorAt DEF Validator
  <2> DEFINE b == v.effective_balance
  <2> HIDE DEF b
  <2>2. b \in Nat /\ b \div EFFECTIVE_BALANCE_INCREMENT \in Nat
    BY <2>1, RegistryConstants, Division DEF b
  <2> QED
    BY <2>2, Products DEF b
<1> HIDE DEF amount, t
<1>3. CASE t = s
  BY <1>3, EvolvedItself, EvolvedWithin DEF t
<1>4. CASE t = Penalised(s, i, amount)
  BY <1>2, <1>4, BalancesEvolve, SameIndices DEF t
<1> QED
  BY <1>1, <1>3, <1>4

(* One turn of process_rewards_and_penalties.                              *)
LEMMA DeltaAppliedEvolves ==
  ASSUME NEW s, Sound(s), NEW i \in DOMAIN s.validators, NEW delta \in Int
  PROVE  LET t == DeltaApplied(delta, s, i)
         IN Evolved(s, t, {"balances", "supply"}) /\ Surplus(t) = Surplus(s)
<1> DEFINE t == DeltaApplied(delta, s, i)
<1>1. \/ t = s
      \/ delta >= 0 /\ t = Rewarded(s, i, delta)
      \/ ~(delta >= 0) /\ t = Penalised(s, i, -delta)
  BY DEF DeltaApplied
<1>0. i \in DOMAIN s.balances
  BY SameIndices
<1> HIDE DEF t
<1>2. CASE t = s
  BY <1>2, EvolvedItself, EvolvedWithin DEF t
<1>3. CASE delta >= 0 /\ t = Rewarded(s, i, delta)
  <2>1. delta \in Nat
    BY <1>3
  <2> QED
    BY <1>0, <1>3, <2>1, BalancesEvolve DEF t
<1>4. CASE ~(delta >= 0) /\ t = Penalised(s, i, -delta)
  <2>1. -delta \in Nat
    BY <1>4
  <2> QED
    BY <1>0, <1>4, <2>1, BalancesEvolve DEF t
<1> QED
  BY <1>1, <1>2, <1>3, <1>4

(* process_rewards_and_penalties, over the whole registry.                 *)
LEMMA RewardsEvolve ==
  ASSUME NEW s, Sound(s), NEW delta \in Int
  PROVE  LET t == process_rewards_and_penalties(s, delta)
         IN Evolved(s, t, {"balances", "supply"}) /\ Surplus(t) = Surplus(s)
<1> DEFINE N == Len(s.validators)
           seq == [i \in DOMAIN s.validators |-> i]
           t == FoldLeftDomain(LAMBDA u, index : DeltaApplied(delta, u, index),
                               s, s.validators)
<1>1. N \in Nat /\ DOMAIN s.validators = 1..N /\ DOMAIN seq = 1..N
      /\ (\A n \in 1..N : seq[n] = n)
  <2>1. s.validators \in Seq(Validator)
    BY FieldTypes DEF Sound
  <2> QED
    BY <2>1
<1>2. t = Rewarding!TheFold(delta, s, seq, N)[1..N]
  BY <1>1 DEF FoldLeftDomain, FoldLeft, MapThenFoldSet, Max,
     Rewarding!TheFold, Rewarding!Fold, Rewarding!Largest, DeltaStep
<1> HIDE DEF seq, N, t
<1>3. PICK h : /\ Rewarding!Course(delta, s, seq, N, h)
               /\ h[N] = Rewarding!TheFold(delta, s, seq, N)[1..N]
  BY <1>1, Rewarding!FoldHasCourse, RewardingInducts
<1>4. h[0] = s /\ \A n \in 1..N : h[n] = DeltaApplied(delta, h[n - 1], n)
  BY <1>1, <1>3 DEF Rewarding!Course, DeltaStep
<1> DEFINE F == {"balances", "supply"}
<1>5. ASSUME NEW n \in 1..N, Evolved(s, h[n - 1], F)
      PROVE  Evolved(h[n - 1], h[n], F) /\ Surplus(h[n]) = Surplus(h[n - 1])
  <2>1. Sound(h[n - 1]) /\ n \in DOMAIN h[n - 1].validators
    BY <1>1, <1>5 DEF Evolved, Kept
  <2>2. h[n] = DeltaApplied(delta, h[n - 1], n)
    BY <1>4
  <2> QED
    BY <2>1, <2>2, DeltaAppliedEvolves
<1>6. Evolved(s, h[N], F) /\ Surplus(h[N]) = Surplus(s)
  <2> HIDE DEF F
  <2> QED
    BY <1>1, <1>4, <1>5, LoopEvolves
<1>7. Evolved(s, t, F) /\ Surplus(t) = Surplus(s)
  BY <1>2, <1>3, <1>6
<1> QED
  BY <1>7, EvolvedItself, EvolvedWithin DEF process_rewards_and_penalties, t

(* process_registry_updates: ejections join the exit queue one by one.     *)
LEMMA RegistryUpdatesEvolve ==
  ASSUME NEW s, Sound(s)
  PROVE  LET t == process_registry_updates(s)
         IN Evolved(s, t, ExitFields \cup {"validators"}) /\ Surplus(t) = Surplus(s)
<1> DEFINE N == Len(s.validators)
           seq == [i \in DOMAIN s.validators |-> i]
           t == process_registry_updates(s)
<1>1. N \in Nat /\ DOMAIN s.validators = 1..N /\ DOMAIN seq = 1..N
      /\ (\A n \in 1..N : seq[n] = n)
  <2>1. s.validators \in Seq(Validator)
    BY FieldTypes DEF Sound
  <2> QED
    BY <2>1
<1>2. t = Updating!TheFold(0, s, seq, N)[1..N]
  BY <1>1 DEF process_registry_updates, FoldLeftDomain, FoldLeft, MapThenFoldSet, Max,
     Updating!TheFold, Updating!Fold, Updating!Largest, RegistryStep
<1> HIDE DEF seq, N, t
<1>3. PICK h : /\ Updating!Course(0, s, seq, N, h)
               /\ h[N] = Updating!TheFold(0, s, seq, N)[1..N]
  BY <1>1, Updating!FoldHasCourse, UpdatingInducts
<1>4. h[0] = s /\ \A n \in 1..N : h[n] = RegistryUpdated(h[n - 1], n)
  BY <1>1, <1>3 DEF Updating!Course, RegistryStep
<1> DEFINE F == ExitFields \cup {"validators"}
<1>5. ASSUME NEW n \in 1..N, Evolved(s, h[n - 1], F)
      PROVE  Evolved(h[n - 1], h[n], F) /\ Surplus(h[n]) = Surplus(h[n - 1])
  <2>1. Sound(h[n - 1]) /\ n \in DOMAIN h[n - 1].validators
    BY <1>1, <1>5 DEF Evolved, Kept
  <2>2. h[n] = RegistryUpdated(h[n - 1], n)
    BY <1>4
  <2> QED
    BY <2>1, <2>2, RegistryUpdatedEvolves
<1>6. Evolved(s, h[N], F) /\ Surplus(h[N]) = Surplus(s)
  <2> HIDE DEF F
  <2> QED
    BY <1>1, <1>4, <1>5, LoopEvolves
<1> QED
  BY <1>2, <1>3, <1>6 DEF t

(* process_slashings, over the whole registry.                             *)
LEMMA SlashingsEvolve ==
  ASSUME NEW s, Sound(s)
  PROVE  LET t == process_slashings(s)
         IN Evolved(s, t, {"balances", "supply"}) /\ Surplus(t) = Surplus(s)
<1> DEFINE N == Len(s.validators)
           seq == [i \in DOMAIN s.validators |-> i]
           total == get_total_active_balance(s)
           slashed == Total([k \in 1..EPOCHS_PER_SLASHINGS_VECTOR |-> s.slashings[k - 1]])
           adjusted == Least(slashed * PROPORTIONAL_SLASHING_MULTIPLIER_BELLATRIX, total)
           penalty == adjusted \div (total \div EFFECTIVE_BALANCE_INCREMENT)
           t == FoldLeftDomain(LAMBDA u, index : CorrelationPenalty(penalty, u, index),
                               s, s.validators)
<1>0. process_slashings(s) = t
  BY DEF process_slashings
<1>1. N \in Nat /\ DOMAIN s.validators = 1..N /\ DOMAIN seq = 1..N
      /\ (\A n \in 1..N : seq[n] = n)
  <2>1. s.validators \in Seq(Validator)
    BY FieldTypes DEF Sound
  <2> QED
    BY <2>1
<1>2. penalty \in Nat
  <2> DEFINE E == EPOCHS_PER_SLASHINGS_VECTOR
             inc == EFFECTIVE_BALANCE_INCREMENT
             x == [k \in 1..E |-> s.slashings[k - 1]]
  <2>1. x \in Seq(Nat)
    <3>1. s.slashings \in [0..(E - 1) -> Nat] /\ E \in Nat
      BY FieldTypes, RegistryConstants DEF Sound
    <3>2. x \in [1..E -> Nat]
      BY <3>1
    <3> QED
      BY <3>1, <3>2
  <2> HIDE DEF x
  <2>2. slashed \in Nat
    BY <2>1, TotalType DEF x
  <2>3. total \in Nat /\ total >= inc /\ inc \in Nat /\ inc > 0
    BY ActiveBalance, RegistryConstants DEF Sound
  <2> HIDE DEF slashed, total, inc
  <2>4. slashed * PROPORTIONAL_SLASHING_MULTIPLIER_BELLATRIX \in Nat
    BY <2>2, EpochConstants, Products
  <2>5. adjusted \in Nat
    BY <2>3, <2>4 DEF Least
  <2>6. total \div inc \in Nat /\ total \div inc > 0
    <3>1. inc \div inc = 1
      BY <2>3, SMTT(30)
    <3>2. inc \div inc <= total \div inc /\ total \div inc \in Nat
      BY <2>3, Division
    <3> QED
      BY <3>1, <3>2
  <2> HIDE DEF adjusted
  <2> QED
    BY <2>5, <2>6, Division DEF inc
<1> HIDE DEF penalty
<1>3. t = Penalising!TheFold(penalty, s, seq, N)[1..N]
  BY <1>1 DEF FoldLeftDomain, FoldLeft, MapThenFoldSet, Max,
     Penalising!TheFold, Penalising!Fold, Penalising!Largest, PenaltyStep
<1> HIDE DEF seq, N, t
<1>4. PICK h : /\ Penalising!Course(penalty, s, seq, N, h)
               /\ h[N] = Penalising!TheFold(penalty, s, seq, N)[1..N]
  BY <1>1, Penalising!FoldHasCourse, PenalisingInducts
<1>5. h[0] = s /\ \A n \in 1..N : h[n] = CorrelationPenalty(penalty, h[n - 1], n)
  BY <1>1, <1>4 DEF Penalising!Course, PenaltyStep
<1> DEFINE F == {"balances", "supply"}
<1>6. ASSUME NEW n \in 1..N, Evolved(s, h[n - 1], F)
      PROVE  Evolved(h[n - 1], h[n], F) /\ Surplus(h[n]) = Surplus(h[n - 1])
  <2>1. Sound(h[n - 1]) /\ n \in DOMAIN h[n - 1].validators
    BY <1>1, <1>6 DEF Evolved, Kept
  <2>2. h[n] = CorrelationPenalty(penalty, h[n - 1], n)
    BY <1>5
  <2> QED
    BY <1>2, <2>1, <2>2, CorrelationPenaltyEvolves
<1>7. Evolved(s, h[N], F) /\ Surplus(h[N]) = Surplus(s)
  <2> HIDE DEF F
  <2>1. N \in Nat /\ h[0] = s
    BY <1>1, <1>5
  <2> QED
    BY <1>6, <2>1, LoopEvolves
<1> QED
  BY <1>0, <1>3, <1>4, <1>7

DepositStep(a, p, deposit) == PendingDepositProcessed(p, deposit)
Depositing == INSTANCE FoldOf WITH op <- DepositStep

LEMMA DepositingInducts == Depositing!NatInduction
BY NatSetInduction DEF Depositing!NatInduction

-----------------------------------------------------------------------------
(* The queue of deposits. *)

(* What is left of a queue from the index j on, and what comes after it.   *)
LEMMA AmountsLeft ==
  ASSUME NEW q \in Seq(PendingDeposit), NEW r \in Seq(PendingDeposit),
         NEW P, P[0] = 0, \A n \in 0..Len(q) : P[n] \in Int,
         \A n \in 1..Len(q) : P[n] = P[n - 1] + q[n].amount,
         NEW j \in 0..Len(q)
  PROVE  LET u == SubSeq(q, j + 1, Len(q)) \o r
         IN /\ u \in Seq(PendingDeposit)
            /\ Total(Amounts(u)) = P[Len(q)] - P[j] + Total(Amounts(r))
            /\ j < Len(q) => u # <<>> /\ Head(u) = q[j + 1]
<1> DEFINE N == Len(q)
           rest == SubSeq(q, j + 1, N)
           m == N - j
           u == rest \o r
<1>1. N \in Nat /\ j \in Nat /\ j <= N /\ m \in Nat /\ Len(r) \in Nat
  OBVIOUS
<1>2. /\ rest \in Seq(PendingDeposit) /\ Len(rest) = m
      /\ \A k \in 1..m : rest[k] = q[j + k]
  <2>1. rest \in Seq(PendingDeposit) /\ Len(rest) = m
    BY <1>1
  <2>2. \A k \in 1..m : rest[k] = q[j + k]
    BY <1>1
  <2> QED
    BY <2>1, <2>2
<1> HIDE DEF rest, m, N
<1>3. /\ u \in Seq(PendingDeposit) /\ Len(u) = m + Len(r)
      /\ \A k \in 1..m : u[k] = rest[k]
      /\ \A k \in 1..Len(r) : u[m + k] = r[k]
  <2>1. u \in Seq(PendingDeposit) /\ Len(u) = m + Len(r)
    <3>1. rest \in Seq(PendingDeposit) /\ Len(rest) = m
      BY <1>2
    <3>2. u \in Seq(PendingDeposit)
      BY <3>1
    <3>3. Len(u) = Len(rest) + Len(r)
      BY ONLY <3>1, r \in Seq(PendingDeposit) DEF u
    <3> QED
      BY <3>1, <3>2, <3>3
  <2>2. \A k \in 1..m : u[k] = rest[k]
    BY <1>1, <1>2
  <2>3. \A k \in 1..Len(r) : u[m + k] = r[k]
    BY <1>1, <1>2
  <2> QED
    BY <2>1, <2>2, <2>3
<1>4. j < N => u # <<>> /\ Head(u) = q[j + 1]
  <2> SUFFICES ASSUME j < N PROVE u # <<>> /\ Head(u) = q[j + 1]
    OBVIOUS
  <2>1. 1 \in 1..m
    BY <1>1 DEF m
  <2>2. u[1] = q[j + 1] /\ Len(u) > 0
    BY <1>1, <1>2, <1>3, <2>1
  <2> HIDE DEF u
  <2> QED
    BY <1>3, <2>2
<1> HIDE DEF u
<1>5. /\ Amounts(u) \in Seq(Int) /\ Len(Amounts(u)) = Len(u)
      /\ Amounts(rest) \in Seq(Int) /\ Len(Amounts(rest)) = Len(rest)
      /\ Amounts(r) \in Seq(Int) /\ Len(Amounts(r)) = Len(r)
  BY <1>2, <1>3, AmountsType
<1>6. /\ \A k \in 1..m : Amounts(rest)[k] = rest[k].amount /\ Amounts(u)[k] = u[k].amount
      /\ \A k \in 1..Len(r) : Amounts(r)[k] = r[k].amount /\ Amounts(u)[m + k] = u[m + k].amount
  <2>1. DOMAIN rest = 1..m /\ DOMAIN u = 1..(m + Len(r)) /\ DOMAIN r = 1..Len(r)
    BY <1>2, <1>3
  <2> QED
    BY <1>1, <2>1 DEF Amounts
<1>7. Total(Amounts(u)) = Total(Amounts(rest)) + Total(Amounts(r))
  <2> DEFINE a == Amounts(rest)
             b == Amounts(r)
             c == Amounts(u)
  <2>1. a \in Seq(Int) /\ b \in Seq(Int) /\ c \in Seq(Int) /\ Len(c) = Len(a) + Len(b)
    BY <1>2, <1>3, <1>5
  <2>0. Len(a) = m /\ Len(b) = Len(r)
    BY <1>2, <1>5
  <2>2. ASSUME NEW k \in 1..m PROVE c[k] = a[k]
    <3>1. u[k] = rest[k] /\ a[k] = rest[k].amount /\ c[k] = u[k].amount
      BY ONLY <1>3, <1>6, k \in 1..m
    <3> QED
      BY ONLY <3>1
  <2>3. ASSUME NEW k \in 1..Len(r) PROVE c[m + k] = b[k]
    <3>1. u[m + k] = r[k] /\ b[k] = r[k].amount /\ c[m + k] = u[m + k].amount
      BY ONLY <1>3, <1>6, k \in 1..Len(r)
    <3> QED
      BY ONLY <3>1
  <2> HIDE DEF a, b, c
  <2>4. Total(c) = Total(a) + Total(b)
    <3>1. \A k \in 1..Len(a) : c[k] = a[k]
      BY <2>0, <2>2
    <3>2. \A k \in 1..Len(b) : c[Len(a) + k] = b[k]
      BY <2>0, <2>3
    <3> QED
      BY <2>1, <3>1, <3>2, TotalJoined
  <2> QED
    BY <2>4 DEF a, b, c
<1>8. Total(Amounts(rest)) = P[N] - P[j]
  <2> DEFINE Q == [k \in 0..m |-> P[j + k] - P[j]]
             a == Amounts(rest)
  <2>1. \A k \in 0..m : j + k \in 0..N /\ P[j + k] \in Int
    BY <1>1 DEF m, N
  <2>2. Q[0] = 0
    BY <1>1, <2>1
  <2>3. ASSUME NEW k \in 1..m PROVE Q[k] = Q[k - 1] + a[k]
    <3>1. k \in 0..m /\ k - 1 \in 0..m /\ j + k \in 1..N /\ j + (k - 1) = (j + k) - 1
      BY <1>1 DEF m
    <3>2. a[k] = q[j + k].amount
      BY <1>2, <1>6
    <3>3. P[j + k] = P[(j + k) - 1] + q[j + k].amount
      BY <3>1 DEF N
    <3>4. Q[k] = P[j + k] - P[j] /\ Q[k - 1] = P[(j + k) - 1] - P[j]
      BY <3>1
    <3>5. P[j + k] \in Int /\ P[(j + k) - 1] \in Int /\ P[j] \in Int
      BY <2>1, <3>1
    <3>6. q[j + k].amount \in Int
      <4>1. q[j + k] \in PendingDeposit
        BY <3>1 DEF N
      <4> QED
        BY <4>1 DEF PendingDeposit
    <3> HIDE DEF Q, a
    <3> QED
      BY <3>2, <3>3, <3>4, <3>5, <3>6
  <2>4. Q[m] = P[N] - P[j]
    BY <1>1 DEF m
  <2> HIDE DEF Q
  <2>5. a \in Seq(Int) /\ Len(a) = m
    BY <1>2, <1>5
  <2> HIDE DEF a
  <2>6. Total(a) = Q[Len(a)]
    BY <2>2, <2>3, <2>5, TotalIs
  <2> QED
    BY <2>4, <2>5, <2>6 DEF a
<1> QED
  BY <1>3, <1>4, <1>7, <1>8 DEF u, rest, N

(* A deposit that leaves the queue: onto a balance, into the registry, or  *)
(* lost.                                                                   *)
LEMMA DepositApplied ==
  ASSUME NEW s, Sound(s), NEW d \in PendingDeposit
  PROVE  LET t == apply_pending_deposit(s, d)
         IN Evolved(s, t, {"validators", "balances", "supply"})
            /\ Surplus(t) = Surplus(s) + d.amount
<1> DEFINE known == WithPubkey(s, d.pubkey)
           t == apply_pending_deposit(s, d)
<1>0. s \in BeaconState /\ s.slot <= MaxSlot /\ s.next_withdrawal_validator_index \in DOMAIN s.validators
  BY SoundWhole
<1>1. d.amount \in Nat /\ d.pubkey \in Pubkeys /\ d.withdrawal_credentials \in Credentials
  BY DEF PendingDeposit
<1>2. CASE known # {}
  <2> DEFINE i == CHOOSE i \in known : TRUE
             u == increase_balance(s, i, d.amount)
  <2>1. t = u
    BY <1>2 DEF apply_pending_deposit
  <2>2. i \in DOMAIN s.balances
    <3>1. i \in known
      BY <1>2
    <3> QED
      BY <3>1, SameIndices DEF WithPubkey
  <2> HIDE DEF i
  <2>3. /\ SameBut(s, u, {"balances"}) /\ Len(u.balances) = Len(s.balances)
        /\ Total(u.balances) = Total(s.balances) + d.amount
    BY <1>0, <1>1, <2>2, BalanceIncreased, Zenon
  <2> HIDE DEF u
  <2>4. /\ u.slot = s.slot /\ u.validators = s.validators /\ u.supply = s.supply
        /\ u.pending_deposits = s.pending_deposits
        /\ u.next_withdrawal_validator_index = s.next_withdrawal_validator_index
    BY <2>3, Agreement
  <2>5. Evolved(s, u, {"balances"})
    BY <1>0, <2>3, <2>4, SoundOutside
  <2>6. Surplus(u) = Surplus(s) + d.amount
    BY <1>0, <1>1, <2>3, <2>4, SurplusType DEF Surplus
  <2> QED
    BY <2>1, <2>5, <2>6, EvolvedWithin
<1>3. CASE known = {} /\ d.valid
  <2>1. t = add_validator_to_registry(s, d, d.amount)
    BY <1>3 DEF apply_pending_deposit
  <2>2. Evolved(s, t, {"validators", "balances"}) /\ Surplus(t) = Surplus(s) + d.amount
    BY <1>1, <2>1, RegistryGrows
  <2> QED
    BY <2>2, EvolvedWithin
<1>4. CASE known = {} /\ ~d.valid
  <2> DEFINE x == s.supply - d.amount
             u == [s EXCEPT !.supply = x]
  <2>1. t = u
    BY <1>4 DEF apply_pending_deposit
  <2>2. x \in Int
    BY <1>0, <1>1, FieldTypes
  <2> HIDE DEF x
  <2>3. SameBut(s, u, {"supply"}) /\ u.supply = x
    BY <1>0, <2>2, FieldSet
  <2> HIDE DEF u
  <2>4. /\ u.slot = s.slot /\ u.validators = s.validators /\ u.balances = s.balances
        /\ u.pending_deposits = s.pending_deposits
        /\ u.next_withdrawal_validator_index = s.next_withdrawal_validator_index
    BY <2>3, Agreement
  <2>5. Evolved(s, u, {"supply"})
    BY <1>0, <2>3, <2>4, SoundOutside
  <2>6. Surplus(u) = Surplus(s) + d.amount
    BY <1>0, <1>1, <2>3, <2>4, SurplusType DEF Surplus, x
  <2> QED
    BY <2>1, <2>5, <2>6, EvolvedWithin
<1> QED
  BY <1>2, <1>3, <1>4

DepositVariables ==
  {"state", "available", "processed_amount", "next_deposit_index",
   "deposits_to_postpone", "is_churn_limit_reached", "stopped"}

RegistryMoney == {"validators", "balances", "supply"}

(* The loop after n turns: what it took from the queue, of which P gives   *)
(* the partial sums, is in the state or postponed; and churn is short only *)
(* of what the deposit it stopped at needs.                                *)
DepositLoop(s, available, P, p, n) ==
  /\ DOMAIN p = DepositVariables
  /\ Evolved(s, p.state, RegistryMoney)
  /\ p.available = available
  /\ p.processed_amount \in Nat /\ p.processed_amount <= available
  /\ p.next_deposit_index \in 0..n
  /\ ~p.stopped => p.next_deposit_index = n
  /\ p.deposits_to_postpone \in Seq(PendingDeposit)
  /\ Surplus(p.state) + Total(Amounts(p.deposits_to_postpone)) - P[p.next_deposit_index]
       = Surplus(s)
  /\ p.is_churn_limit_reached =>
       /\ p.stopped
       /\ p.next_deposit_index < Len(s.pending_deposits)
       /\ available - p.processed_amount
            < s.pending_deposits[p.next_deposit_index + 1].amount

(* One turn of process_pending_deposits.                                   *)
LEMMA DepositTurn ==
  ASSUME NEW s, Sound(s), NEW available \in Nat, NEW P,
         \A n \in 0..Len(s.pending_deposits) : P[n] \in Int,
         \A n \in 1..Len(s.pending_deposits) :
           P[n] = P[n - 1] + s.pending_deposits[n].amount,
         NEW n \in 1..Len(s.pending_deposits),
         NEW p, DepositLoop(s, available, P, p, n - 1)
  PROVE  DepositLoop(s, available, P,
                     PendingDepositProcessed(p, s.pending_deposits[n]), n)
<1> DEFINE N == Len(s.pending_deposits)
           d == s.pending_deposits[n]
           owner == {p.state.validators[i] : i \in WithPubkey(p.state, d.pubkey)}
           exited == \E v \in owner : v.exit_epoch < FAR_FUTURE_EPOCH
           withdrawn == \E v \in owner :
                          v.withdrawable_epoch < get_current_epoch(p.state) + 1
           processed == p.processed_amount + d.amount
           r == PendingDepositProcessed(p, d)
           t == apply_pending_deposit(p.state, d)
<1>1. s.pending_deposits \in Seq(PendingDeposit)
  BY FieldTypes DEF Sound
<1>2. d \in PendingDeposit /\ d.amount \in Nat /\ N \in Nat
  <2>1. d \in PendingDeposit /\ N \in Nat
    BY <1>1
  <2> QED
    BY <2>1 DEF PendingDeposit
<1>3. P[n] = P[n - 1] + d.amount /\ P[n] \in Int /\ P[n - 1] \in Int
  <2>1. n - 1 \in 0..N /\ n \in 0..N
    BY <1>2
  <2> QED
    BY <2>1
<1> HIDE DEF d
<1>4. /\ DOMAIN p = DepositVariables
      /\ Evolved(s, p.state, RegistryMoney)
      /\ p.available = available
      /\ p.processed_amount \in Nat /\ p.processed_amount <= available
      /\ p.next_deposit_index \in 0..(n - 1)
      /\ ~p.stopped => p.next_deposit_index = n - 1
      /\ p.deposits_to_postpone \in Seq(PendingDeposit)
      /\ Surplus(p.state) + Total(Amounts(p.deposits_to_postpone)) - P[p.next_deposit_index]
           = Surplus(s)
      /\ p.is_churn_limit_reached =>
           /\ p.stopped
           /\ p.next_deposit_index < Len(s.pending_deposits)
           /\ available - p.processed_amount
                < s.pending_deposits[p.next_deposit_index + 1].amount
  BY DEF DepositLoop
<1>5. Sound(p.state) /\ Surplus(p.state) \in Int /\ Surplus(s) \in Int
      /\ Total(Amounts(p.deposits_to_postpone)) \in Int
  <2>1. Sound(p.state)
    BY <1>4 DEF Evolved
  <2> QED
    BY <1>4, <2>1, SurplusType, AmountsType, TotalType DEF Sound
<1>6. /\ Evolved(p.state, t, RegistryMoney) /\ Surplus(t) = Surplus(p.state) + d.amount
      /\ Evolved(s, t, RegistryMoney)
  <2>1. Evolved(p.state, t, RegistryMoney) /\ Surplus(t) = Surplus(p.state) + d.amount
    BY <1>2, <1>5, DepositApplied DEF RegistryMoney
  <2>2. Evolved(s, t, RegistryMoney \cup RegistryMoney)
    BY <1>4, <2>1, EvolvedTransitive
  <2>3. RegistryMoney \cup RegistryMoney = RegistryMoney
    OBVIOUS
  <2> QED
    BY <2>1, <2>2, <2>3
<1> HIDE DEF t
<1>7. CASE p.stopped \/ MustWait(p, d)
  <2>1. r = [p EXCEPT !.stopped = TRUE]
    BY <1>7 DEF PendingDepositProcessed
  <2>2. /\ DOMAIN r = DepositVariables /\ r.stopped
        /\ r.state = p.state /\ r.available = p.available
        /\ r.processed_amount = p.processed_amount
        /\ r.next_deposit_index = p.next_deposit_index
        /\ r.deposits_to_postpone = p.deposits_to_postpone
        /\ r.is_churn_limit_reached = p.is_churn_limit_reached
    BY <1>4, <2>1 DEF DepositVariables
  <2> HIDE DEF r
  <2>3. r.next_deposit_index \in 0..n
    BY <1>4, <2>2
  <2> QED
    BY <1>4, <2>2, <2>3 DEF DepositLoop, r, d
<1>8. ASSUME ~(p.stopped \/ MustWait(p, d)), withdrawn \/ (~exited /\ ~(processed > p.available))
      PROVE  DepositLoop(s, available, P, r, n)
  <2>1. \/ /\ withdrawn
           /\ r = [p EXCEPT !.state = t, !.next_deposit_index = @ + 1]
        \/ /\ ~withdrawn /\ processed <= available
           /\ r = [p EXCEPT !.state = t, !.processed_amount = processed,
                            !.next_deposit_index = @ + 1]
    BY <1>2, <1>4, <1>8 DEF PendingDepositProcessed, t
  <2> HIDE DEF withdrawn, owner, exited
  <2>2. /\ DOMAIN r = DepositVariables /\ r.stopped = p.stopped
        /\ r.state = t /\ r.available = p.available
        /\ r.processed_amount \in Nat /\ r.processed_amount <= available
        /\ r.next_deposit_index = p.next_deposit_index + 1
        /\ r.deposits_to_postpone = p.deposits_to_postpone
        /\ r.is_churn_limit_reached = p.is_churn_limit_reached
    <3>1. processed \in Nat
      BY <1>2, <1>4
    <3> HIDE DEF processed, r
    <3>2. CASE r = [p EXCEPT !.state = t, !.next_deposit_index = @ + 1]
      BY <1>4, <3>2 DEF DepositVariables
    <3>3. CASE /\ processed <= available
               /\ r = [p EXCEPT !.state = t, !.processed_amount = processed,
                                !.next_deposit_index = @ + 1]
      BY <1>4, <3>1, <3>3 DEF DepositVariables
    <3> QED
      BY <2>1, <3>2, <3>3
  <2> HIDE DEF r
  <2>3. r.next_deposit_index = n
    BY <1>4, <1>8, <2>2
  <2>4. ~p.stopped /\ ~r.is_churn_limit_reached /\ p.next_deposit_index = n - 1
    BY <1>4, <1>8, <2>2
  <2>5. Surplus(r.state) + Total(Amounts(r.deposits_to_postpone)) - P[r.next_deposit_index]
           = Surplus(s)
    <3> DEFINE a == Surplus(p.state)
               b == Total(Amounts(p.deposits_to_postpone))
               c == Surplus(s)
    <3>1. a \in Int /\ b \in Int /\ a + b - P[n - 1] = c
      BY <1>4, <1>5, <2>4
    <3>2. Surplus(r.state) = a + d.amount /\ Total(Amounts(r.deposits_to_postpone)) = b
      BY <1>6, <2>2
    <3> HIDE DEF a, b, c
    <3>3. (a + d.amount) + b - P[n] = c
      BY <1>2, <1>3, <3>1
    <3> QED
      BY <2>3, <3>2, <3>3 DEF c
  <2>6. r.next_deposit_index \in 0..n
    BY <2>3
  <2> QED
    BY <1>4, <1>6, <2>2, <2>3, <2>4, <2>5, <2>6 DEF DepositLoop
<1>9. CASE ~(p.stopped \/ MustWait(p, d)) /\ ~withdrawn /\ exited
  <2>1. r = [p EXCEPT !.deposits_to_postpone = Append(@, d), !.next_deposit_index = @ + 1]
    BY <1>9 DEF PendingDepositProcessed
  <2> HIDE DEF withdrawn, owner, exited
  <2>2. /\ DOMAIN r = DepositVariables /\ r.stopped = p.stopped
        /\ r.state = p.state /\ r.available = p.available
        /\ r.processed_amount = p.processed_amount
        /\ r.next_deposit_index = p.next_deposit_index + 1
        /\ r.deposits_to_postpone = Append(p.deposits_to_postpone, d)
        /\ r.is_churn_limit_reached = p.is_churn_limit_reached
    BY <1>4, <2>1 DEF DepositVariables
  <2> HIDE DEF r
  <2>3. r.next_deposit_index = n
    BY <1>4, <1>9, <2>2
  <2>4. ~p.stopped /\ ~r.is_churn_limit_reached /\ p.next_deposit_index = n - 1
    BY <1>4, <1>9, <2>2
  <2>5. /\ r.deposits_to_postpone \in Seq(PendingDeposit)
        /\ Total(Amounts(r.deposits_to_postpone))
             = Total(Amounts(p.deposits_to_postpone)) + d.amount
    BY <1>2, <1>4, <2>2, AmountsAppend
  <2>6. Surplus(r.state) + Total(Amounts(r.deposits_to_postpone)) - P[r.next_deposit_index]
           = Surplus(s)
    <3> DEFINE a == Surplus(p.state)
               b == Total(Amounts(p.deposits_to_postpone))
               c == Surplus(s)
    <3>1. a \in Int /\ b \in Int /\ a + b - P[n - 1] = c
      BY <1>4, <1>5, <2>4
    <3>2. Surplus(r.state) = a /\ Total(Amounts(r.deposits_to_postpone)) = b + d.amount
      BY <2>2, <2>5
    <3> HIDE DEF a, b, c
    <3>3. a + (b + d.amount) - P[n] = c
      BY <1>2, <1>3, <3>1
    <3> QED
      BY <2>3, <3>2, <3>3 DEF c
  <2>7. r.next_deposit_index \in 0..n
    BY <2>3
  <2> QED
    BY <1>4, <2>2, <2>3, <2>4, <2>5, <2>6, <2>7 DEF DepositLoop, r, d
<1>10. CASE /\ ~(p.stopped \/ MustWait(p, d)) /\ ~withdrawn /\ ~exited
            /\ processed > p.available
  <2>1. r = [p EXCEPT !.stopped = TRUE, !.is_churn_limit_reached = TRUE]
    BY <1>10 DEF PendingDepositProcessed
  <2> HIDE DEF withdrawn, owner, exited
  <2>2. /\ DOMAIN r = DepositVariables /\ r.stopped
        /\ r.state = p.state /\ r.available = p.available
        /\ r.processed_amount = p.processed_amount
        /\ r.next_deposit_index = p.next_deposit_index
        /\ r.deposits_to_postpone = p.deposits_to_postpone
    BY <1>4, <2>1 DEF DepositVariables
  <2> HIDE DEF r
  <2>3. r.next_deposit_index \in 0..n /\ p.next_deposit_index = n - 1
        /\ (n - 1) + 1 = n /\ n - 1 < N
    BY <1>2, <1>4, <1>10, <2>2
  <2>4. available - p.processed_amount < d.amount
    BY <1>2, <1>4, <1>10
  <2>5. /\ p.next_deposit_index < Len(s.pending_deposits)
        /\ available - p.processed_amount
             < s.pending_deposits[p.next_deposit_index + 1].amount
    BY <2>3, <2>4 DEF d
  <2> QED
    BY <1>4, <2>2, <2>3, <2>5 DEF DepositLoop, r, d
<1> QED
  BY <1>7, <1>8, <1>9, <1>10 DEF r, d

(* Churn saved up belongs to the deposit at the head of the queue.         *)
Carry(s) ==
  s.deposit_balance_to_consume > 0 =>
    /\ s.pending_deposits # <<>>
    /\ s.deposit_balance_to_consume < Head(s.pending_deposits).amount

ConsolidationStep(a, p, consolidation) == PendingConsolidationProcessed(p, consolidation)
Consolidating == INSTANCE FoldOf WITH op <- ConsolidationStep

LEMMA ConsolidatingInducts == Consolidating!NatInduction
BY NatSetInduction DEF Consolidating!NatInduction

(* process_pending_deposits: no deposit is applied twice or dropped.       *)
LEMMA DepositsEvolve ==
  ASSUME NEW s, Sound(s)
  PROVE  LET t == process_pending_deposits(s)
         IN /\ Evolved(s, t, RegistryMoney \cup {"pending_deposits", "deposit_balance_to_consume"})
            /\ Surplus(t) = Surplus(s) /\ Carry(t)
<1> DEFINE q == s.pending_deposits
           N == Len(q)
           available == s.deposit_balance_to_consume + get_activation_exit_churn_limit(s)
           base == [state |-> s, available |-> available,
                    processed_amount |-> 0, next_deposit_index |-> 0,
                    deposits_to_postpone |-> <<>>,
                    is_churn_limit_reached |-> FALSE, stopped |-> FALSE]
           p == FoldLeft(PendingDepositProcessed, base, q)
           left == DepositsLeft(p)
           carried == ChurnCarried(p)
           t1 == [p.state EXCEPT !.pending_deposits = left]
           t == [t1 EXCEPT !.deposit_balance_to_consume = carried]
<1>0. process_pending_deposits(s) = t
  BY DEF process_pending_deposits
<1>1. s \in BeaconState /\ q \in Seq(PendingDeposit) /\ N \in Nat /\ DOMAIN q = 1..N
  <2>1. s \in BeaconState /\ q \in Seq(PendingDeposit)
    BY FieldTypes DEF Sound
  <2> QED
    BY <2>1
<1>2. available \in Nat
  <2>1. get_activation_exit_churn_limit(s) \in Nat
    BY <1>1, ActiveBalance, BoundsAssumption, LimitInRange DEF MaxChurn
  <2> QED
    BY <1>1, <2>1, FieldTypes
<1>3. PICK P \in [0..N -> Int] :
        /\ P[0] = 0 /\ Total(Amounts(q)) = P[N]
        /\ \A n \in 1..N : P[n] = P[n - 1] + q[n].amount
  <2> DEFINE a == Amounts(q)
  <2>1. a \in Seq(Int) /\ Len(a) = N
    BY <1>1, AmountsType
  <2>2. \A n \in 1..N : a[n] = q[n].amount
    BY <1>1 DEF Amounts
  <2> HIDE DEF a, N
  <2>3. PICK P \in [0..N -> Int] :
          /\ P[0] = 0 /\ Total(a) = P[N]
          /\ \A n \in 1..N : P[n] = P[n - 1] + a[n]
    BY <2>1, PartialSums
  <2>4. \A n \in 1..N : P[n] = P[n - 1] + q[n].amount
    BY <2>2, <2>3
  <2> QED
    BY <2>3, <2>4 DEF a
<1>4. p = Depositing!TheFold(0, base, q, N)[1..N]
  <2> HIDE DEF base
  <2> QED
    BY <1>1 DEF FoldLeft, MapThenFoldSet, Max,
       Depositing!TheFold, Depositing!Fold, Depositing!Largest, DepositStep
<1> HIDE DEF p, N
<1>5. PICK h : /\ Depositing!Course(0, base, q, N, h)
               /\ h[N] = Depositing!TheFold(0, base, q, N)[1..N]
  <2> HIDE DEF base
  <2> QED
    BY <1>1, Depositing!FoldHasCourse, DepositingInducts
<1>6. h[0] = base /\ \A n \in 1..N : h[n] = PendingDepositProcessed(h[n - 1], q[n])
  BY <1>1, <1>5 DEF Depositing!Course, DepositStep
<1>7. DepositLoop(s, available, P, base, 0)
  <2>1. DOMAIN base = DepositVariables
    BY DEF DepositVariables
  <2>2. Evolved(s, base.state, RegistryMoney)
    BY EvolvedItself, EvolvedWithin
  <2>3. /\ base.available = available /\ base.processed_amount = 0
        /\ base.next_deposit_index = 0 /\ base.deposits_to_postpone = <<>>
        /\ base.is_churn_limit_reached = FALSE /\ base.state = s
    OBVIOUS
  <2>4. Total(Amounts(<<>>)) = 0 /\ <<>> \in Seq(PendingDeposit)
    BY AmountsType, TotalType
  <2>5. Surplus(s) \in Int
    BY <1>1, SurplusType
  <2> HIDE DEF base, available
  <2>6. Surplus(base.state) + Total(Amounts(base.deposits_to_postpone)) - P[base.next_deposit_index]
          = Surplus(s)
    BY <1>3, <2>3, <2>4, <2>5
  <2> QED
    BY <1>2, <2>1, <2>2, <2>3, <2>4, <2>6 DEF DepositLoop
<1> HIDE DEF base, available
<1> DEFINE S == {n \in 0..N : DepositLoop(s, available, P, h[n], n)}
<1>8. 0 \in S
  BY <1>1, <1>6, <1>7
<1>9. ASSUME NEW n \in 1..N, n - 1 \in S PROVE n \in S
  <2>1. \A k \in 0..N : P[k] \in Int
    BY <1>3
  <2>2. DepositLoop(s, available, P, PendingDepositProcessed(h[n - 1], q[n]), n)
    BY <1>2, <1>3, <1>9, <2>1, DepositTurn DEF N
  <2> QED
    BY <1>6, <2>2
<1>10. DepositLoop(s, available, P, p, N)
  <2>1. 0..N \subseteq S
    <3> HIDE DEF S
    <3> QED
      BY <1>1, <1>8, <1>9, UpTo
  <2>2. p = h[N]
    BY <1>4, <1>5
  <2> QED
    BY <1>1, <2>1, <2>2
<1> HIDE DEF S
<1> DEFINE j == p.next_deposit_index
           r == p.deposits_to_postpone
<1>11. /\ Evolved(s, p.state, RegistryMoney)
       /\ p.available = available
       /\ p.processed_amount \in Nat /\ p.processed_amount <= available
       /\ j \in 0..N /\ r \in Seq(PendingDeposit)
       /\ Surplus(p.state) + Total(Amounts(r)) - P[j] = Surplus(s)
       /\ p.is_churn_limit_reached =>
            /\ j < N
            /\ available - p.processed_amount < q[j + 1].amount
  BY <1>10 DEF DepositLoop, N
<1>12. /\ Sound(p.state) /\ p.state \in BeaconState /\ p.state.pending_deposits = q
       /\ p.state.slot <= MaxSlot
       /\ p.state.next_withdrawal_validator_index \in DOMAIN p.state.validators
  BY <1>11, Agreement, SoundWhole DEF Evolved, RegistryMoney
<1>13. /\ left \in Seq(PendingDeposit)
       /\ Total(Amounts(left)) = P[N] - P[j] + Total(Amounts(r))
       /\ j < N => left # <<>> /\ Head(left) = q[j + 1]
  <2>1. left = SubSeq(q, j + 1, Len(q)) \o r
    BY <1>12 DEF DepositsLeft
  <2>2. /\ P[0] = 0 /\ \A n \in 0..Len(q) : P[n] \in Int
        /\ \A n \in 1..Len(q) : P[n] = P[n - 1] + q[n].amount
    BY <1>3 DEF N
  <2>3. q \in Seq(PendingDeposit) /\ r \in Seq(PendingDeposit) /\ j \in 0..Len(q)
    BY <1>1, <1>11 DEF N
  <2> HIDE DEF left, j, r, q
  <2>4. LET u == SubSeq(q, j + 1, Len(q)) \o r
        IN /\ u \in Seq(PendingDeposit)
           /\ Total(Amounts(u)) = P[Len(q)] - P[j] + Total(Amounts(r))
           /\ j < Len(q) => u # <<>> /\ Head(u) = q[j + 1]
    BY ONLY <2>2, <2>3, AmountsLeft
  <2> QED
    BY <2>1, <2>4 DEF N
<1>14. /\ carried \in Nat
       /\ carried > 0 => j < N /\ carried < q[j + 1].amount
  BY <1>2, <1>11 DEF ChurnCarried
<1> HIDE DEF left, carried, j, r
<1>15. SameBut(p.state, t1, {"pending_deposits"}) /\ t1.pending_deposits = left
       /\ t1 \in BeaconState
  BY <1>12, <1>13, FieldSet DEF SameBut
<1> HIDE DEF t1
<1>16. SameBut(t1, t, {"deposit_balance_to_consume"}) /\ t.deposit_balance_to_consume = carried
       /\ t.pending_deposits = left
  <2>1. SameBut(t1, t, {"deposit_balance_to_consume"}) /\ t.deposit_balance_to_consume = carried
    BY <1>14, <1>15, FieldSet
  <2> HIDE DEF t
  <2> QED
    BY <1>15, <2>1, Agreement
<1> HIDE DEF t
<1> DEFINE G == {"pending_deposits"} \cup {"deposit_balance_to_consume"}
<1>17. SameBut(p.state, t, G)
  BY <1>15, <1>16, SameButTransitive
<1>18. /\ t.balances = p.state.balances /\ t.slot = p.state.slot
       /\ t.validators = p.state.validators /\ t.supply = p.state.supply
       /\ t.next_withdrawal_validator_index = p.state.next_withdrawal_validator_index
  BY <1>17, Agreement
<1>19. Evolved(p.state, t, G)
  BY <1>12, <1>17, <1>18, SoundOutside
<1>20. Evolved(s, t, RegistryMoney \cup {"pending_deposits", "deposit_balance_to_consume"})
  <2>1. Evolved(s, t, RegistryMoney \cup G)
    BY <1>11, <1>19, EvolvedTransitive
  <2>2. RegistryMoney \cup G = RegistryMoney \cup {"pending_deposits", "deposit_balance_to_consume"}
    OBVIOUS
  <2> QED
    BY <2>1, <2>2
<1>21. Surplus(t) = Surplus(s)
  <2> DEFINE a == Total(p.state.balances)
             b == Total(Amounts(q))
             c == p.state.supply
             d == Total(Amounts(r))
             e == Surplus(s)
             x == P[j]
             y == Total(Amounts(left))
  <2>1. a \in Int /\ b \in Int /\ c \in Int /\ Surplus(p.state) = a + b - c
    BY <1>12, SurplusType DEF Surplus
  <2>2. d \in Int
    BY <1>11, AmountsType, TotalType
  <2>3. x \in Int /\ b = P[N]
    BY <1>3, <1>11
  <2>4. (a + b - c) + d - x = e
    BY <1>11, <2>1
  <2>5. y = b - x + d
    BY <1>13, <2>3
  <2>6. Surplus(t) = a + y - c
    BY <1>16, <1>18 DEF Surplus
  <2> HIDE DEF a, b, c, d, e, x, y
  <2>7. a + (b - x + d) - c = (a + b - c) + d - x
    BY <2>1, <2>2, <2>3
  <2> QED
    BY <2>4, <2>5, <2>6, <2>7 DEF e
<1>22. Carry(t)
  BY <1>13, <1>14, <1>16 DEF Carry
<1> QED
  BY <1>0, <1>20, <1>21, <1>22

-----------------------------------------------------------------------------
(* The queue of consolidations. *)

(* From epoch on, the queue holds validators on their way out, those that  *)
(* may leave first at its head and none of them yet withdrawable.          *)
Moving(s, epoch) ==
  LET q == s.pending_consolidations
      Source(k) == s.validators[q[k].source_index]
  IN /\ \A k \in DOMAIN q :
          /\ Source(k).exit_epoch # FAR_FUTURE_EPOCH
          /\ Source(k).slashed \/
               /\ Source(k).withdrawable_epoch > epoch
               /\ Source(k).withdrawable_epoch
                    <= s.earliest_consolidation_epoch + MIN_VALIDATOR_WITHDRAWABILITY_DELAY
     /\ \A j, k \in DOMAIN q :
          j < k => Source(j).slashed \/ Source(k).slashed \/
                   Source(j).withdrawable_epoch <= Source(k).withdrawable_epoch

(* Exits and slashings of others leave the queue of consolidations         *)
(* waiting.                                                                *)
LEMMA MovingKept ==
  ASSUME NEW s, Sound(s), NEW epoch, Moving(s, epoch), NEW t, NEW F, Evolved(s, t, F),
         F \cap {"pending_consolidations", "earliest_consolidation_epoch"} = {}
  PROVE  Moving(t, epoch)
<1>1. /\ t.pending_consolidations = s.pending_consolidations
      /\ t.earliest_consolidation_epoch = s.earliest_consolidation_epoch
  BY Agreement DEF Evolved
<1>2. \A k \in DOMAIN s.pending_consolidations :
        LET i == s.pending_consolidations[k].source_index
        IN i \in DOMAIN s.validators /\ KeptValidator(s.validators[i], t.validators[i])
  BY SoundWhole DEF Evolved, Kept
<1>3. \A k \in DOMAIN s.pending_consolidations :
        LET i == s.pending_consolidations[k].source_index
            v == s.validators[i]
            w == t.validators[i]
        IN /\ w.exit_epoch # FAR_FUTURE_EPOCH
           /\ w.slashed \/ (~v.slashed /\ w.withdrawable_epoch = v.withdrawable_epoch)
  BY <1>2 DEF Moving, KeptValidator
<1> QED
  BY <1>1, <1>3 DEF Moving

ConsolidationVariables == {"state", "next_pending_consolidation", "stopped"}

(* The loop after n turns; where it stops, a source must still wait.       *)
ConsolidationLoop(s, p, n) ==
  /\ DOMAIN p = ConsolidationVariables
  /\ Evolved(s, p.state, {"balances"}) /\ Surplus(p.state) = Surplus(s)
  /\ p.next_pending_consolidation \in 0..n
  /\ IF p.stopped
     THEN /\ p.next_pending_consolidation < Len(s.pending_consolidations)
          /\ LET v == s.validators[
                        s.pending_consolidations[p.next_pending_consolidation + 1].source_index]
             IN ~v.slashed /\ ~(v.withdrawable_epoch <= get_current_epoch(s) + 1)
     ELSE p.next_pending_consolidation = n

(* One turn of process_pending_consolidations.                             *)
LEMMA ConsolidationTurn ==
  ASSUME NEW s, Sound(s), NEW n \in 1..Len(s.pending_consolidations),
         NEW p, ConsolidationLoop(s, p, n - 1)
  PROVE  ConsolidationLoop(s, PendingConsolidationProcessed(p, s.pending_consolidations[n]), n)
<1> DEFINE N == Len(s.pending_consolidations)
           c == s.pending_consolidations[n]
           u == p.state
           source == u.validators[c.source_index]
           moved == Least(u.balances[c.source_index], source.effective_balance)
           x == decrease_balance(u, c.source_index, moved)
           y == increase_balance(x, c.target_index, moved)
           r == PendingConsolidationProcessed(p, c)
<1>0. N \in Nat
  <2>1. s.pending_consolidations \in Seq(PendingConsolidation)
    BY FieldTypes DEF Sound
  <2> QED
    BY <2>1
<1>1. /\ DOMAIN p = ConsolidationVariables
      /\ Evolved(s, u, {"balances"}) /\ Surplus(u) = Surplus(s)
      /\ p.next_pending_consolidation \in 0..(n - 1)
      /\ p.stopped =>
          /\ p.next_pending_consolidation < Len(s.pending_consolidations)
          /\ LET v == s.validators[
                        s.pending_consolidations[p.next_pending_consolidation + 1].source_index]
             IN ~v.slashed /\ ~(v.withdrawable_epoch <= get_current_epoch(s) + 1)
      /\ ~p.stopped => p.next_pending_consolidation = n - 1
  BY DEF ConsolidationLoop
<1>2. /\ Sound(u) /\ u \in BeaconState /\ u.slot <= MaxSlot
      /\ u.validators = s.validators /\ u.slot = s.slot
      /\ u.next_withdrawal_validator_index \in DOMAIN u.validators
  <2>1. Sound(u) /\ SameBut(s, u, {"balances"})
    BY <1>1 DEF Evolved
  <2>2. u.validators = s.validators /\ u.slot = s.slot
    BY <2>1, Agreement
  <2> QED
    BY <2>1, <2>2, SoundWhole
<1>3. c.source_index \in DOMAIN u.balances /\ c.target_index \in DOMAIN u.balances
      /\ c.source_index \in DOMAIN u.validators
  <2>1. n \in DOMAIN s.pending_consolidations
    <3>1. s.pending_consolidations \in Seq(PendingConsolidation)
      BY FieldTypes DEF Sound
    <3> QED
      BY <3>1
  <2>2. c.source_index \in DOMAIN s.validators /\ c.target_index \in DOMAIN s.validators
    BY <2>1, SoundWhole
  <2> QED
    BY <1>2, <2>2, SameIndices
<1>4. CASE p.stopped
  <2>1. r = p
    BY <1>4 DEF PendingConsolidationProcessed
  <2>2. p.next_pending_consolidation \in 0..n
    BY <1>1
  <2> QED
    BY <1>1, <1>4, <2>1, <2>2 DEF ConsolidationLoop
<1>5. CASE ~p.stopped /\ source.slashed
  <2>1. r = [p EXCEPT !.next_pending_consolidation = @ + 1]
    BY <1>5 DEF PendingConsolidationProcessed
  <2>2. /\ DOMAIN r = ConsolidationVariables /\ r.stopped = p.stopped
        /\ r.state = p.state
        /\ r.next_pending_consolidation = p.next_pending_consolidation + 1
    BY <1>1, <2>1 DEF ConsolidationVariables
  <2> HIDE DEF r
  <2>3. r.next_pending_consolidation = n /\ n \in 0..n
    BY <1>1, <1>5, <2>2
  <2> QED
    BY <1>1, <1>5, <2>2, <2>3 DEF ConsolidationLoop, r, c
<1>6. CASE ~p.stopped /\ ~source.slashed /\ ~WithdrawableAtNextEpoch(u, source)
  <2>1. r = [p EXCEPT !.stopped = TRUE]
    BY <1>6 DEF PendingConsolidationProcessed
  <2>2. /\ DOMAIN r = ConsolidationVariables /\ r.stopped
        /\ r.state = p.state
        /\ r.next_pending_consolidation = p.next_pending_consolidation
    BY <1>1, <2>1 DEF ConsolidationVariables
  <2> HIDE DEF r
  <2>3. r.next_pending_consolidation = n - 1 /\ n - 1 < N /\ n - 1 \in 0..n /\ (n - 1) + 1 = n
    BY <1>0, <1>1, <1>6, <2>2
  <2>4. ~source.slashed /\ ~(source.withdrawable_epoch <= get_current_epoch(s) + 1)
    BY <1>2, <1>6 DEF WithdrawableAtNextEpoch, get_current_epoch
  <2>5. source = s.validators[
                    s.pending_consolidations[r.next_pending_consolidation + 1].source_index]
    BY ONLY <1>2, <2>3 DEF source
  <2> HIDE DEF source
  <2> QED
    BY <1>1, <2>2, <2>3, <2>4, <2>5 DEF ConsolidationLoop, r, c
<1>7. CASE ~p.stopped /\ ~source.slashed /\ WithdrawableAtNextEpoch(u, source)
  <2>1. r = [p EXCEPT !.state = y, !.next_pending_consolidation = @ + 1]
    BY <1>7 DEF PendingConsolidationProcessed
  <2>2. /\ DOMAIN r = ConsolidationVariables /\ r.stopped = p.stopped
        /\ r.state = y
        /\ r.next_pending_consolidation = p.next_pending_consolidation + 1
    <3> HIDE DEF y
    <3> QED
      BY <1>1, <2>1 DEF ConsolidationVariables
  <2>3. moved \in Nat /\ moved <= u.balances[c.source_index]
        /\ u.balances[c.source_index] \in Nat
    <3>1. u.balances[c.source_index] \in Nat
      BY <1>2, <1>3, BalanceSet
    <3>2. source.effective_balance \in Nat
      BY <1>2, <1>3, ValidatorAt DEF Validator
    <3> HIDE DEF source
    <3> QED
      BY <3>1, <3>2 DEF Least
  <2> HIDE DEF moved
  <2>4. /\ SameBut(u, x, {"balances"}) /\ Len(x.balances) = Len(u.balances)
        /\ Total(x.balances) = Total(u.balances) - moved
    <3>1. Least(moved, u.balances[c.source_index]) = moved
      BY <2>3 DEF Least
    <3> DEFINE i == c.source_index
    <3>2. u \in BeaconState /\ i \in DOMAIN u.balances /\ moved \in Nat
      BY <1>2, <1>3, <2>3
    <3> HIDE DEF u, i
    <3>3. LET t == decrease_balance(u, i, moved)
          IN /\ SameBut(u, t, {"balances"}) /\ Len(t.balances) = Len(u.balances)
             /\ Total(t.balances) = Total(u.balances) - Least(moved, u.balances[i])
      BY <3>2, BalanceDecreased
    <3> QED
      BY <3>1, <3>3 DEF i
  <2> HIDE DEF x
  <2>5. x \in BeaconState /\ c.target_index \in DOMAIN x.balances
    <3>1. x \in BeaconState
      BY <2>4 DEF SameBut
    <3>2. x.balances \in Seq(Nat) /\ u.balances \in Seq(Nat)
      BY <1>2, <3>1, FieldTypes
    <3> QED
      BY <1>3, <2>4, <3>1, <3>2
  <2>6. /\ SameBut(x, y, {"balances"}) /\ Len(y.balances) = Len(x.balances)
        /\ Total(y.balances) = Total(x.balances) + moved
    BY <2>3, <2>5, BalanceIncreased
  <2> HIDE DEF y
  <2>7. SameBut(u, y, {"balances"})
    <3>1. SameBut(u, y, {"balances"} \cup {"balances"})
      BY <2>4, <2>6, SameButTransitive
    <3> QED
      BY <3>1
  <2>8. /\ y.slot = u.slot /\ y.validators = u.validators /\ y.supply = u.supply
        /\ y.pending_deposits = u.pending_deposits
        /\ y.next_withdrawal_validator_index = u.next_withdrawal_validator_index
    BY <2>7, Agreement
  <2>9. Evolved(u, y, {"balances"})
    BY <1>2, <2>4, <2>6, <2>7, <2>8, SoundOutside
  <2>10. Surplus(y) = Surplus(u)
    <3>1. Total(u.balances) \in Int
      BY <1>2, SurplusType
    <3>2. Total(y.balances) = Total(u.balances)
      BY <2>3, <2>4, <2>6, <3>1
    <3> QED
      BY <2>8, <3>2 DEF Surplus
  <2>11. Evolved(s, y, {"balances"})
    <3>1. Evolved(s, y, {"balances"} \cup {"balances"})
      BY <1>1, <2>9, EvolvedTransitive, Zenon
    <3> QED
      BY <3>1
  <2> HIDE DEF r
  <2>12. r.next_pending_consolidation = n /\ n \in 0..n
    BY <1>1, <1>7, <2>2
  <2> QED
    BY <1>1, <1>7, <2>2, <2>10, <2>11, <2>12, Zenon DEF ConsolidationLoop, r, c
<1> QED
  BY <1>4, <1>5, <1>6, <1>7 DEF r, c

(* What a loop leaves of a queue when it has taken the first j elements.   *)
LEMMA Rest ==
  ASSUME NEW S, NEW q \in Seq(S), NEW j \in 0..Len(q)
  PROVE  LET u == SubSeq(q, j + 1, Len(q))
         IN /\ u \in Seq(S) /\ Len(u) = Len(q) - j /\ DOMAIN u = 1..(Len(q) - j)
            /\ \A k \in DOMAIN u : j + k \in DOMAIN q /\ u[k] = q[j + k]
<1> DEFINE u == SubSeq(q, j + 1, Len(q))
<1>1. Len(q) \in Nat /\ j \in Nat /\ j <= Len(q) /\ DOMAIN q = 1..Len(q)
  OBVIOUS
<1> DEFINE N == Len(q)
<1>0. N \in Nat /\ j \in Nat /\ j <= N /\ q \in Seq(S) /\ u = SubSeq(q, j + 1, N)
  BY <1>1
<1>2. u \in Seq(S) /\ Len(u) = N - j
  <2>1. u \in Seq(S)
    BY <1>0
  <2>2. Len(u) = N - j
    BY <1>0
  <2> QED
    BY <2>1, <2>2
<1>3. \A k \in 1..(Len(q) - j) : u[k] = q[j + k]
  BY <1>1
<1>4. DOMAIN u = 1..(Len(q) - j)
  BY <1>2
<1>5. \A k \in 1..(Len(q) - j) : j + k \in DOMAIN q
  BY <1>1
<1> HIDE DEF u
<1> QED
  BY <1>2, <1>3, <1>4, <1>5 DEF u

(* A queue that points into the registry exchanged for another that does.  *)
LEMMA ConsolidationsSet ==
  ASSUME NEW s, Sound(s), NEW q \in Seq(PendingConsolidation),
         \A k \in DOMAIN q : /\ q[k].source_index \in DOMAIN s.validators
                             /\ q[k].target_index \in DOMAIN s.validators
  PROVE  LET t == [s EXCEPT !.pending_consolidations = q]
         IN /\ Evolved(s, t, {"pending_consolidations"}) /\ Surplus(t) = Surplus(s)
            /\ t.pending_consolidations = q
<1> DEFINE t == [s EXCEPT !.pending_consolidations = q]
<1>1. SameBut(s, t, {"pending_consolidations"}) /\ t.pending_consolidations = q
  BY FieldSet DEF Sound
<1> HIDE DEF t
<1>2. /\ t.balances = s.balances /\ t.slot = s.slot /\ t.validators = s.validators
      /\ t.pending_partial_withdrawals = s.pending_partial_withdrawals
      /\ t.earliest_exit_epoch = s.earliest_exit_epoch
      /\ t.exit_balance_to_consume = s.exit_balance_to_consume
      /\ t.exits = s.exits
      /\ t.next_withdrawal_validator_index = s.next_withdrawal_validator_index
  BY <1>1, Agreement
<1>3. QueueSound(t) /\ AllExitsFit(t)
  <2>1. DOMAIN t = DOMAIN s
    BY <1>1, FieldTypes DEF SameBut
  <2> QED
    BY <1>2, <2>1 DEF Sound, QueueSound, AllExitsFit, ExitsFit
<1>4. Sound(t)
  BY <1>1, <1>2, <1>3, SoundWhole DEF SameBut
<1>5. Kept(s, t)
  BY <1>2 DEF Kept, KeptValidator
<1>6. Surplus(t) = Surplus(s)
  BY <1>1, SurplusSame
<1> QED
  BY <1>1, <1>4, <1>5, <1>6 DEF Evolved, t

(* process_pending_consolidations: what it leaves still waits for an       *)
(* epoch.                                                                  *)
LEMMA ConsolidationsEvolve ==
  ASSUME NEW s, Sound(s)
  PROVE  LET t == process_pending_consolidations(s)
         IN /\ Evolved(s, t, {"balances", "pending_consolidations"})
            /\ Surplus(t) = Surplus(s)
            /\ Moving(s, get_current_epoch(s)) => Moving(t, get_current_epoch(s) + 1)
<1> DEFINE q == s.pending_consolidations
           N == Len(q)
           base == [state |-> s, next_pending_consolidation |-> 0, stopped |-> FALSE]
           p == FoldLeft(PendingConsolidationProcessed, base, q)
           j == p.next_pending_consolidation
           rest == SubSeq(q, j + 1, N)
           u == p.state
           t == [u EXCEPT !.pending_consolidations = rest]
<1>1. s \in BeaconState /\ s.slot <= MaxSlot
      /\ q \in Seq(PendingConsolidation) /\ N \in Nat /\ DOMAIN q = 1..N
  <2>1. s \in BeaconState /\ s.slot <= MaxSlot /\ q \in Seq(PendingConsolidation)
    BY FieldTypes DEF Sound
  <2> QED
    BY <2>1
<1>2. process_pending_consolidations(s) =
        [u EXCEPT !.pending_consolidations =
           SubSeq(u.pending_consolidations, j + 1, Len(u.pending_consolidations))]
  BY DEF process_pending_consolidations
<1>3. p = Consolidating!TheFold(0, base, q, N)[1..N]
  <2> HIDE DEF base
  <2> QED
    BY <1>1 DEF FoldLeft, MapThenFoldSet, Max,
       Consolidating!TheFold, Consolidating!Fold, Consolidating!Largest, ConsolidationStep
<1> HIDE DEF p, N
<1>4. PICK h : /\ Consolidating!Course(0, base, q, N, h)
               /\ h[N] = Consolidating!TheFold(0, base, q, N)[1..N]
  <2> HIDE DEF base
  <2> QED
    BY <1>1, Consolidating!FoldHasCourse, ConsolidatingInducts
<1>5. h[0] = base /\ \A n \in 1..N : h[n] = PendingConsolidationProcessed(h[n - 1], q[n])
  BY <1>1, <1>4 DEF Consolidating!Course, ConsolidationStep
<1>6. ConsolidationLoop(s, base, 0)
  <2>1. DOMAIN base = ConsolidationVariables
    BY DEF ConsolidationVariables
  <2>2. Evolved(s, base.state, {"balances"})
    BY EvolvedItself, EvolvedWithin
  <2> QED
    BY <2>1, <2>2 DEF ConsolidationLoop
<1> HIDE DEF base
<1> DEFINE S == {n \in 0..N : ConsolidationLoop(s, h[n], n)}
<1>7. 0 \in S
  BY <1>1, <1>5, <1>6
<1>8. ASSUME NEW n \in 1..N, n - 1 \in S PROVE n \in S
  <2>1. ConsolidationLoop(s, PendingConsolidationProcessed(h[n - 1], q[n]), n)
    BY <1>8, ConsolidationTurn DEF N
  <2> QED
    BY <1>5, <2>1
<1>9. ConsolidationLoop(s, p, N)
  <2>1. 0..N \subseteq S
    <3> HIDE DEF S
    <3> QED
      BY <1>1, <1>7, <1>8, UpTo
  <2>2. p = h[N]
    BY <1>3, <1>4
  <2> QED
    BY <1>1, <2>1, <2>2
<1> HIDE DEF S
<1>10. /\ Evolved(s, u, {"balances"}) /\ Surplus(u) = Surplus(s)
       /\ j \in 0..N
       /\ p.stopped =>
            /\ j < N
            /\ ~s.validators[q[j + 1].source_index].slashed
            /\ ~(s.validators[q[j + 1].source_index].withdrawable_epoch
                   <= get_current_epoch(s) + 1)
       /\ ~p.stopped => j = N
  BY <1>9 DEF ConsolidationLoop, N
<1>11. /\ Sound(u) /\ u.validators = s.validators /\ u.pending_consolidations = q
       /\ u.earliest_consolidation_epoch = s.earliest_consolidation_epoch
  BY <1>10, Agreement DEF Evolved
<1> HIDE DEF u, j
<1>12. /\ rest \in Seq(PendingConsolidation) /\ DOMAIN rest = 1..(N - j)
       /\ \A k \in DOMAIN rest : j + k \in DOMAIN q /\ rest[k] = q[j + k]
  <2> HIDE DEF q
  <2> QED
    BY <1>1, <1>10, Rest, Zenon DEF N
<1> HIDE DEF rest
<1>13. \A k \in DOMAIN rest : /\ rest[k].source_index \in DOMAIN u.validators
                              /\ rest[k].target_index \in DOMAIN u.validators
  BY <1>11, <1>12, SoundWhole
<1>14. /\ Evolved(u, t, {"pending_consolidations"}) /\ Surplus(t) = Surplus(u)
       /\ t.pending_consolidations = rest
  BY <1>11, <1>12, <1>13, ConsolidationsSet
<1>15. process_pending_consolidations(s) = t
  BY <1>2, <1>11 DEF rest, N
<1> HIDE DEF t
<1>16. Evolved(s, t, {"balances", "pending_consolidations"})
  <2>1. Evolved(s, t, {"balances"} \cup {"pending_consolidations"})
    BY <1>10, <1>14, EvolvedTransitive
  <2>2. {"balances"} \cup {"pending_consolidations"} = {"balances", "pending_consolidations"}
    OBVIOUS
  <2> QED
    BY <2>1, <2>2
<1> DEFINE epoch == get_current_epoch(s)
           Source(k) == s.validators[q[k].source_index]
<1>17. ASSUME Moving(s, epoch) PROVE Moving(t, epoch + 1)
  <2>1. /\ t.validators = s.validators
        /\ t.earliest_consolidation_epoch = s.earliest_consolidation_epoch
    BY <1>11, <1>14, Agreement DEF Evolved
  <2>2. /\ \A k \in DOMAIN q :
          /\ Source(k).exit_epoch # FAR_FUTURE_EPOCH
          /\ Source(k).slashed \/
               /\ Source(k).withdrawable_epoch > epoch
               /\ Source(k).withdrawable_epoch
                    <= s.earliest_consolidation_epoch + MIN_VALIDATOR_WITHDRAWABILITY_DELAY
     /\ \A i, k \in DOMAIN q :
          i < k => Source(i).slashed \/ Source(k).slashed \/
                   Source(i).withdrawable_epoch <= Source(k).withdrawable_epoch
    BY <1>17 DEF Moving
  <2>3. ASSUME NEW k \in DOMAIN rest, ~Source(j + k).slashed
        PROVE  Source(j + k).withdrawable_epoch > epoch + 1
    <3>1. j + k \in DOMAIN q /\ k \in 1..(N - j) /\ j \in Nat
      BY <1>1, <1>10, <1>12
    <3>2. p.stopped /\ j + 1 \in DOMAIN q /\ ~Source(j + 1).slashed
          /\ ~(Source(j + 1).withdrawable_epoch <= epoch + 1)
      BY <1>1, <1>10, <3>1
    <3>3. /\ Source(j + 1).withdrawable_epoch \in Nat
          /\ Source(j + k).withdrawable_epoch \in Nat /\ epoch \in Nat
      <4>1. q[j + 1].source_index \in DOMAIN s.validators
            /\ q[j + k].source_index \in DOMAIN s.validators
        BY <3>1, <3>2, SoundWhole
      <4>2. Source(j + 1) \in Validator /\ Source(j + k) \in Validator
        BY <4>1, ValidatorAt
      <4> QED
        BY <1>1, <4>2, EpochBounds DEF Validator
    <3>4. CASE k = 1
      BY <3>2, <3>3, <3>4
    <3>5. CASE k # 1
      <4>1. j + 1 < j + k
        BY ONLY <3>1, <3>5
      <4>2. Source(j + 1).withdrawable_epoch <= Source(j + k).withdrawable_epoch
        BY <2>2, <2>3, <3>1, <3>2, <4>1
      <4> HIDE DEF Source, epoch
      <4> QED
        BY <3>2, <3>3, <4>2
    <3> QED
      BY <3>4, <3>5
  <2>4. \A k \in DOMAIN rest : t.validators[rest[k].source_index] = Source(j + k)
    BY <1>12, <2>1
  <2>5. ASSUME NEW i \in DOMAIN rest, NEW k \in DOMAIN rest, i < k
        PROVE  j + i \in DOMAIN q /\ j + k \in DOMAIN q /\ j + i < j + k
    BY <1>1, <1>10, <1>12, <2>5
  <2>6. \A k \in DOMAIN rest :
          /\ Source(j + k).exit_epoch # FAR_FUTURE_EPOCH
          /\ Source(j + k).slashed \/
               /\ Source(j + k).withdrawable_epoch > epoch + 1
               /\ Source(j + k).withdrawable_epoch
                    <= s.earliest_consolidation_epoch + MIN_VALIDATOR_WITHDRAWABILITY_DELAY
    BY <1>12, <2>2, <2>3
  <2>7. \A i, k \in DOMAIN rest :
          i < k => Source(j + i).slashed \/ Source(j + k).slashed \/
                   Source(j + i).withdrawable_epoch <= Source(j + k).withdrawable_epoch
    BY <2>2, <2>5
  <2> HIDE DEF Source, epoch
  <2> QED
    BY <1>14, <2>1, <2>4, <2>6, <2>7 DEF Moving
<1> QED
  BY <1>10, <1>14, <1>15, <1>16, <1>17

-----------------------------------------------------------------------------
(* The rest of an epoch. *)

(* process_effective_balance_updates stays within every maximum.           *)
LEMMA EffectiveBalancesEvolve ==
  ASSUME NEW s, Sound(s)
  PROVE  LET t == process_effective_balance_updates(s)
         IN Evolved(s, t, {"validators"}) /\ Surplus(t) = Surplus(s)
<1> DEFINE Updated(i) == EffectiveBalanceAfter(s.validators[i], s.balances[i])
           vs == [i \in DOMAIN s.validators |->
                    [s.validators[i] EXCEPT !.effective_balance = Updated(i)]]
           t == [s EXCEPT !.validators = vs]
<1>0. process_effective_balance_updates(s) = t
  BY DEF process_effective_balance_updates
<1>1. s \in BeaconState /\ s.validators \in Seq(Validator) /\ s.balances \in Seq(Nat)
  BY FieldTypes DEF Sound
<1>2. ASSUME NEW i \in DOMAIN s.validators
      PROVE  LET v == s.validators[i]
                 w == [v EXCEPT !.effective_balance = Updated(i)]
             IN w \in Validator /\ InOrder(w) /\ KeptValidator(v, w)
  <2> DEFINE v == s.validators[i]
             b == s.balances[i]
             x == Updated(i)
             w == [v EXCEPT !.effective_balance = x]
  <2>1. v \in Validator /\ InOrder(v)
    BY ValidatorAt
  <2>2. b \in Nat
    <3>1. i \in DOMAIN s.balances
      BY SameIndices
    <3> QED
      BY <1>1, <3>1
  <2>3. x \in Nat /\ x <= get_max_effective_balance(v)
    <3> HIDE DEF v, b
    <3>1. x = EffectiveBalanceAfter(v, b)
      BY DEF v, b
    <3>2. b % EFFECTIVE_BALANCE_INCREMENT \in 0..b
      BY <2>2, RegistryConstants, SMTT(30)
    <3>3. get_max_effective_balance(v) \in Nat
      BY RegistryConstants DEF get_max_effective_balance
    <3>4. v.effective_balance \in Nat /\ v.effective_balance <= get_max_effective_balance(v)
      BY <2>1 DEF Validator, InOrder
    <3>5. Least(b - (b % EFFECTIVE_BALANCE_INCREMENT), get_max_effective_balance(v)) \in Nat
          /\ Least(b - (b % EFFECTIVE_BALANCE_INCREMENT), get_max_effective_balance(v))
               <= get_max_effective_balance(v)
      BY <2>2, <3>2, <3>3 DEF Least
    <3>6. \/ x = v.effective_balance
          \/ x = Least(b - (b % EFFECTIVE_BALANCE_INCREMENT), get_max_effective_balance(v))
      BY <3>1 DEF EffectiveBalanceAfter
    <3> HIDE DEF x
    <3> QED
      BY <3>4, <3>5, <3>6
  <2> HIDE DEF x, v
  <2>4. w \in Validator
    BY <2>1, <2>3, ValidatorFields
  <2>5. InOrder(w) /\ KeptValidator(v, w)
    BY <2>1, <2>3 DEF Validator, InOrder, KeptValidator, get_max_effective_balance,
                      has_compounding_withdrawal_credential
  <2> QED
    BY <2>4, <2>5 DEF v, x
<1> HIDE DEF Updated
<1>3. /\ vs \in Seq(Validator) /\ Len(vs) = Len(s.validators) /\ DOMAIN vs = DOMAIN s.validators
      /\ \A i \in DOMAIN s.validators : InOrder(vs[i]) /\ KeptValidator(s.validators[i], vs[i])
  <2>1. DOMAIN s.validators = 1..Len(s.validators) /\ Len(s.validators) \in Nat
    BY <1>1
  <2>2. \A i \in DOMAIN vs : vs[i] \in Validator
    BY <1>2
  <2>3. \A i \in DOMAIN s.validators : InOrder(vs[i]) /\ KeptValidator(s.validators[i], vs[i])
    BY <1>2
  <2>4. vs \in [1..Len(s.validators) -> Validator]
    <3>1. vs = [i \in 1..Len(s.validators) |-> vs[i]]
      BY <2>1
    <3>2. DOMAIN vs = 1..Len(s.validators)
      BY <2>1
    <3> HIDE DEF vs
    <3> QED
      BY <2>2, <3>1, <3>2
  <2> HIDE DEF vs
  <2> QED
    BY <2>1, <2>3, <2>4
<1> HIDE DEF vs
<1>4. SameBut(s, t, {"validators"}) /\ t.validators = vs
  BY <1>1, <1>3, FieldSet
<1> HIDE DEF t
<1>5. /\ t.balances = s.balances /\ t.slot = s.slot
      /\ t.pending_partial_withdrawals = s.pending_partial_withdrawals
      /\ t.pending_consolidations = s.pending_consolidations
      /\ t.earliest_exit_epoch = s.earliest_exit_epoch
      /\ t.exit_balance_to_consume = s.exit_balance_to_consume
      /\ t.exits = s.exits
      /\ t.next_withdrawal_validator_index = s.next_withdrawal_validator_index
  BY <1>4, Agreement
<1>6. QueueSound(t) /\ AllExitsFit(t)
  <2>1. DOMAIN t = DOMAIN s
    BY <1>4, FieldTypes DEF SameBut
  <2> QED
    BY <1>5, <2>1 DEF Sound, QueueSound, AllExitsFit, ExitsFit
<1>7. Sound(t)
  BY <1>3, <1>4, <1>5, <1>6, SoundWhole DEF SameBut
<1>8. Kept(s, t)
  BY <1>3, <1>4 DEF Kept
<1>9. Surplus(t) = Surplus(s)
  BY <1>4, SurplusSame
<1> QED
  BY <1>0, <1>4, <1>7, <1>8, <1>9 DEF Evolved

(* A field on which soundness does not depend.                             *)
LEMMA FieldEvolves ==
  ASSUME NEW s, Sound(s)
  PROVE  /\ \A x \in Nat :
              LET t == [s EXCEPT !.finalized_epoch = x]
              IN Evolved(s, t, {"finalized_epoch"}) /\ Surplus(t) = Surplus(s)
         /\ \A x \in Nat : x <= MaxSlot =>
              LET t == [s EXCEPT !.slot = x]
              IN Evolved(s, t, {"slot"}) /\ Surplus(t) = Surplus(s) /\ t.slot = x
         /\ \A x \in [0..(EPOCHS_PER_SLASHINGS_VECTOR - 1) -> Nat] :
              LET t == [s EXCEPT !.slashings = x]
              IN Evolved(s, t, {"slashings"}) /\ Surplus(t) = Surplus(s)
         /\ \A x \in Nat :
              LET t == [s EXCEPT !.eth1_deposit_index = x]
              IN Evolved(s, t, {"eth1_deposit_index"}) /\ Surplus(t) = Surplus(s)
         /\ \A x \in Nat :
              LET t == [s EXCEPT !.deposit_requests_start_index = x]
              IN Evolved(s, t, {"deposit_requests_start_index"}) /\ Surplus(t) = Surplus(s)
<1>0. s \in BeaconState /\ s.slot <= MaxSlot /\ s.next_withdrawal_validator_index \in DOMAIN s.validators
  BY SoundWhole
<1>1. ASSUME NEW t, NEW f \in {"finalized_epoch", "slot", "slashings", "eth1_deposit_index",
                               "deposit_requests_start_index"},
             SameBut(s, t, {f}), t.slot <= MaxSlot
      PROVE  Evolved(s, t, {f}) /\ Surplus(t) = Surplus(s)
  <2>1. t.balances = s.balances /\ t.validators = s.validators
        /\ t.next_withdrawal_validator_index = s.next_withdrawal_validator_index
    BY <1>1, Agreement
  <2> QED
    BY <1>0, <1>1, <2>1, SoundOutside, SurplusSame
<1>2. ASSUME NEW x \in Nat
      PROVE  LET t == [s EXCEPT !.finalized_epoch = x]
             IN Evolved(s, t, {"finalized_epoch"}) /\ Surplus(t) = Surplus(s)
  <2> DEFINE t == [s EXCEPT !.finalized_epoch = x]
  <2>1. SameBut(s, t, {"finalized_epoch"})
    BY <1>0, FieldSet
  <2> HIDE DEF t
  <2>2. t.slot <= MaxSlot
    BY <1>0, <2>1, Agreement
  <2> QED
    BY <1>1, <2>1, <2>2 DEF t
<1>3. ASSUME NEW x \in Nat, x <= MaxSlot
      PROVE  LET t == [s EXCEPT !.slot = x]
             IN Evolved(s, t, {"slot"}) /\ Surplus(t) = Surplus(s) /\ t.slot = x
  <2> DEFINE t == [s EXCEPT !.slot = x]
  <2>1. SameBut(s, t, {"slot"}) /\ t.slot = x
    BY <1>0, FieldSet
  <2> HIDE DEF t
  <2> QED
    BY <1>1, <1>3, <2>1 DEF t
<1>4. ASSUME NEW x \in [0..(EPOCHS_PER_SLASHINGS_VECTOR - 1) -> Nat]
      PROVE  LET t == [s EXCEPT !.slashings = x]
             IN Evolved(s, t, {"slashings"}) /\ Surplus(t) = Surplus(s)
  <2> DEFINE t == [s EXCEPT !.slashings = x]
  <2>1. SameBut(s, t, {"slashings"})
    BY <1>0, FieldSet
  <2> HIDE DEF t
  <2>2. t.slot <= MaxSlot
    BY <1>0, <2>1, Agreement
  <2> QED
    BY <1>1, <2>1, <2>2 DEF t
<1>5. ASSUME NEW x \in Nat
      PROVE  LET t == [s EXCEPT !.eth1_deposit_index = x]
             IN Evolved(s, t, {"eth1_deposit_index"}) /\ Surplus(t) = Surplus(s)
  <2> DEFINE t == [s EXCEPT !.eth1_deposit_index = x]
  <2>1. SameBut(s, t, {"eth1_deposit_index"})
    BY <1>0, FieldSet
  <2> HIDE DEF t
  <2>2. t.slot <= MaxSlot
    BY <1>0, <2>1, Agreement
  <2> QED
    BY <1>1, <2>1, <2>2 DEF t
<1>6. ASSUME NEW x \in Nat
      PROVE  LET t == [s EXCEPT !.deposit_requests_start_index = x]
             IN Evolved(s, t, {"deposit_requests_start_index"}) /\ Surplus(t) = Surplus(s)
  <2> DEFINE t == [s EXCEPT !.deposit_requests_start_index = x]
  <2>1. SameBut(s, t, {"deposit_requests_start_index"})
    BY <1>0, FieldSet
  <2> HIDE DEF t
  <2>2. t.slot <= MaxSlot
    BY <1>0, <2>1, Agreement
  <2> QED
    BY <1>1, <2>1, <2>2 DEF t
<1> QED
  BY <1>2, <1>3, <1>4, <1>5, <1>6

-----------------------------------------------------------------------------
(* An epoch, and a slot. *)

EpochFields == Fields \ {"slot", "earliest_consolidation_epoch"}

(* The queue of deposits and its churn left alone.                         *)
LEMMA CarryKept ==
  ASSUME NEW s, Carry(s), NEW t, NEW F, Evolved(s, t, F),
         F \cap {"pending_deposits", "deposit_balance_to_consume"} = {}
  PROVE  Carry(t)
BY Agreement DEF Evolved, Carry

(* process_epoch, all its steps in their order.                            *)
LEMMA EpochEvolves ==
  ASSUME NEW s, Sound(s), NEW finalized_epoch \in Nat, NEW delta \in Int,
         Moving(s, get_current_epoch(s))
  PROVE  LET t == process_epoch(s, finalized_epoch, delta)
         IN /\ Evolved(s, t, EpochFields) /\ Surplus(t) = Surplus(s)
            /\ Carry(t) /\ Moving(t, get_current_epoch(s) + 1)
<1> DEFINE epoch == get_current_epoch(s)
           a == [s EXCEPT !.finalized_epoch = finalized_epoch]
           b == process_rewards_and_penalties(a, delta)
           c == process_registry_updates(b)
           d == process_slashings(c)
           e == process_pending_deposits(d)
           f == process_pending_consolidations(e)
           g == process_effective_balance_updates(f)
           n == (get_current_epoch(g) + 1) % EPOCHS_PER_SLASHINGS_VECTOR
           reset == [g.slashings EXCEPT ![n] = 0]
           t == [g EXCEPT !.slashings = reset]
<1>0. process_epoch(s, finalized_epoch, delta) = t
  BY DEF process_epoch, process_slashings_reset
<1>1. Evolved(s, a, {"finalized_epoch"}) /\ Surplus(a) = Surplus(s)
  BY FieldEvolves
<1> HIDE DEF a
<1>2. Sound(a)
  BY <1>1 DEF Evolved
<1>3. Evolved(a, b, {"balances", "supply"}) /\ Surplus(b) = Surplus(a)
  BY <1>2, RewardsEvolve
<1> HIDE DEF b
<1>4. Sound(b)
  BY <1>3 DEF Evolved
<1>5. Evolved(b, c, ExitFields \cup {"validators"}) /\ Surplus(c) = Surplus(b)
  BY <1>4, RegistryUpdatesEvolve
<1> HIDE DEF c
<1>6. Sound(c)
  BY <1>5 DEF Evolved
<1>7. Evolved(c, d, {"balances", "supply"}) /\ Surplus(d) = Surplus(c)
  BY <1>6, SlashingsEvolve
<1> HIDE DEF d
<1>8. Sound(d)
  BY <1>7 DEF Evolved
<1>9. /\ Evolved(d, e, RegistryMoney \cup {"pending_deposits", "deposit_balance_to_consume"})
      /\ Surplus(e) = Surplus(d) /\ Carry(e)
  BY <1>8, DepositsEvolve
<1> HIDE DEF e
<1>10. Sound(e)
  BY <1>9 DEF Evolved
<1> DEFINE B == EpochFields \ {"pending_consolidations"}
<1>11. Evolved(s, e, B)
  <2>1. Evolved(s, a, B) /\ Evolved(a, b, B) /\ Evolved(b, c, B) /\ Evolved(c, d, B)
        /\ Evolved(d, e, B)
    <3>1. /\ {"finalized_epoch"} \subseteq B /\ {"balances", "supply"} \subseteq B
          /\ ExitFields \cup {"validators"} \subseteq B
          /\ RegistryMoney \cup {"pending_deposits", "deposit_balance_to_consume"} \subseteq B
      BY DEF EpochFields, Fields, ExitFields, RegistryMoney
    <3> HIDE DEF B
    <3> QED
      BY <1>1, <1>3, <1>5, <1>7, <1>9, <3>1, EvolvedWithin
  <2> HIDE DEF B
  <2>2. Evolved(s, e, (((B \cup B) \cup B) \cup B) \cup B)
    BY <2>1, EvolvedTransitive
  <2>3. (((B \cup B) \cup B) \cup B) \cup B = B
    OBVIOUS
  <2> QED
    BY <2>2, <2>3
<1>12. Moving(e, epoch) /\ get_current_epoch(e) = epoch
  <2>1. e.slot = s.slot
    BY <1>11, Agreement DEF Evolved, EpochFields
  <2>2. B \cap {"pending_consolidations", "earliest_consolidation_epoch"} = {}
    BY DEF EpochFields
  <2> HIDE DEF B
  <2> QED
    BY <1>11, <2>1, <2>2, MovingKept DEF get_current_epoch
<1>13. /\ Evolved(e, f, {"balances", "pending_consolidations"})
       /\ Surplus(f) = Surplus(e) /\ Moving(f, epoch + 1)
  BY <1>10, <1>12, ConsolidationsEvolve
<1> HIDE DEF f
<1>14. Sound(f)
  BY <1>13 DEF Evolved
<1>15. Evolved(f, g, {"validators"}) /\ Surplus(g) = Surplus(f)
  BY <1>14, EffectiveBalancesEvolve
<1> HIDE DEF g
<1>16. Sound(g) /\ g \in BeaconState /\ g.slot <= MaxSlot
  BY <1>15 DEF Evolved, Sound
<1>17. reset \in [0..(EPOCHS_PER_SLASHINGS_VECTOR - 1) -> Nat]
  <2>1. get_current_epoch(g) \in Nat
    BY <1>16, EpochBounds
  <2>2. g.slashings \in [0..(EPOCHS_PER_SLASHINGS_VECTOR - 1) -> Nat]
    BY <1>16, FieldTypes
  <2> DEFINE D == 0..(EPOCHS_PER_SLASHINGS_VECTOR - 1)
  <2> HIDE DEF n, D
  <2> QED
    BY <2>2 DEF D
<1> HIDE DEF reset
<1>18. Evolved(g, t, {"slashings"}) /\ Surplus(t) = Surplus(g)
  BY <1>16, <1>17, FieldEvolves
<1> HIDE DEF t
<1>19. Moving(t, epoch + 1)
  <2>1. Moving(g, epoch + 1)
    BY <1>13, <1>14, <1>15, MovingKept
  <2> QED
    BY <1>16, <1>18, <2>1, MovingKept
<1>20. Carry(t)
  <2>1. Carry(f)
    BY <1>9, <1>13, CarryKept
  <2>2. Carry(g)
    BY <1>15, <2>1, CarryKept
  <2> QED
    BY <1>18, <2>2, CarryKept
<1>21. Evolved(s, t, EpochFields)
  <2> DEFINE E == EpochFields
  <2>1. Evolved(s, e, E) /\ Evolved(e, f, E) /\ Evolved(f, g, E) /\ Evolved(g, t, E)
    <3>1. /\ B \subseteq E /\ {"balances", "pending_consolidations"} \subseteq E
          /\ {"validators"} \subseteq E /\ {"slashings"} \subseteq E
      BY DEF EpochFields, Fields
    <3> HIDE DEF B, E
    <3> QED
      BY <1>11, <1>13, <1>15, <1>18, <3>1, EvolvedWithin
  <2> HIDE DEF E
  <2>2. Evolved(s, t, ((E \cup E) \cup E) \cup E)
    BY <2>1, EvolvedTransitive
  <2>3. ((E \cup E) \cup E) \cup E = E
    OBVIOUS
  <2> QED
    BY <2>2, <2>3 DEF E
<1>22. Surplus(t) = Surplus(s)
  BY <1>1, <1>3, <1>5, <1>7, <1>9, <1>13, <1>15, <1>18
<1> QED
  BY <1>0, <1>19, <1>20, <1>21, <1>22

(* process_slots, with or without the end of an epoch.                     *)
LEMMA SlotEvolves ==
  ASSUME NEW s, Sound(s), s.slot < MaxSlot,
         NEW finalized_epoch \in Nat, NEW delta \in Int,
         Moving(s, get_current_epoch(s)), Carry(s)
  PROVE  LET t == process_slots(s, finalized_epoch, delta)
         IN /\ Sound(t) /\ Surplus(t) = Surplus(s)
            /\ Carry(t) /\ Moving(t, get_current_epoch(t))
            /\ t.earliest_consolidation_epoch = s.earliest_consolidation_epoch
<1> DEFINE last == (s.slot + 1) % SLOTS_PER_EPOCH = 0
           u == IF last THEN process_epoch(s, finalized_epoch, delta) ELSE s
           next == u.slot + 1
           t == [u EXCEPT !.slot = next]
           epoch == get_current_epoch(s) + (IF last THEN 1 ELSE 0)
<1>0. process_slots(s, finalized_epoch, delta) = t
  BY DEF process_slots
<1>1. s.slot \in Nat /\ MaxSlot \in Nat /\ s \in BeaconState /\ get_current_epoch(s) \in Nat
  BY FieldTypes, EpochBounds, BoundsAssumption DEF Sound
<1>2. Evolved(s, u, EpochFields) /\ Surplus(u) = Surplus(s) /\ Carry(u) /\ Moving(u, epoch)
  <2>1. CASE last
    BY <2>1, EpochEvolves
  <2>2. CASE ~last
    <3>1. u = s /\ epoch = get_current_epoch(s)
      BY <1>1, <2>2
    <3>2. Evolved(s, s, EpochFields)
      BY EvolvedItself, EvolvedWithin
    <3> HIDE DEF u, epoch
    <3> QED
      BY <3>1, <3>2
  <2> QED
    BY <2>1, <2>2
<1> HIDE DEF u
<1>3. Sound(u) /\ u.slot = s.slot
      /\ u.earliest_consolidation_epoch = s.earliest_consolidation_epoch
  BY <1>2, Agreement DEF Evolved, EpochFields
<1>4. next \in Nat /\ next <= MaxSlot /\ next = s.slot + 1
  BY <1>1, <1>3
<1> HIDE DEF next
<1>5. Evolved(u, t, {"slot"}) /\ Surplus(t) = Surplus(u) /\ t.slot = next
  BY <1>3, <1>4, FieldEvolves
<1> HIDE DEF t
<1>6. get_current_epoch(t) = epoch
  <2>1. SLOTS_PER_EPOCH \in Nat /\ SLOTS_PER_EPOCH > 0
    BY RegistryConstants
  <2>2. (s.slot + 1) \div SLOTS_PER_EPOCH
          = IF last THEN s.slot \div SLOTS_PER_EPOCH + 1 ELSE s.slot \div SLOTS_PER_EPOCH
    BY <1>1, <2>1, Division
  <2>3. get_current_epoch(t) = (s.slot + 1) \div SLOTS_PER_EPOCH
    BY <1>4, <1>5 DEF get_current_epoch
  <2>4. s.slot \div SLOTS_PER_EPOCH \in Nat
    BY <1>1 DEF get_current_epoch
  <2> HIDE DEF last
  <2> QED
    BY <2>2, <2>3, <2>4 DEF get_current_epoch
<1> HIDE DEF epoch
<1>7. Moving(t, epoch) /\ Carry(t)
  BY <1>2, <1>3, <1>5, MovingKept, CarryKept
<1>8. Sound(t) /\ t.earliest_consolidation_epoch = s.earliest_consolidation_epoch
  BY <1>3, <1>5, Agreement DEF Evolved
<1> QED
  BY <1>0, <1>2, <1>5, <1>6, <1>7, <1>8

-----------------------------------------------------------------------------
(* Withdrawals. *)

PartialStep(a, p, pending) == PartialConsidered(a, p, pending)
SweepStep(a, withdrawals, index) == Swept(a, withdrawals, index)
PaidStep(a, s, withdrawal) == Paid(s, withdrawal)
Considering == INSTANCE FoldOf WITH op <- PartialStep

LEMMA ConsideringInducts == Considering!NatInduction
BY NatSetInduction DEF Considering!NatInduction
Sweeping == INSTANCE FoldOf WITH op <- SweepStep

LEMMA SweepingInducts == Sweeping!NatInduction
BY NatSetInduction DEF Sweeping!NatInduction
Paying == INSTANCE FoldOf WITH op <- PaidStep

LEMMA PayingInducts == Paying!NatInduction
BY NatSetInduction DEF Paying!NatInduction

PaidOut == [validator_index : Nat, amount : Nat]

(* What the terms of total_withdrawn are.                                  *)
Share(withdrawals, index) ==
  [k \in DOMAIN withdrawals |->
     IF withdrawals[k].validator_index = index THEN withdrawals[k].amount ELSE 0]

(* The terms of total_withdrawn are natural numbers.                       *)
LEMMA ShareType ==
  ASSUME NEW w \in Seq(PaidOut), NEW i
  PROVE  /\ Share(w, i) \in Seq(Nat) /\ Share(w, i) \in Seq(Int) /\ Len(Share(w, i)) = Len(w)
         /\ \A k \in 1..Len(w) :
              Share(w, i)[k] = IF w[k].validator_index = i THEN w[k].amount ELSE 0
         /\ total_withdrawn(w, i) = Total(Share(w, i))
         /\ total_withdrawn(w, i) \in Nat
<1>1. DOMAIN w = 1..Len(w) /\ Len(w) \in Nat /\ \A k \in 1..Len(w) : w[k] \in PaidOut
  OBVIOUS
<1>2. \A x \in PaidOut : x.amount \in Nat
  BY DEF PaidOut
<1>3. Share(w, i) \in [1..Len(w) -> Nat]
  BY <1>1, <1>2 DEF Share
<1>4. /\ Share(w, i) \in Seq(Nat) /\ Share(w, i) \in Seq(Int) /\ Len(Share(w, i)) = Len(w)
  BY <1>1, <1>3
<1>5. total_withdrawn(w, i) = Total(Share(w, i))
  BY DEF total_withdrawn, Share
<1>6. \A k \in 1..Len(w) :
              Share(w, i)[k] = IF w[k].validator_index = i THEN w[k].amount ELSE 0
  BY <1>1 DEF Share
<1> QED
  BY <1>4, <1>5, <1>6, TotalType

(* One more withdrawal counts for its own validator only.                  *)
LEMMA WithdrawnAppend ==
  ASSUME NEW w \in Seq(PaidOut), NEW j \in Nat, NEW amount \in Nat, NEW i
  PROVE  LET u == Append(w, Withdrawal(j, amount))
         IN /\ u \in Seq(PaidOut)
            /\ total_withdrawn(u, i) = total_withdrawn(w, i) + (IF j = i THEN amount ELSE 0)
<1> DEFINE x == Withdrawal(j, amount)
           u == Append(w, x)
           d == IF j = i THEN amount ELSE 0
<1>1. x \in PaidOut /\ x.validator_index = j /\ x.amount = amount
  BY DEF Withdrawal, PaidOut
<1> HIDE DEF x
<1>2. /\ u \in Seq(PaidOut) /\ Len(u) = Len(w) + 1 /\ u[Len(w) + 1] = x
      /\ \A k \in 1..Len(w) : u[k] = w[k]
  BY <1>1
<1> HIDE DEF u
<1>3. d \in Int /\ Len(w) \in Nat
  OBVIOUS
<1>4. Share(u, i) = Append(Share(w, i), d)
  <2> DEFINE a == Share(u, i)
             b == Append(Share(w, i), d)
             n == Len(w) + 1
  <2>1. a \in Seq(Int) /\ Len(a) = n
        /\ \A k \in 1..n : a[k] = IF u[k].validator_index = i THEN u[k].amount ELSE 0
    BY <1>2, ShareType
  <2>2. /\ Share(w, i) \in Seq(Int) /\ Len(Share(w, i)) = Len(w)
        /\ \A k \in 1..Len(w) :
              Share(w, i)[k] = IF w[k].validator_index = i THEN w[k].amount ELSE 0
    BY ShareType
  <2> HIDE DEF a, d
  <2>3. b \in Seq(Int) /\ Len(b) = n /\ b[n] = d /\ \A k \in 1..Len(w) : b[k] = Share(w, i)[k]
    <3> DEFINE c == Share(w, i)
    <3>1. c \in Seq(Int) /\ Len(c) = Len(w)
      BY <2>2
    <3> HIDE DEF c
    <3> QED
      BY <1>3, <3>1 DEF c
  <2> HIDE DEF b
  <2>4. \A k \in 1..n : a[k] = b[k]
    <3>1. ASSUME NEW k \in 1..n PROVE a[k] = b[k]
      <4>1. CASE k = n
        BY <1>1, <1>2, <2>1, <2>3, <4>1 DEF d
      <4>2. CASE k # n
        <5>1. k \in 1..Len(w)
          BY <1>3, <4>2
        <5> QED
          BY <1>2, <2>1, <2>2, <2>3, <5>1
      <4> QED
        BY <4>1, <4>2
    <3> QED
      BY <3>1
  <2> QED
    <3>1. n \in Nat
      BY <1>3
    <3> HIDE DEF n
    <3>2. a = b
      BY <2>1, <2>3, <2>4, <3>1
    <3> QED
      BY <3>2 DEF a, b
<1>5. Total(Share(u, i)) = Total(Share(w, i)) + d
  <2>1. Share(w, i) \in Seq(Int)
    BY ShareType
  <2> HIDE DEF d
  <2> QED
    BY <1>3, <1>4, <2>1, TotalAppend
<1> QED
  BY <1>2, <1>5, ShareType DEF u, x

(* A block never withdraws more than there is, and leaves a validator that *)
(* stays what it needs to stay.                                            *)
WithinBalances(s, w) ==
  /\ w \in Seq(PaidOut)
  /\ \A k \in DOMAIN w : w[k].validator_index \in DOMAIN s.validators
  /\ \A i \in DOMAIN s.validators :
       /\ total_withdrawn(w, i) <= s.balances[i]
       /\ s.validators[i].exit_epoch = FAR_FUTURE_EPOCH =>
            s.balances[i] - total_withdrawn(w, i)
              >= Least(s.balances[i], MIN_ACTIVATION_BALANCE)

(* One more withdrawal, of no more than is left.                           *)
LEMMA WithinAppend ==
  ASSUME NEW s, Sound(s), NEW w, WithinBalances(s, w),
         NEW j \in DOMAIN s.validators, NEW amount \in Nat,
         amount <= s.balances[j] - total_withdrawn(w, j),
         s.validators[j].exit_epoch = FAR_FUTURE_EPOCH =>
           s.balances[j] - total_withdrawn(w, j) - amount >= MIN_ACTIVATION_BALANCE
  PROVE  WithinBalances(s, Append(w, Withdrawal(j, amount)))
<1> DEFINE u == Append(w, Withdrawal(j, amount))
<1>1. /\ w \in Seq(PaidOut)
      /\ \A k \in DOMAIN w : w[k].validator_index \in DOMAIN s.validators
      /\ \A i \in DOMAIN s.validators :
           /\ total_withdrawn(w, i) <= s.balances[i]
           /\ s.validators[i].exit_epoch = FAR_FUTURE_EPOCH =>
                s.balances[i] - total_withdrawn(w, i)
                  >= Least(s.balances[i], MIN_ACTIVATION_BALANCE)
  BY DEF WithinBalances
<1>2. j \in Nat /\ MIN_ACTIVATION_BALANCE \in Nat
  <2>1. s.validators \in Seq(Validator)
    BY FieldTypes DEF Sound
  <2> QED
    BY <2>1, RegistryConstants
<1>3. u \in Seq(PaidOut)
  BY <1>1, <1>2, WithdrawnAppend
<1>4. \A k \in DOMAIN u : u[k].validator_index \in DOMAIN s.validators
  <2> DEFINE x == Withdrawal(j, amount)
  <2>1. x.validator_index = j /\ x \in PaidOut
    BY <1>2 DEF Withdrawal, PaidOut
  <2> HIDE DEF x
  <2>2. \A k \in DOMAIN Append(w, x) :
          (k \in DOMAIN w /\ Append(w, x)[k] = w[k]) \/ Append(w, x)[k] = x
    BY <1>1, <2>1
  <2> QED
    BY <1>1, <2>1, <2>2 DEF x
<1>5. ASSUME NEW i \in DOMAIN s.validators
      PROVE  /\ total_withdrawn(u, i) <= s.balances[i]
             /\ s.validators[i].exit_epoch = FAR_FUTURE_EPOCH =>
                  s.balances[i] - total_withdrawn(u, i)
                    >= Least(s.balances[i], MIN_ACTIVATION_BALANCE)
  <2>1. total_withdrawn(u, i) = total_withdrawn(w, i) + (IF j = i THEN amount ELSE 0)
    BY <1>1, <1>2, WithdrawnAppend
  <2>2. total_withdrawn(w, i) \in Nat
    BY <1>1, ShareType
  <2>3. s.balances[i] \in Nat
    BY SameIndices, BalanceSet DEF Sound
  <2>4. CASE j = i
    BY <1>2, <2>1, <2>2, <2>3, <2>4 DEF Least
  <2>5. CASE j # i
    BY <1>1, <2>1, <2>2, <2>5
  <2> QED
    BY <2>4, <2>5
<1> QED
  BY <1>3, <1>4, <1>5 DEF WithinBalances

(* What is left of a balance is never negative.                            *)
LEMMA Remaining ==
  ASSUME NEW s, Sound(s), NEW w, WithinBalances(s, w), NEW i \in DOMAIN s.validators
  PROVE  /\ s.balances[i] \in Nat /\ total_withdrawn(w, i) \in Nat
         /\ s.balances[i] - total_withdrawn(w, i) \in Nat
<1>1. s.balances[i] \in Nat
  BY SameIndices, BalanceSet DEF Sound
<1>2. total_withdrawn(w, i) \in Nat /\ total_withdrawn(w, i) <= s.balances[i]
  BY ShareType DEF WithinBalances
<1> QED
  BY <1>1, <1>2

PartialVariables == {"withdrawals", "processed", "stopped"}

PartialLoop(s, p, n) ==
  /\ DOMAIN p = PartialVariables
  /\ WithinBalances(s, p.withdrawals)
  /\ p.processed \in 0..n

(* One turn of the loop over the pending partial withdrawals.              *)
LEMMA PartialTurn ==
  ASSUME NEW s, Sound(s), NEW n \in 1..Len(s.pending_partial_withdrawals),
         NEW p, PartialLoop(s, p, n - 1)
  PROVE  PartialLoop(s, PartialConsidered(s, p, s.pending_partial_withdrawals[n]), n)
<1> DEFINE pending == s.pending_partial_withdrawals[n]
           index == pending.validator_index
           w == p.withdrawals
           balance == s.balances[index] - total_withdrawn(w, index)
           amount == Least(balance - MIN_ACTIVATION_BALANCE, pending.amount)
           r == PartialConsidered(s, p, pending)
<1>1. /\ DOMAIN p = PartialVariables /\ WithinBalances(s, w)
      /\ p.processed \in 0..(n - 1)
  BY DEF PartialLoop
<1>2. index \in DOMAIN s.validators /\ pending.amount \in Nat
  <2>1. s.pending_partial_withdrawals \in Seq(PendingPartialWithdrawal)
    BY FieldTypes DEF Sound
  <2>2. pending \in PendingPartialWithdrawal /\ n \in DOMAIN s.pending_partial_withdrawals
    BY <2>1
  <2>3. index \in DOMAIN s.validators
    BY <2>2, SoundWhole
  <2> QED
    BY <2>2, <2>3 DEF PendingPartialWithdrawal
<1>3. balance \in Nat /\ MIN_ACTIVATION_BALANCE \in Nat
  BY <1>1, <1>2, Remaining, RegistryConstants
<1> HIDE DEF index
<1>4. CASE r = [p EXCEPT !.stopped = TRUE]
  <2>1. DOMAIN r = PartialVariables /\ r.withdrawals = w /\ r.processed = p.processed
    BY <1>1, <1>4 DEF PartialVariables
  <2> HIDE DEF r
  <2>2. r.processed \in 0..n
    BY <1>1, <2>1
  <2> QED
    BY <1>1, <2>1, <2>2 DEF PartialLoop, r
<1>5. CASE r = [p EXCEPT !.processed = @ + 1, !.withdrawals = w]
  <2>1. DOMAIN r = PartialVariables /\ r.withdrawals = w /\ r.processed = p.processed + 1
    BY <1>1, <1>5 DEF PartialVariables
  <2> HIDE DEF r
  <2>2. r.processed \in 0..n
    BY <1>1, <2>1
  <2> QED
    BY <1>1, <2>1, <2>2 DEF PartialLoop, r
<1>6. CASE /\ balance > MIN_ACTIVATION_BALANCE
           /\ r = [p EXCEPT !.processed = @ + 1,
                            !.withdrawals = Append(w, Withdrawal(index, amount))]
  <2> DEFINE u == Append(w, Withdrawal(index, amount))
  <2>1. amount \in Nat /\ amount <= balance - MIN_ACTIVATION_BALANCE
    <3> HIDE DEF balance, pending
    <3> QED
      BY <1>2, <1>3, <1>6 DEF Least
  <2>2. amount <= balance /\ balance - amount >= MIN_ACTIVATION_BALANCE
    <3> HIDE DEF amount, balance
    <3> QED
      BY <1>3, <2>1
  <2> HIDE DEF amount
  <2>3. WithinBalances(s, u)
    BY <1>1, <1>2, <2>1, <2>2, WithinAppend
  <2> HIDE DEF u
  <2>4. DOMAIN r = PartialVariables /\ r.withdrawals = u /\ r.processed = p.processed + 1
    <3> HIDE DEF r
    <3> QED
      BY <1>1, <1>6 DEF PartialVariables, u
  <2> HIDE DEF r
  <2>5. r.processed \in 0..n
    BY <1>1, <2>4
  <2> QED
    BY <2>3, <2>4, <2>5 DEF PartialLoop, r
<1>7. \/ r = [p EXCEPT !.stopped = TRUE]
      \/ r = [p EXCEPT !.processed = @ + 1, !.withdrawals = w]
      \/ /\ balance > MIN_ACTIVATION_BALANCE
         /\ r = [p EXCEPT !.processed = @ + 1,
                          !.withdrawals = Append(w, Withdrawal(index, amount))]
  BY DEF PartialConsidered, index
<1> QED
  BY <1>4, <1>5, <1>6, <1>7

(* One turn of the sweep.                                                  *)
LEMMA SweepTurn ==
  ASSUME NEW s, Sound(s), NEW w, WithinBalances(s, w), NEW i \in DOMAIN s.validators
  PROVE  WithinBalances(s, Swept(s, w, i))
<1> DEFINE v == s.validators[i]
           balance == s.balances[i] - total_withdrawn(w, i)
           epoch == get_current_epoch(s)
           max == get_max_effective_balance(v)
<1>1. balance \in Nat /\ MIN_ACTIVATION_BALANCE \in Nat
  BY Remaining, RegistryConstants
<1>2. epoch \in Nat /\ epoch < FAR_FUTURE_EPOCH /\ FAR_FUTURE_EPOCH \in Nat
  BY EpochBounds DEF Sound
<1>3. v.exit_epoch \in Nat /\ v.withdrawable_epoch \in Nat /\ v.exit_epoch <= v.withdrawable_epoch
  BY ValidatorAt DEF Validator, InOrder
<1>4. max \in Nat /\ max >= MIN_ACTIVATION_BALANCE
  BY <1>1, RegistryConstants, BoundsAssumption DEF get_max_effective_balance
<1> HIDE DEF v, max, epoch
<1>5. \/ Swept(s, w, i) = w
      \/ /\ v.withdrawable_epoch <= epoch
         /\ Swept(s, w, i) = Append(w, Withdrawal(i, balance))
      \/ /\ balance > max
         /\ Swept(s, w, i) = Append(w, Withdrawal(i, balance - max))
  BY DEF Swept, is_fully_withdrawable_validator, is_partially_withdrawable_validator,
         v, max, epoch
<1>6. CASE /\ v.withdrawable_epoch <= epoch
           /\ Swept(s, w, i) = Append(w, Withdrawal(i, balance))
  <2>1. v.exit_epoch # FAR_FUTURE_EPOCH
    BY <1>2, <1>3, <1>6
  <2>2. balance <= balance
    BY <1>1
  <2> QED
    BY <1>1, <1>6, <2>1, <2>2, WithinAppend DEF v
<1>7. CASE /\ balance > max
           /\ Swept(s, w, i) = Append(w, Withdrawal(i, balance - max))
  <2> DEFINE amount == balance - max
  <2>1. amount \in Nat /\ amount <= balance /\ balance - amount >= MIN_ACTIVATION_BALANCE
    <3> HIDE DEF balance
    <3> QED
      BY <1>1, <1>4, <1>7
  <2>2. Swept(s, w, i) = Append(w, Withdrawal(i, amount))
    BY <1>7
  <2> HIDE DEF amount
  <2> QED
    BY <2>1, <2>2, WithinAppend
<1> QED
  BY <1>5, <1>6, <1>7

(* The sweep stays in the registry.                                        *)
LEMMA Around ==
  ASSUME NEW s, Sound(s), NEW i \in DOMAIN s.validators, NEW k \in Nat
  PROVE  After(s, i, k) \in DOMAIN s.validators
<1> DEFINE N == Len(s.validators)
           a == i - 1 + k
<1>1. N \in Nat /\ DOMAIN s.validators = 1..N
  <2>1. s.validators \in Seq(Validator)
    BY FieldTypes DEF Sound
  <2> QED
    BY <2>1
<1> HIDE DEF N
<1>2. N > 0 /\ a \in Nat
  BY <1>1
<1> HIDE DEF a
<1>3. a % N \in 0..(N - 1)
  BY <1>1, <1>2, SMTT(30)
<1>4. (a % N) + 1 \in 1..N
  BY <1>1, <1>2, <1>3
<1> QED
  BY <1>1, <1>4 DEF After, a, N

(* What the loop over the pending partial withdrawals leaves.              *)
LEMMA PartialsWithin ==
  ASSUME NEW s, Sound(s)
  PROVE  PartialLoop(s, PartialWithdrawals(s), Len(s.pending_partial_withdrawals))
<1> DEFINE q == s.pending_partial_withdrawals
           N == Len(q)
           base == [withdrawals |-> <<>>, processed |-> 0, stopped |-> FALSE]
           p == PartialWithdrawals(s)
<1>1. /\ q \in Seq(PendingPartialWithdrawal) /\ N \in Nat /\ DOMAIN q = 1..N
      /\ s.balances \in Seq(Nat) /\ s \in BeaconState
  <2>1. q \in Seq(PendingPartialWithdrawal) /\ s.balances \in Seq(Nat) /\ s \in BeaconState
    BY FieldTypes DEF Sound
  <2> QED
    BY <2>1
<1>2. p = Considering!TheFold(s, base, q, N)[1..N]
  <2> HIDE DEF base
  <2>1. FoldLeft(LAMBDA x, pending : PartialConsidered(s, x, pending), base, q)
          = Considering!TheFold(s, base, q, N)[1..N]
    BY <1>1 DEF FoldLeft, MapThenFoldSet, Max,
       Considering!TheFold, Considering!Fold, Considering!Largest, PartialStep
  <2> QED
    BY <2>1 DEF PartialWithdrawals, base
<1> HIDE DEF p, N
<1>3. PICK h : /\ Considering!Course(s, base, q, N, h)
               /\ h[N] = Considering!TheFold(s, base, q, N)[1..N]
  <2> HIDE DEF base
  <2> QED
    BY <1>1, Considering!FoldHasCourse, ConsideringInducts
<1>4. h[0] = base /\ \A n \in 1..N : h[n] = PartialConsidered(s, h[n - 1], q[n])
  BY <1>1, <1>3 DEF Considering!Course, PartialStep
<1>5. PartialLoop(s, base, 0)
  <2>1. DOMAIN base = PartialVariables /\ base.withdrawals = <<>> /\ base.processed \in 0..0
    BY DEF PartialVariables
  <2>2. WithinBalances(s, <<>>)
    <3>1. <<>> \in Seq(PaidOut) /\ DOMAIN <<>> = {}
      OBVIOUS
    <3>2. \A i : total_withdrawn(<<>>, i) = 0
      <4>1. \A i : Share(<<>>, i) = <<>> /\ total_withdrawn(<<>>, i) = Total(Share(<<>>, i))
        BY DEF Share, total_withdrawn
      <4> QED
        BY <4>1, TotalType
    <3>3. ASSUME NEW i \in DOMAIN s.validators
          PROVE  /\ total_withdrawn(<<>>, i) <= s.balances[i]
                 /\ s.balances[i] - total_withdrawn(<<>>, i)
                      >= Least(s.balances[i], MIN_ACTIVATION_BALANCE)
      <4>1. s.balances[i] \in Nat /\ MIN_ACTIVATION_BALANCE \in Nat
        BY <1>1, SameIndices, BalanceSet, RegistryConstants
      <4> QED
        BY <3>2, <4>1 DEF Least
    <3> QED
      BY <3>1, <3>3 DEF WithinBalances
  <2> HIDE DEF base
  <2> QED
    BY <2>1, <2>2 DEF PartialLoop
<1> HIDE DEF base
<1> DEFINE S == {n \in 0..N : PartialLoop(s, h[n], n)}
<1>6. 0 \in S
  BY <1>1, <1>4, <1>5
<1>7. ASSUME NEW n \in 1..N, n - 1 \in S PROVE n \in S
  <2>1. PartialLoop(s, PartialConsidered(s, h[n - 1], q[n]), n)
    BY <1>7, PartialTurn DEF N
  <2> QED
    BY <1>4, <2>1
<1>8. 0..N \subseteq S
  <2> HIDE DEF S
  <2> QED
    BY <1>1, <1>6, <1>7, UpTo
<1>9. p = h[N]
  BY <1>2, <1>3
<1> QED
  BY <1>1, <1>8, <1>9 DEF N, p

(* The withdrawals a block must contain take no more than there is.        *)
LEMMA ExpectedWithin ==
  ASSUME NEW s, Sound(s)
  PROVE  WithinBalances(s, get_expected_withdrawals(s))
<1> DEFINE bound == Least(Len(s.validators), MAX_VALIDATORS_PER_WITHDRAWALS_SWEEP)
           start == s.next_withdrawal_validator_index
           order == [k \in 1..bound |-> After(s, start, k - 1)]
           base == PartialWithdrawals(s).withdrawals
           w == get_expected_withdrawals(s)
<1>1. bound \in Nat
  <2>1. Len(s.validators) \in Nat
    <3>1. s.validators \in Seq(Validator)
      BY FieldTypes DEF Sound
    <3> QED
      BY <3>1
  <2> QED
    BY <2>1, WithdrawalConstants DEF Least
<1>2. start \in DOMAIN s.validators
  BY SoundWhole
<1> HIDE DEF bound, start
<1>3. \A k \in 1..bound : order[k] \in DOMAIN s.validators
  <2> SUFFICES ASSUME NEW k \in 1..bound PROVE order[k] \in DOMAIN s.validators
    OBVIOUS
  <2>1. k - 1 \in Nat
    BY <1>1
  <2> QED
    BY <1>2, <2>1, Around
<1>4. DOMAIN order = 1..bound /\ Len(order) = bound
  <2>1. order \in Seq(Nat \cup DOMAIN s.validators)
    <3>1. order \in [1..bound -> DOMAIN s.validators]
      <4> DEFINE D == DOMAIN s.validators
      <4> HIDE DEF D
      <4>1. \A k \in 1..bound : order[k] \in D
        BY <1>3 DEF D
      <4> QED
        BY <4>1 DEF D
    <3> QED
      BY <1>1, <3>1
  <2> QED
    BY <1>1
<1>5. WithinBalances(s, base)
  BY PartialsWithin DEF PartialLoop
<1>6. w = Sweeping!TheFold(s, base, order, bound)[1..bound]
  <2>1. w = FoldLeft(LAMBDA x, index : Swept(s, x, index), base, order)
    BY DEF get_expected_withdrawals, bound, start
  <2> HIDE DEF base, order, w
  <2>2. FoldLeft(LAMBDA x, index : Swept(s, x, index), base, order)
          = Sweeping!TheFold(s, base, order, bound)[1..bound]
    BY <1>1, <1>4 DEF FoldLeft, MapThenFoldSet, Max,
       Sweeping!TheFold, Sweeping!Fold, Sweeping!Largest, SweepStep
  <2> QED
    BY <2>1, <2>2
<1> HIDE DEF base, order, w
<1>7. PICK h : /\ Sweeping!Course(s, base, order, bound, h)
               /\ h[bound] = Sweeping!TheFold(s, base, order, bound)[1..bound]
  BY <1>1, Sweeping!FoldHasCourse, SweepingInducts
<1>8. h[0] = base /\ \A n \in 1..bound : h[n] = Swept(s, h[n - 1], order[n])
  BY <1>1, <1>7 DEF Sweeping!Course, SweepStep
<1> DEFINE S == {n \in 0..bound : WithinBalances(s, h[n])}
<1>9. 0 \in S
  BY <1>1, <1>5, <1>8
<1>10. ASSUME NEW n \in 1..bound, n - 1 \in S PROVE n \in S
  <2>1. WithinBalances(s, Swept(s, h[n - 1], order[n]))
    BY <1>3, <1>10, SweepTurn
  <2> QED
    BY <1>8, <2>1
<1>11. 0..bound \subseteq S
  <2> HIDE DEF S
  <2> QED
    BY <1>1, <1>9, <1>10, UpTo
<1> QED
  BY <1>1, <1>6, <1>7, <1>11 DEF w

(* Partial sums of natural numbers grow.                                   *)
LEMMA PartialSumsGrow ==
  ASSUME NEW N \in Nat, NEW P, \A n \in 0..N : P[n] \in Int,
         \A n \in 1..N : P[n - 1] <= P[n],
         NEW k \in 0..N
  PROVE  P[k] <= P[N]
<1> DEFINE S == {n \in 0..N : P[N - n] <= P[N]}
<1>1. 0 \in S
  <2>1. N - 0 = N /\ P[N] \in Int
    OBVIOUS
  <2> QED
    BY <2>1
<1>2. ASSUME NEW n \in 1..N, n - 1 \in S PROVE n \in S
  <2> DEFINE m == N - (n - 1)
  <2>1. m \in 1..N /\ N - n = m - 1
    OBVIOUS
  <2>2. P[m] <= P[N]
    BY <1>2
  <2> HIDE DEF m
  <2>3. P[m - 1] <= P[m] /\ P[m - 1] \in Int /\ P[m] \in Int /\ P[N] \in Int
    BY <2>1
  <2>4. P[m - 1] <= P[N]
    BY <2>2, <2>3
  <2> QED
    BY <2>1, <2>4
<1>3. 0..N \subseteq S
  <2> HIDE DEF S
  <2> QED
    BY <1>1, <1>2, UpTo
<1>4. N - k \in 0..N /\ N - (N - k) = k
  OBVIOUS
<1>5. P[N - (N - k)] <= P[N]
  BY <1>3, <1>4
<1> QED
  BY <1>4, <1>5

(* A withdrawal that fits takes exactly its amount.                        *)
LEMMA PaidTakes ==
  ASSUME NEW s \in BeaconState, NEW w \in PaidOut, w.validator_index \in DOMAIN s.balances,
         w.amount <= s.balances[w.validator_index]
  PROVE  LET t == Paid(s, w)
         IN /\ SameBut(s, t, {"balances"}) /\ Len(t.balances) = Len(s.balances)
            /\ \A i \in DOMAIN s.balances :
                 t.balances[i] = s.balances[i] - (IF w.validator_index = i THEN w.amount ELSE 0)
            /\ Total(t.balances) = Total(s.balances) - w.amount
<1> DEFINE j == w.validator_index
           taken == Least(w.amount, s.balances[j])
           t == Paid(s, w)
<1>1. w.amount \in Nat /\ j \in DOMAIN s.balances
  BY DEF PaidOut
<1>2. s.balances[j] \in Nat /\ s.balances \in Seq(Nat)
  BY FieldTypes
<1>3. taken = w.amount
  BY <1>1, <1>2 DEF Least
<1> HIDE DEF taken, j
<1>4. t = decrease_balance(s, j, w.amount)
  BY DEF Paid, j
<1> HIDE DEF t
<1>5. /\ SameBut(s, t, {"balances"})
      /\ t.balances = [s.balances EXCEPT ![j] = s.balances[j] - taken]
      /\ Len(t.balances) = Len(s.balances)
      /\ Total(t.balances) = Total(s.balances) - taken
  BY <1>1, <1>4, BalanceDecreased DEF taken
<1>6. \A i \in DOMAIN s.balances :
        t.balances[i] = s.balances[i] - (IF j = i THEN w.amount ELSE 0)
  <2> SUFFICES ASSUME NEW i \in DOMAIN s.balances
               PROVE  t.balances[i] = s.balances[i] - (IF j = i THEN w.amount ELSE 0)
    OBVIOUS
  <2>1. s.balances[i] \in Nat
    BY <1>2
  <2>2. CASE j = i
    BY <1>3, <1>5, <2>2
  <2>3. CASE j # i
    BY <1>5, <2>1, <2>3
  <2> QED
    BY <2>2, <2>3
<1> QED
  BY <1>3, <1>5, <1>6 DEF j, t

(* So do all of them, one after the other, that are within the balances.   *)
LEMMA PaidExactly ==
  ASSUME NEW s, Sound(s), NEW W, WithinBalances(s, W)
  PROVE  LET t == FoldLeft(Paid, s, W)
         IN /\ SameBut(s, t, {"balances"}) /\ Len(t.balances) = Len(s.balances)
            /\ \A i \in DOMAIN s.balances :
                 t.balances[i] = s.balances[i] - total_withdrawn(W, i)
            /\ Total(t.balances) = Total(s.balances) - Total(Amounts(W))
            /\ Total(Amounts(W)) \in Int
<1> DEFINE N == Len(W)
           B == DOMAIN s.balances
           t == FoldLeft(Paid, s, W)
<1>1. /\ W \in Seq(PaidOut) /\ N \in Nat /\ DOMAIN W = 1..N
      /\ \A k \in 1..N : /\ W[k] \in PaidOut /\ W[k].validator_index \in B
                         /\ W[k].amount \in Nat
      /\ \A i \in B : total_withdrawn(W, i) <= s.balances[i]
  <2>1. /\ W \in Seq(PaidOut)
        /\ \A k \in DOMAIN W : W[k].validator_index \in B
        /\ \A i \in B : total_withdrawn(W, i) <= s.balances[i]
    BY SameIndices DEF WithinBalances
  <2>2. N \in Nat /\ DOMAIN W = 1..N /\ \A k \in 1..N : W[k] \in PaidOut
    BY <2>1
  <2>3. \A x \in PaidOut : x.amount \in Nat
    BY DEF PaidOut
  <2> QED
    BY <2>1, <2>2, <2>3
<1>2. s \in BeaconState /\ s.balances \in Seq(Nat) /\ \A i \in B : s.balances[i] \in Nat
  <2>1. s \in BeaconState /\ s.balances \in Seq(Nat)
    BY FieldTypes DEF Sound
  <2> QED
    BY <2>1
<1>3. t = Paying!TheFold(0, s, W, N)[1..N]
  <2> HIDE DEF B
  <2> QED
    BY <1>1 DEF FoldLeft, MapThenFoldSet, Max,
       Paying!TheFold, Paying!Fold, Paying!Largest, PaidStep
<1>4. Amounts(W) \in Seq(Int) /\ Len(Amounts(W)) = N
      /\ \A k \in 1..N : Amounts(W)[k] = W[k].amount
  <2>1. Amounts(W) \in [1..N -> Int] /\ \A k \in 1..N : Amounts(W)[k] = W[k].amount
    BY <1>1 DEF Amounts
  <2> QED
    BY <1>1, <2>1
<1> HIDE DEF N, B, t
<1>5. PICK A \in [0..N -> Int] :
        /\ A[0] = 0 /\ (\A n \in 1..N : A[n] = A[n - 1] + Amounts(W)[n])
        /\ Total(Amounts(W)) = A[N]
  <2> DEFINE a == Amounts(W)
  <2>1. a \in Seq(Int) /\ Len(a) = N
    BY <1>4
  <2> HIDE DEF a
  <2> QED
    BY <2>1, PartialSums DEF a
<1>6. PICK h : /\ Paying!Course(0, s, W, N, h)
               /\ h[N] = Paying!TheFold(0, s, W, N)[1..N]
  BY <1>1, Paying!FoldHasCourse, PayingInducts
<1>7. h[0] = s /\ \A n \in 1..N : h[n] = Paid(h[n - 1], W[n])
  BY <1>1, <1>6 DEF Paying!Course, PaidStep
<1>8. ASSUME NEW i \in B
      PROVE  \E P \in [0..N -> Int] :
               /\ P[0] = 0 /\ P[N] = total_withdrawn(W, i)
               /\ \A n \in 1..N : P[n] = P[n - 1]
                    + (IF W[n].validator_index = i THEN W[n].amount ELSE 0)
  <2> DEFINE a == Share(W, i)
  <2>1. /\ a \in Seq(Int) /\ Len(a) = N /\ total_withdrawn(W, i) = Total(a)
        /\ \A k \in 1..N : a[k] = IF W[k].validator_index = i THEN W[k].amount ELSE 0
    BY <1>1, ShareType DEF N
  <2> HIDE DEF a
  <2>2. PICK P \in [0..N -> Int] :
          /\ P[0] = 0 /\ (\A n \in 1..N : P[n] = P[n - 1] + a[n]) /\ Total(a) = P[N]
    BY <2>1, PartialSums
  <2>3. \A n \in 1..N : P[n] = P[n - 1]
          + (IF W[n].validator_index = i THEN W[n].amount ELSE 0)
    BY <2>1, <2>2
  <2>4. P[N] = total_withdrawn(W, i)
    BY <2>1, <2>2
  <2> QED
    BY <2>2, <2>3, <2>4
<1> DEFINE Sums(i, P) ==
             /\ P \in [0..N -> Int] /\ P[0] = 0 /\ P[N] = total_withdrawn(W, i)
             /\ \A n \in 1..N : P[n] = P[n - 1]
                  + (IF W[n].validator_index = i THEN W[n].amount ELSE 0)
           Q(i) == CHOOSE P : Sums(i, P)
<1>9. ASSUME NEW i \in B PROVE Sums(i, Q(i))
  <2>1. \E P : Sums(i, P)
    BY <1>8
  <2> HIDE DEF Sums
  <2> QED
    BY <2>1
<1> HIDE DEF Q
<1> DEFINE Reached(n, u) ==
             /\ SameBut(s, u, {"balances"}) /\ Len(u.balances) = Len(s.balances)
             /\ \A i \in B : u.balances[i] = s.balances[i] - Q(i)[n]
             /\ Total(u.balances) = Total(s.balances) - A[n]
           S == {n \in 0..N : Reached(n, h[n])}
<1>10. Total(s.balances) \in Nat
  BY <1>2, TotalType
<1>11. Reached(0, s)
  <2>1. SameBut(s, s, {"balances"})
    BY <1>2 DEF SameBut
  <2>2. \A i \in B : s.balances[i] = s.balances[i] - Q(i)[0]
    <3> SUFFICES ASSUME NEW i \in B PROVE s.balances[i] = s.balances[i] - Q(i)[0]
      OBVIOUS
    <3>1. Q(i)[0] = 0 /\ s.balances[i] \in Nat
      BY <1>2, <1>9
    <3> QED
      BY <3>1
  <2>3. Total(s.balances) = Total(s.balances) - A[0]
    BY <1>5, <1>10
  <2> QED
    BY <2>1, <2>2, <2>3
<1>12. 0 \in S
  <2> HIDE DEF Reached
  <2> QED
    BY <1>1, <1>7, <1>11
<1>13. ASSUME NEW n \in 1..N, n - 1 \in S PROVE n \in S
  <2> DEFINE u == h[n - 1]
             v == h[n]
             w == W[n]
             j == w.validator_index
             a == w.amount
  <2>1. /\ SameBut(s, u, {"balances"}) /\ Len(u.balances) = Len(s.balances)
        /\ \A i \in B : u.balances[i] = s.balances[i] - Q(i)[n - 1]
        /\ Total(u.balances) = Total(s.balances) - A[n - 1]
    BY <1>13
  <2>2. /\ n - 1 \in 0..N /\ n \in 0..N /\ w \in PaidOut /\ j \in B /\ a \in Nat
        /\ A[n] = A[n - 1] + a /\ A[n] \in Int /\ A[n - 1] \in Int
    <3>1. n - 1 \in 0..N /\ n \in 0..N
      BY <1>1
    <3> QED
      BY <1>1, <1>4, <1>5, <3>1
  <2>3. u \in BeaconState /\ DOMAIN u.balances = B
    <3>1. u \in BeaconState /\ u.balances \in Seq(Nat)
      BY <2>1, FieldTypes DEF SameBut
    <3> QED
      BY <1>2, <2>1, <3>1 DEF B
  <2>4. ASSUME NEW i \in B
        PROVE  /\ s.balances[i] \in Nat /\ Q(i)[n - 1] \in Int /\ Q(i)[n] \in Int
               /\ Q(i)[n] = Q(i)[n - 1] + (IF j = i THEN a ELSE 0)
               /\ Q(i)[n] <= s.balances[i]
    <3> DEFINE P == Q(i)
    <3>1. Sums(i, P)
      BY <1>9
    <3> HIDE DEF P
    <3>2. \A m \in 1..N : P[m - 1] <= P[m]
      <4> SUFFICES ASSUME NEW m \in 1..N PROVE P[m - 1] <= P[m]
        OBVIOUS
      <4>1. m - 1 \in 0..N /\ m \in 0..N
        BY <1>1
      <4>2. P[m - 1] \in Int /\ P[m] \in Int /\ W[m].amount \in Nat
        BY <1>1, <3>1, <4>1
      <4>3. P[m] = P[m - 1] + (IF W[m].validator_index = i THEN W[m].amount ELSE 0)
        BY <3>1
      <4> QED
        BY <4>2, <4>3
    <3>3. \A m \in 0..N : P[m] \in Int
      BY <3>1
    <3>4. P[n] <= P[N]
      BY <1>1, <2>2, <3>2, <3>3, PartialSumsGrow
    <3>5. P[N] <= s.balances[i] /\ s.balances[i] \in Nat
      BY <1>1, <1>2, <3>1
    <3>6. P[n] \in Int /\ P[n - 1] \in Int /\ P[N] \in Int
      BY <1>1, <2>2, <3>3
    <3>7. P[n] = P[n - 1] + (IF j = i THEN a ELSE 0)
      BY <3>1
    <3>8. P[n] <= s.balances[i]
      BY <3>4, <3>5, <3>6
    <3> QED
      BY <3>5, <3>6, <3>7, <3>8 DEF P
  <2> HIDE DEF Sums, Reached, S
  <2>5. a <= u.balances[j]
    <3>1. /\ s.balances[j] \in Nat /\ Q(j)[n - 1] \in Int /\ Q(j)[n] = Q(j)[n - 1] + a
          /\ Q(j)[n] <= s.balances[j]
      BY <2>2, <2>4
    <3>2. u.balances[j] = s.balances[j] - Q(j)[n - 1]
      BY <2>1, <2>2
    <3> QED
      BY <2>2, <3>1, <3>2
  <2>6. v = Paid(u, w)
    BY <1>7
  <2> HIDE DEF u, v, w
  <2>7. /\ SameBut(u, v, {"balances"}) /\ Len(v.balances) = Len(u.balances)
        /\ \A i \in B : v.balances[i] = u.balances[i] - (IF j = i THEN a ELSE 0)
        /\ Total(v.balances) = Total(u.balances) - a
    BY <2>2, <2>3, <2>5, <2>6, PaidTakes
  <2>8. SameBut(s, v, {"balances"})
    <3> DEFINE F == {"balances"}
    <3>1. SameBut(s, v, F \cup F)
      BY <2>1, <2>7, SameButTransitive
    <3> HIDE DEF F
    <3>2. F \cup F = F
      OBVIOUS
    <3> QED
      BY <3>1, <3>2 DEF F
  <2>9. \A i \in B : v.balances[i] = s.balances[i] - Q(i)[n]
    <3> SUFFICES ASSUME NEW i \in B PROVE v.balances[i] = s.balances[i] - Q(i)[n]
      OBVIOUS
    <3> DEFINE d == IF j = i THEN a ELSE 0
    <3>1. d \in Int
      BY <2>2
    <3>2. /\ s.balances[i] \in Nat /\ Q(i)[n - 1] \in Int
          /\ Q(i)[n] = Q(i)[n - 1] + d
      BY <2>4
    <3>3. u.balances[i] = s.balances[i] - Q(i)[n - 1] /\ v.balances[i] = u.balances[i] - d
      BY <2>1, <2>7
    <3> HIDE DEF d
    <3> QED
      BY <3>1, <3>2, <3>3
  <2>10. Total(v.balances) = Total(s.balances) - A[n]
    BY <1>10, <2>1, <2>2, <2>7
  <2>11. Reached(n, v)
    BY <2>1, <2>7, <2>8, <2>9, <2>10 DEF Reached
  <2> QED
    BY <2>2, <2>11 DEF S, v
<1>14. 0..N \subseteq S
  <2> HIDE DEF S
  <2> QED
    BY <1>1, <1>12, <1>13, UpTo
<1>15. Reached(N, t)
  <2>1. N \in S /\ t = h[N]
    BY <1>1, <1>3, <1>6, <1>14
  <2> HIDE DEF Reached
  <2> QED
    BY <2>1
<1>16. \A i \in B : t.balances[i] = s.balances[i] - total_withdrawn(W, i)
  <2> SUFFICES ASSUME NEW i \in B
               PROVE  t.balances[i] = s.balances[i] - total_withdrawn(W, i)
    OBVIOUS
  <2> QED
    BY <1>9, <1>15
<1>17. A[N] \in Int
  BY <1>1, <1>5
<1> QED
  BY <1>5, <1>15, <1>16, <1>17 DEF B, t

(* The same of the queue of partial withdrawals.                           *)
LEMMA PartialsSet ==
  ASSUME NEW s, Sound(s), NEW q \in Seq(PendingPartialWithdrawal),
         \A k \in DOMAIN q : q[k].validator_index \in DOMAIN s.validators
  PROVE  LET t == [s EXCEPT !.pending_partial_withdrawals = q]
         IN /\ Evolved(s, t, {"pending_partial_withdrawals"}) /\ Surplus(t) = Surplus(s)
            /\ t.pending_partial_withdrawals = q
<1> DEFINE t == [s EXCEPT !.pending_partial_withdrawals = q]
<1>1. SameBut(s, t, {"pending_partial_withdrawals"}) /\ t.pending_partial_withdrawals = q
  BY FieldSet DEF Sound
<1> HIDE DEF t
<1>2. /\ t.balances = s.balances /\ t.slot = s.slot /\ t.validators = s.validators
      /\ t.pending_consolidations = s.pending_consolidations
      /\ t.earliest_exit_epoch = s.earliest_exit_epoch
      /\ t.exit_balance_to_consume = s.exit_balance_to_consume
      /\ t.exits = s.exits
      /\ t.next_withdrawal_validator_index = s.next_withdrawal_validator_index
  BY <1>1, Agreement
<1>3. QueueSound(t) /\ AllExitsFit(t)
  <2>1. DOMAIN t = DOMAIN s
    BY <1>1, FieldTypes DEF SameBut
  <2> QED
    BY <1>2, <2>1 DEF Sound, QueueSound, AllExitsFit, ExitsFit
<1>4. Sound(t)
  BY <1>1, <1>2, <1>3, SoundWhole DEF SameBut
<1>5. Kept(s, t)
  BY <1>2 DEF Kept, KeptValidator
<1>6. Surplus(t) = Surplus(s)
  BY <1>1, SurplusSame
<1> QED
  BY <1>1, <1>4, <1>5, <1>6 DEF Evolved, t

(* Where the sweep goes on is in the registry.                             *)
LEMMA SweepGoesOn ==
  ASSUME NEW s, Sound(s), NEW w, WithinBalances(s, w)
  PROVE  NextSweepStart(s, w) \in DOMAIN s.validators
<1>1. /\ MAX_WITHDRAWALS_PER_PAYLOAD \in Nat /\ MAX_WITHDRAWALS_PER_PAYLOAD > 0
      /\ MAX_VALIDATORS_PER_WITHDRAWALS_SWEEP \in Nat
  BY WithdrawalConstants
<1>2. CASE Len(w) = MAX_WITHDRAWALS_PER_PAYLOAD
  <2> DEFINE last == Last(w).validator_index
  <2>1. last \in DOMAIN s.validators
    <3>1. w \in Seq(PaidOut) /\ \A k \in DOMAIN w : w[k].validator_index \in DOMAIN s.validators
      BY DEF WithinBalances
    <3>2. Len(w) \in DOMAIN w
      BY <1>1, <1>2, <3>1
    <3> QED
      BY <3>1, <3>2 DEF Last
  <2> HIDE DEF last
  <2>2. After(s, last, 1) \in DOMAIN s.validators
    BY <2>1, Around
  <2> QED
    BY <1>2, <2>2 DEF NextSweepStart, last
<1>3. CASE Len(w) # MAX_WITHDRAWALS_PER_PAYLOAD
  <2>1. s.next_withdrawal_validator_index \in DOMAIN s.validators
    BY SoundWhole
  <2>2. After(s, s.next_withdrawal_validator_index, MAX_VALIDATORS_PER_WITHDRAWALS_SWEEP)
          \in DOMAIN s.validators
    BY <1>1, <2>1, Around
  <2> QED
    BY <1>3, <2>2 DEF NextSweepStart
<1> QED
  BY <1>2, <1>3

WithdrawalFields ==
  {"balances", "supply", "pending_partial_withdrawals", "next_withdrawal_validator_index"}

(* process_withdrawals: the money that leaves the balances leaves the      *)
(* supply.                                                                 *)
LEMMA WithdrawalsEvolve ==
  ASSUME NEW s, Sound(s)
  PROVE  LET t == process_withdrawals(s)
         IN /\ Evolved(s, t, WithdrawalFields) /\ Surplus(t) = Surplus(s)
            /\ \A i \in DOMAIN s.validators :
                 s.validators[i].exit_epoch = FAR_FUTURE_EPOCH =>
                   t.balances[i] >= Least(s.balances[i], MIN_ACTIVATION_BALANCE)
<1> DEFINE W == get_expected_withdrawals(s)
           p == PartialWithdrawals(s).processed
           a == FoldLeft(Paid, s, W)
           money == a.supply - Total(Amounts(W))
           b == [a EXCEPT !.supply = money]
           rest == SubSeq(s.pending_partial_withdrawals, p + 1,
                          Len(s.pending_partial_withdrawals))
           c == [b EXCEPT !.pending_partial_withdrawals = rest]
           next == NextSweepStart(s, W)
           t == [c EXCEPT !.next_withdrawal_validator_index = next]
           r == process_withdrawals(s)
<1>1. WithinBalances(s, W)
  BY ExpectedWithin
<1>2. p \in 0..Len(s.pending_partial_withdrawals)
  BY PartialsWithin DEF PartialLoop
<1>3. r = [a EXCEPT
             !.supply = money,
             !.pending_partial_withdrawals =
                SubSeq(a.pending_partial_withdrawals, p + 1,
                       Len(a.pending_partial_withdrawals)),
             !.next_withdrawal_validator_index = next]
  BY DEF process_withdrawals
<1> HIDE DEF W, p, r
<1>4. /\ SameBut(s, a, {"balances"}) /\ Len(a.balances) = Len(s.balances)
      /\ \A i \in DOMAIN s.balances : a.balances[i] = s.balances[i] - total_withdrawn(W, i)
      /\ Total(a.balances) = Total(s.balances) - Total(Amounts(W))
      /\ Total(Amounts(W)) \in Int
  BY <1>1, PaidExactly
<1> HIDE DEF a
<1>5. /\ s \in BeaconState /\ s.slot <= MaxSlot
      /\ s.next_withdrawal_validator_index \in DOMAIN s.validators
  BY SoundWhole
<1>6. /\ a \in BeaconState /\ a.supply = s.supply /\ a.supply \in Int
      /\ a.pending_deposits = s.pending_deposits
      /\ a.pending_partial_withdrawals = s.pending_partial_withdrawals
      /\ a.validators = s.validators
      /\ a.next_withdrawal_validator_index = s.next_withdrawal_validator_index
      /\ a.slot = s.slot
  BY <1>4, Agreement, FieldTypes DEF SameBut
<1>7. Evolved(s, a, {"balances"})
  BY <1>4, <1>5, <1>6, SoundOutside
<1>8. money \in Int
  BY <1>4, <1>6
<1> HIDE DEF money
<1>9. SameBut(a, b, {"supply"}) /\ b.supply = money
  BY <1>6, <1>8, FieldSet
<1>10. r = [b EXCEPT !.pending_partial_withdrawals = rest,
                     !.next_withdrawal_validator_index = next]
  <2> HIDE DEF money, next
  <2> QED
    BY <1>3, <1>6
<1> HIDE DEF b
<1>11. /\ b.validators = a.validators /\ b.slot = a.slot /\ b.balances = a.balances
       /\ b.pending_deposits = a.pending_deposits
       /\ b.next_withdrawal_validator_index = a.next_withdrawal_validator_index
  BY <1>9, Agreement
<1>12. Evolved(a, b, {"supply"})
  BY <1>5, <1>6, <1>7, <1>9, <1>11, SoundOutside DEF Evolved
<1>13. Sound(b)
  BY <1>12 DEF Evolved
<1>14. rest \in Seq(PendingPartialWithdrawal)
       /\ \A k \in DOMAIN rest : rest[k].validator_index \in DOMAIN b.validators
  <2> DEFINE q == s.pending_partial_withdrawals
  <2>1. q \in Seq(PendingPartialWithdrawal)
    BY <1>5, FieldTypes
  <2>2. \A k \in DOMAIN q : q[k].validator_index \in DOMAIN s.validators
    BY SoundWhole
  <2> HIDE DEF q
  <2>3. LET u == SubSeq(q, p + 1, Len(q))
        IN /\ u \in Seq(PendingPartialWithdrawal)
           /\ \A k \in DOMAIN u : p + k \in DOMAIN q /\ u[k] = q[p + k]
    BY <1>2, <2>1, Rest DEF q
  <2>4. rest = SubSeq(q, p + 1, Len(q))
    BY DEF q
  <2> HIDE DEF rest
  <2>5. \A k \in DOMAIN rest : p + k \in DOMAIN q /\ rest[k] = q[p + k]
    BY <2>3, <2>4
  <2> QED
    BY <1>6, <1>11, <2>2, <2>3, <2>4, <2>5
<1> HIDE DEF rest
<1>15. Evolved(b, c, {"pending_partial_withdrawals"}) /\ Surplus(c) = Surplus(b)
  BY <1>13, <1>14, PartialsSet
<1>16. r = t
  BY <1>10
<1> HIDE DEF c
<1>17. next \in DOMAIN s.validators
  BY <1>1, SweepGoesOn
<1>18. /\ c.validators = s.validators /\ c.slot = s.slot /\ Sound(c) /\ c \in BeaconState
  BY <1>6, <1>11, <1>15, Agreement DEF Evolved, Sound
<1>19. next \in Nat
  <2>1. s.validators \in Seq(Validator)
    BY <1>5, FieldTypes
  <2> HIDE DEF next
  <2> QED
    BY <1>17, <2>1
<1> HIDE DEF next
<1>20. SameBut(c, t, {"next_withdrawal_validator_index"})
       /\ t.next_withdrawal_validator_index = next
  BY <1>18, <1>19, FieldSet
<1> HIDE DEF t
<1>21. /\ t.validators = c.validators /\ t.slot = c.slot /\ t.balances = c.balances
  BY <1>20, Agreement
<1>22. Evolved(c, t, {"next_withdrawal_validator_index"})
  BY <1>5, <1>17, <1>18, <1>20, <1>21, SoundOutside
<1>23. Evolved(s, t, WithdrawalFields)
  <2>1. /\ {"balances"} \subseteq WithdrawalFields
        /\ {"supply"} \subseteq WithdrawalFields
        /\ {"pending_partial_withdrawals"} \subseteq WithdrawalFields
        /\ {"next_withdrawal_validator_index"} \subseteq WithdrawalFields
    BY DEF WithdrawalFields
  <2> DEFINE F == WithdrawalFields
  <2>2. Evolved(s, a, F) /\ Evolved(a, b, F) /\ Evolved(b, c, F) /\ Evolved(c, t, F)
    BY <1>7, <1>12, <1>15, <1>22, <2>1, EvolvedWithin
  <2> HIDE DEF F
  <2>3. F \cup F = F
    OBVIOUS
  <2>4. Evolved(s, b, F)
    BY <2>2, <2>3, EvolvedTransitive
  <2>5. Evolved(s, c, F)
    BY <2>2, <2>3, <2>4, EvolvedTransitive
  <2>6. Evolved(s, t, F)
    BY <2>2, <2>3, <2>5, EvolvedTransitive
  <2> QED
    BY <2>6 DEF F
<1>24. Surplus(t) = Surplus(s)
  <2>1. Surplus(t) = Surplus(c)
    BY <1>20, SurplusSame
  <2>2. Surplus(b) = Surplus(s)
    <3>1. Total(s.balances) \in Int /\ Total(Amounts(s.pending_deposits)) \in Int
          /\ s.supply \in Int
      BY <1>5, SurplusType
    <3>2. money = s.supply - Total(Amounts(W))
      BY <1>6 DEF money
    <3> QED
      BY <1>4, <1>6, <1>9, <1>11, <3>1, <3>2 DEF Surplus
  <2> QED
    BY <1>15, <2>1, <2>2
<1>25. ASSUME NEW i \in DOMAIN s.validators, s.validators[i].exit_epoch = FAR_FUTURE_EPOCH
       PROVE  t.balances[i] >= Least(s.balances[i], MIN_ACTIVATION_BALANCE)
  <2>1. s.balances[i] - total_withdrawn(W, i) >= Least(s.balances[i], MIN_ACTIVATION_BALANCE)
    BY <1>1, <1>25 DEF WithinBalances
  <2>2. c.balances = b.balances
    BY <1>15, Agreement DEF Evolved
  <2>3. t.balances[i] = a.balances[i]
    BY <1>11, <1>21, <2>2
  <2>4. a.balances[i] = s.balances[i] - total_withdrawn(W, i)
    BY <1>4, SameIndices
  <2> QED
    BY <2>1, <2>3, <2>4
<1> QED
  BY <1>16, <1>23, <1>24, <1>25 DEF r

-----------------------------------------------------------------------------
(* Operations. *)

(* An operation after which all is as sound as before, and that moves the  *)
(* queue of consolidations by at most the largest effective balance.       *)
Proper(s, t) ==
  /\ Sound(t) /\ Surplus(t) = Surplus(s) /\ t.slot = s.slot
  /\ Carry(s) => Carry(t)
  /\ Moving(s, get_current_epoch(s)) => Moving(t, get_current_epoch(t))
  /\ \A bound \in Nat :
       /\ LastFloor <= bound
       /\ s.earliest_consolidation_epoch <= bound
       => t.earliest_consolidation_epoch <= bound + MAX_EFFECTIVE_BALANCE_ELECTRA

(* A deposit more at the end of the queue.                                 *)
LEMMA CarryAppended ==
  ASSUME NEW s \in BeaconState, Carry(s), NEW t, NEW d,
         t.deposit_balance_to_consume = s.deposit_balance_to_consume,
         t.pending_deposits = Append(s.pending_deposits, d)
  PROVE  Carry(t)
<1> DEFINE q == s.pending_deposits
           r == Append(q, d)
<1>1. q \in Seq(PendingDeposit)
  BY FieldTypes
<1>2. q # <<>> => r # <<>> /\ Head(r) = Head(q)
  <2> HIDE DEF q
  <2> SUFFICES ASSUME q # <<>> PROVE r # <<>> /\ Head(r) = Head(q)
    OBVIOUS
  <2>1. Len(q) \in Nat /\ Len(q) > 0 /\ Head(q) = q[1]
    BY <1>1
  <2>2. r[1] = q[1] /\ Len(r) = Len(q) + 1
    BY <1>1, <2>1
  <2>3. r # <<>> /\ Head(r) = r[1]
    BY <1>1, <2>1, <2>2
  <2> QED
    BY <2>1, <2>2, <2>3
<1> QED
  BY <1>2 DEF Carry

(* An operation that leaves the queue of consolidations alone, and that of *)
(* deposits too or adds one.                                               *)
LEMMA ProperOutside ==
  ASSUME NEW s, Sound(s), NEW t, NEW F, Evolved(s, t, F), Surplus(t) = Surplus(s),
         F \cap {"slot", "deposit_balance_to_consume", "pending_consolidations",
                 "earliest_consolidation_epoch"} = {},
         \/ "pending_deposits" \notin F
         \/ \E d : t.pending_deposits = Append(s.pending_deposits, d)
  PROVE  Proper(s, t)
<1>1. SameBut(s, t, F) /\ Sound(t)
  BY DEF Evolved
<1>2. /\ t.slot = s.slot /\ t.deposit_balance_to_consume = s.deposit_balance_to_consume
      /\ t.earliest_consolidation_epoch = s.earliest_consolidation_epoch
      /\ "pending_deposits" \notin F => t.pending_deposits = s.pending_deposits
  BY <1>1, Agreement
<1>3. s \in BeaconState
  BY DEF Sound
<1>4. Carry(s) => Carry(t)
  BY <1>2, <1>3, CarryAppended DEF Carry
<1>5. get_current_epoch(t) = get_current_epoch(s)
  BY <1>2 DEF get_current_epoch
<1>6. Moving(s, get_current_epoch(s)) => Moving(t, get_current_epoch(t))
  BY <1>5, MovingKept
<1>7. ASSUME NEW bound \in Nat, s.earliest_consolidation_epoch <= bound
      PROVE  t.earliest_consolidation_epoch <= bound + MAX_EFFECTIVE_BALANCE_ELECTRA
  <2>1. s.earliest_consolidation_epoch \in Nat /\ MAX_EFFECTIVE_BALANCE_ELECTRA \in Nat
    BY <1>3, FieldTypes, RegistryConstants
  <2> QED
    BY <1>2, <1>7, <2>1
<1> QED
  BY <1>1, <1>2, <1>4, <1>6, <1>7 DEF Proper

(* An operation without effect.                                            *)
LEMMA ProperItself ==
  ASSUME NEW s, Sound(s) PROVE Proper(s, s)
<1>1. Evolved(s, s, {})
  BY EvolvedItself
<1> QED
  BY <1>1, ProperOutside

(* Slashings.                                                              *)
LEMMA SlashingProper ==
  ASSUME NEW s, Sound(s),
         NEW i \in DOMAIN s.validators, NEW proposer \in DOMAIN s.validators,
         s.validators[i].activation_epoch <= get_current_epoch(s)
  PROVE  Proper(s, slash_validator(s, i, proposer))
<1> DEFINE t == slash_validator(s, i, proposer)
           F == ExitFields \cup {"validators", "slashings", "balances", "supply"}
<1>1. Evolved(s, t, F) /\ Surplus(t) = Surplus(s)
  BY SlashingEvolves
<1>2. F \cap {"slot", "deposit_balance_to_consume", "pending_consolidations",
              "earliest_consolidation_epoch"} = {} /\ "pending_deposits" \notin F
  BY DEF ExitFields
<1> HIDE DEF t, F
<1> QED
  BY <1>1, <1>2, ProperOutside DEF t

(* Voluntary exits, and requests for a full withdrawal.                    *)
LEMMA ExitProper ==
  ASSUME NEW s, Sound(s), NEW i \in DOMAIN s.validators,
         s.validators[i].activation_epoch <= get_current_epoch(s)
  PROVE  Proper(s, initiate_validator_exit(s, i))
<1> DEFINE t == initiate_validator_exit(s, i)
           F == ExitFields \cup {"validators"}
<1>1. Evolved(s, t, F) /\ Surplus(t) = Surplus(s)
  BY ExitEvolves
<1>2. F \cap {"slot", "deposit_balance_to_consume", "pending_consolidations",
              "earliest_consolidation_epoch"} = {} /\ "pending_deposits" \notin F
  BY DEF ExitFields
<1> HIDE DEF t, F
<1> QED
  BY <1>1, <1>2, ProperOutside DEF t

(* A deposit of the bridge. *)
LEMMA DepositProper ==
  ASSUME NEW s, Sound(s), s.eth1_deposit_index < Len(Eth1Deposits)
  PROVE  Proper(s, process_deposit(s))
<1> DEFINE x == s.eth1_deposit_index + 1
           a == [s EXCEPT !.eth1_deposit_index = x]
           deposit == Eth1Deposits[x]
           b == add_validator_to_registry(a, deposit, 0)
           F == {"eth1_deposit_index", "validators", "balances", "pending_deposits", "supply"}
<1>1. x \in Nat /\ deposit \in DepositData
  <2>1. s.eth1_deposit_index \in Nat /\ Eth1Deposits \in Seq(DepositData)
    BY FieldTypes, InputsAssumption DEF Sound
  <2>2. x \in 1..Len(Eth1Deposits)
    BY <2>1
  <2> QED
    BY <2>1, <2>2
<1>2. Evolved(s, a, {"eth1_deposit_index"}) /\ Surplus(a) = Surplus(s)
  <2> HIDE DEF x
  <2> QED
    BY <1>1, FieldEvolves
<1>3. process_deposit(s) = apply_deposit(a, deposit)
  BY DEF process_deposit
<1> HIDE DEF a, deposit
<1>4. Sound(a) /\ a.pending_deposits = s.pending_deposits
  BY <1>2, Agreement DEF Evolved
<1>5. F \cap {"slot", "deposit_balance_to_consume", "pending_consolidations",
              "earliest_consolidation_epoch"} = {}
  OBVIOUS
<1>6. \A G \in {{"eth1_deposit_index"}, {"validators", "balances"},
                {"pending_deposits", "supply"}} : G \subseteq F
  OBVIOUS
<1>7. Evolved(s, a, F)
  BY <1>2, <1>6, EvolvedWithin
<1> HIDE DEF F
<1>8. F \cup F = F
  OBVIOUS
<1>9. GENESIS_SLOT \in Nat
  BY DEF GENESIS_SLOT
<1>10. CASE process_deposit(s) = s
  BY <1>10, ProperItself
<1>11. CASE process_deposit(s) = a
  BY <1>2, <1>4, <1>5, <1>7, <1>11, ProperItself, ProperOutside
<1>12. CASE process_deposit(s) = AppendDeposit(a, deposit, GENESIS_SLOT)
  <2> DEFINE t == AppendDeposit(a, deposit, GENESIS_SLOT)
  <2>1. /\ Evolved(a, t, {"pending_deposits", "supply"}) /\ Surplus(t) = Surplus(a)
        /\ t.pending_deposits = Append(a.pending_deposits, Pending(deposit, GENESIS_SLOT))
    BY <1>1, <1>4, <1>9, DepositQueued
  <2> HIDE DEF t
  <2>2. Evolved(a, t, F)
    BY <1>6, <2>1, EvolvedWithin
  <2>3. Evolved(s, t, F)
    BY <1>7, <1>8, <2>2, EvolvedTransitive
  <2>4. Proper(s, t)
    BY <1>2, <1>4, <1>5, <2>1, <2>3, ProperOutside
  <2> QED
    BY <1>12, <2>4 DEF t
<1>13. CASE process_deposit(s) = AppendDeposit(b, deposit, GENESIS_SLOT)
  <2> DEFINE t == AppendDeposit(b, deposit, GENESIS_SLOT)
  <2>1. deposit.pubkey \in Pubkeys /\ deposit.withdrawal_credentials \in Credentials
    BY <1>1 DEF DepositData
  <2>2. Evolved(a, b, {"validators", "balances"}) /\ Surplus(b) = Surplus(a) + 0
    BY <1>4, <2>1, RegistryGrows
  <2> HIDE DEF b
  <2>3. Sound(b) /\ b.pending_deposits = a.pending_deposits
    BY <2>2, Agreement DEF Evolved
  <2>4. /\ Evolved(b, t, {"pending_deposits", "supply"}) /\ Surplus(t) = Surplus(b)
        /\ t.pending_deposits = Append(b.pending_deposits, Pending(deposit, GENESIS_SLOT))
    BY <1>1, <1>9, <2>3, DepositQueued
  <2> HIDE DEF t
  <2>5. Evolved(a, b, F) /\ Evolved(b, t, F)
    BY <1>6, <2>2, <2>4, EvolvedWithin
  <2>6. Evolved(s, b, F)
    BY <1>7, <1>8, <2>5, EvolvedTransitive
  <2>7. Evolved(s, t, F)
    BY <1>8, <2>5, <2>6, EvolvedTransitive
  <2>8. Surplus(t) = Surplus(s)
    <3>1. Surplus(a) \in Int
      BY <1>4, SurplusType DEF Sound
    <3> QED
      BY <1>2, <2>2, <2>4, <3>1
  <2>9. Proper(s, t)
    BY <1>4, <1>5, <2>3, <2>4, <2>7, <2>8, ProperOutside
  <2> QED
    BY <1>13, <2>9 DEF t
<1> QED
  BY <1>3, <1>11, <1>12, <1>13 DEF apply_deposit

(* The first request sets deposit_requests_start_index. *)
LEMMA DepositRequestProper ==
  ASSUME NEW s, Sound(s), NEW request \in DepositRequests
  PROVE  Proper(s, process_deposit_request(s, request))
<1> DEFINE x == IF s.deposit_requests_start_index = UNSET_DEPOSIT_REQUESTS_START_INDEX
                THEN Len(Eth1Deposits) ELSE s.deposit_requests_start_index
           a == [s EXCEPT !.deposit_requests_start_index = x]
           t == AppendDeposit(a, request, s.slot)
           F == {"deposit_requests_start_index", "pending_deposits", "supply"}
<1>1. process_deposit_request(s, request) = t
  BY DEF process_deposit_request
<1>2. x \in Nat /\ request \in DepositData /\ s.slot \in Nat
  <2>1. /\ s.deposit_requests_start_index \in Nat /\ s.slot \in Nat
        /\ Eth1Deposits \in Seq(DepositData) /\ DepositRequests \subseteq DepositData
    BY FieldTypes, InputsAssumption DEF Sound
  <2> QED
    BY <2>1
<1> HIDE DEF x
<1>3. Evolved(s, a, {"deposit_requests_start_index"}) /\ Surplus(a) = Surplus(s)
  BY <1>2, FieldEvolves
<1> HIDE DEF a
<1>4. Sound(a) /\ a.pending_deposits = s.pending_deposits
  BY <1>3, Agreement DEF Evolved
<1>5. /\ Evolved(a, t, {"pending_deposits", "supply"}) /\ Surplus(t) = Surplus(a)
      /\ t.pending_deposits = Append(a.pending_deposits, Pending(request, s.slot))
  BY <1>2, <1>4, DepositQueued
<1> HIDE DEF t
<1>6. /\ {"deposit_requests_start_index"} \subseteq F /\ {"pending_deposits", "supply"} \subseteq F
      /\ F \cap {"slot", "deposit_balance_to_consume", "pending_consolidations",
                 "earliest_consolidation_epoch"} = {}
  OBVIOUS
<1> HIDE DEF F
<1>7. Evolved(s, a, F) /\ Evolved(a, t, F)
  BY <1>3, <1>5, <1>6, EvolvedWithin
<1>8. F \cup F = F
  OBVIOUS
<1>9. Evolved(s, t, F)
  BY <1>7, <1>8, EvolvedTransitive
<1>10. Proper(s, t)
  BY <1>3, <1>4, <1>5, <1>6, <1>9, ProperOutside
<1> QED
  BY <1>1, <1>10

(* get_pending_balance_to_withdraw is a natural number.                    *)
LEMMA PendingToWithdraw ==
  ASSUME NEW s \in BeaconState, NEW index
  PROVE  get_pending_balance_to_withdraw(s, index) \in Nat
<1> DEFINE q == s.pending_partial_withdrawals
           a == [k \in DOMAIN q |->
                   IF q[k].validator_index = index THEN q[k].amount ELSE 0]
<1>1. q \in Seq(PendingPartialWithdrawal)
  BY FieldTypes
<1>2. DOMAIN q = 1..Len(q) /\ Len(q) \in Nat
      /\ \A k \in 1..Len(q) : q[k] \in PendingPartialWithdrawal
  BY <1>1
<1>3. \A x \in PendingPartialWithdrawal : x.amount \in Nat
  BY DEF PendingPartialWithdrawal
<1>4. a \in [1..Len(q) -> Nat]
  BY <1>2, <1>3
<1>5. a \in Seq(Nat)
  BY <1>2, <1>4
<1>6. get_pending_balance_to_withdraw(s, index) = Total(a)
  BY DEF get_pending_balance_to_withdraw
<1> QED
  BY <1>5, <1>6, TotalType

(* A request for a partial withdrawal takes churn for what it will pay.    *)
LEMMA PartialWithdrawalProper ==
  ASSUME NEW s, Sound(s), NEW i \in DOMAIN s.validators, NEW amount \in Nat \ {0}
  PROVE  Proper(s, PartialWithdrawalQueued(s, i, amount))
<1> DEFINE excess == s.balances[i] - MIN_ACTIVATION_BALANCE
                       - get_pending_balance_to_withdraw(s, i)
           x == Least(excess, amount)
           t == compute_exit_epoch_and_update_churn(s, x)
           pending == [validator_index |-> i, amount |-> x,
                       withdrawable_epoch |-> t.earliest_exit_epoch
                                                + MIN_VALIDATOR_WITHDRAWABILITY_DELAY]
           q == Append(t.pending_partial_withdrawals, pending)
           u == [t EXCEPT !.pending_partial_withdrawals = q]
           r == PartialWithdrawalQueued(s, i, amount)
           F == ExitFields \cup {"pending_partial_withdrawals"}
<1>1. r = s \/ (excess > 0 /\ r = u)
  BY DEF PartialWithdrawalQueued
<1> HIDE DEF r
<1>2. CASE r = s
  BY <1>2, ProperItself DEF r
<1>3. CASE excess > 0 /\ r = u
  <2>1. excess \in Int
    <3>1. s.balances[i] \in Nat /\ MIN_ACTIVATION_BALANCE \in Nat
      BY SameIndices, BalanceSet, RegistryConstants DEF Sound
    <3>2. get_pending_balance_to_withdraw(s, i) \in Nat
      BY PendingToWithdraw DEF Sound
    <3> QED
      BY <3>1, <3>2
  <2> HIDE DEF excess
  <2>2. x \in Nat \ {0}
    BY <1>3, <2>1 DEF Least
  <2> HIDE DEF x
  <2>3. Evolved(s, t, ExitFields) /\ Surplus(t) = Surplus(s)
    BY <2>2, ExitQueueEvolves
  <2>4. /\ Sound(t) /\ t \in BeaconState
        /\ t.validators = s.validators
        /\ t.pending_partial_withdrawals = s.pending_partial_withdrawals
    BY <2>3, Agreement DEF Evolved, Sound, ExitFields
  <2> HIDE DEF t
  <2>5. pending \in PendingPartialWithdrawal /\ pending.validator_index = i
    <3>1. i \in Nat
      <4>1. s.validators \in Seq(Validator)
        BY FieldTypes DEF Sound
      <4> QED
        BY <4>1
    <3>2. t.earliest_exit_epoch + MIN_VALIDATOR_WITHDRAWABILITY_DELAY \in Nat
      BY <2>4, FieldTypes, RegistryConstants
    <3> QED
      BY <2>2, <3>1, <3>2 DEF PendingPartialWithdrawal
  <2> HIDE DEF pending
  <2>6. /\ q \in Seq(PendingPartialWithdrawal)
        /\ \A k \in DOMAIN q : q[k].validator_index \in DOMAIN t.validators
    <3> DEFINE p == t.pending_partial_withdrawals
    <3>1. p \in Seq(PendingPartialWithdrawal)
      BY <2>4, FieldTypes
    <3>2. \A k \in DOMAIN p : p[k].validator_index \in DOMAIN t.validators
      BY <2>4, SoundWhole
    <3> HIDE DEF p
    <3>3. \A k \in DOMAIN Append(p, pending) :
            (k \in DOMAIN p /\ Append(p, pending)[k] = p[k]) \/ Append(p, pending)[k] = pending
      BY <2>5, <3>1
    <3>4. Append(p, pending) \in Seq(PendingPartialWithdrawal)
      BY <2>5, <3>1
    <3>5. q = Append(p, pending)
      BY DEF p
    <3> QED
      BY <2>4, <2>5, <3>2, <3>3, <3>4, <3>5
  <2> HIDE DEF q
  <2>7. Evolved(t, u, {"pending_partial_withdrawals"}) /\ Surplus(u) = Surplus(t)
    BY <2>4, <2>6, PartialsSet
  <2> HIDE DEF u
  <2>8. Evolved(s, u, F)
    BY <2>3, <2>7, EvolvedTransitive
  <2>9. F \cap {"slot", "deposit_balance_to_consume", "pending_consolidations",
                "earliest_consolidation_epoch"} = {} /\ "pending_deposits" \notin F
    BY DEF ExitFields
  <2> HIDE DEF F
  <2>10. Proper(s, u)
    BY <2>3, <2>7, <2>8, <2>9, ProperOutside
  <2> QED
    BY <1>3, <2>10 DEF r
<1> QED
  BY <1>1, <1>2, <1>3

(* A key in the registry is some validator's.                              *)
LEMMA SomeWithPubkey ==
  ASSUME NEW s, NEW pubkey, WithPubkey(s, pubkey) # {}
  PROVE  LET i == CHOOSE i \in WithPubkey(s, pubkey) : TRUE
         IN i \in WithPubkey(s, pubkey) /\ i \in DOMAIN s.validators
BY DEF WithPubkey

(* process_withdrawal_request, with every early return.                    *)
LEMMA WithdrawalRequestProper ==
  ASSUME NEW s, Sound(s), NEW request \in WithdrawalRequests
  PROVE  Proper(s, process_withdrawal_request(s, request))
<1> DEFINE i == CHOOSE i \in WithPubkey(s, request.validator_pubkey) : TRUE
           t == process_withdrawal_request(s, request)
<1>1. request.amount \in Nat
  BY InputsAssumption
<1>2. FULL_EXIT_REQUEST_AMOUNT = 0
  BY DEF FULL_EXIT_REQUEST_AMOUNT
<1>3. \/ t = s
      \/ /\ WithPubkey(s, request.validator_pubkey) # {} /\ Settled(s, s.validators[i])
         /\ \/ request.amount # 0 /\ t = PartialWithdrawalQueued(s, i, request.amount)
            \/ t = initiate_validator_exit(s, i)
  BY <1>2 DEF process_withdrawal_request
<1>4. WithPubkey(s, request.validator_pubkey) # {} => i \in DOMAIN s.validators
  BY SomeWithPubkey
<1> HIDE DEF i, t
<1>5. Settled(s, s.validators[i]) => s.validators[i].activation_epoch <= get_current_epoch(s)
  BY DEF Settled, is_active_validator
<1>6. CASE t = s
  BY <1>6, ProperItself DEF t
<1>7. CASE /\ i \in DOMAIN s.validators /\ request.amount # 0
           /\ t = PartialWithdrawalQueued(s, i, request.amount)
  <2>1. request.amount \in Nat \ {0}
    BY <1>1, <1>7
  <2> QED
    BY <1>7, <2>1, PartialWithdrawalProper DEF t
<1>8. CASE /\ i \in DOMAIN s.validators /\ Settled(s, s.validators[i])
           /\ t = initiate_validator_exit(s, i)
  BY <1>5, <1>8, ExitProper DEF t
<1> QED
  BY <1>3, <1>4, <1>6, <1>7, <1>8

(* However little a queue gives an epoch, it moves at most one epoch for   *)
(* each unit of balance.                                                   *)
LEMMA SpreadAtMost ==
  ASSUME NEW epoch \in Nat, NEW left \in Nat, NEW limit \in Nat, limit > 0,
         NEW balance \in Nat
  PROVE  LET taken == Spread(epoch, left, limit, balance)
         IN /\ taken.epoch \in Nat /\ taken.left \in Nat
            /\ taken.epoch >= epoch /\ taken.epoch <= epoch + balance
<1> DEFINE taken == Spread(epoch, left, limit, balance)
           k == taken.epoch - epoch
           p == k * limit
<1>1. /\ taken.epoch \in Nat /\ taken.left \in Nat /\ k \in Nat
      /\ taken.left + balance = left + p
      /\ taken.left <= left \/ taken.left < limit
  BY SpreadIsExact
<1> HIDE DEF taken
<1>2. taken.epoch = epoch + k
  BY <1>1
<1>3. k <= balance
  <2>1. p \in Nat /\ p >= k
    <3> HIDE DEF k
    <3>1. k * limit \in Nat
      BY <1>1, Products
    <3>2. k * limit >= k
      BY <1>1, Products
    <3> QED
      BY <3>1, <3>2
  <2>2. CASE taken.left <= left
    <3> HIDE DEF p, k
    <3> QED
      BY <1>1, <2>1, <2>2
  <2>3. CASE taken.left < limit
    <3>1. CASE k = 0
      BY <3>1
    <3>2. CASE k > 0
      <4> DEFINE j == k - 1
      <4>1. j \in Nat /\ k = j + 1
        <5> HIDE DEF k
        <5> QED
          BY <1>1, <3>2
      <4> HIDE DEF j, k
      <4>2. p = j * limit + 1 * limit
        BY <4>1, Products
      <4>3. j * limit \in Nat /\ j * limit >= j
        BY <4>1, Products
      <4> DEFINE m == j * limit
      <4>4. m \in Nat /\ m >= j /\ p = m + limit
        BY <4>2, <4>3
      <4> HIDE DEF m, p
      <4> QED
        BY <1>1, <2>3, <4>1, <4>4
    <3> QED
      BY <1>1, <3>1, <3>2
  <2> QED
    BY <1>1, <2>2, <2>3
<1> HIDE DEF k
<1> QED
  BY <1>1, <1>2, <1>3 DEF taken

(* The same of an exit from the queue of consolidations.                   *)
LEMMA TakenAtMost ==
  ASSUME NEW earliest \in Nat, NEW left \in Nat, NEW limit \in Nat, limit > 0,
         NEW floor \in Nat, NEW balance \in Nat
  PROVE  LET taken == ChurnTaken(earliest, left, limit, floor, balance)
         IN /\ taken.epoch \in Nat /\ taken.left \in Nat
            /\ taken.epoch >= earliest /\ taken.epoch >= floor
            /\ \A bound \in Nat : earliest <= bound /\ floor <= bound
                 => taken.epoch <= bound + balance
<1> DEFINE taken == ChurnTaken(earliest, left, limit, floor, balance)
<1>1. CASE earliest < floor
  <2>1. taken = Spread(floor, limit, limit, balance)
    BY <1>1 DEF ChurnTaken
  <2> HIDE DEF taken
  <2>2. /\ taken.epoch \in Nat /\ taken.left \in Nat
        /\ taken.epoch >= floor /\ taken.epoch <= floor + balance
    BY <2>1, SpreadAtMost
  <2> QED
    BY <1>1, <2>2 DEF taken
<1>2. CASE ~(earliest < floor)
  <2>1. taken = Spread(earliest, left, limit, balance)
    BY <1>2 DEF ChurnTaken
  <2> HIDE DEF taken
  <2>2. /\ taken.epoch \in Nat /\ taken.left \in Nat
        /\ taken.epoch >= earliest /\ taken.epoch <= earliest + balance
    BY <2>1, SpreadAtMost
  <2> QED
    BY <1>2, <2>2 DEF taken
<1> QED
  BY <1>1, <1>2

(* The limit of consolidations is a number.                                *)
LEMMA ConsolidationLimit ==
  ASSUME NEW s \in BeaconState
  PROVE  get_consolidation_churn_limit(s) \in Int
<1>1. get_total_active_balance(s) \in Nat
  BY ActiveBalance
<1>2. get_activation_exit_churn_limit(s) \in Int
  BY <1>1, LimitInRange, BoundsAssumption
<1> DEFINE a == get_total_active_balance(s) \div CHURN_LIMIT_QUOTIENT
           churn == Greatest(MIN_PER_EPOCH_CHURN_LIMIT_ELECTRA, a)
<1>3. CHURN_LIMIT_QUOTIENT \in Nat /\ CHURN_LIMIT_QUOTIENT > 0
      /\ EFFECTIVE_BALANCE_INCREMENT \in Nat /\ EFFECTIVE_BALANCE_INCREMENT > 0
      /\ MIN_PER_EPOCH_CHURN_LIMIT_ELECTRA \in Nat
  BY RegistryConstants, BoundsAssumption
<1>4. a \in Nat
  BY <1>1, <1>3, Division
<1> HIDE DEF a
<1>5. churn \in Nat
  BY <1>3, <1>4 DEF Greatest
<1>6. get_balance_churn_limit(s) = churn - (churn % EFFECTIVE_BALANCE_INCREMENT)
  BY DEF get_balance_churn_limit, a
<1> HIDE DEF churn
<1>7. churn % EFFECTIVE_BALANCE_INCREMENT \in Int
  BY <1>3, <1>5, SMTT(30)
<1> QED
  BY <1>2, <1>5, <1>6, <1>7 DEF get_consolidation_churn_limit

(* A consolidation joins the queue behind those before it.                 *)
LEMMA ConsolidatedProper ==
  ASSUME NEW s, Sound(s), get_consolidation_churn_limit(s) > MIN_ACTIVATION_BALANCE,
         NEW source \in DOMAIN s.validators, NEW target \in DOMAIN s.validators,
         s.validators[source].activation_epoch <= get_current_epoch(s),
         s.validators[source].exit_epoch = FAR_FUTURE_EPOCH,
         NEW b \in Nat, LastFloor <= b, s.earliest_consolidation_epoch <= b,
         b + MAX_EFFECTIVE_BALANCE_ELECTRA < FAR_FUTURE_EPOCH
  PROVE  Proper(s, Consolidated(s, source, target))
<1> DEFINE epoch == get_current_epoch(s)
           floor == compute_activation_exit_epoch(epoch)
           limit == get_consolidation_churn_limit(s)
           balance == s.validators[source].effective_balance
           taken == ChurnTaken(s.earliest_consolidation_epoch,
                               s.consolidation_balance_to_consume, limit, floor, balance)
           E == taken.epoch
           left == taken.left
           a == [s EXCEPT !.earliest_consolidation_epoch = E]
           t == [a EXCEPT !.consolidation_balance_to_consume = left]
           u == Exiting(t, source, E)
           c == [source_index |-> source, target_index |-> target]
           q == s.pending_consolidations
           r == Append(q, c)
           z == [u EXCEPT !.pending_consolidations = r]
<1>1. /\ s \in BeaconState /\ s.slot <= MaxSlot
      /\ s.next_withdrawal_validator_index \in DOMAIN s.validators
      /\ \A k \in DOMAIN q : /\ q[k].source_index \in DOMAIN s.validators
                             /\ q[k].target_index \in DOMAIN s.validators
  BY SoundWhole
<1>2. /\ q \in Seq(PendingConsolidation) /\ s.validators \in Seq(Validator)
      /\ s.earliest_consolidation_epoch \in Nat /\ s.consolidation_balance_to_consume \in Nat
  BY <1>1, FieldTypes
<1>3. /\ epoch \in Nat /\ floor \in Nat /\ epoch < floor /\ floor <= LastFloor
      /\ LastFloor \in Nat /\ FAR_FUTURE_EPOCH \in Nat
  BY <1>1, EpochBounds
<1>4. limit \in Nat /\ limit > 0
  <2>1. limit \in Int /\ MIN_ACTIVATION_BALANCE \in Nat
    BY <1>1, ConsolidationLimit, RegistryConstants
  <2> HIDE DEF limit
  <2>2. limit > MIN_ACTIVATION_BALANCE
    BY DEF limit
  <2> QED
    BY <2>1, <2>2
<1>5. balance \in Nat /\ balance <= MAX_EFFECTIVE_BALANCE_ELECTRA
      /\ MAX_EFFECTIVE_BALANCE_ELECTRA \in Nat
  <2>1. s.validators[source] \in Validator /\ InOrder(s.validators[source])
    BY ValidatorAt
  <2>2. balance \in Nat /\ balance <= get_max_effective_balance(s.validators[source])
    BY <2>1 DEF InOrder, Validator
  <2>3. MIN_ACTIVATION_BALANCE \in Nat /\ MAX_EFFECTIVE_BALANCE_ELECTRA \in Nat
        /\ MIN_ACTIVATION_BALANCE <= MAX_EFFECTIVE_BALANCE_ELECTRA
    BY RegistryConstants, BoundsAssumption
  <2> HIDE DEF balance
  <2> QED
    BY <2>2, <2>3 DEF get_max_effective_balance
<1>6. Consolidated(s, source, target)
        = [Exiting([s EXCEPT !.earliest_consolidation_epoch = E,
                             !.consolidation_balance_to_consume = left],
                   source,
                   [s EXCEPT !.earliest_consolidation_epoch = E,
                             !.consolidation_balance_to_consume = left]
                     .earliest_consolidation_epoch)
             EXCEPT !.pending_consolidations = Append(@, c)]
  BY DEF Consolidated, compute_consolidation_epoch_and_update_churn
<1>7. /\ E \in Nat /\ left \in Nat /\ E >= s.earliest_consolidation_epoch /\ E >= floor
      /\ \A bound \in Nat : s.earliest_consolidation_epoch <= bound /\ floor <= bound
           => E <= bound + balance
  <2> HIDE DEF limit, floor, balance
  <2> QED
    BY <1>2, <1>3, <1>4, <1>5, TakenAtMost
<1> HIDE DEF E, left, floor, epoch, limit, balance
<1>8. /\ SameBut(s, a, {"earliest_consolidation_epoch"})
      /\ a.earliest_consolidation_epoch = E
  BY <1>1, <1>7, FieldSet
<1>9. [s EXCEPT !.earliest_consolidation_epoch = E,
                !.consolidation_balance_to_consume = left] = t
  OBVIOUS
<1> HIDE DEF a
<1>10. /\ SameBut(a, t, {"consolidation_balance_to_consume"})
       /\ t.earliest_consolidation_epoch = E
  <2>1. a \in BeaconState
    BY <1>8 DEF SameBut
  <2>2. SameBut(a, t, {"consolidation_balance_to_consume"})
    BY <1>7, <2>1, FieldSet
  <2> QED
    BY <1>8, <2>2, Agreement
<1> HIDE DEF t
<1> DEFINE G == {"earliest_consolidation_epoch"} \cup {"consolidation_balance_to_consume"}
<1>11. SameBut(s, t, G)
  BY <1>8, <1>10, SameButTransitive
<1>12. /\ t.validators = s.validators /\ t.balances = s.balances /\ t.slot = s.slot
       /\ t.next_withdrawal_validator_index = s.next_withdrawal_validator_index
       /\ t.pending_consolidations = q
  BY <1>11, Agreement
<1>13. Evolved(s, t, G) /\ Surplus(t) = Surplus(s)
  BY <1>1, <1>11, <1>12, SoundOutside, SurplusSame
<1>14. Sound(t)
  BY <1>13 DEF Evolved
<1>15. E < FAR_FUTURE_EPOCH
  <2>1. E <= b + balance
    BY <1>3, <1>7
  <2> QED
    BY <1>3, <1>5, <1>7, <2>1
<1>16. s.validators[source].activation_epoch <= E
  <2>1. s.validators[source].activation_epoch \in Nat
    BY ValidatorAt DEF Validator
  <2>2. s.validators[source].activation_epoch <= epoch
    BY DEF epoch
  <2> QED
    BY <1>3, <1>7, <2>1, <2>2
<1>17. /\ Evolved(t, u, {"validators"}) /\ Surplus(u) = Surplus(t)
       /\ \A k \in DOMAIN s.validators : k # source => u.validators[k] = s.validators[k]
       /\ u.validators[source].exit_epoch = E
       /\ u.validators[source].withdrawable_epoch = E + MIN_VALIDATOR_WITHDRAWABILITY_DELAY
       /\ DOMAIN u.validators = DOMAIN s.validators
  BY <1>7, <1>12, <1>14, <1>16, ExitingEvolves
<1> HIDE DEF u
<1>18. /\ Sound(u) /\ u.pending_consolidations = q /\ u.slot = s.slot
       /\ u.earliest_consolidation_epoch = E
  BY <1>10, <1>12, <1>17, Agreement DEF Evolved
<1>19. Consolidated(s, source, target) = z
  BY <1>6, <1>9, <1>10, <1>18 DEF u
<1>20. c \in PendingConsolidation /\ c.source_index = source /\ c.target_index = target
  BY <1>2 DEF PendingConsolidation
<1> HIDE DEF c
<1>21. /\ r \in Seq(PendingConsolidation)
       /\ \A k \in DOMAIN r : (k \in DOMAIN q /\ r[k] = q[k]) \/ (k = Len(q) + 1 /\ r[k] = c)
  <2> HIDE DEF q
  <2>1. r \in Seq(PendingConsolidation) /\ Len(q) \in Nat /\ DOMAIN q = 1..Len(q)
    BY <1>2, <1>20
  <2>2. DOMAIN r = 1..(Len(q) + 1) /\ r[Len(q) + 1] = c
    BY <1>2, <1>20
  <2>3. \A k \in 1..Len(q) : r[k] = q[k]
    BY <1>2, <1>20
  <2> HIDE DEF r
  <2>4. \A k \in 1..(Len(q) + 1) : k \in 1..Len(q) \/ k = Len(q) + 1
    BY <2>1
  <2>5. ASSUME NEW k \in DOMAIN r
        PROVE  (k \in DOMAIN q /\ r[k] = q[k]) \/ (k = Len(q) + 1 /\ r[k] = c)
    <3>1. CASE k \in 1..Len(q)
      BY <2>1, <2>3, <3>1
    <3>2. CASE k = Len(q) + 1
      BY <2>2, <3>2
    <3> QED
      BY <2>2, <2>4, <3>1, <3>2
  <2> QED
    BY <2>1, <2>5
<1> HIDE DEF r
<1>22. \A k \in DOMAIN r : /\ r[k].source_index \in DOMAIN u.validators
                           /\ r[k].target_index \in DOMAIN u.validators
  BY <1>1, <1>17, <1>20, <1>21
<1>23. /\ Evolved(u, z, {"pending_consolidations"}) /\ Surplus(z) = Surplus(u)
       /\ z.pending_consolidations = r
  BY <1>18, <1>21, <1>22, ConsolidationsSet
<1> HIDE DEF z
<1>24. /\ Sound(z) /\ z.slot = s.slot /\ z.validators = u.validators
       /\ z.earliest_consolidation_epoch = E
  BY <1>18, <1>23, Agreement DEF Evolved
<1>25. Surplus(z) = Surplus(s)
  BY <1>13, <1>17, <1>23
<1>26. Carry(s) => Carry(z)
  <2>1. z.pending_deposits = s.pending_deposits
        /\ z.deposit_balance_to_consume = s.deposit_balance_to_consume
    <3>1. z.pending_deposits = u.pending_deposits
          /\ z.deposit_balance_to_consume = u.deposit_balance_to_consume
      BY <1>23, Agreement DEF Evolved
    <3>2. u.pending_deposits = t.pending_deposits
          /\ u.deposit_balance_to_consume = t.deposit_balance_to_consume
      BY <1>17, Agreement DEF Evolved
    <3>3. t.pending_deposits = s.pending_deposits
          /\ t.deposit_balance_to_consume = s.deposit_balance_to_consume
      BY <1>11, Agreement
    <3> QED
      BY <3>1, <3>2, <3>3
  <2> QED
    BY <2>1 DEF Carry
<1>27. get_current_epoch(z) = epoch
  BY <1>24 DEF get_current_epoch, epoch
<1>28. ASSUME Moving(s, epoch) PROVE Moving(z, epoch)
  <2> DEFINE Source(k) == s.validators[q[k].source_index]
             Later(k) == u.validators[r[k].source_index]
             D == MIN_VALIDATOR_WITHDRAWABILITY_DELAY
             n == Len(q) + 1
  <2>1. /\ \A k \in DOMAIN q :
             /\ Source(k).exit_epoch # FAR_FUTURE_EPOCH
             /\ Source(k).slashed \/
                  /\ Source(k).withdrawable_epoch > epoch
                  /\ Source(k).withdrawable_epoch <= s.earliest_consolidation_epoch + D
        /\ \A j, k \in DOMAIN q :
             j < k => Source(j).slashed \/ Source(k).slashed \/
                      Source(j).withdrawable_epoch <= Source(k).withdrawable_epoch
    BY <1>28 DEF Moving
  <2>2. ASSUME NEW k \in DOMAIN q, r[k] = q[k]
        PROVE  Later(k) = Source(k) /\ Source(k).withdrawable_epoch \in Nat
    <3>1. q[k].source_index # source /\ q[k].source_index \in DOMAIN s.validators
      BY <1>1, <2>1
    <3> QED
      BY <1>17, <2>2, <3>1, ValidatorAt DEF Validator
  <2>3. D \in Nat
    BY RegistryConstants
  <2>4. ASSUME NEW k \in DOMAIN r, r[k] = c
        PROVE  Later(k).exit_epoch = E /\ Later(k).withdrawable_epoch = E + D
    BY <1>17, <1>20, <2>4
  <2> HIDE DEF Source, Later, D
  <2>5. ASSUME NEW k \in DOMAIN r
        PROVE  /\ Later(k).exit_epoch # FAR_FUTURE_EPOCH
               /\ Later(k).slashed \/
                    /\ Later(k).withdrawable_epoch > epoch
                    /\ Later(k).withdrawable_epoch <= E + D
    <3>1. CASE k \in DOMAIN q /\ r[k] = q[k]
      <4>1. Later(k) = Source(k) /\ Source(k).withdrawable_epoch \in Nat
        BY <2>2, <3>1
      <4>2. /\ Source(k).exit_epoch # FAR_FUTURE_EPOCH
            /\ Source(k).slashed \/
                 /\ Source(k).withdrawable_epoch > epoch
                 /\ Source(k).withdrawable_epoch <= s.earliest_consolidation_epoch + D
        BY <2>1, <3>1
      <4>3. Source(k).withdrawable_epoch <= s.earliest_consolidation_epoch + D
              => Source(k).withdrawable_epoch <= E + D
        BY <1>2, <1>7, <2>3, <4>1
      <4> QED
        BY <4>1, <4>2, <4>3
    <3>2. CASE r[k] = c
      <4>1. Later(k).exit_epoch = E /\ Later(k).withdrawable_epoch = E + D
        BY <2>4, <3>2
      <4>2. E # FAR_FUTURE_EPOCH /\ E + D > epoch /\ E + D <= E + D
        BY <1>3, <1>7, <1>15, <2>3
      <4> QED
        BY <4>1, <4>2
    <3> QED
      BY <1>21, <3>1, <3>2
  <2>6. ASSUME NEW j \in DOMAIN r, NEW k \in DOMAIN r, j < k
        PROVE  Later(j).slashed \/ Later(k).slashed \/
                 Later(j).withdrawable_epoch <= Later(k).withdrawable_epoch
    <3>0. DOMAIN q = 1..Len(q) /\ Len(q) \in Nat /\ j \in Nat /\ k \in Nat
      <4>1. DOMAIN q = 1..Len(q) /\ Len(q) \in Nat
        <5> HIDE DEF q
        <5> QED
          BY <1>2
      <4>2. DOMAIN r \subseteq Nat
        BY <1>21
      <4> QED
        BY <4>1, <4>2
    <3>1. j \in DOMAIN q /\ r[j] = q[j]
      <4>1. CASE k \in DOMAIN q
        BY <1>21, <2>6, <3>0, <4>1
      <4>2. CASE k = n
        BY <1>21, <2>6, <3>0, <4>2
      <4> QED
        BY <1>21, <4>1, <4>2
    <3>2. CASE k \in DOMAIN q /\ r[k] = q[k]
      <4>1. Later(j) = Source(j) /\ Later(k) = Source(k)
        BY <2>2, <3>1, <3>2
      <4> QED
        BY <2>1, <2>6, <3>1, <3>2, <4>1
    <3>3. CASE r[k] = c
      <4>1. Later(k).withdrawable_epoch = E + D
        BY <2>4, <3>3
      <4>2. Later(j).slashed \/ Later(j).withdrawable_epoch <= E + D
        BY <2>5
      <4> QED
        BY <4>1, <4>2
    <3> QED
      BY <1>21, <3>2, <3>3
  <2> QED
    BY <1>23, <1>24, <2>5, <2>6 DEF Moving, Later, D
<1>29. \A bound \in Nat : LastFloor <= bound /\ s.earliest_consolidation_epoch <= bound
         => z.earliest_consolidation_epoch <= bound + MAX_EFFECTIVE_BALANCE_ELECTRA
  <2> SUFFICES ASSUME NEW bound \in Nat, LastFloor <= bound,
                      s.earliest_consolidation_epoch <= bound
               PROVE  E <= bound + MAX_EFFECTIVE_BALANCE_ELECTRA
    BY <1>24
  <2>1. E <= bound + balance
    BY <1>3, <1>7
  <2> QED
    BY <1>5, <1>7, <2>1
<1>30. Proper(s, z)
  BY <1>24, <1>25, <1>26, <1>27, <1>28, <1>29 DEF Proper, epoch
<1> QED
  BY <1>19, <1>30

(* Money that moves from a balance to the queue of deposits.               *)
LEMMA ExcessProper ==
  ASSUME NEW s, Sound(s), NEW i \in DOMAIN s.validators
  PROVE  Proper(s, queue_excess_active_balance(s, i))
<1> DEFINE old == s.balances[i]
           excess == old - MIN_ACTIVATION_BALANCE
           v == s.validators[i]
           d == [pubkey |-> v.pubkey, withdrawal_credentials |-> v.withdrawal_credentials,
                 amount |-> excess, valid |-> FALSE, slot |-> GENESIS_SLOT]
           q == s.pending_deposits
           r == Append(q, d)
           a == [s EXCEPT !.balances[i] = MIN_ACTIVATION_BALANCE]
           t == [a EXCEPT !.pending_deposits = r]
           u == queue_excess_active_balance(s, i)
           F == {"balances"} \cup {"pending_deposits"}
<1>1. u = s \/ (excess > 0 /\ u = [s EXCEPT !.balances[i] = MIN_ACTIVATION_BALANCE,
                                            !.pending_deposits = r])
  <2>1. old \in Nat /\ MIN_ACTIVATION_BALANCE \in Nat
    BY SameIndices, BalanceSet, RegistryConstants DEF Sound
  <2> HIDE DEF old
  <2>2. excess > 0 \/ excess <= 0
    BY <2>1
  <2> HIDE DEF excess
  <2> QED
    BY <2>2 DEF queue_excess_active_balance, old, excess
<1>2. CASE u = s
  <2> HIDE DEF u
  <2> QED
    BY <1>2, ProperItself DEF u
<1>3. CASE excess > 0 /\ u = [s EXCEPT !.balances[i] = MIN_ACTIVATION_BALANCE,
                                       !.pending_deposits = r]
  <2>1. /\ s \in BeaconState /\ s.slot <= MaxSlot
        /\ s.next_withdrawal_validator_index \in DOMAIN s.validators
        /\ i \in DOMAIN s.balances
    BY SoundWhole, SameIndices
  <2>2. /\ old \in Nat /\ MIN_ACTIVATION_BALANCE \in Nat /\ q \in Seq(PendingDeposit)
        /\ v \in Validator
    BY <2>1, BalanceSet, RegistryConstants, FieldTypes, ValidatorAt
  <2> HIDE DEF u, old
  <2>3. excess \in Nat \ {0}
    BY <1>3, <2>2
  <2>4. d \in PendingDeposit /\ d.amount = excess
    BY <2>2, <2>3 DEF PendingDeposit, Validator, GENESIS_SLOT
  <2> HIDE DEF d, q
  <2>5. /\ r \in Seq(PendingDeposit)
        /\ Total(Amounts(r)) = Total(Amounts(q)) + excess
    BY <2>2, <2>4, AmountsAppend
  <2>6. u = t
    BY <1>3, <2>1
  <2> HIDE DEF r
  <2>7. /\ SameBut(s, a, {"balances"}) /\ Len(a.balances) = Len(s.balances)
        /\ Total(a.balances) = Total(s.balances) - old + MIN_ACTIVATION_BALANCE
    BY <2>1, <2>2, BalanceSet DEF old
  <2> HIDE DEF a
  <2>8. a \in BeaconState /\ a.pending_deposits = q
    BY <2>7, Agreement DEF SameBut, q
  <2>9. SameBut(a, t, {"pending_deposits"}) /\ t.pending_deposits = r
    BY <2>5, <2>8, FieldSet
  <2> HIDE DEF t
  <2>10. SameBut(s, t, F)
    BY <2>7, <2>9, SameButTransitive
  <2>11. /\ t.balances = a.balances /\ t.slot = s.slot /\ t.validators = s.validators
         /\ t.next_withdrawal_validator_index = s.next_withdrawal_validator_index
         /\ t.supply = s.supply
    BY <2>9, <2>10, Agreement
  <2>12. Evolved(s, t, F)
    BY <2>1, <2>7, <2>10, <2>11, SoundOutside
  <2>13. Surplus(t) = Surplus(s)
    <3>1. Total(s.balances) \in Int /\ Total(Amounts(q)) \in Int /\ s.supply \in Int
      BY <2>1, SurplusType DEF q
    <3>2. Total(a.balances) + Total(Amounts(r)) = Total(s.balances) + Total(Amounts(q))
      BY <2>2, <2>5, <2>7, <3>1
    <3>3. Surplus(t) = Total(a.balances) + Total(Amounts(r)) - s.supply
      BY <2>9, <2>11 DEF Surplus
    <3>4. Surplus(s) = Total(s.balances) + Total(Amounts(q)) - s.supply
      BY DEF Surplus, q
    <3>5. Total(a.balances) \in Int /\ Total(Amounts(r)) \in Int
      BY <2>2, <2>3, <2>5, <2>7, <3>1
    <3> QED
      BY ONLY <3>1, <3>2, <3>3, <3>4, <3>5
  <2>14. t.pending_deposits = Append(s.pending_deposits, d)
    BY <2>9 DEF r, q
  <2>15. F \cap {"slot", "deposit_balance_to_consume", "pending_consolidations",
                 "earliest_consolidation_epoch"} = {}
    OBVIOUS
  <2> HIDE DEF F
  <2>16. Proper(s, t)
    BY <2>12, <2>13, <2>14, <2>15, ProperOutside
  <2> QED
    BY <2>6, <2>16 DEF u
<1> QED
  BY <1>1, <1>2, <1>3

(* Two steps of one operation.                                             *)
LEMMA ProperTransitive ==
  ASSUME NEW s, NEW t, NEW u, Sound(s), Proper(s, t), Proper(t, u),
         t.earliest_consolidation_epoch = s.earliest_consolidation_epoch
  PROVE  Proper(s, u)
<1>1. u.slot = s.slot /\ Surplus(u) = Surplus(s) /\ Sound(u) /\ (Carry(s) => Carry(u))
  BY DEF Proper
<1>2. get_current_epoch(t) = get_current_epoch(s)
  BY DEF Proper, get_current_epoch
<1>3. Moving(s, get_current_epoch(s)) => Moving(u, get_current_epoch(u))
  BY <1>2 DEF Proper
<1> QED
  BY <1>1, <1>3 DEF Proper

(* switch_to_compounding_validator: the maximum of the validator only      *)
(* grows.                                                                  *)
LEMMA SwitchProper ==
  ASSUME NEW s, Sound(s), NEW i \in DOMAIN s.validators
  PROVE  Proper(s, switch_to_compounding_validator(s, i))
<1> DEFINE v == s.validators[i]
           w == [v EXCEPT !.withdrawal_credentials = "compounding"]
           t == [s EXCEPT !.validators = [s.validators EXCEPT ![i] = w]]
           u == queue_excess_active_balance(t, i)
<1>1. switch_to_compounding_validator(s, i)
        = queue_excess_active_balance(
            [s EXCEPT !.validators[i].withdrawal_credentials = "compounding"], i)
  BY DEF switch_to_compounding_validator
<1>2. [s EXCEPT !.validators[i].withdrawal_credentials = "compounding"] = t
  OBVIOUS
<1>3. v \in Validator /\ InOrder(v)
  BY ValidatorAt
<1>4. /\ w \in Validator /\ w.effective_balance = v.effective_balance
      /\ w.activation_epoch = v.activation_epoch /\ w.exit_epoch = v.exit_epoch
      /\ w.withdrawable_epoch = v.withdrawable_epoch /\ w.slashed = v.slashed
      /\ w.withdrawal_credentials = "compounding"
  BY <1>3, ValidatorFields DEF Validator, Credentials
<1>5. InOrder(w)
  <2>1. get_max_effective_balance(w) = MAX_EFFECTIVE_BALANCE_ELECTRA
    BY <1>4 DEF get_max_effective_balance, has_compounding_withdrawal_credential
  <2>2. get_max_effective_balance(v) <= MAX_EFFECTIVE_BALANCE_ELECTRA
        /\ get_max_effective_balance(v) \in Nat
        /\ MAX_EFFECTIVE_BALANCE_ELECTRA \in Nat
    BY RegistryConstants, BoundsAssumption DEF get_max_effective_balance
  <2>3. v.effective_balance \in Nat /\ v.effective_balance <= get_max_effective_balance(v)
    BY <1>3 DEF InOrder, Validator
  <2>4. v.effective_balance <= MAX_EFFECTIVE_BALANCE_ELECTRA
    BY <2>2, <2>3
  <2> QED
    BY <1>3, <1>4, <2>1, <2>4 DEF InOrder
<1>6. KeptValidator(v, w)
  <2>1. v.slashed \in BOOLEAN
    BY <1>3 DEF Validator
  <2> QED
    BY <1>4, <2>1 DEF KeptValidator
<1> HIDE DEF w
<1>7. /\ Evolved(s, t, {"validators"}) /\ Surplus(t) = Surplus(s)
      /\ DOMAIN t.validators = DOMAIN s.validators
  BY <1>4, <1>5, <1>6, ValidatorSet
<1> HIDE DEF t
<1>8. Sound(t) /\ t.earliest_consolidation_epoch = s.earliest_consolidation_epoch
  BY <1>7, Agreement DEF Evolved
<1>9. Proper(s, t)
  BY <1>7, ProperOutside
<1>10. Proper(t, u)
  BY <1>7, <1>8, ExcessProper
<1>11. Proper(s, u)
  BY <1>8, <1>9, <1>10, ProperTransitive
<1> QED
  BY <1>1, <1>2, <1>11

(* process_bls_to_execution_change: neither kind of credentials raises the *)
(* maximum of the validator.                                               *)
LEMMA ChangeProper ==
  ASSUME NEW s, Sound(s), NEW i \in DOMAIN s.validators,
         s.validators[i].withdrawal_credentials = "bls"
  PROVE  Proper(s, process_bls_to_execution_change(s, i))
<1> DEFINE v == s.validators[i]
           w == [v EXCEPT !.withdrawal_credentials = "eth1"]
           t == [s EXCEPT !.validators = [s.validators EXCEPT ![i] = w]]
<1>1. process_bls_to_execution_change(s, i) = t
  BY DEF process_bls_to_execution_change
<1>2. v \in Validator /\ InOrder(v)
  BY ValidatorAt
<1>3. /\ w \in Validator /\ w.effective_balance = v.effective_balance
      /\ w.activation_epoch = v.activation_epoch /\ w.exit_epoch = v.exit_epoch
      /\ w.withdrawable_epoch = v.withdrawable_epoch /\ w.slashed = v.slashed
      /\ w.withdrawal_credentials = "eth1"
  BY <1>2, ValidatorFields DEF Validator, Credentials
<1>4. InOrder(w)
  <2>1. get_max_effective_balance(w) = get_max_effective_balance(v)
    BY <1>3 DEF get_max_effective_balance, has_compounding_withdrawal_credential
  <2> QED
    BY <1>2, <1>3, <2>1 DEF InOrder
<1>5. KeptValidator(v, w)
  <2>1. v.slashed \in BOOLEAN
    BY <1>2 DEF Validator
  <2> QED
    BY <1>3, <2>1 DEF KeptValidator
<1> HIDE DEF w
<1>6. Evolved(s, t, {"validators"}) /\ Surplus(t) = Surplus(s)
  BY <1>3, <1>4, <1>5, ValidatorSet
<1> HIDE DEF t
<1> QED
  BY <1>1, <1>6, ProperOutside

(* process_consolidation_request, with every early return.                 *)
LEMMA ConsolidationRequestProper ==
  ASSUME NEW s, Sound(s), NEW request,
         NEW b \in Nat, LastFloor <= b, s.earliest_consolidation_epoch <= b,
         b + MAX_EFFECTIVE_BALANCE_ELECTRA < FAR_FUTURE_EPOCH
  PROVE  Proper(s, process_consolidation_request(s, request))
<1> DEFINE sources == WithPubkey(s, request.source_pubkey)
           targets == WithPubkey(s, request.target_pubkey)
           source == CHOOSE i \in sources : TRUE
           target == CHOOSE i \in targets : TRUE
           limit == get_consolidation_churn_limit(s)
           t == process_consolidation_request(s, request)
<1>1. \/ t = s
      \/ sources # {} /\ t = switch_to_compounding_validator(s, source)
      \/ /\ ~(limit <= MIN_ACTIVATION_BALANCE) /\ sources # {} /\ targets # {}
         /\ Settled(s, s.validators[source])
         /\ t = Consolidated(s, source, target)
  <2>1. is_valid_switch_to_compounding_request(s, request) => sources # {}
    BY DEF is_valid_switch_to_compounding_request
  <2> QED
    BY <2>1 DEF process_consolidation_request
<1>2. /\ sources # {} => source \in DOMAIN s.validators
      /\ targets # {} => target \in DOMAIN s.validators
  BY SomeWithPubkey
<1>3. limit \in Int /\ MIN_ACTIVATION_BALANCE \in Nat
  BY ConsolidationLimit, RegistryConstants DEF Sound
<1> HIDE DEF source, target, sources, targets, limit, t
<1>4. CASE t = s
  BY <1>4, ProperItself DEF t
<1>5. CASE source \in DOMAIN s.validators /\ t = switch_to_compounding_validator(s, source)
  BY <1>5, SwitchProper DEF t
<1>6. CASE /\ ~(limit <= MIN_ACTIVATION_BALANCE)
           /\ source \in DOMAIN s.validators /\ target \in DOMAIN s.validators
           /\ Settled(s, s.validators[source])
           /\ t = Consolidated(s, source, target)
  <2>1. limit > MIN_ACTIVATION_BALANCE
    BY <1>3, <1>6
  <2>2. /\ s.validators[source].activation_epoch <= get_current_epoch(s)
        /\ s.validators[source].exit_epoch = FAR_FUTURE_EPOCH
    BY <1>6 DEF Settled, is_active_validator
  <2>3. Proper(s, Consolidated(s, source, target))
    BY <1>6, <2>1, <2>2, ConsolidatedProper DEF limit
  <2> QED
    BY <1>6, <2>3 DEF t
<1> QED
  BY <1>1, <1>2, <1>4, <1>5, <1>6

-----------------------------------------------------------------------------
(* The chain. *)

(* The inductive invariant: a sound state that holds exactly what it       *)
(* should, with churn carried only for the head of the deposit queue, with *)
(* the sources of consolidations waiting, and with no queue further ahead  *)
(* than the operations so far can have moved it.                           *)
Inv ==
  /\ Sound(state) /\ Surplus(state) = 0 /\ Carry(state)
  /\ Moving(state, get_current_epoch(state))
  /\ state.earliest_consolidation_epoch
       <= LastFloor + included * MAX_EFFECTIVE_BALANCE_ELECTRA
  /\ stage \in 0..8 /\ included \in 0..MaxOperations /\ course \in Courses

(* The bound on the queue of consolidations never reaches                  *)
(* FAR_FUTURE_EPOCH.                                                       *)
LEMMA FarFuture ==
  ASSUME NEW n \in 0..MaxOperations
  PROVE  LET b == LastFloor + n * MAX_EFFECTIVE_BALANCE_ELECTRA
         IN /\ b \in Nat /\ LastFloor <= b
            /\ n < MaxOperations => b + MAX_EFFECTIVE_BALANCE_ELECTRA < FAR_FUTURE_EPOCH
            /\ b + MAX_EFFECTIVE_BALANCE_ELECTRA
                 = LastFloor + (n + 1) * MAX_EFFECTIVE_BALANCE_ELECTRA
<1> DEFINE M == MAX_EFFECTIVE_BALANCE_ELECTRA
<1>1. /\ M \in Nat /\ MaxOperations \in Nat /\ n \in Nat /\ FAR_FUTURE_EPOCH \in Nat
      /\ MaxSlot \in Nat /\ SLOTS_PER_EPOCH \in Nat /\ SLOTS_PER_EPOCH > 0
      /\ MAX_SEED_LOOKAHEAD \in Nat
  BY RegistryConstants, BoundsAssumption
<1>2. LastFloor \in Nat
  <2>1. MaxSlot \div SLOTS_PER_EPOCH \in Nat
    BY <1>1, Division
  <2> QED
    BY <1>1, <2>1 DEF LastFloor, compute_activation_exit_epoch
<1>3. LastFloor + MaxOperations * M < FAR_FUTURE_EPOCH
  BY FarFutureAssumption DEF LastFloor
<1> HIDE DEF M
<1> DEFINE x == n * M
           y == (n + 1) * M
           top == MaxOperations * M
<1>4. x \in Nat /\ y = x + M /\ top \in Nat
  <2>1. x \in Nat /\ top \in Nat
    BY <1>1, Products
  <2>2. y = x + 1 * M
    BY <1>1, Products
  <2> QED
    BY <1>1, <2>1, <2>2
<1>5. n < MaxOperations => y <= top
  <2>1. n + 1 \in Nat /\ (n < MaxOperations => n + 1 <= MaxOperations)
    BY <1>1
  <2> QED
    BY <1>1, <2>1, Products
<1> HIDE DEF x, y, top
<1>6. /\ LastFloor + x \in Nat /\ LastFloor <= LastFloor + x
      /\ n < MaxOperations => (LastFloor + x) + M < FAR_FUTURE_EPOCH
      /\ (LastFloor + x) + M = LastFloor + y
  <2>1. LastFloor + top < FAR_FUTURE_EPOCH
    BY <1>3 DEF top
  <2> QED
    BY <1>1, <1>2, <1>4, <1>5, <2>1
<1> QED
  BY <1>6 DEF x, y, M

(* A chain starts with it.                                                 *)
LEMMA Start == Init => Inv
<1> SUFFICES ASSUME Init PROVE Inv
  OBVIOUS
<1> DEFINE s == state
<1>1. /\ s \in BeaconState /\ WellFormed(s) /\ Accounted(s) /\ s.slot <= MaxSlot
      /\ s.deposit_balance_to_consume = 0 /\ s.exits = <<>>
      /\ s.exit_balance_to_consume <= MAX_PER_EPOCH_ACTIVATION_EXIT_CHURN_LIMIT
      /\ s.pending_consolidations = <<>>
      /\ s.earliest_consolidation_epoch <= compute_activation_exit_epoch(get_current_epoch(s))
  BY InitialStatesAssumption DEF Init
<1>2. QueueSound(s) /\ AllExitsFit(s)
  <2>1. /\ s.earliest_exit_epoch \in Nat /\ s.exit_balance_to_consume \in Nat
        /\ s.exits \in Seq([epoch : Nat, so_far : Nat]) /\ DOMAIN s = Fields
    BY <1>1, FieldTypes
  <2>2. DOMAIN s.exits = {}
    BY <1>1
  <2>3. MaxChurn \in Nat
    BY BoundsAssumption DEF MaxChurn
  <2>4. s.exit_balance_to_consume \in 0..MaxChurn
    BY <1>1, <2>1, <2>3 DEF MaxChurn
  <2> HIDE DEF s
  <2> QED
    BY <2>1, <2>2, <2>4 DEF QueueSound, AllExitsFit, Fields
<1>3. Surplus(s) = 0
  BY <1>1, SurplusType
<1>4. Carry(s)
  BY <1>1 DEF Carry
<1>5. DOMAIN s.pending_consolidations = {}
  BY <1>1
<1>6. Moving(s, get_current_epoch(s))
  BY <1>5 DEF Moving
<1>7. s.earliest_consolidation_epoch <= LastFloor + 0 * MAX_EFFECTIVE_BALANCE_ELECTRA
  <2>1. /\ compute_activation_exit_epoch(get_current_epoch(s)) \in Nat
        /\ compute_activation_exit_epoch(get_current_epoch(s)) <= LastFloor
        /\ LastFloor \in Nat /\ s.earliest_consolidation_epoch \in Nat
    BY <1>1, EpochBounds, FieldTypes
  <2>2. 0 * MAX_EFFECTIVE_BALANCE_ELECTRA = 0
    BY RegistryConstants
  <2> QED
    BY <1>1, <2>1, <2>2
<1>8. MaxOperations \in Nat
  BY BoundsAssumption
<1> QED
  BY <1>1, <1>2, <1>3, <1>4, <1>6, <1>7, <1>8 DEF Init, Inv, Sound

(* An operation with an effect.                                            *)
LEMMA OperationStep ==
  ASSUME Inv, NEW kind \in 1..8, NEW t, Operation(kind, t),
         included < MaxOperations => Proper(state, t)
  PROVE  Inv'
<1>1. /\ Sound(state) /\ Surplus(state) = 0 /\ Carry(state)
      /\ Moving(state, get_current_epoch(state))
      /\ state.earliest_consolidation_epoch
           <= LastFloor + included * MAX_EFFECTIVE_BALANCE_ELECTRA
      /\ included \in 0..MaxOperations /\ course \in Courses
  BY DEF Inv
<1>2. /\ included < MaxOperations /\ state' = t /\ stage' = kind
      /\ included' = included + 1 /\ course' = course
  BY DEF Operation
<1>3. /\ Sound(t) /\ Surplus(t) = 0 /\ Carry(t) /\ Moving(t, get_current_epoch(t))
      /\ \A bound \in Nat :
           /\ LastFloor <= bound
           /\ state.earliest_consolidation_epoch <= bound
           => t.earliest_consolidation_epoch <= bound + MAX_EFFECTIVE_BALANCE_ELECTRA
  BY <1>1, <1>2 DEF Proper
<1> DEFINE b == LastFloor + included * MAX_EFFECTIVE_BALANCE_ELECTRA
<1>4. /\ b \in Nat /\ LastFloor <= b
      /\ b + MAX_EFFECTIVE_BALANCE_ELECTRA
           = LastFloor + (included + 1) * MAX_EFFECTIVE_BALANCE_ELECTRA
  BY <1>1, FarFuture
<1>5. t.earliest_consolidation_epoch
        <= LastFloor + (included + 1) * MAX_EFFECTIVE_BALANCE_ELECTRA
  <2>1. state.earliest_consolidation_epoch <= b
    BY <1>1
  <2> HIDE DEF b
  <2> QED
    BY <1>3, <1>4, <2>1
<1>6. included + 1 \in 0..MaxOperations
  BY <1>1, <1>2, BoundsAssumption
<1>7. kind \in 0..8
  OBVIOUS
<1> QED
  BY <1>1, <1>2, <1>3, <1>5, <1>6, <1>7 DEF Inv

(* Every step keeps it: one case for each action.                          *)
LEMMA Step == Inv /\ [Next]_vars => Inv'
<1> SUFFICES ASSUME Inv, [Next]_vars PROVE Inv'
  OBVIOUS
<1>0. /\ Sound(state) /\ Surplus(state) = 0 /\ Carry(state)
      /\ Moving(state, get_current_epoch(state))
      /\ state.earliest_consolidation_epoch
           <= LastFloor + included * MAX_EFFECTIVE_BALANCE_ELECTRA
      /\ stage \in 0..8 /\ included \in 0..MaxOperations /\ course \in Courses
      /\ state \in BeaconState /\ state.slot <= MaxSlot
  BY DEF Inv, Sound
<1>1. CASE NextSlot
  <2> DEFINE now == course[state.slot]
             t == process_slots(state, now.finalized_epoch, now.delta)
  <2>1. now.finalized_epoch \in Nat /\ now.delta \in Int
    <3>1. state.slot \in 0..MaxSlot
      BY <1>0, FieldTypes, BoundsAssumption
    <3>2. course \in [0..MaxSlot -> [block : BOOLEAN, finalized_epoch : Nat, delta : Int]]
      BY <1>0, InputsAssumption
    <3> QED
      BY <3>1, <3>2
  <2>2. /\ state.slot < MaxSlot /\ state' = t /\ stage' = 0
        /\ included' = included /\ course' = course
    BY <1>1 DEF NextSlot
  <2> HIDE DEF now
  <2>3. /\ Sound(t) /\ Surplus(t) = Surplus(state)
        /\ Carry(t) /\ Moving(t, get_current_epoch(t))
        /\ t.earliest_consolidation_epoch = state.earliest_consolidation_epoch
    BY <1>0, <2>1, <2>2, SlotEvolves
  <2> HIDE DEF t
  <2> QED
    BY <1>0, <2>2, <2>3 DEF Inv
<1>2. CASE LaterSlot
  BY <1>0, <1>2 DEF LaterSlot, Inv
<1>3. CASE BeginBlock
  <2> DEFINE t == process_withdrawals(state)
  <2>1. state' = t /\ stage' = 1 /\ included' = included /\ course' = course
    BY <1>3 DEF BeginBlock
  <2>2. Evolved(state, t, WithdrawalFields) /\ Surplus(t) = Surplus(state)
    BY <1>0, WithdrawalsEvolve
  <2> HIDE DEF t
  <2>3. WithdrawalFields \cap {"slot", "deposit_balance_to_consume", "pending_deposits",
          "pending_consolidations", "earliest_consolidation_epoch"} = {}
    BY DEF WithdrawalFields
  <2>4. Proper(state, t)
    BY <1>0, <2>2, <2>3, ProperOutside
  <2>5. t.earliest_consolidation_epoch = state.earliest_consolidation_epoch
    BY <2>2, <2>3, Agreement DEF Evolved
  <2> QED
    BY <1>0, <2>1, <2>4, <2>5 DEF Inv, Proper
<1>4. CASE Slashing
  <2>1. PICK index \in DOMAIN state.validators, proposer \in DOMAIN state.validators :
          /\ is_slashable_validator(state.validators[index], get_current_epoch(state))
          /\ Operation(2, slash_validator(state, index, proposer))
    BY <1>4 DEF Slashing
  <2>2. state.validators[index].activation_epoch <= get_current_epoch(state)
    BY <2>1 DEF is_slashable_validator
  <2>3. Proper(state, slash_validator(state, index, proposer))
    BY <1>0, <2>2, SlashingProper
  <2> QED
    BY <2>1, <2>3, OperationStep
<1>5. CASE Deposit
  <2>1. /\ state.eth1_deposit_index
             < Least(Len(Eth1Deposits), state.deposit_requests_start_index)
        /\ Operation(3, process_deposit(state))
    BY <1>5 DEF Deposit
  <2>2. state.eth1_deposit_index < Len(Eth1Deposits)
    <3>1. /\ state.eth1_deposit_index \in Nat /\ state.deposit_requests_start_index \in Nat
          /\ Len(Eth1Deposits) \in Nat
      BY <1>0, FieldTypes, InputsAssumption
    <3> QED
      BY <2>1, <3>1 DEF Least
  <2>3. Proper(state, process_deposit(state))
    BY <1>0, <2>2, DepositProper
  <2> QED
    BY <2>1, <2>3, OperationStep
<1>6. CASE VoluntaryExit
  <2>1. PICK index \in DOMAIN state.validators :
          /\ is_active_validator(state.validators[index], get_current_epoch(state))
          /\ Operation(4, initiate_validator_exit(state, index))
    BY <1>6 DEF VoluntaryExit
  <2>2. state.validators[index].activation_epoch <= get_current_epoch(state)
    BY <2>1 DEF is_active_validator
  <2>3. Proper(state, initiate_validator_exit(state, index))
    BY <1>0, <2>2, ExitProper
  <2> QED
    BY <2>1, <2>3, OperationStep
<1>7. CASE DepositRequest
  <2>1. PICK request \in DepositRequests :
          Operation(6, process_deposit_request(state, request))
    BY <1>7 DEF DepositRequest
  <2>2. Proper(state, process_deposit_request(state, request))
    BY <1>0, DepositRequestProper
  <2> QED
    BY <2>1, <2>2, OperationStep
<1>8. CASE WithdrawalRequest
  <2>1. PICK request \in WithdrawalRequests :
          Operation(7, process_withdrawal_request(state, request))
    BY <1>8 DEF WithdrawalRequest
  <2>2. Proper(state, process_withdrawal_request(state, request))
    BY <1>0, WithdrawalRequestProper
  <2> QED
    BY <2>1, <2>2, OperationStep
<1>9. CASE ConsolidationRequest
  <2>1. PICK request \in ConsolidationRequests :
          Operation(8, process_consolidation_request(state, request))
    BY <1>9 DEF ConsolidationRequest
  <2>2. ASSUME included < MaxOperations
        PROVE  Proper(state, process_consolidation_request(state, request))
    <3> DEFINE b == LastFloor + included * MAX_EFFECTIVE_BALANCE_ELECTRA
    <3>1. /\ b \in Nat /\ LastFloor <= b
          /\ b + MAX_EFFECTIVE_BALANCE_ELECTRA < FAR_FUTURE_EPOCH
      BY <1>0, <2>2, FarFuture
    <3>2. state.earliest_consolidation_epoch <= b
      BY <1>0
    <3> HIDE DEF b
    <3> QED
      BY <1>0, <3>1, <3>2, ConsolidationRequestProper
  <2> QED
    BY <2>1, <2>2, OperationStep
<1>10. CASE BLSToExecutionChange
  <2>1. PICK index \in DOMAIN state.validators :
          /\ state.validators[index].withdrawal_credentials = "bls"
          /\ Operation(5, process_bls_to_execution_change(state, index))
    BY <1>10 DEF BLSToExecutionChange
  <2>2. Proper(state, process_bls_to_execution_change(state, index))
    BY <1>0, <2>1, ChangeProper
  <2> QED
    BY <2>1, <2>2, OperationStep
<1>11. CASE UNCHANGED vars
  BY <1>0, <1>11 DEF vars, Inv
<1> QED
  BY <1>1, <1>2, <1>3, <1>4, <1>5, <1>6, <1>7, <1>8, <1>9, <1>10, <1>11 DEF Next

(* It holds throughout.                                                    *)
LEMMA Invariance == Spec => []Inv
BY Start, Step, PTL DEF Spec

(* No subtraction of the code falls below zero, every index in a queue is  *)
(* in the registry, no balance counts for more than its validator may have *)
(* at stake and a validator's epochs come in order, through every          *)
(* operation of a block and every step of an epoch.                        *)
THEOREM TypeCorrect == Spec => []TypeOK
<1>1. Inv => TypeOK
  BY DEF Inv, Sound, TypeOK
<1> QED
  BY <1>1, Invariance, PTL

(* Money is neither created nor lost on its way through the queues of      *)
(* deposits, partial withdrawals and consolidations, by the loops that     *)
(* empty them, or by the withdrawals of a block.                           *)
THEOREM MoneyConserved == Spec => []Conserved
<1>1. Inv => Conserved
  BY SurplusType DEF Inv, Sound, Conserved
<1> QED
  BY <1>1, Invariance, PTL

(* The exits after one, up to a later one, fit in the churn of the epochs  *)
(* between them, though every exit reads a limit of its own.               *)
THEOREM ExitsAlwaysWithinChurn == Spec => []ExitsWithinChurn
<1>1. Inv => ExitsWithinChurn
  BY DEF Inv, Sound, ExitsWithinChurn
<1> QED
  BY <1>1, Invariance, PTL

(* process_pending_deposits carries churn over only where it stopped for   *)
(* want of it, and then the deposit it stopped at stays the head of the    *)
(* queue.                                                                  *)
THEOREM CarryAlwaysWaits == Spec => []CarryWaitsForHead
<1>1. Inv => CarryWaitsForHead
  BY DEF Inv, Carry, CarryWaitsForHead
<1> QED
  BY <1>1, Invariance, PTL

(* The balance of a consolidation's source moves in the epoch processing   *)
(* that ends the epoch before the source becomes withdrawable.             *)
THEOREM ConsolidatedInTime == Spec => []ConsolidatedBeforeWithdrawable
<1>1. Inv => ConsolidatedBeforeWithdrawable
  BY DEF Inv, Moving, ConsolidatedBeforeWithdrawable
<1> QED
  BY <1>1, Invariance, PTL

(* What the withdrawals of a block leave to a validator that stays.        *)
THEOREM StakeAlwaysKept == Spec => StakeKept
<1>1. Inv /\ [Next]_vars =>
        [BeginBlock =>
           \A i \in DOMAIN state.validators :
             state.validators[i].exit_epoch = FAR_FUTURE_EPOCH =>
               state'.balances[i] >= Least(state.balances[i], MIN_ACTIVATION_BALANCE)]_vars
  <2> SUFFICES ASSUME Inv, BeginBlock
               PROVE  \A i \in DOMAIN state.validators :
                        state.validators[i].exit_epoch = FAR_FUTURE_EPOCH =>
                          state'.balances[i] >= Least(state.balances[i], MIN_ACTIVATION_BALANCE)
    OBVIOUS
  <2>1. state' = process_withdrawals(state)
    BY DEF BeginBlock
  <2>2. Sound(state)
    BY DEF Inv
  <2> QED
    BY <2>1, <2>2, WithdrawalsEvolve
<1> QED
  BY <1>1, Invariance, PTL DEF Spec, StakeKept
=============================================================================
