-------------------------- MODULE InductionProofs ---------------------------
(***************************************************************************)
(* Induction on natural numbers, for what the models compute by recursion. *)
(* A claim is the set of the numbers it is true of, a recursive definition *)
(* is given by the function that makes each value from the one before.     *)
(***************************************************************************)
EXTENDS Integers, WellFoundedInduction, TLAPS

Less == OpToRel(<, Nat)

(* A set of numbers has a least one.                                       *)
LEMMA LeastNumber ==
    ASSUME NEW T \in SUBSET Nat, T # {}
    PROVE  \E n \in T : \A m \in T : n <= m
<1>1. IsWellFoundedOn(Less, Nat)
  BY NatLessThanWellFounded DEF Less
<1>2. PICK n \in T : \A m \in T : <<m, n>> \notin Less
  BY <1>1, WFMin
<1>3. Less = {pair \in Nat \X Nat : pair[1] < pair[2]}
  BY DEF Less, OpToRel
<1>4. \A m \in T : <<m, n>> \in Nat \X Nat
  OBVIOUS
<1>5. \A m \in T : ~(m < n)
  BY <1>2, <1>3, <1>4
<1> QED
  BY <1>5

(* What is true of 0, and of each number up to n if of the one before, is  *)
(* true of all of them.                                                    *)
LEMMA UpTo ==
    ASSUME NEW n \in Nat, NEW T, 0 \in T, \A k \in 1 .. n : k - 1 \in T => k \in T
    PROVE  \A k \in 0 .. n : k \in T
<1> DEFINE Wrong == {k \in 0 .. n : k \notin T}
<1>1. Wrong \in SUBSET Nat
  OBVIOUS
<1>2. Wrong = {}
  <2> SUFFICES ASSUME Wrong # {} PROVE FALSE
    OBVIOUS
  <2>1. PICK k \in Wrong : \A m \in Wrong : k <= m
    <3> HIDE DEF Wrong
    <3> QED
      BY <1>1, LeastNumber
  <2>2. k \in 1 .. n /\ k - 1 \in 0 .. n /\ k - 1 \notin Wrong
    BY <2>1
  <2> QED
    BY <2>1, <2>2
<1> QED
  BY <1>2

(* Each step makes a value from a value.                                   *)
IsStep(step, n, S) == \A k \in 1 .. n : \A x \in S : step[k][x] \in S

(* A recursive function is defined: some f has the values that each step   *)
(* makes from the one before.                                              *)
LEMMA RecursiveFunction ==
    ASSUME NEW n \in Nat, NEW S, NEW base \in S, NEW step, IsStep(step, n, S)
    PROVE  \E f \in [0 .. n -> S] :
             f[0] = base /\ \A k \in 1 .. n : f[k] = step[k][f[k - 1]]
<1> DEFINE Defines(f, m) ==
             f[0] = base /\ \A k \in 1 .. m : f[k] = step[k][f[k - 1]]
           T == {m \in 0 .. n : \E f \in [0 .. n -> S] : Defines(f, m)}
<1>1. 0 \in T
  <2> DEFINE f == [k \in 0 .. n |-> base]
  <2>1. f \in [0 .. n -> S] /\ Defines(f, 0)
    OBVIOUS
  <2> HIDE DEF f, Defines
  <2> QED
    BY <2>1
<1>2. ASSUME NEW m \in 1 .. n, m - 1 \in T
      PROVE  m \in T
  <2>1. PICK f \in [0 .. n -> S] : Defines(f, m - 1)
    BY <1>2
  <2> DEFINE value == step[m][f[m - 1]]
             g == [f EXCEPT ![m] = value]
  <2>2. m - 1 \in 0 .. n /\ m \in 0 .. n /\ m # m - 1 /\ 0 # m
    OBVIOUS
  <2>3. value \in S
    BY <2>1, <2>2 DEF IsStep
  <2> HIDE DEF value
  <2>4. g \in [0 .. n -> S] /\ g[m] = value /\ \A k \in 0 .. n : k # m => g[k] = f[k]
    BY <2>2, <2>3
  <2> HIDE DEF g
  <2>5. g[0] = base
    BY <2>1, <2>2, <2>4
  <2>6. ASSUME NEW k \in 1 .. m
        PROVE  g[k] = step[k][g[k - 1]]
    <3>1. k - 1 \in 0 .. n /\ k - 1 # m /\ k \in 0 .. n
      OBVIOUS
    <3>2. g[k - 1] = f[k - 1]
      BY <2>4, <3>1
    <3>3. CASE k = m
      BY <2>4, <3>2, <3>3 DEF value
    <3>4. CASE k # m
      <4>1. k \in 1 .. m - 1 /\ g[k] = f[k]
        BY <2>4, <3>1, <3>4
      <4> QED
        BY <2>1, <3>2, <4>1
    <3> QED
      BY <3>3, <3>4
  <2>7. Defines(g, m)
    BY <2>5, <2>6
  <2> HIDE DEF Defines
  <2> QED
    BY <2>2, <2>4, <2>7
<1>3. n \in T
  <2> HIDE DEF T
  <2>1. \A k \in 0 .. n : k \in T
    BY <1>1, <1>2, UpTo
  <2> QED
    BY <2>1
<1> QED
  BY <1>3
=============================================================================
