------------------------------- MODULE Iteration -------------------------------
(***************************************************************************)
(* Induction over the naturals and primitive recursion, stated with sets   *)
(* and functions so that first-order provers can use them.  The recursive  *)
(* functions of the models (ConstantPropagation, DeadConditionals and the  *)
(* walks of LoopBuilder) are unfolded with them: step[n] makes value n + 1 *)
(* of the function from value n.                                           *)
(***************************************************************************)
EXTENDS Integers, WellFoundedInduction, TLAPS

(* Every set of naturals has a least element. *)
LEMMA LeastElement ==
  ASSUME NEW T \in SUBSET Nat, T # {}
  PROVE  \E x \in T : \A y \in T : x <= y
<1> DEFINE R == OpToRel(<, Nat)
<1>1. IsWellFoundedOn(R, Nat)  BY NatLessThanWellFounded
<1>2. \A x, y \in Nat : <<y, x>> \in R <=> y < x  BY DEF OpToRel
<1> HIDE DEF R
<1>3. PICK x \in T : \A y \in T : ~(<<y, x>> \in R)  BY <1>1, WFMin
<1>4. \A y \in T : y \in Nat /\ x \in Nat /\ ~(y < x)  BY <1>2, <1>3
<1> QED BY <1>4

(* A set that holds 0 and the successors of its members holds every natural. *)
LEMMA SetInduction ==
  ASSUME NEW T, 0 \in T, \A n \in Nat : n \in T => n + 1 \in T
  PROVE  \A n \in Nat : n \in T
<1> SUFFICES ASSUME Nat \ T # {} PROVE FALSE
  OBVIOUS
<1>1. PICK x \in Nat \ T : \A y \in Nat \ T : x <= y  BY LeastElement
<1>2. x - 1 \in Nat  BY <1>1
<1>3. x - 1 \in T  BY <1>1, <1>2
<1> QED BY <1>1, <1>2, <1>3

(* h lists the values of the recursion up to n. *)
IsIteration(h, n, X, x, step) ==
  /\ h \in [0..n -> X]
  /\ h[0] = x
  /\ \A i \in 0..(n - 1) : h[i + 1] = step[i][h[i]]

(* The recursion can be carried to any n. *)
LEMMA IterationExists ==
  ASSUME NEW X, NEW x \in X, NEW step \in [Nat -> [X -> X]]
  PROVE  \A n \in Nat : \E h : IsIteration(h, n, X, x, step)
<1> DEFINE T == {n \in Nat : \E h : IsIteration(h, n, X, x, step)}
<1>1. 0 \in T
  <2>1. IsIteration([i \in 0..0 |-> x], 0, X, x, step)  BY DEF IsIteration
  <2> QED BY <2>1
<1>2. ASSUME NEW n \in Nat, n \in T PROVE n + 1 \in T
  <2>1. PICK h : IsIteration(h, n, X, x, step)  BY <1>2
  <2> DEFINE g == [i \in 0..(n + 1) |-> IF i = n + 1 THEN step[n][h[n]] ELSE h[i]]
  <2>2. h \in [0..n -> X] /\ h[0] = x /\ \A i \in 0..(n - 1) : h[i + 1] = step[i][h[i]]
    BY <2>1 DEF IsIteration
  <2>3. step[n][h[n]] \in X  BY <2>2
  <2>4. g \in [0..(n + 1) -> X]  BY <2>2, <2>3
  <2>5. g[0] = x  BY <2>2
  <2>6. \A i \in 0..((n + 1) - 1) : g[i + 1] = step[i][g[i]]
    BY <2>2
  <2>7. IsIteration(g, n + 1, X, x, step)
    BY <2>4, <2>5, <2>6 DEF IsIteration
  <2> QED BY <2>7
<1> HIDE DEF T
<1>3. \A n \in Nat : n \in T  BY <1>1, <1>2, SetInduction
<1> QED BY <1>3 DEF T

(* Two of them agree where both are defined. *)
LEMMA IterationUnique ==
  ASSUME NEW X, NEW x, NEW step, NEW m \in Nat, NEW n \in Nat, NEW g, NEW h,
         IsIteration(g, m, X, x, step), IsIteration(h, n, X, x, step)
  PROVE  \A i \in Nat : i <= m /\ i <= n => g[i] = h[i]
<1> DEFINE T == {i \in Nat : i <= m /\ i <= n => g[i] = h[i]}
<1>1. 0 \in T  BY DEF IsIteration
<1>2. ASSUME NEW i \in Nat, i \in T PROVE i + 1 \in T
  <2> SUFFICES ASSUME i + 1 <= m, i + 1 <= n PROVE g[i + 1] = h[i + 1]
    OBVIOUS
  <2>1. g[i] = h[i] /\ i \in 0..(m - 1) /\ i \in 0..(n - 1)  BY <1>2
  <2> QED BY <2>1 DEF IsIteration
<1> HIDE DEF T
<1>3. \A i \in Nat : i \in T  BY <1>1, <1>2, SetInduction
<1> QED BY <1>3 DEF T

(* f lists all of them. *)
Iterates(f, X, x, step) ==
  /\ f \in [Nat -> X]
  /\ f[0] = x
  /\ \A n \in Nat : f[n + 1] = step[n][f[n]]

(* Every step function has its recursion. *)
LEMMA IterationFunction ==
  ASSUME NEW X, NEW x \in X, NEW step \in [Nat -> [X -> X]]
  PROVE  \E f : Iterates(f, X, x, step)
<1> DEFINE it(n) == CHOOSE h : IsIteration(h, n, X, x, step)
           f == [n \in Nat |-> it(n)[n]]
<1>1. \A n \in Nat : IsIteration(it(n), n, X, x, step)  BY IterationExists
<1> HIDE DEF it
<1>2. f \in [Nat -> X]
  <2>1. \A n \in Nat : it(n)[n] \in X  BY <1>1 DEF IsIteration
  <2> QED BY <2>1
<1>3. f[0] = x  BY <1>1 DEF IsIteration
<1>4. ASSUME NEW n \in Nat PROVE f[n + 1] = step[n][f[n]]
  <2>1. it(n + 1)[n] = it(n)[n]
    <3>1. IsIteration(it(n + 1), n + 1, X, x, step) /\ IsIteration(it(n), n, X, x, step)
      BY <1>1
    <3> QED BY <3>1, IterationUnique
  <2>2. it(n + 1)[n + 1] = step[n][it(n + 1)[n]]
    <3>1. IsIteration(it(n + 1), n + 1, X, x, step)  BY <1>1
    <3>2. n \in 0..((n + 1) - 1)  OBVIOUS
    <3> QED BY <3>1, <3>2 DEF IsIteration
  <2> QED BY <2>1, <2>2
<1> HIDE DEF f
<1>5. Iterates(f, X, x, step)  BY <1>2, <1>3, <1>4 DEF Iterates
<1> QED BY <1>5
================================================================================
