------------------------------ MODULE Recursion ------------------------------
(***************************************************************************)
(* Induction over the naturals, and what a function defined by recursion   *)
(* over them is, in a form that the provers can use: sets instead of       *)
(* predicates, functions instead of operators.                             *)
(***************************************************************************)
EXTENDS Integers, WellFoundedInduction, TLAPS

LEMMA Induction ==
    ASSUME NEW S, 0 \in S, \A n \in Nat : n \in S => n + 1 \in S
    PROVE  \A n \in Nat : n \in S
<1> SUFFICES ASSUME Nat \ S # {} PROVE FALSE
  OBVIOUS
<1>1. PICK x \in Nat \ S : \A y \in Nat \ S : <<y, x>> \notin OpToRel(<, Nat)
  BY WFMin, NatLessThanWellFounded, Nat \ S \subseteq Nat
<1>2. x # 0
  BY <1>1
<1>3. x - 1 \in Nat /\ x - 1 < x /\ x = (x - 1) + 1
  <2>1. x \in Nat
    BY <1>1
  <2> QED BY <1>2, <2>1
<1>4. <<x - 1, x>> \in OpToRel(<, Nat)
  BY <1>1, <1>3 DEF OpToRel
<1>5. x - 1 \in S
  BY <1>1, <1>3, <1>4
<1> QED
  BY <1>1, <1>3, <1>5

\* f is the sequence of base, step[1] of base, step[2] of that, and so on.
Iterates(f, V, n, base, step) ==
    /\ f \in [0 .. n -> V]
    /\ f[0] = base
    /\ \A k \in 1 .. n : f[k] = step[k][f[k - 1]]

LEMMA Iterated ==
    ASSUME NEW V, NEW n \in Nat, NEW base \in V, NEW step \in [1 .. n -> [V -> V]]
    PROVE  \E f : Iterates(f, V, n, base, step)
<1> DEFINE Upto(f, m) ==
              /\ f \in [0 .. n -> V]
              /\ f[0] = base
              /\ \A k \in 1 .. n : k <= m => f[k] = step[k][f[k - 1]]
           S == {m \in Nat : \E f : Upto(f, m)}
<1>1. 0 \in S
  <2>1. Upto([k \in 0 .. n |-> base], 0)
    OBVIOUS
  <2> QED BY <2>1
<1>2. ASSUME NEW m \in Nat, m \in S PROVE m + 1 \in S
  <2>1. PICK f : Upto(f, m)
    BY <1>2
  <2>2. CASE m + 1 \in 1 .. n
    <3> DEFINE g == [f EXCEPT ![m + 1] = step[m + 1][f[m]]]
    <3>1. f[m] \in V /\ step[m + 1][f[m]] \in V
      BY <2>1, <2>2
    <3>2. g \in [0 .. n -> V] /\ g[0] = base
      BY <2>1, <2>2, <3>1
    <3>3. ASSUME NEW k \in 1 .. n, k <= m + 1
          PROVE  g[k] = step[k][g[k - 1]]
      <4>1. CASE k = m + 1
        <5>1. g[k] = step[k][f[m]] /\ g[k - 1] = f[m] /\ k - 1 = m
          BY <2>1, <2>2, <4>1
        <5> QED BY <5>1
      <4>2. CASE k # m + 1
        <5>1. k <= m /\ k - 1 # m + 1 /\ k \in 0 .. n /\ k - 1 \in 0 .. n
          BY <3>3, <4>2
        <5>2. g[k] = f[k] /\ g[k - 1] = f[k - 1]
          BY <2>1, <4>2, <5>1
        <5>3. f[k] = step[k][f[k - 1]]
          BY <2>1, <5>1
        <5> QED BY <5>2, <5>3
      <4> QED BY <4>1, <4>2
    <3>4. Upto(g, m + 1)
      BY <3>2, <3>3
    <3>5. \E h : Upto(h, m + 1)
      BY <3>4
    <3> QED BY <3>5
  <2>3. CASE m + 1 \notin 1 .. n
    <3>1. Upto(f, m + 1)
      BY <2>1, <2>3
    <3> QED BY <3>1
  <2> QED BY <2>2, <2>3
<1> HIDE DEF S
<1>3. n \in S
  BY <1>1, <1>2, Induction
<1>4. PICK f : Upto(f, n)
  BY <1>3 DEF S
<1>5. Iterates(f, V, n, base, step)
  BY <1>4 DEF Iterates
<1> QED BY <1>5
=============================================================================
