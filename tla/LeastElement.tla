---------------------------- MODULE LeastElement -----------------------------
(* Every set of natural numbers has a least element: what the proofs use     *)
(* where the code searches a table from its front, and in place of an        *)
(* induction, by looking at the first place where a claim would fail.        *)
EXTENDS Integers, WellFoundedInduction, TLAPS

\* In a well-founded set of numbers that < orders, each part has a least element.
LEMMA LeastOf ==
  ASSUME NEW R, NEW S, IsWellFoundedOn(R, S), NEW T, T \subseteq S, T # {}
  PROVE  S \subseteq Nat /\ (\A x, y \in S : x < y => <<x, y>> \in R)
         => \E n \in T : \A m \in T : n <= m
<1>1. \E x \in T : \A y \in T : ~ (<<y, x>> \in R)
  BY WFMin
<1>2. PICK x \in T : \A y \in T : ~ (<<y, x>> \in R)
  BY <1>1
<1>3. ASSUME S \subseteq Nat, \A y, z \in S : y < z => <<y, z>> \in R, NEW m \in T
      PROVE  x <= m
  <2>1. x \in Nat /\ m \in Nat
    BY <1>3
  <2>2. ~(m < x)
    BY <2>1, <1>2, <1>3
  <2> QED
    BY <2>1, <2>2
<1> QED
  BY <1>3

\* The same of the natural numbers.
THEOREM LeastNat ==
  ASSUME NEW T, T \subseteq Nat, T # {}
  PROVE  \E n \in T : \A m \in T : n <= m
<1>1. \E R : IsWellFoundedOn(R, Nat) /\ \A x, y \in Nat : x < y => <<x, y>> \in R
  <2>1. \A x, y \in Nat : x < y => <<x, y>> \in OpToRel(<, Nat)
    BY DEF OpToRel
  <2> QED
    BY NatLessThanWellFounded, <2>1, Zenon
<1>2. PICK R : IsWellFoundedOn(R, Nat) /\ \A x, y \in Nat : x < y => <<x, y>> \in R
  BY <1>1
<1>3. \E S : S = Nat
  OBVIOUS
<1>4. PICK S : S = Nat
  BY <1>3
<1>5. IsWellFoundedOn(R, S) /\ S \subseteq Nat /\ T \subseteq S
  BY <1>2, <1>4
<1>6. \A x, y \in S : x < y => <<x, y>> \in R
  BY <1>2, <1>4
<1> HIDE <1>4
<1> QED
  BY <1>5, <1>6, LeastOf

\* What CHOOSE gives for the least element of a set that is not empty.
THEOREM LeastChosen ==
  ASSUME NEW T, T \subseteq Nat, T # {}, NEW m,
         m = CHOOSE x \in T : \A y \in T : x <= y
  PROVE  m \in T /\ \A y \in T : m <= y
<1>1. \E x \in T : \A y \in T : x <= y
  BY LeastNat
<1> QED
  BY <1>1, Zenon

\* Induction along an interval, said of a set instead of a predicate.
THEOREM IntervalInduction ==
  ASSUME NEW n \in Nat, NEW Good, 0 \in Good, \A i \in 1..n : i - 1 \in Good => i \in Good
  PROVE  0..n \subseteq Good
<1> DEFINE Bad == (0..n) \ Good
<1> SUFFICES ASSUME Bad # {} PROVE FALSE
  OBVIOUS
<1>1. Bad \subseteq Nat
  OBVIOUS
<1>2. PICK i \in Bad : \A j \in Bad : i <= j
  BY <1>1, LeastNat
<1>3. i \in 1..n /\ i - 1 \in 0..n /\ i - 1 \notin Bad
  BY <1>2
<1> QED
  BY <1>3

\* The step, given as a function for each place, and what it makes of a start.
StaysIn(step, n, S) == \A i \in 1..n : \A x \in S : step[i][x] \in S

Recursion(f, n, start, step) ==
  /\ f[0] = start
  /\ \A i \in 1..n : f[i] = step[i][f[i - 1]]

\* A function defined by recursion along an interval exists and stays in its range,
\* when the step does.
THEOREM RecursionExists ==
  ASSUME NEW n \in Nat, NEW S, NEW start \in S, NEW step, StaysIn(step, n, S)
  PROVE  \E f \in [0..n -> S] : Recursion(f, n, start, step)
<1> DEFINE Follows(f, m) == Recursion(f, m, start, step)
           Good == {m \in 0..n : \E f \in [0..m -> S] : Follows(f, m)}
<1> USE DEF StaysIn, Recursion
<1>1. 0 \in Good
  <2>1. PICK f : f = [i \in 0..0 |-> start]
    OBVIOUS
  <2>2. f \in [0..0 -> S] /\ Follows(f, 0) /\ 0 \in 0..n
    BY <2>1
  <2> QED
    BY <2>2
<1>2. ASSUME NEW m \in 1..n, m - 1 \in Good
      PROVE  m \in Good
  <2>1. PICK f \in [0..(m - 1) -> S] : Follows(f, m - 1)
    BY <1>2
  <2>2. PICK g : g = [i \in 0..m |-> IF i = m THEN step[m][f[m - 1]] ELSE f[i]]
    OBVIOUS
  <2>3. f[m - 1] \in S /\ step[m][f[m - 1]] \in S
    BY <2>1
  <2>4. g \in [0..m -> S]
    BY <2>2, <2>3
  <2>5. Follows(g, m)
    BY <2>1, <2>2
  <2> QED
    BY <2>4, <2>5
<1>3. 0..n \subseteq Good
  <2> HIDE DEF Good
  <2> QED
    BY <1>1, <1>2, IntervalInduction
<1> QED
  BY <1>3

\* The same where the range of each place is its own.
THEOREM RecursionAlong ==
  ASSUME NEW n \in Nat, NEW S, NEW start \in S[0], NEW step,
         \A i \in 1..n : \A x \in S[i - 1] : step[i][x] \in S[i]
  PROVE  \E f : /\ f = [i \in 0..n |-> f[i]]
                /\ Recursion(f, n, start, step)
                /\ \A i \in 0..n : f[i] \in S[i]
<1> DEFINE Follows(f, m) == /\ f = [i \in 0..m |-> f[i]]
                            /\ Recursion(f, m, start, step)
                            /\ \A i \in 0..m : f[i] \in S[i]
           Good == {m \in 0..n : \E f : Follows(f, m)}
<1>1. 0 \in Good
  <2>1. PICK f : f = [i \in 0..0 |-> start]
    OBVIOUS
  <2>2. Follows(f, 0) /\ 0 \in 0..n
    BY <2>1 DEF Recursion
  <2> QED
    BY <2>2
<1>2. ASSUME NEW m \in 1..n, m - 1 \in Good
      PROVE  m \in Good
  <2>1. PICK f : Follows(f, m - 1)
    BY <1>2
  <2>2. PICK g : g = [i \in 0..m |-> IF i = m THEN step[m][f[m - 1]] ELSE f[i]]
    OBVIOUS
  <2>3. f[m - 1] \in S[m - 1] /\ step[m][f[m - 1]] \in S[m]
    BY <2>1
  <2>4. \A i \in 0..m : g[i] = IF i = m THEN step[m][f[m - 1]] ELSE f[i]
    BY <2>2
  <2>5. ASSUME NEW i \in 0..m
        PROVE  g[i] \in S[i]
    <3>1. CASE i = m
      BY <2>3, <2>4, <3>1
    <3>2. CASE i # m
      <4>1. i \in 0..(m - 1)
        BY <3>2
      <4> QED
        BY <2>1, <2>4, <3>2, <4>1
    <3> QED
      BY <3>1, <3>2
  <2>6. Recursion(g, m, start, step)
    <3>1. g[0] = start
      <4>1. 0 \in 0..m /\ 0 # m
        OBVIOUS
      <4>2. f[0] = start
        BY <2>1 DEF Recursion
      <4> QED
        BY <2>4, <4>1, <4>2
    <3>2. ASSUME NEW i \in 1..m
          PROVE  g[i] = step[i][g[i - 1]]
      <4>1. i - 1 \in 0..m /\ i \in 0..m /\ i - 1 # m
        OBVIOUS
      <4>2. g[i - 1] = f[i - 1]
        BY <2>4, <4>1
      <4>3. CASE i = m
        BY <2>4, <4>1, <4>2, <4>3
      <4>4. CASE i # m
        <5>1. i \in 1..(m - 1)
          BY <4>4
        <5>2. f[i] = step[i][f[i - 1]]
          BY <2>1, <5>1 DEF Recursion
        <5> QED
          BY <2>4, <4>1, <4>2, <4>4, <5>2
      <4> QED
        BY <4>3, <4>4
    <3> QED
      BY <3>1, <3>2 DEF Recursion
  <2>7. g = [i \in 0..m |-> g[i]]
    BY <2>2
  <2> QED
    BY <2>5, <2>6, <2>7
<1>3. 0..n \subseteq Good
  <2> HIDE DEF Good
  <2> QED
    BY <1>1, <1>2, IntervalInduction
<1> QED
  BY <1>3
==============================================================================
