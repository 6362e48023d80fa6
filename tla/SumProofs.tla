------------------------------ MODULE SumProofs ------------------------------
(***************************************************************************)
(* Induction over the natural numbers without an operator as parameter: the *)
(* statement is put into a set.  With it, what Sum computes.                *)
(***************************************************************************)
EXTENDS Sums, WellFoundedInduction, TLAPS

\* A set that holds zero and every successor holds all natural numbers.
LEMMA Induction ==
  ASSUME NEW S, 0 \in S, \A n \in Nat : n \in S => n + 1 \in S
  PROVE  Nat \subseteq S
<1> DEFINE R == OpToRel(<, Nat)
           T == Nat \ S
<1>1. SUFFICES ASSUME T # {} PROVE FALSE
  OBVIOUS
<1>2. IsWellFoundedOn(R, Nat)
  BY NatLessThanWellFounded
<1>3. \A x, y \in Nat : <<x, y>> \in R <=> x < y
  BY DEF OpToRel
<1> HIDE DEF R
<1>4. PICK x \in T : \A y \in T : ~ (<<y, x>> \in R)
  BY <1>1, <1>2, WFMin
<1>5. x # 0 /\ x - 1 \in Nat
  BY <1>4
<1>6. x - 1 \in S
  <2>1. <<x - 1, x>> \in R
    BY <1>3, <1>4, <1>5
  <2>2. x - 1 \notin T
    BY <1>4, <2>1
  <2> QED
    BY <1>5, <2>2
<1> QED
  BY <1>4, <1>5, <1>6

\* g is computed from 0 up to n: a first, then by F from the value before.
ComputedBy(g, a, F, n) == g = [i \in 0 .. n |-> IF i = 0 THEN a ELSE F[i][g[i - 1]]]

\* Such a function exists.
LEMMA RecursionExists ==
  ASSUME NEW S, NEW a \in S, NEW F \in [Nat -> [S -> S]], NEW n \in Nat
  PROVE  \E g \in [0 .. n -> S] : ComputedBy(g, a, F, n)
<1> USE DEF ComputedBy
<1> DEFINE P(m) == \E g \in [0 .. m -> S] :
                     g = [i \in 0 .. m |-> IF i = 0 THEN a ELSE F[i][g[i - 1]]]
           N == {m \in Nat : P(m)}
<1>1. P(0)
  <2> DEFINE g == [i \in 0 .. 0 |-> a]
  <2>1. g = [i \in 0 .. 0 |-> IF i = 0 THEN a ELSE F[i][g[i - 1]]]
    OBVIOUS
  <2>2. g \in [0 .. 0 -> S]
    OBVIOUS
  <2> QED
    BY <2>1, <2>2
<1>2. ASSUME NEW m \in Nat, P(m)
      PROVE  P(m + 1)
  <2>1. PICK g \in [0 .. m -> S] :
          g = [i \in 0 .. m |-> IF i = 0 THEN a ELSE F[i][g[i - 1]]]
    BY <1>2
  <2> DEFINE h == [i \in 0 .. (m + 1) |-> IF i = m + 1 THEN F[m + 1][g[m]] ELSE g[i]]
  <2>2. \A i \in 0 .. m : g[i] = IF i = 0 THEN a ELSE F[i][g[i - 1]]
    BY <2>1
  <2>3. g[m] \in S /\ F[m + 1][g[m]] \in S
    OBVIOUS
  <2>4. \A i \in 0 .. (m + 1) : h[i] = IF i = 0 THEN a ELSE F[i][h[i - 1]]
    BY <2>2
  <2>5. h = [i \in 0 .. (m + 1) |-> h[i]] /\ h \in [0 .. (m + 1) -> S]
    BY <2>3
  <2> HIDE DEF h
  <2>6. h = [i \in 0 .. (m + 1) |-> IF i = 0 THEN a ELSE F[i][h[i - 1]]]
    BY <2>4, <2>5
  <2> QED
    BY <2>5, <2>6
<1> HIDE DEF P
<1>3. 0 \in N /\ \A m \in Nat : m \in N => m + 1 \in N
  BY <1>1, <1>2
<1> HIDE DEF N
<1>4. Nat \subseteq N
  BY <1>3, Induction
<1>5. P(n)
  BY <1>4 DEF N
<1> QED
  BY <1>5 DEF P
-----------------------------------------------------------------------------
\* Weights need not be numbers for their sum to unfold.
LEMMA SumUnfolds ==
  ASSUME NEW w
  PROVE  /\ Sum(w, 0) = 0
         /\ \A n \in Nat : Sum(w, n + 1) = Sum(w, n) + w[n + 1]
<1> DEFINE Def(g, m) == g = [i \in 0 .. m |-> IF i = 0 THEN 0 ELSE g[i - 1] + w[i]]
           f(m) == CHOOSE g : Def(g, m)
<1>1. \A m \in Nat : \E g : Def(g, m)
  <2> DEFINE N == {m \in Nat : \E g : Def(g, m)}
  <2>1. 0 \in N
    <3> DEFINE g == [i \in 0 .. 0 |-> 0]
    <3>1. Def(g, 0)
      OBVIOUS
    <3> QED
      BY <3>1
  <2>2. ASSUME NEW m \in Nat, m \in N
        PROVE  m + 1 \in N
    <3>1. PICK g : Def(g, m)
      BY <2>2
    <3> DEFINE h == [i \in 0 .. (m + 1) |-> IF i = m + 1 THEN g[m] + w[m + 1] ELSE g[i]]
    <3>2. \A i \in 0 .. m : g[i] = IF i = 0 THEN 0 ELSE g[i - 1] + w[i]
      BY <3>1
    <3>3. \A i \in 0 .. (m + 1) : h[i] = IF i = 0 THEN 0 ELSE h[i - 1] + w[i]
      BY <3>2
    <3>4. h = [i \in 0 .. (m + 1) |-> h[i]]
      OBVIOUS
    <3> HIDE DEF h
    <3>5. Def(h, m + 1)
      BY <3>3, <3>4
    <3> QED
      BY <3>5
  <2> HIDE DEF N
  <2>3. Nat \subseteq N
    BY <2>1, <2>2, Induction
  <2> QED
    BY <2>3 DEF N
<1>2. \A m \in Nat : Def(f(m), m)
  BY <1>1
<1>3. \A m \in Nat : Sum(w, m) = f(m)[m]
  BY DEF Sum
<1> HIDE DEF f
<1>4. \A m \in Nat : f(m)[0] = 0 /\ \A i \in 1 .. m : f(m)[i] = f(m)[i - 1] + w[i]
  <2> SUFFICES ASSUME NEW m \in Nat
               PROVE  f(m)[0] = 0 /\ \A i \in 1 .. m : f(m)[i] = f(m)[i - 1] + w[i]
    OBVIOUS
  <2>1. f(m) = [i \in 0 .. m |-> IF i = 0 THEN 0 ELSE f(m)[i - 1] + w[i]]
    BY <1>2
  <2>2. 0 \in 0 .. m /\ \A i \in 1 .. m : i \in 0 .. m /\ i # 0
    OBVIOUS
  <2> DEFINE g == f(m)
  <2> HIDE DEF g
  <2>3. g = [i \in 0 .. m |-> IF i = 0 THEN 0 ELSE g[i - 1] + w[i]]
    BY <2>1 DEF g
  <2>4. \A i \in 0 .. m : g[i] = IF i = 0 THEN 0 ELSE g[i - 1] + w[i]
    BY <2>3
  <2> QED
    BY <2>2, <2>4 DEF g
<1>5. \A n \in Nat : \A i \in Nat : i <= n => f(n + 1)[i] = f(n)[i]
  <2> SUFFICES ASSUME NEW n \in Nat
               PROVE  \A i \in Nat : i <= n => f(n + 1)[i] = f(n)[i]
    OBVIOUS
  <2> DEFINE N == {i \in Nat : i <= n => f(n + 1)[i] = f(n)[i]}
  <2>1. 0 \in N
    BY <1>4
  <2>2. ASSUME NEW i \in Nat, i \in N
        PROVE  i + 1 \in N
    <3> SUFFICES ASSUME i + 1 <= n PROVE f(n + 1)[i + 1] = f(n)[i + 1]
      OBVIOUS
    <3>1. i + 1 \in 1 .. n /\ i + 1 \in 1 .. (n + 1) /\ (i + 1) - 1 = i
      OBVIOUS
    <3>2. f(n + 1)[i] = f(n)[i]
      BY <2>2
    <3>3. f(n + 1)[i + 1] = f(n + 1)[i] + w[i + 1]
      BY <1>4, <3>1
    <3>4. f(n)[i + 1] = f(n)[i] + w[i + 1]
      BY <1>4, <3>1
    <3> QED
      BY <3>2, <3>3, <3>4
  <2> HIDE DEF N
  <2>3. Nat \subseteq N
    BY <2>1, <2>2, Induction
  <2> QED
    BY <2>3 DEF N
<1>6. Sum(w, 0) = 0
  BY <1>3, <1>4
<1>7. ASSUME NEW n \in Nat
      PROVE  Sum(w, n + 1) = Sum(w, n) + w[n + 1]
  <2>1. n + 1 \in 1 .. (n + 1) /\ (n + 1) - 1 = n
    OBVIOUS
  <2>2. f(n + 1)[n + 1] = f(n + 1)[n] + w[n + 1]
    BY <1>4, <2>1
  <2>3. f(n + 1)[n] = f(n)[n]
    BY <1>5
  <2> QED
    BY <1>3, <2>2, <2>3
<1> QED
  BY <1>6, <1>7

\* The sum depends on the weights only.
LEMMA SumSame ==
  ASSUME NEW v, NEW w, NEW n \in Nat, \A i \in 1 .. n : v[i] = w[i]
  PROVE  Sum(v, n) = Sum(w, n)
<1> DEFINE N == {m \in Nat : m <= n => Sum(v, m) = Sum(w, m)}
<1>1. 0 \in N
  BY SumUnfolds
<1>2. ASSUME NEW m \in Nat, m \in N
      PROVE  m + 1 \in N
  <2> SUFFICES ASSUME m + 1 <= n PROVE Sum(v, m + 1) = Sum(w, m + 1)
    OBVIOUS
  <2>1. Sum(v, m) = Sum(w, m) /\ v[m + 1] = w[m + 1]
    BY <1>2
  <2>2. Sum(v, m + 1) = Sum(v, m) + v[m + 1] /\ Sum(w, m + 1) = Sum(w, m) + w[m + 1]
    BY SumUnfolds
  <2> QED
    BY <2>1, <2>2
<1> HIDE DEF N
<1>3. Nat \subseteq N
  BY <1>1, <1>2, Induction
<1> QED
  BY <1>3 DEF N

\* Natural weights have a natural sum, and weights of zero have none.
LEMMA SumNatural ==
  ASSUME NEW w, NEW n \in Nat, \A i \in 1 .. n : w[i] \in Nat
  PROVE  /\ Sum(w, n) \in Nat
         /\ (\A i \in 1 .. n : w[i] = 0) => Sum(w, n) = 0
<1> DEFINE N == {m \in Nat : m <= n =>
                   /\ Sum(w, m) \in Nat
                   /\ (\A i \in 1 .. n : w[i] = 0) => Sum(w, m) = 0}
<1>1. 0 \in N
  BY SumUnfolds
<1>2. ASSUME NEW m \in Nat, m \in N
      PROVE  m + 1 \in N
  <2> SUFFICES ASSUME m + 1 <= n
               PROVE  /\ Sum(w, m + 1) \in Nat
                      /\ (\A i \in 1 .. n : w[i] = 0) => Sum(w, m + 1) = 0
    OBVIOUS
  <2>1. Sum(w, m) \in Nat /\ w[m + 1] \in Nat /\ m + 1 \in 1 .. n
    BY <1>2
  <2>2. Sum(w, m + 1) = Sum(w, m) + w[m + 1]
    BY SumUnfolds
  <2>3. (\A i \in 1 .. n : w[i] = 0) => Sum(w, m) = 0
    BY <1>2
  <2> QED
    BY <2>1, <2>2, <2>3
<1> HIDE DEF N
<1>3. Nat \subseteq N
  BY <1>1, <1>2, Induction
<1> QED
  BY <1>3 DEF N

\* The first weight taken off the front.
LEMMA SumShift ==
  ASSUME NEW v, NEW w, NEW n \in Nat,
         \A i \in 1 .. (n + 1) : w[i] \in Nat,
         \A i \in 1 .. n : v[i] = w[i + 1]
  PROVE  Sum(w, n + 1) = w[1] + Sum(v, n)
<1> DEFINE N == {m \in Nat : m <= n => Sum(w, m + 1) = w[1] + Sum(v, m)}
<1>1. 0 \in N
  <2>1. Sum(w, 1) = Sum(w, 0) + w[1]
    <3>1. Sum(w, 0 + 1) = Sum(w, 0) + w[0 + 1]
      BY SumUnfolds
    <3> QED
      BY <3>1
  <2>2. Sum(w, 0) = 0 /\ Sum(v, 0) = 0 /\ w[1] \in Nat
    BY SumUnfolds
  <2> QED
    BY <2>1, <2>2
<1>2. ASSUME NEW m \in Nat, m \in N
      PROVE  m + 1 \in N
  <2> SUFFICES ASSUME m + 1 <= n PROVE Sum(w, (m + 1) + 1) = w[1] + Sum(v, m + 1)
    OBVIOUS
  <2>1. /\ m + 1 \in 1 .. n /\ v[m + 1] = w[(m + 1) + 1]
        /\ w[1] \in Nat /\ w[(m + 1) + 1] \in Nat
    OBVIOUS
  <2>2. Sum(w, m + 1) = w[1] + Sum(v, m)
    BY <1>2
  <2>3. Sum(w, (m + 1) + 1) = Sum(w, m + 1) + w[(m + 1) + 1]
    BY SumUnfolds
  <2>4. Sum(v, m + 1) = Sum(v, m) + v[m + 1]
    BY SumUnfolds
  <2>5. Sum(v, m) \in Nat
    BY SumNatural
  <2> QED
    BY <2>1, <2>2, <2>3, <2>4, <2>5
<1> HIDE DEF N
<1>3. Nat \subseteq N
  BY <1>1, <1>2, Induction
<1> QED
  BY <1>3 DEF N

\* A sum in two parts.
LEMMA SumSplit ==
  ASSUME NEW m \in Nat, NEW n \in Nat, NEW w, NEW v,
         \A i \in 1 .. (m + n) : w[i] \in Nat,
         \A i \in 1 .. n : v[i] = w[m + i]
  PROVE  Sum(w, m + n) = Sum(w, m) + Sum(v, n)
<1> DEFINE N == {k \in Nat : k <= n => Sum(w, m + k) = Sum(w, m) + Sum(v, k)}
<1>1. Sum(w, m) \in Nat
  BY SumNatural
<1>2. 0 \in N
  BY <1>1, SumUnfolds
<1>3. ASSUME NEW k \in Nat, k \in N
      PROVE  k + 1 \in N
  <2> SUFFICES ASSUME k + 1 <= n PROVE Sum(w, m + (k + 1)) = Sum(w, m) + Sum(v, k + 1)
    OBVIOUS
  <2>1. /\ k + 1 \in 1 .. n /\ v[k + 1] = w[m + (k + 1)] /\ (m + k) + 1 = m + (k + 1)
        /\ v[k + 1] \in Nat
    OBVIOUS
  <2>2. Sum(w, m + k) = Sum(w, m) + Sum(v, k)
    BY <1>3
  <2>3. Sum(w, (m + k) + 1) = Sum(w, m + k) + w[(m + k) + 1]
    BY SumUnfolds
  <2>4. Sum(v, k + 1) = Sum(v, k) + v[k + 1]
    BY SumUnfolds
  <2>5. Sum(v, k) \in Nat
    <3>1. \A i \in 1 .. k : v[i] \in Nat
      OBVIOUS
    <3> QED
      BY <3>1, SumNatural
  <2> QED
    BY <1>1, <2>1, <2>2, <2>3, <2>4, <2>5
<1> HIDE DEF N
<1>4. Nat \subseteq N
  BY <1>2, <1>3, Induction
<1> QED
  BY <1>4 DEF N
=============================================================================
