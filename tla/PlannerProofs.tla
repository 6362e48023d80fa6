---------------------------- MODULE PlannerProofs ----------------------------
(***************************************************************************)
(* Proofs about the plan and the speed of the machine, for every size of    *)
(* the two buffers and whatever motions and overrides are sent:             *)
(*   - the plan is optimal outside of a hold (PlanOptimal);                 *)
(*   - the generator brakes to the speed the plan has now (ExitMatchesPlan); *)
(*   - the speed changes by no more than the steps made allow, across       *)
(*     blocks, re-planning, holds and resumes (MotionContinuous).           *)
(* All three follow from one inductive invariant, DriveInv: the plan of the *)
(* queue, seen as a sequence of speeds, limits and lengths, can be driven   *)
(* and cannot be improved, and the profile of the block in execution is     *)
(* that of the plan.                                                        *)
(***************************************************************************)
EXTENDS PipelineProofs

-----------------------------------------------------------------------------
\* The best plan.

\* Of a queue of Q blocks, u are the speeds at the junctions (0 where the
\* machine is, Q the end), m the highest speeds allowed there and g the lengths.

Speeds(Q) == [0 .. Q -> Int]
Lengths(Q) == [0 .. (Q - 1) -> Nat]

\* The plan can be driven: no speed is higher than allowed, nor than what the
\* block behind it can brake from.
Drivable(u, m, g, Q) ==
  /\ u[Q] = 0
  /\ \A k \in 1 .. (Q - 1) : u[k] <= m[k]
  /\ \A k \in 0 .. (Q - 1) : u[k] <= u[k + 1] + g[k]

\* And it cannot be improved: each speed is the highest allowed, or as fast as
\* the block before accelerates to or, but for the planned block c, as fast as
\* the block behind brakes from.
Unimprovable(u, m, g, Q, c) ==
  \A k \in 1 .. (Q - 1) :
    /\ u[k] <= u[k - 1] + g[k - 1]
    /\ \/ u[k] = m[k]
       \/ u[k] = u[k - 1] + g[k - 1]
       \/ u[k] = u[k + 1] + g[k] /\ k # c

\* What junction j alone allows.
Allowed(u, m, Q, j) == IF j = 0 THEN u[0] ELSE IF j = Q THEN 0 ELSE m[j]

\* Where the junctions are.
Spaced(s, g, Q) == \A k \in 0 .. (Q - 1) : s[k + 1] = s[k] + g[k]
Positive(g, Q) == \A k \in 0 .. (Q - 1) : g[k] > 0

\* No speed is above what any junction allows at its distance.
LEMMA PlanBounded ==
  ASSUME NEW Q \in Nat, NEW u \in Speeds(Q), NEW m \in Lengths(Q),
         NEW g \in Lengths(Q), NEW c, NEW s \in Speeds(Q),
         Drivable(u, m, g, Q), Unimprovable(u, m, g, Q, c),
         Spaced(s, g, Q),
         NEW k \in 1 .. (Q - 1), NEW j \in 0 .. Q
  PROVE  u[k] <= Allowed(u, m, Q, j) + (IF j <= k THEN s[k] - s[j] ELSE s[j] - s[k])
<1>1. /\ \A i \in 0 .. Q : u[i] \in Int /\ s[i] \in Int
      /\ \A i \in 0 .. (Q - 1) : m[i] \in Int /\ g[i] \in Nat
  BY DEF Speeds, Lengths
<1>2. u[j] <= Allowed(u, m, Q, j)
  <2>1. j = 0 \/ j = Q \/ j \in 1 .. (Q - 1)
    OBVIOUS
  <2> QED
    BY <1>1, <2>1 DEF Allowed, Drivable
<1>3. CASE j <= k
  <2> DEFINE N == {n \in Nat : j + n <= k => u[j + n] <= u[j] + (s[j + n] - s[j])}
  <2>1. 0 \in N
    BY <1>1
  <2>2. ASSUME NEW n \in Nat, n \in N PROVE n + 1 \in N
    <3> SUFFICES ASSUME j + (n + 1) <= k
                 PROVE  u[j + (n + 1)] <= u[j] + (s[j + (n + 1)] - s[j])
      OBVIOUS
    <3>1. PICK i \in 0 .. (Q - 1) : i = j + n /\ i + 1 = j + (n + 1)
      OBVIOUS
    <3>2. u[i] <= u[j] + (s[i] - s[j])
      BY <2>2, <3>1
    <3>3. u[i + 1] <= u[i] + g[i]
      <4>1. i + 1 \in 1 .. (Q - 1) /\ (i + 1) - 1 = i
        BY <3>1
      <4> QED
        BY <4>1 DEF Unimprovable
    <3>4. s[i + 1] = s[i] + g[i]
      BY DEF Spaced
    <3>5. u[i] \in Int /\ u[i + 1] \in Int /\ s[i] \in Int /\ s[j] \in Int /\ u[j] \in Int
          /\ g[i] \in Int
      BY <1>1
    <3>6. u[i + 1] <= u[j] + (s[i + 1] - s[j])
      BY <3>2, <3>3, <3>4, <3>5
    <3> QED
      BY <3>1, <3>6
  <2> HIDE DEF N
  <2>3. Nat \subseteq N
    BY <2>1, <2>2, Induction
  <2>4. PICK n \in Nat : k = j + n
    <3>1. k - j \in Nat /\ k = j + (k - j)
      BY <1>3
    <3> QED
      BY <3>1
  <2>5. u[k] <= u[j] + (s[k] - s[j])
    BY <2>3, <2>4 DEF N
  <2>6. Allowed(u, m, Q, j) \in Int
    BY <1>1 DEF Allowed
  <2> QED
    BY <1>1, <1>2, <1>3, <2>5, <2>6
<1>4. CASE ~ (j <= k)
  <2> DEFINE N == {n \in Nat : k + n <= j => u[k] <= u[k + n] + (s[k + n] - s[k])}
  <2>1. 0 \in N
    BY <1>1
  <2>2. ASSUME NEW n \in Nat, n \in N PROVE n + 1 \in N
    <3> SUFFICES ASSUME k + (n + 1) <= j
                 PROVE  u[k] <= u[k + (n + 1)] + (s[k + (n + 1)] - s[k])
      OBVIOUS
    <3>1. PICK i \in 0 .. (Q - 1) : i = k + n /\ i + 1 = k + (n + 1)
      OBVIOUS
    <3>2. u[k] <= u[i] + (s[i] - s[k])
      BY <2>2, <3>1
    <3>3. u[i] <= u[i + 1] + g[i] /\ s[i + 1] = s[i] + g[i]
      BY DEF Drivable, Spaced
    <3>5. u[i] \in Int /\ u[i + 1] \in Int /\ s[i] \in Int /\ s[k] \in Int /\ u[k] \in Int
          /\ g[i] \in Int
      BY <1>1
    <3>6. u[k] <= u[i + 1] + (s[i + 1] - s[k])
      BY <3>2, <3>3, <3>5
    <3> QED
      BY <3>1, <3>6
  <2> HIDE DEF N
  <2>3. Nat \subseteq N
    BY <2>1, <2>2, Induction
  <2>4. PICK n \in Nat : j = k + n
    <3>1. j - k \in Nat /\ j = k + (j - k)
      BY <1>4
    <3> QED
      BY <3>1
  <2>5. u[k] <= u[j] + (s[j] - s[k])
    BY <2>3, <2>4 DEF N
  <2>6. Allowed(u, m, Q, j) \in Int
    BY <1>1 DEF Allowed
  <2> QED
    BY <1>1, <1>2, <1>4, <2>5, <2>6
<1> QED
  BY <1>3, <1>4

\* And some junction allows no more.
LEMMA PlanAttained ==
  ASSUME NEW Q \in Nat, NEW u \in Speeds(Q), NEW m \in Lengths(Q),
         NEW g \in Lengths(Q), NEW c, NEW s \in Speeds(Q),
         Drivable(u, m, g, Q), Unimprovable(u, m, g, Q, c),
         Spaced(s, g, Q), Positive(g, Q),
         NEW k \in 1 .. (Q - 1)
  PROVE  \E j \in 0 .. Q :
           u[k] = Allowed(u, m, Q, j) + (IF j <= k THEN s[k] - s[j] ELSE s[j] - s[k])
<1> DEFINE Left(n, j) == j < n /\ u[n] = Allowed(u, m, Q, j) + (s[n] - s[j])
           Right(n, j) == j > n /\ u[n] = Allowed(u, m, Q, j) + (s[j] - s[n])
<1>1. /\ \A i \in 0 .. Q : u[i] \in Int /\ s[i] \in Int
      /\ \A i \in 0 .. (Q - 1) : m[i] \in Int /\ g[i] \in Nat /\ g[i] > 0 /\ s[i + 1] = s[i] + g[i]
  BY DEF Spaced, Positive, Speeds, Lengths
<1>2. \A i \in 1 .. (Q - 1) : \/ u[i] = m[i]
                              \/ u[i] = u[i - 1] + g[i - 1]
                              \/ u[i] = u[i + 1] + g[i]
  BY DEF Unimprovable
<1>3. \A i \in 1 .. (Q - 1) : u[i] = u[i - 1] + g[i - 1] => \E j \in 0 .. Q : Left(i, j)
  <2> DEFINE N == {n \in Nat : n + 1 \in 1 .. (Q - 1) /\ u[n + 1] = u[n] + g[n]
                               => \E j \in 0 .. Q : Left(n + 1, j)}
  <2>1. 0 \in N
    <3> SUFFICES ASSUME 1 \in 1 .. (Q - 1), u[1] = u[0] + g[0] PROVE Left(1, 0)
      OBVIOUS
    <3>1. 0 \in 0 .. (Q - 1) /\ 0 + 1 = 1
      OBVIOUS
    <3>2. s[1] = s[0] + g[0] /\ u[0] \in Int /\ s[0] \in Int /\ g[0] \in Int
      BY <1>1, <3>1
    <3> QED
      BY <3>2 DEF Allowed
  <2>2. ASSUME NEW n \in Nat, n \in N PROVE n + 1 \in N
    <3> SUFFICES ASSUME (n + 1) + 1 \in 1 .. (Q - 1), u[(n + 1) + 1] = u[n + 1] + g[n + 1]
                 PROVE  \E j \in 0 .. Q : Left((n + 1) + 1, j)
      OBVIOUS
    <3>1. PICK i \in 1 .. (Q - 1) : i = n + 1
      OBVIOUS
    <3>2. i + 1 \in 1 .. (Q - 1) /\ i \in 0 .. (Q - 1) /\ i - 1 = n /\ n \in 0 .. (Q - 1)
      BY <3>1
    <3>3. /\ u[i + 1] \in Int /\ u[i] \in Int /\ s[i + 1] = s[i] + g[i] /\ s[i] \in Int
          /\ g[i] \in Nat /\ g[i] > 0 /\ u[i + 1] = u[i] + g[i] /\ m[i] \in Int
      BY <1>1, <3>1, <3>2
    <3>4. CASE u[i] = m[i]
      <4>1. Allowed(u, m, Q, i) = m[i] /\ i \in 0 .. Q
        BY <3>1 DEF Allowed
      <4>2. Left(i + 1, i)
        BY <3>3, <3>4, <4>1
      <4> QED
        BY <3>1, <4>1, <4>2
    <3>5. CASE u[i] = u[i - 1] + g[i - 1]
      <4>1. PICK j \in 0 .. Q : Left(i, j)
        BY <2>2, <3>1, <3>2, <3>5
      <4>2. Allowed(u, m, Q, j) \in Int /\ s[j] \in Int
        BY <1>1 DEF Allowed
      <4>3. Left(i + 1, j)
        BY <3>3, <4>1, <4>2
      <4> QED
        BY <3>1, <4>3
    <3>6. ~ (u[i] = u[i + 1] + g[i])
      BY <3>3
    <3> QED
      BY <1>2, <3>4, <3>5, <3>6
  <2> HIDE DEF N
  <2>3. Nat \subseteq N
    BY <2>1, <2>2, Induction
  <2> SUFFICES ASSUME NEW i \in 1 .. (Q - 1), u[i] = u[i - 1] + g[i - 1]
               PROVE  \E j \in 0 .. Q : Left(i, j)
    OBVIOUS
  <2>4. PICK n \in Nat : n = i - 1 /\ n + 1 = i
    OBVIOUS
  <2>5. n \in N
    BY <2>3
  <2> QED
    BY <2>4, <2>5 DEF N
<1>4. \A i \in 1 .. (Q - 1) : u[i] = u[i + 1] + g[i] => \E j \in 0 .. Q : Right(i, j)
  <2> DEFINE N == {n \in Nat : \A i \in 1 .. (Q - 1) :
                     i = Q - 1 - n /\ u[i] = u[i + 1] + g[i] => \E j \in 0 .. Q : Right(i, j)}
  <2>1. 0 \in N
    <3> SUFFICES ASSUME NEW i \in 1 .. (Q - 1), i = Q - 1 - 0, u[i] = u[i + 1] + g[i]
                 PROVE  Right(i, Q)
      OBVIOUS
    <3>1. i + 1 = Q /\ i \in 0 .. (Q - 1)
      OBVIOUS
    <3>2. s[i + 1] = s[i] + g[i] /\ s[i] \in Int /\ g[i] \in Int /\ u[i] \in Int
      BY <1>1, <3>1
    <3>3. Allowed(u, m, Q, Q) = 0 /\ u[Q] = 0
      BY DEF Allowed, Drivable
    <3>4. s[Q] = s[i] + g[i] /\ u[i] = g[i]
      BY <3>1, <3>2, <3>3
    <3> QED
      BY <3>2, <3>3, <3>4
  <2>2. ASSUME NEW n \in Nat, n \in N PROVE n + 1 \in N
    <3> SUFFICES ASSUME NEW i \in 1 .. (Q - 1), i = Q - 1 - (n + 1), u[i] = u[i + 1] + g[i]
                 PROVE  \E j \in 0 .. Q : Right(i, j)
      OBVIOUS
    <3>1. PICK l \in 1 .. (Q - 1) : l = i + 1 /\ l - 1 = i /\ l = Q - 1 - n
      OBVIOUS
    <3>2. i \in 0 .. (Q - 1) /\ l \in 0 .. Q
      OBVIOUS
    <3>3. /\ u[l] \in Int /\ u[i] \in Int /\ s[l] = s[i] + g[i] /\ s[i] \in Int
          /\ g[i] \in Nat /\ g[i] > 0 /\ u[i] = u[l] + g[i]
      BY <1>1, <3>1, <3>2
    <3>4. CASE u[l] = m[l]
      <4>1. Allowed(u, m, Q, l) = m[l]
        BY DEF Allowed
      <4>2. Right(i, l)
        BY <3>1, <3>3, <3>4, <4>1
      <4> QED
        BY <3>2, <4>2
    <3>5. CASE u[l] = u[l + 1] + g[l]
      <4>1. PICK j \in 0 .. Q : Right(l, j)
        BY <2>2, <3>1, <3>5
      <4>2. Allowed(u, m, Q, j) \in Int /\ s[j] \in Int
        BY <1>1 DEF Allowed
      <4>4. j > i /\ u[l] = Allowed(u, m, Q, j) + (s[j] - s[l])
        BY <3>1, <4>1
      <4>5. u[i] = Allowed(u, m, Q, j) + (s[j] - s[i])
        BY ONLY <3>3, <4>2, <4>4
      <4>3. Right(i, j)
        BY <4>4, <4>5
      <4> QED
        BY <4>3
    <3>6. ~ (u[l] = u[l - 1] + g[l - 1])
      BY <3>1, <3>3
    <3> QED
      BY <1>2, <3>4, <3>5, <3>6
  <2> HIDE DEF N
  <2>3. Nat \subseteq N
    BY <2>1, <2>2, Induction
  <2> SUFFICES ASSUME NEW i \in 1 .. (Q - 1), u[i] = u[i + 1] + g[i]
               PROVE  \E j \in 0 .. Q : Right(i, j)
    OBVIOUS
  <2>4. PICK n \in Nat : i = Q - 1 - n
    <3>1. (Q - 1 - i) \in Nat /\ i = Q - 1 - (Q - 1 - i)
      OBVIOUS
    <3> QED
      BY <3>1
  <2>5. n \in N
    BY <2>3
  <2> QED
    BY <2>4, <2>5 DEF N
<1>5. CASE u[k] = m[k]
  <2>3. k # 0 /\ k # Q /\ k \in 0 .. Q /\ k \in 0 .. (Q - 1)
    OBVIOUS
  <2>1. /\ Allowed(u, m, Q, k) = m[k] /\ k \in 0 .. Q /\ m[k] \in Int /\ s[k] \in Int
    BY <1>1, <2>3 DEF Allowed
  <2>2. u[k] = Allowed(u, m, Q, k) + (s[k] - s[k])
    BY <1>5, <2>1
  <2> QED
    BY <2>1, <2>2
<1>6. CASE u[k] = u[k - 1] + g[k - 1]
  <2>1. PICK j \in 0 .. Q : Left(k, j)
    BY <1>3, <1>6
  <2> QED
    BY <2>1
<1>7. CASE u[k] = u[k + 1] + g[k]
  <2>1. PICK j \in 0 .. Q : Right(k, j)
    BY <1>4, <1>7
  <2> QED
    BY <2>1
<1> QED
  BY <1>2, <1>5, <1>6, <1>7

\* Planning again from block a on: of the speeds x it makes y, with the new
\* planned block c.
PassesFrom(x, y, m, g, Q, a, c) ==
  /\ c \in a .. (Q - 1)
  /\ y[Q] = 0
  /\ \A k \in 0 .. a : y[k] = x[k]
  /\ \A k \in a .. (Q - 1) : y[k] <= y[k + 1] + g[k]
  /\ \A k \in (a + 1) .. (Q - 1) :
       /\ y[k] <= m[k]
       /\ y[k] <= y[k - 1] + g[k - 1]
       /\ \/ y[k] = m[k]
          \/ y[k] = y[k - 1] + g[k - 1]
          \/ y[k] = y[k + 1] + g[k] /\ k # c

\* A plan that can be driven stays one, and one that cannot be improved up to
\* block a cannot be improved at all.
LEMMA PassesKeep ==
  ASSUME NEW Q \in Nat, NEW x \in Speeds(Q), NEW y \in Speeds(Q), NEW m \in Lengths(Q),
         NEW g \in Lengths(Q), NEW a \in 0 .. (Q - 1), NEW c,
         PassesFrom(x, y, m, g, Q, a, c), Drivable(x, m, g, Q)
  PROVE  /\ Drivable(y, m, g, Q)
         /\ Unimprovable(x, m, g, a + 1, a) => Unimprovable(y, m, g, Q, c)
<1>1. /\ c \in a .. (Q - 1)
      /\ y[Q] = 0
      /\ \A k \in 0 .. a : y[k] = x[k]
      /\ \A k \in a .. (Q - 1) : y[k] <= y[k + 1] + g[k]
      /\ \A k \in (a + 1) .. (Q - 1) :
           /\ y[k] <= m[k]
           /\ y[k] <= y[k - 1] + g[k - 1]
           /\ \/ y[k] = m[k]
              \/ y[k] = y[k - 1] + g[k - 1]
              \/ y[k] = y[k + 1] + g[k] /\ k # c
  BY DEF PassesFrom
<1>2. /\ \A k \in 1 .. (Q - 1) : x[k] <= m[k]
      /\ \A k \in 0 .. (Q - 1) : x[k] <= x[k + 1] + g[k]
  BY DEF Drivable
<1>3. ASSUME NEW k \in 1 .. (Q - 1) PROVE y[k] <= m[k]
  <2>1. CASE k <= a
    BY <1>1, <1>2, <2>1
  <2>2. CASE k > a
    BY <1>1, <2>2
  <2> QED
    BY <2>1, <2>2
<1>4. ASSUME NEW k \in 0 .. (Q - 1) PROVE y[k] <= y[k + 1] + g[k]
  <2>1. CASE k < a
    <3>1. y[k] = x[k] /\ y[k + 1] = x[k + 1]
      BY <1>1, <2>1
    <3> QED
      BY <1>2, <3>1
  <2>2. CASE k >= a
    BY <1>1, <2>2
  <2> QED
    BY <2>1, <2>2
<1>5. Drivable(y, m, g, Q)
  BY <1>1, <1>3, <1>4 DEF Drivable
<1>6. ASSUME Unimprovable(x, m, g, a + 1, a), NEW k \in 1 .. (Q - 1)
      PROVE  /\ y[k] <= y[k - 1] + g[k - 1]
             /\ \/ y[k] = m[k]
                \/ y[k] = y[k - 1] + g[k - 1]
                \/ y[k] = y[k + 1] + g[k] /\ k # c
  <2>1. CASE k <= a
    <3>0. k \in 1 .. ((a + 1) - 1)
      BY <2>1
    <3>1. /\ x[k] <= x[k - 1] + g[k - 1]
          /\ \/ x[k] = m[k]
             \/ x[k] = x[k - 1] + g[k - 1]
             \/ x[k] = x[k + 1] + g[k] /\ k # a
      BY <1>6, <3>0 DEF Unimprovable
    <3>2. y[k] = x[k] /\ y[k - 1] = x[k - 1]
      BY <1>1, <2>1
    <3>3. k # a => y[k + 1] = x[k + 1] /\ k # c
      BY <1>1, <2>1
    <3> QED
      BY <3>1, <3>2, <3>3
  <2>2. CASE k > a
    BY <1>1, <2>2
  <2> QED
    BY <2>1, <2>2
<1> QED
  BY <1>5, <1>6 DEF Unimprovable

\* Junctions x and the limits m and lengths g are those of ring b from i on.
Enters(b, i, Q, x) == \A k \in 1 .. (Q - 1) : x[k] = b[At(i, k)].entry
Extends(b, i, Q, m, g) ==
  \A k \in 0 .. (Q - 1) : m[k] = b[At(i, k)].max /\ g[k] = b[At(i, k)].gain

\* planner_recalculate makes these passes over a queue whose first speed the
\* generator may know better than the ring.
LEMMA RingReplanned ==
  ASSUME NEW b \in [Indices -> Block], NEW i \in Indices, NEW h \in Indices, NEW p \in Indices,
         NEW Q \in Nat, Q = Distance(i, h), NEW a \in Nat, a = Distance(i, p), a < Q,
         NEW new, new = Recalculated(b, h, p), NEW c, c = Distance(i, NewPlanned(b, h, p)),
         NEW x \in Speeds(Q), NEW y \in Speeds(Q), NEW m \in Lengths(Q), NEW g \in Lengths(Q),
         Extends(b, i, Q, m, g), Enters(b, i, Q, x), Enters(new, i, Q, y),
         y[Q] = 0, y[0] = x[0], a = 0 => x[0] = b[At(i, 0)].entry,
         Drivable(x, m, g, Q)
  PROVE  PassesFrom(x, y, m, g, Q, a, c)
<1> USE DEF Enters, Extends
<1>1. /\ x[Q] = 0
      /\ \A k \in 1 .. (Q - 1) : x[k] <= m[k]
      /\ \A k \in 0 .. (Q - 1) : x[k] <= x[k + 1] + g[k]
  BY DEF Drivable
<1>2. \A k \in a .. (Q - 1) : x[k] = b[At(i, k)].entry
  OBVIOUS
<1>3. \A k \in a .. (Q - 1) : EntryIn(b, i, Q, k + 1) = x[k + 1]
  BY <1>1 DEF EntryIn
<1>4. ASSUME NEW k \in a .. (Q - 1)
      PROVE  /\ b[At(i, k)].entry <= EntryIn(b, i, Q, k + 1) + b[At(i, k)].gain
             /\ k # a => b[At(i, k)].entry <= b[At(i, k)].max
  BY <1>1, <1>2, <1>3
<1>5. /\ c \in a .. (Q - 1)
      /\ \A k \in 0 .. a : new[At(i, k)].entry = b[At(i, k)].entry
      /\ \A k \in a .. (Q - 1) :
           /\ new[At(i, k)].entry <= EntryIn(new, i, Q, k + 1) + b[At(i, k)].gain
           /\ k # a =>
                /\ new[At(i, k)].entry <= b[At(i, k)].max
                /\ new[At(i, k)].entry <= new[At(i, k - 1)].entry + b[At(i, k - 1)].gain
                /\ \/ new[At(i, k)].entry = b[At(i, k)].max
                   \/ new[At(i, k)].entry
                        = new[At(i, k - 1)].entry + b[At(i, k - 1)].gain
                   \/ /\ k # c
                      /\ new[At(i, k)].entry
                           = EntryIn(new, i, Q, k + 1) + b[At(i, k)].gain
  <2>1. b \in [Indices -> Block] /\ i \in Indices /\ h \in Indices /\ p \in Indices
    OBVIOUS
  <2>2. Q = Distance(i, h) /\ a = Distance(i, p) /\ a < Q
        /\ new = Recalculated(b, h, p) /\ c = Distance(i, NewPlanned(b, h, p))
    OBVIOUS
  <2>3. \A k \in a .. (Q - 1) :
          /\ b[At(i, k)].entry <= EntryIn(b, i, Q, k + 1) + b[At(i, k)].gain
          /\ k # a => b[At(i, k)].entry <= b[At(i, k)].max
    BY ONLY <1>4
  <2> QED
    BY ONLY <2>1, <2>2, <2>3, Replanned
<1>6. \A k \in a .. (Q - 1) : y[k] = new[At(i, k)].entry
  <2>1. CASE a = 0
    BY <1>5, <2>1
  <2>2. CASE a # 0
    BY <2>2
  <2> QED
    BY <2>1, <2>2
<1>7. \A k \in a .. (Q - 1) : EntryIn(new, i, Q, k + 1) = y[k + 1]
  BY <1>6 DEF EntryIn
<1>8. \A k \in 0 .. a : y[k] = x[k]
  BY <1>5
<1>9. \A k \in a .. (Q - 1) : y[k] <= y[k + 1] + g[k]
  BY <1>5, <1>6, <1>7
<1>10. ASSUME NEW k \in (a + 1) .. (Q - 1)
       PROVE  /\ y[k] <= m[k]
              /\ y[k] <= y[k - 1] + g[k - 1]
              /\ \/ y[k] = m[k]
                 \/ y[k] = y[k - 1] + g[k - 1]
                 \/ y[k] = y[k + 1] + g[k] /\ k # c
  <2>1. k \in a .. (Q - 1) /\ k # a /\ k - 1 \in a .. (Q - 1) /\ k - 1 \in 0 .. (Q - 1)
        /\ k \in 0 .. (Q - 1)
    OBVIOUS
  <2>2. /\ y[k] = new[At(i, k)].entry /\ y[k - 1] = new[At(i, k - 1)].entry
        /\ EntryIn(new, i, Q, k + 1) = y[k + 1]
        /\ m[k] = b[At(i, k)].max /\ g[k] = b[At(i, k)].gain /\ g[k - 1] = b[At(i, k - 1)].gain
    BY <1>6, <1>7, <2>1
  <2>3. /\ new[At(i, k)].entry <= b[At(i, k)].max
        /\ new[At(i, k)].entry <= new[At(i, k - 1)].entry + b[At(i, k - 1)].gain
        /\ \/ new[At(i, k)].entry = b[At(i, k)].max
           \/ new[At(i, k)].entry
                = new[At(i, k - 1)].entry + b[At(i, k - 1)].gain
           \/ /\ k # c
              /\ new[At(i, k)].entry
                   = EntryIn(new, i, Q, k + 1) + b[At(i, k)].gain
    BY <1>5, <2>1
  <2> QED
    BY ONLY <2>2, <2>3
<1> QED
  BY <1>5, <1>8, <1>9, <1>10 DEF PassesFrom

-----------------------------------------------------------------------------
\* The plan of the queue.

\* How fast the machine is, or will be, where the queue begins.
Here == IF prep.loaded THEN prep.speed ELSE Entry(0)

\* The queue as the lemmas above see one.
Junctions == [k \in 0 .. Queued |-> IF k = 0 THEN Here ELSE Entry(k)]
Maxima == [k \in 0 .. (Queued - 1) |-> block_buffer[At(tail, k)].max]
Gains == [k \in 0 .. (Queued - 1) |-> Gain(k)]

\* Speeds are not negative, a deceleration does not end below zero, and a block
\* to be loaded again has learnt the speed it has reached.
SpeedInv ==
  /\ \A i \in Indices : block_buffer[i].entry >= 0
  /\ prep.speed >= 0 /\ prep.exit >= 0
  /\ prep.loaded /\ prep.decelerate => prep.speed - (Gain(0) - prep.complete) >= 0
  /\ prep.recalculate => Entry(0) = prep.speed

\* A hold decelerates all the way, and only a hold ends within a block.
HoldInv ==
  /\ execute_hold => mode = "HOLD" /\ ~hold_complete
  /\ hold_complete => mode = "HOLD"
  /\ prep.loaded /\ (prep.complete # 0 \/ end_motion) => execute_hold
  /\ prep.loaded /\ prep.complete # 0 => prep.exit = 0
  /\ prep.loaded /\ execute_hold =>
       prep.decelerate /\ prep.speed - prep.exit = Gain(0) - prep.complete

\* The highest speed a block may be entered at is up to date.
MaximaInv ==
  /\ \A k \in 1 .. (Queued - 1) :
       block_buffer[At(tail, k)].max
         = MaxEntry(block_buffer[At(tail, k)].junction,
                    Nominal(block_buffer[At(tail, k)], override),
                    Nominal(block_buffer[At(tail, k - 1)], override))
  /\ Queued > 0 => previous_nominal = Nominal(block_buffer[At(tail, Queued - 1)], override)

\* The plan can be driven, by the block in execution too; outside of a hold it
\* cannot be improved.
PlanDriven ==
  /\ Drivable(Junctions, Maxima, Gains, Queued)
  /\ Queued > 0 => Here <= Nominal(block_buffer[tail], override)
  /\ ~prep.decel_override
  /\ ~InProgress => prep.exit <= Entry(0)
  /\ ~execute_hold =>
       /\ Unimprovable(Junctions, Maxima, Gains, Queued, Distance(tail, planned))
       /\ prep.loaded /\ prep.decelerate => prep.speed - prep.exit >= Gain(0)

\* What the generator relies on.
ProfileInv == PlannedInv /\ SpeedInv /\ HoldInv

\* The inductive invariant.
PlanInv ==
  /\ ProfileInv /\ MaximaInv /\ ExitMatchesPlan
  /\ ~reduced => PlanDriven

-----------------------------------------------------------------------------
\* What the queue looks like.

\* The queue as its three functions see it, and where its blocks lie in the ring.
LEMMA QueueViews ==
  ASSUME PlannedInv
  PROVE  /\ PipelineTypes /\ Queued \in Nat /\ Queued < BLOCK_BUFFER_SIZE
         /\ Junctions \in Speeds(Queued) /\ Maxima \in Lengths(Queued) /\ Gains \in Lengths(Queued)
         /\ Positive(Gains, Queued)
         /\ Here \in Int
         /\ \A k \in 0 .. (Queued - 1) :
              /\ k \in Indices /\ At(tail, k) \in Indices /\ At(tail, k) # head
              /\ Distance(tail, At(tail, k)) = k
              /\ block_buffer[At(tail, k)] \in Block
              /\ Entry(k) = block_buffer[At(tail, k)].entry
         /\ Entry(Queued) = 0
         /\ Queued > 0 => At(tail, 0) = tail /\ Entry(0) = block_buffer[tail].entry
                          /\ Gain(0) = block_buffer[tail].gain
<1>1. PipelineTypes /\ BlocksInOrder
  BY DEF PlannedInv, QueueInv, QueueAgrees
<1>2. Queued \in Nat /\ Queued < BLOCK_BUFFER_SIZE /\ tail \in Indices /\ head \in Indices
      /\ block_buffer \in [Indices -> Block]
  BY <1>1, QueueRing DEF PipelineTypes
<1>3. ASSUME NEW k \in 0 .. (Queued - 1)
      PROVE  /\ k \in Indices /\ At(tail, k) \in Indices /\ At(tail, k) # head
             /\ Distance(tail, At(tail, k)) = k
             /\ block_buffer[At(tail, k)] \in Block
             /\ Entry(k) = block_buffer[At(tail, k)].entry
             /\ Gain(k) \in Nat /\ Gain(k) > 0
  <2>1. k + 1 \in 1 .. Queued /\ (k + 1) - 1 = k /\ k # Queued
    BY <1>2
  <2>2. /\ k \in Indices /\ At(tail, k) \in Indices /\ At(tail, k) # head
        /\ Distance(tail, At(tail, k)) = k
    BY <1>1, <2>1, QueueRing
  <2>3. QueuedBlock(k + 1).gain # 0 /\ QueuedBlock(k + 1) = block_buffer[At(tail, k)]
    BY <1>1, <2>1 DEF BlocksInOrder, QueuedBlock
  <2>4. block_buffer[At(tail, k)] \in Block
    BY <1>2, <2>2
  <2>5. Gain(k) \in Nat /\ Gain(k) > 0
    BY <2>3, <2>4 DEF Gain, Block
  <2> QED
    BY <2>1, <2>2, <2>4, <2>5 DEF Entry
<1>4. Entry(Queued) = 0
  BY DEF Entry
<1>5. \A k \in 0 .. Queued : Entry(k) \in Int
  <2> SUFFICES ASSUME NEW k \in 0 .. Queued PROVE Entry(k) \in Int
    OBVIOUS
  <2>1. CASE k = Queued
    BY <1>4, <2>1
  <2>2. CASE k # Queued
    <3>1. k \in 0 .. (Queued - 1)
      BY <1>2, <2>2
    <3> QED
      BY <1>3, <3>1 DEF Block
  <2> QED
    BY <2>1, <2>2
<1>6. Here \in Int
  <2>1. prep.speed \in Int
    BY <1>1 DEF PipelineTypes, Preps
  <2>2. Entry(0) \in Int
    BY <1>2, <1>5
  <2> QED
    BY <2>1, <2>2 DEF Here
<1>7. Junctions \in Speeds(Queued)
  BY <1>5, <1>6 DEF Junctions, Speeds
<1>8. Maxima \in Lengths(Queued)
  <2>1. \A k \in 0 .. (Queued - 1) : block_buffer[At(tail, k)].max \in Nat
    BY <1>3 DEF Block
  <2> QED
    BY <2>1 DEF Maxima, Lengths
<1>9. Gains \in Lengths(Queued) /\ Positive(Gains, Queued)
  <2>1. \A k \in 0 .. (Queued - 1) : Gains[k] = Gain(k)
    BY DEF Gains
  <2>2. Gains \in Lengths(Queued)
    BY <1>3 DEF Gains, Lengths
  <2> QED
    BY <1>3, <2>1, <2>2 DEF Positive
<1>10. Queued > 0 => At(tail, 0) = tail /\ Entry(0) = block_buffer[tail].entry
                     /\ Gain(0) = block_buffer[tail].gain
  <2> SUFFICES ASSUME Queued > 0
               PROVE  At(tail, 0) = tail /\ Entry(0) = block_buffer[tail].entry
                      /\ Gain(0) = block_buffer[tail].gain
    OBVIOUS
  <2>1. At(tail, 0) = tail
    BY <1>2, RingInverse
  <2>2. 0 \in 0 .. (Queued - 1)
    BY <1>2
  <2> QED
    BY <1>3, <2>1, <2>2 DEF Gain
<1> QED
  BY <1>1, <1>2, <1>3, <1>4, <1>6, <1>7, <1>8, <1>9, <1>10

\* A plan that cannot be improved is optimal.
LEMMA PlanIsOptimal ==
  ASSUME PlannedInv, Drivable(Junctions, Maxima, Gains, Queued),
         Unimprovable(Junctions, Maxima, Gains, Queued, Distance(tail, planned))
  PROVE  \A k \in 1 .. (Queued - 1) : Entry(k) = Optimum(k)
<1>1. PICK Q \in Nat : Q = Queued
  BY QueueViews
<1>2. PICK u, m, g, w : /\ u = Junctions /\ m = Maxima /\ g = Gains
                        /\ w = [i \in 1 .. Q |-> Gain(i - 1)]
  OBVIOUS
<1>3. /\ u \in Speeds(Q) /\ m \in Lengths(Q) /\ g \in Lengths(Q) /\ Positive(g, Q)
      /\ Drivable(u, m, g, Q) /\ Unimprovable(u, m, g, Q, Distance(tail, planned))
  BY <1>1, <1>2, QueueViews
<1>4. PICK s : s = [k \in 0 .. Q |-> Place(k)]
  OBVIOUS
<1>5. \A k \in 0 .. Q : Place(k) = Sum(w, k) /\ s[k] = Place(k)
  BY <1>1, <1>2, <1>4 DEF Place
<1>6. \A k \in 0 .. (Q - 1) : g[k] \in Nat /\ g[k] = w[k + 1] /\ g[k] = Gain(k)
  <2> SUFFICES ASSUME NEW k \in 0 .. (Q - 1)
               PROVE  g[k] \in Nat /\ g[k] = w[k + 1] /\ g[k] = Gain(k)
    OBVIOUS
  <2>1. k + 1 \in 1 .. Q /\ (k + 1) - 1 = k
    OBVIOUS
  <2>2. g[k] = Gain(k) /\ w[k + 1] = Gain(k)
    BY <1>1, <1>2, <2>1 DEF Gains
  <2>3. g[k] \in Nat
    BY <1>3 DEF Lengths
  <2> QED
    BY <2>2, <2>3
<1>7. \A k \in 1 .. Q : w[k] \in Nat
  <2> SUFFICES ASSUME NEW k \in 1 .. Q PROVE w[k] \in Nat
    OBVIOUS
  <2>1. k - 1 \in 0 .. (Q - 1) /\ (k - 1) + 1 = k
    OBVIOUS
  <2> QED
    BY <1>6, <2>1
<1>8. s \in Speeds(Q)
  <2>1. ASSUME NEW k \in 0 .. Q PROVE Place(k) \in Int
    <3>1. k \in Nat /\ \A i \in 1 .. k : w[i] \in Nat
      BY <1>7
    <3>2. Sum(w, k) \in Nat
      BY <3>1, SumNatural
    <3> QED
      BY <1>5, <3>2
  <2> QED
    BY <1>4, <2>1 DEF Speeds
<1>9. Spaced(s, g, Q)
  <2> SUFFICES ASSUME NEW k \in 0 .. (Q - 1) PROVE s[k + 1] = s[k] + g[k]
    BY DEF Spaced
  <2>1. Sum(w, k + 1) = Sum(w, k) + w[k + 1]
    BY SumUnfolds
  <2>2. k + 1 \in 0 .. Q /\ k \in 0 .. Q
    OBVIOUS
  <2> QED
    BY <1>5, <1>6, <2>1, <2>2
<1>10. \A j \in 0 .. Q : Limit(j) = Allowed(u, m, Q, j)
  <2> SUFFICES ASSUME NEW j \in 0 .. Q PROVE Limit(j) = Allowed(u, m, Q, j)
    OBVIOUS
  <2>1. CASE j = 0
    BY <1>1, <1>2, <2>1 DEF Limit, Allowed, Junctions, Here
  <2>2. CASE j # 0 /\ j = Q
    BY <1>1, <2>2 DEF Limit, Allowed
  <2>3. CASE j # 0 /\ j # Q
    <3>1. j \in 0 .. (Q - 1)
      BY <2>3
    <3> QED
      BY <1>1, <1>2, <2>3, <3>1 DEF Limit, Allowed, Maxima
  <2> QED
    BY <2>1, <2>2, <2>3
<1> SUFFICES ASSUME NEW k \in 1 .. (Q - 1) PROVE Entry(k) = Optimum(k)
  BY <1>1
<1> DEFINE far(j) == Limit(j) + (IF j <= k THEN Place(k) - Place(j) ELSE Place(j) - Place(k))
           all == {far(j) : j \in 0 .. Q}
<1>11. Optimum(k) = Min(all)
  BY <1>1 DEF Optimum
<1>12. ASSUME NEW j \in 0 .. Q
       PROVE  far(j) = Allowed(u, m, Q, j) + (IF j <= k THEN s[k] - s[j] ELSE s[j] - s[k])
  <2>1. s[k] = Place(k) /\ s[j] = Place(j) /\ Limit(j) = Allowed(u, m, Q, j)
    BY <1>5, <1>10
  <2> QED
    BY <2>1
<1>13. Entry(k) = u[k]
  BY <1>1, <1>2 DEF Junctions
<1>14. \A j \in 0 .. Q : u[k] <= far(j)
  BY <1>3, <1>8, <1>9, <1>12, PlanBounded
<1>15. \E j \in 0 .. Q : u[k] = far(j)
  <2>1. PICK j \in 0 .. Q :
          u[k] = Allowed(u, m, Q, j) + (IF j <= k THEN s[k] - s[j] ELSE s[j] - s[k])
    BY <1>3, <1>8, <1>9, PlanAttained
  <2> QED
    BY <1>12, <2>1
<1>16. u[k] \in Int /\ \A j \in 0 .. Q : far(j) \in Int
  <2>1. /\ \A j \in 0 .. Q : u[j] \in Int /\ s[j] \in Int
        /\ \A j \in 0 .. (Q - 1) : m[j] \in Int
    BY <1>3, <1>8 DEF Speeds, Lengths
  <2>2. ASSUME NEW j \in 0 .. Q PROVE Allowed(u, m, Q, j) \in Int
    BY <2>1 DEF Allowed
  <2>3. ASSUME NEW j \in 0 .. Q PROVE far(j) \in Int
    <3> HIDE DEF far
    <3> QED
      BY <1>12, <2>1, <2>2
  <2> QED
    BY <2>1, <2>3
<1> HIDE DEF far
<1>17. Min(all) = u[k]
  <2>1. u[k] \in all /\ \A n \in all : u[k] <= n /\ n \in Int
    BY <1>14, <1>15, <1>16
  <2> HIDE DEF all
  <2>2. Min(all) = CHOOSE n \in all : \A l \in all : n <= l
    BY DEF Min
  <2>3. Min(all) \in all /\ \A l \in all : Min(all) <= l
    BY <2>1, <2>2
  <2> QED
    BY <1>16, <2>1, <2>3
<1> QED
  BY <1>11, <1>13, <1>17

-----------------------------------------------------------------------------
\* The generator's profile.

\* The block behind the tail's.
LEMMA NextEntry ==
  ASSUME PlannedInv, Queued > 0
  PROVE  /\ ExitSpeed(block_buffer) = Entry(1)
         /\ Queued = 1 <=> plan_next_block_index(tail) = head
<1>1. tail \in Indices /\ head \in Indices /\ Queued \in Nat /\ tail # head
      /\ Queued < BLOCK_BUFFER_SIZE /\ BLOCK_BUFFER_SIZE \in Nat
  BY QueueViews, RingInverse, RingAssumption DEF PipelineTypes, Queued
<1>2. PICK n \in Indices : n = plan_next_block_index(tail)
  BY <1>1, RingIndex
<1>3. Distance(n, head) = Queued - 1
  BY <1>1, <1>2, RingNext DEF Queued
<1>4. Queued = 1 <=> n = head
  BY <1>1, <1>2, <1>3, RingInverse
<1>5. ASSUME Queued # 1 PROVE At(tail, 1) = n
  <2>1. 0 \in Indices /\ 0 + 1 \in Indices
    BY <1>1, <1>5 DEF Indices
  <2>2. At(n, 0) = At(tail, 0 + 1)
    BY <1>1, <1>2, <2>1, RingNext
  <2>3. At(n, 0) = n /\ 0 + 1 = 1
    BY RingInverse
  <2> QED
    BY <2>2, <2>3
<1> QED
  BY <1>2, <1>4, <1>5 DEF ExitSpeed, Entry

\* The profile of a block that is loaded.
Steep(e, g, n) == ~execute_hold /\ e > n /\ e - n >= g
Beyond(e, g) == execute_hold /\ e > g

\* What is loaded, from the speed e, the length g, the nominal speed n and the
\* planned speed x after the block.
LEMMA LoadedIs ==
  ASSUME ~prep.loaded,
         NEW e, e = IF ~prep.recalculate /\ (execute_hold \/ prep.decel_override)
                    THEN prep.exit ELSE block_buffer[tail].entry,
         NEW g, g = block_buffer[tail].gain,
         NEW n, n = Nominal(block_buffer[tail], override), NEW x, x = ExitSpeed(block_buffer)
  PROVE  /\ Current.speed = IF prep.recalculate THEN prep.speed ELSE e
         /\ Current.exit = IF Steep(e, g, n) \/ Beyond(e, g) THEN e - g
                           ELSE IF execute_hold THEN 0 ELSE x
         /\ Current.complete = IF execute_hold /\ ~Beyond(e, g) THEN g - e ELSE 0
         /\ Current.decelerate <=> execute_hold \/ Steep(e, g, n) \/ (e <= n /\ e - x >= g)
         /\ Current.decel_override <=> Steep(e, g, n)
         /\ Current.loaded /\ ~Current.recalculate
<1>1. Current = Loaded(block_buffer[tail])
  BY DEF Current
<1>2. /\ Current.speed = IF prep.recalculate THEN prep.speed ELSE e
      /\ Current.complete = IF execute_hold /\ ~Beyond(e, g) THEN g - e ELSE 0
      /\ Current.exit = IF Steep(e, g, n) \/ Beyond(e, g) THEN e - g
                        ELSE IF execute_hold THEN 0 ELSE x
  BY <1>1 DEF Loaded, Steep, Beyond
<1>3. /\ Current.decelerate <=> execute_hold \/ Steep(e, g, n) \/ (e <= n /\ e - x >= g)
      /\ Current.decel_override <=> Steep(e, g, n)
      /\ Current.loaded /\ ~Current.recalculate
  BY <1>1 DEF Loaded, Steep, Beyond
<1> QED
  BY <1>2, <1>3

\* What a pass of the generator's loop works with.
LEMMA CurrentProfile ==
  ASSUME ProfileInv, Queued > 0, CanPrep, NEW C, C = Current
  PROVE  /\ C \in Preps /\ C.loaded /\ ~C.recalculate
         /\ C.speed >= 0 /\ C.exit >= 0
         /\ C.decelerate => C.speed - (Gain(0) - C.complete) >= 0
         /\ C.complete # 0 => execute_hold /\ C.exit = 0
         /\ execute_hold => C.decelerate /\ C.speed - C.exit = Gain(0) - C.complete
<1>1. PlannedInv /\ PipelineTypes /\ C \in Preps
  BY QueueViews, CurrentTyped DEF ProfileInv
<1>2. Gain(0) = block_buffer[tail].gain /\ Gain(0) \in Nat /\ Entry(0) = block_buffer[tail].entry
      /\ Entry(0) \in Int /\ Entry(0) >= 0 /\ Entry(1) \in Int /\ Entry(1) >= 0
  <2>1. block_buffer[tail] \in Block /\ Gain(0) = block_buffer[tail].gain
        /\ Entry(0) = block_buffer[tail].entry /\ Queued \in Nat
    BY <1>1, QueueViews, CurrentTyped
  <2>2. tail \in Indices
    BY <1>1 DEF PipelineTypes
  <2>3. Entry(1) \in Int /\ Entry(1) >= 0
    <3>1. CASE Queued = 1
      BY <1>1, <3>1, QueueViews
    <3>2. CASE Queued # 1
      <4>1. 1 \in 0 .. (Queued - 1)
        BY <2>1, <3>2
      <4>2. At(tail, 1) \in Indices /\ Entry(1) = block_buffer[At(tail, 1)].entry
            /\ block_buffer[At(tail, 1)] \in Block
        BY <1>1, <4>1, QueueViews
      <4> QED
        BY <4>2 DEF ProfileInv, SpeedInv, Block
    <3> QED
      BY <3>1, <3>2
  <2> QED
    BY <2>1, <2>2, <2>3 DEF ProfileInv, SpeedInv, Block
<1>3. /\ prep.speed \in Int /\ prep.exit \in Int /\ prep.complete \in Nat
      /\ prep.speed >= 0 /\ prep.exit >= 0
  BY <1>1 DEF ProfileInv, SpeedInv, PipelineTypes, Preps
<1>4. CASE prep.loaded
  <2>1. C = prep /\ ~prep.recalculate
    BY <1>1, <1>4 DEF Current, PlannedInv, QueueInv, QueueAgrees, BlockPrepared
  <2> QED
    BY <1>1, <1>3, <1>4, <2>1 DEF ProfileInv, SpeedInv, HoldInv
<1>5. CASE ~prep.loaded
  <2>1. PICK e : e = IF ~prep.recalculate /\ (execute_hold \/ prep.decel_override)
                     THEN prep.exit ELSE block_buffer[tail].entry
    OBVIOUS
  <2>2. PICK g, n, x : /\ g = block_buffer[tail].gain
                       /\ n = Nominal(block_buffer[tail], override)
                       /\ x = ExitSpeed(block_buffer)
    OBVIOUS
  <2>3. /\ C.speed = IF prep.recalculate THEN prep.speed ELSE e
        /\ C.exit = IF Steep(e, g, n) \/ Beyond(e, g) THEN e - g
                    ELSE IF execute_hold THEN 0 ELSE x
        /\ C.complete = IF execute_hold /\ ~Beyond(e, g) THEN g - e ELSE 0
        /\ C.decelerate <=> execute_hold \/ Steep(e, g, n) \/ (e <= n /\ e - x >= g)
        /\ C.decel_override <=> Steep(e, g, n)
        /\ C.loaded /\ ~C.recalculate
    BY <1>5, <2>1, <2>2, LoadedIs
  <2>4. e \in Int /\ e >= 0 /\ g \in Nat /\ g = Gain(0) /\ x \in Int /\ x >= 0 /\ n \in Nat
    <3>1. n \in Nat
      <4>1. override \in Nat /\ block_buffer[tail].rate \in Nat
        BY <1>1, MotionAssumption, CurrentTyped DEF PipelineTypes, Block
      <4> QED
        BY <2>2, <4>1, NominalNat
    <3>2. x = Entry(1)
      BY <1>1, <2>2, NextEntry
    <3> QED
      BY <1>2, <1>3, <2>1, <2>2, <3>1, <3>2
  <2>5. C.speed = e
    <3>1. prep.recalculate => e = prep.speed
      BY <1>2, <2>1 DEF ProfileInv, SpeedInv
    <3> QED
      BY <2>3, <3>1
  <2>6. CASE execute_hold /\ e > g
    <3>1. C.exit = e - g /\ C.complete = 0 /\ C.decelerate
      BY <2>3, <2>6 DEF Steep, Beyond
    <3> QED
      BY <1>1, <2>3, <2>4, <2>5, <2>6, <3>1
  <2>7. CASE execute_hold /\ ~(e > g)
    <3>1. C.exit = 0 /\ C.complete = g - e /\ C.decelerate
      BY <2>3, <2>7 DEF Steep, Beyond
    <3> QED
      BY <1>1, <2>3, <2>4, <2>5, <2>7, <3>1
  <2>8. CASE ~execute_hold /\ Steep(e, g, n)
    <3>1. C.exit = e - g /\ C.complete = 0 /\ e - n >= g
      BY <2>3, <2>8 DEF Steep, Beyond
    <3> QED
      BY <1>1, <2>3, <2>4, <2>5, <2>8, <3>1
  <2>9. CASE ~execute_hold /\ ~Steep(e, g, n)
    <3>1. C.exit = x /\ C.complete = 0 /\ (C.decelerate => e - x >= g)
      BY <2>3, <2>9 DEF Steep, Beyond
    <3> QED
      BY <1>1, <2>3, <2>4, <2>5, <2>9, <3>1
  <2> QED
    BY <2>6, <2>7, <2>8, <2>9
<1> QED
  BY <1>4, <1>5

\* What a segment of d steps makes of the block at the tail and of the profile.
LEMMA SegmentProfile ==
  ASSUME ProfileInv, PrepSegment, NEW d, SegmentMade(d), NEW C, C = Current,
         NEW v, v = SpeedAfter(C, d, Gain(0) - d, Nominal(block_buffer[tail], override))
  PROVE  /\ Queued > 0 /\ CanPrep /\ PipelineTypes /\ head' = head /\ override' = override
         /\ d \in Nat /\ d > 0 /\ d <= Gain(0) - C.complete /\ Gain(0) - d \in Nat
         /\ v \in Int
         /\ prep'.speed = v /\ prep'.exit = C.exit /\ prep'.complete = C.complete
         /\ prep'.decelerate = C.decelerate /\ prep'.decel_override = C.decel_override
         /\ ~prep'.recalculate /\ (prep'.loaded <=> Gain(0) - d > 0)
         /\ end_motion' <=> Gain(0) - d > 0 /\ Gain(0) - d = C.complete
         /\ block_buffer' \in [Indices -> Block]
         /\ \A i \in Indices : i # tail => block_buffer'[i] = block_buffer[i]
         /\ block_buffer'[tail].gain = Gain(0) - d /\ block_buffer'[tail].entry = LoadedEntry
         /\ block_buffer'[tail].max = block_buffer[tail].max
         /\ block_buffer'[tail].junction = block_buffer[tail].junction
         /\ block_buffer'[tail].rate = block_buffer[tail].rate
<1>1. PlannedInv /\ PipelineTypes /\ LoadSlot /\ CanPrep /\ head' = head /\ override' = override
  BY QueueViews DEF ProfileInv, PrepSegment
<1>2. Queued > 0 /\ Queued \in Nat
  BY <1>1, QueuePass DEF PlannedInv
<1>3. Gain(0) = block_buffer[tail].gain /\ tail \in Indices /\ block_buffer \in [Indices -> Block]
  BY <1>1, <1>2, QueueViews DEF PipelineTypes
<1>4. /\ C \in Preps /\ C.loaded /\ ~C.recalculate
  BY <1>1, <1>2, CurrentProfile
<1>5. PICK g : g = Gain(0) - d
  OBVIOUS
<1>6. PICK w : w = SpeedAfter(C, d, g, Nominal(block_buffer[tail], override))
  OBVIOUS
<1>7. /\ d \in 1 .. (Gain(0) - C.complete)
      /\ block_buffer' = [block_buffer EXCEPT ![tail].gain = g, ![tail].entry = LoadedEntry]
      /\ prep' = [C EXCEPT !.speed = w, !.loaded = (g > 0)]
      /\ end_motion' = (g > 0 /\ g = C.complete)
  BY <1>3, <1>5, <1>6 DEF SegmentMade
<1>8. /\ block_buffer' \in [Indices -> Block] /\ d \in Nat \ {0} /\ g \in Nat
      /\ \A i \in Indices : i # tail => block_buffer'[i] = block_buffer[i]
  BY <1>1, <1>3, <1>5, SegmentEffect
<1>9. /\ block_buffer'[tail].gain = g /\ block_buffer'[tail].entry = LoadedEntry
      /\ block_buffer'[tail].max = block_buffer[tail].max
      /\ block_buffer'[tail].junction = block_buffer[tail].junction
      /\ block_buffer'[tail].rate = block_buffer[tail].rate
  BY <1>3, <1>7 DEF Block
<1>10. /\ prep'.speed = w /\ prep'.exit = C.exit /\ prep'.complete = C.complete
       /\ prep'.decelerate = C.decelerate /\ prep'.decel_override = C.decel_override
       /\ prep'.recalculate = C.recalculate
  BY <1>4, <1>7 DEF Preps
<1>11. prep'.loaded = (g > 0)
  <2>1. PICK b : b = (g > 0)
    OBVIOUS
  <2>2. prep' = [C EXCEPT !.speed = w, !.loaded = b]
    BY <1>7, <2>1
  <2>3. prep'.loaded = b
    BY <1>4, <2>2 DEF Preps
  <2> QED
    BY <2>1, <2>3
<1>12. v \in Int
  <2>1. Nominal(block_buffer[tail], override) \in Int
    <3>1. override \in Nat /\ block_buffer[tail].rate \in Nat
      BY <1>1, <1>3, MotionAssumption DEF PipelineTypes, Block
    <3> QED
      BY <3>1, NominalNat
  <2> QED
    BY <1>4, <1>5, <1>8, <2>1, SpeedTyped
<1>13. C.complete \in Nat /\ Gain(0) \in Nat
  BY <1>3, <1>4 DEF Preps, Block
<1>14. d \in Nat /\ d > 0 /\ d <= Gain(0) - C.complete
  BY <1>7, <1>8, <1>13
<1>15. w = v
  BY <1>5, <1>6
<1>16. end_motion' <=> g > 0 /\ g = C.complete
  BY <1>7
<1>17. ~prep'.recalculate
  BY <1>4, <1>10
<1> QED
  BY <1>1, <1>2, <1>5, <1>8, <1>9, <1>10, <1>11, <1>12, <1>14, <1>15, <1>16, <1>17

\* A segment that leaves some of its block.
LEMMA SegmentWithin ==
  ASSUME ProfileInv, PrepSegment, NEW d, SegmentMade(d), Gain(0) - d > 0
  PROVE  /\ tail' = tail /\ planned' = planned /\ Queued' = Queued
         /\ Gain(0)' = Gain(0) - d /\ Entry(0)' = LoadedEntry
         /\ \A k \in 0 .. Queued :
              /\ At(tail, k)' = At(tail, k)
              /\ k # 0 => Entry(k)' = Entry(k) /\ (k < Queued => Gain(k)' = Gain(k))
              /\ k < Queued =>
                   /\ (block_buffer[At(tail, k)].max)' = block_buffer[At(tail, k)].max
                   /\ (block_buffer[At(tail, k)].junction)' = block_buffer[At(tail, k)].junction
                   /\ (block_buffer[At(tail, k)].rate)' = block_buffer[At(tail, k)].rate
<1>1. PlannedInv /\ tail \in Indices /\ Queued > 0 /\ Queued \in Nat /\ head' = head
      /\ Gain(0) = block_buffer[tail].gain
  BY SegmentProfile, QueueViews DEF ProfileInv, PipelineTypes
<1>2. tail' = tail /\ planned' = planned
  BY <1>1 DEF SegmentMade
<1>3. Queued' = Queued
  BY <1>1, <1>2 DEF Queued
<1>4. /\ \A i \in Indices : i # tail => block_buffer'[i] = block_buffer[i]
      /\ block_buffer'[tail].gain = Gain(0) - d /\ block_buffer'[tail].entry = LoadedEntry
      /\ block_buffer'[tail].max = block_buffer[tail].max
      /\ block_buffer'[tail].junction = block_buffer[tail].junction
      /\ block_buffer'[tail].rate = block_buffer[tail].rate
  BY SegmentProfile
<1>5. \A k \in 0 .. Queued : At(tail, k)' = At(tail, k)
  BY <1>2 DEF At
<1>6. At(tail, 0) = tail
  BY <1>1, QueueViews
<1>7. Gain(0)' = Gain(0) - d /\ Entry(0)' = LoadedEntry
  <2>1. Gain(0)' = block_buffer'[At(tail, 0)'].gain
    BY DEF Gain
  <2>2. Entry(0)' = block_buffer'[At(tail, 0)'].entry
    BY <1>1, <1>3 DEF Entry
  <2> QED
    BY <1>1, <1>4, <1>5, <1>6, <2>1, <2>2
<1>8. ASSUME NEW k \in 0 .. Queued, k # 0, k < Queued
      PROVE  block_buffer'[At(tail, k)] = block_buffer[At(tail, k)]
  <2>1. k \in 0 .. (Queued - 1) /\ 0 \in 0 .. (Queued - 1)
    BY <1>1, <1>8
  <2>2. At(tail, k) \in Indices /\ Distance(tail, At(tail, k)) = k
        /\ Distance(tail, At(tail, 0)) = 0
    BY <1>1, <2>1, QueueViews
  <2>3. At(tail, k) # tail
    BY <1>6, <1>8, <2>2
  <2> QED
    BY <1>4, <2>2, <2>3
<1>9. ASSUME NEW k \in 0 .. Queued, k # 0
      PROVE  Entry(k)' = Entry(k) /\ (k < Queued => Gain(k)' = Gain(k))
  <2>1. CASE k = Queued
    BY <1>3, <2>1 DEF Entry
  <2>2. CASE k # Queued
    <3>1. k < Queued
      BY <1>1, <2>2
    <3>2. block_buffer'[At(tail, k)'] = block_buffer[At(tail, k)]
      BY <1>5, <1>8, <1>9, <3>1
    <3> QED
      BY <1>3, <2>2, <3>2 DEF Entry, Gain
  <2> QED
    BY <2>1, <2>2
<1>10. ASSUME NEW k \in 0 .. Queued, k < Queued
       PROVE  /\ (block_buffer[At(tail, k)].max)' = block_buffer[At(tail, k)].max
              /\ (block_buffer[At(tail, k)].junction)' = block_buffer[At(tail, k)].junction
              /\ (block_buffer[At(tail, k)].rate)' = block_buffer[At(tail, k)].rate
  <2>1. CASE k = 0
    BY <1>4, <1>5, <1>6, <2>1
  <2>2. CASE k # 0
    BY <1>5, <1>8, <1>10, <2>2
  <2> QED
    BY <2>1, <2>2
<1> QED
  BY <1>2, <1>3, <1>5, <1>7, <1>9, <1>10

\* A segment that finishes its block: the queue moves up.
LEMMA SegmentLast ==
  ASSUME ProfileInv, PrepSegment, NEW d, SegmentMade(d), ~(Gain(0) - d > 0)
  PROVE  /\ Queued' = Queued - 1 /\ Gain(0) = d
         /\ Queued' > 0 =>
              Distance(tail, planned)' = IF Distance(tail, planned) = 0 THEN 0
                                         ELSE Distance(tail, planned) - 1
         /\ \A k \in 0 .. (Queued - 1) : Entry(k)' = Entry(k + 1)
         /\ \A k \in 0 .. (Queued - 2) :
              /\ Gain(k)' = Gain(k + 1)
              /\ (block_buffer[At(tail, k)])' = block_buffer[At(tail, k + 1)]
<1>1. PlannedInv /\ tail \in Indices /\ head \in Indices /\ planned \in Indices
      /\ Queued > 0 /\ Queued \in Nat /\ head' = head /\ Queued < BLOCK_BUFFER_SIZE
      /\ Gain(0) = block_buffer[tail].gain /\ Gain(0) - d \in Nat /\ d \in Nat
  BY SegmentProfile, QueueViews DEF ProfileInv, PipelineTypes
<1>2. Discard /\ Gain(0) = d
  <2>1. Gain(0) \in Nat
    <3>1. block_buffer[tail] \in Block
      BY <1>1, QueueViews, CurrentTyped
    <3> QED
      BY <1>1, <3>1 DEF Block
  <2>2. Gain(0) - d = 0 /\ Gain(0) = d
    BY <1>1, <2>1
  <2> QED
    BY <1>1, <2>2 DEF SegmentMade
<1>3. tail' = plan_next_block_index(tail) /\ tail' \in Indices /\ tail # head
      /\ planned' = IF planned = tail THEN tail' ELSE planned
  BY <1>1, <1>2, RingIndex, RingInverse DEF Discard, Queued
<1>4. Queued' = Queued - 1
  BY <1>1, <1>3, RingNext DEF Queued
<1>5. Distance(tail, planned)' = IF Distance(tail, planned) = 0 THEN 0
                                 ELSE Distance(tail, planned) - 1
  <2>1. CASE planned = tail
    <3>1. Distance(tail', planned') = 0 /\ Distance(tail, planned) = 0
      BY <1>1, <1>3, <2>1, RingInverse
    <3>2. Distance(tail, planned)' = Distance(tail', planned')
      BY DEF Distance
    <3> QED
      BY <3>1, <3>2
  <2>2. CASE planned # tail
    <3>1. Distance(tail', planned') = Distance(tail, planned) - 1 /\ Distance(tail, planned) # 0
      BY <1>1, <1>3, <2>2, RingNext, RingInverse
    <3>2. Distance(tail, planned)' = Distance(tail', planned')
      BY DEF Distance
    <3> QED
      BY <3>1, <3>2
  <2> QED
    BY <2>1, <2>2
<1>6. \A i \in Indices : i # tail => block_buffer'[i] = block_buffer[i]
  BY SegmentProfile
<1>7. ASSUME NEW k \in 0 .. (Queued - 2)
      PROVE  /\ (At(tail, k))' = At(tail, k + 1)
             /\ (block_buffer[At(tail, k)])' = block_buffer[At(tail, k + 1)]
  <2>1. k \in Indices /\ k + 1 \in Indices /\ k + 1 \in 0 .. (Queued - 1)
        /\ 0 \in 0 .. (Queued - 1) /\ k + 1 # 0
    BY <1>1, RingAssumption DEF Indices
  <2>2. At(tail', k) = At(tail, k + 1)
    BY <1>1, <1>3, <2>1, RingNext
  <2>3. At(tail, k + 1) \in Indices /\ Distance(tail, At(tail, k + 1)) = k + 1
        /\ At(tail, 0) = tail /\ Distance(tail, At(tail, 0)) = 0
    BY <1>1, <2>1, QueueViews
  <2>4. At(tail, k + 1) # tail
    BY <2>1, <2>3
  <2>5. (At(tail, k))' = At(tail', k)
    BY DEF At
  <2> QED
    BY <1>6, <2>2, <2>3, <2>4, <2>5
<1>8. ASSUME NEW k \in 0 .. (Queued - 1)
      PROVE  Entry(k)' = Entry(k + 1)
  <2>1. CASE k = Queued - 1
    <3>1. k = Queued' /\ k + 1 = Queued
      BY <1>1, <1>4, <2>1
    <3> QED
      BY <3>1 DEF Entry
  <2>2. CASE k # Queued - 1
    <3>1. k \in 0 .. (Queued - 2) /\ k # Queued' /\ k + 1 # Queued
      BY <1>1, <1>4, <2>2
    <3>2. (block_buffer[At(tail, k)])' = block_buffer[At(tail, k + 1)]
      BY <1>7, <3>1
    <3> QED
      BY <3>1, <3>2 DEF Entry
  <2> QED
    BY <2>1, <2>2
<1>9. ASSUME NEW k \in 0 .. (Queued - 2)
      PROVE  Gain(k)' = Gain(k + 1)
  BY <1>7, <1>9 DEF Gain
<1> QED
  BY <1>2, <1>4, <1>5, <1>7, <1>8, <1>9

-----------------------------------------------------------------------------
\* Planning again.

\* What planner_recalculate and plan_cycle_reinitialize do alike: the passes run
\* over ring b, which ends before h and is planned up to p, and the block in
\* execution is loaded again or is not.
Replan(b, h, p, again) ==
  LET current == IF again THEN Updated(b) ELSE b
  IN  /\ block_buffer' = Recalculated(current, h, p)
      /\ planned' = NewPlanned(current, h, p)
      /\ prep' = IF again THEN Unloaded ELSE prep

\* The passes keep the entry speeds up to the block they begin with.
LEMMA PassesSpare ==
  ASSUME NEW b \in [Indices -> Block], NEW i \in Indices, NEW h \in Indices, NEW p \in Indices,
         Distance(i, p) < Distance(i, h), NEW k \in 0 .. Distance(i, p)
  PROVE  Recalculated(b, h, p)[At(i, k)].entry = b[At(i, k)].entry
<1>1. /\ Distance(i, p) \in Nat /\ Distance(i, h) \in Nat /\ Distance(i, h) < BLOCK_BUFFER_SIZE
      /\ BLOCK_BUFFER_SIZE \in Nat
  BY RingInverse, IndexNat, RingAssumption
<1>2. k \in Nat /\ k < BLOCK_BUFFER_SIZE
  BY <1>1
<1>3. /\ At(i, k) \in Indices
      /\ Distance(i, p) <= k => /\ Distance(p, At(i, k)) = k - Distance(i, p)
                                /\ At(p, k - Distance(i, p)) = At(i, k)
      /\ k < Distance(i, p) => Distance(p, At(i, k)) = k - Distance(i, p) + BLOCK_BUFFER_SIZE
  BY <1>2, RingBetween
<1>4. LastBlock(h, p) = Distance(i, h) - 1 - Distance(i, p)
  BY NewPlannedWithin
<1>5. Recalculated(b, h, p)[At(i, k)].entry =
        IF Distance(p, At(i, k)) <= LastBlock(h, p)
        THEN ForwardPass(b, h, p)[Distance(p, At(i, k))] ELSE b[At(i, k)].entry
  BY <1>3, RecalculatedKeeps
<1>6. CASE k = Distance(i, p)
  <2>1. Distance(p, At(i, k)) = 0 /\ At(p, 0) = At(i, k) /\ 0 <= LastBlock(h, p)
        /\ 0 \in 0 .. LastBlock(h, p)
    BY <1>1, <1>3, <1>4, <1>6
  <2>2. ReversePass(b, h, p)[0] = b[At(p, 0)].entry
    BY <2>1, ReverseDef
  <2>3. ForwardPass(b, h, p)[0] = ReversePass(b, h, p)[0]
    BY <2>1, ForwardDef
  <2> QED
    BY <1>5, <2>1, <2>2, <2>3
<1>7. CASE k # Distance(i, p)
  <2>1. k < Distance(i, p)
    BY <1>1, <1>2, <1>7
  <2>2. ~(Distance(p, At(i, k)) <= LastBlock(h, p))
    BY <1>1, <1>2, <1>3, <1>4, <2>1
  <2> QED
    BY <1>5, <2>2
<1> QED
  BY <1>6, <1>7

\* The first block of a queue starts from rest, whatever the ring held before.
LEMMA FirstFromRest ==
  ASSUME NEW b \in [Indices -> Block], NEW h \in Indices, NEW p \in Indices,
         b[plan_prev_block_index(h)].max = 0, b[plan_prev_block_index(h)].entry = 0,
         \A i \in Indices : b[i].entry >= 0
  PROVE  Recalculated(b, h, p)[plan_prev_block_index(h)].entry = 0
<1>1. PICK l \in Indices : l = plan_prev_block_index(h)
  BY RingIndex
<1>2. PICK n \in Nat : n = LastBlock(h, p)
  BY PlannedBlocks, IndexNat
<1>3. Distance(p, l) = n /\ At(p, n) = l /\ n \in 0 .. n /\ 0 \in 0 .. n
  BY <1>1, <1>2, RingInverse DEF LastBlock
<1>4. Recalculated(b, h, p)[l].entry = ForwardPass(b, h, p)[n]
  BY <1>1, <1>2, <1>3, RecalculatedKeeps
<1>5. Recalculated(b, h, p)[l].entry >= 0
  BY <1>1, PassesNonNegative
<1>6. ReversePass(b, h, p)[n] <= 0 /\ ReversePass(b, h, p)[n] \in Int
  <2>1. ReversePass(b, h, p)[n] = IF n = 0 THEN b[At(p, 0)].entry
                                  ELSE Lowest(b[At(p, n)].max, b[At(p, n)].gain)
    BY <1>2, <1>3, ReverseDef
  <2>2. b[At(p, n)].max = 0 /\ b[At(p, n)].entry = 0 /\ b[At(p, n)].gain \in Nat
    BY <1>1, <1>2, <1>3, PlannedBlocks
  <2>3. ReversePass(b, h, p)[n] = 0
    <3>1. CASE n = 0
      BY <2>1, <2>2, <3>1
    <3>2. CASE n # 0
      <4>1. PICK g \in Nat : g = b[At(p, n)].gain
        BY <2>2
      <4>2. ReversePass(b, h, p)[n] = Lowest(0, g)
        BY <2>1, <2>2, <3>2, <4>1
      <4> QED
        BY <4>2 DEF Lowest
    <3> QED
      BY <3>1, <3>2
  <2> QED
    BY <2>3
<1>7. ForwardPass(b, h, p)[n] \in Int /\ ForwardPass(b, h, p)[n] <= 0
  <2>1. CASE n = 0
    <3>1. ForwardPass(b, h, p)[0] = ReversePass(b, h, p)[0]
      BY <1>2, <1>3, ForwardDef
    <3> QED
      BY <1>6, <2>1, <3>1
  <2>2. CASE n # 0
    <3>1. ForwardPass(b, h, p)[n]
            = Lowest(ReversePass(b, h, p)[n], ForwardPass(b, h, p)[n - 1] + b[At(p, n - 1)].gain)
      BY <1>2, <1>3, <2>2, ForwardDef
    <3>2. n - 1 \in 0 .. n
      BY <2>2
    <3>3. ForwardPass(b, h, p)[n - 1] \in Int
      BY <1>2, <3>2, ForwardDef
    <3>4. b[At(p, n - 1)].gain \in Int
      BY <1>2, <3>2, PlannedBlocks
    <3>5. PICK r \in Int, f \in Int :
            /\ r = ReversePass(b, h, p)[n]
            /\ f = ForwardPass(b, h, p)[n - 1] + b[At(p, n - 1)].gain
      BY <1>6, <3>3, <3>4
    <3>6. ForwardPass(b, h, p)[n] = Lowest(r, f) /\ r <= 0
      BY <1>6, <3>1, <3>5
    <3> QED
      BY <3>6, LowestInt
  <2> QED
    BY <2>1, <2>2
<1> QED
  BY <1>1, <1>4, <1>5, <1>7

\* plan_cycle_reinitialize in these terms, and planner_recalculate.
LEMMA ReplanIs ==
  /\ \A b : plan_cycle_reinitialize(b) => Replan(b, head, tail, TRUE)
  /\ \A b, h : planner_recalculate(b, h) => Replan(b, h, planned, ReachesTail(h, planned))
  BY DEF plan_cycle_reinitialize, planner_recalculate, Replan

\* The generator is told to load its block again, or is left alone.
LEMMA UnloadedIs ==
  ASSUME prep \in Preps
  PROVE  /\ ~Unloaded.loaded /\ (Unloaded.recalculate <=> InProgress)
         /\ Unloaded.speed = prep.speed /\ Unloaded.exit = prep.exit
         /\ Unloaded.complete = prep.complete /\ Unloaded.decelerate = prep.decelerate
         /\ Unloaded.decel_override = prep.decel_override
  BY DEF Unloaded, Preps, InProgress

\* What a planning leaves of the block at the tail.
LEMMA ReplanTail ==
  ASSUME PlannedInv, NEW b \in [Indices -> Block], NEW h \in Indices, NEW p \in Indices,
         NEW again \in BOOLEAN, Replan(b, h, p, again), tail' = tail, head' = h,
         Distance(tail, p) < Distance(tail, h)
  PROVE  /\ Queued' = Distance(tail, h) /\ Queued' > 0 /\ Queued' \in Nat
         /\ Gain(0)' = b[tail].gain
         /\ Entry(0)' = IF again /\ prep.loaded THEN prep.speed ELSE b[tail].entry
<1>1. PipelineTypes /\ tail \in Indices
  BY QueueViews DEF PipelineTypes
<1>2. Distance(tail, p) \in Nat /\ Distance(tail, h) \in Nat
  BY <1>1, RingInverse, IndexNat
<1>3. Queued' = Distance(tail, h) /\ Queued' > 0 /\ Queued' \in Nat
  <2>1. Queued' = Distance(tail, h)
    BY DEF Queued, Distance
  <2> QED
    BY <1>2, <2>1
<1>4. At(tail, 0) = tail /\ At(tail, 0)' = tail
  BY <1>1, RingInverse DEF At
<1> DEFINE current == IF again THEN Updated(b) ELSE b
<1>5. /\ current \in [Indices -> Block]
      /\ block_buffer' = Recalculated(current, h, p)
      /\ current[tail].gain = b[tail].gain
      /\ current[tail].entry = IF again /\ prep.loaded THEN prep.speed ELSE b[tail].entry
  <2>1. CASE again
    <3>1. current = Updated(b)
      BY <2>1
    <3>2. /\ Updated(b) \in [Indices -> Block]
          /\ Updated(b)[tail].gain = b[tail].gain
          /\ Updated(b)[tail].entry = IF prep.loaded THEN prep.speed ELSE b[tail].entry
      BY <1>1, UpdatedKeeps
    <3> QED
      BY <2>1, <3>1, <3>2 DEF Replan
  <2>2. CASE ~again
    BY <2>2 DEF Replan
  <2> QED
    BY <2>1, <2>2
<1> HIDE DEF current
<1>6. block_buffer'[tail].gain = current[tail].gain
  BY <1>1, <1>5, RecalculatedKeeps
<1>7. block_buffer'[tail].entry = current[tail].entry
  <2>1. 0 \in 0 .. Distance(tail, p)
    BY <1>2
  <2>2. Recalculated(current, h, p)[At(tail, 0)].entry = current[At(tail, 0)].entry
    BY <1>1, <1>5, <2>1, PassesSpare
  <2> QED
    BY <1>4, <1>5, <2>2
<1> QED
  BY <1>3, <1>4, <1>5, <1>6, <1>7 DEF Gain, Entry

-----------------------------------------------------------------------------
\* Every step keeps the speeds.

\* Where a block in progress is.
LEMMA ProgressTail ==
  ASSUME ProfileInv, InProgress
  PROVE  /\ Queued > 0 /\ head # tail /\ Gain(0) = block_buffer[tail].gain
         /\ Entry(0) = block_buffer[tail].entry
<1>1. PlannedInv /\ PipelineTypes /\ Queued \in Nat
  BY QueueViews DEF ProfileInv
<1>2. Queued # 0
  BY <1>1 DEF PlannedInv, QueueInv, QueueAgrees, BlockPrepared
<1>3. Queued > 0
  BY <1>1, <1>2
<1> QED
  BY <1>1, <1>2, <1>3, QueueViews, QueueRing

\* Planning again, with blocks that keep their lengths and speeds, keeps the speeds.
LEMMA ProfileReplanned ==
  ASSUME ProfileInv, NEW b \in [Indices -> Block], NEW h \in Indices, NEW p \in Indices,
         NEW again \in BOOLEAN, Replan(b, h, p, again), tail' = tail, head' = h,
         \A i \in Indices : b[i].entry >= 0,
         InProgress => /\ Distance(tail, p) < Distance(tail, h)
                       /\ b[tail].gain = block_buffer[tail].gain
                       /\ b[tail].entry = block_buffer[tail].entry
  PROVE  /\ SpeedInv'
         /\ UNCHANGED modeVars => HoldInv'
<1>1. PlannedInv /\ PipelineTypes /\ prep \in Preps
  BY QueueViews DEF ProfileInv, PipelineTypes
<1>2. \A i \in Indices : block_buffer'[i].entry >= 0
  <2> DEFINE current == IF again THEN Updated(b) ELSE b
  <2>1. current \in [Indices -> Block] /\ block_buffer' = Recalculated(current, h, p)
    <3>1. CASE again
      <4>1. current = Updated(b)
        BY <3>1
      <4> QED
        BY <1>1, <3>1, <4>1, UpdatedKeeps DEF Replan
    <3>2. CASE ~again
      BY <3>2 DEF Replan
    <3> QED
      BY <3>1, <3>2
  <2>2. \A i \in Indices : current[i].entry >= 0
    <3>1. CASE again
      <4>1. current = Updated(b)
        BY <3>1
      <4> QED
        BY <1>1, <4>1, UpdatedKeeps DEF ProfileInv, SpeedInv
    <3>2. CASE ~again
      BY <3>2
    <3> QED
      BY <3>1, <3>2
  <2> HIDE DEF current
  <2> QED
    BY <2>1, <2>2, PassesNonNegative
<1>3. /\ prep'.speed = prep.speed /\ prep'.exit = prep.exit
      /\ prep'.complete = prep.complete /\ prep'.decelerate = prep.decelerate
      /\ prep'.loaded <=> prep.loaded /\ ~again
      /\ prep'.recalculate <=> prep.recalculate \/ (again /\ prep.loaded)
  <2>1. CASE again
    BY <1>1, <2>1, UnloadedIs DEF Replan, InProgress
  <2>2. CASE ~again
    BY <2>2 DEF Replan
  <2> QED
    BY <2>1, <2>2
<1>4. InProgress => /\ Gain(0)' = Gain(0)
                    /\ Entry(0)' = IF again /\ prep.loaded THEN prep.speed ELSE Entry(0)
  BY <1>1, ProgressTail, ReplanTail
<1>5. prep.speed >= 0 /\ prep.exit >= 0
      /\ (prep.loaded /\ prep.decelerate => prep.speed - (Gain(0) - prep.complete) >= 0)
      /\ (prep.recalculate => Entry(0) = prep.speed)
  BY DEF ProfileInv, SpeedInv
<1>6. SpeedInv'
  BY <1>2, <1>3, <1>4, <1>5 DEF SpeedInv, InProgress
<1>7. ASSUME UNCHANGED modeVars PROVE HoldInv'
  <2>1. /\ mode' = mode /\ hold_complete' = hold_complete /\ execute_hold' = execute_hold
        /\ end_motion' = end_motion
    BY <1>7 DEF modeVars
  <2>2. CASE prep'.loaded
    <3>1. Gain(0)' = Gain(0) /\ prep.loaded
      BY <1>3, <1>4, <2>2 DEF InProgress
    <3> QED
      BY <1>3, <2>1, <2>2, <3>1 DEF ProfileInv, HoldInv
  <2>3. CASE ~prep'.loaded
    BY <2>1, <2>3 DEF ProfileInv, HoldInv
  <2> QED
    BY <2>2, <2>3
<1> QED
  BY <1>6, <1>7

\* The ring with a new block at its head.
Extended(line) == [block_buffer EXCEPT ![head] = NewBlock(line, sent + 1)]

\* A planned line, in these terms.
LEMMA LineIs ==
  ASSUME PlannedInv, BufferLine
  PROVE  \E line \in Lines :
           /\ Extended(line) \in [Indices -> Block]
           /\ NewBlock(line, sent + 1) \in Block
           /\ Extended(line)[head] = NewBlock(line, sent + 1)
           /\ \A i \in Indices : i # head => Extended(line)[i] = block_buffer[i]
           /\ Replan(Extended(line), plan_next_block_index(head), planned,
                     ReachesTail(plan_next_block_index(head), planned))
           /\ previous_nominal' = Nominal(line, override)
           /\ head' = plan_next_block_index(head) /\ head' \in Indices
           /\ plan_prev_block_index(head') = head
           /\ tail' = tail /\ tail # head' /\ override' = override
           /\ UNCHANGED <<modeVars, reduced>>
           /\ Distance(tail, head') = Queued + 1 /\ Queued' = Queued + 1
<1>1. PipelineTypes /\ tail' = tail /\ head' = plan_next_block_index(head)
      /\ tail # plan_next_block_index(head) /\ override' = override
      /\ UNCHANGED <<modeVars, reduced>>
  BY DEF PlannedInv, QueueInv, BufferLine, plan_check_full_buffer, historyVars
<1>2. /\ tail \in Indices /\ head \in Indices /\ plan_next_block_index(head) \in Indices
      /\ sent + 1 \in 0 .. MaxMotions /\ planned \in Indices
      /\ plan_prev_block_index(plan_next_block_index(head)) = head
  BY <1>1, RingIndex, RingBack, SegmentAssumption DEF PipelineTypes, BufferLine
<1>3. PICK line \in Lines :
        /\ planner_recalculate(Extended(line), plan_next_block_index(head))
        /\ previous_nominal' = Nominal(line, override)
  BY DEF BufferLine, Extended
<1>4. NewBlock(line, sent + 1) \in Block
  BY <1>1, <1>2, NewBlockTyped
<1>5. Extended(line) \in [Indices -> Block] /\ Extended(line)[head] = NewBlock(line, sent + 1)
      /\ \A i \in Indices : i # head => Extended(line)[i] = block_buffer[i]
  <2> HIDE DEF Block
  <2> QED
    BY <1>1, <1>2, <1>4 DEF PipelineTypes, Extended
<1>6. Replan(Extended(line), plan_next_block_index(head), planned,
             ReachesTail(plan_next_block_index(head), planned))
  BY <1>3, ReplanIs
<1>7. Distance(tail, plan_next_block_index(head)) = Queued + 1
  BY <1>1, <1>2, RingNext DEF Queued
<1>8. Queued' = Queued + 1
  BY <1>1, <1>7 DEF Queued
<1>9. /\ Extended(line) \in [Indices -> Block] /\ NewBlock(line, sent + 1) \in Block
      /\ Extended(line)[head] = NewBlock(line, sent + 1)
      /\ \A i \in Indices : i # head => Extended(line)[i] = block_buffer[i]
      /\ Replan(Extended(line), plan_next_block_index(head), planned,
                ReachesTail(plan_next_block_index(head), planned))
      /\ previous_nominal' = Nominal(line, override)
      /\ head' = plan_next_block_index(head) /\ head' \in Indices
      /\ plan_prev_block_index(head') = head
      /\ tail' = tail /\ tail # head' /\ override' = override
      /\ UNCHANGED <<modeVars, reduced>>
      /\ Distance(tail, head') = Queued + 1 /\ Queued' = Queued + 1
  BY <1>1, <1>2, <1>3, <1>4, <1>5, <1>6, <1>7, <1>8
<1> QED
  BY <1>9

\* A new override leaves the rest of a block alone.
LEMMA ReprofiledIs ==
  ASSUME PipelineTypes, NEW o \in Overrides, NEW i \in Indices
  PROVE  /\ Reprofiled(o)[i].entry = block_buffer[i].entry
         /\ Reprofiled(o)[i].rate = block_buffer[i].rate
         /\ Reprofiled(o)[i].junction = block_buffer[i].junction
         /\ Distance(tail, i) < Distance(tail, head) /\ i # tail =>
              Reprofiled(o)[i].max =
                MaxEntry(block_buffer[i].junction, Nominal(block_buffer[i], o),
                         Nominal(block_buffer[plan_prev_block_index(i)], o))
<1>1. block_buffer[i] \in Block
  BY DEF PipelineTypes
<1>2. \A block \in Block : \A e : /\ [block EXCEPT !.max = e].entry = block.entry
                                  /\ [block EXCEPT !.max = e].rate = block.rate
                                  /\ [block EXCEPT !.max = e].junction = block.junction
                                  /\ [block EXCEPT !.max = e].max = e
  BY DEF Block
<1>3. PICK e : e = MaxEntry(block_buffer[i].junction, Nominal(block_buffer[i], o),
                            IF i = tail THEN SOME_LARGE_VALUE
                            ELSE Nominal(block_buffer[plan_prev_block_index(i)], o))
  OBVIOUS
<1>4. Reprofiled(o)[i] = IF Distance(tail, i) < Distance(tail, head)
                         THEN [block_buffer[i] EXCEPT !.max = e] ELSE block_buffer[i]
  BY <1>3 DEF Reprofiled
<1>5. CASE Distance(tail, i) < Distance(tail, head)
  <2>1. Reprofiled(o)[i] = [block_buffer[i] EXCEPT !.max = e]
    BY <1>4, <1>5
  <2>2. /\ Reprofiled(o)[i].entry = block_buffer[i].entry
        /\ Reprofiled(o)[i].rate = block_buffer[i].rate
        /\ Reprofiled(o)[i].junction = block_buffer[i].junction
        /\ Reprofiled(o)[i].max = e
    BY <1>1, <1>2, <2>1
  <2> QED
    BY <1>3, <2>2
<1>6. CASE ~(Distance(tail, i) < Distance(tail, head))
  BY <1>4, <1>6
<1> QED
  BY <1>5, <1>6

\* A line, a new override, the end of a hold: the queue is planned again.
LEMMA ProfileLine ==
  ASSUME ProfileInv, BufferLine
  PROVE  SpeedInv' /\ HoldInv'
<1>1. PICK line \in Lines :
        /\ Extended(line) \in [Indices -> Block]
        /\ Extended(line)[head] = NewBlock(line, sent + 1)
        /\ \A i \in Indices : i # head => Extended(line)[i] = block_buffer[i]
        /\ Replan(Extended(line), plan_next_block_index(head), planned,
                  ReachesTail(plan_next_block_index(head), planned))
        /\ head' = plan_next_block_index(head) /\ head' \in Indices
        /\ tail' = tail /\ UNCHANGED modeVars /\ Distance(tail, head') = Queued + 1
  BY LineIs DEF ProfileInv
<1>2. PipelineTypes /\ tail \in Indices /\ planned \in Indices /\ Queued \in Nat /\ PlannedInv
  BY QueueViews DEF ProfileInv, PipelineTypes
<1>3. \A i \in Indices : Extended(line)[i].entry >= 0
  <2>1. NewBlock(line, sent + 1).entry = 0
    BY DEF NewBlock
  <2>2. ASSUME NEW i \in Indices PROVE Extended(line)[i].entry >= 0
    <3>1. CASE i = head
      BY <1>1, <2>1, <3>1
    <3>2. CASE i # head
      BY <1>1, <3>2 DEF ProfileInv, SpeedInv
    <3> QED
      BY <3>1, <3>2
  <2> QED
    BY <2>2
<1>4. InProgress => /\ Distance(tail, planned) < Distance(tail, plan_next_block_index(head))
                    /\ Extended(line)[tail].gain = block_buffer[tail].gain
                    /\ Extended(line)[tail].entry = block_buffer[tail].entry
  <2> SUFFICES ASSUME InProgress
               PROVE  /\ Distance(tail, planned) < Distance(tail, plan_next_block_index(head))
                      /\ Extended(line)[tail] = block_buffer[tail]
    OBVIOUS
  <2>1. Queued > 0 /\ head # tail
    BY ProgressTail
  <2>2. Distance(tail, planned) < Queued /\ Distance(tail, planned) \in Nat
    BY <1>2, <2>1, RingInverse, IndexNat DEF PlannedInv, PlannedInQueue
  <2> QED
    BY <1>1, <1>2, <2>1, <2>2
<1>5. ReachesTail(plan_next_block_index(head), planned) \in BOOLEAN
  BY DEF ReachesTail
<1> QED
  BY <1>1, <1>2, <1>3, <1>4, <1>5, ProfileReplanned

\* The whole queue is planned again.
LEMMA ProfileAgain ==
  ASSUME ProfileInv, NEW b \in [Indices -> Block], plan_cycle_reinitialize(b),
         tail' = tail, head' = head,
         \A i \in Indices : b[i].gain = block_buffer[i].gain /\ b[i].entry = block_buffer[i].entry
  PROVE  /\ SpeedInv'
         /\ UNCHANGED modeVars => HoldInv'
         /\ ~prep'.loaded
<1>1. PipelineTypes /\ tail \in Indices /\ head \in Indices /\ Queued \in Nat
      /\ prep \in Preps
  BY QueueViews DEF ProfileInv, PipelineTypes
<1>2. Replan(b, head, tail, TRUE)
  BY ReplanIs
<1>3. \A i \in Indices : b[i].entry >= 0
  BY DEF ProfileInv, SpeedInv
<1>4. InProgress => /\ Distance(tail, tail) < Distance(tail, head)
                    /\ b[tail].gain = block_buffer[tail].gain
                    /\ b[tail].entry = block_buffer[tail].entry
  BY <1>1, ProgressTail, RingInverse DEF Queued
<1>5. ~prep'.loaded
  BY <1>1, <1>2, UnloadedIs DEF Replan
<1> QED
  BY <1>1, <1>2, <1>3, <1>4, <1>5, ProfileReplanned

\* Another override plans the queue again with other maxima.
LEMMA ProfileOverride ==
  ASSUME ProfileInv, ChangeOverride
  PROVE  SpeedInv' /\ HoldInv'
<1>1. PipelineTypes /\ block_buffer \in [Indices -> Block]
  BY QueueViews DEF ProfileInv, PipelineTypes
<1>2. PICK o \in Overrides : plan_cycle_reinitialize(Reprofiled(o))
  BY DEF ChangeOverride
<1>3. tail' = tail /\ head' = head /\ UNCHANGED modeVars
  BY DEF ChangeOverride
<1>4. Reprofiled(o) \in [Indices -> Block]
      /\ \A i \in Indices : Reprofiled(o)[i].gain = block_buffer[i].gain
                            /\ Reprofiled(o)[i].entry = block_buffer[i].entry
  BY <1>1, ReprofiledKeeps, ReprofiledIs
<1> QED
  BY <1>2, <1>3, <1>4, ProfileAgain

\* The end of a hold plans it again as it is.
LEMMA ProfileStop ==
  ASSUME ProfileInv, CycleStop
  PROVE  SpeedInv' /\ HoldInv'
<1>1. block_buffer \in [Indices -> Block] /\ tail' = tail /\ head' = head
      /\ end_motion' = end_motion
  BY QueueViews DEF ProfileInv, PipelineTypes, CycleStop
<1>2. CASE mode = "HOLD"
  <2>1. SpeedInv' /\ ~prep'.loaded
    BY <1>1, <1>2, ProfileAgain DEF CycleStop
  <2>2. mode' = "HOLD" /\ execute_hold' = FALSE
    BY <1>2 DEF CycleStop
  <2>3. HoldInv'
    BY <2>1, <2>2 DEF HoldInv
  <2> QED
    BY <2>1, <2>3
<1>3. CASE mode # "HOLD"
  <2>1. UNCHANGED <<block_buffer, planned, prep, execute_hold>> /\ hold_complete' = FALSE
        /\ ~execute_hold
    BY <1>3 DEF CycleStop, ProfileInv, HoldInv
  <2>2. Gain(0)' = Gain(0) /\ Entry(0)' = Entry(0)
    BY <1>1, <2>1 DEF Gain, Entry, Queued
  <2>3. SpeedInv'
    BY <2>1, <2>2 DEF ProfileInv, SpeedInv
  <2>4. HoldInv'
    BY <1>1, <2>1, <2>2 DEF ProfileInv, HoldInv
  <2> QED
    BY <2>3, <2>4
<1> QED
  BY <1>2, <1>3

\* The speed after a segment is within what is left of the profile.
LEMMA SpeedWithin ==
  ASSUME NEW C \in Preps, NEW g \in Nat, NEW d \in Nat, d > 0, d <= g - C.complete,
         NEW n \in Nat, NEW v, v = SpeedAfter(C, d, g - d, n),
         C.speed >= 0, C.exit >= 0, C.decelerate => C.speed - (g - C.complete) >= 0
  PROVE  /\ v \in Int /\ v >= 0
         /\ C.decelerate => v - ((g - d) - C.complete) >= 0
         /\ C.decelerate /\ C.speed - C.exit = g - C.complete
              => v - C.exit = (g - d) - C.complete
<1>1. PICK s \in Int, x \in Int, c \in Nat, l \in Nat :
        /\ s = C.speed /\ x = C.exit /\ c = C.complete /\ l = g - d
  BY DEF Preps
<1>2. CASE l = c
  BY <1>1, <1>2 DEF SpeedAfter
<1>3. CASE l # c /\ C.decelerate
  <2>1. v = s - d
    BY <1>1, <1>3 DEF SpeedAfter
  <2> QED
    BY <1>1, <1>3, <2>1
<1>4. CASE l # c /\ ~C.decelerate
  <2>1. PICK w \in Int : /\ w = IF s > n THEN IF s - d > n THEN s - d ELSE n ELSE Lowest(s + d, n)
                         /\ w >= 0
    BY <1>1 DEF Lowest
  <2>2. v = Lowest(w, x + l)
    BY <1>1, <1>4, <2>1 DEF SpeedAfter
  <2>3. v \in Int /\ v >= 0
    BY <1>1, <2>1, <2>2 DEF Lowest
  <2> QED
    BY <1>4, <2>3
<1> QED
  BY <1>2, <1>3, <1>4

\* The block in execution has a natural nominal speed.
LEMMA NominalHere == PipelineTypes => Nominal(block_buffer[tail], override) \in Nat
<1> SUFFICES ASSUME PipelineTypes PROVE Nominal(block_buffer[tail], override) \in Nat
  OBVIOUS
<1>1. override \in Nat /\ block_buffer[tail].rate \in Nat
  BY MotionAssumption, CurrentTyped DEF PipelineTypes, Block
<1> QED
  BY <1>1, NominalNat

\* A segment stays on the profile of its block.
LEMMA ProfileSegment ==
  ASSUME ProfileInv, PrepSegment
  PROVE  SpeedInv' /\ HoldInv'
<1>1. PICK d : SegmentMade(d)
  BY DEF PrepSegment, SegmentMade
<1>2. PICK C : C = Current
  OBVIOUS
<1>3. PICK n \in Nat : n = Nominal(block_buffer[tail], override)
  BY QueueViews, NominalHere DEF ProfileInv
<1>4. PICK v : v = SpeedAfter(C, d, Gain(0) - d, n)
  OBVIOUS
<1>5. /\ Queued > 0 /\ CanPrep /\ PipelineTypes
      /\ d \in Nat /\ d > 0 /\ d <= Gain(0) - C.complete /\ Gain(0) - d \in Nat
      /\ prep'.speed = v /\ prep'.exit = C.exit /\ prep'.complete = C.complete
      /\ prep'.decelerate = C.decelerate
      /\ ~prep'.recalculate /\ (prep'.loaded <=> Gain(0) - d > 0)
      /\ end_motion' <=> Gain(0) - d > 0 /\ Gain(0) - d = C.complete
      /\ \A i \in Indices : i # tail => block_buffer'[i] = block_buffer[i]
      /\ block_buffer'[tail].entry = LoadedEntry
  BY <1>1, <1>2, <1>3, <1>4, SegmentProfile
<1>6. /\ C \in Preps /\ C.loaded /\ C.speed >= 0 /\ C.exit >= 0
      /\ C.decelerate => C.speed - (Gain(0) - C.complete) >= 0
      /\ C.complete # 0 => execute_hold /\ C.exit = 0
      /\ execute_hold => C.decelerate /\ C.speed - C.exit = Gain(0) - C.complete
  BY <1>2, <1>5, CurrentProfile
<1>7. Gain(0) \in Nat
  <2>1. Gain(0) = block_buffer[tail].gain /\ block_buffer[tail] \in Block
    BY <1>5, QueueViews, CurrentTyped DEF ProfileInv
  <2> QED
    BY <2>1 DEF Block
<1>8. /\ v \in Int /\ v >= 0
      /\ C.decelerate => v - ((Gain(0) - d) - C.complete) >= 0
      /\ C.decelerate /\ C.speed - C.exit = Gain(0) - C.complete
           => v - C.exit = (Gain(0) - d) - C.complete
  BY <1>3, <1>4, <1>5, <1>6, <1>7, SpeedWithin
<1>9. \A i \in Indices : block_buffer'[i].entry >= 0
  <2>1. LoadedEntry >= 0
    BY <1>2, <1>5, <1>6 DEF LoadedEntry, ProfileInv, SpeedInv, PipelineTypes
  <2>2. ASSUME NEW i \in Indices PROVE block_buffer'[i].entry >= 0
    <3>1. CASE i = tail
      BY <1>5, <2>1, <3>1
    <3>2. CASE i # tail
      BY <1>5, <3>2 DEF ProfileInv, SpeedInv
    <3> QED
      BY <3>1, <3>2
  <2> QED
    BY <2>2
<1>10. prep'.loaded => Gain(0)' = Gain(0) - d
  BY <1>1, <1>5, SegmentWithin
<1>11. SpeedInv'
  <2>1. prep'.loaded /\ prep'.decelerate => prep'.speed - (Gain(0)' - prep'.complete) >= 0
    BY <1>5, <1>8, <1>10
  <2>2. prep'.speed >= 0 /\ prep'.exit >= 0
    BY <1>5, <1>6, <1>8
  <2> QED
    BY <1>5, <1>9, <2>1, <2>2 DEF SpeedInv
<1>12. mode' = mode /\ execute_hold' = execute_hold /\ hold_complete' = hold_complete
  BY DEF PrepSegment
<1>13. HoldInv'
  <2>1. (execute_hold => mode = "HOLD" /\ ~hold_complete) /\ (hold_complete => mode = "HOLD")
    BY DEF ProfileInv, HoldInv
  <2>2. prep'.loaded /\ (prep'.complete # 0 \/ end_motion') => execute_hold
    <3>1. end_motion' => C.complete # 0
      BY <1>5, <1>7
    <3> QED
      BY <1>5, <1>6, <3>1
  <2>3. prep'.loaded /\ prep'.complete # 0 => prep'.exit = 0
    BY <1>5, <1>6
  <2>4. prep'.loaded /\ execute_hold =>
          prep'.decelerate /\ prep'.speed - prep'.exit = Gain(0)' - prep'.complete
    BY <1>5, <1>6, <1>8, <1>10
  <2> QED
    BY <1>12, <2>1, <2>2, <2>3, <2>4 DEF HoldInv
<1> QED
  BY <1>11, <1>13

\* A hold that ends before the first step of a block leaves its profile alone.
LEMMA ProfileStandstill ==
  ASSUME ProfileInv, PrepStandstill
  PROVE  /\ SpeedInv' /\ HoldInv' /\ Queued > 0 /\ execute_hold
         /\ prep'.loaded /\ prep'.speed = 0 /\ prep'.exit = Current.exit
         /\ prep'.decel_override = Current.decel_override
         /\ block_buffer' \in [Indices -> Block]
         /\ \A i \in Indices : i # tail => block_buffer'[i] = block_buffer[i]
         /\ block_buffer'[tail].gain = block_buffer[tail].gain
         /\ block_buffer'[tail].max = block_buffer[tail].max
         /\ block_buffer'[tail].junction = block_buffer[tail].junction
         /\ block_buffer'[tail].rate = block_buffer[tail].rate
<1>1. PlannedInv /\ PipelineTypes /\ LoadSlot /\ CanPrep /\ tail \in Indices
      /\ block_buffer \in [Indices -> Block]
  BY QueueViews DEF ProfileInv, PrepStandstill, PipelineTypes
<1>2. Queued > 0
  BY <1>1, QueuePass DEF PlannedInv
<1>3. PICK C : C = Current
  OBVIOUS
<1>4. /\ C \in Preps /\ C.loaded /\ ~C.recalculate
      /\ C.speed >= 0 /\ C.exit >= 0
      /\ C.complete # 0 => execute_hold /\ C.exit = 0
      /\ execute_hold => C.decelerate /\ C.speed - C.exit = Gain(0) - C.complete
  BY <1>1, <1>2, <1>3, CurrentProfile
<1>5. /\ C.complete = block_buffer[tail].gain
      /\ block_buffer' = [block_buffer EXCEPT ![tail].entry = LoadedEntry]
      /\ prep' = [C EXCEPT !.speed = 0]
      /\ end_motion' = TRUE /\ UNCHANGED <<tail, head, mode, execute_hold, hold_complete>>
  BY <1>3 DEF PrepStandstill
<1>6. Gain(0) \in Nat /\ Gain(0) > 0 /\ Gain(0) = block_buffer[tail].gain
  <2>1. Gain(0) = block_buffer[tail].gain /\ block_buffer[tail] \in Block
    BY <1>1, <1>2, QueueViews, CurrentTyped
  <2>2. block_buffer[tail].gain # 0
    BY <1>1, QueuePass DEF PlannedInv
  <2> QED
    BY <2>1, <2>2 DEF Block
<1>7. execute_hold /\ C.exit = 0
  BY <1>4, <1>5, <1>6
<1>8. /\ prep'.loaded /\ prep'.speed = 0 /\ prep'.exit = C.exit /\ ~prep'.recalculate
      /\ prep'.complete = C.complete /\ prep'.decelerate = C.decelerate
      /\ prep'.decel_override = C.decel_override
  BY <1>4, <1>5 DEF Preps
<1>9. LoadedEntry \in Int /\ LoadedEntry >= 0
  BY <1>1, <1>3, <1>4 DEF LoadedEntry, ProfileInv, SpeedInv, Preps, Block
<1>10. /\ block_buffer' \in [Indices -> Block]
       /\ \A i \in Indices : i # tail => block_buffer'[i] = block_buffer[i]
       /\ block_buffer'[tail].gain = block_buffer[tail].gain
       /\ block_buffer'[tail].max = block_buffer[tail].max
       /\ block_buffer'[tail].junction = block_buffer[tail].junction
       /\ block_buffer'[tail].rate = block_buffer[tail].rate
       /\ block_buffer'[tail].entry = LoadedEntry
  BY <1>1, <1>5, <1>9 DEF Block
<1>11. Gain(0)' = Gain(0)
  <2>1. At(tail, 0)' = tail
    BY <1>1, <1>5, RingInverse DEF At
  <2> QED
    BY <1>6, <1>10, <2>1 DEF Gain
<1>12. SpeedInv'
  <2>1. \A i \in Indices : block_buffer'[i].entry >= 0
    BY <1>9, <1>10 DEF ProfileInv, SpeedInv
  <2>2. prep'.speed - (Gain(0)' - prep'.complete) >= 0
    BY <1>5, <1>6, <1>8, <1>11
  <2> QED
    BY <1>4, <1>8, <2>1, <2>2 DEF SpeedInv
<1>13. HoldInv'
  <2>1. (execute_hold => mode = "HOLD" /\ ~hold_complete) /\ (hold_complete => mode = "HOLD")
    BY DEF ProfileInv, HoldInv
  <2>2. prep'.speed - prep'.exit = Gain(0)' - prep'.complete
    BY <1>5, <1>6, <1>7, <1>8, <1>11
  <2> QED
    BY <1>4, <1>5, <1>7, <1>8, <2>1, <2>2 DEF HoldInv
<1> QED
  BY <1>2, <1>3, <1>7, <1>8, <1>10, <1>12, <1>13

\* A hold stores the speed of a motion, and leaves a machine at rest alone.
LEMMA HoldIs ==
  ASSUME ProfileInv, Hold
  PROVE  /\ tail' = tail /\ head' = head /\ planned' = planned /\ Queued' = Queued
         /\ override' = override /\ previous_nominal' = previous_nominal
         /\ \A i \in Indices : /\ block_buffer'[i].gain = block_buffer[i].gain
                               /\ block_buffer'[i].max = block_buffer[i].max
                               /\ block_buffer'[i].junction = block_buffer[i].junction
                               /\ block_buffer'[i].rate = block_buffer[i].rate
                               /\ i # tail => block_buffer'[i].entry = block_buffer[i].entry
         /\ mode' = "HOLD"
         /\ \/ /\ mode = "CYCLE" /\ execute_hold' /\ ~end_motion'
               /\ hold_complete' = hold_complete /\ prep' = Unloaded
               /\ block_buffer'[tail].entry
                    = IF prep.loaded THEN prep.speed ELSE block_buffer[tail].entry
            \/ /\ mode = "IDLE" /\ hold_complete'
               /\ UNCHANGED <<block_buffer, prep, execute_hold, end_motion>>
<1>1. PipelineTypes /\ tail \in Indices /\ block_buffer \in [Indices -> Block]
  BY QueueViews DEF ProfileInv, PipelineTypes
<1>2. /\ tail' = tail /\ head' = head /\ planned' = planned
      /\ override' = override /\ previous_nominal' = previous_nominal
      /\ mode \in {"IDLE", "CYCLE"} /\ mode' = "HOLD"
  BY DEF Hold
<1>3. Queued' = Queued
  BY <1>2 DEF Queued
<1>4. CASE mode = "CYCLE"
  <2>1. block_buffer' = Updated(block_buffer) /\ prep' = Unloaded /\ execute_hold' /\ ~end_motion'
        /\ hold_complete' = hold_complete
    BY <1>4 DEF Hold
  <2> QED
    BY <1>1, <1>2, <1>3, <1>4, <2>1, UpdatedKeeps
<1>5. CASE mode = "IDLE"
  <2>1. hold_complete' /\ UNCHANGED <<block_buffer, prep, execute_hold, end_motion>>
    BY <1>5 DEF Hold
  <2> QED
    BY <1>2, <1>3, <1>5, <2>1
<1> QED
  BY <1>2, <1>4, <1>5

\* A hold lets the block learn its speed and unloads it.
LEMMA ProfileHold ==
  ASSUME ProfileInv, Hold
  PROVE  SpeedInv' /\ HoldInv'
<1>1. PlannedInv /\ PipelineTypes /\ tail \in Indices /\ prep \in Preps
  BY QueueViews DEF ProfileInv, PipelineTypes
<1>2. (execute_hold => mode = "HOLD" /\ ~hold_complete) /\ (hold_complete => mode = "HOLD")
  BY DEF ProfileInv, HoldInv
<1>3. /\ tail' = tail /\ Queued' = Queued
      /\ \A i \in Indices : i # tail => block_buffer'[i].entry = block_buffer[i].entry
  BY HoldIs
<1>4. CASE mode = "CYCLE"
  <2>1. mode' = "HOLD" /\ execute_hold' /\ hold_complete' = hold_complete /\ prep' = Unloaded
        /\ block_buffer'[tail].entry = IF prep.loaded THEN prep.speed ELSE block_buffer[tail].entry
    BY <1>4, HoldIs
  <2>2. ~prep'.loaded /\ (prep'.recalculate <=> InProgress) /\ prep'.speed = prep.speed
        /\ prep'.exit = prep.exit
    BY <1>1, <2>1, UnloadedIs
  <2>3. HoldInv'
    BY <1>2, <1>4, <2>1, <2>2 DEF HoldInv
  <2>4. ASSUME InProgress PROVE Entry(0)' = prep.speed
    <3>1. Queued' # 0 /\ Entry(0) = block_buffer[tail].entry
      BY <1>3, <2>4, ProgressTail
    <3>2. At(tail, 0)' = tail
      BY <1>1, <1>3, RingInverse DEF At
    <3>3. Entry(0)' = block_buffer'[tail].entry
      BY <3>1, <3>2 DEF Entry
    <3>4. ~prep.loaded => Entry(0) = prep.speed
      BY <2>4 DEF InProgress, ProfileInv, SpeedInv
    <3> QED
      BY <2>1, <3>1, <3>3, <3>4
  <2>5. SpeedInv'
    <3>1. \A i \in Indices : block_buffer'[i].entry >= 0
      BY <1>3, <2>1 DEF ProfileInv, SpeedInv
    <3> QED
      BY <2>2, <2>4, <3>1 DEF SpeedInv, ProfileInv
  <2> QED
    BY <2>3, <2>5
<1>5. CASE mode # "CYCLE"
  <2>1. mode' = "HOLD" /\ hold_complete'
        /\ UNCHANGED <<block_buffer, prep, execute_hold, end_motion>> /\ mode = "IDLE"
    BY <1>5, HoldIs
  <2>2. Gain(0)' = Gain(0) /\ Entry(0)' = Entry(0)
    BY <1>3, <2>1 DEF Gain, Entry, At
  <2>3. ~execute_hold
    BY <1>2, <2>1
  <2>4. SpeedInv'
    BY <2>1, <2>2 DEF ProfileInv, SpeedInv
  <2>5. HoldInv'
    BY <2>1, <2>2, <2>3 DEF ProfileInv, HoldInv
  <2> QED
    BY <2>4, <2>5
<1> QED
  BY <1>4, <1>5

\* A start resumes with the speeds as they are.
LEMMA ProfileStart ==
  ASSUME ProfileInv, Start
  PROVE  SpeedInv' /\ HoldInv' /\ ~execute_hold
<1>1. UNCHANGED <<block_buffer, tail, head, prep>> /\ execute_hold' = FALSE /\ end_motion' = FALSE
      /\ hold_complete' = FALSE /\ (mode = "IDLE" \/ hold_complete)
  BY DEF Start, plannerVars
<1>2. ~execute_hold
  BY <1>1 DEF ProfileInv, HoldInv
<1>3. Gain(0)' = Gain(0) /\ Entry(0)' = Entry(0)
  BY <1>1 DEF Gain, Entry, At, Queued
<1>4. SpeedInv'
  BY <1>1, <1>3 DEF ProfileInv, SpeedInv
<1>5. HoldInv'
  BY <1>1, <1>2, <1>3 DEF ProfileInv, HoldInv
<1> QED
  BY <1>2, <1>4, <1>5

\* A flush empties the queue and resets the generator.
LEMMA ProfileFlush ==
  ASSUME ProfileInv, Flush
  PROVE  SpeedInv' /\ HoldInv' /\ Queued' = 0 /\ ~InProgress' /\ prep'.exit = 0
         /\ ~prep'.decel_override /\ Entry(0)' = 0
<1>1. block_buffer' = block_buffer /\ prep' = PrepReset /\ execute_hold' = FALSE
      /\ hold_complete' = FALSE /\ tail' = 0 /\ head' = 0
  BY DEF Flush, StReset, PlanReset
<1>2. ~prep'.loaded /\ ~prep'.recalculate /\ prep'.speed = 0 /\ prep'.exit = 0
      /\ ~prep'.decel_override
  BY <1>1 DEF PrepReset
<1>3. SpeedInv'
  BY <1>1, <1>2 DEF ProfileInv, SpeedInv
<1>4. HoldInv'
  BY <1>1, <1>2 DEF HoldInv
<1>5. Queued' = 0
  <2>1. 0 \in Indices
    BY RingAssumption DEF Indices
  <2>2. Distance(0, 0) = 0
    BY <2>1, RingInverse
  <2>3. Queued' = Distance(0, 0)
    BY <1>1 DEF Queued, Distance
  <2> QED
    BY <2>2, <2>3
<1>6. Entry(0)' = 0
  BY <1>5 DEF Entry
<1> QED
  BY <1>2, <1>3, <1>4, <1>5, <1>6 DEF InProgress

\* Steps that none of these invariants sees; a line without length is one.
Idle == Interrupt \/ BufferNothing \/ UNCHANGED vars

\* They change the slot at the head at most.
LEMMA IdleIs ==
  ASSUME PlannedInv, Idle
  PROVE  /\ tail' = tail /\ head' = head /\ planned' = planned /\ prep' = prep
         /\ override' = override /\ previous_nominal' = previous_nominal
         /\ UNCHANGED modeVars /\ reduced' = reduced /\ Queued' = Queued
         /\ \A i \in Indices : i # head => block_buffer'[i] = block_buffer[i]
         /\ \A i \in Indices : block_buffer'[i] = block_buffer[i] \/ block_buffer'[i] = NoBlock
<1>1. block_buffer \in [Indices -> Block]
  BY QueueViews DEF PipelineTypes
<1>2. CASE BufferNothing
  <2>1. /\ tail' = tail /\ head' = head /\ planned' = planned /\ prep' = prep
        /\ override' = override /\ previous_nominal' = previous_nominal
        /\ UNCHANGED modeVars /\ reduced' = reduced
        /\ block_buffer' = [block_buffer EXCEPT ![head] = NoBlock]
    BY <1>2 DEF BufferNothing, historyVars
  <2> QED
    BY <1>1, <2>1 DEF Queued
<1>3. CASE Interrupt \/ UNCHANGED vars
  <2>1. /\ tail' = tail /\ head' = head /\ planned' = planned /\ prep' = prep
        /\ override' = override /\ previous_nominal' = previous_nominal
        /\ UNCHANGED modeVars /\ reduced' = reduced
        /\ block_buffer' = block_buffer
    BY <1>3 DEF Interrupt, IsrLoad, IsrDone, IsrEmpty, vars, plannerVars, historyVars
  <2> QED
    BY <2>1 DEF Queued
<1> QED
  BY <1>2, <1>3 DEF Idle

\* So they keep the speeds.
LEMMA ProfileIdle ==
  ASSUME ProfileInv, Idle
  PROVE  SpeedInv' /\ HoldInv'
<1>1. PlannedInv /\ PipelineTypes /\ tail \in Indices
  BY QueueViews DEF ProfileInv, PipelineTypes
<1>2. /\ tail' = tail /\ head' = head /\ prep' = prep /\ UNCHANGED modeVars /\ Queued' = Queued
      /\ \A i \in Indices : i # head => block_buffer'[i] = block_buffer[i]
      /\ \A i \in Indices : block_buffer'[i] = block_buffer[i] \/ block_buffer'[i] = NoBlock
  BY <1>1, IdleIs
<1>3. \A i \in Indices : block_buffer'[i].entry >= 0
  <2>1. NoBlock.entry = 0
    BY DEF NoBlock
  <2> QED
    BY <1>2, <2>1 DEF ProfileInv, SpeedInv
<1>4. InProgress => Gain(0)' = Gain(0) /\ Entry(0)' = Entry(0)
  <2>1. At(tail, 0) = tail /\ At(tail, 0)' = tail
    BY <1>1, <1>2, RingInverse DEF At
  <2> QED
    BY <1>1, <1>2, <2>1, ProgressTail DEF Gain, Entry
<1>5. SpeedInv'
  BY <1>2, <1>3, <1>4 DEF ProfileInv, SpeedInv, InProgress
<1>6. HoldInv'
  BY <1>2, <1>4 DEF ProfileInv, HoldInv, InProgress, modeVars
<1> QED
  BY <1>5, <1>6

\* Every step keeps them.
LEMMA ProfileStep == ProfileInv /\ [Next]_vars => ProfileInv'
<1> SUFFICES ASSUME ProfileInv, [Next]_vars PROVE ProfileInv'
  OBVIOUS
<1>1. PlannedInv'
  BY PlannedStep DEF ProfileInv
<1>2. SpeedInv' /\ HoldInv'
  BY ProfileSegment, ProfileStandstill, ProfileLine, ProfileOverride, ProfileHold, ProfileStart,
     ProfileStop, ProfileFlush, ProfileIdle DEF Next, Generator, Main, Idle
<1> QED
  BY <1>1, <1>2 DEF ProfileInv

-----------------------------------------------------------------------------
\* Every step keeps the maxima up to date.

\* A step that changes speeds and lengths only.
LEMMA MaximaKept ==
  ASSUME PlannedInv, MaximaInv, tail' = tail, head' = head, override' = override,
         previous_nominal' = previous_nominal,
         \A i \in Indices : i # head => /\ block_buffer'[i].max = block_buffer[i].max
                                        /\ block_buffer'[i].junction = block_buffer[i].junction
                                        /\ block_buffer'[i].rate = block_buffer[i].rate
  PROVE  MaximaInv'
<1>1. Queued' = Queued /\ Queued \in Nat
  BY QueueViews DEF Queued
<1>2. \A k \in 0 .. (Queued - 1) :
        /\ At(tail, k)' = At(tail, k)
        /\ (block_buffer[At(tail, k)].max)' = block_buffer[At(tail, k)].max
        /\ (block_buffer[At(tail, k)].junction)' = block_buffer[At(tail, k)].junction
        /\ Nominal(block_buffer[At(tail, k)], override)' = Nominal(block_buffer[At(tail, k)], override)
  <2> SUFFICES ASSUME NEW k \in 0 .. (Queued - 1)
               PROVE  /\ At(tail, k)' = At(tail, k)
                      /\ (block_buffer[At(tail, k)].max)' = block_buffer[At(tail, k)].max
                      /\ (block_buffer[At(tail, k)].junction)' = block_buffer[At(tail, k)].junction
                      /\ Nominal(block_buffer[At(tail, k)], override)'
                           = Nominal(block_buffer[At(tail, k)], override)
    OBVIOUS
  <2>1. At(tail, k) \in Indices /\ At(tail, k) # head
    BY QueueViews
  <2>2. At(tail, k)' = At(tail, k)
    BY DEF At
  <2> QED
    BY <2>1, <2>2 DEF Nominal
<1>3. ASSUME NEW k \in 1 .. (Queued - 1)
      PROVE  (block_buffer[At(tail, k)].max
               = MaxEntry(block_buffer[At(tail, k)].junction,
                          Nominal(block_buffer[At(tail, k)], override),
                          Nominal(block_buffer[At(tail, k - 1)], override)))'
  <2>1. k \in 0 .. (Queued - 1) /\ k - 1 \in 0 .. (Queued - 1)
    BY <1>1
  <2>2. block_buffer[At(tail, k)].max
          = MaxEntry(block_buffer[At(tail, k)].junction,
                     Nominal(block_buffer[At(tail, k)], override),
                     Nominal(block_buffer[At(tail, k - 1)], override))
    BY DEF MaximaInv
  <2> QED
    BY <1>2, <2>1, <2>2 DEF MaxEntry
<1>4. Queued > 0 => previous_nominal' = Nominal(block_buffer[At(tail, Queued - 1)], override)'
  <2> SUFFICES ASSUME Queued > 0
               PROVE  previous_nominal' = Nominal(block_buffer[At(tail, Queued - 1)], override)'
    OBVIOUS
  <2>1. Queued - 1 \in 0 .. (Queued - 1)
    BY <1>1
  <2>2. Nominal(block_buffer[At(tail, Queued - 1)], override)'
          = Nominal(block_buffer[At(tail, Queued - 1)], override)
    <3>1. PICK k \in 0 .. (Queued - 1) : k = Queued - 1
      BY <2>1
    <3>2. Nominal(block_buffer[At(tail, k)], override)' = Nominal(block_buffer[At(tail, k)], override)
      BY <1>2
    <3>3. At(tail, Queued - 1)' = At(tail, k)'
      BY <1>1, <3>1 DEF At
    <3> QED
      BY <3>1, <3>2, <3>3 DEF Nominal
  <2> QED
    BY <2>2 DEF MaximaInv
<1> QED
  BY <1>1, <1>3, <1>4 DEF MaximaInv

\* What a planning leaves alone.
LEMMA ReplanKeeps ==
  ASSUME PipelineTypes, NEW b \in [Indices -> Block], NEW h \in Indices, NEW p \in Indices,
         NEW again \in BOOLEAN, Replan(b, h, p, again), NEW i \in Indices
  PROVE  /\ block_buffer'[i].gain = b[i].gain /\ block_buffer'[i].max = b[i].max
         /\ block_buffer'[i].junction = b[i].junction /\ block_buffer'[i].rate = b[i].rate
<1>1. CASE again
  <2>1. block_buffer' = Recalculated(Updated(b), h, p)
    BY <1>1 DEF Replan
  <2>2. /\ Updated(b) \in [Indices -> Block]
        /\ Updated(b)[i].gain = b[i].gain /\ Updated(b)[i].max = b[i].max
        /\ Updated(b)[i].junction = b[i].junction /\ Updated(b)[i].rate = b[i].rate
    BY UpdatedKeeps
  <2> QED
    BY <2>1, <2>2, RecalculatedKeeps
<1>2. CASE ~again
  <2>1. block_buffer' = Recalculated(b, h, p)
    BY <1>2 DEF Replan
  <2> QED
    BY <2>1, RecalculatedKeeps
<1> QED
  BY <1>1, <1>2

\* The blocks of the queue and the one that follows, where the ring has a place left.
LEMMA QueuePlaces ==
  ASSUME PlannedInv, Queued + 1 < BLOCK_BUFFER_SIZE
  PROVE  /\ \A k \in 0 .. Queued : k \in Indices /\ At(tail, k) \in Indices
         /\ \A k \in 0 .. Queued : (At(tail, k) = head <=> k = Queued)
         /\ At(tail, Queued) = head
<1>1. PipelineTypes /\ tail \in Indices /\ head \in Indices /\ Queued \in Nat
      /\ BLOCK_BUFFER_SIZE \in Nat
  BY QueueViews, RingAssumption DEF PipelineTypes
<1>2. \A k \in 0 .. Queued : k \in Indices
  BY <1>1 DEF Indices
<1>3. \A k \in 0 .. Queued : At(tail, k) \in Indices /\ Distance(tail, At(tail, k)) = k
  BY <1>1, <1>2, RingInverse
<1>4. At(tail, Queued) = head
  BY <1>1, RingInverse DEF Queued
<1>5. \A k \in 0 .. Queued : (At(tail, k) = head <=> k = Queued)
  BY <1>3, <1>4 DEF Queued
<1> QED
  BY <1>2, <1>3, <1>4, <1>5

\* A line knows the nominal speed of the line before it.
LEMMA MaximaLine ==
  ASSUME PlannedInv, MaximaInv, BufferLine
  PROVE  MaximaInv'
<1>1. PICK line \in Lines :
        /\ Extended(line) \in [Indices -> Block]
        /\ Extended(line)[head] = NewBlock(line, sent + 1)
        /\ \A i \in Indices : i # head => Extended(line)[i] = block_buffer[i]
        /\ Replan(Extended(line), plan_next_block_index(head), planned,
                  ReachesTail(plan_next_block_index(head), planned))
        /\ previous_nominal' = Nominal(line, override)
        /\ head' = plan_next_block_index(head) /\ head' \in Indices
        /\ tail' = tail /\ override' = override
        /\ Distance(tail, head') = Queued + 1 /\ Queued' = Queued + 1
  BY LineIs
<1>2. PipelineTypes /\ tail \in Indices /\ planned \in Indices /\ Queued \in Nat
  BY QueueViews DEF PipelineTypes
<1>3. \A i \in Indices : /\ block_buffer'[i].max = Extended(line)[i].max
                         /\ block_buffer'[i].junction = Extended(line)[i].junction
                         /\ block_buffer'[i].rate = Extended(line)[i].rate
  <2>1. ReachesTail(plan_next_block_index(head), planned) \in BOOLEAN
    BY DEF ReachesTail
  <2>2. plan_next_block_index(head) \in Indices
    BY <1>1
  <2> QED
    BY <1>1, <1>2, <2>1, <2>2, ReplanKeeps
<1>4. Queued + 1 < BLOCK_BUFFER_SIZE
  <2>1. Distance(tail, head') \in Indices
    BY <1>1, <1>2, RingInverse
  <2> QED
    BY <1>1, <2>1, IndexNat
<1>5. /\ \A k \in 0 .. Queued : k \in Indices /\ At(tail, k) \in Indices
      /\ \A k \in 0 .. Queued : (At(tail, k) = head <=> k = Queued)
      /\ At(tail, Queued) = head
  BY <1>4, QueuePlaces
<1>6. \A k \in 0 .. (Queued - 1) :
        /\ (block_buffer[At(tail, k)].max)' = block_buffer[At(tail, k)].max
        /\ (block_buffer[At(tail, k)].junction)' = block_buffer[At(tail, k)].junction
        /\ Nominal(block_buffer[At(tail, k)], override)' = Nominal(block_buffer[At(tail, k)], override)
  <2> SUFFICES ASSUME NEW k \in 0 .. (Queued - 1)
               PROVE  /\ (block_buffer[At(tail, k)].max)' = block_buffer[At(tail, k)].max
                      /\ (block_buffer[At(tail, k)].junction)' = block_buffer[At(tail, k)].junction
                      /\ Nominal(block_buffer[At(tail, k)], override)'
                           = Nominal(block_buffer[At(tail, k)], override)
    OBVIOUS
  <2>1. At(tail, k)' = At(tail, k) /\ At(tail, k) \in Indices /\ At(tail, k) # head
    BY <1>1, <1>2, <1>5 DEF At
  <2> QED
    BY <1>1, <1>3, <2>1 DEF Nominal
<1>7. NewBlock(line, sent + 1).rate = line.rate
      /\ NewBlock(line, sent + 1).max = MaxEntry(NewBlock(line, sent + 1).junction,
                                                 Nominal(line, override), previous_nominal)
  BY DEF NewBlock
<1>8. PICK q \in Nat : q = Queued
  BY <1>2
<1>9. At(tail, q)' = head /\ At(tail, q) = head
  BY <1>1, <1>5, <1>8 DEF At
<1>10. /\ (block_buffer[At(tail, q)].max)'
            = MaxEntry((block_buffer[At(tail, q)].junction)', Nominal(line, override),
                       previous_nominal)
       /\ Nominal(block_buffer[At(tail, q)], override)' = Nominal(line, override)
  <2>1. /\ block_buffer'[head].rate = line.rate
        /\ block_buffer'[head].max = MaxEntry(block_buffer'[head].junction,
                                              Nominal(line, override), previous_nominal)
    BY <1>1, <1>2, <1>3, <1>7 DEF PipelineTypes
  <2> QED
    BY <1>1, <1>9, <2>1 DEF Nominal
<1>11. ASSUME NEW k \in 1 .. q
       PROVE  (block_buffer[At(tail, k)].max
                = MaxEntry(block_buffer[At(tail, k)].junction,
                           Nominal(block_buffer[At(tail, k)], override),
                           Nominal(block_buffer[At(tail, k - 1)], override)))'
  <2>1. k - 1 \in 0 .. (Queued - 1)
    BY <1>8
  <2>2. Nominal(block_buffer[At(tail, k - 1)], override)'
          = Nominal(block_buffer[At(tail, k - 1)], override)
    BY <1>6, <2>1
  <2>3. CASE k = q
    <3>1. previous_nominal = Nominal(block_buffer[At(tail, k - 1)], override)
      <4>1. Queued > 0 /\ Queued - 1 = k - 1
        BY <1>8, <2>3
      <4> QED
        BY <4>1 DEF MaximaInv
    <3>2. /\ (block_buffer[At(tail, k)].max)'
               = MaxEntry((block_buffer[At(tail, k)].junction)', Nominal(line, override),
                          previous_nominal)
          /\ Nominal(block_buffer[At(tail, k)], override)' = Nominal(line, override)
      BY <1>10, <2>3
    <3> QED
      BY <2>2, <3>1, <3>2 DEF MaxEntry
  <2>4. CASE k # q
    <3>1. k \in 0 .. (Queued - 1) /\ k \in 1 .. (Queued - 1)
      BY <1>8, <2>4
    <3>2. block_buffer[At(tail, k)].max
            = MaxEntry(block_buffer[At(tail, k)].junction,
                       Nominal(block_buffer[At(tail, k)], override),
                       Nominal(block_buffer[At(tail, k - 1)], override))
      BY <3>1 DEF MaximaInv
    <3> QED
      BY <1>6, <2>2, <3>1, <3>2 DEF MaxEntry
  <2> QED
    BY <2>3, <2>4
<1>12. Queued' - 1 = q /\ 1 .. (Queued' - 1) = 1 .. q
  BY <1>1, <1>2, <1>8
<1>13. previous_nominal' = (Nominal(block_buffer[At(tail, Queued - 1)], override))'
  <2>1. At(tail, Queued - 1)' = At(tail, q)'
    BY <1>12 DEF At
  <2> QED
    BY <1>1, <1>10, <2>1 DEF Nominal
<1> QED
  BY <1>11, <1>12, <1>13 DEF MaximaInv

\* The index before the k-th block's is the one before's.
LEMMA BlockBefore ==
  ASSUME PlannedInv, NEW k \in 1 .. Queued
  PROVE  plan_prev_block_index(At(tail, k)) = At(tail, k - 1)
<1>1. tail \in Indices /\ Queued \in Nat /\ Queued < BLOCK_BUFFER_SIZE /\ BLOCK_BUFFER_SIZE \in Nat
  BY QueueViews, RingAssumption DEF PipelineTypes
<1>2. k \in Indices /\ k - 1 \in Indices /\ (k - 1) + 1 = k
  BY <1>1 DEF Indices
<1>3. plan_next_block_index(At(tail, k - 1)) = At(tail, k) /\ At(tail, k - 1) \in Indices
  <2>1. /\ At(tail, k - 1) = IF tail + (k - 1) < BLOCK_BUFFER_SIZE THEN tail + (k - 1)
                             ELSE tail + (k - 1) - BLOCK_BUFFER_SIZE
        /\ At(tail, k) = IF tail + k < BLOCK_BUFFER_SIZE THEN tail + k
                         ELSE tail + k - BLOCK_BUFFER_SIZE
    BY <1>1, <1>2, RingAt
  <2>2. At(tail, k - 1) \in Indices
    BY <1>1, <1>2, RingInverse
  <2>3. plan_next_block_index(At(tail, k - 1))
          = IF At(tail, k - 1) = BLOCK_BUFFER_SIZE - 1 THEN 0 ELSE At(tail, k - 1) + 1
    BY <2>2, RingIndex
  <2>4. tail \in Nat /\ tail < BLOCK_BUFFER_SIZE /\ k \in Nat /\ k < BLOCK_BUFFER_SIZE
    BY <1>1, <1>2, IndexNat
  <2> QED
    BY <1>1, <2>1, <2>2, <2>3, <2>4
<1> QED
  BY <1>3, RingBack

\* A new override computes the maxima of the whole queue again.
LEMMA MaximaOverride ==
  ASSUME PlannedInv, ChangeOverride
  PROVE  MaximaInv'
<1>1. PipelineTypes /\ tail \in Indices /\ head \in Indices /\ Queued \in Nat
  BY QueueViews DEF PipelineTypes
<1>2. PICK o \in Overrides : /\ plan_cycle_reinitialize(Reprofiled(o)) /\ override' = o
                             /\ previous_nominal' = LastNominal(o)
  BY DEF ChangeOverride
<1>3. tail' = tail /\ head' = head /\ Queued' = Queued
  BY DEF ChangeOverride, Queued
<1>4. Reprofiled(o) \in [Indices -> Block] /\ Replan(Reprofiled(o), head, tail, TRUE)
  BY <1>1, <1>2, ReprofiledKeeps, ReplanIs
<1>5. \A i \in Indices : /\ block_buffer'[i].max = Reprofiled(o)[i].max
                         /\ block_buffer'[i].junction = block_buffer[i].junction
                         /\ block_buffer'[i].rate = block_buffer[i].rate
  <2> SUFFICES ASSUME NEW i \in Indices
               PROVE  /\ block_buffer'[i].max = Reprofiled(o)[i].max
                      /\ block_buffer'[i].junction = block_buffer[i].junction
                      /\ block_buffer'[i].rate = block_buffer[i].rate
    OBVIOUS
  <2>1. /\ block_buffer'[i].max = Reprofiled(o)[i].max
        /\ block_buffer'[i].junction = Reprofiled(o)[i].junction
        /\ block_buffer'[i].rate = Reprofiled(o)[i].rate
    BY <1>1, <1>4, ReplanKeeps
  <2> QED
    BY <1>1, <2>1, ReprofiledIs
<1>6. \A i \in Indices : Nominal(block_buffer'[i], o) = Nominal(block_buffer[i], o)
  BY <1>5 DEF Nominal
<1>7. \A k : At(tail, k)' = At(tail, k)
  BY <1>3 DEF At
<1>8. ASSUME NEW k \in 1 .. (Queued - 1)
      PROVE  (block_buffer[At(tail, k)].max
               = MaxEntry(block_buffer[At(tail, k)].junction,
                          Nominal(block_buffer[At(tail, k)], override),
                          Nominal(block_buffer[At(tail, k - 1)], override)))'
  <2>1. k \in 0 .. (Queued - 1) /\ k - 1 \in 0 .. (Queued - 1) /\ k \in 1 .. Queued
    BY <1>1
  <2>2. PICK i \in Indices : i = At(tail, k) /\ Distance(tail, i) = k
    BY <2>1, QueueViews
  <2>3. PICK j \in Indices : j = At(tail, k - 1) /\ j = plan_prev_block_index(i)
    BY <2>1, <2>2, QueueViews, BlockBefore
  <2>4. Distance(tail, i) < Distance(tail, head) /\ i # tail
    <3>1. Distance(tail, tail) = 0
      BY <1>1, RingInverse
    <3> QED
      BY <1>1, <2>2, <3>1 DEF Queued
  <2>5. Reprofiled(o)[i].max = MaxEntry(block_buffer[i].junction, Nominal(block_buffer[i], o),
                                        Nominal(block_buffer[j], o))
    BY <1>1, <2>3, <2>4, ReprofiledIs
  <2>6. block_buffer'[i].max = MaxEntry(block_buffer'[i].junction, Nominal(block_buffer'[i], o),
                                        Nominal(block_buffer'[j], o))
    BY <1>5, <1>6, <2>5
  <2>7. At(tail, k)' = i /\ At(tail, k - 1)' = j
    BY <1>7, <2>2, <2>3
  <2> QED
    BY <1>2, <2>6, <2>7
<1>9. Queued > 0 => previous_nominal' = Nominal(block_buffer[At(tail, Queued - 1)], override)'
  <2> SUFFICES ASSUME Queued > 0
               PROVE  previous_nominal' = Nominal(block_buffer[At(tail, Queued - 1)], override)'
    OBVIOUS
  <2>1. PICK k \in 0 .. (Queued - 1) : k = Queued - 1
    BY <1>1
  <2>2. At(tail, Queued) = head
    BY <1>1, RingInverse DEF Queued
  <2>3. At(tail, Queued - 1) = plan_prev_block_index(head)
    <3>1. Queued \in 1 .. Queued
      BY <1>1
    <3> QED
      BY <2>2, <3>1, BlockBefore
  <2>4. At(tail, k) \in Indices /\ At(tail, k) = plan_prev_block_index(head)
    BY <2>1, <2>3, QueueViews
  <2>5. ~Empty
    <3>1. Distance(tail, tail) = 0
      BY <1>1, RingInverse
    <3> QED
      BY <3>1 DEF Empty, Queued
  <2>6. previous_nominal' = Nominal(block_buffer[At(tail, k)], o)
    BY <1>2, <2>4, <2>5 DEF LastNominal
  <2>7. At(tail, Queued - 1)' = At(tail, k)
    BY <1>3, <2>1 DEF At
  <2> QED
    BY <1>2, <1>6, <2>4, <2>6, <2>7 DEF Nominal
<1> QED
  BY <1>3, <1>8, <1>9 DEF MaximaInv

\* A segment moves the queue up at most.
LEMMA MaximaSegment ==
  ASSUME ProfileInv, MaximaInv, PrepSegment
  PROVE  MaximaInv'
<1>1. PICK d : SegmentMade(d)
  BY DEF PrepSegment, SegmentMade
<1>2. /\ PlannedInv /\ head' = head /\ override' = override /\ previous_nominal' = previous_nominal
      /\ Queued \in Nat
  BY QueueViews DEF PrepSegment, ProfileInv
<1>3. CASE Gain(0) - d > 0
  <2>1. tail' = tail
    BY <1>1, <1>3, SegmentWithin
  <2>2. \A i \in Indices : /\ block_buffer'[i].max = block_buffer[i].max
                           /\ block_buffer'[i].junction = block_buffer[i].junction
                           /\ block_buffer'[i].rate = block_buffer[i].rate
    BY <1>1, SegmentProfile
  <2> QED
    BY <1>2, <2>1, <2>2, MaximaKept
<1>4. CASE ~(Gain(0) - d > 0)
  <2>1. /\ Queued' = Queued - 1
        /\ \A k \in 0 .. (Queued - 2) :
             (block_buffer[At(tail, k)])' = block_buffer[At(tail, k + 1)]
    BY <1>1, <1>4, SegmentLast
  <2>2. ASSUME NEW k \in 1 .. (Queued - 2)
        PROVE  (block_buffer[At(tail, k)].max
                 = MaxEntry(block_buffer[At(tail, k)].junction,
                            Nominal(block_buffer[At(tail, k)], override),
                            Nominal(block_buffer[At(tail, k - 1)], override)))'
    <3>1. PICK l \in 1 .. (Queued - 1) : l = k + 1 /\ l - 1 = k
      BY <1>2
    <3>2. block_buffer[At(tail, l)].max
            = MaxEntry(block_buffer[At(tail, l)].junction,
                       Nominal(block_buffer[At(tail, l)], override),
                       Nominal(block_buffer[At(tail, l - 1)], override))
      BY DEF MaximaInv
    <3>3. (block_buffer[At(tail, k)])' = block_buffer[At(tail, l)]
      <4>1. k \in 0 .. (Queued - 2)
        BY <1>2
      <4> QED
        BY <2>1, <3>1, <4>1
    <3>4. (block_buffer[At(tail, k - 1)])' = block_buffer[At(tail, l - 1)]
      <4>1. k - 1 \in 0 .. (Queued - 2) /\ (k - 1) + 1 = l - 1
        BY <1>2, <3>1
      <4> QED
        BY <2>1, <4>1
    <3> QED
      BY <1>2, <3>2, <3>3, <3>4 DEF Nominal, MaxEntry
  <2>3. Queued' > 0 => previous_nominal' = (Nominal(block_buffer[At(tail, Queued - 1)], override))'
    <3> SUFFICES ASSUME Queued' > 0
                 PROVE  previous_nominal' = (Nominal(block_buffer[At(tail, Queued - 1)], override))'
      OBVIOUS
    <3>1. PICK k \in 0 .. (Queued - 2) : k = Queued' - 1 /\ k + 1 = Queued - 1
      BY <1>2, <2>1
    <3>2. (block_buffer[At(tail, k)])' = block_buffer[At(tail, k + 1)]
      BY <2>1
    <3>3. (block_buffer[At(tail, Queued - 1)])' = (block_buffer[At(tail, k)])'
      BY <3>1 DEF At
    <3>4. previous_nominal = Nominal(block_buffer[At(tail, k + 1)], override)
      BY <1>2, <2>1, <3>1 DEF MaximaInv
    <3> QED
      BY <1>2, <3>2, <3>3, <3>4 DEF Nominal
  <2>4. Queued' - 1 = Queued - 2
    BY <1>2, <2>1
  <2> QED
    BY <2>2, <2>3, <2>4 DEF MaximaInv
<1> QED
  BY <1>3, <1>4

\* Every step keeps the maxima.
LEMMA MaximaStep == ProfileInv /\ MaximaInv /\ [Next]_vars => MaximaInv'
<1> SUFFICES ASSUME ProfileInv, MaximaInv, [Next]_vars PROVE MaximaInv'
  OBVIOUS
<1>1. PlannedInv /\ PipelineTypes /\ head \in Indices /\ tail \in Indices
      /\ block_buffer \in [Indices -> Block] /\ Queued \in Nat
  BY QueueViews DEF ProfileInv, PipelineTypes
<1>2. CASE PrepStandstill
  <2>1. UNCHANGED <<tail, head, override, previous_nominal>>
    BY <1>2 DEF PrepStandstill
  <2> QED
    BY <1>1, <1>2, <2>1, ProfileStandstill, MaximaKept
<1>3. CASE Hold
  BY <1>1, <1>3, HoldIs, MaximaKept
<1>4. CASE Start
  BY <1>1, <1>4, MaximaKept DEF Start, plannerVars
<1>5. CASE CycleStop
  <2>1. UNCHANGED <<tail, head, override, previous_nominal>>
    BY <1>5 DEF CycleStop
  <2>2. \A i \in Indices : /\ block_buffer'[i].max = block_buffer[i].max
                           /\ block_buffer'[i].junction = block_buffer[i].junction
                           /\ block_buffer'[i].rate = block_buffer[i].rate
    <3>1. CASE mode = "HOLD"
      <4>1. Replan(block_buffer, head, tail, TRUE)
        BY <1>5, <3>1, ReplanIs DEF CycleStop
      <4> QED
        BY <1>1, <4>1, ReplanKeeps
    <3>2. CASE mode # "HOLD"
      BY <1>5, <3>2 DEF CycleStop
    <3> QED
      BY <3>1, <3>2
  <2> QED
    BY <1>1, <2>1, <2>2, MaximaKept
<1>6. CASE Flush
  <2>1. Queued' = 0
    BY <1>6, ProfileFlush
  <2> QED
    BY <2>1 DEF MaximaInv
<1>7. CASE Idle
  BY <1>1, <1>7, IdleIs, MaximaKept
<1> QED
  BY <1>1, <1>2, <1>3, <1>4, <1>5, <1>6, <1>7, MaximaLine, MaximaOverride, MaximaSegment
     DEF Next, Generator, Main, Idle

-----------------------------------------------------------------------------
\* The exit speed of the block in execution.

\* A plan of two blocks or more from the tail on concerns the block in execution.
LEMMA TailReached ==
  ASSUME PipelineTypes, NEW h \in Indices, NEW p \in Indices,
         Distance(tail, h) >= 2, Distance(tail, p) = 0
  PROVE  ReachesTail(h, p)
<1>1. tail \in Indices /\ block_buffer \in [Indices -> Block] /\ Distance(tail, h) \in Nat
  BY RingInverse, IndexNat DEF PipelineTypes
<1>2. LastBlock(h, p) = Distance(tail, h) - 1 - Distance(tail, p)
  <2>1. Distance(tail, p) < Distance(tail, h)
    BY <1>1
  <2> QED
    BY <1>1, <2>1, NewPlannedWithin
<1>3. At(p, 0) = tail
  BY <1>1, RingInverse
<1>4. PICK n \in Nat : n = LastBlock(h, p) /\ n > 0
  BY <1>1, <1>2
<1>5. 0 \in 0 .. (IF n = 1 THEN 0 ELSE n - 2)
  BY <1>4
<1> QED
  BY <1>3, <1>4, <1>5 DEF ReachesTail

\* A line at the end of a queue.
LEMMA LineBehind ==
  ASSUME PlannedInv, BufferLine, Queued > 0
  PROVE  /\ Distance(tail, planned) \in Nat /\ Distance(tail, planned) < Queued
         /\ ~ReachesTail(plan_next_block_index(head), planned) => Distance(tail, planned) > 0
<1>1. PipelineTypes /\ tail \in Indices /\ planned \in Indices /\ Queued \in Nat
  BY QueueViews DEF PipelineTypes
<1>2. Distance(tail, planned) \in Nat /\ Distance(tail, planned) < Queued
  BY <1>1, RingInverse, IndexNat DEF PlannedInv, PlannedInQueue
<1>3. plan_next_block_index(head) \in Indices
      /\ Distance(tail, plan_next_block_index(head)) = Queued + 1
  BY LineIs
<1>4. Distance(tail, planned) = 0 => ReachesTail(plan_next_block_index(head), planned)
  BY <1>1, <1>3, TailReached
<1> QED
  BY <1>2, <1>4

\* A further line changes the entry of the second block only if the first one is
\* unloaded with it.
LEMMA ExitLine ==
  ASSUME ProfileInv, ExitMatchesPlan, BufferLine
  PROVE  ExitMatchesPlan'
<1>1. PlannedInv /\ PipelineTypes /\ tail \in Indices /\ planned \in Indices /\ Queued \in Nat
      /\ prep \in Preps
  BY QueueViews DEF ProfileInv, PipelineTypes
<1> DEFINE h == plan_next_block_index(head)
<1>2. PICK line \in Lines :
        /\ Extended(line) \in [Indices -> Block]
        /\ \A i \in Indices : i # head => Extended(line)[i] = block_buffer[i]
        /\ Replan(Extended(line), h, planned, ReachesTail(h, planned))
        /\ head' = h /\ head' \in Indices
        /\ tail' = tail /\ UNCHANGED modeVars
        /\ Distance(tail, head') = Queued + 1 /\ Queued' = Queued + 1
  BY <1>1, LineIs
<1> HIDE DEF h
<1>3. CASE ReachesTail(h, planned)
  <2>1. ~prep'.loaded
    BY <1>1, <1>2, <1>3, UnloadedIs DEF Replan
  <2> QED
    BY <2>1 DEF ExitMatchesPlan
<1>4. CASE ~ReachesTail(h, planned)
  <2>1. prep' = prep /\ block_buffer' = Recalculated(Extended(line), h, planned)
    BY <1>2, <1>4 DEF Replan
  <2> SUFFICES ASSUME prep.loaded PROVE Entry(1)' = Entry(1)
    BY <1>2, <2>1 DEF ExitMatchesPlan, modeVars
  <2>2. Queued > 0
    BY ProgressTail DEF InProgress
  <2>3. Distance(tail, planned) \in Nat /\ Distance(tail, planned) < Queued
        /\ Distance(tail, planned) > 0
    BY <1>1, <1>4, <2>2, LineBehind DEF h
  <2>4. 1 \in 0 .. Distance(tail, planned) /\ 1 \in 0 .. (Queued - 1) /\ 1 # Queued /\ 1 # Queued'
    BY <1>1, <1>2, <2>3
  <2>5. At(tail, 1) \in Indices /\ At(tail, 1) # head
    BY <1>1, <2>4, QueueViews
  <2>6. block_buffer'[At(tail, 1)].entry = Extended(line)[At(tail, 1)].entry
    <3>1. h \in Indices /\ Distance(tail, planned) < Distance(tail, h)
      BY <1>1, <1>2, <2>3
    <3> QED
      BY <1>1, <1>2, <2>1, <2>4, <3>1, PassesSpare
  <2>7. At(tail, 1)' = At(tail, 1)
    BY <1>2 DEF At
  <2> QED
    BY <1>2, <2>4, <2>5, <2>6, <2>7 DEF Entry
<1> QED
  BY <1>3, <1>4

\* A segment leaves the block loaded with its exit, or a block is loaded.
LEMMA ExitSegment ==
  ASSUME ProfileInv, ExitMatchesPlan, PrepSegment
  PROVE  ExitMatchesPlan'
<1>1. PICK d : SegmentMade(d)
  BY DEF PrepSegment, SegmentMade
<1>2. PICK C : C = Current
  OBVIOUS
<1>3. /\ Queued > 0 /\ CanPrep /\ prep'.exit = C.exit
      /\ prep'.decel_override = C.decel_override /\ (prep'.loaded <=> Gain(0) - d > 0)
  BY <1>1, <1>2, SegmentProfile
<1>4. execute_hold' = execute_hold /\ ~end_motion
  BY <1>3 DEF PrepSegment, CanPrep
<1> SUFFICES ASSUME prep'.loaded, ~execute_hold, ~C.decel_override PROVE C.exit = Entry(1)'
  BY <1>3, <1>4 DEF ExitMatchesPlan
<1>5. Entry(1)' = Entry(1)
  <2>1. 1 \in 0 .. Queued
    BY <1>3, QueueViews DEF ProfileInv
  <2> QED
    BY <1>1, <1>3, <2>1, SegmentWithin
<1>6. CASE prep.loaded
  BY <1>2, <1>4, <1>5, <1>6 DEF Current, ExitMatchesPlan
<1>7. CASE ~prep.loaded
  <2>1. PICK e : e = IF ~prep.recalculate /\ (execute_hold \/ prep.decel_override)
                     THEN prep.exit ELSE block_buffer[tail].entry
    OBVIOUS
  <2>2. PICK g, n, x : /\ g = block_buffer[tail].gain
                       /\ n = Nominal(block_buffer[tail], override)
                       /\ x = ExitSpeed(block_buffer)
    OBVIOUS
  <2>3. /\ C.exit = IF Steep(e, g, n) \/ Beyond(e, g) THEN e - g
                    ELSE IF execute_hold THEN 0 ELSE x
        /\ C.decel_override <=> Steep(e, g, n)
    BY <1>2, <1>7, <2>1, <2>2, LoadedIs
  <2>4. x = Entry(1)
    BY <1>3, <2>2, NextEntry DEF ProfileInv
  <2> QED
    BY <1>5, <2>3, <2>4 DEF Beyond
<1> QED
  BY <1>6, <1>7

\* Every step keeps the exit speed.
LEMMA ExitStep == ProfileInv /\ ExitMatchesPlan /\ [Next]_vars => ExitMatchesPlan'
<1> SUFFICES ASSUME ProfileInv, ExitMatchesPlan, [Next]_vars PROVE ExitMatchesPlan'
  OBVIOUS
<1>1. PlannedInv /\ PipelineTypes /\ tail \in Indices /\ head \in Indices /\ prep \in Preps
      /\ block_buffer \in [Indices -> Block]
  BY QueueViews DEF ProfileInv, PipelineTypes
<1>2. ~Unloaded.loaded
  BY <1>1, UnloadedIs
<1>3. CASE PrepStandstill
  BY <1>3 DEF PrepStandstill, ExitMatchesPlan
<1>4. CASE ChangeOverride
  BY <1>2, <1>4 DEF ChangeOverride, plan_cycle_reinitialize, ExitMatchesPlan
<1>5. CASE Hold
  <2>1. CASE mode = "CYCLE"
    BY <1>2, <1>5, <2>1 DEF Hold, ExitMatchesPlan
  <2>2. CASE mode # "CYCLE"
    <3>1. UNCHANGED <<block_buffer, tail, head, prep, execute_hold, end_motion>>
      BY <1>5, <2>2 DEF Hold
    <3>2. Entry(1)' = Entry(1)
      BY <3>1 DEF Entry, Queued, At
    <3> QED
      BY <3>1, <3>2 DEF ExitMatchesPlan
  <2> QED
    BY <2>1, <2>2
<1>6. CASE Start
  <2>1. UNCHANGED <<block_buffer, tail, head, prep>> /\ ~execute_hold
    BY <1>6, ProfileStart DEF Start, plannerVars
  <2>2. Entry(1)' = Entry(1)
    BY <2>1 DEF Entry, Queued, At
  <2>3. prep.loaded => ~end_motion
    BY <2>1 DEF ProfileInv, HoldInv
  <2> QED
    BY <2>1, <2>2, <2>3 DEF ExitMatchesPlan
<1>7. CASE CycleStop
  <2>1. CASE mode = "HOLD"
    BY <1>2, <1>7, <2>1 DEF CycleStop, plan_cycle_reinitialize, ExitMatchesPlan
  <2>2. CASE mode # "HOLD"
    <3>1. UNCHANGED <<block_buffer, tail, head, prep, execute_hold, end_motion>>
      BY <1>7, <2>2 DEF CycleStop
    <3>2. Entry(1)' = Entry(1)
      BY <3>1 DEF Entry, Queued, At
    <3> QED
      BY <3>1, <3>2 DEF ExitMatchesPlan
  <2> QED
    BY <2>1, <2>2
<1>8. CASE Flush
  <2>1. ~InProgress'
    BY <1>8, ProfileFlush
  <2> QED
    BY <2>1 DEF ExitMatchesPlan, InProgress
<1>9. CASE Idle
  <2>1. /\ tail' = tail /\ head' = head /\ prep' = prep /\ UNCHANGED modeVars /\ Queued' = Queued
        /\ \A i \in Indices : i # head => block_buffer'[i] = block_buffer[i]
    BY <1>1, <1>9, IdleIs
  <2>2. prep.loaded => Entry(1)' = Entry(1)
    <3> SUFFICES ASSUME prep.loaded, 1 # Queued PROVE Entry(1)' = Entry(1)
      BY <2>1 DEF Entry
    <3>1. 1 \in 0 .. (Queued - 1)
      BY <1>1, ProgressTail, QueueViews DEF InProgress
    <3>2. At(tail, 1) \in Indices /\ At(tail, 1) # head
      BY <1>1, <3>1, QueueViews
    <3>3. At(tail, 1)' = At(tail, 1)
      BY <2>1 DEF At
    <3> QED
      BY <2>1, <3>2, <3>3 DEF Entry
  <2> QED
    BY <2>1, <2>2 DEF ExitMatchesPlan, modeVars
<1> QED
  BY <1>3, <1>4, <1>5, <1>6, <1>7, <1>8, <1>9, ExitLine, ExitSegment
     DEF Next, Generator, Main, Idle

-----------------------------------------------------------------------------
\* A queue planned again.

\* What the queue looks like (QueueViews), as a state predicate.
QueueTypes ==
  /\ PipelineTypes /\ Queued \in Nat /\ Queued < BLOCK_BUFFER_SIZE
  /\ Junctions \in Speeds(Queued) /\ Maxima \in Lengths(Queued) /\ Gains \in Lengths(Queued)
  /\ \A k \in 0 .. (Queued - 1) : Entry(k) = block_buffer[At(tail, k)].entry
  /\ Entry(Queued) = 0

\* The invariants of the queue give these types.
LEMMA QueueTyped == PlannedInv => QueueTypes
  BY QueueViews DEF QueueTypes

\* In the next state as well.
LEMMA QueueTypedNext == PlannedInv' => QueueTypes'
  BY QueueTyped, PTL

\* A planning of ring b, which ends before h and is planned up to p: of the Q
\* blocks from the tail on with the limits m and the lengths g, entered at the
\* speeds x, the first a are left alone.
Planning(b, h, p, again, Q, a, x, m, g) ==
  /\ b \in [Indices -> Block] /\ h \in Indices /\ p \in Indices
  /\ Replan(b, h, p, again) /\ tail' = tail /\ head' = h
  /\ Q \in Nat /\ Q = Distance(tail, h) /\ a \in Nat /\ a = Distance(tail, p) /\ a < Q
  /\ x \in Speeds(Q) /\ m \in Lengths(Q) /\ g \in Lengths(Q)
  /\ Extends(b, tail, Q, m, g) /\ Enters(b, tail, Q, x)
  /\ x[0] = IF prep.loaded THEN prep.speed ELSE b[tail].entry
  /\ Drivable(x, m, g, Q)
  /\ ~again => a # 0 \/ ~prep.loaded

\* The plan it makes can be driven, and cannot be improved if the first a
\* blocks could not be.
LEMMA StateReplanned ==
  ASSUME PlannedInv, PlannedInv', NEW b, NEW h, NEW p, NEW again \in BOOLEAN, NEW Q, NEW a,
         NEW x, NEW m, NEW g, Planning(b, h, p, again, Q, a, x, m, g)
  PROVE  /\ Queued' = Q /\ Maxima' = m /\ Gains' = g /\ Here' = x[0]
         /\ Drivable(Junctions', m, g, Q)
         /\ Unimprovable(x, m, g, a + 1, a)
              => Unimprovable(Junctions', m, g, Q, Distance(tail, planned)')
<1>0. /\ b \in [Indices -> Block] /\ h \in Indices /\ p \in Indices
      /\ Replan(b, h, p, again) /\ tail' = tail /\ head' = h
      /\ Q \in Nat /\ Q = Distance(tail, h) /\ a \in Nat /\ a = Distance(tail, p) /\ a < Q
      /\ x \in Speeds(Q) /\ m \in Lengths(Q) /\ g \in Lengths(Q)
      /\ Extends(b, tail, Q, m, g) /\ Enters(b, tail, Q, x)
      /\ x[0] = IF prep.loaded THEN prep.speed ELSE b[tail].entry
      /\ Drivable(x, m, g, Q)
      /\ ~again => a # 0 \/ ~prep.loaded
  BY DEF Planning
<1> USE <1>0
<1>1. PipelineTypes /\ tail \in Indices /\ prep \in Preps
  BY QueueViews DEF PipelineTypes
<1>2. Queued' = Q /\ Q > 0
  BY ReplanTail
<1>3. QueueTypes'
  BY QueueTypedNext
<1>4. \A k : At(tail, k)' = At(tail, k)
  BY DEF At
<1>5. \A k \in 0 .. (Q - 1) : k \in Indices /\ At(tail, k) \in Indices
  <2>1. Q \in Indices
    BY <1>1, RingInverse
  <2>2. \A k \in 0 .. (Q - 1) : k \in Indices
    BY <2>1, RingAssumption DEF Indices
  <2> QED
    BY <1>1, <2>2, RingInverse
<1>6. \A k \in 0 .. (Q - 1) : /\ block_buffer'[At(tail, k)].max = m[k]
                             /\ block_buffer'[At(tail, k)].gain = g[k]
  BY <1>1, <1>5, ReplanKeeps DEF Extends
<1>7. Maxima' = m
  <2>1. Maxima' = [k \in 0 .. (Q - 1) |-> block_buffer'[At(tail, k)].max]
    BY <1>2, <1>4 DEF Maxima
  <2>2. m = [k \in 0 .. (Q - 1) |-> m[k]]
    BY DEF Lengths
  <2> QED
    BY <1>6, <2>1, <2>2
<1>8. Gains' = g
  <2>1. Gains' = [k \in 0 .. (Q - 1) |-> block_buffer'[At(tail, k)].gain]
    BY <1>2, <1>4 DEF Gains, Gain
  <2>2. g = [k \in 0 .. (Q - 1) |-> g[k]]
    BY DEF Lengths
  <2> QED
    BY <1>6, <2>1, <2>2
<1>9. Here' = x[0]
  <2>1. Entry(0)' = IF again /\ prep.loaded THEN prep.speed ELSE b[tail].entry
    BY ReplanTail
  <2>2. CASE again
    <3>1. ~prep'.loaded
      BY <1>1, <2>2, UnloadedIs DEF Replan
    <3> QED
      BY <2>1, <2>2, <3>1 DEF Here
  <2>3. CASE ~again
    <3>1. prep' = prep
      BY <2>3 DEF Replan
    <3> QED
      BY <2>1, <2>3, <3>1 DEF Here
  <2> QED
    BY <2>2, <2>3
<1> DEFINE current == IF again THEN Updated(b) ELSE b
           new == Recalculated(current, h, p)
           c == Distance(tail, NewPlanned(current, h, p))
           y == Junctions'
<1>10. /\ current \in [Indices -> Block]
       /\ \A i \in Indices : /\ current[i].max = b[i].max /\ current[i].gain = b[i].gain
                             /\ i # tail => current[i].entry = b[i].entry
       /\ current[tail].entry = IF again /\ prep.loaded THEN prep.speed ELSE b[tail].entry
  <2>1. CASE again
    <3>1. current = Updated(b)
      BY <2>1
    <3>2. /\ Updated(b) \in [Indices -> Block]
          /\ \A i \in Indices : /\ Updated(b)[i].max = b[i].max /\ Updated(b)[i].gain = b[i].gain
                                /\ i # tail => Updated(b)[i].entry = b[i].entry
          /\ Updated(b)[tail].entry = IF prep.loaded THEN prep.speed ELSE b[tail].entry
      BY <1>1, UpdatedKeeps
    <3> QED
      BY <2>1, <3>1, <3>2
  <2>2. CASE ~again
    BY <2>2
  <2> QED
    BY <2>1, <2>2
<1>11. block_buffer' = new /\ planned' = NewPlanned(current, h, p)
  BY DEF Replan
<1>12. Distance(tail, planned)' = c
  BY <1>11 DEF Distance
<1> HIDE DEF current, c, new, y
<1>13. /\ y \in Speeds(Q) /\ y[Q] = 0 /\ y[0] = x[0]
       /\ \A k \in 1 .. (Q - 1) : y[k] = new[At(tail, k)].entry
  <2>1. y \in Speeds(Q)
    BY <1>2, <1>3 DEF QueueTypes, y
  <2>2. /\ 0 \in 0 .. Q /\ Q \in 0 .. Q /\ Q # 0
    BY <1>2
  <2>3. \A k \in 0 .. Q : y[k] = IF k = 0 THEN Here' ELSE Entry(k)'
    <3>1. y = [k \in 0 .. Q |-> IF k = 0 THEN Here' ELSE Entry(k)']
      BY <1>2 DEF y, Junctions
    <3> QED
      BY <3>1
  <2>4. y[Q] = 0
    <3>1. Entry(Queued)' = 0
      BY <1>3 DEF QueueTypes
    <3>2. Entry(Q)' = 0
      BY <1>2 DEF Entry
    <3> QED
      BY <2>2, <2>3, <3>2
  <2>5. y[0] = x[0]
    BY <1>9, <2>2, <2>3
  <2>6. ASSUME NEW k \in 1 .. (Q - 1) PROVE y[k] = new[At(tail, k)].entry
    <3>1. k \in 0 .. Q /\ k # 0 /\ k # Q
      OBVIOUS
    <3>2. Entry(k)' = block_buffer'[At(tail, k)].entry
      BY <1>2, <1>4, <3>1 DEF Entry
    <3> QED
      BY <1>11, <2>3, <3>1, <3>2
  <2> QED
    BY <2>1, <2>4, <2>5, <2>6
<1>14. \A k \in 1 .. (Q - 1) : x[k] = current[At(tail, k)].entry
  <2> SUFFICES ASSUME NEW k \in 1 .. (Q - 1) PROVE x[k] = current[At(tail, k)].entry
    OBVIOUS
  <2>1. k \in 0 .. (Q - 1) /\ At(tail, k) \in Indices /\ k \in Indices
    BY <1>5
  <2>2. Distance(tail, At(tail, k)) = k /\ Distance(tail, tail) = 0
    BY <1>1, <2>1, RingInverse
  <2>3. At(tail, k) # tail
    BY <2>2
  <2> QED
    BY <1>10, <2>1, <2>3 DEF Enters
<1>15. \A k \in 0 .. (Q - 1) : m[k] = current[At(tail, k)].max /\ g[k] = current[At(tail, k)].gain
  BY <1>5, <1>10 DEF Extends
<1>16. At(tail, 0) = tail /\ (a = 0 => x[0] = current[tail].entry)
  <2>1. At(tail, 0) = tail
    BY <1>1, RingInverse
  <2> QED
    BY <1>10, <2>1
<1>17. PassesFrom(x, y, m, g, Q, a, c)
  <2>1. tail \in Indices /\ h \in Indices /\ p \in Indices /\ current \in [Indices -> Block]
    BY <1>1, <1>10
  <2>2. Q \in Nat /\ Q = Distance(tail, h) /\ a \in Nat /\ a = Distance(tail, p) /\ a < Q
    OBVIOUS
  <2>3. x \in Speeds(Q) /\ m \in Lengths(Q) /\ g \in Lengths(Q) /\ Drivable(x, m, g, Q)
    OBVIOUS
  <2>4. Extends(current, tail, Q, m, g)
    BY <1>15 DEF Extends
  <2>8. Enters(current, tail, Q, x) /\ Enters(new, tail, Q, y)
    BY <1>13, <1>14 DEF Enters
  <2>5. a = 0 => x[0] = current[At(tail, 0)].entry
    BY <1>16
  <2>6. new = Recalculated(current, h, p) /\ c = Distance(tail, NewPlanned(current, h, p))
    BY DEF new, c
  <2>7. y \in Speeds(Q) /\ y[Q] = 0 /\ y[0] = x[0]
    BY <1>13
  <2> QED
    BY ONLY <2>1, <2>2, <2>3, <2>4, <2>5, <2>6, <2>7, <2>8, RingReplanned
<1>18. a \in 0 .. (Q - 1)
  OBVIOUS
<1>19. /\ Drivable(y, m, g, Q)
       /\ Unimprovable(x, m, g, a + 1, a) => Unimprovable(y, m, g, Q, c)
  BY <1>13, <1>17, <1>18, PassesKeep
<1> QED
  BY <1>2, <1>7, <1>8, <1>9, <1>12, <1>19 DEF y

-----------------------------------------------------------------------------
\* The plan in steps that do not make it.

\* With nothing queued there is no plan.
NothingQueued ==
  Queued = 0 /\ ~InProgress /\ ~prep.decel_override /\ prep.exit <= 0

\* Where nothing is queued there is nothing to plan.
LEMMA NothingDriven == NothingQueued => PlanDriven
<1> SUFFICES ASSUME NothingQueued PROVE PlanDriven
  OBVIOUS
<1>1. Queued = 0 /\ ~prep.loaded /\ Entry(0) = 0
  BY DEF NothingQueued, InProgress, Entry
<1>2. Here = 0
  BY <1>1 DEF Here
<1>3. Junctions = [k \in 0 .. 0 |-> IF k = 0 THEN Here ELSE Entry(k)]
  BY <1>1 DEF Junctions
<1>4. Junctions[0] = 0
  BY <1>2, <1>3
<1>5. Drivable(Junctions, Maxima, Gains, 0)
  BY <1>4 DEF Drivable
<1>6. Unimprovable(Junctions, Maxima, Gains, 0, Distance(tail, planned))
  BY DEF Unimprovable
<1> QED
  BY <1>1, <1>5, <1>6 DEF NothingQueued, PlanDriven

\* In the next state as well.
LEMMA NothingDrivenNext == NothingQueued' => PlanDriven'
  BY NothingDriven, PTL

\* A step that leaves the blocks behind the tail alone.
LEMMA ViewsKept ==
  ASSUME PlannedInv, tail' = tail, head' = head,
         \A i \in Indices : i # head => /\ block_buffer'[i].max = block_buffer[i].max
                                        /\ block_buffer'[i].gain = block_buffer[i].gain
                                        /\ i # tail => block_buffer'[i].entry = block_buffer[i].entry
  PROVE  /\ Queued' = Queued /\ Maxima' = Maxima /\ Gains' = Gains
         /\ \A k \in 1 .. Queued : Entry(k)' = Entry(k)
         /\ Here' = Here => Junctions' = Junctions
         /\ Queued > 0 => Gain(0)' = Gain(0) /\ Entry(0)' = block_buffer'[tail].entry
<1>1. tail \in Indices /\ Queued \in Nat
  BY QueueViews DEF PipelineTypes
<1>2. Queued' = Queued
  BY DEF Queued
<1>3. \A k : At(tail, k)' = At(tail, k)
  BY DEF At
<1>4. \A k \in 0 .. (Queued - 1) :
        /\ block_buffer'[At(tail, k)].max = block_buffer[At(tail, k)].max
        /\ block_buffer'[At(tail, k)].gain = block_buffer[At(tail, k)].gain
  BY QueueViews
<1>5. Maxima' = Maxima
  <2>1. Maxima' = [k \in 0 .. (Queued - 1) |-> block_buffer'[At(tail, k)].max]
    BY <1>2, <1>3 DEF Maxima
  <2> QED
    BY <1>4, <2>1 DEF Maxima
<1>6. Gains' = Gains
  <2>1. Gains' = [k \in 0 .. (Queued - 1) |-> block_buffer'[At(tail, k)].gain]
    BY <1>2, <1>3 DEF Gains, Gain
  <2> QED
    BY <1>4, <2>1 DEF Gains, Gain
<1>7. \A k \in 1 .. Queued : Entry(k)' = Entry(k)
  <2> SUFFICES ASSUME NEW k \in 1 .. Queued PROVE Entry(k)' = Entry(k)
    OBVIOUS
  <2>1. CASE k = Queued
    BY <1>2, <2>1 DEF Entry
  <2>2. CASE k # Queued
    <3>1. k \in 0 .. (Queued - 1)
      BY <1>1, <2>2
    <3>2. /\ At(tail, k) \in Indices /\ At(tail, k) # head /\ Distance(tail, At(tail, k)) = k
          /\ Distance(tail, tail) = 0
      BY <1>1, <3>1, QueueViews, RingInverse
    <3>3. At(tail, k) # tail
      BY <3>2
    <3>4. block_buffer'[At(tail, k)].entry = block_buffer[At(tail, k)].entry
      BY <3>2, <3>3
    <3> QED
      BY <1>2, <1>3, <2>2, <3>4 DEF Entry
  <2> QED
    BY <2>1, <2>2
<1>8. ASSUME Here' = Here PROVE Junctions' = Junctions
  <2>1. Junctions' = [k \in 0 .. Queued |-> IF k = 0 THEN Here' ELSE Entry(k)']
    BY <1>2 DEF Junctions
  <2>2. \A k \in 0 .. Queued : k # 0 => k \in 1 .. Queued
    BY <1>1
  <2> QED
    BY <1>7, <1>8, <2>1, <2>2 DEF Junctions
<1>9. ASSUME Queued > 0
      PROVE  Gain(0)' = Gain(0) /\ Entry(0)' = block_buffer'[tail].entry
  <2>1. At(tail, 0) = tail /\ 0 \in 0 .. (Queued - 1) /\ 0 # Queued
    BY <1>1, <1>9, QueueViews
  <2> QED
    BY <1>2, <1>3, <1>4, <2>1 DEF Gain, Entry
<1> QED
  BY <1>2, <1>5, <1>6, <1>7, <1>8, <1>9

\* A step that leaves the queue, the generator and the hold alone.
LEMMA PlanKept ==
  ASSUME ProfileInv, PlanDriven, tail' = tail, head' = head, planned' = planned,
         prep' = prep, override' = override, execute_hold' = execute_hold,
         \A i \in Indices : i # head => block_buffer'[i] = block_buffer[i]
  PROVE  PlanDriven'
<1>1. PlannedInv /\ tail \in Indices /\ Queued \in Nat
  BY QueueViews DEF ProfileInv, PipelineTypes
<1>2. /\ Queued' = Queued /\ Maxima' = Maxima /\ Gains' = Gains
      /\ Here' = Here => Junctions' = Junctions
      /\ Queued > 0 => Gain(0)' = Gain(0) /\ Entry(0)' = block_buffer'[tail].entry
  BY <1>1, ViewsKept
<1>3. Queued > 0 => block_buffer'[tail] = block_buffer[tail] /\ Entry(0) = block_buffer[tail].entry
  <2> SUFFICES ASSUME Queued > 0
               PROVE  block_buffer'[tail] = block_buffer[tail]
                      /\ Entry(0) = block_buffer[tail].entry
    OBVIOUS
  <2>1. tail # head /\ Entry(0) = block_buffer[tail].entry
    BY <1>1, QueueViews
  <2> QED
    BY <1>1, <2>1
<1>4. Entry(0)' = Entry(0)
  <2>1. CASE Queued > 0
    BY <1>2, <1>3, <2>1
  <2>2. CASE ~(Queued > 0)
    <3>1. Queued = 0
      BY <1>1, <2>2
    <3> QED
      BY <1>2, <3>1 DEF Entry
  <2> QED
    BY <2>1, <2>2
<1>5. Here' = Here
  BY <1>4 DEF Here
<1>6. Junctions' = Junctions
  BY <1>2, <1>5
<1>7. Drivable(Junctions', Maxima', Gains', Queued')
  BY <1>2, <1>6 DEF PlanDriven
<1>8. Queued' > 0 => Here' <= Nominal(block_buffer'[tail'], override')
  BY <1>2, <1>3, <1>5 DEF PlanDriven
<1>9. ~prep'.decel_override /\ (~InProgress' => prep'.exit <= Entry(0)')
  BY <1>4 DEF PlanDriven, InProgress
<1>10. Distance(tail, planned)' = Distance(tail, planned)
  BY DEF Distance
<1>11. ASSUME ~execute_hold'
       PROVE  /\ Unimprovable(Junctions', Maxima', Gains', Queued', Distance(tail, planned)')
              /\ prep'.loaded /\ prep'.decelerate => prep'.speed - prep'.exit >= Gain(0)'
  <2>1. Unimprovable(Junctions', Maxima', Gains', Queued', Distance(tail, planned)')
    BY <1>2, <1>6, <1>10, <1>11 DEF PlanDriven
  <2>2. prep.loaded => Gain(0)' = Gain(0)
    BY <1>2, ProgressTail DEF InProgress
  <2> QED
    BY <1>11, <2>1, <2>2 DEF PlanDriven
<1> QED
  BY <1>7, <1>8, <1>9, <1>11 DEF PlanDriven

-----------------------------------------------------------------------------
\* The plan in a hold.

\* A hold begins: the plan is the one it was, from the speed the block has reached.
LEMMA HoldDriven ==
  ASSUME ProfileInv, PlanDriven, Hold
  PROVE  PlanDriven'
<1>1. PlannedInv /\ tail \in Indices /\ Queued \in Nat /\ prep \in Preps
  BY QueueViews DEF ProfileInv, PipelineTypes
<1>2. CASE mode # "CYCLE"
  <2>1. UNCHANGED <<block_buffer, tail, head, planned, prep, override, execute_hold>>
    BY <1>2 DEF Hold
  <2> QED
    BY <2>1, PlanKept
<1>3. CASE mode = "CYCLE"
  <2>1. /\ tail' = tail /\ head' = head /\ override' = override
        /\ \A i \in Indices : /\ block_buffer'[i].gain = block_buffer[i].gain
                              /\ block_buffer'[i].max = block_buffer[i].max
                              /\ block_buffer'[i].rate = block_buffer[i].rate
                              /\ i # tail => block_buffer'[i].entry = block_buffer[i].entry
        /\ execute_hold' /\ prep' = Unloaded
        /\ block_buffer'[tail].entry
             = IF prep.loaded THEN prep.speed ELSE block_buffer[tail].entry
    BY <1>3, HoldIs DEF Hold
  <2>2. /\ Queued' = Queued /\ Maxima' = Maxima /\ Gains' = Gains
        /\ Here' = Here => Junctions' = Junctions
        /\ Queued > 0 => Entry(0)' = block_buffer'[tail].entry
    BY <1>1, <2>1, ViewsKept
  <2>3. ~prep'.loaded /\ (InProgress' <=> InProgress) /\ prep'.exit = prep.exit
        /\ prep'.decel_override = prep.decel_override
    BY <1>1, <2>1, UnloadedIs DEF InProgress
  <2>4. Entry(0)' = IF prep.loaded THEN prep.speed ELSE Entry(0)
    <3>1. CASE Queued > 0
      <4>1. Entry(0) = block_buffer[tail].entry
        BY <1>1, <3>1, QueueViews
      <4> QED
        BY <2>1, <2>2, <3>1, <4>1
    <3>2. CASE ~(Queued > 0)
      <4>1. ~prep.loaded
        BY <3>2, ProgressTail DEF InProgress
      <4>2. Queued = 0
        BY <1>1, <3>2
      <4> QED
        BY <2>2, <4>1, <4>2 DEF Entry
    <3> QED
      BY <3>1, <3>2
  <2>5. Here' = Here
    BY <2>3, <2>4 DEF Here
  <2>6. Nominal(block_buffer'[tail], override) = Nominal(block_buffer[tail], override)
    BY <1>1, <2>1 DEF Nominal
  <2>7. Drivable(Junctions', Maxima', Gains', Queued')
    BY <2>2, <2>5 DEF PlanDriven
  <2>8. Queued' > 0 => Here' <= Nominal(block_buffer'[tail'], override')
    BY <2>1, <2>2, <2>5, <2>6 DEF PlanDriven
  <2>9. ~prep'.decel_override /\ (~InProgress' => prep'.exit <= Entry(0)')
    BY <2>3, <2>4 DEF PlanDriven, InProgress
  <2> QED
    BY <2>1, <2>7, <2>8, <2>9 DEF PlanDriven
<1> QED
  BY <1>2, <1>3

\* Standing still at the begin of the queue.
LEMMA SlowerDriven ==
  ASSUME NEW Q \in Nat, NEW x \in Speeds(Q), NEW y \in Speeds(Q), NEW m, NEW g \in Lengths(Q),
         Drivable(x, m, g, Q), Q > 0, y[0] = 0, x[1] >= 0, \A k \in 1 .. Q : y[k] = x[k]
  PROVE  Drivable(y, m, g, Q)
<1>1. /\ x[Q] = 0
      /\ \A k \in 1 .. (Q - 1) : x[k] <= m[k]
      /\ \A k \in 0 .. (Q - 1) : x[k] <= x[k + 1] + g[k]
  BY DEF Drivable
<1>2. y[Q] = 0 /\ \A k \in 1 .. (Q - 1) : y[k] <= m[k]
  BY <1>1
<1>3. ASSUME NEW k \in 0 .. (Q - 1) PROVE y[k] <= y[k + 1] + g[k]
  <2>1. g[k] \in Nat /\ k + 1 \in 1 .. Q /\ y[k + 1] = x[k + 1] /\ x[k] <= x[k + 1] + g[k]
    BY <1>1 DEF Lengths
  <2>2. x[k + 1] \in Int
    BY <2>1 DEF Speeds
  <2>3. CASE k = 0
    <3>1. k + 1 = 1
      BY <2>3
    <3> QED
      BY <2>1, <2>2, <2>3, <3>1
  <2>4. CASE k # 0
    BY <2>1, <2>4
  <2> QED
    BY <2>3, <2>4
<1> QED
  BY <1>2, <1>3 DEF Drivable

\* A hold that ends before the first step of a block.
LEMMA StandstillDriven ==
  ASSUME ProfileInv, PlannedInv', PlanDriven, PrepStandstill
  PROVE  PlanDriven'
<1>1. PlannedInv /\ PipelineTypes /\ tail \in Indices /\ Queued \in Nat
      /\ block_buffer \in [Indices -> Block]
  BY QueueViews DEF ProfileInv, PipelineTypes
<1>2. /\ Queued > 0 /\ execute_hold /\ prep'.loaded /\ prep'.speed = 0
      /\ prep'.decel_override = Current.decel_override
      /\ \A i \in Indices : i # tail => block_buffer'[i] = block_buffer[i]
      /\ block_buffer'[tail].gain = block_buffer[tail].gain
      /\ block_buffer'[tail].max = block_buffer[tail].max
      /\ block_buffer'[tail].rate = block_buffer[tail].rate
  BY ProfileStandstill
<1>3. tail' = tail /\ head' = head /\ execute_hold' = execute_hold /\ override' = override
  BY DEF PrepStandstill
<1>4. \A i \in Indices : /\ block_buffer'[i].max = block_buffer[i].max
                         /\ block_buffer'[i].gain = block_buffer[i].gain
                         /\ i # tail => block_buffer'[i].entry = block_buffer[i].entry
  BY <1>2
<1>5. /\ Queued' = Queued /\ Maxima' = Maxima /\ Gains' = Gains
      /\ \A k \in 1 .. Queued : Entry(k)' = Entry(k)
  BY <1>1, <1>3, <1>4, ViewsKept
<1>6. Here' = 0
  BY <1>2 DEF Here
<1>7. ~prep'.decel_override
  <2>1. CASE prep.loaded
    BY <1>2, <2>1 DEF Current, PlanDriven
  <2>2. CASE ~prep.loaded
    BY <1>2, <2>2, LoadedIs DEF Steep
  <2> QED
    BY <2>1, <2>2
<1>8. PICK Q \in Nat : Q = Queued /\ Q > 0
  BY <1>1, <1>2
<1>9. PICK x, y : x = Junctions /\ y = Junctions'
  OBVIOUS
<1>10. x \in Speeds(Q) /\ y \in Speeds(Q) /\ Gains \in Lengths(Q)
  <2>1. QueueTypes'
    BY QueueTypedNext
  <2>2. Junctions' \in Speeds(Queued')
    BY <2>1 DEF QueueTypes
  <2> QED
    BY <1>1, <1>5, <1>8, <1>9, <2>2, QueueViews
<1>11. y[0] = 0 /\ \A k \in 1 .. Q : y[k] = x[k]
  <2>1. y = [k \in 0 .. Q |-> IF k = 0 THEN Here' ELSE Entry(k)']
    BY <1>5, <1>8, <1>9 DEF Junctions
  <2>2. x = [k \in 0 .. Q |-> IF k = 0 THEN Here ELSE Entry(k)]
    BY <1>8, <1>9 DEF Junctions
  <2>3. \A k \in 1 .. Q : k \in 0 .. Q /\ k # 0
    OBVIOUS
  <2>4. \A k \in 1 .. Q : y[k] = Entry(k)' /\ x[k] = Entry(k)
    BY <2>1, <2>2, <2>3
  <2>5. \A k \in 1 .. Q : Entry(k)' = Entry(k)
    BY <1>5, <1>8
  <2>6. y[0] = Here'
    BY <2>1
  <2> QED
    BY ONLY <1>6, <2>4, <2>5, <2>6
<1>12. x[1] >= 0
  <2>1. x[1] = Entry(1)
    BY <1>8, <1>9 DEF Junctions
  <2>2. CASE Q = 1
    BY <1>8, <2>1, <2>2 DEF Entry
  <2>3. CASE Q # 1
    <3>1. 1 \in 0 .. (Queued - 1)
      BY <1>8, <2>3
    <3>2. At(tail, 1) \in Indices /\ Entry(1) = block_buffer[At(tail, 1)].entry
      BY <1>1, <3>1, QueueViews
    <3> QED
      BY <2>1, <3>2 DEF ProfileInv, SpeedInv
  <2> QED
    BY <2>2, <2>3
<1>13. Drivable(y, Maxima, Gains, Q)
  <2>1. Drivable(x, Maxima, Gains, Q)
    BY <1>8, <1>9 DEF PlanDriven
  <2> QED
    BY <1>8, <1>10, <1>11, <1>12, <2>1, SlowerDriven
<1>14. Nominal(block_buffer'[tail], override) \in Nat
  <2>1. Nominal(block_buffer'[tail], override) = Nominal(block_buffer[tail], override)
    BY <1>2 DEF Nominal
  <2> QED
    BY <1>1, <2>1, NominalHere
<1>15. Drivable(Junctions', Maxima', Gains', Queued')
  BY <1>5, <1>8, <1>9, <1>13
<1>16. Here' <= Nominal(block_buffer'[tail'], override')
  BY <1>3, <1>6, <1>14
<1> QED
  BY <1>2, <1>3, <1>7, <1>15, <1>16 DEF PlanDriven, InProgress

-----------------------------------------------------------------------------
\* The plan made again.

\* The whole queue planned again can be driven and cannot be improved.
LEMMA AgainDriven ==
  ASSUME ProfileInv, PlannedInv', PlanDriven, NEW b \in [Indices -> Block],
         plan_cycle_reinitialize(b), tail' = tail, head' = head, Queued > 0,
         \A i \in Indices : /\ b[i].entry = block_buffer[i].entry
                            /\ b[i].gain = block_buffer[i].gain
                            /\ b[i].rate = block_buffer[i].rate,
         NEW m \in Lengths(Queued),
         \A k \in 0 .. (Queued - 1) : m[k] = b[At(tail, k)].max,
         Drivable(Junctions, m, Gains, Queued),
         Here <= Nominal(block_buffer[tail], override')
  PROVE  PlanDriven'
<1>0. \A i \in Indices : b[i].entry = block_buffer[i].entry
  OBVIOUS
<1>1. PlannedInv /\ PipelineTypes /\ tail \in Indices /\ head \in Indices /\ prep \in Preps
  BY QueueViews DEF ProfileInv, PipelineTypes
<1>2. PICK Q \in Nat : Q = Queued /\ Q > 0 /\ Q = Distance(tail, head)
  BY <1>1, QueueViews DEF Queued
<1>3. PICK x, g : x = Junctions /\ g = Gains
  OBVIOUS
<1>4. x \in Speeds(Q) /\ g \in Lengths(Q) /\ m \in Lengths(Q) /\ Drivable(x, m, g, Q)
  BY <1>1, <1>2, <1>3, QueueViews
<1>5. Extends(b, tail, Q, m, g)
  <2>1. \A k \in 0 .. (Q - 1) : g[k] = Gain(k) /\ At(tail, k) \in Indices
    BY <1>1, <1>2, <1>3, QueueViews DEF Gains
  <2> QED
    BY <1>2, <2>1 DEF Extends, Gain
<1>6. Enters(b, tail, Q, x)
  <2> SUFFICES ASSUME NEW k \in 1 .. (Q - 1) PROVE x[k] = b[At(tail, k)].entry
    BY DEF Enters
  <2>1. k \in 0 .. Q /\ k # 0 /\ k \in 0 .. (Queued - 1)
    BY <1>2
  <2>2. x[k] = Entry(k)
    BY <1>2, <1>3, <2>1 DEF Junctions
  <2>3. At(tail, k) \in Indices /\ Entry(k) = block_buffer[At(tail, k)].entry
    BY <1>1, <2>1, QueueViews
  <2> QED
    BY ONLY <1>0, <2>2, <2>3
<1>7. Entry(0) = block_buffer[tail].entry /\ Entry(0) = b[tail].entry
  BY <1>1, QueueViews
<1>8. x[0] = Here /\ Here = IF prep.loaded THEN prep.speed ELSE b[tail].entry
  <2>1. x[0] = Here
    <3>1. x = [k \in 0 .. Q |-> IF k = 0 THEN Here ELSE Entry(k)]
      BY <1>2, <1>3 DEF Junctions
    <3>2. 0 \in 0 .. Q
      BY <1>2
    <3> QED
      BY ONLY <3>1, <3>2
  <2> QED
    BY <1>7, <2>1 DEF Here
<1>9. Distance(tail, tail) = 0
  BY <1>1, RingInverse
<1>10. Replan(b, head, tail, TRUE)
  BY ReplanIs
<1>11. /\ Queued' = Q /\ Maxima' = m /\ Gains' = g /\ Here' = x[0]
       /\ Drivable(Junctions', m, g, Q)
       /\ Unimprovable(x, m, g, 0 + 1, 0)
            => Unimprovable(Junctions', m, g, Q, Distance(tail, planned)')
  <2>1. PICK a \in Nat : a = 0 /\ a = Distance(tail, tail) /\ a < Q
    BY <1>2, <1>9
  <2>2. x[0] = IF prep.loaded THEN prep.speed ELSE b[tail].entry
    BY <1>8
  <2>3. PICK again \in BOOLEAN : /\ again = TRUE /\ Replan(b, head, tail, again)
                                 /\ ~again => a # 0 \/ ~prep.loaded
    BY <1>10
  <2>4. b \in [Indices -> Block] /\ head' = head /\ tail' = tail /\ Q = Distance(tail, head)
    BY <1>2
  <2>5. Planning(b, head, tail, again, Q, a, x, m, g)
    BY ONLY <1>1, <1>4, <1>5, <1>6, <2>1, <2>2, <2>3, <2>4, Q \in Nat DEF Planning
  <2>6. /\ Queued' = Q /\ Maxima' = m /\ Gains' = g /\ Here' = x[0]
        /\ Drivable(Junctions', m, g, Q)
        /\ Unimprovable(x, m, g, a + 1, a)
             => Unimprovable(Junctions', m, g, Q, Distance(tail, planned)')
    BY <1>1, <2>5, StateReplanned
  <2> QED
    BY <2>1, <2>6
<1>12. Unimprovable(x, m, g, 0 + 1, 0)
  BY DEF Unimprovable
<1>13. ~prep'.loaded /\ (InProgress' <=> InProgress) /\ prep'.exit = prep.exit
       /\ prep'.decel_override = prep.decel_override
  BY <1>1, <1>10, UnloadedIs DEF InProgress, Replan
<1>14. ~InProgress => Entry(0)' = Entry(0)
  <2>1. Entry(0)' = IF TRUE /\ prep.loaded THEN prep.speed ELSE b[tail].entry
    <3>1. Distance(tail, tail) < Distance(tail, head) /\ TRUE \in BOOLEAN
      BY <1>2, <1>9
    <3> QED
      BY <1>1, <1>10, <3>1, ReplanTail
  <2> QED
    BY <1>7, <2>1 DEF InProgress
<1>15. Nominal(block_buffer'[tail], override') = Nominal(block_buffer[tail], override')
  <2>1. block_buffer'[tail].rate = b[tail].rate
    <3>1. TRUE \in BOOLEAN
      OBVIOUS
    <3> QED
      BY <1>1, <1>10, <3>1, ReplanKeeps
  <2>2. block_buffer'[tail].rate = block_buffer[tail].rate
    BY <1>1, <2>1
  <2> QED
    BY <2>2 DEF Nominal
<1>16. Here' <= Nominal(block_buffer'[tail'], override')
  BY <1>8, <1>11, <1>15
<1>17. ~prep'.decel_override /\ (~InProgress' => prep'.exit <= Entry(0)')
  BY <1>13, <1>14 DEF PlanDriven
<1> QED
  BY <1>11, <1>12, <1>13, <1>16, <1>17 DEF PlanDriven

\* So it is after a hold.
LEMMA StopDriven ==
  ASSUME ProfileInv, PlannedInv', PlanDriven, CycleStop
  PROVE  PlanDriven'
<1>1. PlannedInv /\ PipelineTypes /\ block_buffer \in [Indices -> Block] /\ Queued \in Nat
      /\ prep \in Preps
  BY QueueViews DEF ProfileInv, PipelineTypes
<1>2. CASE mode # "HOLD"
  <2>1. UNCHANGED <<block_buffer, tail, head, planned, prep, override, execute_hold>>
    BY <1>2 DEF CycleStop
  <2> QED
    BY <2>1, PlanKept
<1>3. CASE mode = "HOLD"
  <2>1. plan_cycle_reinitialize(block_buffer) /\ tail' = tail /\ head' = head
        /\ override' = override
    BY <1>3 DEF CycleStop
  <2>2. CASE Queued > 0
    <3>1. Maxima \in Lengths(Queued)
      BY <1>1, QueueViews
    <3>2. \A k \in 0 .. (Queued - 1) : Maxima[k] = block_buffer[At(tail, k)].max
      BY DEF Maxima
    <3>3. Drivable(Junctions, Maxima, Gains, Queued)
          /\ Here <= Nominal(block_buffer[tail], override')
      BY <2>1, <2>2 DEF PlanDriven
    <3> QED
      BY <1>1, <2>1, <2>2, <3>1, <3>2, <3>3, AgainDriven
  <2>3. CASE ~(Queued > 0)
    <3>1. Queued = 0 /\ ~InProgress /\ Queued' = 0
      BY <1>1, <2>1, <2>3, ProgressTail DEF Queued
    <3>2. prep' = Unloaded
      BY <2>1 DEF plan_cycle_reinitialize
    <3>3. /\ ~prep'.loaded /\ (prep'.recalculate <=> InProgress) /\ prep'.exit = prep.exit
          /\ prep'.decel_override = prep.decel_override
      BY <1>1, <3>2, UnloadedIs
    <3>4. prep.exit <= 0 /\ ~prep.decel_override
      BY <3>1 DEF PlanDriven, Entry
    <3>5. NothingQueued'
      BY <3>1, <3>3, <3>4 DEF NothingQueued, InProgress
    <3> QED
      BY <3>5, NothingDrivenNext
  <2> QED
    BY <2>2, <2>3
<1> QED
  BY <1>2, <1>3

-----------------------------------------------------------------------------
\* The plan under a raised override.

\* A product rises with its factor.
LEMMA ProductRises ==
  ASSUME NEW r \in Nat, NEW m \in Nat, NEW n \in Nat, m <= n
  PROVE  r * m \in Nat /\ r * n \in Nat /\ r * m <= r * n
<1>1. PICK d \in Nat : n = m + d
  <2>1. n - m \in Nat /\ n = m + (n - m)
    OBVIOUS
  <2> QED
    BY <2>1
<1>2. r * d \in Nat /\ r * m \in Nat
  OBVIOUS
<1>3. r * n = r * m + r * d
  BY <1>1
<1> QED
  BY <1>2, <1>3

\* A nominal speed rises with the override.
LEMMA NominalRises ==
  ASSUME NEW block \in Block, NEW o \in Nat, NEW n \in Nat, o <= n
  PROVE  Nominal(block, o) \in Nat /\ Nominal(block, n) \in Nat
         /\ Nominal(block, o) <= Nominal(block, n)
<1>1. PICK r \in Nat : r = block.rate
  BY DEF Block
<1>2. PICK x \in Nat, y \in Nat : x = r * o /\ y = r * n /\ x <= y
  <2>1. r * o \in Nat /\ r * n \in Nat /\ r * o <= r * n
    BY ProductRises
  <2> QED
    BY <2>1
<1>3. x * x \in Nat /\ x * y \in Nat /\ x * x <= x * y
  BY <1>2, ProductRises
<1>4. y * x \in Nat /\ y * y \in Nat /\ y * x <= y * y
  BY <1>2, ProductRises
<1>5. x * y = y * x
  OBVIOUS
<1>6. Nominal(block, o) = x * x /\ Nominal(block, n) = y * y
  BY <1>1, <1>2 DEF Nominal, Square
<1> QED
  BY <1>3, <1>4, <1>5, <1>6

\* Under a raised override every limit is at least what it was.
LEMMA OverrideDriven ==
  ASSUME ProfileInv, MaximaInv, PlannedInv', ~reduced => PlanDriven, ~reduced', ChangeOverride
  PROVE  PlanDriven'
<1>1. PlannedInv /\ PipelineTypes /\ block_buffer \in [Indices -> Block] /\ Queued \in Nat
      /\ prep \in Preps /\ tail \in Indices /\ head \in Indices /\ override \in Overrides
  BY QueueViews DEF ProfileInv, PipelineTypes
<1>2. PICK o \in Overrides : /\ o # override /\ override' = o
                             /\ plan_cycle_reinitialize(Reprofiled(o))
                             /\ reduced' = (reduced \/ (o < override /\ ~Empty))
  BY DEF ChangeOverride
<1>3. tail' = tail /\ head' = head
  BY DEF ChangeOverride
<1>4. PlanDriven /\ (o < override => Empty)
  BY <1>2
<1>5. CASE Queued = 0
  <2>1. ~InProgress /\ Queued' = 0
    BY <1>3, <1>5, ProgressTail DEF ProfileInv, Queued
  <2>2. prep' = Unloaded
    BY <1>2 DEF plan_cycle_reinitialize
  <2>3. /\ ~prep'.loaded /\ (prep'.recalculate <=> InProgress) /\ prep'.exit = prep.exit
        /\ prep'.decel_override = prep.decel_override
    BY <1>1, <2>2, UnloadedIs
  <2>4. prep.exit <= 0 /\ ~prep.decel_override
    BY <1>4, <1>5, <2>1 DEF PlanDriven, Entry
  <2>5. NothingQueued'
    BY <2>1, <2>3, <2>4 DEF NothingQueued, InProgress
  <2> QED
    BY <2>5, NothingDrivenNext
<1>6. CASE Queued # 0
  <2>1. Queued > 0
    BY <1>1, <1>6
  <2>2. o \in Nat /\ override \in Nat /\ override <= o
    <3>1. o \in Nat /\ override \in Nat
      BY <1>1, MotionAssumption
    <3>2. ~Empty
      <4>1. Distance(tail, tail) = 0
        BY <1>1, RingInverse
      <4> QED
        BY <1>6, <4>1 DEF Empty, Queued
    <3> QED
      BY <1>4, <3>1, <3>2
  <2>3. PICK b \in [Indices -> Block] : b = Reprofiled(o)
    BY <1>1, ReprofiledKeeps
  <2>4. \A i \in Indices : /\ b[i].entry = block_buffer[i].entry
                           /\ b[i].gain = block_buffer[i].gain
                           /\ b[i].rate = block_buffer[i].rate
    BY <1>1, <2>3, ReprofiledIs, ReprofiledKeeps
  <2>5. PICK m : m = [k \in 0 .. (Queued - 1) |-> b[At(tail, k)].max]
    OBVIOUS
  <2>6. \A k \in 0 .. (Queued - 1) : m[k] = b[At(tail, k)].max
    BY <2>5
  <2>7. m \in Lengths(Queued)
    <3>1. \A k \in 0 .. (Queued - 1) : b[At(tail, k)].max \in Nat
      <4> SUFFICES ASSUME NEW k \in 0 .. (Queued - 1) PROVE b[At(tail, k)].max \in Nat
        OBVIOUS
      <4>1. At(tail, k) \in Indices
        BY <1>1, QueueViews
      <4>2. b[At(tail, k)] \in Block
        BY <2>3, <4>1
      <4> QED
        BY <4>2 DEF Block
    <3> QED
      BY <2>5, <3>1 DEF Lengths
  <2>8. ASSUME NEW k \in 1 .. (Queued - 1) PROVE Maxima[k] <= m[k]
    <3>1. k \in 0 .. (Queued - 1) /\ k - 1 \in 0 .. (Queued - 1) /\ k \in 1 .. Queued /\ k # 0
      BY <1>1
    <3>2. PICK i \in Indices : /\ i = At(tail, k) /\ Distance(tail, i) = k
                               /\ block_buffer[i] \in Block
      BY <1>1, <3>1, QueueViews
    <3>3. PICK j \in Indices : /\ j = At(tail, k - 1) /\ j = plan_prev_block_index(i)
                               /\ block_buffer[j] \in Block
      BY <1>1, <3>1, <3>2, QueueViews, BlockBefore
    <3>4. Distance(tail, i) < Distance(tail, head) /\ i # tail
      <4>1. Distance(tail, tail) = 0
        BY <1>1, RingInverse
      <4> QED
        BY <1>1, <3>1, <3>2, <4>1 DEF Queued
    <3>5. m[k] = MaxEntry(block_buffer[i].junction, Nominal(block_buffer[i], o),
                          Nominal(block_buffer[j], o))
      <4>1. m[k] = Reprofiled(o)[i].max
        BY <2>3, <2>6, <3>1, <3>2
      <4> QED
        BY <1>1, <3>3, <3>4, <4>1, ReprofiledIs
    <3>6. Maxima[k] = MaxEntry(block_buffer[i].junction, Nominal(block_buffer[i], override),
                               Nominal(block_buffer[j], override))
      <4>1. Maxima[k] = block_buffer[At(tail, k)].max
        BY <3>1 DEF Maxima
      <4> QED
        BY <3>2, <3>3, <4>1 DEF MaximaInv
    <3>7. PICK u \in Nat, v \in Nat, p \in Nat, q \in Nat, l \in Nat :
            /\ u = Nominal(block_buffer[i], override) /\ v = Nominal(block_buffer[i], o)
            /\ p = Nominal(block_buffer[j], override) /\ q = Nominal(block_buffer[j], o)
            /\ u <= v /\ p <= q /\ l = block_buffer[i].junction
      <4>1. /\ Nominal(block_buffer[i], override) \in Nat /\ Nominal(block_buffer[i], o) \in Nat
            /\ Nominal(block_buffer[i], override) <= Nominal(block_buffer[i], o)
        BY <2>2, <3>2, NominalRises
      <4>2. /\ Nominal(block_buffer[j], override) \in Nat /\ Nominal(block_buffer[j], o) \in Nat
            /\ Nominal(block_buffer[j], override) <= Nominal(block_buffer[j], o)
        BY <2>2, <3>3, NominalRises
      <4>3. block_buffer[i].junction \in Nat
        BY <3>2 DEF Block
      <4> QED
        BY ONLY <4>1, <4>2, <4>3
    <3>8. Maxima[k] = MaxEntry(l, u, p) /\ m[k] = MaxEntry(l, v, q)
      BY <3>5, <3>6, <3>7
    <3> QED
      BY ONLY <3>7, <3>8 DEF MaxEntry, Lowest
  <2>9. Drivable(Junctions, m, Gains, Queued)
    <3>1. Drivable(Junctions, Maxima, Gains, Queued)
      BY <1>4 DEF PlanDriven
    <3>2. ASSUME NEW k \in 1 .. (Queued - 1) PROVE Junctions[k] <= m[k]
      <4>1. Junctions[k] <= Maxima[k]
        BY <3>1 DEF Drivable
      <4>2. Junctions[k] \in Int /\ Maxima[k] \in Int /\ m[k] \in Int
        <5>1. k \in 0 .. Queued /\ k \in 0 .. (Queued - 1)
          BY <1>1
        <5>2. Junctions \in Speeds(Queued) /\ Maxima \in Lengths(Queued)
          BY <1>1, QueueViews
        <5>3. Junctions[k] \in Int
          BY <5>1, <5>2 DEF Speeds
        <5>4. Maxima[k] \in Nat /\ m[k] \in Nat
          BY <2>7, <5>1, <5>2 DEF Lengths
        <5> QED
          BY <5>3, <5>4
      <4> QED
        BY <2>8, <4>1, <4>2
    <3> QED
      BY <3>1, <3>2 DEF Drivable
  <2>10. Here <= Nominal(block_buffer[tail], override')
    <3>1. block_buffer[tail] \in Block /\ Here \in Int
      BY <1>1, QueueViews
    <3>2. Here <= Nominal(block_buffer[tail], override)
      BY <1>4, <2>1 DEF PlanDriven
    <3>3. /\ Nominal(block_buffer[tail], override) \in Nat /\ Nominal(block_buffer[tail], o) \in Nat
          /\ Nominal(block_buffer[tail], override) <= Nominal(block_buffer[tail], o)
      BY <2>2, <3>1, NominalRises
    <3> QED
      BY <1>2, <3>1, <3>2, <3>3
  <2>11. plan_cycle_reinitialize(b)
    BY <1>2, <2>3
  <2> QED
    BY <1>3, <1>4, <2>1, <2>4, <2>6, <2>7, <2>9, <2>10, <2>11, AgainDriven
<1> QED
  BY <1>5, <1>6

-----------------------------------------------------------------------------
\* The plan with one line more.

\* The nominal speed of the block in execution is a number.
NominalTyped == Nominal(block_buffer[tail], override) \in Nat

\* In the next state as well.
LEMMA NominalHereNext == PipelineTypes' => NominalTyped'
<1>1. PipelineTypes => NominalTyped
  BY NominalHere DEF NominalTyped
<1> QED
  BY <1>1, PTL

\* The first line of a queue starts from rest.
LEMMA FirstLineIs ==
  ASSUME ProfileInv, BufferLine, Queued = 0
  PROVE  /\ ~InProgress /\ prep \in Preps /\ Queued' = 1 /\ Entry(0)' = 0
         /\ prep' = prep \/ prep' = Unloaded
<1>1. PlannedInv /\ PipelineTypes /\ tail \in Indices /\ head \in Indices /\ planned \in Indices
      /\ prep \in Preps
  BY QueueViews DEF ProfileInv, PipelineTypes
<1>2. ~InProgress /\ ~prep.loaded
  BY ProgressTail DEF InProgress
<1>3. tail = head
  <2>1. At(tail, 0) = tail /\ At(tail, Distance(tail, head)) = head
    BY <1>1, RingInverse
  <2> QED
    BY <2>1 DEF Queued
<1>4. PICK h \in Indices : h = plan_next_block_index(head) /\ plan_prev_block_index(h) = head
  BY <1>1, RingIndex, RingBack
<1>5. PICK line \in Lines :
        /\ Extended(line) \in [Indices -> Block]
        /\ NewBlock(line, sent + 1) \in Block
        /\ Extended(line)[head] = NewBlock(line, sent + 1)
        /\ \A i \in Indices : i # head => Extended(line)[i] = block_buffer[i]
        /\ Replan(Extended(line), plan_next_block_index(head), planned,
                  ReachesTail(plan_next_block_index(head), planned))
        /\ tail' = tail /\ override' = override /\ Queued' = Queued + 1
  BY <1>1, LineIs
<1>6. PICK b \in [Indices -> Block] : b = Extended(line)
  BY <1>5
<1>7. Updated(b) = b
  BY <1>2 DEF Updated
<1>8. block_buffer' = Recalculated(b, h, planned) /\ (prep' = prep \/ prep' = Unloaded)
  BY <1>4, <1>5, <1>6, <1>7 DEF Replan
<1>9. b[head].entry = 0 /\ b[head].max = 0
  <2>1. /\ NewBlock(line, sent + 1).entry = 0 /\ NewBlock(line, sent + 1).junction = 0
        /\ NewBlock(line, sent + 1).max = MaxEntry(0, Nominal(line, override), previous_nominal)
    BY <1>3 DEF NewBlock, Empty
  <2>2. Nominal(line, override) \in Nat /\ previous_nominal \in Nat
    <3>1. PICK r \in Nat : r = line.rate
      BY MotionAssumption
    <3>2. PICK o \in Nat : o = override
      BY <1>1, MotionAssumption DEF PipelineTypes
    <3>3. Nominal(line, override) = (r * o) * (r * o)
      BY <3>1, <3>2 DEF Nominal, Square
    <3>4. PICK n \in Nat : n = r * o
      BY ProductRises
    <3>5. n * n \in Nat
      BY ProductRises
    <3> QED
      BY <1>1, <3>3, <3>4, <3>5 DEF PipelineTypes
  <2>3. MaxEntry(0, Nominal(line, override), previous_nominal) = 0
    BY <2>2 DEF MaxEntry, Lowest
  <2> QED
    BY <1>5, <1>6, <2>1, <2>3
<1>10. \A i \in Indices : b[i].entry >= 0
  <2>1. ASSUME NEW i \in Indices PROVE b[i].entry >= 0
    <3>1. CASE i = head
      BY <1>9, <3>1
    <3>2. CASE i # head
      <4>1. b[i] = block_buffer[i]
        BY <1>5, <1>6, <3>2
      <4> QED
        BY <4>1 DEF ProfileInv, SpeedInv
    <3> QED
      BY <3>1, <3>2
  <2> QED
    BY <2>1
<1>11. block_buffer'[head].entry = 0
  <2>1. Recalculated(b, h, planned)[plan_prev_block_index(h)].entry = 0
    BY <1>1, <1>4, <1>9, <1>10, FirstFromRest
  <2> QED
    BY <1>4, <1>8, <2>1
<1>12. Queued' = 1
  BY <1>5
<1>13. Entry(0)' = 0
  <2>1. At(tail, 0) = tail /\ At(tail, 0)' = At(tail, 0)
    BY <1>1, <1>5, RingInverse DEF At
  <2> QED
    BY <1>3, <1>11, <1>12, <2>1 DEF Entry
<1> QED
  BY <1>1, <1>2, <1>8, <1>12, <1>13

\* Its plan is that of a single block.
LEMMA FirstLineDriven ==
  ASSUME ProfileInv, PlannedInv', PlanDriven, BufferLine, Queued = 0
  PROVE  PlanDriven'
<1>1. /\ ~InProgress /\ prep \in Preps /\ Queued' = 1 /\ Entry(0)' = 0
      /\ prep' = prep \/ prep' = Unloaded
  BY FirstLineIs
<1>2. ~prep.loaded /\ prep.exit <= 0 /\ ~prep.decel_override
  BY <1>1 DEF InProgress, PlanDriven, Entry
<1>3. /\ ~prep'.loaded /\ ~InProgress' /\ prep'.exit = prep.exit
       /\ prep'.decel_override = prep.decel_override
  <2>1. /\ ~Unloaded.loaded /\ (Unloaded.recalculate <=> InProgress)
        /\ Unloaded.exit = prep.exit /\ Unloaded.decel_override = prep.decel_override
    BY <1>1, UnloadedIs
  <2>2. CASE prep' = prep
    BY <1>1, <1>2, <2>2 DEF InProgress
  <2>3. CASE prep' = Unloaded
    BY <1>1, <1>2, <2>1, <2>3 DEF InProgress
  <2> QED
    BY <1>1, <2>2, <2>3
<1>4. Here' = 0
  BY <1>3, <1>1 DEF Here
<1>5. QueueTypes'
  BY QueueTypedNext
<1>6. Drivable(Junctions', Maxima', Gains', Queued')
  <2>1. PICK y, m, g : y = Junctions' /\ m = Maxima' /\ g = Gains'
    OBVIOUS
  <2>2. y[0] = 0 /\ y[1] = 0
    <3>1. y = [k \in 0 .. 1 |-> IF k = 0 THEN Here' ELSE Entry(k)']
      BY <1>1, <2>1 DEF Junctions
    <3>2. Entry(1)' = 0
      BY <1>1 DEF Entry
    <3> QED
      BY <1>4, <3>1, <3>2
  <2>3. g[0] \in Nat
    <3>1. g \in Lengths(1)
      BY <1>1, <1>5, <2>1 DEF QueueTypes
    <3>2. 0 \in 0 .. (1 - 1)
      OBVIOUS
    <3> QED
      BY <3>1, <3>2 DEF Lengths
  <2>4. Drivable(y, m, g, 1)
    <3>1. \A k \in 0 .. (1 - 1) : k = 0
      OBVIOUS
    <3>2. \A k \in 1 .. (1 - 1) : FALSE
      OBVIOUS
    <3>3. 0 <= 0 + g[0]
      BY <2>3
    <3> QED
      BY <2>2, <3>1, <3>2, <3>3 DEF Drivable
  <2> QED
    BY <1>1, <2>1, <2>4
<1>7. Here' <= Nominal(block_buffer'[tail'], override')
  <2>1. NominalTyped'
    <3>1. PipelineTypes'
      BY <1>5 DEF QueueTypes
    <3> QED
      BY <3>1, NominalHereNext
  <2> QED
    BY <1>4, <2>1 DEF NominalTyped
<1>8. Unimprovable(Junctions', Maxima', Gains', Queued', Distance(tail, planned)')
  BY <1>1 DEF Unimprovable
<1> QED
  BY <1>2, <1>3, <1>1, <1>6, <1>7, <1>8 DEF PlanDriven

\* A further line lets the machine come to rest where it did before.
LEMMA LongerDriven ==
  ASSUME NEW Q \in Nat, NEW u \in Speeds(Q), NEW n \in Lengths(Q), NEW l \in Lengths(Q),
         NEW x \in Speeds(Q + 1), NEW m \in Lengths(Q + 1), NEW g \in Lengths(Q + 1),
         NEW a \in Nat, a < Q, u[Q] = 0,
         \A k \in 0 .. (Q + 1) : x[k] = IF k <= Q THEN u[k] ELSE 0,
         \A k \in 0 .. (Q - 1) : m[k] = n[k] /\ g[k] = l[k],
         Drivable(u, n, l, Q)
  PROVE  /\ Drivable(x, m, g, Q + 1)
         /\ Unimprovable(u, n, l, Q, a) => Unimprovable(x, m, g, a + 1, a)
<1>1. /\ \A k \in 1 .. (Q - 1) : u[k] <= n[k]
      /\ \A k \in 0 .. (Q - 1) : u[k] <= u[k + 1] + l[k]
  BY DEF Drivable
<1>2. \A k \in 0 .. Q : x[k] = u[k]
  OBVIOUS
<1>3. x[Q] = 0 /\ x[Q + 1] = 0
  OBVIOUS
<1>4. \A k \in 0 .. Q : m[k] \in Nat /\ g[k] \in Nat
  BY DEF Lengths
<1>5. ASSUME NEW k \in 1 .. ((Q + 1) - 1) PROVE x[k] <= m[k]
  <2>1. CASE k = Q
    BY <1>3, <1>4, <2>1
  <2>2. CASE k # Q
    <3>1. k \in 1 .. (Q - 1) /\ k \in 0 .. (Q - 1) /\ k \in 0 .. Q
      BY <2>2
    <3>2. x[k] = u[k] /\ m[k] = n[k] /\ u[k] <= n[k]
      BY <1>1, <1>2, <3>1
    <3> QED
      BY ONLY <3>2
  <2> QED
    BY <2>1, <2>2
<1>6. ASSUME NEW k \in 0 .. ((Q + 1) - 1) PROVE x[k] <= x[k + 1] + g[k]
  <2>1. CASE k = Q
    <3>1. g[Q] \in Nat /\ x[k] = 0 /\ x[k + 1] = 0
      BY <1>3, <1>4, <2>1
    <3> QED
      BY ONLY <2>1, <3>1
  <2>2. CASE k # Q
    <3>1. k \in 0 .. (Q - 1) /\ k + 1 \in 0 .. Q /\ k \in 0 .. Q
      BY <2>2
    <3>2. x[k] = u[k] /\ x[k + 1] = u[k + 1] /\ g[k] = l[k] /\ u[k] <= u[k + 1] + l[k]
      BY <1>1, <1>2, <3>1
    <3> QED
      BY ONLY <3>2
  <2> QED
    BY <2>1, <2>2
<1>7. ASSUME Unimprovable(u, n, l, Q, a), NEW k \in 1 .. ((a + 1) - 1)
      PROVE  /\ x[k] <= x[k - 1] + g[k - 1]
             /\ \/ x[k] = m[k]
                \/ x[k] = x[k - 1] + g[k - 1]
                \/ x[k] = x[k + 1] + g[k] /\ k # a
  <2>1. k \in 1 .. (Q - 1) /\ k \in 0 .. (Q - 1) /\ k - 1 \in 0 .. (Q - 1)
        /\ k \in 0 .. Q /\ k - 1 \in 0 .. Q /\ k + 1 \in 0 .. Q
    OBVIOUS
  <2>2. /\ x[k] = u[k] /\ x[k - 1] = u[k - 1] /\ x[k + 1] = u[k + 1]
        /\ m[k] = n[k] /\ g[k] = l[k] /\ g[k - 1] = l[k - 1]
    BY <1>2, <2>1
  <2>3. /\ u[k] <= u[k - 1] + l[k - 1]
        /\ \/ u[k] = n[k]
           \/ u[k] = u[k - 1] + l[k - 1]
           \/ u[k] = u[k + 1] + l[k] /\ k # a
    BY <1>7, <2>1 DEF Unimprovable
  <2> QED
    BY ONLY <2>2, <2>3
<1> QED
  BY <1>3, <1>5, <1>6, <1>7 DEF Drivable, Unimprovable

\* A further line is planned from the planned block on.
LEMMA NextLineDriven ==
  ASSUME ProfileInv, PlannedInv', PlanDriven, BufferLine, Queued # 0
  PROVE  PlanDriven'
<1>1. PlannedInv /\ PipelineTypes /\ tail \in Indices /\ head \in Indices /\ planned \in Indices
      /\ prep \in Preps /\ Queued \in Nat /\ Queued > 0
  BY QueueViews DEF ProfileInv, PipelineTypes
<1>2. PICK h \in Indices : h = plan_next_block_index(head)
  BY <1>1, RingIndex
<1>3. PICK line \in Lines :
        /\ Extended(line) \in [Indices -> Block]
        /\ NewBlock(line, sent + 1) \in Block
        /\ Extended(line)[head] = NewBlock(line, sent + 1)
        /\ \A i \in Indices : i # head => Extended(line)[i] = block_buffer[i]
        /\ Replan(Extended(line), plan_next_block_index(head), planned,
                  ReachesTail(plan_next_block_index(head), planned))
        /\ head' = plan_next_block_index(head)
        /\ tail' = tail /\ override' = override /\ UNCHANGED modeVars
        /\ Distance(tail, head') = Queued + 1 /\ Queued' = Queued + 1
  BY <1>1, LineIs
<1>4. PICK b \in [Indices -> Block] : b = Extended(line)
  BY <1>3
<1>5. \A i \in Indices : i # head => b[i] = block_buffer[i]
  BY <1>3, <1>4
<1>6. b[head].entry = 0 /\ b[head] \in Block
  BY <1>1, <1>3, <1>4 DEF NewBlock
<1>7. PICK again \in BOOLEAN : again = ReachesTail(h, planned)
  BY DEF ReachesTail
<1>8. Replan(b, h, planned, again) /\ head' = h /\ tail' = tail
  BY <1>2, <1>3, <1>4, <1>7
<1>9. PICK Q \in Nat : Q = Queued /\ Q > 0
  BY <1>1
<1>10. PICK a \in Nat : a = Distance(tail, planned) /\ a < Q /\ (~again => a # 0)
  <2>1. Distance(tail, planned) \in Nat /\ Distance(tail, planned) < Queued
        /\ (~ReachesTail(h, planned) => Distance(tail, planned) > 0)
    BY <1>1, <1>2, LineBehind
  <2> QED
    BY <1>7, <1>9, <2>1
<1>11. Q + 1 = Distance(tail, h) /\ Q + 1 < BLOCK_BUFFER_SIZE
  <2>1. Q + 1 = Distance(tail, h)
    BY <1>3, <1>8, <1>9
  <2>2. Distance(tail, h) \in Indices
    BY <1>1, RingInverse
  <2> QED
    BY <2>1, <2>2, IndexNat
<1>12. \A k \in 0 .. Q : At(tail, k) \in Indices /\ (At(tail, k) = head <=> k = Q)
  BY <1>1, <1>9, <1>11, QueuePlaces
<1>13. PICK u, n, l : u = Junctions /\ n = Maxima /\ l = Gains
  OBVIOUS
<1>14. u \in Speeds(Q) /\ n \in Lengths(Q) /\ l \in Lengths(Q) /\ Drivable(u, n, l, Q)
       /\ u[Q] = 0
  <2>1. Drivable(u, n, l, Q)
    BY <1>9, <1>13 DEF PlanDriven
  <2> QED
    BY <1>1, <1>9, <1>13, <2>1, QueueViews DEF Drivable
<1>15. PICK x, m, g : /\ x = [k \in 0 .. (Q + 1) |-> IF k <= Q THEN u[k] ELSE 0]
                      /\ m = [k \in 0 .. ((Q + 1) - 1) |-> b[At(tail, k)].max]
                      /\ g = [k \in 0 .. ((Q + 1) - 1) |-> b[At(tail, k)].gain]
  OBVIOUS
<1>16. /\ \A k \in 0 .. (Q + 1) : x[k] = IF k <= Q THEN u[k] ELSE 0
       /\ \A k \in 0 .. ((Q + 1) - 1) : m[k] = b[At(tail, k)].max /\ g[k] = b[At(tail, k)].gain
  BY <1>15
<1>17. x \in Speeds(Q + 1)
  <2>1. \A k \in 0 .. (Q + 1) : k <= Q => u[k] \in Int
    BY <1>14 DEF Speeds
  <2> QED
    BY <1>15, <2>1 DEF Speeds
<1>18. m \in Lengths(Q + 1) /\ g \in Lengths(Q + 1)
  <2>1. \A k \in 0 .. ((Q + 1) - 1) : b[At(tail, k)].max \in Nat /\ b[At(tail, k)].gain \in Nat
    <3> SUFFICES ASSUME NEW k \in 0 .. ((Q + 1) - 1)
                 PROVE  b[At(tail, k)].max \in Nat /\ b[At(tail, k)].gain \in Nat
      OBVIOUS
    <3>1. b[At(tail, k)] \in Block
      BY <1>12
    <3> QED
      BY <3>1 DEF Block
  <2> QED
    BY <1>15, <2>1 DEF Lengths
<1>19. \A k \in 0 .. (Q - 1) : m[k] = n[k] /\ g[k] = l[k]
  <2> SUFFICES ASSUME NEW k \in 0 .. (Q - 1) PROVE m[k] = n[k] /\ g[k] = l[k]
    OBVIOUS
  <2>1. k \in 0 .. ((Q + 1) - 1) /\ k \in 0 .. Q /\ k # Q
    OBVIOUS
  <2>2. b[At(tail, k)] = block_buffer[At(tail, k)]
    BY <1>5, <1>12, <2>1
  <2>3. n[k] = block_buffer[At(tail, k)].max /\ l[k] = block_buffer[At(tail, k)].gain
    BY <1>9, <1>13 DEF Maxima, Gains, Gain
  <2>4. m[k] = b[At(tail, k)].max /\ g[k] = b[At(tail, k)].gain
    BY <1>16, <2>1
  <2> QED
    BY <2>2, <2>3, <2>4
<1>20. Drivable(x, m, g, Q + 1)
       /\ (Unimprovable(u, n, l, Q, a) => Unimprovable(x, m, g, a + 1, a))
  BY ONLY Q \in Nat, <1>10, <1>14, <1>16, <1>17, <1>18, <1>19, LongerDriven
<1>21. Extends(b, tail, Q + 1, m, g)
  BY <1>16 DEF Extends
<1>22. Enters(b, tail, Q + 1, x)
  <2> SUFFICES ASSUME NEW k \in 1 .. ((Q + 1) - 1) PROVE x[k] = b[At(tail, k)].entry
    BY DEF Enters
  <2>1. k \in 0 .. (Q + 1) /\ k <= Q /\ k \in 0 .. Q /\ k # 0
    OBVIOUS
  <2>2. x[k] = u[k]
    BY <1>16, <2>1
  <2>3. CASE k = Q
    BY <1>6, <1>12, <1>14, <2>1, <2>2, <2>3
  <2>4. CASE k # Q
    <3>1. k \in 0 .. (Queued - 1) /\ k \in 0 .. Queued
      BY <1>9, <2>4
    <3>2. u[k] = Entry(k)
      BY <1>13, <2>1, <3>1 DEF Junctions
    <3>3. Entry(k) = block_buffer[At(tail, k)].entry
      BY <1>1, <3>1, QueueViews
    <3>4. b[At(tail, k)] = block_buffer[At(tail, k)]
      BY <1>5, <1>12, <2>1, <2>4
    <3> QED
      BY <2>2, <3>2, <3>3, <3>4
  <2> QED
    BY <2>3, <2>4
<1>23. tail # head /\ b[tail] = block_buffer[tail] /\ Entry(0) = block_buffer[tail].entry
       /\ Gain(0) = block_buffer[tail].gain
  <2>1. tail # head /\ Entry(0) = block_buffer[tail].entry /\ Gain(0) = block_buffer[tail].gain
    BY <1>1, QueueViews
  <2> QED
    BY <1>1, <1>5, <2>1
<1>24. x[0] = Here /\ x[0] = IF prep.loaded THEN prep.speed ELSE b[tail].entry
  <2>1. 0 \in 0 .. (Q + 1) /\ 0 <= Q /\ 0 \in 0 .. Queued
    BY <1>9
  <2>2. x[0] = u[0]
    BY <1>16, <2>1
  <2>3. u[0] = Here
    BY <1>13, <2>1 DEF Junctions
  <2> QED
    BY <1>23, <2>2, <2>3 DEF Here
<1>25. Planning(b, h, planned, again, Q + 1, a, x, m, g)
  <2>1. Q + 1 \in Nat /\ a < Q + 1
    BY <1>10
  <2>2. b \in [Indices -> Block] /\ h \in Indices
    OBVIOUS
  <2>3. x[0] = IF prep.loaded THEN prep.speed ELSE b[tail].entry
    BY <1>24
  <2> QED
    BY ONLY <1>1, <1>8, <1>10, <1>11, <1>17, <1>18, <1>20, <1>21, <1>22, <2>1, <2>2, <2>3,
       a \in Nat DEF Planning
<1>26. /\ Queued' = Q + 1 /\ Maxima' = m /\ Gains' = g /\ Here' = x[0]
       /\ Drivable(Junctions', m, g, Q + 1)
       /\ Unimprovable(x, m, g, a + 1, a)
            => Unimprovable(Junctions', m, g, Q + 1, Distance(tail, planned)')
  BY <1>1, <1>25, StateReplanned
<1>27. Gain(0)' = Gain(0) /\ Entry(0)' = IF again /\ prep.loaded THEN prep.speed ELSE Entry(0)
  <2>1. Distance(tail, planned) < Distance(tail, h)
    BY <1>10, <1>11
  <2>2. /\ Gain(0)' = b[tail].gain
        /\ Entry(0)' = IF again /\ prep.loaded THEN prep.speed ELSE b[tail].entry
    BY <1>1, <1>8, <2>1, ReplanTail
  <2> QED
    BY <1>23, <2>2
<1>28. (InProgress' <=> InProgress) /\ prep'.exit = prep.exit
       /\ prep'.decel_override = prep.decel_override /\ (prep' = prep \/ ~prep'.loaded)
  <2>1. /\ ~Unloaded.loaded /\ (Unloaded.recalculate <=> InProgress)
        /\ Unloaded.exit = prep.exit /\ Unloaded.decel_override = prep.decel_override
    BY <1>1, UnloadedIs
  <2>2. CASE again
    BY <1>8, <2>1, <2>2 DEF Replan, InProgress
  <2>3. CASE ~again
    BY <1>8, <2>3 DEF Replan, InProgress
  <2> QED
    BY <2>2, <2>3
<1>29. Drivable(Junctions', Maxima', Gains', Queued')
  BY <1>26
<1>30. Here' <= Nominal(block_buffer'[tail'], override')
  <2>1. block_buffer'[tail].rate = b[tail].rate
    BY <1>1, <1>8, ReplanKeeps
  <2>2. Nominal(block_buffer'[tail], override) = Nominal(block_buffer[tail], override)
    BY <1>23, <2>1 DEF Nominal
  <2>3. Here <= Nominal(block_buffer[tail], override)
    BY <1>1 DEF PlanDriven
  <2> QED
    BY <1>3, <1>24, <1>26, <2>2, <2>3
<1>31. ~prep'.decel_override /\ (~InProgress' => prep'.exit <= Entry(0)')
  <2>1. ~InProgress => ~prep.loaded
    BY DEF InProgress
  <2>2. ~prep.decel_override /\ (~InProgress => prep.exit <= Entry(0))
    BY DEF PlanDriven
  <2> QED
    BY <1>27, <1>28, <2>1, <2>2
<1>32. ASSUME ~execute_hold'
       PROVE  /\ Unimprovable(Junctions', Maxima', Gains', Queued', Distance(tail, planned)')
              /\ prep'.loaded /\ prep'.decelerate => prep'.speed - prep'.exit >= Gain(0)'
  <2>1. ~execute_hold
    BY <1>3, <1>32 DEF modeVars
  <2>2. Unimprovable(u, n, l, Q, a)
    BY <1>9, <1>10, <1>13, <2>1 DEF PlanDriven
  <2>3. Unimprovable(Junctions', Maxima', Gains', Queued', Distance(tail, planned)')
    BY <1>20, <1>26, <2>2
  <2>4. prep'.loaded /\ prep'.decelerate => prep'.speed - prep'.exit >= Gain(0)'
    <3>1. prep.loaded /\ prep.decelerate => prep.speed - prep.exit >= Gain(0)
      BY <2>1 DEF PlanDriven
    <3> QED
      BY <1>27, <1>28, <3>1
  <2> QED
    BY <2>3, <2>4
<1> QED
  BY <1>29, <1>30, <1>31, <1>32 DEF PlanDriven

-----------------------------------------------------------------------------
\* The plan along a segment.

\* The plan as the block in execution sees it.
LEMMA PlanHere ==
  ASSUME PlannedInv, SpeedInv, MaximaInv, PlanDriven, Queued > 0
  PROVE  /\ Here \in Int /\ Entry(1) \in Int /\ Entry(1) >= 0 /\ Gain(0) \in Nat /\ Gain(0) > 0
         /\ Nominal(block_buffer[tail], override) \in Nat
         /\ Here <= Nominal(block_buffer[tail], override)
         /\ Entry(1) <= Nominal(block_buffer[tail], override)
         /\ Queued > 1 => Entry(1) <= Nominal(block_buffer[At(tail, 1)], override)
         /\ Here <= Entry(1) + Gain(0)
<1>1. PipelineTypes /\ Queued \in Nat /\ Here \in Int /\ override \in Overrides
  BY QueueViews DEF PipelineTypes
<1>2. Nominal(block_buffer[tail], override) \in Nat
      /\ Here <= Nominal(block_buffer[tail], override)
  BY <1>1, NominalHere DEF PlanDriven
<1>3. 0 \in 0 .. (Queued - 1)
  BY <1>1
<1>4. Gain(0) \in Nat /\ Gain(0) > 0 /\ Gains[0] = Gain(0)
  <2>1. Gains[0] = Gain(0)
    BY <1>3 DEF Gains
  <2>2. Gains \in Lengths(Queued) /\ Positive(Gains, Queued)
    BY QueueViews
  <2> QED
    BY <1>3, <2>1, <2>2 DEF Lengths, Positive
<1>5. Junctions[0] = Here /\ Junctions[1] = Entry(1)
  <2>1. 0 \in 0 .. Queued /\ 1 \in 0 .. Queued
    BY <1>1
  <2> QED
    BY <2>1 DEF Junctions
<1>6. Here <= Entry(1) + Gain(0)
  <2>1. Junctions[0] <= Junctions[0 + 1] + Gains[0]
    BY <1>3 DEF PlanDriven, Drivable
  <2> QED
    BY <1>4, <1>5, <2>1
<1>7. CASE Queued = 1
  <2>1. Entry(1) = 0
    BY <1>7 DEF Entry
  <2> QED
    BY <1>1, <1>2, <1>4, <1>6, <1>7, <2>1
<1>8. CASE Queued > 1
  <2>1. 1 \in 0 .. (Queued - 1) /\ 1 \in 1 .. (Queued - 1)
    BY <1>1, <1>8
  <2>2. PICK i \in Indices : /\ i = At(tail, 1) /\ block_buffer[i] \in Block
                             /\ Entry(1) = block_buffer[i].entry
    BY <2>1, QueueViews
  <2>3. Entry(1) \in Int /\ Entry(1) >= 0
    BY <2>2 DEF SpeedInv, Block
  <2>4. Entry(1) <= Maxima[1] /\ Maxima[1] = block_buffer[i].max
    BY <1>5, <2>1, <2>2 DEF PlanDriven, Drivable, Maxima
  <2>5. At(tail, 1 - 1) = tail
    <3>1. At(tail, 0) = tail /\ 1 - 1 = 0
      BY QueueViews
    <3> QED
      BY <3>1
  <2>6. block_buffer[i].max = MaxEntry(block_buffer[i].junction,
                                       Nominal(block_buffer[i], override),
                                       Nominal(block_buffer[tail], override))
    BY <2>1, <2>2, <2>5 DEF MaximaInv
  <2>7. PICK u \in Nat, p \in Nat, l \in Nat :
          /\ u = Nominal(block_buffer[i], override) /\ p = Nominal(block_buffer[tail], override)
          /\ l = block_buffer[i].junction
    <3>1. override \in Nat
      BY <1>1, MotionAssumption
    <3>2. Nominal(block_buffer[i], override) \in Nat
      BY <2>2, <3>1, NominalRises
    <3>3. block_buffer[i].junction \in Nat
      BY <2>2 DEF Block
    <3> QED
      BY ONLY <1>2, <3>2, <3>3
  <2>8. MaxEntry(l, u, p) <= u /\ MaxEntry(l, u, p) <= p /\ MaxEntry(l, u, p) \in Nat
    BY DEF MaxEntry, Lowest
  <2>9. Entry(1) <= u /\ Entry(1) <= p
    BY <2>3, <2>4, <2>6, <2>7, <2>8
  <2> QED
    BY <1>1, <1>2, <1>4, <1>6, <2>2, <2>3, <2>7, <2>9
<1> QED
  BY <1>1, <1>7, <1>8

\* The profile of the block in execution is the plan's.
LEMMA CurrentDriven ==
  ASSUME ProfileInv, MaximaInv, ExitMatchesPlan, PlanDriven, Queued > 0, CanPrep,
         NEW C, C = Current
  PROVE  /\ ~C.decel_override /\ C.speed <= Here
         /\ ~execute_hold =>
              /\ C.speed = Here /\ C.exit = Entry(1) /\ C.complete = 0
              /\ C.decelerate => C.speed - C.exit >= Gain(0)
<1>1. PlannedInv /\ PipelineTypes /\ prep \in Preps /\ SpeedInv
  BY QueueViews DEF ProfileInv, PipelineTypes
<1>2. /\ Here \in Int /\ Entry(1) \in Int /\ Gain(0) \in Nat
      /\ Nominal(block_buffer[tail], override) \in Nat
      /\ Here <= Nominal(block_buffer[tail], override)
  BY <1>1, PlanHere
<1>3. C \in Preps /\ (C.complete # 0 => execute_hold)
  BY CurrentProfile
<1>4. CASE prep.loaded
  <2>1. C = prep /\ Here = prep.speed
    BY <1>4 DEF Current, Here
  <2>2. ~execute_hold => prep.exit = Entry(1)
    BY <1>4 DEF ExitMatchesPlan, CanPrep, PlanDriven
  <2>3. ~execute_hold => (prep.decelerate => prep.speed - prep.exit >= Gain(0))
    BY <1>4 DEF PlanDriven
  <2>4. ~prep.decel_override
    BY DEF PlanDriven
  <2> QED
    BY <1>2, <1>3, <2>1, <2>2, <2>3, <2>4
<1>5. CASE ~prep.loaded
  <2>1. PICK e : e = IF ~prep.recalculate /\ (execute_hold \/ prep.decel_override)
                     THEN prep.exit ELSE block_buffer[tail].entry
    OBVIOUS
  <2>2. PICK g, n, x : /\ g = block_buffer[tail].gain
                       /\ n = Nominal(block_buffer[tail], override)
                       /\ x = ExitSpeed(block_buffer)
    OBVIOUS
  <2>3. /\ C.speed = IF prep.recalculate THEN prep.speed ELSE e
        /\ C.exit = IF Steep(e, g, n) \/ Beyond(e, g) THEN e - g
                    ELSE IF execute_hold THEN 0 ELSE x
        /\ C.decelerate <=> execute_hold \/ Steep(e, g, n) \/ (e <= n /\ e - x >= g)
        /\ C.decel_override <=> Steep(e, g, n)
    BY <1>5, <2>1, <2>2, LoadedIs
  <2>4. x = Entry(1) /\ g = Gain(0) /\ Entry(0) = block_buffer[tail].entry /\ Here = Entry(0)
    BY <1>1, <1>5, <2>2, NextEntry, QueueViews DEF Here
  <2>5. e \in Int /\ e <= Here /\ (~execute_hold => e = Here)
    <3>1. prep.exit \in Int
      BY <1>1 DEF Preps
    <3>2. ~prep.decel_override /\ (~prep.recalculate => prep.exit <= Entry(0))
      BY <1>5 DEF PlanDriven, InProgress
    <3> QED
      BY <1>2, <2>1, <2>4, <3>1, <3>2
  <2>6. ~Steep(e, g, n)
    BY <1>2, <2>2, <2>5 DEF Steep
  <2>7. prep.recalculate => prep.speed = Here
    BY <1>1, <2>4 DEF SpeedInv
  <2>8. C.speed <= Here /\ (~execute_hold => C.speed = Here)
    BY <1>2, <2>3, <2>5, <2>7
  <2>9. ~execute_hold => C.exit = Entry(1)
    BY <2>3, <2>4, <2>6 DEF Beyond
  <2>10. ~execute_hold => (C.decelerate => C.speed - C.exit >= Gain(0))
    BY <1>2, <2>3, <2>4, <2>5, <2>6, <2>8, <2>9
  <2> QED
    BY <1>3, <2>3, <2>6, <2>8, <2>9, <2>10
<1> QED
  BY <1>4, <1>5

\* Profile C of a block of length g with the nominal speed n, from the speed
\* here of the plan to the planned speed e after it.
Profiled(C, g, n, here, e, hold) ==
  /\ C \in Preps /\ g \in Nat /\ n \in Nat /\ here \in Int /\ e \in Int /\ e >= 0
  /\ C.speed <= here /\ here <= n /\ e <= n /\ here <= e + g
  /\ C.complete # 0 => hold /\ C.exit = 0
  /\ hold => C.decelerate
  /\ ~hold => /\ C.speed = here /\ C.exit = e /\ C.complete = 0
              /\ C.decelerate => C.speed - C.exit >= g

\* The speed v after a segment of d steps.
LEMMA SpeedsWithin ==
  ASSUME NEW C, NEW g, NEW n, NEW here, NEW e, NEW hold \in BOOLEAN,
         Profiled(C, g, n, here, e, hold),
         NEW d \in Nat, d > 0, d < g, d <= g - C.complete,
         NEW v, v = SpeedAfter(C, d, g - d, n)
  PROVE  /\ v <= e + (g - d) /\ v <= n
         /\ ~hold /\ e <= here + g => e <= v + (g - d)
         /\ ~hold /\ e = here + g => e = v + (g - d)
         /\ ~hold /\ C.decelerate => v - C.exit >= g - d
<1> USE DEF Profiled
<1>1. C.speed \in Int /\ C.exit \in Int /\ C.complete \in Int
  BY DEF Preps
<1>2. CASE g - d = C.complete
  <2>1. v = C.exit /\ v = 0 /\ hold
    BY <1>1, <1>2 DEF SpeedAfter
  <2> QED
    BY <2>1
<1>3. CASE g - d # C.complete /\ C.decelerate
  <2>1. v = C.speed - d
    BY <1>3 DEF SpeedAfter
  <2> QED
    BY <1>1, <1>3, <2>1
<1>4. CASE g - d # C.complete /\ ~C.decelerate
  <2>1. ~hold /\ C.speed = here /\ C.exit = e
    BY <1>4
  <2>2. v = Lowest(Lowest(here + d, n), e + (g - d))
    BY <1>4, <2>1 DEF SpeedAfter
  <2>3. v \in Int /\ v <= here + d /\ v <= n /\ v <= e + (g - d)
        /\ (v = here + d \/ v = n \/ v = e + (g - d))
    BY <2>2 DEF Lowest
  <2> QED
    BY <1>4, <2>1, <2>3
<1> QED
  BY <1>2, <1>3, <1>4

\* A segment within the block.
LEMMA WithinDriven ==
  ASSUME ProfileInv, MaximaInv, ExitMatchesPlan, PlanDriven, PlannedInv', PrepSegment,
         NEW d, SegmentMade(d), Gain(0) - d > 0
  PROVE  PlanDriven'
<1>1. PlannedInv /\ PipelineTypes /\ tail \in Indices /\ Queued \in Nat /\ SpeedInv
  BY QueueViews DEF ProfileInv, PipelineTypes
<1>2. PICK C : C = Current
  OBVIOUS
<1>3. PICK n : n = Nominal(block_buffer[tail], override)
  OBVIOUS
<1>4. PICK v : v = SpeedAfter(C, d, Gain(0) - d, n)
  OBVIOUS
<1>5. /\ Queued > 0 /\ CanPrep /\ override' = override
      /\ d \in Nat /\ d > 0 /\ d <= Gain(0) - C.complete /\ v \in Int
      /\ prep'.speed = v /\ prep'.exit = C.exit
      /\ prep'.decelerate = C.decelerate /\ prep'.decel_override = C.decel_override
      /\ prep'.loaded
      /\ block_buffer'[tail].rate = block_buffer[tail].rate
  BY <1>2, <1>3, <1>4, SegmentProfile
<1>6. /\ C \in Preps /\ (C.complete # 0 => execute_hold /\ C.exit = 0)
      /\ (execute_hold => C.decelerate)
  BY <1>2, <1>5, CurrentProfile
<1>7. /\ ~C.decel_override /\ C.speed <= Here
      /\ ~execute_hold =>
           /\ C.speed = Here /\ C.exit = Entry(1) /\ C.complete = 0
           /\ C.decelerate => C.speed - C.exit >= Gain(0)
  BY <1>2, <1>5, CurrentDriven
<1>8. /\ Here \in Int /\ Entry(1) \in Int /\ Entry(1) >= 0 /\ Gain(0) \in Nat /\ Gain(0) > 0
      /\ n \in Nat /\ Here <= n /\ Entry(1) <= n /\ Here <= Entry(1) + Gain(0)
  BY <1>1, <1>3, <1>5, PlanHere
<1>9. /\ v <= Entry(1) + (Gain(0) - d) /\ v <= n
      /\ ~execute_hold /\ Entry(1) <= Here + Gain(0) => Entry(1) <= v + (Gain(0) - d)
      /\ ~execute_hold /\ Entry(1) = Here + Gain(0) => Entry(1) = v + (Gain(0) - d)
      /\ ~execute_hold /\ C.decelerate => v - C.exit >= Gain(0) - d
  <2>1. PICK g \in Nat, e \in Int, here \in Int, hold \in BOOLEAN :
          g = Gain(0) /\ e = Entry(1) /\ here = Here /\ hold = execute_hold
    BY <1>1, <1>8 DEF PipelineTypes
  <2>2. d < g
    BY <1>5, <2>1
  <2>3. /\ C \in Preps /\ n \in Nat /\ e >= 0
        /\ C.speed <= here /\ here <= n /\ e <= n /\ here <= e + g
    BY <1>6, <1>7, <1>8, <2>1
  <2>4. /\ C.complete # 0 => hold /\ C.exit = 0
        /\ hold => C.decelerate
        /\ ~hold => /\ C.speed = here /\ C.exit = e /\ C.complete = 0
                    /\ C.decelerate => C.speed - C.exit >= g
    BY <1>6, <1>7, <2>1
  <2>6. Profiled(C, g, n, here, e, hold)
    BY ONLY g \in Nat, e \in Int, here \in Int, <2>3, <2>4 DEF Profiled
  <2>7. v = SpeedAfter(C, d, g - d, n) /\ d \in Nat /\ d > 0 /\ d <= g - C.complete
    BY <1>4, <1>5, <2>1
  <2>5. /\ v <= e + (g - d) /\ v <= n
        /\ ~hold /\ e <= here + g => e <= v + (g - d)
        /\ ~hold /\ e = here + g => e = v + (g - d)
        /\ ~hold /\ C.decelerate => v - C.exit >= g - d
    BY ONLY hold \in BOOLEAN, <2>2, <2>6, <2>7, SpeedsWithin
  <2> QED
    BY <2>1, <2>5
<1>10. /\ tail' = tail /\ planned' = planned /\ Queued' = Queued
       /\ Gain(0)' = Gain(0) - d
       /\ \A k \in 0 .. Queued :
            /\ At(tail, k)' = At(tail, k)
            /\ k # 0 => Entry(k)' = Entry(k) /\ (k < Queued => Gain(k)' = Gain(k))
            /\ k < Queued => (block_buffer[At(tail, k)].max)' = block_buffer[At(tail, k)].max
  BY SegmentWithin
<1>11. Here' = v
  BY <1>5 DEF Here
<1>12. PICK Q \in Nat : Q = Queued /\ Q > 0
  BY <1>1, <1>5
<1>13. PICK x, y, m, f, g, c :
         /\ x = Junctions /\ y = Junctions' /\ m = Maxima /\ f = Gains /\ g = Gains'
         /\ c = Distance(tail, planned)
  OBVIOUS
<1>14. Maxima' = m
  <2>1. \A k \in 0 .. (Q - 1) : k \in 0 .. Queued /\ k < Queued
    BY <1>12
  <2>2. \A k \in 0 .. (Q - 1) : (block_buffer[At(tail, k)].max)' = block_buffer[At(tail, k)].max
    BY <1>10, <2>1
  <2>3. Maxima' = [k \in 0 .. (Q - 1) |-> (block_buffer[At(tail, k)].max)']
    BY <1>10, <1>12 DEF Maxima
  <2> QED
    BY <1>12, <1>13, <2>2, <2>3 DEF Maxima
<1>15. y[0] = v /\ x[0] = Here /\ \A k \in 1 .. Q : y[k] = x[k]
  <2>1. y = [k \in 0 .. Q |-> IF k = 0 THEN Here' ELSE Entry(k)']
    BY <1>10, <1>12, <1>13 DEF Junctions
  <2>2. x = [k \in 0 .. Q |-> IF k = 0 THEN Here ELSE Entry(k)]
    BY <1>12, <1>13 DEF Junctions
  <2>3. \A k \in 1 .. Q : Entry(k)' = Entry(k)
    <3>1. \A k \in 1 .. Q : k \in 0 .. Queued /\ k # 0
      BY <1>12
    <3> QED
      BY <1>10, <3>1
  <2> QED
    BY <1>11, <2>1, <2>2, <2>3
<1>16. g[0] = Gain(0) - d /\ f[0] = Gain(0) /\ \A k \in 1 .. (Q - 1) : g[k] = f[k]
  <2>1. g = [k \in 0 .. (Q - 1) |-> Gain(k)']
    BY <1>10, <1>12, <1>13 DEF Gains
  <2>2. f = [k \in 0 .. (Q - 1) |-> Gain(k)]
    BY <1>12, <1>13 DEF Gains
  <2>3. \A k \in 1 .. (Q - 1) : Gain(k)' = Gain(k)
    <3>1. \A k \in 1 .. (Q - 1) : k \in 0 .. Queued /\ k # 0 /\ k < Queued
      BY <1>12
    <3> QED
      BY <1>10, <3>1
  <2>4. 0 \in 0 .. (Q - 1)
    BY <1>12
  <2> QED
    BY <1>10, <2>1, <2>2, <2>3, <2>4
<1>17. x[1] = Entry(1)
  <2>1. 1 \in 0 .. Queued
    BY <1>12
  <2> QED
    BY <1>13, <2>1 DEF Junctions
<1>18. /\ x[Q] = 0
       /\ \A k \in 1 .. (Q - 1) : x[k] <= m[k]
       /\ \A k \in 0 .. (Q - 1) : x[k] <= x[k + 1] + f[k]
  BY <1>12, <1>13 DEF PlanDriven, Drivable
<1>19. Drivable(y, m, g, Q)
  <2>1. y[Q] = 0 /\ \A k \in 1 .. (Q - 1) : y[k] <= m[k]
    BY <1>12, <1>15, <1>18
  <2>2. ASSUME NEW k \in 0 .. (Q - 1) PROVE y[k] <= y[k + 1] + g[k]
    <3>1. CASE k = 0
      <4>1. y[0 + 1] = Entry(1) /\ y[0] = v /\ g[0] = Gain(0) - d
        BY <1>12, <1>15, <1>16, <1>17
      <4> QED
        BY <1>9, <3>1, <4>1
    <3>2. CASE k # 0
      <4>1. k \in 1 .. Q /\ k + 1 \in 1 .. Q /\ k \in 1 .. (Q - 1)
        BY <3>2
      <4>2. y[k] = x[k] /\ y[k + 1] = x[k + 1] /\ g[k] = f[k] /\ x[k] <= x[k + 1] + f[k]
        BY <1>15, <1>16, <1>18, <4>1
      <4> QED
        BY ONLY <4>2
    <3> QED
      BY <3>1, <3>2
  <2> QED
    BY <2>1, <2>2 DEF Drivable
<1>20. ASSUME ~execute_hold PROVE Unimprovable(y, m, g, Q, c)
  <2>1. Unimprovable(x, m, f, Q, c)
    BY <1>12, <1>13, <1>20 DEF PlanDriven
  <2>2. ASSUME NEW k \in 1 .. (Q - 1)
        PROVE  /\ y[k] <= y[k - 1] + g[k - 1]
               /\ \/ y[k] = m[k]
                  \/ y[k] = y[k - 1] + g[k - 1]
                  \/ y[k] = y[k + 1] + g[k] /\ k # c
    <3>1. /\ x[k] <= x[k - 1] + f[k - 1]
          /\ \/ x[k] = m[k]
             \/ x[k] = x[k - 1] + f[k - 1]
             \/ x[k] = x[k + 1] + f[k] /\ k # c
      BY <2>1 DEF Unimprovable
    <3>2. k \in 1 .. Q /\ k + 1 \in 1 .. Q
      OBVIOUS
    <3>3. y[k] = x[k] /\ y[k + 1] = x[k + 1] /\ g[k] = f[k]
      BY <1>15, <1>16, <3>2
    <3>4. CASE k = 1
      <4>1. /\ y[1 - 1] = v /\ g[1 - 1] = Gain(0) - d /\ x[1 - 1] = Here
            /\ f[1 - 1] = Gain(0) /\ x[1] = Entry(1)
        BY <1>15, <1>16, <1>17
      <4>2. Entry(1) <= Here + Gain(0)
        BY <3>1, <3>4, <4>1
      <4>3. Entry(1) <= v + (Gain(0) - d)
        BY <1>9, <1>20, <4>2
      <4>4. y[k - 1] = v /\ g[k - 1] = Gain(0) - d /\ x[k - 1] = Here /\ f[k - 1] = Gain(0)
            /\ x[k] = Entry(1)
        BY <3>4, <4>1
      <4>5. Entry(1) = Here + Gain(0) => Entry(1) = v + (Gain(0) - d)
        BY <1>9, <1>20
      <4> QED
        BY ONLY <3>1, <3>3, <4>3, <4>4, <4>5
    <3>5. CASE k # 1
      <4>1. k - 1 \in 1 .. Q /\ k - 1 \in 1 .. (Q - 1)
        BY <3>5
      <4>2. y[k - 1] = x[k - 1] /\ g[k - 1] = f[k - 1]
        BY <1>15, <1>16, <4>1
      <4> QED
        BY ONLY <3>1, <3>3, <4>2
    <3> QED
      BY <3>4, <3>5
  <2> QED
    BY <2>2 DEF Unimprovable
<1>21. execute_hold' = execute_hold /\ Distance(tail, planned)' = c
  BY <1>10, <1>13 DEF PrepSegment, Distance
<1>22. Nominal(block_buffer'[tail'], override') = n
  BY <1>3, <1>5, <1>10 DEF Nominal
<1>23. Drivable(Junctions', Maxima', Gains', Queued')
  BY <1>10, <1>12, <1>13, <1>14, <1>19
<1>24. Here' <= Nominal(block_buffer'[tail'], override')
  BY <1>9, <1>11, <1>22
<1>25. ASSUME ~execute_hold'
       PROVE  /\ Unimprovable(Junctions', Maxima', Gains', Queued', Distance(tail, planned)')
              /\ prep'.loaded /\ prep'.decelerate => prep'.speed - prep'.exit >= Gain(0)'
  <2>1. Unimprovable(Junctions', Maxima', Gains', Queued', Distance(tail, planned)')
    BY <1>10, <1>12, <1>13, <1>14, <1>20, <1>21, <1>25
  <2>2. C.decelerate => v - C.exit >= Gain(0) - d
    BY <1>9, <1>21, <1>25
  <2>3. prep'.decelerate => prep'.speed - prep'.exit >= Gain(0)'
    BY <1>5, <1>10, <2>2
  <2> QED
    BY <2>1, <2>3
<1> QED
  BY <1>5, <1>7, <1>23, <1>24, <1>25 DEF PlanDriven, InProgress

\* A queue without its first block, seen from the next one.
LEMMA ShorterDriven ==
  ASSUME NEW Q \in Nat, Q > 0, NEW x \in Speeds(Q), NEW m, NEW f, NEW c \in Nat,
         NEW y, NEW n, NEW g, NEW b,
         \A k \in 0 .. (Q - 1) : y[k] = x[k + 1],
         \A k \in 0 .. (Q - 2) : n[k] = m[k + 1] /\ g[k] = f[k + 1],
         Q > 1 => b = IF c = 0 THEN 0 ELSE c - 1,
         Drivable(x, m, f, Q)
  PROVE  /\ Drivable(y, n, g, Q - 1)
         /\ Unimprovable(x, m, f, Q, c) => Unimprovable(y, n, g, Q - 1, b)
<1>1. /\ x[Q] = 0
      /\ \A k \in 1 .. (Q - 1) : x[k] <= m[k]
      /\ \A k \in 0 .. (Q - 1) : x[k] <= x[k + 1] + f[k]
  BY DEF Drivable
<1>2. y[Q - 1] = 0
  <2>1. Q - 1 \in 0 .. (Q - 1) /\ (Q - 1) + 1 = Q
    OBVIOUS
  <2>2. y[Q - 1] = x[(Q - 1) + 1]
    BY <2>1
  <2> QED
    BY <1>1, <2>1, <2>2
<1>3. ASSUME NEW k \in 1 .. ((Q - 1) - 1) PROVE y[k] <= n[k]
  <2>1. k \in 0 .. (Q - 1) /\ k \in 0 .. (Q - 2) /\ k + 1 \in 1 .. (Q - 1)
    OBVIOUS
  <2>2. y[k] = x[k + 1] /\ n[k] = m[k + 1] /\ x[k + 1] <= m[k + 1]
    BY <1>1, <2>1
  <2> QED
    BY ONLY <2>2
<1>4. ASSUME NEW k \in 0 .. ((Q - 1) - 1) PROVE y[k] <= y[k + 1] + g[k]
  <2>1. /\ k \in 0 .. (Q - 1) /\ k + 1 \in 0 .. (Q - 1) /\ k \in 0 .. (Q - 2)
    OBVIOUS
  <2>2. y[k] = x[k + 1] /\ y[k + 1] = x[(k + 1) + 1] /\ g[k] = f[k + 1]
        /\ x[k + 1] <= x[(k + 1) + 1] + f[k + 1]
    BY <1>1, <2>1
  <2> QED
    BY ONLY <2>2
<1>5. ASSUME Unimprovable(x, m, f, Q, c), NEW k \in 1 .. ((Q - 1) - 1)
      PROVE  /\ y[k] <= y[k - 1] + g[k - 1]
             /\ \/ y[k] = n[k]
                \/ y[k] = y[k - 1] + g[k - 1]
                \/ y[k] = y[k + 1] + g[k] /\ k # b
  <2>1. PICK i \in 1 .. (Q - 1) : i = k + 1 /\ i - 1 = k
    OBVIOUS
  <2>2. /\ x[i] <= x[i - 1] + f[i - 1]
        /\ \/ x[i] = m[i]
           \/ x[i] = x[i - 1] + f[i - 1]
           \/ x[i] = x[i + 1] + f[i] /\ i # c
    BY <1>5 DEF Unimprovable
  <2>3. /\ k \in 0 .. (Q - 1) /\ k + 1 \in 0 .. (Q - 1) /\ k - 1 \in 0 .. (Q - 1)
        /\ k \in 0 .. (Q - 2) /\ k - 1 \in 0 .. (Q - 2) /\ (k - 1) + 1 = k /\ Q > 1
    OBVIOUS
  <2>4. y[k] = x[k + 1] /\ y[k + 1] = x[(k + 1) + 1] /\ y[k - 1] = x[(k - 1) + 1]
    BY <2>3
  <2>5. n[k] = m[k + 1] /\ g[k] = f[k + 1] /\ g[k - 1] = f[(k - 1) + 1]
    BY <2>3
  <2>6. /\ y[k] = x[i] /\ y[k + 1] = x[i + 1] /\ y[k - 1] = x[i - 1]
        /\ n[k] = m[i] /\ g[k] = f[i] /\ g[k - 1] = f[i - 1]
    BY <2>1, <2>3, <2>4, <2>5
  <2>7. i # c => k # b
    BY <2>1, <2>3
  <2> QED
    BY ONLY <2>2, <2>6, <2>7
<1> QED
  BY <1>2, <1>3, <1>4, <1>5 DEF Drivable, Unimprovable

\* The last segment of the block.
LEMMA LastDriven ==
  ASSUME ProfileInv, MaximaInv, ExitMatchesPlan, PlanDriven, PlannedInv', PrepSegment,
         NEW d, SegmentMade(d), ~(Gain(0) - d > 0)
  PROVE  PlanDriven'
<1>1. PlannedInv /\ PipelineTypes /\ tail \in Indices /\ planned \in Indices /\ Queued \in Nat
      /\ SpeedInv
  BY QueueViews DEF ProfileInv, PipelineTypes
<1>2. PICK C : C = Current
  OBVIOUS
<1>3. /\ Queued > 0 /\ CanPrep /\ override' = override
      /\ d \in Nat /\ d <= Gain(0) - C.complete
      /\ prep'.exit = C.exit /\ prep'.decel_override = C.decel_override
      /\ ~prep'.loaded /\ ~prep'.recalculate
  BY <1>2, SegmentProfile
<1>4. /\ C \in Preps /\ (execute_hold => C.speed - C.exit = Gain(0) - C.complete)
  BY <1>2, <1>3, CurrentProfile
<1>5. /\ ~C.decel_override /\ C.speed <= Here
      /\ ~execute_hold => C.exit = Entry(1)
  BY <1>2, <1>3, CurrentDriven
<1>6. /\ Here \in Int /\ Entry(1) \in Int /\ Gain(0) \in Nat
      /\ Queued > 1 => Entry(1) <= Nominal(block_buffer[At(tail, 1)], override)
      /\ Here <= Entry(1) + Gain(0)
  BY <1>1, <1>3, PlanHere
<1>7. /\ Queued' = Queued - 1 /\ Gain(0) = d
      /\ Queued' > 0 =>
           Distance(tail, planned)' = IF Distance(tail, planned) = 0 THEN 0
                                      ELSE Distance(tail, planned) - 1
      /\ \A k \in 0 .. (Queued - 1) : Entry(k)' = Entry(k + 1)
      /\ \A k \in 0 .. (Queued - 2) :
           /\ Gain(k)' = Gain(k + 1)
           /\ (block_buffer[At(tail, k)])' = block_buffer[At(tail, k + 1)]
  BY SegmentLast
<1>8. C.exit <= Entry(1)
  <2>1. C.speed \in Int /\ C.exit \in Int /\ C.complete \in Int
    BY <1>4 DEF Preps
  <2> QED
    BY <1>3, <1>4, <1>5, <1>6, <1>7, <2>1
<1>9. Entry(0)' = Entry(1) /\ Here' = Entry(1)
  <2>1. 0 \in 0 .. (Queued - 1) /\ 0 + 1 = 1
    BY <1>1, <1>3
  <2>2. Entry(0)' = Entry(0 + 1)
    BY <1>7, <2>1
  <2> QED
    BY <1>3, <2>1, <2>2 DEF Here
<1>10. PICK Q \in Nat : Q = Queued /\ Q > 0
  BY <1>1, <1>3
<1>11. PICK x, y, m, n, f, g, b :
         /\ x = Junctions /\ y = Junctions' /\ m = Maxima /\ n = Maxima' /\ f = Gains /\ g = Gains'
         /\ b = Distance(tail, planned)'
  OBVIOUS
<1>12. PICK c \in Nat : c = Distance(tail, planned)
  <2>1. Distance(tail, planned) \in Nat
    BY <1>1, RingInverse, IndexNat
  <2> QED
    BY <2>1
<1>13. \A k \in 0 .. (Q - 1) : y[k] = x[k + 1]
  <2>1. y = [k \in 0 .. (Q - 1) |-> IF k = 0 THEN Here' ELSE Entry(k)']
    BY <1>7, <1>10, <1>11 DEF Junctions
  <2>2. x = [k \in 0 .. Q |-> IF k = 0 THEN Here ELSE Entry(k)]
    BY <1>10, <1>11 DEF Junctions
  <2> SUFFICES ASSUME NEW k \in 0 .. (Q - 1) PROVE y[k] = x[k + 1]
    OBVIOUS
  <2>3. k + 1 \in 0 .. Q /\ k + 1 # 0 /\ k \in 0 .. (Queued - 1)
    BY <1>10
  <2>4. x[k + 1] = Entry(k + 1)
    BY <2>2, <2>3
  <2>5. Entry(k)' = Entry(k + 1)
    BY <1>7, <2>3
  <2>6. CASE k = 0
    <3>1. y[k] = Here' /\ k + 1 = 1
      BY <2>1, <2>6
    <3>2. y[k] = Entry(1) /\ x[k + 1] = Entry(1)
      BY <1>9, <2>4, <3>1
    <3> QED
      BY <3>2
  <2>7. CASE k # 0
    <3>1. y[k] = Entry(k)'
      BY <2>1, <2>7
    <3> QED
      BY <2>4, <2>5, <3>1
  <2> QED
    BY <2>6, <2>7
<1>14. \A k \in 0 .. (Q - 2) : n[k] = m[k + 1] /\ g[k] = f[k + 1]
  <2>1. n = [k \in 0 .. ((Q - 1) - 1) |-> (block_buffer[At(tail, k)])'.max]
    BY <1>7, <1>10, <1>11 DEF Maxima
  <2>2. m = [k \in 0 .. (Q - 1) |-> block_buffer[At(tail, k)].max]
    BY <1>10, <1>11 DEF Maxima
  <2>3. g = [k \in 0 .. ((Q - 1) - 1) |-> Gain(k)']
    BY <1>7, <1>10, <1>11 DEF Gains
  <2>4. f = [k \in 0 .. (Q - 1) |-> Gain(k)]
    BY <1>10, <1>11 DEF Gains
  <2> SUFFICES ASSUME NEW k \in 0 .. (Q - 2) PROVE n[k] = m[k + 1] /\ g[k] = f[k + 1]
    OBVIOUS
  <2>5. k \in 0 .. ((Q - 1) - 1) /\ k + 1 \in 0 .. (Q - 1) /\ k \in 0 .. (Queued - 2)
    BY <1>10
  <2>6. Gain(k)' = Gain(k + 1)
        /\ (block_buffer[At(tail, k)])' = block_buffer[At(tail, k + 1)]
    BY <1>7, <2>5
  <2>7. n[k] = (block_buffer[At(tail, k)])'.max /\ g[k] = Gain(k)'
    BY <2>1, <2>3, <2>5
  <2>8. m[k + 1] = block_buffer[At(tail, k + 1)].max /\ f[k + 1] = Gain(k + 1)
    BY <2>2, <2>4, <2>5
  <2> QED
    BY <2>6, <2>7, <2>8
<1>15. Q > 1 => b = IF c = 0 THEN 0 ELSE c - 1
  BY <1>7, <1>10, <1>11, <1>12
<1>16. Drivable(y, n, g, Q - 1)
       /\ (Unimprovable(x, m, f, Q, c) => Unimprovable(y, n, g, Q - 1, b))
  <2>1. x \in Speeds(Q)
    BY <1>1, <1>10, <1>11, QueueViews
  <2>2. Drivable(x, m, f, Q)
    BY <1>10, <1>11 DEF PlanDriven
  <2> QED
    BY ONLY Q \in Nat, c \in Nat, <1>10, <1>13, <1>14, <1>15, <2>1, <2>2, ShorterDriven
<1>17. Drivable(Junctions', Maxima', Gains', Queued')
  BY <1>7, <1>10, <1>11, <1>16
<1>18. Queued' > 0 => Here' <= Nominal(block_buffer'[tail'], override')
  <2> SUFFICES ASSUME Queued > 1
               PROVE  Here' <= Nominal(block_buffer'[tail'], override')
    BY <1>1, <1>7
  <2>1. 0 \in 0 .. (Queued - 2) /\ 0 + 1 = 1
    BY <1>1
  <2>2. (block_buffer[At(tail, 0)])' = block_buffer[At(tail, 0 + 1)]
    BY <1>7, <2>1
  <2>3. At(tail, 0)' = tail'
    <3>1. At(tail', 0) = tail'
      <4>1. tail' \in Indices
        <5>1. QueueTypes'
          BY QueueTypedNext
        <5> QED
          BY <5>1 DEF QueueTypes, PipelineTypes
      <4> QED
        BY <4>1, RingInverse
    <3> QED
      BY <3>1 DEF At
  <2>4. block_buffer'[tail'] = block_buffer[At(tail, 1)]
    BY <2>1, <2>2, <2>3
  <2> QED
    BY <1>3, <1>6, <1>9, <2>4
<1>19. execute_hold' = execute_hold
  BY DEF PrepSegment
<1>20. ~execute_hold'
         => Unimprovable(Junctions', Maxima', Gains', Queued', Distance(tail, planned)')
  <2> SUFFICES ASSUME ~execute_hold
               PROVE  Unimprovable(Junctions', Maxima', Gains', Queued', Distance(tail, planned)')
    BY <1>19
  <2>1. Unimprovable(x, m, f, Q, c)
    BY <1>10, <1>11, <1>12 DEF PlanDriven
  <2> QED
    BY <1>7, <1>10, <1>11, <1>16, <2>1
<1> QED
  BY <1>3, <1>5, <1>8, <1>9, <1>17, <1>18, <1>20 DEF PlanDriven

\* A segment, within its block or at the end of it, follows the plan.
LEMMA SegmentDriven ==
  ASSUME ProfileInv, MaximaInv, ExitMatchesPlan, PlanDriven, PlannedInv', PrepSegment
  PROVE  PlanDriven'
<1>1. PICK d : SegmentMade(d)
  BY DEF PrepSegment, SegmentMade
<1> QED
  BY <1>1, WithinDriven, LastDriven

\* The interrupt and a line without length change nothing of the plan.
LEMMA IdleDriven ==
  ASSUME ProfileInv, PlanDriven, Idle
  PROVE  PlanDriven'
<1>1. PlannedInv
  BY DEF ProfileInv
<1>2. /\ tail' = tail /\ head' = head /\ planned' = planned /\ prep' = prep
      /\ override' = override /\ UNCHANGED modeVars
      /\ \A i \in Indices : i # head => block_buffer'[i] = block_buffer[i]
  BY <1>1, IdleIs
<1> QED
  BY <1>2, PlanKept DEF modeVars

\* Every step keeps the plan, as long as no override is reduced.
LEMMA DrivenStep ==
  ASSUME PlanInv, PlannedInv', [Next]_vars, ~reduced'
  PROVE  PlanDriven'
<1>1. ProfileInv /\ MaximaInv /\ ExitMatchesPlan /\ (~reduced => PlanDriven) /\ PlannedInv
  BY DEF PlanInv, ProfileInv
<1>2. CASE ChangeOverride
  BY <1>1, <1>2, OverrideDriven
<1>3. CASE Flush
  <2>1. Queued' = 0 /\ ~InProgress' /\ prep'.exit = 0 /\ ~prep'.decel_override
    BY <1>1, <1>3, ProfileFlush
  <2>2. NothingQueued'
    BY <2>1 DEF NothingQueued
  <2> QED
    BY <2>2, NothingDrivenNext
<1>4. CASE PrepSegment
  <2>1. PlanDriven
    BY <1>1, <1>4 DEF PrepSegment, historyVars
  <2> QED
    BY <1>1, <1>4, <2>1, SegmentDriven
<1>5. CASE PrepStandstill
  <2>1. PlanDriven
    BY <1>1, <1>5 DEF PrepStandstill, historyVars
  <2> QED
    BY <1>1, <1>5, <2>1, StandstillDriven
<1>6. CASE BufferLine
  <2>1. PlanDriven
    BY <1>1, <1>6 DEF BufferLine, historyVars
  <2> QED
    BY <1>1, <1>6, <2>1, FirstLineDriven, NextLineDriven
<1>7. CASE Hold
  <2>1. PlanDriven
    BY <1>1, <1>7 DEF Hold, historyVars
  <2> QED
    BY <1>1, <1>7, <2>1, HoldDriven
<1>8. CASE Start
  <2>1. PlanDriven
    BY <1>1, <1>8 DEF Start, historyVars
  <2>2. UNCHANGED <<block_buffer, tail, head, planned, prep, override>> /\ ~execute_hold
        /\ execute_hold' = FALSE
    BY <1>1, <1>8, ProfileStart DEF Start, plannerVars
  <2>3. execute_hold' = execute_hold
    <3>1. execute_hold \in BOOLEAN
      BY <1>1, QueueViews DEF PipelineTypes
    <3> QED
      BY <2>2, <3>1
  <2> QED
    BY <1>1, <2>1, <2>2, <2>3, PlanKept
<1>9. CASE CycleStop
  <2>1. PlanDriven
    BY <1>1, <1>9 DEF CycleStop, historyVars
  <2> QED
    BY <1>1, <1>9, <2>1, StopDriven
<1>10. CASE Idle
  <2>1. reduced' = reduced
    BY <1>1, <1>10, IdleIs
  <2> QED
    BY <1>1, <1>10, <2>1, IdleDriven
<1> QED
  BY <1>2, <1>3, <1>4, <1>5, <1>6, <1>7, <1>8, <1>9, <1>10 DEF Next, Generator, Main, Idle

\* Every step keeps the invariant of the plan.
LEMMA PlanStep == PlanInv /\ [Next]_vars => PlanInv'
<1> SUFFICES ASSUME PlanInv, [Next]_vars PROVE PlanInv'
  OBVIOUS
<1>1. ProfileInv /\ MaximaInv /\ ExitMatchesPlan
  BY DEF PlanInv
<1>2. ProfileInv' /\ MaximaInv' /\ ExitMatchesPlan'
  BY <1>1, ProfileStep, MaximaStep, ExitStep
<1>3. PlannedInv'
  BY <1>2 DEF ProfileInv
<1>4. ~reduced' => PlanDriven'
  BY <1>3, DrivenStep
<1> QED
  BY <1>2, <1>4 DEF PlanInv

\* The pipeline begins with an empty queue.
LEMMA PlanInit == Init => PlanInv
<1> SUFFICES ASSUME Init PROVE PlanInv
  OBVIOUS
<1>1. Queued = 0
  <2>1. 0 \in Indices
    BY RingAssumption DEF Indices
  <2>2. Distance(0, 0) = 0
    BY <2>1, RingInverse
  <2> QED
    BY <2>2 DEF Init, PlannerInit, Queued
<1>2. PlannedInv
  BY <1>1, QueueInit DEF PlannedInv, PlannedInQueue
<1>3. /\ ~prep.loaded /\ ~prep.recalculate /\ prep.speed = 0 /\ prep.exit = 0
      /\ ~prep.decel_override
  BY DEF Init, PrepReset
<1>4. SpeedInv
  <2>1. \A i \in Indices : block_buffer[i].entry = 0
    BY DEF Init, PlannerInit, NoBlock
  <2> QED
    BY <1>3, <2>1 DEF SpeedInv
<1>5. HoldInv
  BY <1>3 DEF HoldInv, Init
<1>6. MaximaInv /\ ExitMatchesPlan
  BY <1>1, <1>3 DEF MaximaInv, ExitMatchesPlan
<1>7. NothingQueued
  BY <1>1, <1>3 DEF NothingQueued, InProgress
<1> QED
  BY <1>2, <1>4, <1>5, <1>6, <1>7, NothingDriven DEF PlanInv, ProfileInv

\* The plan is optimal outside of a hold, as long as no override was reduced
\* with blocks queued: the blocks that block_buffer_planned and the test against
\* the maximum spare planner_recalculate could not have been improved.
THEOREM PlanOptimalSafety == Spec => []PlanOptimal
<1>1. PlanInv => PlanOptimal
  BY PlanIsOptimal DEF PlanInv, ProfileInv, PlanDriven, PlanOptimal
<1> QED
  BY <1>1, PlanInit, PlanStep, PTL DEF Spec

\* The exit speed that st_prep_buffer brakes to is the entry speed the planner
\* has set for the next block, whatever was planned again meanwhile.
THEOREM ExitSafety == Spec => []ExitMatchesPlan
<1>1. PlanInv => ExitMatchesPlan
  BY DEF PlanInv
<1> QED
  BY <1>1, PlanInit, PlanStep, PTL DEF Spec

-----------------------------------------------------------------------------
\* The speed of the machine.

\* When the steppers run and when they have reported that they stopped, what
\* ends a hold, and where in its block.
RunInv ==
  /\ cycle_stop => ~stepping
  /\ mode = "IDLE" \/ hold_complete \/ prepping = "start" => ~stepping /\ ~cycle_stop
  /\ prepping = "start" => mode = "CYCLE"
  /\ mode = "HOLD" => execute_hold \/ hold_complete
  /\ end_motion => mode = "HOLD"
  /\ execute_hold /\ end_motion => InProgress /\ prep.speed = 0

\* The end of a call of the generator.
LEMMA ContinueIs ==
  ASSUME Continue, prepping \in {"no", "refill", "start"}, stepping \in BOOLEAN
  PROVE  /\ prepping' \in {"no", "refill", "start"}
         /\ prepping' = "start" => prepping = "start" /\ stepping' = stepping
         /\ prepping # "start" => stepping' = stepping
         /\ prepping' = "no" => SegmentsFull' \/ end_motion' \/ (~prep'.loaded /\ head' = tail')
<1>1. PICK more \in BOOLEAN :
        more = (~SegmentsFull' /\ ~end_motion' /\ (prep'.loaded \/ head' # tail'))
  OBVIOUS
<1>2. /\ prepping' = IF more THEN IF prepping = "no" THEN "refill" ELSE prepping ELSE "no"
      /\ stepping' = (stepping \/ (~more /\ prepping = "start"))
  BY <1>1 DEF Continue
<1>3. CASE more
  BY <1>2, <1>3
<1>4. CASE ~more
  BY <1>1, <1>2, <1>4
<1> QED
  BY <1>3, <1>4

\* Loading a block again keeps where the generator is.
LEMMA ProgressKept ==
  ASSUME prep \in Preps, prep' = prep \/ prep' = Unloaded
  PROVE  /\ (InProgress' <=> InProgress) /\ prep'.speed = prep.speed /\ prep'.exit = prep.exit
         /\ prep'.loaded => prep.loaded
<1>1. /\ ~Unloaded.loaded /\ (Unloaded.recalculate <=> InProgress)
      /\ Unloaded.speed = prep.speed /\ Unloaded.exit = prep.exit
  BY UnloadedIs
<1>2. CASE prep' = prep
  BY <1>2 DEF InProgress
<1>3. CASE prep' = Unloaded
  BY <1>1, <1>3 DEF InProgress
<1> QED
  BY <1>2, <1>3

\* What a segment does to the generator.
LEMMA SegmentIs ==
  ASSUME ProfileInv, PrepSegment
  PROVE  \E d : /\ SegmentMade(d) /\ CanPrep
                /\ end_motion' => execute_hold /\ prep'.loaded /\ prep'.speed = 0
                /\ UNCHANGED <<mode, execute_hold, hold_complete, cycle_stop, historyVars>>
                /\ Continue
<1>1. PICK d : SegmentMade(d)
  BY DEF PrepSegment, SegmentMade
<1>2. PICK C : C = Current
  OBVIOUS
<1>3. PICK v : v = SpeedAfter(C, d, Gain(0) - d, Nominal(block_buffer[tail], override))
  OBVIOUS
<1>4. /\ Queued > 0 /\ CanPrep /\ prep'.speed = v
      /\ (prep'.loaded <=> Gain(0) - d > 0)
      /\ end_motion' <=> Gain(0) - d > 0 /\ Gain(0) - d = C.complete
  BY <1>1, <1>2, <1>3, SegmentProfile
<1>5. C.complete # 0 => execute_hold /\ C.exit = 0
  BY <1>2, <1>4, CurrentProfile
<1>6. Gain(0) - d = C.complete => v = C.exit
  BY <1>3 DEF SpeedAfter
<1>7. end_motion' => execute_hold /\ prep'.loaded /\ prep'.speed = 0
  BY <1>4, <1>5, <1>6
<1> QED
  BY <1>1, <1>4, <1>7 DEF PrepSegment

\* Every step keeps it.
LEMMA RunStep == ProfileInv /\ RunInv /\ [Next]_vars => RunInv'
<1> SUFFICES ASSUME ProfileInv, RunInv, [Next]_vars PROVE RunInv'
  OBVIOUS
<1>1. PlannedInv /\ PipelineTypes /\ prep \in Preps /\ HoldInv
  BY QueueViews DEF ProfileInv, PipelineTypes
<1>2. /\ stepping \in BOOLEAN /\ cycle_stop \in BOOLEAN /\ execute_hold \in BOOLEAN
      /\ end_motion \in BOOLEAN /\ hold_complete \in BOOLEAN
      /\ mode \in {"IDLE", "CYCLE", "HOLD"} /\ prepping \in {"no", "refill", "start"}
  BY <1>1 DEF PipelineTypes
<1>3. CASE PrepSegment
  <2>1. /\ Continue /\ (end_motion' => execute_hold /\ prep'.loaded /\ prep'.speed = 0)
        /\ UNCHANGED <<mode, execute_hold, hold_complete, cycle_stop>>
    BY <1>3, SegmentIs
  <2>2. /\ prepping' = "start" => prepping = "start" /\ stepping' = stepping
        /\ prepping # "start" => stepping' = stepping
    BY <1>2, <2>1, ContinueIs
  <2> QED
    BY <1>1, <1>2, <2>1, <2>2 DEF RunInv, HoldInv, InProgress
<1>4. CASE PrepStandstill
  <2>1. /\ Continue /\ execute_hold /\ prep'.loaded /\ prep'.speed = 0
        /\ UNCHANGED <<mode, execute_hold, hold_complete, cycle_stop>>
    BY <1>4, ProfileStandstill DEF PrepStandstill
  <2>2. /\ prepping' = "start" => prepping = "start" /\ stepping' = stepping
        /\ prepping # "start" => stepping' = stepping
    BY <1>2, <2>1, ContinueIs
  <2> QED
    BY <1>1, <1>2, <2>1, <2>2 DEF RunInv, HoldInv, InProgress
<1>5. CASE BufferLine \/ ChangeOverride
  <2>1. prep' = prep \/ prep' = Unloaded
    BY <1>5 DEF BufferLine, ChangeOverride, planner_recalculate, plan_cycle_reinitialize
  <2>2. (InProgress' <=> InProgress) /\ prep'.speed = prep.speed
    BY <1>1, <2>1, ProgressKept
  <2>3. UNCHANGED <<isrVars, modeVars, prepping>>
    BY <1>5 DEF BufferLine, ChangeOverride
  <2> QED
    BY <2>2, <2>3 DEF RunInv, isrVars, modeVars
<1>6. CASE Hold
  <2>1. UNCHANGED <<isrVars, prepping>> /\ prepping = "no"
    BY <1>6 DEF Hold
  <2>2. CASE mode = "CYCLE"
    <3>1. mode' = "HOLD" /\ execute_hold' = TRUE /\ end_motion' = FALSE
          /\ hold_complete' = hold_complete
      BY <1>6, <2>2 DEF Hold
    <3> QED
      BY <2>1, <3>1 DEF RunInv, isrVars
  <2>3. CASE mode # "CYCLE"
    <3>1. mode = "IDLE" /\ mode' = "HOLD" /\ hold_complete' = TRUE
          /\ UNCHANGED <<prep, execute_hold, end_motion>>
      BY <1>6, <2>3 DEF Hold
    <3> QED
      BY <2>1, <3>1 DEF RunInv, isrVars, InProgress
  <2> QED
    BY <2>2, <2>3
<1>7. CASE Start
  <2>1. /\ execute_hold' = FALSE /\ end_motion' = FALSE /\ hold_complete' = FALSE
        /\ ~stepping /\ ~cycle_stop /\ cycle_stop' = cycle_stop
    BY <1>7 DEF Start, RunInv
  <2>2. CASE Empty
    <3>1. mode' = "IDLE" /\ prepping' = "no" /\ ~stepping'
      BY <1>7, <2>1, <2>2 DEF Start
    <3> QED
      BY <2>1, <3>1 DEF RunInv
  <2>3. CASE ~Empty /\ SegmentsFull
    <3>1. mode' = "CYCLE" /\ prepping' = "no"
      BY <1>7, <2>3 DEF Start
    <3> QED
      BY <2>1, <3>1 DEF RunInv
  <2>4. CASE ~Empty /\ ~SegmentsFull
    <3>1. mode' = "CYCLE" /\ prepping' = "start" /\ ~stepping'
      BY <1>7, <2>1, <2>4 DEF Start
    <3> QED
      BY <2>1, <3>1 DEF RunInv
  <2> QED
    BY <2>2, <2>3, <2>4
<1>8. CASE CycleStop
  <2>1. prepping = "no" /\ prepping' = prepping /\ cycle_stop /\ cycle_stop' = FALSE
        /\ stepping' = stepping /\ end_motion' = end_motion
    BY <1>8 DEF CycleStop
  <2>2. ~stepping
    BY <2>1 DEF RunInv
  <2>3. CASE mode = "HOLD"
    <3>1. /\ mode' = mode /\ execute_hold' = FALSE
          /\ hold_complete' = (hold_complete \/ execute_hold)
      BY <1>8, <2>3 DEF CycleStop
    <3> QED
      BY <2>1, <2>2, <2>3, <3>1 DEF RunInv
  <2>4. CASE mode # "HOLD"
    <3>1. mode' = "IDLE" /\ hold_complete' = FALSE /\ UNCHANGED <<prep, execute_hold>>
      BY <1>8, <2>4 DEF CycleStop
    <3> QED
      BY <2>1, <2>2, <2>4, <3>1 DEF RunInv, InProgress
  <2> QED
    BY <2>3, <2>4
<1>9. CASE Flush
  <2>1. /\ ~stepping' /\ ~cycle_stop' /\ mode' = "IDLE" /\ ~execute_hold' /\ ~end_motion'
        /\ ~hold_complete' /\ prepping' = "no"
    BY <1>9 DEF Flush, StReset
  <2> QED
    BY <2>1 DEF RunInv
<1>10. CASE IsrEmpty
  <2>1. stepping /\ ~stepping' /\ UNCHANGED <<prep, modeVars, prepping>>
    BY <1>10 DEF IsrEmpty
  <2> QED
    BY <2>1 DEF RunInv, modeVars, InProgress
<1>11. CASE IsrLoad \/ IsrDone \/ BufferNothing \/ UNCHANGED vars
  <2>1. UNCHANGED <<prep, stepping, cycle_stop, modeVars, prepping>>
    BY <1>11 DEF IsrLoad, IsrDone, BufferNothing, isrVars, vars
  <2> QED
    BY <2>1 DEF RunInv, modeVars, InProgress
<1> QED
  BY <1>3, <1>4, <1>5, <1>6, <1>7, <1>8, <1>9, <1>10, <1>11 DEF Next, Generator, Main, Interrupt

\* Between two blocks the machine moves at the speed the last one ended with,
\* which is the speed the next one begins with.  A machine that stopped in a hold
\* has no segments left to make, or does not move.
Continuous ==
  /\ ~InProgress => prep.exit = prep.speed /\ (execute_hold \/ Entry(0) = prep.speed)
  /\ cycle_stop /\ execute_hold /\ ~InProgress => Entry(0) = prep.speed
  /\ cycle_stop /\ (prepping = "no" \/ execute_hold) => SegmentsFull \/ prep.speed = 0

\* All that is known of the machine's speed.
DriveInv ==
  /\ PlanInv /\ RunInv
  /\ ~starved /\ ~reduced => Continuous

\* The block in execution has the speed of the machine.
LEMMA CurrentSpeed ==
  ASSUME ProfileInv, MaximaInv, ExitMatchesPlan, PlanDriven, Continuous, Queued > 0, CanPrep
  PROVE  Current.speed = prep.speed
<1>1. PlannedInv /\ PipelineTypes /\ prep \in Preps /\ SpeedInv
  BY QueueViews DEF ProfileInv, PipelineTypes
<1>2. CASE prep.loaded
  BY <1>2 DEF Current
<1>3. CASE ~prep.loaded
  <2>1. PICK e : e = IF ~prep.recalculate /\ (execute_hold \/ prep.decel_override)
                     THEN prep.exit ELSE block_buffer[tail].entry
    OBVIOUS
  <2>2. PICK g, n, x : /\ g = block_buffer[tail].gain
                       /\ n = Nominal(block_buffer[tail], override)
                       /\ x = ExitSpeed(block_buffer)
    OBVIOUS
  <2>3. Current.speed = IF prep.recalculate THEN prep.speed ELSE e
    BY <1>3, <2>1, <2>2, LoadedIs
  <2>4. Entry(0) = block_buffer[tail].entry /\ ~prep.decel_override
    BY <1>1, QueueViews DEF PlanDriven
  <2>5. ~prep.recalculate => e = prep.speed
    BY <1>3, <2>1, <2>4 DEF Continuous, InProgress
  <2> QED
    BY <2>3, <2>5
<1> QED
  BY <1>2, <1>3

\* Between two blocks, neither planning again nor the steppers change the speed
\* the next block begins with.
LEMMA EntryKept ==
  ASSUME ProfileInv, ~InProgress,
         BufferLine \/ ChangeOverride \/ CycleStop \/ Idle
  PROVE  Entry(0)' = Entry(0)
<1>1. PlannedInv /\ PipelineTypes /\ tail \in Indices /\ head \in Indices /\ planned \in Indices
      /\ prep \in Preps /\ Queued \in Nat /\ block_buffer \in [Indices -> Block]
  BY QueueViews DEF ProfileInv, PipelineTypes
<1>2. ~prep.loaded
  BY DEF InProgress
<1>3. Queued = 0 => Entry(0) = 0
  BY DEF Entry
<1>4. Queued > 0 => Entry(0) = block_buffer[tail].entry /\ tail # head
  BY <1>1, QueueViews
<1>5. ASSUME NEW b \in [Indices -> Block], tail' = tail, head' = head,
             plan_cycle_reinitialize(b),
             \A i \in Indices : b[i].entry = block_buffer[i].entry
      PROVE  Entry(0)' = Entry(0)
  <2>1. Queued' = Queued
    BY <1>5 DEF Queued, Distance
  <2>2. CASE Queued = 0
    BY <1>3, <2>1, <2>2 DEF Entry
  <2>3. CASE Queued # 0
    <3>1. Queued > 0
      BY <1>1, <2>3
    <3>2. Distance(tail, tail) < Distance(tail, head)
      BY <1>1, <3>1, RingInverse DEF Queued
    <3>3. Replan(b, head, tail, TRUE)
      BY <1>5, ReplanIs
    <3>4. Entry(0)' = IF TRUE /\ prep.loaded THEN prep.speed ELSE b[tail].entry
      BY <1>1, <1>5, <3>2, <3>3, ReplanTail
    <3> QED
      BY <1>1, <1>2, <1>4, <1>5, <3>1, <3>4
  <2> QED
    BY <2>2, <2>3
<1>6. CASE BufferLine
  <2>1. CASE Queued = 0
    BY <1>3, <1>6, <2>1, FirstLineIs
  <2>2. CASE Queued # 0
    <3>1. PICK line \in Lines :
            /\ Extended(line) \in [Indices -> Block]
            /\ \A i \in Indices : i # head => Extended(line)[i] = block_buffer[i]
            /\ Replan(Extended(line), plan_next_block_index(head), planned,
                      ReachesTail(plan_next_block_index(head), planned))
            /\ head' = plan_next_block_index(head) /\ head' \in Indices
            /\ tail' = tail /\ Distance(tail, head') = Queued + 1
      BY <1>1, <1>6, LineIs
    <3>2. Distance(tail, planned) < Queued /\ Distance(tail, planned) \in Nat /\ Queued > 0
      BY <1>1, <2>2, RingInverse, IndexNat DEF PlannedInv, PlannedInQueue
    <3>3. PICK again \in BOOLEAN : again = ReachesTail(plan_next_block_index(head), planned)
      BY DEF ReachesTail
    <3>4. PICK h \in Indices : h = plan_next_block_index(head)
      BY <3>1
    <3>5. Replan(Extended(line), h, planned, again) /\ tail' = tail /\ head' = h
          /\ Distance(tail, planned) < Distance(tail, h)
      BY <1>1, <3>1, <3>2, <3>3, <3>4
    <3>6. Entry(0)' = IF again /\ prep.loaded THEN prep.speed ELSE Extended(line)[tail].entry
      BY <1>1, <3>1, <3>5, ReplanTail
    <3> QED
      BY <1>1, <1>2, <1>4, <3>1, <3>2, <3>6
  <2> QED
    BY <2>1, <2>2
<1>7. CASE ChangeOverride
  <2>1. PICK o \in Overrides : plan_cycle_reinitialize(Reprofiled(o))
    BY <1>7 DEF ChangeOverride
  <2>2. tail' = tail /\ head' = head
    BY <1>7 DEF ChangeOverride
  <2>3. Reprofiled(o) \in [Indices -> Block]
        /\ \A i \in Indices : Reprofiled(o)[i].entry = block_buffer[i].entry
    BY <1>1, ReprofiledKeeps, ReprofiledIs
  <2> QED
    BY <1>5, <2>1, <2>2, <2>3
<1>8. CASE CycleStop
  <2>1. tail' = tail /\ head' = head
    BY <1>8 DEF CycleStop
  <2>2. CASE mode = "HOLD"
    <3>1. plan_cycle_reinitialize(block_buffer)
      BY <1>8, <2>2 DEF CycleStop
    <3> QED
      BY <1>1, <1>5, <2>1, <3>1
  <2>3. CASE mode # "HOLD"
    <3>1. block_buffer' = block_buffer
      BY <1>8, <2>3 DEF CycleStop
    <3> QED
      BY <2>1, <3>1 DEF Entry, Queued
  <2> QED
    BY <2>2, <2>3
<1>9. CASE Idle
  <2>1. tail' = tail /\ Queued' = Queued
        /\ \A i \in Indices : i # head => block_buffer'[i] = block_buffer[i]
    BY <1>1, <1>9, IdleIs
  <2>2. CASE Queued = 0
    BY <1>3, <2>1, <2>2 DEF Entry
  <2>3. CASE Queued # 0
    <3>1. At(tail, 0) = tail /\ At(tail, 0)' = tail
      BY <1>1, <2>1, RingInverse DEF At
    <3>2. tail # head
      BY <1>1, <1>4, <2>3
    <3>3. block_buffer'[tail] = block_buffer[tail]
      BY <1>1, <2>1, <3>2
    <3> QED
      BY <2>1, <2>3, <3>1, <3>3 DEF Entry
  <2> QED
    BY <2>2, <2>3
<1> QED
  BY <1>6, <1>7, <1>8, <1>9

\* A segment of d steps changes the speed by no more than that.
LEMMA SpeedChange ==
  ASSUME NEW C, NEW g, NEW n, NEW here, NEW e, NEW hold \in BOOLEAN,
         Profiled(C, g, n, here, e, hold),
         hold => C.speed - C.exit = g - C.complete,
         ~hold => e <= here + g,
         NEW d \in Nat, d > 0, d <= g - C.complete,
         NEW v, v = SpeedAfter(C, d, g - d, n)
  PROVE  v - C.speed <= d /\ -(v - C.speed) <= d
<1> USE DEF Profiled
<1>1. C.speed \in Int /\ C.exit \in Int /\ C.complete \in Nat
  BY DEF Preps
<1>2. CASE g - d = C.complete
  <2>1. v = C.exit
    BY <1>2 DEF SpeedAfter
  <2>2. CASE hold
    BY <1>1, <1>2, <2>1, <2>2
  <2>3. CASE ~hold
    BY <1>1, <1>2, <2>1, <2>3
  <2> QED
    BY <2>2, <2>3
<1>3. CASE g - d # C.complete /\ C.decelerate
  <2>1. v = C.speed - d
    BY <1>3 DEF SpeedAfter
  <2> QED
    BY <1>1, <2>1
<1>4. CASE g - d # C.complete /\ ~C.decelerate
  <2>1. ~hold /\ C.speed = here /\ C.exit = e
    BY <1>4
  <2>2. v = Lowest(Lowest(here + d, n), e + (g - d))
    BY <1>4, <2>1 DEF SpeedAfter
  <2>3. v \in Int /\ v <= here + d
        /\ (v = here + d \/ v = n \/ v = e + (g - d))
    BY <2>2 DEF Lowest
  <2> QED
    BY <1>1, <2>1, <2>3
<1> QED
  BY <1>2, <1>3, <1>4

\* Outside of a hold the planned speed after the block can be reached.
LEMMA NextReached ==
  ASSUME ProfileInv, MaximaInv, PlanDriven, Queued > 0, ~execute_hold
  PROVE  Queued > 1 => Entry(1) <= Here + Gain(0)
<1> SUFFICES ASSUME Queued > 1 PROVE Entry(1) <= Here + Gain(0)
  OBVIOUS
<1>1. Queued \in Nat
  BY QueueViews DEF ProfileInv
<1>2. Junctions[1] <= Junctions[1 - 1] + Gains[1 - 1]
  <2>1. 1 \in 1 .. (Queued - 1)
    BY <1>1
  <2> QED
    BY <2>1 DEF PlanDriven, Unimprovable
<1>3. Junctions[0] = Here /\ Junctions[1] = Entry(1)
  <2>1. 0 \in 0 .. Queued /\ 1 \in 0 .. Queued
    BY <1>1
  <2> QED
    BY <2>1 DEF Junctions
<1>4. Gains[0] = Gain(0)
  <2>1. 0 \in 0 .. (Queued - 1)
    BY <1>1
  <2> QED
    BY <2>1 DEF Gains
<1> QED
  BY <1>2, <1>3, <1>4

\* What a segment of d steps does to the speed of the machine.
LEMMA SegmentSpeed ==
  ASSUME ProfileInv, MaximaInv, ExitMatchesPlan, PlanDriven, Continuous,
         PrepSegment, NEW d, SegmentMade(d)
  PROVE  /\ d \in Nat /\ Gain(0) - d \in Nat /\ Queued > 0 /\ prep'.speed \in Int
         /\ prep'.speed - prep.speed <= d /\ -(prep'.speed - prep.speed) <= d
         /\ prep'.loaded <=> Gain(0) - d > 0
         /\ ~(Gain(0) - d > 0) =>
              /\ ~InProgress' /\ prep'.exit = prep'.speed /\ prep'.speed <= Entry(1)
              /\ ~execute_hold => prep'.speed = Entry(1)
<1>1. PlannedInv /\ PipelineTypes /\ Queued \in Nat /\ execute_hold \in BOOLEAN
      /\ prep \in Preps /\ SpeedInv
  BY QueueViews DEF ProfileInv, PipelineTypes
<1>2. PICK C : C = Current
  OBVIOUS
<1>3. PICK n : n = Nominal(block_buffer[tail], override)
  OBVIOUS
<1>4. PICK v : v = SpeedAfter(C, d, Gain(0) - d, n)
  OBVIOUS
<1>5. /\ Queued > 0 /\ CanPrep /\ d \in Nat /\ d > 0 /\ d <= Gain(0) - C.complete
      /\ Gain(0) - d \in Nat /\ v \in Int
      /\ prep'.speed = v /\ prep'.exit = C.exit /\ ~prep'.recalculate
      /\ prep'.loaded <=> Gain(0) - d > 0
  BY <1>2, <1>3, <1>4, SegmentProfile
<1>6. /\ C \in Preps /\ (C.complete # 0 => execute_hold /\ C.exit = 0)
      /\ execute_hold => C.decelerate /\ C.speed - C.exit = Gain(0) - C.complete
  BY <1>2, <1>5, CurrentProfile
<1>7. /\ C.speed <= Here
      /\ ~execute_hold =>
           /\ C.speed = Here /\ C.exit = Entry(1) /\ C.complete = 0
           /\ C.decelerate => C.speed - C.exit >= Gain(0)
  BY <1>2, <1>5, CurrentDriven
<1>8. /\ Here \in Int /\ Entry(1) \in Int /\ Entry(1) >= 0 /\ Gain(0) \in Nat /\ Gain(0) > 0
      /\ n \in Nat /\ Here <= n /\ Entry(1) <= n /\ Here <= Entry(1) + Gain(0)
  BY <1>1, <1>3, <1>5, PlanHere
<1>9. C.speed = prep.speed
  BY <1>2, <1>5, CurrentSpeed
<1>10. C.speed \in Int /\ C.exit \in Int /\ C.complete \in Nat /\ prep.speed >= 0
  BY <1>1, <1>6 DEF Preps, SpeedInv
<1>11. ~execute_hold => Entry(1) <= Here + Gain(0)
  <2>1. CASE Queued = 1
    <3>1. Entry(1) = 0
      BY <2>1 DEF Entry
    <3> QED
      BY <1>7, <1>8, <1>9, <1>10, <3>1
  <2>2. CASE Queued # 1
    <3>1. Queued > 1
      BY <1>1, <1>5, <2>2
    <3> QED
      BY <1>5, <3>1, NextReached
  <2> QED
    BY <2>1, <2>2
<1>12. v - C.speed <= d /\ -(v - C.speed) <= d
  <2>1. PICK g \in Nat, e \in Int, here \in Int, hold \in BOOLEAN :
          g = Gain(0) /\ e = Entry(1) /\ here = Here /\ hold = execute_hold
    BY <1>1, <1>8
  <2>2. /\ C \in Preps /\ n \in Nat /\ e >= 0
        /\ C.speed <= here /\ here <= n /\ e <= n /\ here <= e + g
    BY <1>6, <1>7, <1>8, <2>1
  <2>3. /\ C.complete # 0 => hold /\ C.exit = 0
        /\ hold => C.decelerate
        /\ ~hold => /\ C.speed = here /\ C.exit = e /\ C.complete = 0
                    /\ C.decelerate => C.speed - C.exit >= g
    BY <1>6, <1>7, <2>1
  <2>4. Profiled(C, g, n, here, e, hold)
    BY ONLY g \in Nat, e \in Int, here \in Int, <2>2, <2>3 DEF Profiled
  <2>5. hold => C.speed - C.exit = g - C.complete
    BY <1>6, <2>1
  <2>6. ~hold => e <= here + g
    BY <1>11, <2>1
  <2>7. v = SpeedAfter(C, d, g - d, n) /\ d \in Nat /\ d > 0 /\ d <= g - C.complete
    BY <1>4, <1>5, <2>1
  <2> QED
    BY ONLY hold \in BOOLEAN, <2>4, <2>5, <2>6, <2>7, SpeedChange
<1>13. ASSUME ~(Gain(0) - d > 0)
       PROVE  /\ ~InProgress' /\ prep'.exit = prep'.speed /\ prep'.speed <= Entry(1)
              /\ ~execute_hold => prep'.speed = Entry(1)
  <2>1. Gain(0) = d /\ C.complete = 0 /\ Gain(0) - d = C.complete
    BY <1>5, <1>8, <1>10, <1>13
  <2>2. v = C.exit
    BY <1>4, <2>1 DEF SpeedAfter
  <2>3. C.exit <= Entry(1)
    <3>1. CASE execute_hold
      <4>1. C.speed - C.exit = Gain(0)
        BY <1>6, <1>8, <2>1, <3>1
      <4> QED
        BY <1>7, <1>8, <1>10, <4>1
    <3>2. CASE ~execute_hold
      BY <1>7, <1>8, <3>2
    <3> QED
      BY <3>1, <3>2
  <2>4. ~InProgress'
    BY <1>5, <1>13 DEF InProgress
  <2> QED
    BY <1>5, <1>7, <2>2, <2>3, <2>4
<1> QED
  BY <1>5, <1>9, <1>12, <1>13

\* An empty queue: the machine stands.
LEMMA AtRest ==
  ASSUME ProfileInv, PlanDriven, Continuous, Queued = 0
  PROVE  ~InProgress /\ prep.speed = 0 /\ Entry(0) = 0
<1>1. prep \in Preps /\ SpeedInv
  BY QueueViews DEF ProfileInv, PipelineTypes
<1>2. ~InProgress /\ Entry(0) = 0
  BY ProgressTail DEF Entry
<1>3. prep.speed >= 0 /\ prep.exit <= 0 /\ prep.exit = prep.speed /\ prep.speed \in Int
  BY <1>1, <1>2 DEF SpeedInv, PlanDriven, Continuous, Preps
<1> QED
  BY <1>2, <1>3

\* While the steppers have reported that they stopped in a hold, no segment is made.
LEMMA StopHeld ==
  ASSUME ProfileInv, MaximaInv, ExitMatchesPlan, PlanDriven, Continuous,
         cycle_stop, execute_hold
  PROVE  ~PrepSegment
<1> SUFFICES ASSUME PrepSegment PROVE FALSE
  OBVIOUS
<1>1. PICK d : SegmentMade(d)
  BY DEF PrepSegment, SegmentMade
<1>2. PICK C : C = Current
  OBVIOUS
<1>3. Queued > 0 /\ CanPrep /\ d \in Nat /\ d > 0 /\ d <= Gain(0) - C.complete
      /\ PipelineTypes
  BY <1>1, <1>2, SegmentProfile
<1>4. C \in Preps /\ C.exit >= 0 /\ C.speed - C.exit = Gain(0) - C.complete
  BY <1>2, <1>3, CurrentProfile
<1>5. C.speed = 0
  <2>1. prep.speed = 0
    BY <1>3 DEF Continuous, CanPrep
  <2> QED
    BY <1>2, <1>3, <2>1, CurrentSpeed
<1>6. Gain(0) \in Int
  BY <1>3, PlanHere DEF ProfileInv
<1> QED
  BY <1>3, <1>4, <1>5, <1>6 DEF Preps

\* A segment keeps the machine's speed in step with the plan.
LEMMA SegmentContinues ==
  ASSUME ProfileInv, MaximaInv, ExitMatchesPlan, PlanDriven, RunInv, Continuous, PlannedInv',
         PrepSegment
  PROVE  Continuous'
<1>1. PlannedInv /\ PipelineTypes /\ Queued \in Nat
  BY QueueViews DEF ProfileInv
<1>2. prepping \in {"no", "refill", "start"} /\ stepping \in BOOLEAN
  BY <1>1 DEF PipelineTypes
<1>3. PICK d : /\ SegmentMade(d)
               /\ end_motion' => execute_hold /\ prep'.loaded /\ prep'.speed = 0
               /\ UNCHANGED <<mode, execute_hold, hold_complete, cycle_stop, historyVars>>
               /\ Continue
  BY SegmentIs
<1>4. ~(cycle_stop /\ execute_hold)
  BY StopHeld
<1>5. /\ d \in Nat /\ Gain(0) - d \in Nat /\ Queued > 0
      /\ prep'.loaded <=> Gain(0) - d > 0
      /\ ~(Gain(0) - d > 0) =>
           /\ ~InProgress' /\ prep'.exit = prep'.speed
           /\ ~execute_hold => prep'.speed = Entry(1)
  BY <1>3, SegmentSpeed
<1>6. ASSUME ~(Gain(0) - d > 0)
      PROVE  Queued' = Queued - 1 /\ Entry(0)' = Entry(1)
  <2>1. 0 \in 0 .. (Queued - 1)
    BY <1>1, <1>5
  <2>2. Queued' = Queued - 1 /\ Entry(0)' = Entry(0 + 1)
    BY <1>3, <1>6, <2>1, SegmentLast
  <2> QED
    BY <2>2
<1>7. ASSUME ~InProgress'
      PROVE  prep'.exit = prep'.speed /\ (execute_hold' \/ Entry(0)' = prep'.speed)
  <2>1. ~(Gain(0) - d > 0)
    BY <1>5, <1>7 DEF InProgress
  <2> QED
    BY <1>3, <1>5, <1>6, <2>1
<1>8. ASSUME cycle_stop', prepping' = "no" \/ execute_hold'
      PROVE  SegmentsFull' \/ prep'.speed = 0
  <2>1. cycle_stop /\ ~execute_hold /\ prepping' = "no"
    BY <1>3, <1>4, <1>8
  <2>2. SegmentsFull' \/ end_motion' \/ (~prep'.loaded /\ head' = tail')
    BY <1>2, <1>3, <2>1, ContinueIs
  <2>3. ~end_motion'
    BY <1>3, <2>1
  <2>4. ASSUME ~prep'.loaded, head' = tail'
        PROVE  prep'.speed = 0
    <3>1. ~(Gain(0) - d > 0)
      BY <1>5, <2>4
    <3>2. Queued' = 0
      <4>1. PipelineTypes'
        BY DEF PlannedInv, QueueInv
      <4>2. tail' \in Indices
        BY <4>1 DEF PipelineTypes
      <4>3. Distance(tail', head') = 0
        BY <2>4, <4>2, RingInverse
      <4>4. Queued' = Distance(tail', head')
        BY DEF Queued, Distance
      <4> QED
        BY <4>3, <4>4
    <3>3. Queued = 1
      BY <1>1, <1>6, <3>1, <3>2
    <3>4. Entry(1) = 0
      BY <3>3 DEF Entry
    <3> QED
      BY <1>5, <2>1, <3>1, <3>4
  <2> QED
    BY <2>2, <2>3, <2>4
<1>9. ~(cycle_stop' /\ execute_hold')
  BY <1>3, <1>4
<1> QED
  BY <1>7, <1>8, <1>9 DEF Continuous

\* The steppers have run out of segments: unless the generator is late, the
\* machine has come to rest.
LEMMA EmptyContinues ==
  ASSUME ProfileInv, PlanDriven, RunInv, Continuous, IsrEmpty, ~starved'
  PROVE  Continuous'
<1>1. PlannedInv /\ PipelineTypes /\ Queued \in Nat /\ tail \in Indices /\ head \in Indices
      /\ mode \in {"IDLE", "CYCLE", "HOLD"}
  BY QueueViews DEF ProfileInv, PipelineTypes
<1>2. stepping /\ segs = <<>> /\ ~(Calls /\ CanPrep)
      /\ UNCHANGED <<plannerVars, segs, prep, modeVars, prepping>>
  BY DEF IsrEmpty
<1>3. mode # "IDLE" /\ ~hold_complete /\ Calls
  BY <1>1, <1>2 DEF RunInv, Calls
<1>4. ~SegmentsFull
  BY <1>2, SegmentAssumption DEF SegmentsFull
<1>5. end_motion \/ (~prep.loaded /\ Empty)
  BY <1>2, <1>3, <1>4 DEF CanPrep
<1>6. prep.speed = 0 /\ (InProgress \/ Entry(0) = 0)
  <2>1. CASE end_motion
    <3>1. execute_hold
      BY <1>3, <2>1 DEF RunInv
    <3> QED
      BY <2>1, <3>1 DEF RunInv
  <2>2. CASE ~prep.loaded /\ Empty
    <3>1. Queued = 0
      BY <1>1, <2>2, RingInverse DEF Empty, Queued
    <3> QED
      BY <3>1, AtRest
  <2> QED
    BY <1>5, <2>1, <2>2
<1>7. prep' = prep /\ (InProgress' <=> InProgress) /\ Entry(0)' = Entry(0)
      /\ execute_hold' = execute_hold
  BY <1>2 DEF InProgress, Entry, Queued, plannerVars, modeVars
<1> QED
  BY <1>6, <1>7 DEF Continuous

\* The machine is told to hold.
LEMMA HoldContinues ==
  ASSUME ProfileInv, Continuous, Hold
  PROVE  Continuous'
<1>1. prep \in Preps
  BY QueueViews DEF ProfileInv, PipelineTypes
<1>2. prepping = "no" /\ UNCHANGED <<tail, head, segs, cycle_stop, prepping>>
  BY DEF Hold, isrVars
<1>3. mode \in {"IDLE", "CYCLE"} /\ ~execute_hold
  BY DEF Hold, ProfileInv, HoldInv
<1>4. prep' = prep \/ prep' = Unloaded
  BY DEF Hold
<1>5. /\ InProgress' <=> InProgress
      /\ prep'.speed = prep.speed /\ prep'.exit = prep.exit
  BY <1>1, <1>4, ProgressKept
<1>6. ~InProgress => Entry(0)' = Entry(0)
  <2> SUFFICES ASSUME ~InProgress PROVE Entry(0)' = Entry(0)
    OBVIOUS
  <2>1. block_buffer' = block_buffer
    BY DEF Hold, Updated, InProgress
  <2> QED
    BY <1>2, <2>1 DEF Entry, Queued
<1>7. ~InProgress' => prep'.exit = prep'.speed /\ Entry(0)' = prep'.speed
  BY <1>3, <1>5, <1>6 DEF Continuous
<1>8. cycle_stop' => SegmentsFull' \/ prep'.speed = 0
  BY <1>2, <1>5 DEF Continuous, SegmentsFull
<1> QED
  BY <1>7, <1>8 DEF Continuous

\* The report of the steppers is handled: a hold is over.
LEMMA StopContinues ==
  ASSUME ProfileInv, Continuous, CycleStop
  PROVE  Continuous'
<1>1. prep \in Preps
  BY QueueViews DEF ProfileInv, PipelineTypes
<1>2. cycle_stop /\ ~cycle_stop'
  BY DEF CycleStop
<1>3. prep' = prep \/ prep' = Unloaded
  BY DEF CycleStop, plan_cycle_reinitialize
<1>4. /\ InProgress' <=> InProgress
      /\ prep'.speed = prep.speed /\ prep'.exit = prep.exit
  BY <1>1, <1>3, ProgressKept
<1>5. ~InProgress => Entry(0)' = Entry(0)
  BY EntryKept
<1>6. ~InProgress => prep.exit = prep.speed /\ Entry(0) = prep.speed
  BY <1>2 DEF Continuous
<1> QED
  BY <1>2, <1>4, <1>5, <1>6 DEF Continuous

\* Planning again changes nothing between two blocks.
LEMMA ReplanContinues ==
  ASSUME ProfileInv, Continuous, BufferLine \/ ChangeOverride
  PROVE  Continuous'
<1>1. prep \in Preps
  BY QueueViews DEF ProfileInv, PipelineTypes
<1>2. UNCHANGED <<segs, cycle_stop, execute_hold, prepping>>
  BY DEF BufferLine, ChangeOverride, isrVars, modeVars
<1>3. prep' = prep \/ prep' = Unloaded
  BY DEF BufferLine, ChangeOverride, planner_recalculate, plan_cycle_reinitialize
<1>4. /\ InProgress' <=> InProgress
      /\ prep'.speed = prep.speed /\ prep'.exit = prep.exit
  BY <1>1, <1>3, ProgressKept
<1>5. ~InProgress => Entry(0)' = Entry(0)
  BY EntryKept
<1>6. SegmentsFull' = SegmentsFull
  BY <1>2 DEF SegmentsFull
<1> QED
  BY <1>2, <1>4, <1>5, <1>6 DEF Continuous

\* As do the interrupt and a line without length.
LEMMA IdleContinues ==
  ASSUME ProfileInv, RunInv, Continuous, Idle, ~IsrEmpty
  PROVE  Continuous'
<1>1. prep' = prep /\ execute_hold' = execute_hold /\ (InProgress' <=> InProgress)
  BY IdleIs DEF ProfileInv, modeVars, InProgress
<1>2. cycle_stop' = cycle_stop /\ prepping' = prepping
  BY DEF Idle, Interrupt, IsrLoad, IsrDone, BufferNothing, isrVars, vars
<1>3. ~InProgress => Entry(0)' = Entry(0)
  BY EntryKept
<1>4. cycle_stop => segs' = segs
  BY DEF Idle, Interrupt, IsrLoad, IsrDone, BufferNothing, vars, RunInv
<1> QED
  BY <1>1, <1>2, <1>3, <1>4 DEF Continuous, SegmentsFull

\* Every step keeps the speed continuous until the segments run out or an override
\* is reduced.
LEMMA ContinuousStep ==
  ASSUME DriveInv, PlannedInv', [Next]_vars, ~starved', ~reduced'
  PROVE  Continuous'
<1>1. ProfileInv /\ MaximaInv /\ ExitMatchesPlan /\ RunInv
      /\ (~reduced => PlanDriven) /\ (~starved /\ ~reduced => Continuous)
  BY DEF DriveInv, PlanInv
<1>2. /\ starved \in BOOLEAN /\ reduced \in BOOLEAN
  BY <1>1, QueueViews DEF ProfileInv, PipelineTypes
<1>3. CASE Flush
  <2>1. ~InProgress' /\ Entry(0)' = 0
    BY <1>1, <1>3, ProfileFlush
  <2>2. prep' = PrepReset /\ ~cycle_stop'
    BY <1>3 DEF Flush, StReset
  <2>3. prep'.speed = 0 /\ prep'.exit = 0
    BY <2>2 DEF PrepReset
  <2> QED
    BY <2>1, <2>2, <2>3 DEF Continuous
<1>4. ASSUME ~Flush
      PROVE  PlanDriven /\ Continuous
  <2>1. ~starved /\ ~reduced
    BY <1>2, <1>4
       DEF Next, Generator, Main, Interrupt, PrepSegment, PrepStandstill, IsrLoad, IsrDone,
           IsrEmpty, BufferLine, BufferNothing, ChangeOverride, Hold, Start, CycleStop,
           historyVars, vars
  <2> QED
    BY <1>1, <2>1
<1>5. CASE PrepSegment /\ ~Flush
  BY <1>1, <1>4, <1>5, SegmentContinues
<1>6. CASE PrepStandstill /\ ~Flush
  <2>1. prep'.loaded /\ prep'.speed = 0
    BY <1>1, <1>6, ProfileStandstill
  <2> QED
    BY <2>1 DEF Continuous, InProgress
<1>7. CASE (BufferLine \/ ChangeOverride) /\ ~Flush
  BY <1>1, <1>4, <1>7, ReplanContinues
<1>8. CASE Hold /\ ~Flush
  BY <1>1, <1>4, <1>8, HoldContinues
<1>9. CASE Start /\ ~Flush
  <2>1. UNCHANGED <<plannerVars, prep, cycle_stop>> /\ ~execute_hold /\ ~execute_hold'
        /\ ~cycle_stop
    BY <1>1, <1>9, ProfileStart DEF Start, RunInv
  <2>2. (InProgress' <=> InProgress) /\ Entry(0)' = Entry(0)
    BY <2>1 DEF InProgress, Entry, Queued, plannerVars
  <2> QED
    BY <1>4, <1>9, <2>1, <2>2 DEF Continuous
<1>10. CASE CycleStop /\ ~Flush
  BY <1>1, <1>4, <1>10, StopContinues
<1>11. CASE IsrEmpty /\ ~Flush
  BY <1>1, <1>4, <1>11, EmptyContinues
<1>12. CASE Idle /\ ~IsrEmpty /\ ~Flush
  BY <1>1, <1>4, <1>12, IdleContinues
<1> QED
  BY <1>3, <1>5, <1>6, <1>7, <1>8, <1>9, <1>10, <1>11, <1>12
     DEF Next, Generator, Main, Idle, Interrupt

\* Every step keeps what is known of the speed.
LEMMA DriveStep == DriveInv /\ [Next]_vars => DriveInv'
<1> SUFFICES ASSUME DriveInv, [Next]_vars PROVE DriveInv'
  OBVIOUS
<1>1. PlanInv' /\ RunInv'
  BY PlanStep, RunStep DEF DriveInv, PlanInv
<1>2. PlannedInv'
  BY <1>1 DEF PlanInv, ProfileInv
<1>3. ~starved' /\ ~reduced' => Continuous'
  BY <1>2, ContinuousStep
<1> QED
  BY <1>1, <1>3 DEF DriveInv

\* The machine begins at rest.
LEMMA DriveInit == Init => DriveInv
<1> SUFFICES ASSUME Init PROVE DriveInv
  OBVIOUS
<1>1. PlanInv
  BY PlanInit
<1>2. ~prep.loaded /\ ~prep.recalculate /\ prep.speed = 0 /\ prep.exit = 0 /\ ~cycle_stop
      /\ ~stepping /\ prepping = "no" /\ mode = "IDLE" /\ ~end_motion /\ ~execute_hold
  BY DEF Init, PrepReset
<1>3. RunInv
  BY <1>2 DEF RunInv
<1>4. Entry(0) = 0
  <2>1. 0 \in Indices
    BY RingAssumption DEF Indices
  <2>2. Queued = 0
    BY <2>1, RingInverse DEF Init, PlannerInit, Queued
  <2> QED
    BY <2>2 DEF Entry
<1>5. Continuous
  BY <1>2, <1>4 DEF Continuous
<1> QED
  BY <1>1, <1>3, <1>5 DEF DriveInv

\* What a step does to the machine's speed.
LEMMA SpeedStep ==
  ASSUME DriveInv, [Next]_vars, ~Flush, ~starved, ~reduced
  PROVE  LET change == prep'.speed - prep.speed
             steps == IF Len(segs') > Len(segs) THEN segs'[Len(segs')].steps ELSE 0
         IN  change <= steps /\ -change <= steps
<1>1. ProfileInv /\ MaximaInv /\ ExitMatchesPlan /\ RunInv /\ PlanDriven /\ Continuous
  BY DEF DriveInv, PlanInv
<1>2. PipelineTypes /\ prep \in Preps /\ prep.speed \in Int /\ (executing => segs # <<>>)
  BY <1>1, QueueViews DEF ProfileInv, PipelineTypes, Preps, PlannedInv, QueueInv, SlotInv, SlotsAgree, SlotExecuted
<1>3. CASE PrepSegment
  <2>1. PICK d : SegmentMade(d)
    BY <1>3 DEF PrepSegment, SegmentMade
  <2>2. prep'.speed - prep.speed <= d /\ -(prep'.speed - prep.speed) <= d
    BY <1>1, <1>3, <2>1, SegmentSpeed
  <2>3. Len(segs') > Len(segs) /\ segs'[Len(segs')].steps = d
    <3>1. PICK s : segs' = Append(segs, s) /\ s.steps = d
      BY <2>1 DEF SegmentMade
    <3>2. segs \in Seq(Segment)
      BY <1>2 DEF PipelineTypes
    <3> QED
      BY <3>1, <3>2
  <2> QED
    BY <2>2, <2>3
<1>4. CASE PrepStandstill
  <2>1. segs' = segs /\ prep'.speed = 0 /\ execute_hold /\ Queued > 0 /\ CanPrep
        /\ Current.complete = block_buffer[tail].gain /\ PlannedInv
    BY <1>1, <1>4, ProfileStandstill DEF PrepStandstill, ProfileInv
  <2>2. PICK C : C = Current
    OBVIOUS
  <2>3. C \in Preps /\ (C.complete # 0 => C.exit = 0) /\ C.speed - C.exit = Gain(0) - C.complete
    BY <1>1, <2>1, <2>2, CurrentProfile
  <2>4. Gain(0) \in Nat /\ Gain(0) > 0 /\ Gain(0) = block_buffer[tail].gain
    BY <1>1, <2>1, PlanHere, QueueViews DEF ProfileInv
  <2>5. C.speed = 0
    BY <2>1, <2>2, <2>3, <2>4 DEF Preps
  <2>6. C.speed = prep.speed
    BY <1>1, <2>1, <2>2, CurrentSpeed
  <2> QED
    BY <2>1, <2>5, <2>6
<1>5. CASE ~PrepSegment /\ ~PrepStandstill
  <2>1. prep' = prep \/ prep' = Unloaded
    BY <1>5 DEF Next, Generator, Main, Interrupt, IsrLoad, IsrDone, IsrEmpty, BufferLine,
                BufferNothing, ChangeOverride, Hold, Start, CycleStop, vars,
                planner_recalculate, plan_cycle_reinitialize
  <2>2. prep'.speed = prep.speed
    BY <1>2, <2>1, ProgressKept
  <2>3. ~(Len(segs') > Len(segs))
    <3>1. segs \in Seq(Segment)
      BY <1>2 DEF PipelineTypes
    <3>2. segs' = segs \/ (segs # <<>> /\ segs' = Tail(segs))
      BY <1>2, <1>5 DEF Next, Generator, Main, Interrupt, IsrLoad, IsrDone, IsrEmpty, BufferLine,
                  BufferNothing, ChangeOverride, Hold, Start, CycleStop, vars
    <3>3. CASE segs' = segs
      BY <3>1, <3>3
    <3>4. CASE segs # <<>> /\ segs' = Tail(segs)
      BY <3>1, <3>4
    <3> QED
      BY <3>2, <3>3, <3>4
  <2>4. prep'.speed - prep.speed = 0
    BY <1>2, <2>2
  <2> QED
    BY <2>3, <2>4
<1> QED
  BY <1>3, <1>4, <1>5

\* The machine's speed changes by no more than the steps made allow, from block
\* to block and whatever is planned again, held or resumed, as long as the main
\* program calls st_prep_buffer before the segments run out.
THEOREM ContinuousSafety == Spec => MotionContinuous
<1> DEFINE Steady ==
      LET change == prep'.speed - prep.speed
          steps == IF Len(segs') > Len(segs) THEN segs'[Len(segs')].steps ELSE 0
      IN  Flush \/ starved \/ reduced \/ (change <= steps /\ -change <= steps)
<1>1. DriveInv /\ [Next]_vars => [Steady]_vars
  BY SpeedStep
<1> QED
  BY <1>1, DriveInit, DriveStep, PTL DEF Spec, MotionContinuous
=============================================================================
