------------------------------ MODULE Induction ------------------------------
(***************************************************************************)
(* Induction over the naturals, for the proofs of this project, from the   *)
(* fact that they are well-founded.  A predicate is a set here, and what a *)
(* recursion applies is a function: neither is an operator.  And what      *)
(* follows for nodes that steps lead to.                                   *)
(***************************************************************************)
EXTENDS Naturals, Reach, WellFoundedInduction, TLAPS

Below == OpToRel(<, Nat)

LEMMA BelowIs == \A m, n \in Nat : <<m, n>> \in Below <=> m < n
BY DEF Below, OpToRel

\* Of some numbers one is the least.
THEOREM LeastNat ==
    ASSUME NEW T \in SUBSET Nat, T # {}
    PROVE  \E n \in T : \A m \in T : n <= m
<1>1. IsWellFoundedOn(Below, Nat)
  BY NatLessThanWellFounded DEF Below
<1>2. PICK n \in T : \A m \in T : ~(<<m, n>> \in Below)
  BY <1>1, WFMin
<1>3. \A m \in T : m \in Nat /\ n \in Nat /\ ~(m < n)
  BY <1>2, BelowIs
<1>4. \A m \in T : n <= m
  BY <1>3
<1> QED
  BY <1>4

\* A set that has 0, and with a number the next one, has all of them.
THEOREM NatInd ==
    ASSUME NEW S, 0 \in S, \A n \in Nat : n \in S => n + 1 \in S
    PROVE  Nat \subseteq S
<1> DEFINE T == Nat \ S
<1> SUFFICES ASSUME T # {} PROVE FALSE
  OBVIOUS
<1>1. PICK n \in T : \A m \in T : n <= m
  <2> HIDE DEF T
  <2>1. T \in SUBSET Nat
    BY DEF T
  <2> QED
    BY <2>1, LeastNat
<1>2. n # 0 /\ n - 1 \in Nat
  OBVIOUS
<1>3. n - 1 \in S
  BY <1>1, <1>2
<1> QED
  BY <1>2, <1>3

\* The sequence that begins with s and goes on from its nth by G[n].
Unrolls(f, S, s, G) == f \in [Nat -> S] /\ f[0] = s /\ \A n \in Nat : f[n + 1] = G[n][f[n]]

\* There is one.
THEOREM Recursion ==
    ASSUME NEW S, NEW s \in S, NEW G \in [Nat -> [S -> S]]
    PROVE  \E f : Unrolls(f, S, s, G)
<1> DEFINE
      Is(f, n) == f \in [0..n -> S] /\ f[0] = s /\ \A k \in 1..n : f[k] = G[k - 1][f[k - 1]]
      N == {n \in Nat : \E f : Is(f, n)}
<1>1. 0 \in N
  <2> DEFINE f == [k \in 0..0 |-> s]
  <2>1. Is(f, 0)
    OBVIOUS
  <2> QED
    BY <2>1
<1>2. ASSUME NEW n \in Nat, n \in N PROVE n + 1 \in N
  <2>1. PICK f : Is(f, n)
    BY <1>2
  <2> DEFINE g == [k \in 0..n + 1 |-> IF k <= n THEN f[k] ELSE G[n][f[n]]]
  <2>2. Is(g, n + 1)
    <3>1. f[n] \in S /\ G[n][f[n]] \in S
      BY <2>1
    <3>2. g \in [0..n + 1 -> S]
      BY <2>1, <3>1
    <3>3. ASSUME NEW k \in 1..n + 1 PROVE g[k] = G[k - 1][g[k - 1]]
      <4>1. CASE k <= n
        <5>1. k \in 1..n /\ k - 1 \in 0..n + 1 /\ k - 1 <= n /\ k \in 0..n + 1
          BY <4>1
        <5>2. g[k] = f[k] /\ g[k - 1] = f[k - 1]
          BY <5>1
        <5> QED
          BY <2>1, <5>1, <5>2
      <4>2. CASE k = n + 1
        <5>1. g[k] = G[n][f[n]] /\ g[n] = f[n] /\ k - 1 = n
          BY <4>2
        <5> QED
          BY <5>1
      <4> QED
        BY <4>1, <4>2
    <3>4. g[0] = s
      BY <2>1
    <3> HIDE DEF g
    <3> QED
      BY <3>2, <3>3, <3>4
  <2> HIDE DEF g
  <2> QED
    BY <2>2
<1>3. Nat \subseteq N
  <2> HIDE DEF N
  <2> QED
    BY <1>1, <1>2, NatInd
<1>4. \A n \in Nat : \E f : Is(f, n)
  BY <1>3
<1>5. ASSUME NEW n \in Nat, NEW f, NEW m \in Nat, NEW g, n <= m, Is(f, n), Is(g, m)
      PROVE  \A k \in 0..n : f[k] = g[k]
  <2> DEFINE U == {k \in Nat : k <= n => f[k] = g[k]}
  <2>1. 0 \in U
    BY <1>5
  <2>2. ASSUME NEW k \in Nat, k \in U PROVE k + 1 \in U
    <3>1. SUFFICES ASSUME k + 1 <= n PROVE f[k + 1] = g[k + 1]
      OBVIOUS
    <3>2. k + 1 \in 1..n /\ k + 1 \in 1..m /\ (k + 1) - 1 = k
      BY <1>5, <3>1
    <3>3. f[k + 1] = G[k][f[k]] /\ g[k + 1] = G[k][g[k]]
      BY <1>5, <3>2
    <3> QED
      BY <2>2, <3>1, <3>3
  <2>3. Nat \subseteq U
    <3> HIDE DEF U
    <3> QED
      BY <2>1, <2>2, NatInd
  <2> QED
    BY <2>3
<1> DEFINE Part(n) == CHOOSE f : Is(f, n)
           g == [n \in Nat |-> Part(n)[n]]
<1>6. \A n \in Nat : Is(Part(n), n)
  <2> HIDE DEF Is
  <2> QED
    BY <1>4
<1>7. g[0] = s /\ g \in [Nat -> S]
  <2> HIDE DEF Part
  <2>1. \A n \in Nat : Part(n)[n] \in S
    <3> TAKE n \in Nat
    <3>1. Is(Part(n), n) /\ n \in 0..n
      BY <1>6
    <3> QED
      BY <3>1
  <2>2. Part(0)[0] = s
    BY <1>6
  <2> QED
    BY <2>1, <2>2
<1>8. ASSUME NEW n \in Nat PROVE g[n + 1] = G[n][g[n]]
  <2> HIDE DEF Part
  <2>1. n + 1 \in Nat /\ n <= n + 1 /\ n \in 0..n
    OBVIOUS
  <2>2. Is(Part(n + 1), n + 1) /\ Is(Part(n), n)
    <3> HIDE DEF Is
    <3> QED
      BY <2>1, <1>6
  <2>3. Part(n)[n] = Part(n + 1)[n]
    <3> HIDE DEF Is
    <3>1. \A k \in 0..n : Part(n)[k] = Part(n + 1)[k]
      BY <2>1, <2>2, <1>5
    <3> QED
      BY <2>1, <3>1
  <2>4. Part(n + 1)[n + 1] = G[n][Part(n + 1)[n]]
    BY <2>2
  <2> QED
    BY <2>3, <2>4
<1> HIDE DEF g
<1> QED
  BY <1>7, <1>8 DEF Unrolls

-----------------------------------------------------------------------------
(* What a number of steps reaches *)

Unrolled(w, steps, D, root) ==
    /\ w[0] = {root}
    /\ \A n \in Nat : w[n] \in SUBSET D
    /\ \A n \in Nat : w[n + 1] = w[n] \cup UNION {steps[x] : x \in w[n]}

\* The recursion that defines it is one.
LEMMA WithinIs ==
    ASSUME NEW D, NEW steps \in [D -> SUBSET D], NEW root \in D
    PROVE  Unrolled(Within(steps, root), steps, D, root)
<1> DEFINE
      S == SUBSET D
      s == {root}
      Step(x) == x \cup UNION {steps[y] : y \in x}
      G == [n \in Nat |-> [x \in S |-> Step(x)]]
      Eq(f) == f = [n \in Nat |-> IF n = 0 THEN s ELSE Step(f[n - 1])]
      w == CHOOSE f : Eq(f)
<1>1. Within(steps, root) = w
  BY DEF Within
<1>2. ASSUME NEW x \in S PROVE Step(x) \in S
  OBVIOUS
<1>3. PICK f : Unrolls(f, S, s, G)
  <2> HIDE DEF S, Step
  <2>1. G \in [Nat -> [S -> S]]
    BY <1>2
  <2>2. s \in S
    BY DEF S
  <2> HIDE DEF G, s
  <2> QED
    BY <2>1, <2>2, Recursion
<1>4. Eq(f)
  <2> HIDE DEF S, Step
  <2>1. ASSUME NEW n \in Nat, n # 0 PROVE f[n] = Step(f[n - 1])
    <3>1. n - 1 \in Nat /\ (n - 1) + 1 = n /\ f[n - 1] \in S
      BY <1>3, <2>1 DEF Unrolls
    <3>2. f[n] = G[n - 1][f[n - 1]]
      BY <1>3, <3>1 DEF Unrolls
    <3> QED
      BY <3>1, <3>2 DEF G
  <2>2. \A n \in Nat : f[n] = IF n = 0 THEN s ELSE Step(f[n - 1])
    BY <1>3, <2>1 DEF Unrolls
  <2> QED
    BY <1>3, <2>2 DEF Unrolls
<1>5. Eq(w)
  <2> HIDE DEF Eq
  <2> QED
    BY <1>4
<1>6. w[0] = s /\ \A n \in Nat : w[n + 1] = Step(w[n])
  <2> HIDE DEF w, s, Step
  <2>1. \A n \in Nat : n + 1 \in Nat /\ n + 1 # 0 /\ (n + 1) - 1 = n
    OBVIOUS
  <2> QED
    BY <1>5, <2>1
<1> HIDE DEF w
<1>7. \A n \in Nat : w[n] \in S
  <2> DEFINE N == {n \in Nat : w[n] \in S}
  <2>1. 0 \in N
    BY <1>6
  <2>2. \A n \in Nat : n \in N => n + 1 \in N
    BY <1>2, <1>6
  <2> HIDE DEF N
  <2>3. Nat \subseteq N
    BY <2>1, <2>2, NatInd
  <2> QED
    BY <2>3 DEF N
<1> QED
  BY <1>1, <1>6, <1>7 DEF Unrolled

\* A set that holds the root and is not left by a step.
Encloses(s, steps, root) == root \in s /\ \A y \in s : steps[y] \subseteq s

LEMMA WithinStays ==
    ASSUME NEW D, NEW steps \in [D -> SUBSET D], NEW root \in D, NEW s, Encloses(s, steps, root), NEW n \in Nat
    PROVE  Within(steps, root)[n] \subseteq s
<1> DEFINE w == Within(steps, root)
           N == {k \in Nat : w[k] \subseteq s}
<1>1. Unrolled(w, steps, D, root)
  BY WithinIs
<1> HIDE DEF w
<1>2. 0 \in N
  BY <1>1 DEF Unrolled, Encloses
<1>3. \A k \in Nat : k \in N => k + 1 \in N
  BY <1>1 DEF Unrolled, Encloses
<1> HIDE DEF N
<1>4. n \in N
  BY <1>2, <1>3, NatInd
<1> QED
  BY <1>4 DEF w, N

\* More steps reach no less.
LEMMA WithinGrows ==
    ASSUME NEW D, NEW steps \in [D -> SUBSET D], NEW root \in D, NEW m \in Nat, NEW n \in Nat, m <= n
    PROVE  Within(steps, root)[m] \subseteq Within(steps, root)[n]
<1> DEFINE w == Within(steps, root)
           N == {k \in Nat : m <= k => w[m] \subseteq w[k]}
<1>1. Unrolled(w, steps, D, root)
  BY WithinIs
<1> HIDE DEF w
<1>2. 0 \in N
  OBVIOUS
<1>3. ASSUME NEW k \in Nat, k \in N PROVE k + 1 \in N
  <2>1. m <= k + 1 => m <= k \/ m = k + 1
    OBVIOUS
  <2>2. w[k] \subseteq w[k + 1]
    BY <1>1 DEF Unrolled
  <2> QED
    BY <1>3, <2>1, <2>2
<1> HIDE DEF N
<1>4. n \in N
  BY <1>2, <1>3, NatInd
<1> QED
  BY <1>4 DEF w, N

\* What is reached is closed, and in every set that is.
LEMMA ReachedIs ==
    ASSUME NEW D, NEW steps \in [D -> SUBSET D], NEW root \in D
    PROVE  /\ Encloses(Reached(steps, root), steps, root)
           /\ Reached(steps, root) \subseteq D
           /\ \A s \in SUBSET D : Encloses(s, steps, root) => Reached(steps, root) \subseteq s
<1>1. DOMAIN steps = D
  OBVIOUS
<1>2. Reached(steps, root) = {x \in D : \A s \in SUBSET D : Encloses(s, steps, root) => x \in s}
  BY <1>1 DEF Reached, Encloses
<1>3. ASSUME NEW y \in D, NEW x \in steps[y], \A s \in SUBSET D : Encloses(s, steps, root) => y \in s
      PROVE  x \in D /\ \A s \in SUBSET D : Encloses(s, steps, root) => x \in s
  BY <1>3 DEF Encloses
<1> QED
  BY <1>2, <1>3 DEF Encloses

\* From there on one comes nowhere else.
LEMMA ReachedOn ==
    ASSUME NEW D, NEW steps \in [D -> SUBSET D], NEW x \in D, NEW y \in Reached(steps, x)
    PROVE  y \in D /\ x \in Reached(steps, x) /\ steps[y] \subseteq Reached(steps, x)
           /\ Reached(steps, y) \subseteq Reached(steps, x)
<1> DEFINE s == Reached(steps, x)
<1>1. Encloses(s, steps, x) /\ s \in SUBSET D
  BY ReachedIs
<1>2. y \in D /\ Encloses(s, steps, y)
  BY <1>1 DEF Encloses
<1>3. Reached(steps, y) \subseteq s
  <2> HIDE DEF s
  <2> QED
    BY <1>1, <1>2, ReachedIs
<1> QED
  BY <1>1, <1>2, <1>3 DEF Encloses

\* What is reached is reached from a first step.
LEMMA ReachedFirst ==
    ASSUME NEW D, NEW steps \in [D -> SUBSET D], NEW x \in D, NEW y \in Reached(steps, x), y # x
    PROVE  \E z \in steps[x] : z \in D /\ y \in Reached(steps, z)
<1> DEFINE s == {x} \cup UNION {Reached(steps, z) : z \in steps[x]}
<1>1. \A z \in steps[x] : z \in D /\ Encloses(Reached(steps, z), steps, z) /\ Reached(steps, z) \subseteq D
  BY ReachedIs
<1>2. s \in SUBSET D /\ Encloses(s, steps, x)
  BY <1>1 DEF Encloses
<1>3. Reached(steps, x) \subseteq s
  <2> HIDE DEF s
  <2> QED
    BY <1>2, ReachedIs
<1> QED
  BY <1>1, <1>3
=============================================================================
