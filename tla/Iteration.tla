----------------------------- MODULE Iteration ------------------------------
(***************************************************************************)
(* A step repeated.  The models loop with a function of a number that        *)
(* refers to itself at the number before; these lemmas, by the least         *)
(* counterexample, say that there is one, and that it stays where the        *)
(* step stays.                                                              *)
(***************************************************************************)
EXTENDS Integers, WellFoundedInduction, TLAPS

\* A set of naturals has a least element.
LEMMA Smallest ==
  ASSUME NEW T \in SUBSET Nat, T # {}
  PROVE  \E x \in T : \A y \in T : x <= y
  <1>1. PICK x \in T : \A y \in T : ~ (<<y, x>> \in OpToRel(<, Nat))
    BY NatLessThanWellFounded, WFMin
  <1>2. \A y \in T : ~ (y < x)
    BY <1>1 DEF OpToRel
  <1>3. QED
    BY <1>2

\* The first n steps of g from x; any two of them agree, and there are some.
Iterate(f, g, x, n) == f[0] = x /\ \A k \in Nat : k < n => f[k + 1] = g[f[k]]

LEMMA IteratesAgree ==
  ASSUME NEW S, NEW g \in [S -> S], NEW x \in S, NEW a \in Nat, NEW b \in Nat, NEW n \in Nat, n <= a, n <= b,
         NEW f, NEW h, Iterate(f, g, x, a), Iterate(h, g, x, b)
  PROVE  f[n] = h[n]
  <1> DEFINE T == {k \in Nat : k <= a /\ k <= b /\ f[k] # h[k]}
  <1> SUFFICES T = {}
    OBVIOUS
  <1>1. SUFFICES ASSUME T # {} PROVE FALSE
    OBVIOUS
  <1>2. PICK k \in T : \A j \in T : k <= j
    BY <1>1, Smallest
  <1>3. CASE k = 0
    BY <1>2, <1>3 DEF Iterate
  <1>4. CASE k # 0
    <2>1. PICK j \in Nat : k = j + 1
      BY <1>2, <1>4
    <2>2. f[j] = h[j]
      BY <1>2, <2>1
    <2>3. f[j + 1] = g[f[j]] /\ h[j + 1] = g[h[j]]
      BY <1>2, <2>1 DEF Iterate
    <2>4. QED
      BY <1>2, <2>1, <2>2, <2>3
  <1>5. QED
    BY <1>3, <1>4

LEMMA Iterated ==
  ASSUME NEW S, NEW g \in [S -> S], NEW x \in S, NEW n \in Nat
  PROVE  \E f \in [0..n -> S] : Iterate(f, g, x, n)
  <1> DEFINE T == {k \in Nat : ~ \E f \in [0..k -> S] : Iterate(f, g, x, k)}
  <1> SUFFICES T = {}
    OBVIOUS
  <1>1. SUFFICES ASSUME T # {} PROVE FALSE
    OBVIOUS
  <1>2. PICK k \in T : \A j \in T : k <= j
    BY <1>1, Smallest
  <1>3. CASE k = 0
    <2>1. PICK f \in [0..0 -> S] : f = [i \in 0..0 |-> x]
      OBVIOUS
    <2>2. Iterate(f, g, x, 0)
      BY <2>1 DEF Iterate
    <2>3. QED
      BY <1>2, <1>3, <2>2
  <1>4. CASE k # 0
    <2>1. PICK j \in Nat : k = j + 1
      BY <1>2, <1>4
    <2>2. j \notin T
      BY <1>2, <2>1
    <2>3. PICK f \in [0..j -> S] : Iterate(f, g, x, j)
      BY <2>2
    <2>4. PICK last \in S : last = g[f[j]]
      BY <2>1
    <2>5. PICK h \in [0..k -> S] : h = [i \in 0..k |-> IF i = k THEN last ELSE f[i]]
      <3>1. \A i \in 0..k : i # k => i \in 0..j
        BY <2>1
      <3>2. [i \in 0..k |-> IF i = k THEN last ELSE f[i]] \in [0..k -> S]
        BY <3>1
      <3>3. QED
        BY <3>2
    <2>6. Iterate(h, g, x, k)
      <3>1. h[0] = x
        BY <2>1, <2>3, <2>5 DEF Iterate
      <3>2. ASSUME NEW i \in Nat, i < k PROVE h[i + 1] = g[h[i]]
        <4>1. h[i] = f[i]
          BY <2>1, <2>5, <3>2
        <4>2. CASE i = j
          BY <2>1, <2>4, <2>5, <4>1, <4>2
        <4>3. CASE i # j
          <5>1. i < j /\ h[i + 1] = f[i + 1]
            BY <2>1, <2>5, <3>2, <4>3
          <5>2. QED
            BY <2>3, <4>1, <5>1 DEF Iterate
        <4>4. QED
          BY <4>2, <4>3
      <3>3. QED
        BY <3>1, <3>2 DEF Iterate
    <2>7. QED
      BY <1>2, <2>6
  <1>5. QED
    BY <1>3, <1>4

\* All the steps of g from x.
Runs(f, g, x) == f[0] = x /\ \A k \in Nat : f[k + 1] = g[f[k]]

LEMMA Iterates ==
  ASSUME NEW S, NEW g \in [S -> S], NEW x \in S
  PROVE  \E f \in [Nat -> S] : Runs(f, g, x)
  <1> DEFINE part == [n \in Nat |-> CHOOSE f \in [0..n -> S] : Iterate(f, g, x, n)]
  <1>1. \A n \in Nat : part[n] \in [0..n -> S] /\ Iterate(part[n], g, x, n)
    BY Iterated
  <1> HIDE DEF part
  <1>2. PICK f : f = [n \in Nat |-> part[n][n]]
    OBVIOUS
  <1>3. \A n \in Nat : f[n] \in S /\ f[n] = part[n][n]
    BY <1>1, <1>2
  <1>4. f \in [Nat -> S]
    BY <1>2, <1>3
  <1>5. f[0] = x
    BY <1>1, <1>3 DEF Iterate
  <1>6. ASSUME NEW k \in Nat PROVE f[k + 1] = g[f[k]]
    <2>1. PICK n \in Nat : n = k + 1
      OBVIOUS
    <2>2. part[n][k] = part[k][k]
      BY <1>1, <2>1, IteratesAgree
    <2>3. part[n][k + 1] = g[part[n][k]]
      BY <1>1, <2>1 DEF Iterate
    <2>4. QED
      BY <1>3, <2>1, <2>2, <2>3
  <1>7. QED
    BY <1>4, <1>5, <1>6 DEF Runs

\* What holds at first, and of each number after one it holds of, holds of all.
LEMMA Stays ==
  ASSUME NEW S, NEW h, h[0] \in S, \A k \in Nat : h[k] \in S => h[k + 1] \in S
  PROVE  \A k \in Nat : h[k] \in S
  <1> DEFINE T == {k \in Nat : h[k] \notin S}
  <1>1. SUFFICES ASSUME T # {} PROVE FALSE
    OBVIOUS
  <1>2. PICK k \in T : \A j \in T : k <= j
    BY <1>1, Smallest
  <1>3. PICK j \in Nat : k = j + 1
    BY <1>2
  <1>4. h[j] \in S
    BY <1>2, <1>3
  <1>5. QED
    BY <1>2, <1>3, <1>4

\* As a loop is written in the models.
Loops(h, g, x) == h = [k \in Nat |-> IF k = 0 THEN x ELSE g[h[k - 1]]]

LEMMA LoopExists ==
  ASSUME NEW S, NEW g \in [S -> S], NEW x \in S
  PROVE  \E h \in [Nat -> S] : Loops(h, g, x)
  <1>1. PICK f \in [Nat -> S] : Runs(f, g, x)
    BY Iterates
  <1>2. f[0] = x /\ \A k \in Nat : f[k + 1] = g[f[k]]
    BY <1>1 DEF Runs
  <1>3. ASSUME NEW k \in Nat PROVE f[k] = IF k = 0 THEN x ELSE g[f[k - 1]]
    <2>1. CASE k = 0
      BY <1>2, <2>1
    <2>2. CASE k # 0
      <3>1. PICK j \in Nat : k = j + 1 /\ k - 1 = j
        BY <2>2
      <3>2. QED
        BY <1>2, <2>2, <3>1
    <2>3. QED
      BY <2>1, <2>2
  <1>4. f = [k \in Nat |-> IF k = 0 THEN x ELSE g[f[k - 1]]]
    BY <1>1, <1>3
  <1>5. QED
    BY <1>1, <1>4 DEF Loops

\* As a loop over the numbers up to n is written in the models: g takes the
\* number and what the number before left.
Climbs(h, g, x, n) == h = [k \in 0..n |-> IF k = 0 THEN x ELSE g[<<k, h[k - 1]>>]]

LEMMA CountExists ==
  ASSUME NEW S, NEW n \in Nat, NEW g \in [(1..n) \X S -> S], NEW x \in S
  PROVE  \E h \in [0..n -> S] : Climbs(h, g, x, n)
  <1> DEFINE Ok(h, m) == h \in [0..m -> S] /\ h[0] = x /\ \A k \in 1..m : h[k] = g[<<k, h[k - 1]>>]
  <1> DEFINE T == {m \in Nat : m <= n /\ ~ \E h : Ok(h, m)}
  <1>1. T = {}
    <2>1. SUFFICES ASSUME T # {} PROVE FALSE
      OBVIOUS
    <2>2. PICK m \in T : \A j \in T : m <= j
      BY <2>1, Smallest
    <2>3. CASE m = 0
      <3>1. PICK h : h = [k \in 0..0 |-> x]
        OBVIOUS
      <3>2. h \in [0..0 -> S] /\ h[0] = x
        BY <3>1
      <3>3. Ok(h, 0)
        BY <3>2
      <3>4. QED
        BY <2>2, <2>3, <3>3
    <2>4. CASE m # 0
      <3>1. PICK j \in Nat : m = j + 1
        BY <2>2, <2>4
      <3>2. j \notin T /\ j <= n /\ m \in 1..n
        BY <2>2, <3>1
      <3>3. PICK f : Ok(f, j)
        BY <3>2
      <3>4. PICK last \in S : last = g[<<m, f[j]>>]
        BY <3>1, <3>2, <3>3
      <3>5. PICK h \in [0..m -> S] : h = [k \in 0..m |-> IF k = m THEN last ELSE f[k]]
        <4>1. \A k \in 0..m : k # m => k \in 0..j
          BY <3>1
        <4>2. [k \in 0..m |-> IF k = m THEN last ELSE f[k]] \in [0..m -> S]
          BY <3>3, <4>1
        <4>3. QED
          BY <4>2
      <3>6. \A k \in 0..j : h[k] = f[k]
        BY <3>1, <3>5
      <3>7. h[0] = x
        BY <3>1, <3>3, <3>6
      <3>8. ASSUME NEW k \in 1..m PROVE h[k] = g[<<k, h[k - 1]>>]
        <4>1. CASE k = m
          <5>1. k - 1 = j /\ j \in 0..j /\ h[k] = last
            BY <3>1, <3>5, <4>1
          <5>2. QED
            BY <3>4, <3>6, <4>1, <5>1
        <4>2. CASE k # m
          <5>1. k \in 1..j /\ k \in 0..j /\ k - 1 \in 0..j
            BY <3>1, <4>2
          <5>2. QED
            BY <3>3, <3>6, <5>1
        <4>3. QED
          BY <4>1, <4>2
      <3>9. Ok(h, m)
        BY <3>5, <3>7, <3>8
      <3>10. QED
        BY <2>2, <3>9
    <2>5. QED
      BY <2>3, <2>4
  <1>2. PICK h : Ok(h, n)
    <2>1. n \notin T
      BY <1>1
    <2>2. QED
      BY <2>1
  <1>3. ASSUME NEW k \in 0..n PROVE h[k] = IF k = 0 THEN x ELSE g[<<k, h[k - 1]>>]
    <2>1. k # 0 => k \in 1..n
      OBVIOUS
    <2>2. QED
      BY <1>2, <2>1
  <1>4. h = [k \in 0..n |-> IF k = 0 THEN x ELSE g[<<k, h[k - 1]>>]]
    BY <1>2, <1>3
  <1>5. Climbs(h, g, x, n)
    BY <1>4 DEF Climbs
  <1>6. QED
    BY <1>2, <1>5

\* What holds at first, and of each number up to n after one it holds of, holds
\* of all up to n.
LEMMA StaysCounting ==
  ASSUME NEW n \in Nat, NEW P, 0 \in P, \A k \in 1..n : k - 1 \in P => k \in P
  PROVE  \A k \in 0..n : k \in P
  <1> DEFINE T == {k \in 0..n : k \notin P}
  <1>1. SUFFICES ASSUME T # {} PROVE FALSE
    OBVIOUS
  <1>2. PICK k \in T : \A j \in T : k <= j
    <2>1. T \in SUBSET Nat
      OBVIOUS
    <2>2. QED
      BY <1>1, <2>1, Smallest
  <1>3. k \in 1..n /\ k - 1 \in 0..n /\ ~ (k <= k - 1)
    BY <1>2
  <1>4. k - 1 \in P
    BY <1>2, <1>3
  <1>5. k \in P
    BY <1>3, <1>4
  <1>6. QED
    BY <1>2, <1>5
=============================================================================
