---------------------------- MODULE AnchorsProofs -----------------------------
(***************************************************************************)
(* Anchors implements MarkerFeed: the holder of a marker index, pulled once  *)
(* and kept up by what is announced, is never wrong about a line.            *)
(*                                                                          *)
(* The markers' part of the invariant (Registered) says that ids are issued  *)
(* once, that a list is within the cap and that every marker is on a line of *)
(* its buffer; the screen's (Screened) gives the verbs the shape they work   *)
(* on.  Every verb but the births is built of parts that the holder can      *)
(* follow (Feeds): it disposes of some markers and announces each, and       *)
(* either the epoch moves or the survivors of the active list are up by the  *)
(* lines evicted.  Such parts compose, so a call is one of them (Goes), and  *)
(* that is a step of the abstract feed: Retire, Disturb or nothing; a call   *)
(* that pushes a marker (Bears) is Birth.                                    *)
(***************************************************************************)
EXTENDS Anchors, Iteration, FiniteSetTheorems, SequenceTheorems

\* A function on 1 to n is a sequence of length n.
LEMMA MapIsSeq ==
  ASSUME NEW S, NEW n \in Nat, NEW z \in [1..n -> S]
  PROVE  z \in Seq(S) /\ Len(z) = n
  OBVIOUS

(* ---- lists of ids, and their deaths told ---------------------------------- *)
\* The sequence s lists the ids of D, each once.
ListOf(s, D) ==
  /\ s \in Seq(Nat)
  /\ \A i, j \in DOMAIN s : s[i] = s[j] => i = j
  /\ D = {s[i] : i \in DOMAIN s}
\* The deaths of the ids of a list, in its order.
Roll(s) == [i \in DOMAIN s |-> Disposed(s[i])]
\* What a call may announce.
Event == [kind : {"disposed"}, id : Nat]
           \cup [kind : {"created"}, id : Nat, line : Nat, evicted : Nat, epoch : Nat]

\* The deaths of a list are events, one for each of its ids.
LEMMA RollIsEvents ==
  ASSUME NEW D, NEW s, ListOf(s, D)
  PROVE  Roll(s) \in Seq(Event) /\ Len(Roll(s)) = Len(s) /\ \A i \in 1..Len(s) : Roll(s)[i] = Disposed(s[i])
  <1>1. s \in Seq(Nat) /\ Len(s) \in Nat /\ DOMAIN s = 1..Len(s) /\ \A i \in 1..Len(s) : s[i] \in Nat
    BY DEF ListOf
  <1>2. \A i \in 1..Len(s) : Disposed(s[i]) \in Event
    BY <1>1 DEF Disposed, Event
  <1>3. QED
    BY <1>1, <1>2 DEF Roll

\* The abstract module counts as this one does.
LEMMA SameCount ==
  ASSUME NEW D
  PROVE  Feed!Cardinality(D) = Cardinality(D)
  BY DEF Feed!Cardinality, Cardinality

\* The deaths of a list of D are one of the orders the feed allows for D.
LEMMA RollIsDeaths ==
  ASSUME NEW D, NEW s, ListOf(s, D)
  PROVE  Roll(s) \in Feed!Deaths(D)
  <1>1. PICK n \in Nat : n = Len(s) /\ s \in [1..n -> Nat] /\ DOMAIN s = 1..n
    BY LenProperties DEF ListOf
  <1>2. s \in [1..n -> D]
    BY <1>1 DEF ListOf
  <1>3. Cardinality(D) = n
    <2>1. IsFiniteSet(1..n) /\ Cardinality(1..n) = n
      <3>1. n \in Int /\ 1 \in Int /\ ~ (1 > n /\ n # 0) /\ n - 1 + 1 = n
        OBVIOUS
      <3>2. QED
        BY <3>1, FS_Interval
    <2>2. s \in Injection(1..n, D)
      BY <1>1, <1>2 DEF ListOf, Injection, IsInjective
    <2>3. s \in Surjection(1..n, D)
      BY <1>1, <1>2 DEF ListOf, Surjection
    <2>4. ExistsBijection(1..n, D)
      BY <2>2, <2>3 DEF ExistsBijection, Bijection
    <2>5. QED
      BY <2>1, <2>4, FS_Bijection
  <1>4. s \in Feed!SetToSeqs(D)
    <2>1. Feed!Cardinality(D) = n
      BY <1>3, SameCount
    <2>2. \A i, j \in 1..n : i # j => s[i] # s[j]
      BY <1>1 DEF ListOf
    <2>3. QED
      BY <1>2, <2>1, <2>2 DEF Feed!SetToSeqs
  <1>5. QED
    BY <1>4 DEF Roll, Feed!Deaths, Feed!Disposed, Disposed

\* Nothing dies of the empty list.
LEMMA NoneListed ==
  ListOf(<<>>, {}) /\ Roll(<<>>) = <<>>
  BY DEF ListOf, Roll

\* F is the disjoint union of A and B.
Parted(A, B, F) == A \cap B = {} /\ F = A \cup B
\* c is a with b after it.
Joined(a, b, c) == c = a \o b
\* Two lists with no id in common make a list, and their deaths follow one
\* another.
LEMMA ListsJoin ==
  ASSUME NEW A, NEW B, NEW F, NEW a, NEW b, NEW c, ListOf(a, A), ListOf(b, B), Parted(A, B, F), Joined(a, b, c)
  PROVE  ListOf(c, F) /\ Roll(c) = Roll(a) \o Roll(b)
  <1>p. F = A \cup B /\ A \cap B = {}
    BY DEF Parted
  <1>1. a \in Seq(Nat) /\ b \in Seq(Nat) /\ Len(a) \in Nat /\ Len(b) \in Nat /\ DOMAIN a = 1..Len(a) /\ DOMAIN b = 1..Len(b)
    BY DEF ListOf
  <1>0. c = a \o b
    BY DEF Joined
  <1>2. c \in Seq(Nat) /\ c = a \o b /\ Len(c) = Len(a) + Len(b) /\ DOMAIN c = 1..(Len(a) + Len(b))
    BY <1>0, <1>1
  <1>a. PICK p \in Nat : p = Len(a)
    BY <1>1
  <1>b. PICK q \in Nat : q = Len(b)
    BY <1>1
  <1>3. /\ \A i \in 1..p : i \in DOMAIN c /\ c[i] = a[i]
        /\ \A i \in 1..q : i + p \in DOMAIN c /\ c[i + p] = b[i]
    BY <1>1, <1>2, <1>a, <1>b
  <1>4. \A i \in DOMAIN c : i \notin 1..p => i - p \in 1..q /\ c[i] = b[i - p]
    BY <1>1, <1>2, <1>a, <1>b
  <1>c. \A i \in 1..p : a[i] \in A
    BY <1>1, <1>a DEF ListOf
  <1>d. \A i \in 1..q : b[i] \in B
    BY <1>1, <1>b DEF ListOf
  <1>5. A \cup B = {c[i] : i \in DOMAIN c}
    <2>1. ASSUME NEW x \in A PROVE \E i \in DOMAIN c : x = c[i]
      <3>1. PICK i \in 1..p : x = a[i]
        BY <1>1, <1>a DEF ListOf
      <3>2. QED
        BY <1>3, <3>1
    <2>2. ASSUME NEW x \in B PROVE \E i \in DOMAIN c : x = c[i]
      <3>1. PICK i \in 1..q : x = b[i]
        BY <1>1, <1>b DEF ListOf
      <3>2. QED
        BY <1>3, <3>1
    <2>3. \A i \in DOMAIN c : c[i] \in A \cup B
      BY <1>3, <1>4, <1>c, <1>d
    <2>4. QED
      BY <2>1, <2>2, <2>3
  <1>6. ASSUME NEW i \in DOMAIN c, NEW j \in DOMAIN c, c[i] = c[j] PROVE i = j
    <2>1. CASE i \in 1..p /\ j \in 1..p
      <3>1. a[i] = a[j] /\ i \in DOMAIN a /\ j \in DOMAIN a
        BY <1>1, <1>3, <1>6, <1>a, <2>1
      <3>2. QED
        BY <3>1 DEF ListOf
    <2>2. CASE i \notin 1..p /\ j \notin 1..p
      <3>1. b[i - p] = b[j - p] /\ i - p \in DOMAIN b /\ j - p \in DOMAIN b
        BY <1>1, <1>4, <1>6, <1>b, <2>2
      <3>2. i - p = j - p
        BY <3>1 DEF ListOf
      <3>3. QED
        BY <1>1, <1>2, <1>a, <1>b, <3>2
    <2>3. CASE i \in 1..p /\ j \notin 1..p
      <3>1. c[i] \in A /\ c[j] \in B
        BY <1>3, <1>4, <1>c, <1>d, <2>3
      <3>2. QED
        BY <1>6, <1>p, <3>1
    <2>4. CASE i \notin 1..p /\ j \in 1..p
      <3>1. c[j] \in A /\ c[i] \in B
        BY <1>3, <1>4, <1>c, <1>d, <2>4
      <3>2. QED
        BY <1>6, <1>p, <3>1
    <2>5. QED
      BY <2>1, <2>2, <2>3, <2>4
  <1>7. ListOf(c, A \cup B)
    BY <1>2, <1>5, <1>6 DEF ListOf
  <1>8. Roll(c) = Roll(a) \o Roll(b)
    <2>1. PICK ra \in Seq(Event) : ra = Roll(a) /\ Len(ra) = Len(a) /\ \A i \in 1..Len(a) : ra[i] = Disposed(a[i])
      BY RollIsEvents
    <2>2. PICK rb \in Seq(Event) : rb = Roll(b) /\ Len(rb) = Len(b) /\ \A i \in 1..Len(b) : rb[i] = Disposed(b[i])
      BY RollIsEvents
    <2>3. PICK rc \in Seq(Event) : rc = Roll(c) /\ Len(rc) = Len(c) /\ \A i \in 1..Len(c) : rc[i] = Disposed(c[i])
      BY <1>7, RollIsEvents
    <2>0. PICK rs : rs = ra \o rb
      OBVIOUS
    <2>4. rs \in Seq(Event) /\ rs = ra \o rb /\ Len(rs) = Len(a) + Len(b) /\ \A i \in 1..(Len(a) + Len(b)) : rs[i] = IF i <= Len(a) THEN ra[i] ELSE rb[i - Len(a)]
      <3>0. ra \o rb \in Seq(Event) /\ Len(ra \o rb) = Len(ra) + Len(rb)
        BY ConcatProperties
      <3>1. rs \in Seq(Event) /\ Len(rs) = Len(a) + Len(b)
        BY <2>0, <2>1, <2>2, <3>0
      <3>2. \A i \in 1..(Len(ra) + Len(rb)) : (ra \o rb)[i] = IF i <= Len(ra) THEN ra[i] ELSE rb[i - Len(ra)]
        BY <2>1, <2>2, ConcatProperties
      <3>3. \A i \in 1..(Len(a) + Len(b)) : (ra \o rb)[i] = IF i <= Len(a) THEN ra[i] ELSE rb[i - Len(a)]
        BY <2>1, <2>2, <3>2
      <3>4. QED
        BY <2>0, <3>1, <3>3
    <2>5. ASSUME NEW i \in 1..Len(c) PROVE rc[i] = rs[i]
      <3>1. rc[i] = Disposed(c[i])
        BY <2>3
      <3>2. CASE i \in 1..p
        <4>1. rs[i] = ra[i]
          BY <1>1, <1>a, <2>4, <3>2
        <4>2. QED
          BY <1>3, <1>a, <2>1, <3>1, <3>2, <4>1
      <3>3. CASE i \notin 1..p
        <4>1. i \in 1..(Len(a) + Len(b)) /\ ~ (i <= Len(a)) /\ i \in DOMAIN c
          BY <1>1, <1>2, <1>a, <3>3
        <4>2. rs[i] = rb[i - Len(a)]
          BY <2>4, <4>1
        <4>3. i - p \in 1..q /\ c[i] = b[i - p]
          BY <1>4, <3>3, <4>1
        <4>4. QED
          BY <1>a, <1>b, <2>2, <3>1, <4>2, <4>3
      <3>4. QED
        BY <3>2, <3>3
    <2>6. rc = rs
      BY <1>2, <2>3, <2>4, <2>5, SeqEqual
    <2>7. QED
      BY <2>1, <2>2, <2>3, <2>4, <2>6
  <1>9. QED
    BY <1>p, <1>2, <1>7, <1>8

(* ---- lists of markers ------------------------------------------------------ *)
\* A marker: its id and the line it is on.
Marker == [id : Nat, line : Nat]
\* A buffer's markers: no two have one id.
MarkList(ms) ==
  /\ ms \in Seq(Marker)
  /\ \A i, j \in DOMAIN ms : ms[i].id = ms[j].id => i = j

(* what Among leaves after the first n markers *)
Sifting(u, ms, ids, n) ==
  /\ u \in Seq(Marker) /\ Len(u) <= n
  /\ \A i \in DOMAIN u : \E j \in 1..n : u[i] = ms[j] /\ ms[j].id \in ids
  /\ \A j \in 1..n : ms[j].id \in ids => \E i \in DOMAIN u : u[i] = ms[j]
  /\ \A i, j \in DOMAIN u : u[i].id = u[j].id => i = j

\* One marker further.
LEMMA SiftingStep ==
  ASSUME NEW ms, MarkList(ms), NEW ids, NEW n \in Nat, n + 1 <= Len(ms), NEW u, Sifting(u, ms, ids, n)
  PROVE  Sifting(IF ms[n + 1].id \in ids THEN Append(u, ms[n + 1]) ELSE u, ms, ids, n + 1)
  <1>1. ms \in Seq(Marker) /\ Len(ms) \in Nat /\ DOMAIN ms = 1..Len(ms)
    BY DEF MarkList
  <1>2. PICK m \in Marker : m = ms[n + 1]
    BY <1>1
  <1>3. u \in Seq(Marker) /\ Len(u) \in Nat /\ DOMAIN u = 1..Len(u) /\ Len(u) <= n
    BY DEF Sifting
  <1>4. CASE ms[n + 1].id \in ids
    <2>0. PICK v : v = Append(u, m)
      OBVIOUS
    <2>1. v \in Seq(Marker) /\ v = Append(u, m) /\ Len(v) = Len(u) + 1 /\ DOMAIN v = 1..(Len(u) + 1) /\ v[Len(u) + 1] = m /\ \A i \in 1..Len(u) : v[i] = u[i]
      BY <1>2, <1>3, <2>0
    <2>2. \A i \in DOMAIN v : \E j \in 1..(n + 1) : v[i] = ms[j] /\ ms[j].id \in ids
      <3>1. ASSUME NEW i \in DOMAIN v PROVE \E j \in 1..(n + 1) : v[i] = ms[j] /\ ms[j].id \in ids
        <4>1. CASE i = Len(u) + 1
          BY <1>2, <1>4, <2>1, <4>1
        <4>2. CASE i # Len(u) + 1
          <5>1. i \in DOMAIN u /\ v[i] = u[i]
            BY <1>3, <2>1, <4>2
          <5>2. PICK j \in 1..n : u[i] = ms[j] /\ ms[j].id \in ids
            BY <5>1 DEF Sifting
          <5>3. QED
            BY <5>1, <5>2
        <4>3. QED
          BY <4>1, <4>2
      <3>2. QED
        BY <3>1
    <2>3. \A j \in 1..(n + 1) : ms[j].id \in ids => \E i \in DOMAIN v : v[i] = ms[j]
      <3>1. ASSUME NEW j \in 1..(n + 1), ms[j].id \in ids PROVE \E i \in DOMAIN v : v[i] = ms[j]
        <4>1. CASE j = n + 1
          BY <1>2, <1>3, <2>1, <4>1
        <4>2. CASE j # n + 1
          <5>1. j \in 1..n
            BY <4>2
          <5>2. PICK i \in DOMAIN u : u[i] = ms[j]
            BY <3>1, <5>1 DEF Sifting
          <5>3. QED
            BY <1>3, <2>1, <5>2
        <4>3. QED
          BY <4>1, <4>2
      <3>2. QED
        BY <3>1
    <2>4. \A i \in DOMAIN u : u[i].id # m.id
      <3>1. ASSUME NEW i \in DOMAIN u, u[i].id = m.id PROVE FALSE
        <4>1. PICK j \in 1..n : u[i] = ms[j]
          BY DEF Sifting
        <4>2. j \in DOMAIN ms /\ n + 1 \in DOMAIN ms /\ ms[j].id = ms[n + 1].id
          BY <1>1, <1>2, <3>1, <4>1
        <4>3. j = n + 1
          BY <4>2 DEF MarkList
        <4>4. QED
          BY <4>3
      <3>2. QED
        BY <3>1
    <2>5. ASSUME NEW i \in DOMAIN v, NEW j \in DOMAIN v, v[i].id = v[j].id PROVE i = j
      <3>1. CASE i \in DOMAIN u /\ j \in DOMAIN u
        BY <1>3, <2>1, <2>5, <3>1 DEF Sifting
      <3>2. CASE i \notin DOMAIN u /\ j \notin DOMAIN u
        BY <1>3, <2>1, <3>2
      <3>3. CASE i \in DOMAIN u /\ j \notin DOMAIN u
        BY <1>3, <2>1, <2>4, <2>5, <3>3
      <3>4. CASE i \notin DOMAIN u /\ j \in DOMAIN u
        BY <1>3, <2>1, <2>4, <2>5, <3>4
      <3>5. QED
        BY <3>1, <3>2, <3>3, <3>4
    <2>6. Sifting(v, ms, ids, n + 1)
      <3>1. Len(v) <= n + 1
        BY <1>3, <2>1
      <3>2. v \in Seq(Marker)
        BY <2>1
      <3>3. QED
        BY <2>2, <2>3, <2>5, <3>1, <3>2 DEF Sifting
    <2>7. QED
      BY <1>2, <1>4, <2>1, <2>6
  <1>5. CASE ms[n + 1].id \notin ids
    <2>1. \A i \in DOMAIN u : \E j \in 1..(n + 1) : u[i] = ms[j] /\ ms[j].id \in ids
      BY DEF Sifting
    <2>2. \A j \in 1..(n + 1) : ms[j].id \in ids => \E i \in DOMAIN u : u[i] = ms[j]
      <3>1. ASSUME NEW j \in 1..(n + 1), ms[j].id \in ids PROVE j \in 1..n
        BY <1>5, <3>1
      <3>2. QED
        BY <3>1 DEF Sifting
    <2>3. Sifting(u, ms, ids, n + 1)
      <3>1. Len(u) <= n + 1
        BY <1>3
      <3>2. QED
        BY <1>3, <2>1, <2>2, <3>1 DEF Sifting
    <2>4. QED
      BY <1>5, <2>3
  <1>6. QED
    BY <1>4, <1>5

\* Among keeps the markers whose ids are asked for, and no others.
LEMMA AmongIs ==
  ASSUME NEW ms, MarkList(ms), NEW ids
  PROVE  Sifting(Among(ms, ids), ms, ids, Len(ms))
  <1>1. PICK n \in Nat : n = Len(ms) /\ DOMAIN ms = 1..n /\ ms \in Seq(Marker) /\ \A k \in 1..n : ms[k] \in Marker
    BY LenProperties DEF MarkList
  <1>2. PICK S : S = Seq(Marker)
    OBVIOUS
  <1>3. PICK g : g = [x \in (1..n) \X S |-> IF ms[x[1]].id \in ids THEN Append(x[2], ms[x[1]]) ELSE x[2]]
    OBVIOUS
  <1>4. g \in [(1..n) \X S -> S]
    <2>1. ASSUME NEW x \in (1..n) \X S PROVE (IF ms[x[1]].id \in ids THEN Append(x[2], ms[x[1]]) ELSE x[2]) \in S
      <3>1. x[1] \in 1..n /\ x[2] \in Seq(Marker)
        BY <1>2
      <3>2. ms[x[1]] \in Marker
        BY <1>1, <3>1
      <3>3. Append(x[2], ms[x[1]]) \in Seq(Marker)
        BY <3>1, <3>2
      <3>4. QED
        BY <1>2, <3>1, <3>3
    <2>2. QED
      BY <1>3, <2>1
  <1>5. <<>> \in S
    BY <1>2
  <1>6. PICK h \in [0..n -> S] : Climbs(h, g, <<>>, n)
    BY <1>4, <1>5, CountExists
  <1> DEFINE step(f) == [k \in 0..Len(ms) |-> IF k = 0 THEN <<>> ELSE IF ms[k].id \in ids THEN Append(f[k - 1], ms[k]) ELSE f[k - 1]]
  <1>7. h = step(h)
    <2>1. h = [k \in 0..n |-> IF k = 0 THEN <<>> ELSE g[<<k, h[k - 1]>>]]
      BY <1>6 DEF Climbs
    <2>2. ASSUME NEW k \in 0..n, k # 0 PROVE g[<<k, h[k - 1]>>] = IF ms[k].id \in ids THEN Append(h[k - 1], ms[k]) ELSE h[k - 1]
      <3>1. k \in 1..n /\ k - 1 \in 0..n
        BY <2>2
      <3>2. h[k - 1] \in S
        BY <1>6, <3>1
      <3>3. <<k, h[k - 1]>> \in (1..n) \X S
        BY <3>1, <3>2
      <3>4. QED
        BY <1>3, <3>3
    <2>3. QED
      BY <1>1, <2>1, <2>2
  <1>8. PICK u : u = CHOOSE f : f = step(f)
    OBVIOUS
  <1>9. u = step(u)
    BY <1>7, <1>8
  <1>10. Among(ms, ids) = u[n]
    BY <1>1, <1>8 DEF Among
  <1> HIDE DEF step
  <1>11. u[0] = <<>>
    BY <1>1, <1>9 DEF step
  <1>12. ASSUME NEW k \in 1..n PROVE u[k] = IF ms[k].id \in ids THEN Append(u[k - 1], ms[k]) ELSE u[k - 1]
    <2>1. k \in 0..Len(ms) /\ k # 0
      BY <1>1
    <2>2. QED
      BY <1>9, <2>1 DEF step
  <1> DEFINE P == {k \in 0..n : Sifting(u[k], ms, ids, k)}
  <1>13. 0 \in P
    <2>1. Sifting(<<>>, ms, ids, 0)
      BY DEF Sifting
    <2>2. QED
      BY <1>11, <2>1
  <1>14. ASSUME NEW k \in 1..n, k - 1 \in P PROVE k \in P
    <2>1. PICK j \in Nat : j = k - 1 /\ j + 1 = k /\ j + 1 <= Len(ms)
      BY <1>1
    <2>2. Sifting(u[j], ms, ids, j)
      BY <1>14, <2>1
    <2>3. Sifting(IF ms[j + 1].id \in ids THEN Append(u[j], ms[j + 1]) ELSE u[j], ms, ids, j + 1)
      BY <2>1, <2>2, SiftingStep
    <2>4. QED
      BY <1>12, <2>1, <2>3
  <1>15. \A k \in 0..n : k \in P
    BY <1>13, <1>14, StaysCounting
  <1>16. n \in 0..n
    OBVIOUS
  <1>17. QED
    BY <1>1, <1>10, <1>15, <1>16

\* A list of markers has a length.
LEMMA ListLen ==
  ASSUME NEW ms, MarkList(ms)
  PROVE  Len(ms) \in Nat
  BY LenProperties DEF MarkList

\* The order of the numbers, for steps where the provers have much else to
\* look at.
LEMMA AtMost ==
  ASSUME NEW a \in Nat, NEW b \in Nat, NEW c \in Nat, a <= b, b <= c
  PROVE  a <= c
  OBVIOUS

\* The same, strictly.
LEMMA Beneath ==
  ASSUME NEW a \in Nat, NEW b \in Nat, NEW c \in Nat, a <= b, b < c
  PROVE  a < c
  OBVIOUS

\* A list's index gives each of its ids the line of its one marker.
LEMMA IndexIs ==
  ASSUME NEW ms, MarkList(ms)
  PROVE  /\ DOMAIN Index(ms) = MarkIds(ms) /\ MarkIds(ms) \in SUBSET Nat
         /\ \A i \in DOMAIN ms : ms[i].id \in DOMAIN Index(ms) /\ Index(ms)[ms[i].id] = ms[i].line
         /\ Index(ms) \in [MarkIds(ms) -> Nat]
  <1>1. ms \in Seq(Marker) /\ DOMAIN ms = 1..Len(ms) /\ \A i \in DOMAIN ms : ms[i] \in Marker
    BY DEF MarkList
  <1>2. DOMAIN Index(ms) = MarkIds(ms) /\ \A i \in DOMAIN ms : ms[i].id \in DOMAIN Index(ms)
    BY DEF Index, MarkIds
  <1>3. ASSUME NEW i \in DOMAIN ms PROVE Index(ms)[ms[i].id] = ms[i].line
    <2>1. PICK j : j = CHOOSE k \in DOMAIN ms : ms[k].id = ms[i].id
      OBVIOUS
    <2>2. j \in DOMAIN ms /\ ms[j].id = ms[i].id
      BY <2>1
    <2>3. j = i
      BY <2>2 DEF MarkList
    <2>4. Index(ms)[ms[i].id] = ms[j].line
      BY <1>2, <2>1 DEF Index
    <2>5. QED
      BY <2>3, <2>4
  <1>4. \A id \in MarkIds(ms) : id \in Nat /\ \E i \in DOMAIN ms : id = ms[i].id
    BY <1>1 DEF MarkIds, Marker
  <1>5. \A id \in MarkIds(ms) : Index(ms)[id] \in Nat
    BY <1>1, <1>3, <1>4 DEF Marker
  <1>6. Index(ms) \in [MarkIds(ms) -> Nat]
    <2>1. Index(ms) = [id \in MarkIds(ms) |-> Index(ms)[id]]
      BY DEF Index
    <2>2. QED
      BY <1>5, <2>1
  <1>7. QED
    BY <1>2, <1>3, <1>4, <1>6

\* The markers that stay, moved; and those that go, listed.
LEMMA MovedByIs ==
  ASSUME NEW ms, MarkList(ms), NEW move \in [Nat -> Nat]
  PROVE  /\ MarkList(MovedBy(ms, move)) /\ Len(MovedBy(ms, move)) = Len(ms)
         /\ MarkIds(MovedBy(ms, move)) = MarkIds(ms)
         /\ \A id \in MarkIds(ms) : Index(MovedBy(ms, move))[id] = move[Index(ms)[id]]
  <1>1. ms \in Seq(Marker) /\ Len(ms) \in Nat /\ DOMAIN ms = 1..Len(ms) /\ \A i \in DOMAIN ms : ms[i] \in Marker
    BY DEF MarkList
  <1>2. PICK z : z = MovedBy(ms, move)
    OBVIOUS
  <1>3. DOMAIN z = DOMAIN ms /\ \A i \in DOMAIN ms : z[i] = [ms[i] EXCEPT !.line = move[ms[i].line]]
    BY <1>2 DEF MovedBy
  <1>4. ASSUME NEW i \in DOMAIN ms PROVE z[i] \in Marker /\ z[i].id = ms[i].id /\ z[i].line = move[ms[i].line]
    <2>1. PICK m \in Marker : m = ms[i]
      BY <1>1
    <2>2. PICK l \in Nat : l = move[m.line]
      BY DEF Marker
    <2>3. z[i] = [m EXCEPT !.line = l]
      BY <1>3, <2>1, <2>2
    <2>4. z[i] \in Marker /\ z[i].id = m.id /\ z[i].line = l
      BY <2>3 DEF Marker
    <2>5. QED
      BY <2>1, <2>2, <2>4
  <1>5. z \in Seq(Marker) /\ Len(z) = Len(ms)
    <2>1. z = [i \in 1..Len(ms) |-> z[i]]
      BY <1>1, <1>2 DEF MovedBy
    <2>2. z \in [1..Len(ms) -> Marker]
      BY <1>1, <1>4, <2>1
    <2>3. QED
      BY <1>1, <2>2, MapIsSeq
  <1>6. MarkList(z)
    BY <1>3, <1>4, <1>5 DEF MarkList
  <1>7. MarkIds(z) = MarkIds(ms)
    BY <1>3, <1>4 DEF MarkIds
  <1>8. ASSUME NEW id \in MarkIds(ms) PROVE Index(z)[id] = move[Index(ms)[id]]
    <2>1. PICK i \in DOMAIN ms : id = ms[i].id
      BY DEF MarkIds
    <2>2. Index(ms)[id] = ms[i].line
      BY <2>1, IndexIs
    <2>3. Index(z)[id] = z[i].line
      BY <1>3, <1>4, <1>6, <2>1, IndexIs
    <2>4. QED
      BY <1>4, <2>2, <2>3
  <1>9. QED
    BY <1>2, <1>5, <1>6, <1>7, <1>8

\* What Among leaves is a list no longer than before, with the lines it had.
LEMMA AmongKeeps ==
  ASSUME NEW ms, MarkList(ms), NEW ids
  PROVE  /\ MarkList(Among(ms, ids)) /\ Len(Among(ms, ids)) <= Len(ms)
         /\ MarkIds(Among(ms, ids)) = MarkIds(ms) \cap ids
         /\ \A id \in MarkIds(ms) \cap ids : Index(Among(ms, ids))[id] = Index(ms)[id]
  <1>1. PICK z : z = Among(ms, ids)
    OBVIOUS
  <1>2. Sifting(z, ms, ids, Len(ms)) /\ DOMAIN ms = 1..Len(ms)
    BY <1>1, AmongIs DEF MarkList
  <1>3. MarkList(z) /\ Len(z) <= Len(ms)
    BY <1>2 DEF Sifting, MarkList
  <1>4. \A i \in DOMAIN z : \E j \in DOMAIN ms : z[i] = ms[j] /\ ms[j].id \in ids
    BY <1>2 DEF Sifting
  <1>5. \A j \in DOMAIN ms : ms[j].id \in ids => \E i \in DOMAIN z : z[i] = ms[j]
    BY <1>2 DEF Sifting
  <1>6. MarkIds(z) = MarkIds(ms) \cap ids
    <2>1. ASSUME NEW id \in MarkIds(z) PROVE id \in MarkIds(ms) /\ id \in ids
      BY <1>4 DEF MarkIds
    <2>2. ASSUME NEW id \in MarkIds(ms), id \in ids PROVE id \in MarkIds(z)
      <3>1. PICK j \in DOMAIN ms : ms[j].id = id
        BY DEF MarkIds
      <3>2. PICK i \in DOMAIN z : z[i] = ms[j]
        BY <1>5, <2>2, <3>1
      <3>3. QED
        BY <3>1, <3>2 DEF MarkIds
    <2>3. QED
      BY <2>1, <2>2
  <1>7. ASSUME NEW id \in MarkIds(ms) \cap ids PROVE Index(z)[id] = Index(ms)[id]
    <2>1. PICK j \in DOMAIN ms : ms[j].id = id
      BY DEF MarkIds
    <2>2. PICK i \in DOMAIN z : z[i] = ms[j]
      BY <1>5, <1>7, <2>1
    <2>3. Index(ms)[id] = ms[j].line
      BY <2>1, IndexIs
    <2>4. Index(z)[id] = z[i].line
      BY <1>3, <2>1, <2>2, IndexIs
    <2>5. QED
      BY <2>2, <2>3, <2>4
  <1>8. QED
    BY <1>1, <1>3, <1>6, <1>7

\* What a list's markers are announced as.
Fallen(ms) == [i \in DOMAIN ms |-> Disposed(ms[i].id)]

\* Announcing a list of markers lists their ids.
LEMMA FallenAre ==
  ASSUME NEW ms, MarkList(ms)
  PROVE  \E s : ListOf(s, MarkIds(ms)) /\ Fallen(ms) = Roll(s)
  <1>1. ms \in Seq(Marker) /\ Len(ms) \in Nat /\ DOMAIN ms = 1..Len(ms) /\ \A i \in DOMAIN ms : ms[i].id \in Nat
    <2>1. ms \in Seq(Marker) /\ Len(ms) \in Nat /\ DOMAIN ms = 1..Len(ms) /\ \A i \in DOMAIN ms : ms[i] \in Marker
      BY DEF MarkList
    <2>2. QED
      BY <2>1 DEF Marker
  <1>2. PICK s : s = [i \in DOMAIN ms |-> ms[i].id]
    OBVIOUS
  <1>3. DOMAIN s = DOMAIN ms /\ \A i \in DOMAIN ms : s[i] = ms[i].id
    BY <1>2
  <1>4. s \in Seq(Nat)
    <2>1. s \in [1..Len(ms) -> Nat]
      BY <1>1, <1>2
    <2>2. QED
      BY <1>1, <2>1
  <1>5. ListOf(s, MarkIds(ms))
    BY <1>3, <1>4 DEF ListOf, MarkIds, MarkList
  <1>6. Fallen(ms) = Roll(s)
    BY <1>2, <1>3 DEF Fallen, Roll
  <1>7. QED
    BY <1>5, <1>6

(* ---- terminals -------------------------------------------------------------- *)
\* The fields of a terminal.
TermFields ==
  {"hist", "grid", "other", "alt", "row", "saved", "top", "bottom", "marks",
   "points", "sel", "nextMark", "nextPoint", "evicted", "epoch", "out",
   "stranded"}
\* The two buffers' names.
Buffers == {"normal", "alternate"}
\* What a row may carry.
Tags == ({"mark", "point"} \X Nat) \cup ({"end"} \X Ends)
\* A row: the holders whose content it has.
Row == SUBSET Tags

\* A terminal: every field but the points and the selection, which the feed
\* does not see, typed.
IsTerm(t) ==
  /\ DOMAIN t = TermFields
  /\ t.hist \in Seq(Row) /\ t.grid \in Seq(Row) /\ t.other \in Seq(Row)
  /\ t.alt \in BOOLEAN
  /\ t.row \in Nat /\ t.saved \in Nat /\ t.top \in Nat /\ t.bottom \in Nat
  /\ DOMAIN t.marks = Buffers
  /\ MarkList(t.marks.normal) /\ MarkList(t.marks.alternate)
  /\ DOMAIN t.points = Buffers
  /\ t.nextMark \in Nat /\ t.nextPoint \in Nat
  /\ t.evicted \in Nat /\ t.epoch \in Nat
  /\ t.out \in Seq(Event)

\* As many rows everywhere, the same screen, cursor and region.
SameShape(s, z) ==
  /\ Len(z.hist) = Len(s.hist) /\ Len(z.grid) = Len(s.grid) /\ Len(z.other) = Len(s.other)
  /\ z.alt = s.alt /\ z.row = s.row /\ z.saved = s.saved
  /\ z.top = s.top /\ z.bottom = s.bottom
\* Nothing the feed sees has changed.
SameFeed(s, z) ==
  /\ z.marks = s.marks /\ z.nextMark = s.nextMark
  /\ z.evicted = s.evicted /\ z.epoch = s.epoch /\ z.out = s.out
\* A step that leaves the markers, what was announced and the rows' number
\* alone.
Quiet(s, z) == IsTerm(s) /\ IsTerm(z) /\ SameShape(s, z) /\ SameFeed(s, z)

\* Doing nothing is quiet.
LEMMA QuietHere ==
  ASSUME NEW t, IsTerm(t)
  PROVE  Quiet(t, t)
  BY DEF Quiet, SameShape, SameFeed

\* One quiet step after another is quiet.
LEMMA QuietOn ==
  ASSUME NEW s, NEW u, NEW z, Quiet(s, u), Quiet(u, z)
  PROVE  Quiet(s, z)
  BY DEF Quiet, SameShape, SameFeed

\* The selection may become anything.
LEMMA SelQuiet ==
  ASSUME NEW t, IsTerm(t), NEW X
  PROVE  Quiet(t, [t EXCEPT !.sel = X])
  BY DEF Quiet, SameShape, SameFeed, IsTerm, TermFields

\* So may the tracked points.
LEMMA PointsQuiet ==
  ASSUME NEW t, IsTerm(t), NEW P, DOMAIN P = Buffers
  PROVE  Quiet(t, [t EXCEPT !.points = P])
  BY DEF Quiet, SameShape, SameFeed, IsTerm, TermFields, Buffers

\* So may what the rows carry.
LEMMA RowsQuiet ==
  ASSUME NEW t, IsTerm(t), NEW h \in Seq(Row), NEW g \in Seq(Row), NEW o \in Seq(Row),
         Len(h) = Len(t.hist), Len(g) = Len(t.grid), Len(o) = Len(t.other)
  PROVE  Quiet(t, [t EXCEPT !.hist = h, !.grid = g, !.other = o])
  BY DEF Quiet, SameShape, SameFeed, IsTerm, TermFields

\* Rows stripped of some holders are rows.
LEMMA RowsWithout ==
  ASSUME NEW rows \in Seq(Row), NEW T
  PROVE  [i \in DOMAIN rows |-> rows[i] \ T] \in Seq(Row) /\ Len([i \in DOMAIN rows |-> rows[i] \ T]) = Len(rows)
  <1>1. PICK n \in Nat : n = Len(rows) /\ DOMAIN rows = 1..n
    BY LenProperties
  <1>2. \A i \in 1..n : rows[i] \in Row
    BY <1>1
  <1>3. [i \in DOMAIN rows |-> rows[i] \ T] \in [1..n -> Row]
    BY <1>1, <1>2 DEF Row
  <1>4. QED
    BY <1>1, <1>3, MapIsSeq

\* Rows given more holders are rows.
LEMMA RowsWith ==
  ASSUME NEW rows \in Seq(Row), NEW T, \A i \in DOMAIN rows : T[i] \in SUBSET Tags
  PROVE  [i \in DOMAIN rows |-> rows[i] \cup T[i]] \in Seq(Row) /\ Len([i \in DOMAIN rows |-> rows[i] \cup T[i]]) = Len(rows)
  <1>1. PICK n \in Nat : n = Len(rows) /\ DOMAIN rows = 1..n
    BY LenProperties
  <1>2. \A i \in 1..n : rows[i] \in Row
    BY <1>1
  <1>3. [i \in DOMAIN rows |-> rows[i] \cup T[i]] \in [1..n -> Row]
    BY <1>1, <1>2 DEF Row
  <1>4. QED
    BY <1>1, <1>3, MapIsSeq

\* A terminal's three stores of rows.
LEMMA RowSeqs ==
  ASSUME NEW t, IsTerm(t)
  PROVE  t.hist \in Seq(Row) /\ t.grid \in Seq(Row) /\ t.other \in Seq(Row)
  BY DEF IsTerm

\* Forget touches only what the rows carry.
LEMMA ForgetQuiet ==
  ASSUME NEW t, IsTerm(t), NEW tags
  PROVE  Quiet(t, Forget(t, tags))
  <1>1. PICK h : h = [i \in DOMAIN t.hist |-> t.hist[i] \ tags]
    OBVIOUS
  <1>2. PICK g : g = [i \in DOMAIN t.grid |-> t.grid[i] \ tags]
    OBVIOUS
  <1>3. PICK o : o = [i \in DOMAIN t.other |-> t.other[i] \ tags]
    OBVIOUS
  <1>4. h \in Seq(Row) /\ Len(h) = Len(t.hist)
    BY <1>1, RowSeqs, RowsWithout
  <1>5. g \in Seq(Row) /\ Len(g) = Len(t.grid)
    BY <1>2, RowSeqs, RowsWithout
  <1>6. o \in Seq(Row) /\ Len(o) = Len(t.other)
    BY <1>3, RowSeqs, RowsWithout
  <1>7. Forget(t, tags) = [t EXCEPT !.hist = h, !.grid = g, !.other = o]
    BY <1>1, <1>2, <1>3 DEF Forget
  <1>8. Quiet(t, [t EXCEPT !.hist = h, !.grid = g, !.other = o])
    BY <1>4, <1>5, <1>6, RowsQuiet
  <1>9. QED
    BY <1>7, <1>8

\* Deselect touches only the selection and its holders.
LEMMA DeselectQuiet ==
  ASSUME NEW t, IsTerm(t)
  PROVE  Quiet(t, Deselect(t))
  <1>0. PICK tags : tags = {End(e) : e \in Ends}
    OBVIOUS
  <1>1. PICK h : h = [i \in DOMAIN t.hist |-> t.hist[i] \ tags]
    OBVIOUS
  <1>2. PICK g : g = [i \in DOMAIN t.grid |-> t.grid[i] \ tags]
    OBVIOUS
  <1>3. PICK o : o = [i \in DOMAIN t.other |-> t.other[i] \ tags]
    OBVIOUS
  <1>4. h \in Seq(Row) /\ Len(h) = Len(t.hist)
    BY <1>1, RowSeqs, RowsWithout
  <1>5. g \in Seq(Row) /\ Len(g) = Len(t.grid)
    BY <1>2, RowSeqs, RowsWithout
  <1>6. o \in Seq(Row) /\ Len(o) = Len(t.other)
    BY <1>3, RowSeqs, RowsWithout
  <1>7. Deselect(t) = [t EXCEPT !.sel = {}, !.hist = h, !.grid = g, !.other = o]
    BY <1>0, <1>1, <1>2, <1>3 DEF Deselect
  <1>8. Quiet(t, [t EXCEPT !.sel = {}, !.hist = h, !.grid = g, !.other = o])
    BY <1>4, <1>5, <1>6 DEF Quiet, SameShape, SameFeed, IsTerm, TermFields
  <1>9. QED
    BY <1>7, <1>8

\* Adopt touches only what the rows carry.
LEMMA AdoptQuiet ==
  ASSUME NEW t, IsTerm(t)
  PROVE  Quiet(t, Adopt(t))
  <1>1. CASE t.sel = {}
    BY <1>1, QuietHere DEF Adopt
  <1>2. CASE t.sel # {}
    <2>1. PICK s : s = CHOOSE x \in t.sel : TRUE
      OBVIOUS
    <2>2. PICK homeless : homeless = {e \in Ends : Owner(Buffer(t, Active(t)), End(e)) = {}}
      OBVIOUS
    <2>3. PICK T : T = [i \in DOMAIN t.hist |-> {End(e) : e \in {x \in homeless : s[x] = i - 1}}]
      OBVIOUS
    <2>4. PICK U : U = [i \in DOMAIN t.grid |-> {End(e) : e \in {x \in homeless : s[x] = Base(t) + i - 1}}]
      OBVIOUS
    <2>5. PICK h : h = [i \in DOMAIN t.hist |-> t.hist[i] \cup T[i]]
      OBVIOUS
    <2>6. PICK g : g = [i \in DOMAIN t.grid |-> t.grid[i] \cup U[i]]
      OBVIOUS
    <2>7. \A e \in Ends : End(e) \in Tags
      BY DEF End, Tags
    <2>8. homeless \subseteq Ends
      BY <2>2
    <2>9. (\A i \in DOMAIN t.hist : T[i] \in SUBSET Tags) /\ (\A i \in DOMAIN t.grid : U[i] \in SUBSET Tags)
      BY <2>3, <2>4, <2>7, <2>8
    <2>10. h \in Seq(Row) /\ Len(h) = Len(t.hist) /\ g \in Seq(Row) /\ Len(g) = Len(t.grid)
      BY <2>5, <2>6, <2>9, RowSeqs, RowsWith
    <2>11. Adopt(t) = [t EXCEPT !.hist = h, !.grid = g]
      BY <1>2, <2>1, <2>2, <2>3, <2>4, <2>5, <2>6 DEF Adopt
    <2>12. Quiet(t, [t EXCEPT !.hist = h, !.grid = g])
      BY <2>10 DEF Quiet, SameShape, SameFeed, IsTerm, TermFields
    <2>13. QED
      BY <2>11, <2>12
  <1>3. QED
    BY <1>1, <1>2

\* selection_evict_oldest touches no marker.
LEMMA SelectionEvictQuiet ==
  ASSUME NEW t, IsTerm(t), NEW n
  PROVE  Quiet(t, SelectionEvict(t, n))
  BY SelQuiet DEF SelectionEvict

\* selection_rotate_region touches no marker.
LEMMA SelectionRotateQuiet ==
  ASSUME NEW t, IsTerm(t), NEW top, NEW bottom, NEW up
  PROVE  Quiet(t, SelectionRotate(t, top, bottom, up))
  <1>1. \E X : SelectionRotate(t, top, bottom, up) = [t EXCEPT !.sel = X]
    BY DEF SelectionRotate
  <1>2. QED
    BY <1>1, SelQuiet

\* tracked_evict_oldest touches no marker.
LEMMA TrackedEvictQuiet ==
  ASSUME NEW t, IsTerm(t), NEW n
  PROVE  Quiet(t, TrackedEvict(t, n))
  <1>1. PICK P : P = [which \in DOMAIN t.points |-> {[p EXCEPT !.line = @ - n] : p \in {q \in t.points[which] : q.line >= n}}]
    OBVIOUS
  <1>2. TrackedEvict(t, n) = [t EXCEPT !.points = P] /\ DOMAIN P = Buffers
    BY <1>1 DEF TrackedEvict, IsTerm
  <1>3. QED
    BY <1>2, PointsQuiet

\* The active buffer is one of the two.
LEMMA ActiveIs ==
  ASSUME NEW t, IsTerm(t)
  PROVE  Active(t) \in Buffers
  BY DEF IsTerm, Active, Buffers

\* tracked_rotate_region touches no marker.
LEMMA TrackedRotateQuiet ==
  ASSUME NEW t, IsTerm(t), NEW top, NEW bottom, NEW up
  PROVE  Quiet(t, TrackedRotate(t, top, bottom, up))
  <1>1. PICK X : TrackedRotate(t, top, bottom, up) = [t EXCEPT !.points[Active(t)] = X]
    BY DEF TrackedRotate
  <1>2. PICK P : P = [t.points EXCEPT ![Active(t)] = X]
    OBVIOUS
  <1>3. TrackedRotate(t, top, bottom, up) = [t EXCEPT !.points = P] /\ DOMAIN P = Buffers
    BY <1>1, <1>2 DEF IsTerm
  <1>4. QED
    BY <1>3, PointsQuiet

\* A rotated screen is a screen of as many rows.
LEMMA RotateRowsIs ==
  ASSUME NEW grid \in Seq(Row), NEW top \in Nat, NEW bottom \in Nat, NEW up, top <= bottom, bottom < Len(grid)
  PROVE  RotateRows(grid, top, bottom, up) \in Seq(Row) /\ Len(RotateRows(grid, top, bottom, up)) = Len(grid)
  <1>1. PICK n \in Nat : n = Len(grid) /\ DOMAIN grid = 1..n
    BY LenProperties
  <1>2. ASSUME NEW i \in 1..n
        PROVE  (LET r == i - 1
                    source == IF up THEN r + 1 ELSE r - 1
                    blank == IF up THEN bottom ELSE top
                IN CASE r < top \/ r > bottom -> grid[i]
                     [] r = blank -> Blank
                     [] OTHER -> grid[source + 1]) \in Row
    <2>1. Blank \in Row
      BY DEF Blank, Row
    <2>2. \A j \in 1..n : grid[j] \in Row
      BY <1>1
    <2>3. CASE i - 1 < top \/ i - 1 > bottom
      BY <2>2, <2>3
    <2>4. CASE ~ (i - 1 < top \/ i - 1 > bottom)
      <3>1. CASE up
        <4>1. CASE i - 1 = bottom
          BY <2>1, <2>4, <3>1, <4>1
        <4>2. CASE i - 1 # bottom
          <5>1. (i - 1 + 1) + 1 \in 1..n
            BY <1>1, <2>4, <4>2
          <5>2. QED
            BY <2>2, <2>4, <3>1, <4>2, <5>1
        <4>3. QED
          BY <4>1, <4>2
      <3>2. CASE ~ up
        <4>1. CASE i - 1 = top
          BY <2>1, <2>4, <3>2, <4>1
        <4>2. CASE i - 1 # top
          <5>1. (i - 1 - 1) + 1 \in 1..n
            BY <1>1, <2>4, <4>2
          <5>2. QED
            BY <2>2, <2>4, <3>2, <4>2, <5>1
        <4>3. QED
          BY <4>1, <4>2
      <3>3. QED
        BY <3>1, <3>2
    <2>5. QED
      BY <2>3, <2>4
  <1>3. RotateRows(grid, top, bottom, up) \in [1..n -> Row]
    BY <1>1, <1>2 DEF RotateRows
  <1>4. QED
    BY <1>1, <1>3, MapIsSeq

(* ---- what a step tells the feed ---------------------------------------------- *)
\* From s to z the deaths of D are announced, in some order, after what was.
Tells(s, z, D) == \E ids : ListOf(ids, D) /\ z.out = s.out \o Roll(ids)
\* The markers an index pulled now would have.
ActiveIds(t) == MarkIds(t.marks[Active(t)])
\* The active index lost D and is otherwise n lines up.
Lifted(s, z, D, n) ==
  /\ ActiveIds(z) = ActiveIds(s) \ D
  /\ \A id \in ActiveIds(z) : ActiveIndex(s)[id] = ActiveIndex(z)[id] + n
\* D died, was announced, and if the epoch stands the index follows by the
\* evicted total.
Follows(s, z, D) ==
  /\ D \subseteq LiveMarks(s) /\ LiveMarks(z) = LiveMarks(s) \ D
  /\ Tells(s, z, D)
  /\ z.epoch = s.epoch => Lifted(s, z, D, z.evicted - s.evicted)
\* A step the holder of an index can follow: what every part of a call has to
\* be, births excepted.
Feeds(s, z) ==
  /\ z.nextMark = s.nextMark
  /\ s.evicted <= z.evicted /\ s.epoch <= z.epoch
  /\ \E D : Follows(s, z, D)

\* The three counters are numbers.
Counters(t) == t.evicted \in Nat /\ t.epoch \in Nat /\ t.nextMark \in Nat
\* A terminal's are.
LEMMA CountersOf ==
  ASSUME NEW t, IsTerm(t)
  PROVE  Counters(t)
  BY DEF IsTerm, Counters

\* A terminal's lists of markers, its live ids and its active index.
LEMMA MarksOf ==
  ASSUME NEW t, IsTerm(t)
  PROVE  /\ Active(t) \in Buffers /\ MarkList(t.marks[Active(t)])
         /\ MarkList(t.marks["normal"]) /\ MarkList(t.marks["alternate"])
         /\ LiveMarks(t) \in SUBSET Nat /\ ActiveIds(t) \subseteq LiveMarks(t)
         /\ ActiveIndex(t) \in [ActiveIds(t) -> Nat]
  <1>1. MarkList(t.marks["normal"]) /\ MarkList(t.marks["alternate"])
    BY DEF IsTerm
  <1>2. Active(t) \in Buffers /\ (Active(t) = "normal" \/ Active(t) = "alternate")
    BY DEF Active, Buffers
  <1>3. MarkList(t.marks[Active(t)])
    BY <1>1, <1>2
  <1>4. LiveMarks(t) \in SUBSET Nat /\ ActiveIds(t) \subseteq LiveMarks(t)
    BY <1>1, <1>2, IndexIs DEF LiveMarks, ActiveIds
  <1>5. ActiveIndex(t) \in [ActiveIds(t) -> Nat]
    BY <1>3, IndexIs DEF ActiveIndex, ActiveIds
  <1>6. QED
    BY <1>1, <1>2, <1>3, <1>4, <1>5

\* What a terminal announced is a sequence of events.
LEMMA OutOf ==
  ASSUME NEW t, IsTerm(t)
  PROVE  t.out \in Seq(Event)
  BY DEF IsTerm

\* Sequences of events one after another, in either grouping.
LEMMA EventsJoin ==
  ASSUME NEW o \in Seq(Event), NEW x \in Seq(Event), NEW y \in Seq(Event)
  PROVE  (o \o x) \o y = o \o (x \o y)
  BY ConcatAssociative

\* Deaths told in two steps are told in one.
LEMMA TellsOn ==
  ASSUME NEW s, NEW u, NEW z, IsTerm(s), NEW D, NEW E, Tells(s, u, D), Tells(u, z, E), D \cap E = {}
  PROVE  Tells(s, z, D \cup E)
  <1>1. PICK a : ListOf(a, D) /\ u.out = s.out \o Roll(a)
    BY DEF Tells
  <1>2. PICK b : ListOf(b, E) /\ z.out = u.out \o Roll(b)
    BY DEF Tells
  <1>3. ListOf(a \o b, D \cup E) /\ Roll(a \o b) = Roll(a) \o Roll(b)
    <2>1. ListOf(a, D) /\ ListOf(b, E)
      BY <1>1, <1>2
    <2>2. PICK c : c = a \o b
      OBVIOUS
    <2>3. PICK F : F = D \cup E
      OBVIOUS
    <2>4. Parted(D, E, F) /\ Joined(a, b, c)
      BY <2>2, <2>3 DEF Parted, Joined
    <2>5. ListOf(c, F) /\ Roll(c) = Roll(a) \o Roll(b)
      BY <2>1, <2>4, ListsJoin
    <2>6. QED
      BY <2>2, <2>3, <2>5
  <1>4. Roll(a) \in Seq(Event) /\ Roll(b) \in Seq(Event)
    BY <1>1, <1>2, RollIsEvents
  <1>5. (s.out \o Roll(a)) \o Roll(b) = s.out \o (Roll(a) \o Roll(b))
    <2>1. s.out \in Seq(Event)
      BY OutOf
    <2>2. QED
      BY <1>4, <2>1, EventsJoin
  <1>6. z.out = s.out \o Roll(a \o b)
    BY <1>1, <1>2, <1>3, <1>5
  <1>7. QED
    BY <1>3, <1>6 DEF Tells

\* A step that announces nothing tells of no death.
LEMMA TellsNothing ==
  ASSUME NEW s, NEW z, IsTerm(s), z.out = s.out
  PROVE  Tells(s, z, {})
  <1>1. s.out \o <<>> = s.out
    BY OutOf, ConcatEmptySeq
  <1>2. z.out = s.out \o Roll(<<>>)
    BY <1>1, NoneListed
  <1>3. QED
    BY <1>2, NoneListed DEF Tells

\* A step that changes nothing the feed sees can be followed.
LEMMA SilentFeeds ==
  ASSUME NEW s, IsTerm(s), NEW z, IsTerm(z), SameFeed(s, z), z.alt = s.alt
  PROVE  Feeds(s, z)
  <1>1. IsTerm(s) /\ IsTerm(z) /\ z.marks = s.marks /\ z.nextMark = s.nextMark /\ z.evicted = s.evicted /\ z.epoch = s.epoch /\ z.out = s.out /\ z.alt = s.alt
    BY DEF SameFeed
  <1>2. Counters(s) /\ Counters(z)
    BY <1>1, CountersOf
  <1>3. Tells(s, z, {})
    BY <1>1, TellsNothing
  <1>4. LiveMarks(z) = LiveMarks(s) /\ ActiveIndex(z) = ActiveIndex(s) /\ ActiveIds(z) = ActiveIds(s)
    BY <1>1 DEF LiveMarks, ActiveIndex, ActiveIds, Active
  <1>5. Lifted(s, z, {}, z.evicted - s.evicted)
    <2>1. z.evicted - s.evicted = 0
      BY <1>1, <1>2 DEF Counters
    <2>2. \A id \in ActiveIds(s) : ActiveIndex(s)[id] \in Nat
      BY <1>1, MarksOf
    <2>3. \A id \in ActiveIds(z) : ActiveIndex(s)[id] = ActiveIndex(z)[id] + 0
      BY <1>4, <2>2
    <2>4. QED
      BY <1>4, <2>1, <2>3 DEF Lifted
  <1>6. Follows(s, z, {})
    BY <1>3, <1>4, <1>5 DEF Follows
  <1>7. QED
    BY <1>1, <1>2, <1>6 DEF Feeds, Counters

\* So can a quiet one.
LEMMA QuietFeeds ==
  ASSUME NEW s, NEW z, Quiet(s, z)
  PROVE  Feeds(s, z)
  BY SilentFeeds DEF Quiet, SameShape

\* Two steps that can be followed are one that can: the evicted totals add
\* up, and a bump of the epoch in either excuses both.
LEMMA FeedsOn ==
  ASSUME NEW s, NEW u, NEW z, IsTerm(s), IsTerm(u), IsTerm(z), Feeds(s, u), Feeds(u, z)
  PROVE  Feeds(s, z)
  <1>1. PICK D : Follows(s, u, D)
    BY DEF Feeds
  <1>2. PICK E : Follows(u, z, E)
    BY DEF Feeds
  <1>3. Counters(s) /\ Counters(u) /\ Counters(z)
    BY CountersOf
  <1>4. /\ D \subseteq LiveMarks(s) /\ LiveMarks(u) = LiveMarks(s) \ D /\ Tells(s, u, D)
        /\ E \subseteq LiveMarks(u) /\ LiveMarks(z) = LiveMarks(u) \ E /\ Tells(u, z, E)
    BY <1>1, <1>2 DEF Follows
  <1>5. D \cap E = {} /\ (D \cup E) \subseteq LiveMarks(s) /\ LiveMarks(z) = LiveMarks(s) \ (D \cup E)
    BY <1>4
  <1>6. Tells(s, z, D \cup E)
    BY <1>4, <1>5, TellsOn
  <1>7. /\ u.nextMark = s.nextMark /\ s.evicted <= u.evicted /\ s.epoch <= u.epoch
        /\ z.nextMark = u.nextMark /\ u.evicted <= z.evicted /\ u.epoch <= z.epoch
    BY DEF Feeds
  <1>8. ASSUME z.epoch = s.epoch PROVE Lifted(s, z, D \cup E, z.evicted - s.evicted)
    <2>1. u.epoch = s.epoch /\ z.epoch = u.epoch
      BY <1>3, <1>7, <1>8 DEF Counters
    <2>2. PICK n \in Nat : n = u.evicted - s.evicted
      BY <1>3, <1>7 DEF Counters
    <2>3. PICK m \in Nat : m = z.evicted - u.evicted
      BY <1>3, <1>7 DEF Counters
    <2>4. z.evicted - s.evicted = n + m
      BY <1>3, <2>2, <2>3 DEF Counters
    <2>5. Lifted(s, u, D, n) /\ Lifted(u, z, E, m)
      BY <1>1, <1>2, <2>1, <2>2, <2>3 DEF Follows
    <2>6. ActiveIds(z) = ActiveIds(s) \ (D \cup E) /\ ActiveIds(z) \subseteq ActiveIds(u)
      BY <2>5 DEF Lifted
    <2>7. ASSUME NEW id \in ActiveIds(z) PROVE ActiveIndex(s)[id] = ActiveIndex(z)[id] + (n + m)
      <3>1. ActiveIndex(s)[id] = ActiveIndex(u)[id] + n /\ ActiveIndex(u)[id] = ActiveIndex(z)[id] + m
        BY <2>5, <2>6 DEF Lifted
      <3>2. ActiveIndex(z)[id] \in Nat
        BY MarksOf
      <3>3. QED
        BY <3>1, <3>2
    <2>8. QED
      BY <2>4, <2>6, <2>7 DEF Lifted
  <1>9. Follows(s, z, D \cup E)
    BY <1>5, <1>6, <1>8 DEF Follows
  <1>10. QED
    BY <1>3, <1>7, <1>9 DEF Feeds, Counters

(* ---- a list sifted ------------------------------------------------------------ *)
\* What Sift does: the markers in gone leave their list and are announced,
\* the others go where move takes them.
Sifted(s, z, which, gone, move) ==
  /\ IsTerm(z) /\ SameShape(s, z)
  /\ z.nextMark = s.nextMark /\ z.evicted = s.evicted /\ z.epoch = s.epoch
  /\ \A w \in Buffers \ {which} : z.marks[w] = s.marks[w]
  /\ Len(z.marks[which]) <= Len(s.marks[which])
  /\ MarkIds(z.marks[which]) = MarkIds(s.marks[which]) \ gone
  /\ \A id \in MarkIds(z.marks[which]) : Index(z.marks[which])[id] = move[Index(s.marks[which])[id]]
  /\ Tells(s, z, MarkIds(s.marks[which]) \cap gone)

\* Sift does it.
LEMMA SiftIs ==
  ASSUME NEW t, IsTerm(t), NEW which \in Buffers, NEW gone, NEW move \in [Nat -> Nat]
  PROVE  Sifted(t, Sift(t, which, gone, move), which, gone, move)
  <1>1. PICK ms : ms = t.marks[which]
    OBVIOUS
  <1>2. MarkList(ms)
    BY <1>1 DEF IsTerm, Buffers
  <1>3. PICK kept : kept = Among(ms, MarkIds(ms) \ gone)
    OBVIOUS
  <1>4. MarkList(kept) /\ Len(kept) <= Len(ms) /\ MarkIds(kept) = MarkIds(ms) \ gone /\ \A id \in MarkIds(kept) : Index(kept)[id] = Index(ms)[id]
    <2>1. MarkIds(ms) \cap (MarkIds(ms) \ gone) = MarkIds(ms) \ gone
      OBVIOUS
    <2>2. QED
      BY <1>2, <1>3, <2>1, AmongKeeps
  <1>5. PICK new : new = MovedBy(kept, move)
    OBVIOUS
  <1>6. MarkList(new) /\ Len(new) = Len(kept) /\ MarkIds(new) = MarkIds(kept) /\ \A id \in MarkIds(kept) : Index(new)[id] = move[Index(kept)[id]]
    BY <1>4, <1>5, MovedByIs
  <1>7. PICK fallen : fallen = Among(ms, gone)
    OBVIOUS
  <1>8. MarkList(fallen) /\ MarkIds(fallen) = MarkIds(ms) \cap gone
    BY <1>2, <1>7, AmongKeeps
  <1>9. PICK ids : ListOf(ids, MarkIds(ms) \cap gone) /\ Fallen(fallen) = Roll(ids)
    BY <1>8, FallenAre
  <1>10. PICK out : out = t.out \o Roll(ids)
    OBVIOUS
  <1>11. out \in Seq(Event)
    <2>1. Roll(ids) \in Seq(Event)
      BY <1>9, RollIsEvents
    <2>2. QED
      BY <1>10, <2>1, OutOf, ConcatProperties
  <1>12. PICK z : z = Sift(t, which, gone, move)
    OBVIOUS
  <1>13. PICK u : u = [t EXCEPT !.marks[which] = new]
    OBVIOUS
  <1>14. z = [u EXCEPT !.out = @ \o Fallen(fallen)]
    BY <1>1, <1>3, <1>5, <1>7, <1>12, <1>13 DEF Sift, Announce, Fallen
  <1>15. PICK M : M = [t.marks EXCEPT ![which] = new]
    OBVIOUS
  <1>16. DOMAIN M = Buffers /\ M[which] = new /\ \A w \in Buffers \ {which} : M[w] = t.marks[w]
    BY <1>15 DEF IsTerm
  <1>17. MarkList(M.normal) /\ MarkList(M.alternate)
    BY <1>6, <1>16 DEF IsTerm, Buffers
  <1>18. u = [t EXCEPT !.marks = M]
    BY <1>13, <1>15
  <1>19. u.out = t.out
    BY <1>18 DEF IsTerm, TermFields
  <1>20. z = [t EXCEPT !.marks = M, !.out = out]
    BY <1>9, <1>10, <1>14, <1>18, <1>19
  <1>21. IsTerm(z) /\ SameShape(t, z) /\ z.nextMark = t.nextMark /\ z.evicted = t.evicted /\ z.epoch = t.epoch /\ z.marks = M /\ z.out = out
    BY <1>11, <1>16, <1>17, <1>20 DEF IsTerm, SameShape, TermFields
  <1>22. Tells(t, z, MarkIds(ms) \cap gone)
    BY <1>9, <1>10, <1>21 DEF Tells
  <1>23. Len(new) <= Len(ms)
    BY <1>4, <1>6
  <1>24. \A id \in MarkIds(new) : Index(new)[id] = move[Index(ms)[id]]
    BY <1>4, <1>6
  <1>25. QED
    BY <1>1, <1>4, <1>6, <1>12, <1>16, <1>21, <1>22, <1>23, <1>24 DEF Sifted

(* ---- the markers an engine keeps: all below the end of the buffer ------------- *)
\* The lines of the active buffer.
Height(t) == Len(t.hist) + Len(t.grid)
\* A line of the buffer named; the alternate screen lies above all of
\* history.
Placed(t, w, l) == l < Height(t) /\ (w = "alternate" => Len(t.hist) <= l)
\* Ids are issued and no two markers share one, a list is within the cap,
\* every marker is on a line its buffer has, and the alternate buffer has
\* none while it is not shown.
Registered(t) ==
  /\ MarkIds(t.marks["normal"]) \cap MarkIds(t.marks["alternate"]) = {}
  /\ \A id \in LiveMarks(t) : id < t.nextMark
  /\ \A w \in Buffers : Len(t.marks[w]) <= MaxMarkers
  /\ \A w \in Buffers : \A id \in MarkIds(t.marks[w]) : Placed(t, w, Index(t.marks[w])[id])
  /\ ~ t.alt => MarkIds(t.marks["alternate"]) = {}
\* The part of the invariant about the markers.
Kept(t) == IsTerm(t) /\ Registered(t)

\* Lengths are numbers.
LEMMA HeightOf ==
  ASSUME NEW t, IsTerm(t)
  PROVE  Height(t) \in Nat /\ Len(t.hist) \in Nat /\ Len(t.grid) \in Nat /\ Len(t.other) \in Nat
  <1>1. Len(t.hist) \in Nat /\ Len(t.grid) \in Nat /\ Len(t.other) \in Nat
    BY RowSeqs, LenProperties
  <1>2. PICK h \in Nat : h = Len(t.hist)
    BY <1>1
  <1>3. PICK g \in Nat : g = Len(t.grid)
    BY <1>1
  <1>4. Height(t) = h + g
    BY <1>2, <1>3 DEF Height
  <1>5. QED
    BY <1>1, <1>4

\* A quiet step keeps it.
LEMMA QuietKept ==
  ASSUME NEW s, NEW z, Quiet(s, z), Kept(s)
  PROVE  Kept(z)
  <1>1. IsTerm(z) /\ z.marks = s.marks /\ z.nextMark = s.nextMark /\ z.alt = s.alt /\ Len(z.hist) = Len(s.hist) /\ Len(z.grid) = Len(s.grid)
    BY DEF Quiet, SameShape, SameFeed
  <1>2. LiveMarks(z) = LiveMarks(s) /\ Height(z) = Height(s)
    BY <1>1 DEF LiveMarks, Height
  <1>3. QED
    BY <1>1, <1>2 DEF Kept, Registered, Placed

\* OnLines are the ids the index puts on those lines.
LEMMA OnLinesIs ==
  ASSUME NEW ms, MarkList(ms), NEW L
  PROVE  \A id \in MarkIds(ms) : id \in OnLines(ms, L) <=> Index(ms)[id] \in L
  <1>1. ASSUME NEW id \in MarkIds(ms) PROVE id \in OnLines(ms, L) <=> Index(ms)[id] \in L
    <2>1. PICK i \in DOMAIN ms : ms[i].id = id
      BY DEF MarkIds
    <2>2. Index(ms)[id] = ms[i].line
      BY <2>1, IndexIs
    <2>3. ASSUME id \in OnLines(ms, L) PROVE ms[i].line \in L
      <3>1. PICK j \in DOMAIN ms : ms[j].line \in L /\ ms[j].id = id
        BY <2>3 DEF OnLines
      <3>2. j = i
        BY <2>1, <3>1 DEF MarkList
      <3>3. QED
        BY <3>1, <3>2
    <2>4. ASSUME ms[i].line \in L PROVE id \in OnLines(ms, L)
      BY <2>1, <2>4 DEF OnLines
    <2>5. QED
      BY <2>2, <2>3, <2>4
  <1>2. QED
    BY <1>1

\* A line that is not dropped goes n up.
LEMMA RaisedIs ==
  ASSUME NEW n \in Nat
  PROVE  Raised(n) \in [Nat -> Nat] /\ \A l \in Nat : l \notin 0..(n - 1) => Raised(n)[l] + n = l
  <1>1. ASSUME NEW l \in Nat PROVE Less(l, n) \in Nat /\ (l \notin 0..(n - 1) => Less(l, n) + n = l)
    BY DEF Less
  <1>2. QED
    BY <1>1 DEF Raised

(* n lines left the front, and the markers on them *)
Evicted(t, z, n) ==
  /\ IsTerm(z) /\ SameShape(t, z)
  /\ z.nextMark = t.nextMark /\ z.evicted = t.evicted + n /\ z.epoch = t.epoch
  /\ \A w \in Buffers : MarkIds(z.marks[w]) \subseteq MarkIds(t.marks[w])
  /\ \A w \in Buffers : Len(z.marks[w]) <= Len(t.marks[w])
  /\ \A w \in Buffers : \A id \in MarkIds(z.marks[w]) : Index(z.marks[w])[id] + n = Index(t.marks[w])[id]
  /\ Tells(t, z, LiveMarks(t) \ LiveMarks(z))

\* The same without the total, as the markers' fixup alone does it.
Raises(t, z, n) ==
  /\ IsTerm(z) /\ SameShape(t, z)
  /\ z.nextMark = t.nextMark /\ z.evicted = t.evicted /\ z.epoch = t.epoch
  /\ \A w \in Buffers : MarkIds(z.marks[w]) \subseteq MarkIds(t.marks[w])
  /\ \A w \in Buffers : Len(z.marks[w]) <= Len(t.marks[w])
  /\ \A w \in Buffers : \A id \in MarkIds(z.marks[w]) : Index(z.marks[w])[id] + n = Index(t.marks[w])[id]
  /\ Tells(t, z, LiveMarks(t) \ LiveMarks(z))

\* markers_evict_oldest, on both lists.
LEMMA MarkersEvictIs ==
  ASSUME NEW t, IsTerm(t), NEW n \in Nat, MarkIds(t.marks["normal"]) \cap MarkIds(t.marks["alternate"]) = {}
  PROVE  Raises(t, MarkersEvict(t, n), n)
  <1>1. PICK g1 : g1 = OnLines(t.marks["normal"], 0..(n - 1))
    OBVIOUS
  <1>2. PICK u : u = Sift(t, "normal", g1, Raised(n))
    OBVIOUS
  <1>3. Sifted(t, u, "normal", g1, Raised(n))
    BY <1>2, SiftIs, RaisedIs DEF Buffers
  <1>4. PICK g2 : g2 = OnLines(u.marks["alternate"], 0..(n - 1))
    OBVIOUS
  <1>5. PICK z : z = Sift(u, "alternate", g2, Raised(n))
    OBVIOUS
  <1>6. Sifted(u, z, "alternate", g2, Raised(n))
    <2>1. IsTerm(u) /\ "alternate" \in Buffers
      BY <1>3 DEF Sifted, Buffers
    <2>2. QED
      BY <1>5, <2>1, SiftIs, RaisedIs
  <1>7. z = MarkersEvict(t, n)
    BY <1>1, <1>2, <1>4, <1>5 DEF MarkersEvict
  <1>8. u.marks["alternate"] = t.marks["alternate"] /\ z.marks["normal"] = u.marks["normal"]
    BY <1>3, <1>6 DEF Sifted, Buffers
  <1>9. MarkIds(u.marks["normal"]) = MarkIds(t.marks["normal"]) \ g1 /\ MarkIds(z.marks["alternate"]) = MarkIds(t.marks["alternate"]) \ g2
    BY <1>3, <1>6, <1>8 DEF Sifted
  <1>10. ASSUME NEW id \in MarkIds(z.marks["normal"]) PROVE Index(z.marks["normal"])[id] + n = Index(t.marks["normal"])[id]
    <2>1. id \in MarkIds(t.marks["normal"]) /\ id \notin g1
      BY <1>8, <1>9
    <2>2. Index(t.marks["normal"])[id] \in Nat /\ Index(t.marks["normal"])[id] \notin 0..(n - 1)
      BY <1>1, <2>1, MarksOf, OnLinesIs, IndexIs
    <2>3. Index(z.marks["normal"])[id] = Raised(n)[Index(t.marks["normal"])[id]]
      BY <1>3, <1>8 DEF Sifted
    <2>4. QED
      BY <2>2, <2>3, RaisedIs
  <1>11. ASSUME NEW id \in MarkIds(z.marks["alternate"]) PROVE Index(z.marks["alternate"])[id] + n = Index(t.marks["alternate"])[id]
    <2>1. id \in MarkIds(t.marks["alternate"]) /\ id \notin g2
      BY <1>9
    <2>2. Index(t.marks["alternate"])[id] \in Nat /\ Index(t.marks["alternate"])[id] \notin 0..(n - 1)
      BY <1>4, <1>8, <2>1, MarksOf, OnLinesIs, IndexIs
    <2>3. Index(z.marks["alternate"])[id] = Raised(n)[Index(t.marks["alternate"])[id]]
      BY <1>6, <1>8 DEF Sifted
    <2>4. QED
      BY <2>2, <2>3, RaisedIs
  <1>12. \A w \in Buffers : MarkIds(z.marks[w]) \subseteq MarkIds(t.marks[w])
    BY <1>8, <1>9 DEF Buffers
  <1>13. \A w \in Buffers : \A id \in MarkIds(z.marks[w]) : Index(z.marks[w])[id] + n = Index(t.marks[w])[id]
    BY <1>10, <1>11 DEF Buffers
  <1>14. \A w \in Buffers : Len(z.marks[w]) <= Len(t.marks[w])
    <2>1. Len(z.marks["normal"]) <= Len(t.marks["normal"]) /\ Len(z.marks["alternate"]) <= Len(t.marks["alternate"])
      BY <1>3, <1>6, <1>8 DEF Sifted
    <2>2. QED
      BY <2>1 DEF Buffers
  <1>15. Tells(t, z, LiveMarks(t) \ LiveMarks(z))
    <2>1. Tells(t, u, MarkIds(t.marks["normal"]) \cap g1) /\ Tells(u, z, MarkIds(t.marks["alternate"]) \cap g2)
      BY <1>3, <1>6, <1>8 DEF Sifted
    <2>2. LiveMarks(t) \ LiveMarks(z) = (MarkIds(t.marks["normal"]) \cap g1) \cup (MarkIds(t.marks["alternate"]) \cap g2)
      BY <1>8, <1>9 DEF LiveMarks
    <2>3. QED
      BY <2>1, <2>2, TellsOn
  <1>16. IsTerm(z) /\ SameShape(t, z) /\ z.nextMark = t.nextMark /\ z.evicted = t.evicted /\ z.epoch = t.epoch
    BY <1>3, <1>6 DEF Sifted, SameShape
  <1>17. QED
    BY <1>7, <1>12, <1>13, <1>14, <1>15, <1>16 DEF Raises

\* lines_left_the_front, with all three fixups.
LEMMA LinesLeftTheFrontIs ==
  ASSUME NEW t, IsTerm(t), NEW n \in Nat, MarkIds(t.marks["normal"]) \cap MarkIds(t.marks["alternate"]) = {}
  PROVE  Evicted(t, LinesLeftTheFront(t, n), n)
  <1>1. PICK a : a = [t EXCEPT !.evicted = @ + n]
    OBVIOUS
  <1>2. IsTerm(a) /\ SameShape(t, a) /\ a.marks = t.marks /\ a.nextMark = t.nextMark /\ a.evicted = t.evicted + n /\ a.epoch = t.epoch /\ a.out = t.out
    BY <1>1 DEF IsTerm, SameShape, TermFields
  <1>3. PICK b : b = SelectionEvict(a, n)
    OBVIOUS
  <1>4. Quiet(a, b)
    BY <1>2, <1>3, SelectionEvictQuiet
  <1>5. IsTerm(b) /\ SameShape(t, b) /\ b.marks = t.marks /\ b.nextMark = t.nextMark /\ b.evicted = t.evicted + n /\ b.epoch = t.epoch /\ b.out = t.out
    BY <1>2, <1>4 DEF Quiet, SameShape, SameFeed
  <1>6. PICK c : c = MarkersEvict(b, n)
    OBVIOUS
  <1>7. /\ IsTerm(c) /\ SameShape(b, c)
        /\ c.nextMark = b.nextMark /\ c.evicted = b.evicted /\ c.epoch = b.epoch
        /\ \A w \in Buffers : MarkIds(c.marks[w]) \subseteq MarkIds(b.marks[w])
        /\ \A w \in Buffers : Len(c.marks[w]) <= Len(b.marks[w])
        /\ \A w \in Buffers : \A id \in MarkIds(c.marks[w]) : Index(c.marks[w])[id] + n = Index(b.marks[w])[id]
        /\ Tells(b, c, LiveMarks(b) \ LiveMarks(c))
    <2>1. Raises(b, c, n)
      BY <1>5, <1>6, MarkersEvictIs
    <2>2. QED
      BY <2>1 DEF Raises
  <1>8. PICK d : d = TrackedEvict(c, n)
    OBVIOUS
  <1>9. Quiet(c, d)
    BY <1>7, <1>8, TrackedEvictQuiet
  <1>10. PICK z : z = Adopt(d)
    OBVIOUS
  <1>11. Quiet(d, z)
    BY <1>9, <1>10, AdoptQuiet DEF Quiet
  <1>12. Quiet(c, z)
    BY <1>9, <1>11, QuietOn
  <1>13. z = LinesLeftTheFront(t, n)
    BY <1>1, <1>3, <1>6, <1>8, <1>10 DEF LinesLeftTheFront
  <1>14. IsTerm(z) /\ SameShape(c, z) /\ z.marks = c.marks /\ z.nextMark = c.nextMark /\ z.evicted = c.evicted /\ z.epoch = c.epoch /\ z.out = c.out
    BY <1>12 DEF Quiet, SameFeed
  <1>15. LiveMarks(z) = LiveMarks(c) /\ LiveMarks(b) = LiveMarks(t)
    BY <1>5, <1>14 DEF LiveMarks
  <1>16. Tells(t, z, LiveMarks(t) \ LiveMarks(z))
    BY <1>5, <1>7, <1>14, <1>15 DEF Tells
  <1>17. SameShape(t, z)
    BY <1>5, <1>7, <1>14 DEF SameShape
  <1>18. QED
    BY <1>5, <1>7, <1>13, <1>14, <1>16, <1>17 DEF Evicted

\* From s, whose rows alone changed to make t, n lines leave.
LEMMA EvictedFeeds ==
  ASSUME NEW s, Kept(s), NEW t, IsTerm(t), SameFeed(s, t), t.alt = s.alt, NEW n \in Nat,
         Height(s) <= Height(t) + n, s.alt => Len(t.hist) + n <= Len(s.hist), NEW z, Evicted(t, z, n)
  PROVE  Kept(z) /\ Feeds(s, z)
  <1>1. /\ IsTerm(s) /\ t.marks = s.marks /\ t.nextMark = s.nextMark /\ t.evicted = s.evicted /\ t.epoch = s.epoch /\ t.out = s.out
        /\ LiveMarks(t) = LiveMarks(s) /\ Active(t) = Active(s)
    BY DEF SameFeed, LiveMarks, Active, Kept
  <1>2. /\ IsTerm(z) /\ z.nextMark = s.nextMark /\ z.evicted = s.evicted + n /\ z.epoch = s.epoch
        /\ z.alt = s.alt /\ Active(z) = Active(s) /\ Height(z) = Height(t) /\ Len(z.hist) = Len(t.hist)
        /\ \A w \in Buffers : MarkIds(z.marks[w]) \subseteq MarkIds(s.marks[w])
        /\ \A w \in Buffers : Len(z.marks[w]) <= Len(s.marks[w])
        /\ \A w \in Buffers : \A id \in MarkIds(z.marks[w]) : Index(z.marks[w])[id] + n = Index(s.marks[w])[id]
        /\ Tells(t, z, LiveMarks(s) \ LiveMarks(z))
    BY <1>1 DEF Evicted, SameShape, Active, Height
  <1>3. MarkIds(s.marks["normal"]) \cap MarkIds(s.marks["alternate"]) = {} /\ MarkIds(z.marks["normal"]) \subseteq MarkIds(s.marks["normal"]) /\ MarkIds(z.marks["alternate"]) \subseteq MarkIds(s.marks["alternate"])
    BY <1>2 DEF Kept, Registered, Buffers
  <1>4. PICK D : D = LiveMarks(s) \ LiveMarks(z)
    OBVIOUS
  <1>5. D \subseteq LiveMarks(s) /\ LiveMarks(z) = LiveMarks(s) \ D /\ LiveMarks(z) \subseteq LiveMarks(s)
    BY <1>3, <1>4 DEF LiveMarks
  <1>6. Tells(s, z, D)
    BY <1>1, <1>2, <1>4 DEF Tells
  <1>7. ActiveIds(z) = ActiveIds(s) \ D
    <2>1. Active(s) = "normal" \/ Active(s) = "alternate"
      BY DEF Active
    <2>2. QED
      BY <1>2, <1>3, <1>4, <2>1 DEF ActiveIds, LiveMarks
  <1>8. Counters(s) /\ Active(s) \in Buffers
    BY <1>1, CountersOf, MarksOf
  <1>9. z.evicted - s.evicted = n
    BY <1>2, <1>8 DEF Counters
  <1>10. \A id \in ActiveIds(z) : ActiveIndex(s)[id] = ActiveIndex(z)[id] + n
    BY <1>2, <1>8 DEF ActiveIds, ActiveIndex
  <1>11. Feeds(s, z)
    BY <1>2, <1>5, <1>6, <1>7, <1>8, <1>9, <1>10 DEF Feeds, Follows, Lifted, Counters
  <1>12. ASSUME NEW w \in Buffers, NEW id \in MarkIds(z.marks[w]) PROVE Placed(z, w, Index(z.marks[w])[id])
    <2>1. id \in MarkIds(s.marks[w]) /\ Index(z.marks[w])[id] + n = Index(s.marks[w])[id]
      BY <1>2
    <2>2. Placed(s, w, Index(s.marks[w])[id]) /\ (w = "alternate" => s.alt)
      BY <2>1 DEF Kept, Registered
    <2>3. Index(z.marks[w])[id] \in Nat
      <3>1. MarkList(z.marks[w])
        BY <1>2, MarksOf DEF Buffers
      <3>2. QED
        BY <3>1, IndexIs
    <2>4. Height(s) \in Nat /\ Height(t) \in Nat /\ Len(s.hist) \in Nat /\ Len(t.hist) \in Nat
      BY <1>1, HeightOf
    <2>5. Index(z.marks[w])[id] < Height(z)
      BY <1>2, <2>1, <2>2, <2>3, <2>4 DEF Placed
    <2>6. ASSUME w = "alternate" PROVE Len(z.hist) <= Index(z.marks[w])[id]
      <3>1. Len(t.hist) + n <= Len(s.hist) /\ Len(s.hist) <= Index(s.marks[w])[id]
        BY <2>2, <2>6 DEF Placed
      <3>2. QED
        BY <1>2, <2>1, <2>3, <2>4, <3>1
    <2>7. QED
      BY <2>5, <2>6 DEF Placed
  <1>13. ASSUME NEW w \in Buffers PROVE Len(z.marks[w]) <= MaxMarkers
    <2>1. Len(z.marks[w]) <= Len(s.marks[w]) /\ Len(s.marks[w]) <= MaxMarkers
      BY <1>2 DEF Kept, Registered
    <2>2. Len(z.marks[w]) \in Nat /\ Len(s.marks[w]) \in Nat /\ MaxMarkers \in Nat
      <3>1. MarkList(z.marks[w]) /\ MarkList(s.marks[w])
        BY <1>1, <1>2, MarksOf DEF Buffers
      <3>2. QED
        BY <3>1, AnchorConstants, ListLen
    <2>3. QED
      BY <2>1, <2>2, AtMost
  <1>14. \A id \in LiveMarks(z) : id < z.nextMark
    BY <1>2, <1>5 DEF Kept, Registered
  <1>15. ~ z.alt => MarkIds(z.marks["alternate"]) = {}
    BY <1>2, <1>3 DEF Kept, Registered
  <1>16. Registered(z)
    BY <1>3, <1>12, <1>13, <1>14, <1>15 DEF Registered
  <1>17. QED
    BY <1>2, <1>11, <1>16 DEF Kept

(* ---- one list sifted, and the epoch moved --------------------------------------- *)
\* D died, was announced, and the counters stand.
Loses(s, z, D) ==
  /\ D \subseteq LiveMarks(s) /\ LiveMarks(z) = LiveMarks(s) \ D
  /\ Tells(s, z, D)
  /\ z.nextMark = s.nextMark /\ s.evicted <= z.evicted /\ z.epoch = s.epoch

\* A sift that puts the survivors on lines of the buffer keeps the invariant.
LEMMA SiftKept ==
  ASSUME NEW s, Kept(s), NEW which \in Buffers, NEW gone, NEW move \in [Nat -> Nat], NEW z, Sifted(s, z, which, gone, move),
         \A id \in MarkIds(s.marks[which]) \ gone : Placed(s, which, move[Index(s.marks[which])[id]])
  PROVE  Kept(z) /\ Loses(s, z, MarkIds(s.marks[which]) \cap gone)
  <1>1. /\ IsTerm(s) /\ IsTerm(z) /\ z.nextMark = s.nextMark /\ z.evicted = s.evicted /\ z.epoch = s.epoch /\ z.alt = s.alt
        /\ \A w \in Buffers \ {which} : z.marks[w] = s.marks[w]
        /\ MarkIds(z.marks[which]) = MarkIds(s.marks[which]) \ gone
    BY DEF Sifted, SameShape, Kept
  <1>2. Height(z) = Height(s) /\ Len(z.hist) = Len(s.hist)
    BY DEF Sifted, SameShape, Height
  <1>3. MarkIds(s.marks["normal"]) \cap MarkIds(s.marks["alternate"]) = {}
    BY DEF Kept, Registered
  <1>4. which = "normal" \/ which = "alternate"
    BY DEF Buffers
  <1>5. PICK D : D = MarkIds(s.marks[which]) \cap gone
    OBVIOUS
  <1>6. D \subseteq LiveMarks(s) /\ LiveMarks(z) = LiveMarks(s) \ D
    BY <1>1, <1>3, <1>4, <1>5 DEF LiveMarks, Buffers
  <1>7. s.evicted <= z.evicted
    BY <1>1, CountersOf DEF Counters
  <1>8. Loses(s, z, D)
    <2>1. Tells(s, z, D)
      BY <1>5 DEF Sifted
    <2>2. QED
      BY <1>1, <1>6, <1>7, <2>1 DEF Loses
  <1>9. \A w \in Buffers : MarkIds(z.marks[w]) \subseteq MarkIds(s.marks[w])
    BY <1>1
  <1>10. \A w \in Buffers : \A id \in MarkIds(z.marks[w]) : Placed(z, w, Index(z.marks[w])[id])
    <2>1. ASSUME NEW w \in Buffers, NEW id \in MarkIds(z.marks[w]) PROVE Placed(z, w, Index(z.marks[w])[id])
      <3>1. CASE w = which
        BY <1>1, <1>2, <2>1, <3>1 DEF Sifted, Placed
      <3>2. CASE w # which
        BY <1>1, <1>2, <2>1, <3>2 DEF Kept, Registered, Placed
      <3>3. QED
        BY <3>1, <3>2
    <2>2. QED
      BY <2>1
  <1>11. ASSUME NEW w \in Buffers PROVE Len(z.marks[w]) <= MaxMarkers
    <2>1. Len(z.marks[w]) <= Len(s.marks[w]) /\ Len(s.marks[w]) <= MaxMarkers
      <3>1. Len(s.marks[w]) <= MaxMarkers
        BY DEF Kept, Registered
      <3>2. CASE w = which
        BY <3>1, <3>2 DEF Sifted
      <3>3. CASE w # which
        <4>1. z.marks[w] = s.marks[w] /\ MarkList(s.marks[w])
          BY <1>1, <3>3, MarksOf DEF Buffers
        <4>2. Len(s.marks[w]) \in Nat
          BY <4>1, ListLen
        <4>3. QED
          BY <3>1, <4>1, <4>2
      <3>4. QED
        BY <3>2, <3>3
    <2>2. Len(z.marks[w]) \in Nat /\ Len(s.marks[w]) \in Nat /\ MaxMarkers \in Nat
      <3>1. MarkList(z.marks[w]) /\ MarkList(s.marks[w])
        BY <1>1, MarksOf DEF Buffers
      <3>2. QED
        BY <3>1, AnchorConstants, ListLen
    <2>3. QED
      BY <2>1, <2>2, AtMost
  <1>12. \A id \in LiveMarks(z) : id < z.nextMark
    BY <1>1, <1>6 DEF Kept, Registered
  <1>13. ~ z.alt => MarkIds(z.marks["alternate"]) = {}
    BY <1>1, <1>9 DEF Kept, Registered, Buffers
  <1>14. MarkIds(z.marks["normal"]) \cap MarkIds(z.marks["alternate"]) = {}
    BY <1>3, <1>9 DEF Buffers
  <1>15. Registered(z)
    BY <1>10, <1>11, <1>12, <1>13, <1>14 DEF Registered
  <1>16. QED
    BY <1>1, <1>5, <1>8, <1>15 DEF Kept

\* Deaths the index follows can be followed.
LEMMA LosesFeeds ==
  ASSUME NEW s, NEW z, NEW D, Loses(s, z, D), IsTerm(s), Lifted(s, z, D, z.evicted - s.evicted)
  PROVE  Feeds(s, z)
  <1>1. Follows(s, z, D)
    BY DEF Loses, Follows
  <1>2. s.epoch <= z.epoch
    BY CountersOf DEF Loses, Counters
  <1>3. QED
    BY <1>1, <1>2 DEF Loses, Feeds

\* A bump of the epoch is only that.
LEMMA BumpIs ==
  ASSUME NEW z, IsTerm(z)
  PROVE  LET u == BumpEpoch(z) IN
         /\ IsTerm(u) /\ SameShape(z, u) /\ u.marks = z.marks /\ u.nextMark = z.nextMark
         /\ u.evicted = z.evicted /\ u.epoch = z.epoch + 1 /\ u.out = z.out
  BY DEF BumpEpoch, IsTerm, SameShape, TermFields

\* With the epoch moved, any deaths that were announced can be followed.
LEMMA BumpFeeds ==
  ASSUME NEW s, NEW z, NEW D, Loses(s, z, D), IsTerm(s), Kept(z)
  PROVE  Feeds(s, BumpEpoch(z)) /\ Kept(BumpEpoch(z))
  <1>1. PICK u : u = BumpEpoch(z)
    OBVIOUS
  <1>2. IsTerm(z) /\ IsTerm(u) /\ SameShape(z, u) /\ u.marks = z.marks /\ u.nextMark = z.nextMark /\ u.evicted = z.evicted /\ u.epoch = z.epoch + 1 /\ u.out = z.out
    BY <1>1, BumpIs DEF Kept
  <1>3. LiveMarks(u) = LiveMarks(z) /\ Height(u) = Height(z) /\ Len(u.hist) = Len(z.hist) /\ u.alt = z.alt
    BY <1>2 DEF LiveMarks, Height, SameShape
  <1>4. Counters(s) /\ Counters(z)
    BY <1>2, CountersOf
  <1>5. u.epoch # s.epoch /\ s.epoch <= u.epoch /\ s.evicted <= u.evicted
    BY <1>2, <1>4 DEF Loses, Counters
  <1>6. Tells(s, u, D)
    BY <1>2 DEF Loses, Tells
  <1>7. Follows(s, u, D)
    BY <1>3, <1>5, <1>6 DEF Loses, Follows
  <1>8. Feeds(s, u)
    BY <1>2, <1>5, <1>7 DEF Feeds, Loses
  <1>9. Kept(u)
    BY <1>2, <1>3 DEF Kept, Registered, Placed
  <1>10. QED
    BY <1>1, <1>8, <1>9

\* SiftIs and SiftKept in one.
LEMMA SiftAt ==
  ASSUME NEW s, Kept(s), NEW which \in Buffers, NEW gone, NEW move \in [Nat -> Nat],
         \A id \in MarkIds(s.marks[which]) \ gone : Placed(s, which, move[Index(s.marks[which])[id]])
  PROVE  LET z == Sift(s, which, gone, move) IN
         Sifted(s, z, which, gone, move) /\ Kept(z) /\ Loses(s, z, MarkIds(s.marks[which]) \cap gone)
  <1>1. Sifted(s, Sift(s, which, gone, move), which, gone, move)
    BY SiftIs DEF Kept
  <1>2. QED
    BY <1>1, SiftKept

\* A sift that moves none of the survivors.
LEMMA StillFeeds ==
  ASSUME NEW s, Kept(s), NEW which \in Buffers, NEW gone, NEW move, NEW z, Sifted(s, z, which, gone, move),
         Kept(z), Loses(s, z, MarkIds(s.marks[which]) \cap gone),
         \A id \in MarkIds(s.marks[which]) \ gone : move[Index(s.marks[which])[id]] = Index(s.marks[which])[id]
  PROVE  Feeds(s, z)
  <1>1. PICK D : D = MarkIds(s.marks[which]) \cap gone
    OBVIOUS
  <1>2. IsTerm(s) /\ IsTerm(z) /\ z.evicted = s.evicted /\ Active(z) = Active(s)
    BY DEF Sifted, SameShape, Kept, Active
  <1>3. MarkIds(s.marks["normal"]) \cap MarkIds(s.marks["alternate"]) = {}
    BY DEF Kept, Registered
  <1>4. /\ \A w \in Buffers \ {which} : z.marks[w] = s.marks[w]
        /\ MarkIds(z.marks[which]) = MarkIds(s.marks[which]) \ gone
        /\ \A id \in MarkIds(z.marks[which]) : Index(z.marks[which])[id] = move[Index(s.marks[which])[id]]
    BY DEF Sifted
  <1>5. (which = "normal" \/ which = "alternate") /\ (Active(s) = "normal" \/ Active(s) = "alternate")
    BY DEF Buffers, Active
  <1>6. ActiveIds(z) = ActiveIds(s) \ D
    <2>1. CASE Active(s) = which
      BY <1>1, <1>2, <1>4, <2>1 DEF ActiveIds
    <2>2. CASE Active(s) # which
      BY <1>1, <1>2, <1>3, <1>4, <1>5, <2>2 DEF ActiveIds, Buffers
    <2>3. QED
      BY <2>1, <2>2
  <1>7. ASSUME NEW id \in ActiveIds(z) PROVE ActiveIndex(s)[id] = ActiveIndex(z)[id]
    <2>1. CASE Active(s) = which
      BY <1>2, <1>4, <2>1 DEF ActiveIds, ActiveIndex
    <2>2. CASE Active(s) # which
      BY <1>2, <1>4, <1>5, <2>2 DEF ActiveIds, ActiveIndex, Buffers
    <2>3. QED
      BY <2>1, <2>2
  <1>8. \A id \in ActiveIds(z) : ActiveIndex(z)[id] \in Nat
    BY <1>2, MarksOf
  <1>9. z.evicted - s.evicted = 0
    BY <1>2, CountersOf DEF Counters
  <1>10. \A id \in ActiveIds(z) : ActiveIndex(s)[id] = ActiveIndex(z)[id] + 0
    BY <1>7, <1>8
  <1>11. Lifted(s, z, D, z.evicted - s.evicted)
    BY <1>6, <1>9, <1>10 DEF Lifted
  <1>12. QED
    BY <1>1, <1>2, <1>11, LosesFeeds

(* ---- rotates ---------------------------------------------------------------------- *)
\* Turned takes lines to lines.
LEMMA TurnedIs ==
  ASSUME NEW top \in Nat, NEW bottom \in Nat, NEW up \in BOOLEAN
  PROVE  Turned(top, bottom, up) \in [Nat -> Nat]
  <1>1. \A l \in Nat : Less(l, 1) \in Nat
    BY DEF Less
  <1>2. \A l \in Nat : (IF l < top \/ l > bottom THEN l ELSE IF up THEN Less(l, 1) ELSE l + 1) \in Nat
    BY <1>1
  <1>3. QED
    BY <1>2 DEF Turned

\* A line inside the region, not on the edge that falls, stays inside.
LEMMA TurnedInside ==
  ASSUME NEW top \in Nat, NEW bottom \in Nat, NEW up \in BOOLEAN, NEW l \in Nat, ~ (l < top \/ l > bottom),
         l # (IF up THEN top ELSE bottom)
  PROVE  top <= Turned(top, bottom, up)[l] /\ Turned(top, bottom, up)[l] <= bottom
  <1>1. Turned(top, bottom, up)[l] = IF up THEN Less(l, 1) ELSE l + 1
    BY DEF Turned
  <1>2. CASE up
    <2>1. top < l /\ l <= bottom
      BY <1>2
    <2>2. Turned(top, bottom, up)[l] = l - 1
      BY <1>1, <1>2, <2>1 DEF Less
    <2>3. QED
      BY <2>1, <2>2
  <1>3. CASE ~ up
    <2>1. top <= l /\ l < bottom
      BY <1>3
    <2>2. Turned(top, bottom, up)[l] = l + 1
      BY <1>1, <1>3
    <2>3. QED
      BY <2>1, <2>2
  <1>4. QED
    BY <1>2, <1>3

\* A line outside stays.
LEMMA TurnedOutside ==
  ASSUME NEW top \in Nat, NEW bottom \in Nat, NEW up \in BOOLEAN, NEW l \in Nat, l < top \/ l > bottom
  PROVE  Turned(top, bottom, up)[l] = l
  BY DEF Turned

\* What every verb that stays on its screen does.
Steady(s, z) == Kept(z) /\ Feeds(s, z) /\ SameShape(s, z) /\ z.evicted = s.evicted

\* markers_rotate_region: the epoch moves exactly when a survivor did.
LEMMA MarkersRotateFeeds ==
  ASSUME NEW t, Kept(t), NEW top \in Nat, NEW bottom \in Nat, NEW up \in BOOLEAN,
         Len(t.hist) <= top, top <= bottom, bottom < Height(t)
  PROVE  Steady(t, MarkersRotate(t, top, bottom, up))
  <1>1. PICK which \in Buffers : which = Active(t)
    BY MarksOf DEF Kept
  <1>2. PICK ms : ms = t.marks[which]
    OBVIOUS
  <1>3. PICK edge \in Nat : edge = IF up THEN top ELSE bottom
    OBVIOUS
  <1>4. PICK gone : gone = OnLines(ms, {edge})
    OBVIOUS
  <1>5. PICK move \in [Nat -> Nat] : move = Turned(top, bottom, up)
    BY TurnedIs
  <1>6. MarkList(ms) /\ IsTerm(t)
    BY <1>1, <1>2, MarksOf DEF Kept
  <1>7. Height(t) \in Nat /\ Len(t.hist) \in Nat
    BY <1>6, HeightOf
  <1>8. \A id \in MarkIds(ms) : Index(ms)[id] \in Nat /\ Placed(t, which, Index(ms)[id]) /\ (id \in gone <=> Index(ms)[id] = edge)
    <2>1. \A id \in MarkIds(ms) : Index(ms)[id] \in Nat
      BY <1>6, IndexIs
    <2>2. \A id \in MarkIds(ms) : Placed(t, which, Index(ms)[id])
      BY <1>2 DEF Kept, Registered
    <2>3. \A id \in MarkIds(ms) : id \in gone <=> Index(ms)[id] \in {edge}
      BY <1>4, <1>6, OnLinesIs
    <2>4. QED
      BY <2>1, <2>2, <2>3
  <1>9. ASSUME NEW id \in MarkIds(ms) \ gone PROVE Placed(t, which, move[Index(ms)[id]])
    <2>1. PICK l \in Nat : l = Index(ms)[id] /\ Placed(t, which, l) /\ l # edge
      BY <1>8
    <2>2. CASE l < top \/ l > bottom
      <3>1. Turned(top, bottom, up)[l] = l
        BY <2>2, TurnedOutside
      <3>2. QED
        BY <1>5, <2>1, <3>1
    <2>3. CASE ~ (l < top \/ l > bottom)
      <3>0. PICK m \in Nat : m = move[l]
        OBVIOUS
      <3>1. top <= m /\ m <= bottom
        <4>1. l # (IF up THEN top ELSE bottom)
          BY <1>3, <2>1
        <4>2. QED
          BY <1>5, <2>3, <3>0, <4>1, TurnedInside
      <3>2. Len(t.hist) <= m /\ m < Height(t)
        <4>1. PICK h \in Nat : h = Len(t.hist)
          BY <1>7
        <4>2. PICK e \in Nat : e = Height(t)
          BY <1>7
        <4>3. h <= top /\ bottom < e
          BY <4>1, <4>2
        <4>4. h <= m
          BY <3>1, <4>3, AtMost
        <4>5. m < e
          BY <3>1, <4>3, Beneath
        <4>6. QED
          BY <4>1, <4>2, <4>4, <4>5
      <3>3. QED
        BY <2>1, <3>0, <3>2 DEF Placed
    <2>4. QED
      BY <2>2, <2>3
  <1>10. PICK u : u = Sift(t, which, gone, move)
    OBVIOUS
  <1>11. Sifted(t, u, which, gone, move) /\ Kept(u) /\ Loses(t, u, MarkIds(ms) \cap gone)
    BY <1>2, <1>9, <1>10, SiftAt
  <1>12. PICK moved \in BOOLEAN : moved <=> OnLines(ms, (top..bottom) \ {edge}) # {}
    OBVIOUS
  <1>13. MarkersRotate(t, top, bottom, up) = IF moved THEN BumpEpoch(u) ELSE u
    BY <1>1, <1>2, <1>3, <1>4, <1>5, <1>10, <1>12 DEF MarkersRotate
  <1>14. SameShape(t, u) /\ IsTerm(u) /\ u.evicted = t.evicted
    BY <1>11 DEF Sifted
  <1>15. CASE moved
    <2>1. Feeds(t, BumpEpoch(u)) /\ Kept(BumpEpoch(u))
      BY <1>6, <1>11, BumpFeeds
    <2>2. SameShape(t, BumpEpoch(u)) /\ BumpEpoch(u).evicted = t.evicted
      BY <1>14, BumpIs DEF SameShape
    <2>3. QED
      BY <1>13, <1>15, <2>1, <2>2 DEF Steady
  <1>16. CASE ~ moved
    <2>1. ASSUME NEW id \in MarkIds(ms) \ gone PROVE move[Index(ms)[id]] = Index(ms)[id]
      <3>1. PICK l \in Nat : l = Index(ms)[id] /\ l # edge
        BY <1>8
      <3>2. id \notin OnLines(ms, (top..bottom) \ {edge})
        BY <1>12, <1>16
      <3>3. l \notin (top..bottom) \ {edge}
        BY <1>6, <3>1, <3>2, OnLinesIs
      <3>4. l < top \/ l > bottom
        <4>1. l \notin top..bottom
          BY <3>1, <3>3
        <4>2. QED
          BY <4>1
      <3>5. Turned(top, bottom, up)[l] = l
        BY <3>4, TurnedOutside
      <3>6. QED
        BY <1>5, <3>1, <3>5
    <2>2. Feeds(t, u)
      BY <1>2, <1>11, <2>1, StillFeeds
    <2>3. QED
      BY <1>11, <1>13, <1>14, <1>16, <2>2 DEF Steady
  <1>17. QED
    BY <1>15, <1>16

\* The screen's rows may be others.
LEMMA GridQuiet ==
  ASSUME NEW t, IsTerm(t), NEW g \in Seq(Row), Len(g) = Len(t.grid)
  PROVE  Quiet(t, [t EXCEPT !.grid = g])
  BY DEF Quiet, SameShape, SameFeed, IsTerm, TermFields

\* One such verb after another.
LEMMA StaysOn ==
  ASSUME NEW s, NEW u, NEW z, Kept(s), Steady(s, u), Steady(u, z)
  PROVE  Steady(s, z)
  <1>1. Feeds(s, z)
    BY FeedsOn DEF Steady, Kept
  <1>2. SameShape(s, z)
    BY DEF Steady, SameShape
  <1>3. QED
    BY <1>1, <1>2 DEF Steady

\* A quiet step is one.
LEMMA QuietStays ==
  ASSUME NEW s, NEW z, Kept(s), Quiet(s, z)
  PROVE  Steady(s, z)
  BY QuietKept, QuietFeeds DEF Steady, Quiet, SameFeed

\* A line of an in-screen scroll is one.
LEMMA RotateOnceStays ==
  ASSUME NEW t, Kept(t), NEW top \in Nat, NEW bottom \in Nat, NEW up \in BOOLEAN, top <= bottom, bottom < Len(t.grid)
  PROVE  Steady(t, RotateOnce(t, top, bottom, up))
  <1>1. IsTerm(t) /\ Len(t.hist) \in Nat /\ Len(t.grid) \in Nat
    BY HeightOf DEF Kept
  <1>2. PICK a \in Nat : a = Base(t) + top
    BY <1>1 DEF Base
  <1>3. PICK b \in Nat : b = Base(t) + bottom
    BY <1>1 DEF Base
  <1>4. a <= b /\ b < Height(t) /\ Len(t.hist) <= a
    <2>1. PICK h \in Nat : h = Len(t.hist)
      BY <1>1
    <2>2. PICK r \in Nat : r = Len(t.grid)
      BY <1>1
    <2>3. a = h + top /\ b = h + bottom /\ Height(t) = h + r /\ bottom < r
      BY <1>2, <1>3, <2>1, <2>2 DEF Base, Height
    <2>4. h <= a /\ a <= b /\ b < h + r
      BY <2>3
    <2>5. QED
      BY <2>1, <2>3, <2>4
  <1>5. PICK g : g = RotateRows(t.grid, top, bottom, up)
    OBVIOUS
  <1>6. PICK u : u = [t EXCEPT !.grid = g]
    OBVIOUS
  <1>7. Quiet(t, u)
    <2>1. g \in Seq(Row) /\ Len(g) = Len(t.grid)
      BY <1>1, <1>5, RotateRowsIs, RowSeqs
    <2>2. QED
      BY <1>1, <1>6, <2>1, GridQuiet
  <1>8. PICK v : v = SelectionRotate(u, a, b, up)
    OBVIOUS
  <1>9. Quiet(u, v)
    BY <1>7, <1>8, SelectionRotateQuiet DEF Quiet
  <1>10. Quiet(t, v) /\ Steady(t, v)
    BY <1>7, <1>9, QuietOn, QuietStays
  <1>11. PICK w : w = MarkersRotate(v, a, b, up)
    OBVIOUS
  <1>12. Steady(v, w)
    <2>1. Kept(v) /\ b < Height(v) /\ Len(v.hist) <= a
      BY <1>4, <1>10 DEF Steady, SameShape, Height
    <2>2. QED
      BY <1>4, <1>11, <2>1, MarkersRotateFeeds
  <1>13. PICK x : x = TrackedRotate(w, a, b, up)
    OBVIOUS
  <1>14. Quiet(w, x)
    BY <1>12, <1>13, TrackedRotateQuiet DEF Steady, Kept
  <1>15. PICK z : z = Adopt(x)
    OBVIOUS
  <1>16. Quiet(x, z)
    BY <1>14, <1>15, AdoptQuiet DEF Quiet
  <1>17. Steady(w, z)
    BY <1>12, <1>14, <1>16, QuietOn, QuietStays DEF Steady
  <1>18. z = RotateOnce(t, top, bottom, up)
    BY <1>2, <1>3, <1>5, <1>6, <1>8, <1>11, <1>13, <1>15 DEF RotateOnce
  <1>19. Kept(v)
    BY <1>10 DEF Steady
  <1>20. Steady(v, z)
    BY <1>12, <1>17, <1>19, StaysOn
  <1>21. Steady(t, z)
    BY <1>10, <1>20, StaysOn
  <1>22. QED
    BY <1>18, <1>21

(* ---- loops ------------------------------------------------------------------------ *)
\* The stages of a scroll of n lines.
Turning(h, t, top, bottom, up, n) ==
  h = [k \in 0..n |-> IF k = 0 THEN t ELSE RotateOnce(h[k - 1], top, bottom, up)]

\* There are such stages.
LEMMA TurningExists ==
  ASSUME NEW t, NEW top, NEW bottom, NEW up, NEW n \in Nat
  PROVE  \E h : Turning(h, t, top, bottom, up, n)
  <1> DEFINE T == {m \in Nat : ~ \E h : Turning(h, t, top, bottom, up, m)}
  <1>1. SUFFICES ASSUME T # {} PROVE FALSE
    OBVIOUS
  <1>2. PICK m \in T : \A j \in T : m <= j
    <2>1. T \in SUBSET Nat
      OBVIOUS
    <2>2. QED
      BY <1>1, <2>1, Smallest
  <1>3. CASE m = 0
    <2>1. PICK h : h = [k \in 0..0 |-> t]
      OBVIOUS
    <2>2. [k \in 0..0 |-> IF k = 0 THEN t ELSE RotateOnce(h[k - 1], top, bottom, up)] = [k \in 0..0 |-> t]
      OBVIOUS
    <2>3. Turning(h, t, top, bottom, up, 0)
      BY <2>1, <2>2 DEF Turning
    <2>4. QED
      BY <1>2, <1>3, <2>3
  <1>4. CASE m # 0
    <2>1. PICK j \in Nat : m = j + 1
      BY <1>2, <1>4
    <2>2. PICK f : Turning(f, t, top, bottom, up, j)
      BY <1>2, <2>1
    <2>3. PICK last : last = RotateOnce(f[j], top, bottom, up)
      OBVIOUS
    <2>4. PICK h : h = [k \in 0..m |-> IF k = m THEN last ELSE f[k]]
      OBVIOUS
    <2>5. \A k \in 0..j : h[k] = f[k] /\ f[k] = IF k = 0 THEN t ELSE RotateOnce(f[k - 1], top, bottom, up)
      <3>1. \A k \in 0..j : k \in 0..m /\ k # m
        BY <2>1
      <3>2. \A k \in 0..j : f[k] = IF k = 0 THEN t ELSE RotateOnce(f[k - 1], top, bottom, up)
        BY <2>2 DEF Turning
      <3>3. QED
        BY <2>4, <3>1, <3>2
    <2>6. ASSUME NEW k \in 0..m PROVE h[k] = IF k = 0 THEN t ELSE RotateOnce(h[k - 1], top, bottom, up)
      <3>1. CASE k = m
        <4>1. k # 0 /\ k - 1 = j /\ j \in 0..j /\ h[k] = last
          BY <2>1, <2>4, <3>1
        <4>2. QED
          BY <2>3, <2>5, <4>1
      <3>2. CASE k # m
        <4>1. k \in 0..j /\ (k # 0 => k - 1 \in 0..j)
          BY <2>1, <3>2
        <4>2. QED
          BY <2>5, <4>1
      <3>3. QED
        BY <3>1, <3>2
    <2>7. Turning(h, t, top, bottom, up, m)
      <3>1. h = [k \in 0..m |-> h[k]]
        BY <2>4
      <3>2. [k \in 0..m |-> h[k]] = [k \in 0..m |-> IF k = 0 THEN t ELSE RotateOnce(h[k - 1], top, bottom, up)]
        BY <2>6
      <3>3. QED
        BY <3>1, <3>2 DEF Turning
    <2>8. QED
      BY <1>2, <2>7
  <1>5. QED
    BY <1>3, <1>4

\* scroll_region_lines.
LEMMA ScrollStays ==
  ASSUME NEW t, Kept(t), NEW top \in Nat, NEW bottom \in Nat, NEW n \in Nat, NEW up \in BOOLEAN, top <= bottom, bottom < Len(t.grid)
  PROVE  Steady(t, ScrollRegionLines(t, top, bottom, n, up))
  <1>0. PICK times : times = Clamp(n, bottom - top + 1)
    OBVIOUS
  <1>1. times \in Nat
    <2>1. PICK m \in Nat : m = bottom - top + 1
      OBVIOUS
    <2>2. times = Clamp(n, m)
      BY <1>0, <2>1
    <2>3. QED
      BY <2>2 DEF Clamp
  <1> DEFINE step(f) == [k \in 0..times |-> IF k = 0 THEN t ELSE RotateOnce(f[k - 1], top, bottom, up)]
  <1>a. PICK h : Turning(h, t, top, bottom, up, times)
    BY <1>1, TurningExists
  <1>2. h = step(h)
    BY <1>a DEF Turning
  <1>3. PICK u : u = CHOOSE f : f = step(f)
    OBVIOUS
  <1>4. u = step(u)
    BY <1>2, <1>3
  <1>5. ScrollRegionLines(t, top, bottom, n, up) = u[times]
    BY <1>0, <1>3 DEF ScrollRegionLines
  <1> HIDE DEF step
  <1>b. \A k \in 0..times : u[k] = IF k = 0 THEN t ELSE RotateOnce(u[k - 1], top, bottom, up)
    <2>1. u = step(u)
      BY <1>4
    <2>2. QED
      BY <2>1 DEF step
  <1>6. u[0] = t /\ \A k \in 1..times : u[k] = RotateOnce(u[k - 1], top, bottom, up)
    <2>2. 0 \in 0..times /\ \A k \in 1..times : k \in 0..times /\ k # 0
      BY <1>1
    <2>3. QED
      BY <1>b, <2>2
  <1> DEFINE P == {k \in 0..times : Steady(t, u[k])}
  <1>7. 0 \in P
    <2>1. Steady(t, t)
      BY QuietHere, QuietStays DEF Kept
    <2>2. QED
      BY <1>1, <1>6, <2>1
  <1>8. ASSUME NEW k \in 1..times, k - 1 \in P PROVE k \in P
    <2>1. PICK v : v = u[k - 1]
      OBVIOUS
    <2>2. Steady(t, v)
      BY <1>8, <2>1
    <2>3. Kept(v) /\ bottom < Len(v.grid)
      BY <2>2 DEF Steady, SameShape
    <2>4. Steady(v, RotateOnce(v, top, bottom, up))
      BY <2>3, RotateOnceStays
    <2>5. Steady(t, RotateOnce(v, top, bottom, up))
      BY <2>2, <2>4, StaysOn
    <2>6. k \in 0..times
      BY <1>1
    <2>7. QED
      BY <1>6, <2>1, <2>5, <2>6
  <1>9. \A k \in 0..times : k \in P
    BY <1>1, <1>7, <1>8, StaysCounting
  <1>10. times \in 0..times
    BY <1>1
  <1>11. QED
    BY <1>5, <1>9, <1>10

\* A sift that moves nothing.
LEMMA SiftStays ==
  ASSUME NEW t, Kept(t), NEW which \in Buffers, NEW gone
  PROVE  Steady(t, Sift(t, which, gone, Still))
  <1>1. PICK u : u = Sift(t, which, gone, Still)
    OBVIOUS
  <1>2. Still \in [Nat -> Nat] /\ \A l \in Nat : Still[l] = l
    BY DEF Still
  <1>3. MarkList(t.marks[which]) /\ IsTerm(t)
    BY MarksOf DEF Kept, Buffers
  <1>4. \A id \in MarkIds(t.marks[which]) : Index(t.marks[which])[id] \in Nat /\ Placed(t, which, Index(t.marks[which])[id])
    <2>1. \A id \in MarkIds(t.marks[which]) : Placed(t, which, Index(t.marks[which])[id])
      BY DEF Kept, Registered
    <2>2. QED
      BY <1>3, <2>1, IndexIs
  <1>5. \A id \in MarkIds(t.marks[which]) \ gone : Still[Index(t.marks[which])[id]] = Index(t.marks[which])[id]
    BY <1>2, <1>4
  <1>6. Sifted(t, u, which, gone, Still) /\ Kept(u) /\ Loses(t, u, MarkIds(t.marks[which]) \cap gone)
    <2>1. \A id \in MarkIds(t.marks[which]) \ gone : Placed(t, which, Still[Index(t.marks[which])[id]])
      BY <1>4, <1>5
    <2>2. QED
      BY <1>1, <1>2, <2>1, SiftAt
  <1>7. Feeds(t, u)
    BY <1>5, <1>6, StillFeeds
  <1>8. QED
    BY <1>1, <1>6, <1>7 DEF Steady, Sifted

\* dispose_markers_on_row, on a row of the screen.
LEMMA DisposeStays ==
  ASSUME NEW t, Kept(t), NEW row \in Nat, row < Len(t.grid)
  PROVE  Steady(t, DisposeOnRow(t, row))
  <1>1. PICK which \in Buffers : which = Active(t)
    BY MarksOf DEF Kept
  <1>2. PICK gone : gone = OnLines(t.marks[which], {Base(t) + row})
    OBVIOUS
  <1>3. PICK u : u = Sift(t, which, gone, Still)
    OBVIOUS
  <1>8. Steady(t, u) /\ Kept(u)
    BY <1>3, SiftStays DEF Steady
  <1>10. PICK g : g = [u.grid EXCEPT ![row + 1] = {tag \in @ : tag[1] # "mark"}]
    OBVIOUS
  <1>11. g \in Seq(Row) /\ Len(g) = Len(u.grid)
    <2>1. u.grid \in Seq(Row) /\ IsTerm(u)
      BY <1>8, RowSeqs DEF Kept
    <2>2. PICK n \in Nat : n = Len(u.grid) /\ DOMAIN u.grid = 1..n /\ u.grid \in [1..n -> Row]
      BY <2>1, LenProperties
    <2>3. \A r \in Row : {tag \in r : tag[1] # "mark"} \in Row
      BY DEF Row
    <2>4. g \in [1..n -> Row]
      BY <1>10, <2>2, <2>3
    <2>5. QED
      BY <2>2, <2>4, MapIsSeq
  <1>12. PICK z : z = [u EXCEPT !.grid = g]
    OBVIOUS
  <1>13. Quiet(u, z)
    BY <1>8, <1>11, <1>12, GridQuiet DEF Kept
  <1>14. Steady(t, z)
    BY <1>8, <1>13, QuietStays, StaysOn
  <1>15. z = DisposeOnRow(t, row)
    BY <1>1, <1>2, <1>3, <1>10, <1>12 DEF DisposeOnRow
  <1>16. QED
    BY <1>14, <1>15

\* The stages of blanking n rows.
Blanking(h, t, first, n) ==
  h = [k \in 0..n |-> IF k = 0 THEN t ELSE DisposeOnRow(h[k - 1], first + k - 1)]

\* There are such stages.
LEMMA BlankingExists ==
  ASSUME NEW t, NEW first, NEW n \in Nat
  PROVE  \E h : Blanking(h, t, first, n)
  <1> DEFINE T == {m \in Nat : ~ \E h : Blanking(h, t, first, m)}
  <1>1. SUFFICES ASSUME T # {} PROVE FALSE
    OBVIOUS
  <1>2. PICK m \in T : \A j \in T : m <= j
    <2>1. T \in SUBSET Nat
      OBVIOUS
    <2>2. QED
      BY <1>1, <2>1, Smallest
  <1>3. CASE m = 0
    <2>1. PICK h : h = [k \in 0..0 |-> t]
      OBVIOUS
    <2>2. [k \in 0..0 |-> IF k = 0 THEN t ELSE DisposeOnRow(h[k - 1], first + k - 1)] = [k \in 0..0 |-> t]
      OBVIOUS
    <2>3. Blanking(h, t, first, 0)
      BY <2>1, <2>2 DEF Blanking
    <2>4. QED
      BY <1>2, <1>3, <2>3
  <1>4. CASE m # 0
    <2>1. PICK j \in Nat : m = j + 1
      BY <1>2, <1>4
    <2>2. PICK f : Blanking(f, t, first, j)
      BY <1>2, <2>1
    <2>3. PICK last : last = DisposeOnRow(f[j], first + m - 1)
      OBVIOUS
    <2>4. PICK h : h = [k \in 0..m |-> IF k = m THEN last ELSE f[k]]
      OBVIOUS
    <2>5. \A k \in 0..j : h[k] = f[k] /\ f[k] = IF k = 0 THEN t ELSE DisposeOnRow(f[k - 1], first + k - 1)
      <3>1. \A k \in 0..j : k \in 0..m /\ k # m
        BY <2>1
      <3>2. \A k \in 0..j : f[k] = IF k = 0 THEN t ELSE DisposeOnRow(f[k - 1], first + k - 1)
        BY <2>2 DEF Blanking
      <3>3. QED
        BY <2>4, <3>1, <3>2
    <2>6. ASSUME NEW k \in 0..m PROVE h[k] = IF k = 0 THEN t ELSE DisposeOnRow(h[k - 1], first + k - 1)
      <3>1. CASE k = m
        <4>1. k # 0 /\ k - 1 = j /\ j \in 0..j /\ h[k] = last
          BY <2>1, <2>4, <3>1
        <4>2. QED
          BY <2>3, <2>5, <3>1, <4>1
      <3>2. CASE k # m
        <4>1. k \in 0..j /\ (k # 0 => k - 1 \in 0..j)
          BY <2>1, <3>2
        <4>2. QED
          BY <2>5, <4>1
      <3>3. QED
        BY <3>1, <3>2
    <2>7. Blanking(h, t, first, m)
      <3>1. h = [k \in 0..m |-> h[k]]
        BY <2>4
      <3>2. [k \in 0..m |-> h[k]] = [k \in 0..m |-> IF k = 0 THEN t ELSE DisposeOnRow(h[k - 1], first + k - 1)]
        BY <2>6
      <3>3. QED
        BY <3>1, <3>2 DEF Blanking
    <2>8. QED
      BY <1>2, <2>7
  <1>5. QED
    BY <1>3, <1>4

\* Rows blanked whole, one after another.
LEMMA BlankStays ==
  ASSUME NEW t, Kept(t), NEW first \in Nat, NEW last \in Nat, last < Len(t.grid)
  PROVE  Steady(t, BlankRows(t, first, last))
  <1>0. PICK times : times = Less(last + 1, first)
    OBVIOUS
  <1>1. times \in Nat /\ \A k \in 1..times : first + k - 1 \in Nat /\ first + k - 1 <= last
    <2>1. PICK m \in Nat : m = last + 1
      OBVIOUS
    <2>2. times = Less(m, first)
      BY <1>0, <2>1
    <2>3. CASE m > first
      <3>1. times = m - first
        BY <2>2, <2>3 DEF Less
      <3>2. times \in Nat
        BY <2>3, <3>1
      <3>3. QED
        BY <2>1, <3>1, <3>2
    <2>4. CASE ~ (m > first)
      <3>1. times = 0
        BY <2>2, <2>4 DEF Less
      <3>2. QED
        BY <3>1
    <2>5. QED
      BY <2>3, <2>4
  <1> DEFINE step(f) == [k \in 0..times |-> IF k = 0 THEN t ELSE DisposeOnRow(f[k - 1], first + k - 1)]
  <1>a. PICK h : Blanking(h, t, first, times)
    BY <1>1, BlankingExists
  <1>2. h = step(h)
    BY <1>a DEF Blanking
  <1>3. PICK u : u = CHOOSE f : f = step(f)
    OBVIOUS
  <1>4. u = step(u)
    BY <1>2, <1>3
  <1>5. BlankRows(t, first, last) = u[times]
    BY <1>0, <1>3 DEF BlankRows
  <1> HIDE DEF step
  <1>b. \A k \in 0..times : u[k] = IF k = 0 THEN t ELSE DisposeOnRow(u[k - 1], first + k - 1)
    <2>1. u = step(u)
      BY <1>4
    <2>2. QED
      BY <2>1 DEF step
  <1>6. u[0] = t /\ \A k \in 1..times : u[k] = DisposeOnRow(u[k - 1], first + k - 1)
    <2>2. 0 \in 0..times /\ \A k \in 1..times : k \in 0..times /\ k # 0
      BY <1>1
    <2>3. QED
      BY <1>b, <2>2
  <1> DEFINE P == {k \in 0..times : Steady(t, u[k])}
  <1>7. 0 \in P
    <2>1. Steady(t, t)
      BY QuietHere, QuietStays DEF Kept
    <2>2. QED
      BY <1>1, <1>6, <2>1
  <1>8. ASSUME NEW k \in 1..times, k - 1 \in P PROVE k \in P
    <2>1. PICK v : v = u[k - 1]
      OBVIOUS
    <2>2. Steady(t, v)
      BY <1>8, <2>1
    <2>a. PICK row \in Nat : row = first + k - 1 /\ row <= last
      BY <1>1
    <2>3. Kept(v) /\ row < Len(v.grid)
      <3>1. Kept(v) /\ last < Len(v.grid)
        BY <2>2 DEF Steady, SameShape
      <3>2. PICK r \in Nat : r = Len(v.grid)
        BY <3>1, HeightOf DEF Kept
      <3>3. row < r
        BY <2>a, <3>1, <3>2, Beneath
      <3>4. QED
        BY <3>1, <3>2, <3>3
    <2>4. Steady(v, DisposeOnRow(v, row))
      BY <2>3, DisposeStays
    <2>5. Steady(t, DisposeOnRow(v, row))
      BY <2>2, <2>4, StaysOn
    <2>6. k \in 0..times
      BY <1>1
    <2>7. QED
      BY <1>6, <2>1, <2>a, <2>5, <2>6
  <1>9. \A k \in 0..times : k \in P
    BY <1>1, <1>7, <1>8, StaysCounting
  <1>10. times \in 0..times
    BY <1>1
  <1>11. QED
    BY <1>5, <1>9, <1>10

(* ---- a call, and the step of the feed it is --------------------------------------- *)
\* The part of the invariant about the screen's shape.
Screened(t) ==
  /\ 1 <= Len(t.grid) /\ Len(t.grid) <= MaxRows
  /\ Len(t.other) = Len(t.grid)
  /\ t.row < Len(t.grid) /\ t.saved < Len(t.grid)
  /\ ~ t.alt => t.saved = 0
  /\ t.top <= t.bottom /\ t.bottom < Len(t.grid)
  /\ Len(t.hist) <= Limit
\* The inductive invariant.
Fed(t) == Kept(t) /\ Screened(t)
\* A part of a call that keeps the invariant, can be followed, and drops no
\* more lines than there were.
Goes(s, z) == Fed(z) /\ Feeds(s, z) /\ z.evicted <= s.evicted + (Limit + MaxRows)

\* What the constants are.
LEMMA Bounds ==
  Limit \in Nat /\ MaxRows \in Nat /\ MaxMarkers \in Nat /\ MaxMarkers >= 1 /\ MaxCount \in Nat
  BY AnchorConstants

\* The buffer is no taller than its limits.
LEMMA FedHeight ==
  ASSUME NEW t, Fed(t)
  PROVE  Height(t) \in Nat /\ Height(t) <= Limit + MaxRows /\ 1 <= Height(t)
  <1>1. Len(t.hist) \in Nat /\ Len(t.grid) \in Nat
    BY HeightOf DEF Fed, Kept
  <1>2. PICK h \in Nat : h = Len(t.hist)
    BY <1>1
  <1>3. PICK g \in Nat : g = Len(t.grid)
    BY <1>1
  <1>4. h <= Limit /\ 1 <= g /\ g <= MaxRows
    BY <1>2, <1>3 DEF Fed, Screened
  <1>5. h + g <= Limit + MaxRows /\ 1 <= h + g
    BY <1>4, Bounds
  <1>6. Height(t) = h + g
    BY <1>2, <1>3 DEF Height
  <1>7. QED
    BY <1>5, <1>6

\* A verb that stays on its screen is such a part.
LEMMA SteadyGoes ==
  ASSUME NEW s, NEW z, Fed(s), Steady(s, z)
  PROVE  Goes(s, z)
  <1>1. Fed(z) /\ Feeds(s, z) /\ z.evicted = s.evicted
    BY DEF Fed, Steady, Screened, SameShape
  <1>2. s.evicted <= s.evicted + (Limit + MaxRows)
    <2>1. PICK e \in Nat : e = s.evicted
      BY CountersOf DEF Fed, Kept, Counters
    <2>2. e <= e + (Limit + MaxRows)
      BY Bounds
    <2>3. QED
      BY <2>1, <2>2
  <1>3. QED
    BY <1>1, <1>2 DEF Goes

\* A call starts with its events drained.
LEMMA NowIs ==
  ASSUME Fed(term)
  PROVE  /\ Fed(now) /\ now.out = <<>> /\ now.alt = term.alt /\ now.row = term.row /\ now.top = term.top /\ now.bottom = term.bottom
         /\ now.grid = term.grid /\ now.hist = term.hist /\ now.other = term.other
         /\ now.marks = term.marks /\ now.evicted = term.evicted /\ now.epoch = term.epoch /\ now.nextMark = term.nextMark
         /\ LiveMarks(now) = LiveMarks(term) /\ ActiveIndex(now) = ActiveIndex(term) /\ ActiveIds(now) = ActiveIds(term)
  <1>0. IsTerm(term) /\ <<>> \in Seq(Event)
    BY DEF Fed, Kept
  <1>1. PICK z : z = now
    OBVIOUS
  <1>2. z = [term EXCEPT !.out = <<>>]
    BY <1>1 DEF now
  <1>3. IsTerm(z) /\ SameShape(term, z) /\ z.marks = term.marks /\ z.evicted = term.evicted /\ z.epoch = term.epoch /\ z.nextMark = term.nextMark /\ z.out = <<>>
    BY <1>0, <1>2 DEF IsTerm, SameShape, TermFields
  <1>4. z.grid = term.grid /\ z.hist = term.hist /\ z.other = term.other /\ z.alt = term.alt /\ z.row = term.row /\ z.top = term.top /\ z.bottom = term.bottom
    BY <1>0, <1>2 DEF IsTerm, TermFields
  <1>5. LiveMarks(z) = LiveMarks(term) /\ ActiveIndex(z) = ActiveIndex(term) /\ ActiveIds(z) = ActiveIds(term) /\ Height(z) = Height(term)
    BY <1>3, <1>4 DEF LiveMarks, ActiveIndex, ActiveIds, Active, Height
  <1>6. Kept(z)
    BY <1>3, <1>4, <1>5 DEF Fed, Kept, Registered, Placed
  <1>7. Fed(z)
    BY <1>3, <1>6 DEF Fed, Screened, SameShape
  <1>8. QED
    BY <1>1, <1>3, <1>4, <1>5, <1>7

\* What a call without a birth announced is what the feed allows.
LEMMA TellsDeaths ==
  ASSUME NEW s, NEW z, NEW D, s.out = <<>>, Tells(s, z, D)
  PROVE  z.out \in Feed!Deaths(D)
  <1>1. PICK ids : ListOf(ids, D) /\ z.out = s.out \o Roll(ids)
    BY DEF Tells
  <1>2. Roll(ids) \in Seq(Event)
    BY <1>1, RollIsEvents
  <1>3. z.out = Roll(ids)
    BY <1>1, <1>2, ConcatEmptySeq
  <1>4. QED
    BY <1>1, <1>3, RollIsDeaths

\* A call without a birth is the feed's Retire or Disturb, or a stutter.
LEMMA FeedStep ==
  ASSUME Fed(term), NEW z, Goes(now, z), Call(z)
  PROVE  Feed!FeedNext /\ Fed(term')
  <1>1. PICK s : s = now
    OBVIOUS
  <1>2. /\ Fed(s) /\ s.out = <<>> /\ s.evicted = term.evicted /\ s.epoch = term.epoch /\ s.nextMark = term.nextMark
        /\ LiveMarks(s) = LiveMarks(term) /\ ActiveIndex(s) = ActiveIndex(term) /\ ActiveIds(s) = ActiveIds(term)
    BY <1>1, NowIs
  <1>3. term' = z /\ z.evicted <= MaxCount /\ z.epoch <= MaxCount /\ z.nextMark <= MaxCount
    BY DEF Call
  <1>4. Fed(z) /\ Feeds(s, z) /\ z.evicted <= s.evicted + (Limit + MaxRows)
    BY <1>1 DEF Goes
  <1>5. PICK D : Follows(s, z, D)
    BY <1>4 DEF Feeds
  <1>6. z.nextMark = s.nextMark /\ s.evicted <= z.evicted /\ s.epoch <= z.epoch
    BY <1>4 DEF Feeds
  <1>7. Counters(s) /\ Counters(z) /\ IsTerm(s) /\ IsTerm(z)
    BY <1>2, <1>4, CountersOf DEF Fed, Kept
  <1>8. D \subseteq LiveMarks(s) /\ LiveMarks(z) = LiveMarks(s) \ D /\ z.out \in Feed!Deaths(D)
    BY <1>2, <1>5, TellsDeaths DEF Follows
  <1>9. ActiveIndex(z) \in [ActiveIds(z) -> Nat] /\ ActiveIds(z) \subseteq LiveMarks(z) /\ ActiveIndex(s) \in [ActiveIds(s) -> Nat]
    BY <1>7, MarksOf
  <1>10. /\ ActiveIndex(term') = ActiveIndex(z) /\ LiveMarks(term') = LiveMarks(z) /\ term'.nextMark = z.nextMark
         /\ term'.evicted = z.evicted /\ term'.epoch = z.epoch /\ term'.out = z.out
    BY <1>3
  <1>11. CASE z.epoch = s.epoch
    <2>1. PICK n \in Nat : n = z.evicted - s.evicted
      BY <1>6, <1>7 DEF Counters
    <2>2. s.evicted + n = z.evicted /\ n \in 0..(Limit + MaxRows) /\ z.evicted \in 0..MaxCount
      <3>1. PICK e \in Nat : e = s.evicted
        BY <1>7 DEF Counters
      <3>2. PICK f \in Nat : f = z.evicted
        BY <1>7 DEF Counters
      <3>3. n = f - e /\ f <= e + (Limit + MaxRows) /\ f <= MaxCount
        BY <1>3, <1>4, <2>1, <3>1, <3>2
      <3>4. e + n = f /\ n \in 0..(Limit + MaxRows) /\ f \in 0..MaxCount
        BY <3>3, Bounds
      <3>5. QED
        BY <3>1, <3>2, <3>4
    <2>3. Lifted(s, z, D, n)
      BY <1>5, <1>11, <2>1 DEF Follows
    <2>4. PICK kept : kept = ActiveIds(s) \ D
      OBVIOUS
    <2>5. ActiveIds(z) = kept /\ \A id \in kept : ActiveIndex(s)[id] = ActiveIndex(z)[id] + n /\ ActiveIndex(z)[id] \in Nat
      BY <1>9, <2>3, <2>4 DEF Lifted
    <2>6. \A id \in kept : ActiveIndex(s)[id] >= n /\ ActiveIndex(s)[id] - n = ActiveIndex(z)[id]
      BY <2>5
    <2>7. ActiveIndex(z) = [id \in kept |-> ActiveIndex(s)[id] - n]
      BY <1>9, <2>5, <2>6
    <2>8. DOMAIN ActiveIndex(term) \ D = kept
      BY <1>2, <1>9, <2>4
    <2>9. Feed!Retire(n, D)
      BY <1>2, <1>6, <1>8, <1>10, <1>11, <2>2, <2>6, <2>7, <2>8 DEF Feed!Retire
    <2>10. D \in SUBSET LiveMarks(term)
      BY <1>2, <1>8
    <2>11. QED
      BY <1>3, <1>4, <2>2, <2>9, <2>10 DEF Feed!FeedNext
  <1>12. CASE z.epoch # s.epoch
    <2>1. z.epoch \in 0..MaxCount /\ z.epoch > s.epoch /\ z.evicted \in 0..MaxCount
      BY <1>3, <1>6, <1>7, <1>12, Bounds DEF Counters
    <2>2. ActiveIndex(z) \in [ActiveIds(z) -> 0..(Limit + MaxRows)]
      <3>1. ASSUME NEW id \in ActiveIds(z) PROVE ActiveIndex(z)[id] \in 0..(Limit + MaxRows)
        <4>1. Placed(z, Active(z), ActiveIndex(z)[id])
          <5>1. Active(z) \in Buffers
            BY <1>7, MarksOf
          <5>2. QED
            BY <1>4, <3>1, <5>1 DEF Fed, Kept, Registered, ActiveIds, ActiveIndex
        <4>2. PICK l \in Nat : l = ActiveIndex(z)[id]
          BY <1>9, <3>1
        <4>3. PICK h \in Nat : h = Height(z) /\ h <= Limit + MaxRows
          BY <1>4, FedHeight
        <4>4. l < h
          BY <4>1, <4>2, <4>3 DEF Placed
        <4>5. l \in 0..(Limit + MaxRows)
          BY <4>3, <4>4, Bounds
        <4>6. QED
          BY <4>2, <4>5
      <3>2. QED
        BY <1>9, <3>1
    <2>3. ActiveIds(z) \in SUBSET (LiveMarks(s) \ D)
      BY <1>8, <1>9
    <2>4. ActiveIndex(z) \in Feed!Indexes(LiveMarks(s) \ D)
      BY <2>2, <2>3 DEF Feed!Indexes
    <2>5. Feed!Disturb(D)
      BY <1>2, <1>6, <1>8, <1>10, <2>1, <2>4 DEF Feed!Disturb
    <2>6. D \in SUBSET LiveMarks(term)
      BY <1>2, <1>8
    <2>7. QED
      BY <1>3, <1>4, <2>5, <2>6 DEF Feed!FeedNext
  <1>13. QED
    BY <1>11, <1>12

(* ---- a birth ------------------------------------------------------------------------ *)
\* A list parted after its first k markers.
Cut(ms, a, b, k) ==
  /\ MarkList(a) /\ MarkList(b) /\ Len(b) = Len(ms) - k
  /\ MarkIds(a) \cap MarkIds(b) = {} /\ MarkIds(a) \cup MarkIds(b) = MarkIds(ms)
  /\ \A id \in MarkIds(b) : Index(b)[id] = Index(ms)[id]

\* SubSeq parts it.
LEMMA CutIs ==
  ASSUME NEW ms, MarkList(ms), NEW k \in Nat, k <= Len(ms)
  PROVE  Cut(ms, SubSeq(ms, 1, k), SubSeq(ms, k + 1, Len(ms)), k)
  <1>1. PICK n \in Nat : n = Len(ms) /\ DOMAIN ms = 1..n /\ k <= n /\ \A i \in 1..n : ms[i] \in Marker
    BY LenProperties DEF MarkList
  <1>2. PICK a : a = SubSeq(ms, 1, k)
    OBVIOUS
  <1>3. PICK b : b = SubSeq(ms, k + 1, n)
    OBVIOUS
  <1>4. a \in Seq(Marker) /\ Len(a) = k /\ DOMAIN a = 1..k /\ \A i \in 1..k : a[i] = ms[i]
    <2>1. \A i \in 1..k : ms[i] \in Marker
      BY <1>1
    <2>2. SubSeq(ms, 1, k) \in Seq(Marker) /\ Len(SubSeq(ms, 1, k)) = (IF 1 <= k THEN k - 1 + 1 ELSE 0) /\ \A i \in 1..(k - 1 + 1) : SubSeq(ms, 1, k)[i] = ms[1 + i - 1]
      BY <2>1, SubSeqProperties
    <2>3. (IF 1 <= k THEN k - 1 + 1 ELSE 0) = k /\ k - 1 + 1 = k /\ \A i \in 1..k : 1 + i - 1 = i
      OBVIOUS
    <2>4. QED
      BY <1>2, <2>2, <2>3, LenProperties
  <1>5. b \in Seq(Marker) /\ Len(b) = n - k /\ DOMAIN b = 1..(n - k) /\ \A i \in 1..(n - k) : b[i] = ms[k + i]
    <2>1. \A i \in (k + 1)..n : ms[i] \in Marker
      BY <1>1
    <2>2. SubSeq(ms, k + 1, n) \in Seq(Marker) /\ Len(SubSeq(ms, k + 1, n)) = (IF k + 1 <= n THEN n - (k + 1) + 1 ELSE 0) /\ \A i \in 1..(n - (k + 1) + 1) : SubSeq(ms, k + 1, n)[i] = ms[k + 1 + i - 1]
      BY <2>1, SubSeqProperties
    <2>3. (IF k + 1 <= n THEN n - (k + 1) + 1 ELSE 0) = n - k /\ n - (k + 1) + 1 = n - k /\ \A i \in 1..(n - k) : k + 1 + i - 1 = k + i
      BY <1>1
    <2>4. QED
      BY <1>3, <2>2, <2>3, LenProperties
  <1>6. MarkList(a)
    <2>1. \A i \in DOMAIN a : i \in DOMAIN ms
      BY <1>1, <1>4
    <2>2. QED
      BY <1>4, <2>1 DEF MarkList
  <1>7. MarkList(b)
    <2>1. \A i \in DOMAIN b : k + i \in DOMAIN ms
      BY <1>1, <1>5
    <2>2. ASSUME NEW i \in DOMAIN b, NEW j \in DOMAIN b, b[i].id = b[j].id PROVE i = j
      <3>1. k + i = k + j
        BY <1>5, <2>1, <2>2 DEF MarkList
      <3>2. QED
        BY <1>5, <3>1
    <2>3. QED
      BY <1>5, <2>2 DEF MarkList
  <1>8. MarkIds(a) \cap MarkIds(b) = {}
    <2>1. SUFFICES ASSUME NEW id \in MarkIds(a), id \in MarkIds(b) PROVE FALSE
      OBVIOUS
    <2>2. PICK i \in DOMAIN a : a[i].id = id
      BY DEF MarkIds
    <2>3. PICK j \in DOMAIN b : b[j].id = id
      BY <2>1 DEF MarkIds
    <2>4. i \in DOMAIN ms /\ k + j \in DOMAIN ms /\ i # k + j
      BY <1>1, <1>4, <1>5
    <2>5. ms[i].id = ms[k + j].id
      BY <1>4, <1>5, <2>2, <2>3
    <2>6. QED
      BY <2>4, <2>5 DEF MarkList
  <1>9. MarkIds(a) \cup MarkIds(b) = MarkIds(ms)
    <2>1. ASSUME NEW id \in MarkIds(a) PROVE id \in MarkIds(ms)
      <3>1. PICK i \in DOMAIN a : a[i].id = id
        BY DEF MarkIds
      <3>2. i \in DOMAIN ms /\ ms[i].id = id
        BY <1>1, <1>4, <3>1
      <3>3. QED
        BY <3>2 DEF MarkIds
    <2>2. ASSUME NEW id \in MarkIds(b) PROVE id \in MarkIds(ms)
      <3>1. PICK i \in DOMAIN b : b[i].id = id
        BY DEF MarkIds
      <3>2. k + i \in DOMAIN ms /\ ms[k + i].id = id
        BY <1>1, <1>5, <3>1
      <3>3. QED
        BY <3>2 DEF MarkIds
    <2>3. ASSUME NEW id \in MarkIds(ms) PROVE id \in MarkIds(a) \cup MarkIds(b)
      <3>1. PICK i \in 1..n : ms[i].id = id
        BY <1>1 DEF MarkIds
      <3>2. CASE i <= k
        <4>1. i \in DOMAIN a /\ a[i].id = id
          BY <1>4, <3>1, <3>2
        <4>2. QED
          BY <4>1 DEF MarkIds
      <3>3. CASE ~ (i <= k)
        <4>1. PICK j \in 1..(n - k) : k + j = i
          BY <1>1, <3>3
        <4>2. j \in DOMAIN b /\ b[j].id = id
          BY <1>5, <3>1, <4>1
        <4>3. QED
          BY <4>2 DEF MarkIds
      <3>4. QED
        BY <3>2, <3>3
    <2>4. QED
      BY <2>1, <2>2, <2>3
  <1>10. ASSUME NEW id \in MarkIds(b) PROVE Index(b)[id] = Index(ms)[id]
    <2>1. PICK i \in DOMAIN b : b[i].id = id
      BY DEF MarkIds
    <2>2. k + i \in DOMAIN ms /\ ms[k + i] = b[i]
      BY <1>1, <1>5
    <2>3. Index(b)[id] = b[i].line
      BY <1>7, <2>1, IndexIs
    <2>4. Index(ms)[id] = ms[k + i].line
      BY <2>1, <2>2, IndexIs
    <2>5. QED
      BY <2>2, <2>3, <2>4
  <1>11. Cut(ms, a, b, k)
    BY <1>1, <1>5, <1>6, <1>7, <1>8, <1>9, <1>10 DEF Cut
  <1>12. QED
    BY <1>1, <1>2, <1>3, <1>11

\* A list with one marker more.
Joins(ms, z, id, line) ==
  /\ MarkList(z) /\ Len(z) = Len(ms) + 1 /\ MarkIds(z) = MarkIds(ms) \cup {id}
  /\ Index(z)[id] = line /\ \A x \in MarkIds(ms) : Index(z)[x] = Index(ms)[x]

\* Append gives it.
LEMMA JoinIs ==
  ASSUME NEW ms, MarkList(ms), NEW id \in Nat, id \notin MarkIds(ms), NEW line \in Nat
  PROVE  Joins(ms, Append(ms, [id |-> id, line |-> line]), id, line)
  <1>1. PICK n \in Nat : n = Len(ms) /\ DOMAIN ms = 1..n /\ ms \in Seq(Marker)
    BY LenProperties DEF MarkList
  <1>2. PICK m \in Marker : m = [id |-> id, line |-> line]
    BY DEF Marker
  <1>3. m.id = id /\ m.line = line
    BY <1>2
  <1>4. PICK z : z = Append(ms, m)
    OBVIOUS
  <1>5. z \in Seq(Marker) /\ Len(z) = n + 1 /\ DOMAIN z = 1..(n + 1) /\ z[n + 1] = m /\ \A i \in 1..n : z[i] = ms[i]
    BY <1>1, <1>4, AppendProperties, LenProperties
  <1>6. \A i \in 1..n : z[i].id \in MarkIds(ms) /\ z[i].id # id
    BY <1>1, <1>5 DEF MarkIds
  <1>7. MarkList(z)
    <2>1. ASSUME NEW i \in DOMAIN z, NEW j \in DOMAIN z, z[i].id = z[j].id PROVE i = j
      <3>1. CASE i \in 1..n /\ j \in 1..n
        BY <1>1, <1>5, <2>1, <3>1 DEF MarkList
      <3>2. CASE i \notin 1..n /\ j \notin 1..n
        BY <1>5, <3>2
      <3>3. CASE i \in 1..n /\ j \notin 1..n
        <4>1. j = n + 1
          BY <1>5, <3>3
        <4>2. QED
          BY <1>3, <1>5, <1>6, <2>1, <3>3, <4>1
      <3>4. CASE i \notin 1..n /\ j \in 1..n
        <4>1. i = n + 1
          BY <1>5, <3>4
        <4>2. QED
          BY <1>3, <1>5, <1>6, <2>1, <3>4, <4>1
      <3>5. QED
        BY <3>1, <3>2, <3>3, <3>4
    <2>2. QED
      BY <1>5, <2>1 DEF MarkList
  <1>8. MarkIds(z) = MarkIds(ms) \cup {id}
    <2>1. ASSUME NEW x \in MarkIds(z) PROVE x \in MarkIds(ms) \cup {id}
      <3>1. PICK i \in DOMAIN z : z[i].id = x
        BY DEF MarkIds
      <3>2. i \in 1..n \/ i = n + 1
        BY <1>5
      <3>3. QED
        BY <1>3, <1>5, <1>6, <3>1, <3>2
    <2>2. ASSUME NEW x \in MarkIds(ms) PROVE x \in MarkIds(z)
      <3>1. PICK i \in 1..n : ms[i].id = x
        BY <1>1 DEF MarkIds
      <3>2. i \in DOMAIN z /\ z[i].id = x
        BY <1>5, <3>1
      <3>3. QED
        BY <3>2 DEF MarkIds
    <2>3. id \in MarkIds(z)
      <3>1. n + 1 \in DOMAIN z /\ z[n + 1].id = id
        BY <1>3, <1>5
      <3>2. QED
        BY <3>1 DEF MarkIds
    <2>4. QED
      BY <2>1, <2>2, <2>3
  <1>9. Index(z)[id] = line
    <2>1. n + 1 \in DOMAIN z /\ z[n + 1].id = id /\ z[n + 1].line = line
      BY <1>3, <1>5
    <2>2. Index(z)[z[n + 1].id] = z[n + 1].line
      BY <1>7, <2>1, IndexIs
    <2>3. QED
      BY <2>1, <2>2
  <1>10. ASSUME NEW x \in MarkIds(ms) PROVE Index(z)[x] = Index(ms)[x]
    <2>1. PICK i \in 1..n : ms[i].id = x
      BY <1>1 DEF MarkIds
    <2>2. i \in DOMAIN z /\ z[i] = ms[i]
      BY <1>5
    <2>3. Index(z)[z[i].id] = z[i].line
      BY <1>7, <2>2, IndexIs
    <2>4. Index(ms)[ms[i].id] = ms[i].line
      BY <1>1, IndexIs
    <2>5. QED
      BY <2>1, <2>2, <2>3, <2>4
  <1>11. Joins(ms, z, id, line)
    BY <1>1, <1>5, <1>7, <1>8, <1>9, <1>10 DEF Joins
  <1>12. QED
    BY <1>2, <1>4, <1>11

\* The birth a new marker is announced with.
BornEvent(s, line) ==
  [kind |-> "created", id |-> s.nextMark, line |-> line, evicted |-> s.evicted, epoch |-> s.epoch]
\* What push_marker does: the oldest give way and are announced before the
\* birth, on the active list alone.
Bears(s, z, line, D) ==
  /\ Kept(z) /\ SameShape(s, z)
  /\ z.nextMark = s.nextMark + 1 /\ z.evicted = s.evicted /\ z.epoch = s.epoch
  /\ D \subseteq ActiveIds(s)
  /\ LiveMarks(z) = (LiveMarks(s) \ D) \cup {s.nextMark}
  /\ ActiveIds(z) = (ActiveIds(s) \ D) \cup {s.nextMark}
  /\ ActiveIndex(z)[s.nextMark] = line
  /\ \A x \in ActiveIds(s) \ D : ActiveIndex(z)[x] = ActiveIndex(s)[x]
  /\ \E ids : ListOf(ids, D) /\ z.out = Append(s.out \o Roll(ids), BornEvent(s, line))

\* Rows of which one carries a new holder are rows.
LEMMA CarryIs ==
  ASSUME NEW rows \in Seq(Row), NEW tag \in Tags, NEW base, NEW line
  PROVE  Carry(rows, base, line, tag) \in Seq(Row) /\ Len(Carry(rows, base, line, tag)) = Len(rows)
  <1>1. PICK n \in Nat : n = Len(rows) /\ DOMAIN rows = 1..n
    BY LenProperties
  <1>2. \A i \in 1..n : rows[i] \in Row /\ rows[i] \cup {tag} \in Row
    BY <1>1 DEF Row
  <1>3. Carry(rows, base, line, tag) \in [1..n -> Row]
    BY <1>1, <1>2 DEF Carry
  <1>4. QED
    BY <1>1, <1>3, MapIsSeq

\* push_marker does it, and keeps the invariant.
LEMMA PushMarkerBears ==
  ASSUME NEW t, Kept(t), NEW line \in Nat, Placed(t, Active(t), line)
  PROVE  \E D : Bears(t, PushMarker(t, line), line, D)
  <1>1. PICK which \in Buffers : which = Active(t)
    BY MarksOf DEF Kept
  <1>2. PICK ms : ms = t.marks[which]
    OBVIOUS
  <1>3. MarkList(ms) /\ IsTerm(t) /\ Len(ms) \in Nat /\ Len(ms) <= MaxMarkers
    <2>1. MarkList(ms) /\ IsTerm(t)
      BY <1>1, <1>2, MarksOf DEF Kept
    <2>2. Len(ms) <= MaxMarkers
      BY <1>2 DEF Kept, Registered
    <2>3. QED
      BY <2>1, <2>2, ListLen
  <1>4. PICK n \in Nat : n = Len(ms)
    BY <1>3
  <1>5. PICK over \in Nat : over = (IF n >= MaxMarkers THEN n - MaxMarkers + 1 ELSE 0) /\ over <= n /\ n - over + 1 <= MaxMarkers
    <2>1. n <= MaxMarkers
      BY <1>3, <1>4
    <2>2. CASE n >= MaxMarkers
      <3>1. n = MaxMarkers /\ n - MaxMarkers + 1 = 1 /\ 1 <= n /\ n - 1 + 1 <= MaxMarkers
        BY <2>1, <2>2, Bounds
      <3>2. QED
        BY <2>2, <3>1
    <2>3. CASE ~ (n >= MaxMarkers)
      <3>1. n - 0 + 1 <= MaxMarkers
        BY <2>3, Bounds
      <3>2. QED
        BY <2>3, <3>1
    <2>4. QED
      BY <2>2, <2>3
  <1>6. PICK retired : retired = SubSeq(ms, 1, over)
    OBVIOUS
  <1>7. PICK stay : stay = SubSeq(ms, over + 1, n)
    OBVIOUS
  <1>8. Cut(ms, retired, stay, over)
    BY <1>3, <1>4, <1>5, <1>6, <1>7, CutIs
  <1>9. PICK id \in Nat : id = t.nextMark
    BY <1>3 DEF IsTerm
  <1>10. id \notin LiveMarks(t) /\ MarkIds(ms) \subseteq LiveMarks(t)
    <2>1. \A x \in LiveMarks(t) : x < id
      BY <1>9 DEF Kept, Registered
    <2>2. id \notin LiveMarks(t)
      BY <2>1
    <2>3. QED
      BY <1>1, <1>2, <1>3, <2>2, MarksOf DEF ActiveIds
  <1>11. PICK new : new = Append(stay, [id |-> id, line |-> line])
    OBVIOUS
  <1>12. Joins(stay, new, id, line)
    BY <1>8, <1>10, <1>11, JoinIs DEF Cut
  <1>13. PICK D : D = MarkIds(retired)
    OBVIOUS
  <1>14. PICK ids : ListOf(ids, D) /\ Fallen(retired) = Roll(ids)
    BY <1>8, <1>13, FallenAre DEF Cut
  <1>15. PICK a : a = Announce(t, retired)
    OBVIOUS
  <1>16. PICK told : told = t.out \o Roll(ids)
    OBVIOUS
  <1>17. told \in Seq(Event)
    <2>1. Roll(ids) \in Seq(Event)
      BY <1>14, RollIsEvents
    <2>2. QED
      BY <1>3, <1>16, <2>1, OutOf, ConcatProperties
  <1>18. a = [t EXCEPT !.out = told]
    BY <1>14, <1>15, <1>16 DEF Announce, Fallen
  <1>19. IsTerm(a) /\ SameShape(t, a) /\ a.marks = t.marks /\ a.nextMark = t.nextMark /\ a.evicted = t.evicted /\ a.epoch = t.epoch /\ a.out = told
    BY <1>3, <1>17, <1>18 DEF IsTerm, SameShape, TermFields
  <1>20. PICK u : u = Forget(a, {Mark(x) : x \in MarkIds(retired)})
    OBVIOUS
  <1>21. Quiet(a, u)
    BY <1>19, <1>20, ForgetQuiet
  <1>22. IsTerm(u) /\ SameShape(t, u) /\ u.marks = t.marks /\ u.nextMark = t.nextMark /\ u.evicted = t.evicted /\ u.epoch = t.epoch /\ u.out = told
    BY <1>19, <1>21 DEF Quiet, SameShape, SameFeed
  <1>23. PICK born \in Event : born = BornEvent(t, line)
    <2>1. t.nextMark \in Nat /\ t.evicted \in Nat /\ t.epoch \in Nat
      BY <1>3 DEF IsTerm
    <2>2. BornEvent(t, line) \in Event
      BY <2>1 DEF BornEvent, Event
    <2>3. QED
      BY <2>2
  <1>24. PICK out \in Seq(Event) : out = Append(told, born)
    <2>1. Append(told, born) \in Seq(Event)
      BY <1>17, AppendProperties
    <2>2. QED
      BY <2>1
  <1>25. PICK h : h = Carry(u.hist, 0, line, Mark(id))
    OBVIOUS
  <1>26. PICK g : g = Carry(u.grid, Base(t), line, Mark(id))
    OBVIOUS
  <1>27. h \in Seq(Row) /\ Len(h) = Len(u.hist) /\ g \in Seq(Row) /\ Len(g) = Len(u.grid)
    <2>1. Mark(id) \in Tags
      BY DEF Mark, Tags
    <2>2. QED
      BY <1>22, <1>25, <1>26, <2>1, RowSeqs, CarryIs
  <1>28. PICK M : M = [u.marks EXCEPT ![which] = new]
    OBVIOUS
  <1>29. DOMAIN M = Buffers /\ M[which] = new /\ \A w \in Buffers \ {which} : M[w] = t.marks[w]
    BY <1>22, <1>28 DEF IsTerm
  <1>30. MarkList(M.normal) /\ MarkList(M.alternate)
    BY <1>3, <1>12, <1>29 DEF IsTerm, Buffers, Joins
  <1>31. PICK z : z = [u EXCEPT !.marks = M, !.nextMark = id + 1, !.out = out, !.hist = h, !.grid = g]
    OBVIOUS
  <1>32. IsTerm(z) /\ SameShape(t, z) /\ z.nextMark = id + 1 /\ z.evicted = t.evicted /\ z.epoch = t.epoch /\ z.marks = M /\ z.out = out
    <2>1. /\ DOMAIN z = TermFields /\ z.marks = M /\ z.nextMark = id + 1 /\ z.out = out /\ z.hist = h /\ z.grid = g
          /\ z.other = u.other /\ z.alt = u.alt /\ z.row = u.row /\ z.saved = u.saved /\ z.top = u.top /\ z.bottom = u.bottom
          /\ z.points = u.points /\ z.nextPoint = u.nextPoint /\ z.evicted = u.evicted /\ z.epoch = u.epoch
      <3>1. DOMAIN u = TermFields
        BY <1>22 DEF IsTerm
      <3>2. QED
        BY <1>31, <3>1 DEF TermFields
    <2>2. IsTerm(u)
      BY <1>22
    <2>3. IsTerm(z)
      BY <1>27, <1>29, <1>30, <2>1, <2>2 DEF IsTerm
    <2>4. SameShape(u, z)
      BY <1>27, <2>1 DEF SameShape
    <2>5. SameShape(t, z)
      BY <1>22, <2>4 DEF SameShape
    <2>6. QED
      BY <1>22, <2>1, <2>3, <2>5
  <1>33. z = PushMarker(t, line)
    <2>1. u.marks[which] = ms /\ stay = SubSeq(u.marks[which], over + 1, n) /\ u.out = told
      BY <1>2, <1>7, <1>22
    <2>2. z = [u EXCEPT !.marks[which] = Append(SubSeq(@, over + 1, n), [id |-> id, line |-> line]), !.nextMark = id + 1, !.out = Append(@, born), !.hist = h, !.grid = g]
      BY <1>11, <1>24, <1>28, <1>31, <2>1
    <2>3. QED
      BY <1>1, <1>2, <1>4, <1>5, <1>6, <1>9, <1>15, <1>20, <1>23, <1>25, <1>26, <2>2 DEF PushMarker, BornEvent
  <1>34. D \subseteq MarkIds(ms) /\ MarkIds(new) = (MarkIds(ms) \ D) \cup {id}
    BY <1>8, <1>12, <1>13 DEF Cut, Joins
  <1>35. MarkIds(t.marks["normal"]) \cap MarkIds(t.marks["alternate"]) = {} /\ (which = "normal" \/ which = "alternate")
    BY DEF Kept, Registered, Buffers
  <1>36. LiveMarks(z) = (LiveMarks(t) \ D) \cup {id} /\ MarkIds(z.marks["normal"]) \cap MarkIds(z.marks["alternate"]) = {}
    BY <1>2, <1>10, <1>29, <1>32, <1>34, <1>35 DEF LiveMarks, Buffers
  <1>37. Active(z) = which /\ z.alt = t.alt /\ Height(z) = Height(t) /\ Len(z.hist) = Len(t.hist)
    BY <1>1, <1>32 DEF Active, SameShape, Height
  <1>38. ActiveIds(t) = MarkIds(ms) /\ ActiveIndex(t) = Index(ms) /\ ActiveIds(z) = MarkIds(new) /\ ActiveIndex(z) = Index(new)
    BY <1>1, <1>2, <1>29, <1>32, <1>37 DEF ActiveIds, ActiveIndex
  <1>39. Index(new)[id] = line /\ \A x \in MarkIds(ms) \ D : Index(new)[x] = Index(ms)[x]
    <2>1. MarkIds(stay) = MarkIds(ms) \ D
      BY <1>8, <1>13 DEF Cut
    <2>2. QED
      BY <1>8, <1>12, <2>1 DEF Cut, Joins
  <1>40. Registered(z)
    <2>1. \A x \in LiveMarks(z) : x < z.nextMark
      <3>1. ASSUME NEW x \in LiveMarks(z) PROVE x < id + 1
        <4>1. CASE x = id
          BY <4>1
        <4>2. CASE x # id
          <5>1. x \in LiveMarks(t)
            BY <1>36, <4>2
          <5>2. x < id /\ x \in Nat
            BY <1>3, <1>9, <5>1, MarksOf DEF Kept, Registered
          <5>3. QED
            BY <5>2
        <4>3. QED
          BY <4>1, <4>2
      <3>2. QED
        BY <1>32, <3>1
    <2>2. ASSUME NEW w \in Buffers PROVE Len(z.marks[w]) <= MaxMarkers
      <3>1. CASE w = which
        <4>1. Len(new) = n - over + 1
          BY <1>4, <1>8, <1>12 DEF Cut, Joins
        <4>2. QED
          BY <1>5, <1>29, <1>32, <3>1, <4>1
      <3>2. CASE w # which
        BY <1>29, <1>32, <3>2 DEF Kept, Registered
      <3>3. QED
        BY <3>1, <3>2
    <2>3. ASSUME NEW w \in Buffers, NEW x \in MarkIds(z.marks[w]) PROVE Placed(z, w, Index(z.marks[w])[x])
      <3>1. CASE w = which /\ x = id
        BY <1>1, <1>29, <1>32, <1>37, <1>39, <3>1 DEF Placed
      <3>2. CASE w = which /\ x # id
        <4>1. x \in MarkIds(ms) \ D /\ Index(z.marks[w])[x] = Index(ms)[x]
          BY <1>29, <1>32, <1>34, <1>39, <2>3, <3>2
        <4>2. Placed(t, which, Index(ms)[x])
          BY <1>2, <4>1 DEF Kept, Registered
        <4>3. QED
          BY <1>37, <3>2, <4>1, <4>2 DEF Placed
      <3>3. CASE w # which
        <4>1. z.marks[w] = t.marks[w]
          BY <1>29, <1>32, <3>3
        <4>2. Placed(t, w, Index(t.marks[w])[x])
          BY <2>3, <4>1 DEF Kept, Registered
        <4>3. QED
          BY <1>37, <4>1, <4>2 DEF Placed
      <3>4. QED
        BY <3>1, <3>2, <3>3
    <2>4. ~ z.alt => MarkIds(z.marks["alternate"]) = {}
      <3>1. ASSUME ~ z.alt PROVE MarkIds(z.marks["alternate"]) = {}
        <4>1. which = "normal" /\ ~ t.alt
          BY <1>1, <1>37, <3>1 DEF Active
        <4>2. z.marks["alternate"] = t.marks["alternate"]
          BY <1>29, <1>32, <4>1 DEF Buffers
        <4>3. QED
          BY <4>1, <4>2 DEF Kept, Registered
      <3>2. QED
        BY <3>1
    <2>5. QED
      BY <1>36, <2>1, <2>2, <2>3, <2>4 DEF Registered
  <1>41. ListOf(ids, D) /\ z.out = Append(t.out \o Roll(ids), BornEvent(t, line))
    BY <1>14, <1>16, <1>23, <1>24, <1>32
  <1>42. Bears(t, z, line, D)
    BY <1>9, <1>32, <1>34, <1>36, <1>38, <1>39, <1>40, <1>41 DEF Bears, Kept
  <1>43. QED
    BY <1>33, <1>42

\* A call with a birth is the feed's Birth.
LEMMA BirthStep ==
  ASSUME Fed(term), NEW line \in Nat, Placed(now, Active(now), line), Call(PushMarker(now, line))
  PROVE  Feed!FeedNext /\ Fed(term')
  <1>1. PICK s : s = now
    OBVIOUS
  <1>2. /\ Fed(s) /\ s.out = <<>> /\ s.evicted = term.evicted /\ s.epoch = term.epoch /\ s.nextMark = term.nextMark
        /\ LiveMarks(s) = LiveMarks(term) /\ ActiveIndex(s) = ActiveIndex(term) /\ ActiveIds(s) = ActiveIds(term)
    BY <1>1, NowIs
  <1>3. PICK z : z = PushMarker(s, line)
    OBVIOUS
  <1>4. PICK D : Bears(s, z, line, D)
    BY <1>1, <1>2, <1>3, PushMarkerBears DEF Fed
  <1>5. term' = z /\ z.nextMark <= MaxCount
    BY <1>1, <1>3 DEF Call
  <1>6. Kept(z) /\ SameShape(s, z) /\ z.nextMark = s.nextMark + 1 /\ z.evicted = s.evicted /\ z.epoch = s.epoch
    BY <1>4 DEF Bears
  <1>7. Fed(z)
    BY <1>2, <1>6 DEF Fed, Screened, SameShape
  <1>8. Counters(s) /\ IsTerm(s) /\ IsTerm(z)
    BY <1>2, <1>6, CountersOf DEF Fed, Kept
  <1>9. PICK id \in Nat : id = s.nextMark
    BY <1>8 DEF Counters
  <1>10. id \in 0..MaxCount
    BY <1>5, <1>6, <1>9, Bounds
  <1>11. line \in 0..(Limit + MaxRows)
    <2>1. PICK h \in Nat : h = Height(s) /\ h <= Limit + MaxRows
      BY <1>2, FedHeight
    <2>2. line < h
      BY <1>1, <2>1 DEF Placed
    <2>3. QED
      BY <2>1, <2>2, Bounds
  <1>12. ActiveIndex(z) \in [ActiveIds(z) -> Nat] /\ ActiveIndex(s) \in [ActiveIds(s) -> Nat] /\ ActiveIds(s) \subseteq LiveMarks(s)
    BY <1>8, MarksOf
  <1>13. PICK kept : kept = ActiveIds(s) \ D
    OBVIOUS
  <1>14. D \subseteq ActiveIds(s) /\ LiveMarks(z) = (LiveMarks(s) \ D) \cup {id} /\ ActiveIds(z) = kept \cup {id}
         /\ ActiveIndex(z)[id] = line /\ \A x \in kept : ActiveIndex(z)[x] = ActiveIndex(s)[x]
    BY <1>4, <1>9, <1>13 DEF Bears
  <1>15. id \notin kept
    <2>1. \A x \in LiveMarks(s) : x < id
      BY <1>2, <1>9 DEF Fed, Kept, Registered
    <2>2. id \notin LiveMarks(s)
      BY <2>1
    <2>3. QED
      BY <1>12, <1>13, <2>2
  <1>16. ActiveIndex(z) = [x \in kept \cup {id} |-> IF x = id THEN line ELSE ActiveIndex(s)[x]]
    BY <1>12, <1>14, <1>15
  <1>17. PICK ids : ListOf(ids, D) /\ z.out = Append(s.out \o Roll(ids), BornEvent(s, line))
    BY <1>4 DEF Bears
  <1>18. Roll(ids) \in Feed!Deaths(D) /\ z.out = Append(Roll(ids), BornEvent(s, line))
    <2>1. Roll(ids) \in Seq(Event)
      BY <1>17, RollIsEvents
    <2>2. s.out \o Roll(ids) = Roll(ids)
      BY <1>2, <2>1, ConcatEmptySeq
    <2>3. QED
      BY <1>17, <2>2, RollIsDeaths
  <1>19. BornEvent(s, line) = Feed!Created(id, line)
    BY <1>2, <1>9 DEF BornEvent, Feed!Created
  <1>20. /\ ActiveIndex(term') = ActiveIndex(z) /\ LiveMarks(term') = LiveMarks(z) /\ term'.nextMark = z.nextMark
         /\ term'.evicted = z.evicted /\ term'.epoch = z.epoch /\ term'.out = z.out
    BY <1>5
  <1>21. term.nextMark = id /\ DOMAIN ActiveIndex(term) = ActiveIds(s)
    BY <1>2, <1>9, <1>12
  <1>22. /\ term'.evicted = term.evicted /\ term'.epoch = term.epoch /\ term'.nextMark = id + 1
         /\ LiveMarks(term') = (LiveMarks(term) \ D) \cup {id}
         /\ \E ds \in Feed!Deaths(D) : term'.out = Append(ds, Feed!Created(id, line))
    BY <1>2, <1>6, <1>9, <1>14, <1>18, <1>19, <1>20
  <1>23. ActiveIndex(term') = [x \in kept \cup {id} |-> IF x = id THEN line ELSE ActiveIndex(term)[x]] /\ DOMAIN ActiveIndex(term) \ D = kept /\ D \subseteq DOMAIN ActiveIndex(term)
    BY <1>2, <1>13, <1>14, <1>16, <1>20, <1>21
  <1>24. Feed!Birth(line, D)
    BY <1>10, <1>21, <1>22, <1>23 DEF Feed!Birth
  <1>25. D \in SUBSET LiveMarks(term)
    BY <1>2, <1>12, <1>14
  <1>26. QED
    BY <1>5, <1>7, <1>11, <1>24, <1>25 DEF Feed!FeedNext

(* ---- the terminal as built ------------------------------------------------------------ *)
\* Blank rows.
LEMMA BlanksAre ==
  ASSUME NEW n \in Nat
  PROVE  Blanks(n) \in Seq(Row) /\ Len(Blanks(n)) = n
  <1>1. Blanks(n) \in [1..n -> Row]
    BY DEF Blanks, Blank, Row
  <1>2. QED
    BY <1>1, MapIsSeq

\* An empty list of markers.
LEMMA NoMarks ==
  MarkList(<<>>) /\ MarkIds(<<>>) = {} /\ Len(<<>>) = 0 /\ Index(<<>>) = <<>>
  <1>1. MarkList(<<>>) /\ MarkIds(<<>>) = {} /\ Len(<<>>) = 0
    BY DEF MarkList, MarkIds
  <1>2. Index(<<>>) = <<>>
    <2>1. Index(<<>>) \in [MarkIds(<<>>) -> Nat]
      BY <1>1, IndexIs
    <2>2. Index(<<>>) \in [{} -> Nat]
      BY <1>1, <2>1
    <2>3. <<>> \in [{} -> Nat]
      OBVIOUS
    <2>4. QED
      BY <2>2, <2>3
  <1>3. QED
    BY <1>1, <1>2

\* The terminal as built, and as a reset builds it again.
LEMMA PowerOnIs ==
  ASSUME NEW rows \in Nat, 1 <= rows, rows <= MaxRows
  PROVE  Fed(PowerOn(rows)) /\ LiveMarks(PowerOn(rows)) = {} /\ ActiveIndex(PowerOn(rows)) = <<>> /\ Len(PowerOn(rows).grid) = rows
  <1>1. PICK z : z = PowerOn(rows)
    OBVIOUS
  <1>2. DOMAIN z = TermFields /\ z.hist = <<>> /\ z.grid = Blanks(rows) /\ z.other = Blanks(rows) /\ z.alt = FALSE
        /\ z.row = 0 /\ z.saved = 0 /\ z.top = 0 /\ z.bottom = rows - 1 /\ z.marks = [normal |-> <<>>, alternate |-> <<>>]
        /\ z.points = [normal |-> {}, alternate |-> {}] /\ z.nextMark = 0 /\ z.nextPoint = 0 /\ z.evicted = 0 /\ z.epoch = 0 /\ z.out = <<>>
    BY <1>1 DEF PowerOn, TermFields
  <1>3. z.grid \in Seq(Row) /\ Len(z.grid) = rows /\ z.other \in Seq(Row) /\ Len(z.other) = rows /\ z.hist \in Seq(Row) /\ Len(z.hist) = 0
    BY <1>2, BlanksAre
  <1>4. rows - 1 \in Nat /\ rows - 1 < rows /\ 0 < rows /\ 0 <= rows - 1
    OBVIOUS
  <1>5. z.marks.normal = <<>> /\ z.marks.alternate = <<>> /\ DOMAIN z.marks = Buffers /\ DOMAIN z.points = Buffers
    BY <1>2 DEF Buffers
  <1>6. IsTerm(z)
    <2>1. z.out \in Seq(Event) /\ z.bottom \in Nat /\ z.alt \in BOOLEAN
      <3>1. <<>> \in Seq(Event) /\ FALSE \in BOOLEAN
        OBVIOUS
      <3>2. QED
        BY <1>2, <1>4, <3>1
    <2>2. MarkList(z.marks.normal) /\ MarkList(z.marks.alternate)
      BY <1>5, NoMarks
    <2>3. QED
      BY <1>2, <1>3, <1>5, <2>1, <2>2 DEF IsTerm
  <1>7. \A w \in Buffers : z.marks[w] = <<>>
    BY <1>5 DEF Buffers
  <1>8. LiveMarks(z) = {}
    BY <1>5, NoMarks DEF LiveMarks
  <1>9. Registered(z)
    BY <1>7, <1>8, NoMarks, Bounds DEF Registered, Buffers
  <1>10. Screened(z)
    BY <1>2, <1>3, <1>4, Bounds DEF Screened
  <1>11. ActiveIndex(z) = <<>>
    BY <1>6, <1>7, NoMarks, MarksOf DEF ActiveIndex
  <1>12. QED
    BY <1>1, <1>3, <1>6, <1>8, <1>9, <1>10, <1>11 DEF Fed, Kept

\* The invariant holds at first, and the feed's initial condition with it.
LEMMA InitFed ==
  ASSUME Init
  PROVE  Fed(term) /\ Feed!FeedInit
  <1>1. PICK rows \in 1..MaxRows : term = PowerOn(rows)
    BY DEF Init
  <1>2. rows \in Nat /\ 1 <= rows /\ rows <= MaxRows
    BY Bounds
  <1>3. Fed(term) /\ LiveMarks(term) = {} /\ ActiveIndex(term) = <<>>
    BY <1>1, <1>2, PowerOnIs
  <1>4. term.nextMark = 0 /\ term.evicted = 0 /\ term.epoch = 0 /\ term.out = <<>>
    BY <1>1 DEF PowerOn
  <1>5. QED
    BY <1>3, <1>4 DEF Feed!FeedInit

(* ---- the calls ------------------------------------------------------------------------- *)
\* A line in view is a line of the active buffer.
LEMMA LineSeen ==
  ASSUME Fed(term), NEW line \in Visible(term)
  PROVE  line \in Nat /\ Placed(now, Active(now), line)
  <1>1. Fed(now) /\ now.alt = term.alt /\ now.grid = term.grid /\ now.hist = term.hist
    BY NowIs
  <1>2. IsTerm(term)
    BY DEF Fed, Kept
  <1>3. PICK h \in Nat : h = Len(term.hist)
    BY <1>2, HeightOf
  <1>4. PICK g \in Nat : g = Len(term.grid)
    BY <1>2, HeightOf
  <1>5. Height(now) = h + g /\ Len(now.hist) = h /\ LastLine(term) = h + g - 1
    BY <1>1, <1>3, <1>4 DEF Height, LastLine, Base, Rows
  <1>6. CASE term.alt
    <2>1. Floor(term) = h
      BY <1>3, <1>6 DEF Floor, Base
    <2>2. line \in h..(h + g - 1)
      BY <1>5, <2>1 DEF Visible
    <2>3. line \in Nat /\ line < h + g /\ h <= line
      BY <2>2
    <2>4. QED
      BY <1>5, <2>3 DEF Placed
  <1>7. CASE ~ term.alt
    <2>1. Floor(term) = 0 /\ Active(now) = "normal"
      BY <1>1, <1>7 DEF Floor, Active
    <2>2. line \in 0..(h + g - 1)
      BY <1>5, <2>1 DEF Visible
    <2>3. line \in Nat /\ line < h + g
      BY <2>2
    <2>4. QED
      BY <1>5, <2>1, <2>3 DEF Placed
  <1>8. QED
    BY <1>6, <1>7

\* add_marker.
LEMMA AddMarkerFeeds ==
  ASSUME Fed(term), NEW line \in Visible(term), AddMarker(line)
  PROVE  Feed!FeedNext /\ Fed(term')
  BY LineSeen, BirthStep DEF AddMarker

\* add_command_mark, at the cursor of the primary screen.
LEMMA AddCommandMarkFeeds ==
  ASSUME Fed(term), AddCommandMark
  PROVE  Feed!FeedNext /\ Fed(term')
  <1>1. PICK line : line = Base(term) + term.row
    OBVIOUS
  <1>2. ~ term.alt /\ Call(PushMarker(now, line))
    BY <1>1 DEF AddCommandMark
  <1>3. IsTerm(term) /\ now.alt = term.alt /\ now.grid = term.grid /\ now.hist = term.hist
    BY NowIs DEF Fed, Kept
  <1>4. PICK h \in Nat : h = Len(term.hist)
    BY <1>3, HeightOf
  <1>5. PICK g \in Nat : g = Len(term.grid)
    BY <1>3, HeightOf
  <1>6. PICK row \in Nat : row = term.row /\ row < g
    BY <1>3, <1>5 DEF IsTerm, Fed, Screened
  <1>7. line = h + row /\ line \in Nat /\ line < h + g /\ Height(now) = h + g
    <2>1. line = h + row
      BY <1>1, <1>4, <1>6 DEF Base
    <2>2. h + row \in Nat /\ h + row < h + g
      BY <1>6
    <2>3. Height(now) = h + g
      BY <1>3, <1>4, <1>5 DEF Height
    <2>4. QED
      BY <2>1, <2>2, <2>3
  <1>8. Active(now) = "normal"
    BY <1>2, <1>3 DEF Active
  <1>9. Placed(now, Active(now), line)
    BY <1>7, <1>8 DEF Placed
  <1>10. QED
    BY <1>2, <1>7, <1>9, BirthStep

\* A call that stays on its screen.
LEMMA SteadyStep ==
  ASSUME Fed(term), NEW z, Steady(now, z), Call(z)
  PROVE  Feed!FeedNext /\ Fed(term')
  BY NowIs, SteadyGoes, FeedStep

\* A call that touches no marker.
LEMMA QuietStep ==
  ASSUME Fed(term), NEW z, Quiet(now, z), Call(z)
  PROVE  Feed!FeedNext /\ Fed(term')
  BY NowIs, QuietStays, SteadyStep DEF Fed

\* The state a call starts from is a terminal.
LEMMA NowTerm ==
  ASSUME Fed(term)
  PROVE  IsTerm(now) /\ Kept(now) /\ IsTerm(term)
  BY NowIs DEF Fed, Kept

\* remove_marker, whichever screen it is on.
LEMMA RemoveMarkerFeeds ==
  ASSUME Fed(term), NEW id, RemoveMarker(id)
  PROVE  Feed!FeedNext /\ Fed(term')
  <1>1. PICK u : u = Sift(now, "normal", {id}, Still)
    OBVIOUS
  <1>2. Steady(now, u) /\ Kept(u)
    BY <1>1, NowTerm, SiftStays DEF Buffers, Steady
  <1>3. PICK v : v = Sift(u, "alternate", {id}, Still)
    OBVIOUS
  <1>4. Steady(u, v) /\ Kept(v)
    BY <1>2, <1>3, SiftStays DEF Buffers, Steady
  <1>5. PICK z : z = Forget(v, {Mark(id)})
    OBVIOUS
  <1>6. Steady(v, z)
    BY <1>4, <1>5, ForgetQuiet, QuietStays DEF Kept
  <1>7. Steady(now, z)
    BY <1>2, <1>4, <1>6, NowTerm, StaysOn
  <1>8. Call(z)
    BY <1>1, <1>3, <1>5 DEF RemoveMarker
  <1>9. QED
    BY <1>7, <1>8, SteadyStep

\* track_point.
LEMMA TrackPointFeeds ==
  ASSUME Fed(term), NEW line, TrackPoint(line)
  PROVE  Feed!FeedNext /\ Fed(term')
  <1>1. IsTerm(now) /\ IsTerm(term)
    BY NowTerm
  <1>2. PICK id \in Nat : id = term.nextPoint
    BY <1>1 DEF IsTerm
  <1>3. Point(id) \in Tags
    BY DEF Point, Tags
  <1>4. PICK h : h = Carry(now.hist, 0, line, Point(id))
    OBVIOUS
  <1>5. PICK g : g = Carry(now.grid, Base(term), line, Point(id))
    OBVIOUS
  <1>6. h \in Seq(Row) /\ Len(h) = Len(now.hist) /\ g \in Seq(Row) /\ Len(g) = Len(now.grid)
    BY <1>1, <1>3, <1>4, <1>5, RowSeqs, CarryIs
  <1>7. PICK P : P = [now.points EXCEPT ![Active(term)] = @ \cup {[id |-> id, line |-> line]}]
    OBVIOUS
  <1>8. DOMAIN P = Buffers
    BY <1>1, <1>7 DEF IsTerm
  <1>9. PICK z : z = [now EXCEPT !.points = P, !.nextPoint = id + 1, !.hist = h, !.grid = g]
    OBVIOUS
  <1>10. Quiet(now, z)
    <2>1. PICK s : s = now
      OBVIOUS
    <2>2. IsTerm(s) /\ z = [s EXCEPT !.points = P, !.nextPoint = id + 1, !.hist = h, !.grid = g]
      BY <1>1, <1>9, <2>1
    <2>3. /\ DOMAIN z = TermFields /\ z.hist = h /\ z.grid = g /\ z.points = P /\ z.nextPoint = id + 1 /\ z.marks = s.marks
          /\ z.other = s.other /\ z.alt = s.alt /\ z.row = s.row /\ z.saved = s.saved /\ z.top = s.top /\ z.bottom = s.bottom
          /\ z.nextMark = s.nextMark /\ z.evicted = s.evicted /\ z.epoch = s.epoch /\ z.out = s.out
      <3>1. DOMAIN s = TermFields
        BY <2>2 DEF IsTerm
      <3>2. QED
        BY <2>2, <3>1 DEF TermFields
    <2>4. IsTerm(z)
      BY <1>6, <1>8, <2>2, <2>3 DEF IsTerm
    <2>5. SameShape(s, z) /\ SameFeed(s, z)
      BY <1>6, <2>1, <2>3 DEF SameShape, SameFeed
    <2>6. QED
      BY <2>1, <2>2, <2>4, <2>5 DEF Quiet
  <1>11. Call(z)
    BY <1>2, <1>4, <1>5, <1>7, <1>9 DEF TrackPoint
  <1>12. QED
    BY <1>10, <1>11, QuietStep

\* untrack_point.
LEMMA UntrackPointFeeds ==
  ASSUME Fed(term), NEW id, UntrackPoint(id)
  PROVE  Feed!FeedNext /\ Fed(term')
  <1>1. PICK P : P = [which \in DOMAIN now.points |-> {p \in now.points[which] : p.id # id}]
    OBVIOUS
  <1>2. PICK u : u = [now EXCEPT !.points = P]
    OBVIOUS
  <1>3. Quiet(now, u)
    <2>1. DOMAIN P = Buffers
      BY <1>1, NowTerm DEF IsTerm
    <2>2. QED
      BY <1>2, <2>1, NowTerm, PointsQuiet
  <1>4. PICK z : z = Forget(u, {Point(id)})
    OBVIOUS
  <1>5. Quiet(u, z)
    BY <1>3, <1>4, ForgetQuiet DEF Quiet
  <1>6. Call(z)
    BY <1>1, <1>2, <1>4 DEF UntrackPoint
  <1>7. QED
    BY <1>3, <1>5, <1>6, QuietOn, QuietStep

\* Every call that selects.
LEMMA SelectFeeds ==
  ASSUME Fed(term), NEW anchor, NEW focus, Select(anchor, focus)
  PROVE  Feed!FeedNext /\ Fed(term')
  <1>1. PICK u : u = Deselect(now)
    OBVIOUS
  <1>2. Quiet(now, u)
    BY <1>1, NowTerm, DeselectQuiet
  <1>3. PICK v : v = [u EXCEPT !.sel = {[e \in Ends |-> IF e = "anchor" THEN anchor ELSE focus]}]
    OBVIOUS
  <1>4. Quiet(u, v)
    BY <1>2, <1>3, SelQuiet DEF Quiet
  <1>5. PICK z : z = Adopt(v)
    OBVIOUS
  <1>6. Quiet(v, z)
    BY <1>4, <1>5, AdoptQuiet DEF Quiet
  <1>7. Call(z)
    BY <1>1, <1>3, <1>5 DEF Select
  <1>8. QED
    BY <1>2, <1>4, <1>6, <1>7, QuietOn, QuietStep

\* selection_clear.
LEMMA SelectionClearFeeds ==
  ASSUME Fed(term), SelectionClear
  PROVE  Feed!FeedNext /\ Fed(term')
  BY NowTerm, DeselectQuiet, QuietStep DEF SelectionClear

\* A call that moves the cursor or the margins on the screen.
LEMMA PlacedGoes ==
  ASSUME NEW s, Fed(s), NEW row \in Nat, NEW top \in Nat, NEW bottom \in Nat, row < Len(s.grid), top <= bottom, bottom < Len(s.grid)
  PROVE  Goes(s, [s EXCEPT !.row = row, !.top = top, !.bottom = bottom])
  <1>1. PICK z : z = [s EXCEPT !.row = row, !.top = top, !.bottom = bottom]
    OBVIOUS
  <1>2. IsTerm(s)
    BY DEF Fed, Kept
  <1>3. IsTerm(z) /\ SameFeed(s, z) /\ z.alt = s.alt /\ z.hist = s.hist /\ z.grid = s.grid /\ z.other = s.other
        /\ z.row = row /\ z.top = top /\ z.bottom = bottom /\ z.saved = s.saved
    BY <1>1, <1>2 DEF IsTerm, SameFeed, TermFields
  <1>4. LiveMarks(z) = LiveMarks(s) /\ Height(z) = Height(s) /\ z.marks = s.marks /\ z.nextMark = s.nextMark
    BY <1>3 DEF LiveMarks, Height, SameFeed
  <1>5. Kept(z)
    BY <1>3, <1>4 DEF Fed, Kept, Registered, Placed
  <1>6. Fed(z)
    BY <1>3, <1>5 DEF Fed, Screened
  <1>7. Feeds(s, z)
    BY <1>2, <1>3, SilentFeeds
  <1>8. z.evicted <= s.evicted + (Limit + MaxRows)
    <2>1. PICK e \in Nat : e = s.evicted
      BY <1>2, CountersOf DEF Counters
    <2>2. e <= e + (Limit + MaxRows)
      BY Bounds
    <2>3. QED
      BY <1>3, <2>1, <2>2 DEF SameFeed
  <1>9. QED
    BY <1>1, <1>6, <1>7, <1>8 DEF Goes

\* The shape of the screen a call starts from.
LEMMA NowScreen ==
  ASSUME Fed(term)
  PROVE  /\ term.row \in Nat /\ term.top \in Nat /\ term.bottom \in Nat /\ term.top <= term.bottom
         /\ Len(term.grid) \in Nat /\ 1 <= Len(term.grid) /\ Len(term.grid) <= MaxRows
         /\ term.row < Len(term.grid) /\ term.bottom < Len(term.grid) /\ Rows(term) = Len(term.grid)
         /\ now.row = term.row /\ now.top = term.top /\ now.bottom = term.bottom /\ now.grid = term.grid /\ now.hist = term.hist
         /\ Len(term.hist) \in Nat /\ Len(term.hist) <= Limit /\ now.alt = term.alt /\ now.other = term.other
  <1>1. IsTerm(term)
    BY NowTerm
  <1>2. Len(term.grid) \in Nat /\ Len(term.hist) \in Nat
    BY <1>1, HeightOf
  <1>3. term.row \in Nat /\ term.top \in Nat /\ term.bottom \in Nat
    BY <1>1 DEF IsTerm
  <1>4. QED
    BY <1>2, <1>3, NowIs DEF Fed, Screened, Rows

\* A call that sets them.
LEMMA PlacedStep ==
  ASSUME Fed(term), NEW row \in Nat, NEW top \in Nat, NEW bottom \in Nat, row < Len(term.grid), top <= bottom, bottom < Len(term.grid),
         NEW z, z = [now EXCEPT !.row = row, !.top = top, !.bottom = bottom], Call(z)
  PROVE  Feed!FeedNext /\ Fed(term')
  <1>1. Fed(now) /\ Len(now.grid) = Len(term.grid)
    BY NowIs
  <1>2. Goes(now, z)
    BY <1>1, PlacedGoes
  <1>3. QED
    BY <1>2, FeedStep

\* A call that moves the cursor alone.
LEMMA CursorStep ==
  ASSUME Fed(term), NEW row \in Nat, row < Len(term.grid), Call([now EXCEPT !.row = row])
  PROVE  Feed!FeedNext /\ Fed(term')
  <1>1. PICK top \in Nat : top = term.top
    BY NowScreen
  <1>2. PICK bottom \in Nat : bottom = term.bottom
    BY NowScreen
  <1>3. top <= bottom /\ bottom < Len(term.grid)
    BY <1>1, <1>2, NowScreen
  <1>4. PICK z : z = [now EXCEPT !.row = row]
    OBVIOUS
  <1>5. z = [now EXCEPT !.row = row, !.top = top, !.bottom = bottom]
    <2>1. now.top = top /\ now.bottom = bottom /\ DOMAIN now = TermFields
      BY <1>1, <1>2, NowScreen, NowTerm DEF IsTerm
    <2>2. QED
      BY <1>4, <2>1 DEF TermFields
  <1>6. QED
    BY <1>3, <1>4, <1>5, PlacedStep

\* goto.
LEMMA GotoFeeds ==
  ASSUME Fed(term), NEW row, Goto(row)
  PROVE  Feed!FeedNext /\ Fed(term')
  <1>1. PICK g \in Nat : g = Len(term.grid)
    BY NowScreen
  <1>2. row \in 0..(g - 1) /\ Call([now EXCEPT !.row = row])
    BY <1>1 DEF Goto, Rows
  <1>3. row \in Nat /\ row < g
    BY <1>2
  <1>4. QED
    BY <1>1, <1>2, <1>3, CursorStep

\* set_scroll_region.
LEMMA SetScrollRegionFeeds ==
  ASSUME Fed(term), NEW top \in Nat, NEW bottom \in Nat, SetScrollRegion(top, bottom)
  PROVE  Feed!FeedNext /\ Fed(term')
  <1>1. PICK g \in Nat : g = Len(term.grid) /\ 1 <= g
    BY NowScreen
  <1>2. top < bottom /\ bottom < g
    BY <1>1 DEF SetScrollRegion, Rows
  <1>3. PICK home \in {0, top} : Call([now EXCEPT !.top = top, !.bottom = bottom, !.row = home])
    BY DEF SetScrollRegion
  <1>4. home \in Nat /\ home < g /\ top <= bottom
    BY <1>2
  <1>5. PICK z : z = [now EXCEPT !.row = home, !.top = top, !.bottom = bottom]
    OBVIOUS
  <1>6. Call(z)
    <2>1. z = [now EXCEPT !.top = top, !.bottom = bottom, !.row = home]
      BY <1>5
    <2>2. QED
      BY <1>3, <2>1
  <1>7. QED
    BY <1>1, <1>2, <1>4, <1>5, <1>6, PlacedStep

\* SU and SD.
LEMMA ScrollLinesFeeds ==
  ASSUME Fed(term), NEW n \in Nat, NEW up \in BOOLEAN, ScrollLines(n, up)
  PROVE  Feed!FeedNext /\ Fed(term')
  <1>1. PICK top \in Nat : top = term.top
    BY NowScreen
  <1>2. PICK bottom \in Nat : bottom = term.bottom
    BY NowScreen
  <1>3. top <= bottom /\ bottom < Len(now.grid) /\ Kept(now)
    BY <1>1, <1>2, NowScreen, NowTerm
  <1>4. Steady(now, ScrollRegionLines(now, top, bottom, n, up))
    BY <1>3, ScrollStays
  <1>5. Call(ScrollRegionLines(now, top, bottom, n, up))
    BY <1>1, <1>2 DEF ScrollLines
  <1>6. QED
    BY <1>4, <1>5, SteadyStep

\* IL and DL.
LEMMA InsertOrDeleteLinesFeeds ==
  ASSUME Fed(term), NEW n \in Nat, NEW up \in BOOLEAN, InsertOrDeleteLines(n, up)
  PROVE  Feed!FeedNext /\ Fed(term')
  <1>1. PICK top \in Nat : top = term.row
    BY NowScreen
  <1>2. PICK bottom \in Nat : bottom = term.bottom
    BY NowScreen
  <1>3. top <= bottom /\ bottom < Len(now.grid) /\ Kept(now)
    BY <1>1, <1>2, NowScreen, NowTerm DEF InsertOrDeleteLines
  <1>4. Steady(now, ScrollRegionLines(now, top, bottom, n, up))
    BY <1>3, ScrollStays
  <1>5. Call(ScrollRegionLines(now, top, bottom, n, up))
    BY <1>1, <1>2 DEF InsertOrDeleteLines
  <1>6. QED
    BY <1>4, <1>5, SteadyStep

\* A call that scrolls the region by one line.
LEMMA RotateStep ==
  ASSUME Fed(term), NEW up \in BOOLEAN, Call(RotateOnce(now, term.top, term.bottom, up))
  PROVE  Feed!FeedNext /\ Fed(term')
  <1>1. PICK top \in Nat : top = term.top
    BY NowScreen
  <1>2. PICK bottom \in Nat : bottom = term.bottom
    BY NowScreen
  <1>3. top <= bottom /\ bottom < Len(now.grid) /\ Kept(now)
    BY <1>1, <1>2, NowScreen, NowTerm
  <1>4. Steady(now, RotateOnce(now, top, bottom, up))
    BY <1>3, RotateOnceStays
  <1>5. Call(RotateOnce(now, top, bottom, up))
    BY <1>1, <1>2
  <1>6. QED
    BY <1>4, <1>5, SteadyStep

\* reverse_index.
LEMMA ReverseIndexFeeds ==
  ASSUME Fed(term), ReverseIndex
  PROVE  Feed!FeedNext /\ Fed(term')
  <1>1. CASE Call(RotateOnce(now, term.top, term.bottom, FALSE))
    BY <1>1, RotateStep
  <1>2. CASE term.row > 0 /\ Call([now EXCEPT !.row = @ - 1])
    <2>1. PICK r \in Nat : r = term.row
      BY NowScreen
    <2>2. PICK g \in Nat : g = Len(term.grid) /\ r < g
      BY <2>1, NowScreen
    <2>3. PICK row \in Nat : row = r - 1
      BY <1>2, <2>1
    <2>4. row < g
      BY <2>2, <2>3
    <2>5. now.row - 1 = row
      BY <2>1, <2>3, NowScreen
    <2>6. Call([now EXCEPT !.row = row])
      BY <1>2, <2>5
    <2>7. QED
      BY <2>2, <2>4, <2>6, CursorStep
  <1>3. QED
    BY <1>1, <1>2 DEF ReverseIndex

(* ---- history that grows and goes ------------------------------------------------------- *)
\* The screens, the cursor and the region are as they were; history may
\* differ.
SameScreen(s, z) ==
  /\ Len(z.grid) = Len(s.grid) /\ Len(z.other) = Len(s.other)
  /\ z.alt = s.alt /\ z.row = s.row /\ z.saved = s.saved /\ z.top = s.top /\ z.bottom = s.bottom

\* What the scroll into history does before the cap: one line more, and the
\* holders below the margin moved down with the rows under them.
Grows(s, z) ==
  /\ Kept(z) /\ Feeds(s, z) /\ SameScreen(s, z) /\ Len(z.hist) = Len(s.hist) + 1 /\ z.evicted = s.evicted
\* What ShiftBelow does: no marker goes down by more than a line, and none at
\* all unless the epoch moved.
Shifted(s, z) ==
  /\ IsTerm(z) /\ SameShape(s, z) /\ z.nextMark = s.nextMark /\ z.evicted = s.evicted /\ s.epoch <= z.epoch /\ z.out = s.out
  /\ MarkIds(z.marks["normal"]) = MarkIds(s.marks["normal"]) /\ Len(z.marks["normal"]) = Len(s.marks["normal"])
  /\ z.marks["alternate"] = s.marks["alternate"]
  /\ \A id \in MarkIds(s.marks["normal"]) : Index(z.marks["normal"])[id] <= Index(s.marks["normal"])[id] + 1
  /\ z.epoch = s.epoch => \A id \in MarkIds(s.marks["normal"]) : Index(z.marks["normal"])[id] = Index(s.marks["normal"])[id]

\* ShiftBelow does it.
LEMMA ShiftBelowIs ==
  ASSUME NEW t, IsTerm(t), NEW from \in Nat
  PROVE  Shifted(t, ShiftBelow(t, from))
  <1>1. PICK move : move = [l \in Nat |-> IF l >= from THEN l + 1 ELSE l]
    OBVIOUS
  <1>2. move \in [Nat -> Nat] /\ \A l \in Nat : move[l] <= l + 1 /\ (~ (l >= from) => move[l] = l)
    <2>1. \A l \in Nat : (IF l >= from THEN l + 1 ELSE l) \in Nat /\ (IF l >= from THEN l + 1 ELSE l) <= l + 1
      OBVIOUS
    <2>2. QED
      BY <1>1, <2>1
  <1>3. PICK ms : ms = t.marks["normal"]
    OBVIOUS
  <1>4. MarkList(ms)
    BY <1>3, MarksOf
  <1>5. PICK new : new = MovedBy(ms, move)
    OBVIOUS
  <1>6. MarkList(new) /\ Len(new) = Len(ms) /\ MarkIds(new) = MarkIds(ms) /\ \A id \in MarkIds(ms) : Index(new)[id] = move[Index(ms)[id]]
    BY <1>2, <1>4, <1>5, MovedByIs
  <1>7. PICK S : S = {[e \in Ends |-> move[s[e]]] : s \in t.sel}
    OBVIOUS
  <1>8. PICK N : N = {[p EXCEPT !.line = move[@]] : p \in t.points.normal}
    OBVIOUS
  <1>9. PICK M : M = [t.marks EXCEPT !.normal = new]
    OBVIOUS
  <1>10. PICK P : P = [t.points EXCEPT !.normal = N]
    OBVIOUS
  <1>11. DOMAIN M = Buffers /\ M.normal = new /\ M.alternate = t.marks.alternate /\ DOMAIN P = Buffers
    BY <1>9, <1>10 DEF IsTerm, Buffers
  <1>12. PICK u : u = [t EXCEPT !.sel = S, !.marks = M, !.points = P]
    OBVIOUS
  <1>13. IsTerm(u) /\ SameShape(t, u) /\ u.nextMark = t.nextMark /\ u.evicted = t.evicted /\ u.epoch = t.epoch /\ u.out = t.out /\ u.marks = M
    <2>1. MarkList(M.normal) /\ MarkList(M.alternate)
      BY <1>6, <1>11 DEF IsTerm
    <2>2. QED
      BY <1>11, <1>12, <2>1 DEF IsTerm, SameShape, TermFields
  <1>14. PICK moved \in BOOLEAN : moved <=> \E l \in MarkLines(ms) : l >= from
    OBVIOUS
  <1>15. ShiftBelow(t, from) = IF moved THEN BumpEpoch(u) ELSE u
    <2>1. u = [t EXCEPT !.sel = S, !.marks.normal = MovedBy(@, move), !.points.normal = N]
      BY <1>3, <1>5, <1>9, <1>10, <1>12
    <2>2. QED
      BY <1>1, <1>3, <1>7, <1>8, <1>14, <2>1 DEF ShiftBelow
  <1>16. \A id \in MarkIds(ms) : Index(new)[id] <= Index(ms)[id] + 1
    <2>1. \A id \in MarkIds(ms) : Index(ms)[id] \in Nat
      BY <1>4, IndexIs
    <2>2. QED
      BY <1>2, <1>6, <2>1
  <1>17. CASE moved
    <2>1. PICK z : z = BumpEpoch(u)
      OBVIOUS
    <2>2. IsTerm(z) /\ SameShape(u, z) /\ z.marks = M /\ z.nextMark = t.nextMark /\ z.evicted = t.evicted /\ z.epoch = t.epoch + 1 /\ z.out = t.out
      BY <1>13, <2>1, BumpIs
    <2>3. SameShape(t, z)
      BY <1>13, <2>2 DEF SameShape
    <2>4. t.epoch <= z.epoch /\ z.epoch # t.epoch
      BY <2>2, CountersOf DEF Counters
    <2>5. Shifted(t, z)
      BY <1>3, <1>6, <1>11, <1>16, <2>2, <2>3, <2>4 DEF Shifted
    <2>6. QED
      BY <1>15, <1>17, <2>1, <2>5
  <1>18. CASE ~ moved
    <2>1. ASSUME NEW id \in MarkIds(ms) PROVE Index(new)[id] = Index(ms)[id]
      <3>1. PICK i \in DOMAIN ms : ms[i].id = id
        BY DEF MarkIds
      <3>2. Index(ms)[id] = ms[i].line /\ Index(ms)[id] \in Nat
        BY <1>4, <3>1, IndexIs
      <3>3. ~ (ms[i].line >= from)
        BY <1>14, <1>18 DEF MarkLines
      <3>4. QED
        BY <1>2, <1>6, <3>2, <3>3
    <2>2. t.epoch <= u.epoch
      BY <1>13, CountersOf DEF Counters
    <2>3. Shifted(t, u)
      BY <1>3, <1>6, <1>11, <1>13, <1>16, <2>1, <2>2 DEF Shifted
    <2>4. QED
      BY <1>15, <1>18, <2>3
  <1>19. QED
    BY <1>17, <1>18

\* So does nothing, when the region reaches the bottom.
LEMMA ShiftedAlready ==
  ASSUME NEW t, IsTerm(t)
  PROVE  Shifted(t, t)
  <1>1. MarkList(t.marks["normal"])
    BY MarksOf
  <1>2. \A id \in MarkIds(t.marks["normal"]) : Index(t.marks["normal"])[id] <= Index(t.marks["normal"])[id] + 1
    <2>1. \A id \in MarkIds(t.marks["normal"]) : Index(t.marks["normal"])[id] \in Nat
      BY <1>1, IndexIs
    <2>2. \A n \in Nat : n <= n + 1
      OBVIOUS
    <2>3. QED
      BY <2>1, <2>2
  <1>3. t.epoch <= t.epoch
    BY CountersOf DEF Counters
  <1>4. QED
    BY <1>2, <1>3 DEF Shifted, SameShape

\* A line more of history holds what the shift moved.
LEMMA ShiftedGrows ==
  ASSUME NEW s, Kept(s), ~ s.alt, NEW a, Shifted(s, a), NEW h \in Seq(Row), Len(h) = Len(s.hist) + 1, NEW g \in Seq(Row), Len(g) = Len(s.grid)
  PROVE  Grows(s, [a EXCEPT !.hist = h, !.grid = g])
  <1>1. PICK z : z = [a EXCEPT !.hist = h, !.grid = g]
    OBVIOUS
  <1>2. IsTerm(s) /\ IsTerm(a) /\ SameShape(s, a)
    BY DEF Kept, Shifted
  <1>3. IsTerm(z) /\ z.marks = a.marks /\ z.nextMark = a.nextMark /\ z.evicted = a.evicted /\ z.epoch = a.epoch /\ z.out = a.out
        /\ z.hist = h /\ z.grid = g /\ z.other = a.other /\ z.alt = a.alt /\ z.row = a.row /\ z.saved = a.saved /\ z.top = a.top /\ z.bottom = a.bottom
    BY <1>1, <1>2 DEF IsTerm, TermFields
  <1>4. SameScreen(s, z) /\ Len(z.hist) = Len(s.hist) + 1 /\ z.evicted = s.evicted /\ z.nextMark = s.nextMark /\ s.epoch <= z.epoch /\ z.out = s.out
    BY <1>2, <1>3 DEF SameShape, SameScreen, Shifted
  <1>5. Active(s) = "normal" /\ Active(z) = "normal" /\ z.alt = s.alt
    BY <1>4 DEF SameScreen, Active
  <1>6. MarkIds(z.marks["normal"]) = MarkIds(s.marks["normal"]) /\ z.marks["alternate"] = s.marks["alternate"] /\ MarkIds(s.marks["alternate"]) = {}
        /\ Len(z.marks["normal"]) = Len(s.marks["normal"])
    BY <1>3 DEF Shifted, Kept, Registered
  <1>7. LiveMarks(z) = LiveMarks(s) /\ ActiveIds(z) = ActiveIds(s)
    BY <1>5, <1>6 DEF LiveMarks, ActiveIds
  <1>8. MarkList(s.marks["normal"]) /\ MarkList(z.marks["normal"])
    BY <1>2, <1>3, MarksOf
  <1>9. ASSUME z.epoch = s.epoch PROVE Lifted(s, z, {}, z.evicted - s.evicted)
    <2>1. z.evicted - s.evicted = 0
      BY <1>2, <1>4, CountersOf DEF Counters
    <2>2. \A id \in MarkIds(s.marks["normal"]) : Index(z.marks["normal"])[id] = Index(s.marks["normal"])[id] /\ Index(s.marks["normal"])[id] \in Nat
      BY <1>3, <1>8, <1>9, IndexIs DEF Shifted
    <2>3. \A id \in ActiveIds(z) : ActiveIndex(s)[id] = ActiveIndex(z)[id] + 0
      BY <1>5, <1>6, <2>2 DEF ActiveIds, ActiveIndex
    <2>4. QED
      BY <1>7, <2>1, <2>3 DEF Lifted
  <1>10. Feeds(s, z)
    <2>1. Follows(s, z, {})
      BY <1>2, <1>4, <1>7, <1>9, TellsNothing DEF Follows
    <2>2. s.evicted <= z.evicted
      BY <1>2, <1>4, CountersOf DEF Counters
    <2>3. QED
      BY <1>4, <2>1, <2>2 DEF Feeds
  <1>11. Registered(z)
    <2>1. ASSUME NEW w \in Buffers, NEW id \in MarkIds(z.marks[w]) PROVE Placed(z, w, Index(z.marks[w])[id])
      <3>1. w = "normal"
        BY <1>6, <2>1 DEF Buffers
      <3>2. id \in MarkIds(s.marks["normal"]) /\ Placed(s, "normal", Index(s.marks["normal"])[id])
        BY <1>6, <2>1, <3>1 DEF Kept, Registered, Buffers
      <3>3. PICK l \in Nat : l = Index(s.marks["normal"])[id]
        BY <1>8, <3>2, IndexIs
      <3>4. PICK m \in Nat : m = Index(z.marks["normal"])[id]
        BY <1>8, <2>1, <3>1, IndexIs
      <3>5. PICK h0 \in Nat : h0 = Len(s.hist)
        BY <1>2, HeightOf
      <3>6. PICK g0 \in Nat : g0 = Len(s.grid)
        BY <1>2, HeightOf
      <3>7. m <= l + 1
        BY <1>3, <3>2, <3>3, <3>4 DEF Shifted
      <3>8. l < h0 + g0
        BY <3>2, <3>3, <3>5, <3>6 DEF Placed, Height
      <3>9. Height(z) = (h0 + 1) + g0
        BY <1>4, <3>5, <3>6 DEF Height, SameScreen
      <3>10. m < (h0 + 1) + g0
        BY <3>7, <3>8
      <3>11. QED
        BY <3>1, <3>4, <3>9, <3>10 DEF Placed
    <2>2. \A w \in Buffers : Len(z.marks[w]) <= MaxMarkers
      BY <1>6 DEF Kept, Registered, Buffers
    <2>3. QED
      BY <1>4, <1>6, <1>7, <2>1, <2>2 DEF Kept, Registered
  <1>12. QED
    BY <1>1, <1>3, <1>4, <1>10, <1>11 DEF Grows, Kept

\* Rows of history dropped from the front, and the lines they were.
LEMMA DropFeeds ==
  ASSUME NEW s, Kept(s), NEW h \in Seq(Row), NEW n \in Nat, Len(s.hist) = Len(h) + n
  PROVE  LET z == LinesLeftTheFront([s EXCEPT !.hist = h], n) IN
         Kept(z) /\ Feeds(s, z) /\ SameScreen(s, z) /\ Len(z.hist) = Len(h) /\ z.evicted = s.evicted + n
  <1>1. PICK t : t = [s EXCEPT !.hist = h]
    OBVIOUS
  <1>2. IsTerm(s)
    BY DEF Kept
  <1>3. IsTerm(t) /\ SameFeed(s, t) /\ SameScreen(s, t) /\ t.hist = h /\ t.grid = s.grid /\ t.alt = s.alt
    BY <1>1, <1>2 DEF IsTerm, SameFeed, SameScreen, TermFields
  <1>4. PICK z : z = LinesLeftTheFront(t, n)
    OBVIOUS
  <1>5. Evicted(t, z, n)
    <2>1. MarkIds(t.marks["normal"]) \cap MarkIds(t.marks["alternate"]) = {}
      BY <1>3 DEF SameFeed, Kept, Registered
    <2>2. QED
      BY <1>3, <1>4, <2>1, LinesLeftTheFrontIs
  <1>6. PICK k \in Nat : k = Len(h)
    BY LenProperties
  <1>7. PICK g \in Nat : g = Len(s.grid)
    BY <1>2, HeightOf
  <1>8. Height(s) = k + n + g /\ Height(t) = k + g /\ Len(t.hist) = k /\ Len(s.hist) = k + n
    BY <1>3, <1>6, <1>7 DEF Height
  <1>9. Height(s) <= Height(t) + n /\ Len(t.hist) + n <= Len(s.hist)
    <2>1. k + n + g <= k + g + n /\ k + n <= k + n
      OBVIOUS
    <2>2. QED
      BY <1>8, <2>1
  <1>10. Kept(z) /\ Feeds(s, z)
    BY <1>3, <1>5, <1>9, EvictedFeeds
  <1>11. SameScreen(s, z) /\ Len(z.hist) = Len(h) /\ z.evicted = s.evicted + n
    BY <1>3, <1>5 DEF Evicted, SameShape, SameScreen, SameFeed
  <1>12. QED
    BY <1>1, <1>4, <1>10, <1>11

\* The call that scrolls a row into history, and what the cap does about it.
LEMMA GrowsGoes ==
  ASSUME NEW s, Fed(s), NEW z, IsTerm(z), Kept(z), Feeds(s, z), SameScreen(s, z), Len(z.hist) <= Limit,
         NEW n \in Nat, n <= Limit + MaxRows, z.evicted = s.evicted + n
  PROVE  Goes(s, z)
  <1>1. Fed(z)
    BY DEF Fed, Screened, SameScreen
  <1>2. PICK e \in Nat : e = s.evicted
    BY CountersOf DEF Fed, Kept, Counters
  <1>3. e + n <= e + (Limit + MaxRows)
    BY Bounds
  <1>4. QED
    BY <1>1, <1>2, <1>3 DEF Goes

\* A line enters history, and past the limit the oldest leaves.
LEMMA AccrueGoes ==
  ASSUME NEW s, Fed(s), ~ s.alt
  PROVE  Goes(s, Accrue(s))
  <1>1. Kept(s) /\ IsTerm(s)
    BY DEF Fed, Kept
  <1>2. PICK bottom \in Nat : bottom = s.bottom /\ bottom < Len(s.grid)
    BY <1>1 DEF IsTerm, Fed, Screened
  <1>3. PICK k \in Nat : k = Len(s.hist) /\ k <= Limit
    BY <1>1, HeightOf DEF Fed, Screened
  <1>4. PICK from \in Nat : from = Base(s) + s.bottom + 1
    BY <1>2, <1>3 DEF Base
  <1>5. PICK a : a = IF s.bottom = Rows(s) - 1 THEN s ELSE ShiftBelow(s, from)
    OBVIOUS
  <1>6. Shifted(s, a)
    <2>1. Shifted(s, s) /\ Shifted(s, ShiftBelow(s, from))
      BY <1>1, ShiftedAlready, ShiftBelowIs
    <2>2. QED
      BY <1>5, <2>1
  <1>7. IsTerm(a) /\ Len(a.hist) = k /\ Len(a.grid) = Len(s.grid)
    BY <1>3, <1>6 DEF Shifted, SameShape
  <1>8. a.hist \in Seq(Row) /\ a.grid \in Seq(Row) /\ s.grid \in Seq(Row)
    BY <1>1, <1>7 DEF IsTerm
  <1>9. PICK h : h = Append(a.hist, s.grid[1])
    OBVIOUS
  <1>10. h \in Seq(Row) /\ Len(h) = k + 1
    <2>1. 1 <= Len(s.grid) /\ Len(s.grid) \in Nat
      BY <1>1, HeightOf DEF Fed, Screened
    <2>2. s.grid[1] \in Row
      BY <1>8, <2>1, ElementOfSeq
    <2>3. QED
      BY <1>7, <1>8, <1>9, <2>2, AppendProperties
  <1>11. PICK g : g = RotateRows(a.grid, 0, bottom, TRUE)
    OBVIOUS
  <1>12. g \in Seq(Row) /\ Len(g) = Len(s.grid)
    <2>1. 0 \in Nat /\ 0 <= bottom /\ bottom < Len(a.grid)
      BY <1>2, <1>7
    <2>2. PICK up : up = TRUE
      OBVIOUS
    <2>3. RotateRows(a.grid, 0, bottom, up) \in Seq(Row) /\ Len(RotateRows(a.grid, 0, bottom, up)) = Len(a.grid)
      BY <1>8, <2>1, RotateRowsIs
    <2>4. QED
      BY <1>7, <1>11, <2>2, <2>3
  <1>13. PICK pushed : pushed = [a EXCEPT !.hist = h, !.grid = g]
    OBVIOUS
  <1>14. Grows(s, pushed)
    BY <1>1, <1>3, <1>6, <1>10, <1>12, <1>13, ShiftedGrows
  <1>15. pushed.hist = h /\ IsTerm(pushed) /\ Kept(pushed)
    BY <1>7, <1>13, <1>14 DEF IsTerm, TermFields, Grows, Kept
  <1>16. Accrue(s) = IF Len(h) > Limit THEN LinesLeftTheFront([pushed EXCEPT !.hist = Tail(@)], 1) ELSE pushed
    <2>1. pushed = [a EXCEPT !.hist = Append(@, s.grid[1]), !.grid = RotateRows(@, 0, s.bottom, TRUE)]
      BY <1>2, <1>9, <1>11, <1>13
    <2>2. a = IF s.bottom = Rows(s) - 1 THEN s ELSE ShiftBelow(s, Base(s) + s.bottom + 1)
      BY <1>4, <1>5
    <2>3. pushed = [a EXCEPT !.hist = Append(@, s.grid[1]), !.grid = RotateRows(@, 0, s.bottom, TRUE)] /\ Len(pushed.hist) = Len(h)
      BY <1>15, <2>1
    <2>4. QED
      BY <2>2, <2>3 DEF Accrue
  <1>17. CASE Len(h) > Limit
    <2>1. PICK rest : rest = Tail(h)
      OBVIOUS
    <2>2. rest \in Seq(Row) /\ Len(rest) = k
      <3>1. h # <<>>
        BY <1>10, LenProperties
      <3>2. rest \in Seq(Row) /\ Len(rest) = Len(h) - 1
        BY <1>10, <2>1, <3>1, HeadTailProperties
      <3>3. QED
        BY <1>10, <3>2
    <2>3. PICK z : z = LinesLeftTheFront([pushed EXCEPT !.hist = rest], 1)
      OBVIOUS
    <2>4. z = Accrue(s)
      BY <1>15, <1>16, <1>17, <2>1, <2>3
    <2>5. Len(pushed.hist) = Len(rest) + 1
      BY <1>10, <1>15, <2>2
    <2>6. Kept(z) /\ Feeds(pushed, z) /\ SameScreen(pushed, z) /\ Len(z.hist) = k /\ z.evicted = pushed.evicted + 1
      BY <1>15, <2>2, <2>3, <2>5, DropFeeds
    <2>7. Feeds(s, z)
      BY <1>1, <1>14, <1>15, <2>6, FeedsOn DEF Grows, Kept
    <2>8. SameScreen(s, z) /\ z.evicted = s.evicted + 1
      BY <1>14, <2>6 DEF Grows, SameScreen
    <2>9. 1 <= Limit + MaxRows
      BY AnchorConstants
    <2>10. Goes(s, z)
      BY <1>3, <2>6, <2>7, <2>8, <2>9, GrowsGoes DEF Kept
    <2>11. QED
      BY <2>4, <2>10
  <1>18. CASE ~ (Len(h) > Limit)
    <2>1. Accrue(s) = pushed
      BY <1>16, <1>18
    <2>2. Len(pushed.hist) <= Limit
      BY <1>10, <1>15, <1>18, Bounds
    <2>3. 0 <= Limit + MaxRows
      BY Bounds
    <2>4. pushed.evicted = s.evicted + 0
      BY <1>1, <1>14, CountersOf DEF Grows, Counters
    <2>5. Goes(s, pushed)
      BY <1>14, <1>15, <2>2, <2>3, <2>4, GrowsGoes DEF Grows
    <2>6. QED
      BY <2>1, <2>5
  <1>19. QED
    BY <1>17, <1>18

\* linefeed_inner, on either screen.
LEMMA LinefeedFeeds ==
  ASSUME Fed(term), Linefeed
  PROVE  Feed!FeedNext /\ Fed(term')
  <1>1. CASE ~ term.alt /\ Call(Accrue(now))
    <2>1. Fed(now) /\ ~ now.alt
      BY <1>1, NowIs
    <2>2. Goes(now, Accrue(now))
      BY <2>1, AccrueGoes
    <2>3. QED
      BY <1>1, <2>2, FeedStep
  <1>2. CASE Call(RotateOnce(now, term.top, term.bottom, TRUE))
    BY <1>2, RotateStep
  <1>3. CASE term.row + 1 < Rows(term) /\ Call([now EXCEPT !.row = @ + 1])
    <2>1. PICK row \in Nat : row = term.row + 1
      BY NowScreen
    <2>2. row < Len(term.grid)
      BY <1>3, <2>1 DEF Rows
    <2>3. now.row + 1 = row
      BY <2>1, NowScreen
    <2>4. Call([now EXCEPT !.row = row])
      BY <1>3, <2>3
    <2>5. QED
      BY <2>2, <2>4, CursorStep
  <1>4. QED
    BY <1>1, <1>2, <1>3 DEF Linefeed

\* erase_history.
LEMMA EraseHistoryIs ==
  ASSUME NEW s, Kept(s)
  PROVE  LET z == EraseHistory(s) IN
         Kept(z) /\ Feeds(s, z) /\ SameScreen(s, z) /\ Len(z.hist) = 0 /\ z.evicted = s.evicted + Len(s.hist)
  <1>1. IsTerm(s)
    BY DEF Kept
  <1>2. PICK n \in Nat : n = Len(s.hist)
    BY <1>1, HeightOf
  <1>3. CASE n = 0
    <2>1. EraseHistory(s) = s
      BY <1>2, <1>3 DEF EraseHistory, Base
    <2>2. Feeds(s, s)
      BY <1>1, QuietHere, QuietFeeds
    <2>3. s.evicted = s.evicted + n
      BY <1>1, <1>3, CountersOf DEF Counters
    <2>4. QED
      BY <1>2, <1>3, <2>1, <2>2, <2>3 DEF SameScreen
  <1>4. CASE n # 0
    <2>1. EraseHistory(s) = LinesLeftTheFront([s EXCEPT !.hist = <<>>], n)
      BY <1>2, <1>4 DEF EraseHistory, Base
    <2>2. <<>> \in Seq(Row) /\ Len(<<>>) = 0 /\ Len(s.hist) = Len(<<>>) + n
      <3>1. <<>> \in Seq(Row) /\ Len(<<>>) = 0
        BY EmptySeq
      <3>2. n = 0 + n
        OBVIOUS
      <3>3. QED
        BY <1>2, <3>1, <3>2
    <2>3. PICK none : none = <<>>
      OBVIOUS
    <2>4. none \in Seq(Row) /\ Len(none) = 0 /\ Len(s.hist) = Len(none) + n
      BY <2>2, <2>3
    <2>5. PICK z : z = LinesLeftTheFront([s EXCEPT !.hist = none], n)
      OBVIOUS
    <2>6. Kept(z) /\ Feeds(s, z) /\ SameScreen(s, z) /\ Len(z.hist) = Len(none) /\ z.evicted = s.evicted + n
      BY <2>4, <2>5, DropFeeds
    <2>7. z = EraseHistory(s)
      BY <2>1, <2>3, <2>5
    <2>8. QED
      BY <1>2, <2>4, <2>6, <2>7
  <1>5. QED
    BY <1>3, <1>4

\* erase_history, as part of a call.
LEMMA EraseHistoryGoes ==
  ASSUME NEW s, Fed(s)
  PROVE  Goes(s, EraseHistory(s))
  <1>1. PICK z : z = EraseHistory(s)
    OBVIOUS
  <1>2. PICK n \in Nat : n = Len(s.hist) /\ n <= Limit
    BY HeightOf DEF Fed, Kept, Screened
  <1>3. Kept(z) /\ Feeds(s, z) /\ SameScreen(s, z) /\ Len(z.hist) = 0 /\ z.evicted = s.evicted + n
    BY <1>1, <1>2, EraseHistoryIs DEF Fed
  <1>4. n <= Limit + MaxRows /\ 0 <= Limit
    BY <1>2, Bounds
  <1>5. Goes(s, z)
    BY <1>3, <1>4, GrowsGoes DEF Kept
  <1>6. QED
    BY <1>1, <1>5

\* ED, in each of its modes.
LEMMA EraseDisplayFeeds ==
  ASSUME Fed(term), NEW mode \in 0..3, EraseDisplay(mode)
  PROVE  Feed!FeedNext /\ Fed(term')
  <1>1. PICK row \in Nat : row = term.row
    BY NowScreen
  <1>2. PICK g \in Nat : g = Len(term.grid) /\ row < g /\ 1 <= g /\ Rows(term) = g /\ Len(now.grid) = g
    BY <1>1, NowScreen
  <1>3. Kept(now) /\ IsTerm(now) /\ Fed(now)
    BY NowTerm, NowIs
  <1>4. PICK last \in Nat : last = g - 1
    <2>1. 1 <= g
      BY <1>2
    <2>2. g - 1 \in Nat
      BY <2>1
    <2>3. QED
      BY <2>2
  <1>5. last < Len(now.grid) /\ row + 1 \in Nat
    <2>1. last < g
      BY <1>4
    <2>2. QED
      BY <1>2, <2>1
  <1>6. CASE mode = 0
    <2>1. Call(BlankRows(now, row + 1, last))
      BY <1>1, <1>2, <1>4, <1>6 DEF EraseDisplay
    <2>2. Steady(now, BlankRows(now, row + 1, last))
      BY <1>3, <1>5, BlankStays
    <2>3. QED
      BY <2>1, <2>2, SteadyStep
  <1>7. CASE mode = 1
    <2>1. CASE row = 0
      <3>1. Call(now)
        BY <1>1, <1>7, <2>1 DEF EraseDisplay
      <3>2. Quiet(now, now)
        BY <1>3, QuietHere
      <3>3. QED
        BY <3>1, <3>2, QuietStep
    <2>2. CASE row # 0
      <3>1. PICK above \in Nat : above = row - 1
        BY <2>2
      <3>2. above < Len(now.grid) /\ 0 \in Nat
        BY <1>2, <3>1
      <3>3. Call(BlankRows(now, 0, above))
        BY <1>1, <1>7, <2>2, <3>1 DEF EraseDisplay
      <3>4. Steady(now, BlankRows(now, 0, above))
        BY <1>3, <3>2, BlankStays
      <3>5. QED
        BY <3>3, <3>4, SteadyStep
    <2>3. QED
      BY <2>1, <2>2
  <1>8. CASE mode = 2
    <2>1. Call(BlankRows(now, 0, last))
      BY <1>2, <1>4, <1>8 DEF EraseDisplay
    <2>2. Steady(now, BlankRows(now, 0, last))
      BY <1>3, <1>5, BlankStays
    <2>3. QED
      BY <2>1, <2>2, SteadyStep
  <1>9. CASE mode = 3
    <2>1. Call(EraseHistory(now))
      BY <1>9 DEF EraseDisplay
    <2>2. Goes(now, EraseHistory(now))
      BY <1>3, EraseHistoryGoes
    <2>3. QED
      BY <2>1, <2>2, FeedStep
  <1>10. mode = 0 \/ mode = 1 \/ mode = 2 \/ mode = 3
    OBVIOUS
  <1>11. QED
    BY <1>6, <1>7, <1>8, <1>9, <1>10

\* A change of rows alone, under holders that stay on the screen and above it.
LEMMA ReshapedKept ==
  ASSUME NEW s, Kept(s), ~ s.alt, NEW z, IsTerm(z), SameFeed(s, z), z.alt = s.alt, Height(s) <= Height(z)
  PROVE  Kept(z) /\ Feeds(s, z)
  <1>1. IsTerm(s) /\ z.marks = s.marks /\ z.nextMark = s.nextMark
    BY DEF Kept, SameFeed
  <1>2. Feeds(s, z)
    BY <1>1, SilentFeeds
  <1>3. MarkIds(z.marks["alternate"]) = {} /\ LiveMarks(z) = LiveMarks(s)
    BY <1>1 DEF Kept, Registered, LiveMarks
  <1>4. ASSUME NEW w \in Buffers, NEW id \in MarkIds(z.marks[w]) PROVE Placed(z, w, Index(z.marks[w])[id])
    <2>1. w = "normal"
      BY <1>3, <1>4 DEF Buffers
    <2>2. PICK l \in Nat : l = Index(s.marks[w])[id]
      <3>1. MarkList(s.marks[w])
        BY <1>1, <2>1, MarksOf
      <3>2. QED
        BY <1>1, <1>4, <3>1, IndexIs
    <2>3. l < Height(s)
      BY <1>1, <1>4, <2>1, <2>2 DEF Kept, Registered, Placed, Buffers
    <2>4. l < Height(z)
      <3>1. PICK a \in Nat : a = Height(s)
        BY <1>1, HeightOf
      <3>2. PICK b \in Nat : b = Height(z)
        BY HeightOf
      <3>3. l < a /\ a <= b
        BY <2>3, <3>1, <3>2
      <3>4. QED
        BY <3>2, <3>3, AtMost, Beneath
    <2>5. QED
      BY <1>1, <2>1, <2>2, <2>4 DEF Placed
  <1>5. \A w \in Buffers : Len(z.marks[w]) <= MaxMarkers
    BY <1>1 DEF Kept, Registered
  <1>6. \A id \in LiveMarks(z) : id < z.nextMark
    BY <1>1, <1>3 DEF Kept, Registered
  <1>7. QED
    BY <1>1, <1>2, <1>3, <1>4, <1>5, <1>6 DEF Kept, Registered

\* A part of some rows.
LEMMA PartIs ==
  ASSUME NEW rows \in Seq(Row), NEW m \in Nat, NEW n \in Nat, 1 <= m, m <= n + 1, n <= Len(rows)
  PROVE  SubSeq(rows, m, n) \in Seq(Row) /\ Len(SubSeq(rows, m, n)) = (n + 1) - m
  <1>1. PICK k \in Nat : k = Len(rows) /\ DOMAIN rows = 1..k
    BY LenProperties
  <1>2. \A i \in m..n : rows[i] \in Row
    <2>1. \A i \in m..n : i \in 1..k
      BY <1>1
    <2>2. QED
      BY <1>1, <2>1
  <1>3. SubSeq(rows, m, n) \in Seq(Row) /\ Len(SubSeq(rows, m, n)) = IF m <= n THEN n - m + 1 ELSE 0
    BY <1>2, SubSeqProperties
  <1>4. (IF m <= n THEN n - m + 1 ELSE 0) = (n + 1) - m
    OBVIOUS
  <1>5. QED
    BY <1>3, <1>4

\* Engine::clear.
LEMMA ClearFeeds ==
  ASSUME Fed(term), NEW top \in Nat, Clear(top)
  PROVE  Feed!FeedNext /\ Fed(term')
  <1>1. PICK s : s = now
    OBVIOUS
  <1>2. Fed(s) /\ Kept(s) /\ IsTerm(s) /\ s.grid = term.grid
    BY <1>1, NowIs, NowTerm
  <1>3. PICK k \in Nat : k = Len(s.hist) /\ k <= Limit
    BY <1>2, HeightOf DEF Fed, Screened
  <1>4. PICK g \in Nat : g = Len(s.grid) /\ g <= MaxRows /\ g = Rows(term)
    BY <1>2, HeightOf DEF Fed, Screened, Rows
  <1>5. PICK row \in Nat : row = s.row /\ row = term.row /\ row < g
    BY <1>1, <1>4, NowScreen DEF Rows
  <1>6. ~ term.alt /\ top <= row
    BY <1>5 DEF Clear
  <1>7. ~ s.alt /\ top < g
    BY <1>1, <1>5, <1>6, NowScreen, Beneath
  <1>8. s.hist \in Seq(Row) /\ s.grid \in Seq(Row)
    BY <1>2, RowSeqs
  <1>9. PICK h : h = s.hist \o SubSeq(s.grid, 1, top)
    OBVIOUS
  <1>10. h \in Seq(Row) /\ Len(h) = k + top
    <2>1. SubSeq(s.grid, 1, top) \in Seq(Row) /\ Len(SubSeq(s.grid, 1, top)) = top
      <3>1. 1 \in Nat /\ 1 <= 1 /\ 1 <= top + 1 /\ top <= Len(s.grid) /\ (top + 1) - 1 = top
        BY <1>4, <1>7
      <3>2. QED
        BY <1>8, <3>1, PartIs
    <2>2. QED
      BY <1>3, <1>8, <1>9, <2>1, ConcatProperties
  <1>11. PICK grid : grid = SubSeq(s.grid, top + 1, g) \o Blanks(top)
    OBVIOUS
  <1>12. grid \in Seq(Row) /\ Len(grid) = g
    <2>1. SubSeq(s.grid, top + 1, g) \in Seq(Row) /\ Len(SubSeq(s.grid, top + 1, g)) = g - top
      <3>1. top + 1 \in Nat /\ 1 <= top + 1 /\ top + 1 <= g + 1 /\ g <= Len(s.grid) /\ (g + 1) - (top + 1) = g - top
        BY <1>4, <1>7
      <3>2. QED
        BY <1>8, <3>1, PartIs
    <2>2. Blanks(top) \in Seq(Row) /\ Len(Blanks(top)) = top
      BY BlanksAre
    <2>3. grid \in Seq(Row) /\ Len(grid) = (g - top) + top
      BY <1>11, <2>1, <2>2, ConcatProperties
    <2>4. QED
      BY <2>3
  <1>13. PICK up \in Nat : up = row - top
    BY <1>6
  <1>14. PICK m : m = [s EXCEPT !.hist = h, !.grid = grid, !.row = up]
    OBVIOUS
  <1>15. IsTerm(m) /\ SameFeed(s, m) /\ m.alt = s.alt /\ m.hist = h /\ m.grid = grid /\ m.other = s.other
         /\ m.row = up /\ m.saved = s.saved /\ m.top = s.top /\ m.bottom = s.bottom
    BY <1>2, <1>10, <1>12, <1>14 DEF IsTerm, SameFeed, TermFields
  <1>16. Kept(m) /\ Feeds(s, m)
    <2>1. Height(s) = k + g /\ Height(m) = (k + top) + g
      BY <1>3, <1>4, <1>10, <1>12, <1>15 DEF Height
    <2>2. k + g <= (k + top) + g
      OBVIOUS
    <2>3. Height(s) <= Height(m)
      BY <2>1, <2>2
    <2>4. QED
      BY <1>2, <1>7, <1>15, <2>3, ReshapedKept
  <1>17. PICK a : a = EraseHistory(m)
    OBVIOUS
  <1>18. Kept(a) /\ Feeds(m, a) /\ SameScreen(m, a) /\ Len(a.hist) = 0 /\ a.evicted = m.evicted + (k + top)
    BY <1>10, <1>15, <1>16, <1>17, EraseHistoryIs
  <1>19. PICK b : b = Deselect(a)
    OBVIOUS
  <1>20. Steady(a, b)
    BY <1>18, <1>19, DeselectQuiet, QuietStays DEF Kept
  <1>21. b.row = up /\ Len(b.grid) = g /\ Kept(b)
    BY <1>12, <1>15, <1>18, <1>20 DEF Steady, SameShape, SameScreen
  <1>22. PICK last \in Nat : last = g - 1
    BY <1>7
  <1>23. PICK z : z = BlankRows(b, up + 1, last)
    OBVIOUS
  <1>24. Steady(b, z)
    <2>1. last < Len(b.grid) /\ up + 1 \in Nat
      BY <1>21, <1>22
    <2>2. QED
      BY <1>21, <1>23, <2>1, BlankStays
  <1>25. Call(z)
    <2>1. m = [now EXCEPT !.hist = @ \o SubSeq(term.grid, 1, top),
                          !.grid = SubSeq(@, top + 1, Rows(term)) \o Blanks(top),
                          !.row = @ - top]
      BY <1>1, <1>2, <1>4, <1>5, <1>9, <1>11, <1>13, <1>14
    <2>2. z = BlankRows(b, b.row + 1, Rows(term) - 1)
      BY <1>4, <1>21, <1>22, <1>23
    <2>3. b = Deselect(EraseHistory(m))
      BY <1>17, <1>19
    <2>4. QED
      BY <2>1, <2>2, <2>3 DEF Clear
  <1>26. Feeds(s, z)
    <2>1. IsTerm(a) /\ IsTerm(b) /\ IsTerm(z) /\ Feeds(a, b) /\ Feeds(b, z)
      BY <1>18, <1>20, <1>24 DEF Steady, Kept
    <2>2. Feeds(s, a)
      BY <1>2, <1>15, <1>16, <1>18, <2>1, FeedsOn
    <2>3. Feeds(s, b)
      BY <1>2, <2>1, <2>2, FeedsOn
    <2>4. QED
      BY <1>2, <2>1, <2>3, FeedsOn
  <1>27. Fed(z)
    <2>1. /\ Len(z.grid) = g /\ Len(z.other) = Len(s.other) /\ z.row = up /\ z.saved = s.saved /\ z.alt = s.alt
          /\ z.top = s.top /\ z.bottom = s.bottom /\ Len(z.hist) = 0
      BY <1>12, <1>15, <1>18, <1>20, <1>24 DEF Steady, SameShape, SameScreen
    <2>2. up < g
      BY <1>5, <1>6, <1>13
    <2>3. Screened(z)
      <3>1. Screened(s) /\ 0 <= Limit
        BY <1>2, Bounds DEF Fed
      <3>2. QED
        BY <1>4, <2>1, <2>2, <3>1 DEF Screened
    <2>4. QED
      BY <1>24, <2>3 DEF Fed, Steady
  <1>28. z.evicted <= s.evicted + (Limit + MaxRows)
    <2>1. PICK e \in Nat : e = s.evicted
      BY <1>2, CountersOf DEF Counters
    <2>2. z.evicted = e + (k + top)
      BY <1>15, <1>18, <1>20, <1>24, <2>1 DEF Steady, SameFeed
    <2>3. e + (k + top) <= e + (Limit + MaxRows)
      BY <1>3, <1>4, <1>7, Bounds
    <2>4. QED
      BY <2>1, <2>2, <2>3
  <1>29. Goes(now, z)
    BY <1>1, <1>26, <1>27, <1>28 DEF Goes
  <1>30. QED
    BY <1>25, <1>29, FeedStep

(* ---- the other screen, and the reset ------------------------------------------------------ *)
\* A list announced.
LEMMA AnnounceIs ==
  ASSUME NEW s, IsTerm(s), NEW ms, MarkList(ms)
  PROVE  LET z == Announce(s, ms) IN
         /\ IsTerm(z) /\ SameShape(s, z) /\ z.marks = s.marks /\ z.nextMark = s.nextMark
         /\ z.evicted = s.evicted /\ z.epoch = s.epoch /\ Tells(s, z, MarkIds(ms))
  <1>1. PICK ids : ListOf(ids, MarkIds(ms)) /\ Fallen(ms) = Roll(ids)
    BY FallenAre
  <1>2. PICK out : out = s.out \o Roll(ids)
    OBVIOUS
  <1>3. out \in Seq(Event)
    <2>1. Roll(ids) \in Seq(Event)
      BY <1>1, RollIsEvents
    <2>2. QED
      BY <1>2, <2>1, OutOf, ConcatProperties
  <1>4. PICK z : z = Announce(s, ms)
    OBVIOUS
  <1>5. z = [s EXCEPT !.out = out]
    BY <1>1, <1>2, <1>4 DEF Announce, Fallen
  <1>6. IsTerm(z) /\ SameShape(s, z) /\ z.marks = s.marks /\ z.nextMark = s.nextMark /\ z.evicted = s.evicted /\ z.epoch = s.epoch /\ z.out = out
    BY <1>3, <1>5 DEF IsTerm, SameShape, TermFields
  <1>7. QED
    BY <1>1, <1>2, <1>4, <1>6 DEF Tells

\* switch_to_alt: another index altogether, and the epoch moves if either
\* list has a marker.
LEMMA SwitchToAltFeeds ==
  ASSUME Fed(term), SwitchToAlt
  PROVE  Feed!FeedNext /\ Fed(term')
  <1>1. PICK s : s = now
    OBVIOUS
  <1>2. Fed(s) /\ Kept(s) /\ IsTerm(s) /\ ~ s.alt
    BY <1>1, NowIs, NowTerm DEF SwitchToAlt
  <1>3. PICK b : b = IF AnyMarks(s) THEN BumpEpoch(s) ELSE s
    OBVIOUS
  <1>4. IsTerm(b) /\ SameShape(s, b) /\ b.marks = s.marks /\ b.nextMark = s.nextMark /\ b.evicted = s.evicted /\ b.out = s.out
        /\ s.epoch <= b.epoch /\ (b.epoch = s.epoch => ~ AnyMarks(s))
    <2>1. CASE AnyMarks(s)
      <3>1. b = BumpEpoch(s)
        BY <1>3, <2>1
      <3>2. IsTerm(b) /\ SameShape(s, b) /\ b.marks = s.marks /\ b.nextMark = s.nextMark /\ b.evicted = s.evicted /\ b.epoch = s.epoch + 1 /\ b.out = s.out
        BY <1>2, <3>1, BumpIs
      <3>3. s.epoch <= b.epoch /\ b.epoch # s.epoch
        BY <1>2, <3>2, CountersOf DEF Counters
      <3>4. QED
        BY <3>2, <3>3
    <2>2. CASE ~ AnyMarks(s)
      <3>1. b = s
        BY <1>3, <2>2
      <3>2. s.epoch <= s.epoch
        BY <1>2, CountersOf DEF Counters
      <3>3. QED
        BY <1>2, <2>2, <3>1, <3>2 DEF SameShape
    <2>3. QED
      BY <2>1, <2>2
  <1>5. PICK t : t = Deselect(b)
    OBVIOUS
  <1>6. IsTerm(t) /\ SameShape(b, t) /\ SameFeed(b, t)
    BY <1>4, <1>5, DeselectQuiet DEF Quiet
  <1>7. PICK blanks : blanks = Blanks(Rows(t))
    OBVIOUS
  <1>8. blanks \in Seq(Row) /\ Len(blanks) = Len(t.grid)
    BY <1>6, <1>7, BlanksAre, HeightOf DEF Rows
  <1>9. PICK z : z = [t EXCEPT !.saved = t.row, !.alt = TRUE, !.other = t.grid, !.grid = blanks]
    OBVIOUS
  <1>10. /\ DOMAIN z = TermFields /\ z.hist = t.hist /\ z.grid = blanks /\ z.other = t.grid /\ z.alt = TRUE
         /\ z.row = t.row /\ z.saved = t.row /\ z.top = t.top /\ z.bottom = t.bottom /\ z.marks = t.marks /\ z.points = t.points
         /\ z.nextMark = t.nextMark /\ z.nextPoint = t.nextPoint /\ z.evicted = t.evicted /\ z.epoch = t.epoch /\ z.out = t.out
    BY <1>6, <1>9 DEF IsTerm, TermFields
  <1>11. IsTerm(z)
    <2>1. z.alt \in BOOLEAN
      BY <1>10
    <2>2. QED
      BY <1>6, <1>8, <1>10, <2>1 DEF IsTerm
  <1>12. z.marks = s.marks /\ z.nextMark = s.nextMark /\ z.evicted = s.evicted /\ z.out = s.out /\ s.epoch <= z.epoch /\ (z.epoch = s.epoch => ~ AnyMarks(s))
    BY <1>4, <1>6, <1>10 DEF SameFeed
  <1>13. /\ Len(z.hist) = Len(s.hist) /\ Len(z.grid) = Len(s.grid) /\ Len(z.other) = Len(s.grid)
         /\ z.row = s.row /\ z.saved = s.row /\ z.top = s.top /\ z.bottom = s.bottom
    BY <1>4, <1>6, <1>8, <1>10 DEF SameShape
  <1>14. LiveMarks(z) = LiveMarks(s) /\ Height(z) = Height(s)
    BY <1>12, <1>13 DEF LiveMarks, Height
  <1>15. MarkIds(s.marks["alternate"]) = {} /\ Active(z) = "alternate" /\ Active(s) = "normal"
    BY <1>2, <1>10 DEF Active, Kept, Registered
  <1>16. Feeds(s, z)
    <2>1. ASSUME z.epoch = s.epoch PROVE Lifted(s, z, {}, z.evicted - s.evicted)
      <3>1. s.marks.normal = <<>>
        BY <1>12, <2>1 DEF AnyMarks
      <3>2. ActiveIds(s) = {} /\ ActiveIds(z) = {}
        BY <1>12, <1>15, <3>1, NoMarks DEF ActiveIds
      <3>3. QED
        BY <3>2 DEF Lifted
    <2>2. Tells(s, z, {})
      BY <1>2, <1>12, TellsNothing
    <2>3. Follows(s, z, {})
      BY <1>14, <2>1, <2>2 DEF Follows
    <2>4. s.evicted <= z.evicted
      BY <1>2, <1>12, CountersOf DEF Counters
    <2>5. QED
      BY <1>12, <2>3, <2>4 DEF Feeds
  <1>17. Kept(z)
    <2>1. ASSUME NEW w \in Buffers, NEW id \in MarkIds(z.marks[w]) PROVE Placed(z, w, Index(z.marks[w])[id])
      <3>1. w = "normal"
        BY <1>12, <1>15, <2>1 DEF Buffers
      <3>2. Placed(s, w, Index(z.marks[w])[id])
        BY <1>2, <1>12, <2>1 DEF Kept, Registered
      <3>3. QED
        BY <1>14, <3>1, <3>2 DEF Placed
    <2>2. QED
      BY <1>2, <1>10, <1>11, <1>12, <1>14, <2>1 DEF Kept, Registered
  <1>18. Fed(z)
    <2>1. z.alt
      BY <1>10
    <2>2. QED
      BY <1>2, <1>13, <1>17, <2>1 DEF Fed, Screened
  <1>19. z.evicted <= s.evicted + (Limit + MaxRows)
    <2>1. PICK e \in Nat : e = s.evicted
      BY <1>2, CountersOf DEF Counters
    <2>2. e <= e + (Limit + MaxRows)
      BY Bounds
    <2>3. QED
      BY <1>12, <2>1, <2>2
  <1>20. Goes(now, z)
    BY <1>1, <1>16, <1>18, <1>19 DEF Goes
  <1>21. Call(z)
    <2>1. t = Deselect(IF AnyMarks(now) THEN BumpEpoch(now) ELSE now)
      BY <1>1, <1>3, <1>5
    <2>2. QED
      BY <1>7, <1>9, <2>1 DEF SwitchToAlt
  <1>22. QED
    BY <1>20, <1>21, FeedStep

\* switch_to_primary: the alternate list dies, and the epoch moves for what
\* comes back.
LEMMA SwitchToPrimaryFeeds ==
  ASSUME Fed(term), SwitchToPrimary
  PROVE  Feed!FeedNext /\ Fed(term')
  <1>1. PICK s : s = now
    OBVIOUS
  <1>2. Fed(s) /\ Kept(s) /\ IsTerm(s) /\ s.alt /\ s.marks = term.marks
    BY <1>1, NowIs, NowTerm DEF SwitchToPrimary
  <1>3. PICK ms : ms = s.marks["alternate"]
    OBVIOUS
  <1>4. MarkList(ms)
    BY <1>2, <1>3, MarksOf
  <1>5. PICK d : d = Deselect(s)
    OBVIOUS
  <1>6. IsTerm(d) /\ SameShape(s, d) /\ SameFeed(s, d)
    BY <1>2, <1>5, DeselectQuiet DEF Quiet
  <1>7. PICK t : t = Announce(d, ms)
    OBVIOUS
  <1>8. IsTerm(t) /\ SameShape(d, t) /\ t.marks = d.marks /\ t.nextMark = d.nextMark /\ t.evicted = d.evicted /\ t.epoch = d.epoch /\ Tells(d, t, MarkIds(ms))
    BY <1>4, <1>6, <1>7, AnnounceIs
  <1>9. PICK b : b = IF t.marks.normal # <<>> THEN BumpEpoch(t) ELSE t
    OBVIOUS
  <1>10. IsTerm(b) /\ SameShape(t, b) /\ b.marks = t.marks /\ b.nextMark = t.nextMark /\ b.evicted = t.evicted /\ b.out = t.out
        /\ t.epoch <= b.epoch /\ (b.epoch = t.epoch => t.marks.normal = <<>>)
    <2>1. CASE t.marks.normal # <<>>
      <3>1. b = BumpEpoch(t)
        BY <1>9, <2>1
      <3>2. IsTerm(b) /\ SameShape(t, b) /\ b.marks = t.marks /\ b.nextMark = t.nextMark /\ b.evicted = t.evicted /\ b.epoch = t.epoch + 1 /\ b.out = t.out
        BY <1>8, <3>1, BumpIs
      <3>3. t.epoch <= b.epoch /\ b.epoch # t.epoch
        BY <1>8, <3>2, CountersOf DEF Counters
      <3>4. QED
        BY <3>2, <3>3
    <2>2. CASE t.marks.normal = <<>>
      <3>1. b = t
        BY <1>9, <2>2
      <3>2. t.epoch <= t.epoch
        BY <1>8, CountersOf DEF Counters
      <3>3. QED
        BY <1>8, <2>2, <3>1, <3>2 DEF SameShape
    <2>3. QED
      BY <2>1, <2>2
  <1>11. PICK blanks : blanks = Blanks(Rows(t))
    OBVIOUS
  <1>12. blanks \in Seq(Row) /\ Len(blanks) = Len(t.grid) /\ t.other \in Seq(Row)
    BY <1>8, <1>11, BlanksAre, HeightOf, RowSeqs DEF Rows
  <1>13. PICK M : M = [b.marks EXCEPT !.alternate = <<>>]
    OBVIOUS
  <1>14. PICK P : P = [b.points EXCEPT !.alternate = {}]
    OBVIOUS
  <1>15. DOMAIN M = Buffers /\ M.normal = b.marks.normal /\ M.alternate = <<>> /\ DOMAIN P = Buffers
    BY <1>10, <1>13, <1>14 DEF IsTerm, Buffers
  <1>16. PICK z : z = [b EXCEPT !.marks = M, !.points = P, !.alt = FALSE, !.saved = 0, !.grid = t.other, !.other = blanks]
    OBVIOUS
  <1>17. /\ DOMAIN z = TermFields /\ z.hist = b.hist /\ z.grid = t.other /\ z.other = blanks /\ z.alt = FALSE
         /\ z.row = b.row /\ z.saved = 0 /\ z.top = b.top /\ z.bottom = b.bottom /\ z.marks = M /\ z.points = P
         /\ z.nextMark = b.nextMark /\ z.nextPoint = b.nextPoint /\ z.evicted = b.evicted /\ z.epoch = b.epoch /\ z.out = b.out
    BY <1>10, <1>16 DEF IsTerm, TermFields
  <1>18. IsTerm(z)
    <2>1. z.alt \in BOOLEAN /\ z.saved \in Nat
      <3>1. FALSE \in BOOLEAN /\ 0 \in Nat
        OBVIOUS
      <3>2. z.alt = FALSE /\ z.saved = 0
        BY <1>17
      <3>3. QED
        BY <3>1, <3>2
    <2>2. MarkList(M.normal) /\ MarkList(M.alternate)
      BY <1>10, <1>15, NoMarks DEF IsTerm
    <2>3. QED
      BY <1>10, <1>12, <1>15, <1>17, <2>1, <2>2 DEF IsTerm
  <1>19. z.nextMark = s.nextMark /\ z.evicted = s.evicted /\ s.epoch <= z.epoch /\ (z.epoch = s.epoch => s.marks.normal = <<>>) /\ z.marks.normal = s.marks.normal /\ z.marks.alternate = <<>>
    BY <1>6, <1>8, <1>10, <1>15, <1>17 DEF SameFeed
  <1>20. /\ Len(z.hist) = Len(s.hist) /\ Len(z.grid) = Len(s.other) /\ Len(z.other) = Len(s.grid)
         /\ z.row = s.row /\ z.saved = 0 /\ z.top = s.top /\ z.bottom = s.bottom
    BY <1>6, <1>8, <1>10, <1>12, <1>17 DEF SameShape
  <1>21. Len(s.other) = Len(s.grid)
    BY <1>2 DEF Fed, Screened
  <1>22. PICK D : D = MarkIds(ms)
    OBVIOUS
  <1>23. Tells(s, z, D)
    <2>1. d.out = s.out /\ z.out = t.out
      BY <1>6, <1>10, <1>17 DEF SameFeed
    <2>2. QED
      BY <1>8, <1>22, <2>1 DEF Tells
  <1>24. D \subseteq LiveMarks(s) /\ LiveMarks(z) = LiveMarks(s) \ D
    <2>1. MarkIds(s.marks["normal"]) \cap D = {}
      BY <1>2, <1>3, <1>22 DEF Kept, Registered
    <2>2. LiveMarks(z) = MarkIds(s.marks.normal)
      BY <1>19, NoMarks DEF LiveMarks
    <2>3. LiveMarks(s) = MarkIds(s.marks.normal) \cup D
      BY <1>3, <1>22 DEF LiveMarks
    <2>4. QED
      BY <2>1, <2>2, <2>3
  <1>25. Feeds(s, z)
    <2>1. ASSUME z.epoch = s.epoch PROVE Lifted(s, z, D, z.evicted - s.evicted)
      <3>1. z.marks.normal = <<>>
        BY <1>19, <2>1
      <3>2. Active(z) = "normal" /\ Active(s) = "alternate"
        BY <1>2, <1>17 DEF Active
      <3>3. ActiveIds(s) = D /\ ActiveIds(z) = {}
        BY <1>3, <1>22, <3>1, <3>2, NoMarks DEF ActiveIds
      <3>4. QED
        BY <3>3 DEF Lifted
    <2>2. Follows(s, z, D)
      BY <1>23, <1>24, <2>1 DEF Follows
    <2>3. s.evicted <= z.evicted
      BY <1>2, <1>19, CountersOf DEF Counters
    <2>4. QED
      BY <1>19, <2>2, <2>3 DEF Feeds
  <1>26. Kept(z)
    <2>1. ASSUME NEW w \in Buffers, NEW id \in MarkIds(z.marks[w]) PROVE Placed(z, w, Index(z.marks[w])[id])
      <3>1. w = "normal"
        BY <1>19, <2>1, NoMarks DEF Buffers
      <3>2. Placed(s, w, Index(z.marks[w])[id])
        BY <1>2, <1>19, <2>1, <3>1 DEF Kept, Registered
      <3>3. Height(z) = Height(s)
        BY <1>20, <1>21 DEF Height
      <3>4. QED
        BY <3>1, <3>2, <3>3 DEF Placed
    <2>2. MarkIds(z.marks["normal"]) = MarkIds(s.marks["normal"]) /\ MarkIds(z.marks["alternate"]) = {} /\ Len(z.marks["alternate"]) = 0
      BY <1>19, NoMarks
    <2>3. \A w \in Buffers : Len(z.marks[w]) <= MaxMarkers
      <3>1. 0 <= MaxMarkers
        BY AnchorConstants
      <3>2. Len(z.marks["normal"]) <= MaxMarkers
        BY <1>2, <1>19 DEF Kept, Registered, Buffers
      <3>3. QED
        BY <2>2, <3>1, <3>2 DEF Buffers
    <2>4. \A id \in LiveMarks(z) : id < z.nextMark
      BY <1>2, <1>19, <1>24 DEF Kept, Registered
    <2>5. QED
      BY <1>18, <2>1, <2>2, <2>3, <2>4 DEF Kept, Registered
  <1>27. Fed(z)
    <2>1. Screened(s) /\ 0 < Len(s.grid)
      <3>1. 1 <= Len(s.grid) /\ Len(s.grid) \in Nat
        BY <1>2, HeightOf DEF Fed, Screened
      <3>2. QED
        BY <1>2, <3>1 DEF Fed
    <2>2. Screened(z)
      BY <1>20, <1>21, <2>1 DEF Screened
    <2>3. QED
      BY <1>26, <2>2 DEF Fed
  <1>28. z.evicted <= s.evicted + (Limit + MaxRows)
    <2>1. PICK e \in Nat : e = s.evicted
      BY <1>2, CountersOf DEF Counters
    <2>2. e <= e + (Limit + MaxRows)
      BY Bounds
    <2>3. QED
      BY <1>19, <2>1, <2>2
  <1>29. Goes(now, z)
    BY <1>1, <1>25, <1>27, <1>28 DEF Goes
  <1>30. Call(z)
    <2>1. t = Announce(Deselect(now), term.marks.alternate)
      BY <1>1, <1>2, <1>3, <1>5, <1>7
    <2>2. z = [b EXCEPT !.marks.alternate = <<>>, !.points.alternate = {}, !.alt = FALSE, !.saved = 0, !.grid = t.other, !.other = Blanks(Rows(t))]
      BY <1>11, <1>13, <1>14, <1>16
    <2>3. QED
      BY <1>9, <2>1, <2>2 DEF SwitchToPrimary
  <1>31. QED
    BY <1>29, <1>30, FeedStep

\* Every index is void after it, and every live marker announced dead.
LEMMA FullResetFeeds ==
  ASSUME Fed(term), FullReset
  PROVE  Feed!FeedNext /\ Fed(term')
  <1>1. PICK s : s = now
    OBVIOUS
  <1>2. Fed(s) /\ IsTerm(s) /\ s.out = <<>> /\ s.marks = term.marks /\ s.epoch = term.epoch /\ s.nextMark = term.nextMark /\ LiveMarks(s) = LiveMarks(term)
    BY <1>1, NowIs, NowTerm
  <1>3. PICK a : a = Announce(s, s.marks.normal)
    OBVIOUS
  <1>4. PICK gone : gone = Announce(a, s.marks.alternate)
    OBVIOUS
  <1>5. MarkList(s.marks.normal) /\ MarkList(s.marks.alternate)
    BY <1>2 DEF IsTerm
  <1>6. IsTerm(a) /\ Tells(s, a, MarkIds(s.marks.normal))
    BY <1>2, <1>3, <1>5, AnnounceIs
  <1>7. IsTerm(gone) /\ Tells(a, gone, MarkIds(s.marks.alternate))
    BY <1>4, <1>5, <1>6, AnnounceIs
  <1>8. PICK D : D = LiveMarks(term)
    OBVIOUS
  <1>9. Tells(s, gone, D)
    <2>1. MarkIds(s.marks.normal) \cap MarkIds(s.marks.alternate) = {}
      BY <1>2 DEF Fed, Kept, Registered
    <2>2. D = MarkIds(s.marks.normal) \cup MarkIds(s.marks.alternate)
      BY <1>2, <1>8 DEF LiveMarks
    <2>3. QED
      BY <1>2, <1>6, <1>7, <2>1, <2>2, TellsOn
  <1>10. PICK rows \in Nat : rows = Len(term.grid) /\ 1 <= rows /\ rows <= MaxRows /\ rows = Rows(term)
    BY NowScreen
  <1>11. PICK p : p = PowerOn(rows)
    OBVIOUS
  <1>12. Fed(p) /\ IsTerm(p) /\ LiveMarks(p) = {} /\ ActiveIndex(p) = <<>> /\ p.evicted = 0
    BY <1>10, <1>11, PowerOnIs DEF Fed, Kept, PowerOn
  <1>13. PICK u : u = [p EXCEPT !.nextMark = term.nextMark, !.nextPoint = term.nextPoint, !.epoch = term.epoch, !.out = gone.out]
    OBVIOUS
  <1>14. IsTerm(u) /\ SameShape(p, u) /\ u.marks = p.marks /\ u.nextMark = term.nextMark /\ u.evicted = 0 /\ u.epoch = term.epoch /\ u.out = gone.out
    <2>1. term.nextMark \in Nat /\ term.nextPoint \in Nat /\ term.epoch \in Nat /\ gone.out \in Seq(Event)
      BY <1>7, NowTerm DEF IsTerm
    <2>2. QED
      BY <1>12, <1>13, <2>1 DEF IsTerm, SameShape, TermFields
  <1>15. PICK z : z = BumpEpoch(u)
    OBVIOUS
  <1>16. IsTerm(z) /\ SameShape(p, z) /\ z.marks = p.marks /\ z.nextMark = term.nextMark /\ z.evicted = 0 /\ z.epoch = term.epoch + 1 /\ z.out = gone.out
    BY <1>14, <1>15, BumpIs DEF SameShape
  <1>17. Call(z)
    <2>1. gone = Announce(Announce(now, term.marks.normal), term.marks.alternate)
      BY <1>1, <1>2, <1>3, <1>4
    <2>2. QED
      BY <1>10, <1>11, <1>13, <1>15, <2>1 DEF FullReset
  <1>18. term' = z /\ z.epoch <= MaxCount
    BY <1>17 DEF Call
  <1>19. LiveMarks(z) = {} /\ ActiveIndex(z) = <<>>
    BY <1>12, <1>16 DEF LiveMarks, ActiveIndex, Active, SameShape
  <1>20. Fed(term')
    <2>1. Height(z) = Height(p)
      BY <1>16 DEF Height, SameShape
    <2>2. Kept(z)
      BY <1>12, <1>16, <1>19, <2>1 DEF Fed, Kept, Registered, LiveMarks, Placed, SameShape, Buffers
    <2>3. Fed(z)
      BY <1>12, <1>16, <2>2 DEF Fed, Screened, SameShape
    <2>4. QED
      BY <1>18, <2>3
  <1>21. z.out \in Feed!Deaths(D)
    <2>1. Tells(s, z, D)
      BY <1>9, <1>16 DEF Tells
    <2>2. QED
      BY <1>2, <2>1, TellsDeaths
  <1>22. Feed!Disturb(D)
    <2>1. term.epoch \in Nat
      BY NowTerm DEF IsTerm
    <2>2. z.epoch \in 0..MaxCount /\ z.epoch > term.epoch
      BY <1>16, <1>18, <2>1, Bounds
    <2>3. 0 \in 0..MaxCount
      BY Bounds
    <2>4. <<>> \in Feed!Indexes({})
      <3>1. <<>> \in [{} -> 0..(Limit + MaxRows)]
        OBVIOUS
      <3>2. QED
        BY <3>1 DEF Feed!Indexes
    <2>5. /\ ActiveIndex(term') = <<>> /\ LiveMarks(term') = {} /\ term'.nextMark = term.nextMark
          /\ term'.evicted = 0 /\ term'.epoch = z.epoch /\ term'.out = z.out
      BY <1>16, <1>18, <1>19
    <2>6. LiveMarks(term) \ D = {}
      BY <1>8
    <2>7. QED
      BY <1>21, <2>2, <2>3, <2>4, <2>5, <2>6 DEF Feed!Disturb
  <1>23. QED
    BY <1>8, <1>20, <1>22 DEF Feed!FeedNext

(* ---- a resize ---------------------------------------------------------------------------- *)
\* Saturating subtraction.
LEMMA LessIs ==
  ASSUME NEW a \in Nat, NEW b \in Nat
  PROVE  Less(a, b) \in Nat /\ Less(a, b) <= a /\ (a <= b => Less(a, b) = 0) /\ (b <= a => Less(a, b) + b = a)
  <1>1. CASE a > b
    <2>1. Less(a, b) = a - b
      BY <1>1 DEF Less
    <2>2. a - b \in Nat /\ a - b <= a /\ ~ (a <= b) /\ (a - b) + b = a
      BY <1>1
    <2>3. QED
      BY <2>1, <2>2
  <1>2. CASE ~ (a > b)
    <2>1. Less(a, b) = 0
      BY <1>2 DEF Less
    <2>2. b <= a => 0 + b = a
      BY <1>2
    <2>3. QED
      BY <2>1, <2>2
  <1>3. QED
    BY <1>1, <1>2

\* The smaller of two.
LEMMA ClampIs ==
  ASSUME NEW a \in Nat, NEW b \in Nat
  PROVE  Clamp(a, b) \in Nat /\ Clamp(a, b) <= b /\ (a <= b => Clamp(a, b) = a)
  <1>1. CASE a > b
    BY <1>1 DEF Clamp
  <1>2. CASE ~ (a > b)
    BY <1>2 DEF Clamp
  <1>3. QED
    BY <1>1, <1>2

\* The pane a buffer of n rows becomes on a screen of so many rows.
PaneFor(pane, n, rows, limit) ==
  /\ pane.hist \in Seq(Row) /\ pane.screen \in Seq(Row) /\ Len(pane.screen) = rows
  /\ pane.split = Less(n, rows) /\ pane.dropped = Less(pane.split, limit)
  /\ Len(pane.hist) + pane.dropped = pane.split
  /\ pane.last = pane.split + rows - 1

\* Pane gives one.
LEMMA PaneIs ==
  ASSUME NEW all \in Seq(Row), NEW k \in Nat, NEW n \in Nat, n + k = Len(all), NEW rows \in Nat, NEW limit \in Nat
  PROVE  PaneFor(Pane(all, k, rows, limit), n, rows, limit)
  <1>1. PICK kept : kept = SubSeq(all, 1, n)
    OBVIOUS
  <1>2. kept \in Seq(Row) /\ Len(kept) = n
    <2>1. 1 \in Nat /\ 1 <= 1 /\ 1 <= n + 1 /\ n <= Len(all) /\ (n + 1) - 1 = n
      <3>1. PICK m \in Nat : m = Len(all)
        BY LenProperties
      <3>2. n <= m
        BY <3>1
      <3>3. 1 <= n + 1 /\ (n + 1) - 1 = n
        OBVIOUS
      <3>4. QED
        BY <3>1, <3>2, <3>3
    <2>2. QED
      BY <1>1, <2>1, PartIs
  <1>3. PICK split \in Nat : split = Less(n, rows) /\ split <= n
    BY LessIs
  <1>4. PICK dropped \in Nat : dropped = Less(split, limit) /\ dropped <= split
    BY LessIs
  <1>5. PICK screen : screen = SubSeq(kept, split + 1, n)
    OBVIOUS
  <1>6. screen \in Seq(Row) /\ Len(screen) = n - split
    <2>1. split + 1 \in Nat /\ 1 <= split + 1 /\ split + 1 <= n + 1 /\ n <= n /\ (n + 1) - (split + 1) = n - split
      BY <1>3
    <2>2. QED
      BY <1>2, <1>5, <2>1, PartIs
  <1>7. PICK room \in Nat : room = rows - Len(screen)
    <2>1. n - split <= rows /\ n - split \in Nat
      <3>1. CASE rows <= n
        <4>1. split + rows = n
          BY <1>3, <3>1, LessIs
        <4>2. QED
          BY <4>1
      <3>2. CASE ~ (rows <= n)
        BY <1>3, <3>2
      <3>3. QED
        BY <3>1, <3>2
    <2>2. rows - (n - split) \in Nat
      BY <2>1
    <2>3. QED
      BY <1>6, <2>2
  <1>8. Blanks(room) \in Seq(Row) /\ Len(Blanks(room)) = room
    BY BlanksAre
  <1>9. PICK whole : whole = screen \o Blanks(room)
    OBVIOUS
  <1>10. whole \in Seq(Row) /\ Len(whole) = rows
    <2>1. whole \in Seq(Row) /\ Len(whole) = Len(screen) + room
      BY <1>6, <1>8, <1>9, ConcatProperties
    <2>2. PICK m \in Nat : m = Len(screen)
      BY <1>6, LenProperties
    <2>3. m + room = rows
      BY <1>7, <2>2
    <2>4. QED
      BY <2>1, <2>2, <2>3
  <1>11. PICK hist : hist = SubSeq(kept, dropped + 1, split)
    OBVIOUS
  <1>12. hist \in Seq(Row) /\ Len(hist) + dropped = split
    <2>1. dropped + 1 \in Nat /\ 1 <= dropped + 1 /\ dropped + 1 <= split + 1 /\ (split + 1) - (dropped + 1) = split - dropped
      BY <1>4
    <2>2. hist \in Seq(Row) /\ Len(hist) = split - dropped
      BY <1>2, <1>3, <1>11, <2>1, PartIs
    <2>3. (split - dropped) + dropped = split
      OBVIOUS
    <2>4. QED
      BY <2>2, <2>3
  <1>13. PICK pane : pane = Pane(all, k, rows, limit)
    OBVIOUS
  <1>14. pane.hist = hist /\ pane.screen = whole /\ pane.split = split /\ pane.dropped = dropped /\ pane.last = split + rows - 1
    <2>1. Len(all) - k = n
      <3>1. PICK m \in Nat : m = Len(all)
        BY LenProperties
      <3>2. m - k = n
        BY <3>1
      <3>3. QED
        BY <3>1, <3>2
    <2>2. SubSeq(all, 1, Len(all) - k) = kept
      BY <1>1, <2>1
    <2>3. split = (IF n > rows THEN n - rows ELSE 0) /\ dropped = (IF split > limit THEN split - limit ELSE 0)
      BY <1>3, <1>4 DEF Less
    <2>4. pane = [hist |-> hist, screen |-> whole, split |-> split, dropped |-> dropped, last |-> split + rows - 1]
      BY <1>2, <1>5, <1>7, <1>9, <1>11, <1>13, <2>2, <2>3 DEF Pane
    <2>5. QED
      BY <2>4
  <1>15. QED
    BY <1>3, <1>4, <1>10, <1>12, <1>13, <1>14 DEF PaneFor

\* Its numbers; at an unchanged size nothing is dropped.
LEMMA PaneNumbers ==
  ASSUME NEW n \in Nat, NEW rows \in Nat, 1 <= rows, NEW limit \in Nat, NEW pane, PaneFor(pane, n, rows, limit)
  PROVE  /\ pane.split \in Nat /\ pane.dropped \in Nat /\ pane.last \in Nat /\ Len(pane.hist) \in Nat
         /\ Len(pane.hist) <= limit /\ Len(pane.hist) + pane.dropped = pane.split
         /\ pane.last + 1 = pane.split + rows
         /\ rows <= n /\ n <= rows + limit => pane.dropped = 0 /\ pane.split + rows = n
  <1>1. PICK split \in Nat : split = pane.split /\ split = Less(n, rows)
    BY LessIs DEF PaneFor
  <1>2. PICK dropped \in Nat : dropped = pane.dropped /\ dropped = Less(split, limit)
    BY <1>1, LessIs DEF PaneFor
  <1>3. PICK h \in Nat : h = Len(pane.hist)
    BY LenProperties DEF PaneFor
  <1>4. h + dropped = split
    BY <1>1, <1>2, <1>3 DEF PaneFor
  <1>5. h <= limit
    <2>1. split <= limit \/ limit <= split
      OBVIOUS
    <2>2. (split <= limit => dropped = 0) /\ (limit <= split => dropped + limit = split)
      BY <1>2, LessIs
    <2>3. QED
      BY <1>4, <2>1, <2>2
  <1>6. PICK last \in Nat : last = pane.last /\ last + 1 = split + rows
    <2>1. split + rows - 1 \in Nat /\ (split + rows - 1) + 1 = split + rows
      OBVIOUS
    <2>2. pane.last = split + rows - 1
      BY <1>1 DEF PaneFor
    <2>3. QED
      BY <2>1, <2>2
  <1>7. ASSUME rows <= n, n <= rows + limit PROVE dropped = 0 /\ split + rows = n
    <2>1. split + rows = n
      BY <1>1, <1>7, LessIs
    <2>2. split <= limit
      BY <1>7, <2>1
    <2>3. dropped = 0
      BY <1>2, <2>2, LessIs
    <2>4. QED
      BY <2>1, <2>3
  <1>8. QED
    BY <1>1, <1>2, <1>3, <1>4, <1>5, <1>6, <1>7

\* Where a line of the primary buffer lands, and a row of the alternate screen.
Lands(pane) == [l \in Nat |-> Less(Clamp(l, pane.last), pane.dropped)]
\* Where an alternate one does.
Lifts(pane, old, new) == [l \in Nat |-> new + Less(Clamp(l - old, pane.last), pane.dropped)]

\* On a line of the new buffer; where it was, if the buffer fits as before.
LEMMA LandsIs ==
  ASSUME NEW n \in Nat, NEW rows \in Nat, 1 <= rows, NEW limit \in Nat, NEW pane, PaneFor(pane, n, rows, limit)
  PROVE  /\ Lands(pane) \in [Nat -> Nat]
         /\ \A l \in Nat : Lands(pane)[l] < Len(pane.hist) + rows
         /\ rows <= n /\ n <= rows + limit => \A l \in Nat : l < n => Lands(pane)[l] = l
  <1>1. PICK split \in Nat : split = pane.split
    BY PaneNumbers
  <1>2. PICK dropped \in Nat : dropped = pane.dropped
    BY PaneNumbers
  <1>3. PICK last \in Nat : last = pane.last
    BY PaneNumbers
  <1>4. PICK h \in Nat : h = Len(pane.hist)
    BY PaneNumbers
  <1>5. h + dropped = split /\ last + 1 = split + rows /\ (rows <= n /\ n <= rows + limit => dropped = 0 /\ split + rows = n)
    BY <1>1, <1>2, <1>3, <1>4, PaneNumbers
  <1>6. Lands(pane) = [l \in Nat |-> Less(Clamp(l, last), dropped)]
    BY <1>2, <1>3 DEF Lands
  <1>7. ASSUME NEW l \in Nat PROVE Less(Clamp(l, last), dropped) \in Nat /\ Less(Clamp(l, last), dropped) < h + rows
    <2>1. PICK c \in Nat : c = Clamp(l, last) /\ c <= last
      BY ClampIs
    <2>2. PICK d \in Nat : d = Less(c, dropped)
      BY LessIs
    <2>3. (c <= dropped => d = 0) /\ (dropped <= c => d + dropped = c)
      BY <2>2, LessIs
    <2>4. d < h + rows
      <3>1. CASE c <= dropped
        BY <2>3, <3>1
      <3>2. CASE dropped <= c
        <4>1. d + dropped = c
          BY <2>3, <3>2
        <4>2. c + 1 <= h + dropped + rows
          BY <1>5, <2>1
        <4>3. QED
          BY <4>1, <4>2
      <3>3. QED
        BY <3>1, <3>2
    <2>5. QED
      BY <2>1, <2>2, <2>4
  <1>8. ASSUME rows <= n, n <= rows + limit, NEW l \in Nat, l < n PROVE Less(Clamp(l, last), dropped) = l
    <2>1. l <= last /\ dropped = 0
      BY <1>5, <1>8
    <2>2. Clamp(l, last) = l
      BY <2>1, ClampIs
    <2>3. Less(l, 0) + 0 = l /\ Less(l, 0) \in Nat
      <3>1. 0 \in Nat /\ 0 <= l
        OBVIOUS
      <3>2. QED
        BY <3>1, LessIs
    <2>4. QED
      BY <2>1, <2>2, <2>3
  <1>9. \A l \in Nat : Lands(pane)[l] = Less(Clamp(l, last), dropped)
    BY <1>6
  <1>10. Lands(pane) \in [Nat -> Nat]
    BY <1>6, <1>7
  <1>11. QED
    BY <1>4, <1>7, <1>8, <1>9, <1>10

\* On a row of the new alternate screen; where it was, if nothing changed.
LEMMA LiftsIs ==
  ASSUME NEW n \in Nat, NEW rows \in Nat, 1 <= rows, NEW pane, PaneFor(pane, n, rows, 0), NEW old \in Nat, NEW new \in Nat
  PROVE  /\ Lifts(pane, old, new) \in [Nat -> Nat]
         /\ \A l \in Nat : new <= Lifts(pane, old, new)[l] /\ Lifts(pane, old, new)[l] < new + rows
         /\ rows = n /\ old = new => /\ pane.dropped = 0
                                     /\ \A l \in Nat : old <= l /\ l < old + n => Lifts(pane, old, new)[l] = l /\ 0 <= Clamp(l - old, pane.last)
  <1>0. 0 \in Nat
    OBVIOUS
  <1>1. PICK split \in Nat : split = pane.split
    BY <1>0, PaneNumbers
  <1>2. PICK dropped \in Nat : dropped = pane.dropped
    BY <1>0, PaneNumbers
  <1>3. PICK last \in Nat : last = pane.last
    BY <1>0, PaneNumbers
  <1>4. PICK h \in Nat : h = Len(pane.hist)
    BY <1>0, PaneNumbers
  <1>5. h <= 0 /\ h + dropped = split /\ last + 1 = split + rows /\ (rows <= n /\ n <= rows + 0 => dropped = 0 /\ split + rows = n)
    BY <1>0, <1>1, <1>2, <1>3, <1>4, PaneNumbers
  <1>6. Lifts(pane, old, new) = [l \in Nat |-> new + Less(Clamp(l - old, last), dropped)]
    BY <1>2, <1>3 DEF Lifts
  <1>7. ASSUME NEW l \in Nat PROVE Less(Clamp(l - old, last), dropped) \in Nat /\ Less(Clamp(l - old, last), dropped) < rows
    <2>1. CASE old <= l
      <3>1. PICK r \in Nat : r = l - old
        BY <2>1
      <3>2. PICK c \in Nat : c = Clamp(r, last) /\ c <= last
        BY ClampIs
      <3>3. PICK d \in Nat : d = Less(c, dropped)
        BY LessIs
      <3>4. (c <= dropped => d = 0) /\ (dropped <= c => d + dropped = c)
        BY <3>3, LessIs
      <3>5. d < rows
        <4>1. CASE c <= dropped
          BY <3>4, <4>1
        <4>2. CASE dropped <= c
          <5>1. d + dropped = c
            BY <3>4, <4>2
          <5>2. c + 1 <= dropped + rows
            BY <1>5, <3>2
          <5>3. QED
            BY <5>1, <5>2
        <4>3. QED
          BY <4>1, <4>2
      <3>6. QED
        BY <3>1, <3>2, <3>3, <3>5
    <2>2. CASE ~ (old <= l)
      <3>1. PICK r \in Int : r = l - old /\ r < 0
        BY <2>2
      <3>2. Clamp(r, last) = r
        BY <3>1 DEF Clamp
      <3>3. Less(r, dropped) = 0
        BY <3>1 DEF Less
      <3>4. QED
        BY <3>1, <3>2, <3>3
    <2>3. QED
      BY <2>1, <2>2
  <1>8. ASSUME rows = n, old = new PROVE dropped = 0
    BY <1>5, <1>8
  <1>9. ASSUME rows = n, old = new, NEW l \in Nat, old <= l, l < old + n
        PROVE  new + Less(Clamp(l - old, last), dropped) = l /\ 0 <= Clamp(l - old, last)
    <2>1. PICK r \in Nat : r = l - old
      BY <1>9
    <2>2. r <= last /\ dropped = 0 /\ old + r = l
      BY <1>5, <1>9, <2>1
    <2>3. Clamp(r, last) = r
      BY <2>2, ClampIs
    <2>4. Less(r, 0) = r
      BY <1>0 DEF Less
    <2>5. QED
      BY <1>9, <2>1, <2>2, <2>3, <2>4
  <1>10. \A l \in Nat : Lifts(pane, old, new)[l] = new + Less(Clamp(l - old, last), dropped)
    BY <1>6
  <1>11. \A l \in Nat : new <= Lifts(pane, old, new)[l] /\ Lifts(pane, old, new)[l] < new + rows /\ Lifts(pane, old, new)[l] \in Nat
    <2>1. ASSUME NEW d \in Nat, d < rows PROVE new <= new + d /\ new + d < new + rows /\ new + d \in Nat
      BY <2>1
    <2>2. QED
      BY <1>7, <1>10, <2>1
  <1>12. Lifts(pane, old, new) \in [Nat -> Nat]
    BY <1>6, <1>10, <1>11
  <1>13. QED
    BY <1>2, <1>3, <1>8, <1>9, <1>10, <1>11, <1>12

\* The second half of that, at an unchanged size.
LEMMA LiftsBack ==
  ASSUME NEW n \in Nat, 1 <= n, NEW pane, PaneFor(pane, n, n, 0), NEW old \in Nat
  PROVE  pane.dropped = 0 /\ \A l \in Nat : old <= l /\ l < old + n => Lifts(pane, old, old)[l] = l
  <1>1. n = n /\ old = old =>
          pane.dropped = 0 /\ \A l \in Nat : old <= l /\ l < old + n => Lifts(pane, old, old)[l] = l /\ 0 <= Clamp(l - old, pane.last)
    BY LiftsIs
  <1>2. QED
    BY <1>1

\* The primary's markers moved, all else as it was.
Restrung(t, u, move) ==
  /\ IsTerm(u) /\ SameShape(t, u) /\ u.nextMark = t.nextMark /\ u.evicted = t.evicted /\ u.epoch = t.epoch /\ u.out = t.out
  /\ u.marks["alternate"] = t.marks["alternate"] /\ MarkIds(u.marks["normal"]) = MarkIds(t.marks["normal"])
  /\ Len(u.marks["normal"]) = Len(t.marks["normal"])
  /\ \A id \in MarkIds(t.marks["normal"]) : Index(u.marks["normal"])[id] = move[Index(t.marks["normal"])[id]]

\* PrimaryReflowed does it.
LEMMA PrimaryReflowedIs ==
  ASSUME NEW t, IsTerm(t), NEW pane, Lands(pane) \in [Nat -> Nat]
  PROVE  Restrung(t, PrimaryReflowed(t, pane), Lands(pane))
  <1>1. PICK move : move = Lands(pane)
    OBVIOUS
  <1>2. PICK ms : ms = t.marks["normal"]
    OBVIOUS
  <1>3. MarkList(ms)
    BY <1>2, MarksOf
  <1>4. PICK new : new = MovedBy(ms, move)
    OBVIOUS
  <1>5. MarkList(new) /\ Len(new) = Len(ms) /\ MarkIds(new) = MarkIds(ms) /\ \A id \in MarkIds(ms) : Index(new)[id] = move[Index(ms)[id]]
    BY <1>1, <1>3, <1>4, MovedByIs
  <1>6. PICK S : S = t.stranded \cup {id \in MarkIds(t.marks.normal) : Owner(pane.hist \o pane.screen, Mark(id)) = {}}
    OBVIOUS
  <1>7. PICK N : N = {[p EXCEPT !.line = Clamp(@, pane.last) - pane.dropped] : p \in {q \in t.points.normal : Clamp(q.line, pane.last) >= pane.dropped}}
    OBVIOUS
  <1>8. PICK M : M = [t.marks EXCEPT !.normal = new]
    OBVIOUS
  <1>9. PICK P : P = [t.points EXCEPT !.normal = N]
    OBVIOUS
  <1>10. DOMAIN M = Buffers /\ M.normal = new /\ M.alternate = t.marks.alternate /\ DOMAIN P = Buffers
    BY <1>8, <1>9 DEF IsTerm, Buffers
  <1>11. PICK u : u = [t EXCEPT !.marks = M, !.stranded = S, !.points = P]
    OBVIOUS
  <1>12. IsTerm(u) /\ SameShape(t, u) /\ u.nextMark = t.nextMark /\ u.evicted = t.evicted /\ u.epoch = t.epoch /\ u.out = t.out /\ u.marks = M
    <2>1. MarkList(M.normal) /\ MarkList(M.alternate)
      BY <1>5, <1>10 DEF IsTerm
    <2>2. QED
      BY <1>10, <1>11, <2>1 DEF IsTerm, SameShape, TermFields
  <1>13. PrimaryReflowed(t, pane) = u
    <2>1. u = [t EXCEPT !.marks.normal = MovedBy(@, move), !.stranded = S, !.points.normal = N]
      BY <1>2, <1>4, <1>8, <1>9, <1>11
    <2>2. move = [l \in Nat |-> Less(Clamp(l, pane.last), pane.dropped)]
      BY <1>1 DEF Lands
    <2>3. QED
      BY <1>6, <1>7, <2>1, <2>2 DEF PrimaryReflowed
  <1>14. QED
    BY <1>1, <1>2, <1>5, <1>10, <1>12, <1>13 DEF Restrung

\* A sift with a quiet step after it.
LEMMA SiftedOn ==
  ASSUME NEW s, NEW u, NEW z, NEW which, NEW gone, NEW move, Sifted(s, u, which, gone, move), Quiet(u, z)
  PROVE  Sifted(s, z, which, gone, move)
  <1>1. IsTerm(z) /\ z.marks = u.marks /\ z.nextMark = u.nextMark /\ z.evicted = u.evicted /\ z.epoch = u.epoch /\ z.out = u.out /\ SameShape(u, z)
    BY DEF Quiet, SameFeed
  <1>2. SameShape(s, z)
    BY <1>1 DEF Sifted, SameShape
  <1>3. Tells(s, z, MarkIds(s.marks[which]) \cap gone)
    BY <1>1 DEF Sifted, Tells
  <1>4. QED
    BY <1>1, <1>2, <1>3 DEF Sifted

\* AlternateReflowed is a sift of the alternate list, of nobody when no row
\* went.
LEMMA AlternateReflowedIs ==
  ASSUME NEW t, IsTerm(t), NEW pane, NEW old, NEW new, Lifts(pane, old, new) \in [Nat -> Nat]
  PROVE  \E gone :
           /\ Sifted(t, AlternateReflowed(t, pane, old, new), "alternate", gone, Lifts(pane, old, new))
           /\ (\A id \in MarkIds(t.marks["alternate"]) : ~ (Clamp(Index(t.marks["alternate"])[id] - old, pane.last) < pane.dropped))
                => MarkIds(t.marks["alternate"]) \cap gone = {}
  <1>1. PICK move : move = Lifts(pane, old, new)
    OBVIOUS
  <1>2. PICK ms : ms = t.marks.alternate
    OBVIOUS
  <1>3. MarkList(ms)
    BY <1>2, MarksOf
  <1>4. PICK lost : lost = {l \in MarkLines(ms) : Clamp(l - old, pane.last) < pane.dropped}
    OBVIOUS
  <1>5. PICK gone : gone = OnLines(ms, lost)
    OBVIOUS
  <1>6. PICK u : u = Sift(t, "alternate", gone, move)
    OBVIOUS
  <1>7. Sifted(t, u, "alternate", gone, move)
    BY <1>1, <1>6, SiftIs DEF Buffers
  <1>8. PICK Q : Q = {[p EXCEPT !.line = move[@]] : p \in {q \in u.points.alternate : Clamp(q.line - old, pane.last) >= pane.dropped}}
    OBVIOUS
  <1>9. PICK P : P = [u.points EXCEPT !.alternate = Q]
    OBVIOUS
  <1>10. IsTerm(u) /\ DOMAIN P = Buffers
    BY <1>7, <1>9 DEF Sifted, IsTerm
  <1>11. Quiet(u, [u EXCEPT !.points = P])
    BY <1>10, PointsQuiet
  <1>12. AlternateReflowed(t, pane, old, new) = [u EXCEPT !.points = P]
    <2>1. move = [l \in Nat |-> new + Less(Clamp(l - old, pane.last), pane.dropped)]
      BY <1>1 DEF Lifts
    <2>2. [u EXCEPT !.points = P] = [u EXCEPT !.points.alternate = Q]
      BY <1>9
    <2>3. QED
      BY <1>2, <1>4, <1>5, <1>6, <1>8, <2>1, <2>2 DEF AlternateReflowed
  <1>13. Sifted(t, AlternateReflowed(t, pane, old, new), "alternate", gone, move)
    BY <1>7, <1>11, <1>12, SiftedOn
  <1>14. ASSUME \A id \in MarkIds(ms) : ~ (Clamp(Index(ms)[id] - old, pane.last) < pane.dropped) PROVE MarkIds(ms) \cap gone = {}
    <2>1. \A i \in DOMAIN ms : Index(ms)[ms[i].id] = ms[i].line /\ ms[i].id \in MarkIds(ms)
      BY <1>3, IndexIs DEF MarkIds
    <2>2. \A i \in DOMAIN ms : ms[i].line \notin lost
      BY <1>4, <1>14, <2>1
    <2>3. QED
      BY <1>5, <2>2 DEF OnLines
  <1>15. QED
    BY <1>1, <1>2, <1>13, <1>14

\* The terminal a resize starts from, its epoch moved and its selection dropped.
Readied(s, t, rows) ==
  /\ IsTerm(t) /\ SameShape(s, t) /\ t.marks = s.marks /\ t.nextMark = s.nextMark /\ t.evicted = s.evicted /\ t.out = s.out
  /\ s.epoch <= t.epoch
  /\ t.epoch = s.epoch => rows = Len(s.grid) \/ ~ AnyMarks(s)

\* A resize disposes only markers of the alternate list, and moves none under
\* a standing epoch.
Sheds(s, z) ==
  \E D : /\ D \subseteq MarkIds(s.marks["alternate"]) /\ MarkIds(z.marks["alternate"]) = MarkIds(s.marks["alternate"]) \ D
         /\ Tells(s, z, D)
         /\ z.epoch = s.epoch => D = {} /\ \A w \in Buffers : \A id \in MarkIds(z.marks[w]) : Index(z.marks[w])[id] = Index(s.marks[w])[id]

\* What a resize leaves: each marker on a row of the new buffer, and where it was
\* if the size did not change.
Resizes(s, z, rows) ==
  /\ IsTerm(z) /\ z.alt = s.alt /\ z.nextMark = s.nextMark /\ z.evicted = s.evicted /\ s.epoch <= z.epoch
  /\ Len(z.grid) = rows /\ Len(z.other) = rows /\ Len(z.hist) <= Limit
  /\ z.row < rows /\ z.saved < rows /\ (~ z.alt => z.saved = 0) /\ z.top = s.top /\ z.bottom = s.bottom
  /\ MarkIds(z.marks["normal"]) = MarkIds(s.marks["normal"])
  /\ \A w \in Buffers : Len(z.marks[w]) <= Len(s.marks[w])
  /\ \A w \in Buffers : \A id \in MarkIds(z.marks[w]) : Placed(z, w, Index(z.marks[w])[id])
  /\ Sheds(s, z)

\* The cursor is on the new screen.
LEMMA CursorIs ==
  ASSUME NEW cursor \in Nat, NEW split \in Nat, NEW rows \in Nat, 1 <= rows
  PROVE  Clamp(Less(cursor, split), rows - 1) \in Nat /\ Clamp(Less(cursor, split), rows - 1) < rows
  <1>1. PICK c \in Nat : c = Less(cursor, split)
    BY LessIs
  <1>2. PICK last \in Nat : last = rows - 1
    OBVIOUS
  <1>3. PICK d \in Nat : d = Clamp(c, last) /\ d <= last
    BY ClampIs
  <1>4. d < rows
    BY <1>2, <1>3
  <1>5. QED
    BY <1>1, <1>2, <1>3, <1>4

\* A resize on the primary screen, with any trim.
LEMMA PrimaryUpResizes ==
  ASSUME NEW s, Fed(s), ~ s.alt, NEW rows \in Nat, 1 <= rows, NEW t, Readied(s, t, rows), NEW z \in ResizePrimaryUp(t, rows)
  PROVE  Resizes(s, z, rows)
  <1>1. IsTerm(s) /\ IsTerm(t) /\ Kept(s) /\ SameShape(s, t)
    BY DEF Fed, Kept, Readied
  <1>2. PICK h0 \in Nat : h0 = Len(t.hist) /\ h0 = Len(s.hist) /\ h0 <= Limit
    BY <1>1, HeightOf DEF SameShape, Fed, Screened
  <1>3. PICK g0 \in Nat : g0 = Len(t.grid) /\ g0 = Len(s.grid) /\ g0 = Len(t.other) /\ Rows(t) = g0
    BY <1>1, HeightOf DEF SameShape, Fed, Screened, Rows
  <1>4. PICK all : all = t.hist \o t.grid
    OBVIOUS
  <1>5. all \in Seq(Row) /\ Len(all) = h0 + g0 /\ t.other \in Seq(Row)
    <2>1. t.hist \in Seq(Row) /\ t.grid \in Seq(Row) /\ t.other \in Seq(Row)
      BY <1>1, RowSeqs
    <2>2. all \in Seq(Row) /\ Len(all) = Len(t.hist) + Len(t.grid)
      BY <1>4, <2>1, ConcatProperties
    <2>3. QED
      BY <1>2, <1>3, <2>1, <2>2
  <1>6. PICK cursor \in Nat : cursor = Base(t) + t.row
    <2>1. t.row \in Nat
      BY <1>1 DEF IsTerm
    <2>2. h0 + t.row \in Nat
      BY <2>1
    <2>3. QED
      BY <1>2, <2>2 DEF Base
  <1>7. PICK removed \in Nat : removed = Less(Rows(t), rows) /\ (g0 <= rows => removed = 0)
    BY <1>3, LessIs
  <1>8. PICK pinned : pinned = MarkLines(t.marks.normal) \cup LinesOf(t.points.normal) \cup UNION {{x[e] : e \in Ends} : x \in t.sel}
    OBVIOUS
  <1>9. PICK k \in Trims(all, cursor, removed, pinned) :
          z = LET pane == Pane(all, k, rows, Limit)
                  other == Pane(t.other, 0, rows, 0)
                  u == SelectionReflowed(PrimaryReflowed(t, pane), pane)
              IN Adopt([u EXCEPT !.hist = pane.hist, !.grid = pane.screen,
                                 !.other = other.screen,
                                 !.row = Clamp(Less(cursor, pane.split), rows - 1)])
    BY <1>4, <1>6, <1>7, <1>8 DEF ResizePrimaryUp
  <1>10. k \in Nat /\ k <= removed /\ h0 + g0 - k >= cursor + 1
    BY <1>5, <1>9 DEF Trims
  <1>11. PICK n \in Nat : n = h0 + g0 - k /\ n + k = Len(all)
    BY <1>5, <1>10
  <1>12. Limit \in Nat /\ 0 \in Nat
    BY Bounds
  <1>13. PICK pane : pane = Pane(all, k, rows, Limit)
    OBVIOUS
  <1>14. PaneFor(pane, n, rows, Limit)
    BY <1>5, <1>10, <1>11, <1>12, <1>13, PaneIs
  <1>15. PICK other : other = Pane(t.other, 0, rows, 0)
    OBVIOUS
  <1>16. PaneFor(other, g0, rows, 0)
    <2>1. g0 + 0 = Len(t.other)
      BY <1>3
    <2>2. QED
      BY <1>5, <1>12, <1>15, <2>1, PaneIs
  <1>17. PICK a : a = PrimaryReflowed(t, pane)
    OBVIOUS
  <1>18. Lands(pane) \in [Nat -> Nat]
    BY <1>12, <1>14, LandsIs
  <1>19. Restrung(t, a, Lands(pane))
    BY <1>1, <1>17, <1>18, PrimaryReflowedIs
  <1>20. PICK u : u = SelectionReflowed(a, pane)
    OBVIOUS
  <1>21. Quiet(a, u)
    <2>1. PICK b : b = [a EXCEPT !.sel = {[e \in Ends |-> Clamp(x[e], pane.last)] : x \in a.sel}]
      OBVIOUS
    <2>2. IsTerm(a)
      BY <1>19 DEF Restrung
    <2>3. Quiet(a, b) /\ IsTerm(b)
      BY <2>1, <2>2, SelQuiet DEF Quiet
    <2>4. Quiet(b, SelectionEvict(b, pane.dropped))
      BY <2>3, SelectionEvictQuiet
    <2>5. u = SelectionEvict(b, pane.dropped)
      BY <1>20, <2>1 DEF SelectionReflowed
    <2>6. QED
      BY <2>3, <2>4, <2>5, QuietOn
  <1>22. PICK row \in Nat : row = Clamp(Less(cursor, pane.split), rows - 1) /\ row < rows
    BY <1>12, <1>14, PaneNumbers, CursorIs
  <1>23. PICK v : v = [u EXCEPT !.hist = pane.hist, !.grid = pane.screen, !.other = other.screen, !.row = row]
    OBVIOUS
  <1>24. pane.hist \in Seq(Row) /\ pane.screen \in Seq(Row) /\ other.screen \in Seq(Row) /\ Len(pane.screen) = rows /\ Len(other.screen) = rows
    BY <1>14, <1>16 DEF PaneFor
  <1>25. IsTerm(u)
    BY <1>21 DEF Quiet
  <1>26. IsTerm(v) /\ SameFeed(u, v) /\ v.alt = u.alt /\ v.saved = u.saved /\ v.top = u.top /\ v.bottom = u.bottom
         /\ v.hist = pane.hist /\ v.grid = pane.screen /\ v.other = other.screen /\ v.row = row
    BY <1>23, <1>24, <1>25 DEF IsTerm, SameFeed, TermFields
  <1>27. Quiet(v, z)
    <2>1. z = Adopt(v)
      BY <1>9, <1>13, <1>15, <1>17, <1>20, <1>22, <1>23
    <2>2. QED
      BY <1>26, <2>1, AdoptQuiet
  <1>28. z.marks = a.marks /\ z.nextMark = t.nextMark /\ z.evicted = t.evicted /\ z.epoch = t.epoch /\ z.out = t.out
    BY <1>19, <1>21, <1>26, <1>27 DEF Quiet, SameFeed, Restrung
  <1>29. z.alt = t.alt /\ z.saved = t.saved /\ z.top = t.top /\ z.bottom = t.bottom /\ Len(z.hist) = Len(pane.hist) /\ Len(z.grid) = rows /\ Len(z.other) = rows /\ z.row = row
    BY <1>19, <1>21, <1>24, <1>26, <1>27 DEF Quiet, SameShape, Restrung
  <1>30. z.alt = s.alt /\ z.saved = s.saved /\ s.saved = 0 /\ z.top = s.top /\ z.bottom = s.bottom
    BY <1>1, <1>29 DEF SameShape, Fed, Screened
  <1>31. z.nextMark = s.nextMark /\ z.evicted = s.evicted /\ s.epoch <= z.epoch /\ z.out = s.out /\ (z.epoch = s.epoch => rows = g0 \/ ~ AnyMarks(s))
    BY <1>3, <1>28 DEF Readied
  <1>32. /\ z.marks["alternate"] = s.marks["alternate"] /\ MarkIds(z.marks["normal"]) = MarkIds(s.marks["normal"])
         /\ Len(z.marks["normal"]) = Len(s.marks["normal"]) /\ MarkIds(s.marks["alternate"]) = {}
         /\ \A id \in MarkIds(s.marks["normal"]) : Index(z.marks["normal"])[id] = Lands(pane)[Index(s.marks["normal"])[id]]
    <2>1. t.marks = s.marks
      BY DEF Readied
    <2>2. MarkIds(s.marks["alternate"]) = {}
      BY <1>1 DEF Kept, Registered
    <2>3. QED
      BY <1>19, <1>28, <2>1, <2>2 DEF Restrung
  <1>33. \A id \in MarkIds(s.marks["normal"]) : Index(s.marks["normal"])[id] \in Nat /\ Index(s.marks["normal"])[id] < h0 + g0
    <2>1. MarkList(s.marks["normal"])
      BY <1>1, MarksOf
    <2>2. \A id \in MarkIds(s.marks["normal"]) : Index(s.marks["normal"])[id] \in Nat
      BY <2>1, IndexIs
    <2>3. Height(s) = h0 + g0
      BY <1>2, <1>3 DEF Height
    <2>4. QED
      BY <1>1, <2>2, <2>3 DEF Kept, Registered, Placed, Buffers
  <1>34. ASSUME NEW w \in Buffers, NEW id \in MarkIds(z.marks[w]) PROVE Placed(z, w, Index(z.marks[w])[id])
    <2>1. w = "normal"
      BY <1>32, <1>34 DEF Buffers
    <2>2. PICK l \in Nat : l = Index(s.marks["normal"])[id]
      BY <1>32, <1>33, <1>34, <2>1
    <2>3. Lands(pane)[l] < Len(pane.hist) + rows
      BY <1>12, <1>14, <2>2, LandsIs
    <2>4. Index(z.marks[w])[id] = Lands(pane)[l]
      BY <1>32, <1>34, <2>1, <2>2
    <2>5. Height(z) = Len(pane.hist) + rows
      BY <1>29 DEF Height
    <2>6. QED
      BY <2>1, <2>3, <2>4, <2>5 DEF Placed
  <1>35. ASSUME z.epoch = s.epoch, NEW w \in Buffers, NEW id \in MarkIds(z.marks[w]) PROVE Index(z.marks[w])[id] = Index(s.marks[w])[id]
    <2>1. w = "normal" /\ id \in MarkIds(s.marks["normal"])
      BY <1>32, <1>35 DEF Buffers
    <2>2. AnyMarks(s)
      <3>1. s.marks.normal # <<>>
        BY <2>1, NoMarks
      <3>2. QED
        BY <3>1 DEF AnyMarks
    <2>3. rows = g0
      BY <1>31, <1>35, <2>2
    <2>4. k = 0 /\ n = h0 + g0 /\ rows <= n /\ n <= rows + Limit
      <3>1. removed = 0
        BY <1>7, <2>3
      <3>2. k = 0
        BY <1>10, <3>1
      <3>3. n = h0 + g0
        BY <1>11, <3>2
      <3>4. rows <= n /\ n <= rows + Limit
        BY <1>2, <1>12, <2>3, <3>3
      <3>5. QED
        BY <3>2, <3>3, <3>4
    <2>5. PICK l \in Nat : l = Index(s.marks["normal"])[id] /\ l < n
      BY <1>33, <2>1, <2>4
    <2>6. Lands(pane)[l] = l
      <3>1. \A x \in Nat : x < n => Lands(pane)[x] = x
        BY <1>12, <1>14, <2>4, LandsIs
      <3>2. QED
        BY <2>5, <3>1
    <2>7. QED
      BY <1>32, <2>1, <2>5, <2>6
  <1>36. Tells(s, z, {})
    BY <1>1, <1>31, TellsNothing
  <1>37. Len(z.hist) <= Limit
    BY <1>12, <1>14, <1>29, PaneNumbers
  <1>38. \A w \in Buffers : Len(z.marks[w]) <= Len(s.marks[w])
    <2>1. MarkList(s.marks["normal"]) /\ MarkList(s.marks["alternate"])
      BY <1>1, MarksOf
    <2>2. Len(s.marks["normal"]) \in Nat /\ Len(s.marks["alternate"]) \in Nat
      BY <2>1, ListLen
    <2>3. \A m \in Nat : m <= m
      OBVIOUS
    <2>4. Len(z.marks["normal"]) <= Len(s.marks["normal"]) /\ Len(z.marks["alternate"]) <= Len(s.marks["alternate"])
      BY <1>32, <2>2, <2>3
    <2>5. QED
      BY <2>4 DEF Buffers
  <1>39. IsTerm(z)
    BY <1>27 DEF Quiet
  <1>40. z.row < rows /\ z.saved < rows /\ (~ z.alt => z.saved = 0)
    <2>1. z.saved = 0 /\ 0 < rows
      BY <1>30
    <2>2. QED
      BY <1>22, <1>29, <2>1
  <1>41. Sheds(s, z)
    <2>1. MarkIds(z.marks["alternate"]) = MarkIds(s.marks["alternate"]) \ {}
      BY <1>32
    <2>2. QED
      BY <1>35, <1>36, <2>1 DEF Sheds
  <1>42. QED
    BY <1>29, <1>30, <1>31, <1>32, <1>34, <1>37, <1>38, <1>39, <1>40, <1>41 DEF Resizes

\* A resize on the alternate screen, with any trim of both panes.
LEMMA AlternateUpResizes ==
  ASSUME NEW s, Fed(s), s.alt, NEW rows \in Nat, 1 <= rows, NEW t, Readied(s, t, rows), NEW z \in ResizeAlternateUp(t, rows)
  PROVE  Resizes(s, z, rows)
  <1>1. IsTerm(s) /\ IsTerm(t) /\ Kept(s) /\ SameShape(s, t) /\ t.marks = s.marks
    BY DEF Fed, Kept, Readied
  <1>2. PICK h0 \in Nat : h0 = Len(t.hist) /\ h0 = Len(s.hist) /\ h0 <= Limit /\ h0 = Base(t)
    BY <1>1, HeightOf DEF SameShape, Fed, Screened, Base
  <1>3. PICK g0 \in Nat : g0 = Len(t.grid) /\ g0 = Len(s.grid) /\ g0 = Len(t.other) /\ Rows(t) = g0
    BY <1>1, HeightOf DEF SameShape, Fed, Screened, Rows
  <1>4. PICK all : all = t.hist \o t.other
    OBVIOUS
  <1>5. all \in Seq(Row) /\ Len(all) = h0 + g0 /\ t.grid \in Seq(Row)
    <2>1. t.hist \in Seq(Row) /\ t.grid \in Seq(Row) /\ t.other \in Seq(Row)
      BY <1>1, RowSeqs
    <2>2. all \in Seq(Row) /\ Len(all) = Len(t.hist) + Len(t.other)
      BY <1>4, <2>1, ConcatProperties
    <2>3. QED
      BY <1>2, <1>3, <2>1, <2>2
  <1>6. t.row \in Nat /\ t.saved \in Nat
    BY <1>1 DEF IsTerm
  <1>7. PICK cursor \in Nat : cursor = Base(t) + t.saved
    <2>1. h0 + t.saved \in Nat
      BY <1>6
    <2>2. QED
      BY <1>2, <2>1
  <1>8. PICK removed \in Nat : removed = Less(Rows(t), rows) /\ (g0 <= rows => removed = 0)
    BY <1>3, LessIs
  <1>9. PICK pinned : pinned = MarkLines(t.marks.normal) \cup LinesOf(t.points.normal)
    OBVIOUS
  <1>10. PICK onAlt : onAlt = {l - Base(t) : l \in MarkLines(t.marks.alternate) \cup LinesOf(t.points.alternate)}
    OBVIOUS
  <1>11. PICK k \in Trims(all, cursor, removed, pinned), j \in Trims(t.grid, t.row, removed, onAlt) : z = TrimmedUnderAlternate(t, rows, k, j)
    <2>1. ResizeAlternateUp(t, rows) =
            UNION {{TrimmedUnderAlternate(t, rows, x, y) : y \in Trims(t.grid, t.row, removed, onAlt)} : x \in Trims(all, cursor, removed, pinned)}
      BY <1>4, <1>7, <1>8, <1>9, <1>10 DEF ResizeAlternateUp
    <2>2. QED
      BY <2>1
  <1>12. k \in Nat /\ k <= removed /\ h0 + g0 - k >= cursor + 1
    BY <1>5, <1>11 DEF Trims
  <1>13. j \in Nat /\ j <= removed /\ g0 - j >= t.row + 1
    BY <1>3, <1>11 DEF Trims
  <1>14. PICK n \in Nat : n = h0 + g0 - k /\ n + k = Len(all)
    BY <1>5, <1>12
  <1>15. PICK m \in Nat : m = g0 - j /\ m + j = Len(t.grid)
    <2>1. PICK x \in Nat : x = t.row
      BY <1>6
    <2>2. g0 - j >= x + 1
      BY <1>13, <2>1
    <2>3. g0 - j \in Nat /\ (g0 - j) + j = g0
      BY <1>13, <2>2
    <2>4. QED
      BY <1>3, <2>3
  <1>16. Limit \in Nat /\ 0 \in Nat
    BY Bounds
  <1>17. PICK pane : pane = Pane(all, k, rows, Limit)
    OBVIOUS
  <1>18. PaneFor(pane, n, rows, Limit)
    BY <1>5, <1>12, <1>14, <1>16, <1>17, PaneIs
  <1>19. PICK alt : alt = Pane(t.grid, j, rows, 0)
    OBVIOUS
  <1>20. PaneFor(alt, m, rows, 0)
    BY <1>5, <1>13, <1>15, <1>16, <1>19, PaneIs
  <1>21. PICK new \in Nat : new = Len(pane.hist) /\ new <= Limit
    BY <1>16, <1>18, PaneNumbers
  <1>22. PICK a : a = PrimaryReflowed(t, pane)
    OBVIOUS
  <1>23. Lands(pane) \in [Nat -> Nat]
    BY <1>16, <1>18, LandsIs
  <1>24. Restrung(t, a, Lands(pane))
    BY <1>1, <1>22, <1>23, PrimaryReflowedIs
  <1>25. PICK u : u = AlternateReflowed(a, alt, h0, new)
    OBVIOUS
  <1>26. PICK move : move = Lifts(alt, h0, new)
    OBVIOUS
  <1>27. /\ move \in [Nat -> Nat]
         /\ \A l \in Nat : new <= move[l] /\ move[l] < new + rows
         /\ rows = m /\ h0 = new => alt.dropped = 0 /\ \A l \in Nat : h0 <= l /\ l < h0 + m => move[l] = l
    <2>1. move \in [Nat -> Nat] /\ \A l \in Nat : new <= move[l] /\ move[l] < new + rows
      BY <1>20, <1>26, LiftsIs
    <2>2. ASSUME rows = m, h0 = new
          PROVE  alt.dropped = 0 /\ \A l \in Nat : h0 <= l /\ l < h0 + m => move[l] = l
      <3>1. PaneFor(alt, m, m, 0) /\ 1 <= m
        BY <1>20, <2>2
      <3>2. alt.dropped = 0 /\ \A l \in Nat : h0 <= l /\ l < h0 + m => Lifts(alt, h0, h0)[l] = l
        BY <3>1, LiftsBack
      <3>3. QED
        BY <1>26, <2>2, <3>2
    <2>3. QED
      BY <2>1, <2>2
  <1>28. PICK ms : ms = s.marks["alternate"]
    OBVIOUS
  <1>29. IsTerm(a) /\ a.marks["alternate"] = ms
    BY <1>1, <1>24, <1>28 DEF Restrung
  <1>30. PICK gone :
           /\ Sifted(a, u, "alternate", gone, move)
           /\ (\A id \in MarkIds(ms) : ~ (Clamp(Index(ms)[id] - h0, alt.last) < alt.dropped)) => MarkIds(ms) \cap gone = {}
    <2>1. Lifts(alt, h0, new) \in [Nat -> Nat]
      BY <1>26, <1>27
    <2>2. QED
      BY <1>25, <1>26, <1>29, <2>1, AlternateReflowedIs
  <1>31. IsTerm(u) /\ SameShape(a, u) /\ u.nextMark = a.nextMark /\ u.evicted = a.evicted /\ u.epoch = a.epoch /\ u.marks["normal"] = a.marks["normal"]
         /\ Len(u.marks["alternate"]) <= Len(ms) /\ MarkIds(u.marks["alternate"]) = MarkIds(ms) \ gone
         /\ (\A id \in MarkIds(u.marks["alternate"]) : Index(u.marks["alternate"])[id] = move[Index(ms)[id]])
         /\ Tells(a, u, MarkIds(ms) \cap gone)
    BY <1>29, <1>30 DEF Sifted, Buffers
  <1>32. PICK saved \in Nat : saved = Clamp(Less(cursor, pane.split), rows - 1) /\ saved < rows
    BY <1>16, <1>18, PaneNumbers, CursorIs
  <1>33. PICK row \in Nat : row = Clamp(Less(t.row, alt.split), rows - 1) /\ row < rows
    BY <1>6, <1>16, <1>20, PaneNumbers, CursorIs
  <1>34. u.row = t.row
    BY <1>24, <1>31 DEF Restrung, SameShape
  <1>35. z = [u EXCEPT !.hist = pane.hist, !.other = pane.screen, !.grid = alt.screen, !.saved = saved, !.row = row]
    <2>1. pane = Pane(t.hist \o t.other, k, rows, Limit) /\ cursor = Base(t) + t.saved
      BY <1>4, <1>7, <1>17
    <2>2. u = AlternateReflowed(PrimaryReflowed(t, pane), alt, Base(t), Len(pane.hist))
      BY <1>2, <1>21, <1>22, <1>25
    <2>3. z = [u EXCEPT !.hist = pane.hist, !.other = pane.screen, !.grid = alt.screen,
                        !.saved = Clamp(Less(cursor, pane.split), rows - 1), !.row = Clamp(Less(@, alt.split), rows - 1)]
      BY <1>11, <1>19, <2>1, <2>2 DEF TrimmedUnderAlternate
    <2>4. QED
      BY <1>32, <1>33, <1>34, <2>3
  <1>36. pane.hist \in Seq(Row) /\ pane.screen \in Seq(Row) /\ alt.screen \in Seq(Row) /\ Len(pane.screen) = rows /\ Len(alt.screen) = rows
    BY <1>18, <1>20 DEF PaneFor
  <1>37. /\ DOMAIN z = TermFields /\ z.hist = pane.hist /\ z.grid = alt.screen /\ z.other = pane.screen /\ z.alt = u.alt
         /\ z.row = row /\ z.saved = saved /\ z.top = u.top /\ z.bottom = u.bottom /\ z.marks = u.marks /\ z.points = u.points
         /\ z.nextMark = u.nextMark /\ z.nextPoint = u.nextPoint /\ z.evicted = u.evicted /\ z.epoch = u.epoch /\ z.out = u.out
    BY <1>31, <1>35 DEF IsTerm, TermFields
  <1>38. IsTerm(z)
    BY <1>31, <1>36, <1>37 DEF IsTerm
  <1>39. z.nextMark = s.nextMark /\ z.evicted = s.evicted /\ s.epoch <= z.epoch /\ (z.epoch = s.epoch => rows = g0 \/ ~ AnyMarks(s)) /\ a.out = s.out
    BY <1>3, <1>24, <1>31, <1>37 DEF Readied, Restrung
  <1>40. z.alt = s.alt /\ z.top = s.top /\ z.bottom = s.bottom
    BY <1>1, <1>24, <1>31, <1>37 DEF Restrung, SameShape
  <1>41. Len(z.hist) = new /\ Len(z.grid) = rows /\ Len(z.other) = rows /\ Height(z) = new + rows
    BY <1>21, <1>36, <1>37 DEF Height
  <1>42. /\ MarkIds(z.marks["normal"]) = MarkIds(s.marks["normal"]) /\ Len(z.marks["normal"]) = Len(s.marks["normal"])
         /\ \A id \in MarkIds(s.marks["normal"]) : Index(z.marks["normal"])[id] = Lands(pane)[Index(s.marks["normal"])[id]]
    BY <1>1, <1>24, <1>31, <1>37 DEF Restrung
  <1>43. PICK D : D = MarkIds(ms) \cap gone
    OBVIOUS
  <1>44. /\ D \subseteq MarkIds(ms) /\ MarkIds(z.marks["alternate"]) = MarkIds(ms) \ D /\ Len(z.marks["alternate"]) <= Len(ms)
         /\ \A id \in MarkIds(z.marks["alternate"]) : Index(z.marks["alternate"])[id] = move[Index(ms)[id]]
    BY <1>31, <1>37, <1>43
  <1>45. Tells(s, z, D)
    BY <1>31, <1>37, <1>39, <1>43 DEF Tells
  <1>46. MarkList(s.marks["normal"]) /\ MarkList(ms)
    BY <1>1, <1>28, MarksOf
  <1>47. \A id \in MarkIds(s.marks["normal"]) : Index(s.marks["normal"])[id] \in Nat /\ Index(s.marks["normal"])[id] < h0 + g0
    <2>1. \A id \in MarkIds(s.marks["normal"]) : Index(s.marks["normal"])[id] \in Nat
      BY <1>46, IndexIs
    <2>2. Height(s) = h0 + g0
      BY <1>2, <1>3 DEF Height
    <2>3. QED
      BY <1>1, <2>1, <2>2 DEF Kept, Registered, Placed, Buffers
  <1>48. \A id \in MarkIds(ms) : Index(ms)[id] \in Nat /\ Index(ms)[id] < h0 + g0 /\ h0 <= Index(ms)[id]
    <2>1. \A id \in MarkIds(ms) : Index(ms)[id] \in Nat
      BY <1>46, IndexIs
    <2>2. Height(s) = h0 + g0
      BY <1>2, <1>3 DEF Height
    <2>3. QED
      BY <1>1, <1>2, <1>28, <2>1, <2>2 DEF Kept, Registered, Placed, Buffers
  <1>49. ASSUME NEW w \in Buffers, NEW id \in MarkIds(z.marks[w]) PROVE Placed(z, w, Index(z.marks[w])[id])
    <2>1. CASE w = "normal"
      <3>1. PICK l \in Nat : l = Index(s.marks["normal"])[id]
        BY <1>42, <1>47, <1>49, <2>1
      <3>2. Lands(pane)[l] < new + rows
        BY <1>16, <1>18, <1>21, <3>1, LandsIs
      <3>3. Index(z.marks[w])[id] = Lands(pane)[l]
        BY <1>42, <1>49, <2>1, <3>1
      <3>4. QED
        BY <1>41, <2>1, <3>2, <3>3 DEF Placed
    <2>2. CASE w = "alternate"
      <3>1. PICK l \in Nat : l = Index(ms)[id]
        BY <1>44, <1>48, <1>49, <2>2
      <3>2. new <= move[l] /\ move[l] < new + rows
        BY <1>27, <3>1
      <3>3. Index(z.marks[w])[id] = move[l]
        BY <1>44, <1>49, <2>2, <3>1
      <3>4. QED
        BY <1>41, <3>2, <3>3 DEF Placed
    <2>3. QED
      BY <2>1, <2>2 DEF Buffers
  <1>50. ASSUME rows = g0
         PROVE  /\ \A l \in Nat : l < h0 + g0 => Lands(pane)[l] = l
                /\ \A l \in Nat : h0 <= l /\ l < h0 + g0 => move[l] = l
                /\ alt.dropped = 0
    <2>1. removed = 0 /\ k = 0 /\ j = 0
      <3>1. removed = 0
        BY <1>8, <1>50
      <3>2. QED
        BY <1>12, <1>13, <3>1
    <2>2. n = h0 + g0 /\ m = g0
      BY <1>14, <1>15, <2>1
    <2>3. rows <= n /\ n <= rows + Limit
      BY <1>2, <1>16, <1>50, <2>2
    <2>4. \A l \in Nat : l < h0 + g0 => Lands(pane)[l] = l
      <3>1. \A x \in Nat : x < n => Lands(pane)[x] = x
        BY <1>16, <1>18, <2>3, LandsIs
      <3>2. QED
        BY <2>2, <3>1
    <2>5. new = h0
      <3>1. pane.dropped = 0 /\ pane.split + rows = n /\ new + pane.dropped = pane.split /\ pane.split \in Nat
        BY <1>16, <1>18, <1>21, <2>3, PaneNumbers
      <3>2. QED
        BY <1>50, <2>2, <3>1
    <2>6. rows = m /\ h0 = new
      BY <1>50, <2>2, <2>5
    <2>7. QED
      BY <1>27, <2>2, <2>4, <2>6
  <1>51. ASSUME z.epoch = s.epoch
         PROVE  D = {} /\ \A w \in Buffers : \A id \in MarkIds(z.marks[w]) : Index(z.marks[w])[id] = Index(s.marks[w])[id]
    <2>1. CASE ~ AnyMarks(s)
      <3>1. MarkIds(s.marks["normal"]) = {} /\ MarkIds(ms) = {}
        BY <1>28, <2>1, NoMarks DEF AnyMarks
      <3>2. D = {}
        BY <1>44, <3>1
      <3>3. \A w \in Buffers : MarkIds(z.marks[w]) = {}
        BY <1>42, <1>44, <3>1 DEF Buffers
      <3>4. QED
        BY <3>2, <3>3
    <2>2. CASE rows = g0
      <3>1. /\ \A l \in Nat : l < h0 + g0 => Lands(pane)[l] = l
            /\ \A l \in Nat : h0 <= l /\ l < h0 + g0 => move[l] = l
            /\ alt.dropped = 0
        BY <1>50, <2>2
      <3>2. D = {}
        <4>1. ASSUME NEW id \in MarkIds(ms) PROVE ~ (Clamp(Index(ms)[id] - h0, alt.last) < alt.dropped)
          <5>1. PICK l \in Nat : l = Index(ms)[id] /\ l < h0 + g0 /\ h0 <= l
            BY <1>48, <4>1
          <5>2. PICK r \in Nat : r = l - h0
            BY <5>1
          <5>3. PICK last \in Nat : last = alt.last
            BY <1>16, <1>20, PaneNumbers
          <5>4. Clamp(r, last) \in Nat
            BY ClampIs
          <5>5. ~ (Clamp(r, last) < 0)
            BY <5>4
          <5>6. QED
            BY <3>1, <5>1, <5>2, <5>3, <5>5
        <4>2. QED
          BY <1>30, <1>43, <4>1
      <3>3. ASSUME NEW w \in Buffers, NEW id \in MarkIds(z.marks[w]) PROVE Index(z.marks[w])[id] = Index(s.marks[w])[id]
        <4>1. CASE w = "normal"
          <5>1. PICK l \in Nat : l = Index(s.marks["normal"])[id] /\ l < h0 + g0
            BY <1>42, <1>47, <3>3, <4>1
          <5>2. Lands(pane)[l] = l
            BY <3>1, <5>1
          <5>3. QED
            BY <1>42, <3>3, <4>1, <5>1, <5>2
        <4>2. CASE w = "alternate"
          <5>1. PICK l \in Nat : l = Index(ms)[id] /\ l < h0 + g0 /\ h0 <= l
            BY <1>44, <1>48, <3>3, <4>2
          <5>2. move[l] = l
            BY <3>1, <5>1
          <5>3. QED
            BY <1>28, <1>44, <3>3, <4>2, <5>1, <5>2
        <4>3. QED
          BY <4>1, <4>2 DEF Buffers
      <3>4. QED
        BY <3>2, <3>3
    <2>3. QED
      BY <1>39, <1>51, <2>1, <2>2
  <1>52. Sheds(s, z)
    BY <1>28, <1>44, <1>45, <1>51 DEF Sheds
  <1>53. \A w \in Buffers : Len(z.marks[w]) <= Len(s.marks[w])
    <2>1. Len(s.marks["normal"]) \in Nat
      BY <1>46, ListLen
    <2>2. \A x \in Nat : x <= x
      OBVIOUS
    <2>3. Len(z.marks["normal"]) <= Len(s.marks["normal"]) /\ Len(z.marks["alternate"]) <= Len(s.marks["alternate"])
      BY <1>28, <1>42, <1>44, <2>1, <2>2
    <2>4. QED
      BY <2>3 DEF Buffers
  <1>54. z.row < rows /\ z.saved < rows /\ (~ z.alt => z.saved = 0)
    BY <1>32, <1>33, <1>37, <1>40
  <1>55. Len(z.hist) <= Limit
    BY <1>21, <1>41
  <1>56. QED
    BY <1>38, <1>39, <1>40, <1>41, <1>42, <1>49, <1>52, <1>53, <1>54, <1>55 DEF Resizes

\* So a resize can be followed.
LEMMA ResizesFeeds ==
  ASSUME NEW s, Fed(s), NEW rows \in Nat, NEW z, Resizes(s, z, rows)
  PROVE  Kept(z) /\ Feeds(s, z)
  <1>1. PICK D : /\ D \subseteq MarkIds(s.marks["alternate"]) /\ MarkIds(z.marks["alternate"]) = MarkIds(s.marks["alternate"]) \ D
                 /\ Tells(s, z, D)
                 /\ z.epoch = s.epoch => D = {} /\ \A w \in Buffers : \A id \in MarkIds(z.marks[w]) : Index(z.marks[w])[id] = Index(s.marks[w])[id]
    BY DEF Resizes, Sheds
  <1>2. IsTerm(s) /\ Registered(s) /\ IsTerm(z)
    BY DEF Fed, Kept, Resizes
  <1>3. z.alt = s.alt /\ z.nextMark = s.nextMark /\ z.evicted = s.evicted /\ s.epoch <= z.epoch /\ MarkIds(z.marks["normal"]) = MarkIds(s.marks["normal"])
    BY DEF Resizes
  <1>4. LiveMarks(z) = MarkIds(z.marks["normal"]) \cup MarkIds(z.marks["alternate"]) /\ LiveMarks(s) = MarkIds(s.marks["normal"]) \cup MarkIds(s.marks["alternate"])
    BY DEF LiveMarks
  <1>5. MarkIds(s.marks["normal"]) \cap MarkIds(s.marks["alternate"]) = {}
    BY <1>2 DEF Registered
  <1>6. D \subseteq LiveMarks(s) /\ LiveMarks(z) = LiveMarks(s) \ D
    BY <1>1, <1>3, <1>4, <1>5
  <1>7. ASSUME z.epoch = s.epoch PROVE Lifted(s, z, D, z.evicted - s.evicted)
    <2>1. D = {} /\ \A w \in Buffers : \A id \in MarkIds(z.marks[w]) : Index(z.marks[w])[id] = Index(s.marks[w])[id]
      BY <1>1, <1>7
    <2>2. z.evicted - s.evicted = 0
      BY <1>2, <1>3, CountersOf DEF Counters
    <2>3. \A w \in Buffers : MarkIds(z.marks[w]) = MarkIds(s.marks[w])
      BY <1>1, <1>3, <2>1 DEF Buffers
    <2>4. Active(z) = Active(s) /\ Active(s) \in Buffers
      BY <1>2, <1>3, MarksOf DEF Active
    <2>5. ActiveIds(z) = ActiveIds(s) /\ \A id \in ActiveIds(z) : ActiveIndex(z)[id] = ActiveIndex(s)[id]
      BY <2>1, <2>3, <2>4 DEF ActiveIds, ActiveIndex
    <2>6. \A id \in ActiveIds(s) : ActiveIndex(s)[id] \in Nat
      BY <1>2, MarksOf
    <2>7. \A id \in ActiveIds(z) : ActiveIndex(s)[id] = ActiveIndex(z)[id] + 0
      BY <2>5, <2>6
    <2>8. ActiveIds(z) = ActiveIds(s) \ D
      BY <2>1, <2>5
    <2>9. QED
      BY <2>2, <2>7, <2>8 DEF Lifted
  <1>8. Feeds(s, z)
    <2>1. Follows(s, z, D)
      BY <1>1, <1>6, <1>7 DEF Follows
    <2>2. s.evicted <= z.evicted
      BY <1>2, <1>3, CountersOf DEF Counters
    <2>3. QED
      BY <1>3, <2>1, <2>2 DEF Feeds
  <1>9. \A w \in Buffers : Len(z.marks[w]) <= MaxMarkers
    <2>1. ASSUME NEW w \in Buffers PROVE Len(z.marks[w]) <= MaxMarkers
      <3>1. MarkList(z.marks[w]) /\ MarkList(s.marks[w])
        BY <1>2, MarksOf DEF Buffers
      <3>2. Len(z.marks[w]) \in Nat /\ Len(s.marks[w]) \in Nat
        BY <3>1, ListLen
      <3>3. Len(z.marks[w]) <= Len(s.marks[w])
        BY DEF Resizes
      <3>4. Len(s.marks[w]) <= MaxMarkers
        BY <1>2 DEF Registered
      <3>5. MaxMarkers \in Nat
        BY Bounds
      <3>6. PICK a \in Nat : a = Len(z.marks[w])
        BY <3>2
      <3>7. PICK b \in Nat : b = Len(s.marks[w])
        BY <3>2
      <3>8. a <= b /\ b <= MaxMarkers
        BY <3>3, <3>4, <3>6, <3>7
      <3>9. a <= MaxMarkers
        BY <3>5, <3>8
      <3>10. QED
        BY <3>6, <3>9
    <2>2. QED
      BY <2>1
  <1>10. MarkIds(z.marks["normal"]) \cap MarkIds(z.marks["alternate"]) = {}
    BY <1>1, <1>3, <1>5
  <1>11. \A id \in LiveMarks(z) : id < z.nextMark
    BY <1>2, <1>3, <1>6 DEF Registered
  <1>12. ~ z.alt => MarkIds(z.marks["alternate"]) = {}
    BY <1>1, <1>2, <1>3 DEF Registered
  <1>13. \A w \in Buffers : \A id \in MarkIds(z.marks[w]) : Placed(z, w, Index(z.marks[w])[id])
    BY DEF Resizes
  <1>14. QED
    BY <1>2, <1>8, <1>9, <1>10, <1>11, <1>12, <1>13 DEF Kept, Registered

\* With the region reset it keeps the invariant.
LEMMA ResizesGoes ==
  ASSUME NEW s, Fed(s), NEW rows \in Nat, 1 <= rows, rows <= MaxRows, NEW u, Resizes(s, u, rows),
         NEW z, z = IF rows # Len(s.grid) THEN FullRegion(u, rows) ELSE u
  PROVE  Goes(s, z)
  <1>1. Kept(u) /\ Feeds(s, u) /\ IsTerm(u) /\ IsTerm(s)
    BY ResizesFeeds DEF Kept, Fed
  <1>2. /\ u.alt = s.alt /\ u.evicted = s.evicted /\ Len(u.grid) = rows /\ Len(u.other) = rows /\ Len(u.hist) <= Limit
        /\ u.row < rows /\ u.saved < rows /\ (~ u.alt => u.saved = 0) /\ u.top = s.top /\ u.bottom = s.bottom
    BY DEF Resizes
  <1>3. s.evicted <= s.evicted + (Limit + MaxRows)
    <2>1. PICK e \in Nat : e = s.evicted
      BY <1>1, CountersOf DEF Counters
    <2>2. e <= e + (Limit + MaxRows)
      BY Bounds
    <2>3. QED
      BY <2>1, <2>2
  <1>4. CASE rows = Len(s.grid)
    <2>1. z = u
      BY <1>4
    <2>2. u.top <= u.bottom /\ u.bottom < rows
      BY <1>2, <1>4 DEF Fed, Screened
    <2>3. Fed(u)
      BY <1>1, <1>2, <2>2 DEF Fed, Screened
    <2>4. QED
      BY <1>1, <1>2, <1>3, <2>1, <2>3 DEF Goes
  <1>5. CASE rows # Len(s.grid)
    <2>1. PICK last \in Nat : last = rows - 1 /\ 0 <= last /\ last < rows
      OBVIOUS
    <2>2. z = [u EXCEPT !.top = 0, !.bottom = last]
      BY <1>5, <2>1 DEF FullRegion
    <2>3. /\ IsTerm(z) /\ SameFeed(u, z) /\ z.alt = u.alt /\ z.hist = u.hist /\ z.grid = u.grid /\ z.other = u.other
          /\ z.row = u.row /\ z.saved = u.saved /\ z.top = 0 /\ z.bottom = last
      <3>1. PICK top \in Nat : top = 0
        OBVIOUS
      <3>2. z = [u EXCEPT !.top = top, !.bottom = last]
        BY <2>2, <3>1
      <3>3. /\ IsTerm(z) /\ SameFeed(u, z) /\ z.alt = u.alt /\ z.hist = u.hist /\ z.grid = u.grid /\ z.other = u.other
            /\ z.row = u.row /\ z.saved = u.saved /\ z.top = top /\ z.bottom = last
        BY <1>1, <3>2 DEF IsTerm, SameFeed, TermFields
      <3>4. QED
        BY <3>1, <3>3
    <2>4. z.marks = u.marks /\ z.nextMark = u.nextMark /\ LiveMarks(z) = LiveMarks(u) /\ Height(z) = Height(u)
      BY <2>3 DEF SameFeed, LiveMarks, Height
    <2>5. Kept(z)
      BY <1>1, <2>3, <2>4 DEF Kept, Registered, Placed
    <2>6. Feeds(s, z)
      <3>1. Feeds(u, z)
        BY <1>1, <2>3, SilentFeeds
      <3>2. QED
        BY <1>1, <2>3, <3>1, FeedsOn
    <2>7. Fed(z)
      BY <1>2, <2>1, <2>3, <2>5 DEF Fed, Screened
    <2>8. z.evicted <= s.evicted + (Limit + MaxRows)
      BY <1>2, <1>3, <2>3 DEF SameFeed
    <2>9. QED
      BY <2>6, <2>7, <2>8 DEF Goes
  <1>6. QED
    BY <1>4, <1>5

\* Engine::resize, the columns unchanged.
LEMMA ResizeFeeds ==
  ASSUME Fed(term), NEW rows \in Nat, 1 <= rows, rows <= MaxRows, Resize(rows)
  PROVE  Feed!FeedNext /\ Fed(term')
  <1>1. PICK s : s = now
    OBVIOUS
  <1>2. Fed(s) /\ IsTerm(s)
    BY <1>1, NowIs DEF Fed, Kept
  <1>3. PICK z \in Resized(s, rows) : Call(z)
    BY <1>1 DEF Resize
  <1>4. PICK changed \in BOOLEAN : changed <=> rows # Rows(s)
    OBVIOUS
  <1>5. PICK t1 : t1 = IF changed /\ AnyMarks(s) THEN BumpEpoch(s) ELSE s
    OBVIOUS
  <1>6. Readied(s, t1, rows)
    <2>1. CASE changed /\ AnyMarks(s)
      <3>1. t1 = BumpEpoch(s)
        BY <1>5, <2>1
      <3>2. IsTerm(t1) /\ SameShape(s, t1) /\ t1.marks = s.marks /\ t1.nextMark = s.nextMark /\ t1.evicted = s.evicted /\ t1.epoch = s.epoch + 1 /\ t1.out = s.out
        BY <1>2, <3>1, BumpIs
      <3>3. s.epoch <= t1.epoch /\ t1.epoch # s.epoch
        BY <1>2, <3>2, CountersOf DEF Counters
      <3>4. QED
        BY <3>2, <3>3 DEF Readied
    <2>2. CASE ~ (changed /\ AnyMarks(s))
      <3>1. t1 = s
        BY <1>5, <2>2
      <3>2. s.epoch <= s.epoch
        BY <1>2, CountersOf DEF Counters
      <3>3. rows = Len(s.grid) \/ ~ AnyMarks(s)
        BY <1>4, <2>2 DEF Rows
      <3>4. QED
        BY <1>2, <3>1, <3>2, <3>3 DEF Readied, SameShape
    <2>3. QED
      BY <2>1, <2>2
  <1>7. PICK t2 : t2 = IF changed /\ s.alt THEN Deselect(t1) ELSE t1
    OBVIOUS
  <1>8. Readied(s, t2, rows)
    <2>1. CASE changed /\ s.alt
      <3>1. t2 = Deselect(t1)
        BY <1>7, <2>1
      <3>2. Quiet(t1, t2)
        BY <1>6, <3>1, DeselectQuiet DEF Readied
      <3>3. IsTerm(t2) /\ SameShape(s, t2)
        BY <1>6, <3>2 DEF Readied, Quiet, SameShape
      <3>4. t2.marks = t1.marks /\ t2.nextMark = t1.nextMark /\ t2.evicted = t1.evicted /\ t2.epoch = t1.epoch /\ t2.out = t1.out
        BY <3>2 DEF Quiet, SameFeed
      <3>5. QED
        BY <1>6, <3>3, <3>4 DEF Readied
    <2>2. CASE ~ (changed /\ s.alt)
      BY <1>6, <1>7, <2>2
    <2>3. QED
      BY <2>1, <2>2
  <1>9. PICK panes : panes = IF s.alt THEN ResizeAlternateUp(t2, rows) ELSE ResizePrimaryUp(t2, rows)
    OBVIOUS
  <1>10. \A u \in panes : Resizes(s, u, rows)
    <2>1. CASE s.alt
      BY <1>2, <1>8, <1>9, <2>1, AlternateUpResizes
    <2>2. CASE ~ s.alt
      BY <1>2, <1>8, <1>9, <2>2, PrimaryUpResizes
    <2>3. QED
      BY <2>1, <2>2
  <1>11. Resized(s, rows) = IF changed THEN {FullRegion(u, rows) : u \in panes} ELSE panes
    BY <1>4, <1>5, <1>7, <1>9 DEF Resized
  <1>12. \E u \in panes : z = IF rows # Len(s.grid) THEN FullRegion(u, rows) ELSE u
    <2>1. CASE changed
      BY <1>3, <1>4, <1>11, <2>1 DEF Rows
    <2>2. CASE ~ changed
      BY <1>3, <1>4, <1>11, <2>2 DEF Rows
    <2>3. QED
      BY <2>1, <2>2
  <1>13. Goes(now, z)
    <2>1. PICK u \in panes : z = IF rows # Len(s.grid) THEN FullRegion(u, rows) ELSE u
      BY <1>12
    <2>2. Resizes(s, u, rows)
      BY <1>10, <2>1
    <2>3. Goes(s, z)
      BY <1>2, <2>1, <2>2, ResizesGoes
    <2>4. QED
      BY <1>1, <2>3
  <1>14. QED
    BY <1>3, <1>13, FeedStep

(* ---- the feed is kept ----------------------------------------------------------------------- *)
\* Every step keeps the invariant and is a step of the feed or a stutter: one
\* case for each call.
LEMMA StepFed ==
  ASSUME Fed(term), Next
  PROVE  Feed!FeedNext /\ Fed(term')
  <1>1. CASE \E line \in Visible(term) : AddMarker(line) \/ TrackPoint(line) \/ SelectionBegin(line) \/ SelectionExtend(line)
    <2>1. PICK line \in Visible(term) : AddMarker(line) \/ TrackPoint(line) \/ SelectionBegin(line) \/ SelectionExtend(line)
      BY <1>1
    <2>2. CASE AddMarker(line)
      BY <2>2, AddMarkerFeeds
    <2>3. CASE TrackPoint(line)
      BY <2>3, TrackPointFeeds
    <2>4. CASE SelectionBegin(line)
      BY <2>4, SelectFeeds DEF SelectionBegin
    <2>5. CASE SelectionExtend(line)
      BY <2>5, SelectFeeds DEF SelectionExtend
    <2>6. QED
      BY <2>1, <2>2, <2>3, <2>4, <2>5
  <1>2. CASE \E a, b \in Visible(term) : SelectAll(a, b)
    BY <1>2, SelectFeeds DEF SelectAll
  <1>3. CASE AddCommandMark \/ SelectionClear
    BY <1>3, AddCommandMarkFeeds, SelectionClearFeeds
  <1>4. CASE \E id \in LiveMarks(term) : RemoveMarker(id)
    BY <1>4, RemoveMarkerFeeds
  <1>5. CASE \E id \in LivePoints(term) : UntrackPoint(id)
    BY <1>5, UntrackPointFeeds
  <1>6. CASE \E row \in 0..MaxRows : Goto(row)
    BY <1>6, GotoFeeds
  <1>7. CASE \E top, bottom \in 0..MaxRows : SetScrollRegion(top, bottom)
    BY <1>7, SetScrollRegionFeeds
  <1>8. CASE Linefeed \/ ReverseIndex
    BY <1>8, LinefeedFeeds, ReverseIndexFeeds
  <1>9. CASE \E n \in 1..2, up \in BOOLEAN : ScrollLines(n, up) \/ InsertOrDeleteLines(n, up)
    <2>1. PICK n \in 1..2, up \in BOOLEAN : ScrollLines(n, up) \/ InsertOrDeleteLines(n, up)
      BY <1>9
    <2>2. n \in Nat
      OBVIOUS
    <2>3. QED
      BY <2>1, <2>2, ScrollLinesFeeds, InsertOrDeleteLinesFeeds
  <1>10. CASE \E mode \in 0..3 : EraseDisplay(mode)
    BY <1>10, EraseDisplayFeeds
  <1>11. CASE \E top \in 0..MaxRows : Clear(top)
    BY <1>11, ClearFeeds
  <1>12. CASE SwitchToAlt \/ SwitchToPrimary
    BY <1>12, SwitchToAltFeeds, SwitchToPrimaryFeeds
  <1>13. CASE \E rows \in 1..MaxRows : Resize(rows)
    <2>1. PICK rows \in 1..MaxRows : Resize(rows)
      BY <1>13
    <2>2. rows \in Nat /\ 1 <= rows /\ rows <= MaxRows
      BY Bounds
    <2>3. QED
      BY <2>1, <2>2, ResizeFeeds
  <1>14. CASE FullReset
    BY <1>14, FullResetFeeds
  <1>15. QED
    BY <1>1, <1>2, <1>3, <1>4, <1>5, <1>6, <1>7, <1>8, <1>9, <1>10, <1>11, <1>12, <1>13, <1>14 DEF Next

\* In every state the two populations' ids are disjoint and already issued, no
\* population exceeds the cap, and every marker is on a line its buffer has.
THEOREM FedAlways == Spec => []Fed(term)
  <1>1. Init => Fed(term)
    BY InitFed
  <1>2. Fed(term) /\ [Next]_vars => Fed(term)'
    <2>1. ASSUME Fed(term), Next PROVE Fed(term)'
      BY <2>1, StepFed
    <2>2. ASSUME Fed(term), UNCHANGED vars PROVE Fed(term)'
      BY <2>2 DEF vars
    <2>3. QED
      BY <2>1, <2>2
  <1>3. QED
    BY <1>1, <1>2, PTL DEF Spec

\* The engine keeps its promise to the holder of a marker index: every call is a
\* step of MarkerFeed, or none.
THEOREM FeedKept == Spec => KeepsTheFeed
  <1>1. Init => Feed!FeedInit
    BY InitFed
  <1>2. Fed(term) /\ [Next]_vars => [Feed!FeedNext]_(Feed!feedVars)
    <2>1. ASSUME Fed(term), Next PROVE Feed!FeedNext
      BY <2>1, StepFed
    <2>2. ASSUME UNCHANGED vars PROVE UNCHANGED Feed!feedVars
      BY <2>2 DEF vars, Feed!feedVars
    <2>3. QED
      BY <2>1, <2>2
  <1>3. QED
    BY <1>1, <1>2, FedAlways, PTL DEF Spec, KeepsTheFeed, Feed!FeedSpec
=============================================================================
