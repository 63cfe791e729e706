-------------------------- MODULE OrderingProofs --------------------------
(***************************************************************************)
(* Facts about finite sets of naturals that the components' proofs share.  *)
(***************************************************************************)
EXTENDS Ordering, FiniteSetTheorems, FunctionTheorems, WellFoundedInduction, TLAPS

\* Naturals are well founded, so a property of all of them that carries over
\* from what is below holds: the set of exceptions would have a least member.
LEMMA LeastOf ==
    ASSUME NEW T, T \subseteq Nat, T # {}
    PROVE  \E x \in T : \A y \in T : x <= y
  <1> DEFINE R == OpToRel(<, Nat)
  <1>1. IsWellFoundedOn(R, Nat)
    BY NatLessThanWellFounded
  <1>2. \A x, y \in Nat : <<y, x>> \in R <=> y < x
    BY DEF OpToRel
  <1> HIDE DEF R
  <1>3. PICK x \in T : \A y \in T : ~(<<y, x>> \in R)
    BY <1>1, WFMin
  <1>4. \A y \in T : ~(y < x)
    BY <1>2, <1>3
  <1>5. x \in Nat /\ \A y \in T : y \in Nat
    BY <1>3
  <1>6. QED BY <1>4, <1>5

LEMMA GreatestOf ==
    ASSUME NEW T, T \subseteq Nat, T # {}, NEW n \in Nat, \A t \in T : t <= n
    PROVE  \E x \in T : \A y \in T : x >= y
  <1> DEFINE D == {m \in Nat : n - m \in T}
  <1>1. D # {}
    <2>1. PICK t \in T : t \in Nat /\ t <= n
      OBVIOUS
    <2>2. n - t \in Nat /\ n - (n - t) = t
      BY <2>1
    <2>3. QED BY <2>1, <2>2
  <1>2. PICK d \in D : \A e \in D : d <= e
    BY <1>1, LeastOf
  <1>3. ASSUME NEW y \in T PROVE n - d >= y
    <2>1. y \in Nat /\ y <= n
      OBVIOUS
    <2>2. n - y \in D
      BY <2>1
    <2>3. d <= n - y /\ d \in Nat
      BY <2>2, <1>2
    <2>4. QED BY <2>1, <2>3
  <1>4. n - d \in T
    BY <1>2
  <1>5. QED BY <1>3, <1>4

\* What holds at 0 and is passed on by each step holds at every step.
LEMMA StepByStep ==
    ASSUME NEW n \in Nat, NEW S, 0 \in S, \A k \in 1..n : k - 1 \in S => k \in S
    PROVE  \A k \in 0..n : k \in S
  <1> DEFINE missed == {k \in 0..n : k \notin S}
  <1>1. SUFFICES ASSUME missed # {} PROVE FALSE
    OBVIOUS
  <1>2. PICK k \in missed : \A j \in missed : k <= j
    <2>1. missed \subseteq Nat
      OBVIOUS
    <2> HIDE DEF missed
    <2>2. QED BY <1>1, <2>1, LeastOf
  <1>3. k \in 1..n
    OBVIOUS
  <1>4. k - 1 \in 0..n /\ ~(k <= k - 1)
    BY <1>3
  <1>5. k - 1 \notin missed
    <2> HIDE DEF missed
    <2>1. QED BY <1>2, <1>4
  <1>6. QED BY <1>3, <1>4, <1>5

LEMMA RankStep ==
    ASSUME NEW S, S \subseteq Nat, IsFiniteSet(S)
    PROVE  /\ \A p \in S : Rank(S, p) \in 1..Cardinality(S)
           /\ \A p, q \in S : p < q => Rank(S, p) < Rank(S, q)
  <1> DEFINE Upto(p) == {q \in S : q <= p}
  <1>1. \A p \in S : /\ IsFiniteSet(Upto(p)) /\ Cardinality(Upto(p)) \in Nat
                     /\ Cardinality(Upto(p)) <= Cardinality(S)
    BY FS_Subset, FS_CardinalityType
  <1>2. Cardinality(S) \in Nat
    BY FS_CardinalityType
  <1>3. ASSUME NEW p \in S PROVE Rank(S, p) \in 1..Cardinality(S)
    <2>1. p \in Upto(p)
      OBVIOUS
    <2>2. Cardinality(Upto(p)) # 0
      BY <1>1, <2>1, FS_EmptySet
    <2>3. QED BY <1>1, <1>2, <2>2 DEF Rank
  <1>4. ASSUME NEW p \in S, NEW q \in S, p < q PROVE Rank(S, p) < Rank(S, q)
    <2> p \in Nat /\ q \in Nat
      OBVIOUS
    <2>1. \A r \in S : r <= p => r <= q
      <3>1. \A r \in S : r \in Nat
        OBVIOUS
      <3>2. QED BY <1>4, <3>1
    <2>2. Upto(p) \in SUBSET Upto(q)
      BY <2>1
    <2>3. q \in Upto(q) /\ q \notin Upto(p)
      BY <1>4
    <2>4. /\ Cardinality(Upto(p)) <= Cardinality(Upto(q))
          /\ Cardinality(Upto(p)) # Cardinality(Upto(q))
      BY <1>1, <2>2, <2>3, FS_Subset
    <2>5. QED BY <1>1, <2>4 DEF Rank
  <1>5. QED BY <1>3, <1>4

\* Ascending lists every member once, the smaller ones first.
LEMMA AscendingLists ==
    ASSUME NEW S, S \subseteq Nat, IsFiniteSet(S)
    PROVE  /\ Cardinality(S) \in Nat
           /\ DOMAIN Ascending(S) = 1..Cardinality(S)
           /\ \A k \in 1..Cardinality(S) : Ascending(S)[k] \in S
           /\ \A j, k \in 1..Cardinality(S) : j < k => Ascending(S)[j] < Ascending(S)[k]
           /\ \A p \in S : \E k \in 1..Cardinality(S) : Ascending(S)[k] = p
  <1> DEFINE N == Cardinality(S)
             rank == [p \in S |-> Rank(S, p)]
  <1>1. N \in Nat
    BY FS_CardinalityType
  <1>2. rank \in [S -> 1..N]
    BY RankStep
  <1>3. \A p, q \in S : Rank(S, p) = Rank(S, q) => p = q
    <2> SUFFICES ASSUME NEW p \in S, NEW q \in S, p # q
                 PROVE  Rank(S, p) # Rank(S, q)
      OBVIOUS
    <2>1. p \in Nat /\ q \in Nat
      OBVIOUS
    <2>2. Rank(S, p) \in Nat /\ Rank(S, q) \in Nat
      <3>1. Rank(S, p) \in 1..N /\ Rank(S, q) \in 1..N
        BY RankStep
      <3>2. QED BY <3>1, <1>1
    <2>3. p < q \/ q < p
      BY <2>1
    <2>4. Rank(S, p) < Rank(S, q) \/ Rank(S, q) < Rank(S, p)
      BY <2>3, RankStep
    <2>5. QED BY <2>2, <2>4
  <1>4. rank \in Injection(S, 1..N)
    BY <1>2, <1>3 DEF Injection, IsInjective
  <1>5. IsFiniteSet(1..N) /\ Cardinality(1..N) = N
    BY <1>1, FS_Interval
  <1>6. rank \in Surjection(S, 1..N)
    BY <1>4, <1>5, FS_Injection
  <1>7. \A k \in 1..N : \E p \in S : Rank(S, p) = k
    BY <1>6 DEF Surjection
  <1>8. \A k \in 1..N : Ascending(S)[k] \in S /\ Rank(S, Ascending(S)[k]) = k
    BY <1>7 DEF Ascending, ascending
  <1>9. ASSUME NEW j \in 1..N, NEW k \in 1..N, j < k
        PROVE  Ascending(S)[j] < Ascending(S)[k]
    <2>1. Ascending(S)[j] \in Nat /\ Ascending(S)[k] \in Nat
      BY <1>8
    <2>2. CASE Ascending(S)[k] < Ascending(S)[j]
      <3>1. Rank(S, Ascending(S)[k]) < Rank(S, Ascending(S)[j])
        BY <2>2, <1>8, RankStep
      <3>2. QED BY <3>1, <1>8, <1>9
    <2>3. CASE Ascending(S)[k] = Ascending(S)[j]
      BY <2>3, <1>8, <1>9
    <2>4. QED BY <2>1, <2>2, <2>3
  <1>10. ASSUME NEW p \in S PROVE \E k \in 1..N : Ascending(S)[k] = p
    <2>1. Rank(S, p) \in 1..N
      BY RankStep
    <2>2. Ascending(S)[Rank(S, p)] = p
      BY <2>1, <1>3, <1>8
    <2>3. QED BY <2>1, <2>2
  <1>11. DOMAIN Ascending(S) = 1..N
    BY DEF Ascending, ascending
  <1>12. QED BY <1>1, <1>8, <1>9, <1>10, <1>11

\* Whatever lists a set in ascending order is Ascending of it.
LEMMA AscendingUnique ==
    ASSUME NEW n \in Nat, NEW g, g \in [1..n -> Nat],
           \A j, k \in 1..n : j < k => g[j] < g[k]
    PROVE  LET S == {g[k] : k \in 1..n}
           IN  IsFiniteSet(S) /\ Cardinality(S) = n /\ Ascending(S) = g
  <1> DEFINE S == {g[k] : k \in 1..n}
  <1>1. \A j, k \in 1..n : g[j] <= g[k] <=> j <= k
    <2>1. \A j, k \in 1..n : g[j] \in Nat /\ g[k] \in Nat
      OBVIOUS
    <2>2. QED BY <2>1
  <1>2. \A k \in 0..n : /\ IsFiniteSet({g[j] : j \in 1..k})
                        /\ Cardinality({g[j] : j \in 1..k}) = k
    <2> TAKE k \in 0..n
    <2> DEFINE first == [j \in 1..k |-> g[j]]
               T == {g[j] : j \in 1..k}
    <2>1. IsFiniteSet(1..k) /\ Cardinality(1..k) = k
      BY FS_Interval
    <2>2. \A i, j \in 1..k : g[i] = g[j] => i = j
      BY <1>1
    <2>3. first \in [1..k -> T] /\ \A t \in T : \E j \in 1..k : first[j] = t
      OBVIOUS
    <2>4. first \in Bijection(1..k, T)
      BY <2>2, <2>3 DEF Bijection, Injection, IsInjective, Surjection
    <2>5. QED BY <2>1, <2>4, FS_Bijection DEF ExistsBijection
  <1>3. IsFiniteSet(S) /\ Cardinality(S) = n
    BY <1>2
  <1>4. \A k \in 1..n : Rank(S, g[k]) = k
    <2> TAKE k \in 1..n
    <2>1. {q \in S : q <= g[k]} = {g[j] : j \in 1..k}
      BY <1>1
    <2>2. Cardinality({g[j] : j \in 1..k}) = k
      <3>1. k \in 0..n
        OBVIOUS
      <3>2. QED BY <1>2, <3>1
    <2>3. QED BY <2>1, <2>2 DEF Rank
  <1>5. \A k \in 1..n : Ascending(S)[k] = g[k]
    <2> TAKE k \in 1..n
    <2>1. \A p \in S : Rank(S, p) = k => p = g[k]
      BY <1>4
    <2>2. g[k] \in S
      OBVIOUS
    <2>3. QED BY <1>3, <1>4, <2>1, <2>2 DEF Ascending, ascending
  <1>6. Ascending(S) = g
    <2>1. S \in SUBSET Int
      OBVIOUS
    <2>2. Ascending(S) = [k \in 1..n |-> CHOOSE p \in S : Rank(S, p) = k]
      BY <1>3, <2>1 DEF Ascending, ascending
    <2>3. Ascending(S) = [k \in 1..n |-> g[k]]
      <3> HIDE DEF S
      <3>1. \A k \in 1..n : Ascending(S)[k] = (CHOOSE p \in S : Rank(S, p) = k)
        BY <2>2
      <3>2. QED BY <2>2, <3>1, <1>5
    <2>4. QED BY <2>3
  <1>7. QED BY <1>3, <1>6
\* The highest first: every position is listed once, and nothing else is.
LEMMA HighestFirstLists ==
    ASSUME NEW S, S \subseteq Nat, IsFiniteSet(S), NEW key, \A p \in S : key[p] \in Nat
    PROVE  Range(HighestFirst(S, key)) = S
  <1> DEFINE N == Cardinality(S)
             Upto(p) == {q \in S : q = p \/ Precedes(key, q, p)}
             place == [p \in S |-> Place(S, key, p)]
             sorted == HighestFirst(S, key)
  <1>1. N \in Nat
    BY FS_CardinalityType
  <1>2. \A p \in S : /\ IsFiniteSet(Upto(p)) /\ Cardinality(Upto(p)) \in Nat
                     /\ Cardinality(Upto(p)) <= N
    BY FS_Subset, FS_CardinalityType
  <1>3. ASSUME NEW p \in S PROVE Place(S, key, p) \in 1..N
    <2>1. p \in Upto(p)
      OBVIOUS
    <2>2. Cardinality(Upto(p)) # 0
      BY <1>2, <2>1, FS_EmptySet
    <2>3. QED BY <1>1, <1>2, <2>2 DEF Place
  <1>4. ASSUME NEW p \in S, NEW q \in S, Precedes(key, p, q) PROVE Place(S, key, p) < Place(S, key, q)
    <2> p \in Nat /\ q \in Nat /\ key[p] \in Nat /\ key[q] \in Nat
      OBVIOUS
    <2>1. ASSUME NEW r \in Upto(p) PROVE r \in Upto(q)
      <3>1. r \in S /\ r \in Nat /\ key[r] \in Nat
        OBVIOUS
      <3>2. CASE r = p
        BY <3>1, <3>2, <1>4
      <3>3. CASE Precedes(key, r, p)
        BY <3>1, <3>3, <1>4 DEF Precedes
      <3>4. QED BY <2>1, <3>2, <3>3
    <2>2. q \in Upto(q) /\ q \notin Upto(p)
      BY <1>4 DEF Precedes
    <2>3. Upto(p) \in SUBSET Upto(q)
      BY <2>1
    <2>4. /\ Cardinality(Upto(p)) <= Cardinality(Upto(q))
          /\ Cardinality(Upto(p)) # Cardinality(Upto(q))
      BY <1>2, <2>2, <2>3, FS_Subset
    <2>5. QED BY <1>2, <2>4 DEF Place
  <1>5. \A p, q \in S : Place(S, key, p) = Place(S, key, q) => p = q
    <2> SUFFICES ASSUME NEW p \in S, NEW q \in S, p # q PROVE Place(S, key, p) # Place(S, key, q)
      OBVIOUS
    <2>1. p \in Nat /\ q \in Nat /\ key[p] \in Nat /\ key[q] \in Nat
      OBVIOUS
    <2>2. Place(S, key, p) \in Nat /\ Place(S, key, q) \in Nat
      BY <1>1, <1>3
    <2>3. Precedes(key, p, q) \/ Precedes(key, q, p)
      BY <2>1 DEF Precedes
    <2>4. QED BY <2>2, <2>3, <1>4
  <1>6. place \in [S -> 1..N]
    BY <1>3
  <1>7. place \in Injection(S, 1..N)
    BY <1>5, <1>6 DEF Injection, IsInjective
  <1>8. IsFiniteSet(1..N) /\ Cardinality(1..N) = N
    BY <1>1, FS_Interval
  <1>9. place \in Surjection(S, 1..N)
    BY <1>7, <1>8, FS_Injection
  <1>10. \A k \in 1..N : \E p \in S : Place(S, key, p) = k
    BY <1>9 DEF Surjection
  <1>11. \A k \in 1..N : sorted[k] \in S /\ Place(S, key, sorted[k]) = k
    BY <1>10 DEF HighestFirst
  <1>12. \A p \in S : Place(S, key, p) \in 1..N /\ sorted[Place(S, key, p)] = p
    BY <1>3, <1>5, <1>11
  <1>13. DOMAIN sorted = 1..N
    BY DEF HighestFirst
  <1> HIDE DEF sorted
  <1>14. Range(sorted) = S
    BY <1>11, <1>12, <1>13 DEF Range
  <1>15. QED BY <1>14 DEF sorted

\* What is left of a list are the entries at the positions that are kept, and all
\* of them.
LEMMA EntriesAtLists ==
    ASSUME NEW s, NEW S, S \subseteq Nat, IsFiniteSet(S)
    PROVE  /\ EntriesAt(s, S) \in Seq({s[i] : i \in S})
           /\ Len(EntriesAt(s, S)) = Cardinality(S)
           /\ Range(EntriesAt(s, S)) = {s[i] : i \in S}
  <1> DEFINE at == Ascending(S)
             kept == EntriesAt(s, S)
             N == Cardinality(S)
  <1>1. /\ N \in Nat /\ DOMAIN at = 1..N
        /\ \A k \in 1..N : at[k] \in S
        /\ \A p \in S : \E k \in 1..N : at[k] = p
    BY AscendingLists
  <1>2. DOMAIN kept = 1..N /\ \A k \in 1..N : kept[k] = s[at[k]]
    BY <1>1 DEF EntriesAt
  <1>3. kept = [k \in 1..N |-> kept[k]]
    BY <1>1 DEF EntriesAt
  <1> HIDE DEF at, kept, N
  <1>4. \A k \in 1..N : kept[k] \in {s[i] : i \in S}
    BY <1>1, <1>2
  <1>5. kept \in [1..N -> {s[i] : i \in S}]
    BY <1>3, <1>4
  <1>6. kept \in Seq({s[i] : i \in S}) /\ Len(kept) = N
    BY <1>1, <1>5
  <1>7. \A i \in S : \E k \in 1..N : kept[k] = s[i]
    BY <1>1, <1>2
  <1>8. Range(kept) = {s[i] : i \in S}
    BY <1>2, <1>4, <1>7 DEF Range
  <1>9. QED BY <1>6, <1>8 DEF kept, N

\* Every key that occurs has a first position.
LEMMA FirstAtHas ==
    ASSUME NEW S, S \subseteq Nat, NEW key, NEW i \in S
    PROVE  \E f \in FirstAt(S, key) : key[f] = key[i]
  <1> DEFINE same == {j \in S : key[j] = key[i]}
  <1>1. PICK f \in same : \A j \in same : f <= j
    <2>1. i \in same /\ same \subseteq Nat
      OBVIOUS
    <2> HIDE DEF same
    <2>2. QED BY <2>1, LeastOf
  <1>2. ASSUME NEW j \in S, j < f PROVE key[j] # key[f]
    <2>1. f \in Nat /\ j \in Nat
      OBVIOUS
    <2>2. j \notin same
      BY <1>1, <1>2, <2>1
    <2>3. QED BY <2>2
  <1>3. QED BY <1>2 DEF FirstAt

\* A recursion over 0..n, and its solutions within a set.
Unfolds(F, n, v0, next) == F[0] = v0 /\ \A k \in 1..n : F[k] = next[k][F[k - 1]]
Solvable(n, V, v0, next) == \E F \in [0..n -> V] : Unfolds(F, n, v0, next)

\* A recursion that stays within a set has a solution.
LEMMA RecursionExists ==
    ASSUME NEW n \in Nat, NEW V, NEW v0 \in V, NEW next \in [1..n -> [V -> V]]
    PROVE  Solvable(n, V, v0, next)
  <1> DEFINE Solves(F, m) == Unfolds(F, m, v0, next)
             unsolved == {m \in 0..n : ~ \E F \in [0..m -> V] : Solves(F, m)}
  <1>1. unsolved = {}
    <2> SUFFICES ASSUME unsolved # {} PROVE FALSE
      OBVIOUS
    <2>1. PICK m \in unsolved : \A x \in unsolved : m <= x
      <3>1. unsolved \subseteq Nat
        OBVIOUS
      <3> HIDE DEF unsolved
      <3>2. QED BY <3>1, LeastOf
    <2>2. m # 0
      <3>1. SUFFICES ASSUME m = 0 PROVE FALSE
        OBVIOUS
      <3> DEFINE F == [k \in 0..0 |-> v0]
      <3>2. F \in [0..m -> V] /\ F[0] = v0 /\ 1..m = {}
        BY <3>1
      <3>3. QED BY <3>2 DEF Unfolds
    <2>3. m - 1 \in 0..n /\ m \in 1..n /\ m \in Nat /\ m - 1 \notin unsolved
      <3> HIDE DEF Solves
      <3>1. m \in 0..n
        OBVIOUS
      <3>2. m - 1 \in 0..n /\ m \in 1..n /\ m \in Nat /\ m - 1 < m
        BY <2>2, <3>1
      <3> HIDE DEF unsolved
      <3>3. QED BY <2>1, <3>2
    <2>4. PICK F \in [0..(m - 1) -> V] : Solves(F, m - 1)
      BY <2>3
    <2> USE DEF Unfolds
    <2> DEFINE G == [k \in 0..m |-> IF k = m THEN next[m][F[m - 1]] ELSE F[k]]
    <2>5. G \in [0..m -> V]
      <3>1. F[m - 1] \in V
        BY <2>3
      <3>2. next[m][F[m - 1]] \in V
        BY <2>3, <3>1
      <3>3. \A k \in 0..m : k # m => F[k] \in V
        BY <2>3
      <3>4. QED BY <3>2, <3>3
    <2>6. Solves(G, m)
      <3>1. G[0] = v0
        BY <2>2, <2>3, <2>4
      <3>2. ASSUME NEW k \in 1..m PROVE G[k] = next[k][G[k - 1]]
        <4>1. k - 1 \in 0..m /\ k - 1 # m /\ k \in 0..m
          BY <2>3
        <4>2. G[k - 1] = F[k - 1]
          BY <4>1
        <4>3. CASE k = m
          BY <4>1, <4>2, <4>3
        <4>4. CASE k # m
          <5>1. k \in 1..(m - 1) /\ G[k] = F[k]
            BY <2>3, <4>1, <4>4
          <5>2. QED BY <2>4, <4>2, <5>1
        <4>5. QED BY <4>3, <4>4
      <3>3. QED BY <3>1, <3>2
    <2>7. QED BY <2>1, <2>5, <2>6
  <1>2. PICK F \in [0..n -> V] : Solves(F, n)
    <2> HIDE DEF Solves
    <2>1. n \in 0..n
      OBVIOUS
    <2>2. \E F \in [0..n -> V] : Solves(F, n)
      BY <1>1, <2>1
    <2>3. QED BY <2>2
  <1>3. QED BY <1>2 DEF Solvable
===========================================================================
