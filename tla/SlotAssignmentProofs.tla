------------------------ MODULE SlotAssignmentProofs ------------------------
(***************************************************************************)
(* What the assignment of slots guarantees, for any number of slots and    *)
(* publishers.                                                             *)
(***************************************************************************)
EXTENDS SlotAssignment, FiniteSetTheorems, TLAPS

\* A granted publisher is eligible, its slot was free, and their ranks agree.
LEMMA GrantMatches ==
    ASSUME NEW free, NEW at, NEW eligible, NEW order, NEW slot,
           Grant(free, at, eligible, order, slot) # None
    PROVE  Matches(free, at, eligible, order, slot,
                   Grant(free, at, eligible, order, slot))
BY DEF Grant, Matches

\* In a finite set whose keys differ, no two members have the same rank.
LEMMA RankInjective ==
    ASSUME NEW S, IsFiniteSet(S), NEW key,
           \A z \in S : key[z] \in Nat,
           NEW x \in S, NEW y \in S, key[x] < key[y]
    PROVE  Rank(S, key, x) < Rank(S, key, y)
<1> DEFINE bx == Before(S, key, x)
           by == Before(S, key, y)
<1>1. bx \subseteq by
  BY DEF Before
<1>2. x \in by /\ x \notin bx
  BY DEF Before
<1>3. IsFiniteSet(bx) /\ IsFiniteSet(by)
  BY FS_Subset DEF Before
<1>4. Cardinality(bx) <= Cardinality(by) /\ Cardinality(bx) # Cardinality(by)
  BY <1>1, <1>2, <1>3, FS_Subset
<1>5. Cardinality(bx) \in Nat /\ Cardinality(by) \in Nat
  BY <1>3, FS_CardinalityType
<1> QED
  BY <1>4, <1>5 DEF Rank

(***************************************************************************)
(* assign_available_locked never gives one publisher two slots of the same *)
(* subscriber.                                                             *)
(***************************************************************************)
THEOREM GrantInjective ==
    ASSUME NEW free, IsFiniteSet(free), NEW at, NEW eligible, NEW order,
           \A s \in free : at[s] \in Nat,
           \A s, r \in free : at[s] = at[r] => s = r,
           NEW x, NEW y, x # y,
           Grant(free, at, eligible, order, x) # None
    PROVE  Grant(free, at, eligible, order, x) # Grant(free, at, eligible, order, y)
<1> SUFFICES ASSUME Grant(free, at, eligible, order, x)
                      = Grant(free, at, eligible, order, y)
             PROVE  FALSE
  OBVIOUS
<1>1. /\ x \in free /\ y \in free
      /\ Rank(free, at, x) = Rank(free, at, y)
  BY GrantMatches DEF Matches
<1>2. at[x] \in Nat /\ at[y] \in Nat /\ at[x] # at[y]
  BY <1>1
<1>3. CASE at[x] < at[y]
  <2>1. Rank(free, at, x) < Rank(free, at, y)
    BY <1>1, <1>3, RankInjective
  <2>2. Rank(free, at, x) \in Nat
    BY FS_Subset, FS_CardinalityType DEF Rank, Before
  <2> QED
    BY <1>1, <2>1, <2>2
<1>4. CASE at[y] < at[x]
  <2>1. Rank(free, at, y) < Rank(free, at, x)
    BY <1>1, <1>4, RankInjective
  <2>2. Rank(free, at, y) \in Nat
    BY FS_Subset, FS_CardinalityType DEF Rank, Before
  <2> QED
    BY <1>1, <2>1, <2>2
<1> QED
  BY <1>2, <1>3, <1>4

\* The ranks in a finite set are exactly the numbers below its cardinality.
LEMMA RankOnto ==
    ASSUME NEW S, IsFiniteSet(S), NEW key,
           \A z \in S : key[z] \in Nat,
           \A y, z \in S : key[y] = key[z] => y = z
    PROVE  /\ Cardinality(S) \in Nat
           /\ \A x \in S : Rank(S, key, x) \in 0 .. (Cardinality(S) - 1)
           /\ \A n \in 0 .. (Cardinality(S) - 1) : \E x \in S : Rank(S, key, x) = n
<1> DEFINE k == Cardinality(S)
           ranks == 0 .. (k - 1)
           f == [x \in S |-> Rank(S, key, x)]
<1>1. k \in Nat
  BY FS_CardinalityType
<1>2. ASSUME NEW x \in S
      PROVE  Rank(S, key, x) \in ranks
  <2>1. Before(S, key, x) \in SUBSET S /\ Before(S, key, x) # S
    BY DEF Before
  <2>2. /\ IsFiniteSet(Before(S, key, x))
        /\ Rank(S, key, x) <= k
        /\ Rank(S, key, x) # k
    BY <2>1, FS_Subset DEF Rank
  <2>3. Rank(S, key, x) \in Nat
    BY <2>2, FS_CardinalityType DEF Rank
  <2> QED
    BY <1>1, <2>2, <2>3
<1>3. ASSUME NEW x \in S, NEW y \in S, x # y
      PROVE  Rank(S, key, x) # Rank(S, key, y)
  <2>1. key[x] < key[y] \/ key[y] < key[x]
    BY <1>3
  <2>2. Rank(S, key, x) < Rank(S, key, y) \/ Rank(S, key, y) < Rank(S, key, x)
    BY <2>1, RankInjective
  <2> QED
    BY <1>1, <1>2, <2>2
<1>4. f \in Injection(S, ranks)
  BY <1>2, <1>3 DEF Injection, IsInjective
<1>5. IsFiniteSet(ranks) /\ Cardinality(ranks) = k
  BY <1>1, FS_Interval
<1>6. f \in Surjection(S, ranks)
  <2> HIDE DEF f, ranks
  <2> QED BY <1>4, <1>5, FS_Injection
<1>7. \A n \in ranks : \E x \in S : Rank(S, key, x) = n
  BY <1>6 DEF Surjection
<1> QED
  BY <1>1, <1>2, <1>7

(***************************************************************************)
(* assign_available_locked leaves a slot empty only when every publisher   *)
(* that needed one has got one.                                            *)
(***************************************************************************)
THEOREM GrantMaximal ==
    ASSUME NEW free, IsFiniteSet(free), NEW at,
           \A s \in free : at[s] \in Nat,
           \A s, r \in free : at[s] = at[r] => s = r,
           NEW eligible, IsFiniteSet(eligible), None \notin eligible, NEW order,
           \A p \in eligible : order[p] \in Nat,
           \A p, q \in eligible : order[p] = order[q] => p = q,
           NEW s \in free, Grant(free, at, eligible, order, s) = None,
           NEW p \in eligible
    PROVE  \E r \in free : Grant(free, at, eligible, order, r) = p
<1> DEFINE n == Cardinality(free)
           k == Cardinality(eligible)
<1>1. /\ n \in Nat
      /\ Rank(free, at, s) \in 0 .. (n - 1)
      /\ \A i \in 0 .. (n - 1) : \E x \in free : Rank(free, at, x) = i
  BY RankOnto
<1>2. /\ k \in Nat
      /\ Rank(eligible, order, p) \in 0 .. (k - 1)
      /\ \A i \in 0 .. (k - 1) : \E x \in eligible : Rank(eligible, order, x) = i
  BY RankOnto
<1>3. Rank(free, at, s) \notin 0 .. (k - 1)
  <2> SUFFICES ASSUME Rank(free, at, s) \in 0 .. (k - 1) PROVE FALSE
    OBVIOUS
  <2>1. \E x \in eligible : Matches(free, at, eligible, order, s, x)
    BY <1>2 DEF Matches
  <2>2. Grant(free, at, eligible, order, s) \in eligible
    BY <2>1 DEF Grant
  <2> QED
    BY <2>2
<1>4. Rank(eligible, order, p) \in 0 .. (n - 1)
  BY <1>1, <1>2, <1>3
<1>5. PICK r \in free : Rank(free, at, r) = Rank(eligible, order, p)
  BY <1>1, <1>4
<1>6. Matches(free, at, eligible, order, r, p)
  BY <1>5 DEF Matches
<1>7. ASSUME NEW q \in eligible, Matches(free, at, eligible, order, r, q)
      PROVE  q = p
  <2> SUFFICES ASSUME q # p PROVE FALSE
    OBVIOUS
  <2>1. Rank(eligible, order, q) = Rank(eligible, order, p)
    BY <1>5, <1>7 DEF Matches
  <2>2. order[q] < order[p] \/ order[p] < order[q]
    OBVIOUS
  <2>3. \/ Rank(eligible, order, q) < Rank(eligible, order, p)
        \/ Rank(eligible, order, p) < Rank(eligible, order, q)
    BY <2>2, RankInjective
  <2> QED
    BY <1>2, <2>1, <2>3
<1>8. Grant(free, at, eligible, order, r) = p
  BY <1>6, <1>7 DEF Grant
<1> QED
  BY <1>8
=============================================================================
