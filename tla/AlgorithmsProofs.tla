-------------------------- MODULE AlgorithmsProofs --------------------------
(***************************************************************************)
(* Proofs about Answering: for any items, vectors, edges and limits, and   *)
(* whatever the models answer, what a question finds, how what it finds is *)
(* fused, and what its answer is made from; about Adrs: for any files,     *)
(* edits and syncs, which statuses decision records show; and about        *)
(* Extraction: for any text and any limits, what is lost of it.            *)
(***************************************************************************)
EXTENDS Answering, Adrs, Extraction, FiniteSetTheorems, SequenceTheorems, WellFoundedInduction, TLAPS

-----------------------------------------------------------------------------
(* Sequences.                                                              *)

\* A set of numbers has a least one.
LEMMA Least ==
  ASSUME NEW T \in SUBSET Nat, T # {}
  PROVE  \E m \in T : \A n \in T : m <= n
<1>1. IsWellFoundedOn(OpToRel(<, Nat), Nat)
  BY NatLessThanWellFounded
<1>2. PICK m \in T : \A n \in T : ~(<<n, m>> \in OpToRel(<, Nat))
  BY <1>1, WFMin
<1>3. \A n \in T : n \in Nat /\ ~(n < m)
  BY <1>2 DEF OpToRel
<1> QED BY <1>3

\* What Sorted arranges S by.
Before(x, y, weight) == weight[x] > weight[y] \/ (weight[x] = weight[y] /\ x < y)

\* An element's place is one more than how many come before it, so that every element of a
\* finite set has a place of its own, and every place an element.
LEMMA SortedFacts ==
  ASSUME NEW S \in SUBSET Int, IsFiniteSet(S), NEW weight, \A x \in S : weight[x] \in Int
  PROVE  LET q == Sorted(S, weight) IN
         /\ q \in [1..Cardinality(S) -> S]
         /\ Cardinality(S) \in Nat
         /\ \A m, n \in 1..Cardinality(S) : m < n => Before(q[m], q[n], weight)
         /\ \A x \in S : \E n \in 1..Cardinality(S) : q[n] = x
<1> DEFINE Below(x) == {y \in S : Before(y, x, weight)}
           rank == [x \in S |-> Cardinality(Below(x))]
           r == [x \in S |-> rank[x] + 1]
           q == Sorted(S, weight)
<1>1. Cardinality(S) \in Nat
  BY FS_CardinalityType
<1>2. \A x \in S : x \in Int /\ weight[x] \in Int
  OBVIOUS
<1>3. ASSUME NEW x \in S
      PROVE  IsFiniteSet(Below(x)) /\ rank[x] \in Nat /\ rank[x] < Cardinality(S)
  <2>1. Below(x) \in SUBSET S /\ x \notin Below(x)
    BY <1>2 DEF Before
  <2> HIDE DEF Below
  <2>2. IsFiniteSet(Below(x)) /\ rank[x] <= Cardinality(S) /\ rank[x] # Cardinality(S)
    BY <2>1, FS_Subset
  <2> QED BY <1>1, <2>2, FS_CardinalityType
<1>4. ASSUME NEW x \in S, NEW y \in S, Before(x, y, weight)
      PROVE  rank[x] < rank[y]
  <2>1. \A z \in S : Before(z, x, weight) => Before(z, y, weight)
    BY <1>2, <1>4 DEF Before
  <2>2. ~ Before(x, x, weight)
    BY <1>2 DEF Before
  <2>3. Below(x) \in SUBSET Below(y) /\ Below(x) # Below(y)
    BY <1>4, <2>1, <2>2
  <2>4. IsFiniteSet(Below(y)) /\ rank[x] = Cardinality(Below(x)) /\ rank[y] = Cardinality(Below(y))
        /\ rank[x] \in Nat /\ rank[y] \in Nat
    BY <1>3
  <2> HIDE DEF Below, rank
  <2> QED BY <2>3, <2>4, FS_Subset
<1>5. ASSUME NEW x \in S, NEW y \in S, x # y
      PROVE  Before(x, y, weight) \/ Before(y, x, weight)
  BY <1>2, <1>5 DEF Before
<1>6. q = [n \in 1..Cardinality(S) |-> CHOOSE x \in S : Cardinality(Below(x)) = n - 1]
  BY DEF Sorted, Before
<1>a. \A x \in S : rank[x] = Cardinality(Below(x))
  OBVIOUS
<1> HIDE DEF rank, q, Below
<1>7. \A x \in S : rank[x] \in Nat /\ rank[x] < Cardinality(S)
  BY <1>3
<1>8. ASSUME NEW x \in S, NEW y \in S, rank[x] = rank[y]
      PROVE  x = y
  BY <1>4, <1>5, <1>7, <1>8
<1>9. r \in Injection(S, 1..Cardinality(S))
  <2>1. r \in [S -> 1..Cardinality(S)]
    BY <1>1, <1>7
  <2>2. \A x, y \in S : r[x] = r[y] => x = y
    BY <1>7, <1>8
  <2> HIDE DEF r
  <2> QED BY <2>1, <2>2 DEF Injection, IsInjective
<1>10. r \in Surjection(S, 1..Cardinality(S))
  <2>1. IsFiniteSet(1..Cardinality(S)) /\ Cardinality(1..Cardinality(S)) = Cardinality(S)
    BY <1>1, FS_Interval
  <2> HIDE DEF r
  <2> QED BY <1>9, <2>1, FS_Injection
<1>11. ASSUME NEW n \in 1..Cardinality(S)
       PROVE  \E x \in S : rank[x] = n - 1
  <2>1. PICK x \in S : r[x] = n
    BY <1>10 DEF Surjection
  <2> QED BY <1>7, <2>1
<1>12. \A n \in 1..Cardinality(S) : q[n] \in S /\ rank[q[n]] = n - 1
  <2> SUFFICES ASSUME NEW n \in 1..Cardinality(S) PROVE q[n] \in S /\ rank[q[n]] = n - 1
    OBVIOUS
  <2>1. q[n] = CHOOSE x \in S : Cardinality(Below(x)) = n - 1
    BY <1>6
  <2>2. \E x \in S : Cardinality(Below(x)) = n - 1
    BY <1>11, <1>a
  <2> QED BY <1>a, <2>1, <2>2
<1>13. q \in [1..Cardinality(S) -> S]
  BY <1>6, <1>12
<1>14. ASSUME NEW m \in 1..Cardinality(S), NEW n \in 1..Cardinality(S), m < n
       PROVE  Before(q[m], q[n], weight)
  <2>1. q[m] \in S /\ q[n] \in S /\ rank[q[m]] = m - 1 /\ rank[q[n]] = n - 1
    BY <1>12
  <2>2. ~ (rank[q[n]] < rank[q[m]]) /\ rank[q[m]] # rank[q[n]]
    BY <1>1, <1>14, <2>1
  <2> QED BY <1>4, <1>5, <2>1, <2>2
<1>15. ASSUME NEW x \in S
       PROVE  \E n \in 1..Cardinality(S) : q[n] = x
  <2>1. rank[x] + 1 \in 1..Cardinality(S) /\ (rank[x] + 1) - 1 = rank[x]
    BY <1>1, <1>7
  <2>2. rank[q[rank[x] + 1]] = rank[x] /\ q[rank[x] + 1] \in S
    BY <1>12, <2>1
  <2> QED BY <1>8, <2>1, <2>2
<1> QED BY <1>1, <1>13, <1>14, <1>15 DEF q

LEMMA Bounded ==
  ASSUME NEW T, NEW top \in Nat, NEW s \in BoundedSeq(T, top)
  PROVE  s \in Seq(T)
<1>1. PICK m \in 0..top : s \in [1..m -> T]
  BY DEF BoundedSeq, SeqOf
<1>2. m \in Nat
  OBVIOUS
<1> QED BY <1>1, <1>2

\* A sequence is one of whatever its elements are.
LEMMA Retyped ==
  ASSUME NEW A, NEW B, NEW s \in Seq(A), NEW k \in Nat, Len(s) = k, \A n \in 1..k : s[n] \in B
  PROVE  s \in Seq(B)
OBVIOUS

\* The first k elements are those of the first k places.
LEMMA FirstFacts ==
  ASSUME NEW T, NEW s \in Seq(T), NEW k \in Nat
  PROVE  LET q == First(s, k) IN
         /\ q \in Seq(T) /\ Len(q) = IF Len(s) < k THEN Len(s) ELSE k
         /\ \A n \in 1..Len(q) : q[n] = s[n]
         /\ DOMAIN q = 1..Len(q)
BY DEF First

\* Numbers in their own order.
LEMMA InOrderFacts ==
  ASSUME NEW S \in SUBSET Int, IsFiniteSet(S)
  PROVE  /\ InOrder(S) \in [1..Cardinality(S) -> S]
         /\ Cardinality(S) \in Nat
         /\ \A m, n \in 1..Cardinality(S) : m < n => InOrder(S)[m] < InOrder(S)[n]
         /\ \A x \in S : \E n \in 1..Cardinality(S) : InOrder(S)[n] = x
<1> DEFINE level == [n \in S |-> 0]
           c == Cardinality(S)
           order == InOrder(S)
<1>1. \A n \in S : level[n] = 0 /\ level[n] \in Int
  OBVIOUS
<1>2. order = Sorted(S, level)
  BY DEF InOrder
<1> HIDE DEF level, order
<1>3. /\ order \in [1..c -> S] /\ c \in Nat
      /\ \A m, n \in 1..c : m < n => Before(order[m], order[n], level)
      /\ \A x \in S : \E n \in 1..c : order[n] = x
  BY <1>1, <1>2, SortedFacts
<1> HIDE DEF c
<1>4. ASSUME NEW m \in 1..c, NEW n \in 1..c, m < n PROVE order[m] < order[n]
  <2>1. level[order[m]] = 0 /\ level[order[n]] = 0 /\ Before(order[m], order[n], level)
    BY <1>1, <1>3, <1>4
  <2> QED BY <2>1 DEF Before
<1> QED BY <1>3, <1>4 DEF c, order

\* What is at some places of a sequence comes in the order of the places.
LEMMA AtFacts ==
  ASSUME NEW T, NEW s \in Seq(T), NEW places \in SUBSET DOMAIN s
  PROVE  /\ At(s, places) \in Seq(T) /\ Len(At(s, places)) = Cardinality(places)
         /\ Cardinality(places) \in Nat
         /\ \E order \in [1..Cardinality(places) -> places] :
              /\ \A n \in 1..Cardinality(places) : At(s, places)[n] = s[order[n]]
              /\ \A m, n \in 1..Cardinality(places) : m < n => order[m] < order[n]
              /\ \A p \in places : \E n \in 1..Cardinality(places) : order[n] = p
<1> DEFINE order == InOrder(places)
           c == Cardinality(places)
<1>1. IsFiniteSet(places) /\ places \in SUBSET Int
  <2>1. IsFiniteSet(1..Len(s))
    BY FS_Interval
  <2> QED BY <2>1, FS_Subset
<1>2. At(s, places) = [n \in DOMAIN order |-> s[order[n]]]
  BY DEF At
<1>3. /\ order \in [1..c -> places] /\ c \in Nat
      /\ \A m, n \in 1..c : m < n => order[m] < order[n]
      /\ \A x \in places : \E n \in 1..c : order[n] = x
  BY <1>1, InOrderFacts
<1> HIDE DEF order, c
<1>4. /\ At(s, places) \in Seq(T) /\ Len(At(s, places)) = c
      /\ \A n \in 1..c : At(s, places)[n] = s[order[n]]
  BY <1>2, <1>3
<1> QED BY <1>3, <1>4 DEF c

\* So it has the same elements.
LEMMA AtElements ==
  ASSUME NEW T, NEW s \in Seq(T), NEW places \in SUBSET DOMAIN s
  PROVE  ToSet(At(s, places)) = {s[p] : p \in places}
<1>1. PICK order \in [1..Cardinality(places) -> places] :
        /\ \A n \in 1..Cardinality(places) : At(s, places)[n] = s[order[n]]
        /\ \A p \in places : \E n \in 1..Cardinality(places) : order[n] = p
  BY AtFacts
<1>2. DOMAIN At(s, places) = 1..Cardinality(places)
  BY AtFacts
<1> QED BY <1>1, <1>2 DEF ToSet

\* Places without a gap at the start are their own order.
LEMMA AtStart ==
  ASSUME NEW T, NEW s \in Seq(T), NEW places \in SUBSET DOMAIN s,
         NEW m \in Nat, 1..m \subseteq places
  PROVE  m <= Len(At(s, places)) /\ \A n \in 1..m : At(s, places)[n] = s[n]
<1> DEFINE c == Cardinality(places)
<1>1. PICK order \in [1..c -> places] :
        /\ \A n \in 1..c : At(s, places)[n] = s[order[n]]
        /\ \A i, j \in 1..c : i < j => order[i] < order[j]
        /\ \A p \in places : \E n \in 1..c : order[n] = p
  BY AtFacts
<1>2. c \in Nat /\ Len(At(s, places)) = c
  BY AtFacts
<1> HIDE DEF c
<1> DEFINE T1 == {n \in Nat : n \in 1..m /\ ~ (n <= c /\ order[n] = n)}
<1>3. T1 = {}
  <2> SUFFICES ASSUME T1 # {} PROVE FALSE
    OBVIOUS
  <2>1. PICK n \in T1 : \A k \in T1 : n <= k
    <3>1. T1 \in SUBSET Nat
      OBVIOUS
    <3> HIDE DEF T1
    <3> QED BY <3>1, Least
  <2>2. PICK k \in 1..c : order[k] = n
    BY <1>1, <2>1
  <2>3. \A j \in 1..(n - 1) : j <= c /\ order[j] = j
    BY <2>1
  <2>4. ~ (k < n)
    BY <1>2, <2>1, <2>2, <2>3
  <2>5. k # n
    BY <1>2, <2>1, <2>2
  <2>6. n \in 1..c /\ n < k /\ order[n] < n /\ order[n] \in 1..(n - 1)
    BY <1>1, <1>2, <2>1, <2>2, <2>4, <2>5
  <2>7. order[order[n]] = order[n] /\ order[n] < n /\ order[n] \in 1..c
    BY <1>2, <2>3, <2>6
  <2> QED BY <1>1, <1>2, <2>6, <2>7
<1>4. \A n \in 1..m : n <= c /\ order[n] = n
  BY <1>3
<1>5. m <= c
  BY <1>2, <1>4
<1>6. \A n \in 1..m : n \in 1..c
  BY <1>2, <1>4
<1> HIDE DEF T1
<1> QED BY <1>1, <1>2, <1>4, <1>5, <1>6

\* A sequence without repetitions has as many elements as places.
LEMMA DistinctCount ==
  ASSUME NEW T, NEW q \in Seq(T), \A m, n \in 1..Len(q) : q[m] = q[n] => m = n
  PROVE  IsFiniteSet(ToSet(q)) /\ Cardinality(ToSet(q)) = Len(q)
<1>1. q \in Bijection(1..Len(q), ToSet(q))
  <2>1. DOMAIN q = 1..Len(q) /\ q \in [1..Len(q) -> ToSet(q)]
    BY DEF ToSet
  <2> QED BY <2>1 DEF Bijection, Injection, IsInjective, Surjection, ToSet
<1>2. IsFiniteSet(1..Len(q)) /\ Cardinality(1..Len(q)) = Len(q)
  <2> DEFINE n == Len(q)
  <2>1. n \in Nat
    OBVIOUS
  <2> HIDE DEF n
  <2>2. IsFiniteSet(1..n) /\ Cardinality(1..n) = n
    BY <2>1, FS_Interval
  <2> QED BY <2>2 DEF n
<1> QED BY <1>1, <1>2, FS_Bijection DEF ExistsBijection

-----------------------------------------------------------------------------
(* Retrieval.                                                              *)

\* There are so many nodes, all of them numbers.
LEMMA Nodes ==
  /\ IsFiniteSet(Node) /\ IsFiniteSet(Item) /\ Item \in SUBSET Int /\ Node \in SUBSET Int
  /\ Cardinality(Node) \in Nat /\ Item \in SUBSET Node /\ Artifact \in SUBSET Node
<1>1. Item \in SUBSET Node /\ Artifact \in SUBSET Node
  BY DEF Node
<1> QED BY <1>1, NodeAssumption, FS_Subset, FS_CardinalityType

\* Whatever the index returns, a search returns the space's own nearest: if too few of them are
\* in what it returns, they are all compared, and if not, nothing it left out is nearer.
LEMMA NearestFacts ==
  ASSUME own \in SUBSET Item, NEW t \in Text, NEW k \in Nat \ {0}
  PROVE  LET q == Nearest(t, k) IN
         /\ q \in Seq(Live) /\ Cardinality(Live) \in Nat
         /\ Len(q) = IF Cardinality(Live) < k THEN Cardinality(Live) ELSE k
         /\ \A m, n \in 1..Len(q) : q[m] = q[n] => m = n
         /\ \A i \in ToSet(q), j \in Live \ ToSet(q) : Score[t][i] >= Score[t][j]
<1> DEFINE w == Score[t]
           all == Sorted(Item, w)
           mine == Sorted(Live, w)
           near == First(all, CandidateCount(k))
           P == {n \in DOMAIN near : near[n] \in Live}
           found == First(At(near, P), k)
<1>1. /\ Live \in SUBSET Item /\ IsFiniteSet(Live) /\ Live \in SUBSET Int
      /\ w \in [Item -> Int] /\ \A i \in Item : w[i] \in Int
  <2>1. Live \in SUBSET Item
    BY DEF Live
  <2>2. IsFiniteSet(Live)
    BY <2>1, Nodes, FS_Subset
  <2>3. w \in [Item -> 0..100]
    BY NodeAssumption
  <2> HIDE DEF w
  <2> QED BY <2>1, <2>2, <2>3, Nodes
<1>2. CandidateCount(k) \in Nat
  BY NodeAssumption DEF CandidateCount, Larger
<1>3. Nearest(t, k) = IF Len(found) >= k THEN found ELSE First(mine, k)
  BY DEF Nearest, Where
<1>b. w = Score[t]
  OBVIOUS
<1> HIDE DEF w
<1>a. ASSUME NEW x \in Item, NEW y \in Item, Before(x, y, w)
      PROVE  x # y /\ Score[t][x] >= Score[t][y]
  <2>1. w[x] \in Int /\ w[y] \in Int /\ x \in Int /\ y \in Int
    BY <1>1, Nodes
  <2> QED BY <1>a, <1>b, <2>1 DEF Before
<1>4. /\ all \in [1..Cardinality(Item) -> Item] /\ Cardinality(Item) \in Nat
      /\ \A m, n \in 1..Cardinality(Item) : m < n => Before(all[m], all[n], w)
      /\ \A x \in Item : \E n \in 1..Cardinality(Item) : all[n] = x
  BY <1>1, Nodes, SortedFacts
<1>5. /\ mine \in [1..Cardinality(Live) -> Live] /\ Cardinality(Live) \in Nat
      /\ \A m, n \in 1..Cardinality(Live) : m < n => Before(mine[m], mine[n], w)
      /\ \A x \in Live : \E n \in 1..Cardinality(Live) : mine[n] = x
  <2>1. \A x \in Live : w[x] \in Int
    BY <1>1
  <2> QED BY <1>1, <2>1, SortedFacts
<1> HIDE DEF all, mine
<1>6. CASE Len(found) >= k
  <2>1. near \in Seq(Item) /\ Len(near) <= Cardinality(Item) /\ Len(near) <= CandidateCount(k)
        /\ (Len(near) = Cardinality(Item) \/ Len(near) = CandidateCount(k))
        /\ (\A n \in 1..Len(near) : near[n] = all[n]) /\ DOMAIN near = 1..Len(near)
    <3>1. all \in Seq(Item) /\ Len(all) = Cardinality(Item)
      BY <1>4
    <3> QED BY <1>2, <1>4, <3>1, FirstFacts
  <2> HIDE DEF near
  <2>2. P \in SUBSET DOMAIN near
    OBVIOUS
  <2>3. PICK order \in [1..Cardinality(P) -> P] :
          /\ \A n \in 1..Cardinality(P) : At(near, P)[n] = near[order[n]]
          /\ \A m, n \in 1..Cardinality(P) : m < n => order[m] < order[n]
          /\ \A p \in P : \E n \in 1..Cardinality(P) : order[n] = p
    <3>1. near \in Seq(Item) /\ P \in SUBSET DOMAIN near
      BY <2>1
    <3> HIDE DEF P, found
    <3> QED BY SMTT(30), <3>1, AtFacts
  <2>4. At(near, P) \in Seq(Item) /\ Len(At(near, P)) = Cardinality(P) /\ Cardinality(P) \in Nat
    <3> HIDE DEF P
    <3> QED BY <2>1, <2>2, AtFacts
  <2>5. Len(found) = k /\ k <= Cardinality(P) /\ found \in Seq(Item)
        /\ (\A n \in 1..k : found[n] = At(near, P)[n]) /\ DOMAIN found = 1..k
    <3> HIDE DEF P
    <3> QED BY <1>6, <2>4, FirstFacts
  <2>6. \A n \in 1..k : /\ found[n] = all[order[n]] /\ order[n] \in P
                        /\ order[n] \in 1..Cardinality(Item) /\ order[n] <= CandidateCount(k)
                        /\ all[order[n]] \in Live
    <3> SUFFICES ASSUME NEW n \in 1..k
                 PROVE  /\ found[n] = all[order[n]] /\ order[n] \in P
                        /\ order[n] \in 1..Cardinality(Item) /\ order[n] <= CandidateCount(k)
                        /\ all[order[n]] \in Live
      OBVIOUS
    <3>1. n \in 1..Cardinality(P)
      BY <2>4, <2>5
    <3>2. found[n] = near[order[n]] /\ order[n] \in P
      BY <2>3, <2>5, <3>1
    <3>3. order[n] \in 1..Len(near) /\ near[order[n]] \in Live
      BY <2>1, <3>2
    <3> QED BY <1>2, <1>4, <2>1, <3>2, <3>3
  <2> HIDE DEF found
  <2>7. found \in Seq(Live)
    <3>1. \A n \in 1..k : found[n] \in Live
      BY <2>6
    <3> HIDE DEF P
    <3> QED BY <2>5, <3>1, Retyped
  <2>8. ASSUME NEW m \in 1..k, NEW n \in 1..k, m < n
        PROVE  found[m] # found[n]
    <3>1. order[m] < order[n]
      BY <2>3, <2>4, <2>5, <2>8
    <3>2. Before(all[order[m]], all[order[n]], w)
      BY <1>4, <2>6, <3>1
    <3>3. all[order[m]] \in Item /\ all[order[n]] \in Item
      BY <1>4, <2>6
    <3> QED BY <1>a, <2>6, <3>2, <3>3
  <2>9. \A m, n \in 1..Len(found) : found[m] = found[n] => m = n
    BY <2>5, <2>8
  <2>10. k <= Cardinality(Live)
    <3>1. ToSet(found) \in SUBSET Live
      BY <2>7 DEF ToSet
    <3>2. Cardinality(ToSet(found)) = k
      BY <2>5, <2>7, <2>9, DistinctCount
    <3> QED BY <1>1, <3>1, <3>2, FS_Subset
  <2>11. ASSUME NEW i \in ToSet(found), NEW j \in Live \ ToSet(found)
         PROVE  Score[t][i] >= Score[t][j]
    <3>1. PICK n \in 1..k : i = found[n]
      BY <2>5 DEF ToSet
    <3>2. PICK p \in 1..Cardinality(Item) : all[p] = j
      BY <1>1, <1>4
    <3>3. order[n] < p
      <4>1. CASE p \in P
        <5>1. PICK l \in 1..Cardinality(P) : order[l] = p
          BY <2>3, <4>1
        <5>2. l \notin 1..k
          BY <2>5, <2>6, <3>2, <5>1 DEF ToSet
        <5>3. n \in 1..Cardinality(P) /\ n < l
          BY <2>4, <2>5, <5>2
        <5> QED BY <2>3, <5>1, <5>3
      <4>2. CASE p \notin P
        <5>1. p \notin 1..Len(near)
          BY <2>1, <3>2, <4>2
        <5> QED BY <1>2, <1>4, <2>1, <2>6, <3>1, <5>1
      <4> QED BY <4>1, <4>2
    <3>4. Before(all[order[n]], all[p], w)
      BY <1>4, <2>6, <3>1, <3>2, <3>3
    <3>5. i \in Item /\ j \in Item /\ i = all[order[n]]
      BY <1>1, <1>4, <2>6, <3>1
    <3> QED BY <1>a, <3>2, <3>4, <3>5
  <2> QED BY <1>3, <1>5, <1>6, <2>5, <2>7, <2>9, <2>10, <2>11
<1>7. CASE ~ (Len(found) >= k)
  <2> DEFINE q == First(mine, k)
  <2>1. mine \in Seq(Live) /\ Len(mine) = Cardinality(Live)
    BY <1>5
  <2>2. /\ q \in Seq(Live) /\ Len(q) = IF Cardinality(Live) < k THEN Cardinality(Live) ELSE k
        /\ \A n \in 1..Len(q) : q[n] = mine[n]
        /\ DOMAIN q = 1..Len(q)
    <3>1. k \in Nat
      OBVIOUS
    <3> HIDE DEF near, P, found
    <3> QED BY <2>1, <3>1, FirstFacts
  <2>3. \A n \in 1..Len(q) : n \in 1..Cardinality(Live)
    BY <1>5, <2>2
  <2> HIDE DEF q
  <2>4. \A m, n \in 1..Cardinality(Live) : mine[m] = mine[n] => m = n
    <3> SUFFICES ASSUME NEW m \in 1..Cardinality(Live), NEW n \in 1..Cardinality(Live), m < n
                 PROVE  mine[m] # mine[n]
      BY <1>5
    <3>1. Before(mine[m], mine[n], w) /\ mine[m] \in Live
      BY <1>5
    <3> QED BY <1>1, <1>a, <3>1
  <2>5. ASSUME NEW i \in ToSet(q), NEW j \in Live \ ToSet(q)
        PROVE  Score[t][i] >= Score[t][j]
    <3>1. PICK m \in 1..Len(q) : i = mine[m]
      BY <2>2 DEF ToSet
    <3>2. PICK n \in 1..Cardinality(Live) : j = mine[n]
      BY <1>5
    <3>3. m < n
      BY SMTT(30), <1>5, <2>2, <2>3, <3>2 DEF ToSet
    <3>4. Before(i, j, w) /\ i \in Item /\ j \in Item
      BY <1>1, <1>5, <2>3, <3>1, <3>2, <3>3
    <3> QED BY <1>a, <3>4
  <2>6. Nearest(t, k) = q
    BY <1>3, <1>7 DEF q
  <2> QED BY <1>5, <2>2, <2>3, <2>4, <2>5, <2>6
<1> QED BY <1>6, <1>7

Hit == [id : Node, by : {"vector", "graph", "keyword"}, stale : BOOLEAN]

\* What may be used: the space's own, not rejected, and marked if something replaced it.
Usable(h) == h \in Hit /\ h.id \in Live \union Artifact /\ h.stale = Stale(h.id)

\* A ranked list of them, each once.
Ranking(l) ==
  /\ l \in Seq(Hit)
  /\ \A n \in 1..Len(l) : Usable(l[n])
  /\ \A m, n \in 1..Len(l) : l[m].id = l[n].id => m = n

LEMMA HitsFacts ==
  ASSUME own \in SUBSET Item, NEW ids \in Seq(Live), NEW by \in {"vector", "keyword"},
         \A m, n \in 1..Len(ids) : ids[m] = ids[n] => m = n
  PROVE  Ranking(Hits(ids, by)) /\ Len(Hits(ids, by)) = Len(ids)
<1>1. Live \subseteq Node
  BY Nodes DEF Live
<1>2. \A i : Stale(i) \in BOOLEAN
  BY DEF Stale
<1>3. Hits(ids, by) \in Seq(Hit) /\ Len(Hits(ids, by)) = Len(ids)
  <2> DEFINE H(n) == [id |-> ids[n], by |-> by, stale |-> Stale(ids[n])]
  <2>1. \A n \in 1..Len(ids) : H(n) \in Hit
    <3>1. \A n \in 1..Len(ids) : ids[n] \in Node
      BY <1>1
    <3> HIDE DEF Stale
    <3> QED BY <1>2, <3>1 DEF Hit
  <2>2. Hits(ids, by) = [n \in 1..Len(ids) |-> H(n)]
    BY DEF Hits
  <2> HIDE DEF H
  <2> QED BY <2>1, <2>2
<1>4. \A n \in 1..Len(ids) : Hits(ids, by)[n].id = ids[n] /\ Hits(ids, by)[n].stale = Stale(ids[n])
  BY DEF Hits
<1> QED BY <1>3, <1>4 DEF Ranking, Usable

\* A set of numbers up to some other has a greatest one.
LEMMA Greatest ==
  ASSUME NEW T \in SUBSET Nat, T # {}, NEW top \in Nat, \A n \in T : n <= top
  PROVE  \E m \in T : \A n \in T : m >= n
<1> DEFINE U == {top - n : n \in T}
<1>1. U \in SUBSET Nat /\ U # {}
  <2>1. \A n \in T : top - n \in Nat
    OBVIOUS
  <2>2. PICK n \in T : TRUE
    OBVIOUS
  <2>3. top - n \in U
    BY <2>2
  <2> QED BY <2>1, <2>3
<1>2. PICK u \in U : \A v \in U : u <= v
  <2> HIDE DEF U
  <2> QED BY <1>1, Least
<1>3. PICK m \in T : u = top - m
  BY <1>2
<1>4. \A n \in T : top - m <= top - n
  BY <1>2, <1>3
<1>5. \A n \in T : m >= n
  BY <1>4
<1> QED BY <1>5

\* The nearest and their neighbours: the nearest are all there, as hits of the vectors.
LEMMA RetrievedFacts ==
  ASSUME own \in SUBSET Item, NEW t \in Text, NEW k \in Nat \ {0}
  PROVE  LET l == Retrieved(t, k) IN
         /\ Ranking(l)
         /\ {h.id : h \in {g \in ToSet(l) : g.by = "vector"}} = ToSet(Nearest(t, k))
         /\ Live # {} => l # <<>>
<1> DEFINE l == Retrieved(t, k)
           seeds == ToSet(Nearest(t, k))
           around == Neighbours(seeds) \ seeds
           W(n) == Score[t][n] * 10
           all == seeds \union around
           best == CHOOSE b \in {W(s) : s \in seeds} : \A s \in seeds : b >= W(s)
           weight == [n \in all |-> IF n \in seeds THEN W(n) ELSE (best * 7) \div 10]
           order == Sorted(all, weight)
<1>1. /\ Nearest(t, k) \in Seq(Live) /\ Cardinality(Live) \in Nat
      /\ Len(Nearest(t, k)) = IF Cardinality(Live) < k THEN Cardinality(Live) ELSE k
  BY NearestFacts
<1>2. seeds \subseteq Live /\ Live \subseteq Item
  BY <1>1 DEF ToSet, Live
<1>3. Live # {} => seeds # {}
  <2> SUFFICES ASSUME Live # {} PROVE seeds # {}
    OBVIOUS
  <2>1. IsFiniteSet(Live)
    BY <1>2, Nodes, FS_Subset
  <2>2. Cardinality(Live) # 0
    BY <2>1, FS_EmptySet
  <2>3. 1 \in DOMAIN Nearest(t, k)
    BY <1>1, <2>2
  <2> QED BY <2>3 DEF ToSet
<1>4. l = IF seeds = {} THEN <<>>
          ELSE [n \in DOMAIN order |->
                 [id |-> order[n], by |-> IF order[n] \in seeds THEN "vector" ELSE "graph",
                  stale |-> Stale(order[n])]]
  BY DEF Retrieved
<1>5. CASE seeds = {}
  <2>1. l = <<>>
    BY <1>4, <1>5
  <2>2. Ranking(<<>>) /\ ToSet(<<>>) = {}
    BY DEF Ranking, ToSet
  <2> HIDE DEF l
  <2>3. {h.id : h \in {g \in ToSet(l) : g.by = "vector"}} = {}
    BY <2>1, <2>2
  <2> QED BY <1>3, <1>5, <2>1, <2>2, <2>3 DEF l
<1>6. CASE seeds # {}
  <2>1. all \subseteq Live \union Artifact /\ all \subseteq Node
    BY <1>2, Nodes DEF Neighbours
  <2>2. IsFiniteSet(all) /\ all \in SUBSET Int
    <3> HIDE DEF all
    <3> QED BY <2>1, Nodes, FS_Subset
  <2>3. \A s \in seeds : W(s) \in Nat /\ W(s) <= 1000
    <3>1. Score[t] \in [Item -> 0..100]
      BY NodeAssumption
    <3> HIDE DEF seeds
    <3> QED BY <1>2, <3>1
  <2>4. best \in Int
    <3> DEFINE T == {W(s) : s \in seeds}
    <3>1. T \in SUBSET Nat /\ T # {} /\ \A n \in T : n <= 1000
      BY <1>6, <2>3
    <3>2. \E m \in T : \A n \in T : m >= n
      <4>1. 1000 \in Nat
        OBVIOUS
      <4> HIDE DEF T
      <4> QED BY ZenonT(60), <3>1, <4>1, Greatest
    <3>3. \E m \in T : \A s \in seeds : m >= W(s)
      BY <3>2
    <3>4. best \in T
      <4> HIDE DEF W
      <4> QED BY <3>3
    <3> HIDE DEF T, best
    <3> QED BY <3>1, <3>4
  <2> HIDE DEF best
  <2>5. \A x \in all : weight[x] \in Int
    BY <2>3, <2>4
  <2> HIDE DEF weight, all, seeds
  <2>6. /\ order \in [1..Cardinality(all) -> all] /\ Cardinality(all) \in Nat
        /\ \A m, n \in 1..Cardinality(all) : m < n => Before(order[m], order[n], weight)
        /\ \A x \in all : \E n \in 1..Cardinality(all) : order[n] = x
    BY <2>2, <2>5, SortedFacts
  <2> HIDE DEF order
  <2> DEFINE c == Cardinality(all)
  <2>7. /\ l = [n \in 1..c |->
                 [id |-> order[n], by |-> IF order[n] \in seeds THEN "vector" ELSE "graph",
                  stale |-> Stale(order[n])]]
    BY <1>4, <1>6, <2>6
  <2> HIDE DEF l, c
  <2>8. Len(l) = c /\ DOMAIN l = 1..c /\ c \in Nat
        /\ \A n \in 1..c : /\ l[n].id = order[n] /\ l[n].stale = Stale(order[n])
                           /\ l[n].by = (IF order[n] \in seeds THEN "vector" ELSE "graph")
    BY <2>6, <2>7 DEF c
  <2>9. \A n \in 1..c : l[n] \in Hit /\ Usable(l[n])
    BY <2>1, <2>6, <2>7, <2>8 DEF Hit, Usable, Stale, c
  <2>10. \A m, n \in 1..c : order[m] = order[n] => m = n
    <3> SUFFICES ASSUME NEW m \in 1..c, NEW n \in 1..c, m < n PROVE order[m] # order[n]
      BY <2>8
    <3>1. Before(order[m], order[n], weight) /\ order[m] \in all
      BY <2>6 DEF c
    <3>2. \A x \in all : ~ Before(x, x, weight)
      BY <2>2, <2>5 DEF Before
    <3> QED BY <3>1, <3>2
  <2>11. Ranking(l)
    BY <2>7, <2>8, <2>9, <2>10 DEF Ranking
  <2>12. {h.id : h \in {g \in ToSet(l) : g.by = "vector"}} = seeds
    <3>1. ASSUME NEW i \in seeds
          PROVE  \E g \in ToSet(l) : g.by = "vector" /\ g.id = i
      <4>1. PICK n \in 1..c : order[n] = i
        BY <2>6 DEF c, all
      <4> QED BY <2>8, <4>1 DEF ToSet
    <3>2. \A g \in ToSet(l) : g.by = "vector" => g.id \in seeds
      BY <2>8 DEF ToSet
    <3> QED BY <3>1, <3>2
  <2>13. l # <<>>
    <3>1. PICK i \in seeds : \E n \in 1..c : order[n] = i
      BY <1>6, <2>6 DEF c, all
    <3> QED BY <2>8, <3>1
  <2> QED BY <2>11, <2>12, <2>13 DEF l, seeds
<1> QED BY <1>5, <1>6

-----------------------------------------------------------------------------
(* Fusion.                                                                 *)

\* The sums of the first m of some numbers.
Sums(s, part, m) ==
  /\ s \in [0..m -> Nat] /\ s[0] = 0
  /\ \A n \in 1..m : s[n] = s[n - 1] + part[n]

LEMMA SumsExist ==
  ASSUME NEW top \in Nat, NEW part \in [1..top -> Nat], NEW m \in 0..top
  PROVE  \E s : Sums(s, part, m)
<1> DEFINE T == {k \in Nat : k <= top /\ ~ \E s : Sums(s, part, k)}
<1> SUFFICES ASSUME T # {} PROVE FALSE
  <2>1. m \in Nat /\ m <= top
    OBVIOUS
  <2>2. m \notin T => \E s : Sums(s, part, m)
    BY <2>1
  <2> QED BY <2>2
<1>1. PICK k \in T : \A n \in T : k <= n
  <2>1. T \in SUBSET Nat
    OBVIOUS
  <2> HIDE DEF T
  <2> QED BY <2>1, Least
<1>2. CASE k = 0
  <2>1. Sums([n \in 0..0 |-> 0], part, 0)
    BY DEF Sums
  <2> QED BY <1>1, <1>2, <2>1
<1>3. CASE k # 0
  <2>1. k - 1 \in Nat /\ k - 1 \notin T /\ k \in 1..top
    BY <1>1, <1>3
  <2>2. PICK s : Sums(s, part, k - 1)
    BY <2>1
  <2> DEFINE r == [n \in 0..k |-> IF n = k THEN s[k - 1] + part[k] ELSE s[n]]
  <2>3. s[k - 1] + part[k] \in Nat
    BY <2>1, <2>2 DEF Sums
  <2>4. r \in [0..k -> Nat] /\ r[0] = 0
    BY <1>3, <2>1, <2>2, <2>3 DEF Sums
  <2>5. ASSUME NEW n \in 1..k PROVE r[n] = r[n - 1] + part[n]
    <3>1. CASE n = k
      BY <2>1, <3>1
    <3>2. CASE n # k
      <4>1. n \in 1..(k - 1) /\ r[n] = s[n] /\ r[n - 1] = s[n - 1]
        BY <2>1, <3>2
      <4> QED BY <2>2, <4>1 DEF Sums
    <3> QED BY <3>1, <3>2
  <2>6. Sums(r, part, k)
    <3> HIDE DEF r
    <3> QED BY <2>4, <2>5 DEF Sums
  <2> QED BY <1>1, <2>6
<1> QED BY <1>2, <1>3

Same(p, q, m) == \A n \in 1..m : p[n] = q[n]

\* Of numbers no greater than others, the sum is no greater, and equal only if they all are.
LEMMA SumsCompare ==
  ASSUME NEW m \in Nat, NEW p \in [1..m -> Nat], NEW q \in [1..m -> Nat],
         NEW s, NEW t, Sums(s, p, m), Sums(t, q, m), \A n \in 1..m : p[n] <= q[n]
  PROVE  s[m] <= t[m] /\ (s[m] = t[m] <=> Same(p, q, m))
<1> DEFINE Right(k) == s[k] <= t[k] /\ (s[k] = t[k] <=> \A n \in 1..k : p[n] = q[n])
           T == {k \in Nat : k <= m /\ ~ Right(k)}
<1>1. T = {}
  <2> SUFFICES ASSUME T # {} PROVE FALSE
    OBVIOUS
  <2>1. PICK k \in T : \A n \in T : k <= n
    <3>1. T \in SUBSET Nat
      OBVIOUS
    <3> HIDE DEF T
    <3> QED BY <3>1, Least
  <2>2. k # 0
    BY <2>1 DEF Sums
  <2>3. k - 1 \in Nat /\ k - 1 \notin T /\ k \in 1..m /\ k - 1 \in 0..m /\ k \in 0..m
    BY <2>1, <2>2
  <2>4. Right(k - 1)
    BY <2>3
  <2>5. s[k] = s[k - 1] + p[k] /\ t[k] = t[k - 1] + q[k] /\ p[k] <= q[k]
        /\ p[k] \in Nat /\ q[k] \in Nat /\ s[k - 1] \in Nat /\ t[k - 1] \in Nat
    BY <2>3 DEF Sums
  <2>6. s[k] <= t[k] /\ (s[k] = t[k] <=> s[k - 1] = t[k - 1] /\ p[k] = q[k])
    <3>1. s[k - 1] <= t[k - 1]
      BY <2>4
    <3> HIDE DEF Right, T
    <3> QED BY <2>5, <3>1
  <2>7. (\A n \in 1..k : p[n] = q[n]) <=> (\A n \in 1..(k - 1) : p[n] = q[n]) /\ p[k] = q[k]
    <3>1. \A n : n \in 1..k <=> n \in 1..(k - 1) \/ n = k
      BY <2>3
    <3> QED BY <3>1
  <2> QED BY <2>1, <2>4, <2>6, <2>7
<1>2. Right(m)
  <2>1. m \in Nat /\ m <= m
    OBVIOUS
  <2> HIDE DEF Right
  <2> QED BY <1>1, <2>1
<1> QED BY <1>2 DEF Same

\* Of the same number, they are its multiples.
LEMMA SumsOfSame ==
  ASSUME NEW m \in Nat, NEW c \in Nat
  PROVE  Sums([k \in 0..m |-> k * c], [n \in 1..m |-> c], m)
<1> DEFINE s == [k \in 0..m |-> k * c]
<1>1. \A k \in Nat : k * c \in Nat
  OBVIOUS
<1>2. s \in [0..m -> Nat] /\ s[0] = 0
  BY <1>1
<1>3. \A n \in 1..m : n - 1 \in 0..m /\ n * c = (n - 1) * c + c
  OBVIOUS
<1>4. \A n \in 1..m : s[n] = s[n - 1] + c
  BY <1>3
<1> QED BY <1>2, <1>4 DEF Sums

Parts(i) == [n \in 1..Len(lists) |-> ShareIn(lists[n], i)]

\* A node's share is the sum of those of its ranks.
LEMMA ShareIsSum ==
  ASSUME Len(lists) \in Nat, NEW i, Parts(i) \in [1..Len(lists) -> Nat]
  PROVE  \E s : Sums(s, Parts(i), Len(lists)) /\ Share(i) = s[Len(lists)]
<1> DEFINE m == Len(lists)
           F(f) == [n \in 0..m |-> IF n = 0 THEN 0 ELSE f[n - 1] + ShareIn(lists[n], i)]
           w == CHOOSE f : f = F(f)
<1>1. PICK s : Sums(s, Parts(i), m)
  <2>1. m \in 0..m
    OBVIOUS
  <2> QED BY <2>1, SumsExist
<1>2. s = F(s)
  <2>1. s = [n \in 0..m |-> s[n]]
    BY <1>1 DEF Sums
  <2>2. ASSUME NEW n \in 0..m
        PROVE  s[n] = IF n = 0 THEN 0 ELSE s[n - 1] + ShareIn(lists[n], i)
    <3>1. n # 0 => n \in 1..m
      OBVIOUS
    <3> QED BY <1>1, <3>1 DEF Sums, Parts
  <2> QED BY <2>1, <2>2
<1>3. w = F(w)
  <2> HIDE DEF F
  <2> QED BY <1>2
<1>4. Share(i) = w[m]
  BY DEF Share
<1>5. ASSUME NEW f, f = F(f), NEW n \in 0..m
      PROVE  f[n] = IF n = 0 THEN 0 ELSE f[n - 1] + ShareIn(lists[n], i)
  <2>1. F(f)[n] = IF n = 0 THEN 0 ELSE f[n - 1] + ShareIn(lists[n], i)
    OBVIOUS
  <2> HIDE DEF F
  <2> QED BY <1>5, <2>1
<1> HIDE DEF w, F
<1> DEFINE T == {k \in Nat : k <= m /\ w[k] # s[k]}
<1>6. T = {}
  <2> SUFFICES ASSUME T # {} PROVE FALSE
    OBVIOUS
  <2>1. PICK k \in T : \A n \in T : k <= n
    <3>1. T \in SUBSET Nat
      OBVIOUS
    <3> HIDE DEF T
    <3> QED BY <3>1, Least
  <2>2. k \in 0..m
    BY <2>1
  <2>3. CASE k = 0
    BY <1>2, <1>3, <1>5, <2>1, <2>2, <2>3
  <2>4. CASE k # 0
    <3>1. k - 1 \in Nat /\ k - 1 \notin T
      BY <2>1, <2>4
    <3>2. w[k - 1] = s[k - 1]
      BY <2>1, <3>1
    <3>3. w[k] = w[k - 1] + ShareIn(lists[k], i) /\ s[k] = s[k - 1] + ShareIn(lists[k], i)
      BY <1>2, <1>3, <1>5, <2>2, <2>4
    <3> QED BY <2>1, <3>2, <3>3
  <2> QED BY <2>3, <2>4
<1>7. w[m] = s[m]
  <2>1. m \in Nat /\ m <= m
    OBVIOUS
  <2> QED BY <1>6, <2>1
<1> QED BY <1>1, <1>4, <1>7

\* Shares grow as ranks fall.
LEMMA DivDown ==
  ASSUME NEW U \in Nat \ {0}, NEW a \in Nat \ {0}, NEW b \in Nat \ {0}, a < b,
         U % a = 0, U % b = 0
  PROVE  U \div a \in Nat /\ U \div b \in Nat /\ U \div b > 0 /\ U \div a > U \div b
<1> DEFINE x == U \div a
           y == U \div b
<1>1. x \in Int /\ y \in Int /\ U = a * x /\ U = b * y
  OBVIOUS
<1> HIDE DEF x, y
<1>2. x > 0 /\ y > 0
  BY <1>1
<1>3. b * y > a * y
  BY <1>1, <1>2
<1>4. a * x > a * y
  BY <1>1, <1>3
<1>5. x > y
  BY <1>1, <1>2, <1>4
<1> QED BY <1>1, <1>2, <1>5 DEF x, y

\* A node's rank in a ranking it is in, and the share that gives it.
LEMMA RankFacts ==
  ASSUME NEW l, Ranking(l), NEW i \in Ids(l)
  PROVE  /\ RankIn(l, i) \in 1..Len(l) /\ l[RankIn(l, i)].id = i
         /\ Len(l) \in Nat /\ Len(l) <= Cardinality(Node)
         /\ \A n \in 1..Len(l) : l[n].id = i => n = RankIn(l, i)
<1>1. l \in Seq(Hit) /\ Len(l) \in Nat /\ DOMAIN l = 1..Len(l)
      /\ \A m, n \in 1..Len(l) : l[m].id = l[n].id => m = n
  BY DEF Ranking
<1>2. \E n \in DOMAIN l : l[n].id = i
  BY DEF Ids, ToSet
<1>3. RankIn(l, i) \in DOMAIN l /\ l[RankIn(l, i)].id = i
  BY <1>2 DEF RankIn
<1>4. Len(l) <= Cardinality(Node)
  <2> DEFINE q == [n \in 1..Len(l) |-> l[n].id]
  <2>1. \A n \in 1..Len(l) : l[n].id \in Node
    <3>1. \A n \in 1..Len(l) : l[n] \in Hit
      BY <1>1
    <3>2. \A h \in Hit : h.id \in Node
      BY DEF Hit
    <3> QED BY <3>1, <3>2
  <2>2. q \in Seq(Node) /\ Len(q) = Len(l)
    BY <1>1, <2>1
  <2>3. \A m, n \in 1..Len(q) : q[m] = q[n] => m = n
    BY <1>1, <2>2
  <2> HIDE DEF q
  <2>4. ToSet(q) \in SUBSET Node
    BY <2>2 DEF ToSet
  <2>5. Cardinality(ToSet(q)) = Len(q)
    BY <2>2, <2>3, DistinctCount
  <2> QED BY <2>2, <2>4, <2>5, Nodes, FS_Subset
<1> QED BY <1>1, <1>3, <1>4

LEMMA ShareInFacts ==
  ASSUME NEW l, Ranking(l)
  PROVE  /\ Unit \div 61 \in Nat
         /\ \A i : ShareIn(l, i) \in Nat /\ ShareIn(l, i) <= Unit \div 61
         /\ \A i : i \notin Ids(l) => ShareIn(l, i) = 0
         /\ \A i \in Ids(l) : ShareIn(l, i) > 0
         /\ \A i \in Ids(l) : ShareIn(l, i) = Unit \div 61 <=> RankIn(l, i) = 1
         /\ \A i, j \in Ids(l) : RankIn(l, i) < RankIn(l, j) => ShareIn(l, i) > ShareIn(l, j)
<1> DEFINE N == Cardinality(Node)
<1>1. N \in Nat /\ Unit \in Nat \ {0}
      /\ \A n \in 1..N : Unit % (60 + n) = 0
  BY Nodes, NodeAssumption
<1>2. ASSUME NEW i \in Ids(l) PROVE RankIn(l, i) \in 1..N
  <2>1. RankIn(l, i) \in 1..Len(l) /\ Len(l) \in Nat /\ Len(l) <= N
    BY RankFacts
  <2> HIDE DEF N
  <2> QED BY <1>1, <2>1
<1> HIDE DEF N
<1>3. \A i \in Ids(l) : ShareIn(l, i) = Unit \div (60 + RankIn(l, i))
  BY DEF ShareIn
<1>4. ASSUME NEW m \in 1..N, NEW n \in 1..N, m < n
      PROVE  /\ Unit \div (60 + m) \in Nat /\ Unit \div (60 + n) \in Nat
             /\ Unit \div (60 + m) > Unit \div (60 + n) /\ Unit \div (60 + n) > 0
  <2>1. 60 + m \in Nat \ {0} /\ 60 + n \in Nat \ {0} /\ 60 + m < 60 + n
    BY <1>1, <1>4
  <2>2. Unit % (60 + m) = 0 /\ Unit % (60 + n) = 0
    BY <1>1
  <2> QED BY <1>1, <2>1, <2>2, DivDown
<1>5. Unit \div 61 \in Nat
  BY <1>1
<1>6. N >= 1 => Unit \div 61 > 0
  <2> SUFFICES ASSUME N >= 1 PROVE Unit \div 61 > 0
    OBVIOUS
  <2>1. Unit % (60 + 1) = 0
    BY <1>1
  <2> QED BY <1>1, <2>1
<1>7. \A i \in Ids(l) : RankIn(l, i) = 1 => ShareIn(l, i) = Unit \div 61
  BY <1>3
<1>8. \A i \in Ids(l) : RankIn(l, i) # 1 => ShareIn(l, i) \in Nat /\ ShareIn(l, i) < Unit \div 61
                                           /\ ShareIn(l, i) > 0
  <2> SUFFICES ASSUME NEW i \in Ids(l), RankIn(l, i) # 1
               PROVE  ShareIn(l, i) \in Nat /\ ShareIn(l, i) < Unit \div 61 /\ ShareIn(l, i) > 0
    OBVIOUS
  <2>1. 1 \in 1..N /\ RankIn(l, i) \in 1..N /\ 1 < RankIn(l, i) /\ 60 + 1 = 61
    BY <1>1, <1>2
  <2> QED BY <1>3, <1>4, <2>1
<1>9. \A i, j \in Ids(l) : RankIn(l, i) < RankIn(l, j) => ShareIn(l, i) > ShareIn(l, j)
  BY <1>2, <1>3, <1>4
<1>10. \A i : i \notin Ids(l) => ShareIn(l, i) = 0
  BY DEF ShareIn
<1>11. \A i \in Ids(l) : N >= 1
  BY <1>1, <1>2
<1> QED BY <1>5, <1>6, <1>7, <1>8, <1>9, <1>10, <1>11

\* What the lists of a question are: rankings, none of them empty.
ListsRight ==
  /\ lists \in Seq(Seq(Hit))
  /\ \A n \in 1..Len(lists) : Ranking(lists[n]) /\ lists[n] # <<>>

LEMMA ListFacts ==
  ASSUME ListsRight
  PROVE  /\ Len(lists) \in Nat /\ DOMAIN lists = 1..Len(lists)
         /\ \A l \in ToSet(lists) : \E n \in 1..Len(lists) : l = lists[n]
         /\ \A n \in 1..Len(lists) : lists[n] \in ToSet(lists) /\ Ranking(lists[n]) /\ lists[n] # <<>>
         /\ Everything \in SUBSET Node /\ IsFiniteSet(Everything) /\ Everything \in SUBSET Int
         /\ Everything \in SUBSET (Live \union Artifact)
         /\ \A i \in Everything : \E n \in 1..Len(lists) : i \in Ids(lists[n])
<1>1. Len(lists) \in Nat /\ DOMAIN lists = 1..Len(lists)
  BY DEF ListsRight
<1>2. /\ \A l \in ToSet(lists) : \E n \in 1..Len(lists) : l = lists[n]
      /\ \A n \in 1..Len(lists) : lists[n] \in ToSet(lists) /\ Ranking(lists[n]) /\ lists[n] # <<>>
  BY <1>1 DEF ListsRight, ToSet
<1>3. \A i \in Everything : \E n \in 1..Len(lists) : i \in Ids(lists[n])
  BY <1>2 DEF Everything
<1>4. ASSUME NEW i \in Everything PROVE i \in Node /\ i \in Live \union Artifact
  <2>1. PICK n \in 1..Len(lists) : i \in Ids(lists[n])
    BY <1>3
  <2>2. Ranking(lists[n])
    BY <1>2
  <2>3. RankIn(lists[n], i) \in 1..Len(lists[n]) /\ lists[n][RankIn(lists[n], i)].id = i
    BY <2>1, <2>2, RankFacts
  <2>4. Usable(lists[n][RankIn(lists[n], i)])
    BY <2>2, <2>3 DEF Ranking
  <2> QED BY <2>3, <2>4 DEF Usable, Hit
<1>5. IsFiniteSet(Everything) /\ Everything \in SUBSET Int
  <2>1. Everything \in SUBSET Node
    BY <1>4
  <2> QED BY <2>1, Nodes, FS_Subset
<1> QED BY <1>1, <1>2, <1>3, <1>4, <1>5

\* A node with no smaller share of any list has no smaller share of all, and the same only if it
\* has the same of every list; nor is any share above that of the first of every list.
LEMMA ShareFacts ==
  ASSUME ListsRight
  PROVE  /\ BestShare \in Nat /\ Len(lists) \in Nat
         /\ \A i : Share(i) \in Nat
         /\ \A i, j : (\A n \in 1..Len(lists) : ShareIn(lists[n], j) <= ShareIn(lists[n], i))
                        => /\ Share(j) <= Share(i)
                           /\ Share(j) = Share(i) <=>
                                \A n \in 1..Len(lists) : ShareIn(lists[n], j) = ShareIn(lists[n], i)
         /\ \A i : /\ Share(i) <= BestShare
                   /\ Share(i) = BestShare <=>
                        \A n \in 1..Len(lists) : ShareIn(lists[n], i) = Unit \div 61
<1> DEFINE m == Len(lists)
           c == Unit \div 61
<1>1. m \in Nat /\ c \in Nat
  BY ListFacts, NodeAssumption
<1>2. \A n \in 1..m : \A i : ShareIn(lists[n], i) \in Nat /\ ShareIn(lists[n], i) <= c
  BY ListFacts, ShareInFacts
<1>3. \A i : Parts(i) \in [1..m -> Nat]
  BY <1>2 DEF Parts
<1>4. \A i : \A n \in 1..m : Parts(i)[n] = ShareIn(lists[n], i)
  BY DEF Parts
<1>5. ASSUME NEW i PROVE \E s : Sums(s, Parts(i), m) /\ Share(i) = s[m] /\ Share(i) \in Nat
  <2>1. PICK s : Sums(s, Parts(i), m) /\ Share(i) = s[m]
    BY <1>1, <1>3, ShareIsSum
  <2>2. s[m] \in Nat
    BY <1>1, <2>1 DEF Sums
  <2> QED BY <2>1, <2>2
<1> HIDE DEF c
<1>6. ASSUME NEW i, NEW j, \A n \in 1..m : ShareIn(lists[n], j) <= ShareIn(lists[n], i)
      PROVE  /\ Share(j) <= Share(i)
             /\ Share(j) = Share(i) <=> \A n \in 1..m : ShareIn(lists[n], j) = ShareIn(lists[n], i)
  <2>1. PICK s : Sums(s, Parts(j), m) /\ Share(j) = s[m]
    BY <1>5
  <2>2. PICK t : Sums(t, Parts(i), m) /\ Share(i) = t[m]
    BY <1>5
  <2>3. \A n \in 1..m : Parts(j)[n] <= Parts(i)[n]
    BY <1>4, <1>6
  <2>4. s[m] <= t[m] /\ (s[m] = t[m] <=> Same(Parts(j), Parts(i), m))
    <3> HIDE DEF m
    <3> QED BY <1>1, <1>3, <2>1, <2>2, <2>3, SumsCompare
  <2> QED BY <1>4, <2>1, <2>2, <2>4 DEF Same
<1>7. BestShare = m * c /\ BestShare \in Nat
  <2>1. m * c \in Nat
    <3> HIDE DEF m
    <3> QED BY <1>1
  <2> QED BY <2>1 DEF BestShare, c
<1>8. ASSUME NEW i
      PROVE  /\ Share(i) <= BestShare
             /\ Share(i) = BestShare <=> \A n \in 1..m : ShareIn(lists[n], i) = c
  <2>1. PICK s : Sums(s, Parts(i), m) /\ Share(i) = s[m]
    BY <1>5
  <2>2. PICK q, t : q \in [1..m -> Nat] /\ (\A n \in 1..m : q[n] = c) /\ Sums(t, q, m)
                    /\ t[m] = BestShare
    <3> DEFINE same == [n \in 1..m |-> c]
               times == [k \in 0..m |-> k * c]
    <3>1. Sums(times, same, m)
      <4> HIDE DEF m
      <4> QED BY <1>1, SumsOfSame
    <3>2. times[m] = BestShare
      BY <1>1, <1>7
    <3>3. same \in [1..m -> Nat] /\ \A n \in 1..m : same[n] = c
      BY <1>1
    <3> HIDE DEF same, times
    <3> QED BY <3>1, <3>2, <3>3
  <2>3. \A n \in 1..m : Parts(i)[n] <= q[n]
    BY <1>2, <1>4, <2>2
  <2>4. s[m] <= t[m] /\ (s[m] = t[m] <=> Same(Parts(i), q, m))
    <3>1. Parts(i) \in [1..m -> Nat] /\ Sums(s, Parts(i), m) /\ Sums(t, q, m)
      BY <1>3, <2>1, <2>2
    <3> HIDE DEF m
    <3> QED BY <1>1, <2>2, <2>3, <3>1, SumsCompare
  <2> QED BY <1>4, <2>1, <2>2, <2>4 DEF Same
<1> QED BY <1>1, <1>5, <1>6, <1>7, <1>8 DEF c

FusedRight == fused = Sorted(Everything, [i \in Everything |-> Share(i)])

\* Fusion puts the larger share first, each node once.
LEMMA FusedFacts ==
  ASSUME ListsRight, FusedRight
  PROVE  /\ fused \in Seq(Everything) /\ DOMAIN fused = 1..Len(fused) /\ Len(fused) \in Nat
         /\ ToSet(fused) \in SUBSET Everything
         /\ \A m, n \in 1..Len(fused) : m < n => Share(fused[m]) >= Share(fused[n])
<1> DEFINE w == [i \in Everything |-> Share(i)]
<1>1. \A i \in Everything : w[i] = Share(i) /\ w[i] \in Int /\ Share(i) \in Nat
  BY ShareFacts
<1>2. fused = Sorted(Everything, w)
  BY DEF FusedRight
<1> HIDE DEF w
<1>3. /\ fused \in [1..Cardinality(Everything) -> Everything] /\ Cardinality(Everything) \in Nat
      /\ \A m, n \in 1..Cardinality(Everything) : m < n => Before(fused[m], fused[n], w)
  BY <1>1, <1>2, ListFacts, SortedFacts
<1>4. fused \in Seq(Everything) /\ DOMAIN fused = 1..Len(fused) /\ Len(fused) \in Nat
      /\ Len(fused) = Cardinality(Everything)
  BY <1>3
<1>5. \A n \in 1..Len(fused) : fused[n] \in Everything
  BY <1>4
<1>6. ToSet(fused) \in SUBSET Everything
  BY <1>4, <1>5 DEF ToSet
<1>7. ASSUME NEW m \in 1..Len(fused), NEW n \in 1..Len(fused), m < n
      PROVE  Share(fused[m]) >= Share(fused[n])
  <2>1. Before(fused[m], fused[n], w)
    BY <1>3, <1>4, <1>7
  <2>2. w[fused[m]] = Share(fused[m]) /\ w[fused[n]] = Share(fused[n])
        /\ Share(fused[m]) \in Nat /\ Share(fused[n]) \in Nat
    BY <1>1, <1>5
  <2> QED BY <2>1, <2>2 DEF Before
<1> QED BY <1>4, <1>6, <1>7

\* So the fused order is fair.
LEMMA FusedFair ==
  ASSUME ListsRight, FusedRight
  PROVE  FusionIsFair
<1>1. ASSUME NEW m \in DOMAIN fused, NEW n \in DOMAIN fused,
             \A l \in ToSet(lists) : fused[n] \in Ids(l) =>
               fused[m] \in Ids(l) /\ RankIn(l, fused[m]) < RankIn(l, fused[n])
      PROVE  m < n \/ m = n
  <2>1. fused[m] \in Everything /\ fused[n] \in Everything /\ m \in 1..Len(fused)
        /\ n \in 1..Len(fused) /\ Len(fused) \in Nat
    BY FusedFacts DEF ToSet
  <2>2. ASSUME NEW k \in 1..Len(lists)
        PROVE  /\ ShareIn(lists[k], fused[n]) <= ShareIn(lists[k], fused[m])
               /\ fused[n] \in Ids(lists[k]) =>
                    ShareIn(lists[k], fused[n]) # ShareIn(lists[k], fused[m])
    <3>1. Ranking(lists[k]) /\ lists[k] \in ToSet(lists)
      BY ListFacts
    <3>2. /\ ShareIn(lists[k], fused[n]) \in Nat /\ ShareIn(lists[k], fused[m]) \in Nat
          /\ fused[n] \notin Ids(lists[k]) => ShareIn(lists[k], fused[n]) = 0
          /\ \A i, j \in Ids(lists[k]) : RankIn(lists[k], i) < RankIn(lists[k], j)
               => ShareIn(lists[k], i) > ShareIn(lists[k], j)
      BY <3>1, ShareInFacts
    <3>3. CASE fused[n] \in Ids(lists[k])
      <4>1. ShareIn(lists[k], fused[m]) > ShareIn(lists[k], fused[n])
        BY <1>1, <3>1, <3>2, <3>3
      <4> QED BY <3>2, <4>1
    <3>4. CASE fused[n] \notin Ids(lists[k])
      BY <3>2, <3>4
    <3> QED BY <3>3, <3>4
  <2>3. Share(fused[n]) <= Share(fused[m]) /\ Share(fused[n]) # Share(fused[m])
    <3>1. PICK k \in 1..Len(lists) : fused[n] \in Ids(lists[k])
      BY <2>1, ListFacts
    <3> QED BY <2>2, <3>1, ShareFacts
  <2>4. Share(fused[n]) \in Nat /\ Share(fused[m]) \in Nat
    BY ShareFacts
  <2>5. ~ (n < m)
    BY <2>1, <2>3, <2>4, FusedFacts
  <2> QED BY <2>1, <2>5
<1>2. ASSUME NEW i, NEW k \in 1..Len(lists)
      PROVE  ShareIn(lists[k], i) = Unit \div 61 <=> lists[k][1].id = i
  <2> DEFINE l == lists[k]
  <2>1. Ranking(l) /\ l # <<>>
    BY ListFacts
  <2> HIDE DEF l
  <2>2. 1 \in 1..Len(l) /\ DOMAIN l = 1..Len(l) /\ Len(l) \in Nat
    BY <2>1 DEF Ranking
  <2>3. l[1].id \in Ids(l)
    BY <2>2 DEF Ids, ToSet
  <2>4. RankIn(l, l[1].id) = 1
    BY <2>1, <2>2, <2>3, RankFacts
  <2>5. i \in Ids(l) => RankIn(l, i) \in 1..Len(l) /\ l[RankIn(l, i)].id = i
    BY <2>1, RankFacts
  <2>6. Unit \div 61 > 0
    BY <2>1, <2>3, <2>4, ShareInFacts
  <2>7. CASE i \in Ids(l)
    <3>1. ShareIn(l, i) = Unit \div 61 <=> RankIn(l, i) = 1
      BY <2>1, <2>7, ShareInFacts
    <3>2. RankIn(l, i) = 1 <=> l[1].id = i
      BY <2>4, <2>5, <2>7
    <3> QED BY <3>1, <3>2 DEF l
  <2>8. CASE i \notin Ids(l)
    <3>1. ShareIn(l, i) = 0
      BY <2>1, <2>8, ShareInFacts
    <3>2. ShareIn(l, i) # Unit \div 61
      BY <2>6, <3>1
    <3>3. l[1].id # i
      BY <2>3, <2>8
    <3> QED BY <3>2, <3>3 DEF l
  <2> QED BY <2>7, <2>8
<1>3. ASSUME NEW i
      PROVE  Share(i) <= BestShare /\ (Share(i) = BestShare <=> \A l \in ToSet(lists) : l[1].id = i)
  <2>1. (\A n \in 1..Len(lists) : lists[n][1].id = i) <=> (\A l \in ToSet(lists) : l[1].id = i)
    BY ListFacts
  <2>2. Share(i) <= BestShare /\ (Share(i) = BestShare <=>
          \A n \in 1..Len(lists) : ShareIn(lists[n], i) = Unit \div 61)
    BY ShareFacts
  <2> QED BY <1>2, <2>1, <2>2
<1> QED BY <1>1, <1>3 DEF FusionIsFair

\* Of a node found several times, a row that may be used is kept.
LEMMA LastHitFacts ==
  ASSUME ListsRight, NEW i \in Everything
  PROVE  Usable(LastHit(i)) /\ LastHit(i).id = i
<1> DEFINE I == {n \in 1..Len(lists) : i \in Ids(lists[n])}
<1>1. I # {} /\ I \in SUBSET Nat /\ Len(lists) \in Nat /\ \A n \in I : n <= Len(lists)
  <2>1. Len(lists) \in Nat /\ \E n \in 1..Len(lists) : i \in Ids(lists[n])
    BY ListFacts
  <2> QED BY <2>1
<1>2. SelectLastInSeq(lists, LAMBDA m : i \in Ids(m)) \in I
  <2> DEFINE M == CHOOSE x \in I : \A y \in I : x >= y
  <2>1. SelectLastInSeq(lists, LAMBDA m : i \in Ids(m)) = M
    BY <1>1 DEF SelectLastInSeq, Max
  <2>2. \E x \in I : \A y \in I : x >= y
    <3> HIDE DEF I
    <3> QED BY <1>1, Greatest
  <2> HIDE DEF I
  <2>3. M \in I
    BY <2>2
  <2> QED BY <2>1, <2>3
<1>3. PICK n \in I : LastHit(i) = lists[n][RankIn(lists[n], i)]
  BY <1>2 DEF LastHit
<1>4. Ranking(lists[n]) /\ i \in Ids(lists[n])
  BY ListFacts
<1>5. RankIn(lists[n], i) \in 1..Len(lists[n]) /\ lists[n][RankIn(lists[n], i)].id = i
  BY <1>4, RankFacts
<1> QED BY <1>3, <1>4, <1>5 DEF Ranking

-----------------------------------------------------------------------------
(* The course of a question.                                               *)

ContextRight == context \in Seq(Hit) /\ \A n \in 1..Len(context) : Usable(context[n])

StaleExplained == \A h \in ToSet(context) : replacedBy[h.id] = Replacers(h.id)

\* The lists are rankings of what may be used, the fused order is that of the shares, the context
\* is made of rows that may be used, and what is told and cited comes from it.
AnsweringInv ==
  /\ own \in SUBSET Item
  /\ queries \in Seq(Text) /\ subs \in Seq(Text)
  /\ ListsRight
  /\ stage = "fused" => FusedRight
  /\ ContextRight
  /\ told \in SUBSET ToSet(context) /\ (stage # "answered" => told = {})
  /\ summaries \in SUBSET Artifact
  /\ ToSet(citations) \in SUBSET (Live \union Artifact)
  /\ stage \in {"explained", "answered"} => StaleExplained
  /\ NearestIsExact

\* What may be used depends only on whose the items are and which were rejected.
LEMMA SameUse ==
  ASSUME own' = own, rejected' = rejected
  PROVE  /\ Live' = Live
         /\ \A i : Stale(i)' = Stale(i) /\ Replacers(i)' = Replacers(i)
         /\ \A h : Usable(h)' <=> Usable(h)
         /\ \A l : Ranking(l)' <=> Ranking(l)
<1>1. Live' = Live
  BY DEF Live
<1>2. \A i : Stale(i)' = Stale(i) /\ Replacers(i)' = Replacers(i)
  BY DEF Stale, Replacers
<1>3. \A h : Usable(h)' <=> Usable(h)
  BY <1>1, <1>2 DEF Usable
<1>4. \A l : Ranking(l)' <=> Ranking(l)
  BY <1>3 DEF Ranking
<1> QED BY <1>1, <1>2, <1>3, <1>4

\* And shares only on the lists.
LEMMA SameShares ==
  ASSUME lists' = lists
  PROVE  Everything' = Everything /\ \A i : Share(i)' = Share(i)
BY DEF Everything, Share

LEMMA SameLists ==
  ASSUME own' = own, rejected' = rejected, lists' = lists, ListsRight
  PROVE  ListsRight'
BY SameUse DEF ListsRight

LEMMA SameContext ==
  ASSUME own' = own, rejected' = rejected, context' = context
  PROVE  /\ ContextRight => ContextRight'
         /\ replacedBy' = replacedBy /\ StaleExplained => StaleExplained'
BY SameUse DEF ContextRight, StaleExplained

\* The context's hits are among those that may be used.
LEMMA ContextFacts ==
  ASSUME AnsweringInv
  PROVE  /\ DOMAIN context = 1..Len(context)
         /\ \A h \in ToSet(context) : Usable(h)
         /\ Ids(context) \in SUBSET (Live \union Artifact)
<1>1. DOMAIN context = 1..Len(context)
  BY DEF AnsweringInv, ContextRight
<1>2. \A h \in ToSet(context) : Usable(h)
  BY <1>1 DEF AnsweringInv, ContextRight, ToSet
<1> QED BY <1>1, <1>2 DEF Ids, Usable

LEMMA AnsweringStart ==
  AnsweringInit => AnsweringInv
<1> SUFFICES ASSUME AnsweringInit PROVE AnsweringInv
  OBVIOUS
<1>1. ListsRight
  BY DEF AnsweringInit, ListsRight
<1>2. ContextRight
  BY DEF AnsweringInit, ContextRight
<1>3. NearestIsExact
  BY DEF AnsweringInit, NearestIsExact
<1>4. ToSet(citations) = {}
  BY DEF AnsweringInit, ToSet
<1>5. own \in SUBSET Item /\ queries \in Seq(Text) /\ subs \in Seq(Text) /\ stage = "asked"
      /\ told = {} /\ summaries = {}
  BY DEF AnsweringInit
<1> QED BY <1>1, <1>2, <1>3, <1>4, <1>5 DEF AnsweringInv

\* Queries and sub-queries are texts.
LEMMA TransformKeeps ==
  ASSUME AnsweringInv, Transform
  PROVE  AnsweringInv'
<1>1. PICK reply \in {None} \union [subs : BoundedSeq(Text, 2), hyde : Text],
           embedded \in SUBSET Text :
        /\ queries' = At(<<Question>>, {n \in DOMAIN <<Question>> : <<Question>>[n] \in embedded})
                      \o At(<<Rewritten(reply).hyde>>,
                            {n \in DOMAIN <<Rewritten(reply).hyde>> :
                               <<Rewritten(reply).hyde>>[n] # Question
                               /\ <<Rewritten(reply).hyde>>[n] \in embedded})
        /\ subs' = At(First(Tail(Rewritten(reply).subs), 2),
                      {n \in DOMAIN First(Tail(Rewritten(reply).subs), 2) :
                         First(Tail(Rewritten(reply).subs), 2)[n] # Question
                         /\ First(Tail(Rewritten(reply).subs), 2)[n] \in embedded})
  BY DEF Transform, Where
<1>2. /\ stage' = "transformed"
      /\ UNCHANGED <<own, rejected, lists, fused, context, replacedBy, summaries, citations, told>>
  BY DEF Transform
<1>3. Question \in Text
  BY NodeAssumption
<1>4. /\ Rewritten(reply).subs \in Seq(Text) /\ Rewritten(reply).subs # <<>>
      /\ Rewritten(reply).hyde \in Text
  <2>1. CASE reply = None
    BY <1>3, <2>1 DEF Rewritten
  <2>2. CASE reply # None
    <3>1. reply.subs \in Seq(Text) /\ reply.hyde \in Text
      <4>1. reply \in [subs : BoundedSeq(Text, 2), hyde : Text]
        BY <2>2
      <4>2. \A s \in BoundedSeq(Text, 2) : s \in Seq(Text)
        BY Bounded
      <4> QED BY <4>1, <4>2
    <3> DEFINE qs == IF reply.subs = <<>> THEN <<Question>> ELSE reply.subs
    <3>2. qs \in Seq(Text) /\ qs # <<>>
      BY <1>3, <3>1
    <3>3. Rewritten(reply) = [subs |-> IF Question \in ToSet(qs) THEN qs ELSE <<Question>> \o qs,
                              hyde |-> reply.hyde]
      BY <2>2 DEF Rewritten
    <3> HIDE DEF qs
    <3>4. <<Question>> \o qs \in Seq(Text) /\ <<Question>> \o qs # <<>>
      BY <1>3, <3>2
    <3> QED BY <3>1, <3>2, <3>3, <3>4
  <2> QED BY <2>1, <2>2
<1>5. queries' \in Seq(Text)
  <2> DEFINE a == <<Question>>
             b == <<Rewritten(reply).hyde>>
             P == {n \in DOMAIN a : a[n] \in embedded}
             Q == {n \in DOMAIN b : b[n] # Question /\ b[n] \in embedded}
  <2>1. a \in Seq(Text) /\ b \in Seq(Text)
    BY <1>3, <1>4
  <2>2. P \in SUBSET DOMAIN a /\ Q \in SUBSET DOMAIN b /\ queries' = At(a, P) \o At(b, Q)
    BY <1>1
  <2> HIDE DEF a, b, P, Q
  <2>3. At(a, P) \in Seq(Text)
    BY <2>1, <2>2, AtFacts
  <2>4. At(b, Q) \in Seq(Text)
    BY <2>1, <2>2, AtFacts
  <2> QED BY <2>2, <2>3, <2>4
<1>6. subs' \in Seq(Text)
  <2> DEFINE tail == Tail(Rewritten(reply).subs)
             a == First(tail, 2)
             P == {n \in DOMAIN a : a[n] # Question /\ a[n] \in embedded}
  <2>1. tail \in Seq(Text) /\ 2 \in Nat
    BY <1>4
  <2>2. P \in SUBSET DOMAIN a /\ subs' = At(a, P)
    BY <1>1
  <2> HIDE DEF tail, P
  <2>3. a \in Seq(Text)
    BY <2>1, FirstFacts
  <2> HIDE DEF a
  <2> QED BY <2>2, <2>3, AtFacts
<1>7. ListsRight'
  BY <1>2, SameLists DEF AnsweringInv
<1>8. NearestIsExact'
  BY <1>2 DEF NearestIsExact
<1>9. ContextRight' /\ Live' = Live
  BY <1>2, SameContext, SameUse DEF AnsweringInv
<1>10. stage = "asked"
  BY DEF Transform
<1> QED BY <1>2, <1>5, <1>6, <1>7, <1>8, <1>9, <1>10 DEF AnsweringInv

\* What is retrieved are rankings, and the full searches' come first, in the order of the queries.
LEMMA RetrieveKeeps ==
  ASSUME AnsweringInv, Retrieve
  PROVE  AnsweringInv'
<1>1. PICK words \in KeywordHits, shown \in SUBSET Artifact :
        /\ lists' = Where([n \in DOMAIN queries |-> Retrieved(queries[n], TopK)]
                            \o [n \in DOMAIN subs |->
                                  Hits(Nearest(subs[n], Larger(TopK \div 2, 1)), "vector")]
                            \o <<Hits(words, "keyword")>>, LAMBDA l : l # <<>>)
        /\ summaries' = IF queries = <<>> THEN {} ELSE shown
        /\ stage' = IF lists' = <<>> THEN "none" ELSE "retrieved"
  BY DEF Retrieve
<1>2. UNCHANGED <<own, rejected, queries, subs, fused, context, replacedBy, citations, told>>
  BY DEF Retrieve
<1>3. own \in SUBSET Item /\ queries \in Seq(Text) /\ subs \in Seq(Text)
      /\ TopK \in Nat \ {0} /\ Larger(TopK \div 2, 1) \in Nat \ {0}
  <2>1. TopK \in Nat \ {0} /\ TopK \div 2 \in Nat
    BY NodeAssumption
  <2> QED BY <2>1 DEF AnsweringInv, Larger
<1> DEFINE a == [n \in DOMAIN queries |-> Retrieved(queries[n], TopK)]
           b == [n \in DOMAIN subs |-> Hits(Nearest(subs[n], Larger(TopK \div 2, 1)), "vector")]
           c == <<Hits(words, "keyword")>>
           all == a \o b \o c
           P == {n \in DOMAIN all : all[n] # <<>>}
           R == {l \in Seq(Hit) : Ranking(l)}
<1>4. lists' = At(all, P)
  BY <1>1 DEF Where
<1>5. a \in Seq(R) /\ Len(a) = Len(queries) /\ \A n \in 1..Len(queries) : a[n] = Retrieved(queries[n], TopK)
  <2>1. ASSUME NEW n \in 1..Len(queries) PROVE Retrieved(queries[n], TopK) \in R
    <3>1. queries[n] \in Text
      BY <1>3
    <3>2. Ranking(Retrieved(queries[n], TopK))
      BY <1>3, <3>1, RetrievedFacts
    <3> QED BY <3>2 DEF Ranking
  <2>2. DOMAIN queries = 1..Len(queries) /\ Len(queries) \in Nat
    BY <1>3
  <2> HIDE DEF R
  <2> QED BY <2>1, <2>2
<1>6. b \in Seq(R)
  <2>1. ASSUME NEW n \in 1..Len(subs)
        PROVE  Hits(Nearest(subs[n], Larger(TopK \div 2, 1)), "vector") \in R
    <3> DEFINE q == Nearest(subs[n], Larger(TopK \div 2, 1))
    <3>1. subs[n] \in Text
      BY <1>3
    <3>2. q \in Seq(Live) /\ \A i, j \in 1..Len(q) : q[i] = q[j] => i = j
      BY <1>3, <3>1, NearestFacts
    <3> HIDE DEF q
    <3>3. Ranking(Hits(q, "vector"))
      BY <1>3, <3>2, HitsFacts
    <3> QED BY <3>3 DEF q, Ranking
  <2>2. DOMAIN subs = 1..Len(subs) /\ Len(subs) \in Nat
    BY <1>3
  <2> HIDE DEF R
  <2> QED BY <2>1, <2>2
<1>7. c \in Seq(R)
  <2>1. words \in Seq(Live) /\ \A i, j \in 1..Len(words) : words[i] = words[j] => i = j
    <3>1. words \in BoundedSeq(Live, TopK) /\ IsInjective(words)
      BY DEF KeywordHits
    <3>2. words \in Seq(Live)
      BY <1>3, <3>1, Bounded
    <3> QED BY <3>1, <3>2 DEF IsInjective
  <2>2. Ranking(Hits(words, "keyword"))
    BY <1>3, <2>1, HitsFacts
  <2>3. Hits(words, "keyword") \in R
    BY <2>2 DEF Ranking
  <2> HIDE DEF R
  <2> QED BY <2>3
<1> HIDE DEF a, b, c, R
<1>8. all \in Seq(R) /\ DOMAIN all = 1..Len(all) /\ Len(all) \in Nat
      /\ Len(a) <= Len(all) /\ \A n \in 1..Len(a) : all[n] = a[n]
  <2>1. a \o b \in Seq(R) /\ Len(a) <= Len(a \o b) /\ \A n \in 1..Len(a) : (a \o b)[n] = a[n]
    BY <1>5, <1>6
  <2> DEFINE d == a \o b
  <2>2. d \in Seq(R) /\ Len(d) \in Nat
    BY <2>1
  <2>3. d \o c \in Seq(R) /\ Len(d \o c) \in Nat /\ Len(d) <= Len(d \o c)
        /\ \A n \in 1..Len(d) : (d \o c)[n] = d[n]
    <3> HIDE DEF d
    <3> QED BY <1>7, <2>2
  <2>4. Len(a) \in Nat
    BY <1>5
  <2> QED BY <2>1, <2>2, <2>3, <2>4
<1>9. P \in SUBSET DOMAIN all /\ \A p \in P : all[p] \in R /\ all[p] # <<>>
  <2> HIDE DEF all
  <2> QED BY <1>8
<1> HIDE DEF all
<1>10. /\ lists' \in Seq(R) /\ DOMAIN lists' = 1..Len(lists') /\ Len(lists') \in Nat
       /\ \A n \in 1..Len(lists') : lists'[n] \in R /\ lists'[n] # <<>>
  <2> HIDE DEF P
  <2>1. lists' \in Seq(R)
    BY <1>4, <1>8, <1>9, AtFacts
  <2>2. ToSet(lists') = {all[p] : p \in P}
    BY <1>4, <1>8, <1>9, AtElements
  <2>3. DOMAIN lists' = 1..Len(lists') /\ Len(lists') \in Nat
    BY <2>1
  <2>4. \A n \in 1..Len(lists') : lists'[n] \in ToSet(lists')
    BY <2>3 DEF ToSet
  <2>5. \A n \in 1..Len(lists') : \E p \in P : lists'[n] = all[p]
    BY <2>2, <2>4
  <2> QED BY <1>9, <2>1, <2>3, <2>5
<1>11. ListsRight'
  <2>1. \A l \in R : l \in Seq(Hit) /\ Ranking(l)'
    BY <1>2, SameUse DEF R
  <2>2. lists' \in Seq(Seq(Hit))
    BY <1>10, <2>1
  <2> QED BY <1>10, <2>1, <2>2 DEF ListsRight
<1>12. NearestIsExact'
  <2> SUFFICES ASSUME Live # {}, NEW n \in 1..Len(queries)
               PROVE  LET found == {h.id : h \in {g \in ToSet(lists'[n]) : g.by = "vector"}} IN
                      /\ found \subseteq Live
                      /\ Cardinality(found) = IF Cardinality(Live) < TopK THEN Cardinality(Live) ELSE TopK
                      /\ \A i \in found, j \in Live \ found : Score[queries[n]][i] >= Score[queries[n]][j]
    <3>1. Live' = Live /\ queries' = queries
      BY <1>2, SameUse
    <3>2. DOMAIN queries = 1..Len(queries)
      BY <1>3
    <3> QED BY <3>1, <3>2 DEF NearestIsExact
  <2> DEFINE q == Nearest(queries[n], TopK)
  <2>1. \A m \in 1..Len(queries) : queries[m] \in Text
    BY <1>3
  <2>2. \A m \in 1..Len(queries) : m \in P
    <3>1. ASSUME NEW m \in 1..Len(queries) PROVE a[m] # <<>>
      BY <1>3, <1>5, <2>1, RetrievedFacts
    <3>2. \A m \in 1..Len(queries) : m \in 1..Len(a) /\ m \in 1..Len(all)
      BY <1>3, <1>5, <1>8
    <3> QED BY <1>8, <3>1, <3>2
  <2>3. lists'[n] = all[n]
    <3> HIDE DEF P
    <3>1. 1..Len(queries) \subseteq P /\ Len(queries) \in Nat
      BY <1>3, <2>2
    <3>2. all \in Seq(R) /\ P \in SUBSET DOMAIN all
      BY <1>8, <1>9
    <3> QED BY <1>4, <3>1, <3>2, AtStart
  <2>4. lists'[n] = Retrieved(queries[n], TopK)
    BY <1>5, <1>8, <2>3
  <2>5. {h.id : h \in {g \in ToSet(lists'[n]) : g.by = "vector"}} = ToSet(q)
    BY <1>3, <2>1, <2>4, RetrievedFacts
  <2>6. /\ q \in Seq(Live) /\ Cardinality(Live) \in Nat
        /\ Len(q) = IF Cardinality(Live) < TopK THEN Cardinality(Live) ELSE TopK
        /\ \A i, j \in 1..Len(q) : q[i] = q[j] => i = j
        /\ \A i \in ToSet(q), j \in Live \ ToSet(q) : Score[queries[n]][i] >= Score[queries[n]][j]
    BY <1>3, <2>1, NearestFacts
  <2> HIDE DEF q
  <2>7. Cardinality(ToSet(q)) = Len(q)
    BY <2>6, DistinctCount
  <2>8. ToSet(q) \subseteq Live
    BY <2>6 DEF ToSet
  <2> QED BY <2>5, <2>6, <2>7, <2>8
<1>13. summaries' \in SUBSET Artifact
  BY <1>1 DEF AnsweringInv
<1>14. stage' \in {"none", "retrieved"}
  BY <1>1
<1>15. ContextRight' /\ Live' = Live
  BY <1>2, SameContext, SameUse DEF AnsweringInv
<1>16. stage = "transformed"
  BY DEF Retrieve
<1> QED BY <1>2, <1>11, <1>12, <1>13, <1>14, <1>15, <1>16 DEF AnsweringInv

LEMMA FuseKeeps ==
  ASSUME AnsweringInv, Fuse
  PROVE  AnsweringInv'
<1>1. /\ stage = "retrieved" /\ fused' = Sorted(Everything, [i \in Everything |-> Share(i)]) /\ stage' = "fused"
      /\ UNCHANGED <<own, rejected, queries, subs, lists, context, replacedBy, summaries, citations, told>>
  BY DEF Fuse
<1>2. FusedRight'
  <2>1. Everything' = Everything /\ [i \in Everything |-> Share(i)]' = [i \in Everything |-> Share(i)]
    BY <1>1, SameShares
  <2> QED BY <1>1, <2>1 DEF FusedRight
<1>3. ListsRight'
  BY <1>1, SameLists DEF AnsweringInv
<1>4. NearestIsExact'
  BY <1>1 DEF NearestIsExact
<1>5. ContextRight' /\ Live' = Live
  BY <1>1, SameContext, SameUse DEF AnsweringInv
<1> QED BY <1>1, <1>2, <1>3, <1>4, <1>5 DEF AnsweringInv

\* The nodes chosen, however they are ranked and whichever the gate keeps, are nodes of the lists.
LEMMA GateKeeps ==
  ASSUME AnsweringInv, Gate
  PROVE  AnsweringInv'
<1>1. PICK ranked \in Reranked :
        LET strong == Where(ranked, LAMBDA i : Share(i) * 10 >= BestShare)
            kept == IF strong = <<>> THEN First(ranked, 3) ELSE strong
        IN  /\ context' = [n \in DOMAIN kept |-> LastHit(kept[n])]
            /\ stage' = IF \E i \in ToSet(kept) : Share(i) * 2 >= BestShare THEN "allowed" ELSE "refused"
  BY DEF Gate
<1>2. /\ stage = "fused"
      /\ UNCHANGED <<own, rejected, queries, subs, lists, fused, replacedBy, summaries, citations, told>>
  BY DEF Gate
<1> DEFINE P == {n \in DOMAIN ranked : Share(ranked[n]) * 10 >= BestShare}
           strong == At(ranked, P)
           kept == IF strong = <<>> THEN First(ranked, 3) ELSE strong
<1>3. context' = [n \in DOMAIN kept |-> LastHit(kept[n])] /\ stage' \in {"allowed", "refused"}
  BY <1>1 DEF Where
<1>4. ListsRight /\ FusedRight
  BY <1>2 DEF AnsweringInv
<1>5. ranked \in Seq(Everything)
  <2>1. fused \in Seq(Everything) /\ ToSet(fused) \in SUBSET Everything /\ TopK \in Nat
    BY <1>4, FusedFacts, NodeAssumption
  <2>2. CASE ranked = First(fused, TopK)
    BY <2>1, <2>2, FirstFacts
  <2>3. CASE ranked \in [1..TopK -> ToSet(fused)]
    <3>1. ranked \in [1..TopK -> Everything]
      BY <2>1, <2>3
    <3> QED BY <2>1, <3>1
  <2> QED BY <2>2, <2>3 DEF Reranked, TupleOf
<1>6. kept \in Seq(Everything)
  <2>1. P \in SUBSET DOMAIN ranked
    OBVIOUS
  <2> HIDE DEF P
  <2>2. strong \in Seq(Everything)
    BY <1>5, <2>1, AtFacts
  <2>3. First(ranked, 3) \in Seq(Everything)
    <3>1. 3 \in Nat
      OBVIOUS
    <3> QED BY <1>5, <3>1, FirstFacts
  <2> QED BY <2>2, <2>3
<1> HIDE DEF kept
<1>7. \A n \in DOMAIN kept : Usable(LastHit(kept[n])) /\ LastHit(kept[n]) \in Hit
  <2> SUFFICES ASSUME NEW n \in DOMAIN kept
               PROVE  Usable(LastHit(kept[n])) /\ LastHit(kept[n]) \in Hit
    OBVIOUS
  <2>1. kept[n] \in Everything
    BY <1>6
  <2>2. Usable(LastHit(kept[n]))
    BY <1>4, <2>1, LastHitFacts
  <2> QED BY <2>2 DEF Usable
<1>8. context' \in Seq(Hit) /\ \A n \in 1..Len(context') : Usable(context'[n])
  <2>1. DOMAIN kept = 1..Len(kept) /\ Len(kept) \in Nat
    BY <1>6
  <2>2. context' = [n \in 1..Len(kept) |-> LastHit(kept[n])]
    BY <1>3, <2>1
  <2>3. \A n \in 1..Len(kept) : LastHit(kept[n]) \in Hit /\ Usable(LastHit(kept[n]))
    BY <1>7, <2>1
  <2>4. context' \in Seq(Hit) /\ Len(context') = Len(kept)
    BY <2>1, <2>2, <2>3
  <2> QED BY <2>2, <2>3, <2>4
<1>9. ListsRight' /\ told' = {}
  BY <1>2, SameLists DEF AnsweringInv
<1>10. NearestIsExact'
  BY <1>3 DEF NearestIsExact
<1>11. ToSet(citations)' = ToSet(citations) /\ Live' = Live
  BY <1>2, SameUse
<1>12. ContextRight'
  BY <1>2, <1>8, SameUse DEF ContextRight
<1> QED BY <1>2, <1>3, <1>9, <1>10, <1>11, <1>12 DEF AnsweringInv

\* The items that are replaced are among the stale ones, so that looking only at these finds all.
LEMMA ExplainKeeps ==
  ASSUME AnsweringInv, Explain
  PROVE  AnsweringInv'
<1>1. /\ replacedBy' = [n \in Node |-> IF \E h \in ToSet(context) : h.id = n /\ h.stale
                                        THEN Replacers(n) ELSE {}]
      /\ stage = "allowed" /\ stage' = "explained"
      /\ UNCHANGED <<own, rejected, queries, subs, lists, fused, context, summaries, citations, told>>
  BY DEF Explain
<1>2. ASSUME NEW h \in ToSet(context)
      PROVE  replacedBy'[h.id] = Replacers(h.id)
  <2>1. h.id \in Node /\ h.id \in own \union Artifact /\ h.stale = Stale(h.id)
    BY ContextFacts DEF Usable, Hit, Live
  <2>2. CASE Stale(h.id)
    BY <1>1, <2>1, <2>2
  <2>3. CASE ~Stale(h.id)
    <3>1. Replacers(h.id) = {}
      <4>1. CASE h.id \in own
        BY <2>3, <4>1 DEF Stale
      <4>2. CASE h.id \in Artifact
        BY <4>2, NodeAssumption DEF Replacers
      <4> QED BY <2>1, <4>1, <4>2
    <3>2. replacedBy'[h.id] \in {Replacers(h.id), {}}
      BY <1>1, <2>1
    <3> QED BY <3>1, <3>2
  <2> QED BY <2>2, <2>3
<1>3. ListsRight'
  BY <1>1, SameLists DEF AnsweringInv
<1>4. NearestIsExact'
  BY <1>1 DEF NearestIsExact
<1>5. StaleExplained'
  BY <1>1, <1>2, SameUse DEF StaleExplained
<1>6. ContextRight'
  BY <1>1, SameContext DEF AnsweringInv
<1> QED BY <1>1, <1>3, <1>4, <1>5, <1>6, SameUse DEF AnsweringInv

\* What is cited is of the context or among the summaries.
LEMMA GenerateKeeps ==
  ASSUME AnsweringInv, Generate
  PROVE  AnsweringInv'
<1>1. PICK answer \in BoundedSeq(Known \union UNION {e.replacedBy : e \in Prompt} \union {None}, 2) :
        citations' = Cited(answer)
  BY DEF Generate
<1>2. /\ stage = "explained" /\ stage' = "answered"
      /\ UNCHANGED <<own, rejected, queries, subs, lists, fused, context, replacedBy, summaries, told>>
  BY DEF Generate
<1> DEFINE T == Known \union UNION {e.replacedBy : e \in Prompt} \union {None}
           P == {n \in DOMAIN answer : answer[n] \in Known /\ \A m \in 1..(n - 1) : answer[m] # answer[n]}
<1>3. answer \in Seq(T) /\ P \in SUBSET DOMAIN answer
  <2>1. 2 \in Nat
    OBVIOUS
  <2> QED BY <2>1, Bounded
<1>4. citations' = At(answer, P) /\ \A p \in P : answer[p] \in Known
  BY <1>1 DEF Cited
<1> HIDE DEF T, P
<1>5. ToSet(citations') = {answer[p] : p \in P}
  BY <1>3, <1>4, AtElements
<1>6. Known \in SUBSET (Live \union Artifact)
  BY ContextFacts DEF Known, AnsweringInv
<1>7. ToSet(citations') \in SUBSET (Live' \union Artifact)
  BY <1>2, <1>4, <1>5, <1>6, SameUse
<1>8. ListsRight'
  BY <1>2, SameLists DEF AnsweringInv
<1>9. NearestIsExact'
  BY <1>2 DEF NearestIsExact
<1>10. ContextRight' /\ StaleExplained'
  BY <1>2, SameContext DEF AnsweringInv
<1> QED BY <1>2, <1>7, <1>8, <1>9, <1>10 DEF AnsweringInv

\* The items that were hit themselves are of the context.
LEMMA PrimaryFacts ==
  ASSUME AnsweringInv
  PROVE  /\ Primary \in Seq(Hit) /\ ToSet(Primary) \in SUBSET ToSet(context)
         /\ \A h \in ToSet(Primary) : h.by # "graph"
<1> DEFINE P == {n \in DOMAIN context : context[n].by # "graph"}
<1>1. context \in Seq(Hit) /\ P \in SUBSET DOMAIN context /\ Primary = At(context, P)
  BY DEF AnsweringInv, ContextRight, Primary, Where
<1>2. \A p \in P : context[p].by # "graph"
  OBVIOUS
<1> HIDE DEF P
<1>3. Primary \in Seq(Hit) /\ ToSet(Primary) = {context[p] : p \in P}
  BY <1>1, AtFacts, AtElements
<1>4. ToSet(Primary) \in SUBSET ToSet(context)
  BY <1>1, <1>3 DEF ToSet
<1> QED BY <1>2, <1>3, <1>4

LEMMA MakeUpKeeps ==
  ASSUME AnsweringInv, MakeUp
  PROVE  AnsweringInv'
<1>1. /\ stage = "explained" /\ stage' = "answered" /\ told' = ToSet(First(Primary, 5))
      /\ UNCHANGED <<own, rejected, queries, subs, lists, fused, context, replacedBy, summaries, citations>>
  BY DEF MakeUp
<1>4. Primary \in Seq(Hit) /\ ToSet(Primary) \in SUBSET ToSet(context)
  BY PrimaryFacts
<1>5. told' \in SUBSET ToSet(Primary)
  <2> DEFINE q == First(Primary, 5)
  <2>1. /\ Len(q) = IF Len(Primary) < 5 THEN Len(Primary) ELSE 5
        /\ \A n \in 1..Len(q) : q[n] = Primary[n]
        /\ DOMAIN q = 1..Len(q) /\ q \in Seq(Hit)
    <3>1. 5 \in Nat
      OBVIOUS
    <3> QED BY ZenonT(60), <1>4, <3>1, FirstFacts
  <2>2. DOMAIN Primary = 1..Len(Primary) /\ Len(Primary) \in Nat
    BY <1>4
  <2> HIDE DEF q
  <2>3. \A n \in DOMAIN q : n \in DOMAIN Primary /\ q[n] = Primary[n]
    BY <2>1, <2>2
  <2>4. told' = ToSet(q)
    BY <1>1 DEF q
  <2> QED BY <2>3, <2>4 DEF ToSet
<1>6. ListsRight'
  BY <1>1, SameLists DEF AnsweringInv
<1>7. NearestIsExact'
  BY <1>1 DEF NearestIsExact
<1>8. ContextRight' /\ StaleExplained'
  BY <1>1, SameContext DEF AnsweringInv
<1> QED BY <1>1, <1>4, <1>5, <1>6, <1>7, <1>8, SameUse DEF AnsweringInv

LEMMA AnsweringStutters ==
  ASSUME AnsweringInv, UNCHANGED answeringVars
  PROVE  AnsweringInv'
<1>1. UNCHANGED <<own, rejected, stage, queries, subs, lists, fused, context, replacedBy,
                  summaries, citations, told>>
  BY DEF answeringVars
<1>2. ListsRight'
  BY <1>1, SameLists DEF AnsweringInv
<1>3. FusedRight' <=> FusedRight
  <2>1. Everything' = Everything /\ [i \in Everything |-> Share(i)]' = [i \in Everything |-> Share(i)]
    BY <1>1, SameShares
  <2> QED BY <1>1, <2>1 DEF FusedRight
<1>4. NearestIsExact'
  BY <1>1, SameUse DEF NearestIsExact, AnsweringInv
<1>5. ContextRight' /\ (StaleExplained => StaleExplained')
  BY <1>1, SameContext DEF AnsweringInv
<1> QED BY <1>1, <1>2, <1>3, <1>4, <1>5, SameUse DEF AnsweringInv

LEMMA AnsweringStep ==
  AnsweringInv /\ [AnsweringNext]_answeringVars => AnsweringInv'
BY TransformKeeps, RetrieveKeeps, FuseKeeps, GateKeeps, ExplainKeeps, GenerateKeeps, MakeUpKeeps,
   AnsweringStutters DEF AnsweringNext

\* Every state of a question is right, whatever the models answer.
THEOREM AnsweringInvariant ==
  AnsweringSpec => []AnsweringInv
BY AnsweringStart, AnsweringStep, PTL DEF AnsweringSpec

\* A search finds the space's own nearest items, all of them or TopK, whatever other spaces hold
\* and whatever was rejected (GraphStore.vector_search).
THEOREM NearestAlwaysExact ==
  AnsweringSpec => []NearestIsExact
<1>1. AnsweringInv => NearestIsExact
  BY DEF AnsweringInv
<1> QED BY <1>1, AnsweringInvariant, PTL

\* A node that comes first wherever another is found is fused above it, and only the first of
\* every list reaches the best score (_rrf).
THEOREM FusionAlwaysFair ==
  AnsweringSpec => []FusionIsFair
<1>1. AnsweringInv => FusionIsFair
  <2> SUFFICES ASSUME AnsweringInv PROVE FusionIsFair
    OBVIOUS
  <2>1. CASE stage = "fused"
    BY <2>1, FusedFair DEF AnsweringInv
  <2>2. CASE stage # "fused"
    BY <2>2 DEF FusionIsFair
  <2> QED BY <2>1, <2>2
<1> QED BY <1>1, AnsweringInvariant, PTL

\* Answers are made from, and cite, the space's own items that were not rejected.
THEOREM ContextAlwaysLive ==
  AnsweringSpec => []ContextIsLive
<1>1. AnsweringInv => ContextIsLive
  BY ContextFacts DEF AnsweringInv, ContextIsLive
<1> QED BY <1>1, AnsweringInvariant, PTL

\* A replaced decision, and one declared so, is marked in the prompt and in a made-up answer; an item
\* of the prompt that was hit itself is shown with exactly what replaced it, if anything did
\* (_build_context).  What came from the graph, and a made-up answer, name no replacement.
THEOREM StaleAlwaysMarked ==
  AnsweringSpec => []StaleIsMarked
<1>1. AnsweringInv => StaleIsMarked
  <2> SUFFICES ASSUME AnsweringInv PROVE StaleIsMarked
    OBVIOUS
  <2>1. \A h \in ToSet(context) \union told : h.stale = Stale(h.id)
    BY ContextFacts DEF AnsweringInv, Usable
  <2>2. \A e \in Prompt \union told : e.stale = Stale(e.id)
    BY <2>1 DEF Prompt, PromptEntry
  <2>3. ASSUME stage \in {"explained", "answered"}, NEW h \in ToSet(Primary)
        PROVE  PromptEntry(h).replacedBy = Replacers(h.id)
    <3>1. h \in ToSet(context) /\ h.by # "graph"
      BY PrimaryFacts
    <3> QED BY <2>3, <3>1 DEF PromptEntry, AnsweringInv, StaleExplained
  <2> QED BY <2>2, <2>3 DEF StaleIsMarked
<1> QED BY <1>1, AnsweringInvariant, PTL

-----------------------------------------------------------------------------
(* What the records say.                                                   *)

\* Joined, sequences have the elements they had.
LEMMA JoinElements ==
  ASSUME NEW T, NEW a \in Seq(T), NEW b \in Seq(T)
  PROVE  a \o b \in Seq(T) /\ ToSet(a \o b) = ToSet(a) \union ToSet(b)
<1>1. a \o b \in Seq(T) /\ Len(a) \in Nat /\ Len(b) \in Nat /\ Len(a \o b) = Len(a) + Len(b)
      /\ DOMAIN a = 1..Len(a) /\ DOMAIN b = 1..Len(b) /\ DOMAIN (a \o b) = 1..Len(a \o b)
      /\ (\A n \in 1..Len(a) : (a \o b)[n] = a[n])
      /\ \A n \in 1..Len(b) : (a \o b)[Len(a) + n] = b[n]
  OBVIOUS
<1>2. \A n \in 1..Len(a \o b) : n \in 1..Len(a) \/ \E m \in 1..Len(b) : n = Len(a) + m
  <2> SUFFICES ASSUME NEW n \in 1..Len(a \o b), n \notin 1..Len(a)
               PROVE  \E m \in 1..Len(b) : n = Len(a) + m
    OBVIOUS
  <2>1. n - Len(a) \in 1..Len(b) /\ n = Len(a) + (n - Len(a))
    BY <1>1
  <2> QED BY <2>1
<1>3. \A n \in 1..Len(a) : n \in 1..Len(a \o b)
  BY <1>1
<1>4. \A n \in 1..Len(b) : Len(a) + n \in 1..Len(a \o b)
  BY <1>1
<1>5. ToSet(a \o b) \in SUBSET (ToSet(a) \union ToSet(b))
  BY SMTT(30), <1>1, <1>2 DEF ToSet
<1>6. ToSet(a) \in SUBSET ToSet(a \o b)
  BY <1>1, <1>3 DEF ToSet
<1>7. ToSet(b) \in SUBSET ToSet(a \o b)
  BY <1>1, <1>4 DEF ToSet
<1> QED BY <1>1, <1>5, <1>6, <1>7

\* Joining goes from the left; that CHOOSE finds the function of all that is joined so far, which a
\* recursive definition is, has to be shown.
LEMMA FlattenSteps ==
  ASSUME NEW T, NEW ss \in Seq(Seq(T)), ss # <<>>
  PROVE  \E v : /\ FlattenSeq(ss) = v[Len(ss)]
                /\ \A i \in 1..Len(ss) : v[i] = IF i = 1 THEN ss[i] ELSE v[i - 1] \o ss[i]
<1> DEFINE top == Len(ss)
           F(f) == [i \in 1..top |-> IF i = 1 THEN ss[i] ELSE f[i - 1] \o ss[i]]
           w == CHOOSE f : f = F(f)
           Joined(f, m) ==
             /\ f = [i \in 1..m |-> f[i]]
             /\ \A i \in 1..m : /\ f[i] \in Seq(T)
                                /\ f[i] = IF i = 1 THEN ss[i] ELSE f[i - 1] \o ss[i]
<1>1. top \in Nat /\ \A n \in 1..top : ss[n] \in Seq(T)
  OBVIOUS
<1>2. top # 0
  OBVIOUS
<1>3. \E v : /\ FlattenSeq(ss) = v[top]
             /\ \A i \in 1..top : v[i] = IF i = 1 THEN ss[i] ELSE v[i - 1] \o ss[i]
  <2>1. FlattenSeq(ss) = w[top]
    BY <1>2 DEF FlattenSeq
  <2>a. \A f, m : Joined(f, m) <=>
             /\ f = [i \in 1..m |-> f[i]]
             /\ \A i \in 1..m : /\ f[i] \in Seq(T)
                                /\ f[i] = IF i = 1 THEN ss[i] ELSE f[i - 1] \o ss[i]
    OBVIOUS
  <2>b. \A f : F(f) = [i \in 1..top |-> IF i = 1 THEN ss[i] ELSE f[i - 1] \o ss[i]]
    OBVIOUS
  <2>c. (\E f : f = F(f)) => w = F(w)
    <3> HIDE DEF F
    <3> QED OBVIOUS
  <2> HIDE DEF top, Joined, w, F
  <2> DEFINE B == {m \in Nat : m <= top /\ ~ \E f : Joined(f, m)}
  <2>2. B = {}
    <3> SUFFICES ASSUME B # {} PROVE FALSE
      OBVIOUS
    <3>1. PICK k \in B : \A n \in B : k <= n
      <4>1. B \in SUBSET Nat
        OBVIOUS
      <4> HIDE DEF B
      <4> QED BY <4>1, Least
    <3>2. CASE k = 0
      <4> DEFINE none == [i \in 1..0 |-> ss[1]]
      <4>0. none = [i \in 1..0 |-> none[i]] /\ 1..0 = {}
        OBVIOUS
      <4> HIDE DEF none
      <4>1. Joined(none, 0)
        BY <2>a, <4>0
      <4> QED BY <3>1, <3>2, <4>1
    <3>3. CASE k # 0
      <4>a. k \in Nat /\ k <= top
        BY <3>1
      <4>1. k - 1 \in Nat /\ k - 1 \notin B /\ k \in 1..top
        <5> HIDE DEF B
        <5> QED BY <1>1, <3>1, <3>3, <4>a
      <4>b. k - 1 <= top
        BY <1>1, <4>a
      <4>2. PICK f : Joined(f, k - 1)
        BY <4>1, <4>b
      <4> DEFINE g == [i \in 1..k |-> IF i = k THEN (IF k = 1 THEN ss[k] ELSE f[k - 1] \o ss[k]) ELSE f[i]]
      <4>3. ASSUME NEW i \in 1..k
            PROVE  g[i] \in Seq(T) /\ g[i] = IF i = 1 THEN ss[i] ELSE g[i - 1] \o ss[i]
        <5>1. CASE i # k
          <6>1. i \in 1..(k - 1) /\ g[i] = f[i] /\ (i # 1 => g[i - 1] = f[i - 1])
            BY <4>1, <5>1
          <6> QED BY <2>a, <4>2, <6>1
        <5>2. CASE i = k /\ k = 1
          BY <1>1, <4>1, <5>2
        <5>3. CASE i = k /\ k # 1
          <6>1. k - 1 \in 1..(k - 1) /\ k - 1 \in 1..k /\ k - 1 # k /\ ss[k] \in Seq(T)
            BY <1>1, <4>1, <5>3
          <6>2. f[k - 1] \in Seq(T) /\ g[k - 1] = f[k - 1] /\ g[k] = f[k - 1] \o ss[k]
            BY <2>a, <4>2, <5>3, <6>1
          <6>3. i = k /\ i # 1 /\ f[k - 1] \o ss[k] \in Seq(T)
            BY <5>3, <6>1, <6>2
          <6> HIDE DEF g
          <6> QED BY <6>2, <6>3
        <5> QED BY <5>1, <5>2, <5>3
      <4>4. Joined(g, k)
        <5>1. g = [i \in 1..k |-> g[i]]
          OBVIOUS
        <5> HIDE DEF g
        <5> QED BY <2>a, <4>3, <5>1
      <4> QED BY <3>1, <4>4
    <3> QED BY <3>2, <3>3
  <2>3. PICK f : Joined(f, top)
    <3>1. top \in Nat /\ top <= top
      BY <1>1
    <3> QED BY <2>2, <3>1
  <2>4. f = F(f)
    <3>1. f = [i \in 1..top |-> f[i]] /\ \A i \in 1..top : f[i] = IF i = 1 THEN ss[i] ELSE f[i - 1] \o ss[i]
      BY <2>3, <2>a
    <3> QED BY <2>b, <3>1
  <2>5. w = F(w)
    BY <2>c, <2>4
  <2>6. \A i \in 1..top : w[i] = IF i = 1 THEN ss[i] ELSE w[i - 1] \o ss[i]
    <3>1. \A i \in 1..top : F(w)[i] = IF i = 1 THEN ss[i] ELSE w[i - 1] \o ss[i]
      BY <2>b
    <3> QED BY <2>5, <3>1
  <2> QED BY <2>1, <2>6
<1> QED BY <1>3

LEMMA FlattenElements ==
  ASSUME NEW T, NEW ss \in Seq(Seq(T))
  PROVE  /\ FlattenSeq(ss) \in Seq(T)
         /\ ToSet(FlattenSeq(ss)) = UNION {ToSet(ss[n]) : n \in 1..Len(ss)}
<1> DEFINE top == Len(ss)
<1>1. top \in Nat /\ \A n \in 1..top : ss[n] \in Seq(T)
  OBVIOUS
<1>2. CASE top = 0
  <2>1. FlattenSeq(ss) = ss /\ ss = <<>>
    BY <1>2 DEF FlattenSeq
  <2>2. ToSet(<<>>) = {} /\ {ToSet(ss[n]) : n \in 1..Len(ss)} = {}
    BY <1>2 DEF ToSet
  <2> QED BY <2>1, <2>2
<1>3. CASE top # 0
  <2>1. PICK w : /\ FlattenSeq(ss) = w[top]
                 /\ \A i \in 1..top : w[i] = IF i = 1 THEN ss[i] ELSE w[i - 1] \o ss[i]
    BY SMTT(30), <1>3, FlattenSteps
  <2> HIDE DEF top
  <2> DEFINE C == {m \in Nat : m \in 1..top /\ ~ (/\ w[m] \in Seq(T)
                                                  /\ ToSet(w[m]) = UNION {ToSet(ss[n]) : n \in 1..m})}
  <2>7. C = {}
    <3> SUFFICES ASSUME C # {} PROVE FALSE
      OBVIOUS
    <3>1. PICK k \in C : \A n \in C : k <= n
      <4>1. C \in SUBSET Nat
        OBVIOUS
      <4> HIDE DEF C
      <4> QED BY <4>1, Least
    <3>2. k \in 1..top /\ ss[k] \in Seq(T)
      BY <1>1, <3>1
    <3>3. CASE k = 1
      <4>1. w[k] = ss[1] /\ UNION {ToSet(ss[n]) : n \in 1..k} = ToSet(ss[1])
        BY <2>1, <3>2, <3>3
      <4> QED BY <3>1, <3>2, <3>3, <4>1
    <3>4. CASE k # 1
      <4>a. k - 1 \in 1..top /\ k - 1 \in Nat /\ ~ (k <= k - 1)
        BY <1>1, <3>2, <3>4
      <4>1. k - 1 \in 1..top /\ k - 1 \notin C
        <5> HIDE DEF C
        <5> QED BY <3>1, <4>a
      <4>2. w[k - 1] \in Seq(T) /\ ToSet(w[k - 1]) = UNION {ToSet(ss[n]) : n \in 1..(k - 1)}
        BY <1>1, <4>1
      <4>3. w[k] = w[k - 1] \o ss[k]
        BY <2>1, <3>2, <3>4
      <4>4. w[k] \in Seq(T) /\ ToSet(w[k]) = ToSet(w[k - 1]) \union ToSet(ss[k])
        <5> DEFINE a == w[k - 1]
                   b == ss[k]
        <5>1. a \in Seq(T) /\ b \in Seq(T)
          BY <3>2, <4>2
        <5> HIDE DEF a, b
        <5>2. a \o b \in Seq(T) /\ ToSet(a \o b) = ToSet(a) \union ToSet(b)
          BY <5>1, JoinElements
        <5> QED BY <4>3, <5>2 DEF a, b
      <4>5. \A n : n \in 1..k <=> n \in 1..(k - 1) \/ n = k
        BY <1>1, <3>2, <3>4
      <4>6. \A x : x \in UNION {ToSet(ss[n]) : n \in 1..k} <=> \E n \in 1..k : x \in ToSet(ss[n])
        OBVIOUS
      <4>7. \A x : x \in UNION {ToSet(ss[n]) : n \in 1..(k - 1)} <=> \E n \in 1..(k - 1) : x \in ToSet(ss[n])
        OBVIOUS
      <4>8. UNION {ToSet(ss[n]) : n \in 1..k} = ToSet(w[k])
        BY <4>2, <4>4, <4>5, <4>6, <4>7
      <4> QED BY <3>1, <4>4, <4>8
    <3> QED BY <3>3, <3>4
  <2>8. top \in 1..top /\ top \in Nat
    BY <1>1, <1>3
  <2>9. w[top] \in Seq(T) /\ ToSet(w[top]) = UNION {ToSet(ss[n]) : n \in 1..top}
    BY <2>7, <2>8
  <2> QED BY <2>1, <2>9 DEF top
<1> QED BY <1>2, <1>3

\* A set of numbers that ends has a last one.
LEMMA LastOne ==
  ASSUME NEW S \in SUBSET Int, IsFiniteSet(S), S # {}
  PROVE  \E m \in S : \A n \in S : n <= m
<1> DEFINE c == Cardinality(S)
           q == InOrder(S)
<1>1. /\ q \in [1..c -> S] /\ c \in Nat
      /\ \A m, n \in 1..c : m < n => q[m] < q[n]
      /\ \A x \in S : \E n \in 1..c : q[n] = x
  BY InOrderFacts
<1> HIDE DEF c, q
<1>2. c \in 1..c
  <2>1. PICK x \in S : \E n \in 1..c : q[n] = x
    BY <1>1
  <2> QED BY <1>1, <2>1
<1>3. q[c] \in S
  BY <1>1, <1>2
<1>4. ASSUME NEW x \in S PROVE x <= q[c]
  <2>1. PICK n \in 1..c : q[n] = x
    BY <1>1
  <2>2. n = c \/ n < c
    BY <1>1
  <2>3. n < c => q[n] < q[c]
    BY <1>1, <1>2
  <2>4. q[c] \in Int
    BY <1>3
  <2> QED BY <2>1, <2>2, <2>3, <2>4
<1> QED BY <1>3, <1>4

Edge(S) == [newer : S, kind : {"supersedes", "amends", "reverses"}, older : S]

\* A reference is to one of the files looked at, or to none.
LEMMA ResolveFacts ==
  ASSUME NEW S \in SUBSET File, NEW target
  PROVE  Resolve(S, target) \in S \union {Nothing}
<1> DEFINE named == {f \in S : target \in {Name[f], Number[f]}}
<1>1. named \in SUBSET S
  OBVIOUS
<1>2. Resolve(S, target) = IF named = {} THEN Nothing ELSE CHOOSE f \in named : \A g \in named : g <= f
  BY DEF Resolve
<1> HIDE DEF named
<1>3. CASE named # {}
  <2>1. named \in SUBSET Int /\ IsFiniteSet(named)
    BY <1>1, AdrsAssumption, FS_Subset
  <2>2. \E f \in named : \A g \in named : g <= f
    BY <1>3, <2>1, LastOne
  <2> QED BY <1>1, <1>2, <1>3, <2>2
<1> QED BY <1>1, <1>2, <1>3

Relation(W) == [kind : {"supersedes", "amends"}, target : W, otherIsNewer : BOOLEAN]

\* A line gives relations to what it names.
LEMMA RelationsFacts ==
  ASSUME NEW W, NEW line \in Seq(W)
  PROVE  RelationsIn(line) \in Seq(Relation(W))
<1> DEFINE said == {r \in DOMAIN Relations : Relations[r].phrase \in ToSet(line)}
           first == CHOOSE r \in said : \A q \in said : r <= q
           r == Relations[first]
           P == {n \in DOMAIN line : /\ \E m \in 1..n : line[m] = r.phrase
                                     /\ \A q \in DOMAIN Relations : line[n] # Relations[q].phrase}
           refs == At(line, P)
<1>1. RelationsIn(line) = IF said = {} THEN <<>>
                          ELSE [n \in DOMAIN refs |-> [kind |-> r.kind, target |-> refs[n],
                                                       otherIsNewer |-> r.otherIsNewer]]
  BY DEF RelationsIn
<1>2. CASE said = {}
  BY <1>1, <1>2
<1>3. CASE said # {}
  <2>1. said \in SUBSET (1..4) /\ said \in SUBSET Nat
    <3>1. DOMAIN Relations = 1..4
      BY DEF Relations
    <3>2. said \in SUBSET DOMAIN Relations
      OBVIOUS
    <3>3. 1..4 \in SUBSET Nat
      OBVIOUS
    <3> HIDE DEF said
    <3> QED BY <3>1, <3>2, <3>3
  <2>2. \E s \in said : \A q \in said : s <= q
    <3> HIDE DEF said
    <3> QED BY <1>3, <2>1, Least
  <2>3. first \in said
    <3> HIDE DEF said
    <3> QED BY <2>2
  <2>4. first \in 1..4
    BY <2>1, <2>3
  <2>5. r.kind \in {"supersedes", "amends"} /\ r.otherIsNewer \in BOOLEAN
    <3> HIDE DEF first
    <3>1. \A n \in 1..4 : Relations[n].kind \in {"supersedes", "amends"} /\ Relations[n].otherIsNewer \in BOOLEAN
      <4>1. /\ Relations[1].kind = "supersedes" /\ Relations[1].otherIsNewer = TRUE
            /\ Relations[2].kind = "supersedes" /\ Relations[2].otherIsNewer = FALSE
            /\ Relations[3].kind = "amends" /\ Relations[3].otherIsNewer = TRUE
            /\ Relations[4].kind = "amends" /\ Relations[4].otherIsNewer = FALSE
        BY DEF Relations
      <4>2. \A n \in 1..4 : n = 1 \/ n = 2 \/ n = 3 \/ n = 4
        OBVIOUS
      <4> QED BY <4>1, <4>2
    <3> QED BY <2>4, <3>1
  <2>6. P \in SUBSET DOMAIN line
    OBVIOUS
  <2> HIDE DEF P, r, said
  <2>7. refs \in Seq(W)
    BY <2>6, AtFacts
  <2> HIDE DEF refs
  <2>8. \A n \in 1..Len(refs) : [kind |-> r.kind, target |-> refs[n], otherIsNewer |-> r.otherIsNewer]
                                  \in Relation(W)
    BY <2>5, <2>7 DEF Relation
  <2>9. RelationsIn(line) = [n \in 1..Len(refs) |-> [kind |-> r.kind, target |-> refs[n],
                                                    otherIsNewer |-> r.otherIsNewer]]
    BY SMTT(30), <1>1, <1>3, <2>7
  <2> QED BY <2>7, <2>8, <2>9
<1> QED BY <1>2, <1>3

\* What is found are links between two of the files looked at.
LEMMA FoundFacts ==
  ASSUME NEW S \in SUBSET File, \A f \in S : adr[f] \in AdrText
  PROVE  Found(S) \in Seq(Edge(S))
<1> DEFINE Link(f, r) == LET other == Resolve(S, r.target)
                         IN IF r.otherIsNewer THEN [newer |-> other, kind |-> r.kind, older |-> f]
                            ELSE [newer |-> f, kind |-> r.kind, older |-> other]
           rs(f) == FlattenSeq([n \in DOMAIN adr[f].lines |-> RelationsIn(adr[f].lines[n])])
           all(f) == [n \in DOMAIN rs(f) |-> Link(f, rs(f)[n])]
           P(f) == {n \in DOMAIN all(f) : Nothing \notin {all(f)[n].newer, all(f)[n].older}
                                          /\ all(f)[n].newer # all(f)[n].older}
           files == InOrder(S)
<1>1. Found(S) = FlattenSeq([n \in DOMAIN files |-> At(all(files[n]), P(files[n]))])
  BY DEF Found, Where
<1>2. ASSUME NEW f \in S PROVE At(all(f), P(f)) \in Seq(Edge(S))
  <2> DEFINE lines == adr[f].lines
             W == UNION {ToSet(l) : l \in ToSet(lines)}
             relations == [n \in DOMAIN lines |-> RelationsIn(lines[n])]
             N == S \union {Nothing}
             Wide == [newer : N, kind : {"supersedes", "amends", "reverses"}, older : N]
  <2>1. lines \in Seq(Seq(W))
    BY AdrsAssumption
  <2> HIDE DEF W, lines
  <2>2. relations \in Seq(Seq(Relation(W)))
    <3>1. ASSUME NEW n \in 1..Len(lines) PROVE RelationsIn(lines[n]) \in Seq(Relation(W))
      <4>1. lines[n] \in Seq(W)
        BY <2>1
      <4> QED BY <4>1, RelationsFacts
    <3>2. DOMAIN lines = 1..Len(lines) /\ Len(lines) \in Nat
      BY <2>1
    <3> QED BY <3>1, <3>2
  <2>3. rs(f) = FlattenSeq(relations)
    BY DEF lines
  <2> HIDE DEF relations
  <2>4. rs(f) \in Seq(Relation(W))
    BY <2>2, <2>3, FlattenElements
  <2>5. \A r \in Relation(W) : Link(f, r) \in Wide
    <3> SUFFICES ASSUME NEW r \in Relation(W) PROVE Link(f, r) \in Wide
      OBVIOUS
    <3>1. Resolve(S, r.target) \in N /\ r.kind \in {"supersedes", "amends", "reverses"} /\ f \in N
      BY ResolveFacts DEF Relation
    <3> HIDE DEF N
    <3> QED BY <3>1
  <2>6. all(f) = [n \in DOMAIN rs(f) |-> Link(f, rs(f)[n])]
    OBVIOUS
  <2> DEFINE q == rs(f)
             a == all(f)
             places == P(f)
  <2>7. places = {n \in DOMAIN a : Nothing \notin {a[n].newer, a[n].older} /\ a[n].newer # a[n].older}
    OBVIOUS
  <2> HIDE DEF Link, q, a, places, rs, Wide
  <2>8. a \in Seq(Wide)
    <3>1. q \in Seq(Relation(W)) /\ a = [n \in DOMAIN q |-> Link(f, q[n])]
      BY <2>4, <2>6 DEF q, a
    <3>2. \A n \in 1..Len(q) : Link(f, q[n]) \in Wide
      BY <2>5, <3>1
    <3> QED BY <3>1, <3>2
  <2>9. At(a, places) \in Seq(Wide) /\ ToSet(At(a, places)) = {a[n] : n \in places}
    <3>1. places \in SUBSET DOMAIN a
      BY <2>7
    <3> QED BY <2>8, <3>1, AtFacts, AtElements
  <2>10. ASSUME NEW n \in places PROVE a[n] \in Edge(S)
    <3>1. a[n] \in Wide /\ Nothing \notin {a[n].newer, a[n].older}
      BY <2>7, <2>8
    <3> QED BY <3>1 DEF Wide, Edge
  <2> DEFINE b == At(a, places)
  <2>11. b \in Seq(Wide) /\ \A n \in 1..Len(b) : b[n] \in Edge(S)
    <3>1. DOMAIN b = 1..Len(b)
      BY <2>9
    <3>2. \A n \in 1..Len(b) : b[n] \in ToSet(b)
      BY <3>1 DEF ToSet
    <3> QED BY <2>9, <2>10, <3>2
  <2> HIDE DEF b
  <2>12. b \in Seq(Edge(S))
    BY <2>11
  <2> QED BY <2>12 DEF a, b, places
<1>3. files \in [1..Cardinality(S) -> S] /\ Cardinality(S) \in Nat
  <2>1. S \in SUBSET Int /\ IsFiniteSet(S)
    BY ZenonT(60), AdrsAssumption, FS_Subset
  <2> QED BY <2>1, InOrderFacts
<1> DEFINE Of(f) == At(all(f), P(f))
<1>4. \A f \in S : Of(f) \in Seq(Edge(S))
  BY ZenonT(60), <1>2
<1>5. Found(S) = FlattenSeq([n \in DOMAIN files |-> Of(files[n])])
  BY <1>1
<1> HIDE DEF Of, files
<1>6. [n \in DOMAIN files |-> Of(files[n])] \in Seq(Seq(Edge(S)))
  BY <1>3, <1>4
<1> QED BY <1>5, <1>6, FlattenElements

-----------------------------------------------------------------------------
(* The records there are.                                                  *)

Present == {f \in File : adr[f] # Nothing}

AdrsTypes ==
  /\ adr \in [File -> AdrText \union {Nothing}]
  /\ syncHash \in [File -> [text : AdrText, declared : Declared \union {Nothing}] \union {Nothing}]
  /\ decision \in [File -> [title : {t.title : t \in AdrText}, declared : Declared \union {Nothing}] \union {Nothing}]
  /\ syncStage \in {"rest", "storing", "linking"}
  /\ docs \in Seq([file : File, text : AdrText, declared : Declared \union {Nothing}])
  /\ links \in Seq(Edge(File))
  /\ failed \in SUBSET File /\ torn \in SUBSET File /\ evolves \in SUBSET Edge(File)

\* The files a sync that reads all there is makes documents of, and the documents.
Readable == {f \in ListAdrs : adr[f].word # Nothing}
Doc(f) == [file |-> f, text |-> adr[f], declared |-> DeclaredStatus(f, Readable)]

\* A file that is listed is there.
LEMMA ListFiles ==
  ListAdrs \in SUBSET Present
<1> DEFINE s == InOrder(Present)
<1>1. s \in [1..Cardinality(Present) -> Present] /\ Cardinality(Present) \in Nat
  <2>1. Present \in SUBSET Int /\ IsFiniteSet(Present)
    BY AdrsAssumption, FS_Subset DEF Present
  <2> QED BY <2>1, InOrderFacts
<1>2. ListAdrs = ToSet(First(s, MaxFiles))
  BY DEF ListAdrs, Present
<1> DEFINE q == First(s, MaxFiles)
<1> HIDE DEF s
<1>3. s \in Seq(Present) /\ MaxFiles \in Nat
  BY <1>1, AdrsAssumption
<1>4. q \in Seq(Present)
  BY <1>3, FirstFacts
<1> HIDE DEF q
<1>5. DOMAIN q = 1..Len(q) /\ \A n \in 1..Len(q) : q[n] \in Present
  BY <1>4
<1> QED BY <1>2, <1>5 DEF ToSet, q

\* A record declares one of the statuses there are, or none.
LEMMA DeclaresFacts ==
  ASSUME NEW f, NEW S
  PROVE  DeclaredStatus(f, S) \in Declared \union {Nothing}
<1>1. Declares(adr[f].word) \in Declared \union {Nothing}
  BY DEF Declares, Declared
<1> QED BY <1>1 DEF DeclaredStatus

\* What the records say is a matter of the checkout alone.
LEMMA SameRecords ==
  ASSUME UNCHANGED adr
  PROVE  /\ Readable' = Readable
         /\ Found(Readable)' = Found(Readable)
         /\ \A f : Doc(f)' = Doc(f)
<1>1. ListAdrs' = ListAdrs
  BY DEF ListAdrs
<1>2. Readable' = Readable
  BY <1>1 DEF Readable
<1>3. Found(Readable)' = Found(Readable)
  BY <1>2 DEF Found, Where
<1>4. ASSUME NEW f PROVE Doc(f)' = Doc(f)
  BY <1>2, <1>3 DEF Doc, DeclaredStatus
<1> QED BY <1>2, <1>3, <1>4

-----------------------------------------------------------------------------
(* A link that was refused stays one that would be, until edges go.        *)

Wider(E, X) == X \union {e.older : e \in {d \in E : d.newer \in X}}

\* What is reached through at most so many edges.
Levels(w, E, start, m) ==
  /\ w = [n \in 0..m |-> w[n]] /\ w[0] = {start}
  /\ \A n \in 1..m : w[n] = Wider(E, w[n - 1])

LEMMA LevelsExist ==
  ASSUME NEW E, NEW start, NEW top \in Nat
  PROVE  \E w : Levels(w, E, start, top)
<1> DEFINE T == {k \in Nat : ~ \E w : Levels(w, E, start, k)}
<1> SUFFICES ASSUME T # {} PROVE FALSE
  OBVIOUS
<1>1. PICK k \in T : \A n \in T : k <= n
  <2>1. T \in SUBSET Nat
    OBVIOUS
  <2> HIDE DEF T
  <2> QED BY <2>1, Least
<1>2. CASE k = 0
  <2>1. Levels([n \in 0..0 |-> {start}], E, start, 0)
    BY DEF Levels
  <2> QED BY <1>1, <1>2, <2>1
<1>3. CASE k # 0
  <2>1. k - 1 \in Nat /\ k - 1 \notin T /\ k \in Nat
    BY <1>1, <1>3
  <2>2. PICK w : Levels(w, E, start, k - 1)
    BY <2>1
  <2> DEFINE v == [n \in 0..k |-> IF n = k THEN Wider(E, w[k - 1]) ELSE w[n]]
  <2>3. v = [n \in 0..k |-> v[n]] /\ v[0] = {start}
    BY <1>3, <2>1, <2>2 DEF Levels
  <2>4. ASSUME NEW n \in 1..k PROVE v[n] = Wider(E, v[n - 1])
    <3>1. CASE n = k
      BY <2>1, <3>1
    <3>2. CASE n # k
      <4>1. n \in 1..(k - 1) /\ v[n] = w[n] /\ v[n - 1] = w[n - 1]
        BY <2>1, <3>2
      <4> QED BY <2>2, <4>1 DEF Levels
    <3> QED BY <3>1, <3>2
  <2>5. Levels(v, E, start, k)
    <3> HIDE DEF v
    <3> QED BY <2>3, <2>4 DEF Levels
  <2> QED BY <1>1, <2>5
<1> QED BY <1>2, <1>3

\* Reached is one of the levels.
LEMMA ReachedIsLevel ==
  ASSUME NEW E, NEW start
  PROVE  \E w : Levels(w, E, start, Cardinality(File)) /\ Reached(E, start) = w[Cardinality(File)]
<1> DEFINE top == Cardinality(File)
           Step(f) == [n \in 0..top |-> IF n = 0 THEN {start}
                        ELSE f[n - 1] \union {e.older : e \in {d \in E : d.newer \in f[n - 1]}}]
           s == CHOOSE f : f = Step(f)
<1>1. Reached(E, start) = s[top]
  BY DEF Reached
<1>2. top \in Nat
  BY AdrsAssumption, FS_CardinalityType
<1>3. PICK w : Levels(w, E, start, top)
  BY <1>2, LevelsExist
<1> HIDE DEF top
<1>4. w = Step(w)
  <2>1. \A n \in 0..top : w[n] = Step(w)[n]
    <3> SUFFICES ASSUME NEW n \in 0..top PROVE w[n] = Step(w)[n]
      OBVIOUS
    <3>1. CASE n = 0
      BY <1>3, <3>1 DEF Levels
    <3>2. CASE n # 0
      <4>1. n \in 1..top
        BY <1>2, <3>2
      <4> QED BY <1>3, <3>2, <4>1 DEF Levels, Wider
    <3> QED BY <3>1, <3>2
  <2>2. w = [n \in 0..top |-> w[n]]
    BY <1>3 DEF Levels
  <2> QED BY <2>1, <2>2
<1>5. s = Step(s)
  <2> HIDE DEF Step
  <2> QED BY <1>4
<1>6. Levels(s, E, start, top)
  <2> HIDE DEF s
  <2>1. s = [n \in 0..top |-> Step(s)[n]]
    BY <1>5
  <2>2. \A n \in 0..top : s[n] = Step(s)[n]
    BY <1>5
  <2>3. s = [n \in 0..top |-> s[n]]
    BY <2>1, <2>2
  <2>4. s[0] = {start}
    <3>1. 0 \in 0..top
      BY <1>2
    <3>2. Step(s)[0] = {start}
      BY <3>1
    <3> QED BY <2>2, <3>1, <3>2
  <2>5. ASSUME NEW n \in 1..top PROVE s[n] = Wider(E, s[n - 1])
    <3>1. n \in 0..top /\ n # 0
      BY <1>2
    <3> QED BY <2>2, <3>1 DEF Wider
  <2> QED BY <2>3, <2>4, <2>5 DEF Levels
<1> QED BY <1>1, <1>6 DEF top

\* More edges reach no less.
LEMMA ReachedGrows ==
  ASSUME NEW F, NEW E \in SUBSET F, NEW start
  PROVE  Reached(E, start) \in SUBSET Reached(F, start)
<1> DEFINE top == Cardinality(File)
<1>1. PICK v : Levels(v, E, start, top) /\ Reached(E, start) = v[top]
  BY ReachedIsLevel
<1>2. PICK w : Levels(w, F, start, top) /\ Reached(F, start) = w[top]
  BY ReachedIsLevel
<1>3. top \in Nat
  BY AdrsAssumption, FS_CardinalityType
<1> HIDE DEF top
<1> DEFINE T == {k \in Nat : k <= top /\ ~ (v[k] \in SUBSET w[k])}
<1>4. T = {}
  <2> SUFFICES ASSUME T # {} PROVE FALSE
    OBVIOUS
  <2>1. PICK k \in T : \A n \in T : k <= n
    <3>1. T \in SUBSET Nat
      OBVIOUS
    <3> HIDE DEF T
    <3> QED BY <3>1, Least
  <2>2. k # 0
    BY <1>1, <1>2, <2>1 DEF Levels
  <2>3. k - 1 \in Nat /\ k - 1 <= top /\ k - 1 \notin T /\ k \in 1..top
    <3>1. k \in Nat /\ k <= top
      BY <2>1
    <3> HIDE DEF T
    <3> QED BY <1>3, <2>1, <2>2, <3>1
  <2>4. v[k - 1] \in SUBSET w[k - 1]
    BY <2>3
  <2>5. v[k] = Wider(E, v[k - 1]) /\ w[k] = Wider(F, w[k - 1])
    BY <1>1, <1>2, <2>3 DEF Levels
  <2>6. v[k] \in SUBSET w[k]
    BY <2>4, <2>5 DEF Wider
  <2> QED BY <2>1, <2>6
<1>5. top \notin T
  BY <1>4
<1>6. v[top] \in SUBSET w[top]
  BY <1>3, <1>5
<1> QED BY <1>1, <1>2, <1>6

\* So a link that edges refuse, more edges refuse.
LEMMA RefusedStays ==
  ASSUME NEW e, ~CanLink(e), evolves \in SUBSET evolves'
  PROVE  ~CanLink(e)'
<1>1. CanLink(e)' <=> /\ \A d \in evolves' : {d.newer, d.older} # {e.newer, e.older}
                      /\ e.newer \notin Reached(evolves', e.older)
  BY DEF CanLink
<1>2. Reached(evolves, e.older) \in SUBSET Reached(evolves', e.older)
  BY ReachedGrows
<1> QED BY <1>1, <1>2 DEF CanLink

-----------------------------------------------------------------------------
(* A sync.                                                                 *)

\* What is recorded of a document is what its decision shows, unless a sync stored a part of it.
Stored ==
  \A f \in File : syncHash[f] # Nothing =>
    /\ decision[f] # Nothing
    /\ f \notin torn /\ syncHash[f].declared # Nothing => decision[f].declared = syncHash[f].declared

\* While a sync goes well, each record's document is still to be stored, or recorded as it is.
DocsRight ==
  syncStage # "rest" /\ failed = {} =>
    /\ \A n \in 1..Len(docs) : docs[n].file \in Readable /\ docs[n] = Doc(docs[n].file)
    /\ \A f \in Readable : Doc(f) \in ToSet(docs) \/ syncHash[f] = Hash(Doc(f))

\* And each link that was found is still to be made, is made, or is refused.
LinksRight ==
  syncStage # "rest" /\ failed = {} =>
    /\ links \in Seq(Edge(Readable))
    /\ \A e \in ToSet(Found(Readable)) :
         e \in ToSet(links) \/ (syncStage = "linking" /\ (e \in evolves \/ ~CanLink(e)))

AdrsInv ==
  /\ AdrsTypes /\ Stored /\ DocsRight /\ LinksRight
  /\ syncStage = "linking" => docs = <<>>

\* The documents and the links fetched from S, as Fetch has them.
DocsOf(S) ==
  LET files == InOrder(S)
  IN  [n \in DOMAIN files |-> [file |-> files[n], text |-> adr[files[n]], declared |-> DeclaredStatus(files[n], S)]]
LinksOf(S) ==
  LET files == InOrder(S)
      Newer(f) == Where(Found(S), LAMBDA e : e.newer = f)
  IN  FlattenSeq([n \in DOMAIN files |-> Newer(files[n])])

LEMMA DocsFacts ==
  ASSUME NEW S \in SUBSET File, \A f \in S : adr[f] \in AdrText
  PROVE  /\ DocsOf(S) \in Seq([file : S, text : AdrText, declared : Declared \union {Nothing}])
         /\ \A n \in 1..Len(DocsOf(S)) : LET f == DocsOf(S)[n].file IN
              DocsOf(S)[n] = [file |-> f, text |-> adr[f], declared |-> DeclaredStatus(f, S)]
         /\ \A f \in S : \E n \in 1..Len(DocsOf(S)) : DocsOf(S)[n].file = f
<1> DEFINE files == InOrder(S)
           c == Cardinality(S)
           D(f) == [file |-> f, text |-> adr[f], declared |-> DeclaredStatus(f, S)]
           q == DocsOf(S)
<1>1. /\ files \in [1..c -> S] /\ c \in Nat
      /\ \A x \in S : \E n \in 1..c : files[n] = x
  <2>1. S \in SUBSET Int /\ IsFiniteSet(S)
    BY AdrsAssumption, FS_Subset
  <2> QED BY <2>1, InOrderFacts
<1>2. q = [n \in DOMAIN files |-> D(files[n])]
  BY DEF DocsOf
<1>3. \A f \in S : /\ D(f) \in [file : S, text : AdrText, declared : Declared \union {Nothing}]
                   /\ D(f).file = f
  BY DeclaresFacts
<1> HIDE DEF files, c, q
<1>4. q = [n \in 1..c |-> D(files[n])]
  BY <1>1, <1>2
<1>5. q \in Seq([file : S, text : AdrText, declared : Declared \union {Nothing}]) /\ Len(q) = c
  <2> HIDE DEF D
  <2> QED BY <1>1, <1>3, <1>4
<1>6. ASSUME NEW n \in 1..c PROVE q[n] = D(q[n].file) /\ q[n].file = files[n]
  <2>1. q[n] = D(files[n]) /\ files[n] \in S
    BY <1>1, <1>4
  <2> QED BY <1>3, <2>1
<1>7. ASSUME NEW f \in S PROVE \E n \in 1..c : q[n].file = f
  <2>1. PICK n \in 1..c : files[n] = f
    BY <1>1
  <2> QED BY <1>6, <2>1
<1> QED BY <1>5, <1>6, <1>7 DEF q

\* Grouped by their newer ends, the links are those found.
LEMMA LinksFacts ==
  ASSUME NEW S \in SUBSET File, \A f \in S : adr[f] \in AdrText
  PROVE  /\ LinksOf(S) \in Seq(Edge(S))
         /\ ToSet(LinksOf(S)) = ToSet(Found(S))
<1> DEFINE files == InOrder(S)
           c == Cardinality(S)
           found == Found(S)
           places(f) == {n \in DOMAIN found : found[n].newer = f}
           N(f) == At(found, places(f))
           ss == [n \in DOMAIN files |-> N(files[n])]
<1>1. /\ files \in [1..c -> S] /\ c \in Nat
      /\ \A x \in S : \E n \in 1..c : files[n] = x
  <2>1. S \in SUBSET Int /\ IsFiniteSet(S)
    BY AdrsAssumption, FS_Subset
  <2> QED BY <2>1, InOrderFacts
<1>2. LinksOf(S) = FlattenSeq(ss)
  BY DEF LinksOf, Where
<1>3. found \in Seq(Edge(S))
  BY FoundFacts
<1> HIDE DEF found
<1>4. \A f : N(f) \in Seq(Edge(S)) /\ ToSet(N(f)) = {found[n] : n \in places(f)}
  <2> SUFFICES ASSUME NEW f PROVE N(f) \in Seq(Edge(S)) /\ ToSet(N(f)) = {found[n] : n \in places(f)}
    OBVIOUS
  <2> DEFINE P == places(f)
  <2>1. P \in SUBSET DOMAIN found
    OBVIOUS
  <2> HIDE DEF P
  <2>2. At(found, P) \in Seq(Edge(S)) /\ ToSet(At(found, P)) = {found[n] : n \in P}
    BY SMTT(30), <1>3, <2>1, AtFacts, AtElements
  <2> QED BY <2>2 DEF P
<1>5. \A f : {found[n] : n \in places(f)} = {e \in ToSet(found) : e.newer = f}
  BY DEF ToSet
<1>6. \A f : N(f) \in Seq(Edge(S)) /\ ToSet(N(f)) = {e \in ToSet(found) : e.newer = f}
  BY <1>4, <1>5
<1> HIDE DEF N, files, c
<1>7. ss \in Seq(Seq(Edge(S))) /\ Len(ss) = c /\ \A n \in 1..c : ss[n] = N(files[n])
  BY <1>1, <1>6
<1> HIDE DEF ss
<1>8. FlattenSeq(ss) \in Seq(Edge(S)) /\ ToSet(FlattenSeq(ss)) = UNION {ToSet(ss[n]) : n \in 1..Len(ss)}
  BY <1>7, FlattenElements
<1>9. UNION {ToSet(ss[n]) : n \in 1..Len(ss)} = ToSet(found)
  <2>1. \A n \in 1..c : ToSet(ss[n]) = {e \in ToSet(found) : e.newer = files[n]}
    BY <1>6, <1>7
  <2>2. UNION {ToSet(ss[n]) : n \in 1..c} \in SUBSET ToSet(found)
    BY <2>1
  <2>3. ASSUME NEW e \in ToSet(found) PROVE \E n \in 1..c : e \in ToSet(ss[n])
    <3>1. e \in Edge(S)
      <4>1. DOMAIN found = 1..Len(found) /\ \A n \in 1..Len(found) : found[n] \in Edge(S)
        BY <1>3
      <4> QED BY <4>1 DEF ToSet
    <3>2. e.newer \in S
      BY <3>1 DEF Edge
    <3>3. PICK n \in 1..c : files[n] = e.newer
      BY <1>1, <3>2
    <3> QED BY <2>1, <3>3
  <2> QED BY <1>7, <2>2, <2>3
<1> QED BY <1>2, <1>8, <1>9 DEF found

LEMMA Widen ==
  ASSUME NEW A, NEW B, A \in SUBSET B, NEW s \in Seq(A)
  PROVE  s \in Seq(B)
OBVIOUS

LEMMA ReadableFacts ==
  ASSUME AdrsTypes
  PROVE  /\ Readable \in SUBSET ListAdrs /\ ListAdrs \in SUBSET File
         /\ \A f \in ListAdrs : adr[f] \in AdrText
<1>1. ListAdrs \in SUBSET Present
  BY ListFiles
<1> QED BY <1>1 DEF AdrsTypes, Readable, Present

LEMMA AdrsStart ==
  AdrsInit => AdrsInv
<1> SUFFICES ASSUME AdrsInit PROVE AdrsInv
  OBVIOUS
<1>1. AdrsTypes
  <2>1. adr \in [File -> AdrText \union {Nothing}]
    BY DEF AdrsInit
  <2> QED BY <2>1 DEF AdrsInit, AdrsTypes
<1>2. Stored
  BY DEF AdrsInit, Stored
<1>3. syncStage = "rest"
  BY DEF AdrsInit
<1> QED BY <1>1, <1>2, <1>3 DEF AdrsInv, DocsRight, LinksRight

\* A sync that reads all there is makes its documents and links of just the readable records.
LEMMA FetchKeeps ==
  ASSUME AdrsInv, Fetch
  PROVE  AdrsInv'
<1> USE DEF AdrsInv
<1>1. PICK unreadable \in SUBSET ListAdrs :
        LET S == {f \in ListAdrs \ unreadable : adr[f].word # Nothing} IN
        /\ docs' = DocsOf(S) /\ links' = LinksOf(S) /\ failed' = unreadable
        /\ syncStage' = "storing"
        /\ UNCHANGED <<adr, syncHash, decision, evolves, torn>>
  BY DEF Fetch, DocsOf, LinksOf
<1> DEFINE S == {f \in ListAdrs \ unreadable : adr[f].word # Nothing}
<1>2. /\ Readable' = Readable /\ Found(Readable)' = Found(Readable)
      /\ \A f : Doc(f)' = Doc(f)
  BY <1>1, SameRecords
<1>3. S \in SUBSET File /\ (\A f \in S : adr[f] \in AdrText) /\ unreadable \in SUBSET File
  BY ReadableFacts
<1>4. unreadable = {} => S = Readable
  BY DEF Readable
<1>a. docs' = DocsOf(S) /\ links' = LinksOf(S)
  BY <1>1
<1> HIDE DEF S
<1>5. /\ docs' \in Seq([file : S, text : AdrText, declared : Declared \union {Nothing}])
      /\ \A n \in 1..Len(docs') : docs'[n] = [file |-> docs'[n].file, text |-> adr[docs'[n].file],
                                             declared |-> DeclaredStatus(docs'[n].file, S)]
      /\ \A f \in S : \E n \in 1..Len(docs') : docs'[n].file = f
  BY <1>3, <1>a, DocsFacts
<1>6. links' \in Seq(Edge(S)) /\ ToSet(links') = ToSet(Found(S))
  BY <1>3, <1>a, LinksFacts
<1>7. AdrsTypes'
  <2>1. docs' \in Seq([file : File, text : AdrText, declared : Declared \union {Nothing}])
    <3>1. [file : S, text : AdrText, declared : Declared \union {Nothing}]
            \in SUBSET [file : File, text : AdrText, declared : Declared \union {Nothing}]
      BY <1>3
    <3> QED BY <1>5, <3>1, Widen
  <2>2. links' \in Seq(Edge(File))
    <3>1. Edge(S) \in SUBSET Edge(File)
      BY <1>3 DEF Edge
    <3> QED BY <1>6, <3>1, Widen
  <2> QED BY <1>1, <1>3, <2>1, <2>2 DEF AdrsTypes
<1>8. Stored'
  BY <1>1 DEF Stored
<1>9. DocsRight'
  <2> SUFFICES ASSUME failed' = {}
               PROVE  /\ \A n \in 1..Len(docs') : docs'[n].file \in Readable /\ docs'[n] = Doc(docs'[n].file)
                      /\ \A f \in Readable : Doc(f) \in ToSet(docs')
    BY <1>2 DEF DocsRight
  <2>1. S = Readable
    BY <1>1, <1>4
  <2>2. ASSUME NEW n \in 1..Len(docs')
        PROVE  docs'[n].file \in Readable /\ docs'[n] = Doc(docs'[n].file)
    BY <1>5, <2>1 DEF Doc
  <2>3. ASSUME NEW f \in Readable PROVE Doc(f) \in ToSet(docs')
    <3>1. PICK n \in 1..Len(docs') : docs'[n].file = f
      BY <1>5, <2>1
    <3>2. DOMAIN docs' = 1..Len(docs')
      BY <1>5
    <3> QED BY <2>2, <3>1, <3>2 DEF ToSet
  <2> QED BY <2>2, <2>3
<1>10. LinksRight'
  <2> SUFFICES ASSUME failed' = {}
               PROVE  /\ links' \in Seq(Edge(Readable))
                      /\ \A e \in ToSet(Found(Readable)) : e \in ToSet(links')
    BY <1>2 DEF LinksRight
  <2> QED BY <1>1, <1>4, <1>6
<1> QED BY <1>1, <1>7, <1>8, <1>9, <1>10

\* What people do, they do when no sync is on.
LEMMA PeopleKeep ==
  ASSUME AdrsInv, EditAdr \/ LinkByHand \/ UnlinkByHand
  PROVE  AdrsInv'
<1> USE DEF AdrsInv
<1>1. /\ syncStage' = "rest" /\ UNCHANGED <<docs, links, syncHash, decision, failed, torn>>
  BY DEF EditAdr, LinkByHand, UnlinkByHand
<1>2. adr' \in [File -> AdrText \union {Nothing}]
  <2>1. CASE EditAdr
    <3>1. PICK f \in File : \E text \in Says[f] \union {Nothing} : adr' = [adr EXCEPT ![f] = text]
      BY <2>1 DEF EditAdr
    <3>a. PICK text \in Says[f] \union {Nothing} : adr' = [adr EXCEPT ![f] = text]
      BY <3>1
    <3>2. text \in AdrText \union {Nothing}
      BY AdrsAssumption DEF AdrText, Range
    <3> QED BY <3>a, <3>2 DEF AdrsTypes
  <2>2. CASE LinkByHand \/ UnlinkByHand
    BY <2>2 DEF LinkByHand, UnlinkByHand, AdrsTypes
  <2> QED BY <2>1, <2>2
<1>3. evolves' \in SUBSET Edge(File)
  <2>1. CASE EditAdr \/ UnlinkByHand
    BY <2>1 DEF EditAdr, UnlinkByHand, AdrsTypes
  <2>2. CASE LinkByHand
    BY <2>2 DEF LinkByHand, AdrsTypes, Edge
  <2> QED BY <2>1, <2>2
<1>4. AdrsTypes'
  BY <1>1, <1>2, <1>3 DEF AdrsTypes
<1>5. Stored'
  BY <1>1 DEF Stored
<1> QED BY <1>1, <1>4, <1>5 DEF DocsRight, LinksRight

LEMMA AdrsStutters ==
  ASSUME AdrsInv, UNCHANGED adrVars
  PROVE  AdrsInv'
<1> USE DEF adrVars
<1>1. /\ Readable' = Readable /\ Found(Readable)' = Found(Readable)
      /\ \A f : Doc(f)' = Doc(f)
  BY SameRecords
<1>2. AdrsTypes' /\ Stored'
  BY DEF AdrsInv, AdrsTypes, Stored
<1>3. DocsRight'
  BY <1>1 DEF AdrsInv, DocsRight, Hash
<1>4. \A e : CanLink(e)' <=> CanLink(e)
  BY DEF CanLink
<1>5. LinksRight'
  BY <1>1, <1>4 DEF AdrsInv, LinksRight
<1> QED BY <1>2, <1>3, <1>5 DEF AdrsInv

\* What a document that is stored, or a part of it, leaves.
LEMMA WriteFacts ==
  ASSUME AdrsTypes,
         NEW d \in [file : File, text : AdrText, declared : Declared \union {Nothing}],
         Persist(d) \/ Declare(d)
  PROVE  /\ decision' \in [File -> [title : {t.title : t \in AdrText}, declared : Declared \union {Nothing}]
                                    \union {Nothing}]
         /\ evolves' \in SUBSET evolves
         /\ \A g \in File : g # d.file => decision'[g] = decision[g]
         /\ decision'[d.file] # Nothing
         /\ Declare(d) /\ d.declared # Nothing => decision'[d.file].declared = d.declared
<1> DEFINE R == [title : {t.title : t \in AdrText}, declared : Declared \union {Nothing}]
           f == d.file
<1>1. f \in File /\ d.text.title \in {t.title : t \in AdrText} /\ d.declared \in Declared \union {Nothing}
      /\ decision \in [File -> R \union {Nothing}] /\ Nothing \notin R
  BY AdrsAssumption DEF AdrsTypes
<1>2. evolves' \in SUBSET evolves
  BY DEF Persist, Declare, Without
<1>3. SameTitle(d) => decision[f] \in R
  BY <1>1 DEF SameTitle
<1>4. PICK r \in R : /\ decision' = [decision EXCEPT ![f] = r]
                     /\ Declare(d) /\ d.declared # Nothing => r.declared = d.declared
  <2>1. CASE Declare(d)
    <3> DEFINE old == IF SameTitle(d) THEN decision[f].declared ELSE Nothing
               r == [title |-> d.text.title, declared |-> IF d.declared = Nothing THEN old ELSE d.declared]
    <3>1. decision' = [decision EXCEPT ![f] = r]
      BY <2>1 DEF Declare
    <3>2. old \in Declared \union {Nothing}
      BY <1>3
    <3>3. r \in R
      BY <1>1, <3>2
    <3>4. d.declared # Nothing => r.declared = d.declared
      OBVIOUS
    <3> HIDE DEF r, R
    <3> QED BY <3>1, <3>3, <3>4
  <2>2. CASE Persist(d) /\ ~Declare(d)
    <3> DEFINE r == IF SameTitle(d) THEN decision[f] ELSE [title |-> d.text.title, declared |-> Nothing]
    <3>1. decision' = [decision EXCEPT ![f] = r]
      BY <2>2 DEF Persist
    <3>2. r \in R
      BY <1>1, <1>3
    <3> HIDE DEF r, R
    <3> QED BY <2>2, <3>1, <3>2
  <2> QED BY <2>1, <2>2
<1> HIDE DEF R
<1>5. /\ decision' \in [File -> R \union {Nothing}] /\ decision'[f] = r
      /\ \A g \in File : g # f => decision'[g] = decision[g]
  BY <1>1, <1>4
<1>6. r # Nothing
  BY <1>1
<1> QED BY <1>2, <1>4, <1>5, <1>6 DEF R

\* A document that is recorded as it is, or is recorded now, need not be stored again.
LEMMA StoreKeeps ==
  ASSUME AdrsInv, StoreAdr
  PROVE  AdrsInv'
<1> USE DEF AdrsInv
<1> DEFINE R == [file : File, text : AdrText, declared : Declared \union {Nothing}]
           H == [text : AdrText, declared : Declared \union {Nothing}]
           d == Head(docs)
           f == d.file
<1>1. /\ Readable' = Readable /\ Found(Readable)' = Found(Readable)
      /\ \A g : Doc(g)' = Doc(g)
  BY SameRecords DEF StoreAdr
<1>2. UNCHANGED <<adr, links, turns>> /\ syncStage = "storing"
  BY DEF StoreAdr
<1>3. CASE docs = <<>>
  <2>1. syncStage' = "linking" /\ UNCHANGED <<docs, syncHash, decision, evolves, failed, torn>>
    BY <1>3 DEF StoreAdr
  <2>2. AdrsTypes' /\ Stored'
    BY <1>2, <2>1 DEF AdrsTypes, Stored
  <2>3. DocsRight'
    BY <1>1, <1>2, <2>1 DEF DocsRight, Hash
  <2>4. LinksRight'
    BY <1>1, <1>2, <2>1 DEF LinksRight
  <2> QED BY <1>3, <2>1, <2>2, <2>3, <2>4
<1>4. CASE docs # <<>>
  <2>1. d \in R /\ docs' = Tail(docs) /\ docs' \in Seq(R) /\ syncStage' = "storing"
    <3>1. docs' = Tail(docs) /\ syncStage' = "storing"
      BY <1>2, <1>4 DEF StoreAdr
    <3>2. docs \in Seq(R)
      BY DEF AdrsTypes
    <3> HIDE DEF R
    <3> QED BY <1>4, <3>1, <3>2
  <2>2. f \in File /\ Hash(d) \in H /\ Nothing \notin H
    BY <2>1, AdrsAssumption DEF Hash
  <2>3. \/ /\ syncHash[f] = Hash(d)
           /\ UNCHANGED <<syncHash, decision, evolves, failed, torn>>
        \/ /\ Declare(d) /\ syncHash' = [syncHash EXCEPT ![f] = Hash(d)]
           /\ torn' = torn \ {f} /\ UNCHANGED failed
        \/ /\ Persist(d) \/ Declare(d)
           /\ torn' = torn \union {f} /\ failed' = failed \union {f} /\ UNCHANGED syncHash
        \/ /\ failed' = failed \union {f} /\ UNCHANGED <<syncHash, decision, evolves, torn>>
    BY <1>4 DEF StoreAdr
  <2>4. \A n \in 1..Len(docs') : n + 1 \in 1..Len(docs) /\ docs'[n] = docs[n + 1]
    BY <1>4, <2>1 DEF AdrsTypes
  <2>5. \A x \in ToSet(docs) : x = d \/ x \in ToSet(docs')
    <3> SUFFICES ASSUME NEW n \in 1..Len(docs), n # 1
                 PROVE  docs[n] \in ToSet(docs')
      <4>1. d = docs[1] /\ DOMAIN docs = 1..Len(docs)
        BY <1>4 DEF AdrsTypes
      <4> QED BY <4>1 DEF ToSet
    <3>1. n - 1 \in 1..Len(docs') /\ n = (n - 1) + 1 /\ DOMAIN docs' = 1..Len(docs')
      BY <1>4, <2>1 DEF AdrsTypes
    <3>2. docs'[n - 1] = docs[n]
      BY <2>4, <3>1
    <3> QED BY <3>1, <3>2 DEF ToSet
  <2>6. failed = {} => f \in Readable /\ d = Doc(f)
    <3>1. 1 \in 1..Len(docs) /\ docs[1] = d
      BY <1>4 DEF AdrsTypes
    <3> HIDE DEF d
    <3> QED BY <1>2, <3>1 DEF DocsRight
  <2> HIDE DEF d
  <2>7. UNCHANGED decision \/ Persist(d) \/ Declare(d)
    BY <2>3
  <2>8. Persist(d) \/ Declare(d) =>
          /\ decision' \in [File -> [title : {t.title : t \in AdrText}, declared : Declared \union {Nothing}]
                                    \union {Nothing}]
          /\ evolves' \in SUBSET evolves
          /\ \A g \in File : g # f => decision'[g] = decision[g]
          /\ decision'[f] # Nothing
          /\ Declare(d) /\ d.declared # Nothing => decision'[f].declared = d.declared
    BY <2>1, WriteFacts
  <2>9. /\ decision' \in [File -> [title : {t.title : t \in AdrText}, declared : Declared \union {Nothing}]
                                   \union {Nothing}]
        /\ evolves' \in SUBSET Edge(File)
    BY <2>3, <2>8 DEF AdrsTypes
  <2>10. syncHash' \in [File -> H \union {Nothing}]
    BY <2>2, <2>3 DEF AdrsTypes
  <2>11. failed' \in SUBSET File /\ torn' \in SUBSET File
    BY <2>2, <2>3 DEF AdrsTypes
  <2>12. AdrsTypes'
    BY <1>2, <2>1, <2>9, <2>10, <2>11 DEF AdrsTypes
  <2>13. Stored'
    <3> SUFFICES ASSUME NEW g \in File, syncHash'[g] # Nothing
                 PROVE  /\ decision'[g] # Nothing
                        /\ g \notin torn' /\ syncHash'[g].declared # Nothing =>
                             decision'[g].declared = syncHash'[g].declared
      BY DEF Stored
    <3>1. CASE g # f
      <4>1. syncHash'[g] = syncHash[g] /\ (g \in torn' <=> g \in torn)
        BY <2>2, <2>3, <3>1 DEF AdrsTypes
      <4>2. decision'[g] = decision[g]
        BY <2>3, <2>8, <3>1
      <4> QED BY <4>1, <4>2 DEF Stored
    <3>2. CASE g = f
      <4>1. CASE UNCHANGED <<syncHash, decision, torn>>
        BY <4>1 DEF Stored
      <4>2. CASE Declare(d) /\ syncHash' = [syncHash EXCEPT ![f] = Hash(d)]
        <5>1. syncHash'[f] = Hash(d) /\ Hash(d).declared = d.declared
          BY <2>2, <4>2 DEF AdrsTypes, Hash
        <5> QED BY <2>8, <3>2, <4>2, <5>1
      <4>3. CASE (Persist(d) \/ Declare(d)) /\ f \in torn'
        BY <2>8, <3>2, <4>3
      <4> QED BY <2>3, <4>1, <4>2, <4>3
    <3> QED BY <3>1, <3>2
  <2>14. failed' = {} => failed = {} /\ (\/ syncHash[f] = Hash(d) /\ UNCHANGED syncHash
                                         \/ syncHash' = [syncHash EXCEPT ![f] = Hash(d)])
    BY <2>3
  <2>15. DocsRight'
    <3> SUFFICES ASSUME failed' = {}
                 PROVE  /\ \A n \in 1..Len(docs') : docs'[n].file \in Readable /\ docs'[n] = Doc(docs'[n].file)
                        /\ \A g \in Readable : Doc(g) \in ToSet(docs') \/ syncHash'[g] = Hash(Doc(g))
      BY <1>1 DEF DocsRight, Hash
    <3>1. failed = {} /\ d = Doc(f)
      BY <2>6, <2>14
    <3>2. ASSUME NEW n \in 1..Len(docs')
          PROVE  docs'[n].file \in Readable /\ docs'[n] = Doc(docs'[n].file)
      BY <1>2, <2>4, <3>1 DEF DocsRight
    <3>3. ASSUME NEW g \in Readable, Doc(g) \notin ToSet(docs') PROVE syncHash'[g] = Hash(Doc(g))
      <4>1. Doc(g) = d \/ syncHash[g] = Hash(Doc(g))
        BY <1>2, <2>5, <3>1, <3>3 DEF DocsRight
      <4>2. Doc(g) = d => g = f
        BY DEF Doc
      <4>3. g \in File /\ syncHash \in [File -> H \union {Nothing}]
        BY ReadableFacts DEF AdrsTypes
      <4>4. CASE g = f
        BY <2>14, <3>1, <4>3, <4>4
      <4>5. CASE g # f
        BY <2>14, <4>1, <4>2, <4>3, <4>5
      <4> QED BY <4>4, <4>5
    <3> QED BY <3>2, <3>3
  <2>16. LinksRight'
    <3> SUFFICES ASSUME failed' = {}
                 PROVE  /\ links \in Seq(Edge(Readable))
                        /\ \A e \in ToSet(Found(Readable)) : e \in ToSet(links)
      BY <1>1, <1>2 DEF LinksRight
    <3> QED BY <1>2, <2>14 DEF LinksRight
  <2> QED BY <2>1, <2>12, <2>13, <2>15, <2>16
<1> QED BY <1>3, <1>4

\* A link that is applied is there then, or was refused: it is between decisions that are stored.
LEMMA ApplyKeeps ==
  ASSUME AdrsInv, ApplyLink
  PROVE  AdrsInv'
<1> USE DEF AdrsInv
<1>1. /\ Readable' = Readable /\ Found(Readable)' = Found(Readable)
      /\ \A g : Doc(g)' = Doc(g)
  BY SameRecords DEF ApplyLink
<1>2. /\ UNCHANGED <<adr, docs, syncHash, decision, failed, torn, turns>> /\ syncStage = "linking"
      /\ docs = <<>>
  BY DEF ApplyLink
<1>3. CASE links = <<>>
  <2>1. syncStage' = "rest" /\ UNCHANGED <<links, evolves>>
    BY <1>3 DEF ApplyLink
  <2>2. AdrsTypes' /\ Stored'
    BY <1>2, <2>1 DEF AdrsTypes, Stored
  <2> QED BY <2>1, <2>2 DEF DocsRight, LinksRight
<1>4. CASE links # <<>>
  <2> DEFINE e == Head(links)
  <2>1. /\ links' = Tail(links) /\ syncStage' = syncStage
        /\ evolves' = IF decision[e.newer] # Nothing /\ decision[e.older] # Nothing /\ CanLink(e)
                      THEN evolves \union {e} ELSE evolves
    BY <1>4 DEF ApplyLink
  <2>2. e \in Edge(File) /\ links' \in Seq(Edge(File))
    BY <1>4, <2>1 DEF AdrsTypes
  <2>3. ASSUME NEW T, links \in Seq(T)
        PROVE  links' \in Seq(T) /\ e \in T /\ \A x \in ToSet(links) : x = e \/ x \in ToSet(links')
    <3>1. links' \in Seq(T) /\ e \in T /\ e = links[1] /\ DOMAIN links = 1..Len(links)
          /\ DOMAIN links' = 1..Len(links')
          /\ \A n \in 1..Len(links) : n # 1 => n - 1 \in 1..Len(links') /\ links'[n - 1] = links[n]
      BY <1>4, <2>1, <2>3
    <3> HIDE DEF e
    <3> QED BY <3>1 DEF ToSet
  <2> HIDE DEF e
  <2>4. AdrsTypes'
    BY <1>2, <2>1, <2>2 DEF AdrsTypes
  <2>5. Stored'
    BY <1>2 DEF Stored
  <2>6. DocsRight'
    BY <1>1, <1>2, <2>1 DEF DocsRight, Hash
  <2>7. LinksRight'
    <3> SUFFICES ASSUME failed = {}
                 PROVE  /\ links' \in Seq(Edge(Readable))
                        /\ \A x \in ToSet(Found(Readable)) :
                             x \in ToSet(links') \/ x \in evolves' \/ ~CanLink(x)'
      BY <1>1, <1>2, <2>1 DEF LinksRight
    <3>1. links \in Seq(Edge(Readable))
      BY <1>2 DEF LinksRight
    <3>2. links' \in Seq(Edge(Readable)) /\ e \in Edge(Readable)
          /\ \A x \in ToSet(links) : x = e \/ x \in ToSet(links')
      BY <2>3, <3>1
    <3>3. decision[e.newer] # Nothing /\ decision[e.older] # Nothing
      <4>1. \A f \in Readable : decision[f] # Nothing
        <5> SUFFICES ASSUME NEW f \in Readable PROVE decision[f] # Nothing
          OBVIOUS
        <5>1. syncHash[f] = Hash(Doc(f))
          BY <1>2 DEF DocsRight, ToSet
        <5>2. f \in File /\ adr[f] \in AdrText
          BY ReadableFacts
        <5>3. Hash(Doc(f)) \in [text : AdrText, declared : Declared \union {Nothing}]
          BY <5>2, DeclaresFacts DEF Hash, Doc
        <5>4. syncHash[f] # Nothing
          BY <5>1, <5>3, AdrsAssumption
        <5> QED BY <5>2, <5>4 DEF Stored
      <4>2. e.newer \in Readable /\ e.older \in Readable
        BY <3>2 DEF Edge
      <4> QED BY <4>1, <4>2
    <3>4. evolves \in SUBSET evolves'
      BY <2>1
    <3>5. ASSUME NEW x \in ToSet(Found(Readable)), x \notin ToSet(links'), x \notin evolves'
          PROVE  ~CanLink(x)'
      <4>1. x \in ToSet(links) \/ x \in evolves \/ ~CanLink(x)
        BY <1>2, <3>5 DEF LinksRight
      <4>2. x = e \/ ~CanLink(x)
        BY <3>2, <3>4, <3>5, <4>1
      <4>3. ~CanLink(x)
        BY <2>1, <3>3, <3>5, <4>2
      <4> QED BY <3>4, <4>3, RefusedStays
    <3> QED BY <3>2, <3>5
  <2> QED BY <1>2, <2>1, <2>4, <2>5, <2>6, <2>7
<1> QED BY <1>3, <1>4

LEMMA AdrsStep ==
  AdrsInv /\ [AdrsNext]_adrVars => AdrsInv'
<1> SUFFICES ASSUME AdrsInv, [AdrsNext]_adrVars PROVE AdrsInv'
  OBVIOUS
<1> QED BY FetchKeeps, StoreKeeps, ApplyKeeps, PeopleKeep, AdrsStutters DEF AdrsNext

\* Types, and what a sync has yet to do, has done and may not do, of any checkout.
THEOREM AdrsInvariant ==
  AdrsSpec => []AdrsInv
BY AdrsStart, AdrsStep, PTL DEF AdrsSpec

\* However the records are edited, linked and unlinked, and whichever syncs fail: once a sync that
\* stored all it read has linked, a record that was superseded is not shown as current, except
\* where another link stands in the way or an earlier sync failed halfway (git_adr.py:fetch,
\* sync.py:_apply_links, derive_status).
THEOREM SupersededAlwaysShown ==
  AdrsSpec => []SupersededIsShown
<1>1. AdrsInv => SupersededIsShown
  <2> SUFFICES ASSUME AdrsInv, syncStage = "linking", links = <<>>, failed = {},
                      NEW f \in Readable \ torn,
                      adr[f].word = "superseded"
                        \/ \E e \in ToSet(Found(Readable)) : e.kind = "supersedes" /\ e.older = f
               PROVE  \/ StatusOf(f) \in {"superseded", "reversed"}
                      \/ \E e \in ToSet(Found(Readable)) :
                           e.kind = "supersedes" /\ e.older = f /\ StandsInTheWay(e)
    BY DEF SupersededIsShown, Readable
  <2> USE DEF AdrsInv
  <2>1. docs = <<>> /\ ToSet(docs) = {} /\ ToSet(links) = {}
    BY DEF ToSet
  <2>2. CASE \E e \in ToSet(Found(Readable)) : e.kind = "supersedes" /\ e.older = f
    <3>1. PICK e \in ToSet(Found(Readable)) : e.kind = "supersedes" /\ e.older = f
      BY <2>2
    <3>2. e \in evolves \/ ~CanLink(e)
      BY <2>1 DEF LinksRight
    <3>3. e \in evolves => StatusOf(f) \in {"superseded", "reversed"}
      BY <3>1 DEF StatusOf
    <3> QED BY <3>1, <3>2, <3>3 DEF StandsInTheWay
  <2>3. CASE /\ adr[f].word = "superseded"
             /\ ~ \E e \in ToSet(Found(Readable)) : e.kind = "supersedes" /\ e.older = f
    <3>1. DeclaredStatus(f, Readable) = "superseded"
      BY <2>3 DEF DeclaredStatus, Declares
    <3>2. syncHash[f] = Hash(Doc(f))
      BY <2>1 DEF DocsRight
    <3>3. f \in File /\ adr[f] \in AdrText
      BY ReadableFacts
    <3>4. Hash(Doc(f)).declared = "superseded" /\ "superseded" # Nothing
          /\ Hash(Doc(f)) \in [text : AdrText, declared : Declared \union {Nothing}]
      BY <3>1, <3>3, AdrsAssumption DEF Hash, Doc, Declared
    <3>5. syncHash[f] # Nothing
      BY <3>2, <3>4, AdrsAssumption
    <3>6. decision[f].declared = "superseded"
      BY <3>2, <3>3, <3>4, <3>5 DEF Stored
    <3> QED BY <3>4, <3>6 DEF StatusOf
  <2> QED BY <2>2, <2>3
<1> QED BY <1>1, AdrsInvariant, PTL

-----------------------------------------------------------------------------
(* Extraction: what the chunks of a text keep of it.                       *)

\* One more at the end is joined last.
LEMMA FlattenAppend ==
  ASSUME NEW T, NEW ss \in Seq(Seq(T)), NEW x \in Seq(T)
  PROVE  /\ FlattenSeq(<<>>) = <<>>
         /\ FlattenSeq(Append(ss, x)) = FlattenSeq(ss) \o x
<1> DEFINE tt == Append(ss, x)
           top == Len(ss)
<1>1. FlattenSeq(<<>>) = <<>>
  BY DEF FlattenSeq
<1>2. /\ tt \in Seq(Seq(T)) /\ tt # <<>> /\ Len(tt) = top + 1 /\ top \in Nat
      /\ (\A i \in 1..top : tt[i] = ss[i]) /\ tt[top + 1] = x
  <2>1. /\ tt \in Seq(Seq(T)) /\ tt # <<>> /\ Len(tt) = top + 1
        /\ (\A i \in 1..top : tt[i] = ss[i]) /\ tt[top + 1] = x
    BY AppendProperties
  <2>2. top \in Nat
    OBVIOUS
  <2> QED BY <2>1, <2>2
<1> HIDE DEF tt
<1>3. PICK v : /\ FlattenSeq(tt) = v[Len(tt)]
               /\ \A i \in 1..Len(tt) : v[i] = IF i = 1 THEN tt[i] ELSE v[i - 1] \o tt[i]
  BY <1>2, FlattenSteps
<1>4. CASE ss = <<>>
  <2>1. top = 0 /\ v[1] = x
    BY <1>2, <1>3, <1>4
  <2>2. <<>> \o x = x
    BY ConcatEmptySeq
  <2> QED BY <1>1, <1>2, <1>3, <1>4, <2>1, <2>2 DEF tt
<1>5. CASE ss # <<>>
  <2>1. PICK w : /\ FlattenSeq(ss) = w[top]
                 /\ \A i \in 1..top : w[i] = IF i = 1 THEN ss[i] ELSE w[i - 1] \o ss[i]
    BY <1>5, FlattenSteps
  <2>2. top # 0
    BY <1>5
  <2> HIDE DEF top
  <2> DEFINE B == {m \in Nat : m \in 1..top /\ v[m] # w[m]}
  <2>3. B = {}
    <3> SUFFICES ASSUME B # {} PROVE FALSE
      OBVIOUS
    <3>1. PICK k \in B : \A n \in B : k <= n
      <4>1. B \in SUBSET Nat
        OBVIOUS
      <4> HIDE DEF B
      <4> QED BY <4>1, Least
    <3>2. k \in 1..top /\ k \in 1..Len(tt) /\ tt[k] = ss[k]
      BY <1>2, <3>1
    <3>3. CASE k = 1
      BY <1>3, <2>1, <3>1, <3>2, <3>3
    <3>4. CASE k # 1
      <4>1. k - 1 \in Nat /\ k - 1 \in 1..top /\ ~(k <= k - 1)
        BY <1>2, <3>2, <3>4
      <4>2. k - 1 \notin B
        <5> HIDE DEF B
        <5> QED BY <3>1, <4>1
      <4>3. v[k - 1] = w[k - 1]
        BY <4>1, <4>2
      <4> QED BY <1>3, <2>1, <3>1, <3>2, <3>4, <4>3
    <3> QED BY <3>3, <3>4
  <2>4. v[top] = w[top] /\ top + 1 \in 1..Len(tt) /\ top + 1 # 1 /\ (top + 1) - 1 = top
    <3>1. top \in 1..top /\ top \in Nat /\ top \notin B
      BY <1>2, <2>2, <2>3
    <3> QED BY <1>2, <2>2, <3>1
  <2>5. v[top + 1] = v[top] \o x
    BY <1>2, <1>3, <2>4
  <2>6. FlattenSeq(tt) = FlattenSeq(ss) \o x
    BY <1>2, <1>3, <2>1, <2>4, <2>5
  <2> QED BY <1>1, <2>6 DEF tt
<1> QED BY <1>1, <1>4, <1>5 DEF tt

\* Strictly rising, a sequence of a set's numbers that has them all is their order.
LEMMA OrderIsUnique ==
  ASSUME NEW S \in SUBSET Int, IsFiniteSet(S), NEW c \in Nat, NEW p \in [1..c -> S],
         \A m, n \in 1..c : m < n => p[m] < p[n],
         \A x \in S : \E n \in 1..c : p[n] = x
  PROVE  c = Cardinality(S) /\ InOrder(S) = p
<1> DEFINE d == Cardinality(S)
           q == InOrder(S)
<1>1. /\ q \in [1..d -> S] /\ d \in Nat
      /\ \A m, n \in 1..d : m < n => q[m] < q[n]
      /\ \A x \in S : \E n \in 1..d : q[n] = x
  BY InOrderFacts
<1>2. c = d
  <2>1. p \in Bijection(1..c, S)
    <3>1. p \in Surjection(1..c, S)
      BY DEF Surjection
    <3>2. p \in Injection(1..c, S)
      <4>1. \A m, n \in 1..c : m # n => p[m] # p[n]
        <5> SUFFICES ASSUME NEW m \in 1..c, NEW n \in 1..c, m # n PROVE p[m] # p[n]
          OBVIOUS
        <5>1. m < n \/ n < m
          OBVIOUS
        <5>2. p[m] \in Int /\ p[n] \in Int
          OBVIOUS
        <5> QED BY <5>1, <5>2
      <4> QED BY <4>1 DEF Injection, IsInjective
    <3> QED BY <3>1, <3>2 DEF Bijection
  <2> QED BY <2>1, FS_CountingElements DEF ExistsBijection
<1> HIDE DEF d, q
<1> DEFINE B == {m \in Nat : m \in 1..c /\ p[m] # q[m]}
<1>3. B = {}
  <2> SUFFICES ASSUME B # {} PROVE FALSE
    OBVIOUS
  <2>1. PICK k \in B : \A n \in B : k <= n
    <3>1. B \in SUBSET Nat
      OBVIOUS
    <3> HIDE DEF B
    <3> QED BY <3>1, Least
  <2>2. k \in 1..c /\ p[k] \in S /\ q[k] \in S /\ p[k] \in Int /\ q[k] \in Int /\ p[k] # q[k]
    BY <1>1, <1>2, <2>1
  <2>3. \A n \in 1..c : n < k => p[n] = q[n]
    <3> SUFFICES ASSUME NEW n \in 1..c, n < k PROVE p[n] = q[n]
      OBVIOUS
    <3>1. n \notin B
      <4> HIDE DEF B
      <4> QED BY <2>1, <2>2
    <3> QED BY <3>1
  <2>4. q[k] <= p[k]
    <3>1. PICK n \in 1..c : q[n] = p[k]
      BY <1>1, <1>2, <2>2
    <3>2. ~(n < k)
      <4>1. n < k => p[n] = p[k] /\ p[n] < p[k]
        BY <2>2, <2>3, <3>1
      <4> QED BY <2>2, <4>1
    <3>3. n = k \/ k < n
      BY <2>2, <3>2
    <3>4. k < n => q[k] < q[n]
      BY <1>1, <1>2, <2>2
    <3> QED BY <2>2, <3>1, <3>3, <3>4
  <2>5. p[k] <= q[k]
    <3>1. PICK n \in 1..c : p[n] = q[k]
      BY <2>2
    <3>2. ~(n < k)
      <4>1. n < k => q[n] = q[k] /\ q[n] < q[k]
        BY <1>1, <1>2, <2>2, <2>3, <3>1
      <4> QED BY <2>2, <4>1
    <3>3. n = k \/ k < n
      BY <2>2, <3>2
    <3>4. k < n => p[k] < p[n]
      BY <2>2
    <3> QED BY <2>2, <3>1, <3>3, <3>4
  <2> QED BY <2>2, <2>4, <2>5
<1>4. \A n \in 1..c : p[n] = q[n]
  BY <1>3
<1>5. p = q
  BY <1>1, <1>2, <1>4
<1> QED BY <1>2, <1>5 DEF d, q

-----------------------------------------------------------------------------
(* What is in a text.                                                      *)

Marks(s) == {n \in DOMAIN s : NotSpace(s[n])}

LEMMA LettersFacts ==
  ASSUME NEW T, NEW s \in Seq(T)
  PROVE  /\ Letters(s) \in Seq(T) /\ Len(Letters(s)) = Cardinality(Marks(s))
         /\ Len(Letters(s)) <= Len(s)
         /\ \A n \in 1..Len(Letters(s)) : Letters(s)[n] = s[InOrder(Marks(s))[n]]
         /\ Marks(s) \in SUBSET Int /\ IsFiniteSet(Marks(s))
<1>1. Letters(s) = At(s, Marks(s)) /\ Marks(s) \in SUBSET DOMAIN s
  BY DEF Letters, Where, Marks
<1>2. DOMAIN s = 1..Len(s) /\ Len(s) \in Nat
  OBVIOUS
<1>3. IsFiniteSet(1..Len(s)) /\ Cardinality(1..Len(s)) = Len(s)
  BY <1>2, FS_Interval
<1>4. IsFiniteSet(Marks(s)) /\ Cardinality(Marks(s)) <= Len(s)
  BY <1>1, <1>2, <1>3, FS_Subset
<1>5. Marks(s) \in SUBSET Int
  BY <1>1, <1>2
<1>6. At(s, Marks(s)) \in Seq(T) /\ Len(At(s, Marks(s))) = Cardinality(Marks(s))
  BY <1>1, AtFacts
<1>7. DOMAIN InOrder(Marks(s)) = 1..Cardinality(Marks(s))
  BY <1>4, <1>5, InOrderFacts
<1>8. \A n \in 1..Cardinality(Marks(s)) : At(s, Marks(s))[n] = s[InOrder(Marks(s))[n]]
  BY <1>7 DEF At
<1> QED BY <1>1, <1>4, <1>5, <1>6, <1>8

\* Spaces have none.
LEMMA LettersNone ==
  ASSUME NEW T, NEW s \in Seq(T), Marks(s) = {}
  PROVE  Letters(s) = <<>>
<1>1. Len(Letters(s)) = 0 /\ Letters(s) \in Seq(T)
  BY LettersFacts, FS_EmptySet
<1> QED BY <1>1

\* Joined texts have the letters of each in turn.
LEMMA LettersJoin ==
  ASSUME NEW T, NEW a \in Seq(T), NEW b \in Seq(T)
  PROVE  Letters(a \o b) = Letters(a) \o Letters(b)
<1> DEFINE ab == a \o b
           ca == Cardinality(Marks(a))
           cb == Cardinality(Marks(b))
           oa == InOrder(Marks(a))
           ob == InOrder(Marks(b))
           la == Len(a)
           o == [n \in 1..(ca + cb) |-> IF n <= ca THEN oa[n] ELSE la + ob[n - ca]]
<1>1. /\ ab \in Seq(T) /\ la \in Nat /\ Len(b) \in Nat /\ Len(ab) = la + Len(b)
      /\ \A i \in 1..(la + Len(b)) : ab[i] = IF i <= la THEN a[i] ELSE b[i - la]
  BY ConcatProperties
<1>2. /\ oa \in [1..ca -> Marks(a)] /\ ca \in Nat
      /\ \A m, n \in 1..ca : m < n => oa[m] < oa[n]
      /\ \A x \in Marks(a) : \E n \in 1..ca : oa[n] = x
  BY LettersFacts, InOrderFacts
<1>3. /\ ob \in [1..cb -> Marks(b)] /\ cb \in Nat
      /\ \A m, n \in 1..cb : m < n => ob[m] < ob[n]
      /\ \A x \in Marks(b) : \E n \in 1..cb : ob[n] = x
  BY LettersFacts, InOrderFacts
<1>4. \A n : n \in Marks(a) <=> n \in 1..la /\ NotSpace(a[n])
  BY DEF Marks
<1>5. \A n : n \in Marks(b) <=> n \in 1..Len(b) /\ NotSpace(b[n])
  BY DEF Marks
<1>6. \A n : n \in Marks(ab) <=> n \in 1..(la + Len(b)) /\ NotSpace(ab[n])
  BY <1>1 DEF Marks
<1>7. Len(Letters(a)) = ca /\ Letters(a) \in Seq(T) /\ \A n \in 1..ca : Letters(a)[n] = a[oa[n]]
  BY LettersFacts
<1>8. Len(Letters(b)) = cb /\ Letters(b) \in Seq(T) /\ \A n \in 1..cb : Letters(b)[n] = b[ob[n]]
  BY LettersFacts
<1>9. Len(Letters(ab)) = Cardinality(Marks(ab)) /\ Letters(ab) \in Seq(T)
      /\ Marks(ab) \in SUBSET Int /\ IsFiniteSet(Marks(ab))
      /\ \A n \in 1..Cardinality(Marks(ab)) : Letters(ab)[n] = ab[InOrder(Marks(ab))[n]]
  BY <1>1, LettersFacts
<1> HIDE DEF ab, ca, cb, oa, ob, la
<1>10. \A n \in 1..(ca + cb) : \/ n \in 1..ca /\ o[n] = oa[n]
                               \/ n - ca \in 1..cb /\ n > ca /\ o[n] = la + ob[n - ca]
  BY <1>2, <1>3
<1>11. \A n \in 1..ca : oa[n] \in 1..la /\ oa[n] \in Marks(ab) /\ ab[oa[n]] = a[oa[n]]
  <2> SUFFICES ASSUME NEW n \in 1..ca PROVE oa[n] \in 1..la /\ oa[n] \in Marks(ab) /\ ab[oa[n]] = a[oa[n]]
    OBVIOUS
  <2>1. oa[n] \in 1..la /\ NotSpace(a[oa[n]])
    BY <1>2, <1>4
  <2>2. oa[n] \in 1..(la + Len(b)) /\ ab[oa[n]] = a[oa[n]]
    BY <1>1, <2>1
  <2> QED BY <1>6, <2>1, <2>2
<1>12. \A n \in 1..cb : /\ ob[n] \in 1..Len(b) /\ la + ob[n] \in Marks(ab)
                        /\ ab[la + ob[n]] = b[ob[n]]
  <2> SUFFICES ASSUME NEW n \in 1..cb
               PROVE  ob[n] \in 1..Len(b) /\ la + ob[n] \in Marks(ab) /\ ab[la + ob[n]] = b[ob[n]]
    OBVIOUS
  <2>1. ob[n] \in 1..Len(b) /\ NotSpace(b[ob[n]])
    BY <1>3, <1>5
  <2>2. la + ob[n] \in 1..(la + Len(b)) /\ ~(la + ob[n] <= la) /\ (la + ob[n]) - la = ob[n]
    BY <1>1, <2>1
  <2>3. ab[la + ob[n]] = b[ob[n]]
    BY <1>1, <2>2
  <2> QED BY <1>6, <2>1, <2>2, <2>3
<1>13. o \in [1..(ca + cb) -> Marks(ab)]
  <2>1. \A n \in 1..(ca + cb) : o[n] \in Marks(ab)
    BY <1>10, <1>11, <1>12
  <2> QED BY <2>1
<1>14. \A n \in 1..(ca + cb) : ab[o[n]] = IF n <= ca THEN a[oa[n]] ELSE b[ob[n - ca]]
  <2> SUFFICES ASSUME NEW n \in 1..(ca + cb) PROVE ab[o[n]] = IF n <= ca THEN a[oa[n]] ELSE b[ob[n - ca]]
    OBVIOUS
  <2>1. CASE n \in 1..ca /\ o[n] = oa[n]
    BY <1>2, <1>11, <2>1
  <2>2. CASE n - ca \in 1..cb /\ n > ca /\ o[n] = la + ob[n - ca]
    BY <1>2, <1>12, <2>2
  <2> QED BY <1>10, <2>1, <2>2
<1>15. \A m, n \in 1..(ca + cb) : m < n => o[m] < o[n]
  <2> SUFFICES ASSUME NEW m \in 1..(ca + cb), NEW n \in 1..(ca + cb), m < n PROVE o[m] < o[n]
    OBVIOUS
  <2>1. CASE n \in 1..ca /\ o[n] = oa[n]
    <3>1. m \in 1..ca /\ o[m] = oa[m]
      BY <1>2, <1>3, <1>10, <2>1
    <3> QED BY <1>2, <2>1, <3>1
  <2>2. CASE n - ca \in 1..cb /\ n > ca /\ o[n] = la + ob[n - ca]
    <3>0. ob[n - ca] \in Int /\ ob[n - ca] >= 1
      BY <1>1, <1>12, <2>2
    <3>1. CASE m \in 1..ca /\ o[m] = oa[m]
      <4>1. oa[m] \in Int /\ oa[m] <= la
        BY <1>1, <1>11, <3>1
      <4> QED BY <1>1, <2>2, <3>0, <3>1, <4>1
    <3>2. CASE m - ca \in 1..cb /\ m > ca /\ o[m] = la + ob[m - ca]
      <4>1. m - ca < n - ca
        BY <1>2, <2>2, <3>2
      <4>2. ob[m - ca] < ob[n - ca] /\ ob[m - ca] \in Int
        BY <1>1, <1>3, <1>12, <2>2, <3>2, <4>1
      <4> QED BY <1>1, <2>2, <3>0, <3>2, <4>2
    <3> QED BY <1>10, <3>1, <3>2
  <2> QED BY <1>10, <2>1, <2>2
<1>16. \A x \in Marks(ab) : \E n \in 1..(ca + cb) : o[n] = x
  <2> SUFFICES ASSUME NEW x \in Marks(ab) PROVE \E n \in 1..(ca + cb) : o[n] = x
    OBVIOUS
  <2>0. x \in 1..(la + Len(b)) /\ NotSpace(ab[x])
    BY <1>6
  <2>1. CASE x <= la
    <3>1. x \in Marks(a)
      BY SMTT(30), <1>1, <1>4, <2>0, <2>1
    <3>2. PICK n \in 1..ca : oa[n] = x
      BY <1>2, <3>1
    <3>3. n \in 1..(ca + cb) /\ n <= ca
      BY <1>2, <1>3
    <3> QED BY <3>2, <3>3
  <2>2. CASE ~(x <= la)
    <3>1. x - la \in 1..Len(b) /\ ab[x] = b[x - la]
      BY <1>1, <2>0, <2>2
    <3>2. x - la \in Marks(b)
      BY <1>5, <2>0, <3>1
    <3>3. PICK n \in 1..cb : ob[n] = x - la
      BY <1>3, <3>2
    <3>4. n + ca \in 1..(ca + cb) /\ ~(n + ca <= ca) /\ (n + ca) - ca = n
      BY <1>2, <1>3
    <3>5. o[n + ca] = la + (x - la)
      BY <3>3, <3>4
    <3> QED BY <1>1, <2>0, <3>4, <3>5
  <2> QED BY <2>1, <2>2
<1>17. ca + cb \in Nat
  BY <1>2, <1>3
<1> HIDE DEF o
<1>18. Cardinality(Marks(ab)) = ca + cb /\ InOrder(Marks(ab)) = o
  BY <1>9, <1>13, <1>15, <1>16, <1>17, OrderIsUnique
<1>19. \A n \in 1..(ca + cb) : Letters(ab)[n] = (Letters(a) \o Letters(b))[n]
  <2> SUFFICES ASSUME NEW n \in 1..(ca + cb) PROVE Letters(ab)[n] = (Letters(a) \o Letters(b))[n]
    OBVIOUS
  <2>1. (Letters(a) \o Letters(b))[n] = IF n <= ca THEN Letters(a)[n] ELSE Letters(b)[n - ca]
    BY ZenonT(60), <1>7, <1>8, ConcatProperties
  <2>2. Letters(ab)[n] = IF n <= ca THEN a[oa[n]] ELSE b[ob[n - ca]]
    BY <1>9, <1>14, <1>18
  <2>3. IF n <= ca THEN n \in 1..ca ELSE n - ca \in 1..cb
    BY <1>2, <1>3
  <2> QED BY <1>7, <1>8, <2>1, <2>2, <2>3
<1>20. Letters(a) \o Letters(b) \in Seq(T) /\ Len(Letters(a) \o Letters(b)) = ca + cb
  BY <1>7, <1>8, ConcatProperties
<1>21. Letters(ab) = Letters(a) \o Letters(b)
  BY <1>9, <1>18, <1>19, <1>20, SeqEqual
<1> QED BY <1>21 DEF ab


\* Stripped, a text has its letters, and starts with one if any is left.
LEMMA StripFacts ==
  ASSUME NEW T, NEW s \in Seq(T)
  PROVE  /\ Strip(s) \in Seq(T) /\ Len(Strip(s)) <= Len(s)
         /\ Letters(Strip(s)) = Letters(s)
         /\ Strip(s) # <<>> => NotSpace(Strip(s)[1])
         /\ s # <<>> /\ NotSpace(s[1]) => Strip(s) # <<>>
<1> DEFINE marks == Marks(s)
           i == CHOOSE n \in marks : \A m \in marks : n <= m
           j == CHOOSE n \in marks : \A m \in marks : m <= n
           top == Len(s)
<1>1. Strip(s) = IF marks = {} THEN <<>> ELSE SubSeq(s, i, j)
  BY DEF Strip, Marks
<1>2. \A n : n \in marks <=> n \in 1..top /\ NotSpace(s[n])
  BY DEF Marks
<1>3. top \in Nat /\ marks \in SUBSET Nat /\ marks \in SUBSET Int /\ IsFiniteSet(marks)
  <2>1. top \in Nat
    OBVIOUS
  <2>2. IsFiniteSet(marks)
    BY LettersFacts
  <2> QED BY <1>2, <2>1, <2>2
<1>4. CASE marks = {}
  <2>1. Letters(s) = <<>>
    BY <1>4, LettersNone
  <2>2. Letters(<<>>) = <<>>
    <3>1. <<>> \in Seq(T) /\ Marks(<<>>) = {}
      BY DEF Marks
    <3> QED BY <3>1, LettersNone
  <2>3. s # <<>> => ~NotSpace(s[1])
    <3>1. s # <<>> => 1 \in 1..top
      BY <1>3
    <3> QED BY <1>2, <1>4, <3>1
  <2> QED BY <1>1, <1>3, <1>4, <2>1, <2>2, <2>3
<1>5. CASE marks # {}
  <2> HIDE DEF marks
  <2>1. i \in marks /\ \A m \in marks : i <= m
    <3>1. \E n \in marks : \A m \in marks : n <= m
      BY <1>3, <1>5, Least
    <3> QED BY <3>1
  <2>2. j \in marks /\ \A m \in marks : m <= j
    <3>1. \E n \in marks : \A m \in marks : m <= n
      BY <1>3, <1>5, LastOne
    <3> QED BY <3>1
  <2> DEFINE a == SubSeq(s, 1, i - 1)
             b == SubSeq(s, i, j)
             c == SubSeq(s, j + 1, top)
  <2>a. Strip(s) = b
    BY <1>1, <1>5
  <2> HIDE DEF i, j, top
  <2>3. i \in 1..top /\ j \in 1..top /\ i <= j /\ NotSpace(s[i])
    BY <1>2, <2>1, <2>2
  <2>4. \A n \in 1..top : n < i \/ n > j => ~NotSpace(s[n])
    <3> SUFFICES ASSUME NEW n \in 1..top, n < i \/ n > j, NotSpace(s[n]) PROVE FALSE
      OBVIOUS
    <3>1. n \in marks
      BY <1>2
    <3> QED BY <1>3, <2>1, <2>2, <2>3, <3>1
  <2>5. \A n \in 1..top : s[n] \in T
    BY DEF top
  <2>6. a \in Seq(T) /\ Len(a) = i - 1 /\ \A n \in 1..(i - 1) : a[n] = s[n]
    <3>1. i - 1 \in Int /\ \A n \in 1..(i - 1) : n \in 1..top /\ s[n] \in T
      BY <1>3, <2>3, <2>5
    <3>2. /\ a \in Seq(T) /\ Len(a) = (IF 1 <= i - 1 THEN (i - 1) - 1 + 1 ELSE 0)
          /\ \A n \in 1..((i - 1) - 1 + 1) : a[n] = s[1 + n - 1]
      BY <3>1, SubSeqProperties
    <3> HIDE DEF a
    <3> QED BY <1>3, <2>3, <3>2
  <2>7. b \in Seq(T) /\ Len(b) = j - i + 1 /\ \A n \in 1..(j - i + 1) : b[n] = s[i + n - 1]
    <3>1. i \in Int /\ j \in Int /\ \A n \in i..j : n \in 1..top /\ s[n] \in T
      BY <1>3, <2>3, <2>5
    <3>2. /\ b \in Seq(T) /\ Len(b) = (IF i <= j THEN j - i + 1 ELSE 0)
          /\ \A n \in 1..(j - i + 1) : b[n] = s[i + n - 1]
      BY <3>1, SubSeqProperties
    <3> HIDE DEF b
    <3> QED BY <2>3, <3>2
  <2>8. c \in Seq(T) /\ Len(c) = top - j /\ \A n \in 1..(top - j) : c[n] = s[j + n]
    <3>1. j + 1 \in Int /\ top \in Int /\ \A n \in (j + 1)..top : n \in 1..top /\ s[n] \in T
      BY <1>3, <2>3, <2>5
    <3>2. /\ c \in Seq(T) /\ Len(c) = (IF j + 1 <= top THEN top - (j + 1) + 1 ELSE 0)
          /\ \A n \in 1..(top - (j + 1) + 1) : c[n] = s[(j + 1) + n - 1]
      BY <3>1, SubSeqProperties
    <3>3. top - (j + 1) + 1 = top - j /\ \A n \in 1..(top - j) : (j + 1) + n - 1 = j + n
      BY <1>3, <2>3
    <3> HIDE DEF c
    <3> QED BY <1>3, <2>3, <3>2, <3>3
  <2>9. s = (a \o b) \o c
    <3>1. SubSeq(s, 1, i - 1) \o SubSeq(s, (i - 1) + 1, j) = SubSeq(s, 1, j)
      <4>1. 1 \in 1..(Len(s) + 1) /\ i - 1 \in (1 - 1)..Len(s) /\ j \in (i - 1)..Len(s)
        BY <1>3, <2>3 DEF top
      <4> QED BY <4>1, ConcatAdjacentSubSeq
    <3>2. SubSeq(s, 1, j) \o SubSeq(s, j + 1, top) = SubSeq(s, 1, top)
      <4>1. 1 \in 1..(Len(s) + 1) /\ j \in (1 - 1)..Len(s) /\ top \in j..Len(s)
        BY <1>3, <2>3 DEF top
      <4> QED BY <4>1, ConcatAdjacentSubSeq
    <3>3. SubSeq(s, 1, top) = s
      BY SubSeqFull DEF top
    <3>4. (i - 1) + 1 = i
      BY <2>3
    <3> QED BY <3>1, <3>2, <3>3, <3>4
  <2> HIDE DEF a, b, c
  <2>10. Marks(a) = {} /\ Marks(c) = {}
    <3>1. ASSUME NEW n \in DOMAIN a PROVE ~NotSpace(a[n])
      <4>1. n \in 1..(i - 1)
        BY <2>6
      <4>2. n \in 1..top /\ n < i /\ a[n] = s[n]
        BY <1>3, <2>3, <2>6, <4>1
      <4> QED BY <2>4, <4>2
    <3>2. ASSUME NEW n \in DOMAIN c PROVE ~NotSpace(c[n])
      <4>1. n \in 1..(top - j)
        BY <2>8
      <4>2. j + n \in 1..top /\ j + n > j /\ c[n] = s[j + n]
        BY <1>3, <2>3, <2>8, <4>1
      <4> QED BY <2>4, <4>2
    <3> QED BY <3>1, <3>2 DEF Marks
  <2>11. Letters(a) = <<>> /\ Letters(c) = <<>>
    BY <2>6, <2>8, <2>10, LettersNone
  <2>12. Letters(s) = (Letters(a) \o Letters(b)) \o Letters(c)
    <3>1. a \o b \in Seq(T)
      BY <2>6, <2>7, ConcatProperties
    <3>2. Letters((a \o b) \o c) = Letters(a \o b) \o Letters(c)
      BY <2>8, <3>1, LettersJoin
    <3>3. Letters(a \o b) = Letters(a) \o Letters(b)
      BY <2>6, <2>7, LettersJoin
    <3> QED BY <2>9, <3>2, <3>3
  <2>13. Letters(b) \in Seq(T)
    BY <2>7, LettersFacts
  <2>14. Letters(s) = Letters(b)
    <3>1. <<>> \o Letters(b) = Letters(b) /\ Letters(b) \o <<>> = Letters(b)
      BY <2>13, ConcatEmptySeq
    <3> QED BY <2>11, <2>12, <3>1
  <2>15. Len(b) <= top /\ b # <<>> /\ b[1] = s[i]
    <3>1. 1 \in 1..(j - i + 1) /\ i + 1 - 1 = i /\ j - i + 1 <= top /\ j - i + 1 # 0
      <4>1. i \in Int /\ j \in Int /\ top \in Int /\ 1 <= i /\ j <= top /\ i <= j
        BY <1>3, <2>3
      <4> QED BY <4>1
    <3>2. b[1] = s[i] /\ Len(b) <= top
      BY <2>7, <3>1
    <3>3. b # <<>>
      BY <2>7, <3>1
    <3> QED BY <3>2, <3>3
  <2> QED BY <2>3, <2>7, <2>14, <2>15, <2>a DEF top
<1> QED BY <1>4, <1>5


-----------------------------------------------------------------------------
(* Cutting and packing.                                                    *)

\* The letters of several texts.
All(ss) == Letters(FlattenSeq(ss))

\* None of them is empty, or longer than a chunk may be.
Fit(ss) == \A n \in 1..Len(ss) : Len(ss[n]) \in 1..MaxChunkChars

LEMMA AllAppend ==
  ASSUME NEW T, NEW ss \in Seq(Seq(T)), NEW x \in Seq(T)
  PROVE  /\ All(Append(ss, x)) = All(ss) \o Letters(x) /\ All(ss) \in Seq(T)
         /\ Append(ss, x) \in Seq(Seq(T))
         /\ Fit(ss) /\ Len(x) \in 1..MaxChunkChars => Fit(Append(ss, x))
<1>1. FlattenSeq(Append(ss, x)) = FlattenSeq(ss) \o x
  BY FlattenAppend
<1>2. FlattenSeq(ss) \in Seq(T)
  BY FlattenElements
<1>3. All(ss) \in Seq(T)
  BY <1>2, LettersFacts DEF All
<1>4. All(Append(ss, x)) = All(ss) \o Letters(x)
  BY <1>1, <1>2, LettersJoin DEF All
<1>5. /\ Append(ss, x) \in Seq(Seq(T)) /\ Len(Append(ss, x)) = Len(ss) + 1 /\ Len(ss) \in Nat
      /\ \A i \in 1..Len(ss) : Append(ss, x)[i] = ss[i]
      /\ Append(ss, x)[Len(ss) + 1] = x
  BY AppendProperties
<1>6. ASSUME Fit(ss), Len(x) \in 1..MaxChunkChars PROVE Fit(Append(ss, x))
  <2>1. \A n \in 1..(Len(ss) + 1) : n \in 1..Len(ss) \/ n = Len(ss) + 1
    BY <1>5
  <2> QED BY <1>5, <1>6, <2>1 DEF Fit
<1> QED BY <1>3, <1>4, <1>5, <1>6

LEMMA AllNone ==
  All(<<>>) = <<>> /\ Letters(<<>>) = <<>> /\ Fit(<<>>)
<1>1. <<>> \in Seq(Nat) /\ Marks(<<>>) = {}
  BY DEF Marks
<1>2. Letters(<<>>) = <<>>
  BY <1>1, LettersNone
<1>3. FlattenSeq(<<>>) = <<>>
  BY DEF FlattenSeq
<1> QED BY <1>2, <1>3 DEF All, Fit

\* A text is cut within the limit, after a character at least.
LEMMA CutAtFacts ==
  ASSUME NEW s
  PROVE  CutAt(s) \in 1..MaxChunkChars
<1> DEFINE ends == {n \in 1..(MaxChunkChars - 1) : s[n] = "." /\ s[n + 1] = Space /\ n - 1 >= MaxChunkChars \div 2}
<1>1. CutAt(s) = IF ends = {} THEN MaxChunkChars ELSE CHOOSE n \in ends : \A m \in ends : m <= n
  BY DEF CutAt
<1>2. MaxChunkChars \in Nat /\ MaxChunkChars # 0
  BY ExtractionAssumption
<1>3. ends \in SUBSET (1..(MaxChunkChars - 1))
  OBVIOUS
<1> HIDE DEF ends
<1>4. ends # {} => \E n \in ends : \A m \in ends : m <= n
  <2>1. IsFiniteSet(1..(MaxChunkChars - 1))
    BY <1>2, FS_Interval
  <2>2. IsFiniteSet(ends)
    BY <1>3, <2>1, FS_Subset
  <2>3. ends \in SUBSET Int
    BY <1>3
  <2> QED BY <2>2, <2>3, LastOne
<1>5. CASE ends = {}
  BY <1>1, <1>2, <1>5
<1>6. CASE ends # {}
  <2>1. CutAt(s) \in ends
    BY <1>1, <1>4, <1>6
  <2>2. CutAt(s) \in 1..(MaxChunkChars - 1)
    BY <1>3, <2>1
  <2> QED BY <1>2, <2>2
<1> QED BY <1>5, <1>6

\* While a paragraph is cut: what is left starts with a letter, and with the pieces it has all.
CutWell(r, s, T) ==
  /\ r.left \in Seq(T) /\ r.pieces \in Seq(Seq(T)) /\ Fit(r.pieces)
  /\ r.left = <<>> \/ NotSpace(r.left[1])
  /\ All(r.pieces) \o Letters(r.left) = Letters(s)

LEMMA CutFacts ==
  ASSUME NEW T, NEW s \in Seq(T), NEW r, CutWell(r, s, T)
  PROVE  /\ CutWell(Cut(r), s, T)
         /\ Len(Cut(r).left) <= MaxChunkChars \/ Len(Cut(r).left) < Len(r.left)
<1>1. CASE Len(r.left) <= MaxChunkChars
  BY <1>1 DEF Cut
<1>2. CASE ~(Len(r.left) <= MaxChunkChars)
  <2> DEFINE left == r.left
             k == CutAt(left)
             a == SubSeq(left, 1, k)
             b == SubSeq(left, k + 1, Len(left))
             q == Cut(r)
  <2>1. q = [left |-> Strip(b), pieces |-> Append(r.pieces, Strip(a))]
    BY <1>2 DEF Cut
  <2>2. left \in Seq(T) /\ Len(left) \in Nat /\ MaxChunkChars \in Nat /\ k \in 1..MaxChunkChars
        /\ MaxChunkChars < Len(left) /\ r.pieces \in Seq(Seq(T))
    BY <1>2, CutAtFacts, ExtractionAssumption DEF CutWell
  <2>3. left # <<>> /\ NotSpace(left[1])
    BY <2>2 DEF CutWell
  <2> HIDE DEF left, k, q
  <2>4. a \in Seq(T) /\ Len(a) = k /\ a[1] = left[1]
    <3>1. 1 \in Int /\ k \in Int /\ \A n \in 1..k : left[n] \in T
      BY <2>2
    <3>2. /\ a \in Seq(T) /\ Len(a) = (IF 1 <= k THEN k - 1 + 1 ELSE 0)
          /\ \A n \in 1..(k - 1 + 1) : a[n] = left[1 + n - 1]
      BY <3>1, SubSeqProperties
    <3> HIDE DEF a
    <3> QED BY <2>2, <3>2
  <2>5. b \in Seq(T) /\ Len(b) = Len(left) - k
    <3>1. k + 1 \in Int /\ Len(left) \in Int /\ \A n \in (k + 1)..Len(left) : left[n] \in T
      BY <2>2
    <3>2. b \in Seq(T) /\ Len(b) = (IF k + 1 <= Len(left) THEN Len(left) - (k + 1) + 1 ELSE 0)
      BY <3>1, SubSeqProperties
    <3> HIDE DEF b
    <3> QED BY <2>2, <3>2
  <2>6. a \o b = left
    <3>1. 1 \in 1..(Len(left) + 1) /\ k \in (1 - 1)..Len(left) /\ Len(left) \in k..Len(left)
      BY <2>2
    <3>2. a \o b = SubSeq(left, 1, Len(left))
      BY <2>2, <3>1, ConcatAdjacentSubSeq
    <3> QED BY <2>2, <3>2, SubSeqFull
  <2> HIDE DEF a, b
  <2>7. /\ Strip(a) \in Seq(T) /\ Len(Strip(a)) <= Len(a) /\ Letters(Strip(a)) = Letters(a)
        /\ Strip(a) # <<>>
    <3>1. a # <<>>
      BY <2>2, <2>4
    <3> QED BY <2>3, <2>4, <3>1, StripFacts
  <2>8. /\ Strip(b) \in Seq(T) /\ Len(Strip(b)) <= Len(b) /\ Letters(Strip(b)) = Letters(b)
        /\ Strip(b) = <<>> \/ NotSpace(Strip(b)[1])
    BY <2>5, StripFacts
  <2>9. Len(Strip(a)) \in 1..MaxChunkChars
    BY <2>2, <2>4, <2>7
  <2>10. q.left = Strip(b) /\ q.pieces = Append(r.pieces, Strip(a))
    BY <2>1
  <2>11. Letters(left) = Letters(a) \o Letters(b)
    BY <2>4, <2>5, <2>6, LettersJoin
  <2>12. /\ All(Append(r.pieces, Strip(a))) = All(r.pieces) \o Letters(a) /\ All(r.pieces) \in Seq(T)
         /\ Append(r.pieces, Strip(a)) \in Seq(Seq(T)) /\ Fit(Append(r.pieces, Strip(a)))
    <3> DEFINE x == Strip(a)
               ss == r.pieces
    <3>1. ss \in Seq(Seq(T)) /\ x \in Seq(T) /\ Len(x) \in 1..MaxChunkChars /\ Fit(ss)
      BY <2>2, <2>7, <2>9 DEF CutWell
    <3> HIDE DEF x, ss
    <3>2. /\ All(Append(ss, x)) = All(ss) \o Letters(x) /\ All(ss) \in Seq(T)
          /\ Append(ss, x) \in Seq(Seq(T)) /\ Fit(Append(ss, x))
      BY <3>1, AllAppend
    <3> QED BY <2>7, <3>2 DEF x, ss
  <2>13. (All(r.pieces) \o Letters(a)) \o Letters(b) = All(r.pieces) \o (Letters(a) \o Letters(b))
    <3>1. Letters(a) \in Seq(T) /\ Letters(b) \in Seq(T)
      BY <2>4, <2>5, LettersFacts
    <3> QED BY SMTT(30), <2>12, <3>1, ConcatAssociative
  <2>14. All(q.pieces) \o Letters(q.left) = Letters(s)
    <3>1. All(r.pieces) \o Letters(left) = Letters(s)
      BY DEF CutWell, left
    <3> QED BY <2>8, <2>10, <2>11, <2>12, <2>13, <3>1
  <2>15. CutWell(q, s, T)
    BY <2>8, <2>10, <2>12, <2>14 DEF CutWell
  <2>16. Len(q.left) < Len(left)
    <3>1. Len(Strip(b)) \in Nat
      BY <2>8
    <3> QED BY <2>2, <2>5, <2>8, <2>10, <3>1
  <2> QED BY <2>15, <2>16 DEF q, left
<1> QED BY <1>1, <1>2


\* The turns of _split_long.
Turns(w, s, m) ==
  /\ w = [n \in 0..m |-> w[n]] /\ w[0] = [left |-> s, pieces |-> <<>>]
  /\ \A n \in 1..m : w[n] = Cut(w[n - 1])

LEMMA TurnsExist ==
  ASSUME NEW s, NEW top \in Nat
  PROVE  \E w : Turns(w, s, top)
<1> DEFINE B == {k \in Nat : ~ \E w : Turns(w, s, k)}
<1> SUFFICES ASSUME B # {} PROVE FALSE
  OBVIOUS
<1>1. PICK k \in B : \A n \in B : k <= n
  <2>1. B \in SUBSET Nat
    OBVIOUS
  <2> HIDE DEF B
  <2> QED BY <2>1, Least
<1>2. CASE k = 0
  <2>1. Turns([n \in 0..0 |-> [left |-> s, pieces |-> <<>>]], s, 0)
    BY DEF Turns
  <2> QED BY <1>1, <1>2, <2>1
<1>3. CASE k # 0
  <2>1. k - 1 \in Nat /\ k - 1 \notin B /\ k \in Nat
    BY <1>1, <1>3
  <2>2. PICK w : Turns(w, s, k - 1)
    BY <2>1
  <2> DEFINE v == [n \in 0..k |-> IF n = k THEN Cut(w[k - 1]) ELSE w[n]]
  <2>3. v = [n \in 0..k |-> v[n]] /\ v[0] = [left |-> s, pieces |-> <<>>]
    BY <1>3, <2>1, <2>2 DEF Turns
  <2>4. ASSUME NEW n \in 1..k PROVE v[n] = Cut(v[n - 1])
    <3>1. CASE n = k
      BY <2>1, <3>1
    <3>2. CASE n # k
      <4>1. n \in 1..(k - 1) /\ v[n] = w[n] /\ v[n - 1] = w[n - 1]
        BY <2>1, <3>2
      <4> QED BY <2>2, <4>1 DEF Turns
    <3> QED BY <3>1, <3>2
  <2>5. Turns(v, s, k)
    <3> HIDE DEF v
    <3> QED BY <2>3, <2>4 DEF Turns
  <2> QED BY <1>1, <2>5
<1> QED BY <1>2, <1>3

\* The pieces of a paragraph that starts with a letter have its letters, and fit.
LEMMA SplitFacts ==
  ASSUME NEW T, NEW s \in Seq(T), s = <<>> \/ NotSpace(s[1])
  PROVE  /\ SplitLong(s) \in Seq(Seq(T)) /\ Fit(SplitLong(s))
         /\ All(SplitLong(s)) = Letters(s)
<1> DEFINE top == Len(s)
           Step(f) == [n \in 0..top |-> IF n = 0 THEN [left |-> s, pieces |-> <<>>] ELSE Cut(f[n - 1])]
           turn == CHOOSE f : f = Step(f)
           end == turn[top]
<1>1. SplitLong(s) = IF end.left = <<>> THEN end.pieces ELSE Append(end.pieces, end.left)
  BY DEF SplitLong
<1>2. top \in Nat
  OBVIOUS
<1>3. PICK w : Turns(w, s, top)
  BY <1>2, TurnsExist
<1> HIDE DEF top
<1>4. w = Step(w)
  <2>1. \A n \in 0..top : w[n] = Step(w)[n]
    <3> SUFFICES ASSUME NEW n \in 0..top PROVE w[n] = Step(w)[n]
      OBVIOUS
    <3>1. CASE n = 0
      BY <1>3, <3>1 DEF Turns
    <3>2. CASE n # 0
      <4>1. n \in 1..top
        BY <1>2, <3>2
      <4> QED BY <1>3, <3>2, <4>1 DEF Turns
    <3> QED BY <3>1, <3>2
  <2>2. w = [n \in 0..top |-> w[n]]
    BY <1>3 DEF Turns
  <2> QED BY <2>1, <2>2
<1>5. turn = Step(turn)
  <2> HIDE DEF Step
  <2> QED BY <1>4
<1> HIDE DEF turn
<1>6. turn[0] = [left |-> s, pieces |-> <<>>]
  <2>1. 0 \in 0..top
    BY <1>2
  <2>2. Step(turn)[0] = [left |-> s, pieces |-> <<>>]
    BY <2>1
  <2> QED BY <1>5, <2>2
<1>7. ASSUME NEW n \in 1..top PROVE turn[n] = Cut(turn[n - 1])
  <2>1. n \in 0..top /\ n # 0
    BY <1>2
  <2>2. Step(turn)[n] = Cut(turn[n - 1])
    BY <2>1
  <2> QED BY <1>5, <2>2
<1> DEFINE Right(n) == /\ CutWell(turn[n], s, T)
                       /\ Len(turn[n].left) <= MaxChunkChars \/ Len(turn[n].left) + n <= top
           B == {n \in Nat : n <= top /\ ~Right(n)}
<1>8. B = {}
  <2> SUFFICES ASSUME B # {} PROVE FALSE
    OBVIOUS
  <2>1. PICK k \in B : \A n \in B : k <= n
    <3>1. B \in SUBSET Nat
      OBVIOUS
    <3> HIDE DEF B
    <3> QED BY <3>1, Least
  <2>a. k \in Nat /\ k <= top /\ ~Right(k)
    BY <2>1
  <2>2. CASE k = 0
    <3>1. turn[0].left = s /\ turn[0].pieces = <<>>
      BY <1>6
    <3>2. Letters(s) \in Seq(T)
      BY LettersFacts
    <3>3. <<>> \o Letters(s) = Letters(s)
      BY <3>2, ConcatEmptySeq
    <3>4. CutWell(turn[0], s, T)
      <4> DEFINE r == turn[0]
      <4>1. r.left = s /\ r.pieces = <<>> /\ <<>> \in Seq(Seq(T))
        BY <3>1
      <4> HIDE DEF r
      <4>2. CutWell(r, s, T)
        BY <3>3, <4>1, AllNone DEF CutWell
      <4> QED BY <4>2 DEF r
    <3>5. Len(turn[0].left) + 0 <= top
      BY <1>2, <3>1 DEF top
    <3> QED BY <2>2, <2>a, <3>4, <3>5
  <2>3. CASE k # 0
    <3>1. k - 1 \in Nat /\ k - 1 <= top /\ ~(k <= k - 1) /\ k \in 1..top
      BY <1>2, <2>3, <2>a
    <3>2. Right(k - 1)
      <4>1. k - 1 \notin B
        <5> HIDE DEF B
        <5> QED BY <2>1, <3>1
      <4> HIDE DEF Right
      <4> QED BY <3>1, <4>1
    <3>3. turn[k] = Cut(turn[k - 1])
      BY <1>7, <3>1
    <3>4. /\ CutWell(turn[k], s, T)
          /\ Len(turn[k].left) <= MaxChunkChars \/ Len(turn[k].left) < Len(turn[k - 1].left)
      BY <3>2, <3>3, CutFacts
    <3>5. Len(turn[k - 1].left) <= MaxChunkChars => turn[k] = turn[k - 1]
      BY <3>3 DEF Cut
    <3>6. Len(turn[k].left) \in Nat /\ Len(turn[k - 1].left) \in Nat
      BY <3>2, <3>4 DEF CutWell
    <3>7. Len(turn[k].left) <= MaxChunkChars \/ Len(turn[k].left) + k <= top
      BY SMTT(30), <1>2, <2>a, <3>2, <3>4, <3>5, <3>6
    <3> QED BY <2>a, <3>4, <3>7
  <2> QED BY <2>2, <2>3
<1>9. Right(top)
  <2> HIDE DEF Right
  <2>1. top \in Nat /\ top <= top /\ top \notin B
    BY <1>2, <1>8
  <2> QED BY <2>1
<1>10. CutWell(end, s, T) /\ Len(end.left) \in Nat
  BY <1>9 DEF CutWell
<1>11. Len(end.left) <= MaxChunkChars
  <2>1. Len(end.left) + top <= top => Len(end.left) = 0
    BY <1>2, <1>10
  <2>2. MaxChunkChars \in Nat
    BY ExtractionAssumption
  <2> QED BY <1>9, <1>10, <2>1, <2>2
<1> HIDE DEF end
<1>12. CASE end.left = <<>>
  <2>1. All(end.pieces) \o <<>> = All(end.pieces)
    <3>1. All(end.pieces) \in Seq(T)
      BY <1>10, FlattenElements, LettersFacts DEF All, CutWell
    <3> QED BY <3>1, ConcatEmptySeq
  <2> QED BY <1>1, <1>10, <1>12, <2>1, AllNone DEF CutWell
<1>13. CASE end.left # <<>>
  <2> DEFINE x == end.left
             ss == end.pieces
  <2>1. x \in Seq(T) /\ ss \in Seq(Seq(T)) /\ Fit(ss) /\ All(ss) \o Letters(x) = Letters(s)
        /\ Len(x) \in 1..MaxChunkChars
    <3>1. Len(x) # 0
      BY <1>10, <1>13 DEF CutWell
    <3>2. MaxChunkChars \in Nat
      BY ExtractionAssumption
    <3> QED BY <1>10, <1>11, <3>1, <3>2 DEF CutWell
  <2>2. SplitLong(s) = Append(ss, x)
    BY <1>1, <1>13
  <2> HIDE DEF x, ss
  <2> QED BY <2>1, <2>2, AllAppend
<1> QED BY <1>12, <1>13


LEMMA Associates ==
  ASSUME NEW T, NEW p \in Seq(T), NEW q \in Seq(T), NEW r \in Seq(T)
  PROVE  (p \o q) \o r = p \o (q \o r)
BY ConcatAssociative

\* Joined lists of texts have the letters of each in turn.
LEMMA AllJoin ==
  ASSUME NEW T, NEW a \in Seq(Seq(T)), NEW b \in Seq(Seq(T))
  PROVE  All(a \o b) = All(a) \o All(b)
<1> DEFINE top == Len(b)
           P(k) == SubSeq(b, 1, k)
           B == {k \in Nat : k <= top /\ All(a \o P(k)) # All(a) \o All(P(k))}
<1>1. top \in Nat
  OBVIOUS
<1>2. \A k \in 0..top : P(k) \in Seq(Seq(T))
  <2> SUFFICES ASSUME NEW k \in 0..top PROVE P(k) \in Seq(Seq(T))
    OBVIOUS
  <2>1. \A n \in 1..k : b[n] \in Seq(T)
    BY <1>1
  <2> QED BY <2>1, SubSeqProperties
<1>3. All(a) \in Seq(T) /\ All(a) \o <<>> = All(a) /\ a \o <<>> = a
  <2>1. All(a) \in Seq(T)
    BY FlattenElements, LettersFacts DEF All
  <2> QED BY <2>1, ConcatEmptySeq
<1>4. P(0) = <<>>
  BY SubSeqEmpty
<1>5. ASSUME NEW k \in 1..top
      PROVE  P(k) = Append(P(k - 1), b[k]) /\ b[k] \in Seq(T) /\ k - 1 \in 0..top
  <2>1. b[k] \in Seq(T) /\ k - 1 \in 0..top
    BY <1>1
  <2>2. SubSeq(b, 1, k) = SubSeq(b, 1, k - 1) \o <<b[k]>>
    <3>1. 1 \in 1..Len(b) /\ k \in 1..Len(b)
      BY <1>1
    <3> QED BY <3>1, SubSeqRecursiveSecond
  <2>3. Append(P(k - 1), b[k]) = P(k - 1) \o <<b[k]>>
    BY <1>2, <2>1, AppendIsConcat
  <2> QED BY <2>1, <2>2, <2>3
<1>6. P(top) = b
  BY SubSeqFull
<1> HIDE DEF P, top
<1>7. B = {}
  <2> SUFFICES ASSUME B # {} PROVE FALSE
    OBVIOUS
  <2>1. PICK k \in B : \A n \in B : k <= n
    <3>1. B \in SUBSET Nat
      OBVIOUS
    <3> HIDE DEF B
    <3> QED BY <3>1, Least
  <2>a. k \in Nat /\ k <= top /\ All(a \o P(k)) # All(a) \o All(P(k))
    BY <2>1
  <2>2. CASE k = 0
    BY <1>3, <1>4, <2>2, <2>a, AllNone
  <2>3. CASE k # 0
    <3>1. k - 1 \in Nat /\ k - 1 <= top /\ ~(k <= k - 1) /\ k \in 1..top
      BY <1>1, <2>3, <2>a
    <3>2. All(a \o P(k - 1)) = All(a) \o All(P(k - 1))
      <4>1. k - 1 \notin B
        <5> HIDE DEF B
        <5> QED BY <2>1, <3>1
      <4> QED BY <3>1, <4>1
    <3> DEFINE c == P(k - 1)
               x == b[k]
    <3>3. P(k) = Append(c, x) /\ x \in Seq(T) /\ c \in Seq(Seq(T))
      BY <1>2, <1>5, <3>1
    <3>4. All(a \o c) = All(a) \o All(c)
      BY <3>2
    <3> HIDE DEF c, x
    <3>5. a \o Append(c, x) = Append(a \o c, x) /\ a \o c \in Seq(Seq(T))
      <4>1. a \o c \in Seq(Seq(T)) /\ <<x>> \in Seq(Seq(T))
        BY <3>3, ConcatProperties
      <4>2. Append(c, x) = c \o <<x>> /\ Append(a \o c, x) = (a \o c) \o <<x>>
        BY <3>3, <4>1, AppendIsConcat
      <4>3. (a \o c) \o <<x>> = a \o (c \o <<x>>)
        <5> DEFINE h == <<x>>
        <5>1. h \in Seq(Seq(T)) /\ c \in Seq(Seq(T))
          BY <3>3, <4>1
        <5> HIDE DEF h, B
        <5>2. (a \o c) \o h = a \o (c \o h)
          BY <5>1, Associates
        <5> QED BY <5>2 DEF h
      <4> QED BY <4>1, <4>2, <4>3
    <3>6. All(Append(a \o c, x)) = All(a \o c) \o Letters(x)
      BY <3>3, <3>5, AllAppend
    <3>7. All(Append(c, x)) = All(c) \o Letters(x) /\ All(c) \in Seq(T)
      BY <3>3, AllAppend
    <3>8. Letters(x) \in Seq(T)
      BY <3>3, LettersFacts
    <3>9. (All(a) \o All(c)) \o Letters(x) = All(a) \o (All(c) \o Letters(x))
      <4> DEFINE p == All(a)
                 q == All(c)
                 r == Letters(x)
      <4>1. p \in Seq(T) /\ q \in Seq(T) /\ r \in Seq(T)
        BY <1>3, <3>7, <3>8
      <4> HIDE DEF p, q, r, B
      <4>2. (p \o q) \o r = p \o (q \o r)
        BY <4>1, Associates
      <4> QED BY <4>2 DEF p, q, r
    <3> QED BY <2>a, <3>3, <3>4, <3>5, <3>6, <3>7, <3>9
  <2> QED BY <2>2, <2>3
<1>8. top \notin B
  BY <1>7
<1> QED BY <1>1, <1>6, <1>8

\* The pieces of all paragraphs have the text's letters.
LEMMA PiecesFacts ==
  ASSUME NEW T, NEW d \in Seq(Seq(T))
  PROVE  LET pieces == FlattenSeq([n \in DOMAIN d |-> SplitLong(Strip(d[n]))]) IN
         /\ pieces \in Seq(Seq(T)) /\ Fit(pieces)
         /\ All(pieces) = All(d)
<1> DEFINE top == Len(d)
           S(p) == SplitLong(Strip(p))
           qq == [n \in DOMAIN d |-> S(d[n])]
           pieces == FlattenSeq(qq)
<1>1. top \in Nat /\ DOMAIN d = 1..top /\ \A n \in 1..top : d[n] \in Seq(T)
  OBVIOUS
<1>2. \A p \in Seq(T) : S(p) \in Seq(Seq(T)) /\ Fit(S(p)) /\ All(S(p)) = Letters(p)
  <2> SUFFICES ASSUME NEW p \in Seq(T)
               PROVE  S(p) \in Seq(Seq(T)) /\ Fit(S(p)) /\ All(S(p)) = Letters(p)
    OBVIOUS
  <2> DEFINE q == Strip(p)
  <2>1. q \in Seq(T) /\ Letters(q) = Letters(p) /\ (q = <<>> \/ NotSpace(q[1]))
    BY StripFacts
  <2> HIDE DEF q
  <2>2. SplitLong(q) \in Seq(Seq(T)) /\ Fit(SplitLong(q)) /\ All(SplitLong(q)) = Letters(q)
    BY <2>1, SplitFacts
  <2> QED BY <2>1, <2>2 DEF q
<1> HIDE DEF S, top
<1>3. qq \in Seq(Seq(Seq(T))) /\ Len(qq) = top /\ \A n \in 1..top : qq[n] = S(d[n])
  BY <1>1, <1>2
<1> HIDE DEF qq
<1>4. pieces \in Seq(Seq(T)) /\ ToSet(pieces) = UNION {ToSet(qq[n]) : n \in 1..top}
  BY <1>3, FlattenElements
<1>5. Fit(pieces)
  <2> HIDE DEF pieces
  <2> SUFFICES ASSUME NEW i \in 1..Len(pieces) PROVE Len(pieces[i]) \in 1..MaxChunkChars
    BY DEF Fit
  <2>1. pieces[i] \in ToSet(pieces)
    BY <1>4 DEF ToSet
  <2>2. PICK n \in 1..top : pieces[i] \in ToSet(qq[n])
    BY <1>4, <2>1
  <2>3. qq[n] \in Seq(Seq(T)) /\ Fit(qq[n])
    BY <1>1, <1>2, <1>3
  <2>4. PICK m \in 1..Len(qq[n]) : pieces[i] = qq[n][m]
    <3> DEFINE t == qq[n]
    <3>1. t \in Seq(Seq(T)) /\ pieces[i] \in ToSet(t)
      BY <2>2, <2>3
    <3> HIDE DEF t
    <3>2. \E m \in 1..Len(t) : pieces[i] = t[m]
      BY <3>1 DEF ToSet
    <3> QED BY <3>2 DEF t
  <2> QED BY <2>3, <2>4 DEF Fit
<1>6. CASE top = 0
  <2>1. qq = <<>> /\ d = <<>>
    BY <1>3, <1>6 DEF top
  <2>2. pieces = <<>>
    BY <2>1 DEF FlattenSeq
  <2> HIDE DEF pieces
  <2> QED BY <1>4, <1>5, <2>1, <2>2 DEF pieces, qq, S
<1>7. CASE top # 0
  <2>1. PICK v : /\ FlattenSeq(d) = v[top]
                 /\ \A i \in 1..top : v[i] = IF i = 1 THEN d[i] ELSE v[i - 1] \o d[i]
    <3>1. d # <<>>
      BY <1>7 DEF top
    <3> QED BY <3>1, FlattenSteps DEF top
  <2>2. PICK w : /\ pieces = w[top]
                 /\ \A i \in 1..top : w[i] = IF i = 1 THEN qq[i] ELSE w[i - 1] \o qq[i]
    <3>1. qq # <<>>
      BY <1>3, <1>7
    <3> QED BY <1>3, <3>1, FlattenSteps
  <2> DEFINE Right(i) == v[i] \in Seq(T) /\ w[i] \in Seq(Seq(T)) /\ All(w[i]) = Letters(v[i])
             B == {i \in Nat : i \in 1..top /\ ~Right(i)}
  <2> HIDE DEF pieces
  <2>3. B = {}
    <3> SUFFICES ASSUME B # {} PROVE FALSE
      OBVIOUS
    <3>1. PICK k \in B : \A n \in B : k <= n
      <4>1. B \in SUBSET Nat
        OBVIOUS
      <4> HIDE DEF B
      <4> QED BY <4>1, Least
    <3>a. k \in Nat /\ k \in 1..top /\ ~Right(k)
      BY <3>1
    <3>2. d[k] \in Seq(T) /\ qq[k] \in Seq(Seq(T)) /\ All(qq[k]) = Letters(d[k])
      BY <1>1, <1>2, <1>3, <3>a
    <3>3. CASE k = 1
      BY <2>1, <2>2, <3>2, <3>3, <3>a
    <3>4. CASE k # 1
      <4>1. k - 1 \in Nat /\ k - 1 \in 1..top /\ ~(k <= k - 1)
        BY <1>1, <3>4, <3>a
      <4>2. Right(k - 1)
        <5>1. k - 1 \notin B
          <6> HIDE DEF B
          <6> QED BY <3>1, <4>1
        <5> HIDE DEF Right
        <5> QED BY <4>1, <5>1
      <4> DEFINE a == v[k - 1]
                 b == d[k]
                 aa == w[k - 1]
                 bb == qq[k]
      <4>3. v[k] = a \o b /\ w[k] = aa \o bb
        BY <2>1, <2>2, <3>4, <3>a
      <4>4. /\ a \in Seq(T) /\ b \in Seq(T) /\ aa \in Seq(Seq(T)) /\ bb \in Seq(Seq(T))
            /\ All(aa) = Letters(a) /\ All(bb) = Letters(b)
        BY <3>2, <4>2
      <4> HIDE DEF a, b, aa, bb
      <4>5. a \o b \in Seq(T) /\ Letters(a \o b) = Letters(a) \o Letters(b)
        BY <4>4, ConcatProperties, LettersJoin
      <4>6. aa \o bb \in Seq(Seq(T)) /\ All(aa \o bb) = All(aa) \o All(bb)
        BY <4>4, ConcatProperties, AllJoin
      <4>7. Right(k)
        BY <4>3, <4>4, <4>5, <4>6
      <4> QED BY <3>a, <4>7
    <3> QED BY <3>3, <3>4
  <2>4. Right(top)
    <3> HIDE DEF Right
    <3>1. top \in Nat /\ top \in 1..top /\ top \notin B
      BY <1>1, <1>7, <2>3
    <3> QED BY <3>1
  <2>5. All(pieces) = All(d)
    BY <2>1, <2>2, <2>4 DEF All
  <2> QED BY <1>4, <1>5, <2>5 DEF pieces, qq, S
<1> QED BY <1>1, <1>6, <1>7


\* A piece that is packed is in the last chunk, or a chunk of its own.
LEMMA PackFacts ==
  ASSUME NEW T, Space \in T, NEW ss \in Seq(Seq(T)), Fit(ss),
         NEW x \in Seq(T), Len(x) \in 1..MaxChunkChars
  PROVE  /\ Pack(ss, x) \in Seq(Seq(T)) /\ Fit(Pack(ss, x))
         /\ All(Pack(ss, x)) = All(ss) \o Letters(x)
<1> DEFINE new == ss = <<>> \/ Len(Last(ss)) + 2 + Len(x) > MaxChunkChars
           gap == <<Space, Space>>
           front == Front(ss)
           l == Last(ss)
           y == l \o gap \o x
<1>1. CASE new
  <2>1. Pack(ss, x) = Append(ss, x)
    BY <1>1 DEF Pack
  <2> QED BY <2>1, AllAppend
<1>2. CASE ~new
  <2>1. Pack(ss, x) = Append(front, y)
    BY <1>2 DEF Pack
  <2>2. /\ ss # <<>> /\ Len(ss) \in Nat /\ Len(ss) # 0 /\ l = ss[Len(ss)]
        /\ ~(Len(l) + 2 + Len(x) > MaxChunkChars)
    BY <1>2 DEF Last
  <2>3. l \in Seq(T) /\ Len(l) \in 1..MaxChunkChars /\ MaxChunkChars \in Nat
    BY <2>2, ExtractionAssumption DEF Fit
  <2>4. front \in Seq(Seq(T)) /\ Fit(front) /\ ss = Append(front, l)
    <3> DEFINE k == Len(ss) - 1
    <3>1. k \in Nat /\ k \in 0..Len(ss) /\ \A n \in 1..k : n \in 1..Len(ss) /\ ss[n] \in Seq(T)
      BY <2>2
    <3>2. front = SubSeq(ss, 1, k)
      BY DEF Front
    <3>3. /\ SubSeq(ss, 1, k) \in Seq(Seq(T)) /\ Len(SubSeq(ss, 1, k)) = k
          /\ \A n \in 1..k : SubSeq(ss, 1, k)[n] = ss[n]
      <4> HIDE DEF k
      <4>1. 1 \in Int /\ k \in Int /\ \A n \in 1..k : ss[n] \in Seq(T)
        BY <3>1
      <4>2. /\ SubSeq(ss, 1, k) \in Seq(Seq(T)) /\ Len(SubSeq(ss, 1, k)) = (IF 1 <= k THEN k - 1 + 1 ELSE 0)
            /\ \A n \in 1..(k - 1 + 1) : SubSeq(ss, 1, k)[n] = ss[1 + n - 1]
        BY <4>1, SubSeqProperties
      <4> DEFINE q == SubSeq(ss, 1, k)
      <4> HIDE DEF q
      <4>3. q \in Seq(Seq(T)) /\ Len(q) = k /\ \A n \in 1..k : q[n] = ss[n]
        BY <3>1, <4>2 DEF q
      <4> QED BY <4>3 DEF q
    <3> HIDE DEF k
    <3>4. Fit(SubSeq(ss, 1, k))
      BY SMTT(30), <3>1, <3>3 DEF Fit
    <3>5. SubSeq(ss, 1, k) \o <<ss[Len(ss)]>> = ss
      <4>1. 1 \in 1..Len(ss) /\ Len(ss) \in 1..Len(ss)
        BY <2>2
      <4>2. SubSeq(ss, 1, Len(ss)) = SubSeq(ss, 1, Len(ss) - 1) \o <<ss[Len(ss)]>>
        BY <4>1, SubSeqRecursiveSecond
      <4>3. SubSeq(ss, 1, Len(ss)) = ss
        BY SubSeqFull
      <4> QED BY <4>2, <4>3 DEF k
    <3>6. Append(SubSeq(ss, 1, k), l) = SubSeq(ss, 1, k) \o <<l>>
      <4> DEFINE f == SubSeq(ss, 1, k)
      <4>1. f \in Seq(Seq(T))
        BY <3>3
      <4> HIDE DEF f, l
      <4>2. Append(f, l) = f \o <<l>>
        BY <2>3, <4>1, AppendIsConcat
      <4> QED BY <4>2 DEF f
    <3> QED BY <2>2, <3>2, <3>3, <3>4, <3>5, <3>6
  <2> HIDE DEF front, l, new, gap
  <2>5. gap \in Seq(T) /\ Len(gap) = 2 /\ Letters(gap) = <<>>
    <3>1. gap \in Seq(T) /\ Len(gap) = 2
      BY DEF gap
    <3>2. Marks(gap) = {}
      BY DEF Marks, NotSpace, gap
    <3> QED BY <3>1, <3>2, LettersNone
  <2>6. /\ l \o gap \in Seq(T) /\ Len(l \o gap) = Len(l) + 2
        /\ Letters(l \o gap) = Letters(l)
    <3>1. Letters(l \o gap) = Letters(l) \o <<>> /\ Letters(l) \in Seq(T)
      BY <2>3, <2>5, LettersJoin, LettersFacts
    <3>2. Letters(l) \o <<>> = Letters(l)
      BY <3>1, ConcatEmptySeq
    <3>3. l \in Seq(T) /\ gap \in Seq(T) /\ Len(gap) = 2
      BY <2>3, <2>5
    <3>4. l \o gap \in Seq(T) /\ Len(l \o gap) = Len(l) + Len(gap)
      BY <3>3, ConcatProperties
    <3> QED BY <3>1, <3>2, <3>3, <3>4
  <2>7. y \in Seq(T) /\ Len(y) = Len(l) + 2 + Len(x) /\ Letters(y) = Letters(l) \o Letters(x)
    <3> DEFINE p == l \o gap
    <3>1. p \in Seq(T) /\ Len(p) = Len(l) + 2 /\ Letters(p) = Letters(l) /\ y = p \o x
      BY <2>6
    <3> HIDE DEF p, y
    <3>2. p \o x \in Seq(T) /\ Len(p \o x) = Len(p) + Len(x) /\ Letters(p \o x) = Letters(p) \o Letters(x)
      BY <3>1, ConcatProperties, LettersJoin
    <3> QED BY <3>1, <3>2
  <2>8. Len(y) \in 1..MaxChunkChars
    <3>1. Len(l) \in Nat /\ Len(x) \in Nat
      BY <2>3
    <3> QED BY <2>2, <2>3, <2>7, <3>1
  <2> HIDE DEF y
  <2>9. /\ Append(front, y) \in Seq(Seq(T)) /\ Fit(Append(front, y))
        /\ All(Append(front, y)) = All(front) \o Letters(y)
    BY <2>4, <2>7, <2>8, AllAppend
  <2>10. All(Append(front, l)) = All(front) \o Letters(l) /\ All(front) \in Seq(T)
    BY <2>3, <2>4, AllAppend
  <2>11. (All(front) \o Letters(l)) \o Letters(x) = All(front) \o (Letters(l) \o Letters(x))
    <3> DEFINE p == All(front)
               q == Letters(l)
               r == Letters(x)
    <3>1. p \in Seq(T) /\ q \in Seq(T) /\ r \in Seq(T)
      BY <2>3, <2>10, LettersFacts
    <3> HIDE DEF p, q, r
    <3>2. (p \o q) \o r = p \o (q \o r)
      BY SMTT(30), <3>1, Associates
    <3> QED BY <3>2 DEF p, q, r
  <2> QED BY <2>1, <2>4, <2>7, <2>9, <2>10, <2>11
<1> QED BY <1>1, <1>2

\* The chunks after some pieces.
Packs(w, pieces, m) ==
  /\ w = [n \in 0..m |-> w[n]] /\ w[0] = <<>>
  /\ \A n \in 1..m : w[n] = Pack(w[n - 1], pieces[n])

LEMMA PacksExist ==
  ASSUME NEW pieces, NEW top \in Nat
  PROVE  \E w : Packs(w, pieces, top)
<1> DEFINE B == {k \in Nat : ~ \E w : Packs(w, pieces, k)}
<1> SUFFICES ASSUME B # {} PROVE FALSE
  OBVIOUS
<1>1. PICK k \in B : \A n \in B : k <= n
  <2>1. B \in SUBSET Nat
    OBVIOUS
  <2> HIDE DEF B
  <2> QED BY <2>1, Least
<1>2. CASE k = 0
  <2>1. Packs([n \in 0..0 |-> <<>>], pieces, 0)
    BY DEF Packs
  <2> QED BY <1>1, <1>2, <2>1
<1>3. CASE k # 0
  <2>1. k - 1 \in Nat /\ k - 1 \notin B /\ k \in Nat
    BY <1>1, <1>3
  <2>2. PICK w : Packs(w, pieces, k - 1)
    BY <2>1
  <2> DEFINE v == [n \in 0..k |-> IF n = k THEN Pack(w[k - 1], pieces[k]) ELSE w[n]]
  <2>3. v = [n \in 0..k |-> v[n]] /\ v[0] = <<>>
    BY <1>3, <2>1, <2>2 DEF Packs
  <2>4. ASSUME NEW n \in 1..k PROVE v[n] = Pack(v[n - 1], pieces[n])
    <3>1. CASE n = k
      BY <2>1, <3>1
    <3>2. CASE n # k
      <4>1. n \in 1..(k - 1) /\ v[n] = w[n] /\ v[n - 1] = w[n - 1]
        BY <2>1, <3>2
      <4> QED BY <2>2, <4>1 DEF Packs
    <3> QED BY <3>1, <3>2
  <2>5. Packs(v, pieces, k)
    <3> HIDE DEF v
    <3> QED BY <2>3, <2>4 DEF Packs
  <2> QED BY <1>1, <2>5
<1> QED BY <1>2, <1>3

\* The chunks of a text have its letters, and fit.
LEMMA ChunkFacts ==
  ASSUME NEW T, Space \in T, NEW d \in Seq(Seq(T))
  PROVE  /\ ChunkText(d) \in Seq(Seq(T)) /\ Fit(ChunkText(d))
         /\ All(ChunkText(d)) = All(d)
<1> DEFINE pieces == FlattenSeq([n \in DOMAIN d |-> SplitLong(Strip(d[n]))])
           top == Len(pieces)
           Step(f) == [n \in 0..top |-> IF n = 0 THEN <<>> ELSE Pack(f[n - 1], pieces[n])]
           packed == CHOOSE f : f = Step(f)
<1>1. ChunkText(d) = packed[top]
  BY DEF ChunkText
<1>2. pieces \in Seq(Seq(T)) /\ Fit(pieces) /\ All(pieces) = All(d)
  BY PiecesFacts
<1> HIDE DEF pieces
<1>3. top \in Nat
  BY <1>2
<1>4. PICK w : Packs(w, pieces, top)
  BY <1>3, PacksExist
<1> HIDE DEF top
<1>5. w = Step(w)
  <2>1. \A n \in 0..top : w[n] = Step(w)[n]
    <3> SUFFICES ASSUME NEW n \in 0..top PROVE w[n] = Step(w)[n]
      OBVIOUS
    <3>1. CASE n = 0
      BY <1>4, <3>1 DEF Packs
    <3>2. CASE n # 0
      <4>1. n \in 1..top
        BY <1>3, <3>2
      <4> QED BY <1>4, <3>2, <4>1 DEF Packs
    <3> QED BY <3>1, <3>2
  <2>2. w = [n \in 0..top |-> w[n]]
    BY <1>4 DEF Packs
  <2> QED BY <2>1, <2>2
<1>6. packed = Step(packed)
  <2> HIDE DEF Step
  <2> QED BY <1>5
<1> HIDE DEF packed
<1>7. packed[0] = <<>>
  <2>1. 0 \in 0..top
    BY <1>3
  <2>2. Step(packed)[0] = <<>>
    BY <2>1
  <2> QED BY <1>6, <2>2
<1>8. ASSUME NEW n \in 1..top PROVE packed[n] = Pack(packed[n - 1], pieces[n])
  <2>1. n \in 0..top /\ n # 0
    BY <1>3
  <2>2. Step(packed)[n] = Pack(packed[n - 1], pieces[n])
    BY <2>1
  <2> QED BY <1>6, <2>2
<1> DEFINE P(k) == SubSeq(pieces, 1, k)
           Right(k) == packed[k] \in Seq(Seq(T)) /\ Fit(packed[k]) /\ All(packed[k]) = All(P(k))
           B == {k \in Nat : k <= top /\ ~Right(k)}
<1>9. P(0) = <<>> /\ P(top) = pieces
  BY <1>2, SubSeqEmpty, SubSeqFull DEF top
<1>10. ASSUME NEW k \in 1..top
       PROVE  /\ P(k) = Append(P(k - 1), pieces[k]) /\ P(k - 1) \in Seq(Seq(T))
              /\ pieces[k] \in Seq(T) /\ Len(pieces[k]) \in 1..MaxChunkChars
  <2>1. pieces[k] \in Seq(T) /\ Len(pieces[k]) \in 1..MaxChunkChars
    BY <1>2 DEF Fit, top
  <2>2. P(k - 1) \in Seq(Seq(T))
    <3>1. k - 1 \in Int /\ \A n \in 1..(k - 1) : pieces[n] \in Seq(T)
      BY <1>2, <1>3 DEF top
    <3> QED BY <3>1, SubSeqProperties
  <2>3. SubSeq(pieces, 1, k) = SubSeq(pieces, 1, k - 1) \o <<pieces[k]>>
    <3>1. 1 \in 1..Len(pieces) /\ k \in 1..Len(pieces)
      BY <1>3 DEF top
    <3> QED BY <1>2, <3>1, SubSeqRecursiveSecond
  <2>4. Append(P(k - 1), pieces[k]) = P(k - 1) \o <<pieces[k]>>
    BY <2>1, <2>2, AppendIsConcat
  <2> QED BY <2>1, <2>2, <2>3, <2>4
<1> HIDE DEF P
<1>11. B = {}
  <2> SUFFICES ASSUME B # {} PROVE FALSE
    OBVIOUS
  <2>1. PICK k \in B : \A n \in B : k <= n
    <3>1. B \in SUBSET Nat
      OBVIOUS
    <3> HIDE DEF B
    <3> QED BY <3>1, Least
  <2>a. k \in Nat /\ k <= top /\ ~Right(k)
    BY <2>1
  <2>2. CASE k = 0
    <3>1. <<>> \in Seq(Seq(T)) /\ Fit(<<>>) /\ All(<<>>) = All(<<>>)
      BY AllNone
    <3>2. Right(0)
      BY <1>7, <1>9, <3>1
    <3> QED BY <2>2, <2>a, <3>2
  <2>3. CASE k # 0
    <3>1. k - 1 \in Nat /\ k - 1 <= top /\ ~(k <= k - 1) /\ k \in 1..top
      BY <1>3, <2>3, <2>a
    <3>2. Right(k - 1)
      <4>1. k - 1 \notin B
        <5> HIDE DEF B
        <5> QED BY <2>1, <3>1
      <4> HIDE DEF Right
      <4> QED BY <3>1, <4>1
    <3> DEFINE ss == packed[k - 1]
               c == P(k - 1)
               x == pieces[k]
    <3>3. ss \in Seq(Seq(T)) /\ Fit(ss) /\ All(ss) = All(c)
      BY <3>2
    <3>4. P(k) = Append(c, x) /\ c \in Seq(Seq(T)) /\ x \in Seq(T) /\ Len(x) \in 1..MaxChunkChars
      BY <1>10, <3>1
    <3>5. packed[k] = Pack(ss, x)
      BY <1>8, <3>1
    <3> HIDE DEF ss, c, x
    <3>6. Pack(ss, x) \in Seq(Seq(T)) /\ Fit(Pack(ss, x)) /\ All(Pack(ss, x)) = All(ss) \o Letters(x)
      BY <3>3, <3>4, PackFacts
    <3>7. All(Append(c, x)) = All(c) \o Letters(x)
      BY <3>4, AllAppend
    <3> QED BY <2>a, <3>3, <3>4, <3>5, <3>6, <3>7
  <2> QED BY <2>2, <2>3
<1>12. Right(top)
  <2> HIDE DEF Right
  <2>1. top \in Nat /\ top <= top /\ top \notin B
    BY <1>3, <1>11
  <2> QED BY <2>1
<1> QED BY <1>1, <1>2, <1>9, <1>12


-----------------------------------------------------------------------------
(* An extraction.                                                          *)

Entry == [says : Statement, by : {"llm", "regex"}, chunk : Nat]
Once(entries) == \A m, n \in DOMAIN entries : entries[m].says = entries[n].says => m = n
Rest == SubSeq(chunks, MaxChunks + 1, Len(chunks))

ExtractionInv ==
  /\ document \in Seq(Seq(Char)) /\ chunks = ChunkText(document)
  /\ read \in Seq({"llm", "regex"}) /\ gathered \in Seq(Entry)
  /\ extractStage = "done" => extraction.left = Len(FlattenSeq(Rest)) /\ Once(gathered)

\* A finite set has a sequence of its elements.
LEMMA SetToSeqFacts ==
  ASSUME NEW S, IsFiniteSet(S)
  PROVE  SetToSeq(S) \in Seq(S)
<1>1. PICK n \in Nat : ExistsBijection(1..n, S)
  BY FS_NatBijection
<1>2. Cardinality(S) = n
  BY <1>1, FS_CountingElements
<1>3. PICK f : f \in Bijection(1..n, S)
  BY <1>1 DEF ExistsBijection
<1>4. f \in [1..n -> S] /\ IsInjective(f)
  BY <1>3 DEF Bijection, Injection
<1>5. SetToSeq(S) \in [1..n -> S]
  <2>1. SetToSeq(S) = CHOOSE g \in [1..n -> S] : IsInjective(g)
    BY <1>2 DEF SetToSeq
  <2> QED BY <1>4, <2>1
<1> QED BY <1>5

\* What is said more than once is kept once.
LEMMA DedupeFacts ==
  ASSUME NEW T, NEW entries \in Seq(T)
  PROVE  Dedupe(entries) \in Seq(T) /\ Once(Dedupe(entries))
<1> DEFINE places == {n \in DOMAIN entries : \A m \in 1..(n - 1) : entries[m].says # entries[n].says}
           c == Cardinality(places)
           kept == At(entries, places)
<1>1. Dedupe(entries) = kept
  BY DEF Dedupe
<1>2. places \in SUBSET DOMAIN entries /\ DOMAIN entries = 1..Len(entries) /\ Len(entries) \in Nat
  OBVIOUS
<1>3. \A n \in places : \A m \in 1..(n - 1) : entries[m].says # entries[n].says
  OBVIOUS
<1> HIDE DEF places
<1>4. kept \in Seq(T) /\ Len(kept) = c /\ c \in Nat
  BY <1>2, AtFacts
<1>5. PICK order \in [1..c -> places] :
        /\ \A n \in 1..c : kept[n] = entries[order[n]]
        /\ \A m, n \in 1..c : m < n => order[m] < order[n]
  BY <1>2, AtFacts
<1> HIDE DEF c, kept
<1>6. ASSUME NEW m \in 1..c, NEW n \in 1..c, m < n PROVE kept[m].says # kept[n].says
  <2>1. order[m] \in 1..Len(entries) /\ order[n] \in 1..Len(entries) /\ order[n] \in places
    BY <1>2, <1>5
  <2>2. order[m] < order[n]
    BY <1>5, <1>6
  <2>3. order[m] \in 1..(order[n] - 1)
    BY <1>2, <2>1, <2>2
  <2> QED BY <1>3, <1>5, <2>1, <2>3
<1>7. Once(kept)
  <2> SUFFICES ASSUME NEW m \in 1..c, NEW n \in 1..c, m # n PROVE kept[m].says # kept[n].says
    BY <1>4 DEF Once
  <2>1. m < n \/ n < m
    BY <1>4
  <2> QED BY <1>6, <2>1
<1> QED BY <1>1, <1>4, <1>7

LEMMA ExtractionStart ==
  ExtractionInit => ExtractionInv
<1> SUFFICES ASSUME ExtractionInit PROVE ExtractionInv
  OBVIOUS
<1>1. document \in Seq(Seq(Char))
  BY ExtractionAssumption DEF ExtractionInit
<1> QED BY <1>1 DEF ExtractionInit, ExtractionInv

LEMMA ExtractionStep ==
  ExtractionInv /\ [ExtractionNext]_extractVars => ExtractionInv'
<1> SUFFICES ASSUME ExtractionInv, [ExtractionNext]_extractVars PROVE ExtractionInv'
  OBVIOUS
<1>1. CASE ReadChunk
  <2>1. PICK by \in {"llm", "regex"}, silent \in BOOLEAN, said \in SUBSET Statement :
          /\ IF silent /\ read = <<>>
             THEN extractStage' = "unavailable" /\ said = {} /\ UNCHANGED <<read, gathered>>
             ELSE /\ read' = Append(read, by)
                  /\ gathered' = gathered \o SetToSeq({[says |-> s, by |-> by, chunk |-> Len(read')] : s \in said})
                  /\ UNCHANGED extractStage
          /\ UNCHANGED <<document, chunks, extraction>> /\ extractStage = "reading"
    BY <1>1 DEF ReadChunk
  <2>2. extractStage' # "done"
    BY <2>1
  <2>3. read' \in Seq({"llm", "regex"})
    <3> DEFINE Readers == {"llm", "regex"}
    <3>1. read \in Seq(Readers) /\ by \in Readers
      BY DEF ExtractionInv
    <3>2. read' = read \/ read' = Append(read, by)
      BY <2>1
    <3> HIDE DEF Readers
    <3>3. read' \in Seq(Readers)
      BY <3>1, <3>2, AppendProperties
    <3> QED BY <3>3 DEF Readers
  <2>4. gathered' \in Seq(Entry)
    <3>1. CASE silent /\ read = <<>>
      BY <2>1, <3>1 DEF ExtractionInv
    <3>2. CASE ~(silent /\ read = <<>>)
      <4> DEFINE n == Len(read')
                 new == {[says |-> s, by |-> by, chunk |-> n] : s \in said}
      <4>1. n \in Nat
        BY <2>3
      <4>2. gathered' = gathered \o SetToSeq(new)
        BY <2>1, <3>2
      <4> HIDE DEF n
      <4>3. new \in SUBSET Entry
        BY <4>1 DEF Entry
      <4>4. IsFiniteSet(new)
        <5>1. IsFiniteSet(said)
          BY ExtractionAssumption, FS_Subset
        <5> DEFINE f == [s \in said |-> [says |-> s, by |-> by, chunk |-> n]]
        <5>2. f \in Surjection(said, new)
          BY DEF Surjection
        <5> HIDE DEF f, new
        <5> QED BY <5>1, <5>2, FS_Surjection
      <4> HIDE DEF new
      <4>5. SetToSeq(new) \in Seq(Entry)
        BY <4>3, <4>4, SetToSeqFacts, Widen
      <4>6. gathered \in Seq(Entry)
        BY DEF ExtractionInv
      <4> QED BY <4>2, <4>5, <4>6, ConcatProperties
    <3> QED BY <3>1, <3>2
  <2> QED BY <2>1, <2>2, <2>3, <2>4 DEF ExtractionInv
<1>2. CASE FinishExtraction
  <2>1. /\ gathered' = Dedupe(gathered) /\ UNCHANGED <<document, chunks, read>>
        /\ extraction'.left = Len(FlattenSeq(Rest))
    BY <1>2 DEF FinishExtraction, Rest
  <2>2. gathered' \in Seq(Entry) /\ Once(gathered')
    BY <2>1, DedupeFacts DEF ExtractionInv
  <2>3. Rest' = Rest
    BY <2>1 DEF Rest
  <2> QED BY <2>1, <2>2, <2>3 DEF ExtractionInv
<1>3. CASE UNCHANGED extractVars
  BY <1>3 DEF extractVars, ExtractionInv, Rest
<1> QED BY <1>1, <1>2, <1>3 DEF ExtractionNext

\* The inductive invariant of an extraction: its chunks are those of its text, and what it reports
\* at its end is what it has left.
THEOREM ExtractionInvariant ==
  ExtractionSpec => []ExtractionInv
BY ExtractionStart, ExtractionStep, PTL DEF ExtractionSpec

\* Of any text, whatever its paragraphs and wherever they are cut, nothing but space is missing
\* from the chunks, all of which fit; what a finished extraction has not read it reports; and what
\* is said in several chunks is kept once (llm_extraction.py:_split_long, chunk_text, _dedupe).
THEOREM NothingEverLost ==
  ExtractionSpec => []NothingLost
<1>1. ExtractionInv => NothingLost
  <2> SUFFICES ASSUME ExtractionInv, extractStage = "done"
               PROVE  LET letters == Letters(FlattenSeq(document))
                          asked == Letters(FlattenSeq(Asked))
                      IN  /\ IsPrefix(asked, letters)
                          /\ Len(letters) - Len(asked) <= extraction.left
                          /\ extraction.left = 0 => asked = letters
                          /\ \A n \in DOMAIN chunks : Len(chunks[n]) \in 1..MaxChunkChars
                          /\ \A m, n \in DOMAIN gathered : gathered[m].says = gathered[n].says => m = n
    BY DEF NothingLost
  <2> DEFINE letters == All(document)
             asked == All(Asked)
             left == All(Rest)
             k == IF Len(chunks) < MaxChunks THEN Len(chunks) ELSE MaxChunks
  <2>1. chunks \in Seq(Seq(Char)) /\ Fit(chunks) /\ All(chunks) = letters
    <3>1. Space \in Char
      BY DEF Char
    <3> QED BY <3>1, ChunkFacts DEF ExtractionInv
  <2>2. MaxChunks \in Nat /\ Len(chunks) \in Nat /\ k \in 0..Len(chunks) /\ DOMAIN chunks = 1..Len(chunks)
    BY <2>1, ExtractionAssumption
  <2>3. Rest = SubSeq(chunks, k + 1, Len(chunks))
    <3>1. CASE Len(chunks) < MaxChunks
      <4>1. Rest = <<>>
        BY <2>2, <3>1, SubSeqEmpty DEF Rest
      <4>2. SubSeq(chunks, k + 1, Len(chunks)) = <<>>
        BY <2>2, <3>1, SubSeqEmpty
      <4> QED BY <4>1, <4>2
    <3>2. CASE ~(Len(chunks) < MaxChunks)
      BY <3>2 DEF Rest
    <3> QED BY <3>1, <3>2
  <2>4. Asked = SubSeq(chunks, 1, k)
    BY DEF Asked
  <2> HIDE DEF k
  <2>5. Asked \in Seq(Seq(Char)) /\ Rest \in Seq(Seq(Char)) /\ chunks = Asked \o Rest
    <3>1. \A n \in 1..Len(chunks) : chunks[n] \in Seq(Char)
      BY <2>1
    <3>2. k \in Int /\ k + 1 \in Int /\ Len(chunks) \in Int /\ 1 \in Int
      BY <2>2
    <3>3. (\A n \in 1..k : chunks[n] \in Seq(Char)) /\ \A n \in (k + 1)..Len(chunks) : chunks[n] \in Seq(Char)
      BY <2>2, <3>1
    <3>4. SubSeq(chunks, 1, k) \in Seq(Seq(Char)) /\ SubSeq(chunks, k + 1, Len(chunks)) \in Seq(Seq(Char))
      BY <3>2, <3>3, SubSeqProperties
    <3>5. SubSeq(chunks, 1, k) \o SubSeq(chunks, k + 1, Len(chunks)) = chunks
      <4>1. 1 \in 1..(Len(chunks) + 1) /\ k \in (1 - 1)..Len(chunks) /\ Len(chunks) \in k..Len(chunks)
        BY <2>2
      <4>2. SubSeq(chunks, 1, k) \o SubSeq(chunks, k + 1, Len(chunks)) = SubSeq(chunks, 1, Len(chunks))
        BY <2>1, <4>1, ConcatAdjacentSubSeq
      <4> QED BY <2>1, <4>2, SubSeqFull
    <3> QED BY <2>3, <2>4, <3>4, <3>5
  <2>6. letters = asked \o left
    BY <2>1, <2>5, AllJoin
  <2>7. asked \in Seq(Char) /\ left \in Seq(Char) /\ Len(left) <= Len(FlattenSeq(Rest))
    BY <2>5, FlattenElements, LettersFacts DEF All
  <2>8. extraction.left = Len(FlattenSeq(Rest)) /\ Once(gathered)
    BY DEF ExtractionInv
  <2> HIDE DEF letters, asked, left
  <2>9. Len(asked) \in Nat /\ Len(left) \in Nat /\ Len(letters) = Len(asked) + Len(left)
        /\ letters \in Seq(Char) /\ \A n \in 1..Len(asked) : letters[n] = asked[n]
    <3>1. Len(asked) \in Nat /\ Len(left) \in Nat
      BY <2>7
    <3>2. /\ asked \o left \in Seq(Char) /\ Len(asked \o left) = Len(asked) + Len(left)
          /\ \A n \in 1..(Len(asked) + Len(left)) :
               (asked \o left)[n] = IF n <= Len(asked) THEN asked[n] ELSE left[n - Len(asked)]
      BY <2>7, ConcatProperties
    <3> QED BY <2>6, <3>1, <3>2
  <2>10. IsPrefix(asked, letters)
    <3>1. SubSeq(asked, 1, Len(asked)) = asked
      BY <2>7, SubSeqFull
    <3>2. SubSeq(letters, 1, Len(asked)) = asked
      <4>1. /\ SubSeq(letters, 1, Len(asked)) \in Seq(Char)
            /\ Len(SubSeq(letters, 1, Len(asked))) = Len(asked)
            /\ \A n \in 1..Len(asked) : SubSeq(letters, 1, Len(asked))[n] = asked[n]
        <5>1. 1 \in Int /\ Len(asked) \in Int /\ \A n \in 1..Len(asked) : letters[n] \in Char
          BY <2>9
        <5>2. /\ SubSeq(letters, 1, Len(asked)) \in Seq(Char)
              /\ Len(SubSeq(letters, 1, Len(asked))) = (IF 1 <= Len(asked) THEN Len(asked) - 1 + 1 ELSE 0)
              /\ \A n \in 1..(Len(asked) - 1 + 1) : SubSeq(letters, 1, Len(asked))[n] = letters[1 + n - 1]
          BY <5>1, SubSeqProperties
        <5> DEFINE q == SubSeq(letters, 1, Len(asked))
        <5> HIDE DEF q
        <5>3. q \in Seq(Char) /\ Len(q) = Len(asked) /\ \A n \in 1..Len(asked) : q[n] = asked[n]
          BY <2>9, <5>2 DEF q
        <5> QED BY <5>3 DEF q
      <4> QED BY <2>7, <4>1, SeqEqual
    <3> QED BY <2>9, <3>1, <3>2 DEF IsPrefix
  <2>11. Len(letters) - Len(asked) <= extraction.left
    BY <2>7, <2>8, <2>9
  <2>12. ASSUME extraction.left = 0 PROVE asked = letters
    <3>1. Len(left) = 0
      BY <2>7, <2>8, <2>9, <2>12
    <3>2. left = <<>>
      BY <2>7, <3>1
    <3> QED BY <2>6, <2>7, <3>2, ConcatEmptySeq
  <2>13. \A n \in DOMAIN chunks : Len(chunks[n]) \in 1..MaxChunkChars
    BY <2>1, <2>2 DEF Fit
  <2>14. \A m, n \in DOMAIN gathered : gathered[m].says = gathered[n].says => m = n
    BY <2>8 DEF Once
  <2> QED BY <2>10, <2>11, <2>12, <2>13, <2>14 DEF letters, asked, All
<1> QED BY <1>1, ExtractionInvariant, PTL

=============================================================================
