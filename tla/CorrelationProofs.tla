------------------------ MODULE CorrelationProofs ------------------------
(***************************************************************************)
(* What holds of the groups that correlate computes, for every set of      *)
(* alerts, every feed and every policy: they are a partition, and          *)
(* comparing neighbours only loses none of the links that CorrelationAgent *)
(* promises.                                                               *)
(***************************************************************************)
EXTENDS Correlation, FiniteSetTheorems, WellFoundedInduction, TLAPS

(***************************************************************************)
(* Least and greatest elements.                                            *)
(***************************************************************************)
\* Every nonempty set of alert numbers has a first alert: the smallest of the sets
\* 0..x belongs to it.
LEMMA LeastOf ==
    ASSUME NEW T \in SUBSET Nat, T # {}
    PROVE  \E x \in T : \A y \in T : x <= y
<1> DEFINE R == StrictSubsetOrdering(Nat)
           F == FiniteSubsetsOf(Nat)
           U == {0..x : x \in T}
<1>1. IsWellFoundedOn(R, F)
  BY FS_StrictSubsetOrderingWellFounded
<1>2. U \subseteq F
  <2> SUFFICES ASSUME NEW x \in T PROVE 0..x \in F
    OBVIOUS
  <2>1. IsFiniteSet(0..x)
    BY FS_Interval
  <2> QED
    BY <2>1 DEF FiniteSubsetsOf
<1>3. U # {}
  OBVIOUS
<1>4. PICK u \in U : \A v \in U : ~ (<<v, u>> \in R)
  <2> HIDE DEF R, F, U
  <2> QED
    BY <1>1, <1>2, <1>3, WFMin
<1>5. PICK x \in T : u = 0..x
  BY <1>4
<1>6. ASSUME NEW y \in T, ~ (x <= y) PROVE FALSE
  <2>1. 0..y \in U /\ 0..y \subseteq 0..x /\ 0..x \in SUBSET Nat /\ 0..y \in SUBSET Nat
    BY <1>6
  <2>2. x \in 0..x /\ x \notin 0..y
    BY <1>6
  <2>3. <<0..y, 0..x>> \in R
    BY <2>1, <2>2 DEF StrictSubsetOrdering
  <2> QED
    BY <1>4, <1>5, <2>1, <2>3
<1> QED
  BY <1>6

\* Every nonempty set of alert numbers that is bounded has a last alert.
LEMMA GreatestOf ==
    ASSUME NEW T \in SUBSET Nat, T # {}, NEW n \in Nat, \A x \in T : x <= n
    PROVE  \E x \in T : \A y \in T : y <= x
<1> DEFINE U == {n - x : x \in T}
<1>1. U \in SUBSET Nat /\ U # {}
  <2>1. \A x \in T : n - x \in Nat
    OBVIOUS
  <2> QED
    BY <2>1
<1>2. PICK u \in U : \A v \in U : u <= v
  <2> HIDE DEF U
  <2> QED
    BY <1>1, LeastOf
<1>3. PICK x \in T : u = n - x
  BY <1>2
<1>4. \A y \in T : n - x <= n - y
  BY <1>2, <1>3
<1> QED
  BY <1>4

\* The first alert of a group.
LEMMA FirstIsLeast ==
    ASSUME NEW g \in SUBSET Nat, g # {}
    PROVE  First(g) \in g /\ \A b \in g : First(g) <= b
BY LeastOf DEF First

(***************************************************************************)
(* Components.                                                             *)
(***************************************************************************)
\* A node is in its own component, and components hold nodes only.
LEMMA ComponentHolds ==
    ASSUME NEW A, NEW edges, NEW x \in A
    PROVE  x \in Component(x, A, edges) /\ Component(x, A, edges) \subseteq A
BY DEF Component

\* To be connected is symmetric: what no closed set separates from x is not separated
\* from it by the complement of a closed set either.
LEMMA ComponentSymmetric ==
    ASSUME NEW A, NEW edges \in SUBSET (A \X A), NEW x \in A, NEW y \in Component(x, A, edges)
    PROVE  x \in Component(y, A, edges)
<1> SUFFICES ASSUME NEW S \in SUBSET A, y \in S, Closed(S, edges) PROVE x \in S
  BY DEF Component
<1>1. Closed(A \ S, edges)
  BY DEF Closed
<1>2. y \in A /\ (x \in A \ S => y \in A \ S)
  BY <1>1 DEF Component
<1> QED
  BY <1>2

\* Connected nodes have the same component.
LEMMA ComponentsEqual ==
    ASSUME NEW A, NEW edges \in SUBSET (A \X A), NEW x \in A, NEW y \in Component(x, A, edges)
    PROVE  Component(x, A, edges) = Component(y, A, edges)
<1>1. y \in A /\ x \in Component(y, A, edges)
  BY ComponentSymmetric, ComponentHolds
<1>2. \A v, w \in A : v \in Component(w, A, edges) =>
         Component(v, A, edges) \subseteq Component(w, A, edges)
  BY DEF Component
<1> QED
  BY <1>1, <1>2

\* Two groups that share an alert are one group.
LEMMA ComponentsDisjoint ==
    ASSUME NEW A, NEW edges \in SUBSET (A \X A),
           NEW g \in Components(A, edges), NEW h \in Components(A, edges),
           NEW z, z \in g, z \in h
    PROVE  g = h
<1>1. PICK x \in A : g = Component(x, A, edges)
  BY DEF Components
<1>2. PICK y \in A : h = Component(y, A, edges)
  BY DEF Components
<1> QED
  BY <1>1, <1>2, ComponentsEqual

\* Edges that close the same sets connect the same nodes.
LEMMA SameClosedSameComponents ==
    ASSUME NEW A, NEW edges, NEW links,
           \A S \in SUBSET A : Closed(S, edges) <=> Closed(S, links)
    PROVE  Components(A, edges) = Components(A, links)
BY DEF Components, Component

(***************************************************************************)
(* Neighbours and all pairs.                                               *)
(***************************************************************************)
\* Pairs of alerts that share an entity to link on within the window.
RelatedPairs(A, at, keys) ==
    {l \in A \X A : /\ l[1] < l[2] /\ at[l[2]] - at[l[1]] <= Window
                    /\ keys[l[1]] \intersect keys[l[2]] \intersect Linking(A, keys) # {}}

\* Alerts in the order of their timestamps.
Ordered(A, at) ==
    /\ A \subseteq Nat /\ \A a \in A : at[a] \in Nat
    /\ \A a, b \in A : a < b => at[a] <= at[b]

\* Links are pairs of alerts.
LEMMA LinksArePairs ==
    ASSUME NEW A, NEW at, NEW keys
    PROVE  AllLinks(A, at, keys) \in SUBSET (A \X A)
BY DEF AllLinks, Links, Neighbours, Naming

\* A set closed under the links of one entity's neighbours has all or none of any two
\* alerts that name the entity within the window.
LEMMA NeighboursReach ==
    ASSUME NEW A, NEW at, NEW keys, Ordered(A, at), NEW e, NEW S \in SUBSET A,
           Closed(S, Links(A, at, keys, e)),
           NEW m \in Naming(A, keys, e), NEW n \in Naming(A, keys, e),
           m < n, at[n] - at[m] <= Window
    PROVE  m \in S <=> n \in S
<1> DEFINE N == Naming(A, keys, e)
<1>1. N \subseteq A /\ N \subseteq Nat /\ \A a \in N : at[a] \in Nat
  BY DEF Naming, Ordered
<1>2. ASSUME NEW U \in SUBSET A, \A l \in Links(A, at, keys, e) : l[1] \in U => l[2] \in U,
             m \in U
      PROVE  n \in U
  <2> SUFFICES ASSUME n \notin U PROVE FALSE
    OBVIOUS
  <2> DEFINE T == {a \in N : m <= a /\ a <= n /\ a \notin U}
  <2>1. PICK b \in T : \A a \in T : b <= a
    <3>1. T \in SUBSET Nat /\ n \in T
      BY <1>1
    <3> HIDE DEF T
    <3> QED
      BY <3>1, LeastOf
  <2> DEFINE V == {a \in N : m <= a /\ a < b}
  <2>2. m \in V
    BY <1>1, <1>2, <2>1
  <2>3. PICK a \in V : \A c \in V : c <= a
    <3>1. V \in SUBSET Nat /\ b \in Nat /\ \A c \in V : c <= b
      BY <1>1, <2>1
    <3> HIDE DEF V
    <3> QED
      BY <2>2, <3>1, GreatestOf
  <2>4. a \in U
    BY <1>1, <2>1, <2>3
  <2>5. <<a, b>> \in Neighbours(A, keys, e)
    BY <1>1, <2>1, <2>3 DEF Neighbours
  <2>6. at[b] - at[a] <= Window
    <3>1. at[b] <= at[n] /\ at[m] <= at[a]
      BY <1>1, <2>1, <2>3 DEF Ordered
    <3> QED
      BY <1>1, <2>1, <2>3, <3>1, CorrelationAssumption
  <2>7. <<a, b>> \in Links(A, at, keys, e)
    BY <2>5, <2>6 DEF Links
  <2> QED
    BY <1>2, <2>1, <2>4, <2>7
<1>3. m \in S => n \in S
  BY <1>2 DEF Closed
<1>4. n \in S => m \in S
  <2>1. \A l \in Links(A, at, keys, e) : l[1] \in A \ S => l[2] \in A \ S
    BY DEF Closed, Links, Neighbours, Naming
  <2>2. m \in A \ S => n \in A \ S
    BY <1>2, <2>1
  <2> QED
    BY <1>1, <2>2
<1> QED
  BY <1>3, <1>4

\* "Two alerts are linked when they share an observable and are no more than the
\* correlation window apart (chained [...])": although correlate compares
\* neighbours only, its groups are those of all such pairs, for every feed.
THEOREM NeighboursSuffice ==
    ASSUME NEW A, NEW at, NEW keys, Ordered(A, at)
    PROVE  Correlate(A, at, keys) = Components(A, RelatedPairs(A, at, keys))
<1>1. ASSUME NEW S \in SUBSET A, Closed(S, AllLinks(A, at, keys))
      PROVE  Closed(S, RelatedPairs(A, at, keys))
  <2> SUFFICES ASSUME NEW l \in RelatedPairs(A, at, keys) PROVE l[1] \in S <=> l[2] \in S
    BY DEF Closed
  <2>1. PICK e \in Linking(A, keys) : e \in keys[l[1]] /\ e \in keys[l[2]]
    BY DEF RelatedPairs
  <2>2. l[1] \in Naming(A, keys, e) /\ l[2] \in Naming(A, keys, e)
    BY <2>1 DEF RelatedPairs, Naming
  <2>3. Closed(S, Links(A, at, keys, e))
    BY <1>1, <2>1 DEF Closed, AllLinks
  <2>4. l[1] < l[2] /\ at[l[2]] - at[l[1]] <= Window
    BY DEF RelatedPairs
  <2> QED
    BY <2>2, <2>3, <2>4, NeighboursReach
<1>2. AllLinks(A, at, keys) \subseteq RelatedPairs(A, at, keys)
  BY DEF AllLinks, Links, Neighbours, Naming, RelatedPairs
<1>3. \A S \in SUBSET A :
         Closed(S, AllLinks(A, at, keys)) <=> Closed(S, RelatedPairs(A, at, keys))
  BY <1>1, <1>2 DEF Closed
<1> QED
  BY <1>3, SameClosedSameComponents DEF Correlate

\* The groups are a partition: each alert is in one of them, and in only one.
THEOREM GroupsPartition ==
    ASSUME NEW A, NEW at, NEW keys
    PROVE  /\ UNION Correlate(A, at, keys) = A
           /\ \A g \in Correlate(A, at, keys) : g # {} /\ g \subseteq A
           /\ \A g, h \in Correlate(A, at, keys) : g \intersect h # {} => g = h
<1>1. \A g \in Correlate(A, at, keys) : g # {} /\ g \subseteq A
  BY ComponentHolds DEF Correlate, Components
<1>2. A \subseteq UNION Correlate(A, at, keys)
  BY ComponentHolds DEF Correlate, Components
<1>3. \A g, h \in Correlate(A, at, keys) : g \intersect h # {} => g = h
  BY LinksArePairs, ComponentsDisjoint DEF Correlate
<1> QED
  BY <1>1, <1>2, <1>3
==========================================================================
