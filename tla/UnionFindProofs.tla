------------------------- MODULE UnionFindProofs -------------------------
(***************************************************************************)
(* What holds of UnionFind for every number of alerts, every feed and      *)
(* every policy: its types; that parents never ascend, on which the        *)
(* termination of find and the order of the groups rest; and that the      *)
(* groups it ends with are those that CorrelationAgent promises.           *)
(***************************************************************************)
EXTENDS UnionFind, CorrelationProofs, TLAPS

\* What find and union have read when they write: TypeOK is not inductive without.
Located ==
    /\ pc \in {"findFirst", "findSecond"} => pair \in Alerts \X Alerts /\ item \in Alerts
    /\ pc = "findSecond" => root \in Alerts

UnionFindInv == TypeOK /\ Located /\ ParentsDescend

\* Before the first pair every alert is its own parent.
THEOREM InitUnionFind == Init => UnionFindInv
<1> SUFFICES ASSUME Init PROVE UnionFindInv
  OBVIOUS
<1>1. TypeOK
  BY DEF Init, TypeOK, Linking, NoPair
<1>2. Located
  BY DEF Init, Located
<1>3. ParentsDescend
  BY DEF Init, ParentsDescend, Alerts
<1> QED
  BY <1>1, <1>2, <1>3 DEF UnionFindInv

\* Every iteration of correlate, find and union keeps the types and the order.
THEOREM StepUnionFind == UnionFindInv /\ [Next]_vars => UnionFindInv'
<1> SUFFICES ASSUME UnionFindInv, [Next]_vars PROVE UnionFindInv'
  OBVIOUS
<1> USE DEF UnionFindInv
<1>1. CASE NextEntity
  <2>1. TypeOK'
    BY <1>1 DEF TypeOK, NextEntity, Neighbours, Naming
  <2> QED
    BY <1>1, <2>1 DEF NextEntity, Located, ParentsDescend
<1>2. CASE NextPair
  <2>1. PICK l \in pairs :
          /\ pairs' = pairs \ {l}
          /\ IF InWindow(l)
             THEN pair' = l /\ item' = l[1] /\ pc' = "findFirst"
             ELSE UNCHANGED <<pair, item, pc>>
    BY <1>2 DEF NextPair
  <2>2. l \in Alerts \X Alerts /\ l[1] \in Alerts
    BY DEF TypeOK
  <2>3. TypeOK'
    BY <1>2, <2>1, <2>2 DEF TypeOK, NextPair
  <2>4. Located'
    BY <1>2, <2>1, <2>2 DEF TypeOK, NextPair, Located
  <2> QED
    BY <1>2, <2>3, <2>4 DEF NextPair, ParentsDescend
<1>3. CASE EndEntity
  BY <1>3 DEF EndEntity, TypeOK, Located, ParentsDescend
<1>4. CASE Halve
  <2>1. item \in Alerts /\ parent[item] \in Alerts /\ parent[parent[item]] \in Alerts
    BY <1>4 DEF Halve, Located, TypeOK
  <2>2. parent[parent[item]] <= item
    BY <2>1 DEF ParentsDescend, Alerts
  <2>3. TypeOK'
    BY <1>4, <2>1 DEF Halve, TypeOK
  <2>4. Located'
    BY <1>4, <2>1 DEF Halve, Located
  <2>5. ParentsDescend'
    BY <1>4, <2>2 DEF Halve, ParentsDescend, TypeOK
  <2> QED
    BY <2>3, <2>4, <2>5
<1>5. CASE FoundFirst
  <2>1. pair[2] \in Alerts /\ item \in Alerts
    BY <1>5 DEF FoundFirst, Located
  <2> QED
    BY <1>5, <2>1 DEF FoundFirst, TypeOK, Located, ParentsDescend
<1>6. CASE Unite
  <2>1. item \in Alerts /\ root \in Alerts
    BY <1>6 DEF Unite, Located
  <2>2. /\ Lower(root, item) \in Alerts /\ Higher(root, item) \in Alerts
        /\ Lower(root, item) <= Higher(root, item)
    BY <2>1 DEF Lower, Higher, Alerts
  <2>3. TypeOK'
    BY <1>6, <2>2 DEF Unite, TypeOK
  <2>4. Located'
    BY <1>6 DEF Unite, Located
  <2>5. ParentsDescend'
    BY <1>6, <2>2 DEF Unite, ParentsDescend, TypeOK
  <2> QED
    BY <2>3, <2>4, <2>5
<1>7. CASE Finish
  BY <1>7 DEF Finish, TypeOK, Located, ParentsDescend
<1>8. CASE UNCHANGED vars
  BY <1>8 DEF vars, TypeOK, Located, ParentsDescend
<1> QED
  BY <1>1, <1>2, <1>3, <1>4, <1>5, <1>6, <1>7, <1>8 DEF Next

\* The invariant of correlate in every reachable state.
LEMMA UnionFindAlways == Spec => []UnionFindInv
<1> QED
  BY InitUnionFind, StepUnionFind, PTL DEF Spec

\* find ends, and at the first alert of a group: for every feed no path of parents
\* ascends, at any point of any find or union.
THEOREM ParentsNeverAscend == Spec => []ParentsDescend
<1>1. UnionFindInv => ParentsDescend
  BY DEF UnionFindInv
<1> QED
  BY <1>1, UnionFindAlways, PTL

\* The variables keep their types.
THEOREM TypesCorrect == Spec => []TypeOK
<1>1. UnionFindInv => TypeOK
  BY DEF UnionFindInv
<1> QED
  BY <1>1, UnionFindAlways, PTL

(***************************************************************************)
(* The groups.  Parents and the links still to unite close the same sets   *)
(* of alerts as the links of the entities begun: a set is closed when no   *)
(* edge leads out of it, so two alerts are in one group exactly when no    *)
(* closed set separates them.                                              *)
(***************************************************************************)
Finding == pc \in {"findFirst", "findSecond"}

\* Links of the current entity that are not united yet.
Pending == {l \in pairs : InWindow(l)} \union (IF Finding THEN {pair} ELSE {})

\* Links of the entities begun.
Begun == UNION {Links(Alerts, at, keys, e) : e \in Linking(Alerts, keys) \ todo}

Together(x, y) == \A S \in SUBSET Alerts : Closed(S, ParentEdges) => (x \in S <=> y \in S)

\* Where find and union are.
Searching ==
    /\ Ordered(Alerts, at)
    /\ todo \subseteq Linking(Alerts, keys)
    /\ pc \in {"entity", "done"} => pairs = {}
    /\ pc = "done" => todo = {}
    /\ pc = "findFirst" => Together(item, pair[1])
    /\ pc = "findSecond" => /\ Together(item, pair[2])
                            /\ Together(root, pair[1])
                            /\ parent[root] = root

UnitedAreBegun ==
    \A S \in SUBSET Alerts :
        Closed(S, ParentEdges) /\ Closed(S, Pending) <=> Closed(S, Begun)

GroupInv == UnionFindInv /\ Searching /\ UnitedAreBegun

\* Nothing is begun and nothing is united.
LEMMA InitGroups == Init => GroupInv
<1> SUFFICES ASSUME Init PROVE GroupInv
  OBVIOUS
<1>1. Ordered(Alerts, at)
  BY UnionFindAssumption DEF Init, Ordered, Alerts
<1>2. Searching
  BY <1>1 DEF Init, Searching
<1>3. Begun = {} /\ Pending = {}
  BY DEF Init, Begun, Pending, Finding
<1>4. \A S \in SUBSET Alerts : Closed(S, ParentEdges)
  BY DEF Init, Closed, ParentEdges
<1>5. UnitedAreBegun
  BY <1>3, <1>4 DEF UnitedAreBegun, Closed
<1> QED
  BY <1>2, <1>5, InitUnionFind DEF GroupInv

\* Parents that stay connect as before.
LEMMA SameParents ==
    ASSUME parent' = parent
    PROVE  /\ \A S \in SUBSET Alerts : Closed(S, ParentEdges)' <=> Closed(S, ParentEdges)
           /\ \A x, y : Together(x, y)' <=> Together(x, y)
BY DEF Closed, ParentEdges, Together, Alerts

\* An entity is begun: its links are pending.
LEMMA NextEntityGroups ==
    ASSUME GroupInv, NextEntity
    PROVE  Searching' /\ UnitedAreBegun'
<1> USE DEF GroupInv
<1>1. PICK e \in todo : todo' = todo \ {e} /\ pairs' = Neighbours(Alerts, keys, e)
  BY DEF NextEntity
<1>2. e \in Linking(Alerts, keys) /\ pairs = {}
  BY DEF Searching, NextEntity
<1>3. Pending = {} /\ Pending' = Links(Alerts, at, keys, e)
  BY <1>1, <1>2 DEF Pending, Finding, NextEntity, Links, InWindow
<1>4. Linking(Alerts, keys)' \ todo' = (Linking(Alerts, keys) \ todo) \union {e}
  BY <1>1, <1>2 DEF NextEntity
<1>5. Begun' = Begun \union Links(Alerts, at, keys, e)
  BY <1>4 DEF Begun, NextEntity
<1>6. Searching'
  BY <1>1 DEF Searching, NextEntity
<1>7. UnitedAreBegun'
  <2> SUFFICES ASSUME NEW S \in SUBSET Alerts
               PROVE  Closed(S, ParentEdges)' /\ Closed(S, Pending)' <=> Closed(S, Begun)'
    BY DEF UnitedAreBegun, NextEntity, Alerts
  <2>1. Closed(S, ParentEdges)' <=> Closed(S, ParentEdges)
    BY SameParents DEF NextEntity
  <2>2. Closed(S, Pending)
    BY <1>3 DEF Closed
  <2>3. Closed(S, ParentEdges) <=> Closed(S, Begun)
    BY <2>2 DEF UnitedAreBegun
  <2>4. Closed(S, Begun)' <=> Closed(S, Begun) /\ Closed(S, Pending)'
    BY <1>3, <1>5 DEF Closed
  <2> QED
    BY <2>1, <2>3, <2>4
<1> QED
  BY <1>6, <1>7

\* A pair is taken or, out of the window, passed over.
LEMMA NextPairGroups ==
    ASSUME GroupInv, NextPair
    PROVE  Searching' /\ UnitedAreBegun'
<1> USE DEF GroupInv
<1>1. PICK l \in pairs :
        /\ pairs' = pairs \ {l}
        /\ IF InWindow(l)
           THEN pair' = l /\ item' = l[1] /\ pc' = "findFirst"
           ELSE UNCHANGED <<pair, item, pc>>
  BY DEF NextPair
<1>2. Pending' = Pending
  BY <1>1 DEF NextPair, Pending, Finding, InWindow
<1>3. Begun' = Begun
  BY DEF NextPair, Begun
<1>4. Searching'
  <2>1. InWindow(l) => Together(item, pair[1])'
    BY <1>1 DEF Together, NextPair
  <2> QED
    BY <1>1, <2>1 DEF Searching, NextPair
<1>5. UnitedAreBegun'
  <2>1. \A S \in SUBSET Alerts : Closed(S, ParentEdges)' <=> Closed(S, ParentEdges)
    BY SameParents DEF NextPair
  <2> QED
    BY <1>2, <1>3, <2>1 DEF UnitedAreBegun, Closed, Alerts
<1> QED
  BY <1>4, <1>5

\* A set is closed under parents when it holds each alert with its parent.
LEMMA ClosedUnderParents ==
    ASSUME NEW S, NEW A, NEW f
    PROVE  Closed(S, {<<a, f[a]>> : a \in A}) <=> \A a \in A : a \in S <=> f[a] \in S
<1> DEFINE E == {<<a, f[a]>> : a \in A}
<1>1. ASSUME Closed(S, E), NEW a \in A PROVE a \in S <=> f[a] \in S
  <2>1. <<a, f[a]>> \in E
    OBVIOUS
  <2>2. <<a, f[a]>>[1] \in S <=> <<a, f[a]>>[2] \in S
    BY <1>1, <2>1 DEF Closed
  <2> QED
    BY <2>2
<1>2. ASSUME \A a \in A : a \in S <=> f[a] \in S PROVE Closed(S, E)
  BY <1>2 DEF Closed
<1> QED
  BY <1>1, <1>2

\* The same of the parents now and after a step.
LEMMA ClosedParentEdges ==
    ASSUME NEW S
    PROVE  /\ Closed(S, ParentEdges) <=> \A a \in Alerts : a \in S <=> parent[a] \in S
           /\ Closed(S, ParentEdges)' <=> \A a \in Alerts : a \in S <=> parent'[a] \in S
<1>1. Closed(S, ParentEdges) <=> \A a \in Alerts : a \in S <=> parent[a] \in S
  BY ClosedUnderParents DEF ParentEdges
<1>2. Closed(S, ParentEdges') <=> \A a \in Alerts : a \in S <=> parent'[a] \in S
  <2> DEFINE f == parent'
             E == {<<a, f[a]>> : a \in Alerts}
  <2>1. ParentEdges' = E
    BY DEF ParentEdges, Alerts
  <2> HIDE DEF f
  <2>2. Closed(S, E) <=> \A a \in Alerts : a \in S <=> f[a] \in S
    BY ClosedUnderParents
  <2> HIDE DEF E
  <2>3. Closed(S, ParentEdges') <=> \A a \in Alerts : a \in S <=> f[a] \in S
    BY <2>1, <2>2
  <2> QED
    BY <2>3 DEF f
<1>3. Closed(S, ParentEdges)' <=> Closed(S, ParentEdges')
  BY DEF Closed
<1> QED
  BY <1>1, <1>2, <1>3

\* Path halving connects no more and no less: the item hangs below its grandparent
\* instead, and its parent still does.
LEMMA HalveConnectsTheSame ==
    ASSUME GroupInv, Halve
    PROVE  \A S \in SUBSET Alerts : Closed(S, ParentEdges)' <=> Closed(S, ParentEdges)
<1> DEFINE p == parent[item]
           g == parent[parent[item]]
<1>1. /\ item \in Alerts /\ p \in Alerts /\ g \in Alerts /\ p # item
      /\ parent' = [parent EXCEPT ![item] = g] /\ parent \in [Alerts -> Alerts]
  BY DEF GroupInv, UnionFindInv, Halve, Located, TypeOK
<1> SUFFICES ASSUME NEW S \in SUBSET Alerts
             PROVE  (\A a \in Alerts : a \in S <=> parent'[a] \in S)
                        <=> (\A a \in Alerts : a \in S <=> parent[a] \in S)
  BY ClosedParentEdges
<1>2. \A a \in Alerts : parent'[a] = IF a = item THEN g ELSE parent[a]
  BY <1>1
<1>3. parent[p] = g
  OBVIOUS
<1> HIDE DEF p, g
<1>4. parent'[p] = g /\ parent'[item] = g /\ parent[item] = p
  BY <1>1, <1>2, <1>3 DEF p
<1> QED
  BY <1>1, <1>2, <1>3, <1>4

\* Halving a path leaves the groups and the search as they are.
LEMMA HalveGroups ==
    ASSUME GroupInv, Halve
    PROVE  Searching' /\ UnitedAreBegun'
<1> USE DEF GroupInv
<1>1. \A S \in SUBSET Alerts : Closed(S, ParentEdges)' <=> Closed(S, ParentEdges)
  BY HalveConnectsTheSame
<1>2. \A x, y : Together(x, y)' <=> Together(x, y)
  BY <1>1 DEF Together, Alerts
<1>3. /\ item \in Alerts /\ parent[item] \in Alerts
      /\ item' = parent[parent[item]] /\ parent[item] # item
  BY DEF Halve, UnionFindInv, Located, TypeOK
<1>4. Together(item', item)
  BY <1>3, ClosedParentEdges DEF Together
<1>5. \A x : Together(item, x) => Together(item', x)
  BY <1>4 DEF Together
<1>6. Searching'
  <2>1. pc = "findFirst" => Together(item, pair[1])'
    BY <1>2, <1>5 DEF Searching, Halve
  <2>2. pc = "findSecond" => Together(item, pair[2])' /\ Together(root, pair[1])'
    BY <1>2, <1>5 DEF Searching, Halve
  <2>3. pc = "findSecond" => (parent[root] = root)'
    BY <1>3 DEF Searching, Halve, UnionFindInv, Located, TypeOK
  <2> QED
    BY <2>1, <2>2, <2>3 DEF Searching, Halve
<1>7. Pending' = Pending /\ Begun' = Begun
  BY DEF Halve, Pending, Finding, InWindow, Begun
<1>8. UnitedAreBegun'
  BY <1>1, <1>7 DEF UnitedAreBegun, Closed, Alerts
<1> QED
  BY <1>6, <1>8

\* The root of the first of the pair is kept and the search for the second begins.
LEMMA FoundFirstGroups ==
    ASSUME GroupInv, FoundFirst
    PROVE  Searching' /\ UnitedAreBegun'
<1> USE DEF GroupInv
<1>1. /\ \A S \in SUBSET Alerts : Closed(S, ParentEdges)' <=> Closed(S, ParentEdges)
      /\ \A x, y : Together(x, y)' <=> Together(x, y)
  BY SameParents DEF FoundFirst
<1>2. Together(item, pair[2])'
  BY DEF Together, FoundFirst
<1>3. Together(item, pair[1])
  BY DEF Searching, FoundFirst
<1>4. Together(root, pair[1])'
  BY <1>1, <1>3 DEF FoundFirst
<1>5. Searching'
  BY <1>2, <1>4 DEF Searching, FoundFirst
<1>6. Pending' = Pending /\ Begun' = Begun
  BY DEF FoundFirst, Pending, Finding, InWindow, Begun
<1>7. UnitedAreBegun'
  BY <1>1, <1>6 DEF UnitedAreBegun, Closed, Alerts
<1> QED
  BY <1>5, <1>7

\* union connects what was connected and the two roots, nothing else.
LEMMA UniteConnectsRoots ==
    ASSUME GroupInv, Unite, NEW S \in SUBSET Alerts
    PROVE  Closed(S, ParentEdges)' <=> Closed(S, ParentEdges) /\ (root \in S <=> item \in S)
<1>1. /\ item \in Alerts /\ root \in Alerts /\ parent \in [Alerts -> Alerts]
      /\ parent[item] = item /\ parent[root] = root
  BY DEF GroupInv, UnionFindInv, Unite, Located, TypeOK, Searching
<1> DEFINE h == Higher(root, item)
           l == Lower(root, item)
<1>2. \/ h = root /\ l = item
      \/ h = item /\ l = root
  BY DEF Higher, Lower
<1>3. parent' = [parent EXCEPT ![h] = l]
  BY DEF Unite
<1> HIDE DEF h, l
<1>4. \A a \in Alerts : parent'[a] = IF a = h THEN l ELSE parent[a]
  BY <1>1, <1>2, <1>3
<1>5. parent[h] = h /\ h \in Alerts
  BY <1>1, <1>2
<1>6. (\A a \in Alerts : a \in S <=> parent'[a] \in S)
          <=> (\A a \in Alerts : a \in S <=> parent[a] \in S) /\ (h \in S <=> l \in S)
  BY <1>4, <1>5
<1>7. /\ Closed(S, ParentEdges)' <=> \A a \in Alerts : a \in S <=> parent'[a] \in S
      /\ Closed(S, ParentEdges) <=> \A a \in Alerts : a \in S <=> parent[a] \in S
  BY ClosedParentEdges
<1> QED
  BY <1>2, <1>6, <1>7

\* union unites the pair and no others.
LEMMA UniteGroups ==
    ASSUME GroupInv, Unite
    PROVE  Searching' /\ UnitedAreBegun'
<1> USE DEF GroupInv
<1>1. Searching'
  BY DEF Searching, Unite
<1>2. Begun' = Begun
  BY DEF Unite, Begun
<1>3. Pending = Pending' \union {pair}
  BY DEF Unite, Pending, Finding, InWindow
<1>4. UnitedAreBegun'
  <2> SUFFICES ASSUME NEW S \in SUBSET Alerts
               PROVE  Closed(S, ParentEdges)' /\ Closed(S, Pending)' <=> Closed(S, Begun)'
    BY DEF UnitedAreBegun, Alerts
  <2>1. Closed(S, ParentEdges)' <=> Closed(S, ParentEdges) /\ (root \in S <=> item \in S)
    BY UniteConnectsRoots
  <2>2. Together(item, pair[2]) /\ Together(root, pair[1])
    BY DEF Searching, Unite
  <2>3. Closed(S, ParentEdges) => /\ item \in S <=> pair[2] \in S
                                  /\ root \in S <=> pair[1] \in S
    BY <2>2 DEF Together
  <2>4. Closed(S, Pending) <=> Closed(S, Pending)' /\ (pair[1] \in S <=> pair[2] \in S)
    BY <1>3 DEF Closed
  <2>5. Closed(S, ParentEdges) /\ Closed(S, Pending) <=> Closed(S, Begun)
    BY DEF UnitedAreBegun
  <2>6. Closed(S, Begun)' <=> Closed(S, Begun)
    BY <1>2 DEF Closed
  <2> QED
    BY <2>1, <2>3, <2>4, <2>5, <2>6
<1> QED
  BY <1>1, <1>4

\* Every iteration of correlate, find and union keeps the groups.
LEMMA StepGroups == GroupInv /\ [Next]_vars => GroupInv'
<1> SUFFICES ASSUME GroupInv, [Next]_vars PROVE Searching' /\ UnitedAreBegun'
  BY StepUnionFind DEF GroupInv
<1> DEFINE Idle == /\ UNCHANGED <<at, keys, parent, todo, pairs, pair, item, root>>
                   /\ pc' = pc \/ (pc = "pair" /\ pc' = "entity" /\ pairs = {})
                               \/ (pc = "entity" /\ pc' = "done" /\ todo = {})
<1>1. CASE Idle
  <2>1. /\ \A S \in SUBSET Alerts : Closed(S, ParentEdges)' <=> Closed(S, ParentEdges)
        /\ \A x, y : Together(x, y)' <=> Together(x, y)
    BY <1>1, SameParents
  <2>2. Pending' = Pending /\ Begun' = Begun
    BY <1>1 DEF Pending, Finding, InWindow, Begun
  <2>3. UnitedAreBegun'
    BY <2>1, <2>2 DEF GroupInv, UnitedAreBegun, Closed, Alerts
  <2>4. Searching'
    BY <1>1, <2>1 DEF GroupInv, Searching
  <2> QED
    BY <2>3, <2>4
<1>2. EndEntity => Idle
  BY DEF EndEntity
<1>3. Finish => Idle
  BY DEF Finish
<1>4. UNCHANGED vars => Idle
  BY DEF vars
<1> QED
  BY <1>1, <1>2, <1>3, <1>4, NextEntityGroups, NextPairGroups, HalveGroups,
     FoundFirstGroups, UniteGroups DEF Next

\* Between two unions the groups are those of the links of the entities begun, and at
\* the end those of all links.
LEMMA GroupsOfBegun ==
    ASSUME GroupInv, pc \in {"entity", "done"}
    PROVE  Components(Alerts, ParentEdges) = Components(Alerts, Begun)
<1>1. Pending = {}
  BY DEF GroupInv, Searching, Pending, Finding
<1>2. \A S \in SUBSET Alerts : Closed(S, Pending)
  BY <1>1 DEF Closed
<1>3. \A S \in SUBSET Alerts : Closed(S, ParentEdges) <=> Closed(S, Begun)
  BY <1>2 DEF GroupInv, UnitedAreBegun
<1> QED
  BY <1>3, SameClosedSameComponents

\* What has been united is never lost and nothing else is united, for every feed and
\* every order of the entities.
THEOREM GroupsAlwaysFollowLinks == Spec => []GroupsFollowLinks
<1>1. GroupInv => GroupsFollowLinks
  BY GroupsOfBegun DEF GroupsFollowLinks, Begun
<1> QED
  BY <1>1, InitGroups, StepGroups, PTL DEF Spec

\* The groups correlate ends with are those the class promises: alerts that share an
\* observable to link on within the window, chained, although the union-find is
\* given neighbours only.
THEOREM GroupsAlwaysAsPromised == Spec => []GroupsAsPromised
<1>1. GroupInv => GroupsAsPromised
  <2> SUFFICES ASSUME GroupInv, pc = "done"
               PROVE  Components(Alerts, ParentEdges) = Components(Alerts, Related)
    BY DEF GroupsAsPromised
  <2>1. Components(Alerts, ParentEdges) = Components(Alerts, Begun)
    BY GroupsOfBegun
  <2>2. todo = {} /\ Ordered(Alerts, at)
    BY DEF GroupInv, Searching
  <2>3. Begun = AllLinks(Alerts, at, keys)
    BY <2>2 DEF Begun, AllLinks
  <2>4. Correlate(Alerts, at, keys) = Components(Alerts, RelatedPairs(Alerts, at, keys))
    BY <2>2, NeighboursSuffice
  <2>5. Related = RelatedPairs(Alerts, at, keys)
    BY DEF Related, RelatedPairs
  <2> QED
    BY <2>1, <2>3, <2>4, <2>5 DEF Correlate
<1> QED
  BY <1>1, InitGroups, StepGroups, PTL DEF Spec

(***************************************************************************)
(* The loops end.  Lexicographically, each step leaves fewer entities, or  *)
(* fewer pairs of the entity, or a later part of the loop body, or an      *)
(* earlier alert to look at.                                               *)
(***************************************************************************)
PartsLeft(part) ==
    CASE part = "findFirst" -> 4 [] part = "findSecond" -> 3 [] part = "pair" -> 2
      [] part = "entity" -> 1 [] OTHER -> 0

Fewer(S, T) == S \subseteq T /\ S # T

Descends ==
    \/ Fewer(todo', todo)
    \/ todo' = todo /\ Fewer(pairs', pairs)
    \/ UNCHANGED <<todo, pairs>> /\ PartsLeft(pc') < PartsLeft(pc)
    \/ UNCHANGED <<todo, pairs, pc>> /\ item \in Nat /\ item' \in Nat /\ item' < item

\* No iteration of the loops of correlate, find or union is in vain: of finitely many
\* entities and alerts each uses up something, so correlate takes finitely many steps
\* on every feed (the run shows that it stops nowhere before the end).
THEOREM LoopsDescend == Spec => [][Descends]_vars
<1>1. UnionFindInv /\ [Next]_vars => Descends \/ UNCHANGED vars
  <2> SUFFICES ASSUME UnionFindInv, Next PROVE Descends
    OBVIOUS
  <2>1. CASE NextEntity
    BY <2>1 DEF NextEntity, Descends, Fewer
  <2>2. CASE NextPair
    BY <2>2 DEF NextPair, Descends, Fewer
  <2>3. CASE EndEntity \/ FoundFirst \/ Finish
    BY <2>3 DEF EndEntity, FoundFirst, Finish, Descends, PartsLeft
  <2>4. CASE Unite
    BY <2>4 DEF Unite, Descends, PartsLeft
  <2>5. CASE Halve
    <3>1. /\ item \in Alerts /\ parent[item] \in Alerts /\ parent[item] # item
          /\ item' = parent[parent[item]] /\ item' \in Alerts
      BY <2>5 DEF Halve, UnionFindInv, Located, TypeOK
    <3>2. parent[item] <= item /\ item' <= parent[item]
      BY <3>1 DEF UnionFindInv, ParentsDescend
    <3>3. item \in Nat /\ item' \in Nat /\ item' < item
      BY <3>1, <3>2 DEF Alerts
    <3> QED
      BY <2>5, <3>3 DEF Halve, Descends
  <2> QED
    BY <2>1, <2>2, <2>3, <2>4, <2>5 DEF Next
<1> QED
  BY <1>1, UnionFindAlways, PTL DEF Spec
==========================================================================
