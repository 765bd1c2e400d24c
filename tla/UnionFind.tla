---------------------------- MODULE UnionFind ----------------------------
(***************************************************************************)
(* CorrelationAgent.correlate step by step: the union-find of              *)
(* agents/correlation.py over the alerts 1..NumAlerts, entity by entity    *)
(* and pair by pair, with one step per iteration of the loop in find.      *)
(***************************************************************************)
EXTENDS Correlation

CONSTANTS
    NumAlerts,      \* number of alerts correlated
    MaxTime         \* bound on their timestamps, in the unit of Window

ASSUME UnionFindAssumption == NumAlerts \in Nat /\ MaxTime \in Nat

VARIABLES
    at,         \* timestamps, ascending
    keys,       \* Alert.entity_keys of each alert
    parent,     \* _UnionFind._parent
    todo,       \* entities of by_entity whose pairs are not begun
    pairs,      \* pairs of the current entity still to visit
    pair,       \* the pair whose union is being computed
    item,       \* the local variable of find
    root,       \* what find returned for the first of the pair
    pc

vars == <<at, keys, parent, todo, pairs, pair, item, root, pc>>

Alerts == 1..NumAlerts

NoPair == <<0, 0>>

TypeOK ==
    /\ at \in [Alerts -> 0..MaxTime]
    /\ keys \in [Alerts -> SUBSET Entities]
    /\ parent \in [Alerts -> Alerts]
    /\ todo \subseteq Entities
    /\ pairs \subseteq Alerts \X Alerts
    /\ pair \in (Alerts \X Alerts) \union {NoPair}
    /\ item \in Alerts \union {0}
    /\ root \in Alerts \union {0}
    /\ pc \in {"entity", "pair", "findFirst", "findSecond", "done"}

Init ==
    /\ at \in [Alerts -> 0..MaxTime]
    /\ \A a, b \in Alerts : a < b => at[a] <= at[b]
    /\ keys \in [Alerts -> SUBSET Entities]
    /\ parent = [a \in Alerts |-> a]
    /\ todo = Linking(Alerts, keys)
    /\ pairs = {} /\ pair = NoPair /\ item = 0 /\ root = 0
    /\ pc = "entity"

\* The order of by_entity is the order of a set of keys: arbitrary.
NextEntity ==
    /\ pc = "entity"
    /\ \E e \in todo :
          /\ todo' = todo \ {e}
          /\ pairs' = Neighbours(Alerts, keys, e)
    /\ pc' = "pair"
    /\ UNCHANGED <<at, keys, parent, pair, item, root>>

InWindow(l) == at[l[2]] - at[l[1]] <= Window

\* The pairs of one entity are visited in ascending order.
NextPair ==
    /\ pc = "pair"
    /\ \E l \in pairs :
          /\ \A m \in pairs : l[1] <= m[1]
          /\ pairs' = pairs \ {l}
          /\ IF InWindow(l)
             THEN pair' = l /\ item' = l[1] /\ pc' = "findFirst"
             ELSE UNCHANGED <<pair, item, pc>>
    /\ UNCHANGED <<at, keys, parent, todo, root>>

EndEntity ==
    /\ pc = "pair" /\ pairs = {}
    /\ pc' = "entity"
    /\ UNCHANGED <<at, keys, parent, todo, pairs, pair, item, root>>

\* Wrong variant: a path is cut instead of halved.
HalveCut ==
    /\ pc \in {"findFirst", "findSecond"}
    /\ parent[item] # item
    /\ parent' = [parent EXCEPT ![item] = item]
    /\ item' = parent[item]
    /\ UNCHANGED <<at, keys, todo, pairs, pair, root, pc>>

\* Wrong variant: the path is halved and the item is not advanced.
HalveInPlace ==
    /\ pc \in {"findFirst", "findSecond"}
    /\ parent[item] # item
    /\ parent' = [parent EXCEPT ![item] = parent[parent[item]]]
    /\ UNCHANGED <<at, keys, todo, pairs, pair, item, root, pc>>

\* One iteration of find, with path halving.
Halve ==
    /\ pc \in {"findFirst", "findSecond"}
    /\ parent[item] # item
    /\ parent' = [parent EXCEPT ![item] = parent[parent[item]]]
    /\ item' = parent[parent[item]]
    /\ UNCHANGED <<at, keys, todo, pairs, pair, root, pc>>

\* Wrong variant: the first root is forgotten.
FoundFirstUnsaved ==
    /\ pc = "findFirst"
    /\ parent[item] = item
    /\ item' = pair[2]
    /\ pc' = "findSecond"
    /\ UNCHANGED <<at, keys, parent, todo, pairs, pair, root>>

FoundFirst ==
    /\ pc = "findFirst"
    /\ parent[item] = item
    /\ root' = item
    /\ item' = pair[2]
    /\ pc' = "findSecond"
    /\ UNCHANGED <<at, keys, parent, todo, pairs, pair>>

Lower(a, b) == IF a <= b THEN a ELSE b

Higher(a, b) == IF a <= b THEN b ELSE a

\* Wrong variant: the lower root is attached to the higher one.
UniteUpwards ==
    /\ pc = "findSecond"
    /\ parent[item] = item
    /\ parent' = [parent EXCEPT ![Lower(root, item)] = Higher(root, item)]
    /\ pair' = NoPair /\ item' = 0 /\ root' = 0
    /\ pc' = "pair"
    /\ UNCHANGED <<at, keys, todo, pairs>>

\* The second root is found: union attaches the higher root to the lower.
Unite ==
    /\ pc = "findSecond"
    /\ parent[item] = item
    /\ parent' = [parent EXCEPT ![Higher(root, item)] = Lower(root, item)]
    /\ pair' = NoPair /\ item' = 0 /\ root' = 0
    /\ pc' = "pair"
    /\ UNCHANGED <<at, keys, todo, pairs>>

\* The buckets are filled with find once more, which halves paths and moves no
\* alert to another root.
Finish ==
    /\ pc = "entity" /\ todo = {}
    /\ pc' = "done"
    /\ UNCHANGED <<at, keys, parent, todo, pairs, pair, item, root>>

Next == NextEntity \/ NextPair \/ EndEntity \/ Halve \/ FoundFirst \/ Unite \/ Finish

\* A loop of the program: it runs as long as it can.
Spec == Init /\ [][Next]_vars /\ WF_vars(Next)

(***************************************************************************)
(* Properties.                                                             *)
(***************************************************************************)
ParentEdges == {<<a, parent[a]>> : a \in Alerts}

\* find terminates and ends at the first alert of its group: no path of parents
\* ascends, at any point of any find or union.
ParentsDescend == \A a \in Alerts : parent[a] <= a

\* What has been united so far is never lost, and nothing else is united: between
\* two unions the groups are those of the links visited (find halves paths while
\* it looks for the root).
GroupsFollowLinks ==
    pc = "entity" =>
        Components(Alerts, ParentEdges)
            = Components(Alerts, UNION {Links(Alerts, at, keys, e) :
                                            e \in Linking(Alerts, keys) \ todo})

\* Two alerts that share an observable within the window.
Related ==
    {l \in Alerts \X Alerts :
        /\ l[1] < l[2] /\ at[l[2]] - at[l[1]] <= Window
        /\ keys[l[1]] \intersect keys[l[2]] \intersect Linking(Alerts, keys) # {}}

\* The result is what the class promises: "Two alerts are linked when they share an
\* observable and are no more than the correlation window apart (chained [...])",
\* although only neighbours are compared.  Each alert ends in the bucket of
\* its group: after the last find all alerts of a group have the same root.
GroupsAsPromised ==
    pc = "done" => Components(Alerts, ParentEdges) = Components(Alerts, Related)

\* correlate ends.
Terminates == <>(pc = "done")
==========================================================================
