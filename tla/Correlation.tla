--------------------------- MODULE Correlation ---------------------------
(***************************************************************************)
(* What CorrelationAgent.correlate (agents/correlation.py) computes: which *)
(* alerts belong together.  Alerts are numbered in the order the agent     *)
(* sorts them in, by timestamp and then by id; how the groups are found is *)
(* the subject of UnionFind.                                               *)
(***************************************************************************)
EXTENDS Integers, FiniteSets

CONSTANTS
    Entities,       \* entity keys of alerts
    Noise,          \* keys of the policy's noise users and addresses
    MaxDegree,      \* max_entity_degree
    Window          \* correlation_window_minutes

ASSUME CorrelationAssumption ==
    /\ Noise \subseteq Entities
    /\ MaxDegree \in Nat \ {0, 1}
    /\ Window \in Nat \ {0}

\* The alerts of A that name entity e.
Naming(A, keys, e) == {a \in A : e \in keys[a]}

\* Entities to link on: those that are neither noise nor named by too many alerts.
Linking(A, keys) ==
    {e \in (UNION {keys[a] : a \in A}) \ Noise :
        Cardinality(Naming(A, keys, e)) <= MaxDegree}

\* Wrong variant: the list is cut into pairs instead of taken pairwise.
NeighboursDisjoint(A, keys, e) ==
    {l \in Naming(A, keys, e) \X Naming(A, keys, e) :
        /\ l[1] < l[2] /\ ~ \E c \in Naming(A, keys, e) : l[1] < c /\ c < l[2]
        /\ Cardinality({c \in Naming(A, keys, e) : c < l[1]}) % 2 = 0}

\* pairwise: neighbours in the ascending list of the alerts that name e.
Neighbours(A, keys, e) ==
    {l \in Naming(A, keys, e) \X Naming(A, keys, e) :
        l[1] < l[2] /\ ~ \E c \in Naming(A, keys, e) : l[1] < c /\ c < l[2]}

\* The pairs that correlate unites because of e.
Links(A, at, keys, e) ==
    {l \in Neighbours(A, keys, e) : at[l[2]] - at[l[1]] <= Window}

AllLinks(A, at, keys) == UNION {Links(A, at, keys, e) : e \in Linking(A, keys)}

Closed(S, edges) == \A l \in edges : l[1] \in S <=> l[2] \in S

\* The nodes of A that edges connect with x.
Component(x, A, edges) ==
    {y \in A : \A S \in SUBSET A : x \in S /\ Closed(S, edges) => y \in S}

Components(A, edges) == {Component(x, A, edges) : x \in A}

\* The groups correlate returns, as sets.
Correlate(A, at, keys) == Components(A, AllLinks(A, at, keys))

First(group) == CHOOSE a \in group : \A b \in group : a <= b
==========================================================================
