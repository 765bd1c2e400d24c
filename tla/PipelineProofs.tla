-------------------------- MODULE PipelineProofs --------------------------
(***************************************************************************)
(* What holds of Pipeline for every set of records, every policy and       *)
(* context, every period and every number of alerts.                       *)
(***************************************************************************)
EXTENDS Pipeline, InvestigationProofs, CorrelationProofs

(***************************************************************************)
(* Isolations and their snapshots.                                         *)
(***************************************************************************)
\* Status and dependency of a stored action are those of its kind and target.
ActionsFollowPolicy ==
    \A x \in actions : /\ x.depends = DependsOn(x.incident, x.kind, x.target)
                       /\ x.status = "manual_only" <=> Protected(x.kind, x.target)

IsolationsPaired ==
    \A x \in actions :
        x.kind = "isolate_host" =>
            \E y \in actions : Key(y) = <<x.incident, "snapshot_host", x.target>>

IsolationInv == ActionsFollowPolicy /\ IsolationsPaired

\* recommend: no rule wants an isolation without the snapshot of the same host.
LEMMA SnapshotIsWanted ==
    ASSUME NEW c, NEW h, <<"isolate_host", h>> \in Wanted(c)
    PROVE  <<"snapshot_host", h>> \in Wanted(c)
<1>1. <<"isolate_host", h>> \in HostKinds \X (InfectedHosts(c) \union LateralHosts(c))
  <2>1. <<"isolate_host", h>> \notin Blocked(c)
    BY DEF Blocked
  <2>2. <<"isolate_host", h>> \notin Notices(c)
    BY DEF Notices
  <2> QED
    BY <2>1, <2>2 DEF Wanted, AccountKinds
<1>2. <<"snapshot_host", h>> \in HostKinds \X (InfectedHosts(c) \union LateralHosts(c))
  BY <1>1 DEF HostKinds
<1> QED
  BY <1>2 DEF Wanted

\* What a rule wants is a kind and a target.
LEMMA WantedArePairs ==
    ASSUME NEW c, NEW kt \in Wanted(c)
    PROVE  kt = <<kt[1], kt[2]>>
<1>1. \A S, T : \A e \in S \X T : e = <<e[1], e[2]>>
  OBVIOUS
<1>2. kt \in Blocked(c) => kt = <<kt[1], kt[2]>>
  BY <1>1 DEF Blocked
<1>3. kt \in Notices(c) => kt = <<kt[1], kt[2]>>
  BY <1>1 DEF Notices
<1> QED
  BY <1>1, <1>2, <1>3 DEF Wanted

\* save_recommendations: what is stored of a proposal follows the policy when what
\* was stored before it does, and has the proposal's key.
LEMMA RecommendedFollowsPolicy ==
    ASSUME ActionsFollowPolicy, NEW c, NEW kind, NEW target
    PROVE  LET x == Recommended(Proposal(c, kind, target))
           IN  /\ x.incident = c.id /\ x.kind = kind /\ x.target = target
               /\ x.depends = DependsOn(c.id, kind, target)
               /\ x.status = "manual_only" <=> Protected(kind, target)
<1> DEFINE p == Proposal(c, kind, target)
           stored == {x \in actions : Key(x) = Key(p)}
<1>1. /\ p.incident = c.id /\ p.kind = kind /\ p.target = target
      /\ p.depends = DependsOn(c.id, kind, target)
      /\ p.status = InitialStatus(kind, target)
  BY DEF Proposal
<1>2. CASE stored = {}
  <2>1. Recommended(p) = p
    BY <1>2 DEF Recommended
  <2>2. p.status = "manual_only" <=> Protected(kind, target)
    BY <1>1 DEF InitialStatus
  <2> QED
    BY <1>1, <2>1, <2>2
<1>3. CASE stored # {}
  <2> DEFINE old == CHOOSE x \in stored : TRUE
  <2>1. old \in actions /\ Key(old) = Key(p)
    BY <1>3
  <2>2. old.kind = kind /\ old.target = target
    BY <1>1, <2>1 DEF Key
  <2>3. old.status = "manual_only" <=> Protected(kind, target)
    BY <2>1, <2>2 DEF ActionsFollowPolicy
  <2>4. Recommended(p) = [p EXCEPT !.status = old.status]
    BY <1>3 DEF Recommended
  <2>5. /\ Recommended(p).status = old.status
        /\ Recommended(p).incident = p.incident /\ Recommended(p).kind = p.kind
        /\ Recommended(p).target = p.target /\ Recommended(p).depends = p.depends
    BY <2>4 DEF Proposal
  <2> QED
    BY <1>1, <2>3, <2>5
<1> QED
  BY <1>2, <1>3

\* A triage, whatever the incidents it reports, keeps actions in line with the policy.
LEMMA SaveFollowsPolicy ==
    ASSUME ActionsFollowPolicy, NEW current,
           Save(current, UNION {Proposals(c) : c \in current})
    PROVE  ActionsFollowPolicy'
<1> DEFINE proposals == UNION {Proposals(c) : c \in current}
           kept == {x \in actions : \A y \in proposals : Key(x) # Key(y)}
<1> SUFFICES ASSUME NEW x \in actions'
             PROVE  /\ x.depends = DependsOn(x.incident, x.kind, x.target)
                    /\ x.status = "manual_only" <=> Protected(x.kind, x.target)
  BY DEF ActionsFollowPolicy
<1>1. CASE x \in kept
  BY <1>1 DEF ActionsFollowPolicy
<1>2. CASE x \in {Recommended(y) : y \in proposals}
  <2>1. PICK c, kt : x = Recommended(Proposal(c, kt[1], kt[2]))
    BY <1>2 DEF Proposals
  <2> QED
    BY <2>1, RecommendedFollowsPolicy
<1> QED
  BY <1>1, <1>2 DEF Save

\* A triage keeps isolations with their snapshots.
LEMMA SaveKeepsIsolations ==
    ASSUME IsolationInv, NEW current,
           Save(current, UNION {Proposals(c) : c \in current})
    PROVE  IsolationInv'
<1> DEFINE proposals == UNION {Proposals(c) : c \in current}
           kept == {x \in actions : \A y \in proposals : Key(x) # Key(y)}
<1>1. actions' = kept \union {Recommended(y) : y \in proposals}
  BY DEF Save
<1>2. ASSUME NEW p \in proposals
      PROVE  \E c \in current : \E kt \in Wanted(c) : p = Proposal(c, kt[1], kt[2])
  BY <1>2 DEF Proposals
<1>3. ASSUME NEW c \in current, NEW kt \in Wanted(c)
      PROVE  Proposal(c, kt[1], kt[2]) \in proposals
  BY DEF Proposals
<1>4. ASSUME NEW p \in proposals
      PROVE  /\ Recommended(p) \in actions'
             /\ Key(Recommended(p)) = Key(p)
  <2>1. PICK c, kt : p = Proposal(c, kt[1], kt[2])
    BY <1>2
  <2>2. Key(p) = <<c.id, kt[1], kt[2]>>
    BY <2>1 DEF Key, Proposal
  <2> QED
    BY <1>1, <2>1, <2>2, RecommendedFollowsPolicy DEF Key, IsolationInv
<1>5. ActionsFollowPolicy'
  BY SaveFollowsPolicy DEF IsolationInv
<1>6. IsolationsPaired'
  <2> SUFFICES ASSUME NEW x \in actions', x.kind = "isolate_host"
               PROVE  \E y \in actions' : Key(y) = <<x.incident, "snapshot_host", x.target>>
    BY DEF IsolationsPaired, Key
  <2>1. CASE x \in kept
    <3>1. PICK y \in actions : Key(y) = <<x.incident, "snapshot_host", x.target>>
      BY <2>1 DEF IsolationInv, IsolationsPaired
    <3>2. CASE y \in kept
      BY <1>1, <3>1, <3>2
    <3>3. CASE y \notin kept
      <4>1. PICK p \in proposals : Key(y) = Key(p)
        BY <3>3
      <4> QED
        BY <1>4, <3>1, <4>1
    <3> QED
      BY <3>2, <3>3
  <2>2. CASE x \in {Recommended(y) : y \in proposals}
    <3>1. PICK c, kt : /\ c \in current /\ kt \in Wanted(c)
                       /\ x = Recommended(Proposal(c, kt[1], kt[2]))
      BY <1>2, <2>2
    <3>2. x.incident = c.id /\ x.target = kt[2] /\ kt[1] = "isolate_host"
      BY <3>1, RecommendedFollowsPolicy DEF IsolationInv
    <3> DEFINE s == Proposal(c, "snapshot_host", kt[2])
    <3>3. kt = <<kt[1], kt[2]>>
      BY <3>1, WantedArePairs
    <3>4. <<"snapshot_host", kt[2]>> \in Wanted(c)
      BY <3>1, <3>2, <3>3, SnapshotIsWanted
    <3>5. s \in proposals
      BY <3>1, <3>4 DEF Proposals
    <3>6. Key(s) = <<c.id, "snapshot_host", kt[2]>>
      BY DEF Key, Proposal
    <3> QED
      BY <1>4, <3>2, <3>5, <3>6
  <2> QED
    BY <1>1, <2>1, <2>2
<1> QED
  BY <1>5, <1>6 DEF IsolationInv

\* Isolations are always stored with the snapshots they wait for, and are manual when
\* those are: every state of every run keeps IsolationHasSnapshot.
THEOREM IsolationsHaveSnapshots == Spec => []IsolationHasSnapshot
<1>1. Init => IsolationInv
  BY DEF Init, IsolationInv, ActionsFollowPolicy, IsolationsPaired
<1>2. IsolationInv /\ [Next]_vars => IsolationInv'
  <2> SUFFICES ASSUME IsolationInv, [Next]_vars PROVE IsolationInv'
    OBVIOUS
  <2>1. CASE UNCHANGED actions
    BY <2>1 DEF IsolationInv, ActionsFollowPolicy, IsolationsPaired, Key
  <2>2. ASSUME NEW period \in Periods, Triage(period) PROVE IsolationInv'
    BY <2>2, SaveKeepsIsolations DEF Triage
  <2> QED
    BY <2>1, <2>2 DEF Next, Ingest, vars
<1>3. IsolationInv => IsolationHasSnapshot
  <2> SUFFICES ASSUME IsolationInv, NEW x \in actions
               PROVE  /\ x.kind = "isolate_host" => x.depends # {}
                      /\ \A k \in x.depends :
                            \E y \in actions :
                                /\ Key(y) = k
                                /\ y.status = "manual_only" => x.status = "manual_only"
    BY DEF IsolationHasSnapshot
  <2>1. x.depends = DependsOn(x.incident, x.kind, x.target)
    BY DEF IsolationInv, ActionsFollowPolicy
  <2>2. CASE x.kind # "isolate_host"
    BY <2>1, <2>2 DEF DependsOn
  <2>3. CASE x.kind = "isolate_host"
    <3>1. x.depends = {<<x.incident, "snapshot_host", x.target>>}
      BY <2>1, <2>3 DEF DependsOn
    <3>2. PICK y \in actions : Key(y) = <<x.incident, "snapshot_host", x.target>>
      BY <2>3 DEF IsolationInv, IsolationsPaired
    <3>3. y.kind = "snapshot_host" /\ y.target = x.target
      BY <3>2 DEF Key
    <3>4. y.status = "manual_only" => x.status = "manual_only"
      BY <2>3, <3>3 DEF IsolationInv, ActionsFollowPolicy, Protected, HostKinds, AccountKinds
    <3> QED
      BY <3>1, <3>2, <3>4
  <2> QED
    BY <2>2, <2>3
<1> QED
  BY <1>1, <1>2, <1>3, PTL DEF Spec

(***************************************************************************)
(* Ranks.                                                                  *)
(***************************************************************************)
AnyTactic == Tactics \union UNION {r.tactics : r \in Records}

\* Stored alerts are what the investigation can grade.
AlertsGraded ==
    /\ DOMAIN feed \subseteq Times /\ DOMAIN alerts \subseteq DOMAIN feed
    /\ \A n \in DOMAIN alerts : /\ alerts[n].id = n
                                /\ alerts[n].severity \in 0..4
                                /\ alerts[n].tactics \subseteq AnyTactic

RiskOf(group) == Risk(Evidence(group), Hypotheses(Evidence(group)))

\* A stored risk is that of the incident's own alerts.
IncidentsGraded ==
    \A i \in Times : /\ incidents[i].alerts \subseteq DOMAIN alerts
                     /\ Stored(i) => incidents[i].risk = RiskOf(incidents[i].alerts)

\* Closing an incident changes the status of a row, which has the columns below.
IncidentsAreRows ==
    \A i \in Times : "alerts" \in DOMAIN incidents[i] /\ "risk" \in DOMAIN incidents[i]

RankInv == AlertsGraded /\ IncidentsGraded /\ IncidentsAreRows

\* map_severity yields a rank.
LEMMA SeverityIsRank == ASSUME NEW raw PROVE SeverityOf(raw) \in 0..4
<1> DEFINE limits == {20, 40, 70, 90}
           passed == {limit \in limits : raw.severity[2] >= limit}
<1>1. IsFiniteSet(limits) /\ Cardinality(limits) <= 4
  <2>1. IsFiniteSet({20}) /\ Cardinality({20}) = 1
    BY FS_Singleton
  <2>2. IsFiniteSet({20, 40}) /\ Cardinality({20, 40}) = 2
    BY <2>1, FS_AddElement, {20, 40} = {20} \union {40}
  <2>3. IsFiniteSet({20, 40, 70}) /\ Cardinality({20, 40, 70}) = 3
    BY <2>2, FS_AddElement, {20, 40, 70} = {20, 40} \union {70}
  <2> QED
    BY <2>3, FS_AddElement, limits = {20, 40, 70} \union {90}
<1>2. Cardinality(passed) \in 0..4
  <2>1. passed \in SUBSET limits
    OBVIOUS
  <2>2. IsFiniteSet(passed) /\ Cardinality(passed) <= Cardinality(limits)
    BY <1>1, <2>1, FS_Subset
  <2>3. Cardinality(passed) \in Nat /\ Cardinality(limits) \in Nat
    BY <1>1, <2>2, FS_CardinalityType
  <2> QED
    BY <1>1, <2>2, <2>3
<1>3. \A w \in DOMAIN SeverityWords : SeverityWords[w] \in 0..4
  BY DEF SeverityWords
<1> QED
  BY <1>2, <1>3 DEF SeverityOf

\* mitre_fields names finitely many tactics.
LEMMA TacticsAreFinite ==
    /\ IsFiniteSet(AnyTactic)
    /\ \A raw : TacticsOf(raw) \subseteq Tactics \union raw.tactics
<1>1. IsFiniteSet(Tactics)
  <2>1. \A S, a, b, c : IsFiniteSet(S) => IsFiniteSet(((S \union {a}) \union {b}) \union {c})
    BY FS_AddElement
  <2> DEFINE one == (({} \union {"TA0001"}) \union {"TA0002"}) \union {"TA0003"}
             two == ((one \union {"TA0004"}) \union {"TA0005"}) \union {"TA0006"}
             three == ((two \union {"TA0007"}) \union {"TA0008"}) \union {"TA0009"}
             four == ((three \union {"TA0010"}) \union {"TA0011"}) \union {"TA0040"}
  <2>2. IsFiniteSet(one)
    BY <2>1, FS_EmptySet
  <2> HIDE DEF one
  <2>3. IsFiniteSet(two)
    BY <2>1, <2>2
  <2> HIDE DEF two
  <2>4. IsFiniteSet(three)
    BY <2>1, <2>3
  <2> HIDE DEF three
  <2>5. IsFiniteSet(four)
    BY <2>1, <2>4
  <2>6. four = Tactics
    BY DEF one, two, three, four, Tactics
  <2> QED
    BY <2>5, <2>6
<1>2. IsFiniteSet(AnyTactic)
  BY <1>1, PipelineAssumption, FS_Union DEF PipelineAssumption, AnyTactic
<1>3. \A t : Implied(t) \subseteq Tactics
  BY DEF Implied, Tactics
<1> QED
  BY <1>2, <1>3 DEF TacticsOf

\* The evidence of stored alerts can be graded.
LEMMA EvidenceIsGradable ==
    ASSUME AlertsGraded, NEW group, group \subseteq DOMAIN alerts, group # {}
    PROVE  Gradable(Evidence(group))
<1> DEFINE f == [n \in group |-> alerts[n]]
<1>1. IsFiniteSet(group)
  <2>1. IsFiniteSet(Times)
    BY FS_Interval, PipelineAssumption DEF Times, PipelineAssumption
  <2>2. group \in SUBSET Times
    BY DEF AlertsGraded
  <2> QED
    BY <2>1, <2>2, FS_Subset
<1>2. f \in Surjection(group, Evidence(group))
  BY DEF Surjection, Evidence
<1>3. IsFiniteSet(Evidence(group))
  BY <1>1, <1>2, FS_Surjection
<1>4. TacticsSeen(Evidence(group)) \in SUBSET AnyTactic
  BY DEF TacticsSeen, Evidence, AlertsGraded
<1>5. IsFiniteSet(TacticsSeen(Evidence(group)))
  BY <1>4, TacticsAreFinite, FS_Subset
<1> QED
  BY <1>3, <1>5 DEF Gradable, Evidence, AlertsGraded

\* ingest_lines: a new alert can be graded, and changes no incident's evidence.
LEMMA IngestKeepsRanks ==
    ASSUME RankInv, NEW record \in Records, NEW n \in Times, Ingest(record, n)
    PROVE  RankInv'
<1> DEFINE raw == [record EXCEPT !.at = n]
<1>1. raw.tactics = record.tactics
  BY PipelineAssumption DEF PipelineAssumption
<1>2. n \notin DOMAIN alerts
  BY DEF Ingest, RankInv, AlertsGraded
<1>3. alerts' = alerts \/ alerts' = With(alerts, n, Normalized(raw, n))
  BY DEF Ingest
<1>4. /\ DOMAIN alerts \subseteq DOMAIN alerts'
      /\ \A k \in DOMAIN alerts : alerts'[k] = alerts[k]
  BY <1>2, <1>3 DEF With
<1>5. AlertsGraded'
  <2>1. DOMAIN feed' = DOMAIN feed \union {n}
    BY DEF Ingest, With
  <2>2. DOMAIN alerts' \subseteq DOMAIN feed'
    BY <1>3, <2>1 DEF With, RankInv, AlertsGraded
  <2>3. /\ Normalized(raw, n).id = n
        /\ Normalized(raw, n).severity \in 0..4
        /\ Normalized(raw, n).tactics \subseteq AnyTactic
    BY <1>1, SeverityIsRank, TacticsAreFinite DEF Normalized, AnyTactic
  <2>4. ASSUME NEW k \in DOMAIN alerts'
        PROVE  /\ alerts'[k].id = k /\ alerts'[k].severity \in 0..4
               /\ alerts'[k].tactics \subseteq AnyTactic
    <3>1. CASE k \in DOMAIN alerts
      BY <1>4, <3>1 DEF RankInv, AlertsGraded
    <3>2. CASE k \notin DOMAIN alerts
      <4>1. k = n /\ alerts'[n] = Normalized(raw, n)
        BY <1>3, <3>2 DEF With
      <4> QED
        BY <2>3, <4>1
    <3> QED
      BY <3>1, <3>2
  <2> QED
    BY <2>1, <2>2, <2>4 DEF AlertsGraded, RankInv, Times, AnyTactic
<1>6. \A g : g \subseteq DOMAIN alerts => Evidence(g)' = Evidence(g)
  BY <1>4 DEF Evidence
<1>7. incidents' = incidents
  BY DEF Ingest
<1>8. IncidentsGraded'
  <2> SUFFICES ASSUME NEW i \in Times
               PROVE  /\ incidents[i].alerts \subseteq DOMAIN alerts'
                      /\ incidents[i].alerts # {} =>
                            incidents[i].risk = RiskOf(incidents[i].alerts)'
    BY <1>7 DEF IncidentsGraded, Stored, Times
  <2>1. incidents[i].alerts \subseteq DOMAIN alerts
    BY DEF RankInv, IncidentsGraded
  <2>2. RiskOf(incidents[i].alerts)' = RiskOf(incidents[i].alerts)
    BY <1>6, <1>7, <2>1 DEF RiskOf
  <2> QED
    BY <1>4, <2>1, <2>2 DEF RankInv, IncidentsGraded, Stored
<1> QED
  BY <1>5, <1>7, <1>8 DEF RankInv, IncidentsAreRows, Times

\* Alerts are identified by their times.
LEMMA IdsOfEvidence ==
    ASSUME AlertsGraded, NEW group, group \subseteq DOMAIN alerts
    PROVE  Ids(Evidence(group)) = group
  BY DEF Ids, Evidence, AlertsGraded

\* upsert and _close_merged: a row keeps its alerts and risk, or takes those of a group.
LEMMA SaveKeepsRanks ==
    ASSUME RankInv, alerts' = alerts, feed' = feed, NEW groups, NEW proposals,
           \A g \in groups : g \subseteq DOMAIN alerts,
           Save({Incident(A) : A \in {Evidence(g) : g \in groups}}, proposals)
    PROVE  RankInv'
<1> DEFINE current == {Incident(A) : A \in {Evidence(g) : g \in groups}}
<1>1. ASSUME NEW i \in Times
      PROVE  \/ \E g \in groups : /\ incidents'[i].alerts = g
                                  /\ incidents'[i].risk = RiskOf(g)
                                  /\ "alerts" \in DOMAIN incidents'[i]
                                  /\ "risk" \in DOMAIN incidents'[i]
             \/ /\ incidents'[i].alerts = incidents[i].alerts
                /\ incidents'[i].risk = incidents[i].risk
                /\ DOMAIN incidents'[i] = DOMAIN incidents[i]
  <2>1. CASE i \in Ids(current)
    <3> DEFINE c == CHOOSE x \in current : x.id = i
    <3>1. c \in current
      BY <2>1 DEF Ids
    <3>2. PICK g \in groups : c = Incident(Evidence(g))
      BY <3>1
    <3>3. incidents'[i] = Upserted(c)
      BY <2>1 DEF Save, Times
    <3>4. Ids(Evidence(g)) = g
      BY IdsOfEvidence DEF RankInv
    <3> HIDE DEF c
    <3>5. c.alerts = Evidence(g) /\ c.risk = RiskOf(g)
      <4>1. \A A : Incident(A).alerts = A /\ Incident(A).risk = Risk(A, Hypotheses(A))
        BY DEF Incident
      <4> QED
        BY <3>2, <4>1 DEF RiskOf
    <3> QED
      BY <3>3, <3>4, <3>5 DEF Upserted
  <2>2. CASE i \notin Ids(current)
    <3>1. \/ incidents'[i] = [incidents[i] EXCEPT !.status = "closed"]
          \/ incidents'[i] = incidents[i]
      BY <2>2 DEF Save, Times
    <3>2. "alerts" \in DOMAIN incidents[i] /\ "risk" \in DOMAIN incidents[i]
      BY DEF RankInv, IncidentsAreRows
    <3> QED
      BY <3>1, <3>2
  <2> QED
    BY <2>1, <2>2
<1>2. \A g : RiskOf(g)' = RiskOf(g)
  BY DEF RiskOf, Evidence
<1>3. IncidentsGraded'
  <2> SUFFICES ASSUME NEW i \in Times
               PROVE  /\ incidents'[i].alerts \subseteq DOMAIN alerts
                      /\ incidents'[i].alerts # {} =>
                            incidents'[i].risk = RiskOf(incidents'[i].alerts)
    BY <1>2 DEF IncidentsGraded, Stored, Times
  <2>1. CASE \E g \in groups : incidents'[i].alerts = g /\ incidents'[i].risk = RiskOf(g)
    BY <2>1
  <2>2. CASE /\ incidents'[i].alerts = incidents[i].alerts
             /\ incidents'[i].risk = incidents[i].risk
    BY <2>2 DEF RankInv, IncidentsGraded, Stored
  <2> QED
    BY <1>1, <2>1, <2>2
<1>4. IncidentsAreRows'
  BY <1>1 DEF RankInv, IncidentsAreRows, Times
<1>5. AlertsGraded'
  BY DEF RankInv, AlertsGraded, Times, AnyTactic
<1> QED
  BY <1>3, <1>4, <1>5 DEF RankInv

\* triage: groups are made of the stored alerts of the period.
LEMMA TriageKeepsRanks ==
    ASSUME RankInv, NEW period \in Periods, Triage(period)
    PROVE  RankInv'
<1> DEFINE current == {Incident(A) : A \in {Evidence(g) : g \in Groups(period)}}
<1>1. Save(current, UNION {Proposals(c) : c \in current}) /\ alerts' = alerts /\ feed' = feed
  BY DEF Triage
<1>2. \A g \in Groups(period) : g \subseteq DOMAIN alerts
  BY DEF Groups, Correlate, Components, Component, InPeriod
<1> HIDE DEF current
<1> QED
  BY <1>1, <1>2, SaveKeepsRanks DEF current

\* Every step keeps the risks in line with the alerts.
LEMMA RankStep == RankInv /\ [Next]_vars => RankInv'
<1> SUFFICES ASSUME RankInv, [Next]_vars PROVE RankInv'
  OBVIOUS
<1>1. CASE UNCHANGED vars
  <2>1. feed' = feed /\ alerts' = alerts /\ incidents' = incidents
    BY <1>1 DEF vars
  <2>2. \A g : RiskOf(g)' = RiskOf(g)
    BY <2>1 DEF RiskOf, Evidence
  <2>3. AlertsGraded' /\ IncidentsAreRows'
    BY <2>1 DEF RankInv, AlertsGraded, IncidentsAreRows, Times, AnyTactic
  <2>4. IncidentsGraded'
    BY <2>1, <2>2 DEF RankInv, IncidentsGraded, Stored, Times
  <2> QED
    BY <2>3, <2>4 DEF RankInv
<1> QED
  BY <1>1, IngestKeepsRanks, TriageKeepsRanks DEF Next

\* No incident ever ranks below another whose alerts it contains, in any state of any
\* run: what a merge closes is never more urgent than what replaces it.
THEOREM LargerIncidentsRankHigher == Spec => []LargerRanksHigher
<1>1. Init => RankInv
  BY DEF Init, RankInv, AlertsGraded, IncidentsGraded, IncidentsAreRows, Stored, NoRow
<1>2. RankInv /\ [Next]_vars => RankInv'
  BY RankStep
<1>3. RankInv => LargerRanksHigher
  <2> SUFFICES ASSUME RankInv, NEW i \in Times, NEW j \in Times, Covers(j, i)
               PROVE  incidents[i].risk <= incidents[j].risk
    BY DEF LargerRanksHigher
  <2> DEFINE small == incidents[i].alerts
             large == incidents[j].alerts
  <2>1. small # {} /\ large # {} /\ small \subseteq large /\ large \subseteq DOMAIN alerts
    BY DEF Covers, Stored, RankInv, IncidentsGraded
  <2>2. incidents[i].risk = RiskOf(small) /\ incidents[j].risk = RiskOf(large)
    BY <2>1 DEF RankInv, IncidentsGraded, Stored
  <2>3. Gradable(Evidence(small)) /\ Gradable(Evidence(large))
    BY <2>1, EvidenceIsGradable DEF RankInv
  <2>4. Evidence(small) \subseteq Evidence(large)
    BY <2>1 DEF Evidence
  <2>5. RiskOf(small) <= RiskOf(large)
    BY <2>3, <2>4, RiskAscends DEF RiskOf
  <2> QED
    BY <2>2, <2>5
<1> QED
  BY <1>1, <1>2, <1>3, PTL DEF Spec

(***************************************************************************)
(* Containment of what has spread.                                         *)
(***************************************************************************)
Encrypted(A) == {a \in A : HasTechnique(a, {"T1486", "T1490"})}

\* Hosts that the alerts A themselves show to be reached.
Reached(A) == (UNION LateralEdges(A)) \union NamedBy(Encrypted(A), "host")

\* An incident as triage reports or stores it.
Concluded(incident) == incident.hypotheses = Hypotheses(incident.alerts)

\* Alerts of one incident have different ids.
Distinct(A) == \A a, b \in A : a.id = b.id => a = b

\* Alerts about lateral movement or ransomware on a host stay so when others join them.
LEMMA ReachedGrows ==
    ASSUME NEW A, NEW B, A \subseteq B
    PROVE  Reached(A) \subseteq Reached(B)
<1>1. LateralEdges(A) \subseteq LateralEdges(B)
  BY DEF LateralEdges
<1>2. Encrypted(A) \subseteq Encrypted(B)
  BY DEF Encrypted
<1> QED
  BY <1>1, <1>2 DEF Reached, NamedBy

\* A rule names its hypothesis and its evidence.
LEMMA RuleNames ==
    ASSUME NEW found, NEW causes, NEW name, NEW confidence, NEW evidence,
           found = Hypothesis(causes, name, confidence, evidence)
    PROVE  /\ \A h \in found : h.name = name /\ h.evidence = Ids(evidence)
           /\ found = {} <=> causes = {}
<1>1. CASE causes = {}
  BY <1>1 DEF Hypothesis
<1>2. CASE causes # {}
  <2>1. found = {[name |-> name, confidence |-> confidence, evidence |-> Ids(evidence)]}
    BY <1>2 DEF Hypothesis
  <2>2. \A h \in found : h.name = name /\ h.evidence = Ids(evidence)
    BY <2>1
  <2>3. found # {}
    BY <2>1
  <2> QED
    BY <1>2, <2>2, <2>3
<1> QED
  BY <1>1, <1>2

\* The rules on ransomware and on lateral movement are the only ones of their names.
LEMMA RulesByName ==
    ASSUME NEW A
    PROVE  /\ {h \in Hypotheses(A) : h.name = "ransomware"} = Ransomware(A)
           /\ {h \in Hypotheses(A) : h.name = "lateral_movement"} = Lateral(A)
           /\ \A h \in Ransomware(A) : h.evidence = Ids(Encrypted(A))
           /\ Ransomware(A) = {} <=> Encrypted(A) = {}
           /\ Lateral(A) = {} => LateralEdges(A) = {}
<1>1. /\ \A h \in Ransomware(A) : h.name = "ransomware" /\ h.evidence = Ids(Encrypted(A))
      /\ Ransomware(A) = {} <=> Encrypted(A) = {}
  <2>1. \E confidence :
           Ransomware(A) = Hypothesis(Encrypted(A), "ransomware", confidence, Encrypted(A))
    BY Zenon DEF Ransomware, Encrypted
  <2> QED
    BY <2>1, RuleNames
<1>2. \A h \in Credential(A) : h.name = "credential_compromise"
  <2>1. \E causes, confidence, evidence :
           Credential(A) = Hypothesis(causes, "credential_compromise", confidence, evidence)
    BY Zenon DEF Credential
  <2> QED
    BY <2>1, RuleNames
<1>3. \A h \in Malware(A) : h.name = "malware_execution"
  <2>1. \E causes, evidence :
           Malware(A) = Hypothesis(causes, "malware_execution", "high", evidence)
    BY Zenon DEF Malware
  <2> QED
    BY <2>1, RuleNames
<1>4. \A h \in Phishing(A) : h.name = "phishing_initial_access"
  <2>1. \E causes, confidence, evidence :
           Phishing(A) = Hypothesis(causes, "phishing_initial_access", confidence, evidence)
    BY Zenon DEF Phishing
  <2> QED
    BY <2>1, RuleNames
<1>5. /\ \A h \in Lateral(A) : h.name = "lateral_movement"
      /\ Lateral(A) = {} => {a \in A : IsLateral(a)} = {}
  <2>1. \E confidence, evidence :
           Lateral(A) = Hypothesis({a \in A : IsLateral(a)}, "lateral_movement", confidence,
                                   evidence)
    BY Zenon DEF Lateral
  <2> QED
    BY <2>1, RuleNames
<1>6. \A h \in Exfil(A) : h.name = "data_exfiltration"
  <2>1. \E causes, confidence, evidence :
           Exfil(A) = Hypothesis(causes, "data_exfiltration", confidence, evidence)
    BY Zenon DEF Exfil
  <2> QED
    BY <2>1, RuleNames
<1>7. \A h \in MultiStage(A) : h.name = "multi_stage_activity"
  <2>1. \E causes :
           MultiStage(A) = Hypothesis(causes, "multi_stage_activity", "medium", A)
    BY Zenon DEF MultiStage
  <2> QED
    BY <2>1, RuleNames
<1>8. Lateral(A) = {} => LateralEdges(A) = {}
  BY <1>5 DEF LateralEdges
<1>9. \A h : h \in Hypotheses(A) <=>
                \/ h \in Ransomware(A) \/ h \in Credential(A) \/ h \in Malware(A)
                \/ h \in Phishing(A) \/ h \in Lateral(A) \/ h \in Exfil(A) \/ h \in MultiStage(A)
  BY DEF Hypotheses
<1> QED
  BY <1>1, <1>2, <1>3, <1>4, <1>5, <1>6, <1>7, <1>8, <1>9

\* What an incident's hypotheses say has spread is what its alerts show.
LEMMA SpreadIsReached ==
    ASSUME NEW c, Concluded(c), Distinct(c.alerts)
    PROVE  SpreadHosts(c) = Reached(c.alerts)
<1> DEFINE A == c.alerts
<1>1. Found(c, "ransomware") = Ransomware(A) /\ Found(c, "lateral_movement") = Lateral(A)
  BY RulesByName DEF Found, Concluded
<1>2. LateralHosts(c) = UNION LateralEdges(A)
  <2>1. CASE Lateral(A) = {}
    <3>1. LateralEdges(A) = {}
      BY <2>1, RulesByName
    <3> QED
      BY <1>1, <2>1, <3>1 DEF LateralHosts, Holds
  <2>2. CASE Lateral(A) # {}
    BY <1>1, <2>2 DEF LateralHosts, Holds
  <2> QED
    BY <2>1, <2>2
<1>3. EvidenceNames(c, "ransomware", "host") = NamedBy(Encrypted(A), "host")
  <2> DEFINE evidence == UNION {h.evidence : h \in Ransomware(A)}
  <2>1. EvidenceNames(c, "ransomware", "host") = NamedBy({a \in A : a.id \in evidence}, "host")
    BY <1>1 DEF EvidenceNames
  <2>2. CASE Encrypted(A) = {}
    <3>1. evidence = {}
      BY <2>2, RulesByName
    <3> QED
      BY <2>1, <2>2, <3>1
  <2>3. CASE Encrypted(A) # {}
    <3>1. evidence = Ids(Encrypted(A))
      BY <2>3, RulesByName
    <3>2. {a \in A : a.id \in Ids(Encrypted(A))} = Encrypted(A)
      BY DEF Ids, Encrypted, Distinct
    <3> QED
      BY <2>1, <3>1, <3>2
  <2> QED
    BY <2>2, <2>3
<1> QED
  BY <1>2, <1>3 DEF SpreadHosts, Reached

Contained(i) ==
    \A h \in Reached(Evidence(incidents[i].alerts)) :
        \E x \in actions : Key(x) = <<i, "isolate_host", h>>

\* A stored incident has the hypotheses of its alerts and the isolations they call for.
IncidentsContained ==
    \A i \in Times :
        /\ "hypotheses" \in DOMAIN incidents[i]
        /\ Stored(i) => /\ incidents[i].hypotheses = Hypotheses(Evidence(incidents[i].alerts))
                        /\ Contained(i)

SpreadInv == RankInv /\ ActionsFollowPolicy /\ IncidentsContained

\* Stored alerts have different ids.
LEMMA EvidenceIsDistinct ==
    ASSUME AlertsGraded, NEW group, group \subseteq DOMAIN alerts
    PROVE  Distinct(Evidence(group))
  BY DEF AlertsGraded, Distinct, Evidence

\* recommend: what has been reached is wanted isolated, whatever else is found.
LEMMA ReachedAreWanted ==
    ASSUME NEW A, Distinct(A), NEW h \in Reached(A)
    PROVE  <<"isolate_host", h>> \in Wanted(Incident(A))
<1> DEFINE c == Incident(A)
<1>1. c.alerts = A /\ c.hypotheses = Hypotheses(A)
  BY DEF Incident
<1> HIDE DEF c
<1>2. h \in SpreadHosts(c)
  BY <1>1, SpreadIsReached DEF Concluded
<1>3. ASSUME h \in EvidenceNames(c, "ransomware", "host") PROVE h \in InfectedHosts(c)
  <2>1. Holds(c, "ransomware")
    BY <1>3 DEF EvidenceNames, NamedBy, Holds
  <2>2. h \in OrElse(EvidenceNames(c, "ransomware", "host"), AffectedHosts(c.alerts))
    BY <1>3 DEF OrElse
  <2> QED
    BY <2>1, <2>2 DEF InfectedHosts, HostsOf, HostDriven
<1>4. h \in InfectedHosts(c) \union LateralHosts(c)
  BY <1>2, <1>3 DEF SpreadHosts
<1>5. <<"isolate_host", h>> \in HostKinds \X (InfectedHosts(c) \union LateralHosts(c))
  BY <1>4 DEF HostKinds
<1> QED
  BY <1>5 DEF Wanted, c

\* upsert and save_recommendations: an incident is stored with the isolations it calls
\* for, and stored actions are never lost.
LEMMA SaveContains ==
    ASSUME SpreadInv, alerts' = alerts, NEW groups,
           \A g \in groups : g \subseteq DOMAIN alerts,
           LET current == {Incident(A) : A \in {Evidence(g) : g \in groups}}
           IN  Save(current, UNION {Proposals(c) : c \in current})
    PROVE  IncidentsContained'
<1> DEFINE current == {Incident(A) : A \in {Evidence(g) : g \in groups}}
           proposals == UNION {Proposals(c) : c \in current}
<1>1. ASSUME NEW c \in current, NEW h, <<"isolate_host", h>> \in Wanted(c)
      PROVE  \E x \in actions' : Key(x) = <<c.id, "isolate_host", h>>
  <2> DEFINE p == Proposal(c, "isolate_host", h)
  <2>1. p \in proposals
    BY <1>1 DEF Proposals
  <2>2. Recommended(p) \in actions'
    BY <2>1 DEF Save
  <2>3. Key(Recommended(p)) = <<c.id, "isolate_host", h>>
    BY RecommendedFollowsPolicy DEF Key, SpreadInv
  <2> QED
    BY <2>2, <2>3
<1>2. ASSUME NEW x \in actions PROVE \E y \in actions' : Key(y) = Key(x)
  <2>1. CASE \A p \in proposals : Key(x) # Key(p)
    BY <2>1 DEF Save
  <2>2. CASE \E p \in proposals : Key(x) = Key(p)
    <3>1. PICK p \in proposals : Key(x) = Key(p)
      BY <2>2
    <3>2. PICK c, kt : p = Proposal(c, kt[1], kt[2])
      BY <3>1 DEF Proposals
    <3>3. Recommended(p) \in actions'
      BY <3>1 DEF Save
    <3>4. Key(p) = <<c.id, kt[1], kt[2]>>
      BY <3>2 DEF Key, Proposal
    <3>5. Key(Recommended(p)) = <<c.id, kt[1], kt[2]>>
      BY <3>2, RecommendedFollowsPolicy DEF Key, SpreadInv
    <3> QED
      BY <3>1, <3>3, <3>4, <3>5
  <2> QED
    BY <2>1, <2>2
<1>3. ASSUME NEW i \in Times
      PROVE  /\ "hypotheses" \in DOMAIN incidents'[i]
             /\ incidents'[i].alerts # {} =>
                   /\ incidents'[i].hypotheses = Hypotheses(Evidence(incidents'[i].alerts))
                   /\ \A h \in Reached(Evidence(incidents'[i].alerts)) :
                         \E x \in actions' : Key(x) = <<i, "isolate_host", h>>
  <2>1. CASE i \in Ids(current)
    <3> DEFINE c == CHOOSE x \in current : x.id = i
    <3>1. c \in current /\ c.id = i
      BY <2>1 DEF Ids
    <3>2. PICK g \in groups : c = Incident(Evidence(g))
      BY <3>1
    <3>3. incidents'[i] = Upserted(c)
      BY <2>1 DEF Save, Times
    <3>4. Ids(Evidence(g)) = g /\ Distinct(Evidence(g))
      BY IdsOfEvidence, EvidenceIsDistinct DEF SpreadInv, RankInv
    <3> HIDE DEF c
    <3>5. c.alerts = Evidence(g) /\ c.hypotheses = Hypotheses(Evidence(g))
      <4>1. \A A : Incident(A).alerts = A /\ Incident(A).hypotheses = Hypotheses(A)
        BY DEF Incident
      <4> QED
        BY <3>2, <4>1
    <3>6. /\ incidents'[i].alerts = g /\ incidents'[i].hypotheses = Hypotheses(Evidence(g))
          /\ "hypotheses" \in DOMAIN incidents'[i]
      BY <3>3, <3>4, <3>5 DEF Upserted
    <3>7. \A h \in Reached(Evidence(g)) : <<"isolate_host", h>> \in Wanted(c)
      BY <3>2, <3>4, ReachedAreWanted
    <3> QED
      BY <1>1, <3>1, <3>6, <3>7
  <2>2. CASE i \notin Ids(current)
    <3>1. \/ incidents'[i] = [incidents[i] EXCEPT !.status = "closed"]
          \/ incidents'[i] = incidents[i]
      BY <2>2 DEF Save, Times
    <3>2. "alerts" \in DOMAIN incidents[i] /\ "hypotheses" \in DOMAIN incidents[i]
      BY DEF SpreadInv, RankInv, IncidentsAreRows, IncidentsContained
    <3>3. /\ incidents'[i].alerts = incidents[i].alerts
          /\ incidents'[i].hypotheses = incidents[i].hypotheses
          /\ "hypotheses" \in DOMAIN incidents'[i]
      BY <3>1, <3>2
    <3>4. Stored(i) => /\ incidents[i].hypotheses = Hypotheses(Evidence(incidents[i].alerts))
                       /\ Contained(i)
      BY DEF SpreadInv, IncidentsContained
    <3> QED
      BY <1>2, <3>3, <3>4 DEF Stored, Contained
  <2> QED
    BY <2>1, <2>2
<1>4. \A g : Evidence(g)' = Evidence(g)
  BY DEF Evidence
<1> QED
  BY <1>3, <1>4 DEF IncidentsContained, Stored, Contained, Times, Key

\* ingest_lines: new alerts are in no incident yet.
LEMMA IngestContains ==
    ASSUME SpreadInv, NEW record \in Records, NEW n \in Times, Ingest(record, n)
    PROVE  IncidentsContained'
<1>1. incidents' = incidents /\ actions' = actions
  BY DEF Ingest
<1>2. \A k \in DOMAIN alerts : k \in DOMAIN alerts' /\ alerts'[k] = alerts[k]
  <2>1. n \notin DOMAIN alerts
    BY DEF Ingest, SpreadInv, RankInv, AlertsGraded
  <2>2. \E x : alerts' = alerts \/ alerts' = With(alerts, n, x)
    BY DEF Ingest
  <2> QED
    BY <2>1, <2>2 DEF With
<1>3. \A i \in Times : Evidence(incidents[i].alerts)' = Evidence(incidents[i].alerts)
  BY <1>1, <1>2 DEF Evidence, SpreadInv, RankInv, IncidentsGraded
<1> QED
  BY <1>1, <1>3 DEF SpreadInv, IncidentsContained, Stored, Contained, Times, Key

\* What ransomware or lateral movement has reached stays proposed for isolation when its
\* incident is absorbed by a larger one, in any state of any run.
THEOREM SpreadIsContained == Spec => []SpreadStaysContained
<1>1. Init => SpreadInv
  BY DEF Init, SpreadInv, RankInv, AlertsGraded, IncidentsGraded, IncidentsAreRows,
         ActionsFollowPolicy, IncidentsContained, Stored, NoRow
<1>2. SpreadInv /\ [Next]_vars => SpreadInv'
  <2> SUFFICES ASSUME SpreadInv, [Next]_vars PROVE SpreadInv'
    OBVIOUS
  <2>1. CASE UNCHANGED vars
    <3>1. feed' = feed /\ alerts' = alerts /\ incidents' = incidents /\ actions' = actions
      BY <2>1 DEF vars
    <3>2. RankInv'
      BY <2>1, RankStep DEF SpreadInv
    <3>3. ActionsFollowPolicy'
      BY <3>1 DEF SpreadInv, ActionsFollowPolicy
    <3>4. \A g : Evidence(g)' = Evidence(g)
      BY <3>1 DEF Evidence
    <3>5. IncidentsContained'
      BY <3>1, <3>4 DEF SpreadInv, IncidentsContained, Stored, Contained, Times, Key
    <3> QED
      BY <3>2, <3>3, <3>5 DEF SpreadInv
  <2>2. ASSUME NEW record \in Records, NEW n \in Times, Ingest(record, n)
        PROVE  SpreadInv'
    <3>1. ActionsFollowPolicy'
      BY <2>2 DEF Ingest, SpreadInv, ActionsFollowPolicy
    <3> QED
      BY <2>2, <3>1, IngestKeepsRanks, IngestContains DEF SpreadInv
  <2>3. ASSUME NEW period \in Periods, Triage(period)
        PROVE  SpreadInv'
    <3> DEFINE current == {Incident(A) : A \in {Evidence(g) : g \in Groups(period)}}
    <3>1. Save(current, UNION {Proposals(c) : c \in current}) /\ alerts' = alerts
      BY <2>3 DEF Triage
    <3>2. \A g \in Groups(period) : g \subseteq DOMAIN alerts
      BY DEF Groups, Correlate, Components, Component, InPeriod
    <3>3. IncidentsContained'
      BY <3>1, <3>2, SaveContains
    <3>4. ActionsFollowPolicy'
      BY <3>1, SaveFollowsPolicy DEF SpreadInv
    <3> QED
      BY <2>3, <3>3, <3>4, TriageKeepsRanks DEF SpreadInv
  <2> QED
    BY <2>1, <2>2, <2>3 DEF Next
<1>3. SpreadInv => SpreadStaysContained
  <2> SUFFICES ASSUME SpreadInv, NEW i \in Times, NEW j \in Times, Covers(j, i),
                      NEW h \in SpreadHosts(StoredIncident(i))
               PROVE  \E x \in actions : Key(x) = <<j, "isolate_host", h>>
    BY DEF SpreadStaysContained
  <2> DEFINE small == incidents[i].alerts
             large == incidents[j].alerts
  <2>1. small # {} /\ large # {} /\ small \subseteq large /\ large \subseteq DOMAIN alerts
    BY DEF Covers, Stored, SpreadInv, RankInv, IncidentsGraded
  <2>2. StoredIncident(i).alerts = Evidence(small)
    BY DEF StoredIncident, SpreadInv, RankInv, IncidentsAreRows
  <2>3. StoredIncident(i).hypotheses = Hypotheses(Evidence(small))
    BY <2>1 DEF StoredIncident, SpreadInv, IncidentsContained, Stored
  <2>4. SpreadHosts(StoredIncident(i)) = Reached(Evidence(small))
    <3>1. Distinct(Evidence(small))
      BY <2>1, EvidenceIsDistinct DEF SpreadInv, RankInv
    <3> QED
      BY <2>2, <2>3, <3>1, SpreadIsReached DEF Concluded
  <2>5. Evidence(small) \subseteq Evidence(large)
    BY <2>1 DEF Evidence
  <2>6. h \in Reached(Evidence(large))
    BY <2>4, <2>5, ReachedGrows
  <2>7. Contained(j)
    BY <2>1 DEF SpreadInv, IncidentsContained, Stored
  <2> QED
    BY <2>6, <2>7 DEF Contained
<1> QED
  BY <1>1, <1>2, <1>3, PTL DEF Spec

(***************************************************************************)
(* Types.                                                                  *)
(***************************************************************************)
Confidences == {"low", "medium", "high"}

Names == HostDriven \union {"credential_compromise", "lateral_movement",
                            "data_exfiltration", "multi_stage_activity"}

\* _finding: a rule's hypothesis is about alerts of the incident.
LEMMA RuleFinds ==
    ASSUME NEW A, NEW causes, NEW name \in Names, NEW confidence \in Confidences,
           NEW evidence \in SUBSET A, Ids(A) \subseteq Times
    PROVE  Hypothesis(causes, name, confidence, evidence) \subseteq Finding
<1>1. Ids(evidence) \in SUBSET Times
  BY DEF Ids
<1>2. [name |-> name, confidence |-> confidence, evidence |-> Ids(evidence)] \in Finding
  BY <1>1 DEF Finding, Names, Confidences
<1> QED
  BY <1>2 DEF Hypothesis

\* The rules find hypotheses of the known names about alerts of the incident.
LEMMA HypothesesAreFindings ==
    ASSUME NEW A, Ids(A) \subseteq Times
    PROVE  Hypotheses(A) \subseteq Finding
<1> DEFINE Sound(found) ==
               \E causes, evidence \in SUBSET A : \E name \in Names, confidence \in Confidences :
                  found = Hypothesis(causes, name, confidence, evidence)
<1>0. \A found : Sound(found) => found \subseteq Finding
  BY RuleFinds
<1>1. \A met \in Int : Confidence(met) \in Confidences
  BY DEF Confidence, Confidences
<1>2. \A c : Count(c) \in Int
  BY DEF Count
<1>3. Ransomware(A) \subseteq Finding
  <2> DEFINE hits == {a \in A : HasTechnique(a, {"T1486", "T1490"})}
  <2>1. \E confidence \in Confidences :
           Ransomware(A) = Hypothesis(hits, "ransomware", confidence, hits)
    BY Zenon DEF Ransomware, Confidences
  <2>2. hits \in SUBSET A /\ "ransomware" \in Names
    BY DEF Names, HostDriven
  <2> QED
    BY <2>1, <2>2, RuleFinds
<1>4. Credential(A) \subseteq Finding
  <2> DEFINE attacks == {a \in A : IsBruteForce(a)}
             successes == {a \in A : IsSuccess(a)
                                    \/ (HasTechnique(a, {"T1078"}) /\ ~IsBruteForce(a))}
             anomalies == {a \in A : "anomaly" \in a.words}
             confirmed == {s \in successes :
                         \E a \in attacks : s.at >= a.at /\ Share(a, s, "user")}
             met == Count(attacks # {})
                       + Count(confirmed # {} \/ (anomalies # {} /\ successes # {}))
  <2>1. Credential(A) = Hypothesis(attacks \union anomalies, "credential_compromise",
                   Confidence(met), attacks \union confirmed \union anomalies)
    BY Zenon DEF Credential
  <2>2. attacks \union confirmed \union anomalies \in SUBSET A
    OBVIOUS
  <2>3. met \in Int
    BY <1>2
  <2>4. "credential_compromise" \in Names
    BY DEF Names
  <2> HIDE DEF attacks, successes, anomalies, confirmed, met
  <2> QED
    BY <1>1, <2>1, <2>2, <2>3, <2>4, RuleFinds
<1>5. Malware(A) \subseteq Finding
  <2> DEFINE executions == {x \in A : IsExecution(x) /\ C2On(A, x) # {}}
             first == CHOOSE x \in executions : \A y \in executions : x.id <= y.id
             evidence == {first} \union C2On(A, first)
  <2>1. Malware(A) = Hypothesis(executions, "malware_execution", "high", evidence)
    BY Zenon DEF Malware
  <2>2. "malware_execution" \in Names /\ "high" \in Confidences
    BY DEF Names, HostDriven, Confidences
  <2>3. CASE executions = {}
    BY <2>1, <2>3 DEF Hypothesis
  <2>4. CASE executions # {}
    <3>1. Ids(executions) \in SUBSET Nat /\ Ids(executions) # {}
      BY <2>4 DEF Ids, Times
    <3>2. PICK n \in Ids(executions) : \A m \in Ids(executions) : n <= m
      BY <3>1, LeastOf
    <3>3. \E x \in executions : \A y \in executions : x.id <= y.id
      BY <3>2 DEF Ids
    <3>4. first \in A
      BY <3>3
    <3>5. evidence \in SUBSET A
      BY <3>4 DEF C2On
    <3> HIDE DEF evidence, executions
    <3> QED
      BY <2>1, <2>2, <3>5, RuleFinds
  <2> QED
    BY <2>3, <2>4
<1>6. Phishing(A) \subseteq Finding
  <2> DEFINE phish == {a \in A : HasTechnique(a, {"T1566"})}
             follow == {a \in A : /\ IsExecution(a)
                             /\ \E p \in phish : /\ a.at >= p.at
                                                 /\ Share(p, a, "user") \/ Share(p, a, "host")}
             met == 1 + Count(follow # {})
  <2>1. Phishing(A) = Hypothesis(phish, "phishing_initial_access", Confidence(met),
                   phish \union follow)
    BY Zenon DEF Phishing
  <2>2. phish \union follow \in SUBSET A /\ met \in Int
    BY <1>2
  <2>3. "phishing_initial_access" \in Names
    BY DEF Names, HostDriven
  <2> HIDE DEF phish, follow, met
  <2> QED
    BY <1>1, <2>1, <2>2, <2>3, RuleFinds
<1>7. Lateral(A) \subseteq Finding
  <2> DEFINE hits == {a \in A : IsLateral(a)}
             met == 1 + Count(LateralEdges(A) # {})
  <2>1. Lateral(A) = Hypothesis(hits, "lateral_movement", Confidence(met), hits)
    BY Zenon DEF Lateral
  <2>2. hits \in SUBSET A /\ met \in Int
    BY <1>2
  <2>3. "lateral_movement" \in Names
    BY DEF Names
  <2> HIDE DEF hits, met
  <2> QED
    BY <1>1, <2>1, <2>2, <2>3, RuleFinds
<1>8. Exfil(A) \subseteq Finding
  <2> DEFINE hits == {a \in A : IsExfil(a)}
             corroborated == \E a \in A : IsC2(a) \/ a.tactics \intersect {"TA0008", "TA0009"} # {}
             met == 1 + Count(corroborated)
  <2>1. Exfil(A) = Hypothesis(hits, "data_exfiltration", Confidence(met), hits)
    BY Zenon DEF Exfil
  <2>2. hits \in SUBSET A
    OBVIOUS
  <2>4. met \in Int
    <3> HIDE DEF corroborated
    <3> QED
      BY DEF Count
  <2>3. "data_exfiltration" \in Names
    BY DEF Names
  <2> HIDE DEF hits, met
  <2> QED
    BY <1>1, <2>1, <2>2, <2>3, <2>4, RuleFinds
<1>9. MultiStage(A) \subseteq Finding
  <2>1. \E causes :
           MultiStage(A) = Hypothesis(causes, "multi_stage_activity", "medium", A)
    BY Zenon DEF MultiStage
  <2>2. "multi_stage_activity" \in Names /\ "medium" \in Confidences
    BY DEF Names, Confidences
  <2> QED
    BY <2>1, <2>2, RuleFinds
<1>10. \A h : h \in Hypotheses(A) <=>
                \/ h \in Ransomware(A) \/ h \in Credential(A) \/ h \in Malware(A)
                \/ h \in Phishing(A) \/ h \in Lateral(A) \/ h \in Exfil(A) \/ h \in MultiStage(A)
  BY DEF Hypotheses
<1> QED
  BY <1>3, <1>4, <1>5, <1>6, <1>7, <1>8, <1>9, <1>10

\* assess: a risk is a score from 0 to 100.
LEMMA RiskIsScore ==
    ASSUME NEW A, Gradable(A), NEW found
    PROVE  Risk(A, found) \in 0..100
<1>1. BasePoints[TopSeverity(A)] \in Nat
  <2>1. TopSeverity(A) \in {0, 1, 2, 3, 4}
    BY TopSeverityIsGreatest
  <2>2. \A r \in {0, 1, 2, 3, 4} : BasePoints[r] \in Nat
    BY DEF BasePoints
  <2> QED
    BY <2>1, <2>2
<1>2. TacticPoints(A) \in Nat
  <2>1. Cardinality(TacticsSeen(A)) \in Nat
    BY FS_CardinalityType DEF Gradable
  <2> QED
    BY <2>1 DEF TacticPoints
<1>3. AssetPoints(A) \in Nat
  BY DEF AssetPoints
<1> DEFINE privileged == Points(PrivilegedUsers(A) # {}, 10)
           known == Points(IocMatches(A) # {}, 15)
           many == Points(Cardinality(A) > Volume, 5)
           encrypted == Points(\E h \in found : h.name = "ransomware", 15)
           high == Points(\E h \in found : h.confidence = "high" /\ h.name # "ransomware", 10)
<1>4. \A b : Points(b, 5) \in {0, 5} /\ Points(b, 10) \in {0, 10} /\ Points(b, 15) \in {0, 15}
  BY Zenon DEF Points
<1>5. privileged \in {0, 10} /\ known \in {0, 15} /\ many \in {0, 5} /\ encrypted \in {0, 15}
         /\ high \in {0, 10}
  BY <1>4, Zenon
<1>6. Score(A, found) = BasePoints[TopSeverity(A)] + TacticPoints(A) + AssetPoints(A)
                           + privileged + known + many + encrypted + high
  BY Zenon DEF Score
<1> HIDE DEF privileged, known, many, encrypted, high
<1>7. Score(A, found) \in Nat
  BY <1>1, <1>2, <1>3, <1>5, <1>6
<1> QED
  BY <1>7 DEF Risk

\* build_incident: an incident is named after one of its alerts, the earliest.
LEMMA IncidentNamed ==
    ASSUME AlertsGraded, NEW group, group \subseteq DOMAIN alerts, group # {}
    PROVE  LET c == Incident(Evidence(group))
           IN  /\ c.id \in group /\ \A n \in group : c.id <= n
               /\ c.id \in Times /\ Ids(c.alerts) = group
               /\ c.alerts = Evidence(group)
               /\ c.hypotheses = Hypotheses(Evidence(group)) /\ c.risk = RiskOf(group)
<1> DEFINE A == Evidence(group)
<1>1. Ids(A) = group
  BY IdsOfEvidence
<1>2. group \in SUBSET Nat /\ group \subseteq Times
  BY DEF AlertsGraded, Times
<1>3. PICK x \in group : \A y \in group : x <= y
  BY <1>2, LeastOf
<1>4. /\ Incident(A).id = CHOOSE n \in Ids(A) : \A m \in Ids(A) : n <= m
      /\ Incident(A).alerts = A
      /\ Incident(A).hypotheses = Hypotheses(A) /\ Incident(A).risk = Risk(A, Hypotheses(A))
  BY DEF Incident
<1>5. /\ Incident(A).id = CHOOSE n \in group : \A m \in group : n <= m
      /\ Incident(A).risk = RiskOf(group)
  BY <1>1, <1>4 DEF RiskOf
<1> QED
  BY <1>1, <1>2, <1>3, <1>4, <1>5

\* correlate: no two incidents of one triage have the same name.
LEMMA CurrentNamed ==
    ASSUME AlertsGraded, NEW period, NEW g \in Groups(period), NEW h \in Groups(period),
           Incident(Evidence(g)).id = Incident(Evidence(h)).id
    PROVE  g = h
<1>1. /\ g # {} /\ g \subseteq DOMAIN alerts /\ h # {} /\ h \subseteq DOMAIN alerts
      /\ g \intersect h # {} => g = h
  BY GroupsPartition DEF Groups, InPeriod
<1>2. Incident(Evidence(g)).id \in g /\ Incident(Evidence(h)).id \in h
  BY <1>1, IncidentNamed
<1> QED
  BY <1>1, <1>2

ActionTyped(x) ==
    /\ x.incident \in Times /\ x.kind \in Kinds /\ x.senior \in BOOLEAN
    /\ x.status \in {"pending_approval", "approved", "manual_only"}
    /\ x.urgency \in {"immediate", "soon", "routine"}

\* recommend: every kind that a rule wants is one of Kinds.
LEMMA WantedKinds ==
    ASSUME NEW c, NEW kt \in Wanted(c)
    PROVE  kt[1] \in Kinds
<1>1. \A S, T : \A e \in S \X T : e[1] \in S
  OBVIOUS
<1>2. kt \in Blocked(c) => kt[1] \in BlockKinds
  BY <1>1 DEF Blocked, BlockKinds
<1>3. kt \in Notices(c) => kt[1] \in ApprovalFreeKinds
  BY <1>1 DEF Notices, ApprovalFreeKinds
<1>4. \/ kt[1] \in AccountKinds \union {"notify_owner"} \/ kt[1] \in HostKinds
      \/ kt[1] = "disable_user" \/ kt[1] = "revoke_sessions"
      \/ kt \in Blocked(c) \/ kt \in Notices(c)
  BY <1>1 DEF Wanted
<1> QED
  BY <1>2, <1>3, <1>4 DEF Kinds, ApprovalFreeKinds, AccountKinds

\* _build: a proposal has the columns of an action.
LEMMA ProposalTyped ==
    ASSUME NEW c, c.id \in Times, NEW kt \in Wanted(c)
    PROVE  ActionTyped(Proposal(c, kt[1], kt[2]))
<1> DEFINE p == Proposal(c, kt[1], kt[2])
<1>1. /\ p.incident = c.id /\ p.kind = kt[1] /\ p.senior = RequiresSenior(kt[1], kt[2])
      /\ p.status = InitialStatus(kt[1], kt[2]) /\ p.urgency = UrgencyOf(c, kt[1], kt[2])
  BY Zenon DEF Proposal
<1>2. kt[1] \in Kinds
  BY WantedKinds
<1>3. RequiresSenior(kt[1], kt[2]) \in BOOLEAN
  BY DEF RequiresSenior
<1>4. InitialStatus(kt[1], kt[2]) \in {"pending_approval", "approved", "manual_only"}
  BY DEF InitialStatus
<1>5. Urgency(c) \in {"immediate", "soon", "routine"}
  BY DEF Urgency
<1>6. UrgencyOf(c, kt[1], kt[2]) \in {"immediate", "soon", "routine"}
  <2>1. CASE kt[1] = "open_ticket"
    BY <2>1 DEF UrgencyOf
  <2>2. CASE kt[1] = "notify_owner"
    BY <2>2 DEF UrgencyOf
  <2>3. CASE kt[1] # "open_ticket" /\ kt[1] # "notify_owner"
    BY <1>5, <2>3 DEF UrgencyOf
  <2> QED
    BY <2>1, <2>2, <2>3
<1> HIDE DEF p
<1>7. ActionTyped(p)
  BY <1>1, <1>2, <1>3, <1>4, <1>6 DEF ActionTyped
<1> QED
  BY <1>7 DEF p

\* save_recommendations: what is stored of a proposal is the proposal with, at most,
\* the status of a stored action of its key.
LEMMA RecommendedIs ==
    ASSUME NEW c, NEW kt
    PROVE  LET p == Proposal(c, kt[1], kt[2])
           IN  /\ Key(Recommended(p)) = Key(p)
               /\ \/ Recommended(p) = p
                  \/ \E x \in actions : Recommended(p) = [p EXCEPT !.status = x.status]
<1> DEFINE p == Proposal(c, kt[1], kt[2])
           stored == {x \in actions : Key(x) = Key(p)}
<1>1. Recommended(p) = IF stored = {} THEN p
                       ELSE [p EXCEPT !.status = (CHOOSE x \in stored : TRUE).status]
  BY DEF Recommended
<1>2. \/ Recommended(p) = p
      \/ \E x \in actions : Recommended(p) = [p EXCEPT !.status = x.status]
  <2>1. CASE stored = {}
    BY <1>1, <2>1
  <2>2. CASE stored # {}
    <3> DEFINE old == CHOOSE x \in stored : TRUE
    <3>1. old \in stored
      BY <2>2
    <3>2. old \in actions
      BY <3>1
    <3>3. Recommended(p) = [p EXCEPT !.status = old.status]
      BY <1>1, <2>2
    <3> QED
      BY <3>2, <3>3
  <2> QED
    BY <2>1, <2>2
<1>3. \A s : Key([p EXCEPT !.status = s]) = Key(p)
  BY DEF Key, Proposal
<1> QED
  BY <1>2, <1>3

ActionsTyped ==
    \A x \in actions : ActionTyped(x) /\ \A y \in actions : Key(x) = Key(y) => x = y

\* save_recommendations keeps one row for each key.
LEMMA SaveTypesActions ==
    ASSUME RankInv, ActionsTyped, NEW period, NEW current,
           current = {Incident(A) : A \in {Evidence(g) : g \in Groups(period)}},
           Save(current, UNION {Proposals(c) : c \in current})
    PROVE  ActionsTyped'
<1> DEFINE proposals == UNION {Proposals(c) : c \in current}
           kept == {x \in actions : \A y \in proposals : Key(x) # Key(y)}
<1>1. actions' = kept \union {Recommended(y) : y \in proposals}
  BY DEF Save
<1>2. \A p \in proposals : \E c \in current : \E kt \in Wanted(c) : p = Proposal(c, kt[1], kt[2])
  BY DEF Proposals
<1>3. ASSUME NEW c \in current
      PROVE  c.id \in Times
  <2>1. PICK g \in Groups(period) : c = Incident(Evidence(g))
    BY <1>3
  <2>2. g # {} /\ g \subseteq DOMAIN alerts
    BY GroupsPartition DEF Groups, InPeriod
  <2> QED
    BY <2>1, <2>2, IncidentNamed DEF RankInv
<1>4. ASSUME NEW c \in current, NEW d \in current, c.id = d.id
      PROVE  c = d
  <2>1. PICK g \in Groups(period) : c = Incident(Evidence(g))
    BY <1>4
  <2>2. PICK h \in Groups(period) : d = Incident(Evidence(h))
    BY <1>4
  <2> QED
    BY <1>4, <2>1, <2>2, CurrentNamed DEF RankInv
<1>5. ASSUME NEW p \in proposals, NEW q \in proposals, Key(p) = Key(q)
      PROVE  p = q
  <2>1. PICK c, kt : /\ c \in current /\ kt \in Wanted(c)
                       /\ p = Proposal(c, kt[1], kt[2])
    BY <1>2
  <2>2. PICK d, lu : /\ d \in current /\ lu \in Wanted(d)
                       /\ q = Proposal(d, lu[1], lu[2])
    BY <1>2
  <2>3. Key(p) = <<c.id, kt[1], kt[2]>> /\ Key(q) = <<d.id, lu[1], lu[2]>>
    BY <2>1, <2>2 DEF Key, Proposal
  <2>4. c.id = d.id /\ kt[1] = lu[1] /\ kt[2] = lu[2]
    <3>1. <<c.id, kt[1], kt[2]>> = <<d.id, lu[1], lu[2]>>
      BY <1>5, <2>3, Zenon
    <3> QED
      BY <3>1, Zenon
  <2> QED
    BY <1>4, <2>1, <2>2, <2>4
<1>6. ASSUME NEW p \in proposals
      PROVE  ActionTyped(Recommended(p)) /\ Key(Recommended(p)) = Key(p)
  <2>1. PICK c, kt : /\ c \in current /\ kt \in Wanted(c)
                       /\ p = Proposal(c, kt[1], kt[2])
    BY <1>2
  <2>2. ActionTyped(p)
    BY <1>3, <2>1, ProposalTyped
  <2>3. \A x \in actions : ActionTyped([p EXCEPT !.status = x.status])
    <3> SUFFICES ASSUME NEW x \in actions PROVE ActionTyped([p EXCEPT !.status = x.status])
      OBVIOUS
    <3> DEFINE r == [p EXCEPT !.status = x.status]
    <3>1. x.status \in {"pending_approval", "approved", "manual_only"}
      BY DEF ActionsTyped, ActionTyped
    <3>2. /\ r.incident = p.incident /\ r.kind = p.kind /\ r.senior = p.senior
          /\ r.status = x.status /\ r.urgency = p.urgency
      BY <2>1 DEF Proposal
    <3> HIDE DEF r
    <3>3. ActionTyped(r)
      BY <2>2, <3>1, <3>2 DEF ActionTyped
    <3> QED
      BY <3>3 DEF r
  <2>4. /\ Key(Recommended(p)) = Key(p)
        /\ \/ Recommended(p) = p
           \/ \E x \in actions : Recommended(p) = [p EXCEPT !.status = x.status]
    <3>1. LET d == Proposal(c, kt[1], kt[2])
          IN  /\ Key(Recommended(d)) = Key(d)
              /\ \/ Recommended(d) = d
                 \/ \E x \in actions : Recommended(d) = [d EXCEPT !.status = x.status]
      BY RecommendedIs
    <3> QED
      BY <2>1, <3>1, Zenon
  <2> QED
    BY <2>2, <2>3, <2>4, Zenon
<1> HIDE DEF proposals
<1>7. \A x \in actions' : ActionTyped(x)
  BY <1>1, <1>6 DEF ActionsTyped
<1>8. ASSUME NEW x \in actions', NEW y \in actions', Key(x) = Key(y)
      PROVE  x = y
  <2>1. CASE x \in kept /\ y \in kept
    BY <1>8, <2>1 DEF ActionsTyped
  <2>2. CASE x \in kept /\ y \notin kept
    <3>1. PICK q \in proposals : y = Recommended(q)
      BY <1>1, <2>2
    <3> QED
      BY <1>6, <1>8, <2>2, <3>1
  <2>3. CASE x \notin kept /\ y \in kept
    <3>1. PICK p \in proposals : x = Recommended(p)
      BY <1>1, <2>3
    <3> QED
      BY <1>6, <1>8, <2>3, <3>1
  <2>4. CASE x \notin kept /\ y \notin kept
    <3>1. PICK p \in proposals, q \in proposals : x = Recommended(p) /\ y = Recommended(q)
      BY <1>1, <2>4
    <3> QED
      BY <1>5, <1>6, <1>8, <3>1
  <2> QED
    BY <2>1, <2>2, <2>3, <2>4
<1> QED
  BY <1>7, <1>8 DEF ActionsTyped, ActionTyped, Key, Times

TypeInv == RankInv /\ TypeOK

\* A row of the table incidents.
RowTyped(row) ==
    /\ DOMAIN row = DOMAIN NoRow
    /\ row.hypotheses \subseteq Finding
    /\ row.risk \in 0..100
    /\ row.status \in {"open", "closed"}

\* ingest_lines stores an alert under its id only when no other has the id.
LEMMA IngestKeepsTypes ==
    ASSUME TypeInv, NEW record \in Records, NEW n \in Times, Ingest(record, n)
    PROVE  TypeOK'
<1> DEFINE raw == [record EXCEPT !.at = n]
<1>1. RankInv'
  BY IngestKeepsRanks DEF TypeInv
<1>2. DOMAIN feed' \subseteq Times /\ DOMAIN alerts' \subseteq DOMAIN feed'
  BY <1>1 DEF RankInv, AlertsGraded, Times
<1>3. \A k \in DOMAIN feed' : feed'[k] \in Records
  <2>1. feed' = With(feed, n, record)
    BY DEF Ingest
  <2> QED
    BY <2>1 DEF With, TypeInv, TypeOK
<1>4. ASSUME NEW k \in DOMAIN alerts', NEW m \in DOMAIN alerts', alerts'[k].key = alerts'[m].key
      PROVE  k = m
  <2>1. CASE alerts' = alerts
    BY <1>4, <2>1 DEF TypeInv, TypeOK
  <2>2. CASE alerts' # alerts
    <3>1. alerts' = With(alerts, n, Normalized(raw, n))
      BY <2>2 DEF Ingest
    <3>2. \A j \in DOMAIN alerts : alerts[j].key # AlertId(raw)
      BY <2>2 DEF Ingest
    <3>3. Normalized(raw, n).key = AlertId(raw)
      BY DEF Normalized
    <3>4. n \notin DOMAIN alerts
      BY DEF Ingest, TypeInv, RankInv, AlertsGraded
    <3>5. /\ DOMAIN alerts' = DOMAIN alerts \union {n}
          /\ alerts'[n].key = AlertId(raw)
          /\ \A j \in DOMAIN alerts : alerts'[j] = alerts[j]
      BY <3>1, <3>3, <3>4 DEF With
    <3> HIDE DEF raw
    <3> QED
      BY <1>4, <3>2, <3>5 DEF TypeInv, TypeOK
  <2> QED
    BY <2>1, <2>2
<1>5. DOMAIN alerts \subseteq DOMAIN alerts'
  BY DEF Ingest, With
<1>6. incidents' = incidents /\ actions' = actions /\ settled' = Unsettled
  BY DEF Ingest
<1>7. \A i \in Times : incidents'[i].alerts \subseteq DOMAIN alerts'
  BY <1>5, <1>6 DEF TypeInv, TypeOK
<1> QED
  BY <1>2, <1>3, <1>4, <1>6, <1>7 DEF TypeInv, TypeOK, Times, Key

\* upsert and _close_merged store rows.
LEMMA SaveTypesRows ==
    ASSUME TypeInv, NEW period, NEW current, NEW proposals,
           current = {Incident(A) : A \in {Evidence(g) : g \in Groups(period)}},
           Save(current, proposals), NEW i \in Times
    PROVE  RowTyped(incidents'[i])
<1>1. RowTyped(incidents[i])
  BY DEF RowTyped, TypeInv, TypeOK
<1>2. CASE i \in Ids(current)
  <2> DEFINE c == CHOOSE x \in current : x.id = i
  <2>1. c \in current
    BY <1>2 DEF Ids
  <2>2. PICK g \in Groups(period) : c = Incident(Evidence(g))
    BY <2>1
  <2>3. incidents'[i] = Upserted(c)
    BY <1>2 DEF Save, Times
  <2> HIDE DEF c
  <2>4. g # {} /\ g \subseteq DOMAIN alerts
    BY GroupsPartition DEF Groups, InPeriod
  <2>5. c.id \in Times /\ c.hypotheses = Hypotheses(Evidence(g)) /\ c.risk = RiskOf(g)
    BY <2>2, <2>4, IncidentNamed DEF TypeInv, RankInv
  <2>6. c.hypotheses \subseteq Finding
    <3>1. Ids(Evidence(g)) \subseteq Times
      BY <2>4, IdsOfEvidence DEF TypeInv, RankInv, AlertsGraded
    <3> QED
      BY <2>5, <3>1, HypothesesAreFindings
  <2>7. c.risk \in 0..100
    BY <2>4, <2>5, EvidenceIsGradable, RiskIsScore DEF RiskOf, TypeInv, RankInv
  <2>8. incidents[c.id].status \in {"open", "closed"}
    BY <2>5 DEF TypeInv, TypeOK
  <2>9. /\ DOMAIN Upserted(c) = DOMAIN NoRow
        /\ Upserted(c).hypotheses = c.hypotheses /\ Upserted(c).risk = c.risk
        /\ Upserted(c).status \in {"open", incidents[c.id].status}
    BY DEF Upserted, NoRow
  <2> QED
    BY <2>3, <2>6, <2>7, <2>8, <2>9 DEF RowTyped
<1>3. CASE i \notin Ids(current)
  <2>1. \/ incidents'[i] = [incidents[i] EXCEPT !.status = "closed"]
        \/ incidents'[i] = incidents[i]
    BY <1>3 DEF Save, Times
  <2> DEFINE closed == [incidents[i] EXCEPT !.status = "closed"]
  <2>2. /\ "status" \in DOMAIN incidents[i] /\ "risk" \in DOMAIN incidents[i]
        /\ "hypotheses" \in DOMAIN incidents[i]
    BY <1>1 DEF RowTyped, NoRow
  <2>3. /\ DOMAIN closed = DOMAIN incidents[i] /\ closed.status = "closed"
        /\ closed.risk = incidents[i].risk /\ closed.hypotheses = incidents[i].hypotheses
    BY <2>2
  <2> HIDE DEF closed
  <2>4. RowTyped(closed)
    BY <1>1, <2>3 DEF RowTyped
  <2> QED
    BY <1>1, <2>1, <2>4 DEF closed
<1> QED
  BY <1>2, <1>3

\* triage stores one row for each incident and for each action.
LEMMA TriageKeepsTypes ==
    ASSUME TypeInv, NEW period \in Periods, Triage(period)
    PROVE  TypeOK'
<1> DEFINE current == {Incident(A) : A \in {Evidence(g) : g \in Groups(period)}}
<1>1. RankInv'
  BY TriageKeepsRanks DEF TypeInv
<1>2. /\ Save(current, UNION {Proposals(c) : c \in current})
      /\ alerts' = alerts /\ feed' = feed /\ settled' = period
  BY DEF Triage
<1> HIDE DEF current
<1>3. ActionsTyped'
  <2>1. ActionsTyped
    BY DEF TypeInv, TypeOK, ActionsTyped, ActionTyped
  <2> QED
    BY <1>2, <2>1, SaveTypesActions DEF TypeInv, current
<1>4. \A i \in Times : RowTyped(incidents'[i])
  BY <1>2, SaveTypesRows DEF current
<1>5. \A i \in Times : incidents'[i].alerts \subseteq DOMAIN alerts'
  BY <1>1 DEF RankInv, IncidentsGraded, Times
<1>6. DOMAIN incidents' = Times
  BY <1>2 DEF Save
<1>7. /\ DOMAIN feed' \subseteq Times /\ DOMAIN alerts' \subseteq DOMAIN feed'
      /\ \A k \in DOMAIN feed' : feed'[k] \in Records
      /\ \A k, m \in DOMAIN alerts' : alerts'[k].key = alerts'[m].key => k = m
  BY <1>2 DEF TypeInv, TypeOK
<1>8. settled' \in Periods \union {Unsettled}
  BY <1>2
<1> QED
  BY <1>3, <1>4, <1>5, <1>6, <1>7, <1>8
     DEF TypeOK, ActionsTyped, ActionTyped, RowTyped, Times, Key, NoRow, Unsettled

\* Empty tables hold nothing of a wrong type.
LEMMA TypeInit == Init => TypeInv
<1> SUFFICES ASSUME Init PROVE TypeInv
  OBVIOUS
<1>1. RankInv
  BY DEF Init, RankInv, AlertsGraded, IncidentsGraded, IncidentsAreRows, Stored, NoRow
<1>2. RowTyped(NoRow)
  BY DEF RowTyped, NoRow
<1>3. \A i \in Times : incidents[i] = NoRow
  BY DEF Init
<1>4. TypeOK
  BY <1>1, <1>2, <1>3 DEF Init, TypeOK, RowTyped, RankInv, AlertsGraded, IncidentsGraded
<1> QED
  BY <1>1, <1>4 DEF TypeInv

\* Every step keeps rows and keys.
LEMMA TypeStep == TypeInv /\ [Next]_vars => TypeInv'
<1> SUFFICES ASSUME TypeInv, [Next]_vars PROVE TypeInv'
  OBVIOUS
<1>1. RankInv'
  BY RankStep DEF TypeInv
<1>2. CASE UNCHANGED vars
  <2>1. /\ feed' = feed /\ alerts' = alerts /\ incidents' = incidents
        /\ actions' = actions /\ settled' = settled
    BY <1>2 DEF vars
  <2>2. TypeOK' <=> TypeOK
    BY <2>1 DEF TypeOK, Times, Key, Finding, NoRow, Unsettled
  <2> QED
    BY <1>1, <2>2 DEF TypeInv
<1> QED
  BY <1>1, <1>2, IngestKeepsTypes, TriageKeepsTypes DEF Next, TypeInv

\* The tables always hold one row for each key: no two stored alerts have the same id,
\* no two actions the same incident, kind and target, and every row is one that its
\* type allows, in any state of any run.
THEOREM TypesCorrect == Spec => []TypeOK
  BY TypeInit, TypeStep, PTL DEF Spec, TypeInv

(***************************************************************************)
(* What sources report and what is stored of it.                           *)
(***************************************************************************)
\* Stored alerts name what their records do.
AlertsFromFeed == \A n \in DOMAIN alerts : alerts[n].entities = EntitiesOf(feed[n])

ReportInv == TypeInv /\ AlertsFromFeed

\* ingest_lines and triage keep each stored alert with its record.
LEMMA ReportStep == ReportInv /\ [Next]_vars => ReportInv'
<1> SUFFICES ASSUME ReportInv, [Next]_vars PROVE ReportInv'
  OBVIOUS
<1>1. TypeInv'
  BY TypeStep DEF ReportInv
<1>2. CASE alerts' = alerts /\ feed' = feed
  BY <1>1, <1>2 DEF ReportInv, AlertsFromFeed
<1>3. ASSUME NEW record \in Records, NEW n \in Times, Ingest(record, n)
      PROVE  ReportInv'
  <2> DEFINE raw == [record EXCEPT !.at = n]
  <2>1. raw.source = record.source /\ raw.fields = record.fields /\ raw.listed = record.listed
    BY PipelineAssumption DEF PipelineAssumption
  <2>2. EntitiesOf(raw) = EntitiesOf(record)
    <3> HIDE DEF raw
    <3>1. \A f, v : /\ SplunkTypes(raw, f, v) = SplunkTypes(record, f, v)
                    /\ SentinelTypes(raw, f, v) = SentinelTypes(record, f, v)
                    /\ CrowdstrikeTypes(raw, f, v) = CrowdstrikeTypes(record, f, v)
                    /\ ElasticTypes(raw, f, v) = ElasticTypes(record, f, v)
      BY <2>1 DEF SplunkTypes, SentinelTypes, CrowdstrikeTypes, ElasticTypes
    <3>2. \A f, v : FieldTypes(raw, f, v) = FieldTypes(record, f, v)
      BY <2>1, <3>1 DEF FieldTypes
    <3> DEFINE Of(r, fv) == UNION {Collected(k, fv[2]) : k \in FieldTypes(r, fv[1], fv[2])}
    <3>3. \A fv : Of(raw, fv) = Of(record, fv)
      BY <3>2
    <3>4. \A r : EntitiesOf(r) = IF r.source = "generic" THEN r.fields
                                 ELSE UNION {Of(r, fv) : fv \in r.fields}
      BY DEF EntitiesOf
    <3> HIDE DEF Of
    <3>5. {Of(raw, fv) : fv \in raw.fields} = {Of(record, fv) : fv \in record.fields}
      BY <2>1, <3>3
    <3> QED
      BY <2>1, <3>4, <3>5
  <2>3. n \notin DOMAIN feed /\ feed' = With(feed, n, record)
    BY <1>3 DEF Ingest
  <2>4. feed'[n] = record /\ \A k \in DOMAIN feed : feed'[k] = feed[k]
    BY <2>3 DEF With
  <2>5. \/ alerts' = alerts
        \/ alerts' = With(alerts, n, Normalized(raw, n))
    BY <1>3 DEF Ingest
  <2>6. Normalized(raw, n).entities = EntitiesOf(record)
    BY <2>2 DEF Normalized
  <2>7. DOMAIN alerts \subseteq DOMAIN feed
    BY DEF ReportInv, TypeInv, TypeOK
  <2> HIDE DEF raw
  <2>8. ASSUME NEW k \in DOMAIN alerts' PROVE alerts'[k].entities = EntitiesOf(feed'[k])
    <3>1. CASE k \in DOMAIN alerts
      <4>1. alerts'[k] = alerts[k] /\ feed'[k] = feed[k]
        BY <2>3, <2>4, <2>5, <2>7, <3>1 DEF With
      <4> QED
        BY <3>1, <4>1 DEF ReportInv, AlertsFromFeed
    <3>2. CASE k \notin DOMAIN alerts
      <4>1. k = n /\ alerts'[n] = Normalized(raw, n)
        BY <2>5, <3>2 DEF With
      <4> QED
        BY <2>4, <2>6, <4>1
    <3> QED
      BY <3>1, <3>2
  <2> QED
    BY <1>1, <2>8 DEF ReportInv, AlertsFromFeed
<1>4. ASSUME NEW period \in Periods, Triage(period)
      PROVE  alerts' = alerts /\ feed' = feed
  BY <1>4 DEF Triage
<1>5. UNCHANGED vars => alerts' = alerts /\ feed' = feed
  BY DEF vars
<1> QED
  BY <1>2, <1>3, <1>4, <1>5 DEF Next

\* At first nothing is stored.
LEMMA ReportInit == Init => ReportInv
  BY TypeInit DEF Init, ReportInv, AlertsFromFeed

(***************************************************************************)
(* One address, one incident.                                              *)
(***************************************************************************)
\* Alerts of the period that share what is neither noise nor a hub are in one incident.
SameEntityTogether(period) ==
    \A m, n \in InPeriod(period) :
        /\ m < n /\ n - m <= Window
        /\ \E e \in alerts[m].entities \intersect alerts[n].entities :
              e \notin Noise /\ ~Hub(e, period)
        => \E i \in Times : {m, n} \subseteq incidents[i].alerts

\* correlate: such alerts are in one group, which is not suppressed.
LEMMA SharingGroup ==
    ASSUME TypeInv, NEW period, NEW m \in InPeriod(period), NEW n \in InPeriod(period),
           m < n, n - m <= Window,
           NEW e, e \in alerts[m].entities, e \in alerts[n].entities,
           e \notin Noise, ~Hub(e, period)
    PROVE  \E g \in Groups(period) : {m, n} \subseteq g
<1> DEFINE A == InPeriod(period)
           times == [k \in DOMAIN alerts |-> k]
           keys == [k \in DOMAIN alerts |-> alerts[k].entities]
           pairs == RelatedPairs(A, times, keys)
           g == Component(m, A, pairs)
<1>1. A \subseteq DOMAIN alerts /\ A \subseteq Times
  BY DEF InPeriod, TypeInv, TypeOK
<1>2. Ordered(A, times)
  BY <1>1 DEF Ordered, Times
<1>3. e \in Linking(A, keys)
  <2>1. Naming(A, keys, e) = {k \in A : e \in alerts[k].entities}
    BY <1>1 DEF Naming
  <2>2. Cardinality(Naming(A, keys, e)) <= MaxDegree
    <3>1. IsFiniteSet(Times)
      BY FS_Interval, PipelineAssumption DEF Times, PipelineAssumption
    <3>2. Naming(A, keys, e) \in SUBSET Times
      BY <1>1, <2>1
    <3>3. IsFiniteSet(Naming(A, keys, e))
      BY <3>1, <3>2, FS_Subset
    <3>4. Cardinality(Naming(A, keys, e)) \in Nat
      BY <3>3, FS_CardinalityType
    <3>5. ~ (Cardinality(Naming(A, keys, e)) > MaxDegree)
      BY <2>1 DEF Hub
    <3> HIDE DEF A, keys
    <3> QED
      BY <3>4, <3>5, CorrelationAssumption DEF CorrelationAssumption
  <2>3. e \in UNION {keys[k] : k \in A}
    BY <1>1
  <2> QED
    BY <2>2, <2>3 DEF Linking
<1>4. <<m, n>> \in pairs
  BY <1>1, <1>3 DEF RelatedPairs
<1>5. m \in g /\ n \in g
  BY <1>4 DEF Component, Closed
<1>6. g \in Correlate(A, times, keys)
  <2>1. g \in Components(A, pairs)
    BY DEF Components
  <2> QED
    BY <1>2, <2>1, NeighboursSuffice
<1>7. IsFiniteSet(g)
  <2>1. IsFiniteSet(Times)
    BY FS_Interval, PipelineAssumption DEF Times, PipelineAssumption
  <2>2. g \in SUBSET Times
    BY <1>1 DEF Component
  <2> QED
    BY <2>1, <2>2, FS_Subset
<1>8. m # n
  BY <1>1 DEF Times
<1> HIDE DEF g
<1>9. Cardinality(g) > 1
  <2>1. IsFiniteSet({m}) /\ Cardinality({m}) = 1
    BY FS_Singleton
  <2>2. IsFiniteSet({m, n}) /\ Cardinality({m, n}) = 2
    <3>1. n \notin {m} /\ {m} \union {n} = {m, n}
      BY <1>8
    <3>2. IsFiniteSet({m} \union {n}) /\ Cardinality({m} \union {n}) = Cardinality({m}) + 1
      BY <2>1, <3>1, FS_AddElement, Zenon
    <3> QED
      BY <2>1, <3>1, <3>2
  <2>3. {m, n} \in SUBSET g
    BY <1>5
  <2>4. Cardinality({m, n}) <= Cardinality(g)
    BY <1>7, <2>3, FS_Subset, Zenon
  <2>5. Cardinality(g) \in Nat
    BY <1>7, FS_CardinalityType, Zenon
  <2> QED
    BY <2>2, <2>4, <2>5
<1>10. g \in Groups(period)
  BY <1>6, <1>9 DEF Groups
<1> QED
  BY <1>5, <1>10

\* upsert stores every group of the triage as the alerts of an incident.
LEMMA GroupsAreStored ==
    ASSUME TypeInv, NEW period \in Periods, Triage(period), NEW g \in Groups(period)
    PROVE  \E i \in Times : incidents'[i].alerts = g
<1> DEFINE current == {Incident(A) : A \in {Evidence(h) : h \in Groups(period)}}
           c == Incident(Evidence(g))
<1>1. g # {} /\ g \subseteq DOMAIN alerts
  BY GroupsPartition DEF Groups, InPeriod
<1>2. c \in current
  OBVIOUS
<1>3. c.id \in Times /\ Ids(c.alerts) = g
  BY <1>1, IncidentNamed DEF TypeInv, RankInv
<1> DEFINE d == CHOOSE x \in current : x.id = c.id
<1>4. d \in current /\ d.id = c.id
  BY <1>2
<1>5. d = c
  <2>1. PICK h \in Groups(period) : d = Incident(Evidence(h))
    BY <1>4
  <2>2. Incident(Evidence(h)).id = Incident(Evidence(g)).id
    BY <1>4, <2>1
  <2>3. h = g
    BY <2>2, CurrentNamed DEF TypeInv, RankInv
  <2> QED
    BY <2>1, <2>3
<1>6. c.id \in Ids(current)
  BY <1>2 DEF Ids
<1>7. incidents'[c.id] = Upserted(c)
  <2>1. Save(current, UNION {Proposals(x) : x \in current})
    BY DEF Triage
  <2> HIDE DEF current, c
  <2>2. incidents'[c.id] = Upserted(d)
    BY <1>3, <1>6, <2>1 DEF Save
  <2> QED
    BY <1>5, <2>2
<1>8. incidents'[c.id].alerts = g
  BY <1>3, <1>7 DEF Upserted
<1> QED
  BY <1>3, <1>8

\* triage leaves no two such alerts apart.
LEMMA TriageTogether ==
    ASSUME TypeInv, NEW period \in Periods, Triage(period)
    PROVE  SameEntityTogether(period)'
<1>1. alerts' = alerts
  BY DEF Triage
<1>2. /\ InPeriod(period)' = InPeriod(period)
      /\ \A e : Hub(e, period)' <=> Hub(e, period)
  BY <1>1 DEF InPeriod, Hub
<1> SUFFICES ASSUME NEW m \in InPeriod(period), NEW n \in InPeriod(period),
                    m < n, n - m <= Window,
                    NEW e \in alerts[m].entities \intersect alerts[n].entities,
                    e \notin Noise, ~Hub(e, period)
             PROVE  \E i \in Times : {m, n} \subseteq incidents'[i].alerts
  BY <1>1, <1>2 DEF SameEntityTogether, Times
<1>3. PICK g \in Groups(period) : {m, n} \subseteq g
  BY SharingGroup
<1>4. PICK i \in Times : incidents'[i].alerts = g
  BY GroupsAreStored
<1> QED
  BY <1>3, <1>4

TogetherInv == ReportInv /\ (settled # Unsettled => SameEntityTogether(settled))

\* Every step leaves what is together so, or is not a triage.
LEMMA TogetherStep == TogetherInv /\ [Next]_vars => TogetherInv'
<1> SUFFICES ASSUME TogetherInv, [Next]_vars PROVE TogetherInv'
  OBVIOUS
<1>1. ReportInv'
  BY ReportStep DEF TogetherInv
<1>2. CASE UNCHANGED vars
  <2>1. /\ alerts' = alerts /\ incidents' = incidents /\ settled' = settled
    BY <1>2 DEF vars
  <2>2. (settled # Unsettled => SameEntityTogether(settled))'
    <3>1. InPeriod(settled)' = InPeriod(settled) /\ Unsettled' = Unsettled
      BY <2>1 DEF InPeriod, Unsettled
    <3>2. \A e : Hub(e, settled)' <=> Hub(e, settled)
      BY <2>1, <3>1 DEF Hub
    <3> QED
      BY <2>1, <3>1, <3>2 DEF TogetherInv, SameEntityTogether, Times
  <2> QED
    BY <1>1, <2>2 DEF TogetherInv
<1>3. ASSUME NEW record \in Records, NEW n \in Times, Ingest(record, n)
      PROVE  TogetherInv'
  BY <1>1, <1>3 DEF Ingest, TogetherInv, Unsettled
<1>4. ASSUME NEW period \in Periods, Triage(period)
      PROVE  TogetherInv'
  <2>1. SameEntityTogether(period)'
    BY <1>4, TriageTogether DEF TogetherInv, ReportInv
  <2>2. settled' = period
    BY <1>4 DEF Triage
  <2>3. SameEntityTogether(settled)'
    <3>1. InPeriod(settled)' = InPeriod(period)'
      BY <2>2 DEF InPeriod
    <3>2. \A e : Hub(e, settled)' <=> Hub(e, period)'
      BY <2>2, <3>1 DEF Hub
    <3> QED
      BY <2>1, <3>1, <3>2 DEF SameEntityTogether
  <2> QED
    BY <1>1, <2>3 DEF TogetherInv
<1> QED
  BY <1>2, <1>3, <1>4 DEF Next

\* normalizers.py: an address that is the one text of a field for addresses becomes an
\* entity, in its canonical form.
LEMMA AddressesCollected ==
    ASSUME NEW r \in Records, NEW fv \in r.fields, fv[1] \in AddressFields[r.source],
           fv[1] \notin r.listed, NEW ip \in IF r.source = "generic" THEN {fv[2]} ELSE Canonical["ip"][fv[2]]
    PROVE  <<"ip", ip>> \in EntitiesOf(r)
<1>1. r.source \in {"splunk", "sentinel", "crowdstrike", "elastic", "generic"}
  BY PipelineAssumption DEF PipelineAssumption, AddressFields
<1>2. fv = <<fv[1], fv[2]>>
  BY PipelineAssumption DEF PipelineAssumption
<1>3. CASE r.source = "generic"
  <2>1. fv[1] = "ip" /\ ip = fv[2]
    BY <1>3 DEF AddressFields
  <2> QED
    BY <1>2, <1>3, <2>1 DEF EntitiesOf
<1>4. CASE r.source # "generic"
  <2>1. ip \in Canonical["ip"][fv[2]] /\ IsIp(fv[2])
    BY <1>4 DEF IsIp
  <2>2. "ip" \in FieldTypes(r, fv[1], fv[2])
    <3>1. CASE r.source = "splunk"
      BY <2>1, <3>1 DEF FieldTypes, SplunkTypes, AddressFields, EntityTypes
    <3>2. CASE r.source = "sentinel"
      BY <3>2 DEF FieldTypes, SentinelTypes, AddressFields, EntityTypes
    <3>3. CASE r.source = "crowdstrike"
      BY <3>3 DEF FieldTypes, CrowdstrikeTypes, AddressFields, EntityTypes
    <3>4. CASE r.source = "elastic"
      BY <3>4 DEF FieldTypes, ElasticTypes, AddressFields, EntityTypes
    <3> QED
      BY <1>1, <1>4, <3>1, <3>2, <3>3, <3>4
  <2>3. <<"ip", ip>> \in Collected("ip", fv[2])
    BY <2>1 DEF Collected
  <2> QED
    BY <1>4, <2>2, <2>3 DEF EntitiesOf
<1> QED
  BY <1>3, <1>4

\* A triage never leaves two alerts of one period, close in time, in two incidents if their
\* sources report one address, each as the text of a field of AddressFields, unless it is
\* noise or a hub: for every set of records, in whatever spelling.
THEOREM AddressesStayTogether == Spec => []SameAddressTogether
<1>1. Init => TogetherInv
  BY ReportInit DEF Init, TogetherInv
<1>2. TogetherInv /\ [Next]_vars => TogetherInv'
  BY TogetherStep
<1>3. TogetherInv => SameAddressTogether
  <2> SUFFICES ASSUME TogetherInv, settled # Unsettled,
                      NEW m \in InPeriod(settled), NEW n \in InPeriod(settled),
                      m < n, n - m <= Window,
                      NEW ip \in Addresses(m) \intersect Addresses(n),
                      <<"ip", ip>> \notin Noise, ~Hub(<<"ip", ip>>, settled)
               PROVE  \E i \in Times : {m, n} \subseteq incidents[i].alerts
    BY DEF SameAddressTogether
  <2>1. ASSUME NEW k \in DOMAIN alerts, ip \in Addresses(k)
        PROVE  <<"ip", ip>> \in alerts[k].entities
    <3>1. feed[k] \in Records
      BY <2>1 DEF TogetherInv, ReportInv, TypeInv, TypeOK
    <3>2. PICK fv \in feed[k].fields :
             /\ fv[1] \in AddressFields[feed[k].source] /\ fv[1] \notin feed[k].listed
             /\ ip \in IF feed[k].source = "generic" THEN {fv[2]} ELSE Canonical["ip"][fv[2]]
      BY <2>1 DEF Addresses
    <3>3. <<"ip", ip>> \in EntitiesOf(feed[k])
      BY <3>1, <3>2, AddressesCollected
    <3> QED
      BY <3>3 DEF TogetherInv, ReportInv, AlertsFromFeed
  <2>2. m \in DOMAIN alerts /\ n \in DOMAIN alerts
    BY DEF InPeriod
  <2>3. <<"ip", ip>> \in alerts[m].entities \intersect alerts[n].entities
    BY <2>1, <2>2
  <2>4. SameEntityTogether(settled)
    BY DEF TogetherInv
  <2> QED
    BY <2>3, <2>4 DEF SameEntityTogether
<1> QED
  BY <1>1, <1>2, <1>3, PTL DEF Spec

(***************************************************************************)
(* Guardrails in every spelling.                                           *)
(***************************************************************************)
\* The target of each guarded action is named by a stored alert.
TargetsReported ==
    \A x \in actions :
        x.kind \in GuardedKinds => \E n \in DOMAIN alerts : x.target \in Named(alerts[n], TargetType(x.kind))

\* EntityBag.add: hosts, accounts and addresses of an alert are canonical forms of what its
\* vendor reported, or are named by a record of the normalised schema.
LEMMA EntitiesAreReported ==
    ASSUME NEW r \in Records, NEW type \in {"host", "user", "ip"},
           NEW e \in EntitiesOf(r), e[1] = type
    PROVE  IF r.source = "generic" THEN <<type, e[2]>> \in r.fields
           ELSE \E fv \in r.fields : e[2] \in Canonical[type][fv[2]]
<1>1. CASE r.source = "generic"
  <2>1. e \in STRING \X RawValues /\ e \in r.fields
    BY <1>1, PipelineAssumption DEF PipelineAssumption, EntitiesOf
  <2>2. e = <<e[1], e[2]>>
    BY <2>1
  <2> QED
    BY <1>1, <2>1, <2>2
<1>2. CASE r.source # "generic"
  <2>1. PICK fv \in r.fields : \E k : k \in FieldTypes(r, fv[1], fv[2])
                                        /\ e \in Collected(k, fv[2])
    BY <1>2 DEF EntitiesOf
  <2>2. PICK k : e \in Collected(k, fv[2])
    BY <2>1
  <2>3. CASE e \in {<<k, c>> : c \in Canonical[k][fv[2]]}
    <3>1. k = type /\ e[2] \in Canonical[type][fv[2]]
      BY <2>3
    <3> QED
      BY <1>2, <3>1
  <2>4. CASE e \notin {<<k, c>> : c \in Canonical[k][fv[2]]}
    <3>1. e[1] = "domain"
      BY <2>2, <2>4 DEF Collected
    <3> QED
      BY <3>1
  <2> QED
    BY <2>3, <2>4
<1> QED
  BY <1>1, <1>2

\* recommend: actions on hosts are for hosts that the incident's alerts name.
LEMMA HostTargetsAreNamed ==
    ASSUME NEW c, NEW kt \in Wanted(c), kt[1] \in HostKinds
    PROVE  kt[2] \in NamedBy(c.alerts, "host")
<1>1. \A S, T : \A e \in S \X T : e[1] \in S /\ e[2] \in T
  OBVIOUS
<1>2. kt \notin Blocked(c)
  BY <1>1 DEF Blocked, HostKinds
<1>3. kt \notin Notices(c)
  BY <1>1 DEF Notices, HostKinds
<1>4. kt[2] \in InfectedHosts(c) \union LateralHosts(c)
  <2>1. \/ kt[1] \in AccountKinds \union {"notify_owner"} \/ kt[1] = "disable_user"
        \/ kt[1] = "revoke_sessions" \/ kt[2] \in InfectedHosts(c) \union LateralHosts(c)
    BY <1>1, <1>2, <1>3 DEF Wanted
  <2> QED
    BY <2>1 DEF HostKinds, AccountKinds
<1>5. \A A, B, kind : A \subseteq B => NamedBy(A, kind) \subseteq NamedBy(B, kind)
  BY DEF NamedBy
<1>6. \A name : EvidenceNames(c, name, "host") \subseteq NamedBy(c.alerts, "host")
  BY <1>5 DEF EvidenceNames
<1>7. InfectedHosts(c) \subseteq NamedBy(c.alerts, "host")
  BY <1>6 DEF InfectedHosts, HostsOf, OrElse, AffectedHosts
<1>8. LateralHosts(c) \subseteq NamedBy(c.alerts, "host")
  <2>1. \A h \in UNION LateralEdges(c.alerts) : \E a \in c.alerts : h \in Named(a, "host")
    BY DEF LateralEdges
  <2> QED
    BY <2>1 DEF LateralHosts, NamedBy
<1> QED
  BY <1>4, <1>7, <1>8

\* recommend: actions on accounts are for accounts that the incident's alerts name.
LEMMA AccountTargetsAreNamed ==
    ASSUME NEW c, NEW kt \in Wanted(c), kt[1] \in AccountKinds
    PROVE  kt[2] \in NamedBy(c.alerts, "user")
<1>1. \A S, T : \A e \in S \X T : e[1] \in S /\ e[2] \in T
  OBVIOUS
<1>2. kt \notin Blocked(c)
  BY <1>1 DEF Blocked, AccountKinds
<1>3. kt \notin Notices(c)
  BY <1>1 DEF Notices, AccountKinds
<1>4. kt \notin HostKinds \X (InfectedHosts(c) \union LateralHosts(c))
  BY <1>1 DEF HostKinds, AccountKinds
<1>5. \/ kt[2] \in CompromisedUsers(c)
      \/ kt[2] \in UsersIf(c, "lateral_movement") \union UsersIf(c, "ransomware")
      \/ kt[2] \in UsersIf(c, "data_exfiltration")
  BY <1>1, <1>2, <1>3, <1>4 DEF Wanted
<1>6. \A A, B, kind : A \subseteq B => NamedBy(A, kind) \subseteq NamedBy(B, kind)
  BY DEF NamedBy
<1>7. \A name : EvidenceNames(c, name, "user") \subseteq NamedBy(c.alerts, "user")
  BY <1>6 DEF EvidenceNames
<1>8. AffectedUsers(c.alerts) \subseteq NamedBy(c.alerts, "user")
  BY DEF AffectedUsers
<1>9. CompromisedUsers(c) \subseteq NamedBy(c.alerts, "user")
  BY <1>7, <1>8 DEF CompromisedUsers, OrElse
<1>10. \A name : UsersIf(c, name) \subseteq NamedBy(c.alerts, "user")
  BY <1>8 DEF UsersIf
<1> QED
  BY <1>5, <1>9, <1>10

\* recommend: addresses to block are named by the incident's alerts.
LEMMA BlockedAreNamed ==
    ASSUME NEW c, NEW kt \in Wanted(c), kt[1] = "block_ip"
    PROVE  kt[2] \in NamedBy(c.alerts, "ip")
<1>1. \A S, T : \A e \in S \X T : e[1] \in S /\ e[2] \in T
  OBVIOUS
<1>2. kt \notin Notices(c)
  BY <1>1 DEF Notices
<1>3. kt \in Blocked(c)
  BY <1>1, <1>2 DEF Wanted, AccountKinds, HostKinds
<1> DEFINE matches == {e[2] : e \in {m \in IocMatches(c.alerts) : m[1] = "ip"}}
<1>4. kt[2] \in matches
  BY <1>1, <1>3 DEF Blocked
<1>5. PICK e \in IocMatches(c.alerts) : e[1] = "ip" /\ e[2] = kt[2]
  BY <1>4
<1>6. PICK a \in c.alerts : e \in a.entities
  BY <1>5 DEF IocMatches
<1> QED
  BY <1>5, <1>6 DEF NamedBy, Named

\* recommend: so each guarded target is named by the incident's alerts.
LEMMA TargetsAreNamed ==
    ASSUME NEW c, NEW kt \in Wanted(c), kt[1] \in GuardedKinds
    PROVE  kt[2] \in NamedBy(c.alerts, TargetType(kt[1]))
<1>1. CASE kt[1] \in HostKinds
  <2>1. TargetType(kt[1]) = "host"
    BY <1>1 DEF TargetType, HostKinds, AccountKinds
  <2> QED
    BY <1>1, <2>1, HostTargetsAreNamed
<1>2. CASE kt[1] \in AccountKinds
  <2>1. TargetType(kt[1]) = "user"
    BY <1>2 DEF TargetType, HostKinds, AccountKinds
  <2> QED
    BY <1>2, <2>1, AccountTargetsAreNamed
<1>3. CASE kt[1] = "block_ip"
  <2>1. TargetType(kt[1]) = "ip"
    BY <1>3 DEF TargetType, HostKinds, AccountKinds
  <2> QED
    BY <1>3, <2>1, BlockedAreNamed
<1> QED
  BY <1>1, <1>2, <1>3 DEF GuardedKinds

GuardInv == ReportInv /\ ActionsFollowPolicy /\ TargetsReported

\* ingest_lines forgets no alert, and so no target.
LEMMA IngestGuards ==
    ASSUME GuardInv, NEW record \in Records, NEW n \in Times, Ingest(record, n)
    PROVE  ActionsFollowPolicy' /\ TargetsReported'
<1>1. actions' = actions
  BY DEF Ingest
<1>2. \A k \in DOMAIN alerts : k \in DOMAIN alerts' /\ alerts'[k] = alerts[k]
  <2>1. n \notin DOMAIN alerts
    BY DEF Ingest, GuardInv, ReportInv, TypeInv, TypeOK
  <2>2. alerts' = alerts \/ \E a : alerts' = With(alerts, n, a)
    BY DEF Ingest
  <2> QED
    BY <2>1, <2>2 DEF With
<1>3. ActionsFollowPolicy'
  BY <1>1 DEF GuardInv, ActionsFollowPolicy
<1>4. TargetsReported'
  BY <1>1, <1>2 DEF GuardInv, TargetsReported
<1> QED
  BY <1>3, <1>4

\* save_recommendations stores guarded actions on what stored alerts name.
LEMMA TriageGuards ==
    ASSUME GuardInv, NEW period \in Periods, Triage(period)
    PROVE  ActionsFollowPolicy' /\ TargetsReported'
<1> DEFINE current == {Incident(A) : A \in {Evidence(g) : g \in Groups(period)}}
           proposals == UNION {Proposals(c) : c \in current}
           kept == {x \in actions : \A y \in proposals : Key(x) # Key(y)}
<1>1. Save(current, proposals)
  BY DEF Triage
<1>2. actions' = kept \union {Recommended(y) : y \in proposals}
  BY <1>1 DEF Save
<1>3. ActionsFollowPolicy'
  BY <1>1, SaveFollowsPolicy DEF GuardInv
<1>4. alerts' = alerts
  BY DEF Triage
<1>5. ASSUME NEW x \in actions', x.kind \in GuardedKinds
      PROVE  \E n \in DOMAIN alerts : x.target \in Named(alerts[n], TargetType(x.kind))
  <2>1. CASE x \in kept
    BY <1>5, <2>1 DEF GuardInv, TargetsReported
  <2>2. CASE x \notin kept
    <3>1. PICK c, kt : /\ c \in current /\ kt \in Wanted(c)
                       /\ x = Recommended(Proposal(c, kt[1], kt[2]))
      BY <1>2, <2>2 DEF Proposals
    <3>2. x.kind = kt[1] /\ x.target = kt[2]
      BY <3>1, RecommendedFollowsPolicy DEF GuardInv
    <3>3. PICK g \in Groups(period) : c = Incident(Evidence(g))
      BY <3>1
    <3>4. c.alerts = Evidence(g)
      BY <3>3 DEF Incident
    <3>5. kt[2] \in NamedBy(Evidence(g), TargetType(x.kind))
      BY <1>5, <3>1, <3>2, <3>4, TargetsAreNamed
    <3>6. PICK n \in g : kt[2] \in Named(alerts[n], TargetType(x.kind))
      BY <3>5 DEF NamedBy, Evidence
    <3>7. n \in DOMAIN alerts
      BY GroupsPartition DEF Groups, InPeriod
    <3> QED
      BY <3>2, <3>6, <3>7
  <2> QED
    BY <2>1, <2>2
<1>6. TargetsReported'
  BY <1>4, <1>5 DEF TargetsReported
<1> QED
  BY <1>3, <1>6

\* Whatever vendors report, and however they spell it: every action on a host, an account or
\* an address that is proposed for automated action aims at an unprotected canonical form,
\* or at what a record of the normalised schema names word for word.
THEOREM VendorTargetsAreGuarded == Spec => []VendorSpellingsAreGuarded
<1>1. Init => GuardInv
  BY ReportInit DEF Init, GuardInv, ActionsFollowPolicy, TargetsReported
<1>2. GuardInv /\ [Next]_vars => GuardInv'
  <2> SUFFICES ASSUME GuardInv, [Next]_vars PROVE GuardInv'
    OBVIOUS
  <2>1. ReportInv'
    BY ReportStep DEF GuardInv
  <2>2. ASSUME NEW record \in Records, NEW n \in Times, Ingest(record, n) PROVE GuardInv'
    BY <2>1, <2>2, IngestGuards DEF GuardInv
  <2>3. ASSUME NEW period \in Periods, Triage(period) PROVE GuardInv'
    BY <2>1, <2>3, TriageGuards DEF GuardInv
  <2>4. CASE UNCHANGED vars
    BY <2>1, <2>4 DEF vars, GuardInv, ActionsFollowPolicy, TargetsReported
  <2> QED
    BY <2>2, <2>3, <2>4 DEF Next
<1>3. GuardInv => VendorSpellingsAreGuarded
  <2> SUFFICES ASSUME GuardInv, NEW x \in actions, x.kind \in GuardedKinds,
                      x.status # "manual_only"
               PROVE  \E n \in DOMAIN alerts :
                         IF feed[n].source = "generic"
                         THEN <<TargetType(x.kind), x.target>> \in feed[n].fields
                         ELSE \E fv \in feed[n].fields :
                                 x.target \in Canonical[TargetType(x.kind)][fv[2]]
                                                 \ ProtectedNames(x.kind)
    BY DEF VendorSpellingsAreGuarded
  <2>1. x.target \notin ProtectedNames(x.kind)
    <3>1. ~Protected(x.kind, x.target)
      BY DEF GuardInv, ActionsFollowPolicy
    <3> QED
      BY <3>1 DEF Protected, ProtectedNames, GuardedKinds, HostKinds, AccountKinds
  <2>2. PICK n \in DOMAIN alerts : x.target \in Named(alerts[n], TargetType(x.kind))
    BY DEF GuardInv, TargetsReported
  <2>3. feed[n] \in Records /\ alerts[n].entities = EntitiesOf(feed[n])
    BY DEF GuardInv, ReportInv, AlertsFromFeed, TypeInv, TypeOK
  <2>4. PICK e \in EntitiesOf(feed[n]) : e[1] = TargetType(x.kind) /\ e[2] = x.target
    BY <2>2, <2>3 DEF Named
  <2>5. TargetType(x.kind) \in {"host", "user", "ip"}
    BY DEF TargetType
  <2> QED
    BY <2>1, <2>3, <2>4, <2>5, EntitiesAreReported
<1> QED
  BY <1>1, <1>2, <1>3, PTL DEF Spec

(***************************************************************************)
(* Repeated triage.  What a triage stores is a fixed point: stored again,  *)
(* it changes nothing.                                                     *)
(***************************************************************************)
Current(period) == {Incident(A) : A \in {Evidence(g) : g \in Groups(period)}}

Proposed(period) == UNION {Proposals(c) : c \in Current(period)}

\* The candidate of that incident.
CandidateOf(current, i) == CHOOSE c \in current : c.id = i

\* upsert and _close_merged would write the rows that are there.
FixedRows(current) ==
    \A i \in Times :
        /\ i \in Ids(current) => incidents[i] = Upserted(CandidateOf(current, i))
        /\ Absorbed(current, i) => incidents[i] = [incidents[i] EXCEPT !.status = "closed"]

\* So would save_recommendations.
FixedActions(proposals) == \A y \in proposals : Recommended(y) \in actions

IncidentsAreTable == incidents = [i \in Times |-> incidents[i]]

Fixed(period) == FixedRows(Current(period)) /\ FixedActions(Proposed(period))

RepeatInv == TypeInv /\ IncidentsAreTable /\ (settled # Unsettled => Fixed(settled))

\* The incidents and proposals of a triage depend on the stored alerts only.
LEMMA SameCurrent ==
    ASSUME alerts' = alerts, NEW period
    PROVE  Current(period)' = Current(period) /\ Proposed(period)' = Proposed(period)
<1>1. InPeriod(period)' = InPeriod(period)
  BY DEF InPeriod
<1>2. Groups(period)' = Groups(period)
  BY <1>1 DEF Groups
<1>3. \A g : Evidence(g)' = Evidence(g)
  BY DEF Evidence
<1>4. Current(period)' = Current(period)
  BY <1>2, <1>3 DEF Current
<1> QED
  BY <1>4 DEF Proposed

\* Triage in these words.
LEMMA TriageSaves ==
    ASSUME NEW period, Triage(period)
    PROVE  /\ Save(Current(period), Proposed(period))
           /\ alerts' = alerts /\ settled' = period
BY DEF Triage, Current, Proposed

\* Every incident of a triage is that of a group, named after one of its alerts.
LEMMA CurrentIs ==
    ASSUME TypeInv, NEW period, NEW c \in Current(period)
    PROVE  c.id \in Times /\ Ids(c.alerts) # {}
<1>1. PICK g \in Groups(period) : c = Incident(Evidence(g))
  BY DEF Current
<1>2. g # {} /\ g \subseteq DOMAIN alerts
  BY GroupsPartition DEF Groups, InPeriod
<1> QED
  BY <1>1, <1>2, IncidentNamed DEF TypeInv, RankInv

\* What upsert has written of an incident it writes again.
LEMMA UpsertedAgain ==
    ASSUME NEW c, Ids(c.alerts) # {}, incidents'[c.id] = Upserted(c)
    PROVE  Upserted(c)' = Upserted(c)
<1>1. PICK st : st = IF Stored(c.id) THEN incidents[c.id].status ELSE "open"
  OBVIOUS
<1>2. Upserted(c) = [alerts |-> Ids(c.alerts), hypotheses |-> c.hypotheses,
                     risk |-> c.risk, status |-> st]
  BY <1>1 DEF Upserted
<1>3. incidents'[c.id].alerts = Ids(c.alerts) /\ incidents'[c.id].status = st
  BY <1>2
<1>4. Upserted(c)' = [alerts |-> Ids(c.alerts), hypotheses |-> c.hypotheses,
                      risk |-> c.risk, status |-> st]
  BY <1>3 DEF Upserted, Stored
<1> QED
  BY <1>2, <1>4

\* Rows that upsert has written it writes again, and what is closed is closed already.
LEMMA SaveFixesRows ==
    ASSUME TypeInv, NEW period, alerts' = alerts, Save(Current(period), Proposed(period))
    PROVE  FixedRows(Current(period))'
<1>0. PICK current : current = Current(period) /\ Current(period)' = current
  BY SameCurrent
<1>1. incidents' = [i \in Times |-> IF i \in Ids(current) THEN Upserted(CandidateOf(current, i))
                                    ELSE IF Absorbed(current, i)
                                         THEN [incidents[i] EXCEPT !.status = "closed"]
                                         ELSE incidents[i]]
  BY <1>0 DEF Save, CandidateOf
<1>2. ASSUME NEW i \in Times, i \in Ids(current)
      PROVE  incidents'[i] = Upserted(CandidateOf(current, i))'
  <2>1. PICK c : c = CandidateOf(current, i)
    OBVIOUS
  <2>2. c \in current /\ c.id = i
    BY <1>2, <2>1 DEF Ids, CandidateOf
  <2>3. Ids(c.alerts) # {}
    BY <1>0, <2>2, CurrentIs
  <2>4. incidents'[i] = Upserted(c)
    BY <1>1, <1>2, <2>1
  <2>5. Upserted(c)' = Upserted(c)
    BY <2>2, <2>3, <2>4, UpsertedAgain
  <2>6. Upserted(CandidateOf(current, i))' = Upserted(c)'
    BY <2>1
  <2> QED
    BY <2>4, <2>5, <2>6
<1>3. ASSUME NEW i \in Times, Absorbed(current, i)'
      PROVE  incidents'[i] = [incidents'[i] EXCEPT !.status = "closed"]
  <2>1. i \notin Ids(current) /\ Stored(i)'
    BY <1>3 DEF Absorbed
  <2>2. PICK c \in current : incidents'[i].alerts \subseteq Ids(c.alerts)
    BY <1>3 DEF Absorbed
  <2>3. \/ incidents'[i] = incidents[i] /\ ~Absorbed(current, i)
        \/ incidents'[i] = [incidents[i] EXCEPT !.status = "closed"]
    BY <1>1, <2>1
  <2>4. DOMAIN incidents[i] = DOMAIN NoRow
    BY DEF TypeInv, TypeOK
  <2>5. incidents'[i].alerts = incidents[i].alerts
    BY <2>3, <2>4 DEF NoRow
  <2>6. Absorbed(current, i)
    BY <2>1, <2>2, <2>5 DEF Absorbed, Stored
  <2>7. incidents'[i] = [incidents[i] EXCEPT !.status = "closed"]
    BY <2>3, <2>6
  <2> QED
    BY <2>7
<1>4. ASSUME NEW i \in Times
      PROVE  /\ i \in Ids(current) => incidents'[i] = Upserted(CandidateOf(current, i))'
             /\ Absorbed(current, i)' => incidents'[i] = [incidents'[i] EXCEPT !.status = "closed"]
  BY <1>2, <1>3
<1> QED
  BY <1>0, <1>4 DEF FixedRows, Times

\* What save_recommendations has written it finds, and keeps.
LEMMA SaveFixesActions ==
    ASSUME TypeInv, TypeInv', NEW period, alerts' = alerts,
           Save(Current(period), Proposed(period))
    PROVE  FixedActions(Proposed(period))'
<1>1. Proposed(period)' = Proposed(period)
  BY SameCurrent
<1> SUFFICES ASSUME NEW y \in Proposed(period)
             PROVE  Recommended(y)' \in actions'
  BY <1>1 DEF FixedActions
<1>2. PICK c, kt : y = Proposal(c, kt[1], kt[2])
  BY DEF Proposed, Proposals
<1> DEFINE r == Recommended(y)
<1>3. r \in actions'
  BY DEF Save
<1>4. /\ Key(r) = Key(y)
      /\ r = y \/ \E x \in actions : r = [y EXCEPT !.status = x.status]
  <2>1. LET p == Proposal(c, kt[1], kt[2])
        IN  /\ Key(Recommended(p)) = Key(p)
            /\ \/ Recommended(p) = p
               \/ \E x \in actions : Recommended(p) = [p EXCEPT !.status = x.status]
    BY RecommendedIs
  <2> QED
    BY <1>2, <2>1, Zenon
<1>5. \A x \in actions' : Key(x) = Key(y) => x = r
  BY <1>3, <1>4 DEF TypeInv, TypeOK, Key
<1>6. {x \in actions' : Key(x) = Key(y)} = {r}
  BY <1>3, <1>4, <1>5
<1>7. Recommended(y)' = [y EXCEPT !.status = r.status]
  <2>1. Recommended(y)' = LET stored == {x \in actions' : Key(x) = Key(y)}
                          IN  IF stored = {} THEN y
                              ELSE [y EXCEPT !.status = (CHOOSE x \in stored : TRUE).status]
    BY DEF Recommended, Key
  <2> HIDE DEF r
  <2> QED
    BY <1>6, <2>1
<1>8. [y EXCEPT !.status = r.status] = r
  <2>1. CASE r = y
    BY <1>2, <2>1 DEF Proposal
  <2>2. CASE \E x \in actions : r = [y EXCEPT !.status = x.status]
    BY <1>2, <2>2 DEF Proposal
  <2> QED
    BY <1>4, <2>1, <2>2
<1> QED
  BY <1>3, <1>7, <1>8

\* A fixed point is stored as it is.
LEMMA FixedStays ==
    ASSUME TypeInv, IncidentsAreTable, NEW period, Fixed(period),
           Save(Current(period), Proposed(period))
    PROVE  incidents' = incidents /\ actions' = actions
<1> DEFINE current == Current(period)
           proposals == Proposed(period)
<1>1. FixedRows(current) /\ FixedActions(proposals) /\ Save(current, proposals)
  BY DEF Fixed
<1> HIDE DEF current
<1>2. ASSUME NEW i \in Times PROVE incidents'[i] = incidents[i]
  <2>1. incidents'[i] = IF i \in Ids(current) THEN Upserted(CHOOSE c \in current : c.id = i)
                        ELSE IF Absorbed(current, i)
                             THEN [incidents[i] EXCEPT !.status = "closed"]
                             ELSE incidents[i]
    BY <1>1 DEF Save
  <2> QED
    BY <1>1, <2>1, Zenon DEF FixedRows, CandidateOf
<1>3. incidents' = [i \in Times |-> incidents'[i]]
  BY <1>1 DEF Save
<1>4. incidents' = incidents
  BY <1>2, <1>3 DEF IncidentsAreTable
<1>5. \A y \in proposals : Key(Recommended(y)) = Key(y)
  <2> SUFFICES ASSUME NEW y \in proposals PROVE Key(Recommended(y)) = Key(y)
    OBVIOUS
  <2>1. PICK c, kt : y = Proposal(c, kt[1], kt[2])
    BY DEF Proposed, Proposals
  <2> QED
    <3>1. LET d == Proposal(c, kt[1], kt[2])
          IN  /\ Key(Recommended(d)) = Key(d)
              /\ \/ Recommended(d) = d
                 \/ \E x \in actions : Recommended(d) = [d EXCEPT !.status = x.status]
      BY RecommendedIs
    <3> QED
      BY <2>1, <3>1, Zenon
<1> HIDE DEF proposals
<1>6. actions' = {x \in actions : \A y \in proposals : Key(x) # Key(y)}
                     \union {Recommended(y) : y \in proposals}
  BY <1>1 DEF Save
<1>7. \A y \in proposals : Recommended(y) \in actions
  BY <1>1 DEF FixedActions
<1>8. ASSUME NEW x \in actions, NEW y \in proposals, Key(x) = Key(y)
      PROVE  x = Recommended(y)
  BY <1>5, <1>7, <1>8 DEF TypeInv, TypeOK
<1>9. actions' = actions
  BY <1>6, <1>7, <1>8
<1> QED
  BY <1>4, <1>9

\* Every triage stores a fixed point, and what is reported later unsettles it.
LEMMA RepeatStep == RepeatInv /\ [Next]_vars => RepeatInv'
<1> SUFFICES ASSUME RepeatInv, [Next]_vars PROVE RepeatInv'
  OBVIOUS
<1>1. TypeInv'
  BY TypeStep DEF RepeatInv
<1>2. CASE UNCHANGED vars
  <2>1. /\ alerts' = alerts /\ incidents' = incidents /\ actions' = actions
        /\ settled' = settled
    BY <1>2 DEF vars
  <2>2. Current(settled)' = Current(settled) /\ Proposed(settled)' = Proposed(settled)
    <3>1. \A period : /\ Current(period)' = Current(period)
                      /\ Proposed(period)' = Proposed(period)
      BY <2>1, SameCurrent
    <3> QED
      BY <2>1, <3>1 DEF Current, Proposed, Groups, InPeriod, Evidence
  <2>3. /\ \A c : Upserted(c)' = Upserted(c)
        /\ \A S, i : Absorbed(S, i)' <=> Absorbed(S, i)
        /\ \A y : Recommended(y)' = Recommended(y)
    BY <2>1 DEF Upserted, Absorbed, Recommended, Stored, Key
  <2>4. Fixed(settled)' <=> Fixed(settled)
    BY <2>1, <2>2, <2>3 DEF Fixed, FixedRows, FixedActions, Times
  <2> QED
    BY <1>1, <2>1, <2>4 DEF RepeatInv, IncidentsAreTable, Times, Unsettled
<1>3. ASSUME NEW record \in Records, NEW n \in Times, Ingest(record, n)
      PROVE  RepeatInv'
  BY <1>1, <1>3 DEF Ingest, RepeatInv, IncidentsAreTable, Times, Unsettled
<1>4. ASSUME NEW period \in Periods, Triage(period)
      PROVE  RepeatInv'
  <2>1. Save(Current(period), Proposed(period)) /\ alerts' = alerts /\ settled' = period
    BY <1>4, TriageSaves
  <2>2. FixedRows(Current(period))' /\ FixedActions(Proposed(period))'
    BY <1>1, <2>1, SaveFixesRows, SaveFixesActions DEF RepeatInv
  <2>3. Fixed(settled)'
    <3>1. Groups(settled)' = Groups(period)'
      BY <2>1 DEF Groups, InPeriod
    <3>2. Current(settled)' = Current(period)'
      BY <3>1 DEF Current
    <3>3. Proposed(settled)' = Proposed(period)'
      BY <3>2 DEF Proposed
    <3> QED
      BY <2>2, <3>2, <3>3 DEF Fixed, FixedRows, FixedActions
  <2>4. IncidentsAreTable'
    BY <2>1 DEF IncidentsAreTable, Save, Times
  <2> QED
    BY <1>1, <2>3, <2>4 DEF RepeatInv
<1> QED
  BY <1>2, <1>3, <1>4 DEF Next

\* A scheduled triage that finds nothing new revises no incident and no action, for
\* every set of records and every policy.
THEOREM RepeatedTriageSettles == Spec => TriageIsRepeatable
<1>1. Init => RepeatInv
  BY TypeInit DEF Init, RepeatInv, IncidentsAreTable, Times
<1>2. RepeatInv /\ [Next]_vars
         => (settled # Unsettled /\ settled' = settled => UNCHANGED <<incidents, actions>>)
  <2> SUFFICES ASSUME RepeatInv, Next, settled # Unsettled, settled' = settled
               PROVE  incidents' = incidents /\ actions' = actions
    BY DEF vars
  <2>1. ~\E record \in Records, n \in Times : Ingest(record, n)
    BY DEF Ingest
  <2>2. PICK period \in Periods : Triage(period)
    BY <2>1 DEF Next
  <2>3. Save(Current(period), Proposed(period)) /\ period = settled
    BY <2>2, TriageSaves
  <2> QED
    BY <2>3, FixedStays DEF RepeatInv
<1> QED
  BY <1>1, <1>2, RepeatStep, PTL DEF Spec, TriageIsRepeatable
==========================================================================
