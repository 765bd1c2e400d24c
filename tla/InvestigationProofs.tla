----------------------- MODULE InvestigationProofs -----------------------
(***************************************************************************)
(* What the investigation concludes from more alerts is at least as grave: *)
(* the risk score is monotone in the set of alerts, for every policy and   *)
(* context.  Every rule adds to the score what its own conditions, which   *)
(* further alerts do not take away, are worth.                             *)
(***************************************************************************)
EXTENDS Investigation, TLAPS, FiniteSetTheorems

\* Alerts of an incident: finitely many, of known severities and finitely many tactics.
Gradable(A) ==
    /\ IsFiniteSet(A) /\ A # {}
    /\ \A a \in A : a.severity \in 0..4
    /\ IsFiniteSet(TacticsSeen(A))

HasRansomware(found) == \E h \in found : h.name = "ransomware"

HasHigh(found) == \E h \in found : h.confidence = "high" /\ h.name # "ransomware"

\* assess: there is a highest severity, which bounds that of every alert.
LEMMA TopSeverityIsGreatest ==
    ASSUME NEW A, Gradable(A)
    PROVE  /\ TopSeverity(A) \in 0..4
           /\ \E a \in A : a.severity = TopSeverity(A)
           /\ \A a \in A : a.severity <= TopSeverity(A)
<1> DEFINE top(r) == /\ \E a \in A : a.severity = r
                     /\ \A a \in A : a.severity <= r
<1>1. \A a \in A : a.severity \in {0, 1, 2, 3, 4}
  BY DEF Gradable
<1>2. \E r \in 0..4 : top(r)
  <2>1. CASE \E a \in A : a.severity = 4
    BY <1>1, <2>1
  <2>2. CASE (\E a \in A : a.severity = 3) /\ ~ (\E a \in A : a.severity = 4)
    BY <1>1, <2>2
  <2>3. CASE (\E a \in A : a.severity = 2) /\ ~ (\E a \in A : a.severity \in {3, 4})
    BY <1>1, <2>3
  <2>4. CASE (\E a \in A : a.severity = 1) /\ ~ (\E a \in A : a.severity \in {2, 3, 4})
    BY <1>1, <2>4
  <2>5. CASE \A a \in A : a.severity = 0
    BY <2>5 DEF Gradable
  <2> QED
    BY <1>1, <2>1, <2>2, <2>3, <2>4, <2>5
<1> QED
  BY <1>2 DEF TopSeverity

\* assess: a higher severity adds more.
LEMMA BasePointsAscend ==
    ASSUME NEW r \in 0..4, NEW s \in 0..4, r <= s
    PROVE  /\ BasePoints[r] \in Int /\ BasePoints[s] \in Int
           /\ BasePoints[r] <= BasePoints[s]
<1>1. /\ BasePoints[0] = 3 /\ BasePoints[1] = 10 /\ BasePoints[2] = 25
      /\ BasePoints[3] = 45 /\ BasePoints[4] = 60
  BY DEF BasePoints
<1>2. r \in {0, 1, 2, 3, 4} /\ s \in {0, 1, 2, 3, 4}
  OBVIOUS
<1> QED
  BY <1>1, <1>2

\* assess: tactics add points by their number, which more alerts do not lower.
LEMMA TacticPointsAscend ==
    ASSUME NEW A, NEW B, A \subseteq B, Gradable(B)
    PROVE  /\ TacticPoints(A) \in Int /\ TacticPoints(B) \in Int
           /\ TacticPoints(A) <= TacticPoints(B)
<1>1. TacticsSeen(A) \in SUBSET TacticsSeen(B)
  BY DEF TacticsSeen
<1>2. /\ IsFiniteSet(TacticsSeen(A))
      /\ Cardinality(TacticsSeen(A)) <= Cardinality(TacticsSeen(B))
  BY <1>1, FS_Subset DEF Gradable
<1>3. Cardinality(TacticsSeen(A)) \in Nat /\ Cardinality(TacticsSeen(B)) \in Nat
  BY <1>2, FS_CardinalityType DEF Gradable
<1> QED
  BY <1>2, <1>3 DEF TacticPoints

\* assess: assets, accounts and indicators stay affected when alerts are added.
LEMMA AffectedGrows ==
    ASSUME NEW A, NEW B, A \subseteq B
    PROVE  /\ CriticalAssets(A) \subseteq CriticalAssets(B)
           /\ PrivilegedUsers(A) \subseteq PrivilegedUsers(B)
           /\ IocMatches(A) \subseteq IocMatches(B)
<1>1. \A kind : NamedBy(A, kind) \subseteq NamedBy(B, kind)
  BY DEF NamedBy
<1> QED
  BY <1>1 DEF CriticalAssets, PrivilegedUsers, IocMatches, AffectedHosts, AffectedUsers

\* assess: the points of a critical asset hide those of a high-criticality one.
LEMMA AssetPointsAscend ==
    ASSUME NEW A, NEW B, A \subseteq B
    PROVE  /\ AssetPoints(A) \in Int /\ AssetPoints(B) \in Int
           /\ AssetPoints(A) <= AssetPoints(B)
  BY AffectedGrows DEF AssetPoints

\* _finding: a rule that applies yields one hypothesis, which counts by its name and its
\* confidence.
LEMMA RuleCounts ==
    ASSUME NEW found, NEW causes, NEW name, NEW confidence, NEW evidence,
           found = Hypothesis(causes, name, confidence, evidence)
    PROVE  /\ HasRansomware(found) <=> causes # {} /\ name = "ransomware"
           /\ HasHigh(found) <=> causes # {} /\ confidence = "high" /\ name # "ransomware"
<1>1. CASE causes = {}
  BY <1>1 DEF HasRansomware, HasHigh, Hypothesis
<1>2. CASE causes # {}
  <2>1. found = {[name |-> name, confidence |-> confidence, evidence |-> Ids(evidence)]}
    BY <1>2 DEF Hypothesis
  <2>2. \A h \in found : h.name = name /\ h.confidence = confidence
    BY <2>1
  <2>3. found # {}
    BY <2>1
  <2> QED
    BY <1>2, <2>2, <2>3 DEF HasRansomware, HasHigh
<1> QED
  BY <1>1, <1>2

\* _ransomware: one alert about encryption or deleted backups is enough.
LEMMA RansomwareGrows ==
    ASSUME NEW A, NEW B, A \subseteq B
    PROVE  /\ HasRansomware(Ransomware(A)) => HasRansomware(Ransomware(B))
           /\ ~HasHigh(Ransomware(A))
<1> DEFINE hits(S) == {a \in S : HasTechnique(a, {"T1486", "T1490"})}
           both(S) == /\ \E a \in hits(S) : HasTechnique(a, {"T1486"})
                      /\ \E a \in hits(S) : HasTechnique(a, {"T1490"})
           confidence(S) ==
               IF both(S) \/ Cardinality(hits(S)) > 1 THEN "high" ELSE "medium"
<1>1. \A S : /\ HasRansomware(Ransomware(S)) <=> hits(S) # {}
             /\ ~HasHigh(Ransomware(S))
  <2>1. \A S : Ransomware(S) =
                 Hypothesis(hits(S), "ransomware", confidence(S), hits(S))
    BY Zenon DEF Ransomware
  <2> HIDE DEF hits, confidence
  <2> QED
    BY <2>1, RuleCounts
<1>2. hits(A) \subseteq hits(B)
  OBVIOUS
<1> QED
  BY <1>1, <1>2

\* _credential: attacks, and what makes one of them succeed, are still found.
LEMMA CredentialGrows ==
    ASSUME NEW A, NEW B, A \subseteq B
    PROVE  /\ ~HasRansomware(Credential(A))
           /\ HasHigh(Credential(A)) => HasHigh(Credential(B))
<1> DEFINE attacks(S) == {a \in S : IsBruteForce(a)}
           successes(S) == {a \in S : IsSuccess(a)
                                         \/ (HasTechnique(a, {"T1078"}) /\ ~IsBruteForce(a))}
           anomalies(S) == {a \in S : "anomaly" \in a.words}
           confirmed(S) == {s \in successes(S) :
                               \E a \in attacks(S) : s.at >= a.at /\ Share(a, s, "user")}
           followed(S) == confirmed(S) # {} \/ (anomalies(S) # {} /\ successes(S) # {})
           confidence(S) == Confidence(Count(attacks(S) # {}) + Count(followed(S)))
           causes(S) == attacks(S) \union anomalies(S)
           evidence(S) == attacks(S) \union confirmed(S) \union anomalies(S)
<1>1. \A S : confidence(S) = "high" <=> attacks(S) # {} /\ followed(S)
  <2>1. \A b, c \in BOOLEAN : Confidence(Count(b) + Count(c)) = "high" <=> b /\ c
    BY DEF Confidence, Count
  <2> HIDE DEF attacks, followed
  <2>2. \A S : (attacks(S) # {}) \in BOOLEAN /\ followed(S) \in BOOLEAN
    BY DEF followed
  <2> QED
    BY <2>1, <2>2
<1>2. \A S : /\ ~HasRansomware(Credential(S))
             /\ HasHigh(Credential(S)) <=>
                   causes(S) # {} /\ confidence(S) = "high"
  <2>1. \A S : Credential(S) =
                 Hypothesis(causes(S), "credential_compromise",
                            confidence(S), evidence(S))
    BY Zenon DEF Credential
  <2> HIDE DEF causes, confidence, evidence
  <2> QED
    BY <2>1, RuleCounts
<1>3. /\ attacks(A) \subseteq attacks(B) /\ successes(A) \subseteq successes(B)
      /\ anomalies(A) \subseteq anomalies(B)
  OBVIOUS
<1>4. confirmed(A) \subseteq confirmed(B)
  BY <1>3
<1>5. followed(A) => followed(B)
  BY <1>3, <1>4
<1> HIDE DEF attacks, successes, anomalies, confirmed, followed, confidence
<1> QED
  BY <1>1, <1>2, <1>3, <1>5

\* _malware: an execution with command and control on its host is still found.
LEMMA MalwareGrows ==
    ASSUME NEW A, NEW B, A \subseteq B
    PROVE  /\ ~HasRansomware(Malware(A))
           /\ HasHigh(Malware(A)) => HasHigh(Malware(B))
<1> DEFINE executions(S) == {x \in S : IsExecution(x) /\ C2On(S, x) # {}}
           first(S) == CHOOSE x \in executions(S) : \A y \in executions(S) : x.id <= y.id
           evidence(S) == {first(S)} \union C2On(S, first(S))
<1>1. \A S : /\ ~HasRansomware(Malware(S))
             /\ HasHigh(Malware(S)) <=> executions(S) # {}
  <2>1. \A S : Malware(S) =
                 Hypothesis(executions(S), "malware_execution", "high", evidence(S))
    BY Zenon DEF Malware
  <2> HIDE DEF executions, evidence
  <2> QED
    BY <2>1, RuleCounts
<1>2. \A x : C2On(A, x) \subseteq C2On(B, x)
  BY DEF C2On
<1>3. executions(A) \subseteq executions(B)
  BY <1>2
<1> QED
  BY <1>1, <1>3

\* _phishing: a message that was followed by an execution still is.
LEMMA PhishingGrows ==
    ASSUME NEW A, NEW B, A \subseteq B
    PROVE  /\ ~HasRansomware(Phishing(A))
           /\ HasHigh(Phishing(A)) => HasHigh(Phishing(B))
<1> DEFINE phish(S) == {a \in S : HasTechnique(a, {"T1566"})}
           follow(S) == {a \in S : /\ IsExecution(a)
                                   /\ \E p \in phish(S) :
                                         /\ a.at >= p.at
                                         /\ Share(p, a, "user") \/ Share(p, a, "host")}
           confidence(S) == Confidence(1 + Count(follow(S) # {}))
           evidence(S) == phish(S) \union follow(S)
<1>1. \A b \in BOOLEAN : Confidence(1 + Count(b)) = "high" <=> b
  BY DEF Confidence, Count
<1>2. \A S : /\ ~HasRansomware(Phishing(S))
             /\ HasHigh(Phishing(S)) <=> phish(S) # {} /\ follow(S) # {}
  <2>1. \A S : Phishing(S) =
                 Hypothesis(phish(S), "phishing_initial_access", confidence(S),
                            evidence(S))
    BY Zenon DEF Phishing
  <2> HIDE DEF phish, follow, evidence
  <2>2. \A S : confidence(S) = "high" <=> follow(S) # {}
    BY <1>1
  <2> HIDE DEF confidence
  <2> QED
    BY <2>1, <2>2, RuleCounts
<1>3. phish(A) \subseteq phish(B)
  OBVIOUS
<1>4. follow(A) \subseteq follow(B)
  BY <1>3
<1> HIDE DEF phish, follow
<1> QED
  BY <1>2, <1>3, <1>4

\* _lateral: a pair of hosts that an alert connects stays connected.
LEMMA LateralGrows ==
    ASSUME NEW A, NEW B, A \subseteq B
    PROVE  /\ ~HasRansomware(Lateral(A))
           /\ HasHigh(Lateral(A)) => HasHigh(Lateral(B))
<1> DEFINE hits(S) == {a \in S : IsLateral(a)}
           confidence(S) == Confidence(1 + Count(LateralEdges(S) # {}))
<1>1. \A b \in BOOLEAN : Confidence(1 + Count(b)) = "high" <=> b
  BY DEF Confidence, Count
<1>2. \A S : /\ ~HasRansomware(Lateral(S))
             /\ HasHigh(Lateral(S)) <=> hits(S) # {} /\ LateralEdges(S) # {}
  <2>1. \A S : Lateral(S) =
                 Hypothesis(hits(S), "lateral_movement", confidence(S), hits(S))
    BY Zenon DEF Lateral
  <2> HIDE DEF hits
  <2>2. \A S : confidence(S) = "high" <=> LateralEdges(S) # {}
    BY <1>1
  <2> HIDE DEF confidence
  <2> QED
    BY <2>1, <2>2, RuleCounts
<1>3. hits(A) \subseteq hits(B)
  OBVIOUS
<1>4. LateralEdges(A) \subseteq LateralEdges(B)
  BY <1>3 DEF LateralEdges
<1> QED
  BY <1>2, <1>3, <1>4

\* _exfil: what corroborates an exfiltration still does.
LEMMA ExfilGrows ==
    ASSUME NEW A, NEW B, A \subseteq B
    PROVE  /\ ~HasRansomware(Exfil(A))
           /\ HasHigh(Exfil(A)) => HasHigh(Exfil(B))
<1> DEFINE hits(S) == {a \in S : IsExfil(a)}
           corroborated(S) ==
               \E a \in S : IsC2(a) \/ a.tactics \intersect {"TA0008", "TA0009"} # {}
           confidence(S) == Confidence(1 + Count(corroborated(S)))
<1>1. \A b \in BOOLEAN : Confidence(1 + Count(b)) = "high" <=> b
  BY DEF Confidence, Count
<1>2. \A S : /\ ~HasRansomware(Exfil(S))
             /\ HasHigh(Exfil(S)) <=> hits(S) # {} /\ corroborated(S)
  <2>1. \A S : Exfil(S) =
                 Hypothesis(hits(S), "data_exfiltration", confidence(S), hits(S))
    BY Zenon DEF Exfil
  <2>2. \A S : corroborated(S) \in BOOLEAN
    OBVIOUS
  <2> HIDE DEF hits, corroborated
  <2>3. \A S : confidence(S) = "high" <=> corroborated(S)
    BY <1>1, <2>2
  <2> HIDE DEF confidence
  <2> QED
    BY <2>1, <2>3, RuleCounts
<1> QED
  BY <1>2

\* _multi_stage: of medium confidence, so it adds nothing to the score.
LEMMA MultiStageAddsNothing ==
    ASSUME NEW A
    PROVE  ~HasRansomware(MultiStage(A)) /\ ~HasHigh(MultiStage(A))
  BY DEF Hypothesis, HasRansomware, HasHigh, MultiStage

\* No hypothesis that the score counts is lost when alerts are added.
LEMMA HypothesesGrow ==
    ASSUME NEW A, NEW B, A \subseteq B
    PROVE  /\ HasRansomware(Hypotheses(A)) => HasRansomware(Hypotheses(B))
           /\ HasHigh(Hypotheses(A)) => HasHigh(Hypotheses(B))
<1>1. \A S : HasRansomware(Hypotheses(S)) <=>
               \/ HasRansomware(Ransomware(S)) \/ HasRansomware(Credential(S))
               \/ HasRansomware(Malware(S)) \/ HasRansomware(Phishing(S))
               \/ HasRansomware(Lateral(S)) \/ HasRansomware(Exfil(S))
               \/ HasRansomware(MultiStage(S))
  BY DEF Hypotheses, HasRansomware
<1>2. \A S : HasHigh(Hypotheses(S)) <=>
               \/ HasHigh(Ransomware(S)) \/ HasHigh(Credential(S)) \/ HasHigh(Malware(S))
               \/ HasHigh(Phishing(S)) \/ HasHigh(Lateral(S)) \/ HasHigh(Exfil(S))
               \/ HasHigh(MultiStage(S))
  BY DEF Hypotheses, HasHigh
<1> QED
  BY <1>1, <1>2, RansomwareGrows, CredentialGrows, MalwareGrows, PhishingGrows,
     LateralGrows, ExfilGrows, MultiStageAddsNothing

\* assess: the score is a number, at least that of the lowest severity, and more alerts
\* never lower it.
LEMMA ScoreAscends ==
    ASSUME NEW A, NEW B, A \subseteq B, Gradable(A), Gradable(B)
    PROVE  /\ Score(A, Hypotheses(A)) \in Int /\ Score(B, Hypotheses(B)) \in Int
           /\ Score(A, Hypotheses(A)) <= Score(B, Hypotheses(B))
<1>1. TopSeverity(A) \in 0..4 /\ TopSeverity(B) \in 0..4
  BY TopSeverityIsGreatest
<1>2. TopSeverity(A) <= TopSeverity(B)
  BY TopSeverityIsGreatest
<1>3. /\ BasePoints[TopSeverity(A)] \in Int /\ BasePoints[TopSeverity(B)] \in Int
      /\ BasePoints[TopSeverity(A)] <= BasePoints[TopSeverity(B)]
  BY <1>1, <1>2, BasePointsAscend
<1>4. /\ TacticPoints(A) \in Int /\ TacticPoints(B) \in Int
      /\ TacticPoints(A) <= TacticPoints(B)
  BY TacticPointsAscend
<1>5. /\ AssetPoints(A) \in Int /\ AssetPoints(B) \in Int
      /\ AssetPoints(A) <= AssetPoints(B)
  BY AssetPointsAscend
<1>6. \A b, c \in BOOLEAN, n \in Nat :
         /\ Points(b, n) \in Int
         /\ (b => c) => Points(b, n) <= Points(c, n)
  BY DEF Points
<1>7. Cardinality(A) > Volume => Cardinality(B) > Volume
  <2>1. Cardinality(A) \in Nat /\ Cardinality(B) \in Nat
    BY FS_CardinalityType DEF Gradable
  <2>2. Cardinality(A) <= Cardinality(B)
    BY FS_Subset DEF Gradable
  <2> QED
    BY <2>1, <2>2, ContextAssumption DEF ContextAssumption
<1>8. /\ PrivilegedUsers(A) # {} => PrivilegedUsers(B) # {}
      /\ IocMatches(A) # {} => IocMatches(B) # {}
  BY AffectedGrows
<1> DEFINE privileged(S) == Points(PrivilegedUsers(S) # {}, 10)
           matched(S) == Points(IocMatches(S) # {}, 15)
           many(S) == Points(Cardinality(S) > Volume, 5)
           ransomware(S) == Points(HasRansomware(Hypotheses(S)), 15)
           high(S) == Points(HasHigh(Hypotheses(S)), 10)
<1>9. /\ privileged(A) \in Int /\ privileged(B) \in Int /\ privileged(A) <= privileged(B)
      /\ matched(A) \in Int /\ matched(B) \in Int /\ matched(A) <= matched(B)
  BY <1>6, <1>8
<1>10. many(A) \in Int /\ many(B) \in Int /\ many(A) <= many(B)
  BY <1>7 DEF Points
<1>11. /\ ransomware(A) \in Int /\ ransomware(B) \in Int /\ ransomware(A) <= ransomware(B)
       /\ high(A) \in Int /\ high(B) \in Int /\ high(A) <= high(B)
  BY <1>6, HypothesesGrow DEF HasRansomware, HasHigh
<1>12. \A S : Score(S, Hypotheses(S)) =
                BasePoints[TopSeverity(S)] + TacticPoints(S) + AssetPoints(S)
                   + privileged(S) + matched(S) + many(S) + ransomware(S) + high(S)
  BY DEF Score, HasRansomware, HasHigh
<1> HIDE DEF privileged, matched, many, ransomware, high
<1> QED
  BY <1>3, <1>4, <1>5, <1>9, <1>10, <1>11, <1>12

\* InvestigationAgent.assess: alerts that join an incident never lower its risk score.
THEOREM RiskAscends ==
    ASSUME NEW A, NEW B, A \subseteq B, Gradable(A), Gradable(B)
    PROVE  Risk(A, Hypotheses(A)) <= Risk(B, Hypotheses(B))
<1> DEFINE s(S) == Score(S, Hypotheses(S))
<1>1. s(A) \in Int /\ s(B) \in Int /\ s(A) <= s(B)
  BY ScoreAscends
<1>2. \A S : Risk(S, Hypotheses(S)) = IF s(S) > 100 THEN 100 ELSE s(S)
  BY DEF Risk
<1> HIDE DEF s
<1> QED
  BY <1>1, <1>2
==========================================================================
