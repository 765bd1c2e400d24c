-------------------------- MODULE Investigation --------------------------
(***************************************************************************)
(* What InvestigationAgent (agents/investigation.py) concludes from a set  *)
(* A of correlated alerts: hypotheses with their evidence, who is          *)
(* affected, and the risk score.  An alert is a record as in Normalizers;  *)
(* ids number alerts by timestamp.  Texts (timeline, gaps, titles, the     *)
(* reasons of the score) are left out, and so are the techniques that a    *)
(* hypothesis lists.                                                       *)
(***************************************************************************)
EXTENDS Integers, FiniteSets

CONSTANTS
    NoiseUsers,     \* Policy.noise_users
    Assets,         \* hosts of the inventory
    CriticalHosts, HighHosts,   \* those of critical and of high criticality
    Privileged,     \* privileged and service accounts
    Indicators,     \* known-bad entities
    Volume          \* number of alerts above which volume adds to the score (5)

ASSUME ContextAssumption ==
    /\ CriticalHosts \subseteq Assets /\ HighHosts \subseteq Assets
    /\ CriticalHosts \intersect HighHosts = {}
    /\ Volume \in Nat

Named(a, kind) == {e[2] : e \in {x \in a.entities : x[1] = kind}}

NamedBy(A, kind) == UNION {Named(a, kind) : a \in A}

Share(a, b, kind) == Named(a, kind) \intersect Named(b, kind) # {}

HasTechnique(a, techniques) == a.techniques \intersect techniques # {}

IsBruteForce(a) == HasTechnique(a, {"T1110"}) \/ "brute force" \in a.words

IsSuccess(a) == "success" \in a.words

IsExecution(a) == "TA0002" \in a.tactics

IsC2(a) == "TA0011" \in a.tactics \/ "c2" \in a.words

IsLateral(a) == "TA0008" \in a.tactics \/ HasTechnique(a, {"T1021"})

IsExfil(a) == "TA0010" \in a.tactics \/ HasTechnique(a, {"T1041", "T1048"})

(***************************************************************************)
(* Hypotheses.  Each rule yields at most one.                              *)
(***************************************************************************)
Confidence(met) == IF met >= 2 THEN "high" ELSE IF met = 1 THEN "medium" ELSE "low"

Count(condition) == IF condition THEN 1 ELSE 0

Ids(A) == {a.id : a \in A}

\* The hypothesis of a rule, if some alerts give cause for it.
Hypothesis(causes, name, confidence, evidence) ==
    IF causes = {} THEN {}
    ELSE {[name |-> name, confidence |-> confidence, evidence |-> Ids(evidence)]}

Ransomware(A) ==
    LET hits == {a \in A : HasTechnique(a, {"T1486", "T1490"})}
        both == /\ \E a \in hits : HasTechnique(a, {"T1486"})
                /\ \E a \in hits : HasTechnique(a, {"T1490"})
    IN  Hypothesis(hits, "ransomware",
                   IF both \/ Cardinality(hits) > 1 THEN "high" ELSE "medium", hits)

Credential(A) ==
    LET attacks == {a \in A : IsBruteForce(a)}
        successes == {a \in A : IsSuccess(a)
                                    \/ (HasTechnique(a, {"T1078"}) /\ ~IsBruteForce(a))}
        anomalies == {a \in A : "anomaly" \in a.words}
        confirmed == {s \in successes :
                         \E a \in attacks : s.at >= a.at /\ Share(a, s, "user")}
    IN  Hypothesis(attacks \union anomalies, "credential_compromise",
                   Confidence(Count(attacks # {})
                      + Count(confirmed # {} \/ (anomalies # {} /\ successes # {}))),
                   attacks \union confirmed \union anomalies)

\* Command and control on a host that execution x names.
C2On(A, x) == {a \in A : IsC2(a) /\ Share(x, a, "host")}

\* Only the first such execution is reported.
Malware(A) ==
    LET executions == {x \in A : IsExecution(x) /\ C2On(A, x) # {}}
        first == CHOOSE x \in executions : \A y \in executions : x.id <= y.id
    IN  Hypothesis(executions, "malware_execution", "high", {first} \union C2On(A, first))

Phishing(A) ==
    LET phish == {a \in A : HasTechnique(a, {"T1566"})}
        follow == {a \in A : /\ IsExecution(a)
                             /\ \E p \in phish : /\ a.at >= p.at
                                                 /\ Share(p, a, "user") \/ Share(p, a, "host")}
    IN  Hypothesis(phish, "phishing_initial_access", Confidence(1 + Count(follow # {})),
                   phish \union follow)

\* _lateral_edges: hosts that one alert about remote services names together.
LateralEdges(A) ==
    UNION {{e \in SUBSET Named(a, "host") : Cardinality(e) = 2} :
           a \in {b \in A : IsLateral(b)}}

Lateral(A) ==
    LET hits == {a \in A : IsLateral(a)}
    IN  Hypothesis(hits, "lateral_movement", Confidence(1 + Count(LateralEdges(A) # {})),
                   hits)

Exfil(A) ==
    LET hits == {a \in A : IsExfil(a)}
        corroborated == \E a \in A : IsC2(a) \/ a.tactics \intersect {"TA0008", "TA0009"} # {}
    IN  Hypothesis(hits, "data_exfiltration", Confidence(1 + Count(corroborated)), hits)

TacticsSeen(A) == UNION {a.tactics : a \in A}

MultiStage(A) ==
    Hypothesis({a \in A : Cardinality(TacticsSeen(A)) >= 3 /\ Cardinality(A) >= 2},
               "multi_stage_activity", "medium", A)

Hypotheses(A) ==
    UNION {Ransomware(A), Credential(A), Malware(A), Phishing(A), Lateral(A), Exfil(A),
           MultiStage(A)}

(***************************************************************************)
(* investigate: who and what is affected.                                  *)
(***************************************************************************)
AffectedHosts(A) == NamedBy(A, "host")

AffectedUsers(A) == NamedBy(A, "user") \ NoiseUsers

CriticalAssets(A) == AffectedHosts(A) \intersect (CriticalHosts \union HighHosts)

PrivilegedUsers(A) == AffectedUsers(A) \intersect Privileged

IocMatches(A) == (UNION {a.entities : a \in A}) \intersect Indicators

(***************************************************************************)
(* assess: the risk score.                                                 *)
(***************************************************************************)
\* What the highest severity adds, by rank.
BasePoints == [r \in 0..4 |-> CASE r = 4 -> 60 [] r = 3 -> 45 [] r = 2 -> 25
                                [] r = 1 -> 10 [] r = 0 -> 3]

TopSeverity(A) == CHOOSE r \in 0..4 : /\ \E a \in A : a.severity = r
                                      /\ \A a \in A : a.severity <= r

TacticPoints(A) ==
    LET n == Cardinality(TacticsSeen(A))
    IN  IF n <= 1 THEN 0 ELSE IF n >= 5 THEN 20 ELSE 5 * (n - 1)

\* Wrong variant: the points of a high-criticality asset hide those of a critical one.
AssetPointsHighFirst(A) ==
    IF CriticalAssets(A) \intersect HighHosts # {} THEN 8
    ELSE IF CriticalAssets(A) # {} THEN 15 ELSE 0

AssetPoints(A) ==
    IF CriticalAssets(A) \intersect CriticalHosts # {} THEN 15
    ELSE IF CriticalAssets(A) # {} THEN 8 ELSE 0

Points(condition, points) == IF condition THEN points ELSE 0

\* The score for the alerts A and the hypotheses found about them.
Score(A, found) ==
    BasePoints[TopSeverity(A)] + TacticPoints(A) + AssetPoints(A)
        + Points(PrivilegedUsers(A) # {}, 10) + Points(IocMatches(A) # {}, 15)
        + Points(Cardinality(A) > Volume, 5)
        + Points(\E h \in found : h.name = "ransomware", 15)
        + Points(\E h \in found : h.confidence = "high" /\ h.name # "ransomware", 10)

\* Wrong variant: the score is not capped.
RiskUncapped(A, found) == Score(A, found)

Risk(A, found) == IF Score(A, found) > 100 THEN 100 ELSE Score(A, found)

\* build_incident: the incident is identified by its earliest alert.
Incident(A) ==
    LET found == Hypotheses(A)
    IN  [id |-> CHOOSE n \in Ids(A) : \A m \in Ids(A) : n <= m, alerts |-> A,
         hypotheses |-> found, risk |-> Risk(A, found)]

\* 1 is P1.  The severity of the incident follows the same limits.
Priority(incident) ==
    LET risk == incident.risk
    IN  IF risk >= 80 THEN 1 ELSE IF risk >= 60 THEN 2 ELSE IF risk >= 35 THEN 3 ELSE 4
==========================================================================
