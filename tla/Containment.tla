--------------------------- MODULE Containment ---------------------------
(***************************************************************************)
(* What ContainmentAgent (agents/containment.py) proposes for an incident, *)
(* and the guardrails every proposal gets.  A proposal is identified by    *)
(* its incident, kind and target (action_id is a hash of the three).  Left *)
(* out: rationale, evidence, warnings, impact other than through           *)
(* requires_senior, and the order of the list.                             *)
(***************************************************************************)
EXTENDS Investigation

CONSTANTS
    OwnerOf,        \* owner of each asset, as a set of at most one
    InternalIps,    \* addresses for which is_private_ip holds
    ProtectedHosts, ProtectedUsers, ProtectedIps

ASSUME PolicyAssumption == DOMAIN OwnerOf = Assets

HostKinds == {"snapshot_host", "isolate_host"}
AccountKinds == {"disable_user", "reset_credentials", "revoke_sessions"}
BlockKinds == {"block_ip", "block_domain", "block_hash"}
ApprovalFreeKinds == {"notify_owner", "open_ticket"}
Kinds == HostKinds \union AccountKinds \union BlockKinds \union ApprovalFreeKinds

Found(incident, name) == {h \in incident.hypotheses : h.name = name}

Holds(incident, name) == Found(incident, name) # {}

\* What the alerts in evidence of the hypothesis name.
EvidenceNames(incident, name, kind) ==
    LET evidence == UNION {h.evidence : h \in Found(incident, name)}
    IN  NamedBy({a \in incident.alerts : a.id \in evidence}, kind)

\* What the evidence names, or else everything that is affected.
OrElse(named, affected) == IF named # {} THEN named ELSE affected

CompromisedUsers(incident) ==
    IF Holds(incident, "credential_compromise")
    THEN OrElse(EvidenceNames(incident, "credential_compromise", "user"),
                AffectedUsers(incident.alerts))
    ELSE {}

\* host_driven: the hypotheses about single hosts.
HostDriven == {"malware_execution", "phishing_initial_access", "ransomware"}

HostsOf(incident, names) ==
    UNION {OrElse(EvidenceNames(incident, n, "host"), AffectedHosts(incident.alerts)) :
           n \in {m \in names : Holds(incident, m)}}

\* Wrong variant: ransomware isolates only if nothing else does.
InfectedHostsFirstHypothesis(incident) ==
    IF \E n \in HostDriven \ {"ransomware"} : Holds(incident, n)
    THEN HostsOf(incident, HostDriven \ {"ransomware"})
    ELSE HostsOf(incident, {"ransomware"})

InfectedHosts(incident) == HostsOf(incident, HostDriven)

LateralHosts(incident) ==
    IF Holds(incident, "lateral_movement") THEN UNION LateralEdges(incident.alerts) ELSE {}

\* Accounts to disable or to cut off besides the compromised ones.
UsersIf(incident, name) ==
    IF Holds(incident, name) THEN AffectedUsers(incident.alerts) ELSE {}

\* Indicators to block.  The addresses of the rule on exfiltration and malware are
\* among them.
Blocked(incident) ==
    LET matches(kind) == {e[2] : e \in {m \in IocMatches(incident.alerts) : m[1] = kind}}
    IN  ({"block_ip"} \X (matches("ip") \ InternalIps))
            \union ({"block_domain"} \X matches("domain"))
            \union ({"block_hash"} \X matches("hash"))

\* Tickets and owners of critical assets, for the two highest priorities.
Notices(incident) ==
    IF Priority(incident) <= 2
    THEN {<<"open_ticket", incident.id>>}
            \union ({"notify_owner"} \X UNION {OwnerOf[h] : h \in CriticalAssets(incident.alerts)})
    ELSE {}

\* Wrong variant: hosts of lateral movement are isolated without a snapshot.
WantedUnsnapped(incident) ==
    (HostKinds \X InfectedHosts(incident)) \union ({"isolate_host"} \X LateralHosts(incident))

\* recommend: kinds and targets.
Wanted(incident) ==
    ((AccountKinds \union {"notify_owner"}) \X CompromisedUsers(incident))
        \union (HostKinds \X (InfectedHosts(incident) \union LateralHosts(incident)))
        \union ({"disable_user"} \X (UsersIf(incident, "lateral_movement")
                                        \union UsersIf(incident, "ransomware")))
        \union ({"revoke_sessions"} \X UsersIf(incident, "data_exfiltration"))
        \union Blocked(incident) \union Notices(incident)

Protected(kind, target) ==
    \/ kind \in HostKinds /\ target \in ProtectedHosts
    \/ kind \in AccountKinds /\ target \in ProtectedUsers
    \/ kind = "block_ip" /\ target \in ProtectedIps

InitialStatus(kind, target) ==
    IF Protected(kind, target) THEN "manual_only"
    ELSE IF kind \in ApprovalFreeKinds THEN "approved" ELSE "pending_approval"

\* High impact is never approval-free, so it always asks for a senior approver.
RequiresSenior(kind, target) ==
    \/ kind = "isolate_host" /\ target \in CriticalHosts \union HighHosts
    \/ kind \in AccountKinds /\ target \in Privileged

\* The snapshot that an isolation waits for.
DependsOn(i, kind, target) ==
    IF kind = "isolate_host" THEN {<<i, "snapshot_host", target>>} ELSE {}

Urgency(incident) ==
    IF \/ Priority(incident) = 1
       \/ Holds(incident, "ransomware") \/ Holds(incident, "lateral_movement")
    THEN "immediate" ELSE IF Priority(incident) = 2 THEN "soon" ELSE "routine"

\* The urgency of one proposal.  The owner of an asset who is also a compromised
\* account is told in the routine way: the first proposal of a kind and target wins.
UrgencyOf(incident, kind, target) ==
    CASE kind = "open_ticket" -> "routine"
      [] kind = "notify_owner" ->
            IF target \in CompromisedUsers(incident) THEN "routine" ELSE "soon"
      [] OTHER -> Urgency(incident)

\* _build.
Proposal(incident, kind, target) ==
    [incident |-> incident.id, kind |-> kind, target |-> target,
     status |-> InitialStatus(kind, target), senior |-> RequiresSenior(kind, target),
     urgency |-> UrgencyOf(incident, kind, target),
     depends |-> DependsOn(incident.id, kind, target)]

Proposals(incident) == {Proposal(incident, kt[1], kt[2]) : kt \in Wanted(incident)}
==========================================================================
