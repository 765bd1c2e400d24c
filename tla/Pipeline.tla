----------------------------- MODULE Pipeline -----------------------------
(***************************************************************************)
(* The agents in a row: what the sources report is normalised and stored,  *)
(* and triage (service.py) correlates the stored alerts, investigates each *)
(* group, and stores its incident and the proposed actions.  One command   *)
(* runs at a time and none fails: IncidentTriage and ActionService have    *)
(* the steps, processes and crashes, and what becomes of an action once it *)
(* is proposed.  Alert n is the one reported for time n; incident n is the *)
(* one that starts with it.                                                *)
(***************************************************************************)
EXTENDS Normalizers, Containment, Correlation

CONSTANTS
    Records,        \* what a source may report
    Length,         \* number of records reported
    Severe,         \* rank of singleton_min_severity
    Periods         \* lookback windows of triage, as pairs of times

\* The fields in which the mapping of each source looks for an address.  Not among them are
\* those that it reads as host names whatever they hold: CompromisedEntity, host.name,
\* hostname.
AddressFields ==
    [splunk |-> {"src", "src_ip", "dest_ip", "dest", "src_host", "dest_host", "host"},
     sentinel |-> {"Ip"},
     crowdstrike |-> {"device.local_ip", "device.external_ip", "ioc.ipv4", "ioc.ipv6"},
     elastic |-> {"source.ip", "destination.ip"},
     generic |-> {"ip"}]

ASSUME PipelineAssumption ==
    /\ Length \in Nat /\ Severe \in 0..4
    /\ Periods \subseteq Nat \X Nat
    /\ NoiseUsers = {e[2] : e \in {x \in Noise : x[1] = "user"}}
    /\ \A r \in Records : /\ {"source", "fields", "listed", "tactics"} \subseteq DOMAIN r
                          /\ r.source \in DOMAIN AddressFields
                          /\ r.fields \subseteq STRING \X RawValues
    /\ IsFiniteSet(UNION {r.tactics : r \in Records})

VARIABLES
    feed,       \* history: the record reported for each time
    alerts,     \* table alerts: the stored alerts, by time
    incidents,  \* table incidents
    actions,    \* table actions
    settled     \* history: the period of the last command, if it was a triage

vars == <<feed, alerts, incidents, actions, settled>>

Times == 1..Length

Finding == [name : HostDriven \union {"credential_compromise", "lateral_movement",
                                      "data_exfiltration", "multi_stage_activity"},
            confidence : {"low", "medium", "high"}, evidence : SUBSET Times]

Row == [alerts : SUBSET Times, hypotheses : SUBSET Finding, risk : 0..100,
        status : {"open", "closed"}]

NoRow == [alerts |-> {}, hypotheses |-> {}, risk |-> 0, status |-> "open"]

Stored(i) == incidents[i].alerts # {}

Unsettled == <<>>

Key(action) == <<action.incident, action.kind, action.target>>

\* The tables hold one row for each key, and a row what its type allows.
TypeOK ==
    /\ DOMAIN feed \subseteq Times /\ \A n \in DOMAIN feed : feed[n] \in Records
    /\ DOMAIN alerts \subseteq DOMAIN feed
    /\ \A m, n \in DOMAIN alerts : alerts[m].key = alerts[n].key => m = n
    /\ DOMAIN incidents = Times
    /\ \A i \in Times : /\ DOMAIN incidents[i] = DOMAIN NoRow
                        /\ incidents[i].alerts \subseteq DOMAIN alerts
                        /\ incidents[i].hypotheses \subseteq Finding
                        /\ incidents[i].risk \in 0..100
                        /\ incidents[i].status \in {"open", "closed"}
    /\ \A x \in actions :
          /\ x.incident \in Times /\ x.kind \in Kinds /\ x.senior \in BOOLEAN
          /\ x.status \in {"pending_approval", "approved", "manual_only"}
          /\ x.urgency \in {"immediate", "soon", "routine"}
          /\ \A y \in actions : Key(x) = Key(y) => x = y
    /\ settled \in Periods \union {Unsettled}

Init ==
    /\ feed = [n \in {} |-> 0]
    /\ alerts = [n \in {} |-> 0]
    /\ incidents = [i \in Times |-> NoRow]
    /\ actions = {}
    /\ settled = Unsettled

\* The function f with the value x at n.
With(f, n, x) == [m \in DOMAIN f \union {n} |-> IF m = n THEN x ELSE f[m]]

\* ingest_lines, for a file of one record: one that is rejected, or known by its id,
\* changes nothing.
Ingest(record, n) ==
    LET raw == [record EXCEPT !.at = n]
        known == \E m \in DOMAIN alerts : alerts[m].key = AlertId(raw)
    IN  /\ n \notin DOMAIN feed
        /\ feed' = With(feed, n, record)
        /\ alerts' = IF Rejected(raw) \/ known THEN alerts
                     ELSE With(alerts, n, Normalized(raw, n))
        /\ settled' = Unsettled
        /\ UNCHANGED <<incidents, actions>>

\* AlertStore.window.
InPeriod(period) == {n \in DOMAIN alerts : period[1] <= n /\ n <= period[2]}

\* What correlate returns for the window, without the groups that triage suppresses.
Groups(period) ==
    LET times == [n \in DOMAIN alerts |-> n]
        keys == [n \in DOMAIN alerts |-> alerts[n].entities]
    IN  {g \in Correlate(InPeriod(period), times, keys) :
            Cardinality(g) > 1 \/ \E n \in g : alerts[n].severity >= Severe}

Evidence(group) == {alerts[n] : n \in group}

\* IncidentStore.upsert.
Upserted(incident) ==
    [alerts |-> Ids(incident.alerts), hypotheses |-> incident.hypotheses,
     risk |-> incident.risk,
     status |-> IF Stored(incident.id) THEN incidents[incident.id].status ELSE "open"]

\* Wrong variant: only an incident stored before can absorb another one.
AbsorbedByStored(current, i) ==
    /\ i \notin Ids(current)
    /\ Stored(i)
    /\ \E c \in current : Stored(c.id) /\ incidents[i].alerts \subseteq Ids(c.alerts)

\* _close_merged.
Absorbed(current, i) ==
    /\ i \notin Ids(current)
    /\ Stored(i) /\ \E c \in current : incidents[i].alerts \subseteq Ids(c.alerts)

\* save_recommendations: a stored action keeps its approval state.
Recommended(proposal) ==
    LET stored == {x \in actions : Key(x) = Key(proposal)}
    IN  IF stored = {} THEN proposal
        ELSE [proposal EXCEPT !.status = (CHOOSE x \in stored : TRUE).status]

Save(current, proposals) ==
    /\ incidents' =
          [i \in Times |->
              IF i \in Ids(current) THEN Upserted(CHOOSE c \in current : c.id = i)
              ELSE IF Absorbed(current, i) THEN [incidents[i] EXCEPT !.status = "closed"]
              ELSE incidents[i]]
    /\ actions' = {x \in actions : \A y \in proposals : Key(x) # Key(y)}
                      \union {Recommended(y) : y \in proposals}

\* triage.  (The quantifiers over one element make TLC compute each report once.)
Triage(period) ==
    /\ \E evidence \in {{Evidence(g) : g \in Groups(period)}} :
          \E current \in {{Incident(A) : A \in evidence}} :
             Save(current, UNION {Proposals(c) : c \in current})
    /\ settled' = period
    /\ UNCHANGED <<feed, alerts>>

Next ==
    \/ \E record \in Records, n \in Times : Ingest(record, n)
    \/ \E period \in Periods : Triage(period)

Spec == Init /\ [][Next]_vars

(***************************************************************************)
(* Properties.                                                             *)
(***************************************************************************)
Covers(j, i) == Stored(i) /\ incidents[i].alerts \subseteq incidents[j].alerts

\* An incident whose alerts all belong to another one never ranks above it: adding
\* an alert, or merging incidents, lowers no risk score and no priority, so closing
\* the smaller incident hides nothing urgent (InvestigationAgent.assess,
\* IRService._close_merged).
LargerRanksHigher ==
    \A i, j \in Times : Covers(j, i) => incidents[i].risk <= incidents[j].risk

StoredIncident(i) ==
    [incidents[i] EXCEPT !.alerts = Evidence(incidents[i].alerts)]

\* Hosts to which the evidence says that the attack has spread.
SpreadHosts(incident) ==
    LateralHosts(incident) \union EvidenceNames(incident, "ransomware", "host")

\* A host that ransomware or lateral movement has reached stays proposed for isolation
\* when its incident is merged into a larger one, whichever other hypotheses come to
\* explain the larger one (ContainmentAgent.recommend).
SpreadStaysContained ==
    \A i, j \in Times :
        Covers(j, i) =>
            \A h \in SpreadHosts(StoredIncident(i)) :
                \E x \in actions : Key(x) = <<j, "isolate_host", h>>

\* An isolation is stored together with the snapshot it waits for, however hypotheses
\* and merges overlap, and is left to people when the snapshot is: execute ignores a
\* dependency that is not stored, and waits for ever for one nobody may execute
\* ("Isolation depends on a snapshot of the same host", docs/architecture.md).
IsolationHasSnapshot ==
    \A x \in actions :
        /\ x.kind = "isolate_host" => x.depends # {}
        /\ \A k \in x.depends :
              \E y \in actions :
                  /\ Key(y) = k
                  /\ y.status = "manual_only" => x.status = "manual_only"

\* What the policy protects, by kinds of action.
GuardedKinds == HostKinds \union AccountKinds \union {"block_ip"}

TargetType(kind) ==
    CASE kind \in HostKinds -> "host" [] kind \in AccountKinds -> "user" [] OTHER -> "ip"

ProtectedNames(kind) ==
    CASE kind \in HostKinds -> ProtectedHosts
      [] kind \in AccountKinds -> ProtectedUsers
      [] OTHER -> ProtectedIps

\* However a vendor spells a protected host, account or address, and through whichever
\* field, rule and merge it becomes a target: an action that is not left to people aims at
\* the canonical form of something a vendor reported, and that form is not protected.  Only
\* a record of the normalised schema, whose names are stored as they come, can name
\* another target (EntityBag.add, _build).
VendorSpellingsAreGuarded ==
    \A x \in actions :
        x.kind \in GuardedKinds /\ x.status # "manual_only" =>
            \E n \in DOMAIN alerts :
                LET type == TargetType(x.kind)
                    fields == feed[n].fields
                IN  IF feed[n].source = "generic" THEN <<type, x.target>> \in fields
                    ELSE \E fv \in fields :
                            x.target \in Canonical[type][fv[2]] \ ProtectedNames(x.kind)

\* The addresses that alert n was reported with, each as the one text of its field:
\* canonical, but for records of the normalised schema, which are stored as they come.
Addresses(n) ==
    UNION {IF feed[n].source = "generic" THEN {fv[2]} ELSE Canonical["ip"][fv[2]] :
           fv \in {x \in feed[n].fields : /\ x[1] \in AddressFields[feed[n].source]
                                          /\ x[1] \notin feed[n].listed}}

\* Entities that too many alerts of the period name tell nothing (max_entity_degree).
Hub(e, period) ==
    Cardinality({n \in InPeriod(period) : e \in alerts[n].entities}) > MaxDegree

\* After a triage, alerts of one period that report the same address close in time are
\* in one incident, whichever sources report it and in whichever spelling, if each has it
\* in a field of AddressFields, and unless the address is noise or a hub
\* (normalizers.py, CorrelationAgent).
SameAddressTogether ==
    settled # Unsettled =>
        \A m, n \in InPeriod(settled) :
            /\ m < n /\ n - m <= Window
            /\ \E ip \in Addresses(m) \intersect Addresses(n) :
                  <<"ip", ip>> \notin Noise /\ ~Hub(<<"ip", ip>>, settled)
            => \E i \in Times : {m, n} \subseteq incidents[i].alerts

\* "[...] so triage can run on a schedule" (docs/architecture.md): a triage of the same period with
\* nothing reported in between revises no incident and no action, although upsert,
\* _close_merged and save_recommendations go by what the first one has stored.
TriageIsRepeatable ==
    [][settled # Unsettled /\ settled' = settled => UNCHANGED <<incidents, actions>>]_vars

(***************************************************************************)
(* What the documents say and the code does not keep.                      *)
(***************************************************************************)
\* action_id (containment.py): "Stable id, so re-running triage updates rather than
\* duplicates actions".  Open incidents that share an alert do not both propose the
\* same action.
ActionsNotDuplicated ==
    \A x, y \in actions :
        /\ x.incident # y.incident /\ x.kind = y.kind /\ x.target = y.target
        /\ incidents[x.incident].status = "open" /\ incidents[y.incident].status = "open"
        => incidents[x.incident].alerts \intersect incidents[y.incident].alerts = {}
==========================================================================
