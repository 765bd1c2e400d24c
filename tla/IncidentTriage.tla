------------------------- MODULE IncidentTriage --------------------------
(***************************************************************************)
(* Ingestion, triage and status changes of incidents: IRService            *)
(* (service.py) and AlertAgent (agents/ingest.py) over AlertStore,         *)
(* IncidentStore and AuditLog (db.py), as command-line processes share     *)
(* them.  A command is a sequence of short transactions; between two of    *)
(* them other processes run, or the process dies (Crash).                  *)
(*                                                                         *)
(* An alert is its position in the order of timestamps and ids; the        *)
(* incident that starts with alert a is incident a (incident_id_for is a   *)
(* hash of the earliest alert's id).  The actions proposed on the way are  *)
(* the subject of ActionService, as is the chaining of the log.            *)
(***************************************************************************)
EXTENDS Correlation, Sequences

CONSTANTS
    Procs,          \* processes, each running one command after another
    Alerts,         \* alerts, numbered by timestamp and id
    At, Keys,       \* their timestamps and entity keys
    Severe,         \* alerts at or above singleton_min_severity
    Files,          \* what a file may hold, as sequences of lines
    MaxLines,       \* ingest_max_lines
    Periods,        \* lookback windows of triage, as pairs of times
    MaxCommands     \* bound on the number of commands started

\* A line holds an alert; or is bad and counted as rejected; or makes its normalizer
\* fail in a way that ingest_lines does not catch (a number no time_t can hold).
Bad == 0
Unhandled == -1

ASSUME TriageAssumption ==
    /\ Alerts \subseteq Nat \ {0} /\ IsFiniteSet(Alerts)
    /\ At \in [Alerts -> Nat] /\ Keys \in [Alerts -> SUBSET Entities]
    /\ \A a, b \in Alerts : a < b => At[a] <= At[b]
    /\ Severe \subseteq Alerts
    /\ Files \subseteq Seq(Alerts \union {Bad, Unhandled}) /\ MaxLines \in Nat
    /\ Periods \subseteq Nat \X Nat
    /\ MaxCommands \in Nat

VARIABLES
    alerts,     \* table alerts: the stored alerts
    incidents,  \* table incidents: the stored row of each incident
    log,        \* table audit_log: the entries about alerts and incidents
    settled,    \* history: the period of the last command, if it was a complete triage
    commands,   \* number of commands started
    pc,         \* where each process is
    job         \* the local variables of each process

vars == <<alerts, incidents, log, settled, commands, pc, job>>

Statuses == {"open", "investigating", "contained", "closed"}

\* Incident: its alert_ids and its status; no alerts stand for a missing row.
Row == [alerts : SUBSET Alerts, status : Statuses]

NoRow == [alerts |-> {}, status |-> "open"]

Stored(i) == incidents[i].alerts # {}

Unsettled == <<>>

\* Entries of the log: what they are about and, for an ingestion, the alerts that it
\* reports as accepted (the entry itself has only their number).
Entry == [event : {"alerts.ingest", "incident.status", "incident.merged", "triage.run"},
          incident : Alerts \union {0}, status : Statuses, accepted : SUBSET Alerts]

Entry0 == [event |-> "triage.run", incident |-> 0, status |-> "open", accepted |-> {}]

\* The local variables of a command: the period of a triage, its groups still to
\* store, the groups it stored, the incidents to close as merged, the row it read, the
\* incident and the status it is about and what it will report.
Job == [period : Periods \union {Unsettled}, todo : SUBSET (SUBSET Alerts),
        saved : SUBSET (SUBSET Alerts), merging : SUBSET Alerts, row : Row,
        incident : Alerts \union {0}, status : Statuses, accepted : SUBSET Alerts]

NoJob == [period |-> Unsettled, todo |-> {}, saved |-> {}, merging |-> {}, row |-> NoRow,
          incident |-> 0, status |-> "open", accepted |-> {}]

TypeOK ==
    /\ alerts \subseteq Alerts
    /\ incidents \in [Alerts -> Row]
    /\ log \in Seq(Entry)
    /\ settled \in Periods \union {Unsettled}
    /\ commands \in 0..MaxCommands
    /\ pc \in [Procs -> {"idle", "report", "group", "write", "list", "merge", "close",
                         "merged", "status"}]
    /\ job \in [Procs -> Job]

Init ==
    /\ alerts = {}
    /\ incidents = [i \in Alerts |-> NoRow]
    /\ log = <<>>
    /\ settled = Unsettled
    /\ commands = 0
    /\ pc = [p \in Procs |-> "idle"]
    /\ job = [p \in Procs |-> NoJob]

Goto(p, from, to) == pc[p] = from /\ pc' = [pc EXCEPT ![p] = to]

Locals(p, locals) == job' = [job EXCEPT ![p] = locals]

Exit(p) == pc' = [pc EXCEPT ![p] = "idle"] /\ Locals(p, NoJob)

\* A command begins: it takes one of the bounded number of commands.
Begin(p, to) ==
    /\ commands < MaxCommands
    /\ commands' = commands + 1
    /\ settled' = Unsettled
    /\ Goto(p, "idle", to)

(***************************************************************************)
(* ingest_file: store the alerts, then report; or give up on the file.     *)
(***************************************************************************)
InFile(file) == {file[n] : n \in DOMAIN file} \ {Bad, Unhandled}

GivenUp(file) ==
    \/ Len(file) > MaxLines
    \/ \E n \in DOMAIN file : file[n] = Unhandled

\* Wrong variant: an alert that is already stored is reported as accepted.
AcceptedOfFile(file) == InFile(file)

\* Wrong variant: bad lines are reported as accepted.
AcceptedLines(file) == {file[n] : n \in DOMAIN file} \ alerts

\* INSERT OR IGNORE counts the rows it adds; an alert repeated in the file is
\* dropped before.
Accepted(file) == InFile(file) \ alerts

IngestFile(p, file) ==
    /\ ~GivenUp(file)
    /\ Begin(p, "report")
    /\ alerts' = alerts \union InFile(file)
    /\ Locals(p, [NoJob EXCEPT !.accepted = Accepted(file)])
    /\ UNCHANGED <<incidents, log>>

\* Lines are stored together at the end, so nothing of the file is.
GiveUpFile(p, file) ==
    /\ GivenUp(file)
    /\ Begin(p, "idle")
    /\ UNCHANGED <<alerts, incidents, log, job>>

ReportIngest(p) ==
    /\ pc[p] = "report"
    /\ log' = Append(log, [Entry0 EXCEPT !.event = "alerts.ingest",
                                         !.accepted = job[p].accepted])
    /\ Exit(p)
    /\ UNCHANGED <<alerts, incidents, settled, commands>>

(***************************************************************************)
(* triage.                                                                 *)
(***************************************************************************)
\* AlertStore.window.
InPeriod(period) == {a \in alerts : period[1] <= At[a] /\ At[a] <= period[2]}

\* A group of one alert below singleton_min_severity is suppressed.
Suppressed(group) == Cardinality(group) = 1 /\ group \intersect Severe = {}

Groups(period) ==
    {g \in Correlate(InPeriod(period), At, Keys) : ~Suppressed(g)}

StartTriage(p) ==
    /\ Begin(p, "group")
    /\ \E period \in Periods :
          Locals(p, [NoJob EXCEPT !.period = period, !.todo = Groups(period)])
    /\ UNCHANGED <<alerts, incidents, log>>

\* Groups are stored in the order of their first alerts.
NextGroup(p) == CHOOSE g \in job[p].todo : \A h \in job[p].todo : First(g) <= First(h)

\* IncidentStore.upsert reads the row before the write begins a transaction.
ReadExisting(p) ==
    /\ job[p].todo # {}
    /\ Goto(p, "group", "write")
    /\ Locals(p, [job[p] EXCEPT !.row = incidents[First(NextGroup(p))]])
    /\ UNCHANGED <<alerts, incidents, log, settled, commands>>

\* Wrong variant: a stored incident is replaced by a new one.
MergedRowAfresh(row, group) == [alerts |-> group, status |-> "open"]

\* The incident of the group, with the status of the row found.
MergedRow(row, group) ==
    [alerts |-> group, status |-> IF row.alerts = {} THEN "open" ELSE row.status]

WriteIncident(p) ==
    /\ Goto(p, "write", "group")
    /\ LET g == NextGroup(p) IN
          /\ incidents' = [incidents EXCEPT ![First(g)] = MergedRow(job[p].row, g)]
          /\ Locals(p, [job[p] EXCEPT !.todo = @ \ {g}, !.saved = @ \union {g},
                                      !.row = NoRow])
    /\ UNCHANGED <<alerts, log, settled, commands>>

\* Wrong variant: the incidents just stored are not left out.
AbsorbedOrCurrent(current, i) ==
    /\ Stored(i) /\ incidents[i].status # "closed"
    /\ \E g \in current : incidents[i].alerts \subseteq g

\* Stored incidents whose alerts now belong to another incident of this run.
Absorbed(current, i) ==
    /\ i \notin {First(g) : g \in current}
    /\ Stored(i) /\ incidents[i].status # "closed"
    /\ \E g \in current : incidents[i].alerts \subseteq g

\* Wrong variant: only incidents nobody has worked on are looked at.
ListOpenIncidents(p) ==
    /\ job[p].todo = {}
    /\ Goto(p, "group", "merge")
    /\ Locals(p, [job[p] EXCEPT !.merging = {i \in Alerts : /\ incidents[i].status = "open"
                                                            /\ Absorbed(job[p].saved, i)}])
    /\ UNCHANGED <<alerts, incidents, log, settled, commands>>

\* _close_merged reads all incidents once and compares them with those in memory.
ListIncidents(p) ==
    /\ job[p].todo = {}
    /\ Goto(p, "group", "merge")
    /\ Locals(p, [job[p] EXCEPT !.merging = {i \in Alerts : Absorbed(job[p].saved, i)}])
    /\ UNCHANGED <<alerts, incidents, log, settled, commands>>

\* update_status reads the row again, in the order of IncidentStore.list, which
\* depends on priorities: any order here.
ReadMerged(p) ==
    /\ Goto(p, "merge", "close")
    /\ \E i \in job[p].merging :
          Locals(p, [job[p] EXCEPT !.merging = @ \ {i}, !.incident = i,
                                   !.row = incidents[i]])
    /\ UNCHANGED <<alerts, incidents, log, settled, commands>>

CloseMerged(p) ==
    /\ Goto(p, "close", "merged")
    /\ incidents' = [incidents EXCEPT ![job[p].incident] =
                        [job[p].row EXCEPT !.status = "closed"]]
    /\ UNCHANGED <<alerts, log, settled, commands, job>>

\* The entry of the merge is a transaction of its own.
LogMerged(p) ==
    /\ Goto(p, "merged", "merge")
    /\ log' = Append(log, [Entry0 EXCEPT !.event = "incident.merged",
                                         !.incident = job[p].incident, !.status = "closed"])
    /\ Locals(p, [job[p] EXCEPT !.incident = 0, !.row = NoRow])
    /\ UNCHANGED <<alerts, incidents, settled, commands>>

FinishTriage(p) ==
    /\ pc[p] = "merge" /\ job[p].merging = {}
    /\ log' = Append(log, Entry0)
    /\ settled' = job[p].period
    /\ Exit(p)
    /\ UNCHANGED <<alerts, incidents, commands>>

(***************************************************************************)
(* set_status: read the row, then write it and its entry together.         *)
(***************************************************************************)
ReadStatus(p) ==
    /\ Begin(p, "status")
    /\ \E i \in Alerts, s \in Statuses :
          /\ Stored(i)
          /\ Locals(p, [NoJob EXCEPT !.incident = i, !.status = s, !.row = incidents[i]])
    /\ UNCHANGED <<alerts, incidents, log>>

WriteStatus(p) ==
    /\ pc[p] = "status"
    /\ LET i == job[p].incident
           s == job[p].status
       IN  /\ incidents' = [incidents EXCEPT ![i] = [job[p].row EXCEPT !.status = s]]
           /\ log' = Append(log, [Entry0 EXCEPT !.event = "incident.status",
                                                !.incident = i, !.status = s])
    /\ Exit(p)
    /\ UNCHANGED <<alerts, settled, commands>>

Crash(p) ==
    /\ pc[p] # "idle"
    /\ Exit(p)
    /\ UNCHANGED <<alerts, incidents, log, settled, commands>>

Next ==
    \E p \in Procs :
       \/ \E file \in Files : IngestFile(p, file) \/ GiveUpFile(p, file)
       \/ ReportIngest(p)
       \/ StartTriage(p) \/ ReadExisting(p) \/ WriteIncident(p)
       \/ ListIncidents(p) \/ ReadMerged(p) \/ CloseMerged(p) \/ LogMerged(p)
       \/ FinishTriage(p)
       \/ ReadStatus(p) \/ WriteStatus(p)
       \/ Crash(p)

Spec == Init /\ [][Next]_vars

(***************************************************************************)
(* Properties, the last two of them of commands that run one at a time,    *)
(* crashes included.                                                       *)
(***************************************************************************)
\* What is reported as accepted is stored, and no alert is reported twice, however
\* often it is ingested and wherever an ingestion dies: the numbers in the log add up
\* to no more alerts than there are (AlertStore.insert, IRService.ingest_file).
AcceptedOnce ==
    /\ \A n \in DOMAIN log : log[n].accepted \subseteq alerts
    /\ \A m, n \in DOMAIN log : m # n => log[m].accepted \intersect log[n].accepted = {}

\* Right after a complete triage another one over the same period would change
\* nothing: every group has its incident, and no open incident is absorbed by
\* another, whatever crashed before ("triage is idempotent", test_end_to_end.py).
RerunChangesNothing ==
    settled # Unsettled =>
        /\ \A g \in Groups(settled) :
              incidents[First(g)] = MergedRow(incidents[First(g)], g)
        /\ \A i \in Alerts : ~Absorbed(Groups(settled), i)

\* Only an analyst changes the status of an incident, except that triage closes an
\* incident whose alerts all belong to one that started earlier; so no chain of
\* merges ever closes an incident into itself (IncidentStore.upsert,
\* IRService._close_merged).
StatusKept ==
    [][\A i \in Alerts :
          Stored(i) /\ incidents'[i].status # incidents[i].status =>
              \/ /\ log' # log
                 /\ log'[Len(log')].event = "incident.status" /\ log'[Len(log')].incident = i
              \/ /\ incidents'[i].status = "closed"
                 /\ \E j \in Alerts : j < i /\ incidents[i].alerts \subseteq incidents[j].alerts]_vars

(***************************************************************************)
(* What the documents say and the code does not keep.                      *)
(***************************************************************************)
\* docs/architecture.md: "Audit rows are written in the same transaction as the
\* state change they describe".  Once every command has ended, a closed incident
\* has an entry that closed it.
ClosingWasLogged ==
    (\A p \in Procs : pc[p] = "idle") =>
        \A i \in Alerts : incidents[i].status = "closed" =>
            \E n \in DOMAIN log : log[n].incident = i /\ log[n].status = "closed"
==========================================================================
