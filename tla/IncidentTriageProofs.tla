---------------------- MODULE IncidentTriageProofs -----------------------
(***************************************************************************)
(* What holds of IncidentTriage for every set of alerts, every policy,     *)
(* every file and every number of commands: its types and the report of    *)
(* accepted alerts for any number of processes, and for commands that run  *)
(* one at a time, crashes included, that triage is idempotent and touches  *)
(* no decision of an analyst.                                              *)
(***************************************************************************)
EXTENDS IncidentTriage, CorrelationProofs, TLAPS

(***************************************************************************)
(* Groups and their first alerts.                                          *)
(***************************************************************************)
\* The groups of a triage are nonempty sets of alerts that it has read.
LEMMA GroupsOfAlerts ==
    ASSUME NEW period, alerts \subseteq Alerts
    PROVE  Groups(period) \subseteq (SUBSET Alerts) \ {{}}
<1>1. InPeriod(period) \subseteq Alerts
  BY DEF InPeriod
<1>2. \A g \in Correlate(InPeriod(period), At, Keys) : g # {} /\ g \subseteq InPeriod(period)
  BY GroupsPartition
<1> QED
  BY <1>1, <1>2 DEF Groups

\* A group has a first alert.
LEMMA FirstOfGroup ==
    ASSUME NEW g \in (SUBSET Alerts) \ {{}}
    PROVE  First(g) \in g /\ First(g) \in Alerts /\ \A b \in g : First(g) <= b
<1>1. g \in SUBSET Nat
  BY TriageAssumption
<1> QED
  BY <1>1, FirstIsLeast

\* Two groups of a triage that start with the same alert are one.
LEMMA FirstTellsGroup ==
    ASSUME NEW period, alerts \subseteq Alerts,
           NEW g \in Groups(period), NEW h \in Groups(period), First(g) = First(h)
    PROVE  g = h
<1>1. First(g) \in g /\ First(h) \in h
  BY GroupsOfAlerts, FirstOfGroup
<1>2. g \intersect h # {}
  BY <1>1
<1> QED
  BY <1>2, GroupsPartition DEF Groups

\* The group that triage stores next is one of those still to store.
LEMMA NextOfGroups ==
    ASSUME NEW p, job[p].todo \in SUBSET ((SUBSET Alerts) \ {{}}), job[p].todo # {}
    PROVE  NextGroup(p) \in job[p].todo
<1> DEFINE T == {First(g) : g \in job[p].todo}
<1>1. T \in SUBSET Nat /\ T # {}
  BY FirstOfGroup, TriageAssumption
<1>2. PICK a \in T : \A b \in T : a <= b
  <2> HIDE DEF T
  <2> QED
    BY <1>1, LeastOf
<1>3. \E g \in job[p].todo : \A h \in job[p].todo : First(g) <= First(h)
  BY <1>2
<1> QED
  BY <1>3 DEF NextGroup

(***************************************************************************)
(* Types.                                                                  *)
(***************************************************************************)
\* What a command has read when it writes.
Located ==
    \A p \in Procs :
        /\ {} \notin job[p].todo
        /\ pc[p] = "write" => job[p].todo # {}
        /\ pc[p] \in {"close", "merged", "status"} => job[p].incident \in Alerts

TypeInv == TypeOK /\ Located

\* The locations of a command.
Places == {"idle", "report", "group", "write", "list", "merge", "close", "merged", "status"}

\* Empty tables and idle processes.
LEMMA InitTypes == Init => TypeInv
<1> SUFFICES ASSUME Init PROVE TypeInv
  OBVIOUS
<1>1. NoRow \in Row /\ NoJob \in Job
  BY DEF NoRow, NoJob, Row, Job, Statuses, Unsettled
<1>2. commands \in 0..MaxCommands
  BY TriageAssumption DEF Init
<1>3. log \in Seq(Entry)
  BY DEF Init
<1>4. TypeOK
  BY <1>1, <1>2, <1>3 DEF Init, TypeOK, Unsettled
<1>5. Located
  BY DEF Init, Located, NoJob
<1> QED
  BY <1>4, <1>5 DEF TypeInv

\* A step of one process that puts it somewhere with locals of their type.
LEMMA MoveTypes ==
    ASSUME TypeInv, NEW p \in Procs, NEW to \in Places, NEW locals \in Job,
           pc' = [pc EXCEPT ![p] = to], job' = [job EXCEPT ![p] = locals],
           {} \notin locals.todo,
           to = "write" => locals.todo # {},
           to \in {"close", "merged", "status"} => locals.incident \in Alerts
    PROVE  Located' /\ pc' \in [Procs -> Places] /\ job' \in [Procs -> Job]
<1>1. pc \in [Procs -> Places] /\ job \in [Procs -> Job]
  BY DEF TypeInv, TypeOK, Places
<1>2. \A q \in Procs : /\ pc'[q] = IF q = p THEN to ELSE pc[q]
                       /\ job'[q] = IF q = p THEN locals ELSE job[q]
  BY <1>1
<1>3. Located'
  BY <1>2 DEF TypeInv, Located
<1> QED
  BY <1>1, <1>3

\* A command ends.
LEMMA ExitTypes ==
    ASSUME TypeInv, NEW p \in Procs, Exit(p)
    PROVE  Located' /\ pc' \in [Procs -> Places] /\ job' \in [Procs -> Job]
<1>1. NoJob \in Job /\ NoJob.todo = {}
  BY DEF NoJob, Job, NoRow, Row, Statuses, Unsettled
<1>2. "idle" \in Places
  BY DEF Places
<1> QED
  BY <1>1, <1>2, MoveTypes DEF Exit, Locals

\* An entry is added to the log.
LEMMA AppendTypes ==
    ASSUME TypeInv, NEW e \in Entry, log' = Append(log, e)
    PROVE  log' \in Seq(Entry)
BY DEF TypeInv, TypeOK

\* What a process read, with its fields of their types.
LEMMA JobFields ==
    ASSUME TypeInv, NEW p \in Procs
    PROVE  /\ job[p] \in Job /\ job[p].row \in Row
           /\ job[p].todo \in SUBSET ((SUBSET Alerts) \ {{}})
           /\ job[p].saved \subseteq SUBSET Alerts /\ job[p].merging \subseteq Alerts
           /\ job[p].incident \in Alerts \union {0} /\ job[p].status \in Statuses
           /\ job[p].accepted \subseteq Alerts
           /\ job[p].period \in Periods \union {Unsettled}
<1>1. job[p] \in Job
  BY DEF TypeInv, TypeOK
<1>2. {} \notin job[p].todo
  BY DEF TypeInv, Located
<1> QED
  BY <1>1, <1>2 DEF Job

\* The first command takes one of the bounded number.
LEMMA BeginTypes ==
    ASSUME TypeInv, NEW p, NEW to, Begin(p, to)
    PROVE  commands' \in 0..MaxCommands /\ settled' \in Periods \union {Unsettled}
BY TriageAssumption DEF Begin, TypeInv, TypeOK

\* The types after a step, from those of its parts.
LEMMA TypesTogether ==
    ASSUME Located', pc' \in [Procs -> Places], job' \in [Procs -> Job],
           alerts' \subseteq Alerts, incidents' \in [Alerts -> Row], log' \in Seq(Entry),
           settled' \in Periods \union {Unsettled}, commands' \in 0..MaxCommands
    PROVE  TypeInv'
BY DEF TypeInv, TypeOK, Places

\* Every command keeps the types.
LEMMA StepTypes == TypeInv /\ [Next]_vars => TypeInv'
<1> SUFFICES ASSUME TypeInv, [Next]_vars PROVE TypeInv'
  OBVIOUS
<1>0. /\ alerts \subseteq Alerts /\ incidents \in [Alerts -> Row] /\ log \in Seq(Entry)
      /\ settled \in Periods \union {Unsettled} /\ commands \in 0..MaxCommands
      /\ pc \in [Procs -> Places] /\ job \in [Procs -> Job] /\ Located
  BY DEF TypeInv, TypeOK, Places
<1>c. /\ NoJob \in Job /\ NoRow \in Row /\ Entry0 \in Entry /\ NoJob.todo = {}
      /\ "open" \in Statuses /\ "closed" \in Statuses
  BY DEF NoJob, Job, NoRow, Row, Statuses, Unsettled, Entry, Entry0
<1>1. ASSUME NEW p \in Procs, NEW file \in Files, IngestFile(p, file) PROVE TypeInv'
  <2>1. InFile(file) \subseteq Alerts
    <3>1. file \in Seq(Alerts \union {Bad, Unhandled})
      BY TriageAssumption
    <3> QED
      BY <3>1 DEF InFile
  <2> DEFINE locals == [NoJob EXCEPT !.accepted = Accepted(file)]
  <2>2. locals \in Job /\ locals.todo = {}
    BY <1>c, <2>1 DEF Accepted, Job, NoJob
  <2>3. pc' = [pc EXCEPT ![p] = "report"] /\ job' = [job EXCEPT ![p] = locals]
    BY <1>1 DEF IngestFile, Begin, Goto, Locals
  <2> HIDE DEF locals
  <2>4. Located' /\ pc' \in [Procs -> Places] /\ job' \in [Procs -> Job]
    BY <2>2, <2>3, MoveTypes DEF Places
  <2>5. commands' \in 0..MaxCommands /\ settled' \in Periods \union {Unsettled}
    BY <1>1, BeginTypes DEF IngestFile
  <2>6. alerts' \subseteq Alerts /\ incidents' = incidents /\ log' = log
    BY <1>0, <1>1, <2>1 DEF IngestFile
  <2> QED
    BY <1>0, <2>4, <2>5, <2>6, TypesTogether
<1>2. ASSUME NEW p \in Procs, NEW file \in Files, GiveUpFile(p, file) PROVE TypeInv'
  <2>1. pc' = [pc EXCEPT ![p] = "idle"] /\ UNCHANGED <<alerts, incidents, log, job>>
    BY <1>2 DEF GiveUpFile, Begin, Goto
  <2>2. Located' /\ pc' \in [Procs -> Places]
    BY <1>0, <2>1 DEF Located, Places
  <2>3. commands' \in 0..MaxCommands /\ settled' \in Periods \union {Unsettled}
    BY <1>2, BeginTypes DEF GiveUpFile
  <2> QED
    BY <1>0, <2>1, <2>2, <2>3, TypesTogether
<1>3. ASSUME NEW p \in Procs, ReportIngest(p) PROVE TypeInv'
  <2> DEFINE e == [Entry0 EXCEPT !.event = "alerts.ingest", !.accepted = job[p].accepted]
  <2>1. e \in Entry
    BY <1>c, JobFields DEF Entry, Entry0
  <2>2. log' = Append(log, e)
    BY <1>3 DEF ReportIngest
  <2> HIDE DEF e
  <2>3. log' \in Seq(Entry)
    BY <2>1, <2>2, AppendTypes
  <2>4. Located' /\ pc' \in [Procs -> Places] /\ job' \in [Procs -> Job]
    BY <1>3, ExitTypes DEF ReportIngest
  <2> QED
    BY <1>0, <1>3, <2>3, <2>4, TypesTogether DEF ReportIngest
<1>4. ASSUME NEW p \in Procs, StartTriage(p) PROVE TypeInv'
  <2>1. PICK period \in Periods :
           Locals(p, [NoJob EXCEPT !.period = period, !.todo = Groups(period)])
    BY <1>4 DEF StartTriage
  <2> DEFINE locals == [NoJob EXCEPT !.period = period, !.todo = Groups(period)]
  <2>2. locals \in Job /\ {} \notin locals.todo
    BY <1>0, <1>c, GroupsOfAlerts DEF Job, NoJob
  <2>3. pc' = [pc EXCEPT ![p] = "group"] /\ job' = [job EXCEPT ![p] = locals]
    BY <1>4, <2>1 DEF StartTriage, Begin, Goto, Locals
  <2> HIDE DEF locals
  <2>4. Located' /\ pc' \in [Procs -> Places] /\ job' \in [Procs -> Job]
    BY <2>2, <2>3, MoveTypes DEF Places
  <2>5. commands' \in 0..MaxCommands /\ settled' \in Periods \union {Unsettled}
    BY <1>4, BeginTypes DEF StartTriage
  <2> QED
    BY <1>0, <1>4, <2>4, <2>5, TypesTogether DEF StartTriage
<1>5. ASSUME NEW p \in Procs, ReadExisting(p) PROVE TypeInv'
  <2> DEFINE locals == [job[p] EXCEPT !.row = incidents[First(NextGroup(p))]]
  <2>1. incidents[First(NextGroup(p))] \in Row
    BY <1>0, <1>5, JobFields, NextOfGroups, FirstOfGroup DEF ReadExisting
  <2>2. locals \in Job /\ locals.todo = job[p].todo
    BY <2>1, JobFields DEF Job
  <2>3. pc' = [pc EXCEPT ![p] = "write"] /\ job' = [job EXCEPT ![p] = locals]
    BY <1>5 DEF ReadExisting, Goto, Locals
  <2> HIDE DEF locals
  <2>4. {} \notin job[p].todo /\ job[p].todo # {}
    BY <1>5, JobFields DEF ReadExisting
  <2>5. Located' /\ pc' \in [Procs -> Places] /\ job' \in [Procs -> Job]
    BY <2>2, <2>3, <2>4, MoveTypes DEF Places
  <2> QED
    BY <1>0, <1>5, <2>5, TypesTogether DEF ReadExisting
<1>6. ASSUME NEW p \in Procs, WriteIncident(p) PROVE TypeInv'
  <2> DEFINE g == NextGroup(p)
             locals == [job[p] EXCEPT !.todo = @ \ {g}, !.saved = @ \union {g}, !.row = NoRow]
  <2>1. job[p].todo # {}
    BY <1>6 DEF WriteIncident, Goto, TypeInv, Located
  <2>2. g \in job[p].todo /\ g \in (SUBSET Alerts) \ {{}} /\ First(g) \in Alerts
    BY <2>1, JobFields, NextOfGroups, FirstOfGroup
  <2>3. MergedRow(job[p].row, g) \in Row
    BY <1>c, <2>2, JobFields DEF MergedRow, Row
  <2>4. /\ incidents' = [incidents EXCEPT ![First(g)] = MergedRow(job[p].row, g)]
        /\ pc' = [pc EXCEPT ![p] = "group"] /\ job' = [job EXCEPT ![p] = locals]
    BY <1>6 DEF WriteIncident, Goto, Locals
  <2> HIDE DEF g
  <2>5. locals \in Job /\ {} \notin locals.todo
    BY <1>c, <2>2, JobFields DEF Job
  <2> HIDE DEF locals
  <2>6. Located' /\ pc' \in [Procs -> Places] /\ job' \in [Procs -> Job]
    BY <2>4, <2>5, MoveTypes DEF Places
  <2>7. incidents' \in [Alerts -> Row]
    BY <1>0, <2>2, <2>3, <2>4
  <2> QED
    BY <1>0, <1>6, <2>6, <2>7, TypesTogether DEF WriteIncident
<1>7. ASSUME NEW p \in Procs, ListIncidents(p) PROVE TypeInv'
  <2> DEFINE locals ==
        [job[p] EXCEPT !.merging = {i \in Alerts : Absorbed(job[p].saved, i)}]
  <2>1. locals \in Job /\ {} \notin locals.todo
    BY JobFields DEF Job
  <2>2. pc' = [pc EXCEPT ![p] = "merge"] /\ job' = [job EXCEPT ![p] = locals]
    BY <1>7 DEF ListIncidents, Goto, Locals
  <2> HIDE DEF locals
  <2>3. Located' /\ pc' \in [Procs -> Places] /\ job' \in [Procs -> Job]
    BY <2>1, <2>2, MoveTypes DEF Places
  <2> QED
    BY <1>0, <1>7, <2>3, TypesTogether DEF ListIncidents
<1>8. ASSUME NEW p \in Procs, ReadMerged(p) PROVE TypeInv'
  <2>1. PICK i \in job[p].merging :
           Locals(p, [job[p] EXCEPT !.merging = @ \ {i}, !.incident = i, !.row = incidents[i]])
    BY <1>8 DEF ReadMerged
  <2> DEFINE locals ==
        [job[p] EXCEPT !.merging = @ \ {i}, !.incident = i, !.row = incidents[i]]
  <2>2. i \in Alerts /\ incidents[i] \in Row
    BY <1>0, JobFields
  <2>3. locals \in Job /\ {} \notin locals.todo /\ locals.incident = i
    <3>1. job[p] \in Job /\ {} \notin job[p].todo
      BY JobFields
    <3>2. locals \in Job
      BY <2>2, <3>1 DEF Job
    <3>3. locals.todo = job[p].todo /\ locals.incident = i
      BY <3>1 DEF Job
    <3> QED
      BY <3>1, <3>2, <3>3
  <2>4. pc' = [pc EXCEPT ![p] = "close"] /\ job' = [job EXCEPT ![p] = locals]
    BY <1>8, <2>1 DEF ReadMerged, Goto, Locals
  <2> HIDE DEF locals
  <2>5. Located' /\ pc' \in [Procs -> Places] /\ job' \in [Procs -> Job]
    BY <2>2, <2>3, <2>4, MoveTypes DEF Places
  <2> QED
    BY <1>0, <1>8, <2>5, TypesTogether DEF ReadMerged
<1>9. ASSUME NEW p \in Procs, CloseMerged(p) PROVE TypeInv'
  <2>1. pc[p] = "close" /\ pc' = [pc EXCEPT ![p] = "merged"] /\ job' = job
    BY <1>9 DEF CloseMerged, Goto
  <2>2. Located' /\ pc' \in [Procs -> Places]
    BY <1>0, <2>1 DEF Located, Places
  <2>3. [job[p].row EXCEPT !.status = "closed"] \in Row
    BY <1>c, JobFields DEF Row
  <2>4. incidents' \in [Alerts -> Row]
    BY <1>0, <1>9, <2>3 DEF CloseMerged
  <2> QED
    BY <1>0, <1>9, <2>1, <2>2, <2>4, TypesTogether DEF CloseMerged
<1>10. ASSUME NEW p \in Procs, LogMerged(p) PROVE TypeInv'
  <2> DEFINE locals == [job[p] EXCEPT !.incident = 0, !.row = NoRow]
             e == [Entry0 EXCEPT !.event = "incident.merged",
                                 !.incident = job[p].incident, !.status = "closed"]
  <2>1. locals \in Job /\ {} \notin locals.todo
    BY <1>c, JobFields DEF Job
  <2>2. e \in Entry
    BY <1>c, JobFields DEF Entry, Entry0
  <2>3. /\ pc' = [pc EXCEPT ![p] = "merge"] /\ job' = [job EXCEPT ![p] = locals]
        /\ log' = Append(log, e)
    BY <1>10 DEF LogMerged, Goto, Locals
  <2> HIDE DEF locals, e
  <2>4. Located' /\ pc' \in [Procs -> Places] /\ job' \in [Procs -> Job]
    BY <2>1, <2>3, MoveTypes DEF Places
  <2>5. log' \in Seq(Entry)
    BY <2>2, <2>3, AppendTypes
  <2> QED
    BY <1>0, <1>10, <2>4, <2>5, TypesTogether DEF LogMerged
<1>11. ASSUME NEW p \in Procs, FinishTriage(p) PROVE TypeInv'
  <2>1. Located' /\ pc' \in [Procs -> Places] /\ job' \in [Procs -> Job]
    BY <1>11, ExitTypes DEF FinishTriage
  <2>2. log' \in Seq(Entry)
    BY <1>11, <1>c, AppendTypes DEF FinishTriage
  <2>3. settled' \in Periods \union {Unsettled}
    BY <1>11, JobFields DEF FinishTriage
  <2> QED
    BY <1>0, <1>11, <2>1, <2>2, <2>3, TypesTogether DEF FinishTriage
<1>12. ASSUME NEW p \in Procs, ReadStatus(p) PROVE TypeInv'
  <2>1. PICK i \in Alerts, s \in Statuses :
           Locals(p, [NoJob EXCEPT !.incident = i, !.status = s, !.row = incidents[i]])
    BY <1>12 DEF ReadStatus
  <2> DEFINE locals == [NoJob EXCEPT !.incident = i, !.status = s, !.row = incidents[i]]
  <2>2. locals \in Job /\ locals.todo = {} /\ locals.incident = i
    BY <1>0, <1>c DEF Job, NoJob
  <2>3. pc' = [pc EXCEPT ![p] = "status"] /\ job' = [job EXCEPT ![p] = locals]
    BY <1>12, <2>1 DEF ReadStatus, Begin, Goto, Locals
  <2> HIDE DEF locals
  <2>4. Located' /\ pc' \in [Procs -> Places] /\ job' \in [Procs -> Job]
    BY <2>2, <2>3, MoveTypes DEF Places
  <2>5. commands' \in 0..MaxCommands /\ settled' \in Periods \union {Unsettled}
    BY <1>12, BeginTypes DEF ReadStatus
  <2> QED
    BY <1>0, <1>12, <2>4, <2>5, TypesTogether DEF ReadStatus
<1>13. ASSUME NEW p \in Procs, WriteStatus(p) PROVE TypeInv'
  <2> DEFINE e == [Entry0 EXCEPT !.event = "incident.status", !.incident = job[p].incident,
                                 !.status = job[p].status]
  <2>1. e \in Entry
    BY <1>c, JobFields DEF Entry, Entry0
  <2>2. log' = Append(log, e)
    BY <1>13 DEF WriteStatus
  <2> HIDE DEF e
  <2>3. log' \in Seq(Entry)
    BY <2>1, <2>2, AppendTypes
  <2>4. [job[p].row EXCEPT !.status = job[p].status] \in Row
    BY JobFields DEF Row
  <2>5. incidents' \in [Alerts -> Row]
    BY <1>0, <1>13, <2>4 DEF WriteStatus
  <2>6. Located' /\ pc' \in [Procs -> Places] /\ job' \in [Procs -> Job]
    BY <1>13, ExitTypes DEF WriteStatus
  <2> QED
    BY <1>0, <1>13, <2>3, <2>5, <2>6, TypesTogether DEF WriteStatus
<1>14. ASSUME NEW p \in Procs, Crash(p) PROVE TypeInv'
  <2>1. Located' /\ pc' \in [Procs -> Places] /\ job' \in [Procs -> Job]
    BY <1>14, ExitTypes DEF Crash
  <2> QED
    BY <1>0, <1>14, <2>1, TypesTogether DEF Crash
<1>15. CASE UNCHANGED vars
  BY <1>15 DEF vars, TypeInv, TypeOK, Located
<1> QED
  BY <1>1, <1>2, <1>3, <1>4, <1>5, <1>6, <1>7, <1>8, <1>9, <1>10, <1>11, <1>12, <1>13,
     <1>14, <1>15 DEF Next

\* The types in every reachable state.
LEMMA TypesAlways == Spec => []TypeInv
BY InitTypes, StepTypes, PTL DEF Spec

\* The variables keep their types, for any number of processes.
THEOREM TypesCorrect == Spec => []TypeOK
<1>1. TypeInv => TypeOK
  BY DEF TypeInv
<1> QED
  BY <1>1, TypesAlways, PTL

(***************************************************************************)
(* Accepted alerts, for any number of processes.  An alert is counted by   *)
(* the ingestion that adds it and held by that process until it reports.   *)
(***************************************************************************)
Reports ==
    /\ \A n \in DOMAIN log : log[n].accepted \subseteq alerts
    /\ \A p \in Procs : job[p].accepted \subseteq alerts
    /\ \A m, n \in DOMAIN log : m # n => log[m].accepted \intersect log[n].accepted = {}
    /\ \A p, q \in Procs : p # q => job[p].accepted \intersect job[q].accepted = {}
    /\ \A n \in DOMAIN log, p \in Procs : log[n].accepted \intersect job[p].accepted = {}

\* An ingestion holds what it added and nobody counted before.
LEMMA IngestReports ==
    ASSUME TypeInv, Reports, NEW p \in Procs, NEW file, IngestFile(p, file)
    PROVE  Reports'
<1>1. /\ alerts' = alerts \union InFile(file) /\ log' = log
      /\ \A q \in Procs : job'[q].accepted =
            IF q = p THEN InFile(file) \ alerts ELSE job[q].accepted
  BY DEF IngestFile, Locals, Accepted, NoJob, TypeInv, TypeOK
<1> QED
  BY <1>1 DEF Reports

\* A process reports what it held and holds no more.
LEMMA HandOver ==
    ASSUME TypeInv, Reports, NEW p \in Procs, NEW e \in Entry,
           log' = Append(log, e), alerts' = alerts,
           e.accepted = {} \/ (e.accepted = job[p].accepted /\ job'[p].accepted = {}),
           \A q \in Procs : job'[q].accepted \subseteq job[q].accepted
    PROVE  Reports'
<1>1. log \in Seq(Entry)
  BY DEF TypeInv, TypeOK
<1>2. \A n \in DOMAIN log' : (n \in DOMAIN log /\ log'[n] = log[n]) \/ n = Len(log) + 1
  BY <1>1
<1>3. log'[Len(log) + 1] = e
  BY <1>1
<1>4. CASE e.accepted = {}
  BY <1>2, <1>3, <1>4 DEF Reports
<1>5. CASE e.accepted = job[p].accepted /\ job'[p].accepted = {}
  BY <1>2, <1>3, <1>5 DEF Reports
<1> QED
  BY <1>4, <1>5

\* Steps that report nothing and hold nothing new.
LEMMA NoReport ==
    ASSUME Reports, log' = log, alerts' = alerts,
           \A q \in Procs : job'[q].accepted \subseteq job[q].accepted
    PROVE  Reports'
BY DEF Reports

\* The steps other than that of an ingestion hold nothing new.
LEMMA HoldNothingNew ==
    ASSUME TypeInv, NEW p \in Procs,
           \/ Exit(p) \/ UNCHANGED job
           \/ \E locals : Locals(p, locals) /\ locals.accepted \subseteq job[p].accepted
    PROVE  \A q \in Procs : job'[q].accepted \subseteq job[q].accepted
<1>1. job \in [Procs -> Job] /\ NoJob.accepted = {}
  BY DEF TypeInv, TypeOK, NoJob
<1> QED
  BY <1>1 DEF Exit, Locals

\* Every command keeps the reports apart.
LEMMA StepReports == TypeInv /\ Reports /\ [Next]_vars => Reports'
<1> SUFFICES ASSUME TypeInv, Reports, [Next]_vars PROVE Reports'
  OBVIOUS
<1>c. Entry0 \in Entry /\ Entry0.accepted = {} /\ NoJob.accepted = {}
  BY DEF Entry0, Entry, Statuses, NoJob
<1>1. ASSUME NEW p \in Procs, NEW file \in Files, IngestFile(p, file) PROVE Reports'
  BY <1>1, IngestReports
<1>2. ASSUME NEW p \in Procs, ReportIngest(p) PROVE Reports'
  <2> DEFINE e == [Entry0 EXCEPT !.event = "alerts.ingest", !.accepted = job[p].accepted]
  <2>1. e \in Entry /\ e.accepted = job[p].accepted
    BY JobFields, <1>c DEF Entry, Entry0
  <2>2. log' = Append(log, e) /\ alerts' = alerts /\ Exit(p)
    BY <1>2 DEF ReportIngest
  <2> HIDE DEF e
  <2>3. job'[p].accepted = {}
    BY <1>c, <2>2 DEF Exit, Locals, TypeInv, TypeOK
  <2> QED
    BY <2>1, <2>2, <2>3, HoldNothingNew, HandOver
<1>3. ASSUME NEW p \in Procs, NEW e \in Entry, e.accepted = {}, log' = Append(log, e),
             alerts' = alerts,
             \A q \in Procs : job'[q].accepted \subseteq job[q].accepted
      PROVE  Reports'
  BY <1>3, HandOver
<1>4. ASSUME NEW p \in Procs, FinishTriage(p) PROVE Reports'
  BY <1>c, <1>3, <1>4, HoldNothingNew DEF FinishTriage
<1>5. ASSUME NEW p \in Procs, WriteStatus(p) PROVE Reports'
  <2> DEFINE e == [Entry0 EXCEPT !.event = "incident.status", !.incident = job[p].incident,
                                 !.status = job[p].status]
  <2>1. e \in Entry /\ e.accepted = {}
    BY JobFields, <1>c DEF Entry, Entry0
  <2>2. log' = Append(log, e) /\ alerts' = alerts /\ Exit(p)
    BY <1>5 DEF WriteStatus
  <2> HIDE DEF e
  <2> QED
    BY <1>3, <2>1, <2>2, HoldNothingNew
<1>6. ASSUME NEW p \in Procs, LogMerged(p) PROVE Reports'
  <2> DEFINE e == [Entry0 EXCEPT !.event = "incident.merged",
                                 !.incident = job[p].incident, !.status = "closed"]
             locals == [job[p] EXCEPT !.incident = 0, !.row = NoRow]
  <2>1. e \in Entry /\ e.accepted = {}
    BY JobFields, <1>c DEF Entry, Entry0, Statuses
  <2>2. locals.accepted = job[p].accepted
    BY JobFields DEF Job
  <2>3. log' = Append(log, e) /\ alerts' = alerts /\ Locals(p, locals)
    BY <1>6 DEF LogMerged
  <2> HIDE DEF e, locals
  <2> QED
    BY <1>3, <2>1, <2>2, <2>3, HoldNothingNew
<1>7. ASSUME NEW p \in Procs, NEW file \in Files, GiveUpFile(p, file) PROVE Reports'
  BY <1>7, NoReport, HoldNothingNew DEF GiveUpFile
<1>8. ASSUME NEW p \in Procs, StartTriage(p) PROVE Reports'
  <2>1. PICK period \in Periods :
           Locals(p, [NoJob EXCEPT !.period = period, !.todo = Groups(period)])
    BY <1>8 DEF StartTriage
  <2>2. [NoJob EXCEPT !.period = period, !.todo = Groups(period)].accepted = {}
    BY DEF NoJob
  <2> QED
    BY <1>8, <2>1, <2>2, NoReport, HoldNothingNew DEF StartTriage
<1>9. ASSUME NEW p \in Procs, ReadStatus(p) PROVE Reports'
  <2>1. PICK i \in Alerts, s \in Statuses :
           Locals(p, [NoJob EXCEPT !.incident = i, !.status = s, !.row = incidents[i]])
    BY <1>9 DEF ReadStatus
  <2>2. [NoJob EXCEPT !.incident = i, !.status = s, !.row = incidents[i]].accepted = {}
    BY DEF NoJob
  <2> QED
    BY <1>9, <2>1, <2>2, NoReport, HoldNothingNew DEF ReadStatus
<1>10. ASSUME NEW p \in Procs,
              ReadExisting(p) \/ WriteIncident(p) \/ ListIncidents(p) \/ ReadMerged(p)
       PROVE  Reports'
  <2>1. \E locals : Locals(p, locals) /\ locals.accepted = job[p].accepted
    <3>1. CASE ReadExisting(p)
      BY <3>1, JobFields DEF ReadExisting, Job
    <3>2. CASE WriteIncident(p)
      <4> DEFINE g == NextGroup(p)
                 locals == [job[p] EXCEPT !.todo = @ \ {g}, !.saved = @ \union {g}, !.row = NoRow]
      <4>1. Locals(p, locals)
        BY <3>2 DEF WriteIncident
      <4>2. locals.accepted = job[p].accepted
        BY JobFields DEF Job
      <4> HIDE DEF locals
      <4> QED
        BY <4>1, <4>2
    <3>3. CASE ListIncidents(p)
      <4> DEFINE locals ==
            [job[p] EXCEPT !.merging = {i \in Alerts : Absorbed(job[p].saved, i)}]
      <4>1. Locals(p, locals)
        BY <3>3 DEF ListIncidents
      <4>2. locals.accepted = job[p].accepted
        BY JobFields DEF Job
      <4> HIDE DEF locals
      <4> QED
        BY <4>1, <4>2
    <3>4. CASE ReadMerged(p)
      <4>1. PICK i \in job[p].merging :
               Locals(p, [job[p] EXCEPT !.merging = @ \ {i}, !.incident = i, !.row = incidents[i]])
        BY <3>4 DEF ReadMerged
      <4> DEFINE locals ==
            [job[p] EXCEPT !.merging = @ \ {i}, !.incident = i, !.row = incidents[i]]
      <4>2. locals.accepted = job[p].accepted
        BY JobFields DEF Job
      <4> HIDE DEF locals
      <4> QED
        BY <4>1, <4>2 DEF locals
    <3> QED
      BY <1>10, <3>1, <3>2, <3>3, <3>4
  <2>2. log' = log /\ alerts' = alerts
    BY <1>10 DEF ReadExisting, WriteIncident, ListIncidents, ReadMerged
  <2> QED
    BY <2>1, <2>2, NoReport, HoldNothingNew
<1>11. ASSUME NEW p \in Procs, CloseMerged(p) PROVE Reports'
  BY <1>11, NoReport, HoldNothingNew DEF CloseMerged
<1>12. ASSUME NEW p \in Procs, Crash(p) PROVE Reports'
  BY <1>12, NoReport, HoldNothingNew DEF Crash
<1>13. CASE UNCHANGED vars
  BY <1>13, NoReport DEF vars
<1> QED
  BY <1>1, <1>2, <1>4, <1>5, <1>6, <1>7, <1>8, <1>9, <1>10, <1>11, <1>12, <1>13 DEF Next

\* No alert is reported as accepted twice and only stored ones are, for any number of
\* processes ingesting the same alerts at the same time and dying anywhere.
THEOREM AcceptedOnceAlways == Spec => []AcceptedOnce
<1>1. Init => Reports
  BY DEF Init, Reports, NoJob
<1>2. Reports => AcceptedOnce
  BY DEF Reports, AcceptedOnce
<1> QED
  BY <1>1, <1>2, TypesAlways, StepReports, PTL DEF Spec

(***************************************************************************)
(* Commands that run one at a time, crashes included.  A triage that runs  *)
(* has read what is still there, its groups are those to store and those   *)
(* stored, and what it stored is there.                                    *)
(***************************************************************************)
OneAtATime == \A p, q \in Procs : p = q

Triaging(p) == pc[p] \in {"group", "write", "merge", "close", "merged"}

Merging(p) == pc[p] \in {"merge", "close", "merged"}

\* Every group of the period has its incident.
Kept(groups) == \A g \in groups : incidents[First(g)].alerts = g

Holds(p) ==
    /\ pc[p] # "idle" => settled = Unsettled
    /\ Triaging(p) => /\ job[p].todo \union job[p].saved = Groups(job[p].period)
                      /\ Kept(job[p].saved)
    /\ pc[p] = "write" => job[p].row = incidents[First(NextGroup(p))]
    /\ Merging(p) =>
          /\ job[p].todo = {}
          /\ \A i \in job[p].merging : Absorbed(job[p].saved, i)
          /\ \A i \in Alerts : Absorbed(job[p].saved, i) =>
                i \in job[p].merging \/ (pc[p] = "close" /\ i = job[p].incident)
    /\ pc[p] = "close" => /\ Absorbed(job[p].saved, job[p].incident)
                          /\ job[p].incident \notin job[p].merging
    /\ pc[p] \in {"close", "status"} => /\ job[p].row = incidents[job[p].incident]
                                        /\ Stored(job[p].incident)

\* An incident starts with the alert it is named after.
NamedAfterFirst ==
    \A i \in Alerts :
        Stored(i) => i \in incidents[i].alerts /\ \A b \in incidents[i].alerts : i <= b

\* After a complete triage.
AllSettled ==
    settled # Unsettled =>
        Kept(Groups(settled)) /\ \A i \in Alerts : ~Absorbed(Groups(settled), i)

SerialInv == TypeInv /\ NamedAfterFirst /\ AllSettled /\ \A p \in Procs : Holds(p)

\* What the one process keeps, all keep.
LEMMA OneHolds ==
    ASSUME OneAtATime, NEW p \in Procs, Holds(p)', NamedAfterFirst', AllSettled'
    PROVE  (NamedAfterFirst /\ AllSettled /\ \A q \in Procs : Holds(q))'
BY DEF OneAtATime

\* The location and the locals of a process after a step of its own.
LEMMA Moved ==
    ASSUME TypeInv, NEW p \in Procs
    PROVE  /\ \A to : pc' = [pc EXCEPT ![p] = to] => pc'[p] = to
           /\ \A locals : job' = [job EXCEPT ![p] = locals] => job'[p] = locals
BY DEF TypeInv, TypeOK

\* Tables that stay: groups, incidents and what absorbs them stay.
LEMMA SameTables ==
    ASSUME alerts' = alerts, incidents' = incidents
    PROVE  /\ \A period : Groups(period)' = Groups(period)
           /\ \A groups : Kept(groups)' <=> Kept(groups)
           /\ \A groups, i : Absorbed(groups, i)' <=> Absorbed(groups, i)
           /\ \A i : Stored(i)' <=> Stored(i)
           /\ NamedAfterFirst' <=> NamedAfterFirst
BY DEF Groups, InPeriod, Kept, Absorbed, Stored, NamedAfterFirst

\* A command begins: nothing is settled.
LEMMA BeginHolds ==
    ASSUME SerialInv, NEW p \in Procs, NEW to, Begin(p, to)
    PROVE  AllSettled' /\ settled' = Unsettled /\ pc'[p] = to
BY Moved DEF Begin, AllSettled, Goto, SerialInv

\* The store of alerts grows and nothing relies on it.
LEMMA IngestHolds ==
    ASSUME OneAtATime, SerialInv, NEW p \in Procs, NEW file,
           IngestFile(p, file) \/ GiveUpFile(p, file)
    PROVE  (NamedAfterFirst /\ AllSettled /\ \A q \in Procs : Holds(q))'
<1>1. incidents' = incidents
  BY DEF IngestFile, GiveUpFile
<1>2. NamedAfterFirst'
  BY <1>1 DEF SerialInv, NamedAfterFirst, Stored
<1>3. PICK to \in {"report", "idle"} : Begin(p, to)
  BY DEF IngestFile, GiveUpFile
<1>4. AllSettled' /\ settled' = Unsettled /\ pc'[p] \in {"report", "idle"}
  BY <1>3, BeginHolds
<1>5. Holds(p)'
  BY <1>4 DEF Holds, Triaging, Merging
<1> QED
  BY <1>2, <1>4, <1>5, OneHolds

\* A command ends: with nothing settled, or with what it settled.
LEMMA ExitHolds ==
    ASSUME OneAtATime, SerialInv, NEW p \in Procs, Exit(p), NamedAfterFirst', AllSettled'
    PROVE  (NamedAfterFirst /\ AllSettled /\ \A q \in Procs : Holds(q))'
<1>1. pc'[p] = "idle"
  BY Moved DEF Exit, SerialInv
<1>2. Holds(p)'
  BY <1>1 DEF Holds, Triaging, Merging
<1> QED
  BY <1>2, OneHolds

\* While a command runs nothing is settled.
LEMMA RunningUnsettled ==
    ASSUME SerialInv, NEW p \in Procs, pc[p] # "idle", settled' = settled
    PROVE  AllSettled' /\ settled' = Unsettled
BY DEF SerialInv, Holds, AllSettled

\* A triage begins with all its groups to store.
LEMMA StartHolds ==
    ASSUME OneAtATime, SerialInv, NEW p \in Procs, StartTriage(p)
    PROVE  (NamedAfterFirst /\ AllSettled /\ \A q \in Procs : Holds(q))'
<1>1. PICK period \in Periods :
         Locals(p, [NoJob EXCEPT !.period = period, !.todo = Groups(period)])
  BY DEF StartTriage
<1> DEFINE locals == [NoJob EXCEPT !.period = period, !.todo = Groups(period)]
<1>2. job'[p] = locals
  BY <1>1, Moved DEF Locals, SerialInv
<1>3. locals.period = period /\ locals.todo = Groups(period) /\ locals.saved = {}
  BY DEF NoJob
<1> HIDE DEF locals
<1>4. AllSettled' /\ settled' = Unsettled /\ pc'[p] = "group"
  BY BeginHolds DEF StartTriage
<1>5. alerts' = alerts /\ incidents' = incidents
  BY DEF StartTriage
<1>6. Groups(job[p].period)' = Groups(period)
  BY <1>2, <1>3, <1>5, SameTables
<1>7. Kept(job[p].saved)'
  BY <1>2, <1>3 DEF Kept
<1>8. Holds(p)'
  BY <1>2, <1>3, <1>4, <1>6, <1>7 DEF Holds, Triaging, Merging
<1>9. NamedAfterFirst'
  BY <1>5, SameTables DEF SerialInv
<1> QED
  BY <1>4, <1>8, <1>9, OneHolds

\* The row of the next group is read.
LEMMA ReadExistingHolds ==
    ASSUME OneAtATime, SerialInv, NEW p \in Procs, ReadExisting(p)
    PROVE  (NamedAfterFirst /\ AllSettled /\ \A q \in Procs : Holds(q))'
<1> DEFINE locals == [job[p] EXCEPT !.row = incidents[First(NextGroup(p))]]
<1>1. job'[p] = locals /\ pc'[p] = "write" /\ pc[p] = "group"
  BY Moved DEF ReadExisting, Locals, Goto, SerialInv
<1>2. /\ locals.period = job[p].period /\ locals.todo = job[p].todo
      /\ locals.saved = job[p].saved /\ locals.row = incidents[First(NextGroup(p))]
  BY JobFields DEF Job, SerialInv
<1> HIDE DEF locals
<1>3. alerts' = alerts /\ incidents' = incidents /\ settled' = settled
  BY DEF ReadExisting
<1>4. NextGroup(p)' = NextGroup(p)
  BY <1>1, <1>2 DEF NextGroup
<1>5. Groups(job[p].period)' = Groups(job[p].period) /\ (Kept(job[p].saved)' <=> Kept(job[p].saved))
  BY <1>1, <1>2, <1>3, SameTables
<1>6. AllSettled' /\ settled' = Unsettled
  BY <1>1, <1>3, RunningUnsettled
<1>7. Holds(p)'
  BY <1>1, <1>2, <1>3, <1>4, <1>5, <1>6 DEF SerialInv, Holds, Triaging, Merging
<1>8. NamedAfterFirst'
  BY <1>3, SameTables DEF SerialInv
<1> QED
  BY <1>6, <1>7, <1>8, OneHolds

\* The group being stored.
LEMMA StoredGroup ==
    ASSUME SerialInv, NEW p \in Procs, pc[p] = "write"
    PROVE  /\ NextGroup(p) \in job[p].todo /\ NextGroup(p) \in (SUBSET Alerts) \ {{}}
           /\ First(NextGroup(p)) \in Alerts /\ First(NextGroup(p)) \in NextGroup(p)
           /\ \A b \in NextGroup(p) : First(NextGroup(p)) <= b
<1>1. job[p].todo # {}
  BY DEF SerialInv, TypeInv, Located
<1>2. NextGroup(p) \in job[p].todo /\ NextGroup(p) \in (SUBSET Alerts) \ {{}}
  BY <1>1, JobFields, NextOfGroups DEF SerialInv
<1> QED
  BY <1>2, FirstOfGroup

\* The group is stored under its first alert, and the groups stored before stay.
LEMMA WriteIncidentHolds ==
    ASSUME OneAtATime, SerialInv, NEW p \in Procs, WriteIncident(p)
    PROVE  (NamedAfterFirst /\ AllSettled /\ \A q \in Procs : Holds(q))'
<1> DEFINE g == NextGroup(p)
           locals == [job[p] EXCEPT !.todo = @ \ {g}, !.saved = @ \union {g}, !.row = NoRow]
<1>1. pc[p] = "write" /\ pc'[p] = "group" /\ job'[p] = locals
  BY Moved DEF WriteIncident, Locals, Goto, SerialInv
<1>2. /\ locals.period = job[p].period /\ locals.todo = job[p].todo \ {g}
      /\ locals.saved = job[p].saved \union {g}
  BY JobFields DEF Job, SerialInv
<1>3. /\ g \in job[p].todo /\ g # {} /\ First(g) \in Alerts
      /\ First(g) \in g /\ \A b \in g : First(g) <= b
  BY <1>1, StoredGroup
<1>4. /\ alerts' = alerts /\ settled' = settled
      /\ incidents' = [incidents EXCEPT ![First(g)] = MergedRow(job[p].row, g)]
      /\ incidents \in [Alerts -> Row]
  BY DEF WriteIncident, SerialInv, TypeInv, TypeOK
<1> HIDE DEF g, locals
<1>5. \A i \in Alerts : incidents'[i].alerts = IF i = First(g) THEN g ELSE incidents[i].alerts
  BY <1>3, <1>4 DEF MergedRow
<1>6. job[p].todo \union job[p].saved = Groups(job[p].period) /\ Kept(job[p].saved)
  BY <1>1 DEF SerialInv, Holds, Triaging
<1>7. Kept(job[p].saved)'
  <2> SUFFICES ASSUME NEW h \in job[p].saved \union {g} PROVE incidents'[First(h)].alerts = h
    BY <1>1, <1>2 DEF Kept
  <2>1. First(h) \in Alerts
    BY <1>3, <1>6, GroupsOfAlerts, FirstOfGroup DEF SerialInv, TypeInv, TypeOK
  <2>2. CASE First(h) = First(g)
    <3>1. h = g
      BY <1>3, <1>6, <2>2, FirstTellsGroup DEF SerialInv, TypeInv, TypeOK
    <3> QED
      BY <1>5, <2>1, <2>2, <3>1
  <2>3. CASE First(h) # First(g)
    BY <1>5, <1>6, <2>1, <2>3 DEF Kept
  <2> QED
    BY <2>2, <2>3
<1>8. Groups(job[p].period)' = Groups(job[p].period)
  BY <1>1, <1>2, <1>4 DEF Groups, InPeriod
<1>9. (job[p].todo \union job[p].saved)' = job[p].todo \union job[p].saved
  BY <1>1, <1>2, <1>3
<1>10. AllSettled' /\ settled' = Unsettled
  BY <1>1, <1>4, RunningUnsettled
<1>11. Holds(p)'
  BY <1>1, <1>6, <1>7, <1>8, <1>9, <1>10 DEF Holds, Triaging, Merging
<1>12. NamedAfterFirst'
  BY <1>3, <1>5 DEF SerialInv, NamedAfterFirst, Stored
<1> QED
  BY <1>10, <1>11, <1>12, OneHolds

\* The incidents to close are all that are absorbed.
LEMMA ListHolds ==
    ASSUME OneAtATime, SerialInv, NEW p \in Procs, ListIncidents(p)
    PROVE  (NamedAfterFirst /\ AllSettled /\ \A q \in Procs : Holds(q))'
<1> DEFINE M == {i \in Alerts : Absorbed(job[p].saved, i)}
           locals == [job[p] EXCEPT !.merging = M]
<1>1. job'[p] = locals /\ pc'[p] = "merge" /\ pc[p] = "group" /\ job[p].todo = {}
  BY Moved DEF ListIncidents, Locals, Goto, SerialInv
<1>2. /\ locals.period = job[p].period /\ locals.todo = job[p].todo
      /\ locals.saved = job[p].saved /\ locals.merging = M
  BY JobFields DEF Job, SerialInv
<1>3. \A i \in Alerts : i \in M <=> Absorbed(job[p].saved, i)
  OBVIOUS
<1>4. M \subseteq Alerts
  OBVIOUS
<1> HIDE DEF M, locals
<1>5. alerts' = alerts /\ incidents' = incidents /\ settled' = settled
  BY DEF ListIncidents
<1>6. /\ Groups(job[p].period)' = Groups(job[p].period)
      /\ Kept(job[p].saved)' <=> Kept(job[p].saved)
      /\ \A i : Absorbed(job[p].saved, i)' <=> Absorbed(job[p].saved, i)
  BY <1>1, <1>2, <1>5, SameTables
<1>7. AllSettled' /\ settled' = Unsettled
  BY <1>1, <1>5, RunningUnsettled
<1>8. Holds(p)'
  <2>1. (Triaging(p) => /\ job[p].todo \union job[p].saved = Groups(job[p].period)
                        /\ Kept(job[p].saved))'
    BY <1>1, <1>2, <1>6 DEF SerialInv, Holds, Triaging
  <2>2. (Merging(p) => /\ job[p].todo = {}
                       /\ \A i \in job[p].merging : Absorbed(job[p].saved, i)
                       /\ \A i \in Alerts : Absorbed(job[p].saved, i) => i \in job[p].merging)'
    BY <1>1, <1>2, <1>3, <1>4, <1>6
  <2> QED
    BY <1>1, <1>7, <2>1, <2>2 DEF Holds
<1>9. NamedAfterFirst'
  BY <1>5, SameTables DEF SerialInv
<1> QED
  BY <1>7, <1>8, <1>9, OneHolds

\* The row of an incident to close is read again.
LEMMA ReadMergedHolds ==
    ASSUME OneAtATime, SerialInv, NEW p \in Procs, ReadMerged(p)
    PROVE  (NamedAfterFirst /\ AllSettled /\ \A q \in Procs : Holds(q))'
<1>1. PICK i \in job[p].merging :
         Locals(p, [job[p] EXCEPT !.merging = @ \ {i}, !.incident = i, !.row = incidents[i]])
  BY DEF ReadMerged
<1> DEFINE locals == [job[p] EXCEPT !.merging = @ \ {i}, !.incident = i, !.row = incidents[i]]
<1>2. job'[p] = locals /\ pc'[p] = "close" /\ pc[p] = "merge"
  BY <1>1, Moved DEF ReadMerged, Locals, Goto, SerialInv
<1>3. /\ locals.period = job[p].period /\ locals.todo = job[p].todo
      /\ locals.saved = job[p].saved /\ locals.merging = job[p].merging \ {i}
      /\ locals.incident = i /\ locals.row = incidents[i]
  BY JobFields DEF Job, SerialInv
<1> HIDE DEF locals
<1>4. alerts' = alerts /\ incidents' = incidents /\ settled' = settled
  BY DEF ReadMerged
<1>5. /\ Groups(job[p].period)' = Groups(job[p].period)
      /\ Kept(job[p].saved)' <=> Kept(job[p].saved)
      /\ \A j : Absorbed(job[p].saved, j)' <=> Absorbed(job[p].saved, j)
      /\ \A j : Stored(j)' <=> Stored(j)
  BY <1>2, <1>3, <1>4, SameTables
<1>6. AllSettled' /\ settled' = Unsettled
  BY <1>2, <1>4, RunningUnsettled
<1>7. /\ job[p].todo \union job[p].saved = Groups(job[p].period) /\ Kept(job[p].saved)
      /\ job[p].todo = {}
      /\ \A j \in job[p].merging : Absorbed(job[p].saved, j)
      /\ \A j \in Alerts : Absorbed(job[p].saved, j) => j \in job[p].merging
  BY <1>2 DEF SerialInv, Holds, Triaging, Merging
<1>8. Absorbed(job[p].saved, i) /\ Stored(i)
  BY <1>7 DEF Absorbed
<1>9. Absorbed(job[p].saved, i)' /\ Stored(i)'
  BY <1>5, <1>8
<1>10. /\ Absorbed(job[p].saved, job[p].incident)' /\ Stored(job[p].incident)'
       /\ (job[p].incident \notin job[p].merging)'
  BY <1>2, <1>3, <1>9
<1>11. Holds(p)'
  <2>1. (/\ job[p].todo \union job[p].saved = Groups(job[p].period) /\ Kept(job[p].saved)
         /\ job[p].todo = {})'
    BY <1>2, <1>3, <1>5, <1>7
  <2>2. (\A j \in job[p].merging : Absorbed(job[p].saved, j))'
    BY <1>2, <1>3, <1>5, <1>7
  <2>3. (\A j \in Alerts : Absorbed(job[p].saved, j) =>
            j \in job[p].merging \/ j = job[p].incident)'
    BY <1>2, <1>3, <1>5, <1>7
  <2> QED
    BY <1>2, <1>3, <1>4, <1>6, <1>10, <2>1, <2>2, <2>3 DEF Holds
<1>12. NamedAfterFirst'
  BY <1>4, SameTables DEF SerialInv
<1> QED
  BY <1>6, <1>11, <1>12, OneHolds

\* A write that changes only the status of an incident: its row was read.
LEMMA StatusOnly ==
    ASSUME SerialInv, NEW p \in Procs, pc[p] \in {"close", "status"}, NEW s,
           incidents' = [incidents EXCEPT ![job[p].incident] = [job[p].row EXCEPT !.status = s]]
    PROVE  /\ job[p].incident \in Alerts /\ incidents \in [Alerts -> Row]
           /\ \A i \in Alerts : /\ incidents'[i].alerts = incidents[i].alerts
                                /\ incidents'[i].status =
                                      IF i = job[p].incident THEN s ELSE incidents[i].status
           /\ \A i \in Alerts : Stored(i)' <=> Stored(i)
           /\ NamedAfterFirst'
<1>1. job[p].incident \in Alerts /\ incidents \in [Alerts -> Row]
  BY DEF SerialInv, TypeInv, TypeOK, Located
<1>2. job[p].row = incidents[job[p].incident] /\ job[p].row \in Row
  BY JobFields DEF SerialInv, Holds
<1>3. \A i \in Alerts : /\ incidents'[i].alerts = incidents[i].alerts
                        /\ incidents'[i].status =
                              IF i = job[p].incident THEN s ELSE incidents[i].status
  BY <1>1, <1>2 DEF Row
<1>4. \A i \in Alerts : Stored(i)' <=> Stored(i)
  BY <1>3 DEF Stored
<1>5. NamedAfterFirst'
  BY <1>3 DEF NamedAfterFirst, Stored, SerialInv
<1> QED
  BY <1>1, <1>3, <1>4, <1>5

\* An absorbed incident is closed: it is absorbed no more.
LEMMA CloseHolds ==
    ASSUME OneAtATime, SerialInv, NEW p \in Procs, CloseMerged(p)
    PROVE  (NamedAfterFirst /\ AllSettled /\ \A q \in Procs : Holds(q))'
<1>1. /\ pc[p] = "close" /\ pc'[p] = "merged" /\ job' = job
      /\ alerts' = alerts /\ settled' = settled
  BY Moved DEF CloseMerged, Goto, SerialInv
<1>2. /\ job[p].incident \in Alerts
      /\ \A i \in Alerts : /\ incidents'[i].alerts = incidents[i].alerts
                           /\ incidents'[i].status =
                                 IF i = job[p].incident THEN "closed" ELSE incidents[i].status
      /\ NamedAfterFirst'
  BY <1>1, StatusOnly DEF CloseMerged
<1>3. /\ job[p].todo \union job[p].saved = Groups(job[p].period) /\ Kept(job[p].saved)
      /\ job[p].todo = {}
      /\ \A i \in job[p].merging : Absorbed(job[p].saved, i)
      /\ \A i \in Alerts : Absorbed(job[p].saved, i) =>
            i \in job[p].merging \/ i = job[p].incident
  BY <1>1 DEF SerialInv, Holds, Triaging, Merging
<1>4. job[p].incident \notin job[p].merging
  BY <1>1 DEF SerialInv, Holds
<1>5. \A i \in Alerts :
         Absorbed(job[p].saved, i)' <=> Absorbed(job[p].saved, i) /\ i # job[p].incident
  BY <1>1, <1>2 DEF Absorbed, Stored
<1>6. Groups(job[p].period)' = Groups(job[p].period)
  BY <1>1 DEF Groups, InPeriod
<1>7. Kept(job[p].saved)'
  <2> SUFFICES ASSUME NEW g \in job[p].saved PROVE incidents'[First(g)].alerts = g
    BY <1>1 DEF Kept
  <2>1. First(g) \in Alerts
    BY <1>3, GroupsOfAlerts, FirstOfGroup DEF SerialInv, TypeInv, TypeOK
  <2> QED
    BY <1>2, <1>3, <2>1 DEF Kept
<1>8. job[p].merging \subseteq Alerts
  BY JobFields DEF SerialInv
<1>9. AllSettled' /\ settled' = Unsettled
  BY <1>1, RunningUnsettled
<1>10. Holds(p)'
  <2>1. (/\ job[p].todo \union job[p].saved = Groups(job[p].period) /\ Kept(job[p].saved)
         /\ job[p].todo = {})'
    BY <1>1, <1>3, <1>6, <1>7
  <2>2. (\A i \in job[p].merging : Absorbed(job[p].saved, i))'
    BY <1>1, <1>3, <1>4, <1>5, <1>8
  <2>3. (\A i \in Alerts : Absorbed(job[p].saved, i) => i \in job[p].merging)'
    BY <1>1, <1>3, <1>5
  <2> QED
    BY <1>1, <1>9, <2>1, <2>2, <2>3 DEF Holds
<1> QED
  BY <1>2, <1>9, <1>10, OneHolds

\* The merge is logged.
LEMMA LogMergedHolds ==
    ASSUME OneAtATime, SerialInv, NEW p \in Procs, LogMerged(p)
    PROVE  (NamedAfterFirst /\ AllSettled /\ \A q \in Procs : Holds(q))'
<1> DEFINE locals == [job[p] EXCEPT !.incident = 0, !.row = NoRow]
<1>1. job'[p] = locals /\ pc'[p] = "merge" /\ pc[p] = "merged"
  BY Moved DEF LogMerged, Locals, Goto, SerialInv
<1>2. /\ locals.period = job[p].period /\ locals.todo = job[p].todo
      /\ locals.saved = job[p].saved /\ locals.merging = job[p].merging
  BY JobFields DEF Job, SerialInv
<1> HIDE DEF locals
<1>3. alerts' = alerts /\ incidents' = incidents /\ settled' = settled
  BY DEF LogMerged
<1>4. /\ Groups(job[p].period)' = Groups(job[p].period)
      /\ Kept(job[p].saved)' <=> Kept(job[p].saved)
      /\ \A i : Absorbed(job[p].saved, i)' <=> Absorbed(job[p].saved, i)
  BY <1>1, <1>2, <1>3, SameTables
<1>5. AllSettled' /\ settled' = Unsettled
  BY <1>1, <1>3, RunningUnsettled
<1>6. /\ job[p].todo \union job[p].saved = Groups(job[p].period) /\ Kept(job[p].saved)
      /\ job[p].todo = {}
      /\ \A i \in job[p].merging : Absorbed(job[p].saved, i)
      /\ \A i \in Alerts : Absorbed(job[p].saved, i) => i \in job[p].merging
  BY <1>1 DEF SerialInv, Holds, Triaging, Merging
<1>7. Holds(p)'
  <2>1. (/\ job[p].todo \union job[p].saved = Groups(job[p].period) /\ Kept(job[p].saved)
         /\ job[p].todo = {})'
    BY <1>1, <1>2, <1>4, <1>6
  <2>2. (\A i \in job[p].merging : Absorbed(job[p].saved, i))'
    BY <1>1, <1>2, <1>4, <1>6
  <2>3. (\A i \in Alerts : Absorbed(job[p].saved, i) => i \in job[p].merging)'
    BY <1>1, <1>2, <1>4, <1>6
  <2> QED
    BY <1>1, <1>5, <2>1, <2>2, <2>3 DEF Holds
<1>8. NamedAfterFirst'
  BY <1>3, SameTables DEF SerialInv
<1> QED
  BY <1>5, <1>7, <1>8, OneHolds

\* At the end every group has its incident and nothing is left to absorb.
LEMMA FinishHolds ==
    ASSUME OneAtATime, SerialInv, NEW p \in Procs, FinishTriage(p)
    PROVE  (NamedAfterFirst /\ AllSettled /\ \A q \in Procs : Holds(q))'
<1>1. /\ pc[p] = "merge" /\ job[p].merging = {} /\ settled' = job[p].period
      /\ alerts' = alerts /\ incidents' = incidents /\ Exit(p)
  BY DEF FinishTriage
<1>2. /\ job[p].saved = Groups(job[p].period) /\ Kept(job[p].saved)
      /\ \A i \in Alerts : ~Absorbed(job[p].saved, i)
  <2>1. Holds(p) /\ Triaging(p) /\ Merging(p) /\ pc[p] # "close"
    BY <1>1 DEF SerialInv, Triaging, Merging
  <2>2. job[p].todo = {} /\ job[p].todo \union job[p].saved = Groups(job[p].period)
    BY <2>1 DEF Holds
  <2>3. Kept(job[p].saved)
    BY <2>1 DEF Holds
  <2>4. \A i \in Alerts : Absorbed(job[p].saved, i) => i \in job[p].merging
    BY <2>1 DEF Holds
  <2> QED
    BY <1>1, <2>2, <2>3, <2>4
<1>3. /\ Groups(settled)' = Groups(job[p].period)
      /\ \A groups : Kept(groups)' <=> Kept(groups)
      /\ \A groups, i : Absorbed(groups, i)' <=> Absorbed(groups, i)
  BY <1>1, SameTables
<1>4. AllSettled'
  BY <1>2, <1>3 DEF AllSettled
<1>5. NamedAfterFirst'
  BY <1>1, SameTables DEF SerialInv
<1> QED
  BY <1>1, <1>4, <1>5, ExitHolds

\* An analyst's command reads the row.
LEMMA ReadStatusHolds ==
    ASSUME OneAtATime, SerialInv, NEW p \in Procs, ReadStatus(p)
    PROVE  (NamedAfterFirst /\ AllSettled /\ \A q \in Procs : Holds(q))'
<1>1. PICK i \in Alerts, s \in Statuses :
         /\ Stored(i)
         /\ Locals(p, [NoJob EXCEPT !.incident = i, !.status = s, !.row = incidents[i]])
  BY DEF ReadStatus
<1> DEFINE locals == [NoJob EXCEPT !.incident = i, !.status = s, !.row = incidents[i]]
<1>2. job'[p] = locals
  BY <1>1, Moved DEF Locals, SerialInv
<1>3. locals.incident = i /\ locals.row = incidents[i]
  BY DEF NoJob
<1> HIDE DEF locals
<1>4. AllSettled' /\ settled' = Unsettled /\ pc'[p] = "status"
  BY BeginHolds DEF ReadStatus
<1>5. alerts' = alerts /\ incidents' = incidents
  BY DEF ReadStatus
<1>6. Stored(job[p].incident)'
  BY <1>1, <1>2, <1>3, <1>5 DEF Stored
<1>7. Holds(p)'
  BY <1>2, <1>3, <1>4, <1>5, <1>6 DEF Holds, Triaging, Merging
<1>8. NamedAfterFirst'
  BY <1>5, SameTables DEF SerialInv
<1> QED
  BY <1>4, <1>7, <1>8, OneHolds

\* Every command keeps what a triage relies on.
LEMMA StepSerial == OneAtATime /\ SerialInv /\ [Next]_vars => SerialInv'
<1> SUFFICES ASSUME OneAtATime, SerialInv, [Next]_vars
             PROVE  (NamedAfterFirst /\ AllSettled /\ \A q \in Procs : Holds(q))'
  BY StepTypes DEF SerialInv
<1> DEFINE Rest == (NamedAfterFirst /\ AllSettled /\ \A q \in Procs : Holds(q))'
<1>1. ASSUME NEW p \in Procs, ReportIngest(p) PROVE Rest
  <2>1. pc[p] = "report" /\ settled' = settled /\ Exit(p)
    BY <1>1 DEF ReportIngest
  <2>2. NamedAfterFirst' /\ AllSettled'
    BY <1>1, <2>1, SameTables, RunningUnsettled DEF ReportIngest, SerialInv
  <2> QED
    BY <2>1, <2>2, ExitHolds
<1>2. ASSUME NEW p \in Procs, WriteStatus(p) PROVE Rest
  <2>1. pc[p] = "status" /\ settled' = settled /\ Exit(p)
    BY <1>2 DEF WriteStatus
  <2>2. NamedAfterFirst' /\ AllSettled'
    BY <1>2, <2>1, StatusOnly, RunningUnsettled DEF WriteStatus
  <2> QED
    BY <2>1, <2>2, ExitHolds
<1>3. ASSUME NEW p \in Procs, Crash(p) PROVE Rest
  <2>1. pc[p] # "idle" /\ settled' = settled /\ Exit(p)
    BY <1>3 DEF Crash
  <2>2. NamedAfterFirst' /\ AllSettled'
    BY <1>3, <2>1, SameTables, RunningUnsettled DEF Crash, SerialInv
  <2> QED
    BY <2>1, <2>2, ExitHolds
<1>4. CASE UNCHANGED vars
  BY <1>4 DEF vars, SerialInv, NamedAfterFirst, AllSettled, Holds, Triaging, Merging, Kept,
              Groups, InPeriod, Absorbed, Stored, NextGroup
<1> QED
  BY <1>1, <1>2, <1>3, <1>4, IngestHolds, StartHolds, ReadExistingHolds, WriteIncidentHolds,
     ListHolds, ReadMergedHolds, CloseHolds, LogMergedHolds, FinishHolds, ReadStatusHolds
  DEF Next

\* Before the first command.
LEMMA InitSerial == Init => SerialInv
<1> SUFFICES ASSUME Init PROVE SerialInv
  OBVIOUS
<1>1. NamedAfterFirst /\ AllSettled
  BY DEF Init, NamedAfterFirst, AllSettled, Stored, NoRow
<1>2. ASSUME NEW p \in Procs PROVE Holds(p)
  BY DEF Init, Holds, Triaging, Merging
<1> QED
  BY <1>1, <1>2, InitTypes DEF SerialInv

\* Triage is idempotent: after a complete triage, and until the next command, every
\* group of its period has its incident and no open incident is absorbed, whatever
\* crashed before.
THEOREM RerunNeverChanges == ASSUME OneAtATime PROVE Spec => []RerunChangesNothing
<1>1. SerialInv => RerunChangesNothing
  <2> SUFFICES ASSUME SerialInv, settled # Unsettled,
                      NEW g \in Groups(settled)
               PROVE  incidents[First(g)] = MergedRow(incidents[First(g)], g)
    BY DEF SerialInv, AllSettled, RerunChangesNothing
  <2>1. g # {} /\ First(g) \in Alerts /\ incidents[First(g)].alerts = g
    BY GroupsOfAlerts, FirstOfGroup DEF SerialInv, AllSettled, Kept, TypeInv, TypeOK
  <2>2. incidents[First(g)] \in Row
    BY <2>1 DEF SerialInv, TypeInv, TypeOK
  <2> QED
    BY <2>1, <2>2 DEF MergedRow, Row
<1>2. SerialInv /\ [Next]_vars => SerialInv'
  BY StepSerial
<1> QED
  BY <1>1, <1>2, InitSerial, PTL DEF Spec

\* The change of a status by one step.
StatusKeptStep ==
    \A i \in Alerts :
        Stored(i) /\ incidents'[i].status # incidents[i].status =>
            \/ /\ log' # log
               /\ log'[Len(log')].event = "incident.status" /\ log'[Len(log')].incident = i
            \/ /\ incidents'[i].status = "closed"
               /\ \E j \in Alerts : j < i /\ incidents[i].alerts \subseteq incidents[j].alerts

\* Triage closes only incidents whose alerts all belong to one that started earlier,
\* and changes no status otherwise; analysts' changes are logged.
LEMMA StatusStep ==
    ASSUME OneAtATime, SerialInv, Next
    PROVE  StatusKeptStep
<1> SUFFICES ASSUME NEW i \in Alerts, Stored(i), incidents'[i].status # incidents[i].status
             PROVE  \/ /\ log' # log
                       /\ log'[Len(log')].event = "incident.status"
                       /\ log'[Len(log')].incident = i
                    \/ /\ incidents'[i].status = "closed"
                       /\ \E j \in Alerts : j < i /\ incidents[i].alerts \subseteq incidents[j].alerts
  BY DEF StatusKeptStep
<1>1. PICK p \in Procs : WriteIncident(p) \/ CloseMerged(p) \/ WriteStatus(p)
  BY DEF Next, IngestFile, GiveUpFile, ReportIngest, StartTriage, ReadExisting, ListIncidents,
         ReadMerged, LogMerged, FinishTriage, ReadStatus, Crash
<1>2. CASE WriteIncident(p)
  <2>1. pc[p] = "write" /\ First(NextGroup(p)) \in Alerts
    BY <1>2, StoredGroup DEF WriteIncident, Goto
  <2>2. job[p].row = incidents[First(NextGroup(p))]
    BY <2>1 DEF SerialInv, Holds
  <2>3. incidents' = [incidents EXCEPT ![First(NextGroup(p))] =
                         MergedRow(incidents[First(NextGroup(p))], NextGroup(p))]
    BY <1>2, <2>2 DEF WriteIncident
  <2>4. i = First(NextGroup(p)) => incidents'[i].status = incidents[i].status
    BY <2>1, <2>3 DEF MergedRow, Stored, SerialInv, TypeInv, TypeOK
  <2>5. i # First(NextGroup(p)) => incidents'[i] = incidents[i]
    BY <2>1, <2>3 DEF SerialInv, TypeInv, TypeOK
  <2> QED
    BY <2>4, <2>5
<1>3. CASE CloseMerged(p)
  <2>1. pc[p] = "close"
    BY <1>3 DEF CloseMerged, Goto
  <2>2. i = job[p].incident /\ incidents'[i].status = "closed"
    BY <1>3, <2>1, StatusOnly DEF CloseMerged
  <2>3. Absorbed(job[p].saved, i)
    BY <2>1, <2>2 DEF SerialInv, Holds
  <2>4. PICK g \in job[p].saved : incidents[i].alerts \subseteq g
    BY <2>3 DEF Absorbed
  <2>5. job[p].saved \subseteq Groups(job[p].period) /\ Kept(job[p].saved)
    BY <2>1 DEF SerialInv, Holds, Triaging
  <2>6. First(g) \in Alerts /\ \A b \in g : First(g) <= b
    BY <2>5, GroupsOfAlerts, FirstOfGroup DEF SerialInv, TypeInv, TypeOK
  <2>7. incidents[First(g)].alerts = g /\ First(g) # i
    BY <2>3, <2>5 DEF Kept, Absorbed
  <2>8. i \in incidents[i].alerts
    BY DEF SerialInv, NamedAfterFirst
  <2>9. First(g) < i
    <3>1. First(g) <= i /\ First(g) # i
      BY <2>4, <2>6, <2>7, <2>8
    <3>2. First(g) \in Nat /\ i \in Nat
      BY <2>6, TriageAssumption
    <3> QED
      BY <3>1, <3>2
  <2> QED
    BY <2>2, <2>4, <2>6, <2>7, <2>9
<1>4. CASE WriteStatus(p)
  <2> DEFINE e == [Entry0 EXCEPT !.event = "incident.status", !.incident = job[p].incident,
                                 !.status = job[p].status]
  <2>1. i = job[p].incident
    BY <1>4, StatusOnly DEF WriteStatus
  <2>2. e.event = "incident.status" /\ e.incident = i
    BY <2>1 DEF Entry0
  <2>3. log' = Append(log, e) /\ log \in Seq(Entry)
    BY <1>4 DEF WriteStatus, SerialInv, TypeInv, TypeOK
  <2> HIDE DEF e
  <2>4. Len(log') = Len(log) + 1 /\ log'[Len(log')] = e
    BY <2>3
  <2>5. log' # log
    BY <2>3, <2>4
  <2> QED
    BY <2>2, <2>4, <2>5
<1> QED
  BY <1>1, <1>2, <1>3, <1>4

\* No step but an analyst's changes a status, except that triage closes an incident
\* into one that started earlier: no chain of merges closes an incident into itself.
THEOREM StatusAlwaysKept == ASSUME OneAtATime PROVE Spec => StatusKept
<1>1. SerialInv /\ [Next]_vars => SerialInv'
  BY StepSerial
<1>2. SerialInv /\ [Next]_vars => [StatusKeptStep]_vars
  BY StatusStep
<1> QED
  BY <1>1, <1>2, InitSerial, PTL DEF Spec, StatusKept, StatusKeptStep
==========================================================================
