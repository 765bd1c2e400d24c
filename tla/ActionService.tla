-------------------------- MODULE ActionService --------------------------
(***************************************************************************)
(* The action state machine of executor.py over ActionStore and AuditLog   *)
(* of db.py, as command-line processes share it: every command is a        *)
(* process with its own connection to one SQLite file in WAL mode, which   *)
(* reads the policy and context files once, when it starts.                *)
(*                                                                         *)
(* A SELECT that precedes the first write of a transaction runs outside    *)
(* it (Python's sqlite3 begins a transaction before the first INSERT), so  *)
(* what a command read may be stale when it writes.  From its first write  *)
(* to its commit a transaction holds the only write lock, so it is one     *)
(* step here.  A process may die between any two steps (Crash): a signal,  *)
(* an exception other than ActionError, a lock wait that times out.        *)
(***************************************************************************)
EXTENDS Integers, Sequences, FiniteSets

CONSTANTS
    Procs,          \* processes, each running one command after another
    Actions,        \* response actions
    Users,          \* people named by --approver and --executor
    PolicyActor,    \* the actor "policy" of executor.py
    System,         \* the actor "system" of service.py
    Nothing,        \* the empty string, and a subject that is not an action
    DependsOn,      \* Action.depends_on
    ApprovalFree,   \* actions of the kinds notify_owner and open_ticket
    Policies,       \* versions of the policy and context files operators install
    Triages,        \* what triage may propose: sequences of groups of proposals
    Outcomes,       \* what the connector may answer: "ok", "failed"
    MaxClock,       \* bound on time, in the unit of approval_ttl_minutes
    MaxCommands     \* bound on the number of commands started

\* A group holds the proposals for one incident, in the order of
\* containment.recommend: none twice, and an isolation only with its snapshot.
Groups == {g \in Seq(Actions) :
              /\ g # <<>>
              /\ \A i, j \in DOMAIN g : g[i] = g[j] => i = j
              /\ \A i \in DOMAIN g : \A d \in DependsOn[g[i]] :
                    \E j \in DOMAIN g : g[j] = d}

\* One version of the policy and context files, as far as actions depend on it.
PolicyVersions ==
    [protected : SUBSET (Actions \ ApprovalFree),   \* protected_hosts, _users, _ips
     highImpact : SUBSET (Actions \ ApprovalFree),  \* targets whose action needs a senior
     approvers : SUBSET Users,
     seniors : SUBSET Users,
     ttl : Nat \ {0}]                               \* approval_ttl_minutes

ASSUME ServiceAssumption ==
    /\ DependsOn \in [Actions -> SUBSET Actions]
    /\ \A a \in Actions : \A d, e \in DependsOn[a] : d = e  \* at most the snapshot
    /\ ApprovalFree \subseteq Actions
    /\ Policies \subseteq PolicyVersions /\ Policies # {}
    \* A snapshot and the isolation that depends on it have one host, so they are
    \* protected together; a snapshot never has a high impact.
    /\ \A q \in Policies, a \in Actions : \A d \in DependsOn[a] :
          /\ d \in q.protected <=> a \in q.protected
          /\ d \notin q.highImpact
    /\ \A t \in Triages : t \in Seq(Groups)
    /\ Outcomes \subseteq {"ok", "failed"}
    /\ MaxClock \in Nat /\ MaxCommands \in Nat

ASSUME NamesAssumption ==
    /\ PolicyActor \notin Users /\ System \notin Users /\ Nothing \notin Users
    /\ PolicyActor # System /\ PolicyActor # Nothing /\ System # Nothing
    /\ Nothing \notin Actions

VARIABLES
    rows,       \* table actions: the stored row of each action
    audit,      \* table audit_log, in id order
    calls,      \* history: the requests the connector received
    policy,     \* the policy and context files on disk
    clock,      \* the time every process reads
    commands,   \* number of commands started
    pc,         \* where each process is
    job         \* the local variables of each process

store == <<rows, audit>>
world == <<policy, clock, commands>>
vars == <<rows, audit, calls, policy, clock, commands, pc, job>>

Statuses == {"absent", "pending_approval", "approved", "rejected", "executed",
             "failed", "expired", "manual_only"}

\* Action: status, approved_by, approved_at and requires_senior; "absent" stands
\* for a missing row.  The other fields of Action are fixed by its id or are text.
Row == [status : Statuses, by : Users \union {PolicyActor, Nothing},
        at : 0..MaxClock, senior : BOOLEAN]

NoRow == [status |-> "absent", by |-> Nothing, at |-> 0, senior |-> FALSE]

Events == {"action.propose", "action.approve", "action.reject", "action.blocked",
           "action.expire", "action.execute.start", "action.execute.failed",
           "action.execute.done", "triage.run", "alerts.ingest"}

\* AuditEntry.  The hash of an entry stands for its whole past, so it is named by
\* the entry's position, 0 for GENESIS: hashes of different entries differ.
Entry == [actor : Users \union {PolicyActor, System}, event : Events,
          subject : Actions \union {Nothing}, prev : Nat]

NewEntry(actor, event, subject, prev) ==
    [actor |-> actor, event |-> event, subject |-> subject, prev |-> prev]

\* Wrong variant: the oldest hash instead of the newest (ORDER BY id ASC).
LastHashAscending == IF audit = <<>> THEN 0 ELSE 1

\* The hash of the last entry, which append reads to chain the next one.
LastHash == Len(audit)

\* The local variables of a command: the files it read, its arguments, the row it
\* loaded or is about to save, the event it will log, the hash it chains to and,
\* for triage, the groups still to save.
Job == [conf : Policies, act : Actions \union {Nothing},
        user : Users \union {PolicyActor, System, Nothing}, row : Row,
        event : Events \union {"none"}, tail : Nat, todo : Seq(Groups)]

NoJob == [conf |-> CHOOSE q \in Policies : TRUE, act |-> Nothing, user |-> Nothing,
          row |-> NoRow, event |-> "none", tail |-> 0, todo |-> <<>>]

Locations == {"idle", "ready", "commit", "check", "deps", "tail", "insert", "call",
              "read", "save"}

TypeOK ==
    /\ rows \in [Actions -> Row]
    /\ audit \in Seq(Entry)
    /\ calls \in Seq([act : Actions, by : Users \union {PolicyActor, Nothing},
                      executor : Users])
    /\ policy \in Policies
    /\ clock \in 0..MaxClock
    /\ commands \in 0..MaxCommands
    /\ pc \in [Procs -> Locations]
    /\ job \in [Procs -> Job]

Init ==
    /\ rows = [a \in Actions |-> NoRow]
    /\ audit = <<>>
    /\ calls = <<>>
    /\ policy \in Policies
    /\ clock = 0
    /\ commands = 0
    /\ pc = [p \in Procs |-> "idle"]
    /\ job = [p \in Procs |-> NoJob]

(***************************************************************************)
(* Control flow of one process.                                            *)
(***************************************************************************)
Goto(p, from, to) == pc[p] = from /\ pc' = [pc EXCEPT ![p] = to]

Locals(p, locals) == job' = [job EXCEPT ![p] = locals]

Exit(p) == pc' = [pc EXCEPT ![p] = "idle"] /\ Locals(p, NoJob)

\* build_service: the policy and context files are read once per command.
Start(p) ==
    /\ commands < MaxCommands
    /\ commands' = commands + 1
    /\ Goto(p, "idle", "ready")
    /\ Locals(p, [job[p] EXCEPT !.conf = policy])
    /\ UNCHANGED <<store, calls, policy, clock>>

\* A command that only reads, or that raises before it writes, changes nothing.
Refused(p) ==
    /\ pc[p] = "ready"
    /\ Exit(p)
    /\ UNCHANGED <<store, calls, world>>

(***************************************************************************)
(* approve and reject: load, check, then save in a transaction.            *)
(***************************************************************************)
MayApprove(q, row, user) ==
    /\ q.approvers # {} => user \in q.approvers \union q.seniors
    /\ row.senior => user \in q.seniors

Approvable(q, row, user) == row.status = "pending_approval" /\ MayApprove(q, row, user)

\* Wrong variant: an action in any status can be rejected.
RejectableAnyStatus(q, row, user) == row.status # "absent" /\ MayApprove(q, row, user)

Rejectable(q, row, user) ==
    row.status \in {"pending_approval", "approved"} /\ MayApprove(q, row, user)

\* Wrong variant: the update leaves out approved_by.
LoadApproveUncredited(p, a, user) ==
    /\ Goto(p, "ready", "commit")
    /\ Approvable(job[p].conf, rows[a], user)
    /\ Locals(p, [job[p] EXCEPT !.act = a, !.user = user, !.event = "action.approve",
                             !.row = [rows[a] EXCEPT !.status = "approved", !.at = clock]])
    /\ UNCHANGED <<store, calls, world>>

LoadApprove(p, a, user) ==
    /\ Goto(p, "ready", "commit")
    /\ Approvable(job[p].conf, rows[a], user)
    /\ Locals(p, [job[p] EXCEPT !.act = a, !.user = user, !.event = "action.approve",
                             !.row = [rows[a] EXCEPT !.status = "approved", !.by = user,
                                                     !.at = clock]])
    /\ UNCHANGED <<store, calls, world>>

LoadReject(p, a, user) ==
    /\ Goto(p, "ready", "commit")
    /\ Rejectable(job[p].conf, rows[a], user)
    /\ Locals(p, [job[p] EXCEPT !.act = a, !.user = user, !.event = "action.reject",
                             !.row = [rows[a] EXCEPT !.status = "rejected"]])
    /\ UNCHANGED <<store, calls, world>>

\* Wrong variant: the entry is appended in a transaction of its own.
CommitRowThenLog(p) ==
    /\ Goto(p, "commit", "tail")
    /\ rows' = [rows EXCEPT ![job[p].act] = job[p].row]
    /\ UNCHANGED <<audit, calls, world, job>>

\* The transaction of approve, reject and _record: the whole row is saved over
\* whatever is stored, then the entry is chained under the write lock.
CommitRow(p) ==
    /\ pc[p] = "commit"
    /\ rows' = [rows EXCEPT ![job[p].act] = job[p].row]
    /\ audit' = Append(audit, NewEntry(job[p].user, job[p].event, job[p].act, LastHash))
    /\ Exit(p)
    /\ UNCHANGED <<calls, world>>

(***************************************************************************)
(* execute.                                                                *)
(***************************************************************************)
\* Wrong variant: a rejected, expired or pending action can be executed.
LoadExecuteAnyStatus(p, a, user) ==
    /\ Goto(p, "ready", "check")
    /\ rows[a].status # "absent"
    /\ Locals(p, [job[p] EXCEPT !.act = a, !.user = user, !.row = rows[a]])
    /\ UNCHANGED <<store, calls, world>>

LoadExecute(p, a, user) ==
    /\ Goto(p, "ready", "check")
    /\ rows[a].status = "approved"
    /\ Locals(p, [job[p] EXCEPT !.act = a, !.user = user, !.row = rows[a]])
    /\ UNCHANGED <<store, calls, world>>

IsProtected(q, a) == a \in q.protected

\* Wrong variant: pre-approvals by the policy expire too.
IsStaleForAll(q, row) == clock - row.at > q.ttl

IsStale(q, row) == row.by # PolicyActor /\ clock - row.at > q.ttl

\* What execute has decided to record, with the row to save.
Decide(p, status, event) ==
    Locals(p, [job[p] EXCEPT !.row = [job[p].row EXCEPT !.status = status],
                             !.event = event])

CheckBlocked(p) ==
    /\ Goto(p, "check", "commit")
    /\ IsProtected(job[p].conf, job[p].act)
    /\ Decide(p, "manual_only", "action.blocked")
    /\ UNCHANGED <<store, calls, world>>

CheckExpired(p) ==
    /\ Goto(p, "check", "commit")
    /\ ~IsProtected(job[p].conf, job[p].act)
    /\ IsStale(job[p].conf, job[p].row)
    /\ Decide(p, "expired", "action.expire")
    /\ UNCHANGED <<store, calls, world>>

\* Wrong variant: the stored status is trusted to tell whether a target is protected.
CheckPassedByStatus(p) ==
    /\ Goto(p, "check", "deps")
    /\ ~IsStale(job[p].conf, job[p].row)
    /\ UNCHANGED <<store, calls, world, job>>

CheckPassed(p) ==
    /\ Goto(p, "check", "deps")
    /\ ~IsProtected(job[p].conf, job[p].act)
    /\ ~IsStale(job[p].conf, job[p].row)
    /\ UNCHANGED <<store, calls, world, job>>

\* Wrong variant: an approved dependency counts as met.
UnmetUnlessApproved(a) ==
    {d \in DependsOn[a] : rows[d].status \notin {"absent", "approved", "executed"}}

\* A dependency that is not stored counts as met.
Unmet(a) == {d \in DependsOn[a] : rows[d].status \notin {"absent", "executed"}}

DepsUnmet(p) ==
    /\ pc[p] = "deps"
    /\ Unmet(job[p].act) # {}
    /\ Exit(p)
    /\ UNCHANGED <<store, calls, world>>

\* Wrong variant: the connector is called before the start entry is written.
DepsMetUnlogged(p) ==
    /\ Goto(p, "deps", "call")
    /\ Unmet(job[p].act) = {}
    /\ Locals(p, [job[p] EXCEPT !.event = "action.execute.start"])
    /\ UNCHANGED <<store, calls, world>>

DepsMet(p) ==
    /\ Goto(p, "deps", "tail")
    /\ Unmet(job[p].act) = {}
    /\ Locals(p, [job[p] EXCEPT !.event = "action.execute.start"])
    /\ UNCHANGED <<store, calls, world>>

\* AuditLog.append as the outermost transaction: the last hash is read before
\* the INSERT begins the transaction.
ReadTail(p) ==
    /\ Goto(p, "tail", "insert")
    /\ Locals(p, [job[p] EXCEPT !.tail = LastHash])
    /\ UNCHANGED <<store, calls, world>>

InsertEntry(p) ==
    /\ pc[p] = "insert"
    /\ audit' = Append(audit, NewEntry(job[p].user, job[p].event, job[p].act, job[p].tail))
    /\ IF job[p].event = "action.execute.start"
       THEN Goto(p, "insert", "call") /\ UNCHANGED job
       ELSE Exit(p)
    /\ UNCHANGED <<rows, calls, world>>

\* The connector is called with no transaction open.  It may have acted whatever
\* it answers; a crash in location "commit" loses the answer.
CallConnector(p) ==
    /\ Goto(p, "call", "commit")
    /\ calls' = Append(calls, [act |-> job[p].act, by |-> job[p].row.by,
                               executor |-> job[p].user])
    /\ \/ "ok" \in Outcomes /\ Decide(p, "executed", "action.execute.done")
       \/ "failed" \in Outcomes /\ Decide(p, "failed", "action.execute.failed")
    /\ UNCHANGED <<store, world>>

(***************************************************************************)
(* triage, for what it does to actions and the log: save_recommendations   *)
(* once per group, then the entry of the run.                              *)
(***************************************************************************)
StartTriage(p) ==
    /\ Goto(p, "ready", "read")
    /\ \E t \in Triages : Locals(p, [job[p] EXCEPT !.todo = t, !.user = System])
    /\ UNCHANGED <<store, calls, world>>

Group(p) == Head(job[p].todo)

\* The lookup of the first proposal precedes the first write: no transaction yet.
ReadFirst(p) ==
    /\ job[p].todo # <<>>
    /\ Goto(p, "read", "save")
    /\ Locals(p, [job[p] EXCEPT !.row = rows[Group(p)[1]]])
    /\ UNCHANGED <<store, calls, world>>

\* The stored row save_recommendations goes by for the i-th proposal.
Existing(p, i) == IF i = 1 THEN job[p].row ELSE rows[Group(p)[i]]

\* containment._build: a protected target is manual only, low-risk kinds are
\* approved by the policy actor, the rest wait for an approver.  When the policy
\* actor approved is never asked, so that time is left out.
NeedsSenior(q, a) == a \in q.highImpact

\* Wrong variant: pre-approvals are recorded under the actor of triage.
ProposalBySystem(q, a) ==
    [status |-> IF IsProtected(q, a) THEN "manual_only"
                ELSE IF a \in ApprovalFree THEN "approved" ELSE "pending_approval",
     by |-> IF a \in ApprovalFree THEN System ELSE Nothing,
     at |-> 0,
     senior |-> NeedsSenior(q, a)]

Proposal(q, a) ==
    [status |-> IF IsProtected(q, a) THEN "manual_only"
                ELSE IF a \in ApprovalFree THEN "approved" ELSE "pending_approval",
     by |-> IF a \in ApprovalFree THEN PolicyActor ELSE Nothing,
     at |-> 0,
     senior |-> NeedsSenior(q, a)]

\* Wrong variant: a repeated proposal starts afresh.
SavedAfresh(p, i) == Proposal(job[p].conf, Group(p)[i])

\* What save_recommendations stores: a new proposal, or the refreshed one with
\* the status and approval of the row it found.
Saved(p, i) ==
    IF Existing(p, i).status = "absent"
    THEN Proposal(job[p].conf, Group(p)[i])
    ELSE [Existing(p, i) EXCEPT !.senior = NeedsSenior(job[p].conf, Group(p)[i])]

\* Positions of the group that hold a proposal not stored before.
New(p) == {i \in DOMAIN Group(p) : Existing(p, i).status = "absent"}

SaveGroup(p) ==
    /\ Goto(p, "save", "read")
    /\ rows' = [a \in Actions |->
                   IF \E i \in DOMAIN Group(p) : Group(p)[i] = a
                   THEN Saved(p, CHOOSE i \in DOMAIN Group(p) : Group(p)[i] = a)
                   ELSE rows[a]]
    /\ \E n \in 0..Len(Group(p)) : \E at \in [1..n -> New(p)] :
          /\ \A i, j \in 1..n : i < j => at[i] < at[j]
          /\ New(p) = {at[i] : i \in 1..n}
          /\ audit' = audit \o [i \in 1..n |->
                         NewEntry(PolicyActor, "action.propose", Group(p)[at[i]],
                                  LastHash + i - 1)]
    /\ Locals(p, [job[p] EXCEPT !.todo = Tail(job[p].todo), !.row = NoRow])
    /\ UNCHANGED <<calls, world>>

FinishTriage(p) ==
    /\ job[p].todo = <<>>
    /\ Goto(p, "read", "tail")
    /\ Locals(p, [job[p] EXCEPT !.event = "triage.run"])
    /\ UNCHANGED <<store, calls, world>>

\* ingest_file, for what it does to the log.
Ingest(p) ==
    /\ Goto(p, "ready", "tail")
    /\ Locals(p, [job[p] EXCEPT !.event = "alerts.ingest", !.user = System])
    /\ UNCHANGED <<store, calls, world>>

(***************************************************************************)
(* The environment.                                                        *)
(***************************************************************************)
Crash(p) ==
    /\ pc[p] # "idle"
    /\ Exit(p)
    /\ UNCHANGED <<store, calls, world>>

Tick ==
    /\ clock < MaxClock
    /\ clock' = clock + 1
    /\ UNCHANGED <<store, calls, policy, commands, pc, job>>

EditFiles ==
    /\ \E q \in Policies \ {policy} : policy' = q
    /\ UNCHANGED <<store, calls, clock, commands, pc, job>>

Request(p) ==
    \/ Refused(p)
    \/ \E a \in Actions, user \in Users :
          LoadApprove(p, a, user) \/ LoadReject(p, a, user) \/ LoadExecute(p, a, user)
    \/ StartTriage(p)
    \/ Ingest(p)

Step(p) ==
    \/ CommitRow(p)
    \/ CheckBlocked(p) \/ CheckExpired(p) \/ CheckPassed(p)
    \/ DepsUnmet(p) \/ DepsMet(p)
    \/ ReadTail(p) \/ InsertEntry(p)
    \/ CallConnector(p)
    \/ ReadFirst(p) \/ SaveGroup(p) \/ FinishTriage(p)

Next ==
    \/ \E p \in Procs : Start(p) \/ Request(p) \/ Step(p) \/ Crash(p)
    \/ Tick
    \/ EditFiles

Spec == Init /\ [][Next]_vars

(***************************************************************************)
(* Properties that hold whatever the processes interleave and crash.       *)
(***************************************************************************)
Logged(i, event, a) == audit[i].event = event /\ audit[i].subject = a

\* Every execution the log shows as started was approved before: by a logged
\* approval, or by the policy for the low-risk kinds (executor.execute).  Stale
\* rows, lost updates and crashes never make an unapproved action run.
StartIsApproved ==
    \A j \in DOMAIN audit : audit[j].event = "action.execute.start" =>
        \/ audit[j].subject \in ApprovalFree
        \/ \E i \in 1..(j - 1) : Logged(i, "action.approve", audit[j].subject)

\* The log shows every dependency of a started execution as done before it, so
\* no host is isolated before its snapshot was taken (executor.execute).
DependencyRan ==
    \A j \in DOMAIN audit : audit[j].event = "action.execute.start" =>
        \A d \in DependsOn[audit[j].subject] :
            \E i \in 1..(j - 1) : Logged(i, "action.execute.done", d)

\* "Protected targets are manual-only, checked [...] again at execution" (SECURITY.md):
\* whatever was approved, and whenever its target became protected, the connector is
\* not called if the files that the command read protect it.
ProtectedNotCalled ==
    \A p \in Procs : pc[p] = "call" => ~IsProtected(job[p].conf, job[p].act)

\* Whom the connector is told approved an action did approve it, in the log, or
\* is the policy actor and the kind is low-risk (executor.execute, the payload of
\* WebhookConnector.execute).
CallNamesApprover ==
    \A c \in DOMAIN calls :
        IF calls[c].by = PolicyActor
        THEN calls[c].act \in ApprovalFree
        ELSE \E i \in DOMAIN audit :
                Logged(i, "action.approve", calls[c].act) /\ audit[i].actor = calls[c].by

Count(a, events) ==
    Cardinality({i \in DOMAIN audit : audit[i].subject = a /\ audit[i].event \in events})

Performed(a) == Cardinality({c \in DOMAIN calls : calls[c].act = a})

\* The log never shows fewer starts than connector calls, nor more outcomes than
\* calls: a crash between the call and the record leaves a start without an
\* outcome, never a call nobody logged (executor.execute).
CallsAreBracketed ==
    \A a \in Actions :
        /\ Performed(a) <= Count(a, {"action.execute.start"})
        /\ Count(a, {"action.execute.done", "action.execute.failed"}) <= Performed(a)

\* The entry that says an action reached a status.
EventOf(status) ==
    CASE status = "approved" -> "action.approve"
      [] status = "rejected" -> "action.reject"
      [] status = "executed" -> "action.execute.done"
      [] status = "failed" -> "action.execute.failed"
      [] status = "expired" -> "action.expire"
      [] OTHER -> "action.propose"

\* Whatever status a row holds, the log shows that the action reached it: no
\* interleaving or crash stores a status without its entry (save and append share
\* a transaction).  Proposals start as pending, manual only or, for the low-risk
\* kinds, approved.
StatusWasLogged ==
    \A a \in Actions :
        \/ rows[a].status = "absent"
        \/ \E i \in DOMAIN audit :
              \/ Logged(i, EventOf(rows[a].status), a)
              \/ rows[a].status = "manual_only" /\ Logged(i, "action.blocked", a)
              \/ rows[a].status = "approved" /\ a \in ApprovalFree
                    /\ Logged(i, "action.propose", a)

(***************************************************************************)
(* Properties of commands that run one at a time, crashes included.        *)
(***************************************************************************)
\* AuditLog.verify: each entry chains to the entry before it.
Verify == \A i \in DOMAIN audit : audit[i].prev = i - 1

\* An honest history verifies: audit --verify never reports tampering for what
\* socagent itself wrote (AuditLog.append, AuditLog.verify).
ChainIntact == Verify

\* Entries that record a status, and the statuses each may have recorded.
StatusesAfter(event, a) ==
    CASE event = "action.propose" ->
            IF a \in ApprovalFree THEN {"approved"} ELSE {"pending_approval", "manual_only"}
      [] event = "action.approve" -> {"approved"}
      [] event = "action.reject" -> {"rejected"}
      [] event = "action.blocked" -> {"manual_only"}
      [] event = "action.expire" -> {"expired"}
      [] event = "action.execute.done" -> {"executed"}
      [] event = "action.execute.failed" -> {"failed"}

Transitions(a) ==
    {i \in DOMAIN audit : audit[i].subject = a /\ audit[i].event # "action.execute.start"}

\* The log tells the state: the last transition logged for an action is the one
\* that led to its stored status, and an action without entries is not stored
\* ("every transition is recorded in the tamper-evident audit log in the same
\* transaction", executor.py).
StatusMatchesLog ==
    \A a \in Actions :
        IF Transitions(a) = {} THEN rows[a].status = "absent"
        ELSE \E i \in Transitions(a) :
                /\ \A j \in Transitions(a) : j <= i
                /\ rows[a].status \in StatusesAfter(audit[i].event, a)

\* An action is settled at most once: executed, failed, rejected, expired and
\* blocked exclude each other and are final (the state diagram of README.md).
SettledOnce ==
    \A a \in Actions :
        Count(a, {"action.execute.done", "action.execute.failed", "action.reject",
                  "action.expire", "action.blocked"}) <= 1

\* One command at a time is the promised life cycle: the abstract state machine,
\* with the stored statuses and the number of connector calls.
Promised == INSTANCE ActionLifecycle WITH
    status <- [a \in Actions |-> rows[a].status],
    performed <- [a \in Actions |-> Performed(a)]

\* Every step of the service is a step of the life cycle of README.md or changes
\* no status and calls no connector.
LifecycleRefined == Promised!LifecycleSpec

(***************************************************************************)
(* What the documents say and the code does not keep.                      *)
(***************************************************************************)
\* README.md: no arrow of the state diagram leaves "rejected".  (Two commands at once
\* break it, one at a time does not.)
RejectionIsFinal ==
    [][\A a \in Actions : rows[a].status = "rejected" => rows'[a].status = "rejected"]_vars

\* docs/adr/0001: "Executing one needs [...] a senior approver for high-impact
\* actions".
HighImpactHasSenior ==
    \A p \in Procs : pc[p] = "call" /\ job[p].row.senior =>
        job[p].row.by \in job[p].conf.seniors

==========================================================================
