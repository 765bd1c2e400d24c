# A TLA+ model of socagent

These modules model *socagent*, the incident response agent in this repository, from two sides. One is
concurrency and failure: what happens to alerts, incidents, response actions and the audit log when several
command-line processes share one SQLite file, call a webhook that may not answer, and may die at any
moment. The other is judgement: how vendor records become alerts, incidents, hypotheses, scores and
proposals, and what must stay true of these conclusions when alerts arrive late and incidents are merged.
TLC checks the models on small instances; TLAPS proves every invariant and action property of the passing runs
for every instance.

## 1. The system

`socagent` is a command-line program. Every command is a process of its own: it reads the policy and context
files, opens the database, does its work in a handful of short transactions and exits. `triage` is meant to
run on a schedule, so commands do overlap. All shared state is in four SQLite tables (WAL mode) plus the
configuration files on disk.

| Component | State it keeps | Operations | Talks to |
| --- | --- | --- | --- |
| Action service, `executor.py` | table `actions`: status, approver, approval time, senior flag | `save_recommendations`, `approve`, `reject`, `execute` | `ActionStore`, `AuditLog`, a connector |
| Audit log, `db.AuditLog` | table `audit_log`, hash-chained | `append`, `verify` | called by everything that changes state, nested in the caller's transaction or on its own |
| Transactions, `db.Database` | nesting depth, one connection | `transaction` | SQLite |
| Stores, `db.AlertStore`, `db.IncidentStore` | tables `alerts`, `incidents` | `insert`, `window`, `upsert`, `update_status`, `list` | |
| Application service, `service.py` | none | `ingest_file`, `triage`, `_close_merged`, `set_status` | all agents, stores, action service |
| Alert agent, `agents/ingest.py` | none | `ingest_lines` | `AlertStore` |
| Correlation agent, `agents/correlation.py` | union-find during one call | `hubs`, `correlate`, `incident_id_for` | |
| Normalizers, `normalizers.py`, `mitre.py`, `security.py` | none | one function per source, `EntityBag.add`, `map_severity`, `alert_id` | called by the alert agent |
| Investigation agent, `agents/investigation.py` | none | seven hypothesis rules, `assess`, `build_incident` | context (assets, identities, indicators) |
| Containment agent, `agents/containment.py` | none | `recommend`, `_build` | policy, asset inventory |
| Summary writer, `agents/summary.py`, `providers/llm.py` | none | template or model text, grounding check | `JsonClient` |
| Webhook connector, `JsonClient`, `retry.py` | attempt counter of one call | one POST with retries | an external webhook |
| Redaction, reports, simulator, CLI, settings | none | conversions | |

What is hard here, and what correctness means:

- **Reads before `BEGIN`.** Python's `sqlite3` opens a transaction before the first `INSERT`, not before a
  `SELECT`. A lookup that precedes the first write of a `with db.transaction()` block runs outside the
  transaction. `approve`, `reject` and `execute` read even before the block. Whole rows are then saved over
  whatever is stored. Correct means: no interleaving runs an unapproved action, isolates a host without its
  snapshot, or stores a status the log does not show.
- **Crashes.** A command is several transactions and possibly one call to the outside. Correct means: what was
  begun is visible in the log, nothing is reported twice, and a later run converges.
- **Guardrails over time.** Approvals age, policies and inventories change between proposal, approval and
  execution. Correct means: the life cycle of `README.md` and the rules of `docs/architecture.md`.
- **Re-correlation.** Every triage recomputes the groups and overwrites incidents. Correct means: analysts'
  decisions survive, only absorbed incidents are closed, running it again changes nothing.
- **Calls to the outside.** An answer may be lost, late, unreadable or no answer to what was asked. Correct
  means: the log bounds what may have happened at the webhook, nothing but a lost outcome makes it act twice, and
  "executed" and "failed" follow the answer. The last is not so for two kinds of answer (section 3).
- **Judgement that is revised.** Incidents are judged again whenever an alert arrives, an absorbed incident
  is closed and nobody looks at it again. Correct means: the incident that absorbed it ranks no lower and
  still proposes to isolate the hosts that ransomware or lateral movement reached. Of the hosts that only the
  malware rule names the code does not promise this: a late alert can make it name others.
- **Names.** Guardrails and correlation compare names that five vendors spell differently. Correct means:
  no spelling of a vendor hides a protected host, account or address, nor an address that two alerts share in
  fields read as addresses. Records of the normalised schema are taken by their word (section 3).
- **Union-find.** Links are found between neighbours only, in an arbitrary order of entities, with path
  halving. Correct means: the groups are those of all pairs within the window, and `find` ends.

`PROJECT.json` lists every hazard at its line with the properties that cover it, and every component with
what is left out.

## 2. Modules

| Module | Models |
| --- | --- |
| `ActionLifecycle` | abstract: what the action service promises of one action |
| `ActionService` | `executor.py` over `ActionStore` and `AuditLog`, many processes, crashes |
| `Delivery` | `JsonClient.request` with retries, for the webhook connector and for the summary writer |
| `IncidentTriage` | ingestion, triage, merging and status changes of incidents, step by step, with crashes |
| `Correlation` | the groups `correlate` returns, as operators |
| `UnionFind` | `correlate`, `find` and `union` step by step |
| `Normalizers` | from a vendor's record to an alert |
| `Investigation` | from a set of alerts to hypotheses, a score and a priority |
| `Containment` | from an incident to proposed actions with their guardrails |
| `Pipeline` | composes `Normalizers`, `Correlation`, `Investigation` and `Containment` over the stores |
| `ActionServiceProofs` | theorems about the action service under any interleaving |
| `ActionServiceSerialProofs` | theorems about the action service when commands run one at a time; the refinement |
| `CorrelationProofs`, `UnionFindProofs` | theorems about the groups and about the loops that compute them |
| `IncidentTriageProofs`, `DeliveryProofs`, `InvestigationProofs`, `PipelineProofs` | theorems about these modules |
| `MCActionService`, `MCUnionFind`, `MCIncidentTriage`, `MCPipeline` | the instances TLC checks (`Delivery` needs none) |

`IncidentTriage` and `UnionFind` use `Correlation`. `ActionService` takes groups of proposals from a constant;
`Pipeline` shows of the proposals that are really made what that constant is assumed to satisfy (an isolation
comes with its snapshot). `Delivery` opens up the one step `CallConnector` of `ActionService`.

### ActionService

`rows` is the table `actions` (status, `approved_by`, `approved_at`, `requires_senior`; status `"absent"` is a
missing row), `audit` the table `audit_log`, `policy` the files on disk, `clock` the time in units of
`approval_ttl_minutes`. `calls` is a history of the requests the connector received. Each process has a
location `pc` and local variables `job`: the files it read when it started, its arguments, the row it
loaded, the event it is about to log, the hash it will chain to, and the groups a triage has still to save.

| Code | Actions |
| --- | --- |
| `build_service` | `Start` |
| `approve`, `reject` | `LoadApprove` / `LoadReject`, then `CommitRow` |
| `execute` | `LoadExecute`; `CheckBlocked`, `CheckExpired` or `CheckPassed`; `DepsUnmet` or `DepsMet`; `ReadTail`, `InsertEntry` (the start entry); `CallConnector`; `CommitRow` (`_record`) |
| `AuditLog.append` outside a transaction | `ReadTail`, `InsertEntry` |
| `save_recommendations` per group | `ReadFirst`, `SaveGroup` |
| rest of `triage`, `ingest_file` | `StartTriage`, `FinishTriage`, `Ingest` |
| a refused or reading command | `Refused` |
| signals, unexpected exceptions, lock time-outs | `Crash` |
| operators, time | `EditFiles`, `Tick` |

A transaction is one step from its first write to its commit, because from then on it holds SQLite's only
write lock and readers see the state before it. A nested `append` therefore reads the last hash under the
lock; an outermost `append` does not, so it is two steps. An entry's hash stands for everything before it,
so it is modelled by the entry's position: two entries with the same `prev` are a fork. `verify` then says
that every entry names the position before its own.

`triage` is in this module for what it does to actions: one `ReadFirst`/`SaveGroup` pair per incident, and the
`triage.run` entry. Which groups of proposals it may produce is the constant `Triages`, any sequence of
groups in which an isolation comes with its snapshot (`containment.recommend` always adds both). What it does
to incidents, with the entries `incident.merged` and `incident.status`, is `IncidentTriage`; those entries go
through the same `append` and add no new kind of step.

### Delivery

One action, one incident, and commands that call out: `Execute` is the moment after the start entry, `Write`
the summary writer's call during a triage. Both go through `JsonClient.request` under `call_with_retry`: `Send`,
then `Receive` (any code, body JSON or not) or `BreakOff` (any `httpx.TransportError`, time-outs
included), then `Retry`, `Return` or `Raise`. `RecordDone` and `RecordFailed` end an execution; `AcceptText`,
`FallBack` and `Uncaught` a summary, the last for the `TypeError` that a null text block of the Anthropic API
causes outside every handler. `Crash` may come anywhere.

What happens at the webhook is separate: `effects` counts how often it performed the action and `late`
the requests the client gave up on that may still get through (`Arrive`). The webhook is no part of this
repository. What its codes mean is the usual reading of HTTP: 2xx says performed, a refusal or redirection
says not performed, and a transient code leaves it open. `lost` is a history: the number of attempts
whose outcome got lost, because no definite answer came (`Receive` of a transient code, `BreakOff`) or because
the command died before it was recorded (`Crash`, `Unrecorded`). `RepeatedOnlyAfterLoss` compares it with the effects.

The length of waits is left out, and so is the dry-run connector, which calls nobody.

### Correlation and UnionFind

Alerts are numbers in the order of timestamp and id. `Correlation` defines hubs, the links between
neighbouring alerts of an entity, and the groups as the components of these links, each defined as the
least set closed under links. `UnionFind` runs the loops of `correlate`: `NextEntity` and `NextPair` are the
two `for` loops, `Halve` one iteration of `find`, `FoundFirst` and `Unite` the two ends of `union`. The order
of entities is arbitrary, as is the iteration order of a Python set. The feed (`at`, `keys`) is chosen in
`Init`.

### IncidentTriage

`alerts` and `incidents` are the tables, `log` the entries about them, incident `a` the one whose earliest alert
is `a`. `settled` is a history variable: the period of the last command if that was a complete triage.
`IngestFile`/`ReportIngest` are the two transactions of `ingest_file`. `StartTriage` reads the window and
correlates; `ReadExisting`/`WriteIncident` are `upsert`, per group; `ListIncidents`, `ReadMerged`, `CloseMerged`
and `LogMerged` are `_close_merged`, whose status and entry are separate transactions; `ReadStatus`/
`WriteStatus` are `set_status`. A file is a sequence of lines: an alert, a bad line that is counted
and skipped, or a line on which the normalizer fails with an exception that `ingest_lines` does not catch.
A log entry carries the set of alerts it reports as accepted, of which the code writes the number. `IngestFile` stores the whole batch after the last line; `GiveUpFile` stores nothing, for too many lines or
such an exception. `Crash` may come between any two. Assignees follow the status and are left out.
The collision of two incident ids (a hash cut to eight digits) is not modelled.

### Normalizers, Investigation, Containment

These translate functions, not steps. A record is its source, its ids, its time, its severity as a word or a
number, its techniques and tactics, which telling words its text has ("success", "c2"), and its fields as
pairs of a name and a raw value. `SplunkTypes`, `SentinelTypes`, `CrowdstrikeTypes` and `ElasticTypes` say which
entity types each vendor's fields give. A field is one text or a list (`listed`); the functions differ in which
lists they read, drop or take for hosts. `Collected` is `EntityBag.add`, with the canonical forms of
`security.py` as the constant `Canonical`; `Normalized` is `build`. Records of the normalised schema
(`generic`) keep their entities as they are.

`Investigation` has one operator per rule of `_hypotheses`, each yielding at most one hypothesis with the
evidence and confidence the code gives it; `Score` is `assess` without the texts. `Containment` has `Wanted`,
the kinds and targets of `recommend`, and `Proposal`, which is `_build`. Volume, the number of alerts
above which the score rises (5 in the code), is a constant so that small instances reach it.

### Pipeline

`alerts`, `incidents` and `actions` are the tables; `feed` remembers what was reported and `settled` the
period of the last command if that was a triage. `Ingest` is a file of one record; `Triage` is `IRService.triage` in
one step: window, correlation, suppression, investigation, proposals, `upsert`, `save_recommendations` and
`_close_merged`. Records arrive in any order of their times, so alerts come late and incidents merge.
`AddressFields` lists for each source the fields in which its mapping looks for an address, which is what
`SameAddressTogether` compares alerts by, as far as they hold one text. Fields that are read as host names
whatever they hold (`CompromisedEntity`, `host.name`, `hostname`) are not among them: an address there becomes a
host and is correlated as one. `Hub` is an entity that too many alerts of the period name.
`VendorSpellingsAreGuarded` is the guardrail as far as the code keeps it: what a vendor reports is compared with the policy
in canonical form, while records of the normalised schema are compared as they come and evade it (section 3). That
these steps are not atomic in the code is the subject of `IncidentTriage` and `ActionService`.

## 3. Runs

Deadlock is not checked: all commands are bounded by `MaxCommands`, and a finished loop stops.

| Run | Instance | Shows |
| --- | --- | --- |
| `service_concurrent` | two processes, two users, three actions (snapshot, isolation that depends on it, pre-approved notification), four commands of any kind after a first triage | `StartIsApproved`, `DependencyRan`, `CallNamesApprover`, `CallsAreBracketed`, `StatusWasLogged` under every interleaving and crash |
| `service_serial` | one process, five commands, two versions of the files (the second protects the host), two units of time, connector succeeds or fails | `ChainIntact`, `StatusMatchesLog`, `SettledOnce`, `ProtectedNotCalled`, and `LifecycleRefined`: the service implements `ActionLifecycle` |
| `union_find` | all feeds of four alerts over two entities, three timestamps, window 1, hubs above three | `ParentsDescend`, `GroupsFollowLinks`, `GroupsAsPromised`, `Terminates` |
| `incident_triage` | four alerts that form two incidents and, with the late feed, one; a hub; a low-severity alert; a bad line, a repeated line, a file that is too long, a line whose failure nobody catches; two periods; six commands | `AcceptedOnce`, `RerunChangesNothing`, `StatusKept` |
| `webhook_delivery` | three commands, three attempts (the default), one code of each kind, every body, both providers, every reply | `EffectsAccounted`, `RepeatedOnlyAfterLoss`, `CommandsEnd` |
| `pipeline` | every sequence of three of twelve records (four vendors, one schema record, two that are rejected), every order of arrival, two periods | `LargerRanksHigher`, `SpreadStaysContained`, `IsolationHasSnapshot`, `VendorSpellingsAreGuarded`, `SameAddressTogether`, `TriageIsRepeatable` |

The bounds let every case of interest happen. Four concurrent commands are enough for two overlapping
commands on each of two dependent actions, which is what a dependency, a lost update or a double
execution needs; starting after a triage (`TriagedSpec`) saves the commands that any scenario begins with, and a
further triage is among the four. Five serial commands reach triage, approval, execution that crashes,
execution again, and another triage under a changed policy. A clock of two exceeds a lifetime of one. Four
alerts over two entities give trees that path halving changes, gaps equal to and beyond the window, and
an entity in exactly and in more than `MaxDegree` alerts (three in `union_find`, two in `incident_triage` and `pipeline`).
Three commands let an action be executed, lost in a crash, executed again while a request of the first
attempt is still under way, with a summary in between. Three records are what a merge of two incidents
by a third takes, and what a lookback that loses the first alert takes; the twelve are chosen so that each
hypothesis occurs alone and with others, on the protected critical host and on an ordinary one, with the
same account, host and address in different fields and spellings, in lists as well, and with a protected account
and a protected address beside the protected host. Three alerts exceed `Volume` = 2. Four
records or more are covered by the proofs.
`service_concurrent` uses symmetry over processes and users, which play identical parts there (every user
may approve); it checks invariants only. Its clock stands still and its policy does not change: time, policies
and failures meet crashes in `service_serial`. The refinement and the log-tells-state properties are claimed
for one command at a time only; the runs below show why.

Fairness. `UnionFind` assumes weak fairness of its next step, because it is a loop of a running program that
waits for nothing. `Delivery` assumes weak fairness of what the client does by itself (`Client`): a command that
runs goes on, and a wait ends at the latest with the time-out that `JsonClient` gives to `httpx`
(`http_timeout_seconds`). It assumes nothing of the server, the network or the people who start commands,
and a crash stays possible. The other modules state safety only: a command may always crash, and nobody is
obliged to start another.

### Disagreements between code and documents

Each of these runs checks one statement of the repository's documents, and TLC finds a behaviour that
contradicts it. `PROJECT.json` quotes the statement.

| Run | What happens |
| --- | --- |
| `audit_chain_forks` | Two processes start executions, ingest or finish triages at the same time, read the same last hash and fork the chain. `audit --verify` then reports tampering. Appends inside a transaction that has already written are safe. |
| `rejection_lost` | `approve` reads a pending row, another process rejects the action, `approve` commits: the rejection is gone, and the log shows both. |
| `senior_bypassed` | An asset becomes critical between approval and execution: triage sets `requires_senior`, keeps the junior's approval, and execution goes ahead. |
| `merge_unlogged` | Triage dies between closing a merged incident and logging it. The next triage skips closed incidents, so the log never shows it. |
| `actions_duplicated` | A host alerts three times. A triage over the whole history makes one incident; one whose lookback has lost the first alert makes a second incident of the same activity, open beside the first, which proposes the same snapshot and isolation of the host and the same block of an address once more. |
| `status_code_ignored` | The webhook performs the action and answers 200 with a body that is not JSON. The action is recorded as failed, for good. |

Six more were met that have no run of their own, because the models of the runs above contain them:

- `request` refuses only codes of 400 and above and the client follows no redirection, so a 3xx with a JSON body is
  returned as a success and the action is recorded as executed though nothing was done, while the docstring
  (`providers/http.py:44`) says "ProviderError: On any other non-2xx response". `webhook_delivery` has such answers;
  `ExecutedWasPerformed` fails for them, and `ExecutedIsTrue` proves that it fails for no others.
- `generic` keeps names as they come, and `_build` compares them with the canonical names of the policy. A record
  of the normalised schema that spells the protected `dc01` as `DC01` has its isolation proposed for
  approval, while `containment.py:3-4` says that protected assets, accounts and addresses "are never
  proposed for automated action". `pipeline` has such a record; `VendorSpellingsAreGuarded` says that no vendor's
  record can do the same.
- `approve` looks at the stored status only, so an action whose host became protected after the proposal
  can be approved, while `SECURITY.md:39` says protection is "checked at approval and again at execution", and
  `README.md:164` that such targets "can never be approved". Execution does block it, which
  `ProtectedNotCalled` shows.
- A line with a time that no `time_t` holds makes `fromtimestamp` raise `OverflowError`; nothing catches it, and the
  good lines before and after it are not stored, while `ingest.py:29` says that bad lines are "never fatal".
  `GiveUpFile` in `incident_triage` does this. (An `OSError` on such a line is reported as "cannot read" the file.)
- An expired action is stored as `expired`, which `approve` refuses and triage keeps, while the error message
  (`executor.py:216`) says to "approve the action again". In `ActionLifecycle` no step leaves `expired`.
- `save_recommendations` and `upsert` read the stored row before their transaction begins, so a scheduled
  triage can restore a status from before a concurrent decision, while `docs/architecture.md:53-54` says that
  statuses are kept "so triage can run on a schedule". `rejection_lost` shows the same mechanism.

Under all of these races the properties of `service_concurrent` still hold: the worst outcome is a lost decision
or a verification failure, never an action that nobody approved.

## 4. Proofs

Every invariant and action property of the passing runs, and the refinement, is a theorem; `PROJECT.json` lists
them. The hypotheses beyond the `ASSUME`s of the modules are two: `OneAtATime`, and `NoRedirects` for the one
theorem `ExecutedIsTrue`.

### The action service, concurrent

`ActionServiceProofs` proves, for any sets of processes, actions, users, policies and triages:

- `TypeCorrect`: `Spec => []TypeOK`. `TypeOK` is not inductive: what a process writes is well typed because of
  where it is, so the invariant is `TypeInv == TypeOK /\ Located`, with `Located` stating for each location
  what the local variables hold.
- `StartsAreApproved`, `DependenciesRan`, `CallsNameApprover`, `StatusesWereLogged`, all from the invariant
  `Accountable`. The idea: every row in the table is *justified* by the log (its status has its entry, an approval its
  approver), and so is everything a process carries in its local variables, however stale. Being justified
  by a log is preserved when the log grows (`JustifiedForever`), and the log only grows (`AppendExtends`,
  `SavedLog`). So a stale row can be written back at any time and is still justified; that is why lost
  updates do no worse harm than losing a decision. `DependenciesStored` is the other half: an action is
  stored together with what it depends on, so "a missing dependency counts as met" (`executor.py:220`) never
  applies to a stored action. The step is split by what an action does: only local variables
  (`LocalAccountable`), or one of the four writing transactions (`CommitAccountable`, `InsertAccountable`,
  `CallAccountable`, `SaveAccountable`), with `QuietStep` and `LoudStep` for what they share.
- `ProtectedAreSpared`, from `Spared`: from its check to the call a command keeps the action and the files
  it checked.
- `CallsStayBracketed`, from `Bracketed`. The property counts entries and requests, and counting is not inductive
  while commands are under way. The account is: requests received plus processes between start entry and call
  (`Calling`) are at most the start entries, and outcomes recorded plus processes that hold one
  (`Recording`) are at most the requests. Each step moves one unit or, on a crash, loses one.

Assumptions are `ServiceAssumption` and `NamesAssumption`. Three deserve a word: each action depends on at
most one other (the snapshot, `containment.py:125`); a group of proposals has no duplicates and contains
the dependencies of its members; `"policy"`, `"system"` and the empty name are not names of people. The
code does not enforce the last one: approver names are claimed, not authenticated (`SECURITY.md`).

### The action service, one command at a time

`ActionServiceSerialProofs` assumes `OneAtATime == \A p, q \in Procs : p = q`. The code does not enforce it, so it is
a hypothesis and no `ASSUME`; the runs `audit_chain_forks` and `rejection_lost` are what happens without it.
Crashes, edits of the files and time remain. Proved are:

- `ChainStaysIntact`, from `Chained`: the hash that `append` has read outside a transaction is still the last one.
- `LogTellsStatus`, `SettlesOnce`, `RejectionStands` and `ServiceRefinesLifecycle`, all from `Fresh`: the row that the
  process carries is the stored row, what it is about to record is an arrow of the state diagram from that row
  (`Transition`), and dependencies checked are still met. From `Fresh` the lemma `Effect` concludes that each of the
  twenty-odd actions does one of four things: nothing that matters (`Quiet`), ask the connector (`Asked`), record
  one transition (`Recorded`), or store proposals (`Proposed`). The theorems go through these four cases only.
- `LogTellsStatus` uses `Told`: the last entry about an action, start entries aside, is one that leads to the stored
  status. `SettlesOnce` uses `SettledAt`: an action that may still be settled has no settling entry.
- `ServiceRefinesLifecycle` is the refinement: `Asked` is `Perform` of `ActionLifecycle`, `Recorded` one of
  `Approve`, `Reject`, `Protect`, `Expire`, `Finish` and `Fail`, `Proposed` is `Propose`, and the rest stutters.
- `RejectionStands` proves here the property that `rejection_lost` refutes for two processes.

### Correlation

`CorrelationProofs` is about the operators, for every set of alert numbers whose times ascend. `NeighboursSuffice`:
comparing the neighbours of each entity gives the groups of all pairs within the window. An induction over the
distance of two alerts would be natural and is out of reach, so `NeighboursReach` looks instead for the first alert of
the entity that a closed set lacks and the last one before it that the set has: they are neighbours. `LeastOf` and
`GreatestOf` get them from the well-foundedness of finite subsets. `GroupsPartition`: the groups
are nonempty, disjoint and cover the alerts.

`UnionFindProofs` proves types and `ParentsNeverAscend` (`UnionFindInv`), `GroupsAlwaysFollowLinks` and
`GroupsAlwaysAsPromised`. Groups are compared through closed sets: two alerts are in one group when no closed set
separates them. `GroupInv` says that a set is closed under parents and the links still pending exactly when it is
closed under the links of the entities begun (`UnitedAreBegun`), and that what `find` holds is together with what it
was asked for (`Searching`). Path halving changes no closed set (`HalveConnectsTheSame`), `union` adds one constraint
(`UniteConnectsRoots`). The last step cites `NeighboursSuffice`. `LoopsDescend` proves what termination rests on:
each step decreases a lexicographic measure of entities, pairs, place in the body and alert.

### Incidents

`IncidentTriageProofs` proves types and `AcceptedOnceAlways` for any number of processes: what a process has stored and
not yet reported is in no entry and no other process has it too (`Reports`). Under `OneAtATime` it proves
`RerunNeverChanges` and `StatusAlwaysKept` from `SerialInv`: incidents start with the alert they are named after, the
rows that the triage under way has saved are what it would save again, the incidents still to close are the absorbed ones, and after a complete triage nothing is left to do. Both need the hypothesis
because another triage, of another period, may save in between.

### Deliveries

`DeliveryProofs` proves types, `EffectsBounded` and `RepetitionsAreLosses` for every number of attempts, every set of
status codes and any number of commands. For the first the invariant is `Budget`: effects, late
requests and the attempts the current call has left (`Remaining`) are paid for by the start entries,
`Attempts` each. For the second it is `LossesCovered`: every effect goes back to an attempt that lost its outcome, but for one
that belongs to a definite answer, in hand or recorded (`Sure`); and a recorded answer settles the action, so
that there is no second. `ExecutedIsTrue` is how far "executed" can be trusted: if the
server never redirects (`NoRedirects`), such an action was performed. It is no property of a
run, because redirections break it. `RetriesAreBounded` is the safety half of `CommandsEnd`: a command
that has called out takes at most `3 * Attempts + 1` steps of its own, whatever the server does.

### Judgement

`InvestigationProofs` proves `RiskAscends`: for finite sets of alerts `A \subseteq B` the score of `B` is at least that
of `A`. There is one lemma per summand and one per rule. A rule may lose nothing (`RansomwareGrows`,
`CredentialGrows`, ...): what is found in `A` is found in `B` with at least the same confidence, though
the evidence may differ, as for malware, where only the first execution counts. `multi_stage_activity` is never of high
confidence and so adds nothing.

`PipelineProofs` proves, for every set of records, policy, inventory and feed:

- `TypesCorrect`, with the risk between 0 and 100, one row for each alert id and one for each action key. That
  keys stay unique needs that a triage names no two incidents alike (`CurrentNamed`), which follows from
  `GroupsPartition`: an incident is named after one of its own alerts.
- `IsolationsHaveSnapshots`, from `IsolationInv`: every stored action has the status its policy gave it
  (`ActionsFollowPolicy`), and isolations are stored in pairs with snapshots. The policy protects the two kinds
  for the same hosts, so the pair agrees on `manual_only`.
- `LargerIncidentsRankHigher`, from `RankInv`: a stored incident is still what `Incident` makes of its alerts
  (`IncidentsAreRows`), which holds because alerts are never changed and a row is always written whole. With
  `RiskAscends` that is enough, whatever correlation did.
- `SpreadIsContained`, from `SpreadInv`: each stored incident has its spread hosts proposed for isolation
  (`IncidentsContained`), and the spread hosts grow with the alerts (`ReachedGrows`).
- `AddressesStayTogether`: an address that is the one text of an address field of its source becomes an entity in
  canonical form (`AddressesCollected`), two alerts with an entity in common that is neither noise nor a hub are in one group
  (`SharingGroup`, from `NeighboursSuffice`), and `upsert` stores each group (`GroupsAreStored`). A pair of singletons
  of low severity cannot be dropped, because a group of two is never suppressed.
- `VendorTargetsAreGuarded`, from `GuardInv`: every guarded target is an entity of a stored alert (`TargetsReported`, with `TargetsAreNamed`), entities are
  reported under that name or collected in canonical form (`EntitiesAreReported`), and a status other than
  `manual_only` means that the name is not in the policy (`ActionsFollowPolicy`). It needs no
  hypothesis about names: canonical forms and policy are any sets.
- `RepeatedTriageSettles`, from `RepeatInv`: what a triage has stored is a fixed point of `upsert`,
  `_close_merged` and `save_recommendations` (`FixedRows`, `FixedActions`), and a fixed point is stored as it is
  (`FixedStays`).

Their assumptions are those of the modules, among them that the tactics of all records are finitely many.

### Only model-checked

`Terminates` and `CommandsEnd`, which are liveness under fairness; `LoopsDescend` and `RetriesAreBounded` prove that
neither a loop nor a call can go on for ever, and what is left to TLC is that neither stops too early. The
six statements of documents that the code does not keep are refuted by runs.

## 5. Plan and limits

Left to do, the most useful first:

1. Proofs: that no location of a client or loop is left without a step whose guard holds, stated as a predicate on
   states, so that only the use of fairness is left to TLC; what else of `IncidentTriage` and of the action service
   survives without `OneAtATime`.
2. `IncidentTriage` with two processes: which decisions survive an overlapping triage.
3. The checks of policy and context files (`config.py`), if a statement about them turns up that a document
   makes and a unit test does not settle.

### Not modelled

- Redaction, report rendering (`reporting.py`), the simulator, logging and exception classes, argument parsing
  and printing: they convert data, keep no state and decide nothing that is stored.
- Timeline, gaps, titles, score factors, rationale, warnings and summary texts, for the same reason.
- Regular expressions and parsers of canonical forms, and Pydantic's limits of length: `Canonical` and the
  conditions on records stand for them.
- Validation of the configuration files; the models take a valid policy and context.
- Collisions of hashes cut to eight or ten digits, and of a `generic` id with that of another source.

## 6. Running

    tlc -workers 2 -config ActionServiceSerial.cfg MCActionService.tla
    tlc -workers 2 -config Pipeline.cfg MCPipeline.tla
    tlapm ActionServiceProofs.tla

Each run's module and configuration are listed in `PROJECT.json`. A definition whose comment begins "Wrong
variant" is not part of the model: it is a plausible mistake in the definition that follows it, and the
run named in `PROJECT.json` under `mutants` fails when it takes that definition's place.
