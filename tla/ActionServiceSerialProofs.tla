-------------------- MODULE ActionServiceSerialProofs ---------------------
(***************************************************************************)
(* What holds of ActionService when commands run one at a time, for every  *)
(* set of actions, users, policies and groups of proposals and every       *)
(* number of commands, crashes included: the log verifies and tells the    *)
(* state, an action is settled once, and the service is the life cycle of  *)
(* ActionLifecycle.  The runs AuditChainForks and RejectionLost show that  *)
(* two concurrent commands break these properties: OneAtATime is what the  *)
(* code leaves to its operators, and it is a hypothesis here.              *)
(***************************************************************************)
EXTENDS ActionServiceProofs

OneAtATime == \A p, q \in Procs : p = q

(***************************************************************************)
(* The chain of hashes.  What makes Verify inductive: the hash that append *)
(* has read outside the transaction is still the last one.                 *)
(***************************************************************************)
TailFresh == \A p \in Procs : pc[p] = "insert" => job[p].tail = Len(audit)

Chained == Verify /\ TailFresh

\* The log stays and p is not about to insert.
LEMMA StillChained ==
    ASSUME OneAtATime, TypeInv, Chained, NEW p \in Procs, audit' = audit,
           pc'[p] # "insert"
    PROVE  Chained'
BY DEF OneAtATime, Chained, Verify, TailFresh

\* One entry that chains to the last one keeps the chain.
LEMMA AppendChained ==
    ASSUME OneAtATime, TypeInv, Chained, NEW p \in Procs, pc'[p] # "insert",
           NEW e \in Entry, e.prev = Len(audit), audit' = Append(audit, e)
    PROVE  Chained'
<1>1. audit \in Seq(Entry) /\ Len(audit) \in Nat
  BY LenProperties DEF TypeInv, TypeOK
<1>2. /\ Len(audit') = Len(audit) + 1 /\ audit' \in Seq(Entry)
      /\ \A i \in 1..Len(audit) : audit'[i] = audit[i]
      /\ audit'[Len(audit) + 1] = e
  BY <1>1, AppendProperties
<1>3. DOMAIN audit = 1..Len(audit) /\ DOMAIN audit' = 1..Len(audit')
  BY <1>1, <1>2, LenProperties
<1>4. ASSUME NEW i \in 1..(Len(audit) + 1) PROVE audit'[i].prev = i - 1
  <2>1. CASE i \in 1..Len(audit)
    BY <1>2, <1>3, <2>1 DEF Chained, Verify
  <2>2. CASE i = Len(audit) + 1
    BY <1>1, <1>2, <2>2
  <2> QED
    BY <1>1, <2>1, <2>2
<1>5. Verify'
  BY <1>2, <1>3, <1>4 DEF Verify
<1> QED
  BY <1>5 DEF OneAtATime, Chained, TailFresh

\* The entries of save_recommendations chain to the log and to each other.
LEMMA SaveChained ==
    ASSUME OneAtATime, TypeInv, Chained, NEW p \in Procs, SaveGroup(p)
    PROVE  Chained'
<1>1. job[p].todo # <<>> /\ pc'[p] = "read" /\ audit \in Seq(Entry) /\ Len(audit) \in Nat
  BY LenProperties DEF SaveGroup, Goto, TypeInv, TypeOK, Located, LocatedAt
<1>2. PICK n \in 0..Len(Group(p)) : \E at \in [1..n -> New(p)] :
         audit' = audit \o [i \in 1..n |->
                     NewEntry(PolicyActor, "action.propose", Group(p)[at[i]],
                              LastHash + i - 1)]
  BY DEF SaveGroup
<1>3. PICK at \in [1..n -> New(p)] :
         audit' = audit \o [i \in 1..n |->
                     NewEntry(PolicyActor, "action.propose", Group(p)[at[i]],
                              LastHash + i - 1)]
  BY <1>2
<1> DEFINE new == [i \in 1..n |-> NewEntry(PolicyActor, "action.propose", Group(p)[at[i]],
                                           LastHash + i - 1)]
<1>4. n \in Nat
  BY <1>1, GroupType, LenProperties
<1>5. ASSUME NEW i \in 1..n PROVE new[i] \in Entry /\ new[i].prev = Len(audit) + i - 1
  <2>1. Group(p)[at[i]] \in Actions
    BY <1>1, GroupType DEF New
  <2>2. Len(audit) + i - 1 \in Nat
    BY <1>1, <1>4
  <2> QED
    BY <2>1, <2>2 DEF NewEntry, Entry, Events, LastHash
<1>6. new \in Seq(Entry) /\ Len(new) = n
  <2>1. new \in [1..n -> Entry]
    BY <1>5
  <2> HIDE DEF new
  <2> QED
    BY <1>4, <2>1, SeqDef, LenProperties
<1>7. audit' = audit \o new
  BY <1>3
<1> HIDE DEF new
<1>8. /\ audit' \in Seq(Entry) /\ Len(audit') = Len(audit) + n
      /\ \A i \in 1..Len(audit) : audit'[i] = audit[i]
      /\ \A i \in 1..n : audit'[Len(audit) + i] = new[i]
  <2>1. /\ Len(audit \o new) = Len(audit) + Len(new) /\ audit \o new \in Seq(Entry)
        /\ \A i \in 1..(Len(audit) + Len(new)) :
              (audit \o new)[i] = IF i <= Len(audit) THEN audit[i] ELSE new[i - Len(audit)]
    BY <1>1, <1>6, ConcatProperties
  <2>2. ASSUME NEW k \in 1..Len(new) PROVE (audit \o new)[Len(audit) + k] = new[k]
    <3>1. /\ Len(audit) + k \in 1..(Len(audit) + Len(new)) /\ ~(Len(audit) + k <= Len(audit))
          /\ (Len(audit) + k) - Len(audit) = k
      BY <1>1, <1>4, <1>6
    <3> QED
      BY <2>1, <3>1
  <2>3. \A i \in 1..Len(audit) : (audit \o new)[i] = audit[i]
    BY <1>1, <1>4, <1>6, <2>1
  <2> QED
    BY <1>6, <1>7, <2>1, <2>2, <2>3
<1>9. DOMAIN audit = 1..Len(audit) /\ DOMAIN audit' = 1..(Len(audit) + n)
  <2>1. DOMAIN audit = 1..Len(audit) /\ DOMAIN audit' = 1..Len(audit')
    BY <1>1, <1>8, LenProperties
  <2> QED
    BY <1>8, <2>1
<1>10. ASSUME NEW i \in 1..(Len(audit) + n) PROVE audit'[i].prev = i - 1
  <2>1. CASE i \in 1..Len(audit)
    BY <1>8, <1>9, <2>1 DEF Chained, Verify
  <2>2. CASE i > Len(audit)
    <3>1. i - Len(audit) \in 1..n /\ Len(audit) + (i - Len(audit)) = i
      BY <1>1, <1>4, <2>2
    <3>2. audit'[i].prev = Len(audit) + (i - Len(audit)) - 1
      BY <1>5, <1>8, <3>1
    <3> QED
      BY <1>1, <3>2
  <2> QED
    BY <1>1, <1>4, <2>1, <2>2
<1>11. Verify'
  BY <1>9, <1>10 DEF Verify
<1> QED
  BY <1>1, <1>11 DEF OneAtATime, Chained, TailFresh

\* Every step keeps the chain.
LEMMA StepChained ==
    ASSUME OneAtATime, TypeInv, Chained, [Next]_vars
    PROVE  Chained'
<1>1. ASSUME NEW p \in Procs, Start(p) \/ Request(p) \/ Step(p) \/ Crash(p)
      PROVE  Chained'
  <2>1. /\ pc \in [Procs -> Locations] /\ job \in [Procs -> Job] /\ job[p] \in Job
        /\ LocatedAt(p) /\ audit \in Seq(Entry) /\ Len(audit) \in Nat
    BY LenProperties DEF TypeInv, TypeOK, Located
  <2>2. CASE Start(p) \/ Request(p) \/ Crash(p)
    <3>1. pc'[p] \in {"ready", "idle", "commit", "check", "read", "tail"} /\ audit' = audit
      BY <2>1, <2>2 DEF Start, Request, Crash, Refused, LoadApprove, LoadReject, LoadExecute,
                        StartTriage, Ingest, Exit, Goto, store
    <3> QED
      BY <3>1, StillChained
  <2>3. CASE \/ CheckBlocked(p) \/ CheckExpired(p) \/ CheckPassed(p) \/ DepsUnmet(p)
             \/ DepsMet(p) \/ ReadFirst(p) \/ FinishTriage(p) \/ CallConnector(p)
    <3>1. pc'[p] \in {"commit", "deps", "idle", "tail", "save"} /\ audit' = audit
      BY <2>1, <2>3 DEF CheckBlocked, CheckExpired, CheckPassed, DepsUnmet, DepsMet,
                        ReadFirst, FinishTriage, CallConnector, Exit, Goto, store
    <3> QED
      BY <3>1, StillChained
  <2>4. CASE ReadTail(p)
    <3>1. job'[p].tail = Len(audit) /\ audit' = audit
      BY <2>1, <2>4 DEF ReadTail, Locals, LastHash, Job, store
    <3> QED
      BY <3>1 DEF OneAtATime, Chained, Verify, TailFresh
  <2>5. CASE CommitRow(p)
    <3> DEFINE e == NewEntry(job[p].user, job[p].event, job[p].act, LastHash)
    <3>1. pc[p] = "commit" /\ pc'[p] = "idle" /\ audit' = Append(audit, e)
      BY <2>5, ExitMove DEF CommitRow
    <3>2. e \in Entry /\ e.prev = Len(audit)
      BY <2>1, <3>1 DEF LocatedAt, NewEntry, Entry, LastHash
    <3> HIDE DEF e
    <3> QED
      BY <3>1, <3>2, AppendChained
  <2>6. CASE InsertEntry(p)
    <3> DEFINE e == NewEntry(job[p].user, job[p].event, job[p].act, job[p].tail)
    <3>1. pc[p] = "insert" /\ audit' = Append(audit, e)
      BY <2>6 DEF InsertEntry
    <3>2. pc'[p] \in {"idle", "call"}
      BY <2>1, <2>6 DEF InsertEntry, Exit, Goto
    <3>3. job[p].tail = Len(audit)
      BY <3>1 DEF Chained, TailFresh
    <3>4. e \in Entry /\ e.prev = Len(audit)
      BY <2>1, <3>1, <3>3 DEF LocatedAt, NewEntry, Entry, Job, Events
    <3> HIDE DEF e
    <3> QED
      BY <3>1, <3>2, <3>4, AppendChained
  <2> QED
    BY <1>1, <2>2, <2>3, <2>4, <2>5, <2>6, SaveChained DEF Step
<1>2. ASSUME Tick \/ EditFiles \/ UNCHANGED vars PROVE Chained'
  <2>1. audit' = audit /\ pc' = pc /\ job' = job
    BY <1>2 DEF Tick, EditFiles, vars, store
  <2> QED
    BY <2>1 DEF Chained, Verify, TailFresh
<1> QED
  BY <1>1, <1>2 DEF Next

\* An honest history verifies, however many commands ran and wherever they crashed, as
\* long as no two of them ran at once (AuditLog.append, AuditLog.verify).
THEOREM ChainStaysIntact ==
    ASSUME OneAtATime
    PROVE  Spec => []ChainIntact
<1>1. Init => TypeInv /\ Chained
  <2>1. Init => Chained
    BY DEF Init, Chained, Verify, TailFresh
  <2> QED
    BY <2>1, InitTypes
<1>2. (TypeInv /\ Chained) /\ [Next]_vars => (TypeInv /\ Chained)'
  BY StepTypes, StepChained
<1>3. TypeInv /\ Chained => ChainIntact
  BY DEF Chained, ChainIntact
<1> QED
  BY <1>1, <1>2, <1>3, PTL DEF Spec

(***************************************************************************)
(* Freshness.  The copies of rows that the process carries are the rows    *)
(* that are stored, and what it is about to record is a transition of the  *)
(* stored row.                                                             *)
(***************************************************************************)
\* The entries that settle an action, with the status each records.
Outcome == {<<"action.execute.done", "executed">>, <<"action.execute.failed", "failed">>}

\* Recording st with event takes the stored row of a along an arrow of the life cycle.
Transition(a, event, st) ==
    \/ /\ event = "action.approve" /\ st = "approved"
       /\ rows[a].status = "pending_approval"
    \/ /\ event = "action.reject" /\ st = "rejected"
       /\ rows[a].status \in {"pending_approval", "approved"}
    \/ /\ event = "action.blocked" /\ st = "manual_only"
       /\ rows[a].status = "approved"
    \/ /\ event = "action.expire" /\ st = "expired"
       /\ rows[a].status = "approved" /\ a \notin ApprovalFree
    \/ /\ <<event, st>> \in Outcome
       /\ rows[a].status = "approved" /\ Requests(calls, a) # {}

FreshAt(p) ==
    /\ pc[p] \in {"idle", "ready", "read", "save"} => job[p].act = Nothing
    /\ pc[p] \in {"tail", "insert"} =>
          job[p].act = Nothing \/ job[p].event = "action.execute.start"
    /\ Executing(p) => job[p].row = rows[job[p].act]
    /\ Executing(p) /\ pc[p] \in {"tail", "insert", "call"} => Unmet(job[p].act) = {}
    /\ pc[p] = "commit" => Transition(job[p].act, job[p].event, job[p].row.status)
    /\ pc[p] = "save" => job[p].row = rows[Group(p)[1]]

\* Low-risk kinds never wait for an approver, and only the policy approves them.
Preapproved ==
    \A a \in ApprovalFree :
        /\ rows[a].status # "pending_approval"
        /\ rows[a].status = "approved" => rows[a].by = PolicyActor

Fresh == Preapproved /\ \A p \in Procs : FreshAt(p)

\* The one process is fresh, so all are.
LEMMA OneFresh ==
    ASSUME OneAtATime, NEW p \in Procs, FreshAt(p)', Preapproved'
    PROVE  Fresh'
BY DEF OneAtATime, Fresh

\* Nothing is stored and no process runs.
LEMMA InitFresh == Init => Fresh
<1> SUFFICES ASSUME Init PROVE Fresh
  OBVIOUS
<1>1. \A a \in Actions : rows[a].status = "absent"
  BY DEF Init, NoRow
<1>2. \A p \in Procs : pc[p] = "idle" /\ job[p].act = Nothing
  BY DEF Init, NoJob
<1>3. Preapproved
  BY <1>1, ServiceAssumption DEF Preapproved
<1> QED
  BY <1>2, <1>3 DEF Fresh, FreshAt, Executing

\* The types a step of p starts from.
LEMMA Here ==
    ASSUME TypeInv, NEW p \in Procs
    PROVE  /\ pc \in [Procs -> Locations] /\ job \in [Procs -> Job] /\ job[p] \in Job
           /\ job[p].row \in Row /\ rows \in [Actions -> Row] /\ LocatedAt(p)
           /\ audit \in Seq(Entry) /\ calls \in Seq(Sent) /\ Len(audit) \in Nat
BY LenProperties DEF TypeInv, TypeOK, Located, Job, Sent

\* Steps that only read, decide or fail leave the process with fresh copies.
LEMMA LocalFresh ==
    ASSUME OneAtATime, TypeInv, Accountable, Fresh, NEW p \in Procs,
           \/ Start(p) \/ Request(p) \/ Crash(p)
           \/ CheckBlocked(p) \/ CheckExpired(p) \/ CheckPassed(p)
           \/ DepsUnmet(p) \/ DepsMet(p) \/ ReadTail(p)
           \/ ReadFirst(p) \/ FinishTriage(p)
    PROVE  Fresh'
<1>1. rows' = rows /\ calls' = calls
  BY DEF Start, Request, Crash, Refused, LoadApprove, LoadReject, LoadExecute, StartTriage,
         Ingest, CheckBlocked, CheckExpired, CheckPassed, DepsUnmet, DepsMet, ReadTail,
         ReadFirst, FinishTriage, store
<1>2. /\ pc \in [Procs -> Locations] /\ job \in [Procs -> Job] /\ job[p] \in Job
      /\ job[p].row \in Row /\ rows \in [Actions -> Row]
  BY Here
<1>3. Preapproved' /\ FreshAt(p)
  BY <1>1 DEF Fresh, Preapproved
<1>4. ASSUME Refused(p) \/ Crash(p) \/ DepsUnmet(p) PROVE FreshAt(p)'
  <2>1. pc'[p] = "idle" /\ job'[p] = NoJob
    BY <1>4, ExitMove DEF Refused, Crash, DepsUnmet
  <2> QED
    BY <2>1 DEF FreshAt, Executing, NoJob
<1>5. ASSUME Start(p) PROVE FreshAt(p)'
  <2>1. pc[p] = "idle" /\ pc'[p] = "ready" /\ job'[p].act = job[p].act
    BY <1>2, <1>5 DEF Start, Goto, Locals, Job
  <2> QED
    BY <1>3, <2>1 DEF FreshAt, Executing
<1>6. ASSUME NEW a \in Actions, NEW user \in Users, LoadApprove(p, a, user)
      PROVE FreshAt(p)'
  <2>1. rows[a] \in Row /\ rows[a].status = "pending_approval"
    BY <1>2, <1>6 DEF LoadApprove, Approvable
  <2>2. /\ pc'[p] = "commit" /\ job'[p].act = a
        /\ job'[p].event = "action.approve" /\ job'[p].row.status = "approved"
    BY <1>2, <1>6, <2>1 DEF LoadApprove, Goto, Locals, Job, Row
  <2> QED
    BY <1>1, <2>1, <2>2 DEF FreshAt, Executing, Transition
<1>7. ASSUME NEW a \in Actions, NEW user \in Users, LoadReject(p, a, user)
      PROVE FreshAt(p)'
  <2>1. rows[a] \in Row /\ rows[a].status \in {"pending_approval", "approved"}
    BY <1>2, <1>7 DEF LoadReject, Rejectable
  <2>2. /\ pc'[p] = "commit" /\ job'[p].act = a
        /\ job'[p].event = "action.reject" /\ job'[p].row.status = "rejected"
    BY <1>2, <1>7, <2>1 DEF LoadReject, Goto, Locals, Job, Row
  <2> QED
    BY <1>1, <2>1, <2>2 DEF FreshAt, Executing, Transition
<1>8. ASSUME NEW a \in Actions, NEW user \in Users, LoadExecute(p, a, user)
      PROVE FreshAt(p)'
  <2>1. pc'[p] = "check" /\ job'[p].act = a /\ job'[p].row = rows[a]
    BY <1>2, <1>8 DEF LoadExecute, Goto, Locals, Job
  <2> QED
    BY <1>1, <2>1 DEF FreshAt, Executing
<1>9. ASSUME StartTriage(p) PROVE FreshAt(p)'
  <2>1. pc[p] = "ready" /\ pc'[p] = "read" /\ job'[p].act = job[p].act
    BY <1>2, <1>9 DEF StartTriage, Goto, Locals, Job
  <2> QED
    BY <1>3, <2>1 DEF FreshAt, Executing
<1>10. ASSUME Ingest(p) PROVE FreshAt(p)'
  <2>1. /\ pc[p] = "ready" /\ pc'[p] = "tail" /\ job'[p].act = job[p].act
        /\ job'[p].event = "alerts.ingest"
    BY <1>2, <1>10 DEF Ingest, Goto, Locals, Job
  <2> QED
    BY <1>3, <2>1 DEF FreshAt, Executing
<1>11. ASSUME FinishTriage(p) PROVE FreshAt(p)'
  <2>1. /\ pc[p] = "read" /\ pc'[p] = "tail" /\ job'[p].act = job[p].act
        /\ job'[p].event = "triage.run"
    BY <1>2, <1>11 DEF FinishTriage, Goto, Locals, Job
  <2> QED
    BY <1>3, <2>1 DEF FreshAt, Executing
<1>12. ASSUME pc[p] = "check"
       PROVE  /\ job[p].row = rows[job[p].act] /\ rows[job[p].act].status = "approved"
              /\ job[p].act \in ApprovalFree => job[p].row.by = PolicyActor
  <2>1. job[p].row = rows[job[p].act] /\ job[p].row.status = "approved"
    BY <1>3, <1>12 DEF FreshAt, Executing, Accountable, Carries, CarriesAt
  <2> QED
    BY <2>1 DEF Fresh, Preapproved
<1>13. ASSUME CheckBlocked(p) PROVE FreshAt(p)'
  <2>1. /\ pc'[p] = "commit" /\ job'[p].act = job[p].act
        /\ job'[p].event = "action.blocked" /\ job'[p].row.status = "manual_only"
    BY <1>2, <1>13 DEF CheckBlocked, Goto, Locals, Decide, Job, Row
  <2>2. rows[job[p].act].status = "approved"
    BY <1>12, <1>13 DEF CheckBlocked, Goto
  <2> QED
    BY <1>1, <2>1, <2>2 DEF FreshAt, Executing, Transition
<1>14. ASSUME CheckExpired(p) PROVE FreshAt(p)'
  <2>1. /\ pc'[p] = "commit" /\ job'[p].act = job[p].act
        /\ job'[p].event = "action.expire" /\ job'[p].row.status = "expired"
    BY <1>2, <1>14 DEF CheckExpired, Goto, Locals, Decide, Job, Row
  <2>2. rows[job[p].act].status = "approved" /\ job[p].act \notin ApprovalFree
    BY <1>12, <1>14 DEF CheckExpired, Goto, IsStale
  <2> QED
    BY <1>1, <2>1, <2>2 DEF FreshAt, Executing, Transition
<1>15. ASSUME CheckPassed(p) PROVE FreshAt(p)'
  <2>1. pc[p] = "check" /\ pc'[p] = "deps" /\ job'[p] = job[p]
    BY <1>2, <1>15 DEF CheckPassed, Goto
  <2> QED
    BY <1>1, <1>12, <2>1 DEF FreshAt, Executing
<1>16. ASSUME DepsMet(p) PROVE FreshAt(p)'
  <2>1. /\ pc[p] = "deps" /\ pc'[p] = "tail" /\ Unmet(job[p].act) = {}
        /\ job'[p].act = job[p].act /\ job'[p].row = job[p].row
        /\ job'[p].event = "action.execute.start"
    BY <1>2, <1>16 DEF DepsMet, Goto, Locals, Job
  <2>2. \A a : Unmet(a)' = Unmet(a)
    BY <1>1 DEF Unmet
  <2>3. job[p].row = rows[job[p].act]
    BY <1>3, <2>1 DEF FreshAt, Executing
  <2> QED
    BY <1>1, <2>1, <2>2, <2>3 DEF FreshAt, Executing
<1>17. ASSUME ReadTail(p) PROVE FreshAt(p)'
  <2>1. /\ pc[p] = "tail" /\ pc'[p] = "insert" /\ job'[p].act = job[p].act
        /\ job'[p].row = job[p].row /\ job'[p].event = job[p].event
    BY <1>2, <1>17 DEF ReadTail, Goto, Locals, Job
  <2>2. \A a : Unmet(a)' = Unmet(a)
    BY <1>1 DEF Unmet
  <2> QED
    BY <1>1, <1>3, <2>1, <2>2 DEF FreshAt, Executing
<1>18. ASSUME ReadFirst(p) PROVE FreshAt(p)'
  <2>1. /\ pc[p] = "read" /\ pc'[p] = "save" /\ job'[p].row = rows[Group(p)[1]]
        /\ job'[p].todo = job[p].todo /\ job'[p].act = job[p].act
    BY <1>2, <1>18 DEF ReadFirst, Goto, Locals, Job
  <2>2. Group(p)' = Group(p)
    BY <2>1 DEF Group
  <2> QED
    BY <1>1, <1>3, <2>1, <2>2 DEF FreshAt, Executing
<1>19. FreshAt(p)'
  BY <1>4, <1>5, <1>6, <1>7, <1>8, <1>9, <1>10, <1>11, <1>13, <1>14, <1>15, <1>16, <1>17,
     <1>18 DEF Request
<1> QED
  BY <1>3, <1>19, OneFresh

(***************************************************************************)
(* What a step does to the rows, the log and the requests: nothing but log *)
(* the start of an execution or a run, ask the connector, record one       *)
(* transition, or store proposals.                                         *)
(***************************************************************************)
Quiet ==
    /\ rows' = rows /\ calls' = calls
    /\ \/ audit' = audit
       \/ \E e \in Entry : /\ audit' = Append(audit, e)
                           /\ e.subject \notin Actions \/ e.event = "action.execute.start"

Asked(a) ==
    /\ rows[a].status = "approved" /\ Unmet(a) = {}
    /\ rows' = rows /\ audit' = audit
    /\ \E c \in Sent : c.act = a /\ calls' = Append(calls, c)

Recorded(a, event, row) ==
    /\ Transition(a, event, row.status)
    /\ rows' = [rows EXCEPT ![a] = row] /\ calls' = calls
    /\ \E e \in Entry : e.subject = a /\ e.event = event /\ audit' = Append(audit, e)

\* No entry of new is about a and its status stays, or a is proposed by one of them.
ProposedOrKept(new, a) ==
    \/ /\ rows'[a].status = rows[a].status /\ rows'[a].by = rows[a].by
       /\ \A k \in 1..Len(new) : new[k].subject # a
    \/ /\ rows[a].status = "absent"
       /\ rows'[a].status \in StatusesAfter("action.propose", a)
       /\ a \in ApprovalFree => rows'[a].by = PolicyActor
       /\ \E k \in 1..Len(new) : \A m \in 1..Len(new) : new[m].subject = a <=> m = k

Proposed(new) ==
    /\ rows' \in [Actions -> Row] /\ calls' = calls /\ audit' = audit \o new
    /\ \A k \in 1..Len(new) : new[k].event = "action.propose"
    /\ \A a \in Actions : ProposedOrKept(new, a)

\* The transaction of approve, reject and _record records one transition.
LEMMA CommitRecords ==
    ASSUME TypeInv, Fresh, NEW p \in Procs, CommitRow(p)
    PROVE  \E a \in Actions, event \in Events, row \in Row : Recorded(a, event, row)
<1> DEFINE e == NewEntry(job[p].user, job[p].event, job[p].act, LastHash)
<1>1. /\ pc[p] = "commit" /\ job[p].act \in Actions /\ job[p].user \in Users
      /\ job[p].event \in Events /\ job[p].row \in Row /\ Len(audit) \in Nat
  BY Here DEF CommitRow, LocatedAt
<1>2. e \in Entry /\ e.subject = job[p].act /\ e.event = job[p].event
  BY <1>1 DEF NewEntry, Entry, LastHash
<1>3. /\ audit' = Append(audit, e) /\ calls' = calls
      /\ rows' = [rows EXCEPT ![job[p].act] = job[p].row]
  BY DEF CommitRow
<1> HIDE DEF e
<1>4. Transition(job[p].act, job[p].event, job[p].row.status)
  BY <1>1 DEF Fresh, FreshAt
<1>5. Recorded(job[p].act, job[p].event, job[p].row)
  BY <1>2, <1>3, <1>4 DEF Recorded
<1> QED
  BY <1>1, <1>5

\* append alone logs a start, or a run that is about no action.
LEMMA InsertQuiet ==
    ASSUME TypeInv, Fresh, NEW p \in Procs, InsertEntry(p)
    PROVE  Quiet
<1> DEFINE e == NewEntry(job[p].user, job[p].event, job[p].act, job[p].tail)
<1>1. pc[p] = "insert" /\ LocatedAt(p) /\ job[p] \in Job
  BY Here DEF InsertEntry
<1>2. e \in Entry /\ e.event = job[p].event /\ e.subject = job[p].act
  BY <1>1 DEF NewEntry, Entry, LocatedAt, Job, Events
<1>3. audit' = Append(audit, e) /\ calls' = calls /\ rows' = rows
  BY DEF InsertEntry
<1> HIDE DEF e
<1>4. job[p].act = Nothing \/ job[p].event = "action.execute.start"
  BY <1>1 DEF Fresh, FreshAt
<1>5. e.subject \notin Actions \/ e.event = "action.execute.start"
  BY <1>2, <1>4, NamesAssumption
<1> QED
  BY <1>2, <1>3, <1>5 DEF Quiet

\* The connector is asked for an approved action whose dependencies ran.
LEMMA CallAsks ==
    ASSUME TypeInv, Accountable, Fresh, NEW p \in Procs, CallConnector(p)
    PROVE  \E a \in Actions : Asked(a)
<1> DEFINE c == [act |-> job[p].act, by |-> job[p].row.by, executor |-> job[p].user]
<1>1. /\ pc[p] = "call" /\ job[p].act \in Actions /\ job[p].user \in Users
      /\ job[p].row \in Row
  BY Here DEF CallConnector, Goto, LocatedAt
<1>2. c \in Sent /\ c.act = job[p].act
  BY <1>1 DEF Sent, Row
<1>3. audit' = audit /\ rows' = rows /\ calls' = Append(calls, c)
  BY DEF CallConnector, store
<1> HIDE DEF c
<1>4. /\ job[p].row = rows[job[p].act] /\ Unmet(job[p].act) = {}
      /\ job[p].row.status = "approved"
  BY <1>1 DEF Fresh, FreshAt, Executing, Accountable, Carries, CarriesAt
<1>5. Asked(job[p].act)
  BY <1>2, <1>3, <1>4 DEF Asked
<1> QED
  BY <1>1, <1>5

\* save_recommendations proposes what was not stored and refreshes the rest.
LEMMA SaveProposes ==
    ASSUME TypeInv, Fresh, NEW p \in Procs, SaveGroup(p)
    PROVE  \E new \in Seq(Entry) : Proposed(new)
<1> DEFINE g == Group(p)
<1>1. /\ pc[p] = "save" /\ job[p].todo # <<>> /\ job[p].conf \in Policies
      /\ rows \in [Actions -> Row] /\ Len(audit) \in Nat
      /\ job[p].row = rows[g[1]]
  BY Here DEF SaveGroup, Goto, LocatedAt, Job, Fresh, FreshAt
<1>2. /\ g \in Groups /\ DOMAIN g = 1..Len(g) /\ \A i \in DOMAIN g : g[i] \in Actions
      /\ \A i, j \in DOMAIN g : g[i] = g[j] => i = j
      /\ Len(g) \in Nat
  BY <1>1, GroupType, LenProperties DEF Groups
<1>3. \A i \in DOMAIN g : Existing(p, i) = rows[g[i]]
  BY <1>1 DEF Existing
<1>4. PICK n \in 0..Len(g) : \E at \in [1..n -> New(p)] :
         /\ \A i, j \in 1..n : i < j => at[i] < at[j]
         /\ New(p) = {at[i] : i \in 1..n}
         /\ audit' = audit \o [i \in 1..n |->
                        NewEntry(PolicyActor, "action.propose", g[at[i]], LastHash + i - 1)]
  BY DEF SaveGroup
<1>5. PICK at \in [1..n -> New(p)] :
         /\ \A i, j \in 1..n : i < j => at[i] < at[j]
         /\ New(p) = {at[i] : i \in 1..n}
         /\ audit' = audit \o [i \in 1..n |->
                        NewEntry(PolicyActor, "action.propose", g[at[i]], LastHash + i - 1)]
  BY <1>4
<1> DEFINE new == [i \in 1..n |-> NewEntry(PolicyActor, "action.propose", g[at[i]],
                                           LastHash + i - 1)]
<1>6. ASSUME NEW i \in 1..n
      PROVE  /\ at[i] \in DOMAIN g /\ rows[g[at[i]]].status = "absent"
             /\ new[i] \in Entry /\ new[i].event = "action.propose"
             /\ new[i].subject = g[at[i]]
  <2>1. at[i] \in New(p)
    BY <1>5
  <2>2. at[i] \in DOMAIN g /\ g[at[i]] \in Actions /\ rows[g[at[i]]].status = "absent"
    BY <1>2, <1>3, <2>1 DEF New
  <2>3. LastHash + i - 1 \in Nat
    BY <1>1, <1>2 DEF LastHash
  <2> QED
    BY <2>2, <2>3 DEF NewEntry, Entry, Events
<1>7. new \in Seq(Entry) /\ Len(new) = n
  <2>1. new \in [1..n -> Entry] /\ n \in Nat
    BY <1>2, <1>6
  <2> HIDE DEF new
  <2> QED
    BY <2>1, SeqDef, LenProperties
<1>8. audit' = audit \o new
  BY <1>5
<1> HIDE DEF new
<1>9. \A i, j \in 1..n : at[i] = at[j] => i = j
  <2> SUFFICES ASSUME NEW i \in 1..n, NEW j \in 1..n, i # j PROVE at[i] # at[j]
    OBVIOUS
  <2>1. at[i] \in Nat /\ at[j] \in Nat /\ (i < j \/ j < i)
    BY <1>2, <1>6
  <2>2. at[i] < at[j] \/ at[j] < at[i]
    BY <1>5, <2>1
  <2> QED
    BY <2>1, <2>2
<1>10. ASSUME NEW a \in Actions PROVE rows'[a] \in Row /\ ProposedOrKept(new, a)
  <2>1. CASE ~\E i \in DOMAIN g : g[i] = a
    <3>1. rows'[a] = rows[a]
      BY <2>1 DEF SaveGroup
    <3>2. \A k \in 1..Len(new) : new[k].subject # a
      BY <1>6, <1>7, <2>1
    <3> QED
      BY <1>1, <3>1, <3>2 DEF ProposedOrKept
  <2>2. CASE \E i \in DOMAIN g : g[i] = a
    <3> DEFINE i == CHOOSE i \in DOMAIN g : g[i] = a
    <3>1. i \in DOMAIN g /\ g[i] = a
      BY <2>2
    <3>2. rows'[a] = Saved(p, i)
      BY <2>2 DEF SaveGroup
    <3> HIDE DEF i
    <3>3. Existing(p, i) = rows[a] /\ Saved(p, i) \in Row /\ rows[a] \in Row
      BY <1>1, <1>3, <3>1, SavedType
    <3>4. CASE rows[a].status # "absent"
      <4>1. rows'[a] = [rows[a] EXCEPT !.senior = NeedsSenior(job[p].conf, a)]
        BY <3>1, <3>2, <3>3, <3>4 DEF Saved
      <4>2. rows'[a].status = rows[a].status /\ rows'[a].by = rows[a].by
        BY <3>3, <4>1 DEF Row
      <4>3. \A k \in 1..Len(new) : new[k].subject # a
        BY <1>6, <1>7, <3>4
      <4> QED
        BY <3>2, <3>3, <4>2, <4>3 DEF ProposedOrKept
    <3>5. CASE rows[a].status = "absent"
      <4>1. rows'[a] = Proposal(job[p].conf, a)
        BY <3>1, <3>2, <3>3, <3>5 DEF Saved
      <4>2. a \in ApprovalFree => ~IsProtected(job[p].conf, a)
        BY <1>1, ServiceAssumption DEF IsProtected, PolicyVersions
      <4>3. /\ rows'[a].status \in StatusesAfter("action.propose", a)
            /\ a \in ApprovalFree => rows'[a].by = PolicyActor
        BY <4>1, <4>2 DEF Proposal, StatusesAfter
      <4>4. i \in New(p)
        BY <3>1, <3>3, <3>5 DEF New
      <4>5. PICK k \in 1..n : at[k] = i
        BY <1>5, <4>4
      <4>6. \A m \in 1..n : new[m].subject = a <=> m = k
        BY <1>2, <1>6, <1>9, <3>1, <4>5
      <4> QED
        BY <1>7, <3>2, <3>3, <3>5, <4>3, <4>6 DEF ProposedOrKept
    <3> QED
      BY <3>4, <3>5
  <2> QED
    BY <2>1, <2>2
<1>11. rows' \in [Actions -> Row]
  <2> DEFINE Row2(a) == IF \E i \in DOMAIN g : g[i] = a
                        THEN Saved(p, CHOOSE i \in DOMAIN g : g[i] = a)
                        ELSE rows[a]
  <2>1. rows' = [a \in Actions |-> Row2(a)]
    BY DEF SaveGroup
  <2> HIDE DEF Row2
  <2>2. \A a \in Actions : Row2(a) \in Row
    BY <1>10, <2>1
  <2> QED
    BY <2>1, <2>2
<1>12. calls' = calls
  BY DEF SaveGroup
<1>13. Proposed(new)
  BY <1>6, <1>7, <1>8, <1>10, <1>11, <1>12 DEF Proposed
<1> QED
  BY <1>7, <1>13

\* Every step has one of the four effects.
LEMMA Effect ==
    ASSUME TypeInv, Accountable, Fresh, [Next]_vars
    PROVE  \/ Quiet
           \/ \E a \in Actions : Asked(a)
           \/ \E a \in Actions, event \in Events, row \in Row : Recorded(a, event, row)
           \/ \E new \in Seq(Entry) : Proposed(new)
<1>1. ASSUME NEW p \in Procs,
             \/ Start(p) \/ Request(p) \/ Crash(p)
             \/ CheckBlocked(p) \/ CheckExpired(p) \/ CheckPassed(p)
             \/ DepsUnmet(p) \/ DepsMet(p) \/ ReadTail(p)
             \/ ReadFirst(p) \/ FinishTriage(p)
      PROVE  Quiet
  <2>1. rows' = rows /\ audit' = audit /\ calls' = calls
    BY <1>1 DEF Start, Request, Crash, Refused, LoadApprove, LoadReject, LoadExecute,
           StartTriage, Ingest, CheckBlocked, CheckExpired, CheckPassed, DepsUnmet, DepsMet,
           ReadTail, ReadFirst, FinishTriage, store
  <2> QED
    BY <2>1 DEF Quiet
<1>2. ASSUME Tick \/ EditFiles \/ UNCHANGED vars PROVE Quiet
  BY <1>2 DEF Tick, EditFiles, vars, store, Quiet
<1> QED
  BY <1>1, <1>2, CommitRecords, InsertQuiet, CallAsks, SaveProposes DEF Next, Step

\* Low-risk kinds stay approved by the policy, or settled.
LEMMA StepPreapproved ==
    ASSUME TypeInv, Accountable, Fresh, [Next]_vars
    PROVE  Preapproved'
<1>1. rows \in [Actions -> Row] /\ Preapproved /\ ApprovalFree \subseteq Actions
  BY ServiceAssumption DEF TypeInv, TypeOK, Fresh
<1>2. CASE rows' = rows
  BY <1>1, <1>2 DEF Preapproved
<1>3. ASSUME NEW a \in Actions, NEW event \in Events, NEW row \in Row, Recorded(a, event, row)
      PROVE  Preapproved'
  <2>1. rows' = [rows EXCEPT ![a] = row] /\ Transition(a, event, row.status)
    BY <1>3 DEF Recorded
  <2>2. a \in ApprovalFree => row.status \notin {"pending_approval", "approved"}
    BY <1>1, <2>1 DEF Preapproved, Transition, Outcome
  <2>3. \A b \in ApprovalFree : rows'[b] = IF b = a THEN row ELSE rows[b]
    BY <1>1, <2>1
  <2> QED
    BY <1>1, <2>2, <2>3 DEF Preapproved
<1>4. ASSUME NEW new \in Seq(Entry), Proposed(new) PROVE Preapproved'
  <2> SUFFICES ASSUME NEW a \in ApprovalFree
               PROVE  /\ rows'[a].status # "pending_approval"
                      /\ rows'[a].status = "approved" => rows'[a].by = PolicyActor
    BY DEF Preapproved
  <2>1. ProposedOrKept(new, a)
    BY <1>1, <1>4 DEF Proposed
  <2> QED
    BY <1>1, <2>1 DEF ProposedOrKept, Preapproved, StatusesAfter
<1> QED
  BY <1>2, <1>3, <1>4, Effect DEF Quiet, Asked

\* Freshness is inductive relative to the types and to accountability.
LEMMA StepFresh ==
    ASSUME OneAtATime, TypeInv, Accountable, Fresh, [Next]_vars
    PROVE  Fresh'
<1>1. Preapproved'
  BY StepPreapproved
<1>2. ASSUME NEW p \in Procs, CommitRow(p) PROVE FreshAt(p)'
  <2>1. pc'[p] = "idle" /\ job'[p] = NoJob
    BY <1>2, ExitMove DEF CommitRow
  <2> QED
    BY <2>1 DEF FreshAt, Executing, NoJob
<1>3. ASSUME NEW p \in Procs, InsertEntry(p) PROVE FreshAt(p)'
  <2>1. CASE job[p].event = "action.execute.start"
    <3>1. pc[p] = "insert" /\ pc'[p] = "call" /\ job' = job /\ rows' = rows
      BY <1>3, <2>1, Here DEF InsertEntry, Goto
    <3>2. \A a : Unmet(a)' = Unmet(a)
      BY <3>1 DEF Unmet
    <3>3. job[p].row = rows[job[p].act] /\ Unmet(job[p].act) = {}
      BY <2>1, <3>1 DEF Fresh, FreshAt, Executing
    <3> QED
      BY <3>1, <3>2, <3>3 DEF FreshAt, Executing
  <2>2. CASE job[p].event # "action.execute.start"
    <3>1. pc'[p] = "idle" /\ job'[p] = NoJob
      BY <1>3, <2>2, ExitMove DEF InsertEntry
    <3> QED
      BY <3>1 DEF FreshAt, Executing, NoJob
  <2> QED
    BY <2>1, <2>2
<1>4. ASSUME NEW p \in Procs, CallConnector(p) PROVE FreshAt(p)'
  <2> DEFINE c == [act |-> job[p].act, by |-> job[p].row.by, executor |-> job[p].user]
  <2>1. /\ pc[p] = "call" /\ pc'[p] = "commit" /\ job[p].act \in Actions
        /\ job[p] \in Job /\ job[p].row \in Row /\ job[p].user \in Users
        /\ calls \in Seq(Sent)
    BY <1>4, Here DEF CallConnector, Goto, LocatedAt
  <2>2. c \in Sent /\ c.act = job[p].act /\ calls' = Append(calls, c) /\ rows' = rows
    BY <1>4, <2>1 DEF Sent, Row, CallConnector, store
  <2> HIDE DEF c
  <2>3. PICK outcome \in Outcome : Decide(p, outcome[2], outcome[1])
    BY <1>4 DEF CallConnector, Outcome
  <2>4. /\ job'[p].act = job[p].act /\ <<job'[p].event, job'[p].row.status>> \in Outcome
    BY <2>1, <2>3, Here DEF Decide, Locals, Job, Row, Outcome
  <2>5. rows[job[p].act].status = "approved"
    BY <2>1 DEF Fresh, FreshAt, Executing, Accountable, Carries, CarriesAt
  <2>6. Requests(calls', job[p].act) # {}
    <3>1. Len(calls) \in Nat /\ Len(calls') = Len(calls) + 1 /\ calls'[Len(calls) + 1] = c
      BY <2>1, <2>2, AppendProperties, LenProperties
    <3>2. Len(calls) + 1 \in Requests(calls', job[p].act)
      BY <2>2, <3>1 DEF Requests
    <3> QED
      BY <3>2
  <2>7. Transition(job[p].act, job[p].event, job[p].row.status)'
    BY <2>2, <2>4, <2>5, <2>6 DEF Transition
  <2> QED
    BY <2>1, <2>4, <2>7 DEF FreshAt, Executing
<1>5. ASSUME NEW p \in Procs, SaveGroup(p) PROVE FreshAt(p)'
  <2>1. pc[p] = "save" /\ pc'[p] = "read" /\ job'[p].act = job[p].act
    BY <1>5, Here DEF SaveGroup, Goto, Locals, Job
  <2>2. job[p].act = Nothing
    BY <2>1 DEF Fresh, FreshAt
  <2> QED
    BY <2>1, <2>2 DEF FreshAt, Executing
<1>6. ASSUME Tick \/ EditFiles \/ UNCHANGED vars PROVE Fresh'
  <2>1. rows' = rows /\ calls' = calls /\ pc' = pc /\ job' = job
    BY <1>6 DEF Tick, EditFiles, vars, store
  <2>2. \A p \in Procs : FreshAt(p)'
    BY <2>1 DEF Fresh, FreshAt, Executing, Unmet, Transition, Group
  <2> QED
    BY <1>1, <2>2 DEF Fresh
<1> QED
  BY <1>1, <1>2, <1>3, <1>4, <1>5, <1>6, LocalFresh, OneFresh DEF Next, Step

\* What the theorems below start from.
LEMMA FreshAlways ==
    ASSUME OneAtATime
    PROVE  Spec => [](TypeInv /\ Accountable /\ Fresh)
<1>1. Init => TypeInv /\ Accountable /\ Fresh
  BY InitTypes, InitAccountable, InitFresh
<1>2. (TypeInv /\ Accountable /\ Fresh) /\ [Next]_vars => (TypeInv /\ Accountable /\ Fresh)'
  BY StepTypes, StepAccountable, StepFresh
<1> QED
  BY <1>1, <1>2, PTL DEF Spec

(***************************************************************************)
(* The log tells the state.                                                *)
(***************************************************************************)
Shown(log, a) ==
    {i \in 1..Len(log) : log[i].subject = a /\ log[i].event # "action.execute.start"}

\* The last transition that the log shows for a leads to st.
Tells(log, a, st) ==
    IF Shown(log, a) = {} THEN st = "absent"
    ELSE \E i \in Shown(log, a) :
            /\ \A j \in Shown(log, a) : j <= i
            /\ st \in StatusesAfter(log[i].event, a)

Told == \A a \in Actions : Tells(audit, a, rows[a].status)

\* An entry that is about another action, or is only a start, changes nothing.
LEMMA TellsStill ==
    ASSUME NEW log \in Seq(Entry), NEW e \in Entry, NEW a, NEW st, Tells(log, a, st),
           e.subject # a \/ e.event = "action.execute.start"
    PROVE  Tells(Append(log, e), a, st)
<1>1. /\ Len(log) \in Nat /\ Len(Append(log, e)) = Len(log) + 1
      /\ \A i \in 1..Len(log) : Append(log, e)[i] = log[i]
      /\ Append(log, e)[Len(log) + 1] = e
  BY LenProperties, AppendExtends DEF Extends
<1>2. Shown(Append(log, e), a) = Shown(log, a)
  BY <1>1 DEF Shown
<1>3. \A i \in Shown(log, a) : Append(log, e)[i] = log[i]
  BY <1>1 DEF Shown
<1> QED
  BY <1>2, <1>3 DEF Tells

\* A transition that is appended is the last one.
LEMMA TellsNow ==
    ASSUME NEW log \in Seq(Entry), NEW e \in Entry, NEW a, NEW st,
           e.subject = a, e.event # "action.execute.start", st \in StatusesAfter(e.event, a)
    PROVE  Tells(Append(log, e), a, st)
<1>1. /\ Len(log) \in Nat /\ Len(Append(log, e)) = Len(log) + 1
      /\ Append(log, e)[Len(log) + 1] = e
  BY LenProperties, AppendExtends
<1>2. Len(log) + 1 \in Shown(Append(log, e), a)
  BY <1>1 DEF Shown
<1>3. \A j \in Shown(Append(log, e), a) : j <= Len(log) + 1
  BY <1>1 DEF Shown
<1> QED
  BY <1>1, <1>2, <1>3 DEF Tells

\* The positions of a longer log.
LEMMA ConcatPlaces ==
    ASSUME NEW log \in Seq(Entry), NEW new \in Seq(Entry)
    PROVE  /\ Len(log) \in Nat /\ Len(new) \in Nat /\ Len(log \o new) = Len(log) + Len(new)
           /\ \A i \in 1..Len(log) : (log \o new)[i] = log[i]
           /\ \A k \in 1..Len(new) : (log \o new)[Len(log) + k] = new[k]
           /\ \A i \in 1..(Len(log) + Len(new)) :
                 i \in 1..Len(log) \/ \E k \in 1..Len(new) : i = Len(log) + k
<1>1. /\ Len(log) \in Nat /\ Len(new) \in Nat /\ Len(log \o new) = Len(log) + Len(new)
      /\ \A i \in 1..(Len(log) + Len(new)) :
            (log \o new)[i] = IF i <= Len(log) THEN log[i] ELSE new[i - Len(log)]
  BY LenProperties, ConcatProperties
<1>2. \A i \in 1..Len(log) : (log \o new)[i] = log[i]
  BY <1>1
<1>3. ASSUME NEW k \in 1..Len(new) PROVE (log \o new)[Len(log) + k] = new[k]
  <2>1. /\ Len(log) + k \in 1..(Len(log) + Len(new)) /\ ~(Len(log) + k <= Len(log))
        /\ (Len(log) + k) - Len(log) = k
    BY <1>1
  <2> QED
    BY <1>1, <2>1
<1>4. ASSUME NEW i \in 1..(Len(log) + Len(new)), i \notin 1..Len(log)
      PROVE  \E k \in 1..Len(new) : i = Len(log) + k
  <2>1. i - Len(log) \in 1..Len(new) /\ i = Len(log) + (i - Len(log))
    BY <1>1, <1>4
  <2> QED
    BY <2>1
<1> QED
  BY <1>1, <1>2, <1>3, <1>4

\* Entries about other actions change nothing.
LEMMA TellsStillAfter ==
    ASSUME NEW log \in Seq(Entry), NEW new \in Seq(Entry), NEW a, NEW st, Tells(log, a, st),
           \A k \in 1..Len(new) : new[k].subject # a
    PROVE  Tells(log \o new, a, st)
<1>1. Shown(log \o new, a) = Shown(log, a)
  <2>1. ASSUME NEW i \in Shown(log, a) PROVE i \in Shown(log \o new, a)
    BY ConcatPlaces DEF Shown
  <2>2. ASSUME NEW i \in Shown(log \o new, a) PROVE i \in Shown(log, a)
    <3>1. i \in 1..(Len(log) + Len(new)) /\ (log \o new)[i].subject = a
      BY ConcatPlaces DEF Shown
    <3>2. i \in 1..Len(log)
      <4>1. SUFFICES ASSUME i \notin 1..Len(log) PROVE FALSE
        OBVIOUS
      <4>2. PICK k \in 1..Len(new) : i = Len(log) + k
        BY <3>1, <4>1, ConcatPlaces
      <4>3. (log \o new)[i] = new[k]
        BY <4>2, ConcatPlaces
      <4> QED
        BY <3>1, <4>3
    <3> QED
      BY <2>2, <3>1, <3>2, ConcatPlaces DEF Shown
  <2> QED
    BY <2>1, <2>2
<1>2. \A i \in Shown(log, a) : (log \o new)[i] = log[i]
  BY ConcatPlaces DEF Shown
<1> QED
  BY <1>1, <1>2 DEF Tells

\* The one new entry about a is the last one.
LEMMA TellsNowAfter ==
    ASSUME NEW log \in Seq(Entry), NEW new \in Seq(Entry), NEW a, NEW st,
           NEW k \in 1..Len(new), \A m \in 1..Len(new) : new[m].subject = a <=> m = k,
           new[k].event # "action.execute.start", st \in StatusesAfter(new[k].event, a)
    PROVE  Tells(log \o new, a, st)
<1> DEFINE i == Len(log) + k
<1>1. /\ Len(log) \in Nat /\ Len(new) \in Nat /\ k \in Nat /\ new[k].subject = a
      /\ (log \o new)[i] = new[k] /\ i \in 1..Len(log \o new)
  BY ConcatPlaces
<1>2. i \in Shown(log \o new, a)
  BY <1>1 DEF Shown
<1>3. ASSUME NEW j \in Shown(log \o new, a) PROVE j <= i
  <2>1. CASE j \in 1..Len(log)
    BY <1>1, <2>1
  <2>2. CASE \E m \in 1..Len(new) : j = Len(log) + m
    <3>1. PICK m \in 1..Len(new) : j = Len(log) + m
      BY <2>2
    <3>2. new[m].subject = a
      BY <3>1, ConcatPlaces DEF Shown
    <3> QED
      BY <1>1, <3>1, <3>2
  <2> QED
    BY <2>1, <2>2, ConcatPlaces DEF Shown
<1> HIDE DEF i
<1> QED
  BY <1>1, <1>2, <1>3 DEF Tells

\* Every step leaves a log that tells the state.
LEMMA StepTold ==
    ASSUME TypeInv, Accountable, Fresh, Told, [Next]_vars
    PROVE  Told'
<1>0. audit \in Seq(Entry) /\ rows \in [Actions -> Row]
  BY DEF TypeInv, TypeOK
<1> SUFFICES ASSUME NEW b \in Actions PROVE Tells(audit', b, rows'[b].status)
  BY DEF Told
<1>1. Tells(audit, b, rows[b].status)
  BY DEF Told
<1>2. CASE Quiet
  BY <1>0, <1>1, <1>2, TellsStill DEF Quiet
<1>3. ASSUME NEW a \in Actions, Asked(a) PROVE Tells(audit', b, rows'[b].status)
  BY <1>1, <1>3 DEF Asked
<1>4. ASSUME NEW a \in Actions, NEW event \in Events, NEW row \in Row, Recorded(a, event, row)
      PROVE  Tells(audit', b, rows'[b].status)
  <2>1. PICK e \in Entry : e.subject = a /\ e.event = event /\ audit' = Append(audit, e)
    BY <1>4 DEF Recorded
  <2>2. rows'[b] = IF b = a THEN row ELSE rows[b]
    BY <1>0, <1>4 DEF Recorded
  <2>3. event # "action.execute.start" /\ row.status \in StatusesAfter(event, a)
    BY <1>4 DEF Recorded, Transition, Outcome, StatusesAfter
  <2>4. CASE b = a
    BY <1>0, <2>1, <2>2, <2>3, <2>4, TellsNow
  <2>5. CASE b # a
    BY <1>0, <1>1, <2>1, <2>2, <2>5, TellsStill
  <2> QED
    BY <2>4, <2>5
<1>5. ASSUME NEW new \in Seq(Entry), Proposed(new) PROVE Tells(audit', b, rows'[b].status)
  <2>1. /\ audit' = audit \o new /\ ProposedOrKept(new, b)
        /\ \A k \in 1..Len(new) : new[k].event = "action.propose"
    BY <1>5 DEF Proposed
  <2>2. CASE rows'[b].status = rows[b].status /\ \A k \in 1..Len(new) : new[k].subject # b
    BY <1>0, <1>1, <2>1, <2>2, TellsStillAfter
  <2>3. CASE /\ rows'[b].status \in StatusesAfter("action.propose", b)
             /\ \E k \in 1..Len(new) : \A m \in 1..Len(new) : new[m].subject = b <=> m = k
    <3>1. PICK k \in 1..Len(new) : \A m \in 1..Len(new) : new[m].subject = b <=> m = k
      BY <2>3
    <3> QED
      BY <1>0, <2>1, <2>3, <3>1, TellsNowAfter
  <2> QED
    BY <2>1, <2>2, <2>3 DEF ProposedOrKept
<1> QED
  BY <1>2, <1>3, <1>4, <1>5, Effect

\* Run one at a time, commands leave a log whose last transition for each action is the
\* one that led to its stored status, wherever they crash (executor.py).
THEOREM LogTellsStatus ==
    ASSUME OneAtATime
    PROVE  Spec => []StatusMatchesLog
<1>1. Init => Told
  <2>1. Init => \A a : Shown(audit, a) = {}
    BY DEF Init, Shown
  <2> QED
    BY <2>1 DEF Init, Told, Tells, NoRow
<1>2. Told /\ (TypeInv /\ Accountable /\ Fresh) /\ [Next]_vars => Told'
  BY StepTold
<1>3. TypeInv /\ Told => StatusMatchesLog
  <2> SUFFICES ASSUME TypeInv, Told PROVE StatusMatchesLog
    OBVIOUS
  <2>1. DOMAIN audit = 1..Len(audit)
    BY LenProperties DEF TypeInv, TypeOK
  <2>2. \A a : Transitions(a) = Shown(audit, a)
    BY <2>1 DEF Transitions, Shown
  <2> QED
    BY <2>2 DEF Told, Tells, StatusMatchesLog
<1> QED
  BY <1>1, <1>2, <1>3, FreshAlways, PTL DEF Spec

(***************************************************************************)
(* An action is settled once.  What makes it inductive: an action that may *)
(* still be settled has no settling entry yet.                             *)
(***************************************************************************)
Settling == {"action.execute.done", "action.execute.failed", "action.reject",
             "action.expire", "action.blocked"}

Open == {"absent", "pending_approval", "approved"}

SettledAt(a) ==
    /\ Number(audit, a, Settling) <= 1
    /\ rows[a].status \in Open => Number(audit, a, Settling) = 0

\* Every step settles at most one open action, and closes it.
LEMMA StepSettled ==
    ASSUME TypeInv, Accountable, Fresh, \A a \in Actions : SettledAt(a), [Next]_vars
    PROVE  (\A a \in Actions : SettledAt(a))'
<1>0. audit \in Seq(Entry) /\ rows \in [Actions -> Row]
  BY DEF TypeInv, TypeOK
<1> SUFFICES ASSUME NEW b \in Actions PROVE SettledAt(b)'
  OBVIOUS
<1>1. SettledAt(b) /\ Number(audit, b, Settling) \in Nat
  BY <1>0, PositionsFinite
<1>2. CASE Quiet
  <2>1. CASE audit' = audit
    BY <1>1, <1>2, <2>1 DEF Quiet, SettledAt
  <2>2. ASSUME NEW e \in Entry, audit' = Append(audit, e),
               e.subject \notin Actions \/ e.event = "action.execute.start"
        PROVE  SettledAt(b)'
    <3>1. ~(e.subject = b /\ e.event \in Settling)
      BY <2>2 DEF Settling
    <3>2. Number(audit', b, Settling) = Number(audit, b, Settling)
      BY <1>0, <2>2, <3>1, NumberOfAppend
    <3> QED
      BY <1>1, <1>2, <3>2 DEF Quiet, SettledAt
  <2> QED
    BY <1>2, <2>1, <2>2 DEF Quiet
<1>3. ASSUME NEW a \in Actions, Asked(a) PROVE SettledAt(b)'
  BY <1>1, <1>3 DEF Asked, SettledAt
<1>4. ASSUME NEW a \in Actions, NEW event \in Events, NEW row \in Row, Recorded(a, event, row)
      PROVE  SettledAt(b)'
  <2>1. PICK e \in Entry : e.subject = a /\ e.event = event /\ audit' = Append(audit, e)
    BY <1>4 DEF Recorded
  <2>2. rows'[b] = IF b = a THEN row ELSE rows[b]
    BY <1>0, <1>4 DEF Recorded
  <2>3. /\ rows[a].status \in Open
        /\ event \in Settling <=> row.status \notin Open
    BY <1>4 DEF Recorded, Transition, Outcome, Open, Settling
  <2>4. CASE b = a /\ event \in Settling
    <3>1. Number(audit', b, Settling) = Number(audit, b, Settling) + 1
      BY <1>0, <2>1, <2>4, NumberOfAppend
    <3> QED
      BY <1>1, <2>2, <2>3, <2>4, <3>1 DEF SettledAt
  <2>5. CASE ~(b = a /\ event \in Settling)
    <3>1. Number(audit', b, Settling) = Number(audit, b, Settling)
      BY <1>0, <2>1, <2>5, NumberOfAppend
    <3>2. rows'[b].status \in Open => rows[b].status \in Open
      BY <2>2, <2>3
    <3> QED
      BY <1>1, <3>1, <3>2 DEF SettledAt
  <2> QED
    BY <2>4, <2>5
<1>5. ASSUME NEW new \in Seq(Entry), Proposed(new) PROVE SettledAt(b)'
  <2>1. /\ audit' = audit \o new /\ ProposedOrKept(new, b)
        /\ \A k \in 1..Len(new) : new[k].event \notin Settling
    BY <1>5 DEF Proposed, Settling
  <2>2. Number(audit', b, Settling) = Number(audit, b, Settling)
    BY <1>0, <2>1, NumberOfConcat
  <2>3. rows'[b].status \in Open => rows[b].status \in Open
    BY <2>1 DEF ProposedOrKept, Open
  <2> QED
    BY <1>1, <2>2, <2>3 DEF SettledAt
<1> QED
  BY <1>2, <1>3, <1>4, <1>5, Effect

\* Executed, failed, rejected, expired and blocked exclude each other and are final
\* when commands run one at a time, wherever they crash (the state diagram of README.md).
THEOREM SettlesOnce ==
    ASSUME OneAtATime
    PROVE  Spec => []SettledOnce
<1> DEFINE AllSettled == \A a \in Actions : SettledAt(a)
<1>1. Init => AllSettled
  <2>1. Init => \A a : Positions(audit, a, Settling) = {}
    BY DEF Init, Positions
  <2> QED
    BY <2>1, FS_EmptySet DEF SettledAt, Number
<1>2. AllSettled /\ (TypeInv /\ Accountable /\ Fresh) /\ [Next]_vars => AllSettled'
  BY StepSettled
<1>3. TypeInv /\ AllSettled => SettledOnce
  <2> SUFFICES ASSUME TypeInv, AllSettled PROVE SettledOnce
    OBVIOUS
  <2>1. DOMAIN audit = 1..Len(audit)
    BY LenProperties DEF TypeInv, TypeOK
  <2>2. \A a : Count(a, Settling) = Number(audit, a, Settling)
    BY <2>1 DEF Count, Number, Positions
  <2> QED
    BY <2>2 DEF SettledAt, SettledOnce, Settling
<1> HIDE DEF AllSettled
<1> QED
  BY <1>1, <1>2, <1>3, FreshAlways, PTL DEF Spec

\* Run one at a time, commands never take a rejected action out of "rejected": what the
\* run RejectionLost finds takes two commands at once (executor.py, approve).
THEOREM RejectionStands ==
    ASSUME OneAtATime
    PROVE  Spec => RejectionIsFinal
<1> DEFINE Stands == \A a \in Actions : rows[a].status = "rejected" => rows'[a].status = "rejected"
<1>1. (TypeInv /\ Accountable /\ Fresh) /\ [Next]_vars => Stands
  <2> SUFFICES ASSUME TypeInv, Accountable, Fresh, [Next]_vars,
                      NEW b \in Actions, rows[b].status = "rejected"
               PROVE  rows'[b].status = "rejected"
    OBVIOUS
  <2>1. CASE Quiet
    BY <2>1 DEF Quiet
  <2>2. ASSUME NEW a \in Actions, Asked(a) PROVE rows'[b].status = "rejected"
    BY <2>2 DEF Asked
  <2>3. ASSUME NEW a \in Actions, NEW event \in Events, NEW row \in Row,
               Recorded(a, event, row)
        PROVE  rows'[b].status = "rejected"
    <3>1. rows \in [Actions -> Row] /\ rows' = [rows EXCEPT ![a] = row]
      BY <2>3 DEF TypeInv, TypeOK, Recorded
    <3>2. a # b
      BY <2>3 DEF Recorded, Transition
    <3> QED
      BY <3>1, <3>2
  <2>4. ASSUME NEW new \in Seq(Entry), Proposed(new) PROVE rows'[b].status = "rejected"
    BY <2>4 DEF Proposed, ProposedOrKept
  <2> QED
    BY <2>1, <2>2, <2>3, <2>4, Effect
<1> QED
  BY <1>1, FreshAlways, PTL DEF Spec, RejectionIsFinal

(***************************************************************************)
(* Refinement.  Each effect of a step is a step of the life cycle.         *)
(***************************************************************************)
Status == [a \in Actions |-> rows[a].status]

Asks == [a \in Actions |-> Performed(a)]

\* Performed counts the requests that the connector received for an action.
LEMMA PerformedCounts ==
    ASSUME TypeInv, NEW a
    PROVE  Performed(a) = Cardinality(Requests(calls, a)) /\ Performed(a) \in Nat
<1>1. DOMAIN calls = 1..Len(calls)
  BY LenProperties DEF TypeInv, TypeOK
<1>2. Performed(a) = Cardinality(Requests(calls, a))
  BY <1>1 DEF Performed, Requests
<1> QED
  BY <1>2, RequestsFinite

\* A state with a request has performed something.
LEMMA AskedPerforms ==
    ASSUME TypeInv, NEW a, Requests(calls, a) # {}
    PROVE  Performed(a) > 0
<1>1. calls \in Seq(Sent) /\ Len(calls) \in Nat
  BY LenProperties DEF TypeInv, TypeOK, Sent
<1>2. IsFiniteSet(Requests(calls, a))
  <2>1. IsFiniteSet(1..Len(calls)) /\ Requests(calls, a) \in SUBSET (1..Len(calls))
    BY <1>1, FS_Interval DEF Requests
  <2> QED
    BY <2>1, FS_Subset
<1>3. Cardinality(Requests(calls, a)) # 0
  BY <1>2, FS_EmptySet
<1> QED
  BY <1>3, PerformedCounts

\* Where proposals start is where StatusesAfter says.
LEMMA EntryStatus ==
    ASSUME NEW a \in Actions, rows[a].status = "absent",
           rows'[a].status \in StatusesAfter("action.propose", a)
    PROVE  rows'[a].status \in Promised!EntryStatuses(a)
BY DEF StatusesAfter, Promised!EntryStatuses

\* A step that records nothing and asks nobody changes neither statuses nor counts.
LEMMA SameCounts ==
    ASSUME calls' = calls
    PROVE  Asks' = Asks
BY DEF Asks, Performed

\* Asking the connector is Perform.
LEMMA AskedIsPerform ==
    ASSUME TypeInv, TypeInv', NEW a \in Actions, Asked(a)
    PROVE  Promised!Perform(a)
<1>1. calls \in Seq(Sent) /\ rows' = rows
  BY Here DEF Asked, TypeInv, TypeOK, Sent
<1>2. PICK c \in Sent : c.act = a /\ calls' = Append(calls, c)
  BY DEF Asked
<1>3. ASSUME NEW b \in Actions
      PROVE  Performed(b)' = IF b = a THEN Performed(b) + 1 ELSE Performed(b)
  <2>1. Performed(b) = Cardinality(Requests(calls, b))
    BY PerformedCounts
  <2>2. Performed(b)' = Cardinality(Requests(calls', b))
    <3>1. calls' \in Seq([act : Actions, by : Users \union {PolicyActor, Nothing},
                          executor : Users])
      BY DEF TypeInv, TypeOK
    <3>2. DOMAIN calls' = 1..Len(calls')
      BY <3>1, LenProperties
    <3> QED
      BY <3>2 DEF Performed, Requests
  <2>3. Cardinality(Requests(Append(calls, c), b)) =
           IF c.act = b THEN Cardinality(Requests(calls, b)) + 1
           ELSE Cardinality(Requests(calls, b))
    BY <1>1, NumberOfRequests
  <2> QED
    BY <1>2, <2>1, <2>2, <2>3
<1>4. Asks' = [Asks EXCEPT ![a] = @ + 1]
  BY <1>3 DEF Asks
<1>5. Status' = Status /\ Status[a] = "approved"
  BY <1>1 DEF Status, Asked
<1>6. \A d \in DependsOn[a] : d \in Actions /\ Status[d] \in {"absent", "executed"}
  <2>1. DependsOn[a] \subseteq Actions
    BY ServiceAssumption
  <2> QED
    BY <2>1 DEF Status, Asked, Unmet
<1> QED
  BY <1>4, <1>5, <1>6 DEF Promised!Perform, Asks, Status

\* Recording a transition is one of the arrows of the state diagram.
LEMMA RecordedIsMove ==
    ASSUME TypeInv, NEW a \in Actions, NEW event \in Events, NEW row \in Row,
           Recorded(a, event, row)
    PROVE  \/ Promised!Approve(a) \/ Promised!Reject(a) \/ Promised!Protect(a)
           \/ Promised!Expire(a) \/ Promised!Finish(a) \/ Promised!Fail(a)
<1>1. rows \in [Actions -> Row] /\ rows' = [rows EXCEPT ![a] = row] /\ calls' = calls
  BY DEF TypeInv, TypeOK, Recorded
<1>2. Status' = [Status EXCEPT ![a] = row.status] /\ Asks' = Asks
  BY <1>1, SameCounts DEF Status
<1>3. ASSUME NEW from, rows[a].status \in from
      PROVE  Promised!Move(a, from, row.status)
  <2>1. Status[a] \in from
    BY <1>3 DEF Status
  <2> QED
    BY <1>2, <2>1 DEF Promised!Move, Status, Asks
<1>4. Requests(calls, a) # {} => Asks[a] > 0
  BY AskedPerforms DEF Asks
<1>5. Transition(a, event, row.status)
  BY DEF Recorded
<1>6. CASE row.status = "approved" /\ rows[a].status = "pending_approval"
  BY <1>3, <1>6 DEF Promised!Approve
<1>7. CASE row.status = "rejected" /\ rows[a].status \in {"pending_approval", "approved"}
  BY <1>3, <1>7 DEF Promised!Reject
<1>8. CASE row.status = "manual_only" /\ rows[a].status = "approved"
  BY <1>3, <1>8 DEF Promised!Protect
<1>9. CASE row.status = "expired" /\ rows[a].status = "approved" /\ a \notin ApprovalFree
  BY <1>3, <1>9 DEF Promised!Expire
<1>10. CASE /\ row.status \in {"executed", "failed"} /\ rows[a].status = "approved"
            /\ Requests(calls, a) # {}
  BY <1>3, <1>4, <1>10 DEF Promised!Finish, Promised!Fail, Asks
<1> QED
  BY <1>5, <1>6, <1>7, <1>8, <1>9, <1>10 DEF Transition, Outcome

\* Storing the proposals of an incident is Propose.
LEMMA ProposedIsPropose ==
    ASSUME TypeInv, NEW new \in Seq(Entry), Proposed(new)
    PROVE  Promised!Propose
<1>1. rows' \in [Actions -> Row] /\ calls' = calls
  BY DEF Proposed
<1>2. Status' \in [Actions -> Promised!Statuses]
  BY <1>1 DEF Status, Row, Statuses, Promised!Statuses
<1>3. ASSUME NEW a \in Actions
      PROVE  \/ Status'[a] = Status[a]
             \/ Status[a] = "absent" /\ Status'[a] \in Promised!EntryStatuses(a)
  <2>1. ProposedOrKept(new, a)
    BY DEF Proposed
  <2> QED
    BY <2>1, EntryStatus DEF ProposedOrKept, Status
<1>4. Asks' = Asks
  BY <1>1, SameCounts
<1> QED
  BY <1>2, <1>3, <1>4 DEF Promised!Propose, Status, Asks

\* Run one at a time, the commands of the service are the life cycle of README.md: no
\* stored status and no call to the connector that the state diagram does not promise.
THEOREM ServiceRefinesLifecycle ==
    ASSUME OneAtATime
    PROVE  Spec => LifecycleRefined
<1>1. Init => Promised!LifecycleInit
  <2> SUFFICES ASSUME Init PROVE Promised!LifecycleInit
    OBVIOUS
  <2>1. \A a \in Actions : rows[a].status = "absent"
    BY DEF Init, NoRow
  <2>2. \A a \in Actions : Performed(a) = 0
    <3>1. \A a : {c \in DOMAIN calls : calls[c].act = a} = {}
      BY DEF Init
    <3> QED
      BY <3>1, FS_EmptySet DEF Performed
  <2> QED
    BY <2>1, <2>2 DEF Promised!LifecycleInit
<1>2. (TypeInv /\ Accountable /\ Fresh) /\ TypeInv' /\ [Next]_vars
         => [Promised!LifecycleNext]_(Promised!lifecycleVars)
  <2> SUFFICES ASSUME TypeInv, Accountable, Fresh, TypeInv', [Next]_vars
               PROVE  Promised!LifecycleNext \/ UNCHANGED Promised!lifecycleVars
    OBVIOUS
  <2>1. CASE Quiet
    <3>1. Asks' = Asks /\ Status' = Status
      BY <2>1, SameCounts DEF Quiet, Status
    <3> QED
      BY <3>1 DEF Promised!lifecycleVars, Asks, Status
  <2>2. ASSUME NEW a \in Actions, Asked(a) PROVE Promised!LifecycleNext
    BY <2>2, AskedIsPerform DEF Promised!LifecycleNext
  <2>3. ASSUME NEW a \in Actions, NEW event \in Events, NEW row \in Row,
               Recorded(a, event, row)
        PROVE  Promised!LifecycleNext
    BY <2>3, RecordedIsMove DEF Promised!LifecycleNext
  <2>4. ASSUME NEW new \in Seq(Entry), Proposed(new) PROVE Promised!LifecycleNext
    BY <2>4, ProposedIsPropose DEF Promised!LifecycleNext
  <2> QED
    BY <2>1, <2>2, <2>3, <2>4, Effect
<1> QED
  BY <1>1, <1>2, FreshAlways, PTL DEF Spec, LifecycleRefined, Promised!LifecycleSpec
============================================================================
