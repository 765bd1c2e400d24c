----------------------- MODULE ActionServiceProofs -----------------------
(***************************************************************************)
(* What holds of ActionService for every set of processes, actions, users, *)
(* policies and groups of proposals, whatever the processes interleave and *)
(* wherever they crash.                                                    *)
(***************************************************************************)
EXTENDS ActionService, SequenceTheorems, FiniteSetTheorems, TLAPS

(***************************************************************************)
(* Types.  TypeOK is not inductive: what a process writes is well typed    *)
(* because of the location it has reached.                                 *)
(***************************************************************************)
LocatedAt(p) ==
    /\ pc[p] = "commit" =>
          /\ job[p].act \in Actions /\ job[p].user \in Users /\ job[p].event \in Events
    /\ pc[p] \in {"check", "deps", "call"} =>
          job[p].act \in Actions /\ job[p].user \in Users
    /\ pc[p] \in {"tail", "insert"} =>
          \/ /\ job[p].event = "action.execute.start"
             /\ job[p].act \in Actions /\ job[p].user \in Users
          \/ job[p].event \in {"triage.run", "alerts.ingest"} /\ job[p].user = System
    /\ pc[p] \in {"read", "save"} => job[p].user = System
    /\ pc[p] = "save" => job[p].todo # <<>>

Located == \A p \in Procs : LocatedAt(p)

TypeInv == TypeOK /\ Located

\* A missing row is a value of the row type.
LEMMA NoRowType == NoRow \in Row
BY ServiceAssumption DEF NoRow, Row, Statuses

\* So do the local variables of an idle process.
LEMMA NoJobType == NoJob \in Job
<1>1. (CHOOSE q \in Policies : TRUE) \in Policies
  BY ServiceAssumption
<1>2. <<>> \in Seq(Groups)
  BY EmptySeq
<1> QED
  BY <1>1, <1>2, NoRowType DEF NoJob, Job

\* containment._build proposes a well-formed row.
LEMMA ProposalType ==
    ASSUME NEW q \in Policies, NEW a \in Actions
    PROVE  Proposal(q, a) \in Row
<1>1. NeedsSenior(q, a) \in BOOLEAN
  BY DEF NeedsSenior
<1> QED
  BY <1>1, ServiceAssumption DEF Proposal, Row, Statuses

\* The empty store and idle processes are well-typed.
THEOREM InitTypes == Init => TypeInv
<1> SUFFICES ASSUME Init PROVE TypeInv
  OBVIOUS
<1>1. TypeOK
  BY NoRowType, NoJobType, EmptySeq, ServiceAssumption DEF Init, TypeOK, Locations
<1>2. Located
  BY DEF Init, Located, LocatedAt
<1> QED
  BY <1>1, <1>2 DEF TypeInv

\* A step of p that leaves the other processes where they are.
LEMMA OthersStay ==
    ASSUME Located, NEW p \in Procs, LocatedAt(p)',
           \A q \in Procs \ {p} : pc'[q] = pc[q] /\ job'[q] = job[q]
    PROVE  Located'
<1> SUFFICES ASSUME NEW q \in Procs PROVE LocatedAt(q)'
  BY DEF Located
<1>1. CASE q = p
  BY <1>1
<1>2. CASE q # p
  <2>1. LocatedAt(q) /\ pc'[q] = pc[q] /\ job'[q] = job[q]
    BY <1>2 DEF Located
  <2> QED
    BY <2>1 DEF LocatedAt
<1> QED
  BY <1>1, <1>2

\* Setting the location and the local variables of p keeps their types.
LEMMA LocalMove ==
    ASSUME TypeInv, NEW p \in Procs, NEW l \in Locations, NEW STATE j, j \in Job,
           pc' = [pc EXCEPT ![p] = l], Locals(p, j)
    PROVE  /\ pc' \in [Procs -> Locations] /\ job' \in [Procs -> Job]
           /\ pc'[p] = l /\ job'[p] = j
           /\ \A q \in Procs \ {p} : pc'[q] = pc[q] /\ job'[q] = job[q]
BY DEF TypeInv, TypeOK, Locals

\* A step that only moves p and changes its local variables.
LEMMA LocalStep ==
    ASSUME TypeInv, NEW p \in Procs, NEW l \in Locations, NEW STATE j, j \in Job,
           pc' = [pc EXCEPT ![p] = l], Locals(p, j), LocatedAt(p)',
           UNCHANGED <<store, calls, world>>
    PROVE  TypeInv'
<1>1. /\ pc' \in [Procs -> Locations] /\ job' \in [Procs -> Job]
      /\ \A q \in Procs \ {p} : pc'[q] = pc[q] /\ job'[q] = job[q]
  BY LocalMove
<1>2. TypeOK'
  BY <1>1 DEF TypeInv, TypeOK, store, world
<1>3. Located'
  BY <1>1, OthersStay DEF TypeInv
<1> QED
  BY <1>2, <1>3 DEF TypeInv

\* The next group of a triage, and its tail, are what Triages promises.
LEMMA GroupType ==
    ASSUME TypeInv, NEW p \in Procs, job[p].todo # <<>>
    PROVE  /\ Group(p) \in Groups /\ Group(p) \in Seq(Actions)
           /\ Tail(job[p].todo) \in Seq(Groups)
           /\ DOMAIN Group(p) = 1..Len(Group(p)) /\ 1 \in DOMAIN Group(p)
           /\ \A i \in DOMAIN Group(p) : Group(p)[i] \in Actions
<1>1. job[p].todo \in Seq(Groups)
  BY DEF TypeInv, TypeOK, Job
<1>2. Group(p) \in Groups /\ Tail(job[p].todo) \in Seq(Groups)
  BY <1>1, HeadTailProperties DEF Group
<1>3. Group(p) \in Seq(Actions) /\ Group(p) # <<>>
  BY <1>2 DEF Groups
<1>4. DOMAIN Group(p) = 1..Len(Group(p)) /\ Len(Group(p)) \in Nat \ {0}
  BY <1>3, EmptySeq, LenProperties
<1>5. \A i \in DOMAIN Group(p) : Group(p)[i] \in Actions
  BY <1>3, <1>4, ElementOfSeq
<1> QED
  BY <1>2, <1>3, <1>4, <1>5

\* A command that ends leaves its process idle and the others alone.
LEMMA ExitMove ==
    ASSUME TypeInv, NEW p \in Procs, Exit(p)
    PROVE  /\ pc' \in [Procs -> Locations] /\ job' \in [Procs -> Job]
           /\ pc'[p] = "idle" /\ job'[p] = NoJob
           /\ \A q \in Procs \ {p} : pc'[q] = pc[q] /\ job'[q] = job[q]
<1>1. "idle" \in Locations
  BY DEF Locations
<1> QED
  BY <1>1, LocalMove, NoJobType DEF Exit

\* save_recommendations stores well-formed rows.
LEMMA SavedType ==
    ASSUME TypeInv, NEW p \in Procs, job[p].todo # <<>>, NEW i \in DOMAIN Group(p)
    PROVE  Existing(p, i) \in Row /\ Saved(p, i) \in Row
<1>1. Group(p)[i] \in Actions
  BY GroupType
<1>2. Existing(p, i) \in Row
  BY <1>1 DEF Existing, TypeInv, TypeOK, Job
<1>3. NeedsSenior(job[p].conf, Group(p)[i]) \in BOOLEAN
  BY DEF NeedsSenior
<1>4. [Existing(p, i) EXCEPT !.senior = NeedsSenior(job[p].conf, Group(p)[i])] \in Row
  BY <1>2, <1>3 DEF Row
<1>5. Proposal(job[p].conf, Group(p)[i]) \in Row
  BY <1>1, ProposalType DEF TypeInv, TypeOK, Job
<1> QED
  BY <1>2, <1>4, <1>5 DEF Saved

\* The entries of save_recommendations extend the log by well-formed entries, all
\* of them proposals.
LEMMA SavedLog ==
    ASSUME TypeInv, NEW p \in Procs, job[p].todo # <<>>, SaveGroup(p)
    PROVE  \E new \in Seq(Entry) :
              /\ audit' = audit \o new /\ audit' \in Seq(Entry)
              /\ \A i \in DOMAIN Group(p) : Existing(p, i).status = "absent" =>
                    \E k \in 1..Len(new) : new[k].subject = Group(p)[i]
              /\ \A k \in 1..Len(new) : new[k].event = "action.propose"
<1>0. PICK n \in 0..Len(Group(p)) : \E at \in [1..n -> New(p)] :
         /\ New(p) = {at[i] : i \in 1..n}
         /\ audit' = audit \o [i \in 1..n |->
                        NewEntry(PolicyActor, "action.propose", Group(p)[at[i]],
                                 LastHash + i - 1)]
  BY DEF SaveGroup
<1>1. PICK at \in [1..n -> New(p)] :
         /\ New(p) = {at[i] : i \in 1..n}
         /\ audit' = audit \o [i \in 1..n |->
                        NewEntry(PolicyActor, "action.propose", Group(p)[at[i]],
                                 LastHash + i - 1)]
  BY <1>0
<1> DEFINE new == [i \in 1..n |-> NewEntry(PolicyActor, "action.propose", Group(p)[at[i]],
                                           LastHash + i - 1)]
<1>2. LastHash \in Nat /\ n \in Nat /\ audit \in Seq(Entry)
  BY GroupType, LenProperties DEF LastHash, TypeInv, TypeOK
<1>3. ASSUME NEW i \in 1..n
      PROVE  /\ new[i] \in Entry /\ new[i].event = "action.propose"
             /\ new[i].subject = Group(p)[at[i]]
  <2>1. Group(p)[at[i]] \in Actions
    BY GroupType DEF New
  <2>2. LastHash + i - 1 \in Nat
    BY <1>2
  <2> QED
    BY <2>1, <2>2 DEF NewEntry, Entry, Events
<1>4. new \in Seq(Entry) /\ Len(new) = n
  <2>1. new \in [1..n -> Entry]
    BY <1>3
  <2> HIDE DEF new
  <2> QED
    BY <1>2, <2>1, SeqDef, LenProperties
<1>5. audit \o new \in Seq(Entry)
  BY <1>2, <1>4, ConcatProperties
<1>7. audit' = audit \o new
  BY <1>1
<1> HIDE DEF new
<1>6. ASSUME NEW i \in DOMAIN Group(p), Existing(p, i).status = "absent"
      PROVE  \E k \in 1..n : new[k].subject = Group(p)[i]
  <2>1. i \in New(p)
    BY <1>6 DEF New
  <2>2. PICK k \in 1..n : at[k] = i
    BY <1>1, <2>1
  <2> QED
    BY <1>3, <2>2
<1> QED
  BY <1>3, <1>4, <1>5, <1>6, <1>7

\* Every step of every command, and of the environment, keeps the types.
THEOREM StepTypes == TypeInv /\ [Next]_vars => TypeInv'
<1> SUFFICES ASSUME TypeInv, [Next]_vars PROVE TypeInv'
  OBVIOUS
<1>1. ASSUME NEW p \in Procs, NEW a \in Actions, NEW user \in Users, LoadApprove(p, a, user) PROVE TypeInv'
  <2> DEFINE j == [job[p] EXCEPT !.act = a, !.user = user,
                              !.event = "action.approve",
                              !.row = [rows[a] EXCEPT !.status = "approved", !.by = user, !.at = clock]]
  <2>1. job[p] \in Job
    BY DEF TypeInv, TypeOK
  <2>2. [rows[a] EXCEPT !.status = "approved", !.by = user, !.at = clock] \in Row
    BY <2>1 DEF TypeInv, TypeOK, Job, Row, Statuses
  <2>3. j \in Job
    BY <2>1, <2>2 DEF Job, Events
  <2>4. pc' = [pc EXCEPT ![p] = "commit"] /\ Locals(p, j) /\ UNCHANGED <<store, calls, world>>
    BY <1>1 DEF LoadApprove, Goto
  <2>5. "commit" \in Locations
    BY DEF Locations
  <2>6. pc'[p] = "commit" /\ job'[p] = j
    BY <2>3, <2>4, <2>5, LocalMove
  <2>7. LocatedAt(p)'
    BY <1>1, <2>1, <2>6 DEF TypeInv, Located, LocatedAt, Job, Events, LoadApprove, Goto
  <2> HIDE DEF j
  <2> QED
    BY <2>3, <2>4, <2>5, <2>7, LocalStep
<1>2. ASSUME NEW p \in Procs, NEW a \in Actions, NEW user \in Users, LoadReject(p, a, user) PROVE TypeInv'
  <2> DEFINE j == [job[p] EXCEPT !.act = a, !.user = user,
                              !.event = "action.reject",
                              !.row = [rows[a] EXCEPT !.status = "rejected"]]
  <2>1. job[p] \in Job
    BY DEF TypeInv, TypeOK
  <2>2. [rows[a] EXCEPT !.status = "rejected"] \in Row
    <3>1. rows[a] \in Row
      BY DEF TypeInv, TypeOK
    <3> QED
      BY <3>1 DEF Row, Statuses
  <2>3. j \in Job
    BY <2>1, <2>2 DEF Job, Events
  <2>4. pc' = [pc EXCEPT ![p] = "commit"] /\ Locals(p, j) /\ UNCHANGED <<store, calls, world>>
    BY <1>2 DEF LoadReject, Goto
  <2>5. "commit" \in Locations
    BY DEF Locations
  <2>6. pc'[p] = "commit" /\ job'[p] = j
    BY <2>3, <2>4, <2>5, LocalMove
  <2>7. LocatedAt(p)'
    BY <1>2, <2>1, <2>6 DEF TypeInv, Located, LocatedAt, Job, Events, LoadReject, Goto
  <2> HIDE DEF j
  <2> QED
    BY <2>3, <2>4, <2>5, <2>7, LocalStep
<1>3. ASSUME NEW p \in Procs, NEW a \in Actions, NEW user \in Users, LoadExecute(p, a, user) PROVE TypeInv'
  <2> DEFINE j == [job[p] EXCEPT !.act = a, !.user = user, !.row = rows[a]]
  <2>1. job[p] \in Job
    BY DEF TypeInv, TypeOK
  <2>2. rows[a] \in Row
    BY <2>1 DEF TypeInv, TypeOK, Job, Row
  <2>3. j \in Job
    BY <2>1, <2>2 DEF Job, Events
  <2>4. pc' = [pc EXCEPT ![p] = "check"] /\ Locals(p, j) /\ UNCHANGED <<store, calls, world>>
    BY <1>3 DEF LoadExecute, Goto
  <2>5. "check" \in Locations
    BY DEF Locations
  <2>6. pc'[p] = "check" /\ job'[p] = j
    BY <2>3, <2>4, <2>5, LocalMove
  <2>7. LocatedAt(p)'
    BY <1>3, <2>1, <2>6 DEF TypeInv, Located, LocatedAt, Job, Events, LoadExecute, Goto
  <2> HIDE DEF j
  <2> QED
    BY <2>3, <2>4, <2>5, <2>7, LocalStep
<1>4. ASSUME NEW p \in Procs, CheckBlocked(p) PROVE TypeInv'
  <2> DEFINE j == [job[p] EXCEPT !.row = [job[p].row EXCEPT !.status = "manual_only"],
                              !.event = "action.blocked"]
  <2>1. job[p] \in Job
    BY DEF TypeInv, TypeOK
  <2>2. [job[p].row EXCEPT !.status = "manual_only"] \in Row
    BY <2>1 DEF TypeInv, TypeOK, Job, Row, Statuses
  <2>3. j \in Job
    BY <2>1, <2>2 DEF Job, Events
  <2>4. pc' = [pc EXCEPT ![p] = "commit"] /\ Locals(p, j) /\ UNCHANGED <<store, calls, world>>
    BY <1>4 DEF CheckBlocked, Goto, Decide
  <2>5. "commit" \in Locations
    BY DEF Locations
  <2>6. pc'[p] = "commit" /\ job'[p] = j
    BY <2>3, <2>4, <2>5, LocalMove
  <2>7. LocatedAt(p)'
    BY <1>4, <2>1, <2>6 DEF TypeInv, Located, LocatedAt, Job, Events, CheckBlocked, Goto, Decide
  <2> HIDE DEF j
  <2> QED
    BY <2>3, <2>4, <2>5, <2>7, LocalStep
<1>5. ASSUME NEW p \in Procs, CheckExpired(p) PROVE TypeInv'
  <2> DEFINE j == [job[p] EXCEPT !.row = [job[p].row EXCEPT !.status = "expired"],
                              !.event = "action.expire"]
  <2>1. job[p] \in Job
    BY DEF TypeInv, TypeOK
  <2>2. [job[p].row EXCEPT !.status = "expired"] \in Row
    BY <2>1 DEF TypeInv, TypeOK, Job, Row, Statuses
  <2>3. j \in Job
    BY <2>1, <2>2 DEF Job, Events
  <2>4. pc' = [pc EXCEPT ![p] = "commit"] /\ Locals(p, j) /\ UNCHANGED <<store, calls, world>>
    BY <1>5 DEF CheckExpired, Goto, Decide
  <2>5. "commit" \in Locations
    BY DEF Locations
  <2>6. pc'[p] = "commit" /\ job'[p] = j
    BY <2>3, <2>4, <2>5, LocalMove
  <2>7. LocatedAt(p)'
    BY <1>5, <2>1, <2>6 DEF TypeInv, Located, LocatedAt, Job, Events, CheckExpired, Goto, Decide
  <2> HIDE DEF j
  <2> QED
    BY <2>3, <2>4, <2>5, <2>7, LocalStep
<1>6. ASSUME NEW p \in Procs, DepsMet(p) PROVE TypeInv'
  <2> DEFINE j == [job[p] EXCEPT !.event = "action.execute.start"]
  <2>1. job[p] \in Job
    BY DEF TypeInv, TypeOK
  <2>2. j \in Job
    BY <2>1 DEF Job, Events
  <2>3. pc' = [pc EXCEPT ![p] = "tail"] /\ Locals(p, j) /\ UNCHANGED <<store, calls, world>>
    BY <1>6 DEF DepsMet, Goto
  <2>4. "tail" \in Locations
    BY DEF Locations
  <2>5. pc'[p] = "tail" /\ job'[p] = j
    BY <2>2, <2>3, <2>4, LocalMove
  <2>6. LocatedAt(p)'
    BY <1>6, <2>1, <2>5 DEF TypeInv, Located, LocatedAt, Job, Events, DepsMet, Goto
  <2> HIDE DEF j
  <2> QED
    BY <2>2, <2>3, <2>4, <2>6, LocalStep
<1>7. ASSUME NEW p \in Procs, ReadTail(p) PROVE TypeInv'
  <2> DEFINE j == [job[p] EXCEPT !.tail = LastHash]
  <2>1. job[p] \in Job
    BY DEF TypeInv, TypeOK
  <2>2. LastHash \in Nat
    BY LenProperties DEF TypeInv, TypeOK, LastHash
  <2>3. j \in Job
    BY <2>1, <2>2 DEF Job, Events
  <2>4. pc' = [pc EXCEPT ![p] = "insert"] /\ Locals(p, j) /\ UNCHANGED <<store, calls, world>>
    BY <1>7 DEF ReadTail, Goto
  <2>5. "insert" \in Locations
    BY DEF Locations
  <2>6. pc'[p] = "insert" /\ job'[p] = j
    BY <2>3, <2>4, <2>5, LocalMove
  <2>7. LocatedAt(p)'
    BY <1>7, <2>1, <2>6 DEF TypeInv, Located, LocatedAt, Job, Events, ReadTail, Goto
  <2> HIDE DEF j
  <2> QED
    BY <2>3, <2>4, <2>5, <2>7, LocalStep
<1>8. ASSUME NEW p \in Procs, StartTriage(p), NEW t \in Triages,
        Locals(p, [job[p] EXCEPT !.todo = t, !.user = System]) PROVE TypeInv'
  <2> DEFINE j == [job[p] EXCEPT !.todo = t, !.user = System]
  <2>1. job[p] \in Job
    BY DEF TypeInv, TypeOK
  <2>2. j \in Job
    BY <2>1, ServiceAssumption DEF Job, Events
  <2>3. pc' = [pc EXCEPT ![p] = "read"] /\ Locals(p, j) /\ UNCHANGED <<store, calls, world>>
    BY <1>8 DEF StartTriage, Goto
  <2>4. "read" \in Locations
    BY DEF Locations
  <2>5. pc'[p] = "read" /\ job'[p] = j
    BY <2>2, <2>3, <2>4, LocalMove
  <2>6. LocatedAt(p)'
    BY <1>8, <2>1, <2>5 DEF TypeInv, Located, LocatedAt, Job, Events, StartTriage, Goto
  <2> HIDE DEF j
  <2> QED
    BY <2>2, <2>3, <2>4, <2>6, LocalStep
<1>9. ASSUME NEW p \in Procs, ReadFirst(p) PROVE TypeInv'
  <2> DEFINE j == [job[p] EXCEPT !.row = rows[Group(p)[1]]]
  <2>1. job[p] \in Job
    BY DEF TypeInv, TypeOK
  <2>2. rows[Group(p)[1]] \in Row
    BY <1>9, GroupType DEF ReadFirst, TypeInv, TypeOK
  <2>3. j \in Job
    BY <2>1, <2>2 DEF Job, Events
  <2>4. pc' = [pc EXCEPT ![p] = "save"] /\ Locals(p, j) /\ UNCHANGED <<store, calls, world>>
    BY <1>9 DEF ReadFirst, Goto
  <2>5. "save" \in Locations
    BY DEF Locations
  <2>6. pc'[p] = "save" /\ job'[p] = j
    BY <2>3, <2>4, <2>5, LocalMove
  <2>7. LocatedAt(p)'
    BY <1>9, <2>1, <2>6 DEF TypeInv, Located, LocatedAt, Job, Events, ReadFirst, Goto
  <2> HIDE DEF j
  <2> QED
    BY <2>3, <2>4, <2>5, <2>7, LocalStep
<1>10. ASSUME NEW p \in Procs, FinishTriage(p) PROVE TypeInv'
  <2> DEFINE j == [job[p] EXCEPT !.event = "triage.run"]
  <2>1. job[p] \in Job
    BY DEF TypeInv, TypeOK
  <2>2. j \in Job
    BY <2>1 DEF Job, Events
  <2>3. pc' = [pc EXCEPT ![p] = "tail"] /\ Locals(p, j) /\ UNCHANGED <<store, calls, world>>
    BY <1>10 DEF FinishTriage, Goto
  <2>4. "tail" \in Locations
    BY DEF Locations
  <2>5. pc'[p] = "tail" /\ job'[p] = j
    BY <2>2, <2>3, <2>4, LocalMove
  <2>6. LocatedAt(p)'
    BY <1>10, <2>1, <2>5 DEF TypeInv, Located, LocatedAt, Job, Events, FinishTriage, Goto
  <2> HIDE DEF j
  <2> QED
    BY <2>2, <2>3, <2>4, <2>6, LocalStep
<1>11. ASSUME NEW p \in Procs, Ingest(p) PROVE TypeInv'
  <2> DEFINE j == [job[p] EXCEPT !.event = "alerts.ingest", !.user = System]
  <2>1. job[p] \in Job
    BY DEF TypeInv, TypeOK
  <2>2. j \in Job
    BY <2>1 DEF Job, Events
  <2>3. pc' = [pc EXCEPT ![p] = "tail"] /\ Locals(p, j) /\ UNCHANGED <<store, calls, world>>
    BY <1>11 DEF Ingest, Goto
  <2>4. "tail" \in Locations
    BY DEF Locations
  <2>5. pc'[p] = "tail" /\ job'[p] = j
    BY <2>2, <2>3, <2>4, LocalMove
  <2>6. LocatedAt(p)'
    BY <1>11, <2>1, <2>5 DEF TypeInv, Located, LocatedAt, Job, Events, Ingest, Goto
  <2> HIDE DEF j
  <2> QED
    BY <2>2, <2>3, <2>4, <2>6, LocalStep
<1>12. ASSUME NEW p \in Procs, CheckPassed(p) PROVE TypeInv'
  <2> DEFINE j == job[p]
  <2>1. job[p] \in Job
    BY DEF TypeInv, TypeOK
  <2>2. j \in Job
    BY <2>1 DEF Job, Events
  <2>3. pc' = [pc EXCEPT ![p] = "deps"] /\ Locals(p, j) /\ UNCHANGED <<store, calls, world>>
    BY <1>12 DEF CheckPassed, Goto, Locals, TypeInv, TypeOK
  <2>4. "deps" \in Locations
    BY DEF Locations
  <2>5. pc'[p] = "deps" /\ job'[p] = j
    BY <2>2, <2>3, <2>4, LocalMove
  <2>6. LocatedAt(p)'
    BY <1>12, <2>1, <2>5 DEF TypeInv, Located, LocatedAt, Job, Events, CheckPassed, Goto
  <2> HIDE DEF j
  <2> QED
    BY <2>2, <2>3, <2>4, <2>6, LocalStep
<1>13. ASSUME NEW p \in Procs, Refused(p) PROVE TypeInv'
  <2> DEFINE j == NoJob
  <2>1. job[p] \in Job
    BY DEF TypeInv, TypeOK
  <2>2. j \in Job
    BY <2>1, NoJobType DEF Job, Events
  <2>3. pc' = [pc EXCEPT ![p] = "idle"] /\ Locals(p, j) /\ UNCHANGED <<store, calls, world>>
    BY <1>13 DEF Refused, Exit
  <2>4. "idle" \in Locations
    BY DEF Locations
  <2>5. pc'[p] = "idle" /\ job'[p] = j
    BY <2>2, <2>3, <2>4, LocalMove
  <2>6. LocatedAt(p)'
    BY <1>13, <2>1, <2>5 DEF TypeInv, Located, LocatedAt, Job, Events, Refused, Exit
  <2> HIDE DEF j
  <2> QED
    BY <2>2, <2>3, <2>4, <2>6, LocalStep
<1>14. ASSUME NEW p \in Procs, DepsUnmet(p) PROVE TypeInv'
  <2> DEFINE j == NoJob
  <2>1. job[p] \in Job
    BY DEF TypeInv, TypeOK
  <2>2. j \in Job
    BY <2>1, NoJobType DEF Job, Events
  <2>3. pc' = [pc EXCEPT ![p] = "idle"] /\ Locals(p, j) /\ UNCHANGED <<store, calls, world>>
    BY <1>14 DEF DepsUnmet, Exit
  <2>4. "idle" \in Locations
    BY DEF Locations
  <2>5. pc'[p] = "idle" /\ job'[p] = j
    BY <2>2, <2>3, <2>4, LocalMove
  <2>6. LocatedAt(p)'
    BY <1>14, <2>1, <2>5 DEF TypeInv, Located, LocatedAt, Job, Events, DepsUnmet, Exit
  <2> HIDE DEF j
  <2> QED
    BY <2>2, <2>3, <2>4, <2>6, LocalStep
<1>15. ASSUME NEW p \in Procs, Crash(p) PROVE TypeInv'
  <2> DEFINE j == NoJob
  <2>1. job[p] \in Job
    BY DEF TypeInv, TypeOK
  <2>2. j \in Job
    BY <2>1, NoJobType DEF Job, Events
  <2>3. pc' = [pc EXCEPT ![p] = "idle"] /\ Locals(p, j) /\ UNCHANGED <<store, calls, world>>
    BY <1>15 DEF Crash, Exit
  <2>4. "idle" \in Locations
    BY DEF Locations
  <2>5. pc'[p] = "idle" /\ job'[p] = j
    BY <2>2, <2>3, <2>4, LocalMove
  <2>6. LocatedAt(p)'
    BY <1>15, <2>1, <2>5 DEF TypeInv, Located, LocatedAt, Job, Events, Crash, Exit
  <2> HIDE DEF j
  <2> QED
    BY <2>2, <2>3, <2>4, <2>6, LocalStep
<1>16. ASSUME NEW p \in Procs, Start(p) PROVE TypeInv'
  <2> DEFINE j == [job[p] EXCEPT !.conf = policy]
  <2>1. j \in Job
    BY DEF TypeInv, TypeOK, Job
  <2>2. pc' = [pc EXCEPT ![p] = "ready"] /\ Locals(p, j) /\ "ready" \in Locations
    BY <1>16 DEF Start, Goto, Locations
  <2>3. /\ pc' \in [Procs -> Locations] /\ job' \in [Procs -> Job] /\ pc'[p] = "ready"
        /\ \A q \in Procs \ {p} : pc'[q] = pc[q] /\ job'[q] = job[q]
    BY <2>1, <2>2, LocalMove
  <2>4. TypeOK'
    BY <1>16, <2>3, ServiceAssumption DEF TypeInv, TypeOK, Start, store
  <2>5. LocatedAt(p)'
    BY <2>3 DEF LocatedAt
  <2> QED
    BY <2>3, <2>4, <2>5, OthersStay DEF TypeInv
<1>17. ASSUME NEW p \in Procs, CommitRow(p) PROVE TypeInv'
  <2>1. /\ pc' \in [Procs -> Locations] /\ job' \in [Procs -> Job] /\ pc'[p] = "idle"
        /\ \A q \in Procs \ {p} : pc'[q] = pc[q] /\ job'[q] = job[q]
    BY <1>17, ExitMove DEF CommitRow
  <2>2. /\ job[p].row \in Row /\ job[p].act \in Actions
        /\ job[p].user \in Users /\ job[p].event \in Events
    BY <1>17 DEF CommitRow, TypeInv, TypeOK, Job, Located, LocatedAt
  <2>3. rows' \in [Actions -> Row]
    BY <1>17, <2>2 DEF CommitRow, TypeInv, TypeOK
  <2>4. NewEntry(job[p].user, job[p].event, job[p].act, LastHash) \in Entry
    BY <2>2, LenProperties DEF NewEntry, Entry, LastHash, TypeInv, TypeOK
  <2>5. audit' \in Seq(Entry)
    BY <1>17, <2>4, AppendProperties DEF CommitRow, TypeInv, TypeOK
  <2>6. TypeOK'
    BY <1>17, <2>1, <2>3, <2>5 DEF CommitRow, TypeInv, TypeOK, world
  <2>7. LocatedAt(p)'
    BY <2>1 DEF LocatedAt
  <2> QED
    BY <2>1, <2>6, <2>7, OthersStay DEF TypeInv
<1>18. ASSUME NEW p \in Procs, InsertEntry(p) PROVE TypeInv'
  <2>1. /\ pc' \in [Procs -> Locations] /\ job' \in [Procs -> Job]
        /\ \A q \in Procs \ {p} : pc'[q] = pc[q] /\ job'[q] = job[q]
        /\ \/ pc'[p] = "idle"
           \/ /\ pc'[p] = "call" /\ job'[p] = job[p]
              /\ job[p].event = "action.execute.start"
    <3>1. CASE job[p].event = "action.execute.start"
      BY <1>18, <3>1 DEF InsertEntry, Goto, TypeInv, TypeOK, Locations
    <3>2. CASE job[p].event # "action.execute.start"
      BY <1>18, <3>2, ExitMove DEF InsertEntry
    <3> QED
      BY <3>1, <3>2
  <2>2. LocatedAt(p) /\ pc[p] = "insert" /\ job[p] \in Job
    BY <1>18 DEF InsertEntry, TypeInv, TypeOK, Located
  <2>3. NewEntry(job[p].user, job[p].event, job[p].act, job[p].tail) \in Entry
    BY <2>2 DEF NewEntry, Entry, LocatedAt, Job, Events
  <2>4. audit' \in Seq(Entry)
    BY <1>18, <2>3, AppendProperties DEF InsertEntry, TypeInv, TypeOK
  <2>5. TypeOK'
    BY <1>18, <2>1, <2>4 DEF InsertEntry, TypeInv, TypeOK, world
  <2>6. LocatedAt(p)'
    BY <2>1, <2>2 DEF LocatedAt
  <2> QED
    BY <2>1, <2>5, <2>6, OthersStay DEF TypeInv
<1>19. ASSUME NEW p \in Procs, CallConnector(p) PROVE TypeInv'
  <2>1. PICK st \in {"executed", "failed"}, ev \in {"action.execute.done", "action.execute.failed"} :
           Decide(p, st, ev)
    BY <1>19 DEF CallConnector
  <2> DEFINE j == [job[p] EXCEPT !.row = [job[p].row EXCEPT !.status = st], !.event = ev]
  <2>2. job[p] \in Job /\ job[p].act \in Actions /\ job[p].user \in Users
    BY <1>19 DEF CallConnector, Goto, TypeInv, TypeOK, Located, LocatedAt
  <2>3. [job[p].row EXCEPT !.status = st] \in Row
    BY <2>2 DEF Job, Row, Statuses
  <2>4. j \in Job
    BY <2>2, <2>3 DEF Job, Events
  <2>5. pc' = [pc EXCEPT ![p] = "commit"] /\ Locals(p, j) /\ "commit" \in Locations
    BY <1>19, <2>1 DEF CallConnector, Goto, Decide, Locations
  <2>6. /\ pc' \in [Procs -> Locations] /\ job' \in [Procs -> Job]
        /\ pc'[p] = "commit" /\ job'[p] = j
        /\ \A q \in Procs \ {p} : pc'[q] = pc[q] /\ job'[q] = job[q]
    BY <2>4, <2>5, LocalMove
  <2>7. [act |-> job[p].act, by |-> job[p].row.by, executor |-> job[p].user]
            \in [act : Actions, by : Users \union {PolicyActor, Nothing}, executor : Users]
    BY <2>2 DEF Job, Row
  <2>8. TypeOK'
    BY <1>19, <2>6, <2>7, AppendProperties DEF CallConnector, TypeInv, TypeOK, store, world
  <2>9. LocatedAt(p)'
    BY <2>2, <2>6 DEF LocatedAt, Job, Events
  <2> QED
    BY <2>6, <2>8, <2>9, OthersStay DEF TypeInv
<1>20. ASSUME NEW p \in Procs, SaveGroup(p) PROVE TypeInv'
  <2> DEFINE g == Group(p)
             j == [job[p] EXCEPT !.todo = Tail(job[p].todo), !.row = NoRow]
  <2>1. job[p] \in Job /\ job[p].todo # <<>> /\ job[p].user = System /\ pc[p] = "save"
    BY <1>20 DEF SaveGroup, Goto, TypeInv, TypeOK, Located, LocatedAt
  <2>2. j \in Job
    BY <2>1, GroupType, NoRowType DEF Job
  <2>3. pc' = [pc EXCEPT ![p] = "read"] /\ Locals(p, j) /\ "read" \in Locations
    BY <1>20 DEF SaveGroup, Goto, Locations
  <2>4. /\ pc' \in [Procs -> Locations] /\ job' \in [Procs -> Job]
        /\ pc'[p] = "read" /\ job'[p] = j
        /\ \A q \in Procs \ {p} : pc'[q] = pc[q] /\ job'[q] = job[q]
    BY <2>2, <2>3, LocalMove
  <2>5. rows' \in [Actions -> Row]
    BY <1>20, <2>1, SavedType DEF SaveGroup, TypeInv, TypeOK
  <2>6. audit' \in Seq(Entry)
    BY <1>20, <2>1, SavedLog DEF SaveGroup
  <2>7. TypeOK'
    BY <1>20, <2>4, <2>5, <2>6 DEF SaveGroup, TypeInv, TypeOK, world
  <2>8. LocatedAt(p)'
    BY <2>1, <2>4 DEF LocatedAt, Job
  <2> QED
    BY <2>4, <2>7, <2>8, OthersStay DEF TypeInv
<1>21. CASE Tick
  BY <1>21, ServiceAssumption DEF Tick, TypeInv, TypeOK, Located, LocatedAt, store
<1>22. CASE EditFiles
  BY <1>22 DEF EditFiles, TypeInv, TypeOK, Located, LocatedAt, store
<1>23. CASE UNCHANGED vars
  BY <1>23 DEF vars, TypeInv, TypeOK, Located, LocatedAt
<1> QED
  BY <1>1, <1>2, <1>3, <1>4, <1>5, <1>6, <1>7, <1>8, <1>9, <1>10, <1>11, <1>12, <1>13, <1>14, <1>15, <1>16, <1>17, <1>18, <1>19, <1>20, <1>21, <1>22, <1>23 DEF Next, Request, Step, StartTriage

\* Every row, entry, call and local variable is what the types of models.py allow.
THEOREM TypeCorrect == Spec => []TypeOK
<1>1. Spec => []TypeInv
  BY InitTypes, StepTypes, PTL DEF Spec
<1>2. TypeInv => TypeOK
  BY DEF TypeInv
<1> QED
  BY <1>1, <1>2, PTL

(***************************************************************************)
(* Accountability.  Rows and the copies of rows that processes carry are   *)
(* only ever written with what the log justifies; the log only grows, so   *)
(* a stale copy stays justified however long its process sleeps.           *)
(***************************************************************************)
HasEvent(log, event, a) ==
    \E i \in 1..Len(log) : log[i].event = event /\ log[i].subject = a

Credited(log, by, a) ==
    IF by = PolicyActor THEN a \in ApprovalFree
    ELSE \E i \in 1..Len(log) :
            log[i].event = "action.approve" /\ log[i].subject = a /\ log[i].actor = by

StatusLogged(log, st, a) ==
    \/ st = "absent"
    \/ HasEvent(log, EventOf(st), a)
    \/ st = "manual_only" /\ HasEvent(log, "action.blocked", a)
    \/ st = "approved" /\ a \in ApprovalFree /\ HasEvent(log, "action.propose", a)

Justified(log, row, a) ==
    /\ StatusLogged(log, row.status, a)
    /\ row.status = "approved" => Credited(log, row.by, a)

DependenciesDone(log, a) == \A d \in DependsOn[a] : HasEvent(log, "action.execute.done", d)

RowsJustified == \A a \in Actions : Justified(audit, rows[a], a)

\* An action is stored together with what it depends on.
DependenciesStored ==
    \A a \in Actions : rows[a].status # "absent" =>
        \A d \in DependsOn[a] : rows[d].status # "absent"

Executing(p) ==
    \/ pc[p] \in {"check", "deps", "call"}
    \/ pc[p] \in {"tail", "insert"} /\ job[p].event = "action.execute.start"

\* The event and the row that a process is about to record together.
Recordable(j) ==
    /\ j.row.status # "absent" /\ j.event # "action.execute.start"
    /\ \/ j.event = EventOf(j.row.status)
       \/ j.row.status = "manual_only" /\ j.event = "action.blocked"
    /\ j.row.status = "approved" => j.event = "action.approve" /\ j.row.by = j.user

CarriesAt(p) ==
    /\ Executing(p) =>
          /\ job[p].row.status = "approved" /\ Credited(audit, job[p].row.by, job[p].act)
          /\ rows[job[p].act].status # "absent"
    /\ Executing(p) /\ pc[p] \in {"tail", "insert", "call"} =>
          DependenciesDone(audit, job[p].act)
    /\ pc[p] = "commit" => Recordable(job[p]) /\ rows[job[p].act].status # "absent"
    /\ pc[p] = "save" => Justified(audit, job[p].row, Group(p)[1])

Carries == \A p \in Procs : CarriesAt(p)

Accountable ==
    /\ RowsJustified
    /\ DependenciesStored
    /\ Carries
    /\ StartIsApproved
    /\ DependencyRan
    /\ CallNamesApprover

\* log2 continues log.
Extends(log, log2) == Len(log) <= Len(log2) /\ \A i \in 1..Len(log) : log2[i] = log[i]

\* What a log justifies about a row, every continuation of the log does.
LEMMA JustifiedForever ==
    ASSUME NEW log \in Seq(Entry), NEW log2 \in Seq(Entry), Extends(log, log2), NEW a
    PROVE  /\ \A event : HasEvent(log, event, a) => HasEvent(log2, event, a)
           /\ \A by : Credited(log, by, a) => Credited(log2, by, a)
           /\ \A row : Justified(log, row, a) => Justified(log2, row, a)
<1>1. Len(log) \in Nat /\ Len(log2) \in Nat
  BY LenProperties
<1>2. ASSUME NEW event, HasEvent(log, event, a) PROVE HasEvent(log2, event, a)
  BY <1>1, <1>2 DEF HasEvent, Extends
<1>3. ASSUME NEW by, Credited(log, by, a) PROVE Credited(log2, by, a)
  BY <1>1, <1>3 DEF Credited, Extends
<1>4. ASSUME NEW row, Justified(log, row, a) PROVE Justified(log2, row, a)
  BY <1>2, <1>3, <1>4 DEF Justified, StatusLogged
<1> QED
  BY <1>2, <1>3, <1>4

\* append continues the log.
LEMMA AppendExtends ==
    ASSUME NEW log \in Seq(Entry), NEW e \in Entry
    PROVE  /\ Append(log, e) \in Seq(Entry) /\ Extends(log, Append(log, e))
           /\ Len(Append(log, e)) = Len(log) + 1 /\ Append(log, e)[Len(log) + 1] = e
BY AppendProperties, LenProperties DEF Extends

\* A process that does not move keeps what it carries while the log grows and
\* rows stay.
LEMMA StillCarries ==
    ASSUME TypeInv, NEW q \in Procs, CarriesAt(q), audit' \in Seq(Entry),
           Extends(audit, audit'), pc'[q] = pc[q], job'[q] = job[q],
           \A a \in Actions : rows[a].status # "absent" => rows'[a].status # "absent"
    PROVE  CarriesAt(q)'
<1> DEFINE a == job[q].act
<1>1. audit \in Seq(Entry)
  BY DEF TypeInv, TypeOK
<1>2. Executing(q) \/ pc[q] = "commit" => a \in Actions
  BY DEF TypeInv, Located, LocatedAt, Executing
<1>3. Executing(q)' <=> Executing(q)
  BY DEF Executing
<1>4. \A by : Credited(audit, by, a) => Credited(audit', by, a)
  BY <1>1, JustifiedForever
<1>5. DependenciesDone(audit, a) => DependenciesDone(audit', a)
  BY <1>1, JustifiedForever DEF DependenciesDone
<1>6. pc[q] = "save" => Justified(audit', job[q].row, Group(q)[1])
  BY <1>1, JustifiedForever DEF CarriesAt
<1>7. Group(q)' = Group(q)
  BY DEF Group
<1> QED
  BY <1>2, <1>3, <1>4, <1>5, <1>6, <1>7 DEF CarriesAt, Recordable

\* A step of p leaves the locations and local variables of the others alone.
LEMMA OnlyOneMoves ==
    ASSUME TypeInv, NEW p \in Procs, Start(p) \/ Request(p) \/ Step(p) \/ Crash(p)
    PROVE  \A q \in Procs \ {p} : pc'[q] = pc[q] /\ job'[q] = job[q]
BY DEF TypeInv, TypeOK, Start, Request, Step, Crash, Goto, Locals, Exit, Refused,
       LoadApprove, LoadReject, LoadExecute, StartTriage, Ingest, CommitRow, Decide,
       CheckBlocked, CheckExpired, CheckPassed, DepsUnmet, DepsMet, ReadTail,
       InsertEntry, CallConnector, ReadFirst, SaveGroup, FinishTriage

\* A step that changes nothing stored or sent.
LEMMA QuietStep ==
    ASSUME TypeInv, Accountable, NEW p \in Procs, CarriesAt(p)',
           \A q \in Procs \ {p} : pc'[q] = pc[q] /\ job'[q] = job[q],
           UNCHANGED <<store, calls>>
    PROVE  Accountable'
<1>1. audit \in Seq(Entry) /\ audit' = audit /\ rows' = rows /\ calls' = calls
  BY DEF TypeInv, TypeOK, store
<1>2. Extends(audit, audit')
  BY <1>1, LenProperties DEF Extends
<1>3. Carries'
  <2> SUFFICES ASSUME NEW q \in Procs PROVE CarriesAt(q)'
    BY DEF Carries
  <2>1. CASE q = p
    BY <2>1
  <2>2. CASE q # p
    BY <1>1, <1>2, <2>2, StillCarries DEF Accountable, Carries
  <2> QED
    BY <2>1, <2>2
<1>4. RowsJustified' /\ DependenciesStored'
  BY <1>1 DEF Accountable, RowsJustified, DependenciesStored
<1>5. StartIsApproved' /\ DependencyRan' /\ CallNamesApprover'
  BY <1>1 DEF Accountable, StartIsApproved, DependencyRan, CallNamesApprover, Logged
<1> QED
  BY <1>3, <1>4, <1>5 DEF Accountable

\* An empty store has nothing to account for.
THEOREM InitAccountable == Init => Accountable
BY DEF Init, NoRow, Accountable, RowsJustified, Justified, StatusLogged,
       DependenciesStored, Carries, CarriesAt, Executing, StartIsApproved,
       DependencyRan, CallNamesApprover

\* Steps that only read, decide or fail write nothing, and what the process
\* carries afterwards is justified by the log.
LEMMA LocalAccountable ==
    ASSUME TypeInv, Accountable, NEW p \in Procs,
           \/ Start(p) \/ Request(p) \/ Crash(p)
           \/ CheckBlocked(p) \/ CheckExpired(p) \/ CheckPassed(p)
           \/ DepsUnmet(p) \/ DepsMet(p) \/ ReadTail(p)
           \/ ReadFirst(p) \/ FinishTriage(p)
    PROVE  Accountable'
<1>1. \A q \in Procs \ {p} : pc'[q] = pc[q] /\ job'[q] = job[q]
  BY OnlyOneMoves DEF Step
<1>2. UNCHANGED <<store, calls>>
  BY DEF Start, Request, Crash, Refused, LoadApprove, LoadReject, LoadExecute, StartTriage,
         Ingest, CheckBlocked, CheckExpired, CheckPassed, DepsUnmet, DepsMet, ReadTail,
         ReadFirst, FinishTriage, store
<1>3. rows' = rows /\ audit' = audit
  BY <1>2 DEF store
<1>4. job[p] \in Job /\ job \in [Procs -> Job] /\ pc \in [Procs -> Locations]
  BY DEF TypeInv, TypeOK
<1>5. ASSUME Start(p) PROVE CarriesAt(p)'
  BY <1>5, <1>4 DEF Start, CarriesAt, Executing, Goto, Exit
<1>6. ASSUME Refused(p) PROVE CarriesAt(p)'
  BY <1>6, <1>4 DEF Refused, CarriesAt, Executing, Goto, Exit
<1>7. ASSUME Crash(p) PROVE CarriesAt(p)'
  BY <1>7, <1>4 DEF Crash, CarriesAt, Executing, Goto, Exit
<1>8. ASSUME DepsUnmet(p) PROVE CarriesAt(p)'
  BY <1>8, <1>4 DEF DepsUnmet, CarriesAt, Executing, Goto, Exit
<1>9. ASSUME NEW a \in Actions, NEW user \in Users, LoadApprove(p, a, user) PROVE CarriesAt(p)'
  <2>1. rows[a] \in Row /\ rows[a].status = "pending_approval"
    BY <1>9 DEF TypeInv, TypeOK, LoadApprove, Approvable
  <2>2. /\ pc'[p] = "commit" /\ job'[p].act = a /\ job'[p].user = user
        /\ job'[p].event = "action.approve" /\ job'[p].row.status = "approved"
        /\ job'[p].row.by = user
    BY <1>9, <1>4, <2>1 DEF LoadApprove, Goto, Locals, Job, Row
  <2> QED
    BY <1>3, <2>1, <2>2 DEF CarriesAt, Executing, Recordable, EventOf
<1>10. ASSUME NEW a \in Actions, NEW user \in Users, LoadReject(p, a, user) PROVE CarriesAt(p)'
  <2>1. rows[a] \in Row /\ rows[a].status \in {"pending_approval", "approved"}
    BY <1>10 DEF TypeInv, TypeOK, LoadReject, Rejectable
  <2>2. /\ pc'[p] = "commit" /\ job'[p].act = a /\ job'[p].event = "action.reject"
        /\ job'[p].row.status = "rejected"
    BY <1>10, <1>4, <2>1 DEF LoadReject, Goto, Locals, Job, Row
  <2> QED
    BY <1>3, <2>1, <2>2 DEF CarriesAt, Executing, Recordable, EventOf
<1>11. ASSUME NEW a \in Actions, NEW user \in Users, LoadExecute(p, a, user) PROVE CarriesAt(p)'
  <2>1. rows[a].status = "approved" /\ Justified(audit, rows[a], a)
    BY <1>11 DEF LoadExecute, Accountable, RowsJustified
  <2>2. pc'[p] = "check" /\ job'[p].act = a /\ job'[p].row = rows[a]
    BY <1>11, <1>4 DEF LoadExecute, Goto, Locals, Job
  <2> QED
    BY <1>3, <2>1, <2>2 DEF CarriesAt, Executing, Justified
<1>12. ASSUME StartTriage(p) PROVE CarriesAt(p)'
  BY <1>12, <1>4 DEF StartTriage, CarriesAt, Executing, Goto
<1>13. ASSUME Ingest(p) PROVE CarriesAt(p)'
  <2>1. pc'[p] = "tail" /\ job'[p].event = "alerts.ingest"
    BY <1>13, <1>4 DEF Ingest, Goto, Locals, Job
  <2> QED
    BY <2>1 DEF CarriesAt, Executing
<1>14. ASSUME FinishTriage(p) PROVE CarriesAt(p)'
  <2>1. pc'[p] = "tail" /\ job'[p].event = "triage.run"
    BY <1>14, <1>4 DEF FinishTriage, Goto, Locals, Job
  <2> QED
    BY <2>1 DEF CarriesAt, Executing
<1>15. ASSUME CheckBlocked(p) PROVE CarriesAt(p)'
  <2>1. rows[job[p].act].status # "absent" /\ job[p].row \in Row
    BY <1>15, <1>4 DEF CheckBlocked, Goto, Accountable, Carries, CarriesAt, Executing, Job
  <2>2. /\ pc'[p] = "commit" /\ job'[p].act = job[p].act /\ job'[p].event = "action.blocked"
        /\ job'[p].row.status = "manual_only"
    BY <1>15, <1>4, <2>1 DEF CheckBlocked, Goto, Locals, Decide, Job, Row
  <2> QED
    BY <1>3, <2>1, <2>2 DEF CarriesAt, Executing, Recordable, EventOf
<1>16. ASSUME CheckExpired(p) PROVE CarriesAt(p)'
  <2>1. rows[job[p].act].status # "absent" /\ job[p].row \in Row
    BY <1>16, <1>4 DEF CheckExpired, Goto, Accountable, Carries, CarriesAt, Executing, Job
  <2>2. /\ pc'[p] = "commit" /\ job'[p].act = job[p].act /\ job'[p].event = "action.expire"
        /\ job'[p].row.status = "expired"
    BY <1>16, <1>4, <2>1 DEF CheckExpired, Goto, Locals, Decide, Job, Row
  <2> QED
    BY <1>3, <2>1, <2>2 DEF CarriesAt, Executing, Recordable, EventOf
<1>17. ASSUME CheckPassed(p) PROVE CarriesAt(p)'
  <2>1. pc[p] = "check" /\ pc'[p] = "deps" /\ job'[p] = job[p]
    BY <1>17, <1>4 DEF CheckPassed, Goto
  <2> QED
    BY <1>3, <2>1 DEF CarriesAt, Executing, Accountable, Carries
<1>18. ASSUME DepsMet(p) PROVE CarriesAt(p)'
  <2> DEFINE a == job[p].act
  <2>1. pc[p] = "deps" /\ a \in Actions /\ Unmet(a) = {}
    BY <1>18 DEF DepsMet, Goto, TypeInv, Located, LocatedAt
  <2>2. /\ job[p].row.status = "approved" /\ Credited(audit, job[p].row.by, a)
        /\ rows[a].status # "absent"
    BY <2>1 DEF Accountable, Carries, CarriesAt, Executing
  <2>3. DependenciesDone(audit, a)
    <3> SUFFICES ASSUME NEW d \in DependsOn[a]
                 PROVE  HasEvent(audit, "action.execute.done", d)
      BY DEF DependenciesDone
    <3>1. d \in Actions /\ rows[d].status # "absent"
      BY <2>1, <2>2, ServiceAssumption DEF Accountable, DependenciesStored
    <3>2. rows[d].status = "executed"
      BY <2>1, <3>1 DEF Unmet
    <3> QED
      BY <3>1, <3>2 DEF Accountable, RowsJustified, Justified, StatusLogged, EventOf
  <2>4. /\ pc'[p] = "tail" /\ job'[p].act = a /\ job'[p].row = job[p].row
    BY <1>18, <1>4 DEF DepsMet, Goto, Locals, Job
  <2> QED
    BY <1>3, <2>2, <2>3, <2>4 DEF CarriesAt, Executing
<1>19. ASSUME ReadTail(p) PROVE CarriesAt(p)'
  <2>1. /\ pc[p] = "tail" /\ pc'[p] = "insert" /\ job'[p].act = job[p].act
        /\ job'[p].row = job[p].row /\ job'[p].event = job[p].event
    BY <1>19, <1>4 DEF ReadTail, Goto, Locals, Job
  <2> QED
    BY <1>3, <2>1 DEF CarriesAt, Executing, Accountable, Carries
<1>20. ASSUME ReadFirst(p) PROVE CarriesAt(p)'
  <2>1. Group(p)[1] \in Actions
    BY <1>20, GroupType DEF ReadFirst
  <2>2. pc'[p] = "save" /\ job'[p].row = rows[Group(p)[1]] /\ job'[p].todo = job[p].todo
    BY <1>20, <1>4 DEF ReadFirst, Goto, Locals, Job
  <2>3. Group(p)' = Group(p)
    BY <2>2 DEF Group
  <2> QED
    BY <1>3, <2>1, <2>2, <2>3 DEF CarriesAt, Executing, Accountable, RowsJustified
<1>21. CarriesAt(p)'
  BY <1>5, <1>6, <1>7, <1>8, <1>9, <1>10, <1>11, <1>12, <1>13, <1>14, <1>15, <1>16, <1>17, <1>18, <1>19, <1>20 DEF Request
<1> QED
  BY <1>1, <1>2, <1>21, QuietStep


\* A step that extends the log and writes only justified rows.
LEMMA LoudStep ==
    ASSUME TypeInv, Accountable, NEW p \in Procs, CarriesAt(p)',
           \A q \in Procs \ {p} : pc'[q] = pc[q] /\ job'[q] = job[q],
           audit' \in Seq(Entry), Extends(audit, audit'),
           \A a \in Actions : rows'[a] = rows[a] \/ Justified(audit', rows'[a], a),
           \A a \in Actions : rows[a].status # "absent" => rows'[a].status # "absent",
           DependenciesStored', calls' = calls,
           \A j \in (Len(audit) + 1)..Len(audit') :
              audit'[j].event = "action.execute.start" =>
                 /\ audit'[j].subject \in ApprovalFree
                       \/ HasEvent(audit, "action.approve", audit'[j].subject)
                 /\ DependenciesDone(audit, audit'[j].subject)
    PROVE  Accountable'
<1>1. /\ audit \in Seq(Entry) /\ Len(audit) \in Nat /\ Len(audit') \in Nat
      /\ DOMAIN audit = 1..Len(audit) /\ DOMAIN audit' = 1..Len(audit')
      /\ Len(audit) <= Len(audit') /\ \A i \in 1..Len(audit) : audit'[i] = audit[i]
  BY LenProperties DEF TypeInv, TypeOK, Extends
<1>2. Carries'
  <2> SUFFICES ASSUME NEW q \in Procs PROVE CarriesAt(q)'
    BY DEF Carries
  <2>1. CASE q = p
    BY <2>1
  <2>2. CASE q # p
    BY <2>2, StillCarries DEF Accountable, Carries
  <2> QED
    BY <2>1, <2>2
<1>3. RowsJustified'
  BY <1>1, JustifiedForever DEF Accountable, RowsJustified
<1>4. StartIsApproved'
  <2> SUFFICES ASSUME NEW j \in 1..Len(audit'), audit'[j].event = "action.execute.start"
               PROVE  \/ audit'[j].subject \in ApprovalFree
                      \/ \E i \in 1..(j - 1) : /\ audit'[i].event = "action.approve"
                                               /\ audit'[i].subject = audit'[j].subject
    BY <1>1 DEF StartIsApproved, Logged
  <2>1. CASE j <= Len(audit)
    <3>1. j \in 1..Len(audit) /\ audit'[j] = audit[j]
      BY <1>1, <2>1
    <3> QED
      BY <1>1, <3>1 DEF Accountable, StartIsApproved, Logged
  <2>2. CASE j > Len(audit)
    BY <1>1, <2>2 DEF HasEvent
  <2> QED
    BY <1>1, <2>1, <2>2
<1>5. DependencyRan'
  <2> SUFFICES ASSUME NEW j \in 1..Len(audit'), audit'[j].event = "action.execute.start",
                      NEW d \in DependsOn[audit'[j].subject]
               PROVE  \E i \in 1..(j - 1) : /\ audit'[i].event = "action.execute.done"
                                            /\ audit'[i].subject = d
    BY <1>1 DEF DependencyRan, Logged
  <2>1. CASE j <= Len(audit)
    <3>1. j \in DOMAIN audit /\ audit'[j] = audit[j]
      BY <1>1, <2>1
    <3>2. PICK i \in 1..(j - 1) : Logged(i, "action.execute.done", d)
      BY <3>1 DEF Accountable, DependencyRan
    <3>3. audit'[i] = audit[i]
      BY <1>1, <2>1
    <3> QED
      BY <3>2, <3>3 DEF Logged
  <2>2. CASE j > Len(audit)
    <3>1. HasEvent(audit, "action.execute.done", d)
      BY <1>1, <2>2 DEF DependenciesDone
    <3>2. PICK i \in 1..Len(audit) :
             audit[i].event = "action.execute.done" /\ audit[i].subject = d
      BY <3>1 DEF HasEvent
    <3>3. i \in 1..(j - 1) /\ audit'[i] = audit[i]
      BY <1>1, <2>2
    <3> QED
      BY <3>2, <3>3
  <2> QED
    BY <1>1, <2>1, <2>2
<1>6. CallNamesApprover'
  BY <1>1 DEF Accountable, CallNamesApprover, Logged
<1> QED
  BY <1>2, <1>3, <1>4, <1>5, <1>6 DEF Accountable

\* The transaction of approve, reject and _record.
LEMMA CommitAccountable ==
    ASSUME TypeInv, Accountable, NEW p \in Procs, CommitRow(p)
    PROVE  Accountable'
<1> DEFINE a == job[p].act
           e == NewEntry(job[p].user, job[p].event, a, LastHash)
<1>1. /\ pc[p] = "commit" /\ job[p] \in Job /\ a \in Actions
      /\ job[p].user \in Users /\ job[p].event \in Events
      /\ Recordable(job[p]) /\ rows[a].status # "absent"
  BY DEF CommitRow, TypeInv, TypeOK, Located, LocatedAt, Accountable, Carries, CarriesAt
<1>2. audit \in Seq(Entry) /\ Len(audit) \in Nat
  BY LenProperties DEF TypeInv, TypeOK
<1>3. /\ e \in Entry /\ e.event = job[p].event /\ e.subject = a /\ e.actor = job[p].user
  BY <1>1, <1>2 DEF NewEntry, Entry, LastHash
<1>4. /\ audit' = Append(audit, e) /\ rows' = [rows EXCEPT ![a] = job[p].row]
      /\ calls' = calls
  BY DEF CommitRow
<1> HIDE DEF e
<1>5. /\ audit' \in Seq(Entry) /\ Extends(audit, audit')
      /\ Len(audit') = Len(audit) + 1 /\ audit'[Len(audit) + 1] = e
  BY <1>2, <1>3, <1>4, AppendExtends
<1>6. rows'[a] = job[p].row /\ \A b \in Actions \ {a} : rows'[b] = rows[b]
  BY <1>1, <1>4 DEF TypeInv, TypeOK
<1>7. Justified(audit', rows'[a], a)
  <2>1. HasEvent(audit', job[p].event, a)
    BY <1>2, <1>3, <1>5 DEF HasEvent
  <2>2. StatusLogged(audit', job[p].row.status, a)
    BY <1>1, <2>1 DEF StatusLogged, Recordable
  <2>3. job[p].row.status = "approved" => Credited(audit', job[p].row.by, a)
    BY <1>1, <1>2, <1>3, <1>5, NamesAssumption DEF Credited, Recordable
  <2> QED
    BY <1>6, <2>2, <2>3 DEF Justified
<1>8. \A b \in Actions : rows[b].status # "absent" => rows'[b].status # "absent"
  BY <1>1, <1>6 DEF Recordable
<1>9. DependenciesStored'
  BY <1>1, <1>6, <1>8, ServiceAssumption DEF Accountable, DependenciesStored
<1>10. /\ CarriesAt(p)'
       /\ \A q \in Procs \ {p} : pc'[q] = pc[q] /\ job'[q] = job[q]
  <2>1. /\ pc'[p] = "idle"
        /\ \A q \in Procs \ {p} : pc'[q] = pc[q] /\ job'[q] = job[q]
    BY ExitMove DEF CommitRow
  <2> QED
    BY <2>1 DEF CarriesAt, Executing
<1>11. \A j \in (Len(audit) + 1)..Len(audit') : audit'[j].event # "action.execute.start"
  BY <1>1, <1>2, <1>3, <1>5 DEF Recordable
<1>12. \A b \in Actions : rows'[b] = rows[b] \/ Justified(audit', rows'[b], b)
  BY <1>6, <1>7
<1> QED
  BY <1>4, <1>5, <1>8, <1>9, <1>10, <1>11, <1>12, LoudStep

\* The insert of AuditLog.append: a start is logged only when it is covered.
LEMMA InsertAccountable ==
    ASSUME TypeInv, Accountable, NEW p \in Procs, InsertEntry(p)
    PROVE  Accountable'
<1> DEFINE a == job[p].act
           e == NewEntry(job[p].user, job[p].event, a, job[p].tail)
<1>1. /\ pc[p] = "insert" /\ job[p] \in Job /\ LocatedAt(p) /\ CarriesAt(p)
      /\ job \in [Procs -> Job] /\ pc \in [Procs -> Locations]
  BY DEF InsertEntry, TypeInv, TypeOK, Located, Accountable, Carries
<1>2. audit \in Seq(Entry) /\ Len(audit) \in Nat
  BY LenProperties DEF TypeInv, TypeOK
<1>3. /\ e \in Entry /\ e.event = job[p].event /\ e.subject = a
  BY <1>1 DEF NewEntry, Entry, LocatedAt, Job, Events
<1>4. audit' = Append(audit, e) /\ rows' = rows /\ calls' = calls
  BY DEF InsertEntry
<1> HIDE DEF e
<1>5. /\ audit' \in Seq(Entry) /\ Extends(audit, audit')
      /\ Len(audit') = Len(audit) + 1 /\ audit'[Len(audit) + 1] = e
  BY <1>2, <1>3, <1>4, AppendExtends
<1>6. DependenciesStored'
  BY <1>4 DEF Accountable, DependenciesStored
<1>7. job[p].event = "action.execute.start" =>
        /\ a \in ApprovalFree \/ HasEvent(audit, "action.approve", a)
        /\ DependenciesDone(audit, a)
  BY <1>1 DEF CarriesAt, Executing, Credited, HasEvent
<1>8. \A q \in Procs \ {p} : pc'[q] = pc[q] /\ job'[q] = job[q]
  BY OnlyOneMoves DEF Step
<1>9. CarriesAt(p)'
  <2>1. CASE job[p].event = "action.execute.start"
    <3>1. pc'[p] = "call" /\ job'[p] = job[p]
      BY <1>1, <2>1 DEF InsertEntry, Goto
    <3>2. \A by : Credited(audit, by, a) => Credited(audit', by, a)
      BY <1>2, <1>5, JustifiedForever
    <3>3. DependenciesDone(audit, a) => DependenciesDone(audit', a)
      BY <1>2, <1>5, JustifiedForever DEF DependenciesDone
    <3> QED
      BY <1>1, <1>4, <2>1, <3>1, <3>2, <3>3 DEF CarriesAt, Executing
  <2>2. CASE job[p].event # "action.execute.start"
    <3>1. pc'[p] = "idle"
      BY <2>2, ExitMove DEF InsertEntry
    <3> QED
      BY <3>1 DEF CarriesAt, Executing
  <2> QED
    BY <2>1, <2>2
<1>10. \A j \in (Len(audit) + 1)..Len(audit') : audit'[j] = e
  BY <1>2, <1>5
<1> QED
  BY <1>3, <1>4, <1>5, <1>6, <1>7, <1>8, <1>9, <1>10, LoudStep

\* The connector call names the approver of the row the process loaded.
LEMMA CallAccountable ==
    ASSUME TypeInv, Accountable, NEW p \in Procs, CallConnector(p)
    PROVE  Accountable'
<1> DEFINE c == [act |-> job[p].act, by |-> job[p].row.by, executor |-> job[p].user]
<1>1. /\ pc[p] = "call" /\ job[p] \in Job /\ job[p].act \in Actions
      /\ job[p].user \in Users /\ job[p].row \in Row
      /\ job \in [Procs -> Job] /\ pc \in [Procs -> Locations]
  BY DEF CallConnector, Goto, TypeInv, TypeOK, Located, LocatedAt, Job
<1>2. /\ Credited(audit, job[p].row.by, job[p].act) /\ rows[job[p].act].status # "absent"
  BY <1>1 DEF Accountable, Carries, CarriesAt, Executing
<1>3. audit' = audit /\ rows' = rows /\ calls' = Append(calls, c)
  BY DEF CallConnector, store
<1>4. \A q \in Procs \ {p} : pc'[q] = pc[q] /\ job'[q] = job[q]
  BY OnlyOneMoves DEF Step
<1>5. /\ pc'[p] = "commit" /\ job'[p].act = job[p].act
      /\ \/ job'[p].row.status = "executed" /\ job'[p].event = "action.execute.done"
         \/ job'[p].row.status = "failed" /\ job'[p].event = "action.execute.failed"
  <2>1. PICK st, ev :
           /\ Decide(p, st, ev)
           /\ \/ st = "executed" /\ ev = "action.execute.done"
              \/ st = "failed" /\ ev = "action.execute.failed"
    BY DEF CallConnector
  <2>2. job'[p] = [job[p] EXCEPT !.row = [job[p].row EXCEPT !.status = st], !.event = ev]
    BY <1>1, <2>1 DEF Decide, Locals
  <2>3. [job[p].row EXCEPT !.status = st].status = st
    BY <1>1 DEF Row
  <2>4. /\ job'[p].act = job[p].act /\ job'[p].event = ev
        /\ job'[p].row = [job[p].row EXCEPT !.status = st]
    BY <1>1, <2>2 DEF Job
  <2>5. pc'[p] = "commit"
    BY <1>1 DEF CallConnector, Goto
  <2> QED
    BY <2>1, <2>3, <2>4, <2>5
<1>6. CarriesAt(p)'
  BY <1>2, <1>3, <1>5 DEF CarriesAt, Executing, Recordable, EventOf
<1>7. Carries'
  <2> SUFFICES ASSUME NEW q \in Procs PROVE CarriesAt(q)'
    BY DEF Carries
  <2>1. CASE q = p
    BY <1>6, <2>1
  <2>2. CASE q # p
    <3>1. audit \in Seq(Entry) /\ Extends(audit, audit')
      BY <1>3, LenProperties DEF TypeInv, TypeOK, Extends
    <3> QED
      BY <1>3, <1>4, <2>2, <3>1, StillCarries DEF Accountable, Carries
  <2> QED
    BY <2>1, <2>2
<1>8. RowsJustified' /\ DependenciesStored' /\ StartIsApproved' /\ DependencyRan'
  BY <1>3 DEF Accountable, RowsJustified, DependenciesStored, StartIsApproved,
              DependencyRan, Logged
<1>9. CallNamesApprover'
  <2> DEFINE C == [act : Actions, by : Users \union {PolicyActor, Nothing},
                   executor : Users]
  <2>1. calls \in Seq(C) /\ c \in C
    BY <1>1 DEF TypeInv, TypeOK, Row
  <2>2. /\ calls' \in Seq(C) /\ Len(calls') = Len(calls) + 1
        /\ calls'[Len(calls) + 1] = c /\ \A i \in 1..Len(calls) : calls'[i] = calls[i]
        /\ Len(calls) \in Nat /\ DOMAIN calls = 1..Len(calls)
        /\ DOMAIN calls' = 1..Len(calls')
    BY <1>3, <2>1, AppendProperties, LenProperties
  <2>3. DOMAIN audit = 1..Len(audit)
    BY LenProperties DEF TypeInv, TypeOK
  <2>4. c.act = job[p].act /\ c.by = job[p].row.by
    OBVIOUS
  <2> HIDE DEF c, C
  <2> QED
    BY <1>2, <1>3, <2>2, <2>3, <2>4 DEF Accountable, CallNamesApprover, Logged, Credited
<1> QED
  BY <1>7, <1>8, <1>9 DEF Accountable

\* The transaction of save_recommendations.
LEMMA SaveAccountable ==
    ASSUME TypeInv, Accountable, NEW p \in Procs, SaveGroup(p)
    PROVE  Accountable'
<1> DEFINE g == Group(p)
           Member(a) == \E i \in DOMAIN g : g[i] = a
<1>1. /\ pc[p] = "save" /\ job[p] \in Job /\ job[p].todo # <<>>
      /\ Justified(audit, job[p].row, g[1])
  BY DEF SaveGroup, Goto, TypeInv, TypeOK, Located, LocatedAt, Accountable, Carries,
         CarriesAt
<1>2. /\ g \in Groups /\ DOMAIN g = 1..Len(g) /\ \A i \in DOMAIN g : g[i] \in Actions
  BY <1>1, GroupType
<1>3. PICK new \in Seq(Entry) :
         /\ audit' = audit \o new /\ audit' \in Seq(Entry)
         /\ \A i \in DOMAIN g : Existing(p, i).status = "absent" =>
               \E k \in 1..Len(new) : new[k].subject = g[i]
         /\ \A k \in 1..Len(new) : new[k].event = "action.propose"
  BY <1>1, SavedLog
<1>4. /\ audit \in Seq(Entry) /\ Len(audit) \in Nat /\ Len(new) \in Nat
      /\ Len(audit') = Len(audit) + Len(new)
      /\ \A i \in 1..Len(audit) : audit'[i] = audit[i]
      /\ \A k \in 1..Len(new) : audit'[Len(audit) + k] = new[k]
  <2>1. audit \in Seq(Entry) /\ Len(audit) \in Nat /\ Len(new) \in Nat
    BY LenProperties DEF TypeInv, TypeOK
  <2> QED
    BY <1>3, <2>1, ConcatProperties
<1>5. Extends(audit, audit')
  BY <1>4 DEF Extends
<1>6. ASSUME NEW i \in DOMAIN g, Existing(p, i).status = "absent"
      PROVE  HasEvent(audit', "action.propose", g[i])
  <2>1. PICK k \in 1..Len(new) : new[k].subject = g[i] /\ new[k].event = "action.propose"
    BY <1>3, <1>6
  <2> QED
    BY <1>4, <2>1 DEF HasEvent
<1>7. ASSUME NEW i \in DOMAIN g
      PROVE  Saved(p, i).status # "absent" /\ Justified(audit', Saved(p, i), g[i])
  <2>1. Existing(p, i) \in Row /\ g[i] \in Actions
    BY <1>1, <1>2, SavedType
  <2>2. Justified(audit, Existing(p, i), g[i])
    BY <1>1, <2>1 DEF Existing, Accountable, RowsJustified
  <2>3. CASE Existing(p, i).status = "absent"
    <3>1. Saved(p, i) = Proposal(job[p].conf, g[i])
      BY <2>3 DEF Saved
    <3>2. /\ Saved(p, i).status \in {"manual_only", "approved", "pending_approval"}
          /\ Saved(p, i).status = "approved" =>
                g[i] \in ApprovalFree /\ Saved(p, i).by = PolicyActor
      BY <3>1 DEF Proposal
    <3>3. HasEvent(audit', "action.propose", g[i])
      BY <1>6, <2>3
    <3> QED
      BY <3>2, <3>3 DEF Justified, StatusLogged, Credited, EventOf
  <2>4. CASE Existing(p, i).status # "absent"
    <3>1. Saved(p, i) = [Existing(p, i) EXCEPT !.senior = NeedsSenior(job[p].conf, g[i])]
      BY <2>4 DEF Saved
    <3>2. Saved(p, i).status = Existing(p, i).status /\ Saved(p, i).by = Existing(p, i).by
      BY <2>1, <3>1 DEF Row
    <3>3. Justified(audit', Existing(p, i), g[i])
      BY <1>3, <1>4, <1>5, <2>2, JustifiedForever
    <3> QED
      BY <2>4, <3>2, <3>3 DEF Justified
  <2> QED
    BY <2>3, <2>4
<1>8. ASSUME NEW a \in Actions
      PROVE  IF Member(a) THEN rows'[a].status # "absent" /\ Justified(audit', rows'[a], a)
             ELSE rows'[a] = rows[a]
  <2>1. CASE Member(a)
    <3> DEFINE i == CHOOSE i \in DOMAIN g : g[i] = a
    <3>1. i \in DOMAIN g /\ g[i] = a
      BY <2>1
    <3>2. rows'[a] = Saved(p, i)
      BY <2>1 DEF SaveGroup
    <3> QED
      BY <1>7, <2>1, <3>1, <3>2
  <2>2. CASE ~Member(a)
    BY <2>2 DEF SaveGroup
  <2> QED
    BY <2>1, <2>2
<1>9. \A a \in Actions, d \in Actions : Member(a) /\ d \in DependsOn[a] => Member(d)
  BY <1>2 DEF Groups
<1> HIDE DEF Member
<1>10. DependenciesStored'
  BY <1>8, <1>9, ServiceAssumption DEF Accountable, DependenciesStored
<1>11. \A a \in Actions : rows[a].status # "absent" => rows'[a].status # "absent"
  BY <1>8
<1>12. \A a \in Actions : rows'[a] = rows[a] \/ Justified(audit', rows'[a], a)
  BY <1>8
<1>13. \A j \in (Len(audit) + 1)..Len(audit') : audit'[j].event # "action.execute.start"
  <2> SUFFICES ASSUME NEW j \in (Len(audit) + 1)..Len(audit')
               PROVE  audit'[j].event # "action.execute.start"
    OBVIOUS
  <2>1. j - Len(audit) \in 1..Len(new) /\ Len(audit) + (j - Len(audit)) = j
    BY <1>4
  <2> QED
    BY <1>3, <1>4, <2>1
<1>14. /\ CarriesAt(p)'
       /\ \A q \in Procs \ {p} : pc'[q] = pc[q] /\ job'[q] = job[q]
  <2>1. pc'[p] = "read"
    BY DEF SaveGroup, Goto, TypeInv, TypeOK
  <2>2. \A q \in Procs \ {p} : pc'[q] = pc[q] /\ job'[q] = job[q]
    BY OnlyOneMoves DEF Step
  <2> QED
    BY <2>1, <2>2 DEF CarriesAt, Executing
<1>15. calls' = calls
  BY DEF SaveGroup
<1> QED
  BY <1>3, <1>5, <1>10, <1>11, <1>12, <1>13, <1>14, <1>15, LoudStep

\* Accountable is inductive relative to the types.
THEOREM StepAccountable == TypeInv /\ Accountable /\ [Next]_vars => Accountable'
<1> SUFFICES ASSUME TypeInv, Accountable, [Next]_vars PROVE Accountable'
  OBVIOUS
<1>1. ASSUME NEW p \in Procs, Start(p) \/ Request(p) \/ Step(p) \/ Crash(p)
      PROVE  Accountable'
  BY <1>1, LocalAccountable, CommitAccountable, InsertAccountable, CallAccountable,
     SaveAccountable DEF Step
<1>2. ASSUME Tick \/ EditFiles \/ UNCHANGED vars PROVE Accountable'
  <2>1. /\ rows' = rows /\ audit' = audit /\ calls' = calls /\ pc' = pc /\ job' = job
    BY <1>2 DEF Tick, EditFiles, vars, store
  <2> QED
    BY <2>1 DEF Accountable, RowsJustified, DependenciesStored, Carries, CarriesAt,
                Executing, Group, StartIsApproved, DependencyRan, CallNamesApprover, Logged
<1> QED
  BY <1>1, <1>2 DEF Next

\* Types and accountability hold in every reachable state.
LEMMA AccountableAlways == Spec => [](TypeInv /\ Accountable)
<1>1. Init => TypeInv /\ Accountable
  BY InitTypes, InitAccountable
<1>2. (TypeInv /\ Accountable) /\ [Next]_vars => (TypeInv /\ Accountable)'
  BY StepTypes, StepAccountable
<1> QED
  BY <1>1, <1>2, PTL DEF Spec

\* No interleaving, stale row, lost update or crash lets an action start that no
\* logged approval and no pre-approval covers (executor.execute).
THEOREM StartsAreApproved == Spec => []StartIsApproved
<1>1. TypeInv /\ Accountable => StartIsApproved
  BY DEF Accountable
<1> QED
  BY <1>1, AccountableAlways, PTL

\* Every dependency of a started action was logged as done before the start, for
\* every dependency relation with at most one dependency per action.
THEOREM DependenciesRan == Spec => []DependencyRan
<1>1. TypeInv /\ Accountable => DependencyRan
  BY DEF Accountable
<1> QED
  BY <1>1, AccountableAlways, PTL

\* The approver named to the connector is a logged approver or the policy actor.
THEOREM CallsNameApprover == Spec => []CallNamesApprover
<1>1. TypeInv /\ Accountable => CallNamesApprover
  BY DEF Accountable
<1> QED
  BY <1>1, AccountableAlways, PTL

\* A stored status always has its entry: save and append share a transaction.
THEOREM StatusesWereLogged == Spec => []StatusWasLogged
<1>1. TypeInv /\ Accountable => StatusWasLogged
  <2> SUFFICES ASSUME TypeInv, Accountable PROVE StatusWasLogged
    OBVIOUS
  <2>1. DOMAIN audit = 1..Len(audit)
    BY LenProperties DEF TypeInv, TypeOK
  <2>2. \A a \in Actions : StatusLogged(audit, rows[a].status, a)
    BY DEF Accountable, RowsJustified, Justified
  <2> QED
    BY <2>1, <2>2 DEF StatusWasLogged, StatusLogged, HasEvent, Logged
<1> QED
  BY <1>1, AccountableAlways, PTL

(***************************************************************************)
(* Protected targets.  From the check on, the command remembers what it    *)
(* checked: neither its action nor its files change until the call.        *)
(***************************************************************************)
SparedAt(p) ==
    \/ pc[p] \in {"deps", "call"}
    \/ pc[p] \in {"tail", "insert"} /\ job[p].event = "action.execute.start"
    => ~IsProtected(job[p].conf, job[p].act)

Spared == \A p \in Procs : SparedAt(p)

\* A step of p on the way to the call keeps what was checked; any other leaves it.
LEMMA StepSpares ==
    ASSUME TypeInv, Spared, NEW p \in Procs, Start(p) \/ Request(p) \/ Step(p) \/ Crash(p)
    PROVE  SparedAt(p)'
<1>0. SparedAt(p) /\ pc \in [Procs -> Locations] /\ job \in [Procs -> Job] /\ job[p] \in Job
  BY DEF Spared, TypeInv, TypeOK
<1>1. CASE Start(p) \/ Refused(p) \/ Crash(p) \/ DepsUnmet(p) \/ CommitRow(p)
  BY <1>0, <1>1 DEF Start, Refused, Crash, DepsUnmet, CommitRow, Exit, Goto, SparedAt
<1>2. ASSUME NEW a \in Actions, NEW user \in Users,
             LoadApprove(p, a, user) \/ LoadReject(p, a, user) \/ LoadExecute(p, a, user)
      PROVE  SparedAt(p)'
  BY <1>0, <1>2 DEF LoadApprove, LoadReject, LoadExecute, Goto, SparedAt
<1>3. CASE CheckBlocked(p) \/ CheckExpired(p) \/ CallConnector(p)
  BY <1>0, <1>3 DEF CheckBlocked, CheckExpired, CallConnector, Goto, SparedAt
<1>4. CASE CheckPassed(p)
  BY <1>0, <1>4 DEF CheckPassed, Goto, SparedAt
<1>5. CASE DepsMet(p)
  BY <1>0, <1>5 DEF DepsMet, Goto, Locals, SparedAt, Job
<1>6. CASE ReadTail(p)
  BY <1>0, <1>6 DEF ReadTail, Goto, Locals, SparedAt, Job
<1>7. CASE InsertEntry(p)
  BY <1>0, <1>7 DEF InsertEntry, Goto, Exit, SparedAt
<1>8. CASE StartTriage(p) \/ ReadFirst(p) \/ SaveGroup(p)
  <2>1. pc'[p] \in {"read", "save"}
    BY <1>0, <1>8, ZenonT(30) DEF StartTriage, ReadFirst, SaveGroup, Goto
  <2> QED
    BY <2>1 DEF SparedAt
<1>9. CASE FinishTriage(p)
  <2>1. pc'[p] = "tail" /\ job'[p].event = "triage.run"
    BY <1>0, <1>9 DEF FinishTriage, Goto, Locals, Job
  <2> QED
    BY <2>1 DEF SparedAt
<1>10. CASE Ingest(p)
  <2>1. pc'[p] = "tail" /\ job'[p].event = "alerts.ingest"
    BY <1>0, <1>10 DEF Ingest, Goto, Locals, Job
  <2> QED
    BY <2>1 DEF SparedAt
<1> QED
  BY <1>1, <1>2, <1>3, <1>4, <1>5, <1>6, <1>7, <1>8, <1>9, <1>10 DEF Request, Step

\* "Checked [...] again at execution": however long an action has been approved and
\* whatever other processes do meanwhile, it is not called for if the files that the
\* command read protect its target (executor.execute).
THEOREM ProtectedAreSpared == Spec => []ProtectedNotCalled
<1>1. Init => Spared
  BY DEF Init, Spared, SparedAt
<1>2. TypeInv /\ Spared /\ [Next]_vars => Spared'
  <2> SUFFICES ASSUME TypeInv, Spared, [Next]_vars PROVE Spared'
    OBVIOUS
  <2>1. ASSUME NEW p \in Procs, Start(p) \/ Request(p) \/ Step(p) \/ Crash(p)
        PROVE  Spared'
    <3> SUFFICES ASSUME NEW q \in Procs PROVE SparedAt(q)'
      BY DEF Spared
    <3>1. CASE q = p
      BY <2>1, <3>1, StepSpares
    <3>2. CASE q # p
      BY <2>1, <3>2, OnlyOneMoves DEF Spared, SparedAt, IsProtected
    <3> QED
      BY <3>1, <3>2
  <2>2. ASSUME Tick \/ EditFiles \/ UNCHANGED vars PROVE Spared'
    BY <2>2 DEF Tick, EditFiles, vars, Spared, SparedAt, IsProtected
  <2> QED
    BY <2>1, <2>2 DEF Next
<1>3. Spared => ProtectedNotCalled
  BY DEF Spared, SparedAt, ProtectedNotCalled
<1>4. Spec => []TypeInv
  BY InitTypes, StepTypes, PTL DEF Spec
<1>5. TypeInv /\ Spared /\ [Next]_vars => Spared'
  BY <1>2
<1> QED
  BY <1>1, <1>3, <1>4, <1>5, PTL DEF Spec

(***************************************************************************)
(* Counting.  Each process between its start entry and its call accounts   *)
(* for one start more than calls, each between its call and its record for *)
(* one call more than outcomes; a process that crashes leaves the          *)
(* difference behind.                                                      *)
(***************************************************************************)
Positions(log, a, events) ==
    {i \in 1..Len(log) : log[i].subject = a /\ log[i].event \in events}

Number(log, a, events) == Cardinality(Positions(log, a, events))

Ends == {"action.execute.done", "action.execute.failed"}

\* The positions of a kind of entry are finitely many.
LEMMA PositionsFinite ==
    ASSUME NEW log \in Seq(Entry), NEW a, NEW events
    PROVE  IsFiniteSet(Positions(log, a, events)) /\ Number(log, a, events) \in Nat
<1>1. Len(log) \in Nat
  BY LenProperties
<1>2. IsFiniteSet(1..Len(log)) /\ Positions(log, a, events) \in SUBSET (1..Len(log))
  BY <1>1, FS_Interval DEF Positions
<1> QED
  BY <1>2, FS_Subset, FS_CardinalityType DEF Number

\* An appended entry counts once or not at all.
LEMMA NumberOfAppend ==
    ASSUME NEW log \in Seq(Entry), NEW e \in Entry, NEW a, NEW events
    PROVE  Number(Append(log, e), a, events) =
             IF e.subject = a /\ e.event \in events
             THEN Number(log, a, events) + 1 ELSE Number(log, a, events)
<1> DEFINE P == Positions(log, a, events)
           n == Len(log) + 1
<1>1. /\ Len(log) \in Nat /\ Len(Append(log, e)) = n /\ Append(log, e)[n] = e
      /\ \A i \in 1..Len(log) : Append(log, e)[i] = log[i]
  <2>1. Len(log) \in Nat
    BY LenProperties
  <2>2. /\ Len(Append(log, e)) = Len(log) + 1
        /\ \A i \in 1..Len(log) : Append(log, e)[i] = log[i]
        /\ Append(log, e)[Len(log) + 1] = e
    BY AppendProperties
  <2> QED
    BY <2>1, <2>2
<1>2. n \notin P /\ IsFiniteSet(P)
  <2>1. IsFiniteSet(P)
    BY PositionsFinite
  <2>2. n \notin 1..Len(log)
    BY <1>1
  <2> QED
    BY <2>1, <2>2 DEF Positions
<1>3. CASE e.subject = a /\ e.event \in events
  <2>1. Positions(Append(log, e), a, events) = P \union {n}
    BY <1>1, <1>3 DEF Positions
  <2>2. Cardinality(P \union {n}) = Cardinality(P) + 1
    BY <1>2, FS_AddElement, Zenon
  <2> QED
    BY <1>3, <2>1, <2>2 DEF Number
<1>4. CASE ~(e.subject = a /\ e.event \in events)
  <2>1. Positions(Append(log, e), a, events) = P
    BY <1>1, <1>4 DEF Positions
  <2> QED
    BY <1>4, <2>1 DEF Number
<1> QED
  BY <1>3, <1>4

\* Entries of other kinds count for nothing.
LEMMA NumberOfConcat ==
    ASSUME NEW log \in Seq(Entry), NEW new \in Seq(Entry), NEW a, NEW events,
           \A k \in 1..Len(new) : new[k].event \notin events
    PROVE  Number(log \o new, a, events) = Number(log, a, events)
<1>1. /\ Len(log) \in Nat /\ Len(new) \in Nat /\ Len(log \o new) = Len(log) + Len(new)
      /\ \A i \in 1..Len(log) : (log \o new)[i] = log[i]
      /\ \A i \in (Len(log) + 1)..(Len(log) + Len(new)) :
            (log \o new)[i] = new[i - Len(log)] /\ i - Len(log) \in 1..Len(new)
  BY LenProperties, ConcatProperties
<1>2. Positions(log \o new, a, events) = Positions(log, a, events)
  BY <1>1 DEF Positions
<1> QED
  BY <1>2 DEF Number

Requests(sent, a) == {c \in 1..Len(sent) : sent[c].act = a}

Sent == [act : Actions, by : Users \union {PolicyActor, Nothing}, executor : Users]

\* A request counts for its action.
LEMMA NumberOfRequests ==
    ASSUME NEW sent \in Seq(Sent), NEW c \in Sent, NEW a
    PROVE  /\ IsFiniteSet(Requests(sent, a)) /\ Cardinality(Requests(sent, a)) \in Nat
           /\ Cardinality(Requests(Append(sent, c), a)) =
                IF c.act = a THEN Cardinality(Requests(sent, a)) + 1
                ELSE Cardinality(Requests(sent, a))
<1> DEFINE n == Len(sent) + 1
<1>1. /\ Len(sent) \in Nat /\ Len(Append(sent, c)) = n /\ Append(sent, c)[n] = c
      /\ \A i \in 1..Len(sent) : Append(sent, c)[i] = sent[i]
  BY LenProperties, AppendProperties
<1>2. IsFiniteSet(Requests(sent, a)) /\ Cardinality(Requests(sent, a)) \in Nat
  <2>1. IsFiniteSet(1..Len(sent)) /\ Requests(sent, a) \in SUBSET (1..Len(sent))
    BY <1>1, FS_Interval DEF Requests
  <2> QED
    BY <2>1, FS_Subset, FS_CardinalityType
<1>3. n \notin Requests(sent, a)
  BY <1>1 DEF Requests
<1>4. CASE c.act = a
  <2>1. Requests(Append(sent, c), a) = Requests(sent, a) \union {n}
    BY <1>1, <1>4 DEF Requests
  <2>2. Cardinality(Requests(sent, a) \union {n}) = Cardinality(Requests(sent, a)) + 1
    BY <1>2, <1>3, FS_AddElement
  <2> QED
    BY <1>2, <1>4, <2>1, <2>2
<1>5. CASE c.act # a
  <2>1. Requests(Append(sent, c), a) = Requests(sent, a)
    BY <1>1, <1>5 DEF Requests
  <2> QED
    BY <1>2, <1>5, <2>1
<1> QED
  BY <1>2, <1>4, <1>5

\* The requests of an action so far are finitely many.
LEMMA RequestsFinite ==
    ASSUME TypeInv, NEW a
    PROVE  Cardinality(Requests(calls, a)) \in Nat
<1>1. calls \in Seq(Sent)
  BY DEF TypeInv, TypeOK, Sent
<1>2. IsFiniteSet(1..Len(calls)) /\ Requests(calls, a) \in SUBSET (1..Len(calls))
  BY <1>1, LenProperties, FS_Interval DEF Requests
<1> QED
  BY <1>2, FS_Subset, FS_CardinalityType

\* Processes that have logged a start and not called yet, and that have called and
\* not recorded yet.
Calling(a) == {p \in Procs : pc[p] = "call" /\ job[p].act = a}

Recording(a) == {p \in Procs : pc[p] = "commit" /\ job[p].act = a /\ job[p].event \in Ends}

BracketedFor(a) ==
    /\ IsFiniteSet(Calling(a)) /\ IsFiniteSet(Recording(a))
    /\ Cardinality(Requests(calls, a)) + Cardinality(Calling(a))
          <= Number(audit, a, {"action.execute.start"})
    /\ Number(audit, a, Ends) + Cardinality(Recording(a))
          <= Cardinality(Requests(calls, a))

Bracketed == \A a \in Actions : BracketedFor(a)

\* Nothing is counted and no process enters the account: it may leave it.
LEMMA QuietBracket ==
    ASSUME TypeInv, Bracketed, NEW a \in Actions,
           Number(audit', a, {"action.execute.start"})
              = Number(audit, a, {"action.execute.start"}),
           Number(audit', a, Ends) = Number(audit, a, Ends), calls' = calls,
           Calling(a)' \subseteq Calling(a), Recording(a)' \subseteq Recording(a)
    PROVE  BracketedFor(a)'
<1>1. BracketedFor(a)
  BY DEF Bracketed
<1>2. /\ IsFiniteSet(Calling(a)') /\ Cardinality(Calling(a)') <= Cardinality(Calling(a))
      /\ IsFiniteSet(Recording(a)') /\ Cardinality(Recording(a)') <= Cardinality(Recording(a))
      /\ Cardinality(Calling(a)') \in Nat /\ Cardinality(Recording(a)') \in Nat
      /\ Cardinality(Calling(a)) \in Nat /\ Cardinality(Recording(a)) \in Nat
  BY <1>1, FS_Subset, FS_CardinalityType DEF BracketedFor
<1>3. /\ Number(audit, a, {"action.execute.start"}) \in Nat /\ Number(audit, a, Ends) \in Nat
  BY PositionsFinite DEF TypeInv, TypeOK
<1>4. Cardinality(Requests(calls, a)) \in Nat
  BY RequestsFinite
<1> QED
  BY <1>1, <1>2, <1>3, <1>4 DEF BracketedFor

\* A step of p after which it is neither calling nor recording more than before.
LEMMA LeavesBracket ==
    ASSUME TypeInv, NEW p \in Procs, NEW a,
           \A q \in Procs \ {p} : pc'[q] = pc[q] /\ job'[q] = job[q],
           pc'[p] # "call", pc'[p] = "commit" => job'[p].event \notin Ends
    PROVE  Calling(a)' \subseteq Calling(a) /\ Recording(a)' \subseteq Recording(a)
BY DEF Calling, Recording

\* Steps that log nothing about the execution and call nobody.
LEMMA OthersBracketed ==
    ASSUME TypeInv, Bracketed, NEW p \in Procs,
           \A q \in Procs \ {p} : pc'[q] = pc[q] /\ job'[q] = job[q],
           pc'[p] # "call", pc'[p] = "commit" => job'[p].event \notin Ends,
           UNCHANGED <<audit, calls>>
    PROVE  Bracketed'
<1>1. \A a \in Actions : BracketedFor(a)'
  BY LeavesBracket, QuietBracket
<1> QED
  BY <1>1 DEF Bracketed

\* What a process that is about to insert or to commit will log.
LEMMA BracketPlace ==
    ASSUME TypeInv, NEW p \in Procs
    PROVE  /\ pc[p] = "insert" => job[p].event \notin Ends
           /\ pc[p] \in {"commit", "call"} => job[p].act \in Actions
           /\ pc \in [Procs -> Locations] /\ job \in [Procs -> Job] /\ audit \in Seq(Entry)
BY DEF TypeInv, TypeOK, Located, LocatedAt, Ends

\* The record of an execution: one outcome more, one recording process fewer.
LEMMA CommitBracketed ==
    ASSUME TypeInv, Accountable, Bracketed, NEW p \in Procs, CommitRow(p)
    PROVE  Bracketed'
<1> DEFINE e == NewEntry(job[p].user, job[p].event, job[p].act, LastHash)
<1>1. /\ pc[p] = "commit" /\ job[p].act \in Actions /\ job[p].user \in Users
      /\ job[p].event \in Events /\ audit \in Seq(Entry) /\ Len(audit) \in Nat
  BY LenProperties DEF CommitRow, TypeInv, TypeOK, Located, LocatedAt
<1>2. e \in Entry /\ e.event = job[p].event /\ e.subject = job[p].act
  BY <1>1 DEF NewEntry, Entry, LastHash
<1>3. audit' = Append(audit, e) /\ calls' = calls /\ Exit(p)
  BY DEF CommitRow
<1> HIDE DEF e
<1>4. pc'[p] = "idle" /\ \A q \in Procs \ {p} : pc'[q] = pc[q] /\ job'[q] = job[q]
  BY <1>3, ExitMove
<1>5. job[p].event # "action.execute.start"
  BY <1>1 DEF Accountable, Carries, CarriesAt, Recordable
<1> SUFFICES ASSUME NEW a \in Actions PROVE BracketedFor(a)'
  BY DEF Bracketed
<1>6. Calling(a)' \subseteq Calling(a) /\ Recording(a)' \subseteq Recording(a)
  BY <1>4, LeavesBracket
<1>7. Number(audit', a, {"action.execute.start"}) = Number(audit, a, {"action.execute.start"})
  BY <1>1, <1>2, <1>3, <1>5, NumberOfAppend
<1>8. CASE job[p].act = a /\ job[p].event \in Ends
  <2>1. p \in Recording(a)
    BY <1>1, <1>8 DEF Recording
  <2>2. Recording(a)' \subseteq Recording(a) \ {p}
    BY <1>4, <1>6 DEF Recording
  <2>3. BracketedFor(a)
    BY DEF Bracketed
  <2>4. /\ IsFiniteSet(Recording(a) \ {p}) /\ Cardinality(Recording(a)) \in Nat
        /\ Cardinality(Recording(a) \ {p}) = Cardinality(Recording(a)) - 1
    BY <2>1, <2>3, FS_RemoveElement, FS_CardinalityType DEF BracketedFor
  <2>5. /\ IsFiniteSet(Recording(a)') /\ Cardinality(Recording(a)') \in Nat
        /\ Cardinality(Recording(a)') <= Cardinality(Recording(a)) - 1
    BY <2>2, <2>4, FS_Subset, FS_CardinalityType
  <2>6. /\ IsFiniteSet(Calling(a)') /\ Cardinality(Calling(a)') \in Nat
        /\ Cardinality(Calling(a)) \in Nat
        /\ Cardinality(Calling(a)') <= Cardinality(Calling(a))
    BY <1>6, <2>3, FS_Subset, FS_CardinalityType DEF BracketedFor
  <2>7. Number(audit', a, Ends) = Number(audit, a, Ends) + 1
    BY <1>1, <1>2, <1>3, <1>8, NumberOfAppend
  <2>8. Number(audit, a, Ends) \in Nat /\ Number(audit, a, {"action.execute.start"}) \in Nat
    BY <1>1, PositionsFinite
  <2>9. Cardinality(Requests(calls, a)) \in Nat
    BY RequestsFinite
  <2> QED
    BY <1>3, <1>7, <2>3, <2>4, <2>5, <2>6, <2>7, <2>8, <2>9 DEF BracketedFor
<1>9. CASE ~(job[p].act = a /\ job[p].event \in Ends)
  <2>1. Number(audit', a, Ends) = Number(audit, a, Ends)
    BY <1>1, <1>2, <1>3, <1>9, NumberOfAppend
  <2> QED
    BY <1>3, <1>6, <1>7, <2>1, QuietBracket
<1> QED
  BY <1>8, <1>9

\* The start entry: one start more, one calling process more.
LEMMA InsertBracketed ==
    ASSUME TypeInv, Bracketed, NEW p \in Procs, InsertEntry(p)
    PROVE  Bracketed'
<1> DEFINE e == NewEntry(job[p].user, job[p].event, job[p].act, job[p].tail)
<1>1. pc[p] = "insert" /\ LocatedAt(p) /\ job[p] \in Job /\ audit \in Seq(Entry)
  BY DEF InsertEntry, TypeInv, TypeOK, Located
<1>2. e \in Entry /\ e.event = job[p].event /\ e.subject = job[p].act
  BY <1>1 DEF NewEntry, Entry, LocatedAt, Job, Events
<1>3. audit' = Append(audit, e) /\ calls' = calls
  BY DEF InsertEntry
<1> HIDE DEF e
<1>4. \A q \in Procs \ {p} : pc'[q] = pc[q] /\ job'[q] = job[q]
  BY OnlyOneMoves DEF Step
<1> SUFFICES ASSUME NEW a \in Actions PROVE BracketedFor(a)'
  BY DEF Bracketed
<1>5. Number(audit', a, Ends) = Number(audit, a, Ends)
  BY <1>1, <1>2, <1>3, BracketPlace, NumberOfAppend
<1>6. CASE job[p].event = "action.execute.start" /\ job[p].act = a
  <2>1. pc'[p] = "call" /\ job'[p] = job[p]
    BY <1>1, <1>6, BracketPlace DEF InsertEntry, Goto
  <2>2. Calling(a)' = Calling(a) \union {p} /\ Recording(a)' = Recording(a)
    BY <1>1, <1>4, <1>6, <2>1 DEF Calling, Recording
  <2>3. p \notin Calling(a)
    BY <1>1 DEF Calling
  <2>4. BracketedFor(a)
    BY DEF Bracketed
  <2>5. /\ IsFiniteSet(Calling(a)') /\ Cardinality(Calling(a)) \in Nat
        /\ Cardinality(Calling(a)') = Cardinality(Calling(a)) + 1
    BY <2>2, <2>3, <2>4, FS_AddElement, FS_CardinalityType DEF BracketedFor
  <2>6. Number(audit', a, {"action.execute.start"})
           = Number(audit, a, {"action.execute.start"}) + 1
    BY <1>1, <1>2, <1>3, <1>6, NumberOfAppend
  <2>7. Number(audit, a, Ends) \in Nat /\ Number(audit, a, {"action.execute.start"}) \in Nat
    BY <1>1, PositionsFinite
  <2>8. Cardinality(Requests(calls, a)) \in Nat
    BY RequestsFinite
  <2> QED
    BY <1>3, <1>5, <2>2, <2>4, <2>5, <2>6, <2>7, <2>8 DEF BracketedFor
<1>7. CASE ~(job[p].event = "action.execute.start" /\ job[p].act = a)
  <2>1. Number(audit', a, {"action.execute.start"})
           = Number(audit, a, {"action.execute.start"})
    BY <1>1, <1>2, <1>3, <1>7, NumberOfAppend
  <2>2. \/ pc'[p] = "idle"
        \/ pc'[p] = "call" /\ job'[p] = job[p] /\ job[p].act # a
    <3>1. CASE job[p].event = "action.execute.start"
      BY <1>7, <3>1, BracketPlace DEF InsertEntry, Goto
    <3>2. CASE job[p].event # "action.execute.start"
      BY <3>2, ExitMove DEF InsertEntry
    <3> QED
      BY <3>1, <3>2
  <2>3. Calling(a)' \subseteq Calling(a) /\ Recording(a)' \subseteq Recording(a)
    BY <1>4, <2>2 DEF Calling, Recording
  <2> QED
    BY <1>3, <1>5, <2>1, <2>3, QuietBracket
<1> QED
  BY <1>6, <1>7

\* The call: one request more, and the process goes on from calling to recording.
LEMMA CallBracketed ==
    ASSUME TypeInv, Bracketed, NEW p \in Procs, CallConnector(p)
    PROVE  Bracketed'
<1> DEFINE c == [act |-> job[p].act, by |-> job[p].row.by, executor |-> job[p].user]
<1>1. /\ pc[p] = "call" /\ job[p] \in Job /\ job[p].act \in Actions
      /\ job[p].user \in Users /\ job[p].row \in Row /\ audit \in Seq(Entry)
      /\ calls \in Seq(Sent)
  BY DEF CallConnector, Goto, TypeInv, TypeOK, Located, LocatedAt, Job, Sent
<1>2. c \in Sent /\ c.act = job[p].act
  BY <1>1 DEF Sent, Row
<1>3. audit' = audit /\ calls' = Append(calls, c)
  BY DEF CallConnector, store
<1> HIDE DEF c
<1>4. \A q \in Procs \ {p} : pc'[q] = pc[q] /\ job'[q] = job[q]
  BY OnlyOneMoves DEF Step
<1>5. pc'[p] = "commit" /\ job'[p].act = job[p].act
  <2>1. PICK st, ev : Decide(p, st, ev)
    BY DEF CallConnector
  <2>2. job'[p].act = job[p].act
    BY <1>1, <2>1, BracketPlace DEF Decide, Locals, Job
  <2> QED
    BY <2>2, BracketPlace DEF CallConnector, Goto
<1> SUFFICES ASSUME NEW a \in Actions PROVE BracketedFor(a)'
  BY DEF Bracketed
<1>6. CASE job[p].act = a
  <2>1. Calling(a)' = Calling(a) \ {p} /\ p \in Calling(a)
    BY <1>1, <1>4, <1>5, <1>6 DEF Calling
  <2>2. Recording(a)' \subseteq Recording(a) \union {p} /\ p \notin Recording(a)
    BY <1>1, <1>4 DEF Recording
  <2>3. BracketedFor(a)
    BY DEF Bracketed
  <2>4. /\ IsFiniteSet(Calling(a)') /\ Cardinality(Calling(a)) \in Nat
        /\ Cardinality(Calling(a)') = Cardinality(Calling(a)) - 1
    BY <2>1, <2>3, FS_RemoveElement, FS_CardinalityType DEF BracketedFor
  <2>5. /\ IsFiniteSet(Recording(a) \union {p}) /\ Cardinality(Recording(a)) \in Nat
        /\ Cardinality(Recording(a) \union {p}) = Cardinality(Recording(a)) + 1
    BY <2>2, <2>3, FS_AddElement, FS_CardinalityType DEF BracketedFor
  <2>6. /\ IsFiniteSet(Recording(a)') /\ Cardinality(Recording(a)') \in Nat
        /\ Cardinality(Recording(a)') <= Cardinality(Recording(a)) + 1
    BY <2>2, <2>5, FS_Subset, FS_CardinalityType
  <2>7. /\ Cardinality(Requests(calls, a)) \in Nat
        /\ Cardinality(Requests(calls', a)) = Cardinality(Requests(calls, a)) + 1
    BY <1>1, <1>2, <1>3, <1>6, NumberOfRequests
  <2>8. Number(audit, a, Ends) \in Nat /\ Number(audit, a, {"action.execute.start"}) \in Nat
    BY <1>1, PositionsFinite
  <2>9. /\ Cardinality(Requests(calls', a)) + Cardinality(Calling(a)')
              <= Number(audit, a, {"action.execute.start"})
        /\ Number(audit, a, Ends) + Cardinality(Recording(a)')
              <= Cardinality(Requests(calls', a))
    BY <2>3, <2>4, <2>6, <2>7, <2>8, <2>5 DEF BracketedFor
  <2> QED
    BY <1>3, <2>4, <2>6, <2>9 DEF BracketedFor
<1>7. CASE job[p].act # a
  <2>1. Calling(a)' = Calling(a) /\ Recording(a)' = Recording(a)
    BY <1>1, <1>4, <1>5, <1>7 DEF Calling, Recording
  <2>2. Cardinality(Requests(calls', a)) = Cardinality(Requests(calls, a))
    BY <1>1, <1>2, <1>3, <1>7, NumberOfRequests
  <2> QED
    BY <1>3, <2>1, <2>2 DEF Bracketed, BracketedFor
<1> QED
  BY <1>6, <1>7

\* Every step keeps the account.
LEMMA StepBracketed == TypeInv /\ Accountable /\ Bracketed /\ [Next]_vars => Bracketed'
<1> SUFFICES ASSUME TypeInv, Accountable, Bracketed, [Next]_vars PROVE Bracketed'
  OBVIOUS
<1>1. ASSUME NEW p \in Procs, Start(p) \/ Request(p) \/ Step(p) \/ Crash(p)
      PROVE  Bracketed'
  <2>0. /\ \A q \in Procs \ {p} : pc'[q] = pc[q] /\ job'[q] = job[q]
        /\ pc \in [Procs -> Locations] /\ job \in [Procs -> Job] /\ job[p] \in Job
    BY <1>1, OnlyOneMoves, BracketPlace
  <2>1. CASE Start(p) \/ Crash(p) \/ Refused(p) \/ StartTriage(p) \/ Ingest(p)
    <3>1. pc'[p] \in {"idle", "ready", "read", "tail"} /\ UNCHANGED <<audit, calls>>
      BY <2>0, <2>1 DEF Start, Crash, Refused, StartTriage, Ingest, Exit, Goto, store
    <3> QED
      BY <2>0, <3>1, OthersBracketed
  <2>2. ASSUME NEW a \in Actions, NEW user \in Users,
               LoadApprove(p, a, user) \/ LoadReject(p, a, user) \/ LoadExecute(p, a, user)
        PROVE  Bracketed'
    <3>1. /\ pc'[p] = "check" \/ job'[p].event \in {"action.approve", "action.reject"}
          /\ pc'[p] # "call"
      <4>1. CASE LoadApprove(p, a, user)
        BY <2>0, <4>1 DEF LoadApprove, Goto, Locals, Job
      <4>2. CASE LoadReject(p, a, user)
        BY <2>0, <4>2 DEF LoadReject, Goto, Locals, Job
      <4>3. CASE LoadExecute(p, a, user)
        BY <2>0, <4>3 DEF LoadExecute, Goto
      <4> QED
        BY <2>2, <4>1, <4>2, <4>3
    <3>2. UNCHANGED <<audit, calls>>
      BY <2>2 DEF LoadApprove, LoadReject, LoadExecute, store
    <3>3. pc'[p] = "commit" => job'[p].event \notin Ends
      BY <3>1 DEF Ends
    <3> QED
      BY <2>0, <3>1, <3>2, <3>3, OthersBracketed
  <2>3. CASE CheckBlocked(p) \/ CheckExpired(p)
    <3>1. job'[p].event \in {"action.blocked", "action.expire"} /\ pc'[p] = "commit"
      <4>1. CASE CheckBlocked(p)
        BY <2>0, <4>1 DEF CheckBlocked, Goto, Decide, Locals, Job
      <4>2. CASE CheckExpired(p)
        BY <2>0, <4>2 DEF CheckExpired, Goto, Decide, Locals, Job
      <4> QED
        BY <2>3, <4>1, <4>2
    <3>2. UNCHANGED <<audit, calls>>
      BY <2>3 DEF CheckBlocked, CheckExpired, store
    <3>3. job'[p].event \notin Ends
      BY <3>1 DEF Ends
    <3> QED
      BY <2>0, <3>1, <3>2, <3>3, OthersBracketed
  <2>4. CASE CheckPassed(p) \/ DepsUnmet(p) \/ DepsMet(p) \/ ReadTail(p)
    <3>1. pc'[p] \in {"deps", "idle", "tail", "insert"} /\ UNCHANGED <<audit, calls>>
      BY <2>0, <2>4 DEF CheckPassed, DepsUnmet, DepsMet, ReadTail, Exit, Goto, store
    <3> QED
      BY <2>0, <3>1, OthersBracketed
  <2>5. CASE ReadFirst(p) \/ FinishTriage(p)
    <3>1. pc'[p] \in {"save", "tail"} /\ UNCHANGED <<audit, calls>>
      BY <2>0, <2>5 DEF ReadFirst, FinishTriage, Goto, store
    <3> QED
      BY <2>0, <3>1, OthersBracketed
  <2>6. CASE SaveGroup(p)
    <3>1. job[p].todo # <<>> /\ audit \in Seq(Entry)
      BY <2>6 DEF SaveGroup, Goto, TypeInv, TypeOK, Located, LocatedAt
    <3>2. PICK new \in Seq(Entry) :
             /\ audit' = audit \o new
             /\ \A k \in 1..Len(new) : new[k].event = "action.propose"
      BY <2>6, <3>1, SavedLog
    <3>3. pc'[p] = "read" /\ calls' = calls
      BY <2>0, <2>6 DEF SaveGroup, Goto
    <3>4. ASSUME NEW a \in Actions PROVE BracketedFor(a)'
      <4>1. /\ Number(audit', a, {"action.execute.start"})
                  = Number(audit, a, {"action.execute.start"})
            /\ Number(audit', a, Ends) = Number(audit, a, Ends)
        <5>1. /\ \A k \in 1..Len(new) : new[k].event \notin {"action.execute.start"}
              /\ \A k \in 1..Len(new) : new[k].event \notin Ends
          BY <3>2 DEF Ends
        <5>2. \A events : (\A k \in 1..Len(new) : new[k].event \notin events)
                 => Number(audit \o new, a, events) = Number(audit, a, events)
          BY <3>1, NumberOfConcat
        <5> QED
          BY <3>2, <5>1, <5>2
      <4>2. Calling(a)' \subseteq Calling(a) /\ Recording(a)' \subseteq Recording(a)
        BY <2>0, <3>3, LeavesBracket
      <4> QED
        BY <3>3, <4>1, <4>2, QuietBracket
    <3> QED
      BY <3>4 DEF Bracketed
  <2> QED
    BY <1>1, <2>1, <2>2, <2>3, <2>4, <2>5, <2>6, CommitBracketed, InsertBracketed,
       CallBracketed DEF Request, Step
<1>2. ASSUME Tick \/ EditFiles \/ UNCHANGED vars PROVE Bracketed'
  <2>1. audit' = audit /\ calls' = calls /\ pc' = pc /\ job' = job
    BY <1>2 DEF Tick, EditFiles, vars, store
  <2>2. \A a : Calling(a)' = Calling(a) /\ Recording(a)' = Recording(a)
    BY <2>1 DEF Calling, Recording
  <2> QED
    BY <2>1, <2>2 DEF Bracketed, BracketedFor
<1> QED
  BY <1>1, <1>2 DEF Next

\* No process runs and nothing is logged.
LEMMA InitBracketed == Init => Bracketed
<1> SUFFICES ASSUME Init, NEW a \in Actions PROVE BracketedFor(a)
  BY DEF Bracketed
<1>1. Calling(a) = {} /\ Recording(a) = {}
  BY DEF Init, Calling, Recording
<1>2. Requests(calls, a) = {} /\ \A events : Positions(audit, a, events) = {}
  BY DEF Init, Requests, Positions
<1> QED
  BY <1>1, <1>2, FS_EmptySet DEF BracketedFor, Number

\* A crash between the call and its record leaves a start without an outcome, never a
\* call that nobody logged, whatever other processes do to the same action meanwhile
\* (executor.execute).
THEOREM CallsStayBracketed == Spec => []CallsAreBracketed
<1>1. TypeInv /\ Bracketed => CallsAreBracketed
  <2> SUFFICES ASSUME TypeInv, Bracketed, NEW a \in Actions
               PROVE  /\ Performed(a) <= Count(a, {"action.execute.start"})
                      /\ Count(a, Ends) <= Performed(a)
    BY DEF CallsAreBracketed, Ends
  <2>1. audit \in Seq(Entry) /\ calls \in Seq(Sent)
    BY DEF TypeInv, TypeOK, Sent
  <2>2. DOMAIN audit = 1..Len(audit) /\ DOMAIN calls = 1..Len(calls)
    BY <2>1, LenProperties
  <2>3. Performed(a) = Cardinality(Requests(calls, a))
    BY <2>2 DEF Performed, Requests
  <2>4. \A events : Count(a, events) = Number(audit, a, events)
    BY <2>2 DEF Count, Number, Positions
  <2>5. /\ Cardinality(Calling(a)) \in Nat /\ Cardinality(Recording(a)) \in Nat
    BY FS_CardinalityType DEF Bracketed, BracketedFor
  <2>6. /\ Number(audit, a, Ends) \in Nat /\ Number(audit, a, {"action.execute.start"}) \in Nat
        /\ Cardinality(Requests(calls, a)) \in Nat
    BY <2>1, PositionsFinite, RequestsFinite
  <2> QED
    BY <2>3, <2>4, <2>5, <2>6 DEF Bracketed, BracketedFor
<1> QED
  BY <1>1, InitBracketed, StepBracketed, AccountableAlways, PTL DEF Spec
==========================================================================
