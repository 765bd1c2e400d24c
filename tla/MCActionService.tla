------------------------ MODULE MCActionService -------------------------
(***************************************************************************)
(* ActionService on one incident: a snapshot, the isolation that depends   *)
(* on it, and a notification that needs no approval.                       *)
(***************************************************************************)
EXTENDS ActionService, TLC

CONSTANTS p1, p2, snapshot, isolate, notify, alice, sam

MCActions == {snapshot, isolate, notify}

MCDependsOn == [a \in MCActions |-> IF a = isolate THEN {snapshot} ELSE {}]

\* Triage proposes the snapshot and the isolation for one incident and, unless
\* the alerts behind it left the window, the notification for another.
FullTriage == {<<<<snapshot, isolate>>, <<notify>>>>}

OnlyContainment == {<<<<snapshot, isolate>>>>}

MCTriages == FullTriage \union OnlyContainment

\* Versions of the files.  Strict protects the host of the snapshot and the
\* isolation; Critical lists it as critical, so that its isolation needs a senior
\* approver.  No senior approver is configured.
Relaxed == [protected |-> {}, highImpact |-> {}, approvers |-> {alice}, seniors |-> {},
            ttl |-> 1]

Strict == [Relaxed EXCEPT !.protected = {snapshot, isolate}, !.highImpact = {isolate}]

Critical == [Relaxed EXCEPT !.highImpact = {isolate}]

\* An empty allowlist admits everyone.
AnyApprover == [Relaxed EXCEPT !.approvers = {}]

OnlyEqual == {AnyApprover}

OnlyRelaxed == {Relaxed}

RelaxedStrict == {Relaxed, Strict}

RelaxedCritical == {Relaxed, Critical}

Interchangeable == Permutations(Procs) \union Permutations(Users)

\* The state a first triage of both groups leaves behind.
Triaged ==
    /\ policy \in Policies
    /\ rows = [a \in Actions |-> Proposal(policy, a)]
    /\ audit = <<NewEntry(PolicyActor, "action.propose", snapshot, 0),
                 NewEntry(PolicyActor, "action.propose", isolate, 1),
                 NewEntry(PolicyActor, "action.propose", notify, 2),
                 NewEntry(System, "triage.run", Nothing, 3)>>
    /\ calls = <<>>
    /\ clock = 0
    /\ commands = 0
    /\ pc = [p \in Procs |-> "idle"]
    /\ job = [p \in Procs |-> NoJob]

TriagedSpec == Triaged /\ [][Next]_vars

==========================================================================
