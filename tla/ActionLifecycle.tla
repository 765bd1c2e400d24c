------------------------- MODULE ActionLifecycle -------------------------
(***************************************************************************)
(* What the action service promises about a response action, without       *)
(* processes, stale reads, the database or the audit log: the state        *)
(* diagram of README.md together with the guardrails of                    *)
(* docs/architecture.md ("Isolation depends on a snapshot of the same      *)
(* host", "Low-risk notifications and tickets are pre-approved").          *)
(* ActionService refines this module when one command runs at a time.      *)
(***************************************************************************)
EXTENDS Integers

CONSTANTS
    Actions,        \* response actions (db.ActionStore keys)
    DependsOn,      \* Action.depends_on, in [Actions -> SUBSET Actions]
    ApprovalFree    \* actions of the kinds notify_owner and open_ticket

VARIABLES
    status,         \* status of each action, "absent" before it is proposed
    performed       \* how often the connector was asked to perform it

lifecycleVars == <<status, performed>>

Statuses == {"absent", "pending_approval", "approved", "rejected", "executed",
             "failed", "expired", "manual_only"}

LifecycleTypeOK ==
    /\ status \in [Actions -> Statuses]
    /\ performed \in [Actions -> Nat]

LifecycleInit ==
    /\ status = [a \in Actions |-> "absent"]
    /\ performed = [a \in Actions |-> 0]

\* Where an action may start.  Only low-risk kinds start approved, and they
\* never wait for an approval.
EntryStatuses(a) ==
    IF a \in ApprovalFree THEN {"approved"} ELSE {"pending_approval", "manual_only"}

\* Triage stores the proposals of one incident together.
Propose ==
    /\ status' \in [Actions -> Statuses]
    /\ \A a \in Actions : \/ status'[a] = status[a]
                          \/ status[a] = "absent" /\ status'[a] \in EntryStatuses(a)
    /\ UNCHANGED performed

Move(a, from, to) ==
    /\ status[a] \in from
    /\ status' = [status EXCEPT ![a] = to]
    /\ UNCHANGED performed

Approve(a) == Move(a, {"pending_approval"}, "approved")

Reject(a) == Move(a, {"pending_approval", "approved"}, "rejected")

Protect(a) == Move(a, {"approved"}, "manual_only")

\* A pre-approval by the policy has no lifetime.
Expire(a) == a \notin ApprovalFree /\ Move(a, {"approved"}, "expired")

\* The connector is asked only for an approved action whose dependencies ran.
\* It may be asked again when the result of the first attempt was never stored.
Perform(a) ==
    /\ status[a] = "approved"
    /\ \A d \in DependsOn[a] : status[d] \in {"absent", "executed"}
    /\ performed' = [performed EXCEPT ![a] = @ + 1]
    /\ UNCHANGED status

Finish(a) == performed[a] > 0 /\ Move(a, {"approved"}, "executed")

Fail(a) == performed[a] > 0 /\ Move(a, {"approved"}, "failed")

LifecycleNext ==
    \/ Propose
    \/ \E a \in Actions :
          \/ Approve(a) \/ Reject(a) \/ Protect(a) \/ Expire(a)
          \/ Perform(a) \/ Finish(a) \/ Fail(a)

LifecycleSpec == LifecycleInit /\ [][LifecycleNext]_lifecycleVars
==========================================================================
