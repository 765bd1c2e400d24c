-------------------------- MODULE DeliveryProofs --------------------------
(***************************************************************************)
(* Proofs about Delivery for every number of attempts, every set of status *)
(* codes and every number of commands.                                     *)
(***************************************************************************)
EXTENDS Delivery, TLAPS

\* Who waits, and how many attempts are left.
Waiting ==
    /\ pc = "idle" <=> caller = "nobody"
    /\ pc = "send" => attempt < Attempts
    /\ pc \in {"wait", "judge"} => attempt > 0
    /\ caller = "connector" => status = "approved"

\* Requests that the current call may still have performed.
Remaining ==
    IF caller = "connector"
    THEN (Attempts - attempt) + (IF pc = "wait" THEN 1 ELSE 0)
    ELSE 0

\* Each start entry pays for the attempts of its call.
Budget == effects + late + Remaining <= Attempts * starts

\* One performance needs no loss: that of the action which is settled, or of the call
\* whose answer is definite and about to be recorded.
Sure ==
    IF \/ status # "approved"
       \/ caller = "connector" /\ pc \in {"judge", "returned", "raised"} /\ ~Transient(answer)
    THEN 1 ELSE 0

\* Any other goes back to an attempt that lost its outcome.
LossesCovered == effects + late <= lost + Sure

IInv ==
    /\ TypeOK /\ Waiting /\ Budget
    /\ LossesCovered

\* The bounds are natural numbers (retry_attempts has at least one attempt).
LEMMA AttemptsNat == Attempts \in Nat /\ Attempts > 0 /\ MaxCommands \in Nat
  BY DeliveryAssumption, SMT

\* A call is made by the connector or by a language model, never by both.
LEMMA Callers == "connector" \notin Providers /\ "nobody" \notin Providers
  BY DeliveryAssumption

\* A database with one approved action and no call begun.
LEMMA InitInv == Init => IInv
  BY AttemptsNat, DeliveryAssumption, SMT DEF Init, IInv, TypeOK, Waiting, Budget, Remaining, LossesCovered, Sure,
         Answer, NoAnswer, NoCode

\* Every step keeps the type and the place of the caller.
LEMMA TypeStep == TypeOK /\ Waiting /\ [Next]_vars => TypeOK' /\ Waiting'
<1> SUFFICES ASSUME TypeOK, Waiting, [Next]_vars
             PROVE  TypeOK' /\ Waiting'
  OBVIOUS
<1> USE DEF TypeOK, Waiting, Goto, webhook
<1>a. NoAnswer \in Answer /\ Attempts \in Nat /\ MaxCommands \in Nat
  BY AttemptsNat DEF NoAnswer, Answer, NoCode
<1>1. CASE Execute
  <2>1. TypeOK'
    BY <1>a, <1>1, SMT DEF Execute, Call
  <2>2. Waiting'
    BY <1>1, AttemptsNat, SMT DEF Execute, Call
  <2>3. QED
    BY <2>1, <2>2
<1>2. CASE Write
  <2>1. TypeOK'
    BY <1>a, <1>2, SMT DEF Write, Call
  <2>2. Waiting'
    BY <1>a, <1>2, AttemptsNat, Callers, SMT DEF Write, Call
  <2>3. QED
    BY <2>1, <2>2
<1>3. CASE Send
  BY <1>a, <1>3, SMT DEF Send
<1>4. CASE Receive
  <2>1. PICK code \in Codes, json \in BOOLEAN :
           /\ answer' = [code |-> code, json |-> json]
           /\ caller = "connector" => /\ \E n \in Performed(code) : effects' = effects + n
                                      /\ lost' = lost + (IF code \in TransientStatus THEN 1 ELSE 0)
           /\ caller # "connector" => UNCHANGED <<effects, lost>>
    BY <1>4 DEF Receive
  <2>2. effects' \in Nat
    <3>1. \A n \in Performed(code) : n \in Nat
      BY SMT DEF Performed
    <3>2. QED
      BY <2>1, <3>1, SMT
  <2>3. lost' \in Nat
    BY <2>1, SMT
  <2>4. answer' \in Answer
    BY <2>1 DEF Answer
  <2>5. QED
    BY <1>4, <2>2, <2>3, <2>4, SMT DEF Receive
<1>5. CASE BreakOff
  <2>1. lost' \in Nat
    BY <1>5, SMT DEF BreakOff
  <2>2. effects' \in Nat /\ late' \in Nat
    BY <1>5, SMT DEF BreakOff
  <2>3. QED
    BY <1>a, <1>5, <2>1, <2>2, SMT DEF BreakOff
<1>6. CASE Arrive
  BY <1>6, SMT DEF Arrive, local
<1>7. CASE Retry
  BY <1>7, SMT DEF Retry
<1>8. CASE Return
  BY <1>8, SMT DEF Return
<1>9. CASE Raise
  BY <1>9, SMT DEF Raise
<1>10. CASE RecordDone
  BY <1>a, <1>10, SMT DEF RecordDone, Exit
<1>11. CASE RecordFailed
  BY <1>a, <1>11, SMT DEF RecordFailed, Exit
<1>12. CASE AcceptText
  BY <1>a, <1>12, SMT DEF AcceptText, Exit, Fit
<1>13. CASE FallBack
  BY <1>a, <1>13, SMT DEF FallBack, Exit
<1>14. CASE Uncaught
  BY <1>a, <1>14, SMT DEF Uncaught, Exit
<1>15. CASE Crash
  <2>1. lost' \in Nat
    BY <1>15, SMT DEF Crash
  <2>2. effects' \in Nat /\ late' \in Nat
    BY <1>15, SMT DEF Crash
  <2>3. QED
    BY <1>a, <1>15, <2>1, <2>2, SMT DEF Crash, Exit
<1>16. CASE UNCHANGED vars
  BY <1>16, SMT DEF vars, local
<1>17. QED
  BY <1>1, <1>2, <1>3, <1>4, <1>5, <1>6, <1>7, <1>8, <1>9, <1>10, <1>11, <1>12, <1>13, <1>14,
     <1>15, <1>16 DEF Next, Client

\* Every step stays within the budget: an attempt is paid for when it is sent.
LEMMA BudgetStep == TypeOK /\ Waiting /\ Budget /\ [Next]_vars => Budget'
<1> SUFFICES ASSUME TypeOK, Waiting, Budget, [Next]_vars
             PROVE  Budget'
  OBVIOUS
<1> DEFINE Paid == Attempts * starts
<1>1. effects \in Nat /\ late \in Nat /\ attempt \in 0..Attempts
  BY DEF TypeOK
<1>p. Paid \in Int
  BY AttemptsNat, SMT DEF TypeOK
<1>2. effects + late + Remaining <= Paid
  BY DEF Budget
<1>3. CASE Execute
  <2>1. Attempts * (starts + 1) = Attempts * starts + Attempts
    BY AttemptsNat, SMT DEF TypeOK
  <2>2. Paid' = Paid + Attempts /\ UNCHANGED <<effects, late>>
    BY <1>3, <2>1 DEF Execute, webhook
  <2>3. Remaining = 0
    BY <1>3, SMT DEF Execute, Call, Goto, Waiting, Remaining
  <2>4. Remaining' = Attempts
    BY <1>3, <1>1, AttemptsNat, SMT DEF Execute, Call, Goto, Remaining
  <2> HIDE DEF Paid
  <2>5. effects' + late' + Remaining' <= Paid'
    BY <1>p, <1>1, <1>2, <2>2, <2>3, <2>4, AttemptsNat, SMT
  <2>6. QED
    BY <2>5 DEF Budget, Paid
<1>4. CASE ~Execute
  <2>1. starts' = starts
    BY <1>4 DEF Next, Client, Write, Send, Receive, BreakOff, Arrive, Retry, Return, Raise,
                RecordDone, RecordFailed, AcceptText, FallBack, Uncaught, Crash, vars
  <2>2. effects' + late' + Remaining' <= effects + late + Remaining
    <3> USE <1>1, AttemptsNat, Callers DEF Remaining, Goto, webhook, Waiting
    <3>1. CASE Write
      BY <3>1, SMT DEF Write, Call, TypeOK
    <3>2. CASE Send
      BY <3>2, SMT DEF Send
    <3>3. CASE Receive
      <4>1. \A c : Performed(c) \subseteq {0, 1}
        BY SMT DEF Performed
      <4>2. CASE caller = "connector"
        <5>1. PICK n \in {0, 1} : effects' = effects + n
          BY <3>3, <4>1, <4>2 DEF Receive
        <5>2. QED
          BY <3>3, <4>2, <5>1, SMT DEF Receive
      <4>3. CASE caller # "connector"
        BY <3>3, <4>3, SMT DEF Receive
      <4>4. QED
        BY <4>2, <4>3
    <3>4. CASE BreakOff
      BY <3>4, SMT DEF BreakOff
    <3>5. CASE Arrive
      <4>1. Remaining' = Remaining
        BY <3>5 DEF Arrive, local
      <4>2. Remaining \in Int
        BY SMT
      <4>3. late' = late - 1 /\ (effects' = effects \/ effects' = effects + 1)
        BY <3>5 DEF Arrive
      <4> HIDE DEF Remaining
      <4>4. QED
        BY <4>1, <4>2, <4>3, SMT
    <3>6. CASE Retry \/ Return \/ Raise
      <4>1. pc = "judge" /\ pc' \in {"send", "returned", "raised"}
        BY <3>6 DEF Retry, Return, Raise
      <4>2. UNCHANGED <<effects, late, caller, attempt>>
        BY <3>6 DEF Retry, Return, Raise
      <4>3. QED
        BY <4>1, <4>2, SMT
    <3>7. CASE RecordDone \/ RecordFailed \/ AcceptText \/ FallBack \/ Uncaught
      <4>1. caller' = "nobody" /\ UNCHANGED <<effects, late>>
        BY <3>7 DEF RecordDone, RecordFailed, AcceptText, FallBack, Uncaught, Exit
      <4>2. QED
        BY <4>1, SMT
    <3>8. CASE Crash
      BY <3>8, SMT DEF Crash, Exit
    <3>9. CASE UNCHANGED vars
      BY <3>9, SMT DEF vars, local
    <3>10. QED
      BY <1>4, <3>1, <3>2, <3>3, <3>4, <3>5, <3>6, <3>7, <3>8, <3>9 DEF Next, Client
  <2>3. Remaining \in Int /\ Remaining' \in Int /\ effects' \in Nat /\ late' \in Nat
    <3>1. TypeOK' /\ Waiting'
      BY TypeStep
    <3>2. QED
      BY <1>1, <3>1, AttemptsNat, SMT DEF TypeOK, Remaining
  <2> DEFINE Sum == effects + late + Remaining
  <2>a. Sum \in Int /\ Sum' \in Int
    BY <1>1, <2>3, SMT
  <2>b. Sum <= Paid /\ Sum' <= Sum
    BY <1>2, <2>2
  <2> HIDE DEF Paid, Sum
  <2>c. Sum' <= Paid
    BY <1>p, <2>a, <2>b, SMT
  <2>4. effects' + late' + Remaining' <= Paid
    BY <2>c DEF Sum
  <2>5. QED
    BY <2>1, <2>4 DEF Budget, Paid
<1>5. QED
  BY <1>3, <1>4

\* Every step covers what it may have performed: by a loss, or by the outcome to be recorded.
LEMMA LossStep == TypeOK /\ Waiting /\ LossesCovered /\ [Next]_vars => LossesCovered'
<1> SUFFICES ASSUME TypeOK, Waiting, LossesCovered, [Next]_vars
             PROVE  LossesCovered'
  OBVIOUS
<1>t. effects \in Nat /\ late \in Nat /\ lost \in Nat
  BY DEF TypeOK
<1> USE DEF LossesCovered, Waiting, Goto, webhook
<1>1. CASE Execute \/ Write
  <2>1. UNCHANGED <<status, effects, late, lost>> /\ pc = "idle" /\ pc' = "send"
    BY <1>1 DEF Execute, Write, Call
  <2>2. QED
    BY <2>1, <1>t, SMT DEF Sure
<1>2. CASE Send \/ Retry
  <2>1. UNCHANGED <<status, effects, late, lost, caller>> /\ pc' \in {"wait", "send"}
    BY <1>2 DEF Send, Retry
  <2>2. pc = "send" \/ (pc = "judge" /\ Transient(answer))
    <3>1. CASE Send
      BY <3>1 DEF Send
    <3>2. CASE Retry
      BY <3>2 DEF Retry
    <3>3. QED
      BY <1>2, <3>1, <3>2
  <2>3. Sure = Sure'
    BY <2>1, <2>2 DEF Sure
  <2>4. QED
    BY <2>1, <2>3, <1>t, SMT
<1>3. CASE Return \/ Raise
  <2>1. UNCHANGED <<status, effects, late, lost, caller, answer>>
    BY <1>3 DEF Return, Raise
  <2>2. pc = "judge" /\ pc' \in {"returned", "raised"}
    BY <1>3 DEF Return, Raise
  <2>3. Sure' = Sure
    BY <2>1, <2>2 DEF Sure
  <2>4. QED
    BY <2>1, <2>3, <1>t, SMT
<1>4. CASE Receive
  <2>1. PICK code \in Codes, json \in BOOLEAN :
           /\ answer' = [code |-> code, json |-> json]
           /\ caller = "connector" => /\ \E n \in Performed(code) : effects' = effects + n
                                      /\ lost' = lost + (IF code \in TransientStatus THEN 1 ELSE 0)
           /\ caller # "connector" => UNCHANGED <<effects, lost>>
    BY <1>4 DEF Receive
  <2>2. pc = "wait" /\ pc' = "judge" /\ UNCHANGED <<status, late, caller>>
    BY <1>4 DEF Receive
  <2>3. CASE caller = "connector"
    <3>1. PICK n \in Performed(code) : effects' = effects + n
      BY <2>1, <2>3
    <3>2. n \in {0, 1} /\ n \in Nat /\ n <= 1
      BY <3>1, SMT DEF Performed
    <3>3. Sure = 0
      BY <2>2, <2>3 DEF Sure
    <3>4. CASE code \in TransientStatus
      <4>1. lost' = lost + 1
        BY <2>1, <2>3, <3>4
      <4>2. CASE Sure' = 0
        BY <2>2, <3>1, <3>2, <3>3, <4>1, <4>2, <1>t, SMT
      <4>3. CASE Sure' = 1
        BY <2>2, <3>1, <3>2, <3>3, <4>1, <4>3, <1>t, SMT
      <4>4. QED
        BY <4>2, <4>3 DEF Sure
    <3>5. CASE code \notin TransientStatus
      <4>1. lost' = lost
        BY <2>1, <2>3, <3>5, <1>t, SMT
      <4>2. ~Transient(answer')
        BY <2>1, <3>5, DeliveryAssumption, SMT DEF Transient, NoCode
      <4>3. Sure' = 1
        BY <2>2, <2>3, <4>2 DEF Sure
      <4>4. QED
        BY <2>2, <3>1, <3>2, <3>3, <4>1, <4>3, <1>t, SMT
    <3>6. QED
      BY <3>4, <3>5
  <2>4. CASE caller # "connector"
    <3>1. Sure' = Sure
      BY <2>2, <2>4 DEF Sure
    <3>2. QED
      BY <2>1, <2>2, <2>4, <3>1, <1>t, SMT
  <2>5. QED
    BY <2>3, <2>4
<1>5. CASE BreakOff
  <2>1. pc = "wait" /\ UNCHANGED <<status, caller>>
    BY <1>5 DEF BreakOff
  <2>2. Transient(answer')
    BY <1>5 DEF BreakOff, NoAnswer, Transient
  <2>3. Sure' = Sure
    BY <2>1, <2>2 DEF Sure
  <2>4. Sure \in Nat
    BY SMT DEF Sure
  <2>5. CASE UNCHANGED <<effects, late, lost>>
    BY <2>3, <2>5, <1>t, SMT
  <2>6. CASE lost' = lost + 1 /\ UNCHANGED <<effects, late>>
    BY <2>3, <2>4, <2>6, <1>t, SMT
  <2>7. CASE lost' = lost + 1 /\ effects' = effects + 1 /\ late' = late
    BY <2>3, <2>4, <2>7, <1>t, SMT
  <2>8. CASE lost' = lost + 1 /\ late' = late + 1 /\ effects' = effects
    BY <2>3, <2>4, <2>8, <1>t, SMT
  <2>9. QED
    BY <1>5, <2>5, <2>6, <2>7, <2>8 DEF BreakOff
<1>6. CASE Arrive
  <2>1. Sure' = Sure /\ lost' = lost
    BY <1>6 DEF Arrive, local, Sure
  <2>2. late' = late - 1 /\ (effects' = effects \/ effects' = effects + 1)
    BY <1>6 DEF Arrive
  <2>3. Sure \in Nat /\ Sure <= 1
    BY SMT DEF Sure
  <2>4. QED
    BY <2>1, <2>2, <2>3, <1>t, SMT
<1>7. CASE RecordDone \/ RecordFailed
  <2>1. UNCHANGED <<effects, late, lost>> /\ status' # "approved"
    BY <1>7 DEF RecordDone, RecordFailed
  <2>2. Sure' = 1 /\ Sure \in Nat /\ Sure <= 1
    BY <2>1 DEF Sure
  <2>3. QED
    BY <2>1, <2>2, <1>t, SMT
<1>8. CASE AcceptText \/ FallBack \/ Uncaught
  <2>1. UNCHANGED <<status, effects, late, lost>>
    BY <1>8 DEF AcceptText, FallBack, Uncaught
  <2>2. caller \in Providers /\ caller' = "nobody"
    BY <1>8 DEF AcceptText, FallBack, Uncaught, Exit
  <2>3. Sure' = Sure
    BY <2>1, <2>2, Callers DEF Sure
  <2>4. QED
    BY <2>1, <2>3, <1>t, SMT
<1>9. CASE Crash
  <2>1. status' = status /\ caller' = "nobody"
    BY <1>9 DEF Crash, Exit
  <2>2. CASE caller = "connector"
    <3>1. status = "approved" /\ Sure' = 0
      BY <2>1, <2>2 DEF Sure
    <3>2. lost' = lost + (IF Unrecorded THEN 1 ELSE 0)
      BY <1>9, <2>2 DEF Crash
    <3>3. CASE pc = "wait"
      <4>1. lost' = lost + 1 /\ Sure = 0
        BY <3>1, <3>2, <3>3 DEF Unrecorded, Sure
      <4>2. effects' = effects /\ (late' = late \/ late' = late + 1)
        BY <1>9, <2>2 DEF Crash
      <4>3. QED
        BY <3>1, <4>1, <4>2, <1>t, SMT
    <3>4. CASE pc # "wait"
      <4>1. effects' = effects /\ late' = late
        BY <1>9, <2>2, <3>4 DEF Crash
      <4>2. Unrecorded <=> Sure = 1
        BY <2>2, <3>1, <3>4 DEF Unrecorded, Sure
      <4>3. Sure \in Nat /\ Sure <= 1
        BY SMT DEF Sure
      <4>4. lost' = lost + Sure
        BY <3>2, <4>2, <4>3, <1>t, SMT
      <4>5. QED
        BY <3>1, <4>1, <4>3, <4>4, <1>t, SMT
    <3>5. QED
      BY <3>3, <3>4
  <2>3. CASE caller # "connector"
    <3>1. UNCHANGED <<effects, late, lost>>
      BY <1>9, <2>3 DEF Crash
    <3>2. Sure' = Sure
      BY <2>1, <2>3 DEF Sure
    <3>3. QED
      BY <3>1, <3>2, <1>t, SMT
  <2>4. QED
    BY <2>2, <2>3
<1>10. CASE UNCHANGED vars
  BY <1>10, SMT DEF vars, local, Sure
<1>11. QED
  BY <1>1, <1>2, <1>3, <1>4, <1>5, <1>6, <1>7, <1>8, <1>9, <1>10 DEF Next, Client

\* Every reachable state satisfies the invariant.
LEMMA Invariance == Spec => []IInv
<1>1. Init => IInv
  BY InitInv
<1>2. IInv /\ [Next]_vars => IInv'
  BY TypeStep, BudgetStep, LossStep DEF IInv
<1>3. QED
  BY <1>1, <1>2, PTL DEF Spec

\* The state stays well formed.
THEOREM TypeCorrect == Spec => []TypeOK
<1>1. IInv => TypeOK
  BY DEF IInv
<1>2. QED
  BY <1>1, Invariance, PTL

\* For every retry_attempts: the log bounds how often the webhook performs an action.
THEOREM EffectsBounded == Spec => []EffectsAccounted
<1>1. IInv => EffectsAccounted
  <2> SUFFICES ASSUME IInv
               PROVE  effects + late <= Attempts * starts
    BY DEF EffectsAccounted
  <2> DEFINE Paid == Attempts * starts
  <2>1. effects \in Nat /\ late \in Nat /\ attempt \in 0..Attempts /\ Paid \in Int
    BY AttemptsNat, SMT DEF IInv, TypeOK
  <2>2. Remaining \in Nat
    BY <2>1, AttemptsNat, SMT DEF Remaining
  <2>3. effects + late + Remaining <= Paid
    BY DEF IInv, Budget
  <2> HIDE DEF Paid
  <2>4. effects + late <= Paid
    BY <2>1, <2>2, <2>3, SMT
  <2>5. QED
    BY <2>4 DEF Paid
<1>2. QED
  BY <1>1, Invariance, PTL

\* For every number of commands, crashes and late arrivals: the webhook performs an action
\* again only after an attempt whose outcome got lost.
THEOREM RepetitionsAreLosses == Spec => []RepeatedOnlyAfterLoss
<1>1. IInv => RepeatedOnlyAfterLoss
  <2> SUFFICES ASSUME IInv
               PROVE  effects + late <= 1 + lost
    BY DEF RepeatedOnlyAfterLoss
  <2>1. effects \in Nat /\ late \in Nat /\ lost \in Nat /\ effects + late <= lost + Sure
    BY DEF IInv, TypeOK, LossesCovered
  <2>2. Sure \in Nat /\ Sure <= 1
    BY SMT DEF Sure
  <2>3. QED
    BY <2>1, <2>2, SMT
<1>2. QED
  BY <1>1, Invariance, PTL

(***************************************************************************)
(* What "executed" tells.                                                  *)
(***************************************************************************)
\* No server redirects.
NoRedirects == Codes \intersect 300..399 = {}

ReturnedDecoded == pc = "returned" => Decoded(answer)

\* A readable success was sent after the action was performed.
AnswerPerformed ==
    caller = "connector" /\ pc \in {"judge", "returned"} /\ Decoded(answer) => effects > 0

Told == ReturnedDecoded /\ AnswerPerformed /\ ExecutedWasPerformed

\* Without redirections, every step keeps a success from being told of nothing.
LEMMA ToldStep ==
    ASSUME NoRedirects, TypeOK, Waiting, Told, [Next]_vars
    PROVE  Told'
<1>t. effects \in Nat /\ late \in Nat
  BY DEF TypeOK
<1> USE DEF Told, Waiting, ReturnedDecoded, AnswerPerformed, ExecutedWasPerformed, Goto, webhook
<1>1. CASE Execute \/ Write
  BY <1>1, <1>t, AttemptsNat, Callers, SMT DEF Execute, Write, Call, TypeOK
<1>2. CASE Send \/ Retry
  BY <1>2, <1>t, SMT DEF Send, Retry
<1>3. CASE Return \/ Raise
  BY <1>3, <1>t, SMT DEF Return, Raise
<1>4. CASE Receive
  <2>1. PICK code \in Codes, json \in BOOLEAN :
           /\ answer' = [code |-> code, json |-> json]
           /\ caller = "connector" => \E n \in Performed(code) : effects' = effects + n
           /\ caller # "connector" => effects' = effects
    BY <1>4 DEF Receive
  <2>2. pc' = "judge" /\ UNCHANGED <<status, caller>>
    BY <1>4 DEF Receive
  <2>3. CASE caller = "connector" /\ Decoded(answer')
    <3>1. code \notin TransientStatus /\ code < 400
      BY <2>1, <2>3 DEF Decoded, Transient
    <3>2. code < 300
      BY <3>1, DeliveryAssumption, SMT DEF NoRedirects
    <3>3. effects' = effects + 1
      BY <2>1, <2>3, <3>1, <3>2 DEF Performed
    <3>4. effects' > 0
      BY <3>3, <1>t, SMT
    <3>5. QED
      BY <2>2, <3>4
  <2>4. CASE caller = "connector" /\ ~Decoded(answer')
    <3>1. status' # "executed"
      BY <2>2, <2>4
    <3>2. QED
      BY <2>2, <2>4, <3>1
  <2>5. CASE caller # "connector"
    BY <2>1, <2>2, <2>5
  <2>6. QED
    BY <2>3, <2>4, <2>5
<1>5. CASE BreakOff
  BY <1>5, <1>t, SMT DEF BreakOff, Decoded, Transient, NoAnswer
<1>6. CASE Arrive
  BY <1>6, <1>t, SMT DEF Arrive, local
<1>7. CASE RecordDone \/ RecordFailed
  BY <1>7, <1>t, SMT DEF RecordDone, RecordFailed, Exit
<1>8. CASE AcceptText \/ FallBack \/ Uncaught
  BY <1>8, <1>t, SMT DEF AcceptText, FallBack, Uncaught, Exit, TypeOK
<1>9. CASE Crash
  BY <1>9, <1>t, SMT DEF Crash, Exit
<1>10. CASE UNCHANGED vars
  BY <1>10, SMT DEF vars, local
<1>11. QED
  BY <1>1, <1>2, <1>3, <1>4, <1>5, <1>6, <1>7, <1>8, <1>9, <1>10 DEF Next, Client

\* Redirections are all that keeps "executed" from telling that the action was performed:
\* without them it does, for every other code, readable or not, lost, late or retried.
THEOREM ExecutedIsTrue == ASSUME NoRedirects PROVE Spec => []ExecutedWasPerformed
<1>1. Init => Told
  BY SMT DEF Init, Told, ReturnedDecoded, AnswerPerformed, ExecutedWasPerformed
<1>2. IInv /\ Told /\ [Next]_vars => Told'
  BY ToldStep DEF IInv
<1>3. Told => ExecutedWasPerformed
  BY DEF Told
<1>4. QED
  BY <1>1, <1>2, <1>3, Invariance, PTL DEF Spec

(***************************************************************************)
(* Retries are bounded.                                                    *)
(***************************************************************************)
\* A bound on the steps that the running command has left: three for each attempt, and
\* one for the outcome.
StepsLeft ==
    CASE pc = "send" -> 3 * (Attempts - attempt) + 1
      [] pc = "wait" -> 3 * (Attempts - attempt) + 3
      [] pc = "judge" -> 3 * (Attempts - attempt) + 2
      [] pc \in {"returned", "raised"} -> 1
      [] OTHER -> 0

\* Types and places leave between none and all of the steps.
LEMMA StepsLeftBounded == TypeOK /\ Waiting => StepsLeft \in 0..(3 * Attempts + 1)
<1> SUFFICES ASSUME TypeOK, Waiting PROVE StepsLeft \in 0..(3 * Attempts + 1)
  OBVIOUS
<1>1. attempt \in 0..Attempts /\ Attempts \in Nat
  BY AttemptsNat DEF TypeOK
<1>2. CASE pc = "wait"
  <2>1. attempt > 0
    BY <1>2 DEF Waiting
  <2> QED
    BY <1>1, <1>2, <2>1, SMT DEF StepsLeft
<1>3. CASE pc = "judge"
  <2>1. attempt > 0
    BY <1>3 DEF Waiting
  <2> QED
    BY <1>1, <1>3, <2>1, SMT DEF StepsLeft
<1>4. CASE pc \notin {"wait", "judge"}
  BY <1>1, <1>4, SMT DEF StepsLeft
<1> QED
  BY <1>2, <1>3, <1>4

\* Whatever a server answers or fails to, a command that has called out comes nearer to its
\* end with every step of its own, and only late requests arrive in between: it takes
\* at most three steps for each attempt and one for the outcome (call_with_retry).
THEOREM RetriesAreBounded ==
    Spec => /\ [](StepsLeft \in 0..(3 * Attempts + 1))
            /\ [][pc # "idle" => UNCHANGED local \/ StepsLeft' < StepsLeft]_vars
<1> DEFINE Advance == pc # "idle" => UNCHANGED local \/ StepsLeft' < StepsLeft
<1>1. TypeOK /\ Waiting /\ Next => Advance
  <2> SUFFICES ASSUME TypeOK, Waiting, Next, pc # "idle"
               PROVE  UNCHANGED local \/ StepsLeft' < StepsLeft
    OBVIOUS
  <2>1. attempt \in 0..Attempts /\ Attempts \in Nat
    BY AttemptsNat DEF TypeOK
  <2>2. CASE Send
    BY <2>1, <2>2, SMT DEF Send, Goto, StepsLeft
  <2>3. CASE Receive \/ BreakOff
    <3>1. pc = "wait" /\ pc' = "judge" /\ attempt' = attempt
      BY <2>3 DEF Receive, BreakOff, Goto
    <3> QED
      BY <2>1, <3>1, SMT DEF StepsLeft
  <2>4. CASE Retry \/ Return \/ Raise
    <3>1. pc = "judge" /\ pc' \in {"send", "returned", "raised"} /\ attempt' = attempt
      BY <2>4 DEF Retry, Return, Raise, Goto
    <3> QED
      BY <2>1, <3>1, SMT DEF StepsLeft
  <2>5. CASE RecordDone \/ RecordFailed \/ AcceptText \/ FallBack \/ Uncaught \/ Crash
    <3>1. pc' = "idle"
      BY <2>5 DEF RecordDone, RecordFailed, AcceptText, FallBack, Uncaught, Crash, Exit
    <3>2. StepsLeft' = 0
      BY <3>1 DEF StepsLeft
    <3>3. pc \in {"send", "wait", "judge", "returned", "raised"}
      BY DEF TypeOK
    <3>4. StepsLeft > 0
      BY <2>1, <3>3, SMT DEF StepsLeft
    <3> QED
      BY <3>2, <3>4
  <2>6. CASE Arrive
    BY <2>6 DEF Arrive
  <2>7. ~Execute /\ ~Write
    BY DEF Execute, Write, Call, Goto
  <2> QED
    BY <2>2, <2>3, <2>4, <2>5, <2>6, <2>7 DEF Next, Client
<1>2. IInv => TypeOK /\ Waiting /\ StepsLeft \in 0..(3 * Attempts + 1)
  BY StepsLeftBounded DEF IInv
<1>3. IInv /\ [Next]_vars => Advance \/ UNCHANGED vars
  BY <1>1, <1>2
<1> HIDE DEF Advance
<1>4. Spec => [](StepsLeft \in 0..(3 * Attempts + 1)) /\ [][Advance]_vars
  BY <1>2, <1>3, Invariance, PTL DEF Spec
<1> QED
  BY <1>4 DEF Advance
==========================================================================
