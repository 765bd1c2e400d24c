----------------------------- MODULE Delivery -----------------------------
(***************************************************************************)
(* Calls to the outside: JsonClient.request (providers/http.py) under      *)
(* call_with_retry (retry.py), for its two users.  WebhookConnector        *)
(* (executor.py) asks a webhook to perform an approved action, between the *)
(* start entry and the record of the outcome.  LLMSummaryWriter            *)
(* (agents/summary.py) asks a language model for a text and falls back to  *)
(* a template.  One action and one incident; ActionService has the checks  *)
(* that precede a call and several processes.                              *)
(*                                                                         *)
(* What happened at the webhook is not what the client learns: an answer   *)
(* may get lost, and a request the client gave up on may be performed      *)
(* later, after a retry or after the outcome was recorded.                 *)
(***************************************************************************)
EXTENDS Integers

CONSTANTS
    Attempts,       \* retry_attempts
    Codes,          \* HTTP status codes that a server may answer with
    Providers,      \* values of llm_provider, one for each command
    Replies,        \* what a decoded answer of the model may hold
    MaxCommands     \* bound on the number of commands started

ASSUME DeliveryAssumption ==
    /\ Attempts \in Nat \ {0}
    /\ Codes \subseteq 100..599
    /\ Providers \subseteq {"openai", "anthropic"}
    /\ Replies \subseteq {"grounded", "unfit", "misshapen", "null"}
    /\ MaxCommands \in Nat

VARIABLES
    status,     \* the stored status of the action
    starts,     \* number of entries action.execute.start
    summary,    \* the summary of the incident triaged last
    effects,    \* how often the webhook performed the action
    late,       \* requests given up on that may still reach the webhook
    lost,       \* history: attempts whose outcome got lost before it was recorded
    commands,   \* number of commands started
    caller,     \* who waits for the answer: the connector or a writer's provider
    pc,
    attempt,    \* number of the current attempt
    answer      \* the answer to it

webhook == <<effects, late>>
local == <<caller, pc, attempt, answer>>
vars == <<status, starts, summary, webhook, lost, commands, local>>

\* A transport error has no code.
NoCode == 0

Answer == [code : Codes \union {NoCode}, json : BOOLEAN]

NoAnswer == [code |-> NoCode, json |-> FALSE]

TypeOK ==
    /\ status \in {"approved", "executed", "failed"}
    /\ starts \in Nat
    /\ summary \in {"none", "template", "grounded", "unfit", "None"}
    /\ effects \in Nat /\ late \in Nat
    /\ lost \in Nat
    /\ commands \in 0..MaxCommands
    /\ caller \in {"nobody", "connector"} \union Providers
    /\ pc \in {"idle", "send", "wait", "judge", "returned", "raised"}
    /\ attempt \in 0..Attempts
    /\ answer \in Answer

Init ==
    /\ status = "approved" /\ starts = 0 /\ summary = "none"
    /\ effects = 0 /\ late = 0 /\ lost = 0
    /\ commands = 0
    /\ caller = "nobody" /\ pc = "idle" /\ attempt = 0 /\ answer = NoAnswer

Goto(from, to) == pc = from /\ pc' = to

Exit ==
    /\ pc' = "idle" /\ caller' = "nobody" /\ attempt' = 0 /\ answer' = NoAnswer

\* A command calls out: the first attempt is still to be sent.
Call(who) ==
    /\ commands < MaxCommands
    /\ commands' = commands + 1
    /\ Goto("idle", "send")
    /\ caller' = who /\ attempt' = 0 /\ answer' = NoAnswer

(***************************************************************************)
(* JsonClient.request.                                                     *)
(***************************************************************************)
TransientStatus == {408, 409, 425, 429, 500, 502, 503, 504}

\* Wrong variant: a body that is not JSON is tried again as well.
TransientOrUnreadable(a) ==
    \/ a.code \in TransientStatus \union {NoCode}
    \/ a.code < 400 /\ ~a.json

\* send raises TransientProviderError.
Transient(a) == a.code = NoCode \/ a.code \in TransientStatus

\* send returns the decoded body; a redirection is not followed.
Decoded(a) == ~Transient(a) /\ a.code < 400 /\ a.json

\* Wrong variant: the attempts are not counted.
SendUncounted ==
    /\ Goto("send", "wait")
    /\ attempt' = 1
    /\ UNCHANGED <<status, starts, summary, webhook, lost, commands, caller, answer>>

Send ==
    /\ Goto("send", "wait")
    /\ attempt' = attempt + 1
    /\ UNCHANGED <<status, starts, summary, webhook, lost, commands, caller, answer>>

\* What the code of an answer says about the action at the webhook: performed for
\* 2xx, not performed for a refusal or redirection, unknown otherwise.
Performed(code) ==
    IF code \in TransientStatus THEN {0, 1} ELSE IF code < 300 THEN {1} ELSE {0}

\* The server answers the current attempt.
Receive ==
    /\ Goto("wait", "judge")
    /\ \E code \in Codes, json \in BOOLEAN :
          /\ answer' = [code |-> code, json |-> json]
          /\ IF caller = "connector"
             THEN /\ \E n \in Performed(code) : effects' = effects + n
                  /\ lost' = lost + (IF code \in TransientStatus THEN 1 ELSE 0)
             ELSE UNCHANGED <<effects, lost>>
    /\ UNCHANGED <<status, starts, summary, late, commands, caller, attempt>>

\* httpx.TransportError, time-outs (http_timeout_seconds) included: the request never
\* arrived, was performed and the answer lost, or is still on its way.
BreakOff ==
    /\ Goto("wait", "judge")
    /\ answer' = NoAnswer
    /\ IF caller = "connector"
       THEN /\ \/ UNCHANGED webhook
               \/ effects' = effects + 1 /\ UNCHANGED late
               \/ late' = late + 1 /\ UNCHANGED effects
            /\ lost' = lost + 1
       ELSE UNCHANGED <<webhook, lost>>
    /\ UNCHANGED <<status, starts, summary, commands, caller, attempt>>

\* A request given up on is performed after all, or lost.
Arrive ==
    /\ late > 0
    /\ late' = late - 1
    /\ effects' \in {effects, effects + 1}
    /\ UNCHANGED <<status, starts, summary, lost, commands, local>>

\* Wrong variant: one attempt too many.
RetryOnceMore ==
    /\ Goto("judge", "send")
    /\ Transient(answer) /\ attempt <= Attempts
    /\ UNCHANGED <<status, starts, summary, webhook, lost, commands, caller, attempt, answer>>

\* retry_if_exception_type, stop_after_attempt; the wait between attempts is a
\* matter of time only.
Retry ==
    /\ Goto("judge", "send")
    /\ Transient(answer) /\ attempt < Attempts
    /\ UNCHANGED <<status, starts, summary, webhook, lost, commands, caller, attempt, answer>>

Return ==
    /\ Goto("judge", "returned")
    /\ Decoded(answer)
    /\ UNCHANGED <<status, starts, summary, webhook, lost, commands, caller, attempt, answer>>

\* The last transient error, a refusal or a body that is not JSON: ProviderError.
Raise ==
    /\ Goto("judge", "raised")
    /\ ~Decoded(answer)
    /\ Transient(answer) => attempt = Attempts
    /\ UNCHANGED <<status, starts, summary, webhook, lost, commands, caller, attempt, answer>>

(***************************************************************************)
(* ActionService.execute with WebhookConnector.                            *)
(***************************************************************************)
\* The checks have passed and the start entry is written.
Execute ==
    /\ status = "approved"
    /\ Call("connector")
    /\ starts' = starts + 1
    /\ UNCHANGED <<status, summary, webhook, lost>>

RecordDone ==
    /\ pc = "returned" /\ caller = "connector"
    /\ status' = "executed"
    /\ Exit
    /\ UNCHANGED <<starts, summary, webhook, lost, commands>>

\* WebhookConnector turns ProviderError into ActionError.
RecordFailed ==
    /\ pc = "raised" /\ caller = "connector"
    /\ status' = "failed"
    /\ Exit
    /\ UNCHANGED <<starts, summary, webhook, lost, commands>>

(***************************************************************************)
(* LLMSummaryWriter.write, for one incident of a triage.                   *)
(***************************************************************************)
Write ==
    /\ \E provider \in Providers : Call(provider)
    /\ UNCHANGED <<status, starts, summary, webhook, lost>>

\* complete: the text of a reply.  A null text becomes the word None for OpenAI,
\* and for Anthropic an exception that nothing catches.
Complete(reply) ==
    CASE reply = "misshapen" -> "ProviderError"
      [] reply = "null" -> IF caller = "openai" THEN "None" ELSE "TypeError"
      [] OTHER -> reply

\* A text that is not empty, not too long and has only numbers of the facts.
Fit(text) == text \in {"grounded", "None"}

AcceptText ==
    /\ pc = "returned" /\ caller \in Providers
    /\ \E r \in Replies :
          /\ Complete(r) # "TypeError" /\ Fit(Complete(r))
          /\ summary' = Complete(r)
    /\ Exit
    /\ UNCHANGED <<status, starts, webhook, lost, commands>>

\* TemplateSummaryWriter, after a ProviderError or a text that does not fit.
FallBack ==
    /\ caller \in Providers
    /\ \/ pc = "raised"
       \/ pc = "returned" /\ \E r \in Replies : Complete(r) # "TypeError" /\ ~Fit(Complete(r))
    /\ summary' = "template"
    /\ Exit
    /\ UNCHANGED <<status, starts, webhook, lost, commands>>

\* An exception that is no ProviderError ends the triage.
Uncaught ==
    /\ pc = "returned" /\ caller \in Providers
    /\ \E r \in Replies : Complete(r) = "TypeError"
    /\ Exit
    /\ UNCHANGED <<status, starts, summary, webhook, lost, commands>>

\* An attempt is under way, or its answer is known but not yet recorded.
Unrecorded ==
    \/ pc = "wait"
    \/ pc \in {"judge", "returned", "raised"} /\ ~Transient(answer)

\* The command dies on the way.
Crash ==
    /\ pc # "idle"
    /\ IF caller = "connector"
       THEN /\ lost' = lost + (IF Unrecorded THEN 1 ELSE 0)
            /\ IF pc = "wait"
               THEN \/ UNCHANGED webhook
                    \/ late' = late + 1 /\ UNCHANGED effects
               ELSE UNCHANGED webhook
       ELSE UNCHANGED <<webhook, lost>>
    /\ Exit
    /\ UNCHANGED <<status, starts, summary, commands>>

\* What the client does by itself.
Client ==
    \/ Send \/ Receive \/ BreakOff \/ Retry \/ Return \/ Raise
    \/ RecordDone \/ RecordFailed \/ AcceptText \/ FallBack \/ Uncaught

Next == Execute \/ Write \/ Client \/ Arrive \/ Crash

\* A command runs on: an attempt ends with an answer or with the time-out.  Nothing
\* obliges a server to answer, late requests to arrive or anybody to start a command.
Fairness == WF_vars(Client)

Spec == Init /\ [][Next]_vars /\ Fairness

(***************************************************************************)
(* Properties.                                                             *)
(***************************************************************************)
\* The webhook never performs the action more than Attempts times for each start
\* entry of the log, requests still on their way included: whatever is retried,
\* lost or late, a reader of the log can bound what happened outside.
EffectsAccounted == effects + late <= Attempts * starts

\* The webhook performs the action again only after an attempt whose outcome got lost: a
\* definite answer, readable or not, ends the attempts and settles the action, so that
\* no other command calls for it again (JsonClient.request, call_with_retry, execute).
RepeatedOnlyAfterLoss == effects + late <= 1 + lost

\* An action recorded as executed was performed at least once (RecordDone).  It is so as
\* long as nobody redirects: a redirection with a JSON body is taken for a success.
ExecutedWasPerformed == status = "executed" => effects > 0

\* No command waits or retries for ever (call_with_retry).
CommandsEnd == pc # "idle" ~> pc = "idle"

(***************************************************************************)
(* What the documents say and the code does not keep.                      *)
(***************************************************************************)
\* "Only the status code decides success" (SECURITY.md, of the webhook's responses): the
\* outcome that is recorded follows the code of the last answer, and never its body.
StatusCodeDecides ==
    [][status' # status => (status' = "executed" <=> answer.code \in 200..299)]_vars
==========================================================================
