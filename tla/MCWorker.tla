------------------------------ MODULE MCWorker ------------------------------
(***************************************************************************)
(* Small instances of what the worker does beside imports and uploads: its *)
(* process (WorkerProcess), governed deletion (DeletionRequest), webhooks  *)
(* (WebhookDelivery) and mail (AuthEmailOutbox).  They share no state;     *)
(* which of them a behaviour is about is chosen at its start.              *)
(***************************************************************************)
EXTENDS DeletionRequest

CONSTANTS
  WebhookAttempts, WebhookBudget, Errors, Aborts, Pauses,
  ProcessBudget,
  Intents, Verifications, Drains, Gone, MailAttempts, MailBudget

VARIABLES
  which,
  webhookJob, delivery, webhook, webhookWorker, successes, webhookBudget, errors, aborts,
  pauses,
  proc, told, loop, stage, hung, reason, result, deadline, grace, late, beat, processBudget,
  row, invitation, drain, mailBudget

Webhook == INSTANCE WebhookDelivery WITH
  MaxAttempts <- WebhookAttempts, Budget <- WebhookBudget,
  job <- webhookJob, worker <- webhookWorker, budget <- webhookBudget

Process == INSTANCE WorkerProcess WITH
  Budget <- ProcessBudget, outcome <- result, budget <- processBudget

Mail == INSTANCE AuthEmailOutbox WITH
  MaxAttempts <- MailAttempts, Budget <- MailBudget, budget <- mailBudget

ASSUME DeletionAssumption == DeletionRequestAssumption
ASSUME WebhookAssumption == Webhook!WebhookDeliveryAssumption
ASSUME ProcessAssumption == Process!WorkerProcessAssumption
ASSUME MailAssumption == Mail!AuthEmailOutboxAssumption

webhookVars ==
  <<webhookJob, delivery, webhook, webhookWorker, successes, webhookBudget, errors, aborts,
    pauses>>
processVars ==
  <<proc, told, loop, stage, hung, reason, result, deadline, grace, late, beat, processBudget>>
mailVars == <<row, invitation, drain, mailBudget>>

all == <<which, vars, webhookVars, processVars, mailVars>>

\* A module that a behaviour is not about stays in one of its initial states.
MCInit ==
  /\ which \in {"deletion", "webhook", "process", "mail"}
  /\ Init /\ Webhook!Init /\ Process!Init /\ Mail!Init
  /\ which # "deletion" => \A r \in Requests : local[r] = "none"

\* The steps of a module while the behaviour is about it.
Deletes(A) == which = "deletion" /\ A /\ UNCHANGED <<which, webhookVars, processVars, mailVars>>
Delivers(A) == which = "webhook" /\ A /\ UNCHANGED <<which, vars, processVars, mailVars>>
Loops(A) == which = "process" /\ A /\ UNCHANGED <<which, vars, webhookVars, mailVars>>
Mails(A) == which = "mail" /\ A /\ UNCHANGED <<which, vars, webhookVars, processVars>>

MCNext == Deletes(Next) \/ Delivers(Webhook!Next) \/ Loops(Process!Next) \/ Mails(Mail!Next)

\* The fairness of each module, for the behaviours that are about it.
DeletionFairness ==
  /\ \A w \in Workers : WF_vars(which = "deletion" /\ Step(w))
  /\ \A r \in Requests :
       /\ SF_vars(which = "deletion" /\ \E w \in Workers : Select(w, r))
       /\ WF_vars(which = "deletion" /\ ~Tended(r) /\ ClaimExpires(r))

WebhookFairness ==
  /\ \A w \in Workers : WF_webhookVars(which = "webhook" /\ Webhook!Step(w))
  /\ WF_webhookVars(which = "webhook" /\ \E w \in Workers : Webhook!Claim(w))
  /\ WF_webhookVars(which = "webhook" /\ ~Webhook!Tended /\ Webhook!LeaseExpires)

ProcessFairness ==
  /\ WF_processVars(which = "process" /\ Process!Runs)
  /\ WF_processVars(which = "process" /\ Process!HeartbeatIsWritten)
  /\ WF_processVars(which = "process" /\ hung /\ Process!DeadlinePasses)
  /\ WF_processVars(which = "process" /\ Process!HardExit)
  /\ WF_processVars(which = "process" /\ ~hung /\ Process!StageEnds)
  /\ WF_processVars(which = "process" /\ Process!Kill)
  /\ WF_processVars(which = "process" /\ Process!Restart)

MailFairness ==
  /\ \A d \in Drains : WF_mailVars(which = "mail" /\ Mail!Step(d))
  /\ \A i \in Intents :
       /\ SF_mailVars(which = "mail" /\ Mail!ClaimOf(i))
       /\ WF_mailVars(which = "mail" /\ Mail!BecomeDue(i))
       /\ WF_mailVars(which = "mail" /\ row[i].owner \notin Drains /\ Mail!LeaseExpires(i))

MCFairness == DeletionFairness /\ WebhookFairness /\ ProcessFairness /\ MailFairness

MCSpec == MCInit /\ [][MCNext]_all /\ MCFairness

-----------------------------------------------------------------------------

\* The type invariants of the four modules.
TypesOK == TypeOK /\ Webhook!TypeOK /\ Process!TypeOK /\ Mail!TypeOK

\* WebhookDelivery: a delivery is accepted once more only for a disturbance that
\* kept its acceptance from being recorded, and without a time limit, a failed
\* statement or a handler that outruns its lease every scheduled retry is made.
DeliveriesAreExact == Webhook!DeliveriesAreExact

\* DeletionRequest: an execution under way ends, unless a reviewer has stopped it, its
\* scope is held or of ambiguous lineage, or its policy has changed.
\* WebhookDelivery: the job ends and leaves a recorded outcome.
\* AuthEmailOutbox: mail that stays deliverable is accepted or a dead letter.
WorkSettles ==
  ExecutionSettles /\ (which = "webhook" => Webhook!DeliverySettles) /\ Mail!MailSettles

\* AuthEmailOutbox: the claim in force is settled by its holder only.
SettledByHolder == Mail!SettledByHolder

\* AuthEmailOutbox: an invitation is not canceled under a drain whose claim is current.
CancelWaitsForDelivery == Mail!CancelWaitsForDelivery

\* WorkerProcess: a hard exit is for a pass past its time limit, exit zero for a
\* process that was told to stop and has settled its pass.
ExitsAreEarned == Process!ExitsAreEarned

\* WorkerProcess: jobs are reached again and again, and a process told to stop ends.
WorkerGoesOn == which = "process" => Process!WorkerGoesOn

=============================================================================
