------------------------------- MODULE MCJobs -------------------------------
(***************************************************************************)
(* Small instances of the durable job queue (JobQueue) and of two kinds of *)
(* job whose handlers keep a state of their own: AI analyses (AiRun) and   *)
(* text extractions (TextExtraction).  They share no state; which of them  *)
(* a behaviour is about is chosen at its start.                            *)
(***************************************************************************)
EXTENDS JobQueue

CONSTANTS
  Workers,
  MaxTurns, MaxTools, AiBudget,
  MaxLives, TextBudget

VARIABLES
  which,
  aiRun, aiJob, aiWorker, allowed, configured, thread, aiBudget,
  run, archived, job, worker, textBudget

Ai == INSTANCE AiRun WITH
  Budget <- AiBudget, run <- aiRun, job <- aiJob, worker <- aiWorker, budget <- aiBudget

Text == INSTANCE TextExtraction WITH Budget <- TextBudget, budget <- textBudget

ASSUME AiAssumption == Ai!AiRunAssumption
ASSUME TextAssumption == Text!TextExtractionAssumption

aiVars == <<aiRun, aiJob, aiWorker, allowed, configured, thread, aiBudget>>
textVars == <<run, archived, job, worker, textBudget>>

all == <<which, vars, aiVars, textVars>>

\* A module that a behaviour is not about stays in one of its initial states.
MCInit ==
  /\ which \in {"queue", "batch", "ai", "text"}
  /\ Init /\ Ai!Init /\ Text!Init
  /\ which # "ai" => ~aiRun.omitted

\* The queue with one job, a cleanup, or with all of them, but then with one disturbance.
OneJob == \A j \in Jobs \ CleanupJobs : row'[j] = row[j]
OneDisturbance == budget' >= Budget - 1

\* The steps of a module while the behaviour is about it.
Queues(A) ==
  /\ which \in {"queue", "batch"}
  /\ A /\ UNCHANGED <<which, aiVars, textVars>>
  /\ which = "queue" => OneJob
  /\ which = "batch" => OneDisturbance
Analyses(A) == which = "ai" /\ A /\ UNCHANGED <<which, vars, textVars>>
Extracts(A) == which = "text" /\ A /\ UNCHANGED <<which, vars, aiVars>>

MCNext == Queues(Next) \/ Analyses(Ai!Next) \/ Extracts(Text!Next)

\* The fairness of each module, for the behaviours that are about it.
QueueFairness ==
  /\ \A p \in Passes : /\ WF_vars(which = "queue" /\ Step(p))
                       /\ SF_vars(which = "queue" /\ HandlerOutcome(p))
                       /\ WF_vars(which = "queue" /\ Start(p))
  /\ \A j \in Jobs : /\ WF_vars(which = "queue" /\ BecomeDue(j))
                     /\ WF_vars(which = "queue" /\ ~RowTended(j) /\ LeaseExpires(j))
                     /\ WF_vars(which = "queue" /\ ~KeyTended(j) /\ RedisLeaseExpires(j))

AiFairness ==
  /\ \A w \in Workers : WF_aiVars(which = "ai" /\ Ai!Step(w))
  /\ WF_aiVars(which = "ai" /\ \E w \in Workers : Ai!ClaimDue(w))
  /\ WF_aiVars(which = "ai" /\ ~Ai!Tended /\ Ai!LeaseExpires)

TextFairness ==
  /\ \A w \in Workers : WF_textVars(which = "text" /\ Text!Step(w))
  /\ \A l \in 1..MaxLives :
       /\ WF_textVars(which = "text" /\ \E w \in Workers : Text!ClaimDue(w, l))
       /\ WF_textVars(which = "text" /\ ~Text!Tended(l) /\ Text!LeaseExpires(l))

MCFairness == QueueFairness /\ AiFairness /\ TextFairness

MCSpec == MCInit /\ [][MCNext]_all /\ MCFairness

-----------------------------------------------------------------------------

\* The type invariants of the three modules.
TypesOK == TypeOK /\ Ai!TypeOK /\ Text!TypeOK

\* AiRun: a run has one terminal result, whoever still holds an answer, a failure
\* to record or a claim, and its prompt does not outlive it.
\* TextExtraction: only a retry takes an extraction up that has ended.
OutcomesAreFinal == Ai!RunEndsOnce /\ Text!EndedIsFinal

\* AiRun: a thread under a legal hold is not purged.
HeldThreadIsKept == Ai!HeldThreadIsKept

\* JobQueue: an enqueued job is completed or dead-lettered (EveryJobSettles).
\* AiRun: a started analysis ends, or its job is dead-lettered (RunSettles).
\* TextExtraction: a requested extraction ends, or its job is dead-lettered
\* (ExtractionSettles).  One formula for the three, as which never changes and there
\* is one job in the queue where it is fair.
Begun ==
  \/ which = "queue" /\ (\E j \in CleanupJobs : Owed(j))
  \/ which = "ai" /\ Ai!RunStarted
  \/ which = "text" /\ Text!Requested

Settled ==
  \/ which = "queue" /\ (\A j \in CleanupJobs : JobSettled(j))
  \/ which = "ai" /\ Ai!RunSettled
  \/ which = "text" /\ Text!RunSettled

JobsSettle == Begun ~> Settled

=============================================================================
