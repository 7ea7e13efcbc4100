-------------------------- MODULE WebhookDelivery --------------------------
(***************************************************************************)
(* One webhook delivery and the durable job that carries it                *)
(* (src/worker/handlers/webhook-delivery.ts,                               *)
(* src/modules/webhooks/service.ts).  The job's attempt count, which the   *)
(* queue takes back when a claim is deferred, doubles as the number by     *)
(* which the handler tells a new attempt from a repeated one.              *)
(*                                                                         *)
(* The queue is cut down to what the handler can see of it: claims, their  *)
(* generation and lease, and the three ways to settle one                  *)
(* (src/worker/run-once.ts); module JobQueue has the rest.                 *)
(***************************************************************************)
EXTENDS Naturals, FiniteSets

CONSTANTS
  Workers,      \* passes of the worker that overlap
  MaxAttempts,  \* MAX_JOB_ATTEMPTS
  Budget,       \* bound: crashes and lost Redis leases
  Errors,       \* bound: recording statements that fail
  Aborts,       \* bound: passes that reach their time limit or drain
  Pauses        \* bound: database leases that run out under a running handler

WebhookDeliveryAssumption ==
  /\ MaxAttempts \in Nat \ {0}
  /\ Budget \in Nat /\ Errors \in Nat /\ Aborts \in Nat /\ Pauses \in Nat

VARIABLES
  job,          \* the row of jobs
  delivery,     \* the row of webhook_deliveries
  webhook,      \* the state of the webhook
  worker,       \* worker[w]: the locals of the handler and of its pass
  successes,    \* history: how often the destination answered 2xx
  budget, errors, aborts, pauses

vars == <<job, delivery, webhook, worker, successes, budget, errors, aborts, pauses>>

-----------------------------------------------------------------------------

Outcome == {"none", "ok", "http", "transport"}
Verdict == {"none", "done", "retry", "permanent"}

Job == [state : {"queued", "running", "completed", "dead_letter"},
        attempts : Nat, gen : Nat, live : BOOLEAN]

Delivery == [attempt : Nat,
             completed : BOOLEAN,    \* completed_at
             retry : BOOLEAN,        \* next_retry_at
             failed : BOOLEAN]       \* redacted_error

WorkerState == [phase : {"idle", "start", "cancel", "post", "record", "settle"},
                attempts : Nat, gen : Nat, aborted : BOOLEAN,
                outcome : Outcome, verdict : Verdict]

IdleWorker == [phase |-> "idle", attempts |-> 0, gen |-> 0, aborted |-> FALSE,
               outcome |-> "none", verdict |-> "none"]

\* enqueueEvent commits the delivery and its job in one transaction.
Init ==
  /\ job = [state |-> "queued", attempts |-> 0, gen |-> 0, live |-> FALSE]
  /\ delivery = [attempt |-> 1, completed |-> FALSE, retry |-> FALSE, failed |-> FALSE]
  /\ webhook = "active"
  /\ worker = [w \in Workers |-> IdleWorker]
  /\ successes = 0
  /\ budget = Budget /\ errors = Errors /\ aborts = Aborts /\ pauses = Pauses

Bounds == <<budget, errors, aborts, pauses>>
Spend == budget > 0 /\ budget' = budget - 1 /\ UNCHANGED <<errors, aborts, pauses>>

Set(w, s) == worker' = [worker EXCEPT ![w] = s]
Conclude(w, v) == Set(w, [worker[w] EXCEPT !.phase = "settle", !.verdict = v])

-----------------------------------------------------------------------------
(* The queue hands the job to a pass. *)

\* Mutant: the job of a pass that died is never claimed again.
ClaimableMutant == job.state = "queued"

Claimable == job.state = "queued" \/ (job.state = "running" /\ ~job.live)

Claim(w) ==
  /\ worker[w].phase = "idle"
  /\ Claimable
  /\ job' = [state |-> "running", attempts |-> job.attempts + 1,
             gen |-> job.gen + 1, live |-> TRUE]
  /\ Set(w, [IdleWorker EXCEPT !.phase = "start", !.attempts = job.attempts + 1,
                               !.gen = job.gen + 1])
  /\ UNCHANGED <<delivery, webhook, successes, Bounds>>

Abort(w) ==
  /\ worker[w].phase # "idle"
  /\ ~worker[w].aborted
  /\ aborts > 0
  /\ aborts' = aborts - 1
  /\ Set(w, [worker[w] EXCEPT !.aborted = TRUE])
  /\ UNCHANGED <<job, delivery, webhook, successes, budget, errors, pauses>>

-----------------------------------------------------------------------------
(* createWebhookDeliveryHandler. *)

HasScheduledRetry == delivery.completed /\ delivery.retry /\ delivery.failed

\* Mutant: a delivery that is completed is sent again.
RepeatedMutant(w) == FALSE

\* Mutant: a scheduled retry is not looked at.
RepeatedOnceMutant(w) == delivery.completed

\* The claim repeats an attempt whose outcome is recorded.
Repeated(w) ==
  /\ delivery.completed
  /\ ~HasScheduledRetry \/ worker[w].attempts <= delivery.attempt

\* The rows are read; nothing locks them.
Start(w) ==
  /\ worker[w].phase = "start"
  /\ \/ webhook = "disabled" /\ Set(w, [worker[w] EXCEPT !.phase = "cancel"])
     \/ webhook = "active" /\ Repeated(w) /\ Conclude(w, "done")
     \/ webhook = "active" /\ ~Repeated(w) /\ worker[w].aborted /\ Conclude(w, "retry")
     \/ /\ webhook = "active" /\ ~Repeated(w) /\ ~worker[w].aborted
        /\ Set(w, [worker[w] EXCEPT !.phase = "post"])
  /\ UNCHANGED <<job, delivery, webhook, successes, Bounds>>

\* terminalizeDisabledDelivery
CancelDelivery(w) ==
  /\ worker[w].phase = "cancel"
  /\ delivery' = IF ~delivery.completed \/ delivery.retry
                   THEN [delivery EXCEPT !.completed = TRUE, !.retry = FALSE, !.failed = TRUE]
                   ELSE delivery
  /\ Conclude(w, "done")
  /\ UNCHANGED <<job, webhook, successes, Bounds>>

\* The request: an answer, or an address, connection or five second timeout error.
Post(w) ==
  /\ worker[w].phase = "post"
  /\ \E o \in Outcome \ {"none"} :
       /\ Set(w, [worker[w] EXCEPT !.phase = "record", !.outcome = o])
       /\ successes' = IF o = "ok" THEN successes + 1 ELSE successes
  /\ UNCHANGED <<job, delivery, webhook, Bounds>>

\* Mutant: the last attempt leaves a retry behind.
RetriesMutant(w) == TRUE

\* deliveryRetryDelayMs is not null.
Retries(w) == worker[w].attempts < MaxAttempts

Recorded(w) ==
  LET failed == worker[w].outcome # "ok"
  IN  [attempt |-> worker[w].attempts, completed |-> TRUE,
       retry |-> failed /\ Retries(w), failed |-> failed]

Record(w) ==
  /\ worker[w].phase = "record"
  /\ delivery' = Recorded(w)
  /\ Conclude(w, IF worker[w].outcome = "ok" THEN "done"
                 ELSE IF Retries(w) THEN "retry" ELSE "permanent")
  /\ UNCHANGED <<job, webhook, successes, Bounds>>

\* The statement fails, before or after its commit.  The handler takes it for a
\* transport failure and records that; if this fails, the job is retried.
RecordErrs(w) ==
  /\ worker[w].phase = "record"
  /\ errors > 0
  /\ errors' = errors - 1
  /\ delivery' \in {delivery, Recorded(w)}
  /\ IF worker[w].outcome = "transport"
       THEN Conclude(w, "retry")
       ELSE Set(w, [worker[w] EXCEPT !.outcome = "transport"])
  /\ UNCHANGED <<job, webhook, successes, budget, aborts, pauses>>

-----------------------------------------------------------------------------
(* The pass settles the claim. *)

Owns(w) == job.state = "running" /\ job.gen = worker[w].gen /\ job.live

\* Deferring a claim takes its attempt back.
Deferred == [job EXCEPT !.state = "queued", !.attempts = job.attempts - 1, !.live = FALSE]
Ended(s) == [job EXCEPT !.state = s, !.live = FALSE]

Settled(w) ==
  CASE worker[w].aborted -> Deferred
    [] ~worker[w].aborted /\ worker[w].verdict = "done" -> Ended("completed")
    [] ~worker[w].aborted /\ worker[w].verdict = "permanent" -> Ended("dead_letter")
    [] ~worker[w].aborted /\ worker[w].verdict = "retry" ->
         Ended(IF worker[w].attempts >= MaxAttempts THEN "dead_letter" ELSE "queued")

Settle(w) ==
  /\ worker[w].phase = "settle"
  /\ job' = IF Owns(w) THEN Settled(w) ELSE job
  /\ Set(w, IdleWorker)
  /\ UNCHANGED <<delivery, webhook, successes, Bounds>>

\* The renewal before the completion fails: lease_lost.
RenewFails(w) ==
  /\ worker[w].phase = "settle"
  /\ worker[w].verdict = "done"
  /\ Spend
  /\ job' = IF Owns(w) THEN Deferred ELSE job
  /\ Set(w, IdleWorker)
  /\ UNCHANGED <<delivery, webhook, successes>>

Crash(w) ==
  /\ worker[w].phase # "idle"
  /\ Spend
  /\ Set(w, IdleWorker)
  /\ UNCHANGED <<job, delivery, webhook, successes>>

Tended == \E w \in Workers : worker[w].phase # "idle" /\ worker[w].gen = job.gen

LeaseExpires ==
  /\ job.state = "running"
  /\ job.live
  /\ \/ ~Tended /\ UNCHANGED pauses
     \/ Tended /\ pauses > 0 /\ pauses' = pauses - 1
  /\ job' = [job EXCEPT !.live = FALSE]
  /\ UNCHANGED <<delivery, webhook, worker, successes, budget, errors, aborts>>

\* An administrator disables the webhook.
Disable ==
  /\ webhook = "active"
  /\ webhook' = "disabled"
  /\ UNCHANGED <<job, delivery, worker, successes, Bounds>>

-----------------------------------------------------------------------------

Step(w) == Start(w) \/ CancelDelivery(w) \/ Post(w) \/ Record(w) \/ Settle(w)

Next ==
  \/ \E w \in Workers :
       Claim(w) \/ Abort(w) \/ Step(w) \/ RecordErrs(w) \/ RenewFails(w) \/ Crash(w)
  \/ LeaseExpires
  \/ Disable

Spec == Init /\ [][Next]_vars

(***************************************************************************)
(* Fairness.  A handler that is not cut off goes on (a request ends within *)
(* five seconds), the worker polls for claimable jobs, and a lease nobody  *)
(* renews runs out.                                                        *)
(***************************************************************************)
Fairness ==
  /\ \A w \in Workers : WF_vars(Step(w))
  /\ WF_vars(\E w \in Workers : Claim(w))
  /\ WF_vars(~Tended /\ LeaseExpires)

FairSpec == Spec /\ Fairness

-----------------------------------------------------------------------------
(* Properties. *)

\* Every variable has the shape of its row or local variable; a retry is
\* scheduled only for an attempt that has failed and is not the last.
TypeOK ==
  /\ job \in Job
  /\ delivery \in Delivery
  /\ delivery.retry =>
       delivery.completed /\ delivery.failed /\ delivery.attempt < MaxAttempts
  /\ webhook \in {"active", "disabled"}
  /\ worker \in [Workers -> WorkerState]
  /\ successes \in Nat
  /\ budget \in Nat /\ errors \in Nat /\ aborts \in Nat /\ pauses \in Nat

\* The destination accepts the event once, and once more for every crash,
\* failed statement or lost lease that kept the acceptance from being recorded;
\* a pass that reaches its time limit is no reason to send it again.
SuccessesBounded ==
  successes <= 1 + (Budget - budget) + (Errors - errors) + (Pauses - pauses)

\* No delivery is left waiting for a retry that its job will never make.
NoStrandedRetry ==
  job.state \in {"completed", "dead_letter"} => ~delivery.retry

\* The same while no pass was cut off by its time limit or a drain, none ran on past
\* its lease and every outcome could be recorded: crashes and lost leases alone do not
\* make a retry look like a duplicate.
RetriesAreMade ==
  aborts = Aborts /\ errors = Errors /\ pauses = Pauses => NoStrandedRetry

\* The job comes to its end, and unless a recording statement failed it leaves a
\* recorded outcome.
DeliverySettles ==
  <>[](/\ job.state \in {"completed", "dead_letter"}
       /\ errors = Errors => delivery.completed)

\* The event is neither accepted more often than its disturbances account for, nor is a
\* retry of it lost without one of the three that can lose it.
DeliveriesAreExact == SuccessesBounded /\ RetriesAreMade

-----------------------------------------------------------------------------
(* The inductive invariant of WebhookDeliveryProofs. *)

\* Claims are counted, and a pass that works has one of its own.
ClaimsOK ==
  /\ job.live => job.state = "running"
  /\ job.state = "running" => job.attempts >= 1
  /\ budget <= Budget /\ errors <= Errors /\ pauses <= Pauses /\ aborts <= Aborts
  /\ \A w \in Workers :
       /\ worker[w].phase # "idle" => worker[w].gen <= job.gen
       /\ worker[w].phase = "settle" => worker[w].verdict # "none"
  /\ \A v, w \in Workers :
       (worker[v].phase # "idle" /\ worker[w].phase # "idle" /\ worker[v].gen = worker[w].gen)
         => v = w

\* The handler may still send the event, or record that it was not accepted.
MayReopen(w) ==
  worker[w].phase \in {"start", "post"} \/ (worker[w].phase = "record" /\ worker[w].outcome # "ok")

Stale == {w \in Workers : MayReopen(w) /\ ~Owns(w)}

\* One acceptance is still to be expected from the job's own claims.
Owing ==
  /\ \A w \in Workers :
       (Owns(w) /\ worker[w].phase = "record") => worker[w].outcome # "ok"
  /\ \/ ~delivery.completed \/ delivery.retry
     \/ \E w \in Workers : Owns(w) /\ worker[w].phase \in {"post", "record"}

Spent == (Budget - budget) + (Errors - errors) + (Pauses - pauses)

\* Each handler that lost its claim was paid for, and may bring one more acceptance.
AcceptancesOK ==
  /\ IsFiniteSet(Stale)
  /\ successes + Cardinality(Stale) + (IF Owing THEN 1 ELSE 0) <= 1 + Spent

Undisturbed == aborts = Aborts /\ errors = Errors /\ pauses = Pauses

\* A scheduled retry is of an attempt that the next claim will exceed.
RetryOK ==
  /\ \A w \in Workers :
       worker[w].phase # "idle" =>
         Owns(w) /\ ~worker[w].aborted /\ worker[w].attempts = job.attempts
  /\ delivery.retry =>
       /\ job.state \in {"queued", "running"} /\ delivery.attempt <= job.attempts
       /\ \A w \in Workers :
            /\ worker[w].phase \in {"start", "cancel", "post", "record"} =>
                 delivery.attempt < worker[w].attempts
            /\ worker[w].phase = "settle" =>
                 worker[w].verdict = "retry" /\ worker[w].attempts < MaxAttempts

IInv == TypeOK /\ ClaimsOK /\ AcceptancesOK /\ (Undisturbed => RetryOK)

=============================================================================
