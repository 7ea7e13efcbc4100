------------------------------ MODULE JobQueue ------------------------------
(***************************************************************************)
(* The durable job queue: the rows of the PostgreSQL table "jobs"          *)
(* (src/modules/jobs/repository.ts), the short Redis lease beside each row *)
(* (src/modules/jobs/lease.ts) and any number of worker passes             *)
(* (src/worker/run-once.ts) that claim, run and settle jobs.               *)
(*                                                                         *)
(* One action per awaited call of a pass; a database transaction or a      *)
(* Redis command is atomic.  Clocks are abstracted: a lease is live or     *)
(* not, a queued row is due or not, and steps of the environment change    *)
(* that.  Everything that makes an attempt fruitless without consuming it  *)
(* (a crash, an abort, a lost reply, a lease that expires under its owner, *)
(* a yielded slice, a reopened cleanup) is drawn from a budget, so that    *)
(* runs are finite and liveness means "once the disturbances are over".    *)
(***************************************************************************)
EXTENDS Integers, FiniteSets

CONSTANTS
  Jobs,          \* job rows
  CleanupJobs,   \* those of kind file_cleanup, which the reconciler reopens
  CancelJobs,    \* those of kind ai_execute, which a user may cancel
  Passes,        \* worker passes that can be active at the same time
  None,          \* SQL NULL, an absent Redis key
  Gone,          \* the identity of a pass that has ended: a UUID never used again
  Limit,         \* MAX_RUN_ONCE_JOBS: rows claimed by a pass
  MaxAttempts,   \* MAX_JOB_ATTEMPTS
  Budget         \* bound: disturbances in one behaviour

ASSUME JobQueueAssumption ==
  /\ IsFiniteSet(Jobs)
  /\ CleanupJobs \subseteq Jobs
  /\ CancelJobs \subseteq Jobs
  /\ None \notin Passes \cup {Gone} \cup [job : Jobs, gen : Nat, attempts : Nat]
  /\ Gone \notin Passes
  /\ Limit \in Nat \ {0}
  /\ MaxAttempts \in Nat \ {0}
  /\ Budget \in Nat

VARIABLES
  row,           \* row[j]: the row of job j
  redis,         \* redis[j]: the token under the lease key of j, or None
  pass,          \* pass[p]: the local state of runJobsOnce in pass p
  ran,           \* ran[j]: history, the claim generations whose handler ended well
  budget         \* disturbances left

vars == <<row, redis, pass, ran, budget>>

-----------------------------------------------------------------------------
(* Rows, claims and passes. *)

Terminal == {"completed", "dead_letter"}
Tokens == Passes \cup {None, Gone}

Row ==
  [state : {"absent", "queued", "running"} \cup Terminal,
   attempts : Nat,          \* attempt_count
   gen : Nat,               \* claim_generation
   owner : Tokens,          \* lease_owner
   live : BOOLEAN,          \* lease_expires_at > clock_timestamp()
   due : BOOLEAN]           \* scheduled_at <= clock_timestamp()

\* The part of a returned row that runJobsOnce keeps using: a snapshot.
Claimed == [job : Jobs, gen : Nat, attempts : Nat]

Phases == {"idle", "reconcile", "claim", "loop", "unleased", "handler",
           "renewRedis", "renewDb", "complete", "settle", "release"}
Verdicts == {"defer", "retry", "exhausted", "permanent"}

NoClaim == None
PassState ==
  [phase : Phases,
   batch : SUBSET Claimed,                 \* claimed rows not yet looked at
   cur : Claimed \cup {NoClaim},           \* the row being worked on
   aborted : BOOLEAN,                      \* runController.signal.aborted
   ended : BOOLEAN,                        \* the handler has returned
   verdict : Verdicts]                     \* what the catch block decided

IdlePass == [phase |-> "idle", batch |-> {}, cur |-> NoClaim,
             aborted |-> FALSE, ended |-> FALSE, verdict |-> "defer"]

Init ==
  /\ row = [j \in Jobs |-> [state |-> "absent", attempts |-> 0, gen |-> 0,
                            owner |-> None, live |-> FALSE, due |-> FALSE]]
  /\ redis = [j \in Jobs |-> None]
  /\ pass = [p \in Passes |-> IdlePass]
  /\ ran = [j \in Jobs |-> {}]
  /\ budget = Budget

Spend(n) == n <= budget /\ budget' = budget - n

\* Row j becomes r; the local state of pass p becomes s.
SetRow(j, r) == row' = [row EXCEPT ![j] = r]
SetPass(p, s) == pass' = [pass EXCEPT ![p] = s]
Goto(p, ph) == SetPass(p, [pass[p] EXCEPT !.phase = ph])

-----------------------------------------------------------------------------
(* The statements of repository.ts, as functions on a row. *)

\* (Definitions named ...Mutant are faulty variants, used by nothing here.)

\* Mutant: the clock is not compared.
OwnsRowExpiredMutant(p, c) ==
  /\ row[c.job].state = "running"
  /\ row[c.job].owner = p
  /\ row[c.job].gen = c.gen

\* The WHERE clause shared by completeClaim, failClaim, deferClaim, renewClaim.
OwnsRow(p, c) ==
  /\ row[c.job].state = "running"
  /\ row[c.job].owner = p
  /\ row[c.job].gen = c.gen
  /\ row[c.job].live

\* Mutant: rows whose worker died are not picked up again.
ClaimableMutant(j) == row[j].state = "queued" /\ row[j].due

Claimable(j) ==
  \/ row[j].state = "queued" /\ row[j].due
  \/ row[j].state = "running" /\ ~row[j].live

ClaimedRow(r, p) ==
  [r EXCEPT !.state = "running", !.attempts = r.attempts + 1,
            !.gen = r.gen + 1, !.owner = p, !.live = TRUE]

\* Mutant: the lease columns are not reset.
ReleasedRowMutant(r, s) == [r EXCEPT !.state = s]

ReleasedRow(r, s) == [r EXCEPT !.state = s, !.owner = None, !.live = FALSE]

CompletedRow(r) == ReleasedRow(r, "completed")

DeadRow(r) == [ReleasedRow(r, "dead_letter") EXCEPT !.due = TRUE]

RetriedRow(r) == [ReleasedRow(r, "queued") EXCEPT !.due = FALSE]

DeferredRow(r) ==
  [RetriedRow(r) EXCEPT !.attempts = IF r.attempts > 0 THEN r.attempts - 1 ELSE 0]

RequeuedRow(r, d) ==
  [ReleasedRow(r, "queued") EXCEPT !.attempts = 0, !.due = d]

\* What a settled row becomes, by the verdict of the catch block.
SettledRow(r, v) ==
  CASE v = "defer" -> DeferredRow(r)
    [] v = "retry" -> RetriedRow(r)
    [] v \in {"exhausted", "permanent"} -> DeadRow(r)

-----------------------------------------------------------------------------
(* Other code that writes job rows. *)

\* enqueue: an existing row is left as it is, so only the first call counts.
Enqueue(j, d) ==
  /\ row[j].state = "absent"
  /\ SetRow(j, [row[j] EXCEPT !.state = "queued", !.due = d])
  /\ UNCHANGED <<redis, pass, ran, budget>>

\* The clock reaches scheduled_at, or scheduleQueuedEarlier moves it.
BecomeDue(j) ==
  /\ row[j].state = "queued"
  /\ ~row[j].due
  /\ SetRow(j, [row[j] EXCEPT !.due = TRUE])
  /\ UNCHANGED <<redis, pass, ran, budget>>

\* Mutant: a job in any state is cancelled.
CancelMutant(j) ==
  /\ j \in CancelJobs
  /\ row[j].state # "absent"
  /\ SetRow(j, ReleasedRow(row[j], "dead_letter"))
  /\ UNCHANGED <<redis, pass, ran, budget>>

\* cancelRun of the AI repository: only a job no worker has claimed.
Cancel(j) ==
  /\ j \in CancelJobs
  /\ row[j].state = "queued"
  /\ SetRow(j, ReleasedRow(row[j], "dead_letter"))
  /\ UNCHANGED <<redis, pass, ran, budget>>

-----------------------------------------------------------------------------
(* A pass of runJobsOnce. *)

\* The pass ends: its UUID will never be presented again.
Retire(f, p) == [j \in Jobs |-> IF f[j] = p THEN Gone ELSE f[j]]
RetireRows(p) ==
  [j \in Jobs |-> IF row[j].owner = p THEN [row[j] EXCEPT !.owner = Gone] ELSE row[j]]
End(p) ==
  /\ SetPass(p, IdlePass)
  /\ row' = RetireRows(p)
  /\ redis' = Retire(redis, p)

Start(p) ==
  /\ pass[p].phase = "idle"
  /\ Goto(p, "reconcile")
  /\ UNCHANGED <<row, redis, ran, budget>>

\* The deadline of the pass or a drain of the process.
Abort(p) ==
  /\ pass[p].phase # "idle"
  /\ ~pass[p].aborted
  /\ Spend(1)
  /\ SetPass(p, [pass[p] EXCEPT !.aborted = TRUE])
  /\ UNCHANGED <<row, redis, ran>>

EndAborted(p) ==
  /\ pass[p].phase \in {"reconcile", "claim"}
  /\ pass[p].aborted
  /\ End(p)
  /\ UNCHANGED <<ran, budget>>

\* reconcileFileCleanupJobs reopens cleanups whose objects still need one.
Reconcile(p, R) ==
  /\ pass[p].phase = "reconcile"
  /\ ~pass[p].aborted
  /\ \A j \in R : j \in CleanupJobs /\ row[j].state \in Terminal
  /\ Spend(Cardinality(R))
  /\ row' = [j \in Jobs |-> IF j \in R THEN RequeuedRow(row[j], TRUE) ELSE row[j]]
  /\ Goto(p, "claim")
  /\ UNCHANGED <<redis, ran>>

\* Mutant: the snapshot is the candidate as it was selected, before the update.
SnapshotMutant(j) ==
  [job |-> j, gen |-> row[j].gen + 1, attempts |-> row[j].attempts]

\* What UPDATE ... RETURNING hands to the pass.
Snapshot(j) ==
  [job |-> j, gen |-> row[j].gen + 1, attempts |-> row[j].attempts + 1]

\* claimDue.  Rows that another transaction has locked are skipped.
Claim(p, C) ==
  /\ pass[p].phase = "claim"
  /\ ~pass[p].aborted
  /\ \A j \in C : Claimable(j)
  /\ Cardinality(C) <= Limit
  /\ \/ /\ \/ Cardinality(C) = Limit
           \/ \A j \in Jobs : Claimable(j) => j \in C
        /\ UNCHANGED budget
     \/ /\ Cardinality(C) < Limit
        /\ \E j \in Jobs \ C : Claimable(j)
        /\ Spend(1)
  /\ row' = [j \in Jobs |-> IF j \in C THEN ClaimedRow(row[j], p) ELSE row[j]]
  /\ SetPass(p, [pass[p] EXCEPT !.phase = "loop",
                               !.batch = {Snapshot(j) : j \in C}])
  /\ UNCHANGED <<redis, ran>>

\* The for loop is over: the summary is returned.
Finish(p) ==
  /\ pass[p].phase = "loop"
  /\ pass[p].batch = {}
  /\ End(p)
  /\ UNCHANGED <<ran, budget>>

Take(p, c, ph) ==
  SetPass(p, [pass[p] EXCEPT !.phase = ph, !.batch = pass[p].batch \ {c},
                             !.cur = c, !.ended = FALSE, !.verdict = "defer"])

BackToLoop(p) == SetPass(p, [pass[p] EXCEPT !.phase = "loop", !.cur = NoClaim])

\* The row being worked on becomes r, if the claim still owns it.
SetOwnedRow(p, r) ==
  row' = IF OwnsRow(p, pass[p].cur) THEN [row EXCEPT ![pass[p].cur.job] = r] ELSE row
CurRow(p) == row[pass[p].cur.job]

\* The pass was aborted: the next row is deferred without being run.
SkipAborted(p, c) ==
  /\ pass[p].phase = "loop"
  /\ c \in pass[p].batch
  /\ pass[p].aborted
  /\ Take(p, c, "unleased")
  /\ UNCHANGED <<row, redis, ran, budget>>

Acquire(p, c) ==
  /\ pass[p].phase = "loop"
  /\ c \in pass[p].batch
  /\ ~pass[p].aborted
  /\ redis[c.job] = None
  /\ redis' = [redis EXCEPT ![c.job] = p]
  /\ Take(p, c, "handler")
  /\ UNCHANGED <<row, ran, budget>>

\* The key is held, or the command fails, possibly after it took effect.
AcquireFails(p, c) ==
  /\ pass[p].phase = "loop"
  /\ c \in pass[p].batch
  /\ ~pass[p].aborted
  /\ Spend(1)
  /\ redis' \in {redis, [redis EXCEPT ![c.job] = IF @ = None THEN p ELSE @]}
  /\ Take(p, c, "unleased")
  /\ UNCHANGED <<row, ran>>

\* Mutant: the loop goes on without deferring the row.
DeferUnleasedMutant(p) ==
  /\ pass[p].phase = "unleased"
  /\ BackToLoop(p)
  /\ UNCHANGED <<row, redis, ran, budget>>

\* deferJob, outside the try block: no release follows.
DeferUnleased(p) ==
  /\ pass[p].phase = "unleased"
  /\ SetOwnedRow(p, DeferredRow(CurRow(p)))
  /\ BackToLoop(p)
  /\ UNCHANGED <<redis, ran, budget>>

\* The catch block: the abort signal is looked at first, then the error; the
\* attempt number is the one read when the row was claimed.
Verdict(p, err) ==
  IF pass[p].aborted \/ err \in {"slice", "lease_lost"} THEN "defer"
  ELSE IF err = "permanent" THEN "permanent"
  ELSE IF pass[p].cur.attempts >= MaxAttempts THEN "exhausted" ELSE "retry"

Catch(p, err) ==
  SetPass(p, [pass[p] EXCEPT !.phase = "settle", !.verdict = Verdict(p, err)])

\* The handler calls context.renewLease between two of its own steps.
HandlerRenews(p) ==
  /\ pass[p].phase = "handler"
  /\ Goto(p, "renewRedis")
  /\ UNCHANGED <<row, redis, ran, budget>>

\* The handler ends its work, with or without noticing an abort.
HandlerEnds(p) ==
  /\ pass[p].phase = "handler"
  /\ LET c == pass[p].cur IN
       ran' = [ran EXCEPT ![c.job] = ran[c.job] \cup {c.gen}]
  /\ IF pass[p].aborted
       THEN Catch(p, "lease_lost")
       ELSE SetPass(p, [pass[p] EXCEPT !.phase = "renewRedis", !.ended = TRUE])
  /\ UNCHANGED <<row, redis, budget>>

\* The handler throws: a dependency failed, the input is invalid, ...
HandlerThrows(p, err) ==
  /\ pass[p].phase = "handler"
  /\ err \in {"retryable", "permanent"}
  /\ Catch(p, err)
  /\ UNCHANGED <<row, redis, ran, budget>>

\* ... or its own transaction finds that the claim is no longer the current one ...
HandlerLosesLease(p) ==
  /\ pass[p].phase = "handler"
  /\ ~OwnsRow(p, pass[p].cur)
  /\ Catch(p, "lease_lost")
  /\ UNCHANGED <<row, redis, ran, budget>>

\* ... or it has done a slice of its work and asks to be called again.
HandlerYields(p) ==
  /\ pass[p].phase = "handler"
  /\ Spend(1)
  /\ Catch(p, "slice")
  /\ UNCHANGED <<row, redis, ran>>

\* renewLease, first half: aborted, or the Redis key is no longer ours.
RenewRedis(p) ==
  /\ pass[p].phase = "renewRedis"
  /\ IF ~pass[p].aborted /\ redis[pass[p].cur.job] = p
       THEN Goto(p, "renewDb")
       ELSE Catch(p, "lease_lost")
  /\ UNCHANGED <<row, redis, ran, budget>>

\* Second half: renewClaim; after the handler has returned completeClaim follows.
RenewDb(p) ==
  /\ pass[p].phase = "renewDb"
  /\ IF OwnsRow(p, pass[p].cur)
       THEN Goto(p, IF pass[p].ended THEN "complete" ELSE "handler")
       ELSE Catch(p, "lease_lost")
  /\ UNCHANGED <<row, redis, ran, budget>>

\* completeClaim; a row that is not ours any more is counted as deferred.
Complete(p) ==
  /\ pass[p].phase = "complete"
  /\ SetOwnedRow(p, CompletedRow(CurRow(p)))
  /\ Goto(p, "release")
  /\ UNCHANGED <<redis, ran, budget>>

\* safeReferences rejects what the handler returned.
BadReferences(p) ==
  /\ pass[p].phase = "complete"
  /\ Catch(p, "permanent")
  /\ UNCHANGED <<row, redis, ran, budget>>

\* The database fails, before or after completeClaim has committed.
CompleteErrs(p) ==
  /\ pass[p].phase = "complete"
  /\ Spend(1)
  /\ SetOwnedRow(p, CompletedRow(CurRow(p))) \/ UNCHANGED row
  /\ Catch(p, "retryable")
  /\ UNCHANGED <<redis, ran>>

\* deferClaim or failClaim of the catch block.
Settle(p) ==
  /\ pass[p].phase = "settle"
  /\ SetOwnedRow(p, SettledRow(CurRow(p), pass[p].verdict))
  /\ Goto(p, "release")
  /\ UNCHANGED <<redis, ran, budget>>

\* releaseLease: deletes the key only if it still holds this pass's token.
ReleasedKey(j, p) == IF redis[j] = p THEN None ELSE redis[j]

Release(p) ==
  /\ pass[p].phase = "release"
  /\ LET j == pass[p].cur.job IN redis' = [redis EXCEPT ![j] = ReleasedKey(j, p)]
  /\ BackToLoop(p)
  /\ UNCHANGED <<row, ran, budget>>

\* The process dies, or an exception leaves runJobsOnce: the rows and the
\* keys it still holds are left to expire.
Crash(p) ==
  /\ pass[p].phase # "idle"
  /\ Spend(1)
  /\ End(p)
  /\ UNCHANGED ran

-----------------------------------------------------------------------------
(* Time.  A lease that nobody tends expires for free; one that expires      *)
(* under the pass that still works with it is a disturbance.               *)

Held(p) == pass[p].batch \cup ({pass[p].cur} \ {NoClaim})

RowTended(j) == row[j].owner \in Passes

KeyTended(j) ==
  /\ redis[j] \in Passes
  /\ pass[redis[j]].phase \notin {"idle", "unleased"}
  /\ \E c \in Held(redis[j]) \ pass[redis[j]].batch : c.job = j

LeaseExpires(j) ==
  /\ row[j].state = "running"
  /\ row[j].live
  /\ IF RowTended(j) THEN Spend(1) ELSE UNCHANGED budget
  /\ SetRow(j, [row[j] EXCEPT !.live = FALSE])
  /\ UNCHANGED <<redis, pass, ran>>

RedisLeaseExpires(j) ==
  /\ redis[j] # None
  /\ IF KeyTended(j) THEN Spend(1) ELSE UNCHANGED budget
  /\ redis' = [redis EXCEPT ![j] = None]
  /\ UNCHANGED <<row, pass, ran>>

-----------------------------------------------------------------------------

HandlerOutcome(p) ==
  \/ HandlerEnds(p)
  \/ \E err \in {"retryable", "permanent"} : HandlerThrows(p, err)
  \/ HandlerLosesLease(p)

\* What a pass does when nothing disturbs it, in the order of the source.
Step(p) ==
  \/ EndAborted(p)
  \/ \E R \in SUBSET CleanupJobs : Reconcile(p, R)
  \/ \E C \in SUBSET Jobs : Claim(p, C)
  \/ Finish(p)
  \/ \E c \in pass[p].batch : SkipAborted(p, c) \/ Acquire(p, c)
  \/ DeferUnleased(p)
  \/ HandlerOutcome(p)
  \/ RenewRedis(p)
  \/ RenewDb(p)
  \/ Complete(p)
  \/ BadReferences(p)
  \/ Settle(p)
  \/ Release(p)

Disturb(p) ==
  \/ Abort(p)
  \/ Crash(p)
  \/ \E c \in pass[p].batch : AcquireFails(p, c)
  \/ HandlerYields(p)
  \/ CompleteErrs(p)

Next ==
  \/ \E j \in Jobs :
       \/ \E d \in BOOLEAN : Enqueue(j, d)
       \/ BecomeDue(j)
       \/ Cancel(j)
       \/ LeaseExpires(j)
       \/ RedisLeaseExpires(j)
  \/ \E p \in Passes :
       \/ Start(p)
       \/ Step(p)
       \/ HandlerRenews(p)
       \/ Disturb(p)

Spec == Init /\ [][Next]_vars

(***************************************************************************)
(* Fairness.  A pass keeps taking its next step unless it crashes, and     *)
(* run-continuous starts a new pass after each one.  A handler may renew   *)
(* its lease again and again but returns or throws in the end: that needs  *)
(* strong fairness.  Clocks advance, and leases nobody tends run out.      *)
(***************************************************************************)
Fairness ==
  /\ \A p \in Passes : WF_vars(Step(p)) /\ SF_vars(HandlerOutcome(p))
                         /\ WF_vars(Start(p))
  /\ \A j \in Jobs : WF_vars(BecomeDue(j))
                       /\ WF_vars(~RowTended(j) /\ LeaseExpires(j))
                       /\ WF_vars(~KeyTended(j) /\ RedisLeaseExpires(j))

FairSpec == Spec /\ Fairness

-----------------------------------------------------------------------------
(* Properties. *)

\* A row has a lease owner, and a lease, exactly while it is running.
LeaseColumnsAgree(r) ==
  /\ r.owner # None <=> r.state = "running"
  /\ r.live => r.state = "running"

\* Every variable has the shape of its column, key or local variable, and the
\* lease columns agree with the state in every row.
TypeOK ==
  /\ row \in [Jobs -> Row]
  /\ \A j \in Jobs : LeaseColumnsAgree(row[j])
  /\ redis \in [Jobs -> Tokens]
  /\ pass \in [Passes -> PassState]
  /\ ran \in [Jobs -> SUBSET Nat]
  /\ budget \in Nat

\* runJobsOnce decides between a retry and a dead letter with the attempt
\* number it read when it claimed the row, long before it settles it.  That
\* number is still the row's as long as the claim can settle the row, so the
\* decision is never taken on a stale count; and it is at least 1, so the
\* greatest(attempt_count - 1, 0) of deferClaim never swallows a refund.
SnapshotIsCurrent ==
  \A p \in Passes : \A c \in Held(p) :
    OwnsRow(p, c) => c.attempts = row[c.job].attempts /\ c.attempts >= 1

\* A live lease in the name of an active pass is on a row that pass still has
\* to settle: no path of the loop (a skipped row, a lost lease, a failed
\* renewal, a failed completion) forgets a row and leaves it blocked.
LeasesAreTended ==
  \A j \in Jobs :
    row[j].state = "running" /\ row[j].live /\ RowTended(j) =>
      /\ pass[row[j].owner].phase # "idle"
      /\ \E c \in Held(row[j].owner) :
           /\ c.job = j
           /\ c.gen = row[j].gen
           /\ pass[row[j].owner].phase = "release" => c # pass[row[j].owner].cur

\* A completed job's handler ran to its end under the claim that completed it,
\* not under an earlier claim that lost its lease.
CompletedWasHandled ==
  \A j \in Jobs : row[j].state = "completed" => row[j].gen \in ran[j]

\* A running row leaves that state only through the pass that claimed it last,
\* while its lease is live: a pass that lost its lease cannot complete, fail or
\* defer the work of the pass that took over.
FencedSettlement ==
  [][\A j \in Jobs :
       row[j].state = "running" /\ row'[j].state # "running" =>
         /\ row[j].live
         /\ \E p \in Passes :
              /\ row[j].owner = p
              /\ pass[p].cur # NoClaim
              /\ pass[p].cur.job = j
              /\ pass[p].cur.gen = row[j].gen
              /\ pass'[p] # pass[p]]_vars

\* An enqueued job is eventually completed or dead-lettered, whatever crashes,
\* aborts and lost leases came before.
Owed(j) == row[j].state = "queued"
JobSettled(j) == row[j].state \in Terminal

EveryJobSettles == \A j \in Jobs : Owed(j) ~> JobSettled(j)

-----------------------------------------------------------------------------
(* The inductive invariant of the proofs: what a pass knows about its claims. *)

\* The locals of runJobsOnce in each phase.
LocalsAgree(p) ==
  /\ pass[p].phase \in {"idle", "reconcile", "claim"} => pass[p].batch = {}
  /\ pass[p].cur = NoClaim <=> pass[p].phase \in {"idle", "reconcile", "claim", "loop"}
  /\ pass[p].phase = "complete" => pass[p].ended
  /\ pass[p].phase = "handler" => ~pass[p].ended

\* No snapshot is ahead of its row, and one that is up to date knows the row's
\* attempt number.
ClaimsAgree(p) ==
  \A c \in Held(p) :
    /\ c.gen <= row[c.job].gen
    /\ row[c.job].state = "running" /\ row[c.job].owner = p /\ row[c.job].gen = c.gen
         => c.attempts = row[c.job].attempts /\ c.attempts >= 1

\* Past its handler, a pass has a handler run to show for its current claim.
HandlerAgrees(p) ==
  pass[p].phase \in {"renewRedis", "renewDb", "complete"} /\ pass[p].ended
    => pass[p].cur.gen \in ran[pass[p].cur.job]

\* No handler has run under a claim that is still to come.
RunsArePast == \A j \in Jobs : \A g \in ran[j] : g <= row[j].gen

IInv ==
  /\ TypeOK
  /\ \A p \in Passes : LocalsAgree(p) /\ ClaimsAgree(p) /\ HandlerAgrees(p)
  /\ CompletedWasHandled
  /\ RunsArePast

-----------------------------------------------------------------------------
(* The queue implements the tasks of DurableTask: a claimed row is still a  *)
(* pending task, and work counts only under the row's current claim.        *)

TaskStatus(r) ==
  CASE r.state = "absent" -> "absent"
    [] r.state \in {"queued", "running"} -> "pending"
    [] r.state = "completed" -> "done"
    [] r.state = "dead_letter" -> "dead"

TaskHandled(j) ==
  /\ row[j].state \in {"running", "completed"}
  /\ row[j].gen \in ran[j]

Task == INSTANCE DurableTask WITH
          status <- [j \in Jobs |-> TaskStatus(row[j])],
          handled <- [j \in Jobs |-> TaskHandled(j)]

\* Every step of the queue is a step of the abstract task, or none.
ImplementsDurableTask == Task!Spec

=============================================================================
