-------------------------- MODULE ImportExecution --------------------------
(***************************************************************************)
(* One import: staging of its file, execution by a durable job, dead       *)
(* letter and retry (src/modules/imports, and the row transaction of       *)
(* src/modules/audit/transactions.ts).                                     *)
(*                                                                         *)
(* Requests with one idempotency key stage the file under a lease and a    *)
(* staging generation; a job then claims slices of rows and runs each row  *)
(* in a transaction of its own, fenced by the claim.  The queue is cut     *)
(* down to claims, leases and the ways to settle one; module JobQueue has  *)
(* the rest.  A worker holds one claim at a time, so the holder of a       *)
(* running job stands for its lease owner and claim generation.            *)
(***************************************************************************)
EXTENDS Naturals, FiniteSets, FiniteSetsExt

CONSTANTS
  Stagers,      \* concurrent prepareImport requests with one idempotency key
  Workers,      \* passes of the worker that overlap
  N,            \* rows of the file
  Limit,        \* IMPORT_ROW_BATCH_SIZE
  MaxAttempts,  \* MAX_JOB_ATTEMPTS
  MaxJobs,      \* bound: jobs of the import, the first start and the retries
  Budget,       \* bound: crashes, lost leases, errors, lost roles
  None

ImportExecutionAssumption ==
  /\ N \in Nat \ {0} /\ Limit \in Nat \ {0} /\ MaxAttempts \in Nat \ {0}
  /\ MaxJobs \in Nat \ {0} /\ Budget \in Nat
  /\ None \notin Workers \cup Stagers

VARIABLES
  file,        \* what parsing the file gives: its mode and its unusable rows
  imp,         \* the row of imports
  rows,        \* rows[g][n]: row n of staging generation g in import_rows
  applied,     \* history: how often the record of row n was written
  job,         \* job[j]: the j-th job of the import
  stager,      \* stager[s]: locals of prepareImport
  worker,      \* worker[w]: locals of executeImportJob and of its pass
  allowed,     \* the importer's role still has the permissions of the rows
  pinned,      \* file and mapping are as they were when the import was staged
  budget

vars == <<file, imp, rows, applied, job, stager, worker, allowed, pinned, budget>>

-----------------------------------------------------------------------------

Numbers == 1..N
Gens == 1..(Budget + 1)
Jobs == 1..MaxJobs

\* "unusable" is a row rejected when it was staged: it has no payload to run.
\* "stale" is a processing row last written more than JOB_LEASE_MS ago.
RowStates == {"absent", "pending", "processing", "stale", "succeeded",
              "rejected", "unusable"}
Processing == {"processing", "stale"}
Finished == {"completed", "completed_with_errors"}

Import ==
  [state : {"absent", "staging", "failed", "preview_ready", "queued", "running",
            "dead_letter"} \cup Finished,
   gen : {0} \cup Gens, owner : Stagers \cup {None}, live : BOOLEAN,
   job : {0} \cup Jobs, total : Nat, accepted : Nat, rejected : Nat]

Job == [state : {"absent", "queued", "running", "completed", "dead_letter"},
        attempts : Nat, holder : Workers \cup {None}, live : BOOLEAN]

Stager == [phase : {"idle", "insert", "fail", "finish"}, gen : {0} \cup Gens,
           next : 1..(N + 1)]

Verdicts == {"none", "defer", "fail", "permanent"}

Worker == [phase : {"idle", "claim", "rows", "finalize", "refresh", "complete",
                    "settle"},
           job : {0} \cup Jobs, attempts : Nat, slice : SUBSET Numbers,
           outcome : {"none", "succeeded", "rejected"}, verdict : Verdicts]

IdleStager == [phase |-> "idle", gen |-> 0, next |-> 1]
IdleWorker == [phase |-> "idle", job |-> 0, attempts |-> 0, slice |-> {},
               outcome |-> "none", verdict |-> "none"]

Init ==
  /\ file \in [mode : {"COMMIT", "DRY_RUN"}, unusable : SUBSET Numbers]
  /\ imp = [state |-> "absent", gen |-> 0, owner |-> None, live |-> FALSE,
            job |-> 0, total |-> 0, accepted |-> 0, rejected |-> 0]
  /\ rows = [g \in Gens |-> [n \in Numbers |-> "absent"]]
  /\ applied = [n \in Numbers |-> 0]
  /\ job = [j \in Jobs |-> [state |-> "absent", attempts |-> 0, holder |-> None,
                            live |-> FALSE]]
  /\ stager = [s \in Stagers |-> IdleStager]
  /\ worker = [w \in Workers |-> IdleWorker]
  /\ allowed = TRUE
  /\ pinned = TRUE
  /\ budget = Budget

Spend == budget > 0 /\ budget' = budget - 1

staging == <<stager>>
execution == <<applied, job, worker>>
outside == <<file, allowed, pinned>>

\* Rows of every generation: the statements of the executor do not name one.
Having(S) == {r \in Gens \X Numbers : rows[r[1]][r[2]] \in S}
MapRows(Op(_, _)) == [g \in Gens |-> [n \in Numbers |-> Op(g, n)]]

-----------------------------------------------------------------------------
(* prepareImport. *)

\* claimPrepare, one transaction under an advisory lock: the first claim
\* inserts the import, a later one takes over an expired lease or a failed
\* import that was never executed.  Otherwise the request waits, replays the
\* preview or gets a conflict, and nothing changes.
TakesOver ==
  \/ imp.state = "absent"
  \/ imp.state = "staging" /\ (imp.owner = None \/ ~imp.live)
  \/ imp.state = "failed" /\ imp.job = 0

ClaimPrepare(s) ==
  /\ stager[s].phase = "idle"
  /\ TakesOver
  /\ imp.gen + 1 \in Gens
  /\ imp' = [state |-> "staging", gen |-> imp.gen + 1, owner |-> s, live |-> TRUE,
             job |-> 0, total |-> 0, accepted |-> 0, rejected |-> 0]
  /\ stager' = [stager EXCEPT ![s] = [phase |-> "insert", gen |-> imp.gen + 1, next |-> 1]]
  /\ UNCHANGED <<rows, execution, outside, budget>>

OwnsStaging(s) == imp.state = "staging" /\ imp.gen = stager[s].gen /\ imp.owner = s

HoldsStaging(s) == OwnsStaging(s) /\ imp.live

\* insertPrepareRows with one flush per row, or, past the last row, the check of
\* the columns: renews the lease and inserts, or throws into the catch block.
InsertRow(s) ==
  /\ stager[s].phase = "insert"
  /\ LET n == stager[s].next IN
       IF n > N
         THEN /\ stager' = [stager EXCEPT ![s].phase = "finish"]
              /\ UNCHANGED rows
       ELSE IF HoldsStaging(s)
         THEN /\ rows' = [rows EXCEPT ![stager[s].gen][n] =
                            IF n \in file.unusable THEN "unusable" ELSE "pending"]
              /\ stager' = [stager EXCEPT ![s].next = n + 1]
       ELSE /\ stager' = [stager EXCEPT ![s].phase = "fail"]
            /\ UNCHANGED rows
  /\ UNCHANGED <<imp, execution, outside, budget>>

\* The object cannot be read or parsed.
ParseFails(s) ==
  /\ stager[s].phase = "insert"
  /\ Spend
  /\ stager' = [stager EXCEPT ![s].phase = "fail"]
  /\ UNCHANGED <<imp, rows, execution, outside>>

\* failPrepare: without a look at the lease, the rows of this generation go.
FailPrepare(s) ==
  /\ stager[s].phase = "fail"
  /\ IF OwnsStaging(s)
       THEN /\ imp' = [imp EXCEPT !.state = "failed", !.owner = None, !.live = FALSE]
            /\ rows' = [rows EXCEPT ![stager[s].gen] = [n \in Numbers |-> "absent"]]
       ELSE UNCHANGED <<imp, rows>>
  /\ stager' = [stager EXCEPT ![s] = IdleStager]
  /\ UNCHANGED <<execution, outside, budget>>

\* Mutant: what earlier generations left behind is kept.
KeptRowsMutant(g) == rows

\* finishPrepare deletes what earlier generations left behind.
KeptRows(g) == MapRows(LAMBDA h, n : IF h < g THEN "absent" ELSE rows[h][n])

FinishPrepare(s) ==
  /\ stager[s].phase = "finish"
  /\ LET g == stager[s].gen IN
       IF HoldsStaging(s) /\ \A n \in Numbers : rows[g][n] # "absent"
         THEN /\ rows' = KeptRows(g)
              /\ imp' = [imp EXCEPT !.state = "preview_ready", !.owner = None,
                                    !.live = FALSE, !.total = N,
                                    !.rejected = Cardinality(file.unusable)]
         ELSE UNCHANGED <<rows, imp>>
  /\ stager' = [stager EXCEPT ![s] = IdleStager]
  /\ UNCHANGED <<execution, outside, budget>>

\* The request dies with its process.
StagerCrash(s) ==
  /\ stager[s].phase # "idle"
  /\ Spend
  /\ stager' = [stager EXCEPT ![s] = IdleStager]
  /\ UNCHANGED <<imp, rows, execution, outside>>

StagingTended == stager[imp.owner].phase # "idle" /\ OwnsStaging(imp.owner)

StagingLeaseExpires ==
  /\ imp.live
  /\ IF StagingTended THEN Spend ELSE UNCHANGED budget
  /\ imp' = [imp EXCEPT !.live = FALSE]
  /\ UNCHANGED <<rows, staging, execution, outside>>

-----------------------------------------------------------------------------
(* startImport and retryImport: one transaction that locks the import's last *)
(* job and the import; the caller knows the import's current version.        *)

NextJob == imp.job + 1

Enqueue(i) ==
  /\ pinned
  /\ NextJob \in Jobs
  /\ job' = [job EXCEPT ![NextJob].state = "queued"]
  /\ imp' = [i EXCEPT !.state = "queued", !.job = NextJob]
  /\ UNCHANGED <<applied, staging, worker, outside, budget>>

StartImport ==
  /\ imp.state = "preview_ready"
  /\ Enqueue(imp)
  /\ UNCHANGED rows

PriorJobSettled == imp.job # 0 /\ job[imp.job].state \in {"completed", "dead_letter"}

\* Mutant: the rows that succeeded run again.
ResetMutant(r) == r \in {"rejected", "succeeded"}

\* resetExecutionRowsForRetry: rejected rows with a payload; after a dead
\* letter, also the rows its worker left in progress.
Reset(r) == r = "rejected" \/ (imp.state = "dead_letter" /\ r \in Processing)

RetryImport ==
  /\ imp.state \in {"dead_letter", "completed_with_errors"}
  /\ PriorJobSettled
  /\ Cardinality(Having(RowStates \ {"absent"})) = imp.total
  /\ imp.state = "completed_with_errors" => \E r \in RowStates : Reset(r) /\ Having({r}) # {}
  /\ rows' = MapRows(LAMBDA g, n : IF Reset(rows[g][n]) THEN "pending" ELSE rows[g][n])
  /\ Enqueue([imp EXCEPT !.accepted = Cardinality(Having({"succeeded"})),
                         !.rejected = Cardinality(Having({"unusable"}))])

-----------------------------------------------------------------------------
(* The worker: claimDue, the handler, and the settlement of runJobsOnce. *)

Owns(w) ==
  LET j == worker[w].job IN
    job[j].state = "running" /\ job[j].holder = w /\ job[j].live

Goto(w, ph) == worker' = [worker EXCEPT ![w].phase = ph]
Throw(w, v) == worker' = [worker EXCEPT ![w] =
                 [@ EXCEPT !.phase = "settle", !.verdict = v, !.slice = {},
                           !.outcome = "none"]]

ClaimDue(w) ==
  /\ worker[w].phase = "idle"
  /\ \E j \in Jobs :
       /\ \/ job[j].state = "queued"
          \/ job[j].state = "running" /\ ~job[j].live
       /\ job' = [job EXCEPT ![j] = [state |-> "running", attempts |-> @.attempts + 1,
                                     holder |-> w, live |-> TRUE]]
       /\ worker' = [worker EXCEPT ![w] = [IdleWorker EXCEPT
                       !.phase = "claim", !.job = j, !.attempts = job[j].attempts + 1]]
  /\ UNCHANGED <<imp, rows, applied, staging, outside, budget>>

\* Mutant: rows another worker left in progress stay so.
RecoveredMutant == rows

\* Rows another worker left in progress long ago are pending again.
Recovered == MapRows(LAMBDA g, n : IF rows[g][n] = "stale" THEN "pending" ELSE rows[g][n])

\* The pending rows with the lowest numbers.
Slice(R, g) ==
  {n \in Numbers : /\ R[g][n] = "pending"
                   /\ Cardinality({k \in 1..(n - 1) : R[g][k] = "pending"}) < Limit}

\* claimExecutionSlice.
ClaimSlice(w) ==
  /\ worker[w].phase = "claim"
  /\ IF ~Owns(w)
       THEN Throw(w, "defer") /\ UNCHANGED <<imp, rows>>
     ELSE IF imp.state \in Finished
       THEN Goto(w, "complete") /\ UNCHANGED <<imp, rows>>
     ELSE IF imp.job # worker[w].job \/ imp.state \notin {"queued", "running"}
       THEN Throw(w, "permanent") /\ UNCHANGED <<imp, rows>>
     ELSE LET S == Slice(Recovered, imp.gen) IN
          /\ imp' = [imp EXCEPT !.state = "running"]
          /\ rows' = MapRows(LAMBDA g, n : IF g = imp.gen /\ n \in S
                                             THEN "processing" ELSE Recovered[g][n])
          /\ worker' = [worker EXCEPT ![w].phase = "rows", ![w].slice = S]
  /\ UNCHANGED <<applied, job, staging, outside, budget>>

\* What the row transaction finds before it runs the row: the import runs under
\* this job, its creator still has the permissions, and the row is in progress.
RowIsLive(w, r) ==
  /\ imp.job = worker[w].job /\ imp.state = "running" /\ allowed
  /\ r \in Processing

NextRow(w, n) ==
  worker' = [worker EXCEPT ![w].phase = "rows", ![w].slice = worker[w].slice \ {n},
                           ![w].outcome = "none"]

Write(n, state, times) ==
  /\ rows' = [rows EXCEPT ![imp.gen][n] = state]
  /\ applied' = [applied EXCEPT ![n] = @ + times]

\* First pass of runDurableImportRowResearchTransaction.  Domain, audit and row
\* commit together; a rejection, and every row of a dry run, rolls back and
\* asks for a second transaction.
RunRow(w) ==
  /\ worker[w].phase = "rows"
  /\ worker[w].slice # {}
  /\ LET n == Min(worker[w].slice)
         r == rows[imp.gen][n] IN
     IF ~Owns(w)
       THEN Throw(w, "defer") /\ UNCHANGED <<rows, applied>>
     ELSE IF ~RowIsLive(w, r)
       THEN Throw(w, "fail") /\ UNCHANGED <<rows, applied>>
     ELSE \/ /\ file.mode = "COMMIT"
             /\ Write(n, "succeeded", 1)
             /\ NextRow(w, n)
          \/ \E o \in {"rejected"} \cup (IF file.mode = "DRY_RUN" THEN {"succeeded"} ELSE {}) :
               /\ worker' = [worker EXCEPT ![w].phase = "finalize", ![w].outcome = o]
               /\ UNCHANGED <<rows, applied>>
  /\ UNCHANGED <<imp, job, staging, outside, budget>>

\* The commit of the row takes effect and its answer is lost.
RowAnswerLost(w) ==
  /\ worker[w].phase = "rows"
  /\ worker[w].slice # {}
  /\ Owns(w)
  /\ file.mode = "COMMIT"
  /\ LET n == Min(worker[w].slice) IN
       RowIsLive(w, rows[imp.gen][n]) /\ Write(n, "succeeded", 1)
  /\ Spend
  /\ Throw(w, "fail")
  /\ UNCHANGED <<imp, job, staging, outside>>

\* Second pass: only the outcome of the row, after the same checks.
FinalizeRow(w) ==
  /\ worker[w].phase = "finalize"
  /\ LET n == Min(worker[w].slice) IN
     IF ~Owns(w)
       THEN Throw(w, "defer") /\ UNCHANGED <<rows, applied>>
     ELSE IF ~RowIsLive(w, rows[imp.gen][n])
       THEN Throw(w, "fail") /\ UNCHANGED <<rows, applied>>
     ELSE Write(n, worker[w].outcome, 0) /\ NextRow(w, n)
  /\ UNCHANGED <<imp, job, staging, outside, budget>>

Complete == Having({"pending"} \cup Processing) = {}

RejectedRows == Cardinality(Having({"rejected", "unusable"}))

\* refreshExecutionTotals, and what executeImportJob makes of it.
Refresh(w) ==
  /\ worker[w].phase = "rows"
  /\ worker[w].slice = {}
  /\ IF ~Owns(w)
       THEN Throw(w, "defer") /\ UNCHANGED imp
     ELSE IF imp.job # worker[w].job \/ imp.state # "running"
             \/ Cardinality(Having(RowStates \ {"absent"})) # imp.total
       THEN Throw(w, "permanent") /\ UNCHANGED imp
     ELSE /\ imp' = [imp EXCEPT
               !.accepted = Cardinality(Having({"succeeded"})),
               !.rejected = RejectedRows,
               !.state = IF ~Complete THEN "running"
                         ELSE IF RejectedRows > 0 THEN "completed_with_errors"
                         ELSE "completed"]
          /\ IF Complete THEN Goto(w, "complete") ELSE Throw(w, "defer")
  /\ UNCHANGED <<rows, applied, job, staging, outside, budget>>

\* The pass is aborted, renewLease fails, or a statement fails: the claim is
\* deferred or failed, as the catch block of runJobsOnce decides.
Interrupt(w) ==
  /\ worker[w].phase \in {"claim", "rows", "finalize", "complete"}
  /\ Spend
  /\ \E v \in {"defer", "fail"} : Throw(w, v)
  /\ UNCHANGED <<imp, rows, applied, job, staging, outside>>

\* Mutant: the lease columns are kept.
ReleasedMutant(j, s, a) == [job EXCEPT ![j].state = s, ![j].attempts = a]

Released(j, s, a) ==
  [job EXCEPT ![j] = [state |-> s, attempts |-> a, holder |-> None, live |-> FALSE]]

CompleteJob(w) ==
  /\ worker[w].phase = "complete"
  /\ job' = IF Owns(w) THEN Released(worker[w].job, "completed", job[worker[w].job].attempts)
                       ELSE job
  /\ worker' = [worker EXCEPT ![w] = IdleWorker]
  /\ UNCHANGED <<imp, rows, applied, staging, outside, budget>>

\* Mutant: the import of a dead-lettered job is left as it is.
DeadImportMutant(j) == imp

\* failClaim ends the linked import in the same transaction.
DeadImport(j) ==
  IF imp.job = j /\ imp.state \in {"queued", "running"}
    THEN [imp EXCEPT !.state = "dead_letter"] ELSE imp

Settle(w) ==
  /\ worker[w].phase = "settle"
  /\ LET j == worker[w].job
         a == job[j].attempts
         dead == \/ worker[w].verdict = "permanent"
                 \/ worker[w].verdict = "fail" /\ worker[w].attempts >= MaxAttempts IN
       IF ~Owns(w) THEN UNCHANGED <<job, imp>>
       ELSE IF dead THEN job' = Released(j, "dead_letter", a) /\ imp' = DeadImport(j)
       ELSE /\ job' = Released(j, "queued",
                               IF worker[w].verdict = "defer" /\ a > 0 THEN a - 1 ELSE a)
            /\ UNCHANGED imp
  /\ worker' = [worker EXCEPT ![w] = IdleWorker]
  /\ UNCHANGED <<rows, applied, staging, outside, budget>>

WorkerCrash(w) ==
  /\ worker[w].phase # "idle"
  /\ Spend
  /\ worker' = [worker EXCEPT ![w] = IdleWorker]
  /\ UNCHANGED <<imp, rows, applied, job, staging, outside>>

Tended(j) ==
  \E w \in Workers : job[j].holder = w /\ worker[w].phase # "idle" /\ worker[w].job = j

JobLeaseExpires(j) ==
  /\ job[j].live
  /\ IF Tended(j) THEN Spend ELSE UNCHANGED budget
  /\ job' = [job EXCEPT ![j].live = FALSE]
  /\ UNCHANGED <<imp, rows, applied, staging, worker, outside>>

\* More than JOB_LEASE_MS have passed since the row was taken; a worker that
\* renews its lease may still be at work on the slice.
RowAges(n) ==
  /\ imp.gen \in Gens
  /\ rows[imp.gen][n] = "processing"
  /\ rows' = [rows EXCEPT ![imp.gen][n] = "stale"]
  /\ UNCHANGED <<imp, execution, staging, outside, budget>>

\* The importer's role is changed, or the mapping edited.
RoleChanges ==
  /\ IF allowed THEN Spend ELSE UNCHANGED budget
  /\ allowed' = ~allowed
  /\ UNCHANGED <<file, imp, rows, execution, staging, pinned>>

MappingChanges ==
  /\ pinned
  /\ imp.state # "absent"
  /\ Spend
  /\ pinned' = FALSE
  /\ UNCHANGED <<file, imp, rows, execution, staging, allowed>>

-----------------------------------------------------------------------------

WorkerStep(w) ==
  ClaimSlice(w) \/ RunRow(w) \/ FinalizeRow(w) \/ Refresh(w) \/ CompleteJob(w) \/ Settle(w)

Next ==
  \/ \E s \in Stagers :
       ClaimPrepare(s) \/ InsertRow(s) \/ ParseFails(s) \/ FailPrepare(s)
         \/ FinishPrepare(s) \/ StagerCrash(s)
  \/ StagingLeaseExpires
  \/ StartImport
  \/ RetryImport
  \/ \E w \in Workers :
       ClaimDue(w) \/ WorkerStep(w) \/ RowAnswerLost(w) \/ Interrupt(w) \/ WorkerCrash(w)
  \/ \E j \in Jobs : JobLeaseExpires(j)
  \/ \E n \in Numbers : RowAges(n)
  \/ RoleChanges
  \/ MappingChanges

Spec == Init /\ [][Next]_vars

\* Passes follow one another and finish the step they are in; clocks advance.
Fairness ==
  /\ \A w \in Workers : WF_vars(ClaimDue(w)) /\ WF_vars(WorkerStep(w))
  /\ \A j \in Jobs : WF_vars(~Tended(j) /\ JobLeaseExpires(j))
  /\ \A n \in Numbers : WF_vars(RowAges(n))

FairSpec == Spec /\ Fairness

-----------------------------------------------------------------------------
(* Properties. *)

\* Every variable has the shape of its columns or locals; staging has an owner
\* with a lease, and an import an executing job, only in the states that need one.
TypeOK ==
  /\ file \in [mode : {"COMMIT", "DRY_RUN"}, unusable : SUBSET Numbers]
  /\ imp \in Import
  /\ imp.live => imp.state = "staging" /\ imp.owner # None
  /\ rows \in [Gens -> [Numbers -> RowStates]]
  /\ applied \in [Numbers -> Nat]
  /\ job \in [Jobs -> Job]
  /\ \A j \in Jobs : job[j].holder # None <=> job[j].state = "running"
  /\ stager \in [Stagers -> Stager]
  /\ worker \in [Workers -> Worker]
  /\ allowed \in BOOLEAN /\ pinned \in BOOLEAN
  /\ budget \in 0..Budget

\* The record of a row exists once if its row has succeeded in an import that
\* commits, and not at all otherwise: crashes, lost answers, stale rows taken
\* over by another worker, dead letters and retries neither repeat nor lose one.
RowsAppliedOnce ==
  \A n \in Numbers :
    applied[n] = IF file.mode = "COMMIT" /\ \E g \in Gens : rows[g][n] = "succeeded"
                 THEN 1 ELSE 0

\* Once staging has succeeded, the import's rows are exactly those of its last
\* generation, as many as total_rows says, whatever requests that lost their
\* lease inserted before: the executor's own count never fails.
StagedRowsAreExact ==
  imp.state \notin {"absent", "staging", "failed"} =>
    /\ Having(RowStates \ {"absent"}) = {imp.gen} \X Numbers
    /\ imp.total = N

\* A queued or running import is carried by a job that is not settled, and no
\* other job of the import is: it cannot be stranded by a dead letter, nor
\* retried while a worker still executes it.
ImportEndsWithJob ==
  \A j \in Jobs :
    /\ job[j].state \in {"queued", "running"}
         => imp.job = j /\ imp.state \in {"queued", "running"} \cup Finished
    /\ imp.job = j /\ imp.state \in {"queued", "running"}
         => job[j].state \in {"queued", "running"}

\* A started import ends, completed or dead-lettered, whatever workers died.
ImportSettles ==
  imp.state = "queued" ~> imp.state \in Finished \cup {"dead_letter"}

-----------------------------------------------------------------------------
(* The inductive invariant of ImportExecutionProofs. *)

Unstarted == {"absent", "staging", "failed", "preview_ready"}

\* Until it is started an import has no job and rows that nobody has run, none of
\* them of a generation to come.
ImportOK ==
  /\ imp.job = 0 <=> imp.state \in Unstarted
  /\ imp.gen = 0 => imp.state = "absent"
  /\ \A g \in Gens, n \in Numbers :
       /\ g > imp.gen => rows[g][n] = "absent"
       /\ imp.state \in Unstarted => rows[g][n] \in {"absent", "pending", "unusable"}

\* A request works for the last generation or for one that was taken over.
StagerOK(s) == stager[s].phase # "idle" => stager[s].gen \in 1..imp.gen

\* A row is finalized as succeeded by a dry run only, and a job is completed by its
\* owner only when its import is.
WorkerOK(w) ==
  /\ worker[w].phase # "idle" => worker[w].job \in Jobs
  /\ worker[w].phase = "finalize" =>
       /\ worker[w].slice # {} /\ worker[w].outcome # "none"
       /\ worker[w].outcome = "succeeded" => file.mode = "DRY_RUN"
  /\ worker[w].phase = "complete" /\ Owns(w) => imp.state \in Finished

IInv ==
  /\ TypeOK /\ ImportOK
  /\ RowsAppliedOnce /\ StagedRowsAreExact /\ ImportEndsWithJob
  /\ \A s \in Stagers : StagerOK(s)
  /\ \A w \in Workers : WorkerOK(w)

=============================================================================
