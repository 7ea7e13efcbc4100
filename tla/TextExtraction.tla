--------------------------- MODULE TextExtraction ---------------------------
(***************************************************************************)
(* One extraction of text from an uploaded file: the row of                *)
(* extraction_runs, the jobs that execute it, and the calls that request,  *)
(* cancel and retry it (src/modules/files/extraction-service.ts,           *)
(* src/worker/handlers/extraction.ts).                                     *)
(*                                                                         *)
(* The handler's transactions are fenced by the state of the run alone:    *)
(* neither the claim nor the job that it works for is looked at.  The      *)
(* queue is cut down as in ImportExecution; each life of the run, from a   *)
(* request or a retry on, has a job of its own, and a job of an earlier    *)
(* life may still be at work or come back.                                 *)
(***************************************************************************)
EXTENDS Naturals

CONSTANTS
  Workers,      \* passes of the worker that overlap
  MaxAttempts,  \* MAX_JOB_ATTEMPTS
  MaxLives,     \* bound: the request and the retries
  Budget,       \* bound: crashes, lost leases, failed statements, time limits
  None

TextExtractionAssumption ==
  /\ MaxAttempts \in Nat \ {0} /\ MaxLives \in Nat \ {0} /\ Budget \in Nat
  /\ None \notin Workers

VARIABLES
  run,       \* the row of extraction_runs
  archived,  \* deleted_at of its file is set
  job,       \* job[l]: the extraction_execute job of life l
  worker,    \* worker[w]: locals of the handler and of its pass
  budget

vars == <<run, archived, job, worker, budget>>

-----------------------------------------------------------------------------

Active == {"pending", "processing"}
Retryable == {"error", "cancelled"}
Ended == Retryable \cup {"completed"}
Lives == 1..MaxLives

\* raced is history: a pass has stood back because another had begun the run.
Run == [state : {"absent"} \cup Active \cup Ended, life : 0..MaxLives, raced : BOOLEAN]

Job == [state : {"absent", "queued", "running", "completed", "dead_letter"},
        attempts : Nat, holder : Workers \cup {None}, live : BOOLEAN]

Worker == [phase : {"idle", "load", "start", "read", "complete", "fail", "settle"},
           life : 0..MaxLives, attempts : Nat, aborted : BOOLEAN,
           verdict : {"none", "done", "retry", "permanent"}]

IdleWorker ==
  [phase |-> "idle", life |-> 0, attempts |-> 0, aborted |-> FALSE, verdict |-> "none"]

Init ==
  /\ run = [state |-> "absent", life |-> 0, raced |-> FALSE]
  /\ archived = FALSE
  /\ job = [l \in Lives |-> [state |-> "absent", attempts |-> 0, holder |-> None,
                             live |-> FALSE]]
  /\ worker = [w \in Workers |-> IdleWorker]
  /\ budget = Budget

Spend == budget > 0 /\ budget' = budget - 1

Goto(w, ph) == worker' = [worker EXCEPT ![w].phase = ph]

Ends(w, v) == worker' = [worker EXCEPT ![w].phase = "settle", ![w].verdict = v]

-----------------------------------------------------------------------------
(* The service. *)

Queued(l) == [job EXCEPT ![l].state = "queued"]

\* request: the run and its job, in one transaction.
Request ==
  /\ run.state = "absent"
  /\ ~archived
  /\ run' = [run EXCEPT !.state = "pending", !.life = 1]
  /\ job' = Queued(1)
  /\ UNCHANGED <<archived, worker, budget>>

\* cancel and retry look at the run and its file first, and repeat what they have
\* seen of the run in the statement that changes it; a file that is archived in
\* between only makes the job find nothing.  A cancellation leaves the job alone.
Cancel ==
  /\ ~archived
  /\ run.state \in Active
  /\ run' = [run EXCEPT !.state = "cancelled"]
  /\ UNCHANGED <<archived, job, worker, budget>>

Retry ==
  /\ ~archived
  /\ run.state \in Retryable
  /\ run.life < MaxLives
  /\ run' = [run EXCEPT !.state = "pending", !.life = @ + 1]
  /\ job' = Queued(run.life + 1)
  /\ UNCHANGED <<archived, worker, budget>>

\* archiveFile
Archive ==
  /\ ~archived
  /\ archived' = TRUE
  /\ UNCHANGED <<run, job, worker, budget>>

-----------------------------------------------------------------------------
(* createExtractionHandler. *)

ClaimDue(w, l) ==
  /\ worker[w].phase = "idle"
  /\ \/ job[l].state = "queued"
     \/ job[l].state = "running" /\ ~job[l].live
  /\ job' = [job EXCEPT ![l] = [state |-> "running", attempts |-> @.attempts + 1,
                                holder |-> w, live |-> TRUE]]
  /\ worker' = [worker EXCEPT ![w] =
       [IdleWorker EXCEPT !.phase = "load", !.life = l, !.attempts = job[l].attempts + 1]]
  /\ UNCHANGED <<run, archived, budget>>

\* Mutant: a run that a pass has left in processing is taken for finished.
LoadedMutant(w) ==
  IF archived THEN Ends(w, "permanent")
  ELSE IF run.state = "pending" THEN Goto(w, "start")
  ELSE Ends(w, "done")

\* What the handler makes of the run and its file, read without a lock.
Loaded(w) ==
  CASE archived -> Ends(w, "permanent")
    [] ~archived /\ run.state \in Ended -> Ends(w, "done")
    [] ~archived /\ run.state = "pending" -> Goto(w, "start")
    [] ~archived /\ run.state = "processing" -> Goto(w, "read")

Load(w) ==
  /\ worker[w].phase = "load"
  /\ Loaded(w)
  /\ UNCHANGED <<run, archived, job, budget>>

\* The state that an update of the handler requires, and the one it sets.
FromOf(ph) == IF ph = "start" THEN "pending" ELSE "processing"
ToOf(ph) == CASE ph = "start" -> "processing"
              [] ph = "complete" -> "completed"
              [] ph = "fail" -> "error"

\* Mutant: the result is stored whatever has become of the run.
CommittedMutant(ph) ==
  IF ph = "complete" \/ run.state = FromOf(ph)
  THEN [run EXCEPT !.state = ToOf(ph)] ELSE run

\* What the transaction of a phase makes of the run.
Committed(ph) == IF run.state = FromOf(ph) THEN [run EXCEPT !.state = ToOf(ph)] ELSE run

\* Another pass, or a cancellation, has come first: the handler returns as if
\* it were done.
Start(w) ==
  /\ worker[w].phase = "start"
  /\ run' = [Committed("start") EXCEPT !.raced = @ \/ run.state = "processing"]
  /\ IF run.state = "pending" THEN Goto(w, "read") ELSE Ends(w, "done")
  /\ UNCHANGED <<archived, job, budget>>

\* readText and the parser.  A store that is interrupted by the time limit may
\* raise an error of its own, which counts as a failure of the extraction.
Read(w) ==
  /\ worker[w].phase = "read"
  /\ \/ Goto(w, "complete") \/ Goto(w, "fail")
     \/ worker[w].aborted /\ Ends(w, "retry")
  /\ UNCHANGED <<run, archived, job, budget>>

Complete(w) ==
  /\ worker[w].phase = "complete"
  /\ run' = Committed("complete")
  /\ Ends(w, "done")
  /\ UNCHANGED <<archived, job, budget>>

Fail(w) ==
  /\ worker[w].phase = "fail"
  /\ run' = Committed("fail")
  /\ Ends(w, "permanent")
  /\ UNCHANGED <<archived, job, budget>>

\* A statement fails before or after its commit.  An error of the completing
\* transaction is caught and recorded as a failure of the extraction.
StatementErrs(w) ==
  /\ worker[w].phase \in {"start", "complete", "fail"}
  /\ Spend
  /\ run' \in {run, Committed(worker[w].phase)}
  /\ IF worker[w].phase = "complete" THEN Goto(w, "fail") ELSE Ends(w, "retry")
  /\ UNCHANGED <<archived, job>>

-----------------------------------------------------------------------------
(* The pass around the handler. *)

Owns(w) ==
  LET l == worker[w].life IN job[l].state = "running" /\ job[l].holder = w /\ job[l].live

Released(j, state, attempts) ==
  [state |-> state, attempts |-> attempts, holder |-> None, live |-> FALSE]

\* An aborted pass defers its claim, which takes the attempt back.
Settled(w) ==
  LET j == job[worker[w].life] IN
    CASE worker[w].aborted -> Released(j, "queued", j.attempts - 1)
      [] OTHER ->
           Released(j, CASE worker[w].verdict = "done" -> "completed"
                         [] worker[w].verdict = "retry" /\ worker[w].attempts < MaxAttempts
                              -> "queued"
                         [] OTHER -> "dead_letter", j.attempts)

Settle(w) ==
  /\ worker[w].phase = "settle"
  /\ job' = IF Owns(w) THEN [job EXCEPT ![worker[w].life] = Settled(w)] ELSE job
  /\ worker' = [worker EXCEPT ![w] = IdleWorker]
  /\ UNCHANGED <<run, archived, budget>>

Abort(w) ==
  /\ worker[w].phase # "idle"
  /\ ~worker[w].aborted
  /\ Spend
  /\ worker' = [worker EXCEPT ![w].aborted = TRUE]
  /\ UNCHANGED <<run, archived, job>>

WorkerCrash(w) ==
  /\ worker[w].phase # "idle"
  /\ Spend
  /\ worker' = [worker EXCEPT ![w] = IdleWorker]
  /\ UNCHANGED <<run, archived, job>>

Tended(l) ==
  \E w \in Workers : job[l].holder = w /\ worker[w].phase # "idle" /\ worker[w].life = l

LeaseExpires(l) ==
  /\ job[l].live
  /\ IF Tended(l) THEN Spend ELSE UNCHANGED budget
  /\ job' = [job EXCEPT ![l].live = FALSE]
  /\ UNCHANGED <<run, archived, worker>>

-----------------------------------------------------------------------------

Step(w) == Load(w) \/ Start(w) \/ Read(w) \/ Complete(w) \/ Fail(w) \/ Settle(w)

Next ==
  \/ Request \/ Cancel \/ Retry \/ Archive
  \/ \E w \in Workers : Step(w) \/ StatementErrs(w) \/ Abort(w) \/ WorkerCrash(w)
  \/ \E l \in Lives : LeaseExpires(l) \/ \E w \in Workers : ClaimDue(w, l)

Spec == Init /\ [][Next]_vars

\* A pass takes its next step unless it dies, due jobs are claimed, and leases
\* that nobody renews run out.
Fairness ==
  /\ \A w \in Workers : WF_vars(Step(w))
  /\ \A l \in Lives : /\ WF_vars(\E w \in Workers : ClaimDue(w, l))
                      /\ WF_vars(~Tended(l) /\ LeaseExpires(l))

FairSpec == Spec /\ Fairness

-----------------------------------------------------------------------------
(* Properties. *)

\* Every variable has the shape of its row or locals; a life that has begun has
\* its job, and only a running job has a holder.
TypeOK ==
  /\ run \in Run
  /\ archived \in BOOLEAN
  /\ job \in [Lives -> Job]
  /\ \A l \in Lives : /\ job[l].state # "absent" <=> l <= run.life
                      /\ job[l].holder # None <=> job[l].state = "running"
  /\ worker \in [Workers -> Worker]
  /\ budget \in 0..Budget

\* An extraction that has been cancelled, has failed or has a result stays so,
\* whatever handler of it is still at work; only a retry, which brings a new
\* job, takes it up again, and never one that has a result.
EndedIsFinal ==
  [][run.state \in Ended /\ run'.state # run.state =>
       /\ run.state # "completed"
       /\ run'.state = "pending"
       /\ job[run'.life].state = "absent" /\ job'[run'.life].state = "queued"]_vars

\* A requested extraction ends, or the job of its current life is dead-lettered,
\* whatever passes died or were stopped: unless its file is archived, or a pass
\* took another's work on it for its own end, which leaves the run to that one.
Requested == run.state = "pending"
RunSettled ==
  \/ run.state \in Ended \/ archived \/ run.raced
  \/ run.life > 0 /\ job[run.life].state = "dead_letter"

ExtractionSettles == Requested ~> RunSettled

-----------------------------------------------------------------------------
(* The inductive invariant of JobsProofs. *)

\* A run that is there is in one of its lives, a claim has counted its attempt, and
\* passes work for runs that are there.
LivesFit ==
  /\ run.state = "absent" <=> run.life = 0
  /\ \A l \in Lives : job[l].state = "running" => job[l].attempts > 0
  /\ \A w \in Workers : worker[w].phase # "idle" => run.life > 0

IInv == TypeOK /\ LivesFit

=============================================================================
