------------------------------- MODULE AiRun -------------------------------
(***************************************************************************)
(* One AI analysis: the run, its prompt and answer, the durable job that   *)
(* executes it, its owner's cancellation, the review of a suggestion drawn *)
(* from it, and retention (src/modules/ai, src/worker/handlers/ai-analysis).*)
(*                                                                         *)
(* The handler calls the provider outside any transaction; every           *)
(* transaction around the calls locks the job's claim and the run and      *)
(* authorizes the principal anew.  The queue is cut down as in             *)
(* ImportExecution: the holder of a running job stands for its lease owner *)
(* and claim generation.                                                   *)
(***************************************************************************)
EXTENDS Naturals

CONSTANTS
  Workers,      \* passes of the worker that overlap
  MaxTurns,     \* MAX_AI_PROVIDER_BOUNDARIES
  MaxTools,     \* MAX_AI_TOOL_CALLS
  MaxAttempts,  \* MAX_JOB_ATTEMPTS
  Budget,       \* bound: crashes, lost leases, failed statements, time limits, lost rights
  None

AiRunAssumption ==
  /\ MaxTurns \in Nat /\ MaxTools \in Nat /\ MaxAttempts \in Nat /\ Budget \in Nat
  /\ None \notin Workers

VARIABLES
  run,         \* the row of ai_runs with what hangs on it
  job,         \* its ai_execute job
  worker,      \* worker[w]: locals of the handler and of its pass
  allowed,     \* the principal may still run analyses and see the whole scope
  configured,  \* provider and model are those the run was started with
  thread,      \* retention: the thread, a suggestion drawn from the run, and holds
  budget

vars == <<run, job, worker, allowed, configured, thread, budget>>

-----------------------------------------------------------------------------

Active == {"pending", "running"}
Ended == {"completed", "failed", "cancelled"}

\* "purged" is a run whose thread was deleted.  prompt is the row of
\* ai_ephemeral_inputs, the only copy of the question if it was omitted from
\* the message; turns is the provider boundary count of the profile.
Run == [state : {"absent", "purged"} \cup Active \cup Ended, omitted : BOOLEAN,
        prompt : {"none", "live", "expired"}, turns : 0..MaxTurns,
        tools : 0..MaxTools, answers : Nat]

Job == [state : {"absent", "queued", "running", "completed", "dead_letter"},
        attempts : Nat, holder : Workers \cup {None}, live : BOOLEAN]

Phases == {"idle", "load", "replay", "ask", "generate", "boundary", "answer",
           "finalize", "plan", "call", "record", "recheck", "fail", "settle"}

Worker == [phase : Phases, attempts : Nat, depth : 0..MaxTurns, todo : Nat,
           forged : BOOLEAN, aborted : BOOLEAN,
           verdict : {"none", "done", "retry", "permanent", "defer"}]

Thread == [due : BOOLEAN, held : BOOLEAN, purge : {"none", "selected", "checked"},
           suggestion : {"none", "pending", "accepted", "rejected"},
           listed : BOOLEAN]

IdleWorker == [phase |-> "idle", attempts |-> 0, depth |-> 0, todo |-> 0,
               forged |-> FALSE, aborted |-> FALSE, verdict |-> "none"]

Init ==
  /\ \E o \in BOOLEAN :
       run = [state |-> "absent", omitted |-> o, prompt |-> "none", turns |-> 0,
              tools |-> 0, answers |-> 0]
  /\ job = [state |-> "absent", attempts |-> 0, holder |-> None, live |-> FALSE]
  /\ worker = [w \in Workers |-> IdleWorker]
  /\ allowed = TRUE
  /\ configured = TRUE
  /\ thread = [due |-> FALSE, held |-> FALSE, purge |-> "none",
               suggestion |-> "none", listed |-> FALSE]
  /\ budget = Budget

Spend == budget > 0 /\ budget' = budget - 1

rights == <<allowed, configured>>

Goto(w, ph) == worker' = [worker EXCEPT ![w].phase = ph]

\* The handler's locals end with it.
Left(w, ph, v) == worker' = [worker EXCEPT ![w] =
  [@ EXCEPT !.phase = ph, !.verdict = v, !.depth = 0, !.todo = 0, !.forged = FALSE]]

Throw(w, v) == Left(w, "settle", v)
\* persistFailure with persist: the failure is recorded before it is thrown.
Fails(w, v) == Left(w, "fail", v)

-----------------------------------------------------------------------------
(* The owner. *)

\* insertStartedAnalysis: thread, message, run, prompt and job in one transaction.
StartAnalysis ==
  /\ run.state = "absent"
  /\ allowed
  /\ run' = [run EXCEPT !.state = "pending",
                        !.prompt = IF run.omitted THEN "live" ELSE "none"]
  /\ job' = [job EXCEPT !.state = "queued"]
  /\ UNCHANGED <<worker, rights, thread, budget>>

CanceledRun == [run EXCEPT !.state = "cancelled", !.prompt = "none"]

\* cancelOwnedRun: only a job that nobody has claimed dies with the run.
CancelRun ==
  /\ run.state \in Active
  /\ run' = CanceledRun
  /\ job' = IF job.state = "queued" THEN [job EXCEPT !.state = "dead_letter"] ELSE job
  /\ UNCHANGED <<worker, rights, thread, budget>>

-----------------------------------------------------------------------------
(* The transactions of the worker's repository. *)

Owns(w) == job.state = "running" /\ job.holder = w /\ job.live

\* Mutant: the run is locked whatever its state.
LocksRunMutant(w) == Owns(w) /\ run.state \in Active \cup Ended

\* lockClaimedRun: the claim is current and the run is active.
LocksRun(w) == Owns(w) /\ run.state \in Active

\* loadValidatedRunInput finds the question.
Readable == run.omitted => run.prompt = "live"

Authorized(w) == LocksRun(w) /\ Readable /\ allowed

\* What the transaction of a phase commits.
Committed(w) ==
  CASE worker[w].phase = "load" /\ LocksRun(w) /\ Readable ->
         [run EXCEPT !.state = "running"]
    [] worker[w].phase = "boundary" /\ Authorized(w) /\ run.turns < MaxTurns ->
         [run EXCEPT !.turns = @ + 1]
    [] worker[w].phase = "record" /\ Authorized(w) /\ run.tools < MaxTools ->
         [run EXCEPT !.tools = @ + 1]
    [] worker[w].phase = "finalize" /\ Authorized(w) ->
         [run EXCEPT !.state = "completed", !.prompt = "none", !.answers = @ + 1]
    [] worker[w].phase = "fail" /\ LocksRun(w) ->
         [run EXCEPT !.state = "failed", !.prompt = "none"]
    [] OTHER -> run

\* The statement fails, before or after its commit: an error without a code.
StatementErrs(w) ==
  /\ worker[w].phase \in Phases \ {"idle", "generate", "settle"}
  /\ Spend
  /\ run' \in {run, Committed(w)}
  /\ Throw(w, "retry")
  /\ UNCHANGED <<job, rights, thread>>

-----------------------------------------------------------------------------
(* createAiAnalysisHandler.  A step that starts with ensureLease throws once *)
(* the pass is aborted or the lease is lost; with a lost lease nothing that  *)
(* follows has an effect, so the transaction's own check stands for both.    *)

ClaimDue(w) ==
  /\ worker[w].phase = "idle"
  /\ \/ job.state = "queued"
     \/ job.state = "running" /\ ~job.live
  /\ job' = [state |-> "running", attempts |-> job.attempts + 1, holder |-> w, live |-> TRUE]
  /\ worker' = [worker EXCEPT ![w] =
       [IdleWorker EXCEPT !.phase = "load", !.attempts = job.attempts + 1]]
  /\ UNCHANGED <<run, rights, thread, budget>>

\* The handler leaves a step early, by ensureLease.
Leaves(w) == worker[w].aborted /\ Throw(w, "retry") /\ UNCHANGED run

Load(w) ==
  /\ worker[w].phase = "load"
  /\ \/ Leaves(w)
     \/ /\ ~worker[w].aborted
        /\ run' = Committed(w)
        /\ IF ~(LocksRun(w) /\ Readable) THEN Goto(w, "replay")
           ELSE IF configured THEN Goto(w, "ask") ELSE Fails(w, "permanent")
  /\ UNCHANGED <<job, rights, thread, budget>>

\* isClaimedRunCompleted: an earlier claim finished the run.
Replay(w) ==
  /\ worker[w].phase = "replay"
  /\ IF Owns(w) /\ run.state = "completed" THEN Throw(w, "done") ELSE Fails(w, "permanent")
  /\ UNCHANGED <<run, job, rights, thread, budget>>

\* authorize: to the next phase, to a recorded failure, or out.
Authorize(w, next) ==
  \/ Leaves(w)
  \/ /\ ~worker[w].aborted
     /\ UNCHANGED run
     /\ IF Authorized(w) THEN next ELSE Fails(w, "permanent")

\* Up to MaxTurns turns in this execution, and in all of them together.
Ask(w) ==
  /\ worker[w].phase = "ask"
  /\ IF worker[w].depth = MaxTurns THEN Fails(w, "permanent") /\ UNCHANGED run
     ELSE Authorize(w, IF run.turns < MaxTurns THEN Goto(w, "generate")
                       ELSE Fails(w, "permanent"))
  /\ UNCHANGED <<job, rights, thread, budget>>

\* The provider answers, with citations that are its tools' or are not, asks for
\* tools, or fails: for good, or with a code that is worth another attempt.
Generate(w) ==
  /\ worker[w].phase = "generate"
  /\ \/ \E f \in BOOLEAN, k \in 0..(MaxTools + 1) :
          worker' = [worker EXCEPT ![w].phase = "boundary", ![w].forged = f,
                                   ![w].todo = k]
     \/ Fails(w, "permanent")
     \/ IF worker[w].attempts >= MaxAttempts THEN Fails(w, "retry") ELSE Throw(w, "retry")
  /\ UNCHANGED <<run, job, rights, thread, budget>>

\* recordClaimedProviderBoundary.  todo = 0 stands for an answer from here on.
Boundary(w) ==
  /\ worker[w].phase = "boundary"
  /\ \/ Leaves(w)
     \/ /\ ~worker[w].aborted
        /\ run' = Committed(w)
        /\ IF Authorized(w) /\ run.turns < MaxTurns
             THEN Goto(w, IF worker[w].todo = 0 THEN "answer" ELSE "plan")
             ELSE Fails(w, "permanent")
  /\ UNCHANGED <<job, rights, thread, budget>>

Answer(w) ==
  /\ worker[w].phase = "answer"
  /\ Authorize(w, IF worker[w].forged THEN Fails(w, "permanent") ELSE Goto(w, "finalize"))
  /\ UNCHANGED <<job, rights, thread, budget>>

\* finalizeClaimedRun.  If it is refused under a lease that can be renewed, the
\* handler takes the run for canceled.
Finalize(w) ==
  /\ worker[w].phase = "finalize"
  /\ run' = Committed(w)
  /\ Throw(w, IF Authorized(w) THEN "done"
              ELSE IF Owns(w) /\ ~worker[w].aborted THEN "permanent" ELSE "defer")
  /\ UNCHANGED <<job, rights, thread, budget>>

Plan(w) ==
  /\ worker[w].phase = "plan"
  /\ Authorize(w, IF run.tools + worker[w].todo <= MaxTools THEN Goto(w, "call")
                  ELSE Fails(w, "permanent"))
  /\ UNCHANGED <<job, rights, thread, budget>>

\* One tool call: authorized, then made (a read), then recorded.  A name that is
\* not a tool's ends the run; after the last call comes the next turn.
Call(w) ==
  /\ worker[w].phase = "call"
  /\ IF worker[w].todo = 0
       THEN /\ worker' = [worker EXCEPT ![w].phase = "ask", ![w].depth = @ + 1]
            /\ UNCHANGED run
     ELSE IF worker[w].forged
       THEN Fails(w, "permanent") /\ UNCHANGED run
     ELSE Authorize(w, IF run.tools < MaxTools THEN Goto(w, "record")
                       ELSE Fails(w, "permanent"))
  /\ UNCHANGED <<job, rights, thread, budget>>

Record(w) ==
  /\ worker[w].phase = "record"
  /\ \/ Leaves(w)
     \/ /\ ~worker[w].aborted
        /\ run' = Committed(w)
        /\ IF Authorized(w) /\ run.tools < MaxTools
             THEN worker' = [worker EXCEPT ![w].phase = "call", ![w].todo = @ - 1]
             ELSE Goto(w, "recheck")
  /\ UNCHANGED <<job, rights, thread, budget>>

\* A call that could not be recorded: authorization has changed, or lease_lost.
Recheck(w) ==
  /\ worker[w].phase = "recheck"
  /\ Authorize(w, Throw(w, "defer"))
  /\ UNCHANGED <<job, rights, thread, budget>>

\* recordClaimedFailure.  A run that could not be failed was canceled, unless the
\* lease is lost.
FailRun(w) ==
  /\ worker[w].phase = "fail"
  /\ \/ Leaves(w)
     \/ /\ ~worker[w].aborted
        /\ run' = Committed(w)
        /\ Throw(w, IF LocksRun(w) THEN worker[w].verdict
                    ELSE IF Owns(w) THEN "permanent" ELSE "defer")
  /\ UNCHANGED <<job, rights, thread, budget>>

-----------------------------------------------------------------------------
(* The pass. *)

\* Mutant: the holder's name stays on the job.
ReleasedMutant(s, a) == [job EXCEPT !.state = s, !.attempts = a, !.live = FALSE]

Released(s, a) == [state |-> s, attempts |-> a, holder |-> None, live |-> FALSE]

\* Mutant: every verdict but success defers.
SettledMutant(w) ==
  IF worker[w].verdict = "done" THEN Released("completed", job.attempts)
  ELSE Released("queued", job.attempts - 1)

\* An aborted pass and a lost lease defer, which takes the attempt back.
Settled(w) ==
  LET v == IF worker[w].aborted THEN "defer" ELSE worker[w].verdict IN
    CASE v = "done" -> Released("completed", job.attempts)
      [] v = "defer" -> Released("queued", job.attempts - 1)
      [] v = "permanent" -> Released("dead_letter", job.attempts)
      [] v = "retry" -> Released(IF worker[w].attempts >= MaxAttempts
                                   THEN "dead_letter" ELSE "queued", job.attempts)

Settle(w) ==
  /\ worker[w].phase = "settle"
  /\ job' = IF Owns(w) THEN Settled(w) ELSE job
  /\ worker' = [worker EXCEPT ![w] = IdleWorker]
  /\ UNCHANGED <<run, rights, thread, budget>>

\* The pass reaches its time limit or the worker drains.
Abort(w) ==
  /\ worker[w].phase # "idle"
  /\ ~worker[w].aborted
  /\ Spend
  /\ worker' = [worker EXCEPT ![w].aborted = TRUE]
  /\ UNCHANGED <<run, job, rights, thread>>

WorkerCrash(w) ==
  /\ worker[w].phase # "idle"
  /\ Spend
  /\ worker' = [worker EXCEPT ![w] = IdleWorker]
  /\ UNCHANGED <<run, job, rights, thread>>

Tended == \E w \in Workers : job.holder = w /\ worker[w].phase # "idle"

LeaseExpires ==
  /\ job.live
  /\ IF Tended THEN Spend ELSE UNCHANGED budget
  /\ job' = [job EXCEPT !.live = FALSE]
  /\ UNCHANGED <<run, worker, rights, thread>>

\* A role, a grant or a resource of the scope changes, or the provider does.
RightsChange ==
  /\ IF allowed THEN Spend ELSE UNCHANGED budget
  /\ allowed' = ~allowed
  /\ UNCHANGED <<run, job, worker, configured, thread>>

ProviderChanges ==
  /\ configured
  /\ run.state # "absent"
  /\ Spend
  /\ configured' = FALSE
  /\ UNCHANGED <<run, job, worker, allowed, thread>>

-----------------------------------------------------------------------------
(* Prompts, suggestions, legal holds and retention. *)

\* Five minutes after the start.
PromptExpires ==
  /\ run.prompt = "live"
  /\ run' = [run EXCEPT !.prompt = "expired"]
  /\ UNCHANGED <<job, worker, rights, thread, budget>>

\* purgeExpiredAiEphemeralInputs
PurgePrompt ==
  /\ run.prompt = "expired"
  /\ ~thread.held
  /\ run' = [run EXCEPT !.prompt = "none"]
  /\ UNCHANGED <<job, worker, rights, thread, budget>>

\* Holds and retention settings are changed under the workspace's advisory lock,
\* which the purge holds from its check to its commit.
LockFree == thread.purge # "checked"

HoldChanges ==
  /\ run.state \notin {"absent", "purged"}
  /\ LockFree
  /\ thread' = [thread EXCEPT !.held = ~@]
  /\ UNCHANGED <<run, job, worker, rights, budget>>

\* The retention period of a thread with a completed run, the only one that is
\* purged, ends or is made longer.
DueChanges ==
  /\ run.state = "completed"
  /\ LockFree
  /\ thread' = [thread EXCEPT !.due = ~@]
  /\ UNCHANGED <<run, job, worker, rights, budget>>

\* recordAiSuggestion, from a completed run.
Suggest ==
  /\ run.state = "completed"
  /\ thread.suggestion = "none"
  /\ thread' = [thread EXCEPT !.suggestion = "pending"]
  /\ UNCHANGED <<run, job, worker, rights, budget>>

\* decide: locks the suggestion; a deferred one stays open.
Decide ==
  /\ run.state = "completed"
  /\ thread.suggestion = "pending"
  /\ \E d \in {"accepted", "rejected"} : thread' = [thread EXCEPT !.suggestion = d]
  /\ UNCHANGED <<run, job, worker, rights, budget>>

\* purgeExpiredAiThreads: candidates, from a snapshot.
SelectThread ==
  /\ thread.purge = "none"
  /\ run.state = "completed" /\ thread.due /\ ~thread.held
  /\ thread' = [thread EXCEPT !.purge = "selected"]
  /\ UNCHANGED <<run, job, worker, rights, budget>>

\* Mutant: what was selected is purged without a second look at the holds.
PurgeableMutant == thread.due /\ thread.suggestion # "accepted"

Purgeable == thread.due /\ ~thread.held /\ thread.suggestion # "accepted"

\* Under the advisory lock: retention, suggestions and holds are read again.
CheckThread ==
  /\ thread.purge = "selected"
  /\ thread' = [thread EXCEPT !.purge = IF Purgeable THEN "checked" ELSE "none",
                              !.listed = Purgeable /\ thread.suggestion # "none"]
  /\ UNCHANGED <<run, job, worker, rights, budget>>

\* The listed suggestions are deleted by their ids, then the thread with all that
\* belongs to it; a suggestion that was not listed makes the transaction fail.
PurgeThread ==
  /\ thread.purge = "checked"
  /\ IF thread.suggestion # "none" /\ ~thread.listed
       THEN /\ thread' = [thread EXCEPT !.purge = "none"]
            /\ UNCHANGED run
       ELSE /\ thread' = [thread EXCEPT !.purge = "none", !.listed = FALSE,
                                        !.suggestion = "none"]
            /\ run' = [run EXCEPT !.state = "purged", !.prompt = "none", !.turns = 0,
                                  !.tools = 0, !.answers = 0]
  /\ UNCHANGED <<job, worker, rights, budget>>

-----------------------------------------------------------------------------

Step(w) ==
  \/ Load(w) \/ Replay(w) \/ Ask(w) \/ Generate(w) \/ Boundary(w) \/ Answer(w)
  \/ Finalize(w) \/ Plan(w) \/ Call(w) \/ Record(w) \/ Recheck(w) \/ FailRun(w)
  \/ Settle(w)

Next ==
  \/ StartAnalysis
  \/ CancelRun
  \/ \E w \in Workers :
       ClaimDue(w) \/ Step(w) \/ StatementErrs(w) \/ Abort(w) \/ WorkerCrash(w)
  \/ LeaseExpires
  \/ RightsChange
  \/ ProviderChanges
  \/ PromptExpires
  \/ PurgePrompt
  \/ HoldChanges
  \/ DueChanges
  \/ Suggest
  \/ Decide
  \/ SelectThread
  \/ CheckThread
  \/ PurgeThread

Spec == Init /\ [][Next]_vars

\* Passes follow one another, the provider answers or times out, leases run out.
Fairness ==
  /\ \A w \in Workers : WF_vars(Step(w))
  /\ WF_vars(\E w \in Workers : ClaimDue(w))
  /\ WF_vars(~Tended /\ LeaseExpires)

FairSpec == Spec /\ Fairness

-----------------------------------------------------------------------------
(* Properties. *)

\* Every variable has the shape of its row or locals; a job has a holder exactly
\* while it runs, and a listed suggestion exists.
TypeOK ==
  /\ run \in Run /\ job \in Job /\ worker \in [Workers -> Worker]
  /\ job.holder # None <=> job.state = "running"
  /\ allowed \in BOOLEAN /\ configured \in BOOLEAN
  /\ thread \in Thread
  /\ thread.listed => thread.suggestion # "none"
  /\ budget \in 0..Budget

\* A run commits one terminal result: what ended it, the answer and the number of
\* answers never change again, whoever still holds an answer of the provider, a
\* failure to record or a claim; only retention removes it.  The delivery copy of a
\* restricted question does not outlive it.
RunEndsOnce ==
  [][run.state \in Ended =>
       /\ run.prompt = "none"
       /\ \/ run'.state = "purged"
          \/ run'.state = run.state /\ run'.answers = run.answers]_vars

\* While a hold is in force, the thread is not purged, although candidates are
\* selected before the lock that orders purges and holds is taken.
HeldThreadIsKept == [][thread.held => (run'.state = "purged" => run.state = "purged")]_vars

\* A started analysis comes to an end, or its job is dead-lettered.
RunStarted == run.state = "pending"
RunSettled == run.state \in Ended \/ job.state = "dead_letter"

RunSettles == RunStarted ~> RunSettled

\* Stated by docs/REQUIREMENTS.md: accepted suggestions retain the originating run;
\* retention fences them.
AcceptedSuggestionIsKept ==
  [][thread.suggestion = "accepted" => thread'.suggestion = "accepted"]_vars

-----------------------------------------------------------------------------
(* The inductive invariant of JobsProofs. *)

\* What ends a run takes its prompt with it.
PromptsEnd == run.state \in Ended => run.prompt = "none"

\* The job comes with the run.
JobFollowsRun == run.state = "absent" => job.state = "absent"

\* A claim has counted its attempt.
ClaimsCount == job.state = "running" => job.attempts > 0

\* A handler between a question and the next turn has turns left, one that records a
\* call has made it, and one that leaves has a verdict.
LocalsFit(s) ==
  /\ s.phase \in {"generate", "boundary", "plan", "call", "record"} => s.depth < MaxTurns
  /\ s.phase = "record" => s.todo > 0
  /\ s.phase \in {"fail", "settle"} => s.verdict # "none"

\* Between the check of a purge and its commit no hold is placed.
PurgeIsFree == thread.purge = "checked" => ~thread.held

IInv ==
  /\ TypeOK /\ PromptsEnd /\ JobFollowsRun /\ ClaimsCount /\ PurgeIsFree
  /\ \A w \in Workers : LocalsFit(worker[w])

=============================================================================
