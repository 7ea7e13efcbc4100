---------------------------- MODULE UploadSession ----------------------------
(***************************************************************************)
(* The life of one uploaded object (src/modules/files, src/lib/storage):   *)
(* the row of "upload_sessions", the row of "files" it may lead to, the    *)
(* object under its key in the S3-compatible store, and everything that    *)
(* works on the three at once: PUT requests through the upload proxy,      *)
(* completeUpload and cancelUploadSession calls, cleanup workers, the      *)
(* reconciler, and archival.                                               *)
(*                                                                         *)
(* One action per transaction or storage call; between two of them any     *)
(* other process may run.  Deadlines are flags that steps of the clock     *)
(* set.  A PUT or a call is used once: its identity is a fresh UUID.       *)
(***************************************************************************)
EXTENDS Naturals, FiniteSets

CONSTANTS
  Puts,          \* PUT requests, each a fresh upload_attempt_id
  Calls,         \* completeUpload and cancelUploadSession calls
  Workers,       \* workers that run file_cleanup jobs
  None,          \* SQL NULL
  LateAbort,     \* may a PUT be interrupted after its own 120 seconds are over?
  Budget         \* bound: leases lost, workers killed, deletes failed

ASSUME UploadSessionAssumption ==
  /\ IsFiniteSet(Puts)
  /\ None \notin Puts \cup Workers
  /\ LateAbort \in BOOLEAN
  /\ Budget \in Nat

VARIABLES
  sess,          \* the row of upload_sessions
  file,          \* the row of files, if completeUpload has created it
  object,        \* is there an object under the session's key?
  limbo,         \* interrupted PUTs that the store may still publish
  put,           \* put[u]: where the proxy is with PUT u
  call,          \* call[c]: where the service is with call c
  job,           \* the file_cleanup job of the session
  archival,      \* the file_cleanup job of the archived file
  worker,        \* worker[w]: the session cleanup that w is executing
  budget         \* disturbances left

vars == <<sess, file, object, limbo, put, call, job, archival, worker, budget>>

-----------------------------------------------------------------------------
(* State. *)

NeedCleanup == {"rejected", "expired", "cleanup_pending"}
SessionStates == {"pending", "verifying", "completed"} \cup NeedCleanup

Session ==
  [state : SessionStates,
   expired : BOOLEAN,          \* expires_at <= clock_timestamp()
   overdue : BOOLEAN,          \* expires_at + 1 hour <= clock_timestamp()
   cleaned : BOOLEAN,          \* cleanup_completed_at is not null
   attempt : Puts \cup {None}, \* upload_attempt_id
   live : BOOLEAN,             \* upload_attempt_expires_at > clock_timestamp()
   settled : BOOLEAN,          \* storage_mutation_settles_at is null or past
   gen : Nat]                  \* storage_mutation_generation

File == [state : {"none", "quarantined", "available", "rejected"},
         archived : BOOLEAN,   \* deleted_at is not null
         cleaned : BOOLEAN]    \* cleanup_completed_at is not null

\* sending: claimed, upload() running; stored, failed: how upload() ended.
PutPhases == {"idle", "sending", "stored", "failed", "done"}

\* The last three before "purge" are scan verdicts still to be recorded.
CallPhases == {"idle", "verify", "retry", "reject", "create", "scan",
               "clean", "infected", "error", "purge", "done"}

Job == [state : {"queued", "running", "terminal"},
        owner : Workers \cup {None},
        asap : BOOLEAN]        \* scheduled now, not an hour after expiry

\* What executeFileCleanupJob remembers of the row it selected.
WorkerState ==
  [phase : {"idle", "renew", "delete", "record", "settle"},
   attempt : Puts \cup {None},
   gen : Nat,
   keep : BOOLEAN]             \* cleanCompletion

IdleWorker == [phase |-> "idle", attempt |-> None, gen |-> 0, keep |-> FALSE]

\* createUploadSession: the row and its cleanup job, in one transaction.
Init ==
  /\ sess = [state |-> "pending", expired |-> FALSE, overdue |-> FALSE,
             cleaned |-> FALSE, attempt |-> None, live |-> FALSE,
             settled |-> TRUE, gen |-> 0]
  /\ file = [state |-> "none", archived |-> FALSE, cleaned |-> FALSE]
  /\ object = FALSE
  /\ limbo = {}
  /\ put = [u \in Puts |-> "idle"]
  /\ call = [c \in Calls |-> "idle"]
  /\ job = [state |-> "queued", owner |-> None, asap |-> FALSE]
  /\ archival = "none"
  /\ worker = [w \in Workers |-> IdleWorker]
  /\ budget = Budget

Disturbance == budget > 0 /\ budget' = budget - 1

SetPut(u, ph) == put' = [put EXCEPT ![u] = ph]
SetCall(c, ph) == call' = [call EXCEPT ![c] = ph]
SetWorker(w, ph) == worker' = [worker EXCEPT ![w].phase = ph]

InFlight == {u \in Puts : put[u] \in {"sending", "stored", "failed"}}

\* ensureFileCleanupJob
EnsureJob(asap) ==
  \/ job.state = "terminal" /\ job' = [state |-> "queued", owner |-> None, asap |-> asap]
  \/ job.state = "queued" /\ job' = [job EXCEPT !.asap = job.asap \/ asap]
  \/ job.state = "running" /\ UNCHANGED job

-----------------------------------------------------------------------------
(* The upload proxy: claim, PUT outside any transaction, reconcile. *)

\* Mutant: a new attempt does not wait for the window of the one before it.
ClaimPutMutant(u) ==
  /\ put[u] = "idle"
  /\ sess.state = "pending"
  /\ ~sess.expired
  /\ ~sess.live
  /\ sess' = [sess EXCEPT !.attempt = u, !.live = TRUE, !.settled = FALSE]
  /\ SetPut(u, "sending")
  /\ UNCHANGED <<file, object, limbo, call, job, archival, worker, budget>>

ClaimPut(u) ==
  /\ put[u] = "idle"
  /\ sess.state = "pending"
  /\ ~sess.expired
  /\ sess.attempt = None \/ ~sess.live
  /\ sess.settled
  /\ sess' = [sess EXCEPT !.attempt = u, !.live = TRUE, !.settled = FALSE]
  /\ SetPut(u, "sending")
  /\ UNCHANGED <<file, object, limbo, call, job, archival, worker, budget>>

\* The store publishes the object and upload() returns.
Store(u) ==
  /\ put[u] = "sending"
  /\ object' = TRUE
  /\ SetPut(u, "stored")
  /\ UNCHANGED <<sess, file, limbo, call, job, archival, worker, budget>>

\* The attempt still has its own 120 seconds.
InOwnWindow(u) == sess.attempt = u /\ ~sess.settled

\* An error, or the 60 second abort; the store may publish all the same, now
\* or within the next 60 seconds.
Interrupt(u) ==
  /\ put[u] = "sending"
  /\ \/ limbo' = limbo
     \/ (InOwnWindow(u) \/ LateAbort) /\ limbo' = limbo \cup {u}
  /\ SetPut(u, "failed")
  /\ UNCHANGED <<sess, file, object, call, job, archival, worker, budget>>

\* The process of the proxy dies within the attempt's window.
ProxyDies(u) ==
  /\ u \in InFlight
  /\ InOwnWindow(u)
  /\ \/ limbo' = limbo
     \/ put[u] = "sending" /\ limbo' = limbo \cup {u}
  /\ SetPut(u, "done")
  /\ UNCHANGED <<sess, file, object, call, job, archival, worker, budget>>

\* An interrupted PUT is published after all, or abandoned.
LimboEnds(u) ==
  /\ u \in limbo
  /\ limbo' = limbo \ {u}
  /\ object' \in {object, TRUE}
  /\ UNCHANGED <<sess, file, put, call, job, archival, worker, budget>>

\* A mutation that is reported after the session's cleanup reopens it.
Rearmed == sess.cleaned /\ sess.state \notin NeedCleanup

\* Mutant: the lease of the attempt is not cleared with it.
ReconcileStoredMutant(u) ==
  /\ put[u] = "stored"
  /\ sess' = IF sess.attempt = u
               THEN [sess EXCEPT !.gen = sess.gen + 1, !.settled = TRUE,
                                 !.attempt = None, !.cleaned = Rearmed]
               ELSE [sess EXCEPT !.gen = sess.gen + 1, !.settled = FALSE,
                                 !.cleaned = Rearmed]
  /\ SetPut(u, "done")
  /\ UNCHANGED <<file, object, limbo, call, job, archival, worker, budget>>

\* The second transaction of the proxy, after an upload() that returned.
ReconcileStored(u) ==
  /\ put[u] = "stored"
  /\ sess' = IF sess.attempt = u
               THEN [sess EXCEPT !.gen = sess.gen + 1, !.settled = TRUE,
                                 !.attempt = None, !.live = FALSE,
                                 !.cleaned = Rearmed]
               ELSE [sess EXCEPT !.gen = sess.gen + 1, !.settled = FALSE,
                                 !.cleaned = Rearmed]
  /\ SetPut(u, "done")
  /\ UNCHANGED <<file, object, limbo, call, job, archival, worker, budget>>

\* recordAmbiguousMutation, or rearmAmbiguousMutation for a replaced attempt.
RecordAmbiguous(u) ==
  /\ put[u] = "failed"
  /\ LET noted == [sess EXCEPT !.gen = sess.gen + 1, !.settled = FALSE,
                               !.cleaned = Rearmed]
     IN sess' = IF sess.attempt = u
                  THEN [noted EXCEPT !.attempt = None, !.live = FALSE]
                  ELSE noted
  /\ SetPut(u, "done")
  /\ UNCHANGED <<file, object, limbo, call, job, archival, worker, budget>>

-----------------------------------------------------------------------------
(* completeUpload. *)

\* The claim.  Other states end the call without a change: a replay of the
\* completed file, or a conflict.
ClaimVerify(c) ==
  /\ call[c] = "idle"
  /\ sess.state = "pending"
  /\ ~sess.expired
  /\ sess' = [sess EXCEPT !.state = "verifying"]
  /\ SetCall(c, "verify")
  /\ UNCHANGED <<file, object, limbo, put, job, archival, worker, budget>>

CompleteExpired(c) ==
  /\ call[c] = "idle"
  /\ sess.state = "pending"
  /\ sess.expired
  /\ sess' = [sess EXCEPT !.state = "expired"]
  /\ SetCall(c, "done")
  /\ UNCHANGED <<file, object, limbo, put, job, archival, worker, budget>>

\* getMetadata, openRead and verifyUploadStream: the bytes are there and match
\* (the 60 second abort keeps that within the hour), or are missing or wrong,
\* or the store fails.
Verify(c) ==
  /\ call[c] = "verify"
  /\ \/ object /\ ~sess.overdue /\ SetCall(c, "create")
     \/ SetCall(c, "reject")
     \/ SetCall(c, "retry")
  /\ UNCHANGED <<sess, file, object, limbo, put, job, archival, worker, budget>>

\* Mutant: the session goes back to pending whatever has happened to it.
GiveBackMutant(c) ==
  /\ call[c] = "retry"
  /\ sess' = [sess EXCEPT !.state = "pending"]
  /\ SetCall(c, "done")
  /\ UNCHANGED <<file, object, limbo, put, job, archival, worker, budget>>

\* PROVIDER_RETRYABLE: verifying goes back to pending.
GiveBack(c) ==
  /\ call[c] = "retry"
  /\ sess' = IF sess.state = "verifying" THEN [sess EXCEPT !.state = "pending"] ELSE sess
  /\ SetCall(c, "done")
  /\ UNCHANGED <<file, object, limbo, put, job, archival, worker, budget>>

\* rejectSession
Reject(c) ==
  /\ call[c] = "reject"
  /\ IF sess.state \in {"pending", "verifying"}
       THEN sess' = [sess EXCEPT !.state = "rejected"] /\ EnsureJob(FALSE)
       ELSE UNCHANGED <<sess, job>>
  /\ SetCall(c, "purge")
  /\ UNCHANGED <<file, object, limbo, put, archival, worker, budget>>

\* The file row is created if the session is still being verified.  Within the
\* hour in which cleanup waits, nothing else moves such a session; the ELSE is for
\* calls that would come back later than that.
CreateFile(c) ==
  /\ call[c] = "create"
  /\ IF sess.state = "verifying"
       THEN /\ sess' = [sess EXCEPT !.state = "completed"]
            /\ file' = [file EXCEPT !.state = "quarantined"]
            /\ SetCall(c, "scan")
       ELSE /\ SetCall(c, IF sess.state = "completed" THEN "scan" ELSE "done")
            /\ UNCHANGED <<sess, file>>
  /\ UNCHANGED <<object, limbo, put, job, archival, worker, budget>>

Scan(c) ==
  /\ call[c] = "scan"
  /\ \E verdict \in {"clean", "infected", "error"} : SetCall(c, verdict)
  /\ UNCHANGED <<sess, file, object, limbo, put, job, archival, worker, budget>>

\* updateScan: only a quarantined file that has not been archived meanwhile.
RecordScan(c) ==
  /\ call[c] \in {"clean", "infected", "error"}
  /\ IF file.state = "quarantined" /\ ~file.archived
       THEN /\ file' = [file EXCEPT !.state = CASE call[c] = "clean" -> "available"
                                                [] call[c] = "infected" -> "rejected"
                                                [] call[c] = "error" -> "quarantined"]
            /\ IF call[c] = "infected"
                 THEN SetCall(c, "purge") /\ EnsureJob(FALSE)
                 ELSE SetCall(c, "done") /\ UNCHANGED job
       ELSE SetCall(c, "done") /\ UNCHANGED <<file, job>>
  /\ UNCHANGED <<sess, object, limbo, put, archival, worker, budget>>

\* The best-effort delete after a rejection, an infection or a cancellation.
Purge(c) ==
  /\ call[c] = "purge"
  /\ object' \in {object, FALSE}
  /\ SetCall(c, "done")
  /\ UNCHANGED <<sess, file, limbo, put, job, archival, worker, budget>>

\* The process that serves the call dies.
CallDies(c) ==
  /\ call[c] \notin {"idle", "done"}
  /\ SetCall(c, "done")
  /\ UNCHANGED <<sess, file, object, limbo, put, job, archival, worker, budget>>

-----------------------------------------------------------------------------
(* Cancellation, a regrant that comes too late, archival. *)

\* cancelUploadSession
Cancel(c) ==
  /\ call[c] = "idle"
  /\ sess.state = "pending"
  /\ sess' = [sess EXCEPT !.state = "cleanup_pending", !.cleaned = FALSE]
  /\ EnsureJob(TRUE)
  /\ SetCall(c, "purge")
  /\ UNCHANGED <<file, object, limbo, put, archival, worker, budget>>

\* regrantUploadSession; while the session lives it only signs a new grant.
RegrantExpired ==
  /\ sess.state = "pending"
  /\ sess.expired
  /\ sess' = [sess EXCEPT !.state = "expired"]
  /\ EnsureJob(TRUE)
  /\ UNCHANGED <<file, object, limbo, put, call, archival, worker, budget>>

\* archiveFile, with ensureArchivedFileCleanupJob.
Archive ==
  /\ file.state # "none"
  /\ ~file.archived
  /\ file' = [file EXCEPT !.archived = TRUE]
  /\ archival' = "queued"
  /\ UNCHANGED <<sess, object, limbo, put, call, job, worker, budget>>

-----------------------------------------------------------------------------
(* executeFileCleanupJob for an upload session. *)

\* Mutant: an hour is not left to calls that are under way at expiry.
ReadyMutant ==
  /\ sess.state = "cleanup_pending" \/ sess.expired
  /\ sess.attempt = None \/ ~sess.live
  /\ sess.settled

Ready ==
  /\ sess.state = "cleanup_pending" \/ sess.overdue
  /\ sess.attempt = None \/ ~sess.live
  /\ sess.settled

\* Mutant: what becomes of the file is not looked at.
CleanCompletionMutant == FALSE

\* The object belongs to a file that passed its scan and is not archived.
CleanCompletion ==
  /\ sess.state = "completed"
  /\ file.state = "available"
  /\ ~file.archived

Due == job.state = "queued" /\ (job.asap \/ sess.overdue)

\* The job ends in state s, if w still owns it.
SettleJob(w, s) ==
  job' = IF job.owner = w THEN [state |-> s, owner |-> None, asap |-> TRUE] ELSE job

\* The queue hands the job to w, which selects the row and records the intent.
Select(w) ==
  /\ worker[w].phase = "idle"
  /\ Due
  /\ Ready
  /\ job' = [job EXCEPT !.state = "running", !.owner = w]
  /\ sess' = IF CleanCompletion \/ sess.state = "completed"
               THEN sess ELSE [sess EXCEPT !.state = "cleanup_pending"]
  /\ worker' = [worker EXCEPT ![w] = [phase |-> "renew", attempt |-> sess.attempt,
                                      gen |-> sess.gen, keep |-> CleanCompletion]]
  /\ UNCHANGED <<file, object, limbo, put, call, archival, budget>>

\* cleanup_not_ready: a retry, or the dead letter after the fifth.
NotReady ==
  /\ Due
  /\ ~Ready
  /\ \E s \in {"queued", "terminal"} :
       job' = [state |-> s, owner |-> None, asap |-> TRUE]
  /\ UNCHANGED <<sess, file, object, limbo, put, call, archival, worker, budget>>

Renew(w) ==
  /\ worker[w].phase = "renew"
  /\ SetWorker(w, IF job.owner = w THEN "delete" ELSE "idle")
  /\ UNCHANGED <<sess, file, object, limbo, put, call, job, archival, budget>>

Delete(w) ==
  /\ worker[w].phase = "delete"
  /\ object' = (object /\ worker[w].keep)
  /\ SetWorker(w, "record")
  /\ UNCHANGED <<sess, file, limbo, put, call, job, archival, budget>>

\* storage_unavailable
DeleteFails(w) ==
  /\ worker[w].phase = "delete"
  /\ ~worker[w].keep
  /\ Disturbance
  /\ \E s \in {"queued", "terminal"} : SettleJob(w, s)
  /\ SetWorker(w, "idle")
  /\ UNCHANGED <<sess, file, object, limbo, put, call, archival>>

\* Mutant: the generation is not compared.
UnchangedSinceMutant(w) == ~sess.cleaned /\ sess.attempt = worker[w].attempt

UnchangedSince(w) ==
  /\ ~sess.cleaned
  /\ sess.attempt = worker[w].attempt
  /\ sess.gen = worker[w].gen

\* Completion is recorded; otherwise cleanup_changed, and the job is retried.
RecordCleanup(w) ==
  /\ worker[w].phase = "record"
  /\ IF UnchangedSince(w)
       THEN /\ sess' = [sess EXCEPT !.cleaned = TRUE]
            /\ SetWorker(w, "settle")
            /\ UNCHANGED job
       ELSE /\ \E s \in {"queued", "terminal"} : SettleJob(w, s)
            /\ SetWorker(w, "idle")
            /\ UNCHANGED sess
  /\ UNCHANGED <<file, object, limbo, put, call, archival, budget>>

JobCompletes(w) ==
  /\ worker[w].phase = "settle"
  /\ SettleJob(w, "terminal")
  /\ SetWorker(w, "idle")
  /\ UNCHANGED <<sess, file, object, limbo, put, call, archival, budget>>

\* The lease of the job runs out under w, which goes on.
LeaseLost(w) ==
  /\ job.owner = w
  /\ Disturbance
  /\ SettleJob(w, "queued")
  /\ UNCHANGED <<sess, file, object, limbo, put, call, archival, worker>>

WorkerDies(w) ==
  /\ worker[w].phase # "idle"
  /\ Disturbance
  /\ SettleJob(w, "queued")
  /\ SetWorker(w, "idle")
  /\ UNCHANGED <<sess, file, object, limbo, put, call, archival>>

-----------------------------------------------------------------------------
(* executeArchivedFileCleanupJob: one transaction that holds the file's row. *)

DeleteArchived ==
  /\ archival = "queued"
  /\ object' = FALSE
  /\ archival' = "deleted"
  /\ UNCHANGED <<sess, file, limbo, put, call, job, worker, budget>>

RecordArchivedCleanup ==
  /\ archival = "deleted"
  /\ file' = [file EXCEPT !.cleaned = TRUE]
  /\ archival' = "terminal"
  /\ UNCHANGED <<sess, object, limbo, put, call, job, worker, budget>>

\* The delete fails, or the transaction is rolled back after it.
ArchivedCleanupFails ==
  /\ archival \in {"queued", "deleted"}
  /\ Disturbance
  /\ archival' \in {"queued", "terminal"}
  /\ UNCHANGED <<sess, file, object, limbo, put, call, job, worker>>

-----------------------------------------------------------------------------
(* reconcileFileCleanupJobs, at the start of every worker pass. *)

\* Mutant: completed sessions are not looked at.
UncleanedMutant ==
  /\ ~sess.cleaned
  /\ \/ sess.state \in {"pending", "verifying"} /\ sess.expired
     \/ sess.state \in NeedCleanup

Uncleaned ==
  /\ ~sess.cleaned
  /\ \/ sess.state \in {"pending", "verifying"} /\ sess.expired
     \/ sess.state \in NeedCleanup \cup {"completed"}

ReconcileSession ==
  /\ Uncleaned
  /\ sess' = IF sess.state \in {"pending", "verifying"}
               THEN [sess EXCEPT !.state = "expired"] ELSE sess
  /\ EnsureJob(sess.state = "cleanup_pending")
  /\ UNCHANGED <<file, object, limbo, put, call, archival, worker, budget>>

ReconcileArchived ==
  /\ file.archived
  /\ ~file.cleaned
  /\ archival = "terminal"
  /\ archival' = "queued"
  /\ UNCHANGED <<sess, file, object, limbo, put, call, job, worker, budget>>

-----------------------------------------------------------------------------
(* The clock. *)

\* upload_attempt_expires_at is never later than expires_at.
Expire ==
  /\ ~sess.expired
  /\ sess' = [sess EXCEPT !.expired = TRUE, !.live = FALSE]
  /\ UNCHANGED <<file, object, limbo, put, call, job, archival, worker, budget>>

AttemptExpires ==
  /\ sess.live
  /\ sess' = [sess EXCEPT !.live = FALSE]
  /\ UNCHANGED <<file, object, limbo, put, call, job, archival, worker, budget>>

\* The window outlasts the attempt, and what the store may still publish.
WindowElapses ==
  /\ ~sess.settled
  /\ ~sess.live
  /\ limbo = {}
  /\ sess' = [sess EXCEPT !.settled = TRUE]
  /\ UNCHANGED <<file, object, limbo, put, call, job, archival, worker, budget>>

\* An hour after expiry every PUT and every completion has long ended.
HourPasses ==
  /\ sess.expired
  /\ ~sess.overdue
  /\ InFlight = {}
  /\ limbo = {}
  /\ \A c \in Calls : call[c] \notin {"create", "scan", "clean", "infected", "error"}
  /\ sess' = [sess EXCEPT !.overdue = TRUE]
  /\ UNCHANGED <<file, object, limbo, put, call, job, archival, worker, budget>>

-----------------------------------------------------------------------------

PutEnds(u) == Store(u) \/ Interrupt(u)

CallStep(c) ==
  \/ Verify(c) \/ GiveBack(c) \/ Reject(c) \/ CreateFile(c)
  \/ Scan(c) \/ RecordScan(c) \/ Purge(c)

WorkerStep(w) == Renew(w) \/ Delete(w) \/ RecordCleanup(w) \/ JobCompletes(w)

Clock == Expire \/ AttemptExpires \/ WindowElapses \/ HourPasses

Next ==
  \/ \E u \in Puts :
       \/ ClaimPut(u) \/ PutEnds(u) \/ ReconcileStored(u) \/ RecordAmbiguous(u)
       \/ ProxyDies(u) \/ LimboEnds(u)
  \/ \E c \in Calls :
       \/ ClaimVerify(c) \/ CompleteExpired(c) \/ CallStep(c) \/ CallDies(c)
       \/ Cancel(c)
  \/ RegrantExpired
  \/ Archive
  \/ \E w \in Workers :
       \/ Select(w) \/ WorkerStep(w)
       \/ DeleteFails(w) \/ LeaseLost(w) \/ WorkerDies(w)
  \/ NotReady
  \/ DeleteArchived \/ RecordArchivedCleanup \/ ArchivedCleanupFails
  \/ ReconcileSession \/ ReconcileArchived
  \/ Clock

Spec == Init /\ [][Next]_vars

(***************************************************************************)
(* Fairness.  Requests are bounded by their own timeouts, the worker keeps *)
(* polling the queue and reconciling, and the clock advances; the user     *)
(* need not do anything.                                                   *)
(***************************************************************************)
Fairness ==
  /\ \A u \in Puts : /\ WF_vars(PutEnds(u)) /\ WF_vars(LimboEnds(u))
                     /\ WF_vars(ReconcileStored(u) \/ RecordAmbiguous(u))
  /\ \A c \in Calls : WF_vars(CallStep(c))
  /\ \A w \in Workers : WF_vars(WorkerStep(w))
  /\ WF_vars(NotReady \/ \E w \in Workers : Select(w))
  /\ WF_vars(DeleteArchived \/ RecordArchivedCleanup)
  /\ WF_vars(ReconcileSession) /\ WF_vars(ReconcileArchived)
  /\ WF_vars(Expire) /\ WF_vars(AttemptExpires)
  /\ WF_vars(WindowElapses) /\ WF_vars(HourPasses)

FairSpec == Spec /\ Fairness

-----------------------------------------------------------------------------
(* Properties. *)

\* Every variable has the shape of its row, request or job, and columns that
\* are written together agree: a live attempt is named and its window is open.
TypeOK ==
  /\ sess \in Session
  /\ sess.live => sess.attempt # None /\ ~sess.settled
  /\ sess.overdue => sess.expired
  /\ file \in File
  /\ file.state = "none" <=> sess.state # "completed"
  /\ file.cleaned => file.archived
  /\ job.owner # None <=> job.state = "running"
  /\ object \in BOOLEAN
  /\ limbo \subseteq Puts
  /\ put \in [Puts -> PutPhases]
  /\ call \in [Calls -> CallPhases]
  /\ job \in Job
  /\ archival \in {"none", "queued", "deleted", "terminal"}
  /\ worker \in [Workers -> WorkerState]
  /\ budget \in Nat

\* A file that users can download has its bytes: nothing deletes the object of
\* a session whose verification is under way or has succeeded, however the
\* verifier, the purges of other calls and the cleanup workers interleave.
AvailableFileIsStored == file.state = "available" /\ ~file.archived => object

\* When cleanup has been recorded and no PUT is still to be heard of, no object
\* is left that nobody will ever delete: the generation and the quiescence
\* window catch every publication that comes after the cleanup's delete.
NoOrphanedObject ==
  sess.cleaned /\ InFlight = {} /\ limbo = {} /\ object =>
    file.state = "available" /\ ~file.cleaned

\* While a PUT may still be published, its session is neither claimed by
\* another PUT nor selected for cleanup, unless its proxy has yet to report it.
AmbiguityIsFenced ==
  \A u \in limbo : put[u] = "failed" \/ ~sess.settled

\* A session that has ended stays ended: a verifier that comes back late does
\* not revive a session that was cancelled, expired or handed to cleanup.
NoResurrection ==
  [][/\ sess.state \in NeedCleanup => sess'.state \in NeedCleanup
     /\ sess.state = "completed" => sess'.state = "completed"]_vars

\* In the end the object exists only if a scanned file that was not archived
\* needs it, whatever was cancelled, lost, interrupted or killed before.
ObjectReclaimed ==
  <>[](object => file.state = "available" /\ ~file.archived)

-----------------------------------------------------------------------------
(* The inductive invariant of UploadSessionProofs. *)

Ended == NeedCleanup \cup {"completed"}

\* An archived file has its job.
ArchivalOK ==
  /\ archival # "none" <=> file.archived
  /\ file.archived => file.state # "none"

Verifying == {"verify", "retry", "reject", "create"}
Scanning == {"scan", "clean", "infected", "error"}

\* One call verifies, and meanwhile the session is its own or has been given up.
VerifierOK ==
  /\ \A c, d \in Calls : call[c] \in Verifying /\ call[d] \in Verifying => c = d
  /\ \A c \in Calls : call[c] \in Verifying => sess.state \in {"verifying"} \cup NeedCleanup

\* The bytes that were verified stay until the scan has been recorded.
CallOK(c) ==
  /\ call[c] = "create" /\ sess.state = "verifying" => object
  /\ call[c] \in Scanning /\ file.state = "quarantined" /\ ~file.archived => object
  /\ call[c] = "purge" => sess.state \in NeedCleanup \/ file.state = "rejected"

\* An hour after expiry nothing but cleanup is under way.
HourOK ==
  sess.overdue =>
    /\ InFlight = {} /\ limbo = {}
    /\ \A c \in Calls : call[c] \notin {"create"} \cup Scanning

\* A cleanup works for a session that has ended, and keeps the bytes of an available
\* file only.
WorkerOK(w) ==
  worker[w].phase # "idle" =>
    /\ sess.state \in Ended
    /\ sess.state \in NeedCleanup => ~worker[w].keep
    /\ sess.state = "completed" =>
         sess.overdue /\ (worker[w].keep \/ CleanCompletion => worker[w].keep /\ file.state = "available")

\* An interrupted PUT holds its window open, and no other attempt takes its place.
LimboOK ==
  \A u \in limbo :
    ~sess.settled /\ sess.attempt \in {u, None} /\ put[u] \in {"failed", "done"}

StoredPut == \E u \in Puts : put[u] = "stored"

\* A cleanup whose generation still stands has seen every publication, or its PUT is
\* still to be reconciled.
CleanupOK(w) ==
  worker[w].phase # "idle" =>
    /\ worker[w].gen <= sess.gen
    /\ sess.state \in NeedCleanup /\ worker[w].gen = sess.gen =>
         sess.settled /\ (worker[w].phase = "record" /\ object => StoredPut)
    /\ sess.state = "completed" =>
         IF worker[w].keep THEN file.cleaned \/ archival = "deleted" => ~object
         ELSE worker[w].phase = "record" => ~object

CleanedOK ==
  sess.cleaned =>
    /\ sess.state \in Ended
    /\ sess.state \in NeedCleanup => sess.settled /\ (object => StoredPut)
    /\ sess.state = "completed" =>
         /\ sess.overdue
         /\ object => file.state = "available"
         /\ file.cleaned \/ archival = "deleted" => ~object

FileInv ==
  /\ TypeOK /\ ArchivalOK /\ VerifierOK /\ HourOK /\ AvailableFileIsStored
  /\ \A c \in Calls : CallOK(c)
  /\ \A w \in Workers : WorkerOK(w)

CleanupInv ==
  /\ LimboOK /\ CleanedOK
  /\ \A w \in Workers : CleanupOK(w)

IInv == FileInv /\ (~LateAbort => CleanupInv)

=============================================================================
