------------------------------ MODULE MCFiles ------------------------------
(***************************************************************************)
(* Small instances of the two modules about a user's files: their upload   *)
(* and cleanup (UploadSession), and the import of one (ImportExecution).   *)
(* They share no state; which of them a behaviour is about is chosen at    *)
(* its start.                                                              *)
(***************************************************************************)
EXTENDS UploadSession

CONSTANTS Stagers, N, Limit, MaxAttempts, MaxJobs, ImportBudget

VARIABLES
  which,
  parsed, imp, rows, applied, importJob, stager, importWorker, allowed, pinned, importBudget

Import == INSTANCE ImportExecution WITH
  Budget <- ImportBudget,
  file <- parsed, job <- importJob, worker <- importWorker, budget <- importBudget

ASSUME ImportAssumption == Import!ImportExecutionAssumption

importVars ==
  <<parsed, imp, rows, applied, importJob, stager, importWorker, allowed, pinned, importBudget>>

all == <<which, vars, importVars>>

\* A module that a behaviour is not about stays in one of its initial states.
MCInit ==
  /\ which \in {"upload", "import"}
  /\ Init /\ Import!Init
  /\ which = "upload" => parsed = [mode |-> "COMMIT", unusable |-> {}]

\* The steps of a module while the behaviour is about it.
Uploads(A) == which = "upload" /\ A /\ UNCHANGED <<which, importVars>>
Imports(A) == which = "import" /\ A /\ UNCHANGED <<which, vars>>

MCNext == Uploads(Next) \/ Imports(Import!Next)

\* The fairness of each module, for the behaviours that are about it.
UploadFairness ==
  /\ \A u \in Puts : /\ WF_vars(which = "upload" /\ PutEnds(u))
                     /\ WF_vars(which = "upload" /\ LimboEnds(u))
                     /\ WF_vars(which = "upload" /\ (ReconcileStored(u) \/ RecordAmbiguous(u)))
  /\ \A c \in Calls : WF_vars(which = "upload" /\ CallStep(c))
  /\ \A w \in Workers : WF_vars(which = "upload" /\ WorkerStep(w))
  /\ WF_vars(which = "upload" /\ (NotReady \/ \E w \in Workers : Select(w)))
  /\ WF_vars(which = "upload" /\ (DeleteArchived \/ RecordArchivedCleanup))
  /\ WF_vars(which = "upload" /\ ReconcileSession)
  /\ WF_vars(which = "upload" /\ ReconcileArchived)
  /\ WF_vars(which = "upload" /\ Expire) /\ WF_vars(which = "upload" /\ AttemptExpires)
  /\ WF_vars(which = "upload" /\ WindowElapses) /\ WF_vars(which = "upload" /\ HourPasses)

ImportFairness ==
  /\ \A w \in Workers : /\ WF_importVars(which = "import" /\ Import!ClaimDue(w))
                        /\ WF_importVars(which = "import" /\ Import!WorkerStep(w))
  /\ \A j \in Import!Jobs :
       WF_importVars(which = "import" /\ ~Import!Tended(j) /\ Import!JobLeaseExpires(j))
  /\ \A n \in Import!Numbers : WF_importVars(which = "import" /\ Import!RowAges(n))

MCSpec == MCInit /\ [][MCNext]_all /\ UploadFairness /\ ImportFairness

-----------------------------------------------------------------------------

\* The type invariants of both modules.
TypesOK == TypeOK /\ Import!TypeOK

\* UploadSession: in the end an object exists only if an available file needs it
\* (ObjectReclaimed).
\* ImportExecution: a started import ends or is dead-lettered (ImportSettles), and as its
\* retries are bounded, is under way no more from some time on.  One formula for the
\* two, as which never changes.
FilesSettle ==
  <>[](IF which = "upload" THEN object => file.state = "available" /\ ~file.archived
                           ELSE imp.state \notin {"queued", "running"})

=============================================================================
