----------------------------- MODULE MCRequests -----------------------------
(***************************************************************************)
(* Small instances of the modules behind the requests of the API: the      *)
(* idempotency of their writes (IdempotentWrite), the limiter they pass    *)
(* (TokenBucket), governed exports (GovernedExport), merges of people      *)
(* (PersonMerge), the index of what is written (SearchIndex), and an       *)
(* import, which ends in writes of its own (ImportExecution).  They share  *)
(* no state; which of them a behaviour is about is chosen at its start.    *)
(***************************************************************************)
EXTENDS IdempotentWrite, Integers, TLC

CONSTANTS
  Policies, Costs, Scale, Absent, MaxTime, BucketBudget, MaxStep,
  Commits, Approvals, MaxVersion, MaxLapses,
  Clients, Operations, MaxClock,
  People, Facts, Names, Edges, SelfEdges, Pairs, MaxMerges, MaxRows,
  Stagers, Workers, N, Limit, MaxAttempts, MaxJobs, ImportBudget

VARIABLES
  which,
  policy, bucket, clock, granted, elapsed, behind, result, budget,
  sensitive, data, covered, approval, artifact, file, object, commit, downloaded,
  fact, def, doc, tx, searchClock, unsure,
  person, owner, selected, edge, candidate, decision, merges, merging, home, ends,
  crossed,
  parsed, imp, rows, applied, importJob, stager, importWorker, allowed, pinned, importBudget

Bucket == INSTANCE TokenBucket WITH Budget <- BucketBudget

Export == INSTANCE GovernedExport

Search == INSTANCE SearchIndex WITH clock <- searchClock

Merge == INSTANCE PersonMerge

Import == INSTANCE ImportExecution WITH
  Budget <- ImportBudget,
  file <- parsed, job <- importJob, worker <- importWorker, budget <- importBudget

ASSUME BucketAssumption == Bucket!TokenBucketAssumption
ASSUME ExportAssumption == Export!GovernedExportAssumption
ASSUME SearchAssumption == Search!SearchIndexAssumption
ASSUME MergeAssumption == Merge!PersonMergeAssumption
ASSUME ImportAssumption == Import!ImportExecutionAssumption

bucketVars == <<policy, bucket, clock, granted, elapsed, behind, result, budget>>
exportVars ==
  <<sensitive, data, covered, approval, artifact, file, object, commit, downloaded>>
searchVars == <<fact, def, doc, tx, searchClock, unsure>>
mergeVars ==
  <<person, owner, selected, edge, candidate, decision, merges, merging, home, ends, crossed>>
importVars ==
  <<parsed, imp, rows, applied, importJob, stager, importWorker, allowed, pinned, importBudget>>

requestVars == <<vars, bucketVars, exportVars, searchVars, mergeVars>>

all == <<which, requestVars, importVars>>

MCPolicies ==
  {[capacity |-> 2, refill |-> 1, interval |-> 3, ttl |-> 6],
   [capacity |-> 2, refill |-> 3, interval |-> 5, ttl |-> 5],
   [capacity |-> 3, refill |-> 2, interval |-> 7, ttl |-> 14]}

MCCosts == {1, 2}

\* Where Clients, Stagers and Workers are the same set: sound where only
\* invariants and action properties are checked, as they are interchangeable.
MCSymmetry == Permutations(Workers)

\* A module that a behaviour is not about stays in one of its initial states.
MCInit ==
  /\ which \in {"write", "bucket", "export", "search", "merge", "import"}
  /\ Init /\ Bucket!Init /\ Export!Init /\ Search!Init /\ Merge!Init
  /\ Import!Init
  /\ which # "write" => path = "user"
  /\ which # "bucket" => policy = CHOOSE p \in Policies : TRUE
  /\ which # "export" => ~sensitive
  /\ which # "import" => parsed = [mode |-> "COMMIT", unusable |-> {}]

\* The steps of a module while the behaviour is about it.
Writes(A) ==
  /\ which = "write" /\ A
  /\ UNCHANGED <<which, bucketVars, exportVars, searchVars, mergeVars, importVars>>
Limits(A) ==
  which = "bucket" /\ A /\ UNCHANGED <<which, vars, exportVars, searchVars, mergeVars, importVars>>
Exports(A) ==
  which = "export" /\ A /\ UNCHANGED <<which, vars, bucketVars, searchVars, mergeVars, importVars>>
Searches(A) ==
  which = "search" /\ A /\ UNCHANGED <<which, vars, bucketVars, exportVars, mergeVars, importVars>>
Merges(A) ==
  which = "merge" /\ A /\ UNCHANGED <<which, vars, bucketVars, exportVars, searchVars, importVars>>
Imports(A) == which = "import" /\ A /\ UNCHANGED <<which, requestVars>>

MCNext ==
  \/ Writes(Next) \/ Limits(Bucket!Next) \/ Exports(Export!Next)
  \/ Searches(Search!Next) \/ Merges(Merge!Next) \/ Imports(Import!Next)

MCSpec == MCInit /\ [][MCNext]_all

-----------------------------------------------------------------------------

\* The type invariant of the module of requests that the behaviour is about.
TypesOK ==
  /\ which = "write" => TypeOK
  /\ which = "bucket" => Bucket!TypeOK
  /\ which = "export" => Export!TypeOK
  /\ which = "search" => Search!TypeOK
  /\ which = "merge" => Merge!TypeOK

\* TokenBucket: a living bucket grants what it holds and what flows in, to the
\* fraction, whatever polls it.
GrantsAtItsRate == which = "bucket" => Bucket!RateBound /\ Bucket!PollingIsNeutral

\* TokenBucket: a denied caller that waits as long as it is told is admitted.
RetryAfterSuffices == which = "bucket" => Bucket!RetryAfterSuffices

\* TokenBucket: a bucket that its expiry brings back full would have been full.
ExpiryIsHarmless == Bucket!ExpiryIsHarmless

\* GovernedExport: a ready artifact keeps its file and its bytes.
ReadyIsWhole == which = "export" => Export!ReadyIsWhole

\* GovernedExport: what is downloaded was approved by someone else.
DownloadIsApproved == which = "export" => Export!DownloadIsApproved

\* PersonMerge: in whatever order merges are undone, a record or relationship is found
\* at its person, or at the people that person was merged into, unless two merges have
\* moved it and the earlier was undone first.
RecordsFollow == which = "merge" => Merge!RecordsFollow

\* PersonMerge: a candidate is marked as canceled by a merge only while it stands,
\* unless a later merge has read the marker.
CandidatesComeBack == which = "merge" => Merge!CandidatesComeBack

\* SearchIndex: unless the last change was overtaken by a write that no lock keeps
\* apart from it, every fact is found, and as its definition is labelled now.
IndexFollows == which = "search" => Search!IndexFollows

\* ImportExecution: a row's record exists once if it succeeded in an import that commits.
RowsAppliedOnce == which = "import" => Import!RowsAppliedOnce

\* ImportExecution: a staged import has exactly the rows of its last generation.
StagedRowsAreExact == which = "import" => Import!StagedRowsAreExact

\* ImportExecution: an import under way is carried by a job that is not settled.
ImportEndsWithJob == which = "import" => Import!ImportEndsWithJob

=============================================================================
