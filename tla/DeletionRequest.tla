--------------------------- MODULE DeletionRequest ---------------------------
(***************************************************************************)
(* Governed deletion (src/modules/privacy): privacy requests and their     *)
(* review, legal holds, retention policies, the worker that deletes under  *)
(* a leased claim, and the processors that erase copies afterwards.        *)
(*                                                                         *)
(* Three ledgers describe one deletion: the privacy request, the local     *)
(* row of deletion_requests and the execution outcome.  Every transaction  *)
(* takes the workspace's advisory lock first, so each is one action;       *)
(* users pass the version they have read, so a decision applies to the     *)
(* state it was made on.                                                   *)
(***************************************************************************)
EXTENDS Naturals

CONSTANTS
  Requests,     \* privacy requests for the deletion of one scope
  Workers,      \* passes of the worker that overlap
  Processors,   \* privacyProcessors other than "files"
  MaxDrift,     \* bound: changes of the retention policy and of the legal basis
  MaxHolds,     \* bound: legal holds that are placed
  Budget,       \* bound: crashes and claims that run out under a worker
  None

DeletionRequestAssumption == MaxHolds \in Nat /\ Budget \in Nat

VARIABLES
  scope,      \* the people and files of the scope: deleted, held, cleaned up, and
              \* ambiguous: an AI thread about them has answers of no known run
  policy,     \* the retention policy in force: version and deletion behaviour
  basis,      \* purposes and consents in force, as a version
  request,    \* request[r]: the row of privacy_requests
  local,      \* local[r]: the state of its row of deletion_requests
  outcome,    \* outcome[r]: the row of privacy_execution_outcomes
  erased,     \* erased[r][p]: the state of the processor propagation
  worker,     \* worker[w]: the executor's candidate and claim
  holds, budget

vars == <<scope, policy, basis, request, local, outcome, erased, worker, holds, budget>>

-----------------------------------------------------------------------------

States == {"requested", "reviewing", "approved", "fulfilling",
           "completed", "rejected", "cancelled"}

AllProcessors == Processors \cup {"files"}

Policy == [version : Nat, action : {"soft_delete", "hard_delete"}]

\* currentPrivacyExecutionContract: what a reviewer approves.
CurrentContract == [policy |-> policy, basis |-> basis]

\* A reviewer is told from the requester, no more; the retention worker reviews nothing.
Request == [state : States \cup {"none"}, requester : {None, "user", "retention"},
            bound : Nat,         \* version of the policy a retention request names
            verified : BOOLEAN, reviewer : {None, "requester", "other"},
            contract : {None} \cup [policy : Policy, basis : Nat]]

NoRequest == [state |-> "none", requester |-> None, bound |-> 0, verified |-> FALSE,
              reviewer |-> None, contract |-> None]

\* A generation belongs to one claim, and a pass holds one claim at a time: the pass
\* stands for the generation.
Outcome == [state : {"none", "pending", "claimed", "completed", "rejected"},
            holder : Workers \cup {None}, live : BOOLEAN]

NoOutcome == [state |-> "none", holder |-> None, live |-> FALSE]

IdleWorker == [phase |-> "idle", request |-> None]

\* A queue row that predates the governed workflow has no request behind it.
Init ==
  /\ scope = [deleted |-> FALSE, held |-> FALSE, cleaned |-> FALSE, ambiguous |-> FALSE]
  /\ policy = [version |-> 0, action |-> "soft_delete"]
  /\ basis = 0
  /\ request = [r \in Requests |-> NoRequest]
  /\ \E orphans \in SUBSET Requests :
       local = [r \in Requests |-> IF r \in orphans THEN "approved" ELSE "none"]
  /\ outcome = [r \in Requests |-> NoOutcome]
  /\ erased = [r \in Requests |-> [p \in AllProcessors |-> "none"]]
  /\ worker = [w \in Workers |-> IdleWorker]
  /\ holds = 0
  /\ budget = Budget

Spend == budget > 0 /\ budget' = budget - 1

world == <<scope, policy, basis, holds>>

-----------------------------------------------------------------------------
(* Requests and their review. *)

Create(r, who) ==
  /\ request[r] = NoRequest /\ local[r] = "none"
  /\ ~scope.deleted
  /\ request' = [request EXCEPT ![r] =
       [NoRequest EXCEPT !.state = "requested", !.requester = who, !.bound = policy.version]]
  /\ UNCHANGED <<world, local, outcome, erased, worker, budget>>

\* createRequest
CreateRequest(r) == Create(r, "user")

\* An active legal hold on a person or file of the scope.
Held == scope.held

\* enqueueExpiredRetentionRequests: once for a policy version, not under a hold.
EnqueueRetention(r) ==
  /\ policy.action = "soft_delete"
  /\ ~Held
  /\ \A q \in Requests :
       ~(request[q].requester = "retention" /\ request[q].bound = policy.version)
  /\ Create(r, "retention")

Transitions ==
  [s \in States |->
    CASE s = "requested" -> {"reviewing", "approved", "rejected", "cancelled"}
      [] s = "reviewing" -> {"approved", "rejected", "cancelled"}
      [] s = "approved" -> {"fulfilling", "cancelled"}
      [] s = "fulfilling" -> {"completed", "rejected"}
      [] OTHER -> {}]

May(r, to) == request[r].state \in States /\ to \in Transitions[request[r].state]

\* Mutant: whoever asked may approve.
IndependentMutant(r, u) == TRUE

Independent(r, u) == u = "other"

\* reviewRequest, with or without new evidence of the requester's identity.
Review(r, u, to, evidence) ==
  /\ May(r, to)
  /\ u = "requester" => request[r].requester = "user"
  /\ to = "approved" => (evidence \/ request[r].verified) /\ Independent(r, u)
  /\ request' = [request EXCEPT ![r].state = to, ![r].reviewer = u,
                   ![r].verified = @ \/ evidence,
                   ![r].contract = IF to = "approved" THEN CurrentContract ELSE @]
  /\ UNCHANGED <<world, local, outcome, erased, worker, budget>>

ReviewRequest(r) ==
  \E u \in {"requester", "other"}, to \in {"reviewing", "approved", "rejected"} :
    \E evidence \in BOOLEAN : Review(r, u, to, evidence)

CancelRequest(r) ==
  /\ May(r, "cancelled")
  /\ request' = [request EXCEPT ![r].state = "cancelled"]
  /\ UNCHANGED <<world, local, outcome, erased, worker, budget>>

\* retentionRequestPolicyIsCurrent
PolicyIsCurrent(r) ==
  request[r].requester = "retention" => request[r].bound = policy.version

Reviewed(r) == request[r].reviewer # None /\ request[r].verified

\* fulfillRequest, from approved: nothing is deleted yet.
StartFulfillment(r) ==
  /\ May(r, "fulfilling")
  /\ Reviewed(r)
  /\ request[r].contract = CurrentContract
  /\ PolicyIsCurrent(r)
  /\ ~Held
  /\ request' = [request EXCEPT ![r].state = "fulfilling"]
  /\ local' = [local EXCEPT ![r] = "approved"]
  /\ outcome' = [outcome EXCEPT ![r].state = "pending"]
  /\ erased' = [erased EXCEPT ![r] = [p \in AllProcessors |-> "pending"]]
  /\ UNCHANGED <<world, worker, budget>>

\* privacyPropagationIsComplete
Propagated(r) == \A p \in AllProcessors : erased[r][p] = "done"

\* fulfillRequest, from fulfilling, with completion evidence.
CompleteFulfillment(r) ==
  /\ May(r, "completed")
  /\ Reviewed(r)
  /\ PolicyIsCurrent(r)
  /\ ~Held
  /\ local[r] = "completed"
  /\ outcome[r].state = "completed"
  /\ Propagated(r)
  /\ request' = [request EXCEPT ![r].state = "completed"]
  /\ UNCHANGED <<world, local, outcome, erased, worker, budget>>

-----------------------------------------------------------------------------
(* Holds, policies, purposes and consents. *)

CreateLegalHold ==
  /\ ~scope.held /\ ~scope.deleted
  /\ holds < MaxHolds
  /\ holds' = holds + 1
  /\ scope' = [scope EXCEPT !.held = TRUE]
  /\ UNCHANGED <<policy, basis, request, local, outcome, erased, worker, budget>>

ReleaseLegalHold ==
  /\ scope.held
  /\ scope' = [scope EXCEPT !.held = FALSE]
  /\ UNCHANGED <<policy, basis, request, local, outcome, erased, worker, holds, budget>>

\* A thread with answers that an earlier release left without their run is used for a
\* person of the scope, or purged.
LineageChanges ==
  /\ ~scope.deleted
  /\ scope' = [scope EXCEPT !.ambiguous = ~@]
  /\ UNCHANGED <<policy, basis, request, local, outcome, erased, worker, holds, budget>>

PolicyChanges ==
  /\ policy.version + basis < MaxDrift
  /\ \E a \in {"soft_delete", "hard_delete"} :
       policy' = [version |-> policy.version + 1, action |-> a]
  /\ UNCHANGED <<scope, basis, request, local, outcome, erased, worker, holds, budget>>

\* A purpose or consent is written, withdrawn, takes effect or lapses.
BasisChanges ==
  /\ policy.version + basis < MaxDrift
  /\ basis' = basis + 1
  /\ UNCHANGED <<scope, policy, request, local, outcome, erased, worker, holds, budget>>

-----------------------------------------------------------------------------
(* executeApprovedDeletionRequests. *)

\* Candidates are read without a lock.
Select(w, r) ==
  /\ worker[w].phase = "idle"
  /\ local[r] = "approved"
  /\ worker' = [worker EXCEPT ![w] = [IdleWorker EXCEPT !.phase = "claim", !.request = r]]
  /\ UNCHANGED <<world, request, local, outcome, erased, budget>>

\* Mutant: a claim that has run out is not taken over.
ClaimableMutant(r) == outcome[r].state = "pending"

Claimable(r) ==
  \/ outcome[r].state = "pending"
  \/ outcome[r].state = "claimed" /\ ~outcome[r].live

\* claimPrivacyExecution.  A row without a request goes on without a claim.
Claim(w) ==
  LET r == worker[w].request IN
    /\ worker[w].phase = "claim"
    /\ IF request[r] = NoRequest
         THEN /\ worker' = [worker EXCEPT ![w].phase = "execute"]
              /\ UNCHANGED outcome
       ELSE IF request[r].state = "fulfilling" /\ Claimable(r)
         THEN /\ outcome' = [outcome EXCEPT ![r] =
                   [state |-> "claimed", holder |-> w, live |-> TRUE]]
              /\ worker' = [worker EXCEPT ![w].phase = "execute"]
         ELSE /\ worker' = [worker EXCEPT ![w] = IdleWorker]
              /\ UNCHANGED outcome
    /\ UNCHANGED <<world, request, local, erased, budget>>

\* assertPrivacyExecutionClaim; the request lock is skipped if the row is taken.
HoldsClaim(w) ==
  LET o == outcome[worker[w].request] IN
    o.state = "claimed" /\ o.holder = w /\ o.live

\* Mutant: the receipt is left to the release.
EndedMutant(r, o) == outcome[r]

Ended(r, o) ==
  IF request[r] = NoRequest THEN outcome[r]
  ELSE [state |-> o, holder |-> None, live |-> FALSE]

Reject(r) ==
  /\ local' = [local EXCEPT ![r] = "rejected"]
  /\ outcome' = [outcome EXCEPT ![r] = Ended(r, "rejected")]
  /\ request' = IF request[r].state = "fulfilling"
                  THEN [request EXCEPT ![r].state = "rejected"] ELSE request
  /\ UNCHANGED scope

Delete(r) ==
  /\ scope' = [scope EXCEPT !.deleted = TRUE]
  /\ local' = [local EXCEPT ![r] = "completed"]
  /\ outcome' = [outcome EXCEPT ![r] = Ended(r, "completed")]
  /\ UNCHANGED request

Leave == UNCHANGED <<scope, request, local, outcome>>

\* Mutant: the contract is not compared again.
DriftedMutant(r) == FALSE

Drifted(r) == request[r].contract # CurrentContract

\* hard_delete and anonymize have no executor.
Unsupported == policy.action = "hard_delete"

\* The decision of the executing transaction, in the order of its checks.  A
\* request whose policy has changed, or whose scope is held or of ambiguous lineage, is
\* marked and left.
Decide(w) ==
  LET r == worker[w].request IN
    IF local[r] # "approved" THEN Leave
    ELSE IF request[r] # NoRequest /\ ~HoldsClaim(w) THEN Leave
    ELSE IF request[r] = NoRequest THEN Reject(r)
    ELSE IF request[r].state # "fulfilling" \/ ~Reviewed(r) THEN Leave
    ELSE IF ~PolicyIsCurrent(r) THEN Leave
    ELSE IF scope.deleted THEN Reject(r)
    ELSE IF scope.ambiguous THEN Leave
    ELSE IF Drifted(r) THEN Reject(r)
    ELSE IF Held THEN Leave
    ELSE IF Unsupported THEN Reject(r)
    ELSE Delete(r)

Execute(w) ==
  /\ worker[w].phase = "execute"
  /\ Decide(w)
  /\ worker' = [worker EXCEPT ![w].phase = "release"]
  /\ UNCHANGED <<policy, basis, holds, erased, budget>>

\* The transaction rolls back, or its commit goes unnoticed.
ExecuteErrs(w) ==
  /\ worker[w].phase = "execute"
  /\ Spend
  /\ Decide(w) \/ Leave
  /\ worker' = [worker EXCEPT ![w].phase = "release"]
  /\ UNCHANGED <<policy, basis, holds, erased>>

\* releasePrivacyExecution: this generation only, terminal receipts never.
Release(w) ==
  LET r == worker[w].request IN
    /\ worker[w].phase = "release"
    /\ outcome' =
         IF outcome[r].state = "claimed" /\ outcome[r].holder = w
           THEN [outcome EXCEPT ![r] = [NoOutcome EXCEPT !.state = "pending"]] ELSE outcome
    /\ worker' = [worker EXCEPT ![w] = IdleWorker]
    /\ UNCHANGED <<world, request, local, erased, budget>>

WorkerCrash(w) ==
  /\ worker[w].phase # "idle"
  /\ Spend
  /\ worker' = [worker EXCEPT ![w] = IdleWorker]
  /\ UNCHANGED <<world, request, local, outcome, erased>>

Tended(r) ==
  \E w \in Workers :
    outcome[r].holder = w /\ worker[w].request = r /\ worker[w].phase # "claim"

ClaimExpires(r) ==
  /\ outcome[r].live
  /\ IF Tended(r) THEN Spend ELSE UNCHANGED budget
  /\ outcome' = [outcome EXCEPT ![r].live = FALSE]
  /\ UNCHANGED <<world, request, local, erased, worker>>

-----------------------------------------------------------------------------
(* executePrivacyPropagations. *)

\* The storage cleanup of UploadSession, for an archived file.
CleanUpFiles ==
  /\ scope.deleted /\ ~scope.cleaned
  /\ scope' = [scope EXCEPT !.cleaned = TRUE]
  /\ UNCHANGED <<policy, basis, request, local, outcome, erased, worker, holds, budget>>

Eligible(r) ==
  /\ request[r].state = "fulfilling" /\ Reviewed(r)
  /\ ~Held
  /\ local[r] = "completed"

\* An adapter answers or fails; "files" has an answer once they are cleaned up.
Propagate(r, p) ==
  /\ Eligible(r)
  /\ erased[r][p] \in {"pending", "failed"}
  /\ \E s \in {"done", "failed"} :
       /\ p = "files" => (s = "done" <=> scope.cleaned)
       /\ erased' = [erased EXCEPT ![r][p] = s]
  /\ UNCHANGED <<world, request, local, outcome, worker, budget>>

-----------------------------------------------------------------------------

Step(w) == Claim(w) \/ Execute(w) \/ Release(w)

Next ==
  \/ \E r \in Requests :
       \/ CreateRequest(r) \/ EnqueueRetention(r)
       \/ ReviewRequest(r) \/ CancelRequest(r)
       \/ StartFulfillment(r) \/ CompleteFulfillment(r)
       \/ ClaimExpires(r)
       \/ \E p \in AllProcessors : Propagate(r, p)
  \/ CreateLegalHold \/ ReleaseLegalHold
  \/ LineageChanges \/ PolicyChanges \/ BasisChanges
  \/ \E w \in Workers :
       \/ \E r \in Requests : Select(w, r)
       \/ Step(w) \/ ExecuteErrs(w) \/ WorkerCrash(w)
  \/ CleanUpFiles

Spec == Init /\ [][Next]_vars

(***************************************************************************)
(* Fairness.  Passes follow one another and read every approved row (one   *)
(* batch holds a hundred); a claim nobody works under runs out.            *)
(***************************************************************************)
Fairness ==
  /\ \A w \in Workers : WF_vars(Step(w))
  /\ \A r \in Requests : SF_vars(\E w \in Workers : Select(w, r))
  /\ \A r \in Requests : WF_vars(~Tended(r) /\ ClaimExpires(r))

FairSpec == Spec /\ Fairness

-----------------------------------------------------------------------------
(* Properties. *)

RowsOK ==
  /\ scope \in [deleted : BOOLEAN, held : BOOLEAN, cleaned : BOOLEAN, ambiguous : BOOLEAN]
  /\ policy \in Policy /\ basis \in Nat
  /\ request \in [Requests -> Request]
  /\ local \in [Requests -> {"none", "approved", "completed", "rejected"}]
  /\ outcome \in [Requests -> Outcome]
  /\ erased \in [Requests -> [AllProcessors -> {"none", "pending", "failed", "done"}]]

WorkersOK ==
  worker \in [Workers -> [phase : {"idle"}, request : {None}]
                 \cup [phase : {"claim", "execute", "release"}, request : Requests]]

\* Only a claim has a holder, or a lease.
LeaseOK(r) ==
  outcome[r].state # "claimed" => outcome[r].holder = None /\ ~outcome[r].live

\* Every variable has the shape of its rows.
TypeOK ==
  /\ RowsOK /\ WorkersOK
  /\ \A r \in Requests : LeaseOK(r)
  /\ holds \in 0..MaxHolds /\ budget \in 0..Budget

\* The scope is deleted only for a request that someone other than its requester
\* approved on the policy and the legal basis in force at that very moment, and
\* never under a hold or with answers of unknown runs about it, however long ago it was
\* approved and claimed.
DeletedAsApproved ==
  [][scope'.deleted # scope.deleted =>
       /\ ~scope.held /\ ~scope.ambiguous
       /\ \E r \in Requests :
            /\ request[r].state = "fulfilling" /\ request[r].verified
            /\ request[r].reviewer = "other"
            /\ request[r].contract = CurrentContract
            /\ policy.action = "soft_delete"]_vars

LedgersAgreeOn(r) ==
  request[r] # NoRequest =>
    /\ local[r] = "completed" <=> outcome[r].state = "completed"
    /\ local[r] = "rejected" <=> outcome[r].state = "rejected"
    /\ local[r] = "rejected" => request[r].state = "rejected"
    /\ local[r] = "approved" =>
         /\ request[r].state \in {"fulfilling", "rejected"}
         /\ outcome[r].state \in {"pending", "claimed"}
    /\ \A p \in AllProcessors : erased[r][p] \in {"failed", "done"} => local[r] = "completed"
    /\ request[r].state = "completed" =>
         local[r] = "completed" /\ scope.cleaned /\ \A p \in AllProcessors : erased[r][p] = "done"

\* The ledgers tell one story: the local row and its receipt end together and
\* alike, a rejected execution rejects the request, an execution still to come has a
\* request that waits for it or that a reviewer has stopped, no processor erases
\* before the deletion it follows, and a completed request has all of it behind it.
LedgersAgree == \A r \in Requests : LedgersAgreeOn(r)

\* A deletion that is under way is executed or rejected, unless its retention
\* policy has changed, its scope is held or of ambiguous lineage, or a reviewer has
\* stopped its request, whatever crashed with a claim.
ExecutionSettles ==
  \A r \in Requests :
    local[r] = "approved" ~>
      \/ local[r] # "approved" \/ request[r].state = "rejected"
      \/ scope.held \/ scope.ambiguous \/ ~PolicyIsCurrent(r)

-----------------------------------------------------------------------------
(* The inductive invariant of WorkerProofs. *)

\* Until it is fulfilled, a request has no ledger but its own.
Untouched(r) ==
  request[r].state \notin {"fulfilling", "completed", "rejected"} =>
    /\ outcome[r].state = "none"
    /\ \A p \in AllProcessors : erased[r][p] = "none"
    /\ request[r] # NoRequest => local[r] = "none"

\* What is fulfilled has been approved by someone else.
ApprovedByOther(r) ==
  request[r].state \in {"approved", "fulfilling", "completed"} =>
    request[r].reviewer = "other" /\ request[r].verified

Agreed(r) ==
  /\ request[r].state = "none" => request[r] = NoRequest
  /\ LedgersAgreeOn(r)
  /\ Untouched(r)
  /\ ApprovedByOther(r)
  /\ LeaseOK(r)
  /\ erased[r]["files"] = "done" => scope.cleaned

IInv == RowsOK /\ WorkersOK /\ \A r \in Requests : Agreed(r)

=============================================================================
