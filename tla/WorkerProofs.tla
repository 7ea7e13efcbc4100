---------------------------- MODULE WorkerProofs ----------------------------
(***************************************************************************)
(* Proofs about what MCWorker composes, for any sets and bounds.           *)
(*                                                                         *)
(* DeletionRequest: the ledgers of a governed deletion agree, and it       *)
(* happens on what was approved.  WorkerProcess: every exit is earned.     *)
(* AuthEmailOutbox: a claim is settled by its holder, and cancellation     *)
(* waits for it.  The inductive invariants (IInv) are in the modules they  *)
(* are about.  The last part carries these results, and what               *)
(* WebhookDeliveryProofs proves, over to the composition.                  *)
(***************************************************************************)
EXTENDS MCWorker, TLAPS

-----------------------------------------------------------------------------
(* The operators the actions are built from. *)

\* What a transition of assertPrivacyTransition comes from.
LEMMA MayFrom ==
  ASSUME NEW r \in Requests, NEW to \in States, May(r, to)
  PROVE  /\ request[r].state \in {"requested", "reviewing", "approved", "fulfilling"}
         /\ to \in {"reviewing", "approved", "cancelled"} =>
              request[r].state \in {"requested", "reviewing", "approved"}
         /\ to = "approved" => request[r].state \in {"requested", "reviewing"}
         /\ to = "reviewing" => request[r].state = "requested"
         /\ to = "fulfilling" => request[r].state = "approved"
         /\ to = "completed" => request[r].state = "fulfilling"
         /\ to = "rejected" => request[r].state # "approved"
         /\ to # "requested"
<1>1. request[r].state \in States /\ to \in Transitions[request[r].state]
  BY DEF May
<1>2. Transitions[request[r].state] =
        (CASE request[r].state = "requested" -> {"reviewing", "approved", "rejected", "cancelled"}
           [] request[r].state = "reviewing" -> {"approved", "rejected", "cancelled"}
           [] request[r].state = "approved" -> {"fulfilling", "cancelled"}
           [] request[r].state = "fulfilling" -> {"completed", "rejected"}
           [] OTHER -> {})
  BY <1>1 DEF Transitions
<1> QED BY <1>1, <1>2 DEF States

\* A new request, a review and a change of state keep the row's shape.
LEMMA RequestRows ==
  ASSUME NEW q \in Request, NEW s \in States, NEW u \in {"requester", "other"},
         NEW e \in BOOLEAN, NEW who \in {"user", "retention"}, NEW n \in Nat,
         NEW k \in {None} \cup [policy : Policy, basis : Nat]
  PROVE  /\ [q EXCEPT !.state = s] \in Request
         /\ [q EXCEPT !.state = s, !.reviewer = u, !.verified = e, !.contract = k] \in Request
         /\ [NoRequest EXCEPT !.state = "requested", !.requester = who, !.bound = n] \in Request
<1>1. NoRequest = [state |-> "none", requester |-> None, bound |-> 0, verified |-> FALSE,
                   reviewer |-> None, contract |-> None]
  BY DEF NoRequest
<1>2. NoRequest \in Request
  BY <1>1 DEF Request, States
<1>3. [q EXCEPT !.state = s] \in Request
  BY DEF Request
<1>4. [q EXCEPT !.state = s, !.reviewer = u, !.verified = e, !.contract = k] \in Request
  BY DEF Request
<1>5. [NoRequest EXCEPT !.state = "requested", !.requester = who, !.bound = n] \in Request
  BY <1>2 DEF Request, States
<1> QED BY <1>3, <1>4, <1>5

\* What a reviewer approves has the shape of a contract.
LEMMA ContractOK ==
  ASSUME RowsOK PROVE CurrentContract \in [policy : Policy, basis : Nat]
BY DEF RowsOK, CurrentContract

-----------------------------------------------------------------------------
(* Every step keeps the shape of the rows. *)

LEMMA CreateRows ==
  ASSUME RowsOK, NEW r \in Requests, NEW who \in {"user", "retention"}, Create(r, who)
  PROVE  RowsOK'
<1>1. request' = [request EXCEPT ![r] =
        [NoRequest EXCEPT !.state = "requested", !.requester = who, !.bound = policy.version]]
  BY DEF Create
<1>2. policy.version \in Nat
  BY DEF RowsOK, Policy
<1>3. [NoRequest EXCEPT !.state = "requested", !.requester = who, !.bound = policy.version]
        \in Request
  BY <1>2, RequestRows DEF RowsOK, States
<1>4. request' \in [Requests -> Request]
  BY <1>1, <1>3 DEF RowsOK
<1> QED BY <1>4 DEF Create, world, RowsOK

\* The requests that only change their state.
LEMMA StateRows ==
  ASSUME RowsOK, NEW r \in Requests, NEW s \in States,
         request' = [request EXCEPT ![r].state = s]
  PROVE  request' \in [Requests -> Request]
<1>1. request[r] \in Request
  BY DEF RowsOK
<1>2. [request[r] EXCEPT !.state = s] \in Request
  BY <1>1 DEF Request
<1> QED BY <1>2 DEF RowsOK

LEMMA ReviewRows ==
  ASSUME RowsOK, NEW r \in Requests, ReviewRequest(r)
  PROVE  RowsOK'
<1>1. PICK u \in {"requester", "other"}, to \in {"reviewing", "approved", "rejected"},
           evidence \in BOOLEAN : Review(r, u, to, evidence)
  BY DEF ReviewRequest
<1>2. request[r] \in Request /\ to \in States
  BY DEF RowsOK, States
<1>3. (request[r].verified \/ evidence) \in BOOLEAN
  OBVIOUS
<1>4. (IF to = "approved" THEN CurrentContract ELSE request[r].contract)
        \in {None} \cup [policy : Policy, basis : Nat]
  BY <1>2, ContractOK DEF Request
<1>5. [request[r] EXCEPT !.state = to, !.reviewer = u,
          !.verified = request[r].verified \/ evidence,
          !.contract = IF to = "approved" THEN CurrentContract ELSE request[r].contract]
        \in Request
  BY <1>2, <1>3, <1>4, RequestRows
<1>6. request' = [request EXCEPT ![r] = [request[r] EXCEPT !.state = to, !.reviewer = u,
          !.verified = request[r].verified \/ evidence,
          !.contract = IF to = "approved" THEN CurrentContract ELSE request[r].contract]]
  BY <1>1 DEF Review
<1>7. request' \in [Requests -> Request]
  BY <1>5, <1>6 DEF RowsOK
<1> QED BY <1>1, <1>7 DEF Review, world, RowsOK

LEMMA FulfillRows ==
  ASSUME RowsOK, NEW r \in Requests,
         CancelRequest(r) \/ StartFulfillment(r) \/ CompleteFulfillment(r)
  PROVE  RowsOK'
<1>1. CASE CancelRequest(r)
  BY <1>1, StateRows DEF CancelRequest, world, RowsOK, States
<1>2. CASE CompleteFulfillment(r)
  BY <1>2, StateRows DEF CompleteFulfillment, world, RowsOK, States
<1>3. CASE StartFulfillment(r)
  <2>1. request' \in [Requests -> Request]
    BY <1>3, StateRows DEF StartFulfillment, States
  <2>2. local' \in [Requests -> {"none", "approved", "completed", "rejected"}]
    BY <1>3 DEF StartFulfillment, RowsOK
  <2>3. outcome' \in [Requests -> Outcome]
    BY <1>3 DEF StartFulfillment, RowsOK, Outcome
  <2>4. erased' \in [Requests -> [AllProcessors -> {"none", "pending", "failed", "done"}]]
    BY <1>3 DEF StartFulfillment, RowsOK
  <2> QED BY <1>3, <2>1, <2>2, <2>3, <2>4 DEF StartFulfillment, world, RowsOK
<1> QED BY <1>1, <1>2, <1>3

LEMMA WorldRows ==
  ASSUME RowsOK,
         \/ CreateLegalHold \/ ReleaseLegalHold \/ LineageChanges
         \/ PolicyChanges \/ BasisChanges \/ CleanUpFiles
  PROVE  RowsOK'
<1>1. CASE CreateLegalHold BY <1>1 DEF CreateLegalHold, RowsOK
<1>2. CASE ReleaseLegalHold BY <1>2 DEF ReleaseLegalHold, RowsOK
<1>6. CASE LineageChanges BY <1>6 DEF LineageChanges, RowsOK
<1>3. CASE CleanUpFiles BY <1>3 DEF CleanUpFiles, RowsOK
<1>4. CASE BasisChanges BY <1>4 DEF BasisChanges, RowsOK
<1>5. CASE PolicyChanges
  <2>1. policy.version + 1 \in Nat
    BY DEF RowsOK, Policy
  <2>2. PICK a \in {"soft_delete", "hard_delete"} :
          policy' = [version |-> policy.version + 1, action |-> a]
    BY <1>5 DEF PolicyChanges
  <2>3. policy' \in Policy
    BY <2>1, <2>2 DEF Policy
  <2> QED BY <1>5, <2>3 DEF PolicyChanges, RowsOK
<1> QED BY <1>1, <1>2, <1>3, <1>4, <1>5, <1>6

\* A decision of the executor is one of three, whatever the checks before it.
LEMMA Decisions ==
  ASSUME NEW w \in Workers, Decide(w)
  PROVE  LET r == worker[w].request IN
           \/ Leave
           \/ /\ Reject(r) /\ local[r] = "approved"
              /\ request[r] = NoRequest \/ request[r].state = "fulfilling"
           \/ /\ Delete(r) /\ local[r] = "approved"
              /\ request[r].state = "fulfilling" /\ Reviewed(r) /\ request[r] # NoRequest
              /\ ~scope.ambiguous /\ ~Drifted(r) /\ ~Held /\ ~Unsupported
BY DEF Decide

LEMMA DecideRows ==
  ASSUME RowsOK, NEW w \in Workers, Decide(w), UNCHANGED <<policy, basis, holds, erased>>
  PROVE  RowsOK'
<1> DEFINE r == worker[w].request
<1>1. CASE Leave BY <1>1 DEF Leave, RowsOK
<1>e. ASSUME NEW o \in {"completed", "rejected"},
             outcome' = [outcome EXCEPT ![r] = Ended(r, o)]
      PROVE  outcome' \in [Requests -> Outcome]
  <2>1. CASE r \in Requests
    <3>1. Ended(r, o) \in Outcome
      BY <2>1 DEF Ended, Outcome, RowsOK
    <3> QED BY <1>e, <3>1 DEF RowsOK
  <2>2. CASE r \notin Requests
    BY <1>e, <2>2 DEF RowsOK
  <2> QED BY <2>1, <2>2
<1>2. CASE Reject(r) /\ (request[r] = NoRequest \/ request[r].state = "fulfilling")
  <2>1. local' \in [Requests -> {"none", "approved", "completed", "rejected"}]
    BY <1>2 DEF Reject, RowsOK
  <2>2. outcome' \in [Requests -> Outcome]
    BY <1>2, <1>e DEF Reject
  <2>3. request' \in [Requests -> Request]
    <3>1. CASE r \in Requests /\ request[r].state = "fulfilling"
      BY <1>2, <3>1, StateRows DEF Reject, States
    <3>2. CASE r \notin Requests
      BY <1>2, <3>2 DEF Reject, RowsOK
    <3>3. CASE request[r].state # "fulfilling"
      BY <1>2, <3>3 DEF Reject, RowsOK
    <3> QED BY <3>1, <3>2, <3>3
  <2> QED BY <1>2, <2>1, <2>2, <2>3 DEF Reject, RowsOK
<1>3. CASE Delete(r)
  <2>1. local' \in [Requests -> {"none", "approved", "completed", "rejected"}]
    BY <1>3 DEF Delete, RowsOK
  <2>2. outcome' \in [Requests -> Outcome]
    BY <1>3, <1>e DEF Delete
  <2> QED BY <1>3, <2>1, <2>2 DEF Delete, RowsOK
<1> QED BY <1>1, <1>2, <1>3, Decisions

LEMMA ClaimRows ==
  ASSUME RowsOK, NEW w \in Workers, Claim(w) \/ Release(w)
  PROVE  RowsOK'
<1> DEFINE r == worker[w].request
<1>1. CASE Claim(w)
  <2>1. \/ outcome' = outcome
        \/ outcome' = [outcome EXCEPT ![r] = [state |-> "claimed", holder |-> w, live |-> TRUE]]
    BY <1>1 DEF Claim
  <2>2. [state |-> "claimed", holder |-> w, live |-> TRUE] \in Outcome
    BY DEF Outcome
  <2>3. outcome' \in [Requests -> Outcome]
    BY <2>1, <2>2 DEF RowsOK
  <2> QED BY <1>1, <2>3 DEF Claim, world, RowsOK
<1>2. CASE Release(w)
  <2>1. outcome' \in [Requests -> Outcome]
    BY <1>2 DEF Release, RowsOK, Outcome, NoOutcome
  <2> QED BY <1>2, <2>1 DEF Release, world, RowsOK
<1> QED BY <1>1, <1>2

LEMMA RowsStep == ASSUME RowsOK, [Next]_vars PROVE RowsOK'
<1>1. ASSUME NEW r \in Requests, CreateRequest(r) \/ EnqueueRetention(r) PROVE RowsOK'
  BY <1>1, CreateRows DEF CreateRequest, EnqueueRetention
<1>2. ASSUME NEW r \in Requests, ReviewRequest(r) PROVE RowsOK'
  BY <1>2, ReviewRows
<1>3. ASSUME NEW r \in Requests,
             CancelRequest(r) \/ StartFulfillment(r) \/ CompleteFulfillment(r)
      PROVE  RowsOK'
  BY <1>3, FulfillRows
<1>4. ASSUME NEW r \in Requests, ClaimExpires(r) PROVE RowsOK'
  <2>1. outcome' \in [Requests -> Outcome]
    BY <1>4 DEF ClaimExpires, RowsOK, Outcome
  <2> QED BY <1>4, <2>1 DEF ClaimExpires, world, RowsOK
<1>5. ASSUME NEW r \in Requests, NEW p \in AllProcessors, Propagate(r, p) PROVE RowsOK'
  BY <1>5 DEF Propagate, world, RowsOK
<1>6. CASE \/ CreateLegalHold \/ ReleaseLegalHold \/ LineageChanges
           \/ PolicyChanges \/ BasisChanges \/ CleanUpFiles
  BY <1>6, WorldRows
<1>7. ASSUME NEW w \in Workers, NEW r \in Requests, Select(w, r) PROVE RowsOK'
  BY <1>7 DEF Select, world, RowsOK
<1>8. ASSUME NEW w \in Workers, Claim(w) \/ Release(w) PROVE RowsOK'
  BY <1>8, ClaimRows
<1>9. ASSUME NEW w \in Workers, Execute(w) \/ ExecuteErrs(w) PROVE RowsOK'
  <2>1. CASE Decide(w)
    BY <1>9, <2>1, DecideRows DEF Execute, ExecuteErrs
  <2>2. CASE Leave
    BY <1>9, <2>2 DEF Leave, Execute, ExecuteErrs, RowsOK
  <2> QED BY <1>9, <2>1, <2>2 DEF Execute, ExecuteErrs
<1>10. ASSUME NEW w \in Workers, WorkerCrash(w) PROVE RowsOK'
  BY <1>10 DEF WorkerCrash, world, RowsOK
<1>11. CASE UNCHANGED vars
  BY <1>11 DEF vars, RowsOK
<1> QED
  BY <1>1, <1>2, <1>3, <1>4, <1>5, <1>6, <1>7, <1>8, <1>9, <1>10, <1>11 DEF Next, Step

\* What users and processors do with one request.
RequestStep(r) ==
  \/ CreateRequest(r) \/ EnqueueRetention(r)
  \/ ReviewRequest(r) \/ CancelRequest(r)
  \/ StartFulfillment(r) \/ CompleteFulfillment(r)
  \/ ClaimExpires(r)
  \/ \E p \in AllProcessors : Propagate(r, p)

\* What changes under every request.
WorldStep ==
  \/ CreateLegalHold \/ ReleaseLegalHold \/ LineageChanges
  \/ PolicyChanges \/ BasisChanges \/ CleanUpFiles

\* What a pass does.
PassStep(w) ==
  \/ \E r \in Requests : Select(w, r)
  \/ Claim(w) \/ Execute(w) \/ Release(w) \/ ExecuteErrs(w) \/ WorkerCrash(w)

LEMMA Steps ==
  ASSUME Next
  PROVE  (\E r \in Requests : RequestStep(r)) \/ WorldStep \/ (\E w \in Workers : PassStep(w))
BY DEF Next, Step, RequestStep, WorldStep, PassStep

\* The steps of a request touch neither the scope nor the passes.
LEMMA RequestStepKeeps ==
  ASSUME NEW r \in Requests, RequestStep(r)
  PROVE  /\ UNCHANGED <<scope, policy, basis, holds, worker>>
         /\ Spend \/ UNCHANGED budget
<1>1. CASE CreateRequest(r) \/ EnqueueRetention(r)
  BY <1>1 DEF CreateRequest, EnqueueRetention, Create, world
<1>2. CASE ReviewRequest(r)
  <2>1. PICK u \in {"requester", "other"}, to \in {"reviewing", "approved", "rejected"},
             evidence \in BOOLEAN : Review(r, u, to, evidence)
    BY <1>2 DEF ReviewRequest
  <2> QED BY <2>1 DEF Review, world
<1>3. CASE CancelRequest(r) BY <1>3 DEF CancelRequest, world
<1>4. CASE StartFulfillment(r) BY <1>4 DEF StartFulfillment, world
<1>5. CASE CompleteFulfillment(r) BY <1>5 DEF CompleteFulfillment, world
<1>6. CASE ClaimExpires(r) BY <1>6 DEF ClaimExpires, world
<1>7. CASE \E p \in AllProcessors : Propagate(r, p) BY <1>7 DEF Propagate, world
<1> QED BY <1>1, <1>2, <1>3, <1>4, <1>5, <1>6, <1>7 DEF RequestStep

\* A pass that is not idle has a request.
LEMMA WorkersStep == ASSUME WorkersOK, [Next]_vars PROVE WorkersOK'
<1> DEFINE Passes == [phase : {"idle"}, request : {None}]
                       \cup [phase : {"claim", "execute", "release"}, request : Requests]
<1>1. worker \in [Workers -> Passes]
  BY DEF WorkersOK
<1>2. IdleWorker \in Passes
  BY DEF IdleWorker
<1>3. ASSUME NEW w \in Workers, NEW ph \in {"execute", "release"}, worker[w].phase # "idle"
      PROVE  [worker[w] EXCEPT !.phase = ph] \in Passes
  BY <1>1, <1>3
<1>4. ASSUME NEW w \in Workers, NEW r \in Requests, Select(w, r) PROVE WorkersOK'
  <2>1. [IdleWorker EXCEPT !.phase = "claim", !.request = r] \in Passes
    BY DEF IdleWorker
  <2> QED BY <1>1, <1>4, <2>1 DEF Select, WorkersOK
<1>5. ASSUME NEW w \in Workers, Claim(w) PROVE WorkersOK'
  <2>1. \/ worker' = [worker EXCEPT ![w].phase = "execute"] /\ worker[w].phase = "claim"
        \/ worker' = [worker EXCEPT ![w] = IdleWorker]
    BY <1>5 DEF Claim
  <2>2. worker[w].phase = "claim" => [worker[w] EXCEPT !.phase = "execute"] \in Passes
    BY <1>3
  <2> QED BY <1>1, <1>2, <2>1, <2>2 DEF WorkersOK
<1>6. ASSUME NEW w \in Workers, Execute(w) \/ ExecuteErrs(w) PROVE WorkersOK'
  <2>1. worker' = [worker EXCEPT ![w].phase = "release"] /\ worker[w].phase = "execute"
    BY <1>6 DEF Execute, ExecuteErrs
  <2>2. [worker[w] EXCEPT !.phase = "release"] \in Passes
    BY <1>3, <2>1
  <2> QED BY <1>1, <2>1, <2>2 DEF WorkersOK
<1>7. ASSUME NEW w \in Workers, Release(w) \/ WorkerCrash(w) PROVE WorkersOK'
  BY <1>1, <1>2, <1>7 DEF Release, WorkerCrash, WorkersOK
<1>8. CASE UNCHANGED worker
  BY <1>8 DEF WorkersOK
<1> QED
  <2>1. CASE \E r \in Requests : RequestStep(r)
    BY <1>8, <2>1, RequestStepKeeps
  <2>2. CASE WorldStep
    BY <1>8, <2>2 DEF WorldStep, CreateLegalHold, ReleaseLegalHold, LineageChanges, PolicyChanges,
         BasisChanges, CleanUpFiles
  <2>3. CASE \E w \in Workers : PassStep(w)
    BY <1>4, <1>5, <1>6, <1>7, <2>3 DEF PassStep
  <2>4. CASE UNCHANGED vars
    BY <1>8, <2>4 DEF vars
  <2> QED BY <2>1, <2>2, <2>3, <2>4, Steps

-----------------------------------------------------------------------------
(* Every step keeps what a request has behind it. *)

\* A request whose rows stay, while nothing is taken back that was cleaned up.
LEMMA Frame ==
  ASSUME NEW q \in Requests, Agreed(q),
         request'[q] = request[q], local'[q] = local[q],
         outcome'[q] = outcome[q], erased'[q] = erased[q],
         scope.cleaned => scope'.cleaned
  PROVE  Agreed(q)'
BY DEF Agreed, LedgersAgreeOn, Untouched, ApprovedByOther, LeaseOK

LEMMA CreateAgrees ==
  ASSUME IInv, NEW r \in Requests, NEW who \in {"user", "retention"}, Create(r, who)
  PROVE  \A q \in Requests : Agreed(q)'
<1> SUFFICES ASSUME NEW q \in Requests PROVE Agreed(q)'
  OBVIOUS
<1>1. Agreed(q) /\ Agreed(r)
  BY DEF IInv
<1>2. CASE q # r
  BY <1>1, <1>2, Frame DEF Create, world, IInv, RowsOK
<1>3. CASE q = r
  <2>1. /\ request[r] = NoRequest /\ local[r] = "none"
        /\ outcome[r].state = "none" /\ \A p \in AllProcessors : erased[r][p] = "none"
    BY <1>1 DEF Create, Agreed, Untouched, NoRequest
  <2>2. request'[r].state = "requested"
    BY DEF Create, NoRequest, IInv, RowsOK
  <2>3. UNCHANGED <<local, outcome, erased, scope>>
    BY DEF Create, world
  <2>4. "files" \in AllProcessors
    BY DEF AllProcessors
  <2> QED
    BY <1>1, <1>3, <2>1, <2>2, <2>3, <2>4
    DEF Agreed, LedgersAgreeOn, Untouched, ApprovedByOther, LeaseOK
<1> QED BY <1>2, <1>3

LEMMA ReviewAgrees ==
  ASSUME IInv, NEW r \in Requests, ReviewRequest(r)
  PROVE  \A q \in Requests : Agreed(q)'
<1> SUFFICES ASSUME NEW q \in Requests PROVE Agreed(q)'
  OBVIOUS
<1>1. Agreed(q) /\ Agreed(r) /\ request[r] \in Request
  BY DEF IInv, RowsOK
<1>2. PICK u \in {"requester", "other"}, to \in {"reviewing", "approved", "rejected"},
           evidence \in BOOLEAN : Review(r, u, to, evidence)
  BY DEF ReviewRequest
<1>3. CASE q # r
  BY <1>1, <1>2, <1>3, Frame DEF Review, world, IInv, RowsOK
<1>4. CASE q = r
  <2>1. /\ request'[r].state = to /\ request'[r].reviewer = u
        /\ request'[r].verified = (request[r].verified \/ evidence)
    BY <1>1, <1>2 DEF Review, IInv, RowsOK, Request
  <2>2. /\ request[r].state \in {"requested", "reviewing", "approved", "fulfilling"}
        /\ to \in {"reviewing", "approved"} => request[r].state \in {"requested", "reviewing"}
    BY <1>2, MayFrom DEF Review, States
  <2>3. to = "approved" => request'[r].reviewer = "other" /\ request'[r].verified
    BY <1>2, <2>1 DEF Review, Independent
  <2>4. request[r] # NoRequest
    BY <2>2 DEF NoRequest
  <2>5. UNCHANGED <<local, outcome, erased, scope>>
    BY <1>2 DEF Review, world
  <2> QED
    BY <1>1, <1>4, <2>1, <2>2, <2>3, <2>4, <2>5
    DEF Agreed, LedgersAgreeOn, Untouched, ApprovedByOther, LeaseOK
<1> QED BY <1>3, <1>4

LEMMA CancelAgrees ==
  ASSUME IInv, NEW r \in Requests, CancelRequest(r)
  PROVE  \A q \in Requests : Agreed(q)'
<1> SUFFICES ASSUME NEW q \in Requests PROVE Agreed(q)'
  OBVIOUS
<1>1. Agreed(q) /\ UNCHANGED <<local, outcome, erased, scope>>
  BY DEF IInv, CancelRequest, world
<1>2. CASE q # r
  BY <1>1, <1>2, Frame DEF CancelRequest, IInv, RowsOK
<1>3. CASE q = r
  <2>1. request[r].state \in {"requested", "reviewing", "approved"}
    BY MayFrom DEF CancelRequest, States
  <2>2. request'[r].state = "cancelled" /\ request[r] # NoRequest
    BY <2>1 DEF CancelRequest, NoRequest, IInv, RowsOK, Request
  <2> QED
    BY <1>1, <1>3, <2>1, <2>2 DEF Agreed, LedgersAgreeOn, Untouched, ApprovedByOther, LeaseOK
<1> QED BY <1>2, <1>3

LEMMA StartAgrees ==
  ASSUME IInv, NEW r \in Requests, StartFulfillment(r)
  PROVE  \A q \in Requests : Agreed(q)'
<1> SUFFICES ASSUME NEW q \in Requests PROVE Agreed(q)'
  OBVIOUS
<1>1. Agreed(q) /\ UNCHANGED scope
  BY DEF IInv, StartFulfillment, world
<1>2. CASE q # r
  BY <1>1, <1>2, Frame DEF StartFulfillment, IInv, RowsOK
<1>3. CASE q = r
  <2>1. request[r].state = "approved"
    BY MayFrom DEF StartFulfillment, States
  <2>2. request[r].reviewer = "other" /\ request[r].verified
    BY <1>1, <1>3, <2>1 DEF Agreed, ApprovedByOther
  <2>3. /\ request'[r].state = "fulfilling"
        /\ request'[r].reviewer = "other" /\ request'[r].verified
    BY <2>2 DEF StartFulfillment, IInv, RowsOK, Request
  <2>4. local'[r] = "approved" /\ outcome'[r].state = "pending"
    BY DEF StartFulfillment, IInv, RowsOK, Outcome
  <2>5. \A p \in AllProcessors : erased'[r][p] = "pending"
    BY DEF StartFulfillment, IInv, RowsOK
  <2>6. "files" \in AllProcessors
    BY DEF AllProcessors
  <2>7. outcome'[r].holder = outcome[r].holder /\ outcome'[r].live = outcome[r].live
    BY DEF StartFulfillment, IInv, RowsOK, Outcome
  <2>8. outcome[r].holder = None /\ ~outcome[r].live
    BY <1>1, <1>3, <2>1 DEF Agreed, Untouched, LeaseOK
  <2> QED
    BY <1>3, <2>3, <2>4, <2>5, <2>6, <2>7, <2>8
    DEF Agreed, LedgersAgreeOn, Untouched, ApprovedByOther, LeaseOK
<1> QED BY <1>2, <1>3

LEMMA CompleteAgrees ==
  ASSUME IInv, NEW r \in Requests, CompleteFulfillment(r)
  PROVE  \A q \in Requests : Agreed(q)'
<1> SUFFICES ASSUME NEW q \in Requests PROVE Agreed(q)'
  OBVIOUS
<1>1. Agreed(q) /\ UNCHANGED <<local, outcome, erased, scope>>
  BY DEF IInv, CompleteFulfillment, world
<1>2. CASE q # r
  BY <1>1, <1>2, Frame DEF CompleteFulfillment, IInv, RowsOK
<1>3. CASE q = r
  <2>1. request[r].state = "fulfilling"
    BY MayFrom DEF CompleteFulfillment, States
  <2>2. request[r].reviewer = "other" /\ request[r].verified
    BY <1>1, <1>3, <2>1 DEF Agreed, ApprovedByOther
  <2>3. /\ request'[r].state = "completed"
        /\ request'[r].reviewer = "other" /\ request'[r].verified
    BY <2>2 DEF CompleteFulfillment, IInv, RowsOK, Request
  <2>4. \A p \in AllProcessors : erased[r][p] = "done"
    BY DEF CompleteFulfillment, Propagated
  <2>5. local[r] = "completed" /\ outcome[r].state = "completed"
    BY DEF CompleteFulfillment
  <2>6. "files" \in AllProcessors
    BY DEF AllProcessors
  <2>7. scope.cleaned
    BY <1>1, <1>3, <2>4, <2>6 DEF Agreed
  <2> QED
    BY <1>1, <1>3, <2>3, <2>4, <2>5, <2>7
    DEF Agreed, LedgersAgreeOn, Untouched, ApprovedByOther, LeaseOK
<1> QED BY <1>2, <1>3

\* Holds, policies, the clean-up of files and the passes' own moves.
LEMMA WorldAgrees ==
  ASSUME IInv, UNCHANGED <<request, local, outcome, erased>>,
         scope.cleaned => scope'.cleaned
  PROVE  \A q \in Requests : Agreed(q)'
BY Frame DEF IInv

LEMMA PropagateAgrees ==
  ASSUME IInv, NEW r \in Requests, NEW p \in AllProcessors, Propagate(r, p)
  PROVE  \A q \in Requests : Agreed(q)'
<1> SUFFICES ASSUME NEW q \in Requests PROVE Agreed(q)'
  OBVIOUS
<1>1. Agreed(q) /\ UNCHANGED <<request, local, outcome, scope>>
  BY DEF IInv, Propagate, world
<1>2. PICK s \in {"done", "failed"} :
        /\ p = "files" => (s = "done" <=> scope.cleaned)
        /\ erased' = [erased EXCEPT ![r][p] = s]
  BY DEF Propagate
<1>3. CASE q # r
  BY <1>1, <1>2, <1>3, Frame DEF IInv, RowsOK
<1>4. CASE q = r
  <2>1. request[r].state = "fulfilling" /\ local[r] = "completed" /\ request[r] # NoRequest
    BY DEF Propagate, Eligible, NoRequest
  <2>2. erased'[r]["files"] = "done" => scope.cleaned
    <3>1. CASE p = "files"
      BY <1>2, <3>1 DEF IInv, RowsOK
    <3>2. CASE p # "files"
      BY <1>1, <1>2, <1>4, <3>2 DEF IInv, RowsOK, Agreed
    <3> QED BY <3>1, <3>2
  <2> QED
    BY <1>1, <1>4, <2>1, <2>2 DEF Agreed, LedgersAgreeOn, Untouched, ApprovedByOther, LeaseOK
<1> QED BY <1>3, <1>4

LEMMA ExpiryAgrees ==
  ASSUME IInv, NEW r \in Requests, ClaimExpires(r)
  PROVE  \A q \in Requests : Agreed(q)'
<1> SUFFICES ASSUME NEW q \in Requests PROVE Agreed(q)'
  OBVIOUS
<1>1. Agreed(q) /\ UNCHANGED <<request, local, erased, scope>>
  BY DEF IInv, ClaimExpires, world
<1>2. /\ outcome'[q].state = outcome[q].state
      /\ outcome'[q].live # outcome[q].live => outcome[q].live
      /\ outcome'[q].holder = outcome[q].holder
  BY DEF ClaimExpires, IInv, RowsOK, Outcome
<1> QED BY <1>1, <1>2 DEF Agreed, LedgersAgreeOn, Untouched, ApprovedByOther, LeaseOK

LEMMA ClaimAgrees ==
  ASSUME IInv, NEW w \in Workers, Claim(w)
  PROVE  \A q \in Requests : Agreed(q)'
<1> DEFINE r == worker[w].request
<1> SUFFICES ASSUME NEW q \in Requests PROVE Agreed(q)'
  OBVIOUS
<1>1. Agreed(q) /\ UNCHANGED <<request, local, erased, scope>>
  BY DEF IInv, Claim, world
<1>2. CASE outcome' = outcome
  BY <1>1, <1>2, Frame
<1>3. CASE outcome' # outcome
  <2>1. /\ request[r].state = "fulfilling" /\ Claimable(r)
        /\ outcome' = [outcome EXCEPT ![r] =
             [state |-> "claimed", holder |-> w, live |-> TRUE]]
    BY <1>3 DEF Claim
  <2>2. CASE q # r
    BY <1>1, <2>1, <2>2, Frame DEF IInv, RowsOK
  <2>3. CASE q = r
    <3>1. outcome[r].state \in {"pending", "claimed"}
      BY <2>1 DEF Claimable
    <3>2. outcome'[r].state = "claimed"
      BY <2>1, <2>3 DEF IInv, RowsOK
    <3> HIDE DEF r
    <3> QED
      BY <1>1, <2>1, <2>3, <3>1, <3>2
      DEF Agreed, LedgersAgreeOn, Untouched, ApprovedByOther, LeaseOK
  <2> QED BY <2>2, <2>3
<1> QED BY <1>2, <1>3

LEMMA ReleaseAgrees ==
  ASSUME IInv, NEW w \in Workers, Release(w)
  PROVE  \A q \in Requests : Agreed(q)'
<1> DEFINE r == worker[w].request
<1> SUFFICES ASSUME NEW q \in Requests PROVE Agreed(q)'
  OBVIOUS
<1>1. Agreed(q) /\ UNCHANGED <<request, local, erased, scope>>
  BY DEF IInv, Release, world
<1>2. CASE outcome' = outcome
  BY <1>1, <1>2, Frame
<1>3. CASE outcome' # outcome
  <2>1. /\ outcome[r].state = "claimed"
        /\ outcome' = [outcome EXCEPT ![r] = [NoOutcome EXCEPT !.state = "pending"]]
    BY <1>3 DEF Release
  <2>2. CASE q # r
    BY <1>1, <2>1, <2>2, Frame DEF IInv, RowsOK
  <2>3. CASE q = r
    <3>1. outcome'[r] = [state |-> "pending", holder |-> None, live |-> FALSE]
      BY <2>1, <2>3 DEF IInv, RowsOK, NoOutcome
    <3> HIDE DEF r
    <3>2. request[r].state \in {"fulfilling", "completed", "rejected"}
      BY <1>1, <2>1, <2>3 DEF Agreed, Untouched
    <3> QED
      BY <1>1, <2>1, <2>3, <3>1, <3>2
      DEF Agreed, LedgersAgreeOn, Untouched, ApprovedByOther, LeaseOK
  <2> QED BY <2>2, <2>3
<1> QED BY <1>2, <1>3

LEMMA DecideAgrees ==
  ASSUME IInv, NEW w \in Workers, Decide(w), UNCHANGED erased
  PROVE  \A q \in Requests : Agreed(q)'
<1> DEFINE r == worker[w].request
<1> SUFFICES ASSUME NEW q \in Requests PROVE Agreed(q)'
  OBVIOUS
<1>1. Agreed(q)
  BY DEF IInv
<1>2. CASE Leave
  BY <1>1, <1>2, Frame DEF Leave
<1>3. CASE /\ Reject(r) /\ local[r] = "approved"
           /\ request[r] = NoRequest \/ request[r].state = "fulfilling"
  <2>1. CASE q # r
    BY <1>1, <1>3, <2>1, Frame DEF Reject, IInv, RowsOK
  <2>2. CASE q = r
    <3>1. local'[r] = "rejected" /\ UNCHANGED scope
      BY <1>3, <2>2 DEF Reject, IInv, RowsOK
    <3>2. outcome'[r] = Ended(r, "rejected")
      BY <1>3, <2>2 DEF Reject, IInv, RowsOK
    <3>3. CASE request[r] = NoRequest
      <4>1. request' = request /\ outcome'[r] = outcome[r]
        BY <1>3, <3>2, <3>3 DEF Reject, Ended, NoRequest
      <4> HIDE DEF r
      <4> QED
        BY <1>1, <2>2, <3>1, <3>3, <4>1
        DEF Agreed, LedgersAgreeOn, Untouched, ApprovedByOther, LeaseOK
    <3>4. CASE request[r].state = "fulfilling"
      <4>1. request[r] # NoRequest
        BY <3>4 DEF NoRequest
      <4>2. outcome'[r] = [state |-> "rejected", holder |-> None, live |-> FALSE]
        BY <3>2, <4>1 DEF Ended
      <4>3. request'[r].state = "rejected"
        BY <1>3, <2>2, <3>4 DEF Reject, IInv, RowsOK, Request
      <4> HIDE DEF r
      <4> QED
        BY <1>1, <1>3, <2>2, <3>1, <4>1, <4>2, <4>3
        DEF Agreed, LedgersAgreeOn, Untouched, ApprovedByOther, LeaseOK
    <3> QED BY <1>3, <3>3, <3>4
  <2> QED BY <2>1, <2>2
<1>4. CASE Delete(r) /\ request[r].state = "fulfilling"
  <2>1. (scope.cleaned => scope'.cleaned) /\ UNCHANGED request
    BY <1>4 DEF Delete, IInv, RowsOK
  <2>2. CASE q # r
    BY <1>1, <1>4, <2>1, <2>2, Frame DEF Delete, IInv, RowsOK
  <2>3. CASE q = r
    <3>1. request[r] # NoRequest
      BY <1>4 DEF NoRequest
    <3>2. local'[r] = "completed"
      BY <1>4, <2>3 DEF Delete, IInv, RowsOK
    <3>3. outcome'[r] = [state |-> "completed", holder |-> None, live |-> FALSE]
      BY <1>4, <2>3, <3>1 DEF Delete, Ended, IInv, RowsOK
    <3> HIDE DEF r
    <3> QED
      BY <1>1, <1>4, <2>1, <2>3, <3>1, <3>2, <3>3
      DEF Agreed, LedgersAgreeOn, Untouched, ApprovedByOther, LeaseOK
  <2> QED BY <2>2, <2>3
<1> QED BY <1>2, <1>3, <1>4, Decisions

-----------------------------------------------------------------------------
(* The inductive invariant. *)

LEMMA InitInv == Init => IInv
<1> SUFFICES ASSUME Init PROVE IInv
  OBVIOUS
<1>1. NoRequest \in Request
  BY DEF NoRequest, Request, States
<1>2. RowsOK
  BY <1>1 DEF Init, RowsOK, Policy, Outcome, NoOutcome
<1>3. WorkersOK
  BY DEF Init, WorkersOK, IdleWorker
<1>4. ASSUME NEW r \in Requests PROVE Agreed(r)
  <2>1. request[r] = NoRequest /\ outcome[r] = NoOutcome /\ NoRequest.state = "none"
    BY DEF Init, NoRequest
  <2>2. \A p \in AllProcessors : erased[r][p] = "none"
    BY DEF Init
  <2>3. "files" \in AllProcessors
    BY DEF AllProcessors
  <2> QED
    BY <2>1, <2>2, <2>3
    DEF Agreed, LedgersAgreeOn, Untouched, ApprovedByOther, LeaseOK, NoOutcome
<1> QED BY <1>2, <1>3, <1>4 DEF IInv

LEMMA StepInv == IInv /\ [Next]_vars => IInv'
<1> SUFFICES ASSUME IInv, [Next]_vars PROVE IInv'
  OBVIOUS
<1>0. RowsOK' /\ WorkersOK'
  BY RowsStep, WorkersStep DEF IInv
<1> SUFFICES \A q \in Requests : Agreed(q)'
  BY <1>0 DEF IInv
<1> DEFINE Kept == \A q \in Requests : Agreed(q)'
<1>1. ASSUME NEW r \in Requests, CreateRequest(r) \/ EnqueueRetention(r) PROVE Kept
  BY <1>1, CreateAgrees DEF CreateRequest, EnqueueRetention
<1>2. ASSUME NEW r \in Requests, ReviewRequest(r) PROVE Kept
  BY <1>2, ReviewAgrees
<1>3. ASSUME NEW r \in Requests,
             CancelRequest(r) \/ StartFulfillment(r) \/ CompleteFulfillment(r)
      PROVE  Kept
  BY <1>3, CancelAgrees, StartAgrees, CompleteAgrees
<1>4. ASSUME NEW r \in Requests, ClaimExpires(r) PROVE Kept
  BY <1>4, ExpiryAgrees
<1>5. ASSUME NEW r \in Requests, NEW p \in AllProcessors, Propagate(r, p) PROVE Kept
  BY <1>5, PropagateAgrees
<1>6. CASE \/ CreateLegalHold \/ ReleaseLegalHold \/ LineageChanges
           \/ PolicyChanges \/ BasisChanges \/ CleanUpFiles
  <2>1. scope.cleaned => scope'.cleaned
    BY <1>6 DEF CreateLegalHold, ReleaseLegalHold, LineageChanges, PolicyChanges, BasisChanges,
         CleanUpFiles, IInv, RowsOK
  <2>2. UNCHANGED <<request, local, outcome, erased>>
    BY <1>6 DEF CreateLegalHold, ReleaseLegalHold, LineageChanges, PolicyChanges,
       BasisChanges, CleanUpFiles
  <2> QED BY <2>1, <2>2, WorldAgrees
<1>7. ASSUME NEW w \in Workers, NEW r \in Requests, Select(w, r) PROVE Kept
  BY <1>7, WorldAgrees DEF Select, world
<1>8. ASSUME NEW w \in Workers, Claim(w) \/ Release(w) PROVE Kept
  BY <1>8, ClaimAgrees, ReleaseAgrees
<1>9. ASSUME NEW w \in Workers, Execute(w) \/ ExecuteErrs(w) PROVE Kept
  <2>1. CASE Decide(w)
    BY <1>9, <2>1, DecideAgrees DEF Execute, ExecuteErrs
  <2>2. CASE Leave
    BY <1>9, <2>2, WorldAgrees DEF Leave, Execute, ExecuteErrs
  <2> QED BY <1>9, <2>1, <2>2 DEF Execute, ExecuteErrs
<1>10. ASSUME NEW w \in Workers, WorkerCrash(w) PROVE Kept
  BY <1>10, WorldAgrees DEF WorkerCrash, world
<1>11. CASE UNCHANGED vars
  BY <1>11, WorldAgrees DEF vars
<1>12. CASE \E r \in Requests : RequestStep(r)
  BY <1>1, <1>2, <1>3, <1>4, <1>5, <1>12 DEF RequestStep
<1>13. CASE \E w \in Workers : PassStep(w)
  BY <1>7, <1>8, <1>9, <1>10, <1>13 DEF PassStep
<1> QED BY <1>6, <1>11, <1>12, <1>13, Steps DEF WorldStep

\* The inductive invariant holds in every reachable state.
THEOREM DeletionInvariance == Spec => []IInv
<1> QED BY InitInv, StepInv, PTL DEF Spec

\* The request, the local row, the receipt and the processors tell one story,
\* whichever passes, reviewers, crashes and expired claims come between them.
THEOREM LedgersAlwaysAgree == Spec => []LedgersAgree
<1>1. IInv => LedgersAgree
  BY DEF IInv, Agreed, LedgersAgree
<1> QED BY <1>1, DeletionInvariance, PTL

-----------------------------------------------------------------------------
(* The deletion itself. *)

\* Only the executor's last decision deletes, and it has compared everything.
LEMMA DeletionStep ==
  ASSUME IInv, Next, scope'.deleted # scope.deleted
  PROVE  /\ ~scope.held /\ ~scope.ambiguous
         /\ \E r \in Requests :
              /\ request[r].state = "fulfilling" /\ request[r].verified
              /\ request[r].reviewer = "other"
              /\ request[r].contract = CurrentContract
              /\ policy.action = "soft_delete"
<1>1. PICK w \in Workers : Decide(w) /\ ~Leave /\ worker[w].phase = "execute"
  <2>1. ~WorldStep
    BY DEF WorldStep, CreateLegalHold, ReleaseLegalHold, LineageChanges, PolicyChanges,
       BasisChanges,
       CleanUpFiles, IInv, RowsOK
  <2>2. ~(\E r \in Requests : RequestStep(r))
    BY RequestStepKeeps
  <2>3. PICK w \in Workers : PassStep(w)
    BY <2>1, <2>2, Steps
  <2>4. Execute(w) \/ ExecuteErrs(w)
    BY <2>3 DEF PassStep, Select, Claim, Release, WorkerCrash, world
  <2> QED BY <2>4 DEF Execute, ExecuteErrs, Leave
<1> DEFINE r == worker[w].request
<1>2. r \in Requests
  BY <1>1 DEF IInv, WorkersOK
<1>3. /\ Delete(r) /\ request[r].state = "fulfilling" /\ ~scope.ambiguous
      /\ ~Drifted(r) /\ ~Held /\ ~Unsupported
  BY <1>1, Decisions DEF Reject
<1>4. request[r].reviewer = "other" /\ request[r].verified
  BY <1>2, <1>3 DEF IInv, Agreed, ApprovedByOther
<1>5. policy.action = "soft_delete"
  BY <1>3 DEF Unsupported, IInv, RowsOK, Policy
<1> QED BY <1>2, <1>3, <1>4, <1>5 DEF Held, Drifted

\* However long ago it was approved and claimed, a deletion happens on the policy
\* and the legal basis that someone other than its requester approved, and never
\* under a hold or with answers of unknown runs about it.
THEOREM DeletionIsApproved == Spec => DeletedAsApproved
<1>1. IInv /\ [Next]_vars =>
        [scope'.deleted # scope.deleted =>
           /\ ~scope.held /\ ~scope.ambiguous
           /\ \E r \in Requests :
                /\ request[r].state = "fulfilling" /\ request[r].verified
                /\ request[r].reviewer = "other"
                /\ request[r].contract = CurrentContract
                /\ policy.action = "soft_delete"]_vars
  BY DeletionStep DEF vars
<1> QED BY <1>1, DeletionInvariance, PTL DEF Spec, DeletedAsApproved

-----------------------------------------------------------------------------
(* Type correctness. *)

\* Every variable keeps the shape of its rows, and only a claim has a lease,
\* for every bound on holds and disturbances.
THEOREM DeletionTypes ==
  ASSUME MaxHolds \in Nat, Budget \in Nat
  PROVE  Spec => []TypeOK
<1> DEFINE Counters == holds \in 0..MaxHolds /\ budget \in 0..Budget
<1>1. Init => Counters
  BY DEF Init
<1>2. Counters /\ [Next]_vars => Counters'
  <2> SUFFICES ASSUME Counters, [Next]_vars PROVE Counters'
    OBVIOUS
  <2>1. CASE \E r \in Requests : RequestStep(r)
    BY <2>1, RequestStepKeeps DEF Spend
  <2>2. CASE WorldStep
    BY <2>2 DEF WorldStep, CreateLegalHold, ReleaseLegalHold, LineageChanges, PolicyChanges,
         BasisChanges, CleanUpFiles
  <2>3. ASSUME NEW w \in Workers, PassStep(w) PROVE Counters'
    <3>1. UNCHANGED holds /\ (Spend \/ UNCHANGED budget)
      BY <2>3 DEF PassStep, Select, Claim, Execute, ExecuteErrs, Release, WorkerCrash, world
    <3> QED BY <3>1 DEF Spend
  <2>4. CASE UNCHANGED vars
    BY <2>4 DEF vars
  <2> QED BY <2>1, <2>2, <2>3, <2>4, Steps
<1>3. IInv /\ Counters => TypeOK
  BY DEF IInv, Agreed, TypeOK
<1> QED BY <1>1, <1>2, <1>3, DeletionInvariance, PTL DEF Spec

-----------------------------------------------------------------------------
(* The worker's process. *)

\* What a step may do to the budget.
LEMMA ProcessBudgets ==
  /\ Process!Init => processBudget \in 0..ProcessBudget
  /\ Process!IInv => /\ processBudget \in 0..ProcessBudget
                     /\ Process!Spend => processBudget' \in 0..ProcessBudget
                     /\ UNCHANGED processBudget => processBudget' \in 0..ProcessBudget
<1>1. Process!Init => processBudget = ProcessBudget
  BY DEF Process!Init
<1>2. Process!IInv => processBudget \in 0..ProcessBudget
  BY DEF Process!IInv, Process!TypeOK
<1>3. ProcessBudget \in Nat
  BY ProcessAssumption DEF Process!WorkerProcessAssumption
<1> QED BY <1>1, <1>2, <1>3 DEF Process!Spend

LEMMA ProcessInit == Process!Init => Process!IInv
BY ProcessBudgets DEF Process!Init, Process!IInv, Process!TypeOK, Process!TimersOK

\* A process that ends leaves no pass behind.
LEMMA ProcessEnds ==
  ASSUME Process!IInv, NEW how \in {"exit_0", "exit_1", "hard", "killed"},
         Process!Ends(how), processBudget' \in 0..ProcessBudget
  PROVE  Process!IInv'
BY DEF Process!Ends, Process!IInv, Process!TypeOK, Process!TimersOK

\* Runs: what the loop does between two awaits.
LEMMA RunStep == ASSUME Process!IInv, Process!Runs PROVE Process!IInv'
<1>1. /\ processBudget \in 0..ProcessBudget
      /\ Process!Spend => processBudget' \in 0..ProcessBudget
      /\ UNCHANGED processBudget => processBudget' \in 0..ProcessBudget
  BY ProcessBudgets
<1>2. CASE Process!BeginPass
  BY <1>1, <1>2, ProcessAssumption
  DEF Process!WorkerProcessAssumption, Process!BeginPass, Process!Up,
      Process!IInv, Process!TypeOK, Process!TimersOK
<1>3. CASE Process!LoopEnds
  BY <1>1, <1>3, ProcessEnds DEF Process!LoopEnds, Process!Exit
<1>4. CASE Process!PassEnds
  <2>1. CASE \E how \in {"exit_0", "exit_1"} : Process!Exit(how)
    BY <1>1, <2>1, ProcessEnds DEF Process!Exit
  <2>2. CASE /\ loop' \in {"head", "pause"} /\ beat' = "off"
             /\ UNCHANGED <<proc, told, stage, hung, reason, result, deadline, grace, late,
                            processBudget>>
    BY <1>4, <2>2
    DEF Process!PassEnds, Process!Up, Process!IInv, Process!TypeOK, Process!TimersOK
  <2> QED BY <1>4, <2>1, <2>2 DEF Process!PassEnds
<1>5. CASE Process!Pause
  <2>1. CASE told
    BY <1>1, <1>5, <2>1, ProcessEnds DEF Process!Pause, Process!Exit
  <2>2. CASE ~told
    BY <1>5, <2>2
    DEF Process!Pause, Process!Up, Process!pass, Process!IInv, Process!TypeOK,
        Process!TimersOK
  <2> QED BY <2>1, <2>2
<1>6. CASE Process!Wakes
  BY <1>6
  DEF Process!Wakes, Process!Up, Process!pass, Process!IInv, Process!TypeOK,
      Process!TimersOK
<1> QED BY <1>2, <1>3, <1>4, <1>5, <1>6 DEF Process!Runs

\* A pass goes on to its next stage, or settles.
LEMMA StageStep ==
  ASSUME Process!IInv, Process!StageEnds \/ Process!StageFails
  PROVE  Process!IInv'
<1>1. /\ processBudget \in 0..ProcessBudget
      /\ Process!Spend => processBudget' \in 0..ProcessBudget
      /\ UNCHANGED processBudget => processBudget' \in 0..ProcessBudget
  BY ProcessBudgets
<1>2. ASSUME NEW o \in {"idle", "claimed", "error"}, Process!Settles(o),
             processBudget' \in 0..ProcessBudget, Process!Up("pass")
      PROVE  Process!IInv'
  BY <1>2
  DEF Process!Settles, Process!Up, Process!CalledOff, Process!PassStops, Process!Stopped,
      Process!IInv, Process!TypeOK, Process!TimersOK
<1>3. CASE Process!StageFails
  BY <1>1, <1>2, <1>3 DEF Process!StageFails
<1>4. CASE Process!StageEnds /\ stage = "jobs"
  BY <1>1, <1>2, <1>4 DEF Process!StageEnds
<1>5. CASE Process!StageEnds /\ stage # "jobs"
  BY <1>5
  DEF Process!StageEnds, Process!Up, Process!IInv, Process!TypeOK, Process!TimersOK
<1> QED BY <1>3, <1>4, <1>5

\* Timers, the heartbeat, signals and the container.
LEMMA SignalStep ==
  ASSUME Process!IInv,
         \/ Process!Timers \/ Process!Signal \/ Process!Restart
         \/ Process!HeartbeatIsWritten \/ Process!HeartbeatIsDue \/ Process!HeartbeatFails
  PROVE  Process!IInv'
<1>1. /\ processBudget \in 0..ProcessBudget
      /\ Process!Spend => processBudget' \in 0..ProcessBudget
      /\ UNCHANGED processBudget => processBudget' \in 0..ProcessBudget
  BY ProcessBudgets
<1>2. CASE Process!DeadlinePasses
  BY <1>1, <1>2, ProcessAssumption
  DEF Process!WorkerProcessAssumption, Process!DeadlinePasses, Process!Grace,
      Process!EndsPass, Process!Stopped, Process!IInv, Process!TypeOK, Process!TimersOK
<1>3. CASE Process!HardExit
  BY <1>1, <1>3, ProcessEnds DEF Process!HardExit, Process!Exit
<1>4. CASE Process!Signal
  <2>1. CASE loop = "sleep"
    BY <1>4, <2>1
    DEF Process!Signal, Process!pass, Process!IInv, Process!TypeOK, Process!TimersOK
  <2>2. CASE loop = "pass" /\ reason = None
    BY <1>4, <2>2, ProcessAssumption
    DEF Process!WorkerProcessAssumption, Process!Signal, Process!Drain, Process!EndsPass,
        Process!Stopped, Process!IInv, Process!TypeOK, Process!TimersOK
  <2>3. CASE loop # "sleep" /\ ~(loop = "pass" /\ reason = None)
    BY <1>4, <2>3 DEF Process!Signal, Process!IInv, Process!TypeOK, Process!TimersOK
  <2> QED BY <2>1, <2>2, <2>3
<1>5. CASE Process!Restart
  BY <1>5 DEF Process!Restart, Process!IInv, Process!TypeOK, Process!TimersOK
<1>6. CASE Process!HeartbeatIsWritten \/ Process!HeartbeatIsDue
  BY <1>6
  DEF Process!HeartbeatIsWritten, Process!HeartbeatIsDue, Process!Stops, Process!IInv,
      Process!TypeOK, Process!TimersOK
<1>7. CASE Process!HeartbeatFails
  BY <1>1, <1>7, ProcessAssumption
  DEF Process!WorkerProcessAssumption, Process!HeartbeatFails, Process!Stops,
      Process!IInv, Process!TypeOK, Process!TimersOK
<1> QED BY <1>2, <1>3, <1>4, <1>5, <1>6, <1>7 DEF Process!Timers

LEMMA ProcessStep == ASSUME Process!IInv, [Process!Next]_processVars PROVE Process!IInv'
<1>1. /\ processBudget \in 0..ProcessBudget
      /\ Process!Spend => processBudget' \in 0..ProcessBudget
      /\ UNCHANGED processBudget => processBudget' \in 0..ProcessBudget
  BY ProcessBudgets
<1>2. CASE Process!PauseFails \/ Process!Crash
  BY <1>1, <1>2, ProcessEnds DEF Process!PauseFails, Process!Crash
<1>3. CASE Process!Kill
  BY <1>1, <1>3, ProcessEnds DEF Process!Kill, Process!Exit
<1>4. CASE UNCHANGED processVars
  BY <1>4 DEF processVars, Process!IInv, Process!TypeOK, Process!TimersOK
<1> QED BY <1>2, <1>3, <1>4, RunStep, StageStep, SignalStep DEF Process!Next

\* How a process ends, in the words of ExitsAreEarned.
EarnedExit ==
  /\ proc = "up" /\ proc' = "hard" => stage # "none" /\ late /\ reason # "drain"
  /\ proc = "up" /\ proc' = "exit_0" => told' /\ stage = "none"

LEMMA ExitStep == ASSUME Process!IInv, [Process!Next]_processVars PROVE EarnedExit
<1>1. CASE Process!Runs \/ Process!PauseFails
  BY <1>1
  DEF EarnedExit, Process!Runs, Process!PauseFails, Process!BeginPass, Process!LoopEnds,
      Process!PassEnds, Process!Pause, Process!Wakes, Process!Up, Process!Exit, Process!Ends,
      Process!IInv, Process!TypeOK
<1>2. CASE Process!StageEnds \/ Process!StageFails
  BY <1>2
  DEF EarnedExit, Process!StageEnds, Process!StageFails, Process!Settles, Process!Up
<1>3. CASE Process!HardExit
  BY <1>3
  DEF EarnedExit, Process!HardExit, Process!Exit, Process!Ends, Process!IInv,
      Process!TypeOK, Process!TimersOK
<1>4. CASE Process!Signal
  BY <1>4 DEF EarnedExit, Process!Signal, Process!IInv, Process!TypeOK
<1>5. CASE Process!Kill \/ Process!Crash \/ Process!Restart
  BY <1>5
  DEF EarnedExit, Process!Kill, Process!Crash, Process!Restart, Process!Exit, Process!Ends
<1>6. CASE \/ Process!DeadlinePasses \/ Process!HeartbeatIsWritten
           \/ Process!HeartbeatIsDue \/ Process!HeartbeatFails \/ UNCHANGED processVars
  BY <1>6
  DEF EarnedExit, Process!DeadlinePasses, Process!HeartbeatIsWritten,
      Process!HeartbeatIsDue, Process!HeartbeatFails, processVars
<1> QED BY <1>1, <1>2, <1>3, <1>4, <1>5, <1>6 DEF Process!Next, Process!Timers

-----------------------------------------------------------------------------
(* The outbox of authentication mail. *)

\* A row of the outbox whose lease columns agree with its state.
GoodMail(r) ==
  /\ r \in Mail!Row
  /\ r.owner # None <=> r.state = "running"
  /\ r.live => r.state = "running"

\* What the steps of the outbox make of a row.
LEMMA MailRows ==
  ASSUME NEW r, GoodMail(r)
  PROVE  /\ \A s \in {"queued", "dead_letter", "removed"} :
              r.state # "running" => GoodMail([r EXCEPT !.state = s])
         /\ r.state = "absent" => GoodMail([r EXCEPT !.state = "queued", !.due = TRUE])
         /\ \A d \in Drains : GoodMail([r EXCEPT !.state = "running",
                  !.attempts = r.attempts + 1, !.gen = r.gen + 1, !.owner = d, !.live = TRUE])
         /\ \A s \in {"completed", "dead_letter", "queued"} :
              GoodMail(Mail!Released(r, s, FALSE))
         /\ r.owner \in Drains => GoodMail([r EXCEPT !.owner = Gone])
         /\ GoodMail([r EXCEPT !.due = TRUE]) /\ GoodMail([r EXCEPT !.live = FALSE])
<1>1. None \notin Drains /\ Gone # None
  BY MailAssumption DEF Mail!AuthEmailOutboxAssumption
<1>2. /\ r.attempts + 1 \in Nat /\ r.gen + 1 \in Nat
      /\ r.owner \in Drains \cup {None, Gone} /\ r.live \in BOOLEAN
  BY DEF GoodMail, Mail!Row
<1>3. ASSUME NEW s \in {"queued", "dead_letter", "removed"}, r.state # "running"
      PROVE  GoodMail([r EXCEPT !.state = s])
  BY <1>2, <1>3 DEF GoodMail, Mail!Row, Mail!Terminal
<1>4. ASSUME r.state = "absent" PROVE GoodMail([r EXCEPT !.state = "queued", !.due = TRUE])
  BY <1>2, <1>4 DEF GoodMail, Mail!Row, Mail!Terminal
<1>5. ASSUME NEW d \in Drains
      PROVE  GoodMail([r EXCEPT !.state = "running", !.attempts = r.attempts + 1,
                                !.gen = r.gen + 1, !.owner = d, !.live = TRUE])
  <2>1. \A a, g \in Nat :
          [r EXCEPT !.state = "running", !.attempts = a, !.gen = g, !.owner = d, !.live = TRUE]
            \in Mail!Row
    BY DEF GoodMail, Mail!Row, Mail!Terminal
  <2>2. [r EXCEPT !.state = "running", !.attempts = r.attempts + 1,
                  !.gen = r.gen + 1, !.owner = d, !.live = TRUE] \in Mail!Row
    BY <1>2, <2>1
  <2> QED BY <1>1, <2>2 DEF GoodMail, Mail!Row
<1>6. ASSUME NEW s \in {"completed", "dead_letter", "queued"}
      PROVE  GoodMail(Mail!Released(r, s, FALSE))
  BY <1>2 DEF GoodMail, Mail!Row, Mail!Terminal, Mail!Released
<1>7. ASSUME r.owner \in Drains PROVE GoodMail([r EXCEPT !.owner = Gone])
  BY <1>1, <1>2, <1>7 DEF GoodMail, Mail!Row, Mail!Terminal
<1>8. GoodMail([r EXCEPT !.due = TRUE]) /\ GoodMail([r EXCEPT !.live = FALSE])
  BY <1>2 DEF GoodMail, Mail!Row, Mail!Terminal
<1> QED BY <1>3, <1>4, <1>5, <1>6, <1>7, <1>8

\* A drain's claims and phase fit each other.
GoodDrain(s) ==
  /\ s \in Mail!DrainState
  /\ s.phase \in {"sending", "sent", "failed"} => s.cur # None

LEMMA MailInvParts ==
  /\ Mail!IInv <=> /\ row \in [Intents -> Mail!Row] /\ \A i \in Intents : GoodMail(row[i])
                   /\ invitation \in [status : {"pending", "accepted", "canceled"},
                                      expired : BOOLEAN]
                   /\ drain \in [Drains -> Mail!DrainState]
                   /\ \A d \in Drains : GoodDrain(drain[d])
                   /\ mailBudget \in Nat
BY DEF Mail!IInv, Mail!TypeOK, Mail!CurrentClaims, GoodMail, GoodDrain

\* The two properties of a step.
HolderSettles ==
  \A i \in Intents :
    row[i].state = "running" /\ row'[i].state # "running" =>
      \E d \in Drains : row[i].owner = d /\ drain[d].cur # None
                          /\ drain[d].cur.intent = i /\ drain[d].cur.gen = row[i].gen

CancelWaits ==
  Mail!LiveInvitation /\ invitation'.status = "canceled" =>
    \A d \in Drains : \A c \in drain[d].batch \cup ({drain[d].cur} \ {None}) :
      c.intent \in Mail!Invites => ~Mail!Owns(d, c)

MailStepOK == Mail!IInv' /\ HolderSettles /\ CancelWaits

\* A step that keeps every row well formed and running, and does not cancel.
LEMMA MailKept ==
  ASSUME Mail!IInv,
         DOMAIN row' = Intents, row' = [i \in Intents |-> row'[i]],
         \A i \in Intents : /\ GoodMail(row'[i])
                            /\ row[i].state = "running" => row'[i].state = "running",
         UNCHANGED <<invitation, drain>>, mailBudget' \in Nat
  PROVE  MailStepOK
<1>1. row' \in [Intents -> Mail!Row]
  BY DEF GoodMail
<1>2. Mail!IInv'
  BY <1>1, MailInvParts
  DEF Mail!IInv, Mail!TypeOK, Mail!CurrentClaims, GoodMail, GoodDrain
<1>3. HolderSettles
  BY DEF HolderSettles
<1>4. CancelWaits
  BY DEF CancelWaits, Mail!LiveInvitation
<1> QED BY <1>2, <1>3, <1>4 DEF MailStepOK

\* Enqueue, BecomeDue, LeaseExpires and Remove.
LEMMA MailRowStep ==
  ASSUME Mail!IInv, NEW i \in Intents,
         Mail!Enqueue(i) \/ Mail!BecomeDue(i) \/ Mail!LeaseExpires(i) \/ Mail!Remove(i)
  PROVE  MailStepOK
<1>1. /\ \A j \in Intents : GoodMail(row[j]) /\ row[j] \in Mail!Row
      /\ row \in [Intents -> Mail!Row] /\ mailBudget \in Nat
  BY MailInvParts DEF Mail!IInv, Mail!TypeOK
<1>2. \E r : /\ GoodMail(r) /\ (row[i].state = "running" => r.state = "running")
             /\ row' = [row EXCEPT ![i] = r]
  <2>1. CASE Mail!Enqueue(i)
    <3>1. row' = [row EXCEPT ![i] = [row[i] EXCEPT !.state = "queued", !.due = TRUE]]
      BY <1>1, <2>1 DEF Mail!Enqueue, Mail!Row
    <3> QED BY <1>1, <2>1, <3>1, MailRows DEF Mail!Enqueue
  <2>2. CASE Mail!BecomeDue(i)
    <3>1. row' = [row EXCEPT ![i] = [row[i] EXCEPT !.due = TRUE]]
      BY <1>1, <2>2 DEF Mail!BecomeDue, Mail!Row
    <3> QED BY <1>1, <2>2, <3>1, MailRows DEF Mail!BecomeDue
  <2>3. CASE Mail!LeaseExpires(i)
    <3>1. row' = [row EXCEPT ![i] = [row[i] EXCEPT !.live = FALSE]]
      BY <1>1, <2>3 DEF Mail!LeaseExpires, Mail!Row
    <3>2. [row[i] EXCEPT !.live = FALSE].state = row[i].state
      BY <1>1 DEF Mail!Row
    <3> QED BY <1>1, <3>1, <3>2, MailRows
  <2>4. CASE Mail!Remove(i)
    <3>1. row' = [row EXCEPT ![i] = [row[i] EXCEPT !.state = "removed"]]
      BY <1>1, <2>4 DEF Mail!Remove, Mail!Row
    <3>2. row[i].state # "running"
      BY <2>4 DEF Mail!Remove, Mail!Terminal
    <3> QED BY <1>1, <3>1, <3>2, MailRows
  <2> QED BY <2>1, <2>2, <2>3, <2>4
<1>3. UNCHANGED <<invitation, drain>> /\ mailBudget' \in Nat
  BY <1>1
  DEF Mail!Enqueue, Mail!BecomeDue, Mail!LeaseExpires, Mail!Remove, Mail!Spend
<1>4. /\ DOMAIN row' = Intents /\ row' = [j \in Intents |-> row'[j]]
      /\ \A j \in Intents : /\ GoodMail(row'[j])
                            /\ row[j].state = "running" => row'[j].state = "running"
  <2>1. PICK r : /\ GoodMail(r) /\ (row[i].state = "running" => r.state = "running")
                 /\ row' = [row EXCEPT ![i] = r]
    BY <1>2
  <2>2. /\ DOMAIN row' = Intents /\ row' = [j \in Intents |-> row'[j]]
        /\ \A j \in Intents : row'[j] = IF j = i THEN r ELSE row[j]
    BY <1>1, <2>1
  <2> QED BY <1>1, <2>1, <2>2
<1> QED BY <1>3, <1>4, MailKept

\* Cancel, Replace, Accept and InvitationExpires.
LEMMA InvitationStep ==
  ASSUME Mail!IInv,
         Mail!Cancel \/ Mail!Replace \/ Mail!Accept \/ Mail!InvitationExpires
  PROVE  MailStepOK
<1>1. /\ \A j \in Intents : GoodMail(row[j]) /\ row[j] \in Mail!Row
      /\ row \in [Intents -> Mail!Row] /\ mailBudget \in Nat
      /\ invitation \in [status : {"pending", "accepted", "canceled"}, expired : BOOLEAN]
  BY MailInvParts DEF Mail!IInv, Mail!TypeOK
<1>2. /\ row' = [j \in Intents |-> row'[j]]
      /\ \A j \in Intents : /\ GoodMail(row'[j])
                            /\ row[j].state = "running" => row'[j] = row[j]
  <2>1. CASE Mail!QueuedMailDies
    BY <1>1, <2>1, MailRows DEF Mail!QueuedMailDies, Mail!Invited
  <2>2. CASE UNCHANGED row
    BY <1>1, <2>2
  <2> QED BY <2>1, <2>2 DEF Mail!Cancel, Mail!Replace, Mail!Accept, Mail!InvitationExpires
<1>3. /\ UNCHANGED <<drain, mailBudget>>
      /\ invitation' \in [status : {"pending", "accepted", "canceled"}, expired : BOOLEAN]
  BY <1>1 DEF Mail!Cancel, Mail!Replace, Mail!Accept, Mail!InvitationExpires
<1>4. Mail!IInv'
  <2>1. row' \in [Intents -> Mail!Row]
    BY <1>2 DEF GoodMail
  <2> QED BY <1>2, <1>3, <2>1 DEF Mail!IInv, Mail!TypeOK, Mail!CurrentClaims, GoodMail
<1>5. HolderSettles
  BY <1>2 DEF HolderSettles
<1>6. CancelWaits
  <2> SUFFICES ASSUME Mail!LiveInvitation, invitation'.status = "canceled",
                      NEW d \in Drains, NEW c, c.intent \in Mail!Invites, Mail!Owns(d, c)
               PROVE  FALSE
    BY DEF CancelWaits
  <2>1. Mail!Cancel
    BY <1>1 DEF Mail!Replace, Mail!Accept, Mail!InvitationExpires, Mail!LiveInvitation
  <2> QED BY <2>1 DEF Mail!Cancel, Mail!Invited, Mail!Owns
<1> QED BY <1>4, <1>5, <1>6 DEF MailStepOK

\* A step of a drain that may settle its claim and nothing else.
LEMMA DrainKept ==
  ASSUME Mail!IInv, NEW d \in Drains, NEW s, GoodDrain(s),
         drain' = [drain EXCEPT ![d] = s],
         row' = [i \in Intents |-> row'[i]],
         \A i \in Intents :
           /\ GoodMail(row'[i])
           /\ row[i].state = "running" /\ row'[i].state # "running" =>
                drain[d].cur # None /\ drain[d].cur.intent = i /\ Mail!Owns(d, drain[d].cur),
         UNCHANGED invitation, mailBudget' \in Nat
  PROVE  MailStepOK
<1>1. /\ row' \in [Intents -> Mail!Row]
      /\ drain \in [Drains -> Mail!DrainState] /\ \A e \in Drains : GoodDrain(drain[e])
      /\ invitation' \in [status : {"pending", "accepted", "canceled"}, expired : BOOLEAN]
  BY MailInvParts DEF GoodMail, Mail!IInv, Mail!TypeOK
<1>2. /\ drain' \in [Drains -> Mail!DrainState]
      /\ \A e \in Drains : GoodDrain(drain'[e])
  BY <1>1 DEF GoodDrain
<1>3. Mail!IInv'
  BY <1>1, <1>2 DEF Mail!IInv, Mail!TypeOK, Mail!CurrentClaims, GoodMail, GoodDrain
<1>4. HolderSettles
  BY DEF HolderSettles, Mail!Owns
<1>5. CancelWaits
  BY DEF CancelWaits, Mail!LiveInvitation
<1> QED BY <1>3, <1>4, <1>5 DEF MailStepOK

LEMMA ClaimMailStep ==
  ASSUME Mail!IInv, NEW d \in Drains, NEW C \in SUBSET Intents, Mail!Claim(d, C)
  PROVE  MailStepOK
<1> DEFINE s == [phase |-> "loop", cur |-> None,
                 batch |-> {[intent |-> i, gen |-> row[i].gen + 1,
                             attempts |-> row[i].attempts + 1] : i \in C}]
<1>1. /\ \A j \in Intents : GoodMail(row[j]) /\ row[j] \in Mail!Row
      /\ mailBudget \in Nat
  BY MailInvParts DEF Mail!IInv, Mail!TypeOK
<1>2. \A j \in Intents : row[j].gen + 1 \in Nat /\ row[j].attempts + 1 \in Nat
  BY <1>1 DEF Mail!Row
<1>3. s.batch \subseteq Mail!Claimed
  BY <1>2 DEF Mail!Claimed
<1>4. GoodDrain(s)
  BY <1>3 DEF GoodDrain, Mail!DrainState
<1>5. drain' = [drain EXCEPT ![d] = s]
  BY DEF Mail!Claim, Mail!SetDrain
<1>6. \A j \in Intents : row'[j] = IF j \in C
        THEN [row[j] EXCEPT !.state = "running", !.attempts = row[j].attempts + 1,
                            !.gen = row[j].gen + 1, !.owner = d, !.live = TRUE]
        ELSE row[j]
  BY DEF Mail!Claim
<1>7. ASSUME NEW j \in Intents
      PROVE  GoodMail(row'[j]) /\ (row[j].state = "running" => row'[j].state = "running")
  <2>1. CASE j \in C
    <3>1. row'[j].state = "running"
      BY <1>1, <1>6, <2>1 DEF Mail!Row
    <3>2. GoodMail([row[j] EXCEPT !.state = "running", !.attempts = row[j].attempts + 1,
                                  !.gen = row[j].gen + 1, !.owner = d, !.live = TRUE])
      BY <1>1, MailRows
    <3> QED BY <1>6, <2>1, <3>1, <3>2, Zenon
  <2>2. CASE j \notin C
    BY <1>1, <1>6, <2>2
  <2> QED BY <2>1, <2>2
<1>8. row' = [j \in Intents |-> row'[j]] /\ UNCHANGED <<invitation, mailBudget>>
  BY DEF Mail!Claim
<1> HIDE DEF s
<1> QED BY <1>1, <1>4, <1>5, <1>7, <1>8, DrainKept

\* What a settlement does to the rows.
LEMMA SettledMail ==
  ASSUME Mail!IInv, NEW d \in Drains, drain[d].cur # None,
         NEW s \in {"completed", "dead_letter", "queued"},
         Mail!Settle(d, s, FALSE) \/ UNCHANGED row
  PROVE  /\ row' = [i \in Intents |-> row'[i]]
         /\ \A i \in Intents :
              /\ GoodMail(row'[i])
              /\ row[i].state = "running" /\ row'[i].state # "running" =>
                   drain[d].cur.intent = i /\ Mail!Owns(d, drain[d].cur)
<1>1. /\ \A j \in Intents : GoodMail(row[j])
      /\ row \in [Intents -> Mail!Row]
  BY MailInvParts
<1>2. CASE UNCHANGED row
  BY <1>1, <1>2
<1>3. CASE row' # row
  <2>1. /\ Mail!Owns(d, drain[d].cur)
        /\ row' = [row EXCEPT ![drain[d].cur.intent] =
                     Mail!Released(row[drain[d].cur.intent], s, FALSE)]
    BY <1>3 DEF Mail!Settle
  <2>2. PICK c : c = drain[d].cur.intent
    OBVIOUS
  <2>3. \A i \in Intents : row'[i] = IF i = c THEN Mail!Released(row[i], s, FALSE) ELSE row[i]
    BY <1>1, <2>1, <2>2
  <2>4. \A i \in Intents : GoodMail(row'[i])
    BY <1>1, <2>3, MailRows
  <2>5. row' = [i \in Intents |-> row'[i]]
    BY <1>1, <2>1
  <2> QED BY <2>1, <2>2, <2>3, <2>4, <2>5
<1> QED BY <1>2, <1>3

\* A run ends or dies: its rows are left to an owner that is gone.
LEMMA EndStep ==
  ASSUME Mail!IInv, NEW d \in Drains, Mail!End(d), mailBudget' \in Nat
  PROVE  MailStepOK
<1>1. \A j \in Intents : GoodMail(row[j]) /\ row[j] \in Mail!Row
  BY MailInvParts DEF Mail!IInv, Mail!TypeOK
<1>2. GoodDrain(Mail!IdleDrain)
  BY DEF GoodDrain, Mail!DrainState, Mail!IdleDrain
<1>3. /\ drain' = [drain EXCEPT ![d] = Mail!IdleDrain] /\ UNCHANGED invitation
      /\ row' = [i \in Intents |-> row'[i]]
      /\ \A j \in Intents : row'[j] = IF row[j].owner = d
                                        THEN [row[j] EXCEPT !.owner = Gone] ELSE row[j]
  BY DEF Mail!End, Mail!SetDrain
<1>4. ASSUME NEW j \in Intents PROVE GoodMail(row'[j]) /\ row'[j].state = row[j].state
  <2>1. CASE row[j].owner = d
    <3>1. [row[j] EXCEPT !.owner = Gone].state = row[j].state
      BY <1>1 DEF Mail!Row
    <3> QED BY <1>1, <1>3, <2>1, <3>1, MailRows
  <2>2. CASE row[j].owner # d
    BY <1>1, <1>3, <2>2
  <2> QED BY <2>1, <2>2
<1> QED BY <1>2, <1>3, <1>4, DrainKept

LEMMA DrainStep == ASSUME Mail!IInv, NEW d \in Drains, Mail!Step(d) \/ Mail!CompleteErrs(d)
                   PROVE  MailStepOK
<1>1. /\ \A j \in Intents : GoodMail(row[j])
      /\ row \in [Intents -> Mail!Row] /\ mailBudget \in Nat
      /\ drain[d] \in Mail!DrainState /\ GoodDrain(drain[d])
  BY MailInvParts DEF Mail!IInv, Mail!TypeOK
<1>2. /\ row' = row => row' = [i \in Intents |-> row'[i]]
      /\ row' = row => \A i \in Intents : GoodMail(row'[i]) /\ row'[i].state = row[i].state
  BY <1>1
<1>3. ASSUME NEW c \in drain[d].batch, Mail!Deliver(d, c) PROVE MailStepOK
  <2>1. /\ c \in Mail!Claimed /\ c # None
        /\ drain[d].batch \ {c} \subseteq Mail!Claimed
    BY <1>1, MailAssumption DEF Mail!AuthEmailOutboxAssumption, Mail!DrainState, Mail!Claimed
  <2>2. GoodDrain([phase |-> "sending", batch |-> drain[d].batch \ {c}, cur |-> c])
    BY <2>1 DEF GoodDrain, Mail!DrainState
  <2> QED BY <1>1, <1>2, <1>3, <2>2, DrainKept DEF Mail!Deliver, Mail!SetDrain
<1>4. CASE Mail!ProviderAccepts(d) \/ Mail!DeliveryFails(d)
  <2>1. PICK ph \in {"sent", "failed"} : drain' = [drain EXCEPT ![d] = [drain[d] EXCEPT !.phase = ph]]
    BY <1>4 DEF Mail!ProviderAccepts, Mail!DeliveryFails, Mail!Goto, Mail!SetDrain
  <2>2. drain[d].phase = "sending"
    BY <1>4 DEF Mail!ProviderAccepts, Mail!DeliveryFails
  <2>3. GoodDrain([drain[d] EXCEPT !.phase = ph])
    BY <1>1, <2>2 DEF GoodDrain, Mail!DrainState
  <2>4. UNCHANGED <<row, invitation, mailBudget>>
    BY <1>4 DEF Mail!ProviderAccepts, Mail!DeliveryFails
  <2> QED BY <1>1, <1>2, <2>1, <2>3, <2>4, DrainKept
<1>5. CASE Mail!Complete(d) \/ Mail!Fail(d)
  <2>1. drain[d].cur # None
    BY <1>1, <1>5 DEF GoodDrain, Mail!Complete, Mail!Fail
  <2>2. PICK s \in {"completed", "dead_letter", "queued"} : Mail!Settle(d, s, FALSE)
    BY <1>5 DEF Mail!Complete, Mail!Fail
  <2>3. GoodDrain([drain[d] EXCEPT !.phase = "loop", !.cur = None])
    BY <1>1 DEF GoodDrain, Mail!DrainState
  <2>4. /\ drain' = [drain EXCEPT ![d] = [drain[d] EXCEPT !.phase = "loop", !.cur = None]]
        /\ UNCHANGED <<invitation, mailBudget>>
    BY <1>5 DEF Mail!Complete, Mail!Fail, Mail!BackToLoop, Mail!SetDrain
  <2> QED BY <1>1, <2>1, <2>2, <2>3, <2>4, SettledMail, DrainKept
<1>6. CASE Mail!CompleteErrs(d)
  <2>1. drain[d].cur # None /\ drain[d].phase = "sent"
    BY <1>1, <1>6 DEF GoodDrain, Mail!CompleteErrs
  <2>2. Mail!Settle(d, "completed", FALSE) \/ UNCHANGED row
    BY <1>6 DEF Mail!CompleteErrs
  <2>3. PICK t : GoodDrain(t) /\ drain' = [drain EXCEPT ![d] = t]
    <3>1. GoodDrain([drain[d] EXCEPT !.phase = "failed"])
      BY <1>1, <2>1 DEF GoodDrain, Mail!DrainState
    <3> QED BY <1>6, <3>1 DEF Mail!CompleteErrs, Mail!Goto, Mail!SetDrain
  <2>4. UNCHANGED invitation /\ mailBudget' \in Nat
    BY <1>1, <1>6 DEF Mail!CompleteErrs, Mail!Spend
  <2>5. PICK s \in {"completed", "dead_letter", "queued"} :
          Mail!Settle(d, s, FALSE) \/ UNCHANGED row
    BY <2>2
  <2>6. /\ row' = [i \in Intents |-> row'[i]]
        /\ \A i \in Intents :
             /\ GoodMail(row'[i])
             /\ row[i].state = "running" /\ row'[i].state # "running" =>
                  drain[d].cur.intent = i /\ Mail!Owns(d, drain[d].cur)
    BY <2>1, <2>5, SettledMail
  <2> QED BY <2>1, <2>3, <2>4, <2>6, DrainKept
<1>7. CASE Mail!Finish(d)
  BY <1>1, <1>7, EndStep DEF Mail!Finish
<1> QED BY <1>3, <1>4, <1>5, <1>6, <1>7 DEF Mail!Step

LEMMA MailStep == ASSUME Mail!IInv, [Mail!Next]_mailVars PROVE MailStepOK
<1>1. mailBudget \in Nat
  BY DEF Mail!IInv, Mail!TypeOK
<1>2. ASSUME NEW d \in Drains, Mail!Crash(d) PROVE MailStepOK
  BY <1>1, <1>2, EndStep DEF Mail!Crash, Mail!Spend
<1>3. CASE UNCHANGED mailVars
  <2>1. UNCHANGED <<row, invitation, drain>> /\ mailBudget' \in Nat
    BY <1>1, <1>3 DEF mailVars
  <2>2. /\ DOMAIN row' = Intents /\ row' = [i \in Intents |-> row'[i]]
        /\ \A i \in Intents : /\ GoodMail(row'[i])
                              /\ row[i].state = "running" => row'[i].state = "running"
    BY <2>1, MailInvParts
  <2> QED BY <2>1, <2>2, MailKept
<1>4. ASSUME NEW i \in Intents,
             Mail!Enqueue(i) \/ Mail!BecomeDue(i) \/ Mail!LeaseExpires(i) \/ Mail!Remove(i)
      PROVE  MailStepOK
  BY <1>4, MailRowStep
<1>5. ASSUME NEW d \in Drains, NEW C \in SUBSET Intents, Mail!Claim(d, C) PROVE MailStepOK
  BY <1>5, ClaimMailStep
<1>6. ASSUME NEW d \in Drains, Mail!Step(d) \/ Mail!CompleteErrs(d) PROVE MailStepOK
  BY <1>6, DrainStep
<1> QED
  BY <1>2, <1>3, <1>4, <1>5, <1>6, InvitationStep, Zenon DEF Mail!Next

LEMMA MailInit == Mail!Init => Mail!IInv
BY MailAssumption
DEF Mail!AuthEmailOutboxAssumption, Mail!Init, Mail!IInv, Mail!TypeOK, Mail!CurrentClaims,
    Mail!Row, Mail!Terminal, Mail!DrainState, Mail!IdleDrain

-----------------------------------------------------------------------------
(* What MCWorker composes.  The webhooks are proved in WebhookDeliveryProofs. *)

WP == INSTANCE WebhookDeliveryProofs WITH
  MaxAttempts <- WebhookAttempts, Budget <- WebhookBudget,
  job <- webhookJob, worker <- webhookWorker, budget <- webhookBudget

\* The delivery of MCWorker is the one of its proofs.
LEMMA SameWebhook ==
  /\ WP!WebhookDeliveryAssumption
  /\ Webhook!Init <=> WP!Init
  /\ [Webhook!Next]_webhookVars <=> [WP!Next]_(WP!vars)
<1>1. WP!WebhookDeliveryAssumption
  BY WebhookAssumption
  DEF Webhook!WebhookDeliveryAssumption, WP!WebhookDeliveryAssumption
<1>2. /\ Webhook!Init <=> WP!Init
      /\ [Webhook!Next]_webhookVars <=> [WP!Next]_(WP!vars)
  BY DEF webhookVars, WP!vars,
     Webhook!Init, Webhook!Next, Webhook!IdleWorker, Webhook!Claim, Webhook!Abort,
     Webhook!Step, Webhook!RecordErrs, Webhook!RenewFails, Webhook!Crash,
     Webhook!LeaseExpires, Webhook!Disable, Webhook!Claimable, Webhook!Set, Webhook!Bounds,
     Webhook!Start, Webhook!CancelDelivery, Webhook!Post, Webhook!Record, Webhook!Settle,
     Webhook!Recorded, Webhook!Conclude, Webhook!Spend, Webhook!Owns, Webhook!Deferred,
     Webhook!Tended, Webhook!Repeated, Webhook!Outcome, Webhook!Retries, Webhook!Settled,
     Webhook!HasScheduledRetry, Webhook!Ended, WP!Init, WP!Next, WP!IdleWorker, WP!Claim,
     WP!Abort, WP!Step, WP!RecordErrs, WP!RenewFails, WP!Crash, WP!LeaseExpires,
     WP!Disable, WP!Claimable, WP!Set, WP!Bounds, WP!Start, WP!CancelDelivery, WP!Post,
     WP!Record, WP!Settle, WP!Recorded, WP!Conclude, WP!Spend, WP!Owns, WP!Deferred,
     WP!Tended, WP!Repeated, WP!Outcome, WP!Retries, WP!Settled, WP!HasScheduledRetry,
     WP!Ended
<1> QED BY <1>1, <1>2

\* A behaviour of MCWorker is one of every module it is composed of, since the steps
\* of the others leave its variables alone.
LEMMA WorkerModules ==
  MCSpec => Spec /\ WP!Spec /\ Process!Spec /\ Mail!Spec
<1>1. MCInit => Init /\ WP!Init /\ Process!Init /\ Mail!Init
  BY SameWebhook DEF MCInit
<1>2. [MCNext]_all =>
        /\ [Next]_vars /\ [Webhook!Next]_webhookVars
        /\ [Process!Next]_(Process!vars) /\ [Mail!Next]_(Mail!vars)
  BY DEF MCNext, Deletes, Delivers, Loops, Mails, all, processVars, mailVars,
     Process!vars, Process!pass, Mail!vars
<1>3. [MCNext]_all => [WP!Next]_(WP!vars)
  BY <1>2, SameWebhook
<1> QED BY <1>1, <1>2, <1>3, PTL DEF MCSpec, Spec, WP!Spec, Process!Spec, Mail!Spec

\* THEOREM: a delivery is accepted once more only for a disturbance that kept its
\* acceptance from being recorded, and every scheduled retry is made unless a time
\* limit, a failed statement or a handler that outran its lease came between.
THEOREM EveryDeliveryIsExact == MCSpec => []DeliveriesAreExact
<1>1. WP!Spec => []WP!DeliveriesAreExact
  BY SameWebhook, WP!DeliveryIsExact
<1>2. WP!DeliveriesAreExact => DeliveriesAreExact
  BY DEF DeliveriesAreExact,
     Webhook!DeliveriesAreExact, Webhook!SuccessesBounded, Webhook!RetriesAreMade,
     Webhook!NoStrandedRetry, WP!DeliveriesAreExact, WP!SuccessesBounded,
     WP!RetriesAreMade, WP!NoStrandedRetry
<1> QED BY <1>1, <1>2, WorkerModules, PTL

LEMMA ProcessInvariance == Process!Spec => []Process!IInv
<1>1. Process!IInv /\ [Process!Next]_(Process!vars) => Process!IInv'
  BY ProcessStep DEF processVars, Process!vars, Process!pass
<1> QED BY ProcessInit, <1>1, PTL DEF Process!Spec

\* THEOREM: a hard exit ends only a pass that is still at work after its own time
\* limit and that no signal drains; exit zero is for a process that was told to stop.
THEOREM EveryExitIsEarned == MCSpec => ExitsAreEarned
<1>1. Process!Spec => []Process!IInv
  BY ProcessInvariance
<1>2. Process!IInv /\ [Process!Next]_(Process!vars) =>
        [/\ proc = "up" /\ proc' = "hard" => stage # "none" /\ late /\ reason # "drain"
         /\ proc = "up" /\ proc' = "exit_0" => told' /\ stage = "none"]_(Process!vars)
  BY ExitStep DEF EarnedExit, processVars, Process!vars, Process!pass
<1> QED
  BY <1>1, <1>2, WorkerModules, PTL
  DEF ExitsAreEarned, Process!ExitsAreEarned, Process!Spec

\* The inductive invariant of the outbox, and its two properties, for any rows, drains,
\* attempts and disturbances.
LEMMA MailInvariance == Mail!Spec => []Mail!IInv
<1>1. Mail!IInv /\ [Mail!Next]_(Mail!vars) => Mail!IInv'
  BY MailStep DEF MailStepOK, mailVars, Mail!vars
<1> QED BY MailInit, <1>1, PTL DEF Mail!Spec

\* THEOREM: the claim on a row of the outbox that is in force is settled by its holder.
THEOREM HoldersSettleMail == MCSpec => SettledByHolder
<1>1. Mail!IInv /\ [Mail!Next]_(Mail!vars) =>
        [\A i \in Intents :
           row[i].state = "running" /\ row'[i].state # "running" =>
             \E d \in Drains : row[i].owner = d /\ drain[d].cur # None
                                 /\ drain[d].cur.intent = i
                                 /\ drain[d].cur.gen = row[i].gen]_(Mail!vars)
  BY MailStep DEF MailStepOK, HolderSettles, mailVars, Mail!vars
<1> QED
  BY <1>1, MailInvariance, WorkerModules, PTL
  DEF SettledByHolder, Mail!SettledByHolder, Mail!Spec

\* THEOREM: nobody cancels an invitation that a drain with a current claim may be
\* handing to the provider.
THEOREM CancelsWaitForDelivery == MCSpec => CancelWaitsForDelivery
<1>1. Mail!IInv /\ [Mail!Next]_(Mail!vars) =>
        [Mail!LiveInvitation /\ invitation'.status = "canceled" =>
           \A d \in Drains : \A c \in drain[d].batch \cup ({drain[d].cur} \ {None}) :
             c.intent \in Mail!Invites => ~Mail!Owns(d, c)]_(Mail!vars)
  BY MailStep DEF MailStepOK, CancelWaits, mailVars, Mail!vars
<1> QED
  BY <1>1, MailInvariance, WorkerModules, PTL
  DEF CancelWaitsForDelivery, Mail!CancelWaitsForDelivery, Mail!Spec

\* THEOREM: the rows, the locals and the counters of the worker's modules keep their
\* types, and what their type invariants say of leases, stages and timers.
THEOREM WorkerTypes == MCSpec => []TypesOK
<1>1. Spec => []TypeOK
  BY DeletionAssumption, DeletionTypes DEF DeletionRequestAssumption
<1>2. WP!Spec => []WP!TypeOK
  BY SameWebhook, WP!WebhookTypes
<1>3. WP!TypeOK => Webhook!TypeOK
  BY DEF
     Webhook!TypeOK, Webhook!Job, Webhook!Delivery, Webhook!WorkerState, Webhook!Outcome,
     Webhook!Verdict, WP!TypeOK, WP!Job, WP!Delivery, WP!WorkerState, WP!Outcome,
     WP!Verdict
<1>4. Process!Spec => []Process!IInv
  BY ProcessInvariance
<1>5. (Process!IInv => Process!TypeOK) /\ (Mail!IInv => Mail!TypeOK)
  BY DEF Process!IInv, Mail!IInv
<1> QED BY <1>1, <1>2, <1>3, <1>4, <1>5, MailInvariance, WorkerModules, PTL DEF TypesOK

=============================================================================
