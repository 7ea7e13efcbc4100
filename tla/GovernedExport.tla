--------------------------- MODULE GovernedExport ---------------------------
(***************************************************************************)
(* A governed export: previews, the independent approval of a preview      *)
(* (src/modules/exports), the commit that writes the artifact              *)
(* (src/modules/search/service.ts) and its download (src/modules/files).   *)
(*                                                                         *)
(* All commits of one idempotency key share one artifact, its row in files *)
(* and its object.  A commit previews again, checks the approval, claims   *)
(* the artifact in a transaction, writes the object outside of any, and    *)
(* records the outcome in a second one; it may die at any of these steps.  *)
(* A preview is the version of the data it shows: its hash and the bytes   *)
(* of the export depend on nothing else.                                   *)
(***************************************************************************)
EXTENDS Naturals

CONSTANTS
  Commits,     \* commits with the key: retries, or a second client
  Approvals,   \* rows of export_approvals for this actor, purpose and profile
  MaxVersion,  \* bound: changes of what the query finds
  MaxLapses,   \* bound: times the purpose coverage is withdrawn
  None

GovernedExportAssumption == MaxVersion \in Nat /\ MaxLapses \in Nat

VARIABLES
  sensitive,   \* approvalRequired: the profile is high or a field redacted
  data,        \* the version of what the query finds
  covered,     \* the purpose coverage of every person in it, and its lapses
  approval,    \* approval[a]: state, preview hash, reviewer, not yet expired
  artifact,    \* the row of export_artifacts
  file,        \* its row of files
  object,      \* the version in the object store under its key
  commit,      \* commit[c]: phase, token and content
  downloaded   \* history: the version that was downloaded last

vars == <<sensitive, data, covered, approval, artifact, file, object, commit, downloaded>>

-----------------------------------------------------------------------------

Versions == 0..MaxVersion

Approval == [state : {"none", "requested", "approved", "rejected"},
             hash : Versions \cup {None},
             reviewer : {None, "requester", "other"}, live : BOOLEAN]

Artifact == [state : {"none", "writing", "failed", "ready"},
             hash : Versions \cup {None}, live : BOOLEAN]

File == [state : {"none", "quarantined", "available"}, checksum : Versions \cup {None}]

\* token is the version the commit token is bound to, content the one previewed again.
Commit == [phase : {"idle", "previewed", "approval", "claim", "put", "finalize",
                    "failed", "answered", "refused"},
           token : Versions \cup {None}, content : Versions \cup {None}]

IdleCommit == [phase |-> "idle", token |-> None, content |-> None]

Init ==
  /\ sensitive \in BOOLEAN
  /\ data = 0
  /\ covered = [now |-> TRUE, lapses |-> 0]
  /\ approval = [a \in Approvals |->
       [state |-> "none", hash |-> None, reviewer |-> None, live |-> FALSE]]
  /\ artifact = [state |-> "none", hash |-> None, live |-> FALSE]
  /\ file = [state |-> "none", checksum |-> None]
  /\ object = None
  /\ commit = [c \in Commits |-> IdleCommit]
  /\ downloaded = None

world == <<sensitive, data, covered>>
stored == <<artifact, file, object>>

-----------------------------------------------------------------------------
(* Approvals. *)

\* request: of a preview that has been shown.
RequestApproval(a) ==
  /\ approval[a].state = "none"
  /\ \E h \in 0..data :
       approval' = [approval EXCEPT ![a] =
         [state |-> "requested", hash |-> h, reviewer |-> None, live |-> TRUE]]
  /\ UNCHANGED <<world, stored, commit, downloaded>>

\* Mutant: whoever asked may review.
IsCurrentReviewerMutant(u) == TRUE

\* isCurrentReviewer, of those who may review at all
IsCurrentReviewer(u) == u # "requester"

\* review: the row is updated at the version that was read.
ReviewApproval(a) ==
  /\ approval[a].state = "requested" /\ approval[a].live
  /\ \E u \in {"requester", "other"}, decision \in {"approved", "rejected"} :
       /\ IsCurrentReviewer(u)
       /\ approval' = [approval EXCEPT ![a].state = decision, ![a].reviewer = u]
  /\ UNCHANGED <<world, stored, commit, downloaded>>

ApprovalExpires(a) ==
  /\ approval[a].live
  /\ approval' = [approval EXCEPT ![a].live = FALSE]
  /\ UNCHANGED <<world, stored, commit, downloaded>>

\* Mutant: the approval of any preview will do.
ApprovedMutant(h) == \E a \in Approvals : approval[a].state = "approved" /\ approval[a].live

\* requireApproved
Approved(h) ==
  \E a \in Approvals :
    approval[a].state = "approved" /\ approval[a].hash = h /\ approval[a].live

-----------------------------------------------------------------------------
(* Preview and commit. *)

GoTo(c, p) == commit' = [commit EXCEPT ![c].phase = p]

\* previewExport; its token names what it has shown.
Preview(c) ==
  /\ commit[c].phase = "idle"
  /\ covered.now
  /\ commit' = [commit EXCEPT ![c].phase = "previewed", ![c].token = data]
  /\ UNCHANGED <<world, approval, stored, downloaded>>

\* commitExport previews again and verifies the token, which may have expired.
StartCommit(c) ==
  /\ commit[c].phase = "previewed"
  /\ \/ /\ covered.now /\ commit[c].token = data
        /\ commit' = [commit EXCEPT ![c].phase = "approval", ![c].content = data]
     \/ GoTo(c, "refused")
  /\ UNCHANGED <<world, approval, stored, downloaded>>

RequireApproved(c) ==
  /\ commit[c].phase = "approval"
  /\ GoTo(c, IF sensitive => Approved(commit[c].content) THEN "claim" ELSE "refused")
  /\ UNCHANGED <<world, approval, stored, downloaded>>

\* Mutant: the key alone names the request.
SameRequestMutant(c) == TRUE

\* requestHash
SameRequest(c) == artifact.hash = commit[c].content

\* isExportArtifactRecoverable
Recoverable == artifact.state \in {"writing", "failed"}

\* The transaction under the lock of the key.
ClaimArtifact(c) ==
  /\ commit[c].phase = "claim"
  /\ IF artifact.state = "none"
       THEN /\ artifact' = [state |-> "writing", hash |-> commit[c].content, live |-> TRUE]
            /\ file' = [state |-> "quarantined", checksum |-> commit[c].content]
            /\ GoTo(c, "put")
       ELSE /\ UNCHANGED <<artifact, file>>
            /\ GoTo(c, IF ~SameRequest(c) THEN "refused"
                       ELSE IF artifact.state = "ready" THEN "answered"
                       ELSE IF Recoverable THEN "put" ELSE "refused")
  /\ UNCHANGED <<world, approval, object, downloaded>>

\* putInternal; a call that fails may have stored the object.
Put(c) ==
  /\ commit[c].phase = "put"
  /\ \/ object' = commit[c].content /\ GoTo(c, "finalize")
     \/ object' \in {object, commit[c].content} /\ GoTo(c, "failed")
  /\ UNCHANGED <<world, approval, artifact, file, downloaded>>

\* Mutant: the failure of a slow commit is recorded whatever became of the artifact.
MarkFailedMutant(c) == artifact' = [artifact EXCEPT !.state = "failed"]

MarkFailed(c) ==
  artifact' = IF Recoverable THEN [artifact EXCEPT !.state = "failed"] ELSE artifact

PutFails(c) ==
  /\ commit[c].phase = "failed"
  /\ MarkFailed(c)
  /\ GoTo(c, "refused")
  /\ UNCHANGED <<world, approval, file, object, downloaded>>

\* The second transaction; another commit may have been there before.
Finalize(c) ==
  /\ commit[c].phase = "finalize"
  /\ IF Recoverable
       THEN /\ artifact' = [artifact EXCEPT !.state = "ready"]
            /\ file' = [file EXCEPT !.state = IF @ = "quarantined" THEN "available" ELSE @]
       ELSE UNCHANGED <<artifact, file>>
  /\ GoTo(c, IF artifact'.state = "ready" THEN "answered" ELSE "refused")
  /\ UNCHANGED <<world, approval, object, downloaded>>

CommitDies(c) ==
  /\ commit[c].phase \in {"approval", "claim", "put", "finalize", "failed"}
  /\ GoTo(c, "refused")
  /\ UNCHANGED <<world, approval, stored, downloaded>>

-----------------------------------------------------------------------------
(* The artifact afterwards, and the world around it. *)

ArtifactExpires ==
  /\ artifact.live
  /\ artifact' = [artifact EXCEPT !.live = FALSE]
  /\ UNCHANGED <<world, approval, file, object, commit, downloaded>>

\* createDownload: the lifecycle and the coverage are checked on every download.
Download ==
  /\ artifact.state = "ready" /\ artifact.live
  /\ covered.now
  /\ file.state = "available"
  /\ downloaded' = object
  /\ UNCHANGED <<world, approval, stored, commit>>

DataChanges ==
  /\ data < MaxVersion
  /\ data' = data + 1
  /\ UNCHANGED <<sensitive, covered, approval, stored, commit, downloaded>>

CoverageChanges ==
  /\ covered.now => covered.lapses < MaxLapses
  /\ covered' = [now |-> ~covered.now,
                 lapses |-> IF covered.now THEN covered.lapses + 1 ELSE covered.lapses]
  /\ UNCHANGED <<sensitive, data, approval, stored, commit, downloaded>>

Next ==
  \/ \E a \in Approvals : RequestApproval(a) \/ ReviewApproval(a) \/ ApprovalExpires(a)
  \/ \E c \in Commits :
       \/ Preview(c) \/ StartCommit(c) \/ RequireApproved(c)
       \/ ClaimArtifact(c) \/ Put(c) \/ PutFails(c) \/ Finalize(c)
       \/ CommitDies(c)
  \/ ArtifactExpires \/ Download
  \/ DataChanges \/ CoverageChanges

Spec == Init /\ [][Next]_vars

-----------------------------------------------------------------------------
(* Properties. *)

\* Every variable has its type.
TypeOK ==
  /\ sensitive \in BOOLEAN /\ data \in Versions
  /\ covered \in [now : BOOLEAN, lapses : 0..MaxLapses]
  /\ approval \in [Approvals -> Approval]
  /\ artifact \in Artifact /\ file \in File /\ object \in Versions \cup {None}
  /\ commit \in [Commits -> Commit]
  /\ downloaded \in Versions \cup {None}

\* The file is available exactly when the artifact is ready, and then the store
\* holds the bytes that the row and the checksum name, however many commits have
\* written them, and goes on holding them when a slow one still writes or fails.
ReadyIsWhole ==
  /\ file.state = "available" <=> artifact.state = "ready"
  /\ artifact.state = "ready" => object = artifact.hash /\ object = file.checksum

ApprovedByOther(h) ==
  \E a \in Approvals :
    approval[a].state = "approved" /\ approval[a].reviewer = "other" /\ approval[a].hash = h

\* What is downloaded of a sensitive export has been approved, byte for byte, by
\* someone other than its requester, whatever the data have become since.
DownloadIsApproved == sensitive /\ downloaded # None => ApprovedByOther(downloaded)

\* The comment on recovery in commitExport: "Never revive an expired artifact or
\* one in an unknown state."  No commit resumes an artifact past its expiry.
ExpiredIsNotRevived ==
  [][\A c \in Commits :
       commit[c].phase = "claim" /\ commit'[c].phase = "put" /\ artifact.state # "none"
         => artifact.live]_vars

-----------------------------------------------------------------------------
(* The inductive invariant of GovernedExportProofs. *)

ReviewsOK == \A a \in Approvals : approval[a].state = "approved" => approval[a].reviewer = "other"

\* The artifact keeps the hash that its file and its approval were made for.
ArtifactOK ==
  IF artifact.state = "none" THEN file.state = "none"
  ELSE /\ file.state = IF artifact.state = "ready" THEN "available" ELSE "quarantined"
       /\ file.checksum = artifact.hash
       /\ artifact.state = "ready" => object = artifact.hash
       /\ sensitive => ApprovedByOther(artifact.hash)

\* Whoever may still write has the content that the artifact was claimed for.
CommitOK(c) ==
  /\ commit[c].phase = "claim" /\ sensitive => ApprovedByOther(commit[c].content)
  /\ commit[c].phase \in {"put", "finalize", "failed"} =>
       artifact.state # "none" /\ commit[c].content = artifact.hash
  /\ commit[c].phase = "finalize" => object = commit[c].content

IInv ==
  /\ TypeOK /\ ReviewsOK /\ ArtifactOK /\ DownloadIsApproved
  /\ \A c \in Commits : CommitOK(c)

=============================================================================
