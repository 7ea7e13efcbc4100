------------------------ MODULE GovernedExportProofs ------------------------
(***************************************************************************)
(* For every number of commits, approvals and changes of the data: an      *)
(* artifact that is ready has its bytes, and what is downloaded of a       *)
(* sensitive export was approved by someone else.                          *)
(***************************************************************************)
EXTENDS GovernedExport, TLAPS

-----------------------------------------------------------------------------
(* What each group of actions leaves as it is. *)

\* An approval that has been given stays.
ApprovalsStay == \A h : ApprovedByOther(h) => ApprovedByOther(h)'

\* The invariant of the artifact, its approvals and its commits, for steps that
\* change no more of the artifact than its expiry.
LEMMA QuietStep ==
  ASSUME IInv, TypeOK', ReviewsOK', ApprovalsStay,
         UNCHANGED <<sensitive, file, object, downloaded>>,
         artifact'.state = artifact.state, artifact'.hash = artifact.hash,
         \A c \in Commits : CommitOK(c)'
  PROVE  IInv'
BY DEF IInv, ArtifactOK, DownloadIsApproved, ApprovalsStay

\* A commit that moves on without the artifact: refused, or to an earlier phase.
LEMMA CommitMoves ==
  ASSUME IInv, NEW c \in Commits, UNCHANGED <<world, approval, stored, downloaded>>,
         NEW k \in Commit, commit' = [commit EXCEPT ![c] = k],
         k.phase \notin {"put", "finalize", "failed"},
         k.phase = "claim" /\ sensitive => ApprovedByOther(k.content)
  PROVE  IInv'
<1>1. /\ commit' \in [Commits -> Commit]
      /\ \A d \in Commits : commit'[d] = IF d = c THEN k ELSE commit[d]
  BY DEF IInv, TypeOK
<1>2. TypeOK' /\ ReviewsOK' /\ ApprovalsStay
  BY <1>1 DEF IInv, TypeOK, ReviewsOK, ApprovalsStay, ApprovedByOther, world, stored
<1>3. ASSUME NEW d \in Commits PROVE CommitOK(d)'
  BY <1>1 DEF IInv, CommitOK, ApprovedByOther, world, stored
<1> QED BY <1>2, <1>3, QuietStep DEF world, stored

LEMMA Phases ==
  ASSUME IInv, NEW c \in Commits, NEW p, GoTo(c, p),
         p \in {"claim", "put", "finalize", "failed", "answered", "refused"}
  PROVE  /\ commit' \in [Commits -> Commit]
         /\ \A d \in Commits :
              /\ commit'[d].phase = IF d = c THEN p ELSE commit[d].phase
              /\ commit'[d].content = commit[d].content
<1>1. commit[c] \in Commit
  BY DEF IInv, TypeOK
<1>2. [commit[c] EXCEPT !.phase = p] \in Commit
  BY <1>1 DEF Commit
<1> QED BY <1>1, <1>2 DEF IInv, TypeOK, GoTo, Commit

LEMMA CommitStops ==
  ASSUME IInv, NEW c \in Commits, UNCHANGED <<world, approval, stored, downloaded>>,
         NEW p \in {"claim", "answered", "refused"}, GoTo(c, p),
         p = "claim" /\ sensitive => ApprovedByOther(commit[c].content)
  PROVE  IInv'
<1> DEFINE k == [commit[c] EXCEPT !.phase = p]
<1>1. commit[c] \in Commit
  BY DEF IInv, TypeOK
<1>2. k \in Commit /\ k.phase = p /\ k.content = commit[c].content
  BY <1>1 DEF Commit
<1>3. commit' = [commit EXCEPT ![c] = k]
  BY DEF GoTo
<1> HIDE DEF k
<1> QED BY <1>2, <1>3, CommitMoves

-----------------------------------------------------------------------------
(* Approvals. *)

\* A row that was not approved before changes, and is approved by someone else only.
LEMMA ApprovalStep ==
  ASSUME IInv, NEW a \in Approvals, NEW x \in Approval,
         approval' = [approval EXCEPT ![a] = x],
         x.state = "approved" => x.reviewer = "other",
         approval[a].state = "approved" =>
           x.state = "approved" /\ x.reviewer = "other" /\ x.hash = approval[a].hash,
         UNCHANGED <<world, stored, commit, downloaded>>
  PROVE  IInv'
<1>1. /\ approval' \in [Approvals -> Approval]
      /\ \A b \in Approvals : approval'[b] = IF b = a THEN x ELSE approval[b]
  BY DEF IInv, TypeOK
<1>2. TypeOK' /\ ReviewsOK'
  BY <1>1 DEF IInv, TypeOK, ReviewsOK, world, stored
<1>3. ApprovalsStay
  BY <1>1 DEF ApprovalsStay, ApprovedByOther
<1>4. ASSUME NEW c \in Commits PROVE CommitOK(c)'
  BY <1>3 DEF IInv, CommitOK, ApprovalsStay, world, stored
<1> QED BY <1>2, <1>3, <1>4, QuietStep DEF world, stored

LEMMA ApprovalsStep ==
  ASSUME GovernedExportAssumption, IInv, NEW a \in Approvals,
         RequestApproval(a) \/ ReviewApproval(a) \/ ApprovalExpires(a)
  PROVE  IInv'
<1>0. approval[a] \in Approval /\ approval \in [Approvals -> Approval] /\ data \in Versions
  BY DEF IInv, TypeOK
<1>1. CASE RequestApproval(a)
  <2>1. PICK h \in 0..data :
          approval' = [approval EXCEPT ![a] =
            [state |-> "requested", hash |-> h, reviewer |-> None, live |-> TRUE]]
    BY <1>1 DEF RequestApproval
  <2>2. h \in Versions
    BY <1>0 DEF Versions, GovernedExportAssumption
  <2>3. [state |-> "requested", hash |-> h, reviewer |-> None, live |-> TRUE] \in Approval
    BY <2>2 DEF Approval
  <2> QED BY <1>1, <2>1, <2>3, ApprovalStep DEF RequestApproval
<1>2. CASE ReviewApproval(a)
  <2>1. PICK u \in {"requester", "other"}, decision \in {"approved", "rejected"} :
          /\ IsCurrentReviewer(u)
          /\ approval' = [approval EXCEPT ![a].state = decision, ![a].reviewer = u]
    BY <1>2 DEF ReviewApproval
  <2> DEFINE x == [approval[a] EXCEPT !.state = decision, !.reviewer = u]
  <2>2. x \in Approval /\ x.reviewer = "other"
    BY <1>0, <2>1 DEF Approval, IsCurrentReviewer
  <2>3. approval' = [approval EXCEPT ![a] = x]
    BY <1>0, <2>1
  <2> HIDE DEF x
  <2> QED BY <1>2, <2>2, <2>3, ApprovalStep DEF ReviewApproval
<1>3. CASE ApprovalExpires(a)
  <2> DEFINE x == [approval[a] EXCEPT !.live = FALSE]
  <2>1. /\ x \in Approval /\ x.state = approval[a].state
        /\ x.reviewer = approval[a].reviewer /\ x.hash = approval[a].hash
    BY <1>0 DEF Approval
  <2>2. approval' = [approval EXCEPT ![a] = x]
    BY <1>0, <1>3 DEF ApprovalExpires
  <2>3. approval[a].state = "approved" => approval[a].reviewer = "other"
    BY DEF IInv, ReviewsOK
  <2> HIDE DEF x
  <2> QED BY <1>3, <2>1, <2>2, <2>3, ApprovalStep DEF ApprovalExpires
<1> QED BY <1>1, <1>2, <1>3

-----------------------------------------------------------------------------
(* Commits. *)

LEMMA PreparationStep ==
  ASSUME IInv, NEW c \in Commits,
         Preview(c) \/ StartCommit(c) \/ RequireApproved(c) \/ CommitDies(c)
  PROVE  IInv'
<1>0. commit[c] \in Commit /\ data \in Versions
  BY DEF IInv, TypeOK
<1>1. CASE Preview(c)
  <2> DEFINE k == [commit[c] EXCEPT !.phase = "previewed", !.token = data]
  <2>1. k \in Commit /\ k.phase = "previewed"
    BY <1>0 DEF Commit
  <2>2. commit' = [commit EXCEPT ![c] = k]
    BY <1>1 DEF Preview
  <2> HIDE DEF k
  <2> QED BY <1>1, <2>1, <2>2, CommitMoves DEF Preview
<1>2. CASE StartCommit(c)
  <2>1. CASE commit' = [commit EXCEPT ![c].phase = "approval", ![c].content = data]
    <3> DEFINE k == [commit[c] EXCEPT !.phase = "approval", !.content = data]
    <3>1. k \in Commit /\ k.phase = "approval"
      BY <1>0 DEF Commit
    <3>2. commit' = [commit EXCEPT ![c] = k]
      BY <2>1
    <3> HIDE DEF k
    <3> QED BY <1>2, <3>1, <3>2, CommitMoves DEF StartCommit
  <2>2. CASE GoTo(c, "refused")
    BY <1>2, <2>2, CommitStops DEF StartCommit
  <2> QED BY <1>2, <2>1, <2>2 DEF StartCommit
<1>3. CASE RequireApproved(c)
  <2>1. CASE GoTo(c, "refused")
    BY <1>3, <2>1, CommitStops DEF RequireApproved
  <2>2. CASE GoTo(c, "claim") /\ (sensitive => Approved(commit[c].content))
    <3>1. sensitive => ApprovedByOther(commit[c].content)
      BY <2>2 DEF IInv, ReviewsOK, Approved, ApprovedByOther
    <3> QED BY <1>3, <2>2, <3>1, CommitStops DEF RequireApproved
  <2> QED BY <1>3, <2>1, <2>2 DEF RequireApproved
<1>4. CASE CommitDies(c)
  BY <1>4, CommitStops DEF CommitDies
<1> QED BY <1>1, <1>2, <1>3, <1>4

LEMMA ClaimStep ==
  ASSUME IInv, NEW c \in Commits, ClaimArtifact(c)
  PROVE  IInv'
<1>0. commit[c] \in Commit /\ artifact \in Artifact /\ commit[c].phase = "claim"
  BY DEF IInv, TypeOK, ClaimArtifact
<1>1. CASE artifact.state = "none"
  <2>1. /\ artifact' = [state |-> "writing", hash |-> commit[c].content, live |-> TRUE]
        /\ file' = [state |-> "quarantined", checksum |-> commit[c].content]
        /\ GoTo(c, "put")
    BY <1>1 DEF ClaimArtifact
  <2>2. TypeOK'
    <3>1. commit[c].content \in Versions \cup {None}
      BY <1>0 DEF Commit
    <3> QED BY <2>1, <3>1, Phases DEF IInv, TypeOK, ClaimArtifact, Artifact, File, world
  <2>3. ReviewsOK' /\ DownloadIsApproved' /\ UNCHANGED <<sensitive, approval, object>>
    BY DEF IInv, ReviewsOK, DownloadIsApproved, ApprovedByOther, ClaimArtifact, world
  <2>4. ArtifactOK'
    BY <1>0, <2>1, <2>3 DEF IInv, CommitOK, ArtifactOK, ApprovedByOther
  <2>5. ASSUME NEW d \in Commits PROVE CommitOK(d)'
    BY <1>1, <2>1, <2>3, Phases DEF IInv, CommitOK, ApprovedByOther
  <2> QED BY <2>2, <2>3, <2>4, <2>5 DEF IInv
<1>2. CASE artifact.state # "none" /\ GoTo(c, "put") /\ SameRequest(c)
  <2>1. UNCHANGED <<world, approval, stored, downloaded>>
    BY <1>2 DEF ClaimArtifact, stored
  <2>2. TypeOK' /\ ReviewsOK' /\ ApprovalsStay
    BY <1>2, <2>1, Phases DEF IInv, TypeOK, ReviewsOK, ApprovalsStay, ApprovedByOther, world, stored
  <2>3. ASSUME NEW d \in Commits PROVE CommitOK(d)'
    BY <1>2, <2>1, Phases DEF IInv, CommitOK, SameRequest, ApprovedByOther, world, stored
  <2> QED BY <2>1, <2>2, <2>3, QuietStep DEF world, stored
<1>3. CASE artifact.state # "none" /\ \E p \in {"refused", "answered"} : GoTo(c, p)
  BY <1>3, CommitStops DEF ClaimArtifact, stored
<1> QED BY <1>1, <1>2, <1>3 DEF ClaimArtifact

\* Bytes are written under the hash of the artifact, if it is not ready with others.
LEMMA PutStep ==
  ASSUME IInv, NEW c \in Commits, Put(c)
  PROVE  IInv'
<1>0. /\ commit[c] \in Commit /\ commit[c].phase = "put"
      /\ UNCHANGED <<sensitive, data, covered, approval, artifact, file, downloaded>>
  BY DEF IInv, TypeOK, Put, world
<1>1. \/ object' = commit[c].content /\ GoTo(c, "finalize")
      \/ object' \in {object, commit[c].content} /\ GoTo(c, "failed")
  BY DEF Put
<1>2. artifact.state # "none" /\ commit[c].content = artifact.hash
  BY <1>0 DEF IInv, CommitOK
<1>3. TypeOK' /\ ReviewsOK'
  <2>1. commit[c].content \in Versions \cup {None}
    BY <1>0 DEF Commit
  <2> QED BY <1>0, <1>1, <2>1, Phases DEF IInv, TypeOK, ReviewsOK
<1>4. ArtifactOK' /\ DownloadIsApproved'
  BY <1>0, <1>1, <1>2 DEF IInv, ArtifactOK, DownloadIsApproved, ApprovedByOther
<1>5. ASSUME NEW d \in Commits PROVE CommitOK(d)'
  BY <1>0, <1>1, <1>2, Phases DEF IInv, CommitOK, ApprovedByOther
<1> QED BY <1>3, <1>4, <1>5 DEF IInv

\* What a commit records in its second transaction.
LEMMA OutcomeStep ==
  ASSUME IInv, NEW c \in Commits, PutFails(c) \/ Finalize(c)
  PROVE  IInv'
<1>0. /\ artifact \in Artifact /\ file \in File
      /\ artifact.state # "none" /\ commit[c].content = artifact.hash
      /\ commit[c].phase = "finalize" => object = artifact.hash
      /\ UNCHANGED <<sensitive, data, covered, approval, object, downloaded>>
  BY DEF IInv, TypeOK, CommitOK, PutFails, Finalize, world
<1>1. /\ artifact' \in Artifact /\ artifact'.state # "none" /\ artifact'.hash = artifact.hash
      /\ file' \in File /\ file'.checksum = file.checksum
      /\ file'.state = IF artifact'.state = "ready" THEN "available" ELSE "quarantined"
      /\ artifact'.state = "ready" => object = artifact.hash
  BY <1>0 DEF IInv, ArtifactOK, PutFails, Finalize, MarkFailed, Recoverable, Artifact, File
<1>2. \E p \in {"answered", "refused"} : GoTo(c, p)
  BY DEF PutFails, Finalize
<1>3. TypeOK' /\ ReviewsOK'
  BY <1>0, <1>1, <1>2, Phases DEF IInv, TypeOK, ReviewsOK
<1>4. ArtifactOK' /\ DownloadIsApproved'
  BY <1>0, <1>1 DEF IInv, ArtifactOK, DownloadIsApproved, ApprovedByOther
<1>5. ASSUME NEW d \in Commits PROVE CommitOK(d)'
  BY <1>0, <1>1, <1>2, Phases DEF IInv, CommitOK, ApprovedByOther
<1> QED BY <1>3, <1>4, <1>5 DEF IInv

-----------------------------------------------------------------------------
(* The world around the commits. *)

LEMMA WorldStep ==
  ASSUME GovernedExportAssumption, IInv,
         ArtifactExpires \/ Download \/ DataChanges \/ CoverageChanges
  PROVE  IInv'
<1>1. CASE ArtifactExpires
  <2>1. /\ artifact' \in Artifact /\ artifact'.state = artifact.state
        /\ artifact'.hash = artifact.hash
    BY <1>1 DEF IInv, TypeOK, ArtifactExpires, Artifact
  <2> QED
    BY <1>1, <2>1 DEF ArtifactExpires, IInv, TypeOK, ReviewsOK, ArtifactOK, DownloadIsApproved,
      CommitOK, ApprovedByOther, world
<1>2. CASE Download
  <2>1. sensitive => ApprovedByOther(object)
    BY <1>2 DEF IInv, ArtifactOK, Download
  <2> QED
    BY <1>2, <2>1 DEF Download, IInv, TypeOK, ReviewsOK, ArtifactOK, DownloadIsApproved,
      CommitOK, ApprovedByOther, world, stored
<1>3. CASE DataChanges
  <2>1. data' \in Versions
    BY <1>3 DEF DataChanges, IInv, TypeOK, Versions, GovernedExportAssumption
  <2> QED
    BY <1>3, <2>1 DEF DataChanges, IInv, TypeOK, ReviewsOK, ArtifactOK, DownloadIsApproved,
      CommitOK, ApprovedByOther, stored
<1>4. CASE CoverageChanges
  <2>1. covered' \in [now : BOOLEAN, lapses : 0..MaxLapses]
    BY <1>4 DEF CoverageChanges, IInv, TypeOK, GovernedExportAssumption
  <2> QED
    BY <1>4, <2>1 DEF CoverageChanges, IInv, TypeOK, ReviewsOK, ArtifactOK, DownloadIsApproved,
      CommitOK, ApprovedByOther, stored
<1> QED BY <1>1, <1>2, <1>3, <1>4

-----------------------------------------------------------------------------
(* The theorems. *)

LEMMA InitInv == ASSUME GovernedExportAssumption, Init PROVE IInv
<1>1. TypeOK
  BY DEF GovernedExportAssumption, Init, TypeOK, Versions, Approval, Artifact, File, Commit,
    IdleCommit
<1> QED
  BY <1>1 DEF Init, IInv, ReviewsOK, ArtifactOK, DownloadIsApproved, CommitOK, IdleCommit

LEMMA StepInv == ASSUME GovernedExportAssumption, IInv, [Next]_vars PROVE IInv'
<1>1. CASE Next
  BY <1>1, ApprovalsStep, PreparationStep, ClaimStep, PutStep, OutcomeStep, WorldStep DEF Next
<1>2. CASE UNCHANGED vars
  BY <1>2 DEF vars, IInv, TypeOK, ReviewsOK, ArtifactOK, DownloadIsApproved, CommitOK,
    ApprovedByOther
<1> QED BY <1>1, <1>2

\* An artifact keeps the hash it was claimed for, and whoever may still write it has
\* that content, for every number of commits of its key.
THEOREM ExportInvariance == ASSUME GovernedExportAssumption PROVE Spec => []IInv
<1>1. Init => IInv
  BY InitInv
<1>2. IInv /\ [Next]_vars => IInv'
  BY StepInv
<1> QED BY <1>1, <1>2, PTL DEF Spec

\* Rows, object and the locals of every commit keep their shape.
THEOREM ExportTypes == ASSUME GovernedExportAssumption PROVE Spec => []TypeOK
<1>1. IInv => TypeOK
  BY DEF IInv
<1> QED BY <1>1, ExportInvariance, PTL

\* A ready artifact has an available file and the bytes that both name, whatever
\* other commits of its key still write.
THEOREM ReadyArtifactIsWhole == ASSUME GovernedExportAssumption PROVE Spec => []ReadyIsWhole
<1>1. IInv => ReadyIsWhole
  BY DEF IInv, ArtifactOK, ReadyIsWhole
<1> QED BY <1>1, ExportInvariance, PTL

\* What is downloaded of a sensitive export was approved, byte for byte, by someone
\* other than its requester.
THEOREM DownloadsAreApproved ==
  ASSUME GovernedExportAssumption PROVE Spec => []DownloadIsApproved
<1>1. IInv => DownloadIsApproved
  BY DEF IInv
<1> QED BY <1>1, ExportInvariance, PTL

=============================================================================
