------------------------- MODULE UploadSessionProofs -------------------------
(***************************************************************************)
(* For every number of PUTs, calls, cleanup workers and disturbances: a    *)
(* file that can be downloaded has its bytes, a session that has ended     *)
(* stays ended, and, where a PUT is interrupted within its own window,     *)
(* cleanup leaves no orphan.                                               *)
(***************************************************************************)
EXTENDS UploadSession, TLAPS

-----------------------------------------------------------------------------
(* Types.  A step is described by the fields it sets, so that what follows   *)
(* need not look into records that are updated.                              *)

LEMMA InitTypes == Init => TypeOK
<1> SUFFICES ASSUME Init PROVE TypeOK
  OBVIOUS
<1>1. IdleWorker \in WorkerState
  BY DEF IdleWorker, WorkerState
<1>2. worker \in [Workers -> WorkerState]
  BY <1>1 DEF Init
<1>3. sess \in Session /\ sess.state = "pending" /\ ~sess.live /\ ~sess.overdue
  BY DEF Init, Session, SessionStates
<1>4. file \in File /\ file.state = "none" /\ ~file.cleaned
  BY DEF Init, File
<1>5. job \in Job /\ job.owner = None /\ job.state = "queued"
  BY DEF Init, Job
<1> QED BY <1>2, <1>3, <1>4, <1>5, UploadSessionAssumption
        DEF Init, TypeOK, PutPhases, CallPhases

JobOK == job \in Job /\ (job.owner # None <=> job.state = "running")

LEMMA JobStep ==
  ASSUME JobOK,
         \/ \E asap \in BOOLEAN : EnsureJob(asap)
         \/ \E w \in Workers, s \in {"queued", "terminal"} : SettleJob(w, s)
         \/ UNCHANGED job
  PROVE  JobOK'
<1>1. ASSUME NEW asap \in BOOLEAN, EnsureJob(asap) PROVE JobOK'
  BY <1>1 DEF JobOK, EnsureJob, Job
<1>2. ASSUME NEW w \in Workers, NEW s \in {"queued", "terminal"}, SettleJob(w, s) PROVE JobOK'
  BY <1>2 DEF JobOK, SettleJob, Job
<1>3. ASSUME UNCHANGED job PROVE JobOK'
  BY <1>3 DEF JobOK
<1> QED BY <1>1, <1>2, <1>3
\* The stage of the session moves to st, and its window stays.
Moves(st, cleaned) ==
  /\ sess' \in Session
  /\ sess'.state = st /\ sess'.cleaned = cleaned
  /\ sess'.expired = sess.expired /\ sess'.overdue = sess.overdue
  /\ sess'.attempt = sess.attempt /\ sess'.live = sess.live
  /\ sess'.settled = sess.settled /\ sess'.gen = sess.gen

\* The window of the session changes, and its stage stays.
Mutates ==
  /\ sess' \in Session
  /\ sess'.state = sess.state
  /\ sess'.expired = sess.expired /\ sess'.overdue = sess.overdue

LEMMA StateMoves ==
  ASSUME sess \in Session, NEW st \in SessionStates
  PROVE  /\ sess' = [sess EXCEPT !.state = st] => Moves(st, sess.cleaned)
         /\ sess' = sess => Moves(sess.state, sess.cleaned)
         /\ sess' = [sess EXCEPT !.state = st, !.cleaned = FALSE] => Moves(st, FALSE)
         /\ sess' = [sess EXCEPT !.cleaned = TRUE] => Moves(sess.state, TRUE)
BY DEF Session, Moves

LEMMA OwnWindowWrites ==
  ASSUME sess \in Session, NEW cleaned \in BOOLEAN, NEW gen \in Nat, NEW settled \in BOOLEAN,
         \/ sess' = [sess EXCEPT !.gen = gen, !.settled = settled, !.attempt = None,
                                 !.live = FALSE, !.cleaned = cleaned]
         \/ sess' = [sess EXCEPT !.gen = gen, !.settled = settled, !.cleaned = cleaned,
                                 !.attempt = None, !.live = FALSE]
  PROVE  /\ Mutates
         /\ sess'.cleaned = cleaned /\ sess'.gen = gen /\ sess'.settled = settled
         /\ sess'.attempt = None /\ ~sess'.live
BY DEF Mutates, Session

LEMMA OtherWindowWrites ==
  ASSUME sess \in Session, NEW cleaned \in BOOLEAN, NEW gen \in Nat,
         sess' = [sess EXCEPT !.gen = gen, !.settled = FALSE, !.cleaned = cleaned]
  PROVE  /\ Mutates
         /\ sess'.cleaned = cleaned /\ sess'.gen = gen /\ ~sess'.settled
         /\ sess'.attempt = sess.attempt /\ sess'.live = sess.live
BY DEF Mutates, Session

\* What a report of the proxy writes: of its own attempt, or of one that was replaced.
Reported(u, settled) ==
  /\ Mutates
  /\ sess'.cleaned = Rearmed /\ sess'.gen = sess.gen + 1
  /\ IF sess.attempt = u
       THEN sess'.attempt = None /\ ~sess'.live /\ sess'.settled = settled
       ELSE sess'.attempt = sess.attempt /\ sess'.live = sess.live /\ ~sess'.settled

LEMMA PutWrites ==
  ASSUME TypeOK, NEW u \in Puts
  PROVE  /\ ClaimPut(u) =>
              /\ Mutates
              /\ sess'.cleaned = sess.cleaned /\ sess'.gen = sess.gen
              /\ sess'.attempt = u /\ sess'.live /\ ~sess'.settled
         /\ ReconcileStored(u) => Reported(u, TRUE)
         /\ RecordAmbiguous(u) => Reported(u, FALSE)
<1>1. sess \in Session
  BY DEF TypeOK
<1>2. ASSUME ClaimPut(u)
      PROVE  /\ Mutates
             /\ sess'.cleaned = sess.cleaned /\ sess'.gen = sess.gen
             /\ sess'.attempt = u /\ sess'.live /\ ~sess'.settled
  BY <1>1, <1>2 DEF ClaimPut, Mutates, Session
<1>3. PICK cleaned \in BOOLEAN, gen \in Nat : cleaned = Rearmed /\ gen = sess.gen + 1
  <2>1. Rearmed \in BOOLEAN
    BY DEF Rearmed
  <2>2. sess.gen + 1 \in Nat
    BY <1>1 DEF Session
  <2> QED BY <2>1, <2>2
<1>4. ASSUME ReconcileStored(u) PROVE Reported(u, TRUE)
  <2>1. CASE sess.attempt = u
    <3>1. sess' = [sess EXCEPT !.gen = gen, !.settled = TRUE, !.attempt = None,
                               !.live = FALSE, !.cleaned = cleaned]
      BY <1>3, <1>4, <2>1 DEF ReconcileStored
    <3> QED BY <1>1, <1>3, <2>1, <3>1, OwnWindowWrites DEF Reported
  <2>2. CASE sess.attempt # u
    <3>1. sess' = [sess EXCEPT !.gen = gen, !.settled = FALSE, !.cleaned = cleaned]
      BY <1>3, <1>4, <2>2 DEF ReconcileStored
    <3> QED BY <1>1, <1>3, <2>2, <3>1, OtherWindowWrites DEF Reported
  <2> QED BY <2>1, <2>2
<1>5. ASSUME RecordAmbiguous(u) PROVE Reported(u, FALSE)
  <2>1. CASE sess.attempt = u
    <3>1. sess' = [sess EXCEPT !.gen = gen, !.settled = FALSE, !.cleaned = cleaned,
                               !.attempt = None, !.live = FALSE]
      BY <1>3, <1>5, <2>1 DEF RecordAmbiguous
    <3> QED BY <1>1, <1>3, <2>1, <3>1, OwnWindowWrites DEF Reported
  <2>2. CASE sess.attempt # u
    <3>1. sess' = [sess EXCEPT !.gen = gen, !.settled = FALSE, !.cleaned = cleaned]
      BY <1>3, <1>5, <2>2 DEF RecordAmbiguous
    <3> QED BY <1>1, <1>3, <2>2, <3>1, OtherWindowWrites DEF Reported
  <2> QED BY <2>1, <2>2
<1> QED BY <1>2, <1>4, <1>5

\* What the clock writes.
LEMMA ClockWrites ==
  ASSUME sess \in Session, Clock
  PROVE  /\ sess' \in Session
         /\ sess'.state = sess.state /\ sess'.cleaned = sess.cleaned
         /\ sess'.attempt = sess.attempt /\ sess'.gen = sess.gen
         /\ sess'.live => sess.live
         /\ sess.settled => sess'.settled
         /\ sess'.settled /\ ~sess.settled => ~sess.live /\ limbo = {}
         /\ sess.expired => sess'.expired
         /\ sess.overdue => sess'.overdue
         /\ sess'.overdue /\ ~sess.overdue => HourPasses /\ sess'.expired
         /\ UNCHANGED <<file, object, limbo, put, call, job, archival, worker, budget>>
BY DEF Clock, Expire, AttemptExpires, WindowElapses, HourPasses, Session

LEMMA PutMoves ==
  ASSUME TypeOK, NEW u \in Puts, NEW ph \in PutPhases, SetPut(u, ph)
  PROVE  /\ put' \in [Puts -> PutPhases]
         /\ \A v \in Puts : put'[v] = IF v = u THEN ph ELSE put[v]
BY DEF TypeOK, SetPut

LEMMA CallMoves ==
  ASSUME TypeOK, NEW c \in Calls, NEW ph \in CallPhases, SetCall(c, ph)
  PROVE  /\ call' \in [Calls -> CallPhases]
         /\ \A d \in Calls : call'[d] = IF d = c THEN ph ELSE call[d]
BY DEF TypeOK, SetCall

WorkerPhases == {"idle", "renew", "delete", "record", "settle"}

LEMMA WorkerMoves ==
  ASSUME TypeOK, NEW w \in Workers, NEW ph \in WorkerPhases, SetWorker(w, ph)
  PROVE  /\ worker' \in [Workers -> WorkerState]
         /\ \A x \in Workers :
              /\ worker'[x].phase = IF x = w THEN ph ELSE worker[x].phase
              /\ worker'[x].gen = worker[x].gen
              /\ worker'[x].keep = worker[x].keep
<1> DEFINE k == [worker[w] EXCEPT !.phase = ph]
<1>1. worker[w] \in WorkerState
  BY DEF TypeOK
<1>2. /\ k \in WorkerState
      /\ k.phase = ph /\ k.gen = worker[w].gen /\ k.keep = worker[w].keep
  BY <1>1 DEF WorkerState, WorkerPhases
<1>3. worker' = [worker EXCEPT ![w] = k]
  BY DEF SetWorker
<1> HIDE DEF k
<1> QED BY <1>2, <1>3 DEF TypeOK

\* The columns of the session that are written together.
SessionOK ==
  /\ sess \in Session
  /\ sess.live => sess.attempt # None /\ ~sess.settled
  /\ sess.overdue => sess.expired

FileOK ==
  /\ file \in File
  /\ file.state = "none" <=> sess.state # "completed"
  /\ file.cleaned => file.archived

OtherTypes ==
  /\ object \in BOOLEAN /\ limbo \subseteq Puts
  /\ put \in [Puts -> PutPhases] /\ call \in [Calls -> CallPhases]
  /\ archival \in {"none", "queued", "deleted", "terminal"}
  /\ worker \in [Workers -> WorkerState] /\ budget \in Nat

LEMMA TypesSplit == TypeOK <=> SessionOK /\ FileOK /\ JobOK /\ OtherTypes
BY DEF TypeOK, SessionOK, FileOK, JobOK, OtherTypes

LEMMA PutTypes ==
  ASSUME TypeOK, NEW u \in Puts,
         \/ ClaimPut(u) \/ PutEnds(u) \/ ReconcileStored(u) \/ RecordAmbiguous(u)
         \/ ProxyDies(u) \/ LimboEnds(u)
  PROVE  TypeOK'
<1>1. SessionOK /\ FileOK /\ JobOK /\ OtherTypes
  BY TypesSplit
<1>2. SessionOK' /\ sess'.state = sess.state
  <2>1. CASE ClaimPut(u)
    BY <1>1, <2>1, PutWrites, UploadSessionAssumption DEF SessionOK, Mutates
  <2>2. CASE ReconcileStored(u) \/ RecordAmbiguous(u)
    BY <1>1, <2>2, PutWrites DEF SessionOK, Mutates, Reported
  <2>3. CASE UNCHANGED sess
    BY <1>1, <2>3 DEF SessionOK
  <2> QED BY <2>1, <2>2, <2>3 DEF PutEnds, Store, Interrupt, ProxyDies, LimboEnds
<1>3. UNCHANGED <<file, job, archival, worker, call, budget>>
  BY DEF ClaimPut, PutEnds, Store, Interrupt, ReconcileStored, RecordAmbiguous, ProxyDies, LimboEnds
<1>4. put' \in [Puts -> PutPhases]
  BY <1>1, PutMoves
     DEF ClaimPut, PutEnds, Store, Interrupt, ReconcileStored, RecordAmbiguous, ProxyDies,
         LimboEnds, PutPhases, OtherTypes
<1>5. object' \in BOOLEAN /\ limbo' \subseteq Puts
  BY <1>1 DEF ClaimPut, PutEnds, Store, Interrupt, ReconcileStored, RecordAmbiguous, ProxyDies,
              LimboEnds, OtherTypes
<1>6. FileOK' /\ JobOK' /\ OtherTypes'
  BY <1>1, <1>2, <1>3, <1>4, <1>5 DEF FileOK, JobOK, OtherTypes
<1> QED BY <1>2, <1>6, TypesSplit DEF TypeOK, SessionOK, FileOK, JobOK, OtherTypes

\* What calls write to the session: nothing, or a stage that their guard allows.
LEMMA CallWrites ==
  ASSUME TypeOK, NEW c \in Calls
  PROVE  /\ ClaimVerify(c) => Moves("verifying", sess.cleaned)
         /\ CompleteExpired(c) => Moves("expired", sess.cleaned)
         /\ GiveBack(c) =>
              Moves(IF sess.state = "verifying" THEN "pending" ELSE sess.state, sess.cleaned)
         /\ Reject(c) =>
              Moves(IF sess.state \in {"pending", "verifying"} THEN "rejected" ELSE sess.state,
                    sess.cleaned)
         /\ CreateFile(c) =>
              Moves(IF sess.state = "verifying" THEN "completed" ELSE sess.state, sess.cleaned)
         /\ Cancel(c) => Moves("cleanup_pending", FALSE)
<1>1. sess \in Session
  BY DEF TypeOK
<1>2. {"verifying", "pending", "rejected", "completed", "expired", "cleanup_pending"}
        \subseteq SessionStates
  BY DEF SessionStates, NeedCleanup
<1>3. ClaimVerify(c) => Moves("verifying", sess.cleaned)
  BY <1>1, <1>2, StateMoves DEF ClaimVerify
<1>4. CompleteExpired(c) => Moves("expired", sess.cleaned)
  BY <1>1, <1>2, StateMoves DEF CompleteExpired
<1>5. ASSUME GiveBack(c)
      PROVE  Moves(IF sess.state = "verifying" THEN "pending" ELSE sess.state, sess.cleaned)
  BY <1>1, <1>2, <1>5, StateMoves DEF GiveBack
<1>6. ASSUME Reject(c)
      PROVE  Moves(IF sess.state \in {"pending", "verifying"} THEN "rejected" ELSE sess.state,
                   sess.cleaned)
  BY <1>1, <1>2, <1>6, StateMoves DEF Reject
<1>7. ASSUME CreateFile(c)
      PROVE  Moves(IF sess.state = "verifying" THEN "completed" ELSE sess.state, sess.cleaned)
  BY <1>1, <1>2, <1>7, StateMoves DEF CreateFile
<1>8. Cancel(c) => Moves("cleanup_pending", FALSE)
  BY <1>1, <1>2, StateMoves DEF Cancel
<1> QED BY <1>3, <1>4, <1>5, <1>6, <1>7, <1>8

\* What they write to the row of the file.
LEMMA FileWrites ==
  ASSUME TypeOK, NEW c \in Calls
  PROVE  /\ CreateFile(c) =>
              IF sess.state = "verifying"
                THEN /\ file' \in File /\ file'.state = "quarantined"
                     /\ file'.archived = file.archived /\ file'.cleaned = file.cleaned
                ELSE file' = file
         /\ RecordScan(c) =>
              IF file.state = "quarantined" /\ ~file.archived
                THEN /\ file' \in File
                     /\ file'.archived = file.archived /\ file'.cleaned = file.cleaned
                     /\ \/ call[c] = "clean" /\ file'.state = "available"
                        \/ call[c] = "infected" /\ file'.state = "rejected"
                        \/ call[c] = "error" /\ file'.state = "quarantined"
                ELSE file' = file
<1>1. file \in File
  BY DEF TypeOK
<1>2. ASSUME CreateFile(c), sess.state = "verifying"
      PROVE  /\ file' \in File /\ file'.state = "quarantined"
             /\ file'.archived = file.archived /\ file'.cleaned = file.cleaned
  BY <1>1, <1>2 DEF CreateFile, File
<1>3. ASSUME RecordScan(c), file.state = "quarantined", ~file.archived
      PROVE  /\ file' \in File
             /\ file'.archived = file.archived /\ file'.cleaned = file.cleaned
             /\ \/ call[c] = "clean" /\ file'.state = "available"
                \/ call[c] = "infected" /\ file'.state = "rejected"
                \/ call[c] = "error" /\ file'.state = "quarantined"
  BY <1>1, <1>3 DEF RecordScan, File
<1> QED BY <1>2, <1>3 DEF CreateFile, RecordScan

\* Where a call goes from each phase.
CallGoes(c, ph) == \A d \in Calls : call'[d] = IF d = c THEN ph ELSE call[d]

LEMMA CallGoesOn ==
  ASSUME TypeOK, NEW c \in Calls,
         ClaimVerify(c) \/ CompleteExpired(c) \/ CallStep(c) \/ CallDies(c) \/ Cancel(c)
  PROVE  \E ph \in CallPhases : SetCall(c, ph)
BY DEF ClaimVerify, CompleteExpired, CallStep, CallDies, Cancel, Verify, GiveBack, Reject,
       CreateFile, Scan, RecordScan, Purge, CallPhases

LEMMA CallTypes ==
  ASSUME TypeOK, NEW c \in Calls,
         ClaimVerify(c) \/ CompleteExpired(c) \/ CallStep(c) \/ CallDies(c) \/ Cancel(c)
  PROVE  TypeOK'
<1>1. SessionOK /\ FileOK /\ JobOK /\ OtherTypes
  BY TypesSplit
<1>2. call' \in [Calls -> CallPhases]
  BY CallGoesOn, CallMoves
<1>3. JobOK'
  <2>1. \/ EnsureJob(FALSE) \/ EnsureJob(TRUE) \/ UNCHANGED job
    BY DEF ClaimVerify, CompleteExpired, CallStep, CallDies, Cancel, Verify, GiveBack, Reject,
           CreateFile, Scan, RecordScan, Purge
  <2> QED BY <1>1, <2>1, JobStep
<1>4. UNCHANGED <<limbo, put, archival, worker, budget>> /\ object' \in BOOLEAN
  BY <1>1 DEF ClaimVerify, CompleteExpired, CallStep, CallDies, Cancel, Verify, GiveBack, Reject,
              CreateFile, Scan, RecordScan, Purge, OtherTypes
<1>5. SessionOK' /\ FileOK'
  <2>1. CASE CreateFile(c)
    BY <1>1, <2>1, CallWrites, FileWrites DEF SessionOK, FileOK, Moves, CreateFile
  <2>2. CASE RecordScan(c)
    BY <1>1, <2>2, FileWrites DEF SessionOK, FileOK, RecordScan
  <2>3. CASE UNCHANGED <<sess, file>>
    BY <1>1, <2>3 DEF SessionOK, FileOK
  <2>4. CASE ClaimVerify(c) \/ CompleteExpired(c) \/ GiveBack(c) \/ Reject(c) \/ Cancel(c)
    <3>1. UNCHANGED file
      BY <2>4 DEF ClaimVerify, CompleteExpired, GiveBack, Reject, Cancel
    <3>2. sess'.state = "completed" <=> sess.state = "completed"
      BY <2>4, CallWrites DEF Moves, ClaimVerify, CompleteExpired, GiveBack, Reject, Cancel
    <3>3. SessionOK'
      BY <1>1, <2>4, CallWrites DEF Moves, SessionOK
    <3> QED BY <1>1, <3>1, <3>2, <3>3 DEF FileOK
  <2> QED BY <2>1, <2>2, <2>3, <2>4 DEF CallStep, CallDies, Verify, Scan, Purge
<1> QED BY <1>1, <1>2, <1>3, <1>4, <1>5
        DEF TypeOK, SessionOK, FileOK, JobOK, OtherTypes

\* What cleanup and its reconciler write to the session, and what Select remembers.
LEMMA CleanupWrites ==
  ASSUME TypeOK
  PROVE  /\ ReconcileSession =>
              Moves(IF sess.state \in {"pending", "verifying"} THEN "expired" ELSE sess.state,
                    sess.cleaned)
         /\ RegrantExpired => Moves("expired", sess.cleaned)
         /\ \A w \in Workers :
              /\ RecordCleanup(w) =>
                   IF UnchangedSince(w) THEN Moves(sess.state, TRUE) ELSE sess' = sess
              /\ Select(w) =>
                   /\ Moves(IF sess.state = "completed" THEN "completed" ELSE "cleanup_pending",
                            sess.cleaned)
                   /\ worker' \in [Workers -> WorkerState]
                   /\ \A x \in Workers \ {w} : worker'[x] = worker[x]
                   /\ worker'[w].phase = "renew" /\ worker'[w].gen = sess.gen
                   /\ worker'[w].keep = CleanCompletion
<1>1. sess \in Session /\ sess.attempt \in Puts \cup {None} /\ sess.gen \in Nat
  BY DEF TypeOK, Session
<1>2. {"verifying", "pending", "rejected", "completed", "expired", "cleanup_pending"}
        \subseteq SessionStates
  BY DEF SessionStates, NeedCleanup
<1>3. ASSUME ReconcileSession
      PROVE  Moves(IF sess.state \in {"pending", "verifying"} THEN "expired" ELSE sess.state,
                   sess.cleaned)
  BY <1>1, <1>2, <1>3, StateMoves DEF ReconcileSession
<1>4. RegrantExpired => Moves("expired", sess.cleaned)
  BY <1>1, <1>2, StateMoves DEF RegrantExpired
<1>5. ASSUME NEW w \in Workers, RecordCleanup(w)
      PROVE  IF UnchangedSince(w) THEN Moves(sess.state, TRUE) ELSE sess' = sess
  <2>1. sess.state \in SessionStates
    BY <1>1 DEF Session
  <2> QED BY <1>1, <1>5, <2>1, StateMoves DEF RecordCleanup
<1>6. ASSUME NEW w \in Workers, Select(w)
      PROVE  Moves(IF sess.state = "completed" THEN "completed" ELSE "cleanup_pending",
                   sess.cleaned)
  <2>1. CleanCompletion => sess.state = "completed"
    BY DEF CleanCompletion
  <2> QED BY <1>1, <1>2, <1>6, <2>1, StateMoves DEF Select
<1>7. PICK keep \in BOOLEAN : keep = CleanCompletion
  <2>1. CleanCompletion \in BOOLEAN
    BY DEF CleanCompletion
  <2> QED BY <2>1
<1>8. ASSUME NEW w \in Workers, Select(w)
      PROVE  /\ worker' \in [Workers -> WorkerState]
             /\ \A x \in Workers \ {w} : worker'[x] = worker[x]
             /\ worker'[w].phase = "renew" /\ worker'[w].gen = sess.gen
             /\ worker'[w].keep = CleanCompletion
  <2> DEFINE k == [phase |-> "renew", attempt |-> sess.attempt, gen |-> sess.gen, keep |-> keep]
  <2>1. /\ k \in WorkerState /\ k.phase = "renew" /\ k.gen = sess.gen /\ k.keep = keep
    BY <1>1 DEF WorkerState
  <2>2. worker' = [worker EXCEPT ![w] = k]
    BY <1>7, <1>8 DEF Select
  <2> HIDE DEF k
  <2> QED BY <1>7, <2>1, <2>2 DEF TypeOK
<1> QED BY <1>3, <1>4, <1>5, <1>6, <1>8

LEMMA WorkerTypes ==
  ASSUME TypeOK, NEW w \in Workers,
         Select(w) \/ WorkerStep(w) \/ DeleteFails(w) \/ LeaseLost(w) \/ WorkerDies(w)
  PROVE  TypeOK'
<1>1. SessionOK /\ FileOK /\ JobOK /\ OtherTypes
  BY TypesSplit
<1>2. worker' \in [Workers -> WorkerState]
  <2>1. CASE Select(w)
    BY <2>1, CleanupWrites
  <2>2. CASE UNCHANGED worker
    BY <1>1, <2>2 DEF OtherTypes
  <2>3. CASE \E ph \in WorkerPhases : SetWorker(w, ph)
    BY <2>3, WorkerMoves
  <2> QED BY <2>1, <2>2, <2>3
          DEF WorkerStep, Renew, Delete, RecordCleanup, JobCompletes, DeleteFails, LeaseLost,
              WorkerDies, WorkerPhases
<1>3. JobOK'
  <2>1. CASE Select(w)
    <3>1. job' = [job EXCEPT !.state = "running", !.owner = w]
      BY <2>1 DEF Select
    <3> QED BY <1>1, <3>1, UploadSessionAssumption DEF JobOK, Job
  <2>2. CASE ~Select(w)
    <3>1. \/ \E s \in {"queued", "terminal"} : SettleJob(w, s)
          \/ UNCHANGED job
      BY <2>2 DEF WorkerStep, Renew, Delete, RecordCleanup, JobCompletes, DeleteFails, LeaseLost,
                  WorkerDies
    <3> QED BY <1>1, <3>1, JobStep
  <2> QED BY <2>1, <2>2
<1>4. SessionOK' /\ (sess'.state = "completed" <=> sess.state = "completed")
  <2>1. CASE Select(w) \/ RecordCleanup(w)
    BY <1>1, <2>1, CleanupWrites DEF SessionOK, Moves
  <2>2. CASE UNCHANGED sess
    BY <1>1, <2>2 DEF SessionOK
  <2> QED BY <2>1, <2>2
          DEF WorkerStep, Renew, Delete, JobCompletes, DeleteFails, LeaseLost, WorkerDies
<1>5. /\ UNCHANGED <<file, limbo, put, call, archival>>
      /\ object' \in BOOLEAN /\ budget' \in Nat
  <2>1. UNCHANGED <<file, limbo, put, call, archival>>
    BY DEF Select, WorkerStep, Renew, Delete, RecordCleanup, JobCompletes, DeleteFails, LeaseLost,
           WorkerDies
  <2>2. object' = (object /\ worker[w].keep) \/ UNCHANGED object
    BY DEF Select, WorkerStep, Renew, Delete, RecordCleanup, JobCompletes, DeleteFails, LeaseLost,
           WorkerDies
  <2>3. object' \in BOOLEAN
    BY <1>1, <2>2, Zenon DEF OtherTypes
  <2>4. UNCHANGED budget \/ Disturbance
    BY DEF Select, WorkerStep, Renew, Delete, RecordCleanup, JobCompletes, DeleteFails, LeaseLost,
           WorkerDies
  <2> QED BY <1>1, <2>1, <2>3, <2>4 DEF OtherTypes, Disturbance
<1> QED BY <1>1, <1>2, <1>3, <1>4, <1>5
        DEF TypeOK, SessionOK, FileOK, JobOK, OtherTypes

Rest ==
  \/ RegrantExpired \/ Archive \/ NotReady
  \/ DeleteArchived \/ RecordArchivedCleanup \/ ArchivedCleanupFails
  \/ ReconcileSession \/ ReconcileArchived \/ Clock

\* What archival writes.
LEMMA ArchivalWrites ==
  ASSUME TypeOK
  PROVE  /\ Archive => /\ file' \in File /\ file'.state = file.state
                        /\ file'.archived /\ file'.cleaned = file.cleaned
         /\ RecordArchivedCleanup =>
              /\ file' \in File /\ file'.state = file.state
              /\ file'.archived = file.archived /\ file'.cleaned
BY DEF TypeOK, Archive, RecordArchivedCleanup, File

LEMMA RestTypes ==
  ASSUME TypeOK, ArchivalOK, Rest
  PROVE  TypeOK'
<1>1. SessionOK /\ FileOK /\ JobOK /\ OtherTypes
  BY TypesSplit
<1>2. SessionOK' /\ (sess'.state = "completed" <=> sess.state = "completed")
  <2>1. CASE RegrantExpired
    BY <1>1, <2>1, CleanupWrites DEF SessionOK, Moves, RegrantExpired
  <2>2. CASE ReconcileSession
    BY <1>1, <2>2, CleanupWrites DEF SessionOK, Moves, ReconcileSession
  <2>3. CASE Clock
    <3>1. sess'.live => sess.live /\ ~sess'.settled
      BY <1>1, <2>3 DEF SessionOK, Session, Clock, Expire, AttemptExpires, WindowElapses, HourPasses
    <3> QED BY <1>1, <2>3, <3>1, ClockWrites DEF SessionOK
  <2>4. CASE UNCHANGED sess
    BY <1>1, <2>4 DEF SessionOK
  <2> QED BY <2>1, <2>2, <2>3, <2>4
          DEF Rest, Archive, NotReady, DeleteArchived, RecordArchivedCleanup, ArchivedCleanupFails,
              ReconcileArchived
<1>3. FileOK'
  <2>1. CASE Archive \/ RecordArchivedCleanup
    BY <1>1, <1>2, <2>1, ArchivalWrites DEF FileOK, ArchivalOK, RecordArchivedCleanup
  <2>2. CASE UNCHANGED file
    BY <1>1, <1>2, <2>2 DEF FileOK
  <2> QED BY <2>1, <2>2, ClockWrites
          DEF Rest, RegrantExpired, NotReady, DeleteArchived, ArchivedCleanupFails,
              ReconcileSession, ReconcileArchived, Clock, Expire, AttemptExpires, WindowElapses,
              HourPasses
<1>4. JobOK'
  <2>1. CASE NotReady
    BY <1>1, <2>1 DEF NotReady, JobOK, Job
  <2>2. ~NotReady => EnsureJob(TRUE) \/ EnsureJob(FALSE) \/ UNCHANGED job
    BY DEF Rest, RegrantExpired, Archive, DeleteArchived, RecordArchivedCleanup,
           ArchivedCleanupFails, ReconcileSession, ReconcileArchived, Clock, Expire,
           AttemptExpires, WindowElapses, HourPasses
  <2> QED BY <1>1, <2>1, <2>2, JobStep
<1>5. OtherTypes'
  <2>1. /\ UNCHANGED <<limbo, put, call, worker>>
        /\ UNCHANGED object \/ object' = FALSE
        /\ UNCHANGED archival \/ archival' \in {"queued", "deleted", "terminal"}
    BY DEF Rest, RegrantExpired, Archive, NotReady, DeleteArchived,
           RecordArchivedCleanup, ArchivedCleanupFails, ReconcileSession, ReconcileArchived,
           Clock, Expire, AttemptExpires, WindowElapses, HourPasses
  <2>2. UNCHANGED budget \/ Disturbance
    BY DEF Rest, RegrantExpired, Archive, NotReady, DeleteArchived,
           RecordArchivedCleanup, ArchivedCleanupFails, ReconcileSession, ReconcileArchived,
           Clock, Expire, AttemptExpires, WindowElapses, HourPasses
  <2>3. budget' \in Nat
    BY <1>1, <2>2 DEF OtherTypes, Disturbance
  <2> QED BY <1>1, <2>1, <2>3 DEF OtherTypes
<1> QED BY <1>2, <1>3, <1>4, <1>5 DEF TypeOK, SessionOK, FileOK, JobOK, OtherTypes

-----------------------------------------------------------------------------
(* The bytes of the file. *)

LEMMA PutKeepsFile ==
  ASSUME FileInv, NEW u \in Puts,
         \/ ClaimPut(u) \/ PutEnds(u) \/ ReconcileStored(u) \/ RecordAmbiguous(u)
         \/ ProxyDies(u) \/ LimboEnds(u)
  PROVE  FileInv'
<1>0. TypeOK /\ TypeOK'
  BY PutTypes DEF FileInv
<1>1. sess'.state = sess.state /\ sess'.overdue = sess.overdue
  BY <1>0, PutWrites
     DEF Mutates, Reported, PutEnds, Store, Interrupt, ProxyDies, LimboEnds
<1>2. ~sess.overdue
  BY DEF FileInv, HourOK, TypeOK, InFlight, ClaimPut, PutEnds, Store, Interrupt,
         ReconcileStored, RecordAmbiguous, ProxyDies, LimboEnds
<1>3. UNCHANGED <<file, call, archival, worker>>
  BY DEF ClaimPut, PutEnds, Store, Interrupt, ReconcileStored, RecordAmbiguous, ProxyDies,
         LimboEnds
<1>4. object => object'
  BY DEF ClaimPut, PutEnds, Store, Interrupt, ReconcileStored, RecordAmbiguous, ProxyDies,
         LimboEnds
<1>5. CleanCompletion' = CleanCompletion
  BY <1>1, <1>3 DEF CleanCompletion
<1> QED BY <1>0, <1>1, <1>2, <1>3, <1>4, <1>5
        DEF FileInv, ArchivalOK, VerifierOK, HourOK, AvailableFileIsStored, CallOK, WorkerOK

\* A session that is not completed yet, and of which no cleanup is under way, becomes
\* what the call makes it.
LEMMA CallKeepsFile ==
  ASSUME FileInv, NEW c \in Calls,
         ClaimVerify(c) \/ CompleteExpired(c) \/ CallStep(c) \/ CallDies(c) \/ Cancel(c)
  PROVE  FileInv'
<1>0. TypeOK /\ TypeOK'
  BY CallTypes DEF FileInv
<1>1. UNCHANGED <<limbo, put, archival, worker>>
  BY DEF ClaimVerify, CompleteExpired, CallStep, CallDies, Cancel, Verify, GiveBack, Reject,
         CreateFile, Scan, RecordScan, Purge
<1>2. CASE ClaimVerify(c)
  <2>1. Moves("verifying", sess.cleaned) /\ CallGoes(c, "verify")
    BY <1>0, <1>2, CallWrites, CallMoves DEF ClaimVerify, CallPhases, CallGoes
  <2>2. sess.state = "pending" /\ UNCHANGED <<file, object>>
    BY <1>2 DEF ClaimVerify
  <2> QED BY <1>0, <1>1, <2>1, <2>2
          DEF FileInv, TypeOK, ArchivalOK, VerifierOK, HourOK, AvailableFileIsStored, CallOK, WorkerOK,
              Moves, CallGoes, Ended, NeedCleanup, Verifying, Scanning, InFlight
<1>3. CASE CompleteExpired(c) \/ Cancel(c)
  <2>1. /\ sess.state = "pending" /\ UNCHANGED <<file, object>>
        /\ \E st \in NeedCleanup, cl \in BOOLEAN : Moves(st, cl)
        /\ CallGoes(c, "purge") \/ CallGoes(c, "done")
    <3>1. sess.cleaned \in BOOLEAN
      BY <1>0 DEF TypeOK, Session
    <3>2. Moves("expired", sess.cleaned) \/ Moves("cleanup_pending", FALSE)
      BY <1>0, <1>3, CallWrites
    <3>3. CallGoes(c, "purge") \/ CallGoes(c, "done")
      BY <1>0, <1>3, CallMoves DEF CompleteExpired, Cancel, CallPhases, CallGoes
    <3> QED BY <1>3, <3>1, <3>2, <3>3 DEF CompleteExpired, Cancel, NeedCleanup
  <2> QED BY <1>0, <1>1, <2>1
          DEF FileInv, TypeOK, ArchivalOK, VerifierOK, HourOK, AvailableFileIsStored, CallOK, WorkerOK,
              Moves, CallGoes, Ended, NeedCleanup, Verifying, Scanning, InFlight
<1>4. CASE Verify(c)
  <2>1. /\ UNCHANGED <<sess, file, object>> /\ call[c] = "verify"
        /\ \/ object /\ ~sess.overdue /\ CallGoes(c, "create")
           \/ CallGoes(c, "reject") \/ CallGoes(c, "retry")
    BY <1>0, <1>4, CallMoves DEF Verify, CallPhases, CallGoes
  <2> QED BY <1>0, <1>1, <2>1
          DEF FileInv, TypeOK, ArchivalOK, VerifierOK, HourOK, AvailableFileIsStored, CallOK, WorkerOK,
              CallGoes, Verifying, Scanning, InFlight, CleanCompletion
<1>5. CASE GiveBack(c)
  <2>1. Moves(IF sess.state = "verifying" THEN "pending" ELSE sess.state, sess.cleaned)
    BY <1>0, <1>5, CallWrites
  <2>2. UNCHANGED <<file, object>> /\ call[c] = "retry" /\ CallGoes(c, "done")
    BY <1>0, <1>5, CallMoves DEF GiveBack, CallPhases, CallGoes
  <2> QED BY <1>0, <1>1, <2>1, <2>2
          DEF FileInv, TypeOK, ArchivalOK, VerifierOK, HourOK, AvailableFileIsStored, CallOK, WorkerOK,
              Moves, CallGoes, Ended, NeedCleanup, Verifying, Scanning, InFlight, CleanCompletion
<1>6. CASE Reject(c)
  <2>1. Moves(IF sess.state \in {"pending", "verifying"} THEN "rejected" ELSE sess.state, sess.cleaned)
    BY <1>0, <1>6, CallWrites
  <2>2. UNCHANGED <<file, object>> /\ call[c] = "reject" /\ CallGoes(c, "purge")
    BY <1>0, <1>6, CallMoves DEF Reject, CallPhases, CallGoes
  <2> QED BY <1>0, <1>1, <2>1, <2>2
          DEF FileInv, TypeOK, ArchivalOK, VerifierOK, HourOK, AvailableFileIsStored, CallOK, WorkerOK,
              Moves, CallGoes, Ended, NeedCleanup, Verifying, Scanning, InFlight, CleanCompletion
<1>7. CASE CreateFile(c)
  <2>1. Moves(IF sess.state = "verifying" THEN "completed" ELSE sess.state, sess.cleaned)
    BY <1>0, <1>7, CallWrites
  <2>2. /\ UNCHANGED object /\ call[c] = "create"
        /\ CallGoes(c, IF sess.state \in {"verifying", "completed"} THEN "scan" ELSE "done")
    BY <1>0, <1>7, CallMoves DEF CreateFile, CallPhases, CallGoes
  <2>3. IF sess.state = "verifying"
          THEN /\ file'.state = "quarantined"
               /\ file'.archived = file.archived /\ file'.cleaned = file.cleaned
          ELSE file' = file
    BY <1>0, <1>7, FileWrites
  <2> QED BY <1>0, <1>1, <2>1, <2>2, <2>3
          DEF FileInv, TypeOK, ArchivalOK, VerifierOK, HourOK, AvailableFileIsStored, CallOK, WorkerOK,
              Moves, CallGoes, Ended, NeedCleanup, Verifying, Scanning, InFlight, CleanCompletion
<1>8. CASE Scan(c)
  <2>1. /\ UNCHANGED <<sess, file, object>> /\ call[c] = "scan"
        /\ \E v \in {"clean", "infected", "error"} : CallGoes(c, v)
    BY <1>0, <1>8, CallMoves DEF Scan, CallPhases, CallGoes
  <2> QED BY <1>0, <1>1, <2>1
          DEF FileInv, TypeOK, ArchivalOK, VerifierOK, HourOK, AvailableFileIsStored, CallOK, WorkerOK,
              CallGoes, Verifying, Scanning, InFlight, CleanCompletion
<1>9. CASE RecordScan(c)
  <2>1. UNCHANGED <<sess, object>> /\ call[c] \in {"clean", "infected", "error"}
    BY <1>9 DEF RecordScan
  <2>2. CASE file.state = "quarantined" /\ ~file.archived
    <3>1. /\ ~file'.archived /\ file'.cleaned = file.cleaned
          /\ \/ file'.state = "rejected" /\ CallGoes(c, "purge")
             \/ file'.state \in {"available", "quarantined"} /\ CallGoes(c, "done")
      BY <1>0, <1>9, <2>2, FileWrites, CallMoves DEF RecordScan, CallPhases, CallGoes
    <3> QED BY <1>0, <1>1, <2>1, <2>2, <3>1
          DEF FileInv, TypeOK, ArchivalOK, VerifierOK, HourOK, AvailableFileIsStored, CallOK, WorkerOK,
              CallGoes, Verifying, Scanning, InFlight, CleanCompletion
  <2>3. CASE ~(file.state = "quarantined" /\ ~file.archived)
    <3>1. file' = file /\ CallGoes(c, "done")
      BY <1>0, <1>9, <2>3, CallMoves DEF RecordScan, CallPhases, CallGoes
    <3> QED BY <1>0, <1>1, <2>1, <3>1
          DEF FileInv, TypeOK, ArchivalOK, VerifierOK, HourOK, AvailableFileIsStored, CallOK, WorkerOK,
              CallGoes, Verifying, Scanning, InFlight, CleanCompletion
  <2> QED BY <2>2, <2>3
<1>10. CASE Purge(c)
  <2>1. UNCHANGED <<sess, file>> /\ call[c] = "purge" /\ CallGoes(c, "done")
    BY <1>0, <1>10, CallMoves DEF Purge, CallPhases, CallGoes
  <2> QED BY <1>0, <1>1, <2>1
          DEF FileInv, TypeOK, ArchivalOK, VerifierOK, HourOK, AvailableFileIsStored, CallOK, WorkerOK,
              CallGoes, Ended, NeedCleanup, Verifying, Scanning, InFlight, CleanCompletion
<1>11. CASE CallDies(c)
  <2>1. UNCHANGED <<sess, file, object>> /\ CallGoes(c, "done")
    BY <1>0, <1>11, CallMoves DEF CallDies, CallPhases, CallGoes
  <2> QED BY <1>0, <1>1, <2>1
          DEF FileInv, TypeOK, ArchivalOK, VerifierOK, HourOK, AvailableFileIsStored, CallOK, WorkerOK,
              CallGoes, Verifying, Scanning, InFlight, CleanCompletion
<1> QED BY <1>2, <1>3, <1>4, <1>5, <1>6, <1>7, <1>8, <1>9, <1>10, <1>11 DEF CallStep

WorkerGoes(w, ph) ==
  \A x \in Workers :
    /\ worker'[x].phase = IF x = w THEN ph ELSE worker[x].phase
    /\ worker'[x].gen = worker[x].gen /\ worker'[x].keep = worker[x].keep

\* A worker selects a session that is overdue or was cancelled, and deletes what is not
\* to be kept.
LEMMA WorkerKeepsFile ==
  ASSUME FileInv, NEW w \in Workers,
         Select(w) \/ WorkerStep(w) \/ DeleteFails(w) \/ LeaseLost(w) \/ WorkerDies(w)
  PROVE  FileInv'
<1>0. TypeOK /\ TypeOK'
  BY WorkerTypes DEF FileInv
<1>1. UNCHANGED <<file, limbo, put, call, archival>>
  BY DEF Select, WorkerStep, Renew, Delete, RecordCleanup, JobCompletes, DeleteFails, LeaseLost,
         WorkerDies
<1>2. CASE Select(w)
  <2>1. /\ Moves(IF sess.state = "completed" THEN "completed" ELSE "cleanup_pending", sess.cleaned)
        /\ \A x \in Workers \ {w} : worker'[x] = worker[x]
        /\ worker'[w].keep = CleanCompletion
    BY <1>0, <1>2, CleanupWrites
  <2>2. UNCHANGED object /\ (sess.state = "cleanup_pending" \/ sess.overdue)
    BY <1>2 DEF Select, Ready
  <2>3. CleanCompletion' = CleanCompletion /\ ~(CleanCompletion /\ sess.state # "completed")
    BY <1>1, <2>1 DEF CleanCompletion, Moves
  <2> QED BY <1>0, <1>1, <2>1, <2>2, <2>3
          DEF FileInv, TypeOK, ArchivalOK, VerifierOK, HourOK, AvailableFileIsStored, CallOK, WorkerOK,
              Moves, Ended, NeedCleanup, Verifying, Scanning, InFlight, CleanCompletion
<1>3. CASE Delete(w)
  <2>1. /\ UNCHANGED sess /\ worker[w].phase = "delete"
        /\ object /\ worker[w].keep => object'
        /\ WorkerGoes(w, "record")
    BY <1>0, <1>3, WorkerMoves DEF Delete, WorkerPhases, WorkerGoes
  <2> QED BY <1>0, <1>1, <2>1
          DEF FileInv, TypeOK, ArchivalOK, VerifierOK, HourOK, AvailableFileIsStored, CallOK, WorkerOK,
              WorkerGoes, Ended, NeedCleanup, Verifying, Scanning, InFlight, CleanCompletion
<1>4. CASE /\ Renew(w) \/ RecordCleanup(w) \/ JobCompletes(w) \/ DeleteFails(w) \/ WorkerDies(w)
           /\ ~LeaseLost(w)
  <2>1. /\ UNCHANGED object /\ worker[w].phase # "idle"
        /\ \E ph \in WorkerPhases : WorkerGoes(w, ph)
    <3>1. \E ph \in WorkerPhases : SetWorker(w, ph)
      BY <1>4 DEF Renew, RecordCleanup, JobCompletes, DeleteFails, WorkerDies, WorkerPhases
    <3> QED BY <1>0, <1>4, <3>1, WorkerMoves
            DEF Renew, RecordCleanup, JobCompletes, DeleteFails, WorkerDies, WorkerGoes
  <2>2. sess'.state = sess.state /\ sess'.overdue = sess.overdue
    BY <1>0, <1>4, CleanupWrites DEF Moves, Renew, JobCompletes, DeleteFails, WorkerDies
  <2> QED BY <1>0, <1>1, <2>1, <2>2
          DEF FileInv, ArchivalOK, VerifierOK, HourOK, AvailableFileIsStored, CallOK, WorkerOK,
              WorkerGoes, InFlight, CleanCompletion
<1>5. CASE LeaseLost(w)
  <2>1. UNCHANGED <<sess, object, worker>>
    BY <1>5 DEF LeaseLost
  <2> QED BY <1>0, <1>1, <2>1
          DEF FileInv, ArchivalOK, VerifierOK, HourOK, AvailableFileIsStored, CallOK, WorkerOK,
              InFlight, CleanCompletion
<1> QED BY <1>2, <1>3, <1>4, <1>5 DEF WorkerStep

LEMMA RestKeepsFile ==
  ASSUME FileInv, Rest
  PROVE  FileInv'
<1>0. TypeOK /\ TypeOK'
  BY RestTypes DEF FileInv
<1>1. UNCHANGED <<limbo, put, call, worker>>
  BY ClockWrites, <1>0
     DEF TypeOK, Rest, RegrantExpired, Archive, NotReady, DeleteArchived, RecordArchivedCleanup,
         ArchivedCleanupFails, ReconcileSession, ReconcileArchived
<1>2. CASE RegrantExpired \/ ReconcileSession
  <2>1. /\ sess'.overdue = sess.overdue
        /\ \/ sess.state \in {"pending", "verifying"} /\ sess'.state = "expired"
           \/ sess.state \notin {"pending", "verifying"} /\ sess'.state = sess.state
    BY <1>0, <1>2, CleanupWrites DEF Moves, RegrantExpired
  <2>2. UNCHANGED <<file, object, archival>>
    BY <1>2 DEF RegrantExpired, ReconcileSession
  <2> QED BY <1>0, <1>1, <2>1, <2>2
          DEF FileInv, TypeOK, ArchivalOK, VerifierOK, HourOK, AvailableFileIsStored, CallOK, WorkerOK,
              Ended, NeedCleanup, Verifying, Scanning, InFlight, CleanCompletion
<1>3. CASE Archive \/ RecordArchivedCleanup
  <2>1. /\ UNCHANGED <<sess, object>> /\ file'.state = file.state /\ file'.archived
        /\ archival' # "none" /\ file.state # "none"
    BY <1>0, <1>3, ArchivalWrites DEF FileInv, ArchivalOK, Archive, RecordArchivedCleanup
  <2> QED BY <1>0, <1>1, <2>1
          DEF FileInv, ArchivalOK, VerifierOK, HourOK, AvailableFileIsStored, CallOK, WorkerOK,
              InFlight, CleanCompletion
<1>4. CASE DeleteArchived \/ ArchivedCleanupFails \/ ReconcileArchived \/ NotReady
  <2>1. UNCHANGED <<sess, file>> /\ (archival' # "none" <=> archival # "none")
    BY <1>4 DEF DeleteArchived, ArchivedCleanupFails, ReconcileArchived, NotReady
  <2>2. UNCHANGED object \/ file.archived
    BY <1>4 DEF DeleteArchived, ArchivedCleanupFails, ReconcileArchived, NotReady, FileInv, ArchivalOK
  <2>3. ASSUME file.archived PROVE sess.state = "completed"
    BY <1>0, <2>3 DEF TypeOK, FileInv, ArchivalOK
  <2>4. ArchivalOK' /\ VerifierOK' /\ HourOK' /\ AvailableFileIsStored'
    BY <1>0, <1>1, <2>1, <2>2
       DEF FileInv, ArchivalOK, VerifierOK, HourOK, AvailableFileIsStored, InFlight
  <2>5. ASSUME NEW c \in Calls PROVE CallOK(c)'
    BY <1>0, <1>1, <2>1, <2>2, <2>3 DEF FileInv, CallOK
  <2>6. ASSUME NEW w \in Workers PROVE WorkerOK(w)'
    BY <1>1, <2>1 DEF FileInv, WorkerOK, CleanCompletion
  <2> QED BY <1>0, <2>4, <2>5, <2>6 DEF FileInv
<1>5. CASE Clock
  <2>1. /\ sess'.state = sess.state /\ (sess.overdue => sess'.overdue)
        /\ sess'.overdue /\ ~sess.overdue => HourPasses
        /\ UNCHANGED <<file, object, archival>>
    BY <1>0, <1>5, ClockWrites DEF TypeOK
  <2> QED BY <1>0, <1>1, <2>1
          DEF FileInv, ArchivalOK, VerifierOK, HourOK, AvailableFileIsStored, CallOK, WorkerOK,
              InFlight, CleanCompletion, HourPasses, Scanning
<1> QED BY <1>2, <1>3, <1>4, <1>5 DEF Rest

-----------------------------------------------------------------------------
(* What cleanup leaves, when a PUT is interrupted within its own window only. *)

LEMMA PutKeepsCleanup ==
  ASSUME FileInv, CleanupInv, ~LateAbort, NEW u \in Puts,
         \/ ClaimPut(u) \/ PutEnds(u) \/ ReconcileStored(u) \/ RecordAmbiguous(u)
         \/ ProxyDies(u) \/ LimboEnds(u)
  PROVE  CleanupInv'
<1>0. /\ TypeOK /\ sess \in Session /\ put \in [Puts -> PutPhases] /\ limbo \subseteq Puts
      /\ sess.gen \in Nat /\ None \notin Puts /\ \A w \in Workers : worker[w].gen \in Nat
  BY UploadSessionAssumption DEF FileInv, TypeOK, Session, WorkerState
<1>1. UNCHANGED <<file, call, archival, worker>>
  BY DEF ClaimPut, PutEnds, Store, Interrupt, ReconcileStored, RecordAmbiguous, ProxyDies,
         LimboEnds
\* Nothing is heard of a PUT later than an hour after expiry.
<1>2. /\ sess.cleaned => sess.state \in NeedCleanup
      /\ \A w \in Workers : worker[w].phase # "idle" => sess.state \in NeedCleanup
  <2>1. ~sess.overdue
    BY DEF FileInv, HourOK, TypeOK, InFlight, ClaimPut, PutEnds, Store, Interrupt,
           ReconcileStored, RecordAmbiguous, ProxyDies, LimboEnds
  <2> QED BY <2>1 DEF CleanupInv, CleanedOK, FileInv, WorkerOK, Ended
<1>3. sess'.state = sess.state
  BY <1>0, PutWrites DEF Mutates, Reported, PutEnds, Store, Interrupt, ProxyDies, LimboEnds
<1>4. \A v \in Puts \ {u} : put'[v] = put[v]
  BY <1>0 DEF SetPut, ClaimPut, PutEnds, Store, Interrupt, ReconcileStored, RecordAmbiguous,
              ProxyDies, LimboEnds
<1>5. CASE ClaimPut(u)
  <2>1. limbo = {} /\ UNCHANGED limbo
    BY <1>5 DEF ClaimPut, CleanupInv, LimboOK
  <2>2. sess.state \notin NeedCleanup /\ sess'.cleaned = sess.cleaned
    BY <1>0, <1>5, PutWrites DEF ClaimPut, NeedCleanup
  <2> QED BY <1>1, <1>2, <2>1, <2>2 DEF CleanupInv, LimboOK, CleanedOK, CleanupOK
<1>6. CASE Store(u)
  <2>1. put[u] = "sending" /\ put'[u] = "stored" /\ UNCHANGED <<sess, limbo>>
    BY <1>0, <1>6 DEF Store, SetPut
  <2>2. StoredPut'
    BY <2>1 DEF StoredPut
  <2> QED BY <1>0, <1>1, <1>2, <1>4, <2>1, <2>2
          DEF CleanupInv, LimboOK, CleanedOK, CleanupOK, NeedCleanup, Ended
<1>7. CASE Interrupt(u)
  <2>1. /\ put[u] = "sending" /\ put'[u] = "failed" /\ UNCHANGED <<sess, object>>
        /\ \/ limbo' = limbo
           \/ sess.attempt = u /\ ~sess.settled /\ limbo' = limbo \cup {u}
    BY <1>0, <1>7 DEF Interrupt, SetPut, InOwnWindow
  <2>2. StoredPut => StoredPut'
    BY <1>4, <2>1 DEF StoredPut
  <2> QED BY <1>0, <1>1, <1>2, <1>4, <2>1, <2>2 DEF CleanupInv, LimboOK, CleanedOK, CleanupOK
<1>8. CASE ProxyDies(u) \/ LimboEnds(u)
  <2>1. /\ ~sess.settled /\ UNCHANGED sess
        /\ \/ /\ sess.attempt = u /\ put'[u] = "done"
              /\ limbo' = limbo \/ limbo' = limbo \cup {u}
           \/ limbo' \subseteq limbo /\ UNCHANGED put
    BY <1>0, <1>8 DEF ProxyDies, LimboEnds, SetPut, InOwnWindow, CleanupInv, LimboOK
  <2> QED BY <1>0, <1>1, <1>2, <1>4, <2>1 DEF CleanupInv, LimboOK, CleanedOK, CleanupOK, NeedCleanup
<1>9. CASE ReconcileStored(u) \/ RecordAmbiguous(u)
  <2>1. sess'.gen = sess.gen + 1 /\ ~sess'.cleaned
    BY <1>0, <1>2, <1>9, PutWrites DEF Reported, Rearmed
  <2>2. UNCHANGED <<object, limbo>>
    BY <1>9 DEF ReconcileStored, RecordAmbiguous
  <2>3. LimboOK'
    <3>1. CASE ReconcileStored(u)
      <4>1. put[u] = "stored" /\ Reported(u, TRUE)
        BY <1>0, <3>1, PutWrites DEF ReconcileStored
      <4> QED BY <1>0, <1>4, <2>2, <4>1 DEF CleanupInv, LimboOK, Reported
    <3>2. CASE RecordAmbiguous(u)
      <4>1. put[u] = "failed" /\ put'[u] = "done" /\ Reported(u, FALSE)
        BY <1>0, <3>2, PutWrites DEF RecordAmbiguous, SetPut
      <4> QED BY <1>0, <1>4, <2>2, <4>1 DEF CleanupInv, LimboOK, Reported
    <3> QED BY <1>9, <3>1, <3>2
  <2>4. CleanedOK'
    BY <2>1 DEF CleanedOK
  <2>5. ASSUME NEW w \in Workers PROVE CleanupOK(w)'
    BY <1>0, <1>1, <1>2, <1>3, <2>1 DEF CleanupInv, CleanupOK, NeedCleanup
  <2> QED BY <2>3, <2>4, <2>5 DEF CleanupInv
<1> QED BY <1>5, <1>6, <1>7, <1>8, <1>9 DEF PutEnds

\* A window that closes leaves nothing in limbo.
LEMMA LimboStep ==
  ASSUME LimboOK, UNCHANGED <<limbo, put>>, sess'.attempt = sess.attempt,
         sess'.settled => sess.settled \/ limbo = {}
  PROVE  LimboOK'
BY DEF LimboOK

\* A session of which no cleanup is under way, or has been recorded, has none afterwards.
LEMMA NoCleanupYet ==
  ASSUME FileInv, CleanupInv, sess.state \in {"pending", "verifying"}, UNCHANGED worker,
         sess'.cleaned => sess.cleaned
  PROVE  CleanedOK' /\ \A w \in Workers : CleanupOK(w)'
BY DEF FileInv, CleanupInv, WorkerOK, CleanedOK, CleanupOK, Ended, NeedCleanup

LEMMA CallKeepsCleanup ==
  ASSUME FileInv, CleanupInv, NEW c \in Calls,
         ClaimVerify(c) \/ CompleteExpired(c) \/ CallStep(c) \/ CallDies(c) \/ Cancel(c)
  PROVE  CleanupInv'
<1>0. TypeOK
  BY DEF FileInv
<1>1. UNCHANGED <<limbo, put, archival, worker>>
  BY DEF ClaimVerify, CompleteExpired, CallStep, CallDies, Cancel, Verify, GiveBack, Reject,
         CreateFile, Scan, RecordScan, Purge
<1>2. /\ sess'.attempt = sess.attempt /\ sess'.settled = sess.settled
      /\ sess'.gen = sess.gen /\ (sess'.cleaned => sess.cleaned)
  BY <1>0, CallWrites DEF CallStep, CallDies, Verify, Scan, RecordScan, Purge, Moves
<1>3. LimboOK'
  BY <1>1, <1>2, LimboStep DEF CleanupInv
<1>4. CASE sess.state \in {"pending", "verifying"}
  BY <1>1, <1>2, <1>3, <1>4, NoCleanupYet DEF CleanupInv
<1>5. CASE sess.state \notin {"pending", "verifying"}
  <2>1. UNCHANGED sess /\ (object' => object)
    <3>1. UNCHANGED sess
      BY <1>5 DEF ClaimVerify, CompleteExpired, CallStep, CallDies, Cancel, Verify, GiveBack, Reject,
                  CreateFile, Scan, RecordScan, Purge
    <3>2. UNCHANGED object \/ object' = FALSE
      BY DEF ClaimVerify, CompleteExpired, CallStep, CallDies, Cancel, Verify, GiveBack, Reject,
             CreateFile, Scan, RecordScan, Purge
    <3> QED BY <3>1, <3>2
  <2>2. UNCHANGED file \/ (sess.state = "completed" /\ ~sess.overdue)
    BY <1>0, <1>5 DEF ClaimVerify, CompleteExpired, CallStep, CallDies, Cancel, Verify, GiveBack, Reject,
              CreateFile, Scan, RecordScan, Purge, FileInv, TypeOK, HourOK, Scanning
  <2>3. CASE UNCHANGED file
    BY <1>1, <1>3, <2>1, <2>3 DEF CleanupInv, CleanedOK, CleanupOK, StoredPut
  <2>4. CASE sess.state = "completed" /\ ~sess.overdue
    BY <1>1, <1>3, <2>1, <2>4
       DEF CleanupInv, CleanedOK, CleanupOK, FileInv, WorkerOK, NeedCleanup
  <2> QED BY <2>2, <2>3, <2>4
<1> QED BY <1>4, <1>5

LEMMA WorkerKeepsCleanup ==
  ASSUME FileInv, CleanupInv, NEW w \in Workers,
         Select(w) \/ WorkerStep(w) \/ DeleteFails(w) \/ LeaseLost(w) \/ WorkerDies(w)
  PROVE  CleanupInv'
<1>0. TypeOK /\ sess.gen \in Nat
  BY DEF FileInv, TypeOK, Session
<1>1. UNCHANGED <<file, limbo, put, call, archival>> /\ (StoredPut' <=> StoredPut)
  BY DEF Select, WorkerStep, Renew, Delete, RecordCleanup, JobCompletes, DeleteFails, LeaseLost,
         WorkerDies, StoredPut
<1>2. /\ sess'.attempt = sess.attempt /\ sess'.settled = sess.settled /\ sess'.gen = sess.gen
      /\ sess'.overdue = sess.overdue
  BY <1>0, CleanupWrites
     DEF WorkerStep, Renew, Delete, JobCompletes, DeleteFails, LeaseLost, WorkerDies, Moves
<1>3. LimboOK'
  BY <1>1, <1>2, LimboStep DEF CleanupInv
<1>4. CASE Select(w)
  <2>1. /\ sess'.state = (IF sess.state = "completed" THEN "completed" ELSE "cleanup_pending")
        /\ sess'.cleaned = sess.cleaned
        /\ \A x \in Workers \ {w} : worker'[x] = worker[x]
        /\ worker'[w].phase = "renew" /\ worker'[w].gen = sess.gen
        /\ worker'[w].keep = CleanCompletion
    BY <1>0, <1>4, CleanupWrites DEF Moves
  <2>2. UNCHANGED object /\ sess.settled
    BY <1>4 DEF Select, Ready
  <2>3. CleanedOK'
    BY <1>1, <1>2, <2>1, <2>2 DEF CleanupInv, CleanedOK, Ended, NeedCleanup
  <2>4. CleanupOK(w)'
    BY <1>0, <1>1, <1>2, <2>1, <2>2 
       DEF CleanupOK, CleanCompletion, FileInv, TypeOK, ArchivalOK, NeedCleanup
  <2>5. ASSUME NEW x \in Workers \ {w} PROVE CleanupOK(x)'
    BY <1>1, <1>2, <2>1, <2>2 DEF CleanupInv, CleanupOK, FileInv, WorkerOK, Ended, NeedCleanup
  <2> QED BY <1>3, <2>3, <2>4, <2>5 DEF CleanupInv
<1>5. CASE Delete(w)
  <2>1. /\ UNCHANGED sess /\ worker[w].phase = "delete" /\ object' = (object /\ worker[w].keep)
        /\ WorkerGoes(w, "record")
    BY <1>0, <1>5, WorkerMoves DEF Delete, WorkerPhases, WorkerGoes
  <2> QED BY <1>0, <1>1, <1>3, <2>1
          DEF CleanupInv, CleanedOK, CleanupOK, FileInv, WorkerOK, WorkerGoes
<1>6. CASE RecordCleanup(w)
  <2>1. worker[w].phase = "record" /\ UNCHANGED object /\ sess'.state = sess.state
    BY <1>0, <1>6, CleanupWrites DEF RecordCleanup, Moves
  <2>2. WorkerGoes(w, "settle") \/ WorkerGoes(w, "idle")
    BY <1>0, <1>6, WorkerMoves DEF RecordCleanup, WorkerPhases, WorkerGoes
  <2>3. sess'.cleaned => sess.cleaned \/ sess.gen = worker[w].gen
    BY <1>0, <1>6, CleanupWrites DEF Moves, UnchangedSince
  <2>4. CleanedOK'
    BY <1>1, <1>2, <2>1, <2>3 DEF CleanupInv, CleanedOK, CleanupOK, FileInv, WorkerOK
  <2>5. ASSUME NEW x \in Workers PROVE CleanupOK(x)'
    BY <1>1, <1>2, <2>1, <2>2 DEF CleanupInv, CleanupOK, WorkerGoes
  <2> QED BY <1>3, <2>4, <2>5 DEF CleanupInv
<1>7. CASE Renew(w) \/ JobCompletes(w) \/ DeleteFails(w) \/ LeaseLost(w) \/ WorkerDies(w)
  <2>1. UNCHANGED <<sess, object>>
    BY <1>7 DEF Renew, JobCompletes, DeleteFails, LeaseLost, WorkerDies
  <2>2. UNCHANGED worker \/ WorkerGoes(w, "delete") \/ WorkerGoes(w, "idle")
    BY <1>0, <1>7, WorkerMoves
       DEF Renew, JobCompletes, DeleteFails, LeaseLost, WorkerDies, WorkerPhases, WorkerGoes
  <2>3. worker[w].phase = "idle" => UNCHANGED worker
    BY <1>7 DEF Renew, JobCompletes, DeleteFails, LeaseLost, WorkerDies
  <2> QED BY <1>1, <1>3, <2>1, <2>2, <2>3 DEF CleanupInv, CleanedOK, CleanupOK, WorkerGoes
<1> QED BY <1>4, <1>5, <1>6, <1>7 DEF WorkerStep

LEMMA RestKeepsCleanup ==
  ASSUME FileInv, CleanupInv, Rest
  PROVE  CleanupInv'
<1>0. TypeOK
  BY DEF FileInv
<1>1. UNCHANGED <<limbo, put, call, worker>> /\ (object' => object) /\ (StoredPut' <=> StoredPut)
  <2>1. UNCHANGED <<limbo, put, call, worker>> /\ (UNCHANGED object \/ object' = FALSE)
    BY ClockWrites, <1>0
       DEF TypeOK, Rest, RegrantExpired, Archive, NotReady, DeleteArchived, RecordArchivedCleanup,
           ArchivedCleanupFails, ReconcileSession, ReconcileArchived
  <2> QED BY <2>1 DEF StoredPut
<1>2. /\ sess'.attempt = sess.attempt /\ sess'.gen = sess.gen /\ sess'.cleaned = sess.cleaned
      /\ (sess.settled => sess'.settled) /\ (sess'.settled => sess.settled \/ limbo = {})
      /\ (sess.overdue => sess'.overdue)
  BY <1>0, ClockWrites, CleanupWrites
     DEF TypeOK, Rest, Archive, NotReady, DeleteArchived, RecordArchivedCleanup,
         ArchivedCleanupFails, ReconcileArchived, Moves
<1>3. LimboOK'
  BY <1>1, <1>2, LimboStep DEF CleanupInv
<1>4. CASE sess.state \in {"pending", "verifying"}
  BY <1>1, <1>2, <1>3, <1>4, NoCleanupYet DEF CleanupInv
<1>5. CASE sess.state \notin {"pending", "verifying"}
  <2>1. sess'.state = sess.state
    BY <1>0, <1>5, ClockWrites, CleanupWrites
       DEF TypeOK, Rest, RegrantExpired, Archive, NotReady, DeleteArchived, RecordArchivedCleanup,
           ArchivedCleanupFails, ReconcileArchived, Moves
  <2>2. CASE UNCHANGED <<file, archival>>
    BY <1>1, <1>2, <1>3, <2>1, <2>2 DEF CleanupInv, CleanedOK, CleanupOK
  <2>3. CASE Archive
    <3>1. file'.state = file.state /\ ~file'.cleaned /\ archival' = "queued"
      BY <1>0, <2>3, ArchivalWrites DEF Archive, TypeOK
    <3> QED BY <1>1, <1>2, <1>3, <2>1, <3>1 DEF CleanupInv, CleanedOK, CleanupOK
  <2>4. CASE RecordArchivedCleanup
    <3>1. file'.state = file.state /\ archival = "deleted"
      BY <1>0, <2>4, ArchivalWrites DEF RecordArchivedCleanup
    <3> QED BY <1>1, <1>2, <1>3, <2>1, <3>1 DEF CleanupInv, CleanedOK, CleanupOK
  <2>5. CASE DeleteArchived
    BY <1>1, <1>2, <1>3, <2>1, <2>5 DEF CleanupInv, CleanedOK, CleanupOK, DeleteArchived
  <2>6. CASE ArchivedCleanupFails \/ ReconcileArchived
    <3>1. UNCHANGED file /\ archival' # "deleted"
      BY <2>6 DEF ArchivedCleanupFails, ReconcileArchived
    <3> QED BY <1>1, <1>2, <1>3, <2>1, <3>1 DEF CleanupInv, CleanedOK, CleanupOK
  <2> QED BY <1>0, <2>2, <2>3, <2>4, <2>5, <2>6, ClockWrites
          DEF TypeOK, Rest, RegrantExpired, NotReady, ReconcileSession
<1> QED BY <1>4, <1>5

-----------------------------------------------------------------------------
(* Theorems. *)

LEMMA InitInv == Init => IInv
<1> SUFFICES ASSUME Init PROVE IInv
  OBVIOUS
<1>1. TypeOK
  BY InitTypes
<1>2. /\ \A w \in Workers : worker[w].phase = "idle"
      /\ \A c \in Calls : call[c] = "idle"
      /\ sess.state = "pending" /\ ~sess.overdue /\ ~sess.cleaned
      /\ archival = "none" /\ ~file.archived /\ limbo = {} /\ file.state = "none"
  BY DEF Init, IdleWorker
<1> QED BY <1>1, <1>2
        DEF IInv, FileInv, ArchivalOK, VerifierOK, HourOK, AvailableFileIsStored, CallOK, WorkerOK,
            CleanupInv, LimboOK, CleanedOK, CleanupOK, Verifying, Scanning

LEMMA StutterInv == IInv /\ UNCHANGED vars => IInv'
BY DEF vars, IInv, FileInv, TypeOK, ArchivalOK, VerifierOK, HourOK, AvailableFileIsStored, CallOK,
       WorkerOK, CleanupInv, LimboOK, CleanedOK, CleanupOK, InFlight, CleanCompletion, StoredPut

LEMMA StepInv == IInv /\ [Next]_vars => IInv'
<1> SUFFICES ASSUME IInv, [Next]_vars PROVE IInv'
  OBVIOUS
<1>1. ASSUME NEW u \in Puts,
             \/ ClaimPut(u) \/ PutEnds(u) \/ ReconcileStored(u) \/ RecordAmbiguous(u)
             \/ ProxyDies(u) \/ LimboEnds(u)
      PROVE  IInv'
  BY <1>1, PutKeepsFile, PutKeepsCleanup DEF IInv
<1>2. ASSUME NEW c \in Calls,
             ClaimVerify(c) \/ CompleteExpired(c) \/ CallStep(c) \/ CallDies(c) \/ Cancel(c)
      PROVE  IInv'
  BY <1>2, CallKeepsFile, CallKeepsCleanup DEF IInv
<1>3. ASSUME NEW w \in Workers,
             Select(w) \/ WorkerStep(w) \/ DeleteFails(w) \/ LeaseLost(w) \/ WorkerDies(w)
      PROVE  IInv'
  BY <1>3, WorkerKeepsFile, WorkerKeepsCleanup DEF IInv
<1>4. CASE Rest
  BY <1>4, RestKeepsFile, RestKeepsCleanup DEF IInv
<1> QED BY <1>1, <1>2, <1>3, <1>4, StutterInv DEF Next, Rest

\* The session's row, the file's row, the object and all that works on them keep the
\* invariant, for every number of PUTs, calls, workers and disturbances.
THEOREM UploadInvariance == Spec => []IInv
<1> QED BY InitInv, StepInv, PTL DEF Spec

\* Columns that are written together agree.
THEOREM UploadTypes == Spec => []TypeOK
<1>1. IInv => TypeOK
  BY DEF IInv, FileInv
<1> QED BY <1>1, UploadInvariance, PTL

\* Nothing deletes the bytes of a file that can be downloaded, whenever PUTs are
\* interrupted.
THEOREM DownloadableBytesStay == Spec => []AvailableFileIsStored
<1>1. IInv => AvailableFileIsStored
  BY DEF IInv, FileInv
<1> QED BY <1>1, UploadInvariance, PTL

\* What the store may still publish is reported by its proxy later, or holds the
\* window of the session open.
THEOREM LimboIsFenced == ASSUME ~LateAbort PROVE Spec => []AmbiguityIsFenced
<1>1. IInv => AmbiguityIsFenced
  BY DEF IInv, CleanupInv, LimboOK, AmbiguityIsFenced
<1> QED BY <1>1, UploadInvariance, PTL

\* A cleanup that was recorded leaves no object behind.
THEOREM CleanupIsFinal == ASSUME ~LateAbort PROVE Spec => []NoOrphanedObject
<1>1. IInv => NoOrphanedObject
  <2> SUFFICES ASSUME IInv, sess.cleaned, InFlight = {}, object
               PROVE  file.state = "available" /\ ~file.cleaned
    BY DEF NoOrphanedObject
  <2>1. ~StoredPut
    BY DEF StoredPut, InFlight
  <2> QED BY <2>1 DEF IInv, CleanupInv, CleanedOK, Ended
<1> QED BY <1>1, UploadInvariance, PTL

\* A session that was given up, handed to cleanup or completed never changes that.
THEOREM EndedSessionsStay == Spec => NoResurrection
<1> DEFINE Stays == /\ sess.state \in NeedCleanup => sess'.state \in NeedCleanup
                    /\ sess.state = "completed" => sess'.state = "completed"
<1>1. TypeOK /\ [Next]_vars => [Stays]_vars
  <2> SUFFICES ASSUME TypeOK, Next PROVE Stays
    OBVIOUS
  <2>1. ASSUME NEW u \in Puts,
               \/ ClaimPut(u) \/ PutEnds(u) \/ ReconcileStored(u) \/ RecordAmbiguous(u)
               \/ ProxyDies(u) \/ LimboEnds(u)
        PROVE  Stays
    BY <2>1, PutWrites DEF Mutates, Reported, PutEnds, Store, Interrupt, ProxyDies, LimboEnds
  <2>2. ASSUME NEW c \in Calls,
               ClaimVerify(c) \/ CompleteExpired(c) \/ CallStep(c) \/ CallDies(c) \/ Cancel(c)
        PROVE  Stays
    BY <2>2, CallWrites
       DEF Moves, NeedCleanup, ClaimVerify, CompleteExpired, CallStep, CallDies, Cancel, Verify,
           Scan, RecordScan, Purge
  <2>3. ASSUME NEW w \in Workers,
               Select(w) \/ WorkerStep(w) \/ DeleteFails(w) \/ LeaseLost(w) \/ WorkerDies(w)
        PROVE  Stays
    BY <2>3, CleanupWrites
       DEF Moves, NeedCleanup, WorkerStep, Renew, Delete, JobCompletes, DeleteFails, LeaseLost,
           WorkerDies
  <2>4. CASE Rest
    BY <2>4, CleanupWrites, ClockWrites
       DEF TypeOK, Moves, NeedCleanup, Rest, RegrantExpired, Archive, NotReady, DeleteArchived,
           RecordArchivedCleanup, ArchivedCleanupFails, ReconcileArchived
  <2> QED BY <2>1, <2>2, <2>3, <2>4 DEF Next, Rest
<1> QED BY <1>1, UploadTypes, PTL DEF Spec, NoResurrection

=============================================================================
