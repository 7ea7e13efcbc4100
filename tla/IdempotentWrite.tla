--------------------------- MODULE IdempotentWrite ---------------------------
(***************************************************************************)
(* Writes under an idempotency key (src/modules/audit/transactions.ts).    *)
(*                                                                         *)
(* One key of one operation and its row, in the four ways the services use *)
(* one: a session user's write and a principal's, which claim, write and   *)
(* complete in one transaction; a principal's write on a snapshot that is  *)
(* taken before the claim lock; and a claim of its own around work that a  *)
(* provider does (the completion of an upload).  A principal's write looks *)
(* first at what an earlier release has recorded under the same key.       *)
(*                                                                         *)
(* The claim is held from its insertion, or its lock, to the end of the    *)
(* transaction: what follows it is one action.                             *)
(***************************************************************************)
EXTENDS Naturals

CONSTANTS
  Calls,      \* calls with the key: of other clients, or retries of one
  Bodies,     \* requestHash
  MaxLife,    \* bound: how often the key expires
  MaxTries,   \* attempts of a transaction on a snapshot
  None

ASSUME IdempotentWriteAssumption == None \notin Calls /\ MaxLife \in Nat

VARIABLES
  path,       \* how the operation uses its key
  row,        \* the row of the key
  legacy,     \* the row of the earlier release
  life,       \* how often the key has expired
  call,       \* call[c]: phase, body, what it has read, attempts and answer
  effects     \* the writes that are committed

vars == <<path, row, legacy, life, call, effects>>

-----------------------------------------------------------------------------

Paths == {"user", "principal", "snapshot", "provider"}

\* The call that inserted the row and its life name the row; "by" is the call whose
\* write the stored response refers to.
Row == [status : {"none", "pending", "completed"}, body : Bodies \cup {None},
        claim : Calls \cup {None}, life : Nat, by : Calls \cup {None}]

NoRow == [status |-> "none", body |-> None, claim |-> None, life |-> 0, by |-> None]

Effect == [by : Calls \cup {None}, body : Bodies, life : Nat]

\* seen is the row in the snapshot, the session a completion has read, or its claim.
Call == [phase : {"idle", "claim", "work", "finalize", "answered", "refused"},
         body : Bodies \cup {None}, seen : Row, tries : Nat,
         answer : Calls \cup {None}]

IdleCall == [phase |-> "idle", body |-> None, seen |-> NoRow, tries |-> 0, answer |-> None]

\* What an earlier release has left: a write it completed, or a claim that a
\* transaction of that release held open.
Init ==
  /\ path \in Paths
  /\ row = NoRow
  /\ \E b \in Bodies, s \in {"none", "pending", "completed"} :
       /\ legacy = IF s = "none" \/ path # "principal" THEN NoRow
                   ELSE [NoRow EXCEPT !.status = s, !.body = b]
       /\ effects = IF legacy.status = "completed"
                      THEN {[by |-> None, body |-> b, life |-> 0]} ELSE {}
  /\ life = 0
  /\ call = [c \in Calls |-> IdleCall]

Live(r) == r.status # "none" /\ r.life = life

-----------------------------------------------------------------------------

Refuse(c) == call' = [call EXCEPT ![c].phase = "refused"]
Answer(c, by) == call' = [call EXCEPT ![c].phase = "answered", ![c].answer = by]
Keep == UNCHANGED <<row, effects>>

\* The upload session of a completion is named by its body.
Completed(b) == \E e \in effects : e.body = b

SeenAtFirst(b) ==
  CASE path = "snapshot" -> row
    [] path = "provider" /\ Completed(b) -> [NoRow EXCEPT !.status = "completed"]
    [] OTHER -> NoRow

Begin(c) ==
  /\ call[c].phase = "idle"
  /\ \E b \in Bodies :
       call' = [call EXCEPT ![c] =
         [@ EXCEPT !.phase = "claim", !.body = b, !.seen = SeenAtFirst(b), !.tries = 1]]
  /\ UNCHANGED <<path, row, legacy, life, effects>>

\* Mutant: the body is not compared.
MatchesMutant(c, r) == TRUE

Matches(c, r) == r.body = call[c].body

\* The claim of another request, a claim left open, or a completed write.
Replay(c, r) ==
  /\ IF Matches(c, r) /\ r.status = "completed" THEN Answer(c, r.by) ELSE Refuse(c)
  /\ Keep

NewRow(c, status, by) ==
  [status |-> status, body |-> call[c].body, claim |-> c, life |-> life, by |-> by]

\* The domain write commits with its claim, or throws and leaves neither.
WriteOrThrow(c) ==
  \/ /\ row' = NewRow(c, "completed", c)
     /\ effects' = effects \cup {[by |-> c, body |-> call[c].body, life |-> life]}
     /\ Answer(c, c)
  \/ Keep /\ Refuse(c)

\* runIdempotentResearchWrite
UserWrite(c) ==
  /\ path = "user" /\ call[c].phase = "claim"
  /\ IF Live(row) THEN Replay(c, row) ELSE WriteOrThrow(c)
  /\ UNCHANGED <<path, legacy, life>>

\* The row a transaction works on: at read committed the one that is there once
\* it has the claim lock, on a snapshot the one from before.
Prior(c) == IF path = "snapshot" THEN call[c].seen ELSE row

\* Mutant: nothing forbids a second row of the key.
OvertakenMutant(c) == FALSE

\* Another call has committed since: its row fails the insertion by the unique
\* constraint, or the deletion of the expired row as a serialization failure.
Overtaken(c) == Prior(c) # row

\* runPrincipalIdempotentResearchWrite: a fresh transaction, or the error.
RetryOrRefuse(c) ==
  /\ IF call[c].tries < MaxTries
       THEN call' = [call EXCEPT ![c].tries = @ + 1, ![c].seen = row]
       ELSE Refuse(c)
  /\ Keep

\* Mutant: the earlier release's row is not looked at.
LegacyLiveMutant == FALSE

LegacyLive == Live(legacy)

PrincipalWrite(c) ==
  /\ path \in {"principal", "snapshot"} /\ call[c].phase = "claim"
  /\ IF LegacyLive THEN Replay(c, legacy)
     ELSE IF Live(Prior(c)) THEN Replay(c, Prior(c))
     ELSE IF Overtaken(c) THEN RetryOrRefuse(c)
     ELSE WriteOrThrow(c)
  /\ UNCHANGED <<path, legacy, life>>

-----------------------------------------------------------------------------
(* completeUpload: claim, provider, finalize, each in a transaction of its own. *)

\* claimIdempotentResearchWrite.  A pending claim of the same request is shared.  A
\* completed one is replayed if the session was read as completed before.
Claim(c) ==
  /\ path = "provider" /\ call[c].phase = "claim"
  /\ IF ~Live(row)
       THEN /\ row' = NewRow(c, "pending", None)
            /\ call' = [call EXCEPT ![c].phase = "work", ![c].seen = row']
            /\ UNCHANGED effects
     ELSE IF ~Matches(c, row)
       THEN Refuse(c) /\ Keep
     ELSE IF row.status = "completed"
       THEN IF call[c].seen.status = "completed" THEN Replay(c, row) ELSE Refuse(c) /\ Keep
       ELSE call' = [call EXCEPT ![c].phase = "work", ![c].seen = row] /\ Keep
  /\ UNCHANGED <<path, legacy, life>>

\* A session is completed once; whoever comes later gets the file of the first.
ProviderWorks(c) ==
  /\ call[c].phase = "work"
  /\ call' = [call EXCEPT ![c].phase = "finalize"]
  /\ effects' = IF Completed(call[c].body) THEN effects
                  ELSE effects \cup
                         {[by |-> c, body |-> call[c].body, life |-> call[c].seen.life]}
  /\ UNCHANGED <<path, row, legacy, life>>

\* Mutant: the claim is finalized by its key.
OwnsClaimMutant(c) == row.status # "none"

\* The claim that the call holds is the row still.
OwnsClaim(c) == row.life = call[c].seen.life /\ row.claim = call[c].seen.claim

\* finalizeIdempotentResearchWrite
Finalize(c) ==
  /\ call[c].phase = "finalize"
  /\ IF OwnsClaim(c)
       THEN \E e \in effects :
              /\ e.body = call[c].body
              /\ row' = IF row.status = "pending"
                          THEN [row EXCEPT !.status = "completed", !.by = e.by] ELSE row
              /\ Answer(c, e.by)
       ELSE Refuse(c) /\ UNCHANGED row
  /\ UNCHANGED <<path, legacy, life, effects>>

-----------------------------------------------------------------------------
(* Faults. *)

\* The connection or the process is lost before a transaction has committed.
Abort(c) ==
  /\ call[c].phase \in {"claim", "work", "finalize"}
  /\ Refuse(c)
  /\ UNCHANGED <<path, row, legacy, life, effects>>

\* The rows of the key that are there expire.
KeyExpires ==
  /\ life < MaxLife
  /\ Live(row) \/ Live(legacy)
  /\ life' = life + 1
  /\ UNCHANGED <<path, row, legacy, call, effects>>

Next ==
  \/ \E c \in Calls :
       \/ Begin(c)
       \/ UserWrite(c) \/ PrincipalWrite(c)
       \/ Claim(c) \/ ProviderWorks(c) \/ Finalize(c)
       \/ Abort(c)
  \/ KeyExpires

Spec == Init /\ [][Next]_vars

-----------------------------------------------------------------------------
(* Properties. *)

RowsOK ==
  /\ path \in Paths
  /\ row \in Row /\ legacy \in Row
  /\ life \in Nat
  /\ call \in [Calls -> Call]
  /\ effects \subseteq Effect

\* Every variable has its type.
TypeOK == RowsOK /\ life <= MaxLife

\* However many calls there are, at once or one after another, on whatever snapshot
\* and whichever release has recorded the key, its operation is executed once in a
\* life of the key.
WrittenOnce ==
  \A e, f \in effects : e.life = f.life => e = f

Answered(c) ==
  call[c].phase = "answered" =>
    \E e \in effects : e.by = call[c].answer /\ e.body = call[c].body

\* An answered call gets a write that has been committed for the same request, and
\* a call that was refused, unless a provider worked for it, has left none.
AnswersFit ==
  \A c \in Calls :
    /\ Answered(c)
    /\ call[c].phase = "refused" /\ path # "provider" => \A e \in effects : e.by # c

-----------------------------------------------------------------------------
(* The inductive invariant of RequestsProofs. *)

\* What was written in this life of the key is on record.
EffectsAreRecorded ==
  \A e \in effects : e.life <= life /\ (e.life = life => Live(row) \/ LegacyLive)

RefersToWrite(r) ==
  r.status = "completed" => \E e \in effects : e.by = r.by /\ e.body = r.body

RowsRefer ==
  /\ RefersToWrite(row) /\ RefersToWrite(legacy)
  /\ path = "snapshot" => \A c \in Calls : RefersToWrite(call[c].seen)
  /\ row.life <= life
  /\ legacy.status # "none" => path = "principal"

Working(c) == call[c].phase \in {"work", "finalize"}

CallOK(c) ==
  /\ Answered(c)
  /\ call[c].phase # "idle" => call[c].body \in Bodies
  /\ Working(c) => path = "provider"
  /\ path # "provider" => \A e \in effects : e.by = c => call[c].phase = "answered"

\* The claim behind k is of the row's life or of an earlier one, and whoever shares
\* that life, or wrote in it, has the same request.
WorkFits(k) ==
  /\ row.status # "none" /\ k.seen.life <= row.life
  /\ k.seen.life = row.life => k.body = row.body
  /\ \A e \in effects : e.life = k.seen.life => e.body = k.body
  /\ \A d \in Calls :
       Working(d) /\ call[d].seen.life = k.seen.life => call[d].body = k.body

ProviderOK ==
  path = "provider" =>
    /\ \A e \in effects :
         row.status # "none" /\ e.life <= row.life /\ (e.life = row.life => e.body = row.body)
    /\ \A c \in Calls : Working(c) => WorkFits(call[c])

IInv ==
  /\ RowsOK /\ WrittenOnce /\ EffectsAreRecorded /\ RowsRefer /\ ProviderOK
  /\ \A c \in Calls : CallOK(c)

=============================================================================
