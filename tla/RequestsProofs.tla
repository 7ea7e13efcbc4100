------------------------ MODULE RequestsProofs ------------------------
(***************************************************************************)
(* Proofs of MCRequests, for every value of its constants: a key executes  *)
(* its operation once and answers every call with a write of its own       *)
(* request; the bucket, its waits and its expiry; the whole and approved   *)
(* export; what is found after merges and their reversal; what is found in *)
(* the index; an import.  Bucket and export are proved in modules of their *)
(* own (TokenBucketProofs, GovernedExportProofs), as is the import         *)
(* (ImportExecutionProofs), the other three here.                          *)
(***************************************************************************)
EXTENDS MCRequests, TLAPS

-----------------------------------------------------------------------------
(* Steps of one call that write nothing. *)

\* What a call may become while the rows and the writes stay.
Fits(c, k) ==
  /\ k \in Call
  /\ k.phase = "answered" => \E e \in effects : e.by = k.answer /\ e.body = k.body
  /\ k.phase # "idle" => k.body \in Bodies
  /\ k.phase \in {"work", "finalize"} => path = "provider" /\ WorkFits(k)
  /\ path = "snapshot" => RefersToWrite(k.seen)
  /\ path # "provider" => \A e \in effects : e.by = c => k.phase = "answered"

LEMMA QuietStep ==
  ASSUME IInv, NEW c \in Calls, NEW k, Fits(c, k),
         call' = [call EXCEPT ![c] = k],
         UNCHANGED <<path, row, legacy, life, effects>>
  PROVE  IInv'
<1>1. call' \in [Calls -> Call] /\ \A d \in Calls : call'[d] = IF d = c THEN k ELSE call[d]
  BY DEF IInv, RowsOK, Fits
<1>2. RowsOK' /\ WrittenOnce' /\ EffectsAreRecorded'
  BY <1>1 DEF IInv, RowsOK, WrittenOnce, EffectsAreRecorded, Live, LegacyLive
<1>3. RowsRefer'
  BY <1>1 DEF IInv, RowsRefer, RefersToWrite, Fits
<1>4. ASSUME NEW d \in Calls PROVE CallOK(d)'
  BY <1>1 DEF IInv, CallOK, Answered, Working, Fits
<1>5. ProviderOK'
  <2>1. ASSUME path = "provider", NEW d \in Calls, Working(d)' PROVE WorkFits(call[d])'
    BY <1>1, <2>1 DEF IInv, ProviderOK, WorkFits, Working, Fits
  <2> QED BY <2>1 DEF IInv, ProviderOK
<1> QED BY <1>2, <1>3, <1>4, <1>5 DEF IInv

-----------------------------------------------------------------------------
(* Rows and writes. *)

LEMMA RefuseFits ==
  ASSUME IInv, NEW c \in Calls, call[c].phase \in {"claim", "work", "finalize"}
  PROVE  Fits(c, [call[c] EXCEPT !.phase = "refused"])
<1>1. call[c] \in Call
  BY DEF IInv, RowsOK
<1>2. [call[c] EXCEPT !.phase = "refused"] \in Call
  BY <1>1 DEF Call
<1> QED BY <1>1, <1>2 DEF IInv, CallOK, RowsRefer, Fits, Call

LEMMA RefuseStep ==
  ASSUME IInv, NEW c \in Calls, call[c].phase \in {"claim", "work", "finalize"},
         Refuse(c), UNCHANGED <<path, row, legacy, life, effects>>
  PROVE  IInv'
BY RefuseFits, QuietStep DEF Refuse

LEMMA AnswerStep ==
  ASSUME IInv, NEW c \in Calls, call[c].phase \in {"claim", "finalize"},
         NEW e \in effects, e.body = call[c].body, Answer(c, e.by),
         UNCHANGED <<path, row, legacy, life, effects>>
  PROVE  IInv'
<1> DEFINE k == [call[c] EXCEPT !.phase = "answered", !.answer = e.by]
<1>1. call[c] \in Call /\ e \in Effect
  BY DEF IInv, RowsOK
<1>2. e.by \in Calls \cup {None}
  BY <1>1 DEF Effect
<1>3. k \in Call
  BY <1>1, <1>2 DEF Call
<1>4. k.phase = "answered" /\ k.answer = e.by /\ k.body = call[c].body /\ k.seen = call[c].seen
  BY <1>1 DEF Call
<1>5. Fits(c, k)
  BY <1>3, <1>4 DEF IInv, CallOK, RowsRefer, Fits
<1>6. call' = [call EXCEPT ![c] = k]
  BY DEF Answer
<1> HIDE DEF k
<1> QED BY <1>5, <1>6, QuietStep

\* A replay answers with the write that the row refers to, or refuses.
LEMMA ReplayStep ==
  ASSUME IInv, NEW c \in Calls, call[c].phase = "claim",
         NEW r, RefersToWrite(r), Replay(c, r), UNCHANGED <<path, legacy, life>>
  PROVE  IInv'
<1>1. UNCHANGED <<path, row, legacy, life, effects>>
  BY DEF Replay, Keep
<1>2. CASE Refuse(c)
  BY <1>1, <1>2, RefuseStep
<1>3. CASE Matches(c, r) /\ r.status = "completed" /\ Answer(c, r.by)
  <2>1. PICK e \in effects : e.by = r.by /\ e.body = r.body
    BY <1>3 DEF RefersToWrite
  <2> QED BY <1>1, <1>3, <2>1, AnswerStep DEF Matches
<1> QED BY <1>2, <1>3 DEF Replay

\* A write under a key that nothing of this life is recorded for.
LEMMA WriteStep ==
  ASSUME None \notin Calls, IInv, NEW c \in Calls, call[c].phase = "claim",
         path # "provider", ~Live(row), ~LegacyLive,
         WriteOrThrow(c), UNCHANGED <<path, legacy, life>>
  PROVE  IInv'
<1>1. CASE Keep /\ Refuse(c)
  BY <1>1, RefuseStep DEF Keep
<1>2. CASE /\ row' = NewRow(c, "completed", c)
           /\ effects' = effects \cup {[by |-> c, body |-> call[c].body, life |-> life]}
           /\ Answer(c, c)
  <2> DEFINE new == [by |-> c, body |-> call[c].body, life |-> life]
             k == [call[c] EXCEPT !.phase = "answered", !.answer = c]
  <2>1. call[c] \in Call /\ call[c].body \in Bodies
    BY DEF IInv, RowsOK, CallOK
  <2>2. /\ k \in Call /\ k.phase = "answered" /\ k.answer = c
        /\ k.body = call[c].body /\ k.seen = call[c].seen
    BY <2>1 DEF Call
  <2>3. /\ call' \in [Calls -> Call]
        /\ \A d \in Calls : call'[d] = IF d = c THEN k ELSE call[d]
    BY <1>2, <2>2 DEF Answer, IInv, RowsOK
  <2>4. /\ row' = [status |-> "completed", body |-> call[c].body, claim |-> c,
                    life |-> life, by |-> c]
        /\ row' \in Row
    BY <1>2, <2>1 DEF NewRow, IInv, RowsOK, Row
  <2>5. new \in Effect /\ effects' = effects \cup {new} /\ effects' \subseteq Effect
    BY <1>2, <2>1 DEF IInv, RowsOK, Effect
  <2>6. \A e \in effects : e.life # life /\ e.life <= life
    BY DEF IInv, EffectsAreRecorded
  <2> HIDE DEF k
  <2>7. RowsOK'
    BY <2>3, <2>4, <2>5 DEF IInv, RowsOK
  <2>8. WrittenOnce'
    BY <2>5, <2>6 DEF IInv, WrittenOnce
  <2>9. EffectsAreRecorded'
    BY <2>4, <2>5, <2>6 DEF IInv, RowsOK, EffectsAreRecorded, Live
  <2>10. RowsRefer'
    <3>1. \A r : RefersToWrite(r) => RefersToWrite(r)'
      BY <2>5 DEF RefersToWrite
    <3>2. RefersToWrite(row)'
      BY <2>4, <2>5 DEF RefersToWrite
    <3>3. \A d \in Calls : call'[d].seen = call[d].seen
      BY <2>2, <2>3
    <3>4. row'.life <= life'
      BY <2>4 DEF IInv, RowsOK
    <3> QED BY <3>1, <3>2, <3>3, <3>4 DEF IInv, RowsRefer, RefersToWrite
  <2>11. ASSUME NEW d \in Calls PROVE CallOK(d)'
    <3>1. CASE d = c
      BY <2>1, <2>2, <2>3, <2>5, <3>1 DEF IInv, CallOK, Answered, Working
    <3>2. CASE d # c
      BY <2>3, <2>5, <3>2 DEF IInv, CallOK, Answered, Working
    <3> QED BY <3>1, <3>2
  <2>12. ProviderOK'
    BY DEF ProviderOK
  <2> QED BY <2>7, <2>8, <2>9, <2>10, <2>11, <2>12 DEF IInv
<1> QED BY <1>1, <1>2 DEF WriteOrThrow

LEMMA UserStep ==
  ASSUME None \notin Calls, IInv, NEW c \in Calls, UserWrite(c)
  PROVE  IInv'
<1>1. CASE Live(row)
  BY <1>1, ReplayStep DEF UserWrite, IInv, RowsRefer
<1>2. CASE ~Live(row)
  <2>1. ~LegacyLive
    BY DEF UserWrite, IInv, RowsRefer, LegacyLive, Live
  <2> QED BY <1>2, <2>1, WriteStep DEF UserWrite
<1> QED BY <1>1, <1>2

LEMMA PrincipalStep ==
  ASSUME None \notin Calls, IInv, NEW c \in Calls, PrincipalWrite(c)
  PROVE  IInv'
<1>0. /\ call[c].phase = "claim" /\ path \in {"principal", "snapshot"}
      /\ UNCHANGED <<path, legacy, life>>
  BY DEF PrincipalWrite
<1>1. RefersToWrite(legacy) /\ RefersToWrite(Prior(c))
  BY DEF IInv, RowsRefer, Prior
<1>2. CASE LegacyLive
  BY <1>0, <1>1, <1>2, ReplayStep DEF PrincipalWrite
<1>3. CASE ~LegacyLive /\ Live(Prior(c))
  BY <1>0, <1>1, <1>3, ReplayStep DEF PrincipalWrite
<1>4. CASE ~LegacyLive /\ ~Live(Prior(c)) /\ Overtaken(c)
  <2>1. RetryOrRefuse(c) /\ UNCHANGED <<path, row, legacy, life, effects>>
    BY <1>0, <1>4 DEF PrincipalWrite, RetryOrRefuse, Keep
  <2>2. CASE Refuse(c)
    BY <1>0, <2>1, <2>2, RefuseStep
  <2>3. CASE call' = [call EXCEPT ![c].tries = @ + 1, ![c].seen = row]
    <3> DEFINE k == [call[c] EXCEPT !.tries = call[c].tries + 1, !.seen = row]
    <3>1. call[c] \in Call /\ row \in Row
      BY DEF IInv, RowsOK
    <3>t. call[c].tries + 1 \in Nat
      BY <3>1 DEF Call
    <3>2. /\ k \in Call /\ k.phase = "claim" /\ k.body = call[c].body /\ k.seen = row
      BY <1>0, <3>1, <3>t DEF Call
    <3>3. call' = [call EXCEPT ![c] = k]
      BY <2>3
    <3> HIDE DEF k
    <3>4. Fits(c, k)
      BY <1>0, <3>2 DEF IInv, CallOK, RowsRefer, Fits
    <3> QED BY <2>1, <3>3, <3>4, QuietStep
  <2> QED BY <2>1, <2>2, <2>3 DEF RetryOrRefuse
<1>5. CASE ~LegacyLive /\ ~Live(Prior(c)) /\ ~Overtaken(c)
  BY <1>0, <1>5, WriteStep DEF PrincipalWrite, Overtaken
<1> QED BY <1>2, <1>3, <1>4, <1>5

-----------------------------------------------------------------------------
(* The beginning of a call, and the completion of an upload. *)

LEMMA BeginStep ==
  ASSUME IInv, NEW c \in Calls, Begin(c)
  PROVE  IInv'
<1>1. PICK b \in Bodies :
        call' = [call EXCEPT ![c] =
          [@ EXCEPT !.phase = "claim", !.body = b, !.seen = SeenAtFirst(b), !.tries = 1]]
  BY DEF Begin
<1> DEFINE k == [call[c] EXCEPT !.phase = "claim", !.body = b, !.seen = SeenAtFirst(b), !.tries = 1]
<1>2. call[c] \in Call /\ row \in Row
  BY DEF IInv, RowsOK
<1>3. NoRow \in Row /\ [NoRow EXCEPT !.status = "completed"] \in Row
  BY DEF NoRow, Row
<1>4. SeenAtFirst(b) \in Row /\ (path = "snapshot" => SeenAtFirst(b) = row)
  BY <1>2, <1>3 DEF SeenAtFirst
<1>5. /\ k \in Call /\ k.phase = "claim" /\ k.body = b /\ k.seen = SeenAtFirst(b)
  BY <1>2, <1>4 DEF Call
<1>6. call' = [call EXCEPT ![c] = k]
  BY <1>1
<1> HIDE DEF k
<1>7. Fits(c, k)
  BY <1>4, <1>5 DEF Begin, IInv, CallOK, RowsRefer, Fits
<1>8. UNCHANGED <<path, row, legacy, life, effects>>
  BY DEF Begin
<1> QED BY <1>6, <1>7, <1>8, QuietStep

\* A claim that finds no live row opens a life for its request.
LEMMA NewClaimStep ==
  ASSUME IInv, NEW c \in Calls, Claim(c), ~Live(row)
  PROVE  IInv'
<1> DEFINE k == [call[c] EXCEPT !.phase = "work", !.seen = row']
<1>1. /\ path = "provider" /\ call[c].phase = "claim"
      /\ UNCHANGED <<path, legacy, life, effects>>
  BY DEF Claim
<1>2. call[c] \in Call /\ call[c].body \in Bodies
  BY <1>1 DEF IInv, RowsOK, CallOK
<1>3. /\ row' = [status |-> "pending", body |-> call[c].body, claim |-> c,
                  life |-> life, by |-> None]
      /\ row' \in Row
  BY <1>2 DEF Claim, NewRow, IInv, RowsOK, Row
<1>4. call' = [call EXCEPT ![c] = k]
  BY DEF Claim
<1>5. k \in Call /\ k.phase = "work" /\ k.body = call[c].body /\ k.seen = row'
  BY <1>2, <1>3 DEF Call
<1> HIDE DEF k
<1>6. /\ call' \in [Calls -> Call]
      /\ \A d \in Calls : call'[d] = IF d = c THEN k ELSE call[d]
  BY <1>4, <1>5 DEF IInv, RowsOK
<1>7. \A e \in effects : e.life < life
  <2>1. row.status # "none" => row.life < life
    BY DEF IInv, RowsOK, RowsRefer, Row, Live
  <2>2. \A e \in effects : e.life \in Nat
    BY DEF IInv, RowsOK, Effect
  <2> QED BY <1>1, <2>1, <2>2 DEF IInv, RowsOK, Row, ProviderOK
<1>8. \A d \in Calls : Working(d) => call[d].seen.life < life
  <2>1. row.status # "none" => row.life < life
    BY DEF IInv, RowsOK, RowsRefer, Row, Live
  <2>2. \A d \in Calls : call[d].seen.life \in Nat
    BY DEF IInv, RowsOK, Call, Row
  <2> QED BY <1>1, <2>1, <2>2 DEF IInv, RowsOK, Row, ProviderOK, WorkFits
<1>9. RowsOK' /\ WrittenOnce' /\ EffectsAreRecorded'
  BY <1>1, <1>3, <1>6, <1>7 DEF IInv, RowsOK, WrittenOnce, EffectsAreRecorded
<1>10. RowsRefer'
  BY <1>1, <1>3 DEF IInv, RowsOK, RowsRefer, RefersToWrite
<1>11. ASSUME NEW d \in Calls PROVE CallOK(d)'
  BY <1>1, <1>2, <1>5, <1>6 DEF IInv, CallOK, Answered, Working
<1>12. ProviderOK'
  <2>1. ASSUME NEW e \in effects
        PROVE  row'.status # "none" /\ e.life <= row'.life /\ e.life # row'.life
    BY <1>3, <1>7 DEF IInv, RowsOK, Effect
  <2>2. ASSUME NEW d \in Calls, Working(d)' PROVE WorkFits(call[d])'
    <3>1. CASE d = c
      BY <1>1, <1>3, <1>5, <1>6, <1>7, <1>8, <3>1 DEF IInv, RowsOK, Effect, WorkFits, Working
    <3>2. CASE d # c
      <4>1. call'[d] = call[d] /\ Working(d) /\ WorkFits(call[d])
        BY <1>1, <1>6, <2>2, <3>2 DEF IInv, ProviderOK, Working
      <4>2. call[d].seen.life < life /\ call[d].seen.life \in Nat /\ life \in Nat
        BY <1>8, <4>1 DEF IInv, RowsOK, Call, Row
      <4> QED
        BY <1>1, <1>3, <1>5, <1>6, <1>8, <4>1, <4>2 DEF WorkFits, Working
    <3> QED BY <3>1, <3>2
  <2> QED BY <1>1, <2>1, <2>2 DEF ProviderOK
<1> QED BY <1>9, <1>10, <1>11, <1>12 DEF IInv

LEMMA ClaimStep ==
  ASSUME IInv, NEW c \in Calls, Claim(c)
  PROVE  IInv'
<1>0. /\ path = "provider" /\ call[c].phase = "claim"
      /\ UNCHANGED <<path, legacy, life>>
  BY DEF Claim
<1>1. CASE ~Live(row)
  BY <1>1, NewClaimStep
<1>2. CASE Refuse(c) /\ Keep
  BY <1>0, <1>2, RefuseStep DEF Keep
<1>3. CASE Replay(c, row)
  BY <1>0, <1>3, ReplayStep DEF IInv, RowsRefer
<1>4. CASE /\ Live(row) /\ Matches(c, row) /\ Keep
           /\ call' = [call EXCEPT ![c].phase = "work", ![c].seen = row]
  <2> DEFINE k == [call[c] EXCEPT !.phase = "work", !.seen = row]
  <2>1. call[c] \in Call /\ row \in Row
    BY DEF IInv, RowsOK
  <2>2. k \in Call /\ k.phase = "work" /\ k.body = call[c].body /\ k.seen = row
    BY <2>1 DEF Call
  <2>3. call' = [call EXCEPT ![c] = k]
    BY <1>4
  <2> HIDE DEF k
  <2>4. WorkFits(k)
    BY <1>0, <1>4, <2>1, <2>2 DEF IInv, ProviderOK, WorkFits, Live, Matches, Row
  <2>5. Fits(c, k)
    BY <1>0, <2>2, <2>4 DEF IInv, CallOK, Fits
  <2>6. UNCHANGED <<path, row, legacy, life, effects>>
    BY <1>0, <1>4 DEF Keep
  <2> QED BY <2>3, <2>5, <2>6, QuietStep
<1> QED BY <1>1, <1>2, <1>3, <1>4 DEF Claim

\* The provider writes in the life of the claim, if nobody has for this request.
LEMMA ProviderStep ==
  ASSUME IInv, NEW c \in Calls, ProviderWorks(c)
  PROVE  IInv'
<1> DEFINE k == [call[c] EXCEPT !.phase = "finalize"]
           new == [by |-> c, body |-> call[c].body, life |-> call[c].seen.life]
<1>1. /\ call[c].phase = "work" /\ UNCHANGED <<path, row, legacy, life>>
      /\ effects' = IF Completed(call[c].body) THEN effects ELSE effects \cup {new}
      /\ call' = [call EXCEPT ![c] = k]
  BY DEF ProviderWorks
<1>2. /\ call[c] \in Call /\ call[c].body \in Bodies /\ Working(c)
      /\ path = "provider" /\ WorkFits(call[c])
  BY <1>1 DEF IInv, RowsOK, CallOK, Working, ProviderOK
<1>3. /\ k \in Call /\ k.phase = "finalize" /\ k.body = call[c].body /\ k.seen = call[c].seen
  BY <1>2 DEF Call
<1> HIDE DEF k
<1>4. CASE Completed(call[c].body)
  <2>1. Fits(c, k)
    BY <1>2, <1>3 DEF Fits, WorkFits
  <2> QED BY <1>1, <1>4, <2>1, QuietStep
<1>5. CASE ~Completed(call[c].body)
  <2>1. /\ call' \in [Calls -> Call]
        /\ \A d \in Calls : call'[d] = IF d = c THEN k ELSE call[d]
    BY <1>1, <1>3 DEF IInv, RowsOK
  <2>2. new \in Effect /\ effects' = effects \cup {new} /\ effects' \subseteq Effect
    BY <1>1, <1>2, <1>5 DEF IInv, RowsOK, Effect, Call, Row
  <2>3. \A e \in effects : e.life # call[c].seen.life
    BY <1>2, <1>5 DEF WorkFits, Completed
  <2>4. /\ row.status # "none" /\ call[c].seen.life <= row.life /\ row.life <= life
        /\ row.life \in Nat /\ life \in Nat /\ call[c].seen.life \in Nat
        /\ call[c].seen.life = row.life => call[c].body = row.body
    BY <1>2 DEF IInv, RowsOK, RowsRefer, WorkFits, Call, Row
  <2>5. RowsOK'
    BY <1>1, <2>1, <2>2 DEF IInv, RowsOK
  <2>6. WrittenOnce'
    BY <2>2, <2>3 DEF IInv, WrittenOnce
  <2>7. EffectsAreRecorded'
    BY <1>1, <2>2, <2>4 DEF IInv, EffectsAreRecorded, Live, LegacyLive
  <2>8. RowsRefer'
    <3>1. \A r : RefersToWrite(r) => RefersToWrite(r)'
      BY <2>2 DEF RefersToWrite
    <3> QED BY <1>1, <1>2, <3>1 DEF IInv, RowsRefer, RefersToWrite
  <2>9. ASSUME NEW d \in Calls PROVE CallOK(d)'
    BY <1>1, <1>2, <1>3, <2>1, <2>2 DEF IInv, CallOK, Answered, Working
  <2>10. ProviderOK'
    <3>1. ASSUME NEW e \in effects'
          PROVE  e.life <= row.life /\ (e.life = row.life => e.body = row.body)
      BY <1>2, <2>2, <2>4 DEF IInv, ProviderOK
    <3>2. ASSUME NEW d \in Calls, Working(d)' PROVE WorkFits(call[d])'
      <4>1. Working(d) /\ WorkFits(call[d])
        BY <1>2, <2>1, <3>2 DEF IInv, ProviderOK, Working
      <4>2. call'[d].seen = call[d].seen /\ call'[d].body = call[d].body
        BY <1>3, <2>1
      <4>3. ASSUME NEW e \in effects', e.life = call[d].seen.life PROVE e.body = call[d].body
        BY <1>2, <2>2, <4>1, <4>3 DEF WorkFits
      <4>4. ASSUME NEW f \in Calls, Working(f)', call'[f].seen.life = call[d].seen.life
            PROVE  call'[f].body = call[d].body
        BY <1>2, <1>3, <2>1, <4>1, <4>4 DEF WorkFits, Working
      <4> QED BY <1>1, <4>1, <4>2, <4>3, <4>4 DEF WorkFits
    <3> QED BY <1>1, <2>4, <3>1, <3>2 DEF ProviderOK
  <2> QED BY <2>5, <2>6, <2>7, <2>8, <2>9, <2>10 DEF IInv
<1> QED BY <1>4, <1>5

LEMMA FinalizeStep ==
  ASSUME IInv, NEW c \in Calls, Finalize(c)
  PROVE  IInv'
<1>0. /\ call[c].phase = "finalize" /\ UNCHANGED <<path, legacy, life, effects>>
      /\ path = "provider" /\ WorkFits(call[c]) /\ call[c] \in Call
  BY DEF Finalize, IInv, RowsOK, CallOK, ProviderOK, Working
<1>1. CASE ~OwnsClaim(c)
  BY <1>0, <1>1, RefuseStep DEF Finalize
<1>2. CASE OwnsClaim(c)
  <2>1. PICK e \in effects :
          /\ e.body = call[c].body
          /\ row' = IF row.status = "pending"
                      THEN [row EXCEPT !.status = "completed", !.by = e.by] ELSE row
          /\ Answer(c, e.by)
    BY <1>2 DEF Finalize
  <2>2. CASE row.status # "pending"
    BY <1>0, <2>1, <2>2, AnswerStep
  <2>3. CASE row.status = "pending"
    <3> DEFINE k == [call[c] EXCEPT !.phase = "answered", !.answer = e.by]
    <3>1. e.by \in Calls \cup {None} /\ row \in Row
      BY DEF IInv, RowsOK, Effect
    <3>2. /\ row' \in Row /\ row'.status = "completed" /\ row'.by = e.by
          /\ row'.body = row.body /\ row'.life = row.life
      BY <2>1, <2>3, <3>1 DEF Row
    <3>3. /\ k \in Call /\ k.phase = "answered" /\ k.answer = e.by
          /\ k.body = call[c].body /\ k.seen = call[c].seen
      BY <1>0, <3>1 DEF Call
    <3>4. call' = [call EXCEPT ![c] = k]
      BY <2>1 DEF Answer
    <3> HIDE DEF k
    <3>5. /\ call' \in [Calls -> Call]
          /\ \A d \in Calls : call'[d] = IF d = c THEN k ELSE call[d]
      BY <3>3, <3>4 DEF IInv, RowsOK
    <3>6. row.body = call[c].body
      BY <1>0, <1>2 DEF OwnsClaim, WorkFits
    <3>7. RowsOK' /\ WrittenOnce' /\ EffectsAreRecorded'
      BY <1>0, <2>3, <3>2, <3>5
      DEF IInv, RowsOK, WrittenOnce, EffectsAreRecorded, Live, LegacyLive
    <3>8. RowsRefer'
      BY <1>0, <2>1, <3>2, <3>6 DEF IInv, RowsRefer, RefersToWrite
    <3>9. ASSUME NEW d \in Calls PROVE CallOK(d)'
      BY <1>0, <2>1, <3>3, <3>5 DEF IInv, CallOK, Answered, Working
    <3>10. ProviderOK'
      <4>1. ASSUME NEW d \in Calls, Working(d)' PROVE WorkFits(call[d])'
        BY <1>0, <2>3, <3>2, <3>3, <3>5, <4>1 DEF IInv, ProviderOK, WorkFits, Working
      <4> QED BY <1>0, <2>3, <3>2, <4>1 DEF IInv, ProviderOK
    <3> QED BY <3>7, <3>8, <3>9, <3>10 DEF IInv
  <2> QED BY <2>2, <2>3
<1> QED BY <1>1, <1>2

LEMMA ExpiryStep == ASSUME IInv, KeyExpires PROVE IInv'
<1>1. UNCHANGED <<path, row, legacy, call, effects>> /\ life' = life + 1 /\ life \in Nat
  BY DEF KeyExpires, IInv, RowsOK
<1>2. RowsOK' /\ WrittenOnce'
  BY <1>1 DEF IInv, RowsOK, WrittenOnce
<1>3. EffectsAreRecorded'
  BY <1>1 DEF IInv, RowsOK, Effect, EffectsAreRecorded
<1>4. RowsRefer'
  BY <1>1 DEF IInv, RowsOK, Row, RowsRefer, RefersToWrite
<1>5. ProviderOK' /\ \A c \in Calls : CallOK(c)'
  BY <1>1 DEF IInv, ProviderOK, WorkFits, Working, CallOK, Answered
<1> QED BY <1>2, <1>3, <1>4, <1>5 DEF IInv

-----------------------------------------------------------------------------
(* The inductive invariant and what follows from it. *)

LEMMA InitInv == ASSUME None \notin Calls, Init PROVE IInv
<1>1. NoRow \in Row /\ NoRow.status = "none" /\ NoRow.life = 0 /\ NoRow.by = None
  BY DEF NoRow, Row
<1>2. PICK b \in Bodies, s \in {"none", "pending", "completed"} :
        /\ legacy = IF s = "none" \/ path # "principal" THEN NoRow
                    ELSE [NoRow EXCEPT !.status = s, !.body = b]
        /\ effects = IF legacy.status = "completed"
                       THEN {[by |-> None, body |-> b, life |-> 0]} ELSE {}
  BY DEF Init
<1>3. /\ legacy \in Row /\ legacy.life = 0 /\ legacy.by = None
      /\ legacy.status = "completed" => legacy.body = b
      /\ legacy.status # "none" => path = "principal"
  BY <1>1, <1>2 DEF Row, NoRow
<1>4. \A c \in Calls : call[c] = IdleCall /\ IdleCall.phase = "idle" /\ IdleCall.seen = NoRow
  BY DEF Init, IdleCall
<1>5. IdleCall \in Call
  BY <1>1 DEF IdleCall, Call
<1>6. RowsOK
  BY <1>1, <1>2, <1>3, <1>5 DEF Init, RowsOK, Effect
<1>7. row = NoRow /\ life = 0
  BY DEF Init
<1>8. WrittenOnce
  BY <1>2 DEF WrittenOnce
<1>9. EffectsAreRecorded
  BY <1>2, <1>3, <1>7 DEF EffectsAreRecorded, LegacyLive, Live
<1>10. RowsRefer
  <2>1. RefersToWrite(NoRow)
    BY <1>1 DEF RefersToWrite
  <2>2. RefersToWrite(legacy)
    BY <1>2, <1>3 DEF RefersToWrite
  <2>3. \A c \in Calls : RefersToWrite(call[c].seen)
    BY <1>4, <2>1
  <2>4. row.life <= life
    BY <1>1, <1>7
  <2> QED BY <1>3, <1>7, <2>1, <2>2, <2>3, <2>4 DEF RowsRefer
<1>11. ProviderOK
  BY <1>2, <1>3, <1>4 DEF ProviderOK, Working
<1>12. ASSUME NEW c \in Calls PROVE CallOK(c)
  BY <1>2, <1>4 DEF CallOK, Answered, Working
<1> QED BY <1>6, <1>8, <1>9, <1>10, <1>11, <1>12 DEF IInv

LEMMA StepInv == ASSUME None \notin Calls, IInv, [Next]_vars PROVE IInv'
<1>1. ASSUME NEW c \in Calls, Abort(c) PROVE IInv'
  BY <1>1, RefuseStep DEF Abort
<1>2. CASE UNCHANGED vars
  BY <1>2 DEF vars, IInv, RowsOK, WrittenOnce, EffectsAreRecorded, Live, LegacyLive,
     RowsRefer, RefersToWrite, ProviderOK, WorkFits, Working, CallOK, Answered
<1> QED
  BY <1>1, <1>2, BeginStep, UserStep, PrincipalStep, ClaimStep, ProviderStep,
     FinalizeStep, ExpiryStep
  DEF Next

\* The inductive invariant holds in every reachable state.
THEOREM WriteInvariance == Spec => []IInv
<1>1. Init => IInv
  BY InitInv, IdempotentWriteAssumption
<1>2. IInv /\ [Next]_vars => IInv'
  BY StepInv, IdempotentWriteAssumption
<1> QED BY <1>1, <1>2, PTL DEF Spec

\* In one life of the key its operation is executed once, whichever calls, retries,
\* snapshots and releases meet.
THEOREM KeyWritesOnce == Spec => []WrittenOnce
<1>1. IInv => WrittenOnce
  BY DEF IInv
<1> QED BY <1>1, WriteInvariance, PTL

\* Who is answered gets a write of the same request; who is refused has written
\* nothing, unless a provider worked for it.
THEOREM KeyAnswersFit == Spec => []AnswersFit
<1>1. IInv => AnswersFit
  BY DEF IInv, CallOK, AnswersFit
<1> QED BY <1>1, WriteInvariance, PTL

-----------------------------------------------------------------------------
(* Merges: what a person is merged into. *)

Forest == [People -> People \cup {None}]

Closed(f, S) == \A x \in S : f[x] # None => f[x] \in S

LEMMA MergeConstants == None \notin People \cup Names /\ MaxMerges \in Nat /\ Facts \cap Names = {}
BY MergeAssumption DEF Merge!PersonMergeAssumption

LEMMA ReachIs ==
  ASSUME NEW f, NEW x, NEW q
  PROVE  q \in Merge!Reach(f, x) <=>
           q \in People /\ \A S \in SUBSET People : x \in S /\ Closed(f, S) => q \in S
BY DEF Merge!Reach, Closed

LEMMA ReachFacts ==
  ASSUME NEW f \in Forest, NEW x \in People
  PROVE  /\ x \in Merge!Reach(f, x) /\ Merge!Reach(f, x) \subseteq People
         /\ Closed(f, Merge!Reach(f, x))
<1>1. x \in Merge!Reach(f, x)
  BY ReachIs
<1>2. Merge!Reach(f, x) \subseteq People
  BY DEF Merge!Reach
<1>3. ASSUME NEW y \in Merge!Reach(f, x), f[y] # None PROVE f[y] \in Merge!Reach(f, x)
  <2>1. y \in People /\ f[y] \in People
    BY <1>2, <1>3 DEF Forest
  <2>2. ASSUME NEW S \in SUBSET People, x \in S, Closed(f, S) PROVE f[y] \in S
    <3>1. y \in S
      BY <2>2, ReachIs
    <3> QED BY <1>3, <2>2, <3>1 DEF Closed
  <2> QED BY <2>1, <2>2, ReachIs
<1> QED BY <1>1, <1>2, <1>3 DEF Closed

LEMMA ReachLeast ==
  ASSUME NEW f, NEW x, NEW S \in SUBSET People, x \in S, Closed(f, S)
  PROVE  Merge!Reach(f, x) \subseteq S
BY ReachIs

LEMMA ReachTrans ==
  ASSUME NEW f \in Forest, NEW x \in People, NEW y \in Merge!Reach(f, x)
  PROVE  Merge!Reach(f, y) \subseteq Merge!Reach(f, x)
BY ReachFacts, ReachLeast

\* One step along a forest.
LEMMA ReachStep ==
  ASSUME NEW f \in Forest, NEW x \in People, NEW y \in Merge!Reach(f, x), y # x
  PROVE  f[x] # None /\ y \in Merge!Reach(f, f[x])
<1>1. CASE f[x] = None
  <2>1. Closed(f, {x})
    BY <1>1 DEF Closed
  <2> QED BY <2>1, ReachLeast
<1>2. CASE f[x] # None
  <2>1. f[x] \in People
    BY <1>2 DEF Forest
  <2>2. PICK S : S = {x} \cup Merge!Reach(f, f[x])
    OBVIOUS
  <2>3. S \in SUBSET People /\ x \in S /\ Closed(f, S)
    BY <2>1, <2>2, ReachFacts DEF Closed
  <2> QED BY <1>2, <2>2, <2>3, ReachLeast
<1> QED BY <1>1, <1>2

\* Only one of those a person leads to stands for itself.
LEMMA ReachEnds ==
  ASSUME NEW f \in Forest, NEW x \in People,
         NEW a \in Merge!Reach(f, x), NEW b \in Merge!Reach(f, x), f[a] = None, f[b] = None
  PROVE  a = b
<1>1. PICK S : S = {y \in Merge!Reach(f, x) : a \in Merge!Reach(f, y)}
  OBVIOUS
<1>2. S \in SUBSET People /\ x \in S
  BY <1>1, ReachFacts
<1>3. ASSUME NEW y \in S, f[y] # None PROVE f[y] \in S
  <2>1. y \in People /\ a \in Merge!Reach(f, y) /\ y # a
    BY <1>1, <1>2, <1>3
  <2>2. a \in Merge!Reach(f, f[y])
    BY <2>1, ReachStep
  <2>3. f[y] \in Merge!Reach(f, x)
    BY <1>1, <1>3, ReachFacts DEF Closed
  <2> QED BY <1>1, <2>2, <2>3
<1>4. b \in S
  BY <1>2, <1>3, ReachLeast DEF Closed
<1>5. b \in People /\ a \in Merge!Reach(f, b)
  BY <1>1, <1>2, <1>4
<1> QED BY <1>5, ReachStep

LEMMA ReachGrows ==
  ASSUME NEW f \in Forest, NEW g \in Forest, \A y \in People : f[y] # None => g[y] = f[y],
         NEW x \in People
  PROVE  Merge!Reach(f, x) \subseteq Merge!Reach(g, x)
<1>1. Closed(f, Merge!Reach(g, x))
  BY ReachFacts DEF Closed
<1> QED BY <1>1, ReachFacts, ReachLeast

\* What one more merge adds.
LEMMA ReachExtends ==
  ASSUME NEW f \in Forest, NEW g \in Forest, NEW l \in People, NEW w \in People, l # w,
         f[l] = None, f[w] = None, g[l] = w, \A y \in People \ {l} : g[y] = f[y],
         NEW x \in People
  PROVE  /\ l \in Merge!Reach(f, x) => Merge!Reach(g, x) = Merge!Reach(f, x) \cup {w}
         /\ l \notin Merge!Reach(f, x) => Merge!Reach(g, x) = Merge!Reach(f, x)
<1>1. Merge!Reach(f, x) \subseteq Merge!Reach(g, x)
  BY MergeConstants, ReachGrows
<1>2. CASE l \in Merge!Reach(f, x)
  <2>1. w \in Merge!Reach(g, x)
    BY <1>1, <1>2, MergeConstants, ReachFacts DEF Closed
  <2>2. PICK S : S = Merge!Reach(f, x) \cup {w}
    OBVIOUS
  <2>3. S \in SUBSET People /\ x \in S
    BY <2>2, ReachFacts
  <2>4. Closed(g, S)
    BY <2>2, <2>3, ReachFacts DEF Closed
  <2> QED BY <1>1, <1>2, <2>1, <2>2, <2>3, <2>4, ReachLeast
<1>3. CASE l \notin Merge!Reach(f, x)
  <2>1. Closed(g, Merge!Reach(f, x)) /\ x \in Merge!Reach(f, x)
        /\ Merge!Reach(f, x) \in SUBSET People
    BY <1>3, ReachFacts DEF Closed
  <2> QED BY <1>1, <1>3, <2>1, ReachLeast
<1> QED BY <1>2, <1>3

-----------------------------------------------------------------------------
(* Merges: what stands, and what stood before a merge. *)

\* The parts of RecordsFollow.
RecordsFollowed ==
  \A r \in Merge!Records \ crossed :
    owner[r] # None => owner[r] \in Merge!Reach(Merge!Into, home[r])

EdgesFollowed ==
  \A e \in Edges \ crossed : edge[e] # Merge!NoEnds =>
    /\ Merge!StandsFor(Merge!Into, edge[e].source, ends[e].source)
    /\ Merge!StandsFor(Merge!Into, edge[e].target, ends[e].target)

LEMMA FollowParts == Merge!RecordsFollow <=> RecordsFollowed /\ EdgesFollowed
<1>1. \A p, q : q \in Merge!Survivor(p) <=> Merge!StandsFor(Merge!Into, q, p)
  BY DEF Merge!Survivor, Merge!Successors, Merge!StandsFor, Merge!Merged, Merge!Into,
         Merge!Reach
<1> QED BY <1>1 DEF Merge!RecordsFollow, Merge!RecordFollows, Merge!EdgeFollows,
                  RecordsFollowed, EdgesFollowed, Merge!Successors

LEMMA MergeForests ==
  ASSUME Merge!IInv
  PROVE  /\ Merge!Into \in Forest /\ \A k : Merge!Before(k) \in Forest
         /\ \A p \in People : Merge!Into[p] = person[p].into
         /\ \A k : \A p \in People :
              Merge!Before(k)[p] = IF decision[p].id \in 1..(k - 1) THEN person[p].into
                                   ELSE None
         /\ merges \in Nat
<1>1. \A p \in People : person[p].into \in People \cup {None}
  BY DEF Merge!IInv, Merge!TypeOK
<1>2. merges \in Nat
  BY MergeConstants DEF Merge!IInv, Merge!TypeOK
<1> QED BY <1>1, <1>2 DEF Merge!Into, Merge!Before, Forest

\* The people that are merged, and their decisions.
LEMMA MergeDecisions ==
  ASSUME Merge!IInv, NEW p \in People
  PROVE  /\ Merge!Merged(p) =>
              /\ decision[p] \in Merge!Decisions /\ decision[p].id \in 1..merges
              /\ person[p].into \in People \ {p}
              /\ Merge!Before(decision[p].id)[person[p].into] = None
              /\ Merge!Before(decision[p].id)[p] = None
              /\ \A q \in People : decision[q].id = decision[p].id => q = p
         /\ ~Merge!Merged(p) => /\ decision[p] = Merge!NoDecision /\ decision[p].id = 0
                                /\ person[p].into = None
                                /\ \A k : Merge!Before(k)[p] = None
<1>1. decision[p] \in (IF Merge!Merged(p) THEN Merge!Decisions ELSE {Merge!NoDecision})
      /\ person[p].into \in People \cup {None}
  BY DEF Merge!IInv, Merge!TypeOK
<1>2. CASE Merge!Merged(p)
  <2>1. decision[p] \in Merge!Decisions /\ decision[p].id \in 1..MaxMerges
    BY <1>1, <1>2 DEF Merge!Decisions
  <2>2. decision[p].id <= merges /\ merges \in Nat
    BY <1>2, MergeForests DEF Merge!IInv, Merge!MergesOK
  <2>3. person[p].into \in People
    BY <1>1, <1>2 DEF Merge!Merged
  <2>4. /\ person[p].into # p /\ Merge!Before(decision[p].id)[person[p].into] = None
        /\ \A q \in People : decision[q].id = decision[p].id => q = p
    BY <1>2 DEF Merge!IInv, Merge!MergesOK
  <2>5. decision[p].id \notin 1..(decision[p].id - 1)
    BY <2>1, MergeConstants
  <2>6. Merge!Before(decision[p].id)[p] = None
    BY <2>5, MergeForests
  <2>7. decision[p].id \in 1..merges
    BY <2>1, <2>2, MergeConstants
  <2> QED BY <1>2, <2>1, <2>3, <2>4, <2>6, <2>7
<1>3. CASE ~Merge!Merged(p)
  <2>1. decision[p] = Merge!NoDecision /\ decision[p].id = 0 /\ person[p].into = None
    BY <1>1, <1>3 DEF Merge!Merged, Merge!NoDecision
  <2>2. \A k : Merge!Before(k)[p] = None
    BY <2>1, MergeForests
  <2> QED BY <1>3, <2>1, <2>2
<1> QED BY <1>2, <1>3

\* Everything that stands was merged before the next merge.
LEMMA BeforeNext == ASSUME Merge!IInv PROVE Merge!Before(merges + 1) = Merge!Into
<1>1. ASSUME NEW p \in People PROVE Merge!Before(merges + 1)[p] = Merge!Into[p]
  BY MergeForests, MergeDecisions
<1> QED BY <1>1 DEF Merge!Before, Merge!Into

LEMMA BeforeGrows ==
  ASSUME Merge!IInv, NEW j \in Nat, NEW k \in Nat, j <= k, NEW x \in People
  PROVE  /\ Merge!Reach(Merge!Before(j), x) \subseteq Merge!Reach(Merge!Before(k), x)
         /\ \A p \in People : Merge!Before(k)[p] = None => Merge!Before(j)[p] = None
<1>1. \A p \in People : Merge!Before(j)[p] # None => Merge!Before(k)[p] = Merge!Before(j)[p]
  BY MergeForests
<1> QED BY <1>1, MergeForests, ReachGrows

\* A step that merges nobody and undoes nothing.
CalmStep ==
  /\ UNCHANGED <<decision, merges, crossed>>
  /\ \A p \in People : person'[p].into = person[p].into

LEMMA MergesCalm ==
  ASSUME Merge!IInv, CalmStep
  PROVE  /\ Merge!Into' = Merge!Into
         /\ \A k : Merge!Before(k)' = Merge!Before(k)
         /\ \A p \in People : Merge!Merged(p)' <=> Merge!Merged(p)
         /\ Merge!MergesOK'
<1>1. Merge!Into' = Merge!Into
  BY DEF CalmStep, Merge!Into
<1>2. \A k : Merge!Before(k)' = Merge!Before(k)
  BY DEF CalmStep, Merge!Before
<1>3. \A p \in People : Merge!Merged(p)' <=> Merge!Merged(p)
  BY DEF CalmStep, Merge!Merged
<1>4. Merge!MergesOK'
  BY <1>2, <1>3 DEF CalmStep, Merge!IInv, Merge!MergesOK
<1> QED BY <1>1, <1>2, <1>3, <1>4

LEMMA RecordsCalm ==
  ASSUME Merge!IInv, CalmStep, UNCHANGED <<owner, home>>
  PROVE  Merge!RecordsOK' /\ RecordsFollowed'
<1>1. Merge!RecordsOK'
  BY MergesCalm DEF CalmStep, Merge!IInv, Merge!RecordsOK
<1>2. RecordsFollowed'
  BY MergesCalm, FollowParts DEF CalmStep, Merge!IInv, RecordsFollowed
<1> QED BY <1>1, <1>2

LEMMA EdgesCalm ==
  ASSUME Merge!IInv, CalmStep, UNCHANGED <<edge, ends>>
  PROVE  Merge!EdgesOK' /\ EdgesFollowed'
<1>1. Merge!EdgesOK'
  BY MergesCalm DEF CalmStep, Merge!IInv, Merge!EdgesOK
<1>2. EdgesFollowed'
  BY MergesCalm, FollowParts DEF CalmStep, Merge!IInv, EdgesFollowed
<1> QED BY <1>1, <1>2

LEMMA MarkedCalm ==
  ASSUME UNCHANGED decision
  PROVE  \A c, x, k : Merge!Marked(c, x, k)' <=> Merge!Marked(c, x, k)
BY DEF Merge!Marked

LEMMA CandidatesCalm ==
  ASSUME Merge!IInv, CalmStep, UNCHANGED candidate
  PROVE  Merge!CandidatesOK'
BY MergesCalm DEF CalmStep, Merge!IInv, Merge!CandidatesOK, Merge!Marked

LEMMA ReadsCalm ==
  ASSUME Merge!IInv, CalmStep, UNCHANGED merging
  PROVE  Merge!ReadsOK'
BY DEF CalmStep, Merge!IInv, Merge!ReadsOK, Merge!Marked, Merge!Merged, Merge!Seen

MergeParts ==
  /\ Merge!TypeOK /\ Merge!MergesOK /\ Merge!ReadsOK /\ Merge!CandidatesOK
  /\ Merge!RecordsOK /\ RecordsFollowed /\ Merge!EdgesOK /\ EdgesFollowed

LEMMA MergeAssembled == MergeParts' => Merge!IInv'
<1> SUFFICES ASSUME MergeParts' PROVE Merge!IInv'
  OBVIOUS
<1>1. \A p, q : (q \in Merge!Survivor(p))' <=> Merge!StandsFor(Merge!Into, q, p)'
  BY DEF Merge!Survivor, Merge!Successors, Merge!StandsFor, Merge!Merged, Merge!Into,
         Merge!Reach
<1>2. Merge!RecordsFollow'
  BY <1>1
  DEF MergeParts, Merge!RecordsFollow, Merge!RecordFollows, Merge!EdgeFollows,
      RecordsFollowed, EdgesFollowed, Merge!Successors
<1> QED BY <1>2 DEF MergeParts, Merge!IInv

-----------------------------------------------------------------------------
(* Merges: the steps between them. *)

LEMMA CreateRecordStep ==
  ASSUME Merge!IInv, NEW p \in People, NEW r \in Merge!Records, Merge!CreateRecord(r, p)
  PROVE  Merge!IInv'
<1>1. CalmStep /\ UNCHANGED <<edge, ends, candidate, merging, selected, person>>
  BY DEF CalmStep, Merge!CreateRecord
<1>2. Merge!TypeOK'
  BY <1>1 DEF Merge!CreateRecord, Merge!IInv, Merge!TypeOK, CalmStep, Merge!Merged
<1>3. /\ owner[r] = None /\ owner'[r] = p /\ home'[r] = p /\ p # None
      /\ \A s \in Merge!Records \ {r} : owner'[s] = owner[s] /\ home'[s] = home[s]
  BY MergeConstants DEF Merge!CreateRecord, Merge!IInv, Merge!TypeOK
<1>4. \A k : p \in Merge!Reach(Merge!Before(k), p)
  BY MergeForests, ReachFacts
<1>5. Merge!RecordsOK'
  <2>1. \A s \in Merge!Records \ crossed : owner'[s] # None => home'[s] # None
    BY <1>3 DEF Merge!IInv, Merge!RecordsOK
  <2>2. ASSUME NEW q \in People, NEW s \in Merge!Records \ crossed, Merge!Merged(q)
        PROVE  IF s \in Merge!Returned(decision[q])
                 THEN /\ owner'[s] # None
                      /\ q \in Merge!Reach(Merge!Before(decision[q].id), home'[s])
                      /\ owner'[s] \notin Merge!Reach(Merge!Before(decision[q].id), home'[s])
                 ELSE owner'[s] # None /\ q \in Merge!Reach(Merge!Before(decision[q].id), home'[s]) =>
                        owner'[s] \in Merge!Reach(Merge!Before(decision[q].id), home'[s])
    BY <1>3, <1>4, <2>2 DEF Merge!IInv, Merge!RecordsOK
  <2>3. Merge!Returned(decision)' = Merge!Returned(decision)
    BY <1>1 DEF CalmStep, Merge!Returned
  <2> QED BY <1>1, <2>1, <2>2, <2>3, MergesCalm DEF CalmStep, Merge!RecordsOK, Merge!Returned
<1>6. RecordsFollowed'
  <2>1. p \in Merge!Reach(Merge!Into, p)
    BY MergeForests, ReachFacts
  <2> QED BY <1>1, <1>3, <2>1, MergesCalm, FollowParts
      DEF CalmStep, Merge!IInv, RecordsFollowed
<1> QED
  BY <1>1, <1>2, <1>5, <1>6, MergesCalm, EdgesCalm, CandidatesCalm, ReadsCalm,
     MergeAssembled DEF MergeParts

LEMMA SelectStep ==
  ASSUME Merge!IInv,
         \/ \E f \in Facts : Merge!SelectField(f)
         \/ \E p \in People, n \in Names \cup {None} : Merge!SelectPresentation(p, n)
  PROVE  Merge!IInv'
<1>1. /\ CalmStep /\ UNCHANGED <<owner, home, edge, ends, candidate, merging>>
      /\ selected' \subseteq Facts
      /\ person' \in [People -> [into : People \cup {None}, name : Names \cup {None}]]
  <2> DEFINE G == /\ CalmStep /\ UNCHANGED <<owner, home, edge, ends, candidate, merging>>
                  /\ selected' \subseteq Facts
                  /\ person' \in [People -> [into : People \cup {None}, name : Names \cup {None}]]
  <2>1. ASSUME NEW f \in Facts, Merge!SelectField(f) PROVE G
    BY <2>1 DEF Merge!SelectField, CalmStep, Merge!IInv, Merge!TypeOK
  <2>2. ASSUME NEW p \in People, NEW n \in Names \cup {None}, Merge!SelectPresentation(p, n)
        PROVE  G
    BY <2>2 DEF Merge!SelectPresentation, Merge!records, CalmStep, Merge!IInv, Merge!TypeOK
  <2> QED BY <2>1, <2>2
<1>2. Merge!TypeOK'
  BY <1>1, MergesCalm DEF CalmStep, Merge!IInv, Merge!TypeOK
<1> QED
  BY <1>1, <1>2, MergesCalm, RecordsCalm, EdgesCalm, CandidatesCalm, ReadsCalm,
     MergeAssembled DEF MergeParts

LEMMA CreateEdgeStep ==
  ASSUME Merge!IInv, NEW e \in Edges, NEW x \in Merge!Ends, Merge!CreateEdge(e, x)
  PROVE  Merge!IInv'
<1>1. CalmStep /\ UNCHANGED <<owner, home, candidate, merging, selected, person>>
  BY DEF CalmStep, Merge!CreateEdge
<1>2. /\ edge[e] = Merge!NoEnds /\ edge'[e] = x /\ ends'[e] = x /\ x # Merge!NoEnds
      /\ \A d \in Edges \ {e} : edge'[d] = edge[d] /\ ends'[d] = ends[d]
      /\ x.source \in People /\ x.target \in People
      /\ ~Merge!Merged(x.source) /\ ~Merge!Merged(x.target)
  BY MergeConstants
  DEF Merge!CreateEdge, Merge!IInv, Merge!TypeOK, Merge!Ends, Merge!NoEnds
<1>3. Merge!TypeOK'
  BY <1>1 DEF Merge!CreateEdge, Merge!IInv, Merge!TypeOK, CalmStep, Merge!Merged
\* Who is not merged leads to nobody else.
<1>4. ASSUME NEW p \in {x.source, x.target}, NEW f \in Forest, f[p] = None
      PROVE  Merge!StandsFor(f, p, p) /\ Merge!Reach(f, p) = {p}
  BY <1>2, <1>4, ReachFacts, ReachStep DEF Merge!StandsFor
<1>5. \A p \in {x.source, x.target} :
        Merge!Into[p] = None /\ \A k : Merge!Before(k)[p] = None
  BY <1>2, MergeDecisions, MergeForests
<1>6. Merge!EdgesOK'
  <2>1. \A d \in Edges \ crossed : edge'[d] # Merge!NoEnds => ends'[d] # Merge!NoEnds
    BY <1>2 DEF Merge!IInv, Merge!EdgesOK
  <2>2. ASSUME NEW q \in People, Merge!Merged(q), e \notin crossed
        PROVE  /\ e \notin DOMAIN decision[q].edges
               /\ q \notin Merge!Reach(Merge!Before(decision[q].id), x.source)
               /\ q \notin Merge!Reach(Merge!Before(decision[q].id), x.target)
    <3>1. e \notin DOMAIN decision[q].edges
      BY <1>2, <2>2 DEF Merge!IInv, Merge!EdgesOK
    <3>2. q # x.source /\ q # x.target
      BY <1>2, <2>2
    <3>3. \A p \in {x.source, x.target} : Merge!Reach(Merge!Before(decision[q].id), p) = {p}
      BY <1>4, <1>5, MergeForests
    <3> QED BY <3>1, <3>2, <3>3
  <2>3. ASSUME NEW q \in People, NEW d \in Edges \ crossed, Merge!Merged(q)
        PROVE  IF d \in DOMAIN decision[q].edges
                 THEN /\ edge'[d] # Merge!NoEnds
                      /\ Merge!StandsFor(Merge!Before(decision[q].id),
                                         decision[q].edges[d].source, ends'[d].source)
                      /\ Merge!StandsFor(Merge!Before(decision[q].id),
                                         decision[q].edges[d].target, ends'[d].target)
                 ELSE edge'[d] # Merge!NoEnds =>
                      /\ q \notin Merge!Reach(Merge!Before(decision[q].id), ends'[d].source)
                      /\ q \notin Merge!Reach(Merge!Before(decision[q].id), ends'[d].target)
    <3>1. CASE d = e
      BY <1>2, <2>2, <2>3, <3>1
    <3>2. CASE d # e
      BY <1>2, <2>3, <3>2 DEF Merge!IInv, Merge!EdgesOK
    <3> QED BY <3>1, <3>2
  <2>4. Merge!NoEnds' = Merge!NoEnds
    BY DEF Merge!NoEnds
  <2> QED BY <1>1, <2>1, <2>3, <2>4, MergesCalm DEF CalmStep, Merge!EdgesOK
<1>7. EdgesFollowed'
  <2>1. Merge!StandsFor(Merge!Into, x.source, x.source)
        /\ Merge!StandsFor(Merge!Into, x.target, x.target)
    BY <1>4, <1>5, MergeForests
  <2>2. ASSUME NEW d \in Edges \ crossed, edge'[d] # Merge!NoEnds
        PROVE  /\ Merge!StandsFor(Merge!Into, edge'[d].source, ends'[d].source)
               /\ Merge!StandsFor(Merge!Into, edge'[d].target, ends'[d].target)
    BY <1>2, <2>1, <2>2, FollowParts DEF Merge!IInv, EdgesFollowed
  <2> QED BY <1>1, <2>2, MergesCalm DEF CalmStep, EdgesFollowed
<1> QED
  BY <1>1, <1>3, <1>6, <1>7, MergesCalm, RecordsCalm, CandidatesCalm, ReadsCalm,
     MergeAssembled DEF MergeParts

\* Candidates come and are reviewed: neither leaves the marker of a merge.
LEMMA CandidateStep ==
  ASSUME Merge!IInv, NEW c \in Pairs,
         \/ Merge!GenerateCandidate(c)
         \/ \E s \in {"pending", "rejected", "cancelled"} : Merge!ReviewCandidate(c, s)
  PROVE  Merge!IInv'
<1>1. CalmStep /\ UNCHANGED <<owner, home, edge, ends, merging, selected, person>>
  BY DEF CalmStep, Merge!GenerateCandidate, Merge!ReviewCandidate, Merge!records
<1>2. candidate \in [Pairs -> Merge!Candidate] /\ 0 \in 0..MaxMerges
  BY MergeConstants DEF Merge!IInv, Merge!TypeOK
<1>3. PICK x \in Merge!Candidate :
        /\ candidate' = [candidate EXCEPT ![c] = x]
        /\ x.by # 0 => candidate[c].by = x.by /\ candidate[c].state = "absent"
  <2>1. CASE Merge!GenerateCandidate(c)
    <3>1. [candidate[c] EXCEPT !.state = "pending"] \in Merge!Candidate
          /\ [candidate[c] EXCEPT !.state = "pending"].by = candidate[c].by
      BY <1>2 DEF Merge!Candidate
    <3>2. candidate' = [candidate EXCEPT ![c] = [candidate[c] EXCEPT !.state = "pending"]]
          /\ candidate[c].state = "absent"
      BY <2>1 DEF Merge!GenerateCandidate
    <3> QED BY <3>1, <3>2
  <2>2. CASE \E s \in {"pending", "rejected", "cancelled"} : Merge!ReviewCandidate(c, s)
    <3>1. PICK s \in {"pending", "rejected", "cancelled"} : Merge!ReviewCandidate(c, s)
      BY <2>2
    <3>2. [state |-> s, by |-> 0] \in Merge!Candidate
      BY <1>2 DEF Merge!Candidate
    <3> QED BY <3>1, <3>2 DEF Merge!ReviewCandidate
  <2> QED BY <2>1, <2>2
<1>4. Merge!TypeOK'
  <2>1. candidate' \in [Pairs -> Merge!Candidate]
    BY <1>2, <1>3
  <2> QED BY <1>1, <2>1, MergesCalm DEF CalmStep, Merge!IInv, Merge!TypeOK
<1>5. Merge!CandidatesOK'
  <2>1. \A b \in Pairs \ crossed : Merge!Marked(b, candidate[b], merges + 1)
    BY DEF Merge!IInv, Merge!CandidatesOK
  <2>2. c \notin crossed => Merge!Marked(c, x, merges + 1)
    BY <1>3, <2>1 DEF Merge!Marked
  <2>3. \A b \in Pairs \ crossed : Merge!Marked(b, candidate'[b], merges + 1)
    BY <1>2, <1>3, <2>1, <2>2
  <2>4. \A b, y, k : Merge!Marked(b, y, k)' <=> Merge!Marked(b, y, k)
    BY <1>1, MarkedCalm DEF CalmStep
  <2>5. \A p \in People : Merge!Merged(p) =>
          \A b \in DOMAIN decision[p].seen :
            p \in b /\ (b \notin crossed => Merge!Marked(b, decision[p].seen[b], decision[p].id))
    BY DEF Merge!IInv, Merge!CandidatesOK
  <2>6. (\A b \in Pairs \ crossed : Merge!Marked(b, candidate[b], merges + 1))'
    BY <1>1, <2>3, <2>4 DEF CalmStep
  <2> QED BY <1>1, <2>4, <2>5, <2>6, MergesCalm DEF CalmStep, Merge!CandidatesOK
<1> QED
  BY <1>1, <1>4, <1>5, MergesCalm, RecordsCalm, EdgesCalm, ReadsCalm, MergeAssembled
  DEF MergeParts

\* A merge reads the candidates of its loser, or gives up.
LEMMA ReadsStep ==
  ASSUME Merge!IInv,
         Merge!MergeFails \/ \E w \in People, l \in People : Merge!MergeReads(w, l)
  PROVE  Merge!IInv'
<1>1. /\ CalmStep
      /\ UNCHANGED <<owner, home, edge, ends, candidate, selected, person>>
  BY DEF CalmStep, Merge!MergeFails, Merge!MergeReads, Merge!records
<1>2. Merge!TypeOK'
  BY <1>1, MergesCalm DEF CalmStep, Merge!IInv, Merge!TypeOK
<1>3. Merge!ReadsOK'
  <2>1. CASE Merge!MergeFails
    BY <2>1 DEF Merge!MergeFails, Merge!ReadsOK
  <2>2. ASSUME NEW w \in People, NEW l \in People, Merge!MergeReads(w, l)
        PROVE  Merge!ReadsOK'
    <3>1. PICK seen : seen = [c \in Merge!CandidatesOf(l) |-> candidate[c]]
      OBVIOUS
    <3>2. Merge!CandidatesOf(l) \in SUBSET Pairs
          /\ \A c \in Merge!CandidatesOf(l) : l \in c
      BY DEF Merge!CandidatesOf
    <3>3. seen \in Merge!Seen
      <4>1. seen \in [Merge!CandidatesOf(l) -> Merge!Candidate]
        BY <3>1, <3>2 DEF Merge!IInv, Merge!TypeOK
      <4> QED BY <3>2, <4>1 DEF Merge!Seen
    <3>4. \A c \in DOMAIN seen :
            l \in c /\ (c \notin crossed => Merge!Marked(c, seen[c], merges + 1))
      BY <3>1, <3>2 DEF Merge!IInv, Merge!CandidatesOK
    <3>5. merging' = [winner |-> w, loser |-> l, seen |-> seen] /\ w # l
          /\ ~Merge!Merged(w) /\ ~Merge!Merged(l) /\ merges < MaxMerges
      BY <2>2, <3>1 DEF Merge!MergeReads
    <3>6. /\ merging' \in [winner : People, loser : People, seen : Merge!Seen]
          /\ merging'.winner = w /\ merging'.loser = l /\ merging'.seen = seen
      BY <3>3, <3>5
    <3>7. \A b, y, k : Merge!Marked(b, y, k)' <=> Merge!Marked(b, y, k)
      BY <1>1, MarkedCalm DEF CalmStep
    <3>8. \A c \in DOMAIN seen : c \notin crossed' => Merge!Marked(c, seen[c], merges + 1)'
      BY <1>1, <3>4, <3>7 DEF CalmStep
    <3>9. (\A c \in DOMAIN merging.seen :
             merging.loser \in c
               /\ (c \notin crossed => Merge!Marked(c, merging.seen[c], merges + 1)))'
      BY <3>4, <3>6, <3>8 DEF Merge!Marked
    <3>10. Merge!Seen' = Merge!Seen
      BY DEF Merge!Seen, Merge!Candidate
    <3>11. ~Merge!Merged(w)' /\ ~Merge!Merged(l)'
      BY <3>5, MergesCalm, <1>1
    <3>12. (merging.winner # merging.loser /\ ~Merge!Merged(merging.winner)
             /\ ~Merge!Merged(merging.loser))'
      BY <3>5, <3>6, <3>11 DEF Merge!Merged
    <3> QED
      BY <1>1, <3>5, <3>6, <3>9, <3>10, <3>12 DEF CalmStep, Merge!ReadsOK
  <2> QED BY <2>1, <2>2
<1> QED
  BY <1>1, <1>2, <1>3, MergesCalm, RecordsCalm, EdgesCalm, CandidatesCalm, MergeAssembled
  DEF MergeParts

-----------------------------------------------------------------------------
(* Merges: a merge writes. *)

\* What a merge in progress has to do with the invariant.
LEMMA MergeInProgress ==
  ASSUME Merge!IInv, merging # None
  PROVE  /\ merging.loser \in People /\ merging.winner \in People /\ merging.seen \in Merge!Seen
         /\ merging.winner # merging.loser /\ merges < MaxMerges
         /\ ~Merge!Merged(merging.loser) /\ ~Merge!Merged(merging.winner)
         /\ \A c \in DOMAIN merging.seen :
              merging.loser \in c
                /\ (c \notin crossed => Merge!Marked(c, merging.seen[c], merges + 1))
         /\ DOMAIN merging.seen \subseteq Pairs
BY DEF Merge!IInv, Merge!ReadsOK, Merge!Seen

\* The decision of a merge has its type.
LEMMA DecisionTyped ==
  ASSUME Merge!IInv, merging # None,
         NEW id, id = merges + 1,
         NEW names, names = {n \in Names : owner[n] = merging.loser}
  PROVE  [id |-> id, name |-> person[merging.loser].name,
          facts |-> Merge!Movable(merging.loser), names |-> names,
          edges |-> [e \in Merge!EdgesOf(merging.loser) |-> edge[e]],
          seen |-> merging.seen] \in Merge!Decisions
<1>1. merging.loser \in People /\ merging.seen \in Merge!Seen /\ id \in 1..MaxMerges
  BY MergeInProgress, MergeForests, MergeConstants
<1>2. person[merging.loser].name \in Names \cup {None}
  BY <1>1 DEF Merge!IInv, Merge!TypeOK
<1>3. Merge!Movable(merging.loser) \in SUBSET Facts /\ names \in SUBSET Names
  BY DEF Merge!Movable
<1>4. Merge!EdgesOf(merging.loser) \in SUBSET Edges
      /\ \A e \in Merge!EdgesOf(merging.loser) : edge[e] \in Merge!Ends
  BY <1>1, MergeConstants DEF Merge!EdgesOf, Merge!NoEnds, Merge!IInv, Merge!TypeOK
<1>5. [e \in Merge!EdgesOf(merging.loser) |-> edge[e]] \in
        UNION {[S -> Merge!Ends] : S \in SUBSET Edges}
  <2>1. [e \in Merge!EdgesOf(merging.loser) |-> edge[e]] \in
          [Merge!EdgesOf(merging.loser) -> Merge!Ends]
    BY <1>4
  <2> QED BY <1>4, <2>1
<1> QED BY <1>1, <1>2, <1>3, <1>5 DEF Merge!Decisions, Merge!Seen

\* A marker outlives a merge of others.
LEMMA MarkedStays ==
  ASSUME Merge!IInv, NEW l \in People, ~Merge!Merged(l),
         \A p \in People \ {l} : decision'[p] = decision[p],
         NEW c \in Pairs, NEW x, x.by \in Nat, NEW k \in Nat, NEW j \in Nat, j <= k,
         Merge!Marked(c, x, j)
  PROVE  Merge!Marked(c, x, k)'
<1>1. c \subseteq People
  BY MergeAssumption DEF Merge!PersonMergeAssumption
<1>2. SUFFICES ASSUME x.by # 0
               PROVE  /\ x.state = "cancelled" /\ x.by < k
                      /\ \E p \in c : decision'[p].id = x.by /\ c \in DOMAIN decision'[p].seen
  BY DEF Merge!Marked
<1>3. PICK p \in c : decision[p].id = x.by /\ c \in DOMAIN decision[p].seen
  BY <1>2 DEF Merge!Marked
<1>4. p \in People /\ p # l
  BY <1>1, <1>2, <1>3, MergeDecisions
<1>5. x.state = "cancelled" /\ x.by < k
  BY <1>2 DEF Merge!Marked
<1> QED BY <1>3, <1>4, <1>5

LEMMA MergeWritesStep ==
  ASSUME Merge!IInv, Merge!MergeWrites
  PROVE  Merge!IInv'
<1>0. PICK l, w, id, names, d :
        /\ l = merging.loser /\ w = merging.winner /\ id = merges + 1
        /\ names = {n \in Names : owner[n] = l}
        /\ d = [id |-> id, name |-> person[l].name, facts |-> Merge!Movable(l),
                names |-> names, edges |-> [e \in Merge!EdgesOf(l) |-> edge[e]],
                seen |-> merging.seen]
  OBVIOUS
<1>1. /\ merging # None
      /\ l \in People /\ w \in People /\ l # w /\ id \in Nat /\ id \in 1..MaxMerges
      /\ ~Merge!Merged(l) /\ ~Merge!Merged(w)
      /\ merges \in Nat /\ merges < id
      /\ \A c \in DOMAIN merging.seen :
           l \in c /\ (c \notin crossed => Merge!Marked(c, merging.seen[c], id))
      /\ DOMAIN merging.seen \subseteq Pairs /\ merging.seen \in Merge!Seen
  BY <1>0, MergeInProgress, MergeForests, MergeConstants DEF Merge!MergeWrites
<1>2. d \in Merge!Decisions /\ d.id = id /\ d.seen = merging.seen
      /\ d.edges = [e \in Merge!EdgesOf(l) |-> edge[e]]
      /\ Merge!Returned(d) = Merge!Movable(l) \cup names
  BY <1>0, <1>1, DecisionTyped DEF Merge!Returned
<1>3. /\ person' = [person EXCEPT ![l] = [into |-> w, name |-> None]]
      /\ owner' = [r \in Merge!Records |-> IF r \in Merge!Returned(d) THEN w ELSE owner[r]]
      /\ edge' = [e \in Edges |-> IF e \in Merge!EdgesOf(l)
                                    THEN Merge!Redirected(edge[e], l, w) ELSE edge[e]]
      /\ candidate' = [c \in Pairs |-> IF c \in DOMAIN merging.seen
                                         THEN [state |-> "cancelled", by |-> id]
                                         ELSE candidate[c]]
      /\ decision' = [decision EXCEPT ![l] = d]
      /\ merges' = id /\ merging' = None /\ UNCHANGED <<selected, home, ends, crossed>>
  BY <1>0, <1>2 DEF Merge!MergeWrites
<1>4. /\ \A p \in People \ {l} : person'[p] = person[p] /\ decision'[p] = decision[p]
      /\ person'[l].into = w /\ decision'[l] = d /\ None \notin People
      /\ \A p \in People \ {l} : Merge!Merged(p)' <=> Merge!Merged(p)
      /\ Merge!Merged(l)'
  <2>1. person \in [People -> [into : People \cup {None}, name : Names \cup {None}]]
        /\ decision \in [People -> Merge!Decisions \cup {Merge!NoDecision}]
    BY DEF Merge!IInv, Merge!TypeOK, Merge!MergesOK
  <2> QED BY <1>1, <1>3, <2>1, MergeConstants DEF Merge!Merged
<1>5. /\ Merge!Into \in Forest /\ Merge!Into' \in Forest
      /\ Merge!Into[l] = None /\ Merge!Into[w] = None /\ Merge!Into'[l] = w
      /\ \A p \in People \ {l} : Merge!Into'[p] = Merge!Into[p]
      /\ Merge!Before(id) = Merge!Into
  BY <1>0, <1>1, <1>4, MergeForests, MergeDecisions, BeforeNext DEF Merge!Into, Forest
<1>6. \A k \in 1..id : Merge!Before(k)' = Merge!Before(k)
  <2>1. ASSUME NEW k \in 1..id, NEW p \in People
        PROVE  (IF decision'[p].id \in 1..(k - 1) THEN person'[p].into ELSE None)
                 = (IF decision[p].id \in 1..(k - 1) THEN person[p].into ELSE None)
    BY <1>1, <1>2, <1>4, MergeDecisions
  <2> QED BY <2>1 DEF Merge!Before
<1>7. ASSUME NEW q \in People, Merge!Merged(q)
      PROVE  /\ q # l /\ q # w /\ decision[q].id \in 1..id /\ decision'[q] = decision[q]
             /\ decision[q].id # id
  BY <1>1, <1>4, <1>7, MergeDecisions
<1>8. Merge!MergesOK'
  <2>1. decision' \in [People -> Merge!Decisions \cup {Merge!NoDecision}]
    BY <1>1, <1>2, <1>3 DEF Merge!IInv, Merge!MergesOK
  <2>2. ASSUME NEW p \in People, Merge!Merged(p)'
        PROVE  /\ decision'[p].id <= id /\ person'[p].into # p
               /\ Merge!Before(decision'[p].id)[person'[p].into] = None
               /\ decision'[p].id \in 1..id
               /\ \A q \in People : decision'[q].id = decision'[p].id => q = p
    <3>1. CASE p = l
      <4>1. \A q \in People \ {l} : decision[q].id # id
        BY <1>1, MergeDecisions
      <4> QED BY <1>1, <1>2, <1>4, <1>5, <3>1, <4>1
    <3>2. CASE p # l
      BY <1>1, <1>2, <1>4, <1>7, <2>2, <3>2, MergeDecisions
    <3> QED BY <3>1, <3>2
  <2>3. ASSUME NEW p \in People, Merge!Merged(p)'
        PROVE  (Merge!Before(decision[p].id)[person[p].into] = None)'
    <3>1. PICK k \in 1..id : k = decision'[p].id
      BY <2>2, <2>3
    <3>2. Merge!Before(k)'[person'[p].into] = None
      BY <1>6, <2>2, <2>3, <3>1
    <3> QED BY <3>1, <3>2 DEF Merge!Before
  <2>4. Merge!Decisions' = Merge!Decisions /\ Merge!NoDecision' = Merge!NoDecision
    BY DEF Merge!Decisions, Merge!NoDecision, Merge!Ends, Merge!Candidate
  <2> QED BY <1>3, <2>1, <2>2, <2>3, <2>4 DEF Merge!MergesOK
<1>9. Merge!TypeOK'
  <2>1. person' \in [People -> [into : People \cup {None}, name : Names \cup {None}]]
    BY <1>1, <1>3 DEF Merge!IInv, Merge!TypeOK
  <2>2. owner' \in [Merge!Records -> People \cup {None}]
    BY <1>1, <1>3 DEF Merge!IInv, Merge!TypeOK
  <2>3. edge' \in [Edges -> Merge!Ends \cup {Merge!NoEnds}]
    <3>1. \A e \in Edges : edge[e] \in Merge!Ends \cup {Merge!NoEnds}
      BY DEF Merge!IInv, Merge!TypeOK
    <3>2. \A e \in Merge!EdgesOf(l) :
            e \in Edges /\ Merge!Redirected(edge[e], l, w) \in Merge!Ends
      BY <1>1, <3>1, MergeConstants
      DEF Merge!EdgesOf, Merge!Redirected, Merge!Ends, Merge!NoEnds
    <3> QED BY <1>3, <3>1, <3>2
  <2>4. candidate' \in [Pairs -> Merge!Candidate]
    <3>1. [state |-> "cancelled", by |-> id] \in Merge!Candidate
      BY <1>1, MergeConstants DEF Merge!Candidate
    <3> QED BY <1>3, <3>1 DEF Merge!IInv, Merge!TypeOK
  <2>5. \A p \in People : decision'[p] \in
          (IF Merge!Merged(p)' THEN Merge!Decisions ELSE {Merge!NoDecision})
    BY <1>2, <1>4 DEF Merge!IInv, Merge!TypeOK
  <2>6. merges' \in 0..MaxMerges
    BY <1>1, <1>3
  <2>7. selected' \subseteq Facts /\ home' \in [Merge!Records -> People \cup {None}]
        /\ ends' \in [Edges -> Merge!Ends \cup {Merge!NoEnds}]
    BY <1>3 DEF Merge!IInv, Merge!TypeOK
  <2>8. crossed' \subseteq Merge!Records \cup Edges \cup Pairs
    BY <1>3 DEF Merge!IInv, Merge!TypeOK
  <2>9. /\ Merge!Decisions' = Merge!Decisions /\ Merge!NoDecision' = Merge!NoDecision
        /\ Merge!Records' = Merge!Records /\ Merge!Ends' = Merge!Ends
        /\ Merge!NoEnds' = Merge!NoEnds /\ Merge!Candidate' = Merge!Candidate
    BY DEF Merge!Decisions, Merge!NoDecision, Merge!Ends, Merge!Candidate, Merge!Records,
           Merge!NoEnds
  <2> QED BY <2>1, <2>2, <2>3, <2>4, <2>5, <2>6, <2>7, <2>8, <2>9 DEF Merge!TypeOK
<1>10. \A e \in Edges : /\ edge'[e] # Merge!NoEnds <=> edge[e] # Merge!NoEnds
                        /\ edge[e] # Merge!NoEnds /\ e \notin crossed => ends[e] # Merge!NoEnds
                        /\ e \in Merge!EdgesOf(l) <=> edge[e].source = l \/ edge[e].target = l
                        /\ e \in Merge!EdgesOf(l) => edge[e] # Merge!NoEnds
                        /\ edge[e] # Merge!NoEnds => edge[e] \in Merge!Ends
                        /\ edge[e] # Merge!NoEnds /\ e \notin crossed => ends[e] \in Merge!Ends
  <2>1. \A e \in Edges : /\ edge[e] \in Merge!Ends \cup {Merge!NoEnds}
                         /\ ends[e] \in Merge!Ends \cup {Merge!NoEnds}
                         /\ edge[e] # Merge!NoEnds /\ e \notin crossed => ends[e] # Merge!NoEnds
    BY DEF Merge!IInv, Merge!TypeOK, Merge!EdgesOK
  <2>2. \A e \in Edges : e \in Merge!EdgesOf(l) <=> edge[e].source = l \/ edge[e].target = l
    BY DEF Merge!EdgesOf
  <2>3. \A e \in Edges : e \in Merge!EdgesOf(l) => edge[e] # Merge!NoEnds
    BY <1>1, <2>2, MergeConstants DEF Merge!NoEnds
  <2>4. \A e \in Edges : e \in Merge!EdgesOf(l) => edge'[e] # Merge!NoEnds
    <3>1. ASSUME NEW e \in Merge!EdgesOf(l)
          PROVE  Merge!Redirected(edge[e], l, w).source # None
      BY <1>1, <2>1, <2>3, MergeConstants
      DEF Merge!Redirected, Merge!Ends, Merge!EdgesOf
    <3>2. Merge!NoEnds.source = None
      BY DEF Merge!NoEnds
    <3> QED BY <1>3, <3>1, <3>2
  <2>5. \A e \in Edges : e \notin Merge!EdgesOf(l) => edge'[e] = edge[e]
    BY <1>3
  <2> QED BY <2>1, <2>2, <2>3, <2>4, <2>5
<1>11. /\ \A r \in Merge!Records : owner'[r] = IF r \in Merge!Returned(d) THEN w ELSE owner[r]
       /\ \A r \in Merge!Returned(d) : r \in Merge!Records /\ owner[r] = l
       /\ \A r \in Merge!Records \ crossed : owner[r] # None =>
            home[r] \in People /\ owner[r] \in Merge!Reach(Merge!Into, home[r])
  <2>1. \A r \in Merge!Returned(d) : r \in Merge!Records /\ owner[r] = l
    BY <1>0, <1>2 DEF Merge!Movable, Merge!Records
  <2>2. \A r \in Merge!Records \ crossed : owner[r] # None =>
          home[r] \in People /\ owner[r] \in Merge!Reach(Merge!Into, home[r])
    BY FollowParts DEF RecordsFollowed, Merge!IInv, Merge!TypeOK, Merge!RecordsOK
  <2> QED BY <1>3, <2>1, <2>2
<1>12. Merge!RecordsOK'
  <2>1. \A r \in Merge!Records \ crossed : owner'[r] # None => home'[r] # None
    BY <1>1, <1>3, <1>11, MergeConstants
  <2>2. ASSUME NEW r \in Merge!Records \ crossed
        PROVE  IF r \in Merge!Returned(d)
                 THEN /\ owner'[r] # None /\ l \in Merge!Reach(Merge!Into, home[r])
                      /\ owner'[r] \notin Merge!Reach(Merge!Into, home[r])
                 ELSE owner'[r] # None => owner'[r] \in Merge!Reach(Merge!Into, home[r])
    <3>1. CASE r \in Merge!Returned(d)
      <4>1. home[r] \in People /\ l \in Merge!Reach(Merge!Into, home[r]) /\ owner'[r] = w
        BY <1>1, <1>4, <1>11, <3>1
      <4>2. w \notin Merge!Reach(Merge!Into, home[r])
        BY <1>1, <1>5, <4>1, ReachEnds
      <4> QED BY <1>1, <1>4, <3>1, <4>1, <4>2
    <3>2. CASE r \notin Merge!Returned(d)
      BY <1>11, <3>2
    <3> QED BY <3>1, <3>2
  <2>3. ASSUME NEW q \in People, NEW r \in Merge!Records \ crossed, Merge!Merged(q),
               NEW B, B = Merge!Before(decision[q].id)
        PROVE  IF r \in Merge!Returned(decision[q])
                 THEN /\ owner'[r] # None /\ q \in Merge!Reach(B, home[r])
                      /\ owner'[r] \notin Merge!Reach(B, home[r])
                 ELSE owner'[r] # None /\ q \in Merge!Reach(B, home[r]) =>
                        owner'[r] \in Merge!Reach(B, home[r])
    <3>1. IF r \in Merge!Returned(decision[q])
            THEN /\ owner[r] # None /\ q \in Merge!Reach(B, home[r])
                 /\ owner[r] \notin Merge!Reach(B, home[r])
            ELSE owner[r] # None /\ q \in Merge!Reach(B, home[r]) =>
                   owner[r] \in Merge!Reach(B, home[r])
      BY <2>3 DEF Merge!IInv, Merge!RecordsOK
    <3>2. CASE r \notin Merge!Returned(d)
      BY <1>11, <3>1, <3>2
    <3>3. CASE r \in Merge!Returned(d)
      <4>1. owner[r] = l /\ owner'[r] = w /\ home[r] \in People
        BY <1>1, <1>4, <1>11, <3>3
      <4>2. B \in Forest /\ B[l] = None /\ B[w] = None /\ B[q] = None
        BY <1>1, <2>3, MergeForests, MergeDecisions
      <4>3. q # l /\ q # w
        BY <1>7, <2>3
      <4>4. q \in Merge!Reach(B, home[r]) =>
              l \notin Merge!Reach(B, home[r]) /\ w \notin Merge!Reach(B, home[r])
        BY <4>1, <4>2, <4>3, ReachEnds
      <4> QED BY <1>1, <1>4, <3>1, <4>1, <4>4
    <3> QED BY <3>2, <3>3
  <2>4. ASSUME NEW q \in People, NEW r \in Merge!Records \ crossed, Merge!Merged(q)'
        PROVE  (LET before == Merge!Reach(Merge!Before(decision[q].id), home[r]) IN
                  IF r \in Merge!Returned(decision[q])
                    THEN owner[r] # None /\ q \in before /\ owner[r] \notin before
                    ELSE owner[r] # None /\ q \in before => owner[r] \in before)'
    <3>1. PICK k \in 1..id : k = decision'[q].id
      BY <1>1, <1>2, <1>4, <1>7, <2>4
    <3>2. PICK B : B = Merge!Before(k)
      OBVIOUS
    <3>3. Merge!Before(decision[q].id)' = B
      BY <1>6, <3>1, <3>2 DEF Merge!Before
    <3>4. Merge!Reach(Merge!Before(decision[q].id), home[r])' = Merge!Reach(B, home[r])
      BY <1>3, <3>3 DEF Merge!Reach
    <3>5. Merge!Returned(decision[q])' = Merge!Returned(decision'[q])
      BY DEF Merge!Returned
    <3>6. IF r \in Merge!Returned(decision'[q])
            THEN /\ owner'[r] # None /\ q \in Merge!Reach(B, home[r])
                 /\ owner'[r] \notin Merge!Reach(B, home[r])
            ELSE owner'[r] # None /\ q \in Merge!Reach(B, home[r]) =>
                   owner'[r] \in Merge!Reach(B, home[r])
      <4>1. CASE q = l
        BY <1>2, <1>4, <1>5, <2>2, <3>1, <3>2, <4>1
      <4>2. CASE q # l
        BY <1>4, <1>7, <2>3, <2>4, <3>1, <3>2, <4>2
      <4> QED BY <4>1, <4>2
    <3> QED BY <3>4, <3>5, <3>6
  <2>5. Merge!Records' = Merge!Records
    BY DEF Merge!Records
  <2>6. (\A r \in Merge!Records \ crossed : owner[r] # None => home[r] # None)'
    BY <1>3, <2>1, <2>5
  <2> QED BY <1>3, <2>4, <2>5, <2>6 DEF Merge!RecordsOK
<1>13. RecordsFollowed'
  <2>1. ASSUME NEW r \in Merge!Records \ crossed, owner'[r] # None
        PROVE  owner'[r] \in Merge!Reach(Merge!Into', home[r])
    <3>1. owner[r] # None /\ home[r] \in People /\ owner[r] \in Merge!Reach(Merge!Into, home[r])
      BY <1>1, <1>4, <1>11, <2>1
    <3>2. /\ l \in Merge!Reach(Merge!Into, home[r]) =>
               Merge!Reach(Merge!Into', home[r]) = Merge!Reach(Merge!Into, home[r]) \cup {w}
          /\ l \notin Merge!Reach(Merge!Into, home[r]) =>
               Merge!Reach(Merge!Into', home[r]) = Merge!Reach(Merge!Into, home[r])
      BY <1>1, <1>5, <3>1, ReachExtends
    <3> QED BY <1>11, <3>1, <3>2
  <2>2. Merge!Records' = Merge!Records
    BY DEF Merge!Records
  <2>3. ASSUME NEW r \in Merge!Records \ crossed, owner'[r] # None
        PROVE  (owner[r] \in Merge!Reach(Merge!Into, home[r]))'
    BY <1>3, <2>1, <2>3 DEF Merge!Reach
  <2> QED BY <1>3, <2>2, <2>3 DEF RecordsFollowed
<1>14. ASSUME NEW e \in Edges \ crossed, edge[e] # Merge!NoEnds
       PROVE  /\ Merge!StandsFor(Merge!Into, edge[e].source, ends[e].source)
              /\ Merge!StandsFor(Merge!Into, edge[e].target, ends[e].target)
              /\ ends[e].source \in People /\ ends[e].target \in People
              /\ edge[e].source \in People /\ edge[e].target \in People
  BY <1>10, <1>14, FollowParts DEF Merge!IInv, EdgesFollowed, Merge!Ends
<1>15. Merge!EdgesOK'
  <2>1. \A e \in Edges \ crossed : edge'[e] # Merge!NoEnds => ends'[e] # Merge!NoEnds
    BY <1>3, <1>10
  <2>2. ASSUME NEW e \in Edges \ crossed
        PROVE  IF e \in DOMAIN d.edges
                 THEN /\ edge'[e] # Merge!NoEnds
                      /\ Merge!StandsFor(Merge!Into, d.edges[e].source, ends[e].source)
                      /\ Merge!StandsFor(Merge!Into, d.edges[e].target, ends[e].target)
                 ELSE edge'[e] # Merge!NoEnds =>
                      /\ l \notin Merge!Reach(Merge!Into, ends[e].source)
                      /\ l \notin Merge!Reach(Merge!Into, ends[e].target)
    <3>1. CASE e \in Merge!EdgesOf(l)
      BY <1>2, <1>10, <1>14, <3>1
    <3>2. CASE e \notin Merge!EdgesOf(l) /\ edge'[e] # Merge!NoEnds
      <4>1. edge[e] # Merge!NoEnds /\ edge[e].source # l /\ edge[e].target # l
        BY <1>10, <3>2
      <4>2. /\ l \notin Merge!Reach(Merge!Into, ends[e].source)
            /\ l \notin Merge!Reach(Merge!Into, ends[e].target)
        BY <1>5, <1>14, <4>1, ReachEnds DEF Merge!StandsFor
      <4> QED BY <1>2, <3>2, <4>2
    <3> QED BY <1>2, <3>1, <3>2
  <2>3. ASSUME NEW q \in People, NEW e \in Edges \ crossed, Merge!Merged(q),
               NEW B, B = Merge!Before(decision[q].id)
        PROVE  IF e \in DOMAIN decision[q].edges
                 THEN /\ edge'[e] # Merge!NoEnds
                      /\ Merge!StandsFor(B, decision[q].edges[e].source, ends[e].source)
                      /\ Merge!StandsFor(B, decision[q].edges[e].target, ends[e].target)
                 ELSE edge'[e] # Merge!NoEnds =>
                      /\ q \notin Merge!Reach(B, ends[e].source)
                      /\ q \notin Merge!Reach(B, ends[e].target)
    BY <1>10, <2>3 DEF Merge!IInv, Merge!EdgesOK
  <2>4. ASSUME NEW q \in People, NEW e \in Edges \ crossed, Merge!Merged(q)'
        PROVE  (LET before == Merge!Before(decision[q].id)
                    x == decision[q] IN
                  IF e \in DOMAIN x.edges
                    THEN /\ edge[e] # Merge!NoEnds
                         /\ Merge!StandsFor(before, x.edges[e].source, ends[e].source)
                         /\ Merge!StandsFor(before, x.edges[e].target, ends[e].target)
                    ELSE edge[e] # Merge!NoEnds =>
                         /\ q \notin Merge!Reach(before, ends[e].source)
                         /\ q \notin Merge!Reach(before, ends[e].target))'
    <3>1. PICK k \in 1..id : k = decision'[q].id
      BY <1>1, <1>2, <1>4, <1>7, <2>4
    <3>2. PICK B : B = Merge!Before(k)
      OBVIOUS
    <3>3. Merge!Before(decision[q].id)' = B
      BY <1>6, <3>1, <3>2 DEF Merge!Before
    <3>4. IF e \in DOMAIN decision'[q].edges
            THEN /\ edge'[e] # Merge!NoEnds
                 /\ Merge!StandsFor(B, decision'[q].edges[e].source, ends[e].source)
                 /\ Merge!StandsFor(B, decision'[q].edges[e].target, ends[e].target)
            ELSE edge'[e] # Merge!NoEnds =>
                 /\ q \notin Merge!Reach(B, ends[e].source)
                 /\ q \notin Merge!Reach(B, ends[e].target)
      <4>1. CASE q = l
        BY <1>2, <1>4, <1>5, <2>2, <3>1, <3>2, <4>1
      <4>2. CASE q # l
        BY <1>4, <1>7, <2>3, <2>4, <3>1, <3>2, <4>2
      <4> QED BY <4>1, <4>2
    <3>5. Merge!NoEnds' = Merge!NoEnds
      BY DEF Merge!NoEnds
    <3> QED BY <1>3, <3>3, <3>4, <3>5 DEF Merge!StandsFor, Merge!Reach
  <2>5. Merge!NoEnds' = Merge!NoEnds
    BY DEF Merge!NoEnds
  <2>6. (\A e \in Edges \ crossed : edge[e] # Merge!NoEnds => ends[e] # Merge!NoEnds)'
    BY <1>3, <2>1, <2>5
  <2> QED BY <1>3, <2>4, <2>6 DEF Merge!EdgesOK
<1>16. EdgesFollowed'
  <2>1. ASSUME NEW x \in People, NEW y \in People, NEW z,
               Merge!StandsFor(Merge!Into, x, y), z = IF x = l THEN w ELSE x
        PROVE  Merge!StandsFor(Merge!Into', z, y)
    <3>1. /\ l \in Merge!Reach(Merge!Into, y) =>
               Merge!Reach(Merge!Into', y) = Merge!Reach(Merge!Into, y) \cup {w}
          /\ l \notin Merge!Reach(Merge!Into, y) =>
               Merge!Reach(Merge!Into', y) = Merge!Reach(Merge!Into, y)
      BY <1>1, <1>5, ReachExtends
    <3> QED BY <1>1, <1>5, <2>1, <3>1 DEF Merge!StandsFor
  <2>2. ASSUME NEW e \in Edges \ crossed, edge'[e] # Merge!NoEnds
        PROVE  /\ Merge!StandsFor(Merge!Into', edge'[e].source, ends[e].source)
               /\ Merge!StandsFor(Merge!Into', edge'[e].target, ends[e].target)
    <3>1. edge[e] # Merge!NoEnds
      BY <1>10, <2>2
    <3>2. /\ edge'[e].source = IF edge[e].source = l THEN w ELSE edge[e].source
          /\ edge'[e].target = IF edge[e].target = l THEN w ELSE edge[e].target
      BY <1>3, <1>10 DEF Merge!Redirected
    <3> QED BY <1>14, <2>1, <3>1, <3>2
  <2>3. Merge!NoEnds' = Merge!NoEnds
    BY DEF Merge!NoEnds
  <2>4. ASSUME NEW e \in Edges \ crossed, edge'[e] # Merge!NoEnds
        PROVE  (/\ Merge!StandsFor(Merge!Into, edge[e].source, ends[e].source)
                /\ Merge!StandsFor(Merge!Into, edge[e].target, ends[e].target))'
    BY <1>3, <2>2, <2>4 DEF Merge!StandsFor, Merge!Reach
  <2> QED BY <1>3, <2>3, <2>4 DEF EdgesFollowed
<1>17. Merge!CandidatesOK'
  <2>1. \A c \in Pairs :
          candidate[c].by \in Nat /\ (c \notin crossed => Merge!Marked(c, candidate[c], id))
    BY <1>0, MergeConstants
    DEF Merge!IInv, Merge!TypeOK, Merge!Candidate, Merge!CandidatesOK
  <2>2. \A c \in DOMAIN merging.seen : c \in Pairs /\ merging.seen[c].by \in Nat
    BY <1>1, MergeConstants DEF Merge!Seen, Merge!Candidate
  <2>3. ASSUME NEW c \in Pairs \ crossed, NEW x, x = candidate'[c] PROVE Merge!Marked(c, x, id + 1)'
    <3>1. CASE c \in DOMAIN merging.seen
      <4>1. l \in c /\ decision'[l].id = id /\ c \in DOMAIN decision'[l].seen
            /\ x = [state |-> "cancelled", by |-> id] /\ id < id + 1
        BY <1>1, <1>2, <1>3, <1>4, <2>3, <3>1
      <4>2. x.state = "cancelled" /\ x.by = id
        BY <4>1
      <4> QED BY <4>1, <4>2 DEF Merge!Marked
    <3>2. CASE c \notin DOMAIN merging.seen
      <4>1. x = candidate[c] /\ x.by \in Nat /\ Merge!Marked(c, x, id)
        BY <1>3, <2>1, <2>3, <3>2
      <4>2. id + 1 \in Nat /\ id <= id + 1
        BY <1>1
      <4> QED BY <1>1, <1>4, <4>1, <4>2, MarkedStays
    <3> QED BY <3>1, <3>2
  <2>4. ASSUME NEW c \in Pairs \ crossed PROVE Merge!Marked(c, candidate[c], merges + 1)'
    <3>1. PICK x : x = candidate'[c]
      OBVIOUS
    <3>2. Merge!Marked(c, x, id + 1)'
      BY <2>3, <3>1
    <3> QED BY <1>3, <3>1, <3>2 DEF Merge!Marked
  <2>5. ASSUME NEW c \in DOMAIN merging.seen, NEW x, x = merging.seen[c]
        PROVE  l \in c /\ (c \notin crossed => Merge!Marked(c, x, id)')
    <3>1. c \in Pairs /\ x.by \in Nat /\ l \in c
          /\ (c \notin crossed => Merge!Marked(c, x, id))
      BY <1>1, <2>2, <2>5
    <3> QED BY <1>1, <1>4, <3>1, MarkedStays
  <2>6. ASSUME NEW q \in People, Merge!Merged(q), NEW c \in DOMAIN decision[q].seen,
               NEW x, x = decision[q].seen[c], NEW k, k = decision[q].id
        PROVE  q \in c /\ (c \notin crossed => Merge!Marked(c, x, k)')
    <3>1. decision[q] \in Merge!Decisions /\ k \in Nat
      BY <1>1, <2>6, MergeDecisions
    <3>2. c \in Pairs /\ x.by \in Nat
      BY <2>6, <3>1, MergeConstants DEF Merge!Decisions, Merge!Candidate
    <3>3. q \in c /\ (c \notin crossed => Merge!Marked(c, x, k))
      BY <2>6 DEF Merge!IInv, Merge!CandidatesOK
    <3> QED BY <1>1, <1>4, <3>1, <3>2, <3>3, MarkedStays
  <2>7. ASSUME NEW q \in People, Merge!Merged(q)', NEW c \in DOMAIN decision'[q].seen
        PROVE  q \in c
                 /\ (c \notin crossed' => Merge!Marked(c, decision[q].seen[c], decision[q].id)')
    <3>1. PICK x, k : x = decision'[q].seen[c] /\ k = decision'[q].id
      OBVIOUS
    <3>2. q \in c /\ (c \notin crossed' => Merge!Marked(c, x, k)')
      <4>1. CASE q = l
        BY <1>2, <1>3, <1>4, <2>5, <2>7, <3>1, <4>1
      <4>2. CASE q # l
        BY <1>3, <1>4, <2>6, <2>7, <3>1, <4>2
      <4> QED BY <4>1, <4>2
    <3> QED BY <3>1, <3>2 DEF Merge!Marked
  <2>8. \A c \in Pairs \ crossed' : Merge!Marked(c, candidate[c], merges + 1)'
    BY <1>3, <2>4
  <2> QED BY <2>7, <2>8 DEF Merge!CandidatesOK
<1>18. Merge!ReadsOK'
  BY <1>3 DEF Merge!ReadsOK
<1> QED
  BY <1>8, <1>9, <1>12, <1>13, <1>15, <1>16, <1>17, <1>18, MergeAssembled DEF MergeParts

-----------------------------------------------------------------------------
(* Merges: one is undone, whichever it is. *)

\* A forest without what p was merged into.
Without(f, p) == [f EXCEPT ![p] = None]

LEMMA ReachWithout ==
  ASSUME NEW f \in Forest, NEW p \in People
  PROVE  /\ Without(f, p) \in Forest /\ Without(f, p)[p] = None
         /\ \A y \in People \ {p} : Without(f, p)[y] = f[y]
         /\ \A y \in People : f[y] = None => Without(f, p)[y] = None
         /\ \A x \in People : /\ Merge!Reach(Without(f, p), x) \subseteq Merge!Reach(f, x)
                              /\ p \notin Merge!Reach(f, x) =>
                                   Merge!Reach(Without(f, p), x) = Merge!Reach(f, x)
<1>0. PICK g : g = Without(f, p)
  OBVIOUS
<1>1. /\ g \in Forest /\ g[p] = None /\ \A y \in People \ {p} : g[y] = f[y]
      /\ \A y \in People : f[y] = None => g[y] = None
  BY <1>0 DEF Without, Forest
<1>2. ASSUME NEW x \in People PROVE Merge!Reach(g, x) \subseteq Merge!Reach(f, x)
  <2>1. \A y \in People : g[y] # None => f[y] = g[y]
    BY <1>1
  <2> QED BY <1>1, <2>1, ReachGrows
<1>3. ASSUME NEW x \in People, p \notin Merge!Reach(f, x)
      PROVE  Merge!Reach(f, x) \subseteq Merge!Reach(g, x)
  <2>1. x \in Merge!Reach(g, x) /\ Merge!Reach(g, x) \in SUBSET People
        /\ Closed(g, Merge!Reach(g, x))
    BY <1>1, ReachFacts
  <2>2. Closed(f, Merge!Reach(g, x))
    BY <1>1, <1>2, <1>3, <2>1 DEF Closed
  <2> QED BY <2>1, <2>2, ReachLeast
<1> QED BY <1>0, <1>1, <1>2, <1>3

\* What leads to p, leads to it without the merges that came after p's own.
LEMMA LaterPath ==
  ASSUME Merge!IInv, NEW p \in People, Merge!Merged(p), NEW F, F = Merge!Before(decision[p].id),
         NEW j, NEW x \in People, p \in Merge!Reach(Merge!Before(j), x)
  PROVE  p \in Merge!Reach(F, x)
<1>1. PICK k, B : k = decision[p].id /\ B = Merge!Before(j)
  OBVIOUS
<1>2. /\ k \in 1..merges /\ merges \in Nat /\ F \in Forest /\ B \in Forest
      /\ \A q \in People : decision[q].id = k => q = p
  BY <1>1, MergeForests, MergeDecisions
<1> SUFFICES ASSUME p \notin Merge!Reach(F, x) PROVE FALSE
  OBVIOUS
<1>3. PICK T : T = Merge!Reach(F, x) \cup {y \in People : decision[y].id \notin 1..k}
  OBVIOUS
<1>4. T \in SUBSET People /\ x \in T /\ p \notin T
  BY <1>1, <1>2, <1>3, ReachFacts
<1>5. ASSUME NEW y \in T, B[y] # None PROVE B[y] \in T
  <2>1. y \in People /\ B[y] = person[y].into /\ Merge!Merged(y) /\ B[y] \in People
    <3>1. y \in People
      BY <1>4
    <3> QED BY <1>1, <1>5, <3>1, MergeForests, MergeDecisions DEF Merge!Merged
  <2>2. decision[y].id \in 1..merges /\ decision[y].id # k
    <3>1. y # p
      BY <1>4, <1>5
    <3> QED BY <1>2, <2>1, <3>1, MergeDecisions
  <2>3. CASE decision[y].id \in 1..k
    <3>1. y \in Merge!Reach(F, x) /\ decision[y].id \in 1..(k - 1)
      BY <1>2, <1>3, <2>2, <2>3
    <3>2. F[y] = B[y]
      BY <1>1, <2>1, <3>1, MergeForests
    <3> QED BY <1>2, <1>3, <1>5, <3>1, <3>2, ReachFacts DEF Closed
  <2>4. CASE decision[y].id \notin 1..k
    <3>1. Merge!Before(decision[y].id)[B[y]] = None
      BY <2>1, MergeDecisions
    <3>2. CASE ~Merge!Merged(B[y])
      <4>1. decision[B[y]].id = 0
        BY <2>1, <3>2, MergeDecisions
      <4> QED BY <1>2, <1>3, <2>1, <4>1
    <3>3. CASE Merge!Merged(B[y])
      <4>1. person[B[y]].into # None
        BY <3>3 DEF Merge!Merged
      <4>2. decision[B[y]].id \notin 1..(decision[y].id - 1)
        BY <2>1, <3>1, <4>1, MergeForests
      <4>3. decision[B[y]].id \in 1..merges
        BY <2>1, <3>3, MergeDecisions
      <4>4. decision[B[y]].id \notin 1..k
        BY <1>2, <2>2, <2>4, <4>2, <4>3
      <4> QED BY <1>3, <2>1, <4>4
    <3> QED BY <3>2, <3>3
  <2> QED BY <2>3, <2>4
<1>6. Merge!Reach(B, x) \subseteq T
  BY <1>4, <1>5, ReachLeast DEF Closed
<1> QED BY <1>1, <1>4, <1>6

\* What stood before p's own merge stands before the later ones, with p or without it.
LEMMA LaterReach ==
  ASSUME Merge!IInv, NEW p \in People, Merge!Merged(p), NEW F, F = Merge!Before(decision[p].id),
         NEW j \in Nat, decision[p].id <= j, NEW x \in People
  PROVE  /\ Merge!Reach(F, x) \subseteq Merge!Reach(Without(Merge!Before(j), p), x)
         /\ Merge!Reach(F, x) \subseteq Merge!Reach(Merge!Before(j), x)
<1>1. PICK k, B, H : k = decision[p].id /\ B = Merge!Before(j) /\ H = Without(B, p)
  OBVIOUS
<1>2. k \in 1..merges /\ merges \in Nat /\ F \in Forest /\ B \in Forest /\ F[p] = None
  BY <1>1, MergeForests, MergeDecisions
<1>3. H \in Forest /\ H[p] = None /\ \A y \in People \ {p} : H[y] = B[y]
  BY <1>1, <1>2, ReachWithout
<1>4. \A y \in People : F[y] # None => B[y] = F[y] /\ H[y] = F[y]
  <2>1. ASSUME NEW y \in People, F[y] # None PROVE B[y] = F[y]
    <3>1. decision[y].id \in 1..(k - 1) /\ F[y] = person[y].into
      BY <1>1, <2>1, MergeForests
    <3>2. decision[y].id \in 1..(j - 1)
      BY <1>1, <1>2, <3>1
    <3> QED BY <1>1, <3>1, <3>2, MergeForests
  <2> QED BY <1>2, <1>3, <2>1
<1> QED BY <1>1, <1>2, <1>3, <1>4, ReachGrows

\* A marker of an earlier merge outlives the reversal of one.
LEMMA MarkedRemains ==
  ASSUME Merge!IInv, NEW p \in People, Merge!Merged(p),
         \A q \in People \ {p} : decision'[q] = decision[q],
         NEW c \in Pairs, NEW x, x.by # decision[p].id, NEW k, Merge!Marked(c, x, k)
  PROVE  Merge!Marked(c, x, k)'
<1>1. c \subseteq People
  BY MergeAssumption DEF Merge!PersonMergeAssumption
<1>2. SUFFICES ASSUME x.by # 0
               PROVE  /\ x.state = "cancelled" /\ x.by < k
                      /\ \E q \in c : decision'[q].id = x.by /\ c \in DOMAIN decision'[q].seen
  BY DEF Merge!Marked
<1>3. PICK q \in c : decision[q].id = x.by /\ c \in DOMAIN decision[q].seen
  BY <1>2 DEF Merge!Marked
<1>4. q \in People /\ q # p
  BY <1>1, <1>3
<1>5. x.state = "cancelled" /\ x.by < k
  BY <1>2 DEF Merge!Marked
<1> QED BY <1>3, <1>4, <1>5

\* What undoing the merge of p leaves of the merges, and which records,
\* relationships and candidates no later merge has taken up.
LEMMA UndoneMerges ==
  ASSUME Merge!IInv, NEW p \in People, Merge!Unmerge(p),
         NEW d, d = decision[p], NEW k, k = d.id, NEW F, F = Merge!Before(k)
  PROVE  /\ Merge!Merged(p) /\ merging = None /\ None \notin People
         /\ d \in Merge!Decisions /\ k \in 1..merges /\ merges \in Nat
         /\ F \in Forest /\ F[p] = None
         /\ \A q \in People \ {p} : person'[q] = person[q] /\ decision'[q] = decision[q]
                                    /\ decision[q].id # k
         /\ person'[p].into = None /\ decision'[p] = Merge!NoDecision /\ decision'[p].id = 0
         /\ \A q \in People : Merge!Merged(q)' <=> q # p /\ Merge!Merged(q)
         /\ \A j \in Nat : Merge!Before(j)' = Without(Merge!Before(j), p)
         /\ Merge!Into' = Without(Merge!Into, p)
<1>1. /\ Merge!Merged(p) /\ merging = None /\ None \notin People
      /\ d \in Merge!Decisions /\ k \in 1..merges /\ merges \in Nat
      /\ F \in Forest /\ F[p] = None
      /\ \A q \in People : decision[q].id = k => q = p
  BY MergeConstants, MergeDecisions, MergeForests DEF Merge!Unmerge
<1>2. /\ person' = [person EXCEPT ![p] = [into |-> None, name |-> d.name]]
      /\ decision' = [decision EXCEPT ![p] = Merge!NoDecision]
  BY DEF Merge!Unmerge
<1>3. /\ \A q \in People \ {p} : person'[q] = person[q] /\ decision'[q] = decision[q]
      /\ person'[p].into = None /\ decision'[p] = Merge!NoDecision /\ decision'[p].id = 0
      /\ \A q \in People : Merge!Merged(q)' <=> q # p /\ Merge!Merged(q)
  <2>1. person \in [People -> [into : People \cup {None}, name : Names \cup {None}]]
        /\ decision \in [People -> Merge!Decisions \cup {Merge!NoDecision}]
    BY DEF Merge!IInv, Merge!TypeOK, Merge!MergesOK
  <2> QED BY <1>1, <1>2, <2>1 DEF Merge!Merged, Merge!NoDecision
<1>4. ASSUME NEW j \in Nat PROVE Merge!Before(j)' = Without(Merge!Before(j), p)
  <2>1. ASSUME NEW q \in People
        PROVE  (IF decision'[q].id \in 1..(j - 1) THEN person'[q].into ELSE None)
                 = Without(Merge!Before(j), p)[q]
    <3>1. CASE q = p
      <4>1. Without(Merge!Before(j), p)[p] = None
        BY MergeForests, ReachWithout
      <4> QED BY <1>3, <3>1, <4>1
    <3>2. CASE q # p
      <4>1. Without(Merge!Before(j), p)[q] = Merge!Before(j)[q]
        BY <3>2, MergeForests, ReachWithout
      <4> QED BY <1>3, <3>2, <4>1, MergeForests
    <3> QED BY <3>1, <3>2
  <2>2. Without(Merge!Before(j), p) \in Forest
    BY MergeForests, ReachWithout
  <2>3. Merge!Before(j)' = [q \in People |-> IF decision'[q].id \in 1..(j - 1)
                                              THEN person'[q].into ELSE None]
    BY DEF Merge!Before
  <2> QED BY <2>1, <2>2, <2>3 DEF Forest
<1>5. Merge!Into' = Without(Merge!Into, p)
  <2>1. ASSUME NEW q \in People PROVE person'[q].into = Without(Merge!Into, p)[q]
    <3>1. CASE q = p
      BY <1>3, <3>1, MergeForests, ReachWithout
    <3>2. CASE q # p
      BY <1>3, <3>2, MergeForests, ReachWithout
    <3> QED BY <3>1, <3>2
  <2>2. Without(Merge!Into, p) \in Forest
    BY MergeForests, ReachWithout
  <2>3. Merge!Into' = [q \in People |-> person'[q].into]
    BY DEF Merge!Into
  <2> QED BY <2>1, <2>2, <2>3 DEF Forest
<1> QED BY <1>1, <1>3, <1>4, <1>5

LEMMA UnmergeStep ==
  ASSUME Merge!IInv, NEW p \in People, Merge!Unmerge(p)
  PROVE  Merge!IInv'
<1>0. PICK d, k, F, n :
        d = decision[p] /\ k = d.id /\ F = Merge!Before(k) /\ n = merges + 1
  OBVIOUS
<1>1. /\ Merge!Merged(p) /\ merging = None /\ None \notin People
      /\ d \in Merge!Decisions /\ k \in 1..merges /\ merges \in Nat /\ k \in Nat
      /\ n \in Nat /\ k < n /\ merges < n
      /\ F \in Forest /\ F[p] = None
      /\ person'[p].into = None /\ decision'[p] = Merge!NoDecision /\ decision'[p].id = 0
      /\ Merge!Into' = Without(Merge!Into, p)
  <2>1. merges \in Nat /\ k \in 1..merges
    BY <1>0, UndoneMerges
  <2>2. k \in Nat /\ n \in Nat /\ k < n /\ merges < n
    BY <1>0, <2>1
  <2> QED BY <1>0, <2>1, <2>2, UndoneMerges
<1>2. /\ edge' = [e \in Edges |-> IF e \in DOMAIN d.edges THEN d.edges[e] ELSE edge[e]]
      /\ owner' = [r \in Merge!Records |-> IF r \in Merge!Returned(d) THEN p ELSE owner[r]]
      /\ candidate' = [c \in Pairs |-> Merge!Restored(c, d)]
      /\ person' = [person EXCEPT ![p] = [into |-> None, name |-> d.name]]
      /\ decision' = [decision EXCEPT ![p] = Merge!NoDecision]
      /\ crossed' = crossed \cup Merge!Crossing(d)
      /\ UNCHANGED <<selected, home, ends, merges, merging>>
  BY <1>0 DEF Merge!Unmerge
<1>3. \A q \in People : Merge!Merged(q)' <=> q # p /\ Merge!Merged(q)
  BY <1>0, UndoneMerges
\* A merge that stands afterwards.
<1>4. ASSUME NEW q \in People, Merge!Merged(q)'
      PROVE  /\ q # p /\ Merge!Merged(q) /\ person'[q] = person[q] /\ decision'[q] = decision[q]
             /\ decision[q] \in Merge!Decisions
             /\ decision[q].id \in 1..merges /\ decision[q].id \in Nat
             /\ decision[q].id < k \/ k < decision[q].id
             /\ Merge!Before(decision[q].id)' = Without(Merge!Before(decision[q].id), p)
             /\ Merge!Before(decision[q].id) \in Forest
  <2>1. q # p /\ Merge!Merged(q)
    BY <1>3, <1>4
  <2>2. /\ person'[q] = person[q] /\ decision'[q] = decision[q] /\ decision[q].id # k
        /\ \A j \in Nat : Merge!Before(j)' = Without(Merge!Before(j), p)
    BY <1>0, <2>1, UndoneMerges
  <2>3. decision[q] \in Merge!Decisions /\ decision[q].id \in 1..merges
    BY <2>1, MergeDecisions
  <2>4. decision[q].id \in Nat /\ (decision[q].id < k \/ k < decision[q].id)
    BY <1>1, <2>2, <2>3
  <2> QED BY <2>1, <2>2, <2>3, <2>4, MergeForests
\* What stood before an earlier merge is what it was.
<1>5. ASSUME NEW j \in Nat, j <= k
      PROVE  Without(Merge!Before(j), p) = Merge!Before(j) /\ Merge!Before(j)[p] = None
  <2>1. Merge!Before(j)[p] = None
    BY <1>0, <1>1, <1>5, BeforeGrows
  <2> QED BY <2>1, MergeForests DEF Without, Forest
<1>6. ASSUME NEW j \in Nat, k < j, NEW B, B = Merge!Before(j), NEW H, H = Without(B, p),
             NEW x \in People
      PROVE  /\ Merge!Reach(F, x) \subseteq Merge!Reach(H, x)
             /\ Merge!Reach(H, x) \subseteq Merge!Reach(B, x)
             /\ p \notin Merge!Reach(F, x) =>
                  /\ Merge!Reach(H, x) = Merge!Reach(B, x)
                  /\ p \notin Merge!Reach(B, x)
  <2>1. B \in Forest
    BY <1>6, MergeForests
  <2>2. Merge!Reach(F, x) \subseteq Merge!Reach(H, x)
    BY <1>0, <1>1, <1>6, LaterReach
  <2>3. p \in Merge!Reach(B, x) => p \in Merge!Reach(F, x)
    BY <1>0, <1>1, <1>6, LaterPath
  <2> QED BY <1>6, <2>1, <2>2, <2>3, ReachWithout
<1>7. Merge!Before(n) = Merge!Into
  BY <1>0, BeforeNext
\* What is not crossed, no later merge has taken up.
<1>8. /\ crossed \subseteq crossed'
      /\ \A q \in People, r \in Merge!Records \ crossed' :
           k < decision[q].id /\ r \in Merge!Returned(d) => r \notin Merge!Returned(decision[q])
      /\ \A q \in People, e \in Edges \ crossed' :
           k < decision[q].id /\ e \in DOMAIN d.edges => e \notin DOMAIN decision[q].edges
      /\ \A q \in People, c \in Pairs \ crossed' :
           k < decision[q].id /\ c \in DOMAIN decision[q].seen => decision[q].seen[c].by # k
  <2>1. \A q \in People : k < decision[q].id => decision[q].id > d.id
    <3>1. \A q \in People : decision[q].id \in Nat
      <4>1. ASSUME NEW q \in People PROVE decision[q].id \in Nat
        <5>1. CASE Merge!Merged(q)
          BY <1>1, <5>1, MergeDecisions
        <5>2. CASE ~Merge!Merged(q)
          BY <5>2, MergeDecisions
        <5> QED BY <5>1, <5>2
      <4> QED BY <4>1
    <3> QED BY <1>0, <1>1, <3>1
  <2> QED BY <1>0, <1>2, <2>1 DEF Merge!Crossing
<1>9. Merge!MergesOK'
  <2>1. decision' \in [People -> Merge!Decisions \cup {Merge!NoDecision}]
    BY <1>2 DEF Merge!IInv, Merge!MergesOK
  <2>2. ASSUME NEW q \in People, Merge!Merged(q)'
        PROVE  /\ decision'[q].id <= merges /\ person'[q].into # q
               /\ \A x \in People : decision'[x].id = decision'[q].id => x = q
    <3>1. \A x \in People : decision[x].id = decision[q].id => x = q
      BY <1>4, <2>2, MergeDecisions
    <3>2. \A x \in People : decision'[x].id = decision[q].id => x = q
      <4>1. ASSUME NEW x \in People, decision'[x].id = decision[q].id PROVE x = q
        <5>1. x # p
          BY <1>1, <1>4, <2>2, <4>1
        <5> QED BY <1>0, <2>2, <3>1, <4>1, <5>1, UndoneMerges
      <4> QED BY <4>1
    <3>3. person[q].into # q
      BY <1>4, <2>2, MergeDecisions
    <3> QED BY <1>1, <1>4, <2>2, <3>2, <3>3
  <2>3. ASSUME NEW q \in People, Merge!Merged(q)'
        PROVE  (Merge!Before(decision[q].id)[person[q].into] = None)'
    <3>1. PICK j, B : j = decision[q].id /\ B = Merge!Before(j)
      OBVIOUS
    <3>2. /\ B \in Forest /\ j = decision'[q].id /\ Merge!Before(j)' = Without(B, p)
          /\ person'[q].into = person[q].into /\ person[q].into \in People
          /\ B[person[q].into] = None
      BY <1>4, <2>3, <3>1, MergeDecisions
    <3>3. Merge!Before(j)'[person'[q].into] = None
      BY <3>2, ReachWithout
    <3> QED BY <3>2, <3>3 DEF Merge!Before
  <2>4. Merge!Decisions' = Merge!Decisions /\ Merge!NoDecision' = Merge!NoDecision
    BY DEF Merge!Decisions, Merge!NoDecision, Merge!Ends, Merge!Candidate
  <2> QED BY <1>2, <2>1, <2>2, <2>3, <2>4 DEF Merge!MergesOK
<1>10. /\ DOMAIN d.edges \subseteq Edges /\ \A e \in DOMAIN d.edges : d.edges[e] \in Merge!Ends
       /\ DOMAIN d.seen \subseteq Pairs /\ \A c \in DOMAIN d.seen : d.seen[c] \in Merge!Candidate
       /\ Merge!Returned(d) \subseteq Merge!Records /\ d.name \in Names \cup {None}
  BY <1>1 DEF Merge!Decisions, Merge!Returned, Merge!Records
<1>11. Merge!TypeOK'
  <2>1. person' \in [People -> [into : People \cup {None}, name : Names \cup {None}]]
    BY <1>2, <1>10 DEF Merge!IInv, Merge!TypeOK
  <2>2. owner' \in [Merge!Records -> People \cup {None}]
    BY <1>2 DEF Merge!IInv, Merge!TypeOK
  <2>3. edge' \in [Edges -> Merge!Ends \cup {Merge!NoEnds}]
    BY <1>2, <1>10 DEF Merge!IInv, Merge!TypeOK
  <2>4. candidate' \in [Pairs -> Merge!Candidate]
    <3>1. \A c \in Pairs : candidate[c] \in Merge!Candidate
      BY DEF Merge!IInv, Merge!TypeOK
    <3>2. \A c \in Pairs : Merge!Restored(c, d) \in Merge!Candidate
      BY <1>10, <3>1 DEF Merge!Restored
    <3> QED BY <1>2, <3>2
  <2>5. \A q \in People : decision'[q] \in
          (IF Merge!Merged(q)' THEN Merge!Decisions ELSE {Merge!NoDecision})
    <3>1. ASSUME NEW q \in People
          PROVE  decision'[q] \in (IF Merge!Merged(q)' THEN Merge!Decisions ELSE {Merge!NoDecision})
      <4>1. CASE q = p
        BY <1>1, <1>3, <4>1
      <4>2. CASE q # p
        <5>1. decision'[q] = decision[q]
          BY <1>0, <4>2, UndoneMerges
        <5> QED BY <1>3, <4>2, <5>1 DEF Merge!IInv, Merge!TypeOK
      <4> QED BY <4>1, <4>2
    <3> QED BY <3>1
  <2>6. merges' \in 0..MaxMerges /\ selected' \subseteq Facts
        /\ home' \in [Merge!Records -> People \cup {None}]
        /\ ends' \in [Edges -> Merge!Ends \cup {Merge!NoEnds}]
    BY <1>2 DEF Merge!IInv, Merge!TypeOK
  <2>7. crossed' \subseteq Merge!Records \cup Edges \cup Pairs
    BY <1>2, <1>10 DEF Merge!Crossing, Merge!IInv, Merge!TypeOK
  <2>8. /\ Merge!Decisions' = Merge!Decisions /\ Merge!NoDecision' = Merge!NoDecision
        /\ Merge!Records' = Merge!Records /\ Merge!Ends' = Merge!Ends
        /\ Merge!NoEnds' = Merge!NoEnds /\ Merge!Candidate' = Merge!Candidate
    BY DEF Merge!Decisions, Merge!NoDecision, Merge!Ends, Merge!Candidate, Merge!Records,
           Merge!NoEnds
  <2> QED BY <2>1, <2>2, <2>3, <2>4, <2>5, <2>6, <2>7, <2>8 DEF Merge!TypeOK
\* The records.
<1>12. ASSUME NEW r \in Merge!Records \ crossed'
       PROVE  /\ r \in Merge!Returned(d) =>
                   /\ owner[r] # None /\ p \in Merge!Reach(F, home[r])
                   /\ owner[r] \notin Merge!Reach(F, home[r])
              /\ r \notin Merge!Returned(d) /\ owner[r] # None
                   /\ p \in Merge!Reach(F, home[r]) => owner[r] \in Merge!Reach(F, home[r])
              /\ owner'[r] = IF r \in Merge!Returned(d) THEN p ELSE owner[r]
              /\ owner'[r] # None => owner[r] # None
              /\ owner[r] # None => home[r] \in People
                                    /\ owner[r] \in Merge!Reach(Merge!Into, home[r])
              /\ r \in Merge!Records \ crossed
  <2>1. r \in Merge!Records \ crossed
    BY <1>8
  <2>2. /\ r \in Merge!Returned(d) =>
             /\ owner[r] # None /\ p \in Merge!Reach(F, home[r])
             /\ owner[r] \notin Merge!Reach(F, home[r])
        /\ r \notin Merge!Returned(d) /\ owner[r] # None
             /\ p \in Merge!Reach(F, home[r]) => owner[r] \in Merge!Reach(F, home[r])
    BY <1>0, <1>1, <2>1 DEF Merge!IInv, Merge!RecordsOK
  <2>3. owner[r] # None => home[r] \in People
                           /\ owner[r] \in Merge!Reach(Merge!Into, home[r])
    BY <2>1, FollowParts DEF RecordsFollowed, Merge!IInv, Merge!TypeOK, Merge!RecordsOK
  <2> QED BY <1>2, <2>1, <2>2, <2>3
\* What a later merge finds, and what is found after the last one.
<1>13. ASSUME NEW r \in Merge!Records \ crossed', owner'[r] # None,
              NEW j \in Nat, k < j, NEW B, B = Merge!Before(j), NEW H, H = Without(B, p)
       PROVE  /\ home[r] \in People /\ owner[r] # None
              /\ r \in Merge!Returned(d) => owner'[r] \in Merge!Reach(H, home[r])
              /\ r \notin Merge!Returned(d) =>
                   /\ owner'[r] = owner[r]
                   /\ \/ Merge!Reach(H, home[r]) = Merge!Reach(B, home[r])
                      \/ owner[r] \in Merge!Reach(H, home[r])
              /\ Merge!Reach(H, home[r]) \subseteq Merge!Reach(B, home[r])
  <2>1. home[r] \in People /\ owner[r] # None
    BY <1>12, <1>13
  <2> QED BY <1>6, <1>12, <1>13, <2>1
<1>14. Merge!RecordsOK'
  <2>1. ASSUME NEW r \in Merge!Records \ crossed', owner'[r] # None PROVE home'[r] # None
    BY <1>1, <1>2, <1>12, <2>1
  <2>2. ASSUME NEW q \in People, NEW r \in Merge!Records \ crossed', Merge!Merged(q)',
               NEW j, j = decision[q].id, NEW B, B = Merge!Before(j), NEW H, H = Without(B, p)
        PROVE  IF r \in Merge!Returned(decision[q])
                 THEN /\ owner'[r] # None /\ q \in Merge!Reach(H, home[r])
                      /\ owner'[r] \notin Merge!Reach(H, home[r])
                 ELSE owner'[r] # None /\ q \in Merge!Reach(H, home[r]) =>
                        owner'[r] \in Merge!Reach(H, home[r])
    <3>1. /\ q # p /\ Merge!Merged(q) /\ j \in Nat /\ (j < k \/ k < j)
          /\ r \in Merge!Records \ crossed /\ B \in Forest
      BY <1>4, <1>12, <2>2
    <3>2. IF r \in Merge!Returned(decision[q])
            THEN /\ owner[r] # None /\ q \in Merge!Reach(B, home[r])
                 /\ owner[r] \notin Merge!Reach(B, home[r])
            ELSE owner[r] # None /\ q \in Merge!Reach(B, home[r]) =>
                   owner[r] \in Merge!Reach(B, home[r])
      BY <2>2, <3>1 DEF Merge!IInv, Merge!RecordsOK
    <3>3. CASE j < k
      <4>1. H = B /\ B[p] = None /\ B[q] = None
        BY <1>1, <1>5, <2>2, <3>1, <3>3, MergeDecisions
      <4>2. CASE r \notin Merge!Returned(d)
        BY <1>12, <3>2, <4>1, <4>2
      <4>3. CASE r \in Merge!Returned(d)
        <5>1. home[r] \in People /\ owner'[r] = p /\ owner[r] # None
              /\ owner[r] \notin Merge!Reach(F, home[r])
          BY <1>12, <4>3
        <5>2. Merge!Reach(B, home[r]) \subseteq Merge!Reach(F, home[r])
          BY <1>0, <1>1, <2>2, <3>1, <3>3, <5>1, BeforeGrows
        <5>3. q \in Merge!Reach(B, home[r]) => p \notin Merge!Reach(B, home[r])
          BY <3>1, <4>1, <5>1, ReachEnds
        <5> QED BY <1>1, <3>2, <4>1, <5>1, <5>2, <5>3
      <4> QED BY <4>2, <4>3
    <3>4. CASE k < j
      <4>1. CASE r \in Merge!Returned(d)
        <5>1. r \notin Merge!Returned(decision[q])
          BY <1>8, <2>2, <3>4, <4>1
        <5> QED BY <1>13, <2>2, <3>1, <3>4, <4>1, <5>1
      <4>2. CASE r \notin Merge!Returned(d)
        <5>1. owner'[r] = owner[r]
          BY <1>12, <4>2
        <5>2. CASE owner[r] = None
          BY <3>2, <5>1, <5>2
        <5>3. CASE owner[r] # None
          BY <1>13, <2>2, <3>1, <3>2, <3>4, <4>2, <5>1, <5>3
        <5> QED BY <5>2, <5>3
      <4> QED BY <4>1, <4>2
    <3> QED BY <3>1, <3>3, <3>4
  <2>3. ASSUME NEW q \in People, NEW r \in Merge!Records \ crossed', Merge!Merged(q)'
        PROVE  (LET before == Merge!Reach(Merge!Before(decision[q].id), home[r]) IN
                  IF r \in Merge!Returned(decision[q])
                    THEN owner[r] # None /\ q \in before /\ owner[r] \notin before
                    ELSE owner[r] # None /\ q \in before => owner[r] \in before)'
    <3>1. PICK j, H : j = decision[q].id /\ H = Without(Merge!Before(j), p)
      OBVIOUS
    <3>2. decision'[q] = decision[q] /\ Merge!Before(j)' = H
      BY <1>4, <2>3, <3>1
    <3>3. Merge!Before(decision[q].id)' = H
      BY <3>1, <3>2 DEF Merge!Before
    <3>4. Merge!Reach(Merge!Before(decision[q].id), home[r])' = Merge!Reach(H, home[r])
      BY <1>2, <3>3 DEF Merge!Reach
    <3>5. Merge!Returned(decision[q])' = Merge!Returned(decision[q])
      BY <3>2 DEF Merge!Returned
    <3>6. IF r \in Merge!Returned(decision[q])
            THEN /\ owner'[r] # None /\ q \in Merge!Reach(H, home[r])
                 /\ owner'[r] \notin Merge!Reach(H, home[r])
            ELSE owner'[r] # None /\ q \in Merge!Reach(H, home[r]) =>
                   owner'[r] \in Merge!Reach(H, home[r])
      BY <2>2, <2>3, <3>1
    <3> QED BY <3>4, <3>5, <3>6
  <2>4. Merge!Records' = Merge!Records
    BY DEF Merge!Records
  <2>5. (\A r \in Merge!Records \ crossed : owner[r] # None => home[r] # None)'
    BY <2>1, <2>4
  <2> QED BY <2>3, <2>4, <2>5 DEF Merge!RecordsOK
<1>15. RecordsFollowed'
  <2>1. ASSUME NEW r \in Merge!Records \ crossed', owner'[r] # None
        PROVE  (owner[r] \in Merge!Reach(Merge!Into, home[r]))'
    <3>1. PICK H : H = Without(Merge!Into, p)
      OBVIOUS
    <3>2. owner'[r] \in Merge!Reach(H, home[r])
      BY <1>1, <1>7, <1>12, <1>13, <2>1, <3>1
    <3> QED BY <1>1, <1>2, <3>1, <3>2 DEF Merge!Reach
  <2>2. Merge!Records' = Merge!Records
    BY DEF Merge!Records
  <2> QED BY <2>1, <2>2 DEF RecordsFollowed
\* The relationships.
<1>16. ASSUME NEW e \in Edges
       PROVE  /\ edge'[e] # Merge!NoEnds => edge[e] # Merge!NoEnds \/ e \in DOMAIN d.edges
              /\ edge[e] # Merge!NoEnds => edge'[e] # Merge!NoEnds /\ edge[e] \in Merge!Ends
              /\ edge[e] # Merge!NoEnds /\ e \notin crossed =>
                   ends[e] # Merge!NoEnds /\ ends[e] \in Merge!Ends
              /\ e \in DOMAIN d.edges => d.edges[e] \in Merge!Ends
              /\ edge'[e] = IF e \in DOMAIN d.edges THEN d.edges[e] ELSE edge[e]
  <2>1. /\ edge[e] \in Merge!Ends \cup {Merge!NoEnds} /\ ends[e] \in Merge!Ends \cup {Merge!NoEnds}
        /\ edge[e] # Merge!NoEnds /\ e \notin crossed => ends[e] # Merge!NoEnds
    BY DEF Merge!IInv, Merge!TypeOK, Merge!EdgesOK
  <2>2. e \in DOMAIN d.edges => d.edges[e] # Merge!NoEnds
    <3>1. ASSUME NEW x \in Merge!Ends PROVE x # Merge!NoEnds
      <4>1. x.source # None
        BY <1>1 DEF Merge!Ends
      <4> QED BY <4>1 DEF Merge!NoEnds
    <3> QED BY <1>10, <3>1
  <2>3. edge'[e] = IF e \in DOMAIN d.edges THEN d.edges[e] ELSE edge[e]
    BY <1>2
  <2> QED BY <1>10, <2>1, <2>2, <2>3
<1>17. ASSUME NEW e \in Edges \ crossed'
       PROVE  /\ e \in DOMAIN d.edges =>
                   /\ edge[e] # Merge!NoEnds
                   /\ Merge!StandsFor(F, d.edges[e].source, ends[e].source)
                   /\ Merge!StandsFor(F, d.edges[e].target, ends[e].target)
              /\ e \notin DOMAIN d.edges /\ edge[e] # Merge!NoEnds =>
                   /\ p \notin Merge!Reach(F, ends[e].source)
                   /\ p \notin Merge!Reach(F, ends[e].target)
              /\ edge'[e] # Merge!NoEnds => edge[e] # Merge!NoEnds
              /\ e \in Edges \ crossed
  <2>1. e \in Edges \ crossed
    BY <1>8
  <2>2. IF e \in DOMAIN d.edges
          THEN /\ edge[e] # Merge!NoEnds
               /\ Merge!StandsFor(F, d.edges[e].source, ends[e].source)
               /\ Merge!StandsFor(F, d.edges[e].target, ends[e].target)
          ELSE edge[e] # Merge!NoEnds =>
               /\ p \notin Merge!Reach(F, ends[e].source)
               /\ p \notin Merge!Reach(F, ends[e].target)
    BY <1>0, <1>1, <2>1 DEF Merge!IInv, Merge!EdgesOK
  <2> QED BY <1>16, <2>1, <2>2
\* One of the two ends, in a merge that stands.
<1>18. ASSUME NEW q \in People, Merge!Merged(q)',
              NEW j, j = decision[q].id, NEW B, B = Merge!Before(j), NEW H, H = Without(B, p),
              NEW s \in People
       PROVE  /\ k < j => Merge!Reach(H, s) \subseteq Merge!Reach(B, s)
              /\ j < k \/ p \notin Merge!Reach(F, s) =>
                   /\ Merge!Reach(H, s) = Merge!Reach(B, s)
                   /\ \A y \in People : Merge!StandsFor(B, y, s) => Merge!StandsFor(H, y, s)
  <2>1. j \in Nat /\ (j < k \/ k < j) /\ B \in Forest
    BY <1>4, <1>18
  <2>2. \A y \in People : B[y] = None => H[y] = None
    BY <1>18, <2>1, ReachWithout
  <2>3. CASE j < k
    <3>1. H = B
      BY <1>1, <1>5, <1>18, <2>1, <2>3
    <3> QED BY <1>1, <2>1, <2>3, <3>1
  <2>4. CASE k < j
    BY <1>1, <1>6, <1>18, <2>1, <2>2, <2>4 DEF Merge!StandsFor
  <2> QED BY <2>1, <2>3, <2>4
<1>19. Merge!EdgesOK'
  <2>1. Merge!NoEnds' = Merge!NoEnds
    BY DEF Merge!NoEnds
  <2>2. ASSUME NEW e \in Edges \ crossed', edge'[e] # Merge!NoEnds PROVE ends'[e] # Merge!NoEnds
    BY <1>2, <1>16, <1>17, <2>2
  <2>3. ASSUME NEW q \in People, NEW e \in Edges \ crossed', Merge!Merged(q)',
               NEW j, j = decision[q].id, NEW B, B = Merge!Before(j), NEW H, H = Without(B, p)
        PROVE  IF e \in DOMAIN decision[q].edges
                 THEN /\ edge'[e] # Merge!NoEnds
                      /\ Merge!StandsFor(H, decision[q].edges[e].source, ends[e].source)
                      /\ Merge!StandsFor(H, decision[q].edges[e].target, ends[e].target)
                 ELSE edge'[e] # Merge!NoEnds =>
                      /\ q \notin Merge!Reach(H, ends[e].source)
                      /\ q \notin Merge!Reach(H, ends[e].target)
    <3>1. /\ Merge!Merged(q) /\ decision[q] \in Merge!Decisions /\ (j < k \/ k < j)
          /\ e \in Edges \ crossed
      BY <1>4, <1>17, <2>3
    <3>2. IF e \in DOMAIN decision[q].edges
            THEN /\ edge[e] # Merge!NoEnds
                 /\ Merge!StandsFor(B, decision[q].edges[e].source, ends[e].source)
                 /\ Merge!StandsFor(B, decision[q].edges[e].target, ends[e].target)
            ELSE edge[e] # Merge!NoEnds =>
                 /\ q \notin Merge!Reach(B, ends[e].source)
                 /\ q \notin Merge!Reach(B, ends[e].target)
      BY <2>3, <3>1 DEF Merge!IInv, Merge!EdgesOK
    <3>3. CASE edge[e] = Merge!NoEnds
      BY <1>17, <2>3, <3>2, <3>3
    <3>4. CASE edge[e] # Merge!NoEnds
      <4>1. /\ ends[e].source \in People /\ ends[e].target \in People
            /\ edge'[e] # Merge!NoEnds
        BY <1>16, <3>1, <3>4 DEF Merge!Ends
      <4>2. e \in DOMAIN decision[q].edges =>
              /\ decision[q].edges[e].source \in People /\ decision[q].edges[e].target \in People
        <5>1. e \in DOMAIN decision[q].edges => decision[q].edges[e] \in Merge!Ends
          BY <3>1 DEF Merge!Decisions
        <5> QED BY <5>1 DEF Merge!Ends
      <4>3. CASE e \in DOMAIN d.edges /\ k < j
        <5>1. e \notin DOMAIN decision[q].edges
          BY <1>8, <2>3, <4>3
        <5> QED BY <1>18, <2>3, <3>2, <3>4, <4>1, <4>3, <5>1
      <4>4. CASE j < k
        BY <1>18, <2>3, <3>2, <3>4, <4>1, <4>2, <4>4
      <4>5. CASE e \notin DOMAIN d.edges
        <5>1. /\ p \notin Merge!Reach(F, ends[e].source)
              /\ p \notin Merge!Reach(F, ends[e].target)
          BY <1>17, <2>3, <3>4, <4>5
        <5> QED BY <1>18, <2>3, <3>2, <3>4, <4>1, <4>2, <5>1
      <4> QED BY <3>1, <4>3, <4>4, <4>5
    <3> QED BY <3>3, <3>4
  <2>4. ASSUME NEW q \in People, NEW e \in Edges \ crossed', Merge!Merged(q)'
        PROVE  (LET before == Merge!Before(decision[q].id)
                    x == decision[q] IN
                  IF e \in DOMAIN x.edges
                    THEN /\ edge[e] # Merge!NoEnds
                         /\ Merge!StandsFor(before, x.edges[e].source, ends[e].source)
                         /\ Merge!StandsFor(before, x.edges[e].target, ends[e].target)
                    ELSE edge[e] # Merge!NoEnds =>
                         /\ q \notin Merge!Reach(before, ends[e].source)
                         /\ q \notin Merge!Reach(before, ends[e].target))'
    <3>1. PICK j, H : j = decision[q].id /\ H = Without(Merge!Before(j), p)
      OBVIOUS
    <3>2. decision'[q] = decision[q] /\ Merge!Before(j)' = H
      BY <1>4, <2>4, <3>1
    <3>3. Merge!Before(decision[q].id)' = H
      BY <3>1, <3>2 DEF Merge!Before
    <3>4. IF e \in DOMAIN decision[q].edges
            THEN /\ edge'[e] # Merge!NoEnds
                 /\ Merge!StandsFor(H, decision[q].edges[e].source, ends[e].source)
                 /\ Merge!StandsFor(H, decision[q].edges[e].target, ends[e].target)
            ELSE edge'[e] # Merge!NoEnds =>
                 /\ q \notin Merge!Reach(H, ends[e].source)
                 /\ q \notin Merge!Reach(H, ends[e].target)
      BY <2>3, <2>4, <3>1
    <3> QED BY <1>2, <2>1, <3>2, <3>3, <3>4 DEF Merge!StandsFor, Merge!Reach
  <2>5. (\A e \in Edges \ crossed : edge[e] # Merge!NoEnds => ends[e] # Merge!NoEnds)'
    BY <2>1, <2>2
  <2> QED BY <2>4, <2>5 DEF Merge!EdgesOK
<1>20. EdgesFollowed'
  <2>1. PICK H : H = Without(Merge!Into, p)
    OBVIOUS
  <2>2. /\ Merge!Into \in Forest /\ H \in Forest /\ H[p] = None
        /\ \A y \in People \ {p} : H[y] = Merge!Into[y]
        /\ \A y \in People : Merge!Into[y] = None => H[y] = None
    BY <2>1, MergeForests, ReachWithout
\* Where an end goes back to, no later merge has set out from.
  <2>3. ASSUME NEW e \in Edges \ crossed', e \in DOMAIN d.edges, NEW s \in People,
               NEW y \in People, Merge!StandsFor(F, y, s), edge[e] # Merge!NoEnds,
               \A q \in People : Merge!Merged(q) /\ e \notin DOMAIN decision[q].edges =>
                 q \notin Merge!Reach(Merge!Before(decision[q].id), s)
        PROVE  Merge!StandsFor(H, y, s)
    <3>1. y \in Merge!Reach(F, s) /\ F[y] = None
      BY <2>3 DEF Merge!StandsFor
    <3>2. y \in Merge!Reach(H, s)
      BY <1>1, <1>6, <1>7, <2>1, <2>3, <3>1
    <3>3. ASSUME H[y] # None PROVE FALSE
      <4>1. y # p /\ Merge!Merged(y)
        BY <2>2, <2>3, <3>3, MergeForests DEF Merge!Merged
      <4>2. PICK m : m = decision[y].id
        OBVIOUS
      <4>3. m \in 1..merges /\ m # k /\ person[y].into # None
        BY <1>0, <4>1, <4>2, MergeDecisions, UndoneMerges DEF Merge!Merged
      <4>4. m \notin 1..(k - 1)
        BY <1>0, <3>1, <4>2, <4>3, MergeForests
      <4>5. m \in Nat /\ k < m
        BY <1>1, <4>3, <4>4
      <4>6. e \notin DOMAIN decision[y].edges
        BY <1>8, <2>3, <4>2, <4>5
      <4>7. y \notin Merge!Reach(Merge!Before(m), s)
        BY <2>3, <4>1, <4>2, <4>6
      <4>8. Merge!Reach(F, s) \subseteq Merge!Reach(Merge!Before(m), s)
        BY <1>6, <2>3, <4>5
      <4> QED BY <3>1, <4>7, <4>8
    <3> QED BY <3>2, <3>3 DEF Merge!StandsFor
  <2>4. ASSUME NEW e \in Edges \ crossed', edge'[e] # Merge!NoEnds
        PROVE  /\ Merge!StandsFor(H, edge'[e].source, ends[e].source)
               /\ Merge!StandsFor(H, edge'[e].target, ends[e].target)
    <3>1. /\ edge[e] # Merge!NoEnds /\ e \in Edges \ crossed
          /\ ends[e].source \in People /\ ends[e].target \in People
          /\ edge[e].source \in People /\ edge[e].target \in People
      BY <1>16, <1>17, <2>4 DEF Merge!Ends
    <3>2. CASE e \in DOMAIN d.edges
      <4>1. /\ edge'[e] = d.edges[e]
            /\ d.edges[e].source \in People /\ d.edges[e].target \in People
            /\ Merge!StandsFor(F, d.edges[e].source, ends[e].source)
            /\ Merge!StandsFor(F, d.edges[e].target, ends[e].target)
        BY <1>16, <1>17, <2>4, <3>2 DEF Merge!Ends
      <4>2. \A q \in People : Merge!Merged(q) /\ e \notin DOMAIN decision[q].edges =>
              /\ q \notin Merge!Reach(Merge!Before(decision[q].id), ends[e].source)
              /\ q \notin Merge!Reach(Merge!Before(decision[q].id), ends[e].target)
        BY <3>1 DEF Merge!IInv, Merge!EdgesOK
      <4> QED BY <2>3, <2>4, <3>1, <3>2, <4>1, <4>2
    <3>3. CASE e \notin DOMAIN d.edges
      <4>1. edge'[e] = edge[e] /\ p \notin Merge!Reach(F, ends[e].source)
            /\ p \notin Merge!Reach(F, ends[e].target)
        BY <1>16, <1>17, <2>4, <3>1, <3>3
      <4>2. /\ Merge!StandsFor(Merge!Into, edge[e].source, ends[e].source)
            /\ Merge!StandsFor(Merge!Into, edge[e].target, ends[e].target)
        BY <3>1, FollowParts DEF Merge!IInv, EdgesFollowed
      <4>3. \A s \in People : p \notin Merge!Reach(F, s) =>
              Merge!Reach(H, s) = Merge!Reach(Merge!Into, s)
        BY <1>1, <1>6, <1>7, <2>1
      <4> QED BY <2>2, <3>1, <4>1, <4>2, <4>3 DEF Merge!StandsFor
    <3> QED BY <3>2, <3>3
  <2>5. Merge!NoEnds' = Merge!NoEnds
    BY DEF Merge!NoEnds
  <2>6. ASSUME NEW e \in Edges \ crossed', edge'[e] # Merge!NoEnds
        PROVE  (/\ Merge!StandsFor(Merge!Into, edge[e].source, ends[e].source)
                /\ Merge!StandsFor(Merge!Into, edge[e].target, ends[e].target))'
    BY <1>1, <1>2, <2>1, <2>4, <2>6 DEF Merge!StandsFor, Merge!Reach
  <2> QED BY <2>5, <2>6 DEF EdgesFollowed
\* The candidates.
<1>21. Merge!CandidatesOK'
  <2>1. ASSUME NEW c \in Pairs, NEW x, x.by # k, NEW i, Merge!Marked(c, x, i)
        PROVE  Merge!Marked(c, x, i)'
    <3>1. \A q \in People \ {p} : decision'[q] = decision[q]
      BY <1>0, UndoneMerges
    <3> QED BY <1>0, <1>1, <2>1, <3>1, MarkedRemains
  <2>2. ASSUME NEW c \in Pairs \ crossed', NEW x, x = candidate'[c] PROVE Merge!Marked(c, x, n)'
    <3>1. candidate[c] \in Merge!Candidate /\ Merge!Marked(c, candidate[c], n) /\ c \notin crossed
      BY <1>0, <1>8 DEF Merge!IInv, Merge!TypeOK, Merge!CandidatesOK
    <3>2. x = Merge!Restored(c, d)
      BY <1>2, <2>2
    <3>3. CASE c \in DOMAIN d.seen /\ candidate[c] = [state |-> "cancelled", by |-> k]
      <4>1. x = d.seen[c] /\ x.by \in Nat
        BY <1>0, <1>10, <3>2, <3>3, MergeConstants DEF Merge!Restored, Merge!Candidate
      <4>2. Merge!Marked(c, x, k)
        BY <1>0, <1>1, <3>1, <3>3, <4>1 DEF Merge!IInv, Merge!CandidatesOK
      <4>3. x.by # 0 => x.by < k
        BY <4>2 DEF Merge!Marked
      <4>4. x.by # k /\ Merge!Marked(c, x, n)
        BY <1>0, <1>1, <4>1, <4>2, <4>3 DEF Merge!Marked
      <4> QED BY <2>1, <4>4
    <3>4. CASE ~(c \in DOMAIN d.seen /\ candidate[c] = [state |-> "cancelled", by |-> k])
      <4>1. x = candidate[c] /\ Merge!Marked(c, x, n)
        BY <1>0, <3>1, <3>2, <3>4 DEF Merge!Restored
      <4>2. ASSUME x.by = k PROVE FALSE
        <5>1. c \subseteq People /\ x.by # 0
          BY <1>1, <4>2, MergeAssumption DEF Merge!PersonMergeAssumption
        <5>2. PICK h \in c : decision[h].id = k /\ c \in DOMAIN decision[h].seen
          BY <4>1, <4>2, <5>1 DEF Merge!Marked
        <5>3. h = p
          BY <1>0, <1>1, <5>1, <5>2, MergeDecisions
        <5>4. x.state = "cancelled"
          BY <4>1, <5>1 DEF Merge!Marked
        <5>5. candidate[c] = [state |-> "cancelled", by |-> k]
          BY <3>1, <4>1, <4>2, <5>4 DEF Merge!Candidate
        <5> QED BY <1>0, <3>4, <5>2, <5>3, <5>5
      <4> QED BY <2>1, <4>1, <4>2
    <3> QED BY <3>3, <3>4
  <2>3. ASSUME NEW c \in Pairs \ crossed' PROVE Merge!Marked(c, candidate[c], merges + 1)'
    <3>1. PICK x : x = candidate'[c]
      OBVIOUS
    <3>2. Merge!Marked(c, x, n)'
      BY <2>2, <3>1
    <3> QED BY <1>0, <1>2, <3>1, <3>2 DEF Merge!Marked
  <2>4. ASSUME NEW q \in People, Merge!Merged(q)', NEW c \in DOMAIN decision[q].seen,
               NEW x, x = decision[q].seen[c], NEW j, j = decision[q].id
        PROVE  q \in c /\ (c \notin crossed' => Merge!Marked(c, x, j)')
    <3>1. /\ decision[q] \in Merge!Decisions /\ j \in Nat /\ (j < k \/ k < j)
          /\ Merge!Merged(q)
      BY <1>4, <2>4
    <3>2. c \in Pairs /\ x.by \in Nat
      BY <2>4, <3>1, MergeConstants DEF Merge!Decisions, Merge!Candidate
    <3>3. q \in c /\ (c \notin crossed => Merge!Marked(c, x, j))
      BY <2>4, <3>1 DEF Merge!IInv, Merge!CandidatesOK
    <3>4. ASSUME c \notin crossed' PROVE Merge!Marked(c, x, j)'
      <4>1. Merge!Marked(c, x, j)
        BY <1>8, <3>3, <3>4
      <4>2. x.by # 0 => x.by < j
        BY <4>1 DEF Merge!Marked
      <4>3. k < j => x.by # k
        BY <1>8, <2>4, <3>2, <3>4
      <4>4. x.by # k
        BY <1>1, <3>1, <3>2, <4>2, <4>3
      <4> QED BY <2>1, <3>2, <4>1, <4>4
    <3> QED BY <3>3, <3>4
  <2>5. ASSUME NEW q \in People, Merge!Merged(q)', NEW c \in DOMAIN decision'[q].seen
        PROVE  q \in c
                 /\ (c \notin crossed' => Merge!Marked(c, decision[q].seen[c], decision[q].id)')
    <3>1. PICK x, j : x = decision'[q].seen[c] /\ j = decision'[q].id
      OBVIOUS
    <3>2. q \in c /\ (c \notin crossed' => Merge!Marked(c, x, j)')
      BY <1>4, <2>4, <2>5, <3>1
    <3> QED BY <3>1, <3>2 DEF Merge!Marked
  <2> QED BY <2>3, <2>5 DEF Merge!CandidatesOK
<1>22. Merge!ReadsOK'
  BY <1>1, <1>2 DEF Merge!ReadsOK
<1> QED
  BY <1>9, <1>11, <1>14, <1>15, <1>19, <1>20, <1>21, <1>22, MergeAssembled DEF MergeParts

LEMMA MergeStep == ASSUME Merge!IInv, [Merge!Next]_mergeVars PROVE Merge!IInv'
<1>1. CASE UNCHANGED mergeVars
  <2>1. CalmStep
    BY <1>1 DEF mergeVars, CalmStep
  <2>2. UNCHANGED <<owner, home, edge, ends, candidate, merging>>
    BY <1>1 DEF mergeVars
  <2>3. Merge!TypeOK'
    BY <1>1, <2>1, MergesCalm DEF mergeVars, Merge!IInv, Merge!TypeOK
  <2> QED
    BY <2>1, <2>2, <2>3, MergesCalm, RecordsCalm, EdgesCalm, CandidatesCalm, ReadsCalm,
       MergeAssembled DEF MergeParts
<1>2. CASE Merge!Next
  BY <1>2, CreateRecordStep, SelectStep, CreateEdgeStep, CandidateStep, ReadsStep,
     MergeWritesStep, UnmergeStep DEF Merge!Next
<1> QED BY <1>1, <1>2

LEMMA MergeInit == Merge!Init => Merge!IInv
<1> SUFFICES ASSUME Merge!Init PROVE Merge!IInv
  OBVIOUS
<1>1. /\ \A p \in People : person[p].into = None /\ decision[p] = Merge!NoDecision
      /\ \A r \in Merge!Records : owner[r] = None
      /\ \A e \in Edges : edge[e] = Merge!NoEnds
      /\ \A c \in Pairs : candidate[c].by = 0
      /\ merging = None /\ merges = 0 /\ 0 \in 0..MaxMerges
  BY MergeConstants DEF Merge!Init
<1>2. Merge!TypeOK
  <2>1. [into |-> None, name |-> None] \in [into : People \cup {None}, name : Names \cup {None}]
        /\ [state |-> "absent", by |-> 0] \in Merge!Candidate
    BY <1>1 DEF Merge!Candidate
  <2> QED BY <1>1, <2>1 DEF Merge!Init, Merge!TypeOK, Merge!Merged
<1>3. Merge!MergesOK
  BY <1>1 DEF Merge!Init, Merge!MergesOK, Merge!Merged
<1>4. Merge!ReadsOK /\ Merge!CandidatesOK /\ Merge!RecordsOK /\ Merge!EdgesOK
  BY <1>1
  DEF Merge!ReadsOK, Merge!CandidatesOK, Merge!RecordsOK, Merge!EdgesOK, Merge!Merged,
      Merge!Marked
<1>5. Merge!RecordsFollow
  BY <1>1 DEF Merge!RecordsFollow, Merge!RecordFollows, Merge!EdgeFollows
<1> QED BY <1>2, <1>3, <1>4, <1>5 DEF Merge!IInv

LEMMA MergeInvariance == Merge!Spec => []Merge!IInv
<1>1. Merge!IInv /\ [Merge!Next]_(Merge!vars) => Merge!IInv'
  BY MergeStep DEF mergeVars, Merge!vars, Merge!records
<1> QED BY MergeInit, <1>1, PTL DEF Merge!Spec

LEMMA MergeTypes == Merge!Spec => []Merge!TypeOK
<1>1. Merge!IInv => Merge!TypeOK
  BY DEF Merge!IInv
<1> QED BY MergeInvariance, <1>1, PTL

-----------------------------------------------------------------------------
(* The index: transactions that change no committed row. *)

LEMMA SearchConstants ==
  /\ Operations \subseteq Search!Kinds /\ None \notin Search!Fact
  /\ None \notin Search!Def /\ None \notin Search!Doc
BY SearchAssumption DEF Search!SearchIndexAssumption

LEMMA SearchIdle == Search!Idle \in Search!Tx
BY DEF Search!Idle, Search!Tx, Search!Kinds, Search!Phases

\* The facts that every transaction starts its step from.
LEMMA SearchFacts ==
  ASSUME Search!IInv, NEW c \in Clients
  PROVE  /\ tx \in [Clients -> Search!Tx] /\ tx[c] \in Search!Tx
         /\ fact \in Search!Fact /\ def \in Search!Def /\ doc \in Search!Doc \cup {None}
         /\ searchClock \in Nat /\ Search!NotAhead(fact, doc)
         /\ Search!FactIsHeld(tx[c]) /\ Search!Stages(c) /\ Search!Progress(c)
         /\ Search!OneAtATime /\ Search!OneWritesTheFact
BY DEF Search!IInv, Search!TypeOK

\* A transaction writes the version after the committed one.
LEMMA SearchAdvances ==
  ASSUME Search!IInv, NEW c \in Clients
  PROVE  /\ Search!FactOf(c) \in Search!Fact /\ Search!DefOf(c) \in Search!Def
         /\ Search!FactOf(c).version \in Nat /\ fact.version \in Nat
         /\ fact.version <= Search!FactOf(c).version
         /\ tx[c].fact # None /\ tx[c].kind = "revise" => Search!HoldsFact(c) /\ fact.version > 0
         /\ tx[c].fact # None /\ tx[c].kind # "revise" => fact.version = 0
<1>1. /\ tx[c] \in Search!Tx /\ fact \in Search!Fact /\ def \in Search!Def
      /\ Search!FactIsHeld(tx[c]) /\ Search!Stages(c)
  BY SearchFacts
<1>2. /\ tx[c].fact \in Search!Fact \cup {None} /\ tx[c].def \in Search!Def \cup {None}
      /\ tx[c].seen \in Nat /\ fact.version \in Nat
  BY <1>1 DEF Search!Tx, Search!Fact
<1>3. Search!FactOf(c) \in Search!Fact /\ Search!DefOf(c) \in Search!Def
  BY <1>1, <1>2 DEF Search!FactOf, Search!DefOf
<1>4. ASSUME tx[c].fact # None
      PROVE  /\ Search!FactOf(c).version = tx[c].seen + 1 /\ fact.version = tx[c].seen
             /\ tx[c].kind = "revise" => Search!HoldsFact(c) /\ fact.version > 0
             /\ tx[c].kind # "revise" => fact.version = 0
  <2>1. tx[c].phase \notin {"idle", "fact"}
    BY <1>1, <1>4 DEF Search!Stages
  <2>2. /\ tx[c].kind \in {"create", "createUnlocked", "revise"}
        /\ Search!FactOf(c).version = tx[c].seen + 1
    BY <1>1, <1>4 DEF Search!FactIsHeld, Search!FactOf
  <2> QED BY <1>1, <1>4, <2>1, <2>2 DEF Search!FactIsHeld, Search!HoldsFact
<1>5. CASE tx[c].fact # None
  BY <1>2, <1>3, <1>4, <1>5
<1>6. CASE tx[c].fact = None
  BY <1>2, <1>3, <1>6 DEF Search!FactOf
<1> QED BY <1>5, <1>6

LEMMA SearchQuiet ==
  ASSUME Search!IInv, NEW c \in Clients, NEW s \in Search!Tx,
         tx' = [tx EXCEPT ![c] = s], UNCHANGED <<fact, def, doc, unsure>>, searchClock' \in Nat,
         s.phase = "idle" => s = Search!Idle,
         Search!OneAtATime', Search!OneWritesTheFact',
         Search!FactIsHeld(s), Search!Stages(c)', Search!Progress(c)'
  PROVE  Search!IInv'
<1>1. tx \in [Clients -> Search!Tx]
  BY DEF Search!IInv, Search!TypeOK
<1>2. tx'[c] = s /\ \A o \in Search!Others(c) : tx'[o] = tx[o]
  BY <1>1 DEF Search!Others
<1>3. Search!TypeOK'
  <2>1. tx' \in [Clients -> Search!Tx]
    BY <1>1
  <2>2. ASSUME NEW o \in Clients, tx'[o].phase = "idle" PROVE tx'[o] = Search!Idle
    BY <1>1, <1>2, <2>2 DEF Search!IInv, Search!TypeOK, Search!At, Search!Others
  <2> QED BY <2>1, <2>2 DEF Search!IInv, Search!TypeOK, Search!At
<1>4. Search!NotAhead(fact, doc)' /\ (~unsure => Search!Right(fact, def, doc))'
  BY DEF Search!IInv, Search!NotAhead, Search!Right
<1>5. ASSUME NEW o \in Clients
      PROVE  Search!FactIsHeld(tx[o])' /\ Search!Stages(o)' /\ Search!Progress(o)'
  <2>1. CASE o = c
    BY <1>2, <2>1 DEF Search!FactIsHeld
  <2>2. CASE o # c
    <3>1. /\ tx'[o] = tx[o] /\ Search!FactIsHeld(tx[o]) /\ Search!Stages(o)
          /\ Search!Progress(o)
      BY <1>2, <2>2 DEF Search!Others, Search!IInv
    <3>2. Search!FactIsHeld(tx[o])'
      BY <3>1 DEF Search!FactIsHeld
    <3>3. Search!Stages(o)'
      BY <3>1 DEF Search!Stages, Search!FactOf, Search!NotAhead
    <3>4. Search!Progress(o)'
      BY <3>1 DEF Search!Progress, Search!FactOf, Search!DefOf, Search!Right
    <3> QED BY <3>2, <3>3, <3>4
  <2> QED BY <2>1, <2>2
<1> QED BY <1>3, <1>4, <1>5 DEF Search!IInv

\* A transaction that takes no lock beside those it has, and writes no fact.
LEMMA SearchKeepsLocks ==
  ASSUME Search!IInv, NEW c \in Clients,
         \A o \in Search!Others(c) :
           tx'[o].kind = tx[o].kind /\ tx'[o].phase = tx[o].phase /\ tx'[o].fact = tx[o].fact,
         Search!HoldsDefinition(c)' =>
           Search!HoldsDefinition(c) \/ \A o \in Search!Others(c) : ~Search!HoldsDefinition(o),
         Search!HoldsFact(c)' =>
           Search!HoldsFact(c) \/ \A o \in Search!Others(c) : ~Search!HoldsFact(o),
         tx'[c].fact # None =>
           tx[c].fact # None \/ \A o \in Search!Others(c) : tx[o].fact = None
  PROVE  Search!OneAtATime' /\ Search!OneWritesTheFact'
<1>1. Search!OneAtATime /\ Search!OneWritesTheFact
  BY SearchFacts
<1>2. \A o \in Search!Others(c) : /\ Search!HoldsDefinition(o)' => Search!HoldsDefinition(o)
                                  /\ Search!HoldsFact(o)' => Search!HoldsFact(o)
  BY DEF Search!HoldsDefinition, Search!HoldsFact
<1>3. ASSUME NEW d \in Clients, NEW o \in Search!Others(d)
      PROVE  /\ ~(Search!HoldsDefinition(d)' /\ Search!HoldsDefinition(o)')
             /\ ~(Search!HoldsFact(d)' /\ Search!HoldsFact(o)')
             /\ ~(tx'[d].fact # None /\ tx'[o].fact # None)
  <2>1. /\ ~(Search!HoldsDefinition(d) /\ Search!HoldsDefinition(o))
        /\ ~(Search!HoldsFact(d) /\ Search!HoldsFact(o))
        /\ ~(tx[d].fact # None /\ tx[o].fact # None)
    BY <1>1, <1>3 DEF Search!OneAtATime, Search!OneWritesTheFact
  <2>2. CASE d = c
    BY <1>2, <1>3, <2>1, <2>2
  <2>3. CASE o = c
    <3>1. d \in Search!Others(c)
      BY <1>3, <2>3 DEF Search!Others
    <3> QED BY <1>2, <2>1, <2>3, <3>1
  <2>4. CASE d # c /\ o # c
    <3>1. d \in Search!Others(c) /\ o \in Search!Others(c)
      BY <1>3, <2>4 DEF Search!Others
    <3> QED BY <1>2, <2>1, <3>1
  <2> QED BY <2>2, <2>3, <2>4
<1> QED BY <1>3 DEF Search!OneAtATime, Search!OneWritesTheFact, Search!Others

LEMMA SearchRollback ==
  ASSUME Search!IInv, NEW c \in Clients, Search!Rollback(c), UNCHANGED <<fact, def, doc, unsure>>,
         searchClock' \in Nat
  PROVE  Search!IInv'
<1>1. PICK s : s = Search!Idle
  OBVIOUS
<1>2. s \in Search!Tx /\ tx' = [tx EXCEPT ![c] = s] /\ s.phase = "idle" /\ s.fact = None
  BY <1>1, SearchIdle DEF Search!Rollback, Search!Idle
<1>3. Search!FactIsHeld(s)
  BY <1>1 DEF Search!FactIsHeld, Search!Idle
<1>4. tx'[c] = s /\ \A o \in Search!Others(c) : tx'[o] = tx[o]
  BY <1>2, SearchFacts DEF Search!Others
<1>5. Search!Progress(c)' /\ Search!Stages(c)'
  BY <1>1, <1>4 DEF Search!Progress, Search!Stages, Search!NotAhead, Search!Idle
<1>6. Search!OneAtATime' /\ Search!OneWritesTheFact'
  BY <1>2, <1>4, SearchKeepsLocks DEF Search!HoldsDefinition, Search!HoldsFact
<1> QED BY <1>1, <1>2, <1>3, <1>5, <1>6, SearchQuiet

LEMMA SearchBeginStep ==
  ASSUME Search!IInv, NEW c \in Clients, NEW kind \in Operations,
         Search!Begin(c, kind)
  PROVE  Search!IInv'
<1>1. PICK s : s = [Search!Idle EXCEPT !.kind = kind, !.phase = Search!FirstPhase(kind),
                      !.id = searchClock + 1,
                      !.seen = IF kind = "define" THEN def.version ELSE fact.version,
                      !.version = fact.version]
  OBVIOUS
<1>2. /\ tx' = [tx EXCEPT ![c] = s] /\ searchClock' \in Nat
      /\ UNCHANGED <<fact, def, doc, unsure>>
      /\ kind \in {"create", "createUnlocked"} => fact.version = 0
      /\ kind \in {"revise", "reindex"} => fact.version > 0
  BY <1>1, SearchFacts DEF Search!Begin, Search!tables
<1>3. kind \in Search!Kinds
  BY SearchConstants
<1>4. /\ s.kind = kind /\ s.phase = Search!FirstPhase(kind)
      /\ s.seen = (IF kind = "define" THEN def.version ELSE fact.version)
      /\ s.version = fact.version /\ s.fact = None /\ s.def = None
      /\ s.deleted = None /\ s.inserted = None
  BY <1>1 DEF Search!Idle
<1>5. /\ s.phase \in {"fact", "check", "write", "definition"}
      /\ s.phase = "fact" <=> kind = "revise"
      /\ s.phase = "check" <=> kind = "reindex"
      /\ s.phase = "write" <=> kind = "createUnlocked"
      /\ s.phase = "definition" <=> kind \in {"create", "define"}
  BY <1>3, <1>4 DEF Search!FirstPhase, Search!Kinds
<1>6. s \in Search!Tx
  <2>1. s.phase \in Search!Phases
    BY <1>5 DEF Search!Phases
  <2>2. def.version \in Nat /\ fact.version \in Nat /\ searchClock + 1 \in Nat
    BY SearchFacts DEF Search!Def, Search!Fact
  <2> QED BY <1>1, <1>3, <1>4, <2>1, <2>2 DEF Search!Tx, Search!Idle
<1>7. tx'[c] = s /\ \A o \in Search!Others(c) : tx'[o] = tx[o]
  BY <1>2, SearchFacts DEF Search!Others
<1>8. Search!OneAtATime' /\ Search!OneWritesTheFact'
  <2>1. ~Search!HoldsDefinition(c)' /\ ~Search!HoldsFact(c)' /\ tx'[c].fact = None
    BY <1>4, <1>5, <1>7 DEF Search!HoldsDefinition, Search!HoldsFact
  <2> QED BY <1>7, <2>1, SearchKeepsLocks
<1>9. Search!FactIsHeld(s)
  BY <1>2, <1>4, <1>5 DEF Search!FactIsHeld
<1>10. Search!Stages(c)'
  BY <1>3, <1>4, <1>5, <1>7 DEF Search!Stages, Search!NotAhead, Search!Kinds
<1>11. Search!Progress(c)'
  <2>1. s.phase = "check" => Search!FactOf(c)'.version = s.version /\ s.version > 0
    BY <1>2, <1>4, <1>5, <1>7 DEF Search!FactOf
  <2> QED BY <1>5, <1>7, <2>1 DEF Search!Progress
<1> QED BY <1>2, <1>5, <1>6, <1>8, <1>9, <1>10, <1>11, SearchQuiet

\* What is left of a transaction that only its phase is changed of.
Same(s, r) ==
  /\ s.kind = r.kind /\ s.id = r.id /\ s.seen = r.seen /\ s.version = r.version
  /\ s.fact = r.fact /\ s.def = r.def /\ s.deleted = r.deleted /\ s.inserted = r.inserted
  /\ s.beside = r.beside

LEMMA SearchGoto ==
  ASSUME Search!IInv, NEW c \in Clients, NEW ph \in Search!Phases, Search!Goto(c, ph)
  PROVE  \E s \in Search!Tx :
           /\ tx' = [tx EXCEPT ![c] = s] /\ tx'[c] = s /\ s.phase = ph
           /\ Same(s, tx[c]) /\ s.loaded = tx[c].loaded
           /\ \A o \in Search!Others(c) : tx'[o] = tx[o]
<1>1. PICK s : s = [tx[c] EXCEPT !.phase = ph]
  OBVIOUS
<1>2. s \in Search!Tx /\ s.phase = ph /\ Same(s, tx[c]) /\ s.loaded = tx[c].loaded
  BY <1>1, SearchFacts DEF Search!Tx, Same
<1>3. /\ tx' = [tx EXCEPT ![c] = s] /\ tx'[c] = s
      /\ \A o \in Search!Others(c) : tx'[o] = tx[o]
  BY <1>1, SearchFacts DEF Search!Goto, Search!Others
<1> QED BY <1>2, <1>3

LEMMA SearchPhases ==
  /\ "commit" \in Search!Phases /\ "load" \in Search!Phases /\ "check" \in Search!Phases
  /\ "aim" \in Search!Phases /\ "delete" \in Search!Phases /\ "insert" \in Search!Phases
  /\ "definition" \in Search!Phases /\ "write" \in Search!Phases /\ "list" \in Search!Phases
BY DEF Search!Phases

\* A transaction that goes on, behind its locks and after its write.
LEMMA SearchGoesOn ==
  ASSUME Search!IInv, NEW c \in Clients, NEW s \in Search!Tx,
         tx' = [tx EXCEPT ![c] = s], UNCHANGED <<fact, def, doc, unsure>>, searchClock' \in Nat,
         Same(s, tx[c]) \/ (s.kind = tx[c].kind /\ s.fact = tx[c].fact /\ s.seen = tx[c].seen),
         tx[c].phase \notin {"idle", "fact", "definition", "write"}, s.phase # "idle",
         Search!Stages(c)', Search!Progress(c)'
  PROVE  Search!IInv'
<1>1. tx'[c] = s /\ \A o \in Search!Others(c) : tx'[o] = tx[o]
  BY SearchFacts DEF Search!Others
<1>2. s.kind = tx[c].kind /\ s.fact = tx[c].fact /\ s.seen = tx[c].seen
  BY DEF Same
<1>3. Search!OneAtATime' /\ Search!OneWritesTheFact'
  BY <1>1, <1>2, SearchKeepsLocks DEF Search!HoldsDefinition, Search!HoldsFact
<1>4. Search!FactIsHeld(s)
  BY <1>2, SearchFacts DEF Search!FactIsHeld
<1> QED BY <1>3, <1>4, SearchQuiet

-----------------------------------------------------------------------------
(* The index: the locks and the writes. *)

LEMMA SearchLockFactStep ==
  ASSUME Search!IInv, NEW c \in Clients, Search!LockFact(c)
  PROVE  Search!IInv'
<1>1. UNCHANGED <<fact, def, doc, unsure>> /\ searchClock' \in Nat
  BY SearchFacts DEF Search!LockFact, Search!tables
<1>2. CASE fact.version # tx[c].seen
  BY <1>1, <1>2, SearchRollback DEF Search!LockFact
<1>3. CASE fact.version = tx[c].seen
  <2>1. Search!Goto(c, "definition")
    BY <1>3 DEF Search!LockFact
  <2>2. PICK s \in Search!Tx :
           /\ tx' = [tx EXCEPT ![c] = s] /\ tx'[c] = s /\ s.phase = "definition"
           /\ Same(s, tx[c]) /\ s.loaded = tx[c].loaded
           /\ \A o \in Search!Others(c) : tx'[o] = tx[o]
    BY <2>1, SearchGoto, SearchPhases
  <2>3. /\ tx[c].phase = "fact" /\ tx[c].kind = "revise"
        /\ tx[c].fact = None /\ tx[c].def = None
        /\ tx[c].deleted = None /\ tx[c].inserted = None
    BY SearchFacts DEF Search!LockFact, Search!At, Search!Stages
  <2>4. /\ s.kind = "revise" /\ s.seen = tx[c].seen /\ s.fact = None /\ s.def = None
        /\ s.deleted = None /\ s.inserted = None
    BY <2>2, <2>3 DEF Same
  <2>5. Search!OneAtATime' /\ Search!OneWritesTheFact'
    <3>1. ~Search!HoldsDefinition(c)' /\ tx'[c].fact = None
      BY <2>2, <2>4 DEF Search!HoldsDefinition
    <3> QED BY <2>2, <3>1, SearchKeepsLocks DEF Search!LockFact
  <2>6. Search!FactIsHeld(s)
    <3>1. s.seen > 0
      BY <2>3, <2>4, SearchFacts DEF Search!FactIsHeld
    <3> QED BY <1>3, <2>4, <3>1 DEF Search!FactIsHeld
  <2>7. Search!Stages(c)'
    BY <2>2, <2>4 DEF Search!Stages, Search!NotAhead
  <2>8. Search!Progress(c)'
    BY <2>2 DEF Search!Progress
  <2> QED BY <1>1, <2>2, <2>5, <2>6, <2>7, <2>8, SearchQuiet
<1> QED BY <1>2, <1>3

LEMMA SearchLockDefinitionStep ==
  ASSUME Search!IInv, NEW c \in Clients, Search!LockDefinition(c)
  PROVE  Search!IInv'
<1>1. UNCHANGED <<fact, def, doc, unsure>> /\ searchClock' \in Nat
  BY SearchFacts DEF Search!LockDefinition, Search!tables
<1>2. CASE ~def.active
  BY <1>1, <1>2, SearchRollback DEF Search!LockDefinition
<1>3. CASE def.active
  <2>1. Search!Goto(c, "write")
    BY <1>3 DEF Search!LockDefinition
  <2>2. PICK s \in Search!Tx :
           /\ tx' = [tx EXCEPT ![c] = s] /\ tx'[c] = s /\ s.phase = "write"
           /\ Same(s, tx[c]) /\ s.loaded = tx[c].loaded
           /\ \A o \in Search!Others(c) : tx'[o] = tx[o]
    BY <2>1, SearchGoto, SearchPhases
  <2>3. /\ tx[c].phase = "definition" /\ tx[c].kind \in {"create", "revise"}
        /\ tx[c].fact = None /\ tx[c].def = None
        /\ tx[c].deleted = None /\ tx[c].inserted = None
    BY SearchFacts DEF Search!LockDefinition, Search!At, Search!Stages
  <2>4. /\ s.kind = tx[c].kind /\ s.seen = tx[c].seen /\ s.fact = None /\ s.def = None
        /\ s.deleted = None /\ s.inserted = None
    BY <2>2, <2>3 DEF Same
  <2>5. Search!OneAtATime' /\ Search!OneWritesTheFact'
    <3>1. Search!HoldsFact(c)' => Search!HoldsFact(c)
      BY <2>2, <2>3, <2>4 DEF Search!HoldsFact
    <3>2. \A o \in Search!Others(c) : ~Search!HoldsDefinition(o)
      BY DEF Search!LockDefinition, Search!DefinitionIsFree
    <3>3. tx'[c].fact = None
      BY <2>2, <2>4
    <3> QED BY <2>2, <3>1, <3>2, <3>3, SearchKeepsLocks
  <2>6. Search!FactIsHeld(s)
    BY <2>3, <2>4, SearchFacts DEF Search!FactIsHeld
  <2>7. Search!Stages(c)'
    BY <2>2, <2>3, <2>4 DEF Search!Stages, Search!NotAhead
  <2>8. Search!Progress(c)'
    BY <2>2 DEF Search!Progress
  <2> QED BY <1>1, <2>2, <2>5, <2>6, <2>7, <2>8, SearchQuiet
<1> QED BY <1>2, <1>3

\* Nobody else has written the fact when a transaction does.
LEMMA SearchWritesAlone ==
  ASSUME Search!IInv, NEW c \in Clients, tx[c].phase = "write",
         ~(tx[c].kind # "revise" /\ \E o \in Clients : fact.version > 0 \/ tx[o].fact # None),
         NEW o \in Search!Others(c)
  PROVE  tx[o].fact = None
<1>1. o \in Clients /\ fact.version \in Nat
  BY SearchFacts DEF Search!Others, Search!Fact
<1>2. CASE tx[c].kind # "revise"
  BY <1>1, <1>2
<1>3. CASE tx[c].kind = "revise"
  <2>1. Search!HoldsFact(c) /\ fact.version > 0
    BY <1>3, SearchFacts DEF Search!HoldsFact, Search!FactIsHeld
  <2>2. ~Search!HoldsFact(o)
    BY <2>1, SearchFacts DEF Search!OneAtATime
  <2> QED BY <1>1, <2>1, <2>2, SearchAdvances
<1> QED BY <1>2, <1>3

LEMMA SearchWriteFactStep ==
  ASSUME Search!IInv, NEW c \in Clients, Search!WriteFact(c)
  PROVE  Search!IInv'
<1>1. UNCHANGED <<fact, def, doc, unsure>> /\ searchClock' \in Nat
  BY SearchFacts DEF Search!WriteFact, Search!tables
<1>2. PICK stamp : stamp = IF tx[c].kind = "createUnlocked" THEN tx[c].id
                           ELSE searchClock + 1
  OBVIOUS
<1>3. CASE tx[c].kind # "revise" /\ \E o \in Clients : fact.version > 0 \/ tx[o].fact # None
  BY <1>1, <1>3, SearchRollback DEF Search!WriteFact
<1>4. CASE ~(tx[c].kind # "revise" /\ \E o \in Clients : fact.version > 0 \/ tx[o].fact # None)
  <2>1. PICK f : f = [version |-> tx[c].seen + 1, stamp |-> stamp]
    OBVIOUS
  <2>2. PICK s : s = [tx[c] EXCEPT !.fact = f, !.version = tx[c].seen + 1, !.phase = "check"]
    OBVIOUS
  <2>3. f \in Search!Fact /\ f.version = tx[c].seen + 1 /\ f # None
    <3>1. stamp \in Nat /\ tx[c].seen + 1 \in Nat
      BY <1>2, SearchFacts DEF Search!Tx
    <3> QED BY <2>1, <3>1, SearchConstants DEF Search!Fact
  <2>4. tx[c].seen \in Nat /\ tx[c].seen + 1 \in Nat /\ tx[c].seen + 1 > 0
    BY SearchFacts DEF Search!Tx
  <2>5. s \in Search!Tx
    BY <2>2, <2>3, <2>4, SearchFacts, SearchPhases DEF Search!Tx
  <2>6. /\ s.phase = "check" /\ s.fact = f /\ s.version = tx[c].seen + 1
        /\ s.kind = tx[c].kind /\ s.seen = tx[c].seen /\ s.def = tx[c].def
        /\ s.deleted = tx[c].deleted /\ s.inserted = tx[c].inserted
    BY <2>2, SearchFacts DEF Search!Tx
  <2>7. tx' = [tx EXCEPT ![c] = s]
    <3>1. tx' = [tx EXCEPT ![c].fact = f, ![c].version = tx[c].seen + 1, ![c].phase = "check"]
      BY <1>2, <1>4, <2>1 DEF Search!WriteFact
    <3> QED BY <2>2, <3>1, SearchFacts
  <2>8. tx'[c] = s /\ \A o \in Search!Others(c) : tx'[o] = tx[o]
    BY <2>7, SearchFacts DEF Search!Others
  <2>9. /\ tx[c].phase = "write" /\ tx[c].kind \in {"create", "createUnlocked", "revise"}
        /\ tx[c].def = None /\ tx[c].deleted = None /\ tx[c].inserted = None
    BY SearchFacts DEF Search!WriteFact, Search!At, Search!Stages
  <2>10. Search!OneAtATime' /\ Search!OneWritesTheFact'
    <3>1. Search!HoldsDefinition(c)' => Search!HoldsDefinition(c)
      BY <2>6, <2>8, <2>9 DEF Search!HoldsDefinition
    <3>2. Search!HoldsFact(c)' => Search!HoldsFact(c)
      BY <2>6, <2>8, <2>9 DEF Search!HoldsFact
    <3>3. \A o \in Search!Others(c) : tx[o].fact = None
      BY <1>4, <2>9, SearchWritesAlone
    <3> QED BY <2>8, <3>1, <3>2, <3>3, SearchKeepsLocks
  <2>11. Search!FactIsHeld(s)
    <3>1. CASE tx[c].kind = "revise"
      BY <2>3, <2>6, <2>9, <3>1, SearchFacts DEF Search!FactIsHeld
    <3>2. CASE tx[c].kind # "revise"
      <4>1. fact.version = 0
        BY <1>4, <3>2, SearchFacts DEF Search!Fact
      <4> QED BY <2>3, <2>6, <2>9, <3>2, <4>1, SearchFacts DEF Search!FactIsHeld
    <3> QED BY <3>1, <3>2
  <2>12. Search!Stages(c)'
    <3>1. tx'[c].phase = "check" /\ tx'[c].def = None /\ tx'[c].deleted = None
          /\ tx'[c].inserted = None
      BY <2>6, <2>8, <2>9
    <3> QED BY <3>1 DEF Search!Stages, Search!NotAhead
  <2>13. Search!Progress(c)'
    <3>1. Search!FactOf(c)' = f
      BY <2>3, <2>6, <2>8 DEF Search!FactOf
    <3> QED BY <2>3, <2>4, <2>6, <2>8, <3>1 DEF Search!Progress
  <2> QED BY <1>1, <2>5, <2>6, <2>7, <2>10, <2>11, <2>12, <2>13, SearchQuiet
<1> QED BY <1>3, <1>4

LEMMA SearchWriteDefinitionStep ==
  ASSUME Search!IInv, NEW c \in Clients, Search!WriteDefinition(c)
  PROVE  Search!IInv'
<1>1. UNCHANGED <<fact, def, doc, unsure>> /\ searchClock' \in Nat
  BY SearchFacts DEF Search!WriteDefinition, Search!tables
<1>2. CASE def.version # tx[c].seen
  BY <1>1, <1>2, SearchRollback DEF Search!WriteDefinition
<1>3. CASE def.version = tx[c].seen
  <2>1. PICK active \in BOOLEAN :
          tx' = [tx EXCEPT ![c].phase = "list",
                           ![c].def = [version |-> def.version + 1, active |-> active,
                                       stamp |-> tx[c].id]]
    BY <1>3 DEF Search!WriteDefinition
  <2>2. PICK d : d = [version |-> def.version + 1, active |-> active, stamp |-> tx[c].id]
    OBVIOUS
  <2>3. d \in Search!Def
    <3>1. def.version + 1 \in Nat /\ tx[c].id \in Nat
      BY SearchFacts DEF Search!Def, Search!Tx
    <3> QED BY <2>1, <2>2, <3>1 DEF Search!Def
  <2>4. PICK s : s = [tx[c] EXCEPT !.phase = "list", !.def = d]
    OBVIOUS
  <2>5. s \in Search!Tx
    BY <2>3, <2>4, SearchFacts, SearchPhases DEF Search!Tx
  <2>6. /\ s.phase = "list" /\ s.def = d
        /\ s.kind = tx[c].kind /\ s.seen = tx[c].seen /\ s.fact = tx[c].fact
        /\ s.deleted = tx[c].deleted /\ s.inserted = tx[c].inserted
    BY <2>4, SearchFacts DEF Search!Tx
  <2>7. tx' = [tx EXCEPT ![c] = s]
    BY <2>1, <2>2, <2>4, SearchFacts
  <2>8. tx'[c] = s /\ \A o \in Search!Others(c) : tx'[o] = tx[o]
    BY <2>7, SearchFacts DEF Search!Others
  <2>9. /\ tx[c].phase = "definition" /\ tx[c].kind = "define"
        /\ tx[c].fact = None /\ tx[c].deleted = None /\ tx[c].inserted = None
    BY SearchFacts DEF Search!WriteDefinition, Search!At, Search!Stages
  <2>10. Search!OneAtATime' /\ Search!OneWritesTheFact'
    <3>1. ~Search!HoldsFact(c)' /\ tx'[c].fact = None
      BY <2>6, <2>8, <2>9 DEF Search!HoldsFact
    <3>2. \A o \in Search!Others(c) : ~Search!HoldsDefinition(o)
      BY DEF Search!WriteDefinition, Search!DefinitionIsFree
    <3> QED BY <2>8, <3>1, <3>2, SearchKeepsLocks
  <2>11. Search!FactIsHeld(s)
    BY <2>6, <2>9, SearchFacts DEF Search!FactIsHeld
  <2>12. Search!Stages(c)'
    <3>1. tx'[c].phase = "list" /\ tx'[c].kind = "define" /\ tx'[c].fact = None
          /\ tx'[c].deleted = None /\ tx'[c].inserted = None
      BY <2>6, <2>8, <2>9
    <3> QED BY <3>1 DEF Search!Stages, Search!NotAhead
  <2>13. Search!Progress(c)'
    BY <2>6, <2>8 DEF Search!Progress
  <2> QED BY <1>1, <2>5, <2>6, <2>7, <2>10, <2>11, <2>12, <2>13, SearchQuiet
<1> QED BY <1>2, <1>3

-----------------------------------------------------------------------------
(* The index: the refresh. *)

LEMMA SearchListStep ==
  ASSUME Search!IInv, NEW c \in Clients, Search!List(c)
  PROVE  Search!IInv'
<1>1. UNCHANGED <<fact, def, doc, unsure>> /\ searchClock' \in Nat
  BY SearchFacts DEF Search!List, Search!tables
<1>2. /\ tx[c].phase = "list" /\ tx[c].kind = "define" /\ tx[c].fact = None
      /\ tx[c].deleted = None /\ tx[c].inserted = None
  BY SearchFacts DEF Search!List, Search!At, Search!Stages
<1>3. fact.version \in Nat
  BY SearchFacts DEF Search!Fact
<1>4. CASE Search!Dependents(c) = {}
  <2>1. fact.version = 0
    BY <1>3, <1>4 DEF Search!Dependents
  <2>2. Search!Goto(c, "commit")
    BY <1>4 DEF Search!List
  <2>3. PICK s \in Search!Tx :
           /\ tx' = [tx EXCEPT ![c] = s] /\ tx'[c] = s /\ s.phase = "commit"
           /\ Same(s, tx[c]) /\ s.loaded = tx[c].loaded
           /\ \A o \in Search!Others(c) : tx'[o] = tx[o]
    BY <2>2, SearchGoto, SearchPhases
  <2>4. s.kind = "define" /\ s.fact = None /\ s.inserted = None
    BY <1>2, <2>3 DEF Same
  <2>5. Search!Stages(c)'
    BY <2>3, <2>4 DEF Search!Stages, Search!NotAhead
  <2>6. Search!Progress(c)'
    BY <1>1, <2>1, <2>3, <2>4 DEF Search!Progress, Search!Right, Search!FactOf
  <2> QED BY <1>1, <1>2, <2>3, <2>5, <2>6, SearchGoesOn
<1>5. CASE Search!Dependents(c) # {}
  <2>1. fact.version > 0 /\ Search!Dependents(c) = {fact.version}
    BY <1>5 DEF Search!Dependents
  <2>2. tx' = [tx EXCEPT ![c].version = fact.version, ![c].phase = "check"]
    BY <1>5, <2>1 DEF Search!List
  <2>3. PICK s : s = [tx[c] EXCEPT !.version = fact.version, !.phase = "check"]
    OBVIOUS
  <2>4. s \in Search!Tx
    BY <1>3, <2>3, SearchFacts, SearchPhases DEF Search!Tx
  <2>5. /\ s.phase = "check" /\ s.version = fact.version /\ s.kind = tx[c].kind
        /\ s.seen = tx[c].seen /\ s.fact = tx[c].fact /\ s.def = tx[c].def
        /\ s.deleted = tx[c].deleted /\ s.inserted = tx[c].inserted
    BY <2>3, SearchFacts DEF Search!Tx
  <2>6. tx' = [tx EXCEPT ![c] = s] /\ tx'[c] = s
    BY <2>2, <2>3, SearchFacts
  <2>7. Search!Stages(c)'
    BY <1>2, <2>5, <2>6 DEF Search!Stages, Search!NotAhead
  <2>8. Search!Progress(c)'
    BY <1>1, <1>2, <2>1, <2>5, <2>6 DEF Search!Progress, Search!FactOf
  <2> QED BY <1>1, <1>2, <2>4, <2>5, <2>6, <2>7, <2>8, SearchGoesOn
<1> QED BY <1>4, <1>5

\* What a transaction has in sight is as it was, if it has not written a row again.
LEMMA SearchSight ==
  ASSUME NEW c \in Clients, UNCHANGED <<fact, def>>,
         tx'[c].fact = tx[c].fact, tx'[c].def = tx[c].def
  PROVE  Search!FactOf(c)' = Search!FactOf(c) /\ Search!DefOf(c)' = Search!DefOf(c)
BY DEF Search!FactOf, Search!DefOf

\* The index has a later version only after a write that has overtaken this one.
LEMMA SearchCheckStep ==
  ASSUME Search!IInv, NEW c \in Clients, Search!Check(c)
  PROVE  Search!IInv'
<1>1. UNCHANGED <<fact, def, doc, unsure>> /\ searchClock' \in Nat
  BY SearchFacts DEF Search!Check, Search!tables
<1>2. /\ tx[c].phase = "check" /\ tx[c].deleted = None /\ tx[c].inserted = None
      /\ tx[c].def # None => tx[c].kind = "define"
  BY SearchFacts DEF Search!Check, Search!At, Search!Stages
<1>3. CASE Search!DocOf(c) # None /\ Search!DocOf(c).version > tx[c].version
  <2>1. Search!Goto(c, "commit")
    BY <1>3 DEF Search!Check
  <2>2. PICK s \in Search!Tx :
           /\ tx' = [tx EXCEPT ![c] = s] /\ tx'[c] = s /\ s.phase = "commit"
           /\ Same(s, tx[c]) /\ s.loaded = tx[c].loaded
           /\ \A o \in Search!Others(c) : tx'[o] = tx[o]
    BY <2>1, SearchGoto, SearchPhases
  <2>3. tx[c].beside
    <3>1. SUFFICES ASSUME ~tx[c].beside PROVE FALSE
      OBVIOUS
    <3>2. Search!FactOf(c).version = tx[c].version
      BY <1>2, <3>1, SearchFacts DEF Search!Progress
    <3>3. doc # None /\ doc.version > tx[c].version
      BY <1>2, <1>3 DEF Search!DocOf
    <3>4. doc.version <= fact.version /\ doc.version \in Nat
      BY <3>3, SearchFacts DEF Search!NotAhead, Search!Doc
    <3>5. /\ fact.version <= Search!FactOf(c).version
          /\ fact.version \in Nat /\ Search!FactOf(c).version \in Nat
      BY SearchAdvances
    <3> QED BY <3>2, <3>3, <3>4, <3>5
  <2>4. s.beside /\ s.kind = tx[c].kind /\ s.def = tx[c].def /\ s.inserted = None
    BY <1>2, <2>2, <2>3 DEF Same
  <2>5. Search!Stages(c)'
    BY <1>2, <2>2, <2>4 DEF Search!Stages, Search!NotAhead
  <2>6. Search!Progress(c)'
    BY <2>2, <2>4 DEF Search!Progress
  <2> QED BY <1>1, <1>2, <2>2, <2>5, <2>6, SearchGoesOn
<1>4. CASE ~(Search!DocOf(c) # None /\ Search!DocOf(c).version > tx[c].version)
  <2>1. Search!Goto(c, "load")
    BY <1>4 DEF Search!Check
  <2>2. PICK s \in Search!Tx :
           /\ tx' = [tx EXCEPT ![c] = s] /\ tx'[c] = s /\ s.phase = "load"
           /\ Same(s, tx[c]) /\ s.loaded = tx[c].loaded
           /\ \A o \in Search!Others(c) : tx'[o] = tx[o]
    BY <2>1, SearchGoto, SearchPhases
  <2>3. /\ s.kind = tx[c].kind /\ s.fact = tx[c].fact /\ s.def = tx[c].def
        /\ s.deleted = None /\ s.inserted = None
        /\ s.version = tx[c].version /\ s.beside = tx[c].beside
    BY <1>2, <2>2 DEF Same
  <2>4. Search!Stages(c)'
    BY <1>2, <2>2, <2>3 DEF Search!Stages, Search!NotAhead
  <2>5. Search!Progress(c)'
    <3>1. Search!FactOf(c)' = Search!FactOf(c)
      BY <1>1, <2>2, <2>3, SearchSight
    <3> QED BY <1>2, <2>2, <2>3, <3>1, SearchFacts DEF Search!Progress
  <2> QED BY <1>1, <1>2, <2>2, <2>4, <2>5, SearchGoesOn
<1> QED BY <1>3, <1>4

LEMMA SearchLoadStep ==
  ASSUME Search!IInv, NEW c \in Clients, Search!Load(c)
  PROVE  Search!IInv'
<1>1. UNCHANGED <<fact, def, doc, unsure>> /\ searchClock' \in Nat
  BY SearchFacts DEF Search!Load, Search!tables
<1>2. /\ tx[c].phase = "load" /\ tx[c].deleted = None /\ tx[c].inserted = None
      /\ tx[c].def # None => tx[c].kind = "define"
  BY SearchFacts DEF Search!Load, Search!At, Search!Stages
<1>3. PICK f, d : f = Search!FactOf(c) /\ d = Search!DefOf(c)
  OBVIOUS
<1>4. ~tx[c].beside => f.version = tx[c].version
  BY <1>2, <1>3, SearchFacts DEF Search!Progress
<1>5. f \in Search!Fact /\ d \in Search!Def /\ tx[c].id \in Nat
  BY <1>3, SearchFacts, SearchAdvances DEF Search!Tx
<1>6. PICK x : x = IF f.version = tx[c].version /\ d.active
                   THEN [version |-> f.version, of |-> d.version, id |-> tx[c].id,
                         stamp |-> IF f.stamp > d.stamp THEN f.stamp ELSE d.stamp]
                   ELSE None
  OBVIOUS
<1>7. /\ x \in Search!Doc \cup {None} /\ Search!NotAhead(f, x)
      /\ ~tx[c].beside => Search!Right(f, d, x)
  <2>1. CASE f.version = tx[c].version /\ d.active
    <3>1. /\ f.version \in Nat /\ d.version \in Nat /\ f.stamp \in Nat /\ d.stamp \in Nat
      BY <1>5 DEF Search!Fact, Search!Def
    <3>2. x = [version |-> f.version, of |-> d.version, id |-> tx[c].id,
               stamp |-> IF f.stamp > d.stamp THEN f.stamp ELSE d.stamp]
      BY <1>6, <2>1
    <3>3. x \in Search!Doc
      BY <1>5, <3>1, <3>2 DEF Search!Doc
    <3>4. x # None /\ x.version = f.version /\ x.of = d.version
      BY <3>2, <3>3, SearchConstants
    <3>5. f.stamp <= x.stamp /\ d.stamp <= x.stamp
      BY <3>1, <3>2
    <3> QED BY <2>1, <3>1, <3>3, <3>4, <3>5 DEF Search!Right, Search!NotAhead
  <2>2. CASE ~(f.version = tx[c].version /\ d.active)
    BY <1>4, <1>6, <2>2 DEF Search!Right, Search!NotAhead
  <2> QED BY <2>1, <2>2
<1>8. PICK s : s = [tx[c] EXCEPT !.phase = "aim", !.loaded = x]
  OBVIOUS
<1>9. s \in Search!Tx
  BY <1>7, <1>8, SearchFacts, SearchPhases DEF Search!Tx
<1>10. /\ s.phase = "aim" /\ s.loaded = x /\ Same(s, tx[c])
  BY <1>8, SearchFacts DEF Search!Tx, Same
<1>11. tx' = [tx EXCEPT ![c] = s] /\ tx'[c] = s
  <2>1. tx' = [tx EXCEPT ![c].phase = "aim", ![c].loaded = x]
    BY <1>3, <1>6 DEF Search!Load
  <2> QED BY <1>8, <2>1, SearchFacts
<1>12. /\ s.kind = tx[c].kind /\ s.fact = tx[c].fact /\ s.def = tx[c].def
       /\ s.deleted = None /\ s.inserted = None /\ s.beside = tx[c].beside
  BY <1>2, <1>10 DEF Same
<1>13. Search!FactOf(c)' = f /\ Search!DefOf(c)' = d
  BY <1>1, <1>3, <1>11, <1>12, SearchSight
<1>14. Search!Stages(c)'
  <2>1. Search!NotAhead(Search!FactOf(c), tx[c].loaded)'
    BY <1>7, <1>10, <1>11, <1>13 DEF Search!NotAhead
  <2> QED BY <1>2, <1>10, <1>11, <1>12, <2>1 DEF Search!Stages, Search!NotAhead
<1>15. Search!Progress(c)'
  <2>1. ~s.beside => Search!Right(Search!FactOf(c), Search!DefOf(c), tx[c].loaded)'
    BY <1>7, <1>10, <1>11, <1>12, <1>13 DEF Search!Right
  <2> QED BY <1>10, <1>11, <2>1 DEF Search!Progress
<1> QED BY <1>1, <1>2, <1>9, <1>10, <1>11, <1>14, <1>15, SearchGoesOn

\* A transaction in the midst of its refresh keeps the document that it has made.
LEMMA SearchKeeps ==
  ASSUME Search!IInv, NEW c \in Clients, NEW s \in Search!Tx,
         UNCHANGED <<fact, def>>, tx'[c] = s,
         tx[c].phase \in {"aim", "delete", "insert"}, s.phase \in {"delete", "insert"},
         s.kind = tx[c].kind, s.fact = tx[c].fact, s.def = tx[c].def,
         s.loaded = tx[c].loaded, s.beside = tx[c].beside, s.inserted = tx[c].inserted,
         s.phase = "delete" => s.deleted = None
  PROVE  Search!Stages(c)' /\ Search!Progress(c)'
<1>1. Search!FactOf(c)' = Search!FactOf(c) /\ Search!DefOf(c)' = Search!DefOf(c)
  BY SearchSight
<1>2. /\ tx[c].inserted = None
      /\ tx[c].def # None => tx[c].kind = "define"
      /\ Search!NotAhead(Search!FactOf(c), tx[c].loaded)
      /\ ~tx[c].beside => Search!Right(Search!FactOf(c), Search!DefOf(c), tx[c].loaded)
  BY SearchFacts DEF Search!Stages, Search!Progress
<1>3. /\ Search!NotAhead(Search!FactOf(c), tx[c].loaded)'
      /\ ~s.beside => Search!Right(Search!FactOf(c), Search!DefOf(c), tx[c].loaded)'
  BY <1>1, <1>2 DEF Search!NotAhead, Search!Right
<1>4. /\ tx'[c].inserted = None /\ tx'[c].phase \in {"delete", "insert"}
      /\ tx'[c].phase = "delete" => tx'[c].deleted = None
      /\ tx'[c].def # None => tx'[c].kind = "define"
  BY <1>2
<1>5. Search!Stages(c)'
  <2>1. Search!NotAhead(Search!FactOf(c), tx[c].inserted)'
    BY <1>4 DEF Search!NotAhead
  <2> QED BY <1>3, <1>4, <2>1 DEF Search!Stages
<1>6. Search!Progress(c)'
  BY <1>3, <1>4 DEF Search!Progress
<1> QED BY <1>5, <1>6

LEMMA SearchAimStep ==
  ASSUME Search!IInv, NEW c \in Clients, Search!Aim(c)
  PROVE  Search!IInv'
<1>1. UNCHANGED <<fact, def, doc, unsure>> /\ searchClock' \in Nat
  BY SearchFacts DEF Search!Aim, Search!tables
<1>2. tx[c].phase = "aim" /\ tx[c].deleted = None /\ tx[c].inserted = None
  BY SearchFacts DEF Search!Aim, Search!At, Search!Stages
<1>3. Search!DocOf(c) \in Search!Doc \cup {None}
  BY <1>2, SearchFacts DEF Search!DocOf
<1>4. PICK s : s = [tx[c] EXCEPT !.phase = "delete", !.target = Search!DocOf(c)]
  OBVIOUS
<1>5. s \in Search!Tx
  BY <1>3, <1>4, SearchFacts, SearchPhases DEF Search!Tx
<1>6. s.phase = "delete" /\ Same(s, tx[c]) /\ s.loaded = tx[c].loaded
  BY <1>4, SearchFacts DEF Search!Tx, Same
<1>7. tx' = [tx EXCEPT ![c] = s] /\ tx'[c] = s
  BY <1>4, SearchFacts DEF Search!Aim
<1>8. Search!Stages(c)' /\ Search!Progress(c)'
  BY <1>1, <1>2, <1>5, <1>6, <1>7, SearchKeeps DEF Same
<1> QED BY <1>1, <1>2, <1>5, <1>6, <1>7, <1>8, SearchGoesOn

LEMMA SearchDeleteStep ==
  ASSUME Search!IInv, NEW c \in Clients, Search!Delete(c)
  PROVE  Search!IInv'
<1>1. UNCHANGED <<fact, def, doc, unsure>> /\ searchClock' \in Nat
  BY SearchFacts DEF Search!Delete, Search!tables
<1>2. tx[c].phase = "delete"
  BY DEF Search!Delete, Search!At
<1>3. PICK x \in Search!Doc \cup {None} : x = IF tx[c].target = doc THEN doc ELSE None
  BY SearchFacts
<1>4. PICK s : s = [tx[c] EXCEPT !.phase = "insert", !.deleted = x]
  OBVIOUS
<1>5. s \in Search!Tx
  BY <1>4, SearchFacts, SearchPhases DEF Search!Tx
<1>6. /\ s.phase = "insert" /\ s.kind = tx[c].kind /\ s.seen = tx[c].seen
      /\ s.fact = tx[c].fact /\ s.def = tx[c].def /\ s.loaded = tx[c].loaded
      /\ s.beside = tx[c].beside /\ s.inserted = tx[c].inserted
  BY <1>4, SearchFacts DEF Search!Tx
<1>7. tx' = [tx EXCEPT ![c] = s] /\ tx'[c] = s
  BY <1>3, <1>4, SearchFacts DEF Search!Delete
<1>8. Search!Stages(c)' /\ Search!Progress(c)'
  BY <1>1, <1>2, <1>5, <1>6, <1>7, SearchKeeps
<1> QED BY <1>1, <1>2, <1>5, <1>6, <1>7, <1>8, SearchGoesOn

LEMMA SearchInsertStep ==
  ASSUME Search!IInv, NEW c \in Clients, Search!Insert(c)
  PROVE  Search!IInv'
<1>1. UNCHANGED <<fact, def, doc, unsure>> /\ searchClock' \in Nat
  BY SearchFacts DEF Search!Insert, Search!tables
<1>2. /\ tx[c].phase = "insert" /\ tx[c].inserted = None
      /\ tx[c].def # None => tx[c].kind = "define"
      /\ Search!NotAhead(Search!FactOf(c), tx[c].loaded)
      /\ ~tx[c].beside => Search!Right(Search!FactOf(c), Search!DefOf(c), tx[c].loaded)
  BY SearchFacts DEF Search!Insert, Search!At, Search!Stages, Search!Progress
<1>3. CASE Search!Rollback(c)
  BY <1>1, <1>3, SearchRollback
<1>4. CASE ~Search!Rollback(c)
  <2>1. PICK s : s = [tx[c] EXCEPT !.phase = "commit", !.inserted = tx[c].loaded]
    OBVIOUS
  <2>2. s \in Search!Tx
    BY <2>1, SearchFacts, SearchPhases DEF Search!Tx
  <2>3. /\ s.phase = "commit" /\ s.inserted = tx[c].loaded /\ s.kind = tx[c].kind
        /\ s.seen = tx[c].seen /\ s.fact = tx[c].fact /\ s.def = tx[c].def
        /\ s.beside = tx[c].beside
    BY <2>1, SearchFacts DEF Search!Tx
  <2>4. tx' = [tx EXCEPT ![c] = s]
    <3>1. CASE tx[c].loaded = None
      <4>1. Search!Goto(c, "commit")
        BY <3>1 DEF Search!Insert
      <4>2. s = [tx[c] EXCEPT !.phase = "commit"]
        BY <1>2, <2>1, <3>1, SearchFacts DEF Search!Tx
      <4> QED BY <4>1, <4>2 DEF Search!Goto
    <3>2. CASE tx[c].loaded # None
      <4>1. tx' = [tx EXCEPT ![c].phase = "commit", ![c].inserted = tx[c].loaded]
        BY <1>4, <3>2 DEF Search!Insert
      <4> QED BY <2>1, <4>1, SearchFacts
    <3> QED BY <3>1, <3>2
  <2>5. tx'[c] = s
    BY <2>4, SearchFacts
  <2>6. Search!FactOf(c)' = Search!FactOf(c) /\ Search!DefOf(c)' = Search!DefOf(c)
    BY <1>1, <2>3, <2>5, SearchSight
  <2>7. Search!Stages(c)'
    <3>1. Search!NotAhead(Search!FactOf(c), tx[c].inserted)'
      BY <1>2, <2>3, <2>5, <2>6 DEF Search!NotAhead
    <3> QED BY <1>2, <2>3, <2>5, <3>1 DEF Search!Stages
  <2>8. Search!Progress(c)'
    <3>1. ~s.beside => Search!Right(Search!FactOf(c), Search!DefOf(c), tx[c].inserted)'
      BY <1>2, <2>3, <2>5, <2>6 DEF Search!Right
    <3> QED BY <2>3, <2>5, <3>1 DEF Search!Progress
  <2> QED BY <1>1, <1>2, <2>2, <2>3, <2>4, <2>7, <2>8, SearchGoesOn
<1> QED BY <1>3, <1>4

-----------------------------------------------------------------------------
(* The index: what is committed, and what that does to a transaction beside it. *)

LEMMA SearchCommits ==
  ASSUME Search!IInv, NEW c \in Clients, Search!Commit(c)
  PROVE  /\ fact' = Search!FactOf(c) /\ def' = Search!DefOf(c) /\ doc' = Search!DocOf(c)
         /\ searchClock' = searchClock /\ tx[c].phase = "commit"
         /\ unsure' = (tx[c].beside /\ (unsure \/ <<fact, def, doc>>' # <<fact, def, doc>>))
         /\ tx'[c] = Search!Idle
         /\ \A o \in Search!Others(c) :
              tx'[o] = [tx[o] EXCEPT !.beside = tx[o].beside \/ Search!Overtakes(c, o)]
<1>1. tx' = [o \in Clients |-> IF o = c THEN Search!Idle
                ELSE [tx[o] EXCEPT !.beside = tx[o].beside \/ Search!Overtakes(c, o)]]
  BY DEF Search!Commit
<1> QED BY <1>1 DEF Search!Commit, Search!At, Search!tables, Search!Others

\* Beside a commit a transaction only learns that it has been overtaken.
LEMMA SearchLearns ==
  ASSUME Search!IInv, NEW c \in Clients, Search!Commit(c), NEW o \in Search!Others(c)
  PROVE  /\ o \in Clients /\ tx'[o] \in Search!Tx
         /\ tx'[o].kind = tx[o].kind /\ tx'[o].phase = tx[o].phase
         /\ tx'[o].seen = tx[o].seen /\ tx'[o].version = tx[o].version
         /\ tx'[o].fact = tx[o].fact /\ tx'[o].def = tx[o].def
         /\ tx'[o].loaded = tx[o].loaded /\ tx'[o].deleted = tx[o].deleted
         /\ tx'[o].inserted = tx[o].inserted
         /\ tx'[o].beside = (tx[o].beside \/ Search!Overtakes(c, o))
<1>1. o \in Clients /\ tx[o] \in Search!Tx
  BY SearchFacts DEF Search!Others
<1>2. PICK b : b = (tx[o].beside \/ Search!Overtakes(c, o))
  OBVIOUS
<1>3. b \in BOOLEAN
  <2>1. tx[o].beside \in BOOLEAN
    BY <1>1 DEF Search!Tx
  <2>2. Search!Overtakes(c, o) \in BOOLEAN
    BY DEF Search!Overtakes, Search!At
  <2> QED BY <1>2, <2>1, <2>2
<1>4. tx'[o] = [tx[o] EXCEPT !.beside = b]
  BY <1>2, SearchCommits
<1> QED BY <1>1, <1>2, <1>3, <1>4 DEF Search!Tx

LEMMA SearchCommitTypes ==
  ASSUME Search!IInv, NEW c \in Clients, Search!Commit(c)
  PROVE  Search!TypeOK'
<1>1. fact' \in Search!Fact /\ def' \in Search!Def /\ searchClock' \in Nat
  BY SearchCommits, SearchAdvances, SearchFacts
<1>2. doc' \in Search!Doc \cup {None}
  <2>1. tx[c].inserted \in Search!Doc \cup {None} /\ doc \in Search!Doc \cup {None}
    BY SearchFacts DEF Search!Tx
  <2> QED BY <2>1, SearchCommits DEF Search!DocOf
<1>3. unsure' \in BOOLEAN
  BY SearchCommits, SearchFacts DEF Search!Tx
<1>4. ASSUME NEW o \in Clients
      PROVE  tx'[o] \in Search!Tx /\ (tx'[o].phase = "idle" => tx'[o] = Search!Idle)
  <2>1. CASE o = c
    BY <2>1, SearchCommits, SearchIdle
  <2>2. CASE o # c
    <3>1. o \in Search!Others(c)
      BY <2>2 DEF Search!Others
    <3>2. tx'[o] = [tx[o] EXCEPT !.beside = tx[o].beside \/ Search!Overtakes(c, o)]
      BY <3>1, SearchCommits
    <3>3. ASSUME tx'[o].phase = "idle" PROVE tx'[o] = Search!Idle
      <4>1. tx[o].phase = "idle"
        BY <3>1, <3>3, SearchLearns
      <4>2. tx[o] = Search!Idle
        BY <4>1 DEF Search!IInv, Search!TypeOK, Search!At
      <4>3. ~Search!Overtakes(c, o) /\ tx[o].beside = FALSE
        BY <4>1, <4>2 DEF Search!Overtakes, Search!At, Search!Idle
      <4>4. [tx[o] EXCEPT !.beside = FALSE] = tx[o]
        <5>1. tx[o] \in Search!Tx
          BY <3>1, SearchFacts DEF Search!Others
        <5> QED BY <4>3, <5>1 DEF Search!Tx
      <4>5. tx'[o] = [tx[o] EXCEPT !.beside = FALSE]
        BY <3>2, <4>3
      <4> QED BY <4>2, <4>4, <4>5
    <3> QED BY <3>1, <3>3, SearchLearns
  <2> QED BY <2>1, <2>2
<1>5. tx' \in [Clients -> Search!Tx]
  <2>1. tx' = [o \in Clients |-> tx'[o]]
    BY DEF Search!Commit
  <2> QED BY <1>4, <2>1
<1> QED BY <1>1, <1>2, <1>3, <1>4, <1>5 DEF Search!TypeOK, Search!At

LEMMA SearchCommitRight ==
  ASSUME Search!IInv, NEW c \in Clients, Search!Commit(c)
  PROVE  Search!NotAhead(fact, doc)' /\ (~unsure => Search!Right(fact, def, doc))'
<1>1. /\ Search!Stages(c) /\ Search!Progress(c) /\ Search!NotAhead(fact, doc)
      /\ ~unsure => Search!Right(fact, def, doc)
  BY SearchFacts DEF Search!IInv
<1>2. Search!NotAhead(fact', doc')
  <2>1. CASE tx[c].inserted # None
    BY <1>1, <2>1, SearchCommits DEF Search!DocOf, Search!Stages, Search!NotAhead
  <2>2. CASE tx[c].inserted = None /\ doc' # None
    <3>1. doc' = doc /\ doc # None
      BY <2>2, SearchCommits DEF Search!DocOf
    <3>2. doc.version \in Nat /\ doc.version <= fact.version
      BY <1>1, <3>1, SearchFacts DEF Search!Doc, Search!NotAhead
    <3>3. fact.version \in Nat /\ fact'.version \in Nat /\ fact.version <= fact'.version
      BY SearchAdvances, SearchCommits
    <3> QED BY <3>1, <3>2, <3>3 DEF Search!NotAhead
  <2>3. CASE doc' = None
    BY <2>3 DEF Search!NotAhead
  <2> QED BY <2>1, <2>2, <2>3
<1>3. ASSUME ~unsure' PROVE Search!Right(fact', def', doc')
  <2>1. CASE ~tx[c].beside
    <3>1. Search!Right(fact', def', tx[c].inserted)
      BY <1>1, <2>1, SearchCommits DEF Search!Progress
    <3>2. tx[c].inserted # None => doc' = tx[c].inserted
      BY SearchCommits DEF Search!DocOf
    <3> QED BY <3>1, <3>2 DEF Search!Right
  <2>2. CASE tx[c].beside
    <3>1. ~unsure /\ fact' = fact /\ def' = def /\ doc' = doc
      BY <1>3, <2>2, SearchCommits
    <3> QED BY <1>1, <3>1
  <2> QED BY <2>1, <2>2
<1> QED BY <1>2, <1>3 DEF Search!NotAhead, Search!Right

\* A commit changes no fact under the lock of another transaction.
LEMMA SearchCommitHeld ==
  ASSUME Search!IInv, NEW c \in Clients, Search!Commit(c), NEW o \in Search!Others(c)
  PROVE  Search!FactIsHeld(tx[o])'
<1>1. o \in Clients /\ Search!FactIsHeld(tx[o])
  BY SearchFacts DEF Search!Others
<1>2. CASE tx[c].fact = None
  <2>1. fact' = fact
    BY <1>2, SearchCommits DEF Search!FactOf
  <2> QED BY <1>1, <2>1, SearchLearns DEF Search!FactIsHeld
<1>3. CASE tx[c].fact # None
  <2>1. tx[o].fact = None
    BY <1>3, SearchFacts DEF Search!OneWritesTheFact
  <2>2. ~Search!HoldsFact(o)
    <3>1. SUFFICES ASSUME Search!HoldsFact(o) PROVE FALSE
      OBVIOUS
    <3>2. fact.version > 0
      BY <1>1, <3>1 DEF Search!HoldsFact, Search!FactIsHeld
    <3>3. Search!HoldsFact(c)
      BY <1>3, <3>2, SearchAdvances
    <3> QED BY <3>1, <3>3, SearchFacts DEF Search!OneAtATime
  <2> QED BY <1>1, <2>1, <2>2, SearchLearns DEF Search!FactIsHeld, Search!HoldsFact
<1> QED BY <1>2, <1>3

LEMMA SearchCommitStages ==
  ASSUME Search!IInv, NEW c \in Clients, Search!Commit(c), NEW o \in Search!Others(c)
  PROVE  Search!Stages(o)'
<1>1. o \in Clients /\ Search!Stages(o) /\ tx[o] \in Search!Tx
  BY SearchFacts DEF Search!Others
<1>2. /\ Search!FactOf(o).version \in Nat /\ (Search!FactOf(o)').version \in Nat
      /\ Search!FactOf(o).version <= (Search!FactOf(o)').version
  <2>1. fact.version \in Nat /\ fact'.version \in Nat /\ fact.version <= fact'.version
    BY SearchAdvances, SearchCommits
  <2>2. Search!FactOf(o).version \in Nat
    BY <1>1, SearchAdvances
  <2> QED BY <2>1, <2>2, SearchLearns DEF Search!FactOf
<1>3. ASSUME NEW x \in Search!Doc \cup {None}, Search!NotAhead(Search!FactOf(o), x)
      PROVE  x # None => x.version <= (Search!FactOf(o)').version
  BY <1>2, <1>3 DEF Search!NotAhead, Search!Doc
<1>4. tx[o].loaded \in Search!Doc \cup {None} /\ tx[o].inserted \in Search!Doc \cup {None}
  BY <1>1 DEF Search!Tx
<1>5. Search!NotAhead(Search!FactOf(o), tx[o].inserted)'
  BY <1>1, <1>3, <1>4, SearchLearns DEF Search!Stages, Search!NotAhead
<1>6. tx[o].phase \in {"aim", "delete", "insert"} =>
        Search!NotAhead(Search!FactOf(o), tx[o].loaded)'
  BY <1>1, <1>3, <1>4, SearchLearns DEF Search!Stages, Search!NotAhead
<1> QED BY <1>1, <1>5, <1>6, SearchLearns DEF Search!Stages

LEMMA SearchCommitProgress ==
  ASSUME Search!IInv, NEW c \in Clients, Search!Commit(c), NEW o \in Search!Others(c)
  PROVE  Search!Progress(o)'
<1> SUFFICES ASSUME ~tx'[o].beside PROVE Search!Progress(o)'
  BY DEF Search!Progress
<1>1. ~tx[o].beside /\ ~Search!Overtakes(c, o) /\ o \in Clients
  BY SearchLearns
<1>2. CASE tx[c].fact = None /\ tx[c].def = None
  <2>1. fact' = fact /\ def' = def
    BY <1>2, SearchCommits DEF Search!FactOf, Search!DefOf
  <2>2. Search!FactOf(o)' = Search!FactOf(o) /\ Search!DefOf(o)' = Search!DefOf(o)
    BY <1>1, <2>1, SearchLearns, SearchSight
  <2>3. Search!Progress(o)
    BY <1>1, SearchFacts
  <2> QED BY <1>1, <2>2, <2>3, SearchLearns DEF Search!Progress, Search!Right
<1>3. CASE tx[o].phase \in {"idle", "fact", "definition"}
  BY <1>3, SearchLearns DEF Search!Progress
<1>4. CASE /\ {tx[c].kind, tx[o].kind} \cap {"createUnlocked", "reindex"} = {}
           /\ tx[o].phase \notin {"idle", "fact", "definition"}
  <2>1. tx[c].kind \in Search!Kinds /\ tx[o].kind \in Search!Kinds
    BY <1>1, SearchFacts DEF Search!Tx
  <2>2. Search!HoldsDefinition(c) /\ Search!HoldsDefinition(o)
    BY <1>4, <2>1, SearchCommits DEF Search!HoldsDefinition, Search!Kinds
  <2> QED BY <2>2, SearchFacts DEF Search!OneAtATime
<1> QED BY <1>1, <1>2, <1>3, <1>4 DEF Search!Overtakes, Search!At

LEMMA SearchCommitStep ==
  ASSUME Search!IInv, NEW c \in Clients, Search!Commit(c)
  PROVE  Search!IInv'
<1>1. Search!TypeOK' /\ Search!NotAhead(fact, doc)'
      /\ (~unsure => Search!Right(fact, def, doc))'
  BY SearchCommitTypes, SearchCommitRight
<1>2. /\ tx'[c].phase = "idle" /\ tx'[c].kind = "define" /\ tx'[c].fact = None
      /\ tx'[c].def = None /\ tx'[c].deleted = None /\ tx'[c].inserted = None
  BY SearchCommits DEF Search!Idle
<1>3. Search!OneAtATime' /\ Search!OneWritesTheFact'
  <2>1. ~Search!HoldsDefinition(c)' /\ ~Search!HoldsFact(c)'
    BY <1>2 DEF Search!HoldsDefinition, Search!HoldsFact
  <2> QED BY <1>2, <2>1, SearchLearns, SearchKeepsLocks
<1>4. Search!FactIsHeld(tx[c])' /\ Search!Stages(c)' /\ Search!Progress(c)'
  BY <1>2 DEF Search!FactIsHeld, Search!Stages, Search!Progress, Search!NotAhead
<1>5. \A o \in Clients : Search!FactIsHeld(tx[o])' /\ Search!Stages(o)' /\ Search!Progress(o)'
  BY <1>4, SearchCommitHeld, SearchCommitStages, SearchCommitProgress DEF Search!Others
<1> QED BY <1>1, <1>3, <1>5 DEF Search!IInv

LEMMA SearchStep ==
  ASSUME Search!IInv, [Search!Next]_searchVars
  PROVE  Search!IInv'
<1>1. CASE UNCHANGED searchVars
  <2>1. UNCHANGED <<fact, def, doc, tx, searchClock, unsure>>
    BY <1>1 DEF searchVars
  <2>2. /\ Search!TypeOK' /\ Search!NotAhead(fact, doc)'
        /\ (~unsure => Search!Right(fact, def, doc))'
    BY <2>1 DEF Search!IInv, Search!TypeOK, Search!NotAhead, Search!Right, Search!At
  <2>3. Search!OneAtATime' /\ Search!OneWritesTheFact'
    BY <2>1 DEF Search!IInv, Search!OneAtATime, Search!OneWritesTheFact, Search!HoldsFact,
       Search!HoldsDefinition
  <2>4. ASSUME NEW c \in Clients
        PROVE  Search!FactIsHeld(tx[c])' /\ Search!Stages(c)' /\ Search!Progress(c)'
    BY <2>1, <2>4, SearchFacts
    DEF Search!FactIsHeld, Search!Stages, Search!Progress, Search!FactOf, Search!DefOf,
        Search!NotAhead, Search!Right
  <2> QED BY <2>2, <2>3, <2>4 DEF Search!IInv
<1>2. CASE Search!Next
  <2>1. PICK c \in Clients :
          \/ \E kind \in Operations : Search!Begin(c, kind)
          \/ Search!LockFact(c) \/ Search!LockDefinition(c)
          \/ Search!WriteFact(c) \/ Search!WriteDefinition(c)
          \/ Search!List(c) \/ Search!Check(c) \/ Search!Load(c) \/ Search!Aim(c)
          \/ Search!Delete(c) \/ Search!Insert(c) \/ Search!Commit(c)
    BY <1>2 DEF Search!Next
  <2> QED
    BY <2>1, SearchBeginStep, SearchLockFactStep, SearchLockDefinitionStep,
       SearchWriteFactStep, SearchWriteDefinitionStep, SearchListStep, SearchCheckStep,
       SearchLoadStep, SearchAimStep, SearchDeleteStep, SearchInsertStep, SearchCommitStep
<1> QED BY <1>1, <1>2

LEMMA SearchInit == Search!Init => Search!IInv
<1> SUFFICES ASSUME Search!Init PROVE Search!IInv
  OBVIOUS
<1>1. \A c \in Clients : tx[c] = Search!Idle
  BY DEF Search!Init
<1>2. /\ Search!Idle.phase = "idle" /\ Search!Idle.kind = "define"
      /\ Search!Idle.fact = None /\ Search!Idle.def = None
      /\ Search!Idle.deleted = None /\ Search!Idle.inserted = None
  BY DEF Search!Idle
<1>3. Search!TypeOK
  <2>1. fact \in Search!Fact /\ def \in Search!Def /\ doc \in Search!Doc \cup {None}
        /\ searchClock \in Nat /\ unsure \in BOOLEAN
    BY DEF Search!Init, Search!Fact, Search!Def
  <2>2. tx \in [Clients -> Search!Tx]
    BY SearchIdle DEF Search!Init
  <2> QED BY <1>1, <2>1, <2>2 DEF Search!TypeOK
<1>4. Search!NotAhead(fact, doc) /\ Search!Right(fact, def, doc)
  BY DEF Search!Init, Search!NotAhead, Search!Right
<1>5. Search!OneAtATime /\ Search!OneWritesTheFact
  BY <1>1, <1>2 DEF Search!OneAtATime, Search!OneWritesTheFact, Search!Others,
     Search!HoldsDefinition, Search!HoldsFact
<1>6. ASSUME NEW c \in Clients
      PROVE  Search!FactIsHeld(tx[c]) /\ Search!Stages(c) /\ Search!Progress(c)
  BY <1>1, <1>2
  DEF Search!FactIsHeld, Search!Stages, Search!Progress, Search!NotAhead
<1> QED BY <1>3, <1>4, <1>5, <1>6 DEF Search!IInv

LEMMA SearchInvariance == Search!Spec => []Search!IInv
<1>1. Search!IInv /\ [Search!Next]_(Search!vars) => Search!IInv'
  BY SearchStep DEF searchVars, Search!vars
<1> QED BY SearchInit, <1>1, PTL DEF Search!Spec

LEMMA SearchTypes == Search!Spec => []Search!TypeOK
<1>1. Search!IInv => Search!TypeOK
  BY DEF Search!IInv
<1> QED BY <1>1, SearchInvariance, PTL

-----------------------------------------------------------------------------
(* What is proved of the modules that MCRequests composes, carried over to it. *)

BP == INSTANCE TokenBucketProofs WITH Budget <- BucketBudget
EP == INSTANCE GovernedExportProofs
IP == INSTANCE ImportExecutionProofs WITH
  Budget <- ImportBudget,
  file <- parsed, job <- importJob, worker <- importWorker, budget <- importBudget

\* The bucket, the export and the import of MCRequests are those of their proofs.
LEMMA SameBucket ==
  /\ BP!TokenBucketAssumption
  /\ Bucket!Init <=> BP!Init
  /\ [Bucket!Next]_bucketVars <=> [BP!Next]_(BP!vars)
<1>1. BP!TokenBucketAssumption
  BY BucketAssumption
  DEF Bucket!TokenBucketAssumption, Bucket!FullRefill, Bucket!CeilDiv, Bucket!Bucket,
      BP!TokenBucketAssumption, BP!FullRefill, BP!CeilDiv, BP!Bucket
<1>2. (Bucket!Init <=> BP!Init) /\ ([Bucket!Next]_bucketVars <=> [BP!Next]_(BP!vars))
  BY DEF bucketVars, BP!vars,
     Bucket!Init, Bucket!Next, Bucket!NoResult, Bucket!Consume, Bucket!Tick,
     Bucket!StepBack, Bucket!Deploy, Bucket!Refilled, Bucket!Read, Bucket!Admits,
     Bucket!Store, Bucket!RetryAfter, Bucket!Interval, Bucket!Refill, Bucket!CeilDiv,
     Bucket!Capacity, Bucket!Max2, Bucket!Min2, BP!Init, BP!Next, BP!NoResult, BP!Consume,
     BP!Tick, BP!StepBack, BP!Deploy, BP!Refilled, BP!Read, BP!Admits, BP!Store,
     BP!RetryAfter, BP!Interval, BP!Refill, BP!CeilDiv, BP!Capacity, BP!Max2, BP!Min2
<1> QED BY <1>1, <1>2

LEMMA SameExport ==
  /\ EP!GovernedExportAssumption
  /\ Export!Init <=> EP!Init
  /\ [Export!Next]_exportVars <=> [EP!Next]_(EP!vars)
<1>1. EP!GovernedExportAssumption
  BY ExportAssumption DEF Export!GovernedExportAssumption, EP!GovernedExportAssumption
<1>2. (Export!Init <=> EP!Init) /\ ([Export!Next]_exportVars <=> [EP!Next]_(EP!vars))
  BY DEF exportVars, EP!vars,
     Export!Init, Export!Next, Export!IdleCommit, Export!RequestApproval,
     Export!ReviewApproval, Export!ApprovalExpires, Export!Preview, Export!StartCommit,
     Export!RequireApproved, Export!ClaimArtifact, Export!Put, Export!PutFails,
     Export!Finalize, Export!CommitDies, Export!ArtifactExpires, Export!Download,
     Export!DataChanges, Export!CoverageChanges, Export!world, Export!stored,
     Export!IsCurrentReviewer, Export!GoTo, Export!Approved, Export!SameRequest,
     Export!Recoverable, Export!MarkFailed, EP!Init, EP!Next, EP!IdleCommit,
     EP!RequestApproval, EP!ReviewApproval, EP!ApprovalExpires, EP!Preview, EP!StartCommit,
     EP!RequireApproved, EP!ClaimArtifact, EP!Put, EP!PutFails, EP!Finalize, EP!CommitDies,
     EP!ArtifactExpires, EP!Download, EP!DataChanges, EP!CoverageChanges, EP!world,
     EP!stored, EP!IsCurrentReviewer, EP!GoTo, EP!Approved, EP!SameRequest, EP!Recoverable,
     EP!MarkFailed
<1> QED BY <1>1, <1>2

LEMMA SameImport ==
  /\ IP!ImportExecutionAssumption
  /\ Import!Init <=> IP!Init
  /\ [Import!Next]_importVars <=> [IP!Next]_(IP!vars)
<1>1. IP!ImportExecutionAssumption
  BY ImportAssumption DEF Import!ImportExecutionAssumption, IP!ImportExecutionAssumption
<1>2. (Import!Init <=> IP!Init) /\ ([Import!Next]_importVars <=> [IP!Next]_(IP!vars))
  BY DEF importVars, IP!vars,
     Import!Init, Import!Next, Import!ClaimPrepare, Import!TakesOver,
     Import!OwnsStaging, Import!HoldsStaging, Import!InsertRow, Import!ParseFails,
     Import!FailPrepare, Import!KeptRows, Import!FinishPrepare, Import!StagerCrash,
     Import!StagingTended, Import!StagingLeaseExpires, Import!NextJob, Import!Enqueue,
     Import!StartImport, Import!PriorJobSettled, Import!Reset, Import!RetryImport,
     Import!Owns, Import!Goto, Import!Throw, Import!ClaimDue, Import!Recovered,
     Import!Slice, Import!ClaimSlice, Import!RowIsLive, Import!NextRow, Import!Write,
     Import!RunRow, Import!RowAnswerLost, Import!FinalizeRow, Import!Complete,
     Import!RejectedRows, Import!Refresh, Import!Interrupt, Import!Released,
     Import!CompleteJob, Import!DeadImport, Import!Settle, Import!WorkerCrash,
     Import!Tended, Import!JobLeaseExpires, Import!RowAges, Import!RoleChanges,
     Import!MappingChanges, Import!WorkerStep, Import!Numbers, Import!Gens, Import!Jobs,
     Import!RowStates, Import!Processing, Import!Finished, Import!IdleStager,
     Import!IdleWorker, Import!Spend, Import!staging, Import!execution, Import!outside,
     Import!Having, Import!Min, Import!Cardinality, Import!MapRows, IP!Init, IP!Next, IP!ClaimPrepare, IP!TakesOver,
     IP!OwnsStaging, IP!HoldsStaging, IP!InsertRow, IP!ParseFails, IP!FailPrepare,
     IP!KeptRows, IP!FinishPrepare, IP!StagerCrash, IP!StagingTended,
     IP!StagingLeaseExpires, IP!NextJob, IP!Enqueue, IP!StartImport, IP!PriorJobSettled,
     IP!Reset, IP!RetryImport, IP!Owns, IP!Goto, IP!Throw, IP!ClaimDue, IP!Recovered,
     IP!Slice, IP!ClaimSlice, IP!RowIsLive, IP!NextRow, IP!Write, IP!RunRow,
     IP!RowAnswerLost, IP!FinalizeRow, IP!Complete, IP!RejectedRows, IP!Refresh,
     IP!Interrupt, IP!Released, IP!CompleteJob, IP!DeadImport, IP!Settle,
     IP!WorkerCrash, IP!Tended, IP!JobLeaseExpires, IP!RowAges, IP!RoleChanges,
     IP!MappingChanges, IP!WorkerStep, IP!Numbers, IP!Gens, IP!Jobs, IP!RowStates,
     IP!Processing, IP!Finished, IP!IdleStager, IP!IdleWorker, IP!Spend, IP!staging,
     IP!execution, IP!outside, IP!Having, IP!Min, IP!Cardinality,
     IP!MapRows
<1> QED BY <1>1, <1>2

\* The steps of the other modules leave the variables of one alone.
LEMMA RequestSteps ==
  [MCNext]_all =>
    /\ which' = which
    /\ [Next]_vars
    /\ [Bucket!Next]_bucketVars
    /\ [Export!Next]_exportVars
    /\ [Search!Next]_searchVars
    /\ [Merge!Next]_mergeVars
    /\ [Import!Next]_importVars
BY DEF MCNext, Writes, Limits, Exports, Searches, Merges, Imports, all, requestVars

\* A behaviour of MCRequests is one of every module it is composed of.
LEMMA RequestModules ==
  MCSpec => Spec /\ BP!Spec /\ EP!Spec /\ IP!Spec /\ Search!Spec /\ Merge!Spec
<1>1. MCInit => Init /\ BP!Init /\ EP!Init /\ IP!Init /\ Search!Init /\ Merge!Init
  BY SameBucket, SameExport, SameImport DEF MCInit
<1>2. [MCNext]_all =>
        [Next]_vars /\ [BP!Next]_(BP!vars) /\ [EP!Next]_(EP!vars) /\ [IP!Next]_(IP!vars)
  BY RequestSteps, SameBucket, SameExport, SameImport
<1>3. [MCNext]_all => [Search!Next]_(Search!vars) /\ [Merge!Next]_(Merge!vars)
  BY RequestSteps DEF searchVars, Search!vars, mergeVars, Merge!vars, Merge!records
<1> QED
  BY <1>1, <1>2, <1>3, PTL
  DEF MCSpec, Spec, BP!Spec, EP!Spec, IP!Spec, Search!Spec, Merge!Spec

\* THEOREM: as long as its key lives, a bucket grants no more than it holds and what
\* flows in, and a poll that is denied neither adds tokens nor loses them by rounding.
THEOREM GrantsStayAtTheirRate == MCSpec => []GrantsAtItsRate
<1>1. BP!Spec => []BP!RateBound
  BY SameBucket, BP!RateIsBounded
<1>2. BP!Spec => []BP!PollingIsNeutral
  BY SameBucket, BP!PollingCostsNothing
<1>3. BP!RateBound /\ BP!PollingIsNeutral => GrantsAtItsRate
  BY DEF GrantsAtItsRate,
     Bucket!RateBound, Bucket!PollingIsNeutral, Bucket!Interval, Bucket!Capacity,
     Bucket!Refill, Bucket!Read, Bucket!Max2, Bucket!Refilled, Bucket!Min2, Bucket!CeilDiv,
     BP!RateBound, BP!PollingIsNeutral, BP!Interval, BP!Capacity, BP!Refill, BP!Read,
     BP!Max2, BP!Refilled, BP!Min2, BP!CeilDiv
<1> QED BY <1>1, <1>2, <1>3, RequestModules, PTL

\* THEOREM: a denied caller that waits as long as it is told is admitted.
THEOREM ToldWaitSuffices == MCSpec => []RetryAfterSuffices
<1>1. BP!Spec => []BP!RetryAfterSuffices
  BY SameBucket, BP!WaitSuffices
<1>2. BP!RetryAfterSuffices => RetryAfterSuffices
  BY DEF RetryAfterSuffices,
     Bucket!RetryAfterSuffices, Bucket!Interval, Bucket!Capacity, Bucket!Refill,
     Bucket!Read, Bucket!Max2, Bucket!Refilled, Bucket!Min2, Bucket!CeilDiv,
     BP!RetryAfterSuffices, BP!Interval, BP!Capacity, BP!Refill, BP!Read, BP!Max2,
     BP!Refilled, BP!Min2, BP!CeilDiv
<1> QED BY <1>1, <1>2, RequestModules, PTL

\* THEOREM: a bucket that its expiry brings back full would have been full, but for
\* what the steps back of the clock have held up.
THEOREM KeyExpiryIsHarmless == MCSpec => ExpiryIsHarmless
<1>1. BP!Spec => BP!ExpiryIsHarmless
  BY SameBucket, BP!ExpiryCostsNothing
<1>2. [bucket # Absent /\ bucket' = Absent /\ granted > 0 =>
         LET heldUp == (BucketBudget - budget) * MaxStep
         IN  BP!Refilled(BP!Read(clock'), clock' + heldUp).tokens = BP!Capacity]_(BP!vars)
      => [bucket # Absent /\ bucket' = Absent /\ granted > 0 =>
            LET heldUp == (BucketBudget - budget) * MaxStep
            IN  Bucket!Refilled(Bucket!Read(clock'), clock' + heldUp).tokens
                  = Bucket!Capacity]_(Bucket!vars)
  BY DEF BP!vars, Bucket!vars,
     Bucket!Interval, Bucket!Capacity, Bucket!Refill, Bucket!Read, Bucket!Max2,
     Bucket!Refilled, Bucket!Min2, Bucket!CeilDiv, BP!Interval, BP!Capacity, BP!Refill,
     BP!Read, BP!Max2, BP!Refilled, BP!Min2, BP!CeilDiv
<1> QED
  BY <1>1, <1>2, RequestModules, PTL
  DEF ExpiryIsHarmless, BP!ExpiryIsHarmless, Bucket!ExpiryIsHarmless

\* THEOREM: a ready artifact has an available file and the bytes that both name.
THEOREM ReadyExportIsWhole == MCSpec => []ReadyIsWhole
<1>1. EP!Spec => []EP!ReadyIsWhole
  BY SameExport, EP!ReadyArtifactIsWhole
<1>2. EP!ReadyIsWhole => ReadyIsWhole
  BY DEF ReadyIsWhole, Export!ReadyIsWhole, EP!ReadyIsWhole
<1> QED BY <1>1, <1>2, RequestModules, PTL

\* THEOREM: what is downloaded of a sensitive export was approved by someone else.
THEOREM ExportDownloadIsApproved == MCSpec => []DownloadIsApproved
<1>1. EP!Spec => []EP!DownloadIsApproved
  BY SameExport, EP!DownloadsAreApproved
<1>2. EP!DownloadIsApproved => DownloadIsApproved
  BY DEF DownloadIsApproved, Export!DownloadIsApproved, EP!DownloadIsApproved,
     Export!ApprovedByOther, EP!ApprovedByOther
<1> QED BY <1>1, <1>2, RequestModules, PTL

\* THEOREM: whatever crashes, lost leases and answers, and retries there are, the record
\* of a row is written once if the row has succeeded, and never otherwise.
THEOREM ImportRowsAreApplied == MCSpec => []RowsAppliedOnce
<1>1. IP!Spec => []IP!RowsAppliedOnce
  BY SameImport, IP!RowsAreAppliedOnce
<1>2. IP!RowsAppliedOnce => RowsAppliedOnce
  BY DEF RowsAppliedOnce,
     Import!RowsAppliedOnce, IP!RowsAppliedOnce, Import!Numbers, IP!Numbers,
     Import!Gens, IP!Gens
<1> QED BY <1>1, <1>2, RequestModules, PTL

\* THEOREM: however many requests take the staging of an import over, it has exactly the
\* rows of its last generation.
THEOREM ImportStagingIsExact == MCSpec => []StagedRowsAreExact
<1>1. IP!Spec => []IP!StagedRowsAreExact
  BY SameImport, IP!StagingIsExact
<1>2. IP!StagedRowsAreExact => StagedRowsAreExact
  BY DEF StagedRowsAreExact,
     Import!StagedRowsAreExact, IP!StagedRowsAreExact, Import!Having, IP!Having,
     Import!RowStates, IP!RowStates, Import!Processing, IP!Processing, Import!Numbers,
     IP!Numbers, Import!Gens, IP!Gens
<1> QED BY <1>1, <1>2, RequestModules, PTL

\* THEOREM: an import is under way exactly while its last job is not settled.
THEOREM ImportAndJobEndTogether == MCSpec => []ImportEndsWithJob
<1>1. IP!Spec => []IP!ImportEndsWithJob
  BY SameImport, IP!ImportFollowsItsJob
<1>2. IP!ImportEndsWithJob => ImportEndsWithJob
  BY DEF ImportEndsWithJob,
     Import!ImportEndsWithJob, IP!ImportEndsWithJob, Import!Jobs, IP!Jobs,
     Import!Finished, IP!Finished
<1> QED BY <1>1, <1>2, RequestModules, PTL

\* THEOREM: in whatever order merges are undone, a record is found at its person or at
\* one that this person was merged into, and an end of a relationship at the one who
\* stands for its person, unless two merges have moved it and the earlier of them was
\* undone first.
THEOREM RecordsAreFound == MCSpec => []RecordsFollow
<1>1. Merge!Spec => []Merge!IInv
  BY MergeInvariance
<1>2. Merge!IInv => RecordsFollow
  BY DEF Merge!IInv, RecordsFollow
<1> QED BY <1>1, <1>2, RequestModules, PTL

\* THEOREM: in whatever order merges are undone, a candidate is marked as canceled by a
\* merge only while that merge of one of its two people stands, unless a later merge had
\* read the marker when its own merge was undone.
THEOREM CandidatesAreBack == MCSpec => []CandidatesComeBack
<1>1. Merge!Spec => []Merge!IInv
  BY MergeInvariance
<1>2. Merge!IInv => CandidatesComeBack
  BY DEF Merge!IInv, Merge!CandidatesOK, Merge!Marked, Merge!MarkerStands,
     Merge!CandidatesComeBack, CandidatesComeBack
<1> QED BY <1>1, <1>2, RequestModules, PTL

\* THEOREM: whatever runs beside what, an existing fact with an active definition is
\* found, and with the label of its definition as it is, unless the last change was made
\* by a transaction that a write without the common lock had overtaken.
THEOREM SearchIsCurrent == MCSpec => []IndexFollows
<1>1. Search!Spec => []Search!IInv
  BY SearchInvariance
<1>2. Search!IInv => IndexFollows
  <2> SUFFICES ASSUME Search!IInv, ~unsure PROVE Search!IndexFollows
    BY DEF IndexFollows, Search!IndexFollows
  <2>1. Search!Right(fact, def, doc)
    BY DEF Search!IInv
  <2> QED BY <2>1 DEF Search!Right, Search!Found, Search!IndexFollows
<1> QED BY <1>1, <1>2, RequestModules, PTL

\* THEOREM: every variable of the five modules of requests has its type.
THEOREM RequestTypes == MCSpec => []TypesOK
<1>1. Spec => []TypeOK
  <2>1. Init => life <= MaxLife
    BY IdempotentWriteAssumption DEF Init
  <2>2. ASSUME IInv, life <= MaxLife, [Next]_vars PROVE (life <= MaxLife)'
    <3>1. CASE UNCHANGED vars
      BY <2>2, <3>1 DEF vars
    <3>2. ASSUME NEW c \in Calls,
                 \/ Begin(c) \/ UserWrite(c) \/ PrincipalWrite(c) \/ Claim(c)
                 \/ ProviderWorks(c) \/ Finalize(c) \/ Abort(c)
          PROVE  life' = life
      BY <3>2 DEF Begin, UserWrite, PrincipalWrite, Claim, ProviderWorks, Finalize, Abort
    <3>3. CASE KeyExpires
      <4>1. life \in Nat /\ MaxLife \in Nat
        BY <2>2, IdempotentWriteAssumption DEF IInv, RowsOK
      <4>2. life < MaxLife /\ life' = life + 1
        BY <3>3 DEF KeyExpires
      <4> QED BY <4>1, <4>2
    <3> QED BY <2>2, <3>1, <3>2, <3>3 DEF Next
  <2>3. IInv => RowsOK
    BY DEF IInv
  <2> QED BY <2>1, <2>2, <2>3, WriteInvariance, PTL DEF Spec, TypeOK
<1>2. BP!Spec => []BP!TypeOK
  BY SameBucket, BP!BucketTypes
<1>3. BP!TypeOK => Bucket!TypeOK
  BY DEF BP!TypeOK, Bucket!TypeOK, BP!Bucket, Bucket!Bucket, BP!Capacity, Bucket!Capacity,
     BP!Interval, Bucket!Interval
<1>4. EP!Spec => []EP!TypeOK
  BY SameExport, EP!ExportTypes
<1>5. EP!TypeOK => Export!TypeOK
  BY DEF EP!TypeOK, Export!TypeOK, EP!Versions, Export!Versions, EP!Approval,
     Export!Approval, EP!Artifact, Export!Artifact, EP!File, Export!File, EP!Commit,
     Export!Commit
<1>6. TypeOK /\ Bucket!TypeOK /\ Export!TypeOK /\ Search!TypeOK /\ Merge!TypeOK
        => TypesOK
  BY DEF TypesOK
<1> QED
  BY <1>1, <1>2, <1>3, <1>4, <1>5, <1>6, SearchTypes, MergeTypes, RequestModules, PTL

=============================================================================
