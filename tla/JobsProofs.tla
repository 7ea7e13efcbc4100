----------------------------- MODULE JobsProofs -----------------------------
(***************************************************************************)
(* Proofs about what MCJobs composes, for any sets and bounds.             *)
(*                                                                         *)
(* JobQueue: types, safety, fencing, tended leases, and that it implements *)
(* DurableTask.  TextExtraction: what has ended stays so but for a retry.  *)
(* AiRun: one terminal result, and no purge under a hold.  The inductive   *)
(* invariants (IInv) are in the modules they are about.  The last part     *)
(* carries the results over to the composition.                            *)
(***************************************************************************)
EXTENDS MCJobs, FiniteSetTheorems, TLAPS

-----------------------------------------------------------------------------
(* Type lemmas: the row functions and the updates of rows and passes. *)

GoodRow(r) == r \in Row /\ LeaseColumnsAgree(r)

\* Claiming a row keeps it well typed, and running with an owner.
LEMMA ClaimedRowGood ==
  ASSUME NEW r, GoodRow(r), NEW p \in Passes
  PROVE  GoodRow(ClaimedRow(r, p))
<1>1. \A a, g \in Nat : \A o \in Tokens :
        [r EXCEPT !.state = "running", !.attempts = a, !.gen = g,
                  !.owner = o, !.live = TRUE] \in Row
  BY DEF GoodRow, Row
<1>2. r.attempts + 1 \in Nat /\ r.gen + 1 \in Nat /\ p \in Tokens
  BY DEF GoodRow, Row, Tokens
<1>3. ClaimedRow(r, p) \in Row
  BY <1>1, <1>2 DEF ClaimedRow
<1>4. ClaimedRow(r, p).state = "running" /\ ClaimedRow(r, p).owner = p
  BY DEF GoodRow, Row, ClaimedRow
<1>5. p # None
  BY JobQueueAssumption
<1>6. LeaseColumnsAgree(ClaimedRow(r, p))
  BY ONLY <1>4, <1>5 DEF LeaseColumnsAgree
<1> QED BY <1>3, <1>6 DEF GoodRow

\* Every way to take a row out of the running state keeps it well typed.
LEMMA ReleasedRowsGood ==
  ASSUME NEW r, GoodRow(r)
  PROVE  /\ GoodRow(ReleasedRow(r, "dead_letter"))
         /\ GoodRow(CompletedRow(r))
         /\ GoodRow(DeferredRow(r))
         /\ \A v \in Verdicts : GoodRow(SettledRow(r, v))
         /\ GoodRow(RequeuedRow(r, TRUE))
<1> USE JobQueueAssumption DEF GoodRow, Row, Terminal, Tokens, LeaseColumnsAgree
<1>1. \A s \in {"queued"} \cup Terminal : GoodRow(ReleasedRow(r, s))
  BY DEF ReleasedRow
<1>2. GoodRow(CompletedRow(r))
  BY <1>1 DEF CompletedRow
<1>3. GoodRow(DeadRow(r))
  BY DEF DeadRow, ReleasedRow
<1>4. GoodRow(RetriedRow(r))
  BY DEF RetriedRow, ReleasedRow
<1>5. GoodRow(DeferredRow(r))
  <2>1. \A t, a : GoodRow(t) /\ a \in Nat => GoodRow([t EXCEPT !.attempts = a])
    OBVIOUS
  <2>2. (IF r.attempts > 0 THEN r.attempts - 1 ELSE 0) \in Nat
    OBVIOUS
  <2> QED BY ONLY <1>4, <2>1, <2>2 DEF DeferredRow
<1>6. \A v \in Verdicts : GoodRow(SettledRow(r, v))
  <2> SUFFICES ASSUME NEW v \in Verdicts PROVE GoodRow(SettledRow(r, v))
    OBVIOUS
  <2>1. CASE v = "defer" BY ONLY <1>5, <2>1 DEF SettledRow
  <2>2. CASE v = "retry" BY ONLY <1>4, <2>2 DEF SettledRow
  <2>3. CASE v \in {"exhausted", "permanent"} BY ONLY <1>3, <2>3 DEF SettledRow
  <2> QED BY ONLY v \in Verdicts, <2>1, <2>2, <2>3 DEF Verdicts
<1>7. GoodRow(RequeuedRow(r, TRUE))
  BY DEF RequeuedRow, ReleasedRow
<1> QED BY <1>1, <1>2, <1>5, <1>6, <1>7 DEF Terminal

\* The typed part of the row variable.
RowsGood == row \in [Jobs -> Row] /\ \A j \in Jobs : LeaseColumnsAgree(row[j])

LEMMA SetRowGood ==
  ASSUME RowsGood, NEW j \in Jobs, NEW r, GoodRow(r), SetRow(j, r)
  PROVE  RowsGood'
BY DEF RowsGood, GoodRow, SetRow

LEMMA SetOwnedRowGood ==
  ASSUME RowsGood, NEW p \in Passes, pass[p].cur \in Claimed,
         NEW r, GoodRow(r), SetOwnedRow(p, r)
  PROVE  RowsGood'
BY DEF RowsGood, GoodRow, SetOwnedRow, Claimed

LEMMA SetPassGood ==
  ASSUME pass \in [Passes -> PassState], NEW p \in Passes,
         NEW s \in PassState, SetPass(p, s)
  PROVE  /\ pass' \in [Passes -> PassState]
         /\ pass'[p] = s
         /\ \A q \in Passes \ {p} : pass'[q] = pass[q]
BY DEF SetPass

\* Retiring the identity of a pass changes nothing but owners and keys.
LEMMA EndGood ==
  ASSUME TypeOK, NEW p \in Passes, End(p)
  PROVE  /\ RowsGood'
         /\ redis' \in [Jobs -> Tokens]
         /\ pass' \in [Passes -> PassState]
         /\ pass'[p] = IdlePass
         /\ \A q \in Passes \ {p} : pass'[q] = pass[q]
<1>1. IdlePass \in PassState
  BY DEF IdlePass, PassState, Phases, Verdicts
<1>2. \A j \in Jobs : GoodRow(IF row[j].owner = p THEN [row[j] EXCEPT !.owner = Gone]
                              ELSE row[j])
  <2> SUFFICES ASSUME NEW j \in Jobs, row[j].owner = p
               PROVE  GoodRow([row[j] EXCEPT !.owner = Gone])
    BY DEF TypeOK, GoodRow
  <2>1. row[j] \in Row /\ LeaseColumnsAgree(row[j])
    BY DEF TypeOK
  <2>2. [row[j] EXCEPT !.owner = Gone] \in Row
    BY <2>1 DEF Row, Tokens
  <2>3. row[j].state = "running"
    BY <2>1, JobQueueAssumption DEF LeaseColumnsAgree
  <2>4. /\ [row[j] EXCEPT !.owner = Gone].state = "running"
        /\ [row[j] EXCEPT !.owner = Gone].owner = Gone
    BY <2>1, <2>3 DEF Row
  <2>5. Gone # None
    BY JobQueueAssumption
  <2> QED BY ONLY <2>2, <2>4, <2>5 DEF GoodRow, LeaseColumnsAgree
<1>3. RowsGood'
  BY <1>2 DEF End, RetireRows, RowsGood, GoodRow
<1>4. redis' \in [Jobs -> Tokens]
  BY DEF TypeOK, End, Retire, Tokens
<1> QED BY <1>1, <1>3, <1>4, SetPassGood DEF TypeOK, End

-----------------------------------------------------------------------------
(* Every step keeps the types.  The steps on a claim need to know that the   *)
(* pass has one, which is why the induction carries the whole of IInv.       *)

Working == {"unleased", "handler", "renewRedis", "renewDb", "complete", "settle",
            "release"}

LEMMA WorkingHasClaim ==
  ASSUME IInv, NEW p \in Passes, pass[p].phase \in Working
  PROVE  /\ pass[p].cur \in Claimed
         /\ pass[p].cur \in Held(p)
         /\ pass[p].cur.job \in Jobs
         /\ GoodRow(CurRow(p))
<1>1. pass[p].cur # NoClaim
  BY DEF IInv, LocalsAgree, Working
<1>2. pass[p].cur \in Claimed
  BY <1>1 DEF IInv, TypeOK, PassState
<1> QED BY <1>1, <1>2 DEF Held, Claimed, CurRow, GoodRow, IInv, TypeOK

\* The catch block only ever produces a verdict.
LEMMA CatchGood ==
  ASSUME TypeOK, NEW p \in Passes, NEW err, Catch(p, err)
  PROVE  /\ pass' \in [Passes -> PassState]
         /\ pass'[p] = [pass[p] EXCEPT !.phase = "settle", !.verdict = Verdict(p, err)]
         /\ \A q \in Passes \ {p} : pass'[q] = pass[q]
<1>1. Verdict(p, err) \in Verdicts
  BY DEF Verdict, Verdicts
<1>2. [pass[p] EXCEPT !.phase = "settle", !.verdict = Verdict(p, err)] \in PassState
  BY <1>1 DEF TypeOK, PassState, Phases
<1> QED BY <1>2, SetPassGood DEF Catch, TypeOK

LEMMA GotoGood ==
  ASSUME TypeOK, NEW p \in Passes, NEW ph \in Phases, Goto(p, ph)
  PROVE  /\ pass' \in [Passes -> PassState]
         /\ pass'[p] = [pass[p] EXCEPT !.phase = ph]
         /\ \A q \in Passes \ {p} : pass'[q] = pass[q]
<1>1. [pass[p] EXCEPT !.phase = ph] \in PassState
  BY DEF TypeOK, PassState
<1> QED BY <1>1, SetPassGood DEF Goto, TypeOK

LEMMA SpendGood ==
  ASSUME budget \in Nat, NEW n \in Nat, Spend(n)
  PROVE  budget' \in Nat
BY DEF Spend

LEMMA TypeOfParts ==
  ASSUME RowsGood', redis' \in [Jobs -> Tokens], pass' \in [Passes -> PassState],
         ran' \in [Jobs -> SUBSET Nat], budget' \in Nat
  PROVE  TypeOK'
BY DEF RowsGood, TypeOK

\* TypeOK is preserved by the code that writes rows outside a pass, and by time.
LEMMA TypeOtherStep ==
  ASSUME TypeOK, NEW j \in Jobs,
         \/ \E d \in BOOLEAN : Enqueue(j, d)
         \/ BecomeDue(j)
         \/ Cancel(j)
         \/ LeaseExpires(j)
         \/ RedisLeaseExpires(j)
  PROVE  TypeOK'
<1> USE TypeOfParts
<1>1. RowsGood /\ GoodRow(row[j])
  BY DEF TypeOK, RowsGood, GoodRow
<1>2. ASSUME NEW d \in BOOLEAN, Enqueue(j, d) PROVE TypeOK'
  <2>1. GoodRow([row[j] EXCEPT !.state = "queued", !.due = d])
    BY <1>1, <1>2 DEF GoodRow, Row, LeaseColumnsAgree, Enqueue
  <2>2. RowsGood'
    BY <1>1, <1>2, <2>1, SetRowGood DEF Enqueue
  <2> QED BY <1>2, <2>2 DEF Enqueue, TypeOK
<1>3. CASE BecomeDue(j)
  <2>1. GoodRow([row[j] EXCEPT !.due = TRUE])
    BY <1>1, <1>3 DEF GoodRow, Row, LeaseColumnsAgree, BecomeDue
  <2>2. RowsGood'
    BY <1>1, <1>3, <2>1, SetRowGood DEF BecomeDue
  <2> QED BY <1>3, <2>2 DEF BecomeDue, TypeOK
<1>4. CASE Cancel(j)
  <2>1. RowsGood'
    BY <1>1, <1>4, ReleasedRowsGood, SetRowGood DEF Cancel
  <2> QED BY <1>4, <2>1 DEF Cancel, TypeOK
<1>5. CASE LeaseExpires(j)
  <2>1. GoodRow([row[j] EXCEPT !.live = FALSE])
    BY <1>1, <1>5 DEF GoodRow, Row, LeaseColumnsAgree, LeaseExpires
  <2>2. RowsGood'
    BY <1>1, <1>5, <2>1, SetRowGood DEF LeaseExpires
  <2>3. budget' \in Nat
    BY <1>5, SpendGood DEF LeaseExpires, TypeOK
  <2> QED BY <1>5, <2>2, <2>3 DEF LeaseExpires, TypeOK
<1>6. CASE RedisLeaseExpires(j)
  <2>1. budget' \in Nat
    BY <1>6, SpendGood DEF RedisLeaseExpires, TypeOK
  <2>2. redis' \in [Jobs -> Tokens]
    BY <1>6 DEF RedisLeaseExpires, TypeOK, Tokens
  <2> QED BY <1>1, <1>6, <2>1, <2>2 DEF RedisLeaseExpires, TypeOK, RowsGood
<1> QED BY <1>2, <1>3, <1>4, <1>5, <1>6

\* TypeOK is preserved by the steps that take a pass to its next row ...
LEMMA TypeLoopStep ==
  ASSUME IInv, NEW p \in Passes,
         \/ Start(p)
         \/ Abort(p)
         \/ EndAborted(p)
         \/ \E R \in SUBSET CleanupJobs : Reconcile(p, R)
         \/ \E C \in SUBSET Jobs : Claim(p, C)
         \/ Finish(p)
         \/ \E c \in pass[p].batch : SkipAborted(p, c) \/ Acquire(p, c) \/ AcquireFails(p, c)
         \/ Crash(p)
  PROVE  TypeOK'
<1> USE TypeOfParts
<1>1. TypeOK /\ RowsGood
  BY DEF IInv, TypeOK, RowsGood
<1>2. CASE Start(p)
  BY <1>1, <1>2, GotoGood DEF Start, TypeOK, Phases, RowsGood
<1>3. CASE Abort(p)
  <2>1. [pass[p] EXCEPT !.aborted = TRUE] \in PassState
    BY <1>1 DEF TypeOK, PassState
  <2>2. pass' \in [Passes -> PassState]
    BY <1>1, <1>3, <2>1, SetPassGood DEF Abort, TypeOK
  <2> QED BY <1>1, <1>3, <2>2, SpendGood DEF Abort, TypeOK, RowsGood
<1>4. CASE EndAborted(p) \/ Finish(p)
  BY <1>1, <1>4, EndGood DEF EndAborted, Finish, TypeOK
<1>5. CASE Crash(p)
  BY <1>1, <1>5, EndGood, SpendGood DEF Crash, TypeOK
<1>6. ASSUME NEW R \in SUBSET CleanupJobs, Reconcile(p, R) PROVE TypeOK'
  <2>1. IsFiniteSet(R)
    BY JobQueueAssumption, FS_Subset
  <2>2. budget' \in Nat
    BY <1>1, <1>6, <2>1, FS_CardinalityType, SpendGood DEF Reconcile, TypeOK
  <2>3. \A j \in Jobs : GoodRow(IF j \in R THEN RequeuedRow(row[j], TRUE) ELSE row[j])
    BY <1>1, ReleasedRowsGood DEF RowsGood, GoodRow
  <2>4. RowsGood'
    BY <1>6, <2>3 DEF Reconcile, RowsGood, GoodRow
  <2> QED BY <1>1, <1>6, <2>2, <2>4, GotoGood DEF Reconcile, TypeOK, Phases
<1>7. ASSUME NEW C \in SUBSET Jobs, Claim(p, C) PROVE TypeOK'
  <2>1. budget' \in Nat
    BY <1>1, <1>7, SpendGood DEF Claim, TypeOK
  <2>2. \A j \in Jobs : GoodRow(IF j \in C THEN ClaimedRow(row[j], p) ELSE row[j])
    BY <1>1, ClaimedRowGood DEF RowsGood, GoodRow
  <2>3. RowsGood'
    BY <1>7, <2>2 DEF Claim, RowsGood, GoodRow
  <2>4. \A j \in C : Snapshot(j) \in Claimed
    BY <1>1 DEF Snapshot, Claimed, TypeOK, Row
  <2>5. [pass[p] EXCEPT !.phase = "loop", !.batch = {Snapshot(j) : j \in C}] \in PassState
    <3>1. \A b \in SUBSET Claimed :
            [pass[p] EXCEPT !.phase = "loop", !.batch = b] \in PassState
      BY <1>1 DEF TypeOK, PassState, Phases
    <3> QED BY <2>4, <3>1
  <2>6. pass' \in [Passes -> PassState]
    BY <1>1, <1>7, <2>5, SetPassGood DEF Claim, TypeOK
  <2> QED BY <1>1, <1>7, <2>1, <2>3, <2>6 DEF Claim, TypeOK
<1>8. ASSUME NEW c \in pass[p].batch,
             SkipAborted(p, c) \/ Acquire(p, c) \/ AcquireFails(p, c)
      PROVE  TypeOK'
  <2>1. c \in Claimed
    BY <1>1 DEF TypeOK, PassState
  <2>2. \A ph \in Phases :
          [pass[p] EXCEPT !.phase = ph, !.batch = pass[p].batch \ {c}, !.cur = c,
                          !.ended = FALSE, !.verdict = "defer"] \in PassState
    <3>1. \A ph \in Phases : \A b \in SUBSET Claimed :
            [pass[p] EXCEPT !.phase = ph, !.batch = b, !.cur = c,
                            !.ended = FALSE, !.verdict = "defer"] \in PassState
      BY <1>1, <2>1 DEF TypeOK, PassState, Verdicts
    <3>2. pass[p].batch \ {c} \in SUBSET Claimed
      BY <1>1 DEF TypeOK, PassState
    <3> QED BY <3>1, <3>2
  <2>3. pass' \in [Passes -> PassState]
    <3>1. \E ph \in Phases : Take(p, c, ph)
      BY <1>8 DEF SkipAborted, Acquire, AcquireFails, Phases
    <3> QED BY <1>1, <2>2, <3>1, SetPassGood DEF Take, TypeOK
  <2>4. redis' \in [Jobs -> Tokens]
    BY <1>1, <1>8 DEF SkipAborted, Acquire, AcquireFails, TypeOK, Tokens
  <2>5. budget' \in Nat
    BY <1>1, <1>8, SpendGood DEF SkipAborted, Acquire, AcquireFails, TypeOK
  <2> QED BY <1>1, <1>8, <2>3, <2>4, <2>5
          DEF SkipAborted, Acquire, AcquireFails, TypeOK, RowsGood
<1> QED BY <1>2, <1>3, <1>4, <1>5, <1>6, <1>7, <1>8

\* ... and by the steps of a pass on the row it is working on.
LEMMA TypeWorkStep ==
  ASSUME IInv, NEW p \in Passes,
         \/ DeferUnleased(p)
         \/ HandlerRenews(p)
         \/ HandlerOutcome(p)
         \/ HandlerYields(p)
         \/ RenewRedis(p)
         \/ RenewDb(p)
         \/ Complete(p)
         \/ BadReferences(p)
         \/ CompleteErrs(p)
         \/ Settle(p)
         \/ Release(p)
  PROVE  TypeOK'
<1> USE TypeOfParts
<1>1. TypeOK /\ RowsGood
  BY DEF IInv, TypeOK, RowsGood
<1>2. pass[p].phase \in Working
  BY DEF Working, DeferUnleased, HandlerRenews, HandlerOutcome, HandlerEnds, HandlerThrows,
         HandlerLosesLease, HandlerYields, RenewRedis, RenewDb, Complete, BadReferences,
         CompleteErrs, Settle, Release
<1>3. /\ pass[p].cur \in Claimed
      /\ pass[p].cur.job \in Jobs
      /\ GoodRow(CurRow(p))
  BY <1>2, WorkingHasClaim
<1>4. BackToLoop(p) => pass' \in [Passes -> PassState]
  <2>1. [pass[p] EXCEPT !.phase = "loop", !.cur = NoClaim] \in PassState
    BY <1>1 DEF TypeOK, PassState, Phases
  <2> QED BY <1>1, <2>1, SetPassGood DEF BackToLoop, TypeOK
<1>5. CASE DeferUnleased(p)
  BY <1>1, <1>3, <1>4, <1>5, ReleasedRowsGood, SetOwnedRowGood DEF DeferUnleased, TypeOK
<1>6. CASE HandlerRenews(p)
  BY <1>1, <1>6, GotoGood DEF HandlerRenews, TypeOK, RowsGood, Phases
<1>7. CASE HandlerEnds(p)
  <2>1. ran' \in [Jobs -> SUBSET Nat]
    BY <1>1, <1>3, <1>7 DEF HandlerEnds, TypeOK, Claimed
  <2>2. [pass[p] EXCEPT !.phase = "renewRedis", !.ended = TRUE] \in PassState
    BY <1>1 DEF TypeOK, PassState, Phases
  <2>3. pass' \in [Passes -> PassState]
    BY <1>1, <1>7, <2>2, CatchGood, SetPassGood DEF HandlerEnds, TypeOK
  <2> QED BY <1>1, <1>7, <2>1, <2>3 DEF HandlerEnds, TypeOK, RowsGood
<1>8. CASE HandlerLosesLease(p) \/ \E err \in {"retryable", "permanent"} : HandlerThrows(p, err)
  BY <1>1, <1>8, CatchGood DEF HandlerLosesLease, HandlerThrows, TypeOK, RowsGood
<1>9. CASE HandlerYields(p)
  BY <1>1, <1>9, CatchGood, SpendGood DEF HandlerYields, TypeOK, RowsGood
<1>10. CASE RenewRedis(p)
  BY <1>1, <1>10, CatchGood, GotoGood DEF RenewRedis, TypeOK, RowsGood, Phases
<1>11. CASE RenewDb(p)
  BY <1>1, <1>11, CatchGood, GotoGood DEF RenewDb, TypeOK, RowsGood, Phases
<1>12. CASE Complete(p)
  BY <1>1, <1>3, <1>12, ReleasedRowsGood, SetOwnedRowGood, GotoGood DEF Complete, TypeOK, Phases
<1>13. CASE BadReferences(p)
  BY <1>1, <1>13, CatchGood DEF BadReferences, TypeOK, RowsGood
<1>14. CASE CompleteErrs(p)
  <2>1. RowsGood'
    BY <1>1, <1>3, <1>14, ReleasedRowsGood, SetOwnedRowGood DEF CompleteErrs, RowsGood
  <2> QED BY <1>1, <1>14, <2>1, CatchGood, SpendGood DEF CompleteErrs, TypeOK
<1>15. CASE Settle(p)
  <2>1. pass[p].verdict \in Verdicts
    BY <1>1 DEF TypeOK, PassState
  <2>2. GoodRow(SettledRow(CurRow(p), pass[p].verdict))
    BY <1>3, <2>1, ReleasedRowsGood
  <2>3. RowsGood'
    BY <1>1, <1>3, <1>15, <2>2, SetOwnedRowGood DEF Settle
  <2> QED BY <1>1, <1>15, <2>3, GotoGood DEF Settle, TypeOK, Phases
<1>16. CASE Release(p)
  <2>1. redis' \in [Jobs -> Tokens]
    BY <1>1, <1>16 DEF Release, ReleasedKey, TypeOK, Tokens
  <2> QED BY <1>1, <1>4, <1>16, <2>1 DEF Release, TypeOK, RowsGood
<1> QED BY <1>5, <1>6, <1>7, <1>8, <1>9, <1>10, <1>11, <1>12, <1>13, <1>14, <1>15, <1>16
        DEF HandlerOutcome

\* TypeOK' for every step.
LEMMA TypeStep ==
  ASSUME IInv, [Next]_vars
  PROVE  TypeOK'
<1>1. CASE UNCHANGED vars
  BY <1>1 DEF IInv, TypeOK, vars
<1>2. CASE Next
  BY <1>2, TypeOtherStep, TypeLoopStep, TypeWorkStep DEF Next, Step, Disturb, IInv
<1> QED BY <1>1, <1>2

-----------------------------------------------------------------------------
(* What any step may do to a row: its generation never decreases, and under  *)
(* the same generation it keeps running with the same attempt number and the *)
(* same owner (or none that acts any more).  It becomes completed only by a  *)
(* pass that has run its handler.                                            *)

RowAdvances(j) ==
  /\ row[j].gen <= row'[j].gen
  /\ row'[j].gen = row[j].gen /\ row'[j].state = "running" =>
       /\ row[j].state = "running"
       /\ row'[j].attempts = row[j].attempts
       /\ row'[j].owner \in {row[j].owner, Gone}
  /\ row'[j].state = "completed" => row'[j].gen \in ran[j]

\* A row that a step leaves alone, or takes to a state other than running and
\* completed without touching its generation, advances.
LEMMA AdvanceByField ==
  ASSUME IInv, NEW j \in Jobs, row'[j].gen = row[j].gen,
         \/ row'[j].state \notin {"running", "completed"}
         \/ /\ row'[j].state = row[j].state
            /\ row'[j].attempts = row[j].attempts
            /\ row'[j].owner \in {row[j].owner, Gone}
         \/ row'[j].state = "completed" /\ row[j].gen \in ran[j]
  PROVE  RowAdvances(j)
<1>1. row[j].gen \in Nat
  BY DEF IInv, TypeOK, Row
<1> QED BY <1>1 DEF RowAdvances, IInv, CompletedWasHandled

\* The fields of the row functions.
LEMMA RowFields ==
  ASSUME NEW r \in Row
  PROVE  /\ \A s \in {"queued"} \cup Terminal :
              ReleasedRow(r, s).state = s /\ ReleasedRow(r, s).gen = r.gen
         /\ CompletedRow(r).state = "completed" /\ CompletedRow(r).gen = r.gen
         /\ DeferredRow(r).state = "queued" /\ DeferredRow(r).gen = r.gen
         /\ RequeuedRow(r, TRUE).state = "queued" /\ RequeuedRow(r, TRUE).gen = r.gen
         /\ \A v \in Verdicts : /\ SettledRow(r, v).state \in {"queued", "dead_letter"}
                                /\ SettledRow(r, v).gen = r.gen
<1> USE DEF Row, ReleasedRow, Terminal
<1>1. DeferredRow(r).state = "queued" /\ DeferredRow(r).gen = r.gen
  BY DEF DeferredRow, RetriedRow
<1>2. RetriedRow(r).state = "queued" /\ RetriedRow(r).gen = r.gen
  BY DEF RetriedRow
<1>3. DeadRow(r).state = "dead_letter" /\ DeadRow(r).gen = r.gen
  BY DEF DeadRow
<1>4. \A v \in Verdicts : /\ SettledRow(r, v).state \in {"queued", "dead_letter"}
                          /\ SettledRow(r, v).gen = r.gen
  <2> SUFFICES ASSUME NEW v \in Verdicts
               PROVE  /\ SettledRow(r, v).state \in {"queued", "dead_letter"}
                      /\ SettledRow(r, v).gen = r.gen
    OBVIOUS
  <2>1. CASE v = "defer" BY ONLY <1>1, <2>1 DEF SettledRow
  <2>2. CASE v = "retry" BY ONLY <1>2, <2>2 DEF SettledRow
  <2>3. CASE v \in {"exhausted", "permanent"} BY ONLY <1>3, <2>3 DEF SettledRow
  <2> QED BY ONLY v \in Verdicts, <2>1, <2>2, <2>3 DEF Verdicts
<1>5. RequeuedRow(r, TRUE).state = "queued" /\ RequeuedRow(r, TRUE).gen = r.gen
  BY DEF RequeuedRow
<1>6. CompletedRow(r).state = "completed" /\ CompletedRow(r).gen = r.gen
  BY DEF CompletedRow
<1>7. \A s \in {"queued"} \cup Terminal :
        ReleasedRow(r, s).state = s /\ ReleasedRow(r, s).gen = r.gen
  OBVIOUS
<1> QED BY <1>1, <1>4, <1>5, <1>6, <1>7

LEMMA RowStep ==
  ASSUME IInv, Next, NEW j \in Jobs
  PROVE  RowAdvances(j)
<1> USE AdvanceByField
<1>1. /\ TypeOK /\ row \in [Jobs -> Row] /\ row[j] \in Row
      /\ \A i \in Jobs : row[i] \in Row
  BY DEF IInv, TypeOK
<1>2. CASE row'[j] = row[j]
  BY <1>2
<1>3. ASSUME NEW i \in Jobs, NEW d \in BOOLEAN, Enqueue(i, d) PROVE RowAdvances(j)
  BY <1>1, <1>3 DEF Enqueue, SetRow, Row
<1>4. ASSUME NEW i \in Jobs, BecomeDue(i) \/ LeaseExpires(i) PROVE RowAdvances(j)
  BY <1>1, <1>4 DEF BecomeDue, LeaseExpires, SetRow, Row
<1>5. ASSUME NEW i \in Jobs, Cancel(i) PROVE RowAdvances(j)
  <2>1. CASE i = j
    <3>1. row'[j] = ReleasedRow(row[j], "dead_letter")
      BY <1>1, <1>5, <2>1 DEF Cancel, SetRow
    <3>2. ReleasedRow(row[j], "dead_letter").state = "dead_letter"
      BY <1>1, RowFields DEF Terminal
    <3>3. ReleasedRow(row[j], "dead_letter").gen = row[j].gen
      BY <1>1, RowFields DEF Terminal
    <3> QED BY <3>1, <3>2, <3>3
  <2>2. CASE i # j
    BY <1>1, <1>2, <1>5, <2>2 DEF Cancel, SetRow
  <2> QED BY <2>1, <2>2
<1>6. ASSUME NEW p \in Passes, End(p) PROVE RowAdvances(j)
  BY <1>1, <1>6 DEF End, RetireRows, Row
<1>7. ASSUME NEW p \in Passes, NEW R \in SUBSET CleanupJobs, Reconcile(p, R)
      PROVE  RowAdvances(j)
  BY <1>1, <1>7, RowFields DEF Reconcile
<1>8. ASSUME NEW p \in Passes, NEW C \in SUBSET Jobs, Claim(p, C) PROVE RowAdvances(j)
  <2>1. CASE j \in C
    <3>1. row'[j].gen = row[j].gen + 1 /\ row'[j].state = "running"
      BY <1>1, <1>8, <2>1 DEF Claim, ClaimedRow, Row
    <3> QED BY <1>1, <3>1 DEF RowAdvances, Row
  <2>2. CASE j \notin C
    BY <1>1, <1>8, <2>2 DEF Claim
  <2> QED BY <2>1, <2>2
<1>9. ASSUME NEW p \in Passes, DeferUnleased(p) \/ Settle(p) PROVE RowAdvances(j)
  <2>1. pass[p].phase \in Working /\ pass[p].verdict \in Verdicts
    BY <1>1, <1>9 DEF DeferUnleased, Settle, Working, TypeOK, PassState
  <2>2. pass[p].cur.job \in Jobs
    BY <2>1, WorkingHasClaim
  <2>3. CASE OwnsRow(p, pass[p].cur) /\ j = pass[p].cur.job
    <3>1. \/ row'[j] = DeferredRow(row[j])
          \/ row'[j] = SettledRow(row[j], pass[p].verdict)
      BY <1>1, <1>9, <2>3 DEF DeferUnleased, Settle, SetOwnedRow, CurRow
    <3>2. row'[j].gen = row[j].gen /\ row'[j].state \in {"queued", "dead_letter"}
      <4>1. DeferredRow(row[j]).state = "queued" /\ DeferredRow(row[j]).gen = row[j].gen
        BY ONLY <1>1, RowFields
      <4>2. /\ SettledRow(row[j], pass[p].verdict).state \in {"queued", "dead_letter"}
            /\ SettledRow(row[j], pass[p].verdict).gen = row[j].gen
        BY ONLY <1>1, <2>1, RowFields
      <4> QED BY ONLY <3>1, <4>1, <4>2
    <3> QED BY <3>2
  <2>4. CASE ~(OwnsRow(p, pass[p].cur) /\ j = pass[p].cur.job)
    BY <1>1, <1>2, <1>9, <2>4 DEF DeferUnleased, Settle, SetOwnedRow
  <2> QED BY <2>3, <2>4
<1>10. ASSUME NEW p \in Passes, Complete(p) \/ CompleteErrs(p) PROVE RowAdvances(j)
  <2>1. pass[p].phase = "complete"
    BY <1>10 DEF Complete, CompleteErrs
  <2>2. pass[p].cur.job \in Jobs
    BY <2>1, WorkingHasClaim DEF Working
  <2>3. CASE OwnsRow(p, pass[p].cur) /\ j = pass[p].cur.job /\ row'[j] # row[j]
    <3>1. row[j].gen = pass[p].cur.gen
      BY <2>3 DEF OwnsRow
    <3>2. row[j].gen \in ran[j]
      <4>1. LocalsAgree(p) /\ HandlerAgrees(p)
        BY DEF IInv
      <4>2. pass[p].cur.gen \in ran[pass[p].cur.job]
        BY <2>1, <4>1 DEF LocalsAgree, HandlerAgrees
      <4> QED BY <2>3, <3>1, <4>2
    <3>3. row'[j].state = "completed" /\ row'[j].gen = row[j].gen
      <4>1. row'[j] = CompletedRow(row[j])
        BY <1>1, <1>10, <2>3 DEF Complete, CompleteErrs, SetOwnedRow, CurRow
      <4> QED BY <1>1, <4>1, RowFields
    <3> QED BY <3>2, <3>3
  <2>4. CASE ~(OwnsRow(p, pass[p].cur) /\ j = pass[p].cur.job)
    BY <1>1, <1>2, <1>10, <2>4 DEF Complete, CompleteErrs, SetOwnedRow
  <2> QED BY <1>2, <2>3, <2>4
<1> QED
  BY <1>2, <1>3, <1>4, <1>5, <1>6, <1>7, <1>8, <1>9, <1>10
  DEF Next, Step, Disturb, RedisLeaseExpires, Start, Abort, EndAborted, Finish, SkipAborted,
      Acquire, AcquireFails, HandlerOutcome, HandlerEnds, HandlerThrows, HandlerLosesLease,
      HandlerRenews, HandlerYields, RenewRedis, RenewDb, BadReferences, Release, Crash

-----------------------------------------------------------------------------
(* What any step does to the locals of a pass. *)

\* Except for the one that claims, a step gives a pass no claim it did not have.
\* Past its handler a pass keeps the run that is recorded in ran.
PassAdvances(q) ==
  /\ LocalsAgree(q)'
  /\ HandlerAgrees(q)'
  /\ Held(q)' \subseteq Held(q)

LEMMA RanGrows ==
  ASSUME IInv, Next, NEW j \in Jobs
  PROVE  ran[j] \subseteq ran'[j]
BY DEF Next, Step, Disturb, Enqueue, BecomeDue, Cancel, LeaseExpires, RedisLeaseExpires,
       Start, Abort, EndAborted, Reconcile, Claim, Finish, SkipAborted, Acquire, AcquireFails,
       DeferUnleased, HandlerRenews, HandlerOutcome, HandlerEnds, HandlerThrows,
       HandlerLosesLease, HandlerYields, RenewRedis, RenewDb, Complete, BadReferences,
       CompleteErrs, Settle, Release, Crash, IInv, TypeOK

\* A pass that does not move.
LEMMA StillPass ==
  ASSUME IInv, Next, NEW q \in Passes, pass'[q] = pass[q]
  PROVE  PassAdvances(q)
<1>1. LocalsAgree(q)' /\ Held(q)' = Held(q)
  BY DEF IInv, LocalsAgree, Held
<1>2. ASSUME pass[q].phase \in {"renewRedis", "renewDb", "complete"}, pass[q].ended
      PROVE  pass[q].cur.gen \in ran'[pass[q].cur.job]
  <2>1. pass[q].cur.job \in Jobs
    BY <1>2, WorkingHasClaim DEF Working
  <2> QED BY <1>2, <2>1, RanGrows DEF IInv, HandlerAgrees
<1> QED BY <1>1, <1>2 DEF PassAdvances, HandlerAgrees

\* A pass that moves to a phase without a handler run to show for.
LEMMA MovedPass ==
  ASSUME IInv, NEW q \in Passes,
         LocalsAgree(q)',
         pass'[q].phase \notin {"renewRedis", "renewDb", "complete"} \/ ~pass'[q].ended,
         Held(q)' \subseteq Held(q)
  PROVE  PassAdvances(q)
BY DEF PassAdvances, HandlerAgrees

\* The steps of a pass other than its claim.
LEMMA MovingPass ==
  ASSUME IInv, Next, NEW q \in Passes, pass'[q] # pass[q],
         ~ \E C \in SUBSET Jobs : Claim(q, C)
  PROVE  PassAdvances(q)
<1> USE MovedPass
<1>1. /\ TypeOK /\ pass[q] \in PassState /\ pass \in [Passes -> PassState]
      /\ LocalsAgree(q) /\ HandlerAgrees(q)
  BY DEF IInv, TypeOK
<1>2. CASE Start(q)
  <2>1. pass'[q] = [pass[q] EXCEPT !.phase = "reconcile"]
    BY <1>1, <1>2 DEF Start, Goto, SetPass
  <2> QED BY <1>1, <1>2, <2>1 DEF Start, LocalsAgree, Held, PassState
<1>3. CASE Abort(q)
  <2>1. pass'[q] = [pass[q] EXCEPT !.aborted = TRUE] /\ ran' = ran
    BY <1>1, <1>3 DEF Abort, SetPass
  <2> QED BY <1>1, <2>1 DEF LocalsAgree, HandlerAgrees, Held, PassState, PassAdvances
<1>4. CASE End(q)
  BY <1>1, <1>4, EndGood DEF LocalsAgree, Held, IdlePass
<1>5. ASSUME NEW R \in SUBSET CleanupJobs, Reconcile(q, R) PROVE PassAdvances(q)
  <2>1. pass'[q] = [pass[q] EXCEPT !.phase = "claim"]
    BY <1>1, <1>5 DEF Reconcile, Goto, SetPass
  <2> QED BY <1>1, <1>5, <2>1 DEF Reconcile, LocalsAgree, Held, PassState
<1>6. ASSUME NEW c \in pass[q].batch, NEW ph \in {"unleased", "handler"}, Take(q, c, ph)
      PROVE  PassAdvances(q)
  <2>1. /\ pass'[q].phase = ph
        /\ pass'[q].batch = pass[q].batch \ {c}
        /\ pass'[q].cur = c
        /\ pass'[q].ended = FALSE
    BY <1>1, <1>6 DEF Take, SetPass, PassState
  <2>2. c # NoClaim
    BY <1>1, <1>6, JobQueueAssumption DEF PassState, NoClaim, Claimed
  <2> QED BY <2>1, <2>2 DEF LocalsAgree, Held
<1>7. CASE BackToLoop(q)
  <2>1. pass'[q] = [pass[q] EXCEPT !.phase = "loop", !.cur = NoClaim]
    BY <1>1, <1>7 DEF BackToLoop, SetPass
  <2> QED BY <1>1, <2>1 DEF LocalsAgree, Held, PassState
<1>8. ASSUME NEW err, Catch(q, err), pass[q].phase \in Working PROVE PassAdvances(q)
  <2>1. pass'[q] = [pass[q] EXCEPT !.phase = "settle", !.verdict = Verdict(q, err)]
    BY <1>1, <1>8, CatchGood
  <2>2. /\ pass'[q].phase = "settle" /\ pass'[q].cur = pass[q].cur
        /\ pass'[q].batch = pass[q].batch
    BY <1>1, <2>1 DEF PassState
  <2>3. LocalsAgree(q)'
    BY <1>1, <1>8, <2>2 DEF LocalsAgree, Working
  <2> QED BY <2>2, <2>3 DEF Held
<1>9. ASSUME NEW ph \in {"handler", "renewRedis", "renewDb", "complete", "release"},
             Goto(q, ph), pass[q].phase \in Working, ran' = ran,
             ph = "handler" => ~pass[q].ended,
             ph = "complete" => pass[q].ended,
             pass[q].phase \in {"renewRedis", "renewDb"} \/ ~pass[q].ended \/ ph = "release"
      PROVE  PassAdvances(q)
  <2>1. pass'[q] = [pass[q] EXCEPT !.phase = ph]
    BY <1>1, <1>9 DEF Goto, SetPass
  <2>2. /\ pass'[q].phase = ph /\ pass'[q].cur = pass[q].cur
        /\ pass'[q].batch = pass[q].batch /\ pass'[q].ended = pass[q].ended
    BY <1>1, <2>1 DEF PassState
  <2>3. LocalsAgree(q)'
    BY <1>1, <1>9, <2>2 DEF LocalsAgree, Working
  <2>4. HandlerAgrees(q)'
    BY <1>1, <1>9, <2>2 DEF HandlerAgrees
  <2> QED BY <2>2, <2>3, <2>4 DEF PassAdvances, Held
<1>10. CASE HandlerEnds(q)
  <2>1. pass[q].phase \in Working
    BY <1>10 DEF HandlerEnds, Working
  <2>2. CASE pass[q].aborted
    BY <1>8, <1>10, <2>1, <2>2 DEF HandlerEnds
  <2>3. CASE ~pass[q].aborted
    <3>1. pass'[q] = [pass[q] EXCEPT !.phase = "renewRedis", !.ended = TRUE]
      BY <1>1, <1>10, <2>3 DEF HandlerEnds, SetPass
    <3>2. pass[q].cur.gen \in ran'[pass[q].cur.job]
      BY <1>1, <1>10, <2>1, WorkingHasClaim DEF HandlerEnds, TypeOK
    <3> QED BY <1>1, <2>1, <3>1, <3>2
            DEF LocalsAgree, HandlerAgrees, Held, PassState, PassAdvances, Working
  <2> QED BY <2>2, <2>3
<1>11. CASE HandlerRenews(q)
  BY <1>1, <1>9, <1>11 DEF HandlerRenews, LocalsAgree, Working
<1>12. CASE RenewRedis(q)
  <2>1. pass[q].phase \in Working
    BY <1>12 DEF RenewRedis, Working
  <2> QED BY <1>8, <1>9, <1>12, <2>1 DEF RenewRedis
<1>13. CASE RenewDb(q)
  <2>1. pass[q].phase \in Working /\ pass[q].ended \in BOOLEAN
    BY <1>1, <1>13 DEF RenewDb, Working, PassState
  <2>2. CASE OwnsRow(q, pass[q].cur) /\ pass[q].ended
    BY <1>9, <1>13, <2>1, <2>2 DEF RenewDb
  <2>3. CASE OwnsRow(q, pass[q].cur) /\ ~pass[q].ended
    BY <1>9, <1>13, <2>1, <2>3 DEF RenewDb
  <2>4. CASE ~OwnsRow(q, pass[q].cur)
    BY <1>8, <1>13, <2>1, <2>4 DEF RenewDb
  <2> QED BY <2>2, <2>3, <2>4
<1>14. CASE Complete(q) \/ Settle(q)
  <2>1. pass[q].phase \in Working
    BY <1>14 DEF Complete, Settle, Working
  <2> QED BY <1>9, <1>14, <2>1 DEF Complete, Settle
<1>15. CASE \/ HandlerLosesLease(q) \/ HandlerYields(q) \/ BadReferences(q) \/ CompleteErrs(q)
            \/ \E err \in {"retryable", "permanent"} : HandlerThrows(q, err)
  <2>1. pass[q].phase \in Working /\ \E err : Catch(q, err)
    BY <1>15 DEF HandlerLosesLease, HandlerYields, BadReferences, CompleteErrs, HandlerThrows,
                 Working
  <2> QED BY <1>8, <2>1
<1>16. CASE \E c \in pass[q].batch :
              SkipAborted(q, c) \/ Acquire(q, c) \/ AcquireFails(q, c)
  BY <1>6, <1>16 DEF SkipAborted, Acquire, AcquireFails
<1>17. CASE DeferUnleased(q) \/ Release(q)
  BY <1>7, <1>17 DEF DeferUnleased, Release
<1>18. CASE EndAborted(q) \/ Finish(q) \/ Crash(q)
  BY <1>4, <1>18 DEF EndAborted, Finish, Crash
<1>19. ASSUME NEW p \in Passes, p # q, Start(p) \/ Step(p) \/ HandlerRenews(p) \/ Disturb(p)
       PROVE  pass'[q] = pass[q]
  <2>1. ASSUME NEW t, SetPass(p, t) PROVE pass'[q] = pass[q]
    BY <1>1, <1>19, <2>1 DEF SetPass
  <2> QED BY <1>19, <2>1
    DEF Step, Disturb, Start, Abort, EndAborted, Reconcile, Claim, Finish, SkipAborted, Acquire,
        AcquireFails, DeferUnleased, HandlerRenews, HandlerOutcome, HandlerEnds, HandlerThrows,
        HandlerLosesLease, HandlerYields, RenewRedis, RenewDb, Complete, BadReferences,
        CompleteErrs, Settle, Release, Crash, End, Goto, Take, BackToLoop, Catch
<1>20. \E p \in Passes : Start(p) \/ Step(p) \/ HandlerRenews(p) \/ Disturb(p)
  BY DEF Next, Enqueue, BecomeDue, Cancel, LeaseExpires, RedisLeaseExpires
<1> QED
  BY <1>2, <1>3, <1>5, <1>10, <1>11, <1>12, <1>13, <1>14, <1>15, <1>16, <1>17, <1>18, <1>19, <1>20
  DEF Step, Disturb, HandlerOutcome

\* The pass that claims: its snapshots are the rows it has just updated.
LEMMA ClaimingPass ==
  ASSUME IInv, NEW q \in Passes, NEW C \in SUBSET Jobs, Claim(q, C)
  PROVE  LocalsAgree(q)' /\ HandlerAgrees(q)' /\ ClaimsAgree(q)'
<1>1. /\ TypeOK /\ pass[q] \in PassState /\ pass \in [Passes -> PassState]
      /\ LocalsAgree(q) /\ \A j \in Jobs : row[j] \in Row
  BY DEF IInv, TypeOK
<1>2. pass'[q] = [pass[q] EXCEPT !.phase = "loop", !.batch = {Snapshot(j) : j \in C}]
  BY <1>1 DEF Claim, SetPass
<1>3. /\ pass'[q].phase = "loop" /\ pass'[q].cur = NoClaim
      /\ pass'[q].batch = {Snapshot(j) : j \in C}
  BY <1>1, <1>2 DEF Claim, LocalsAgree, PassState
<1>4. LocalsAgree(q)' /\ HandlerAgrees(q)'
  BY <1>3 DEF LocalsAgree, HandlerAgrees
<1>5. ASSUME NEW j \in C
      PROVE  /\ Snapshot(j).job = j
             /\ Snapshot(j).gen = row'[j].gen
             /\ Snapshot(j).attempts = row'[j].attempts
             /\ Snapshot(j).attempts >= 1
             /\ row'[j].gen \in Nat
  <2>1. row'[j].gen = row[j].gen + 1 /\ row'[j].attempts = row[j].attempts + 1
    BY <1>1 DEF Claim, ClaimedRow, Row
  <2> QED BY <1>1, <2>1 DEF Snapshot, Row
<1>6. ClaimsAgree(q)'
  <2> SUFFICES ASSUME NEW c \in Held(q)'
               PROVE  /\ c.gen <= row'[c.job].gen
                      /\ c.attempts = row'[c.job].attempts /\ c.attempts >= 1
    BY DEF ClaimsAgree
  <2>1. PICK j \in C : c = Snapshot(j)
    BY <1>3 DEF Held
  <2> QED BY <1>5, <2>1
<1> QED BY <1>4, <1>6

\* Claims a pass keeps stay in agreement with the rows.
LEMMA KeptClaims ==
  ASSUME IInv, NEW q \in Passes, \A j \in Jobs : RowAdvances(j), TypeOK',
         Held(q)' \subseteq Held(q)
  PROVE  ClaimsAgree(q)'
<1> SUFFICES ASSUME NEW c \in Held(q), c \in Held(q)'
             PROVE  /\ c.gen <= row'[c.job].gen
                    /\ row'[c.job].state = "running" /\ row'[c.job].owner = q
                         /\ row'[c.job].gen = c.gen
                         => c.attempts = row'[c.job].attempts /\ c.attempts >= 1
  BY DEF ClaimsAgree
<1>1. c \in Claimed /\ c.job \in Jobs /\ c.gen \in Nat
  BY DEF IInv, TypeOK, PassState, Held, Claimed
<1>2. row[c.job].gen \in Nat /\ row'[c.job].gen \in Nat
  BY <1>1 DEF IInv, TypeOK, Row
<1>3. ClaimsAgree(q) /\ RowAdvances(c.job)
  BY <1>1 DEF IInv
<1>4. c.gen <= row'[c.job].gen
  BY <1>1, <1>2, <1>3 DEF ClaimsAgree, RowAdvances
<1>5. ASSUME row'[c.job].state = "running", row'[c.job].owner = q, row'[c.job].gen = c.gen
      PROVE  c.attempts = row'[c.job].attempts /\ c.attempts >= 1
  <2>1. row'[c.job].gen = row[c.job].gen
    BY <1>1, <1>2, <1>3, <1>5 DEF ClaimsAgree, RowAdvances
  <2>2. row[c.job].state = "running" /\ row[c.job].owner = q
    BY <1>3, <1>5, <2>1, JobQueueAssumption DEF RowAdvances
  <2> QED BY <1>3, <1>5, <2>1, <2>2 DEF ClaimsAgree, RowAdvances
<1> QED BY <1>4, <1>5

\* A handler run is recorded under a claim of its row that has been made.
LEMMA RunStep ==
  ASSUME IInv, Next, TypeOK', \A j \in Jobs : RowAdvances(j)
  PROVE  RunsArePast'
<1> SUFFICES ASSUME NEW j \in Jobs, NEW g \in ran'[j] PROVE g <= row'[j].gen
  BY DEF RunsArePast
<1>1. row[j].gen \in Nat /\ row'[j].gen \in Nat /\ row[j].gen <= row'[j].gen
  BY DEF IInv, TypeOK, Row, RowAdvances
<1>2. CASE g \in ran[j]
  <2>1. g \in Nat /\ g <= row[j].gen
    BY <1>2 DEF IInv, RunsArePast, TypeOK
  <2> QED BY <1>1, <2>1
<1>3. CASE g \notin ran[j]
  <2>1. PICK p \in Passes : HandlerEnds(p)
    BY <1>3 DEF Next, Step, Disturb, Enqueue, BecomeDue, Cancel, LeaseExpires,
      RedisLeaseExpires, Start, Abort, EndAborted, Reconcile, Claim, Finish, SkipAborted,
      Acquire, AcquireFails, DeferUnleased, HandlerRenews, HandlerOutcome, HandlerThrows,
      HandlerLosesLease, HandlerYields, RenewRedis, RenewDb, Complete, BadReferences,
      CompleteErrs, Settle, Release, Crash
  <2>2. pass[p].cur \in Held(p) /\ pass[p].cur \in Claimed
    BY <2>1, WorkingHasClaim DEF HandlerEnds, Working
  <2>3. pass[p].cur.gen <= row[pass[p].cur.job].gen /\ pass[p].cur.gen \in Nat
    BY <2>2 DEF IInv, ClaimsAgree, Claimed
  <2>4. pass[p].cur.job = j /\ g = pass[p].cur.gen
    BY <1>3, <2>1, <2>2 DEF HandlerEnds, IInv, TypeOK, Claimed
  <2> QED BY <1>1, <2>3, <2>4
<1> QED BY <1>2, <1>3

-----------------------------------------------------------------------------
(* The invariance theorems. *)

LEMMA InitInv == Init => IInv
<1> SUFFICES ASSUME Init PROVE IInv
  OBVIOUS
<1> USE JobQueueAssumption DEF Init
<1>1. TypeOK
  BY DEF TypeOK, Row, Tokens, Terminal, IdlePass, PassState, Phases, Verdicts,
         LeaseColumnsAgree
<1>2. \A p \in Passes : LocalsAgree(p) /\ ClaimsAgree(p) /\ HandlerAgrees(p)
  BY DEF LocalsAgree, ClaimsAgree, HandlerAgrees, Held, IdlePass
<1>3. CompletedWasHandled
  BY DEF CompletedWasHandled
<1>4. RunsArePast
  BY DEF RunsArePast
<1> QED BY <1>1, <1>2, <1>3, <1>4 DEF IInv

LEMMA StepInv == IInv /\ [Next]_vars => IInv'
<1> SUFFICES ASSUME IInv, [Next]_vars PROVE IInv'
  OBVIOUS
<1>1. TypeOK'
  BY TypeStep
<1>2. CASE UNCHANGED vars
  BY <1>2 DEF vars, IInv, TypeOK, LocalsAgree, ClaimsAgree, HandlerAgrees, Held,
              CompletedWasHandled, RunsArePast
<1>3. CASE Next
  <2>1. \A j \in Jobs : RowAdvances(j) /\ ran[j] \subseteq ran'[j]
    BY <1>3, RowStep, RanGrows
  <2>2. CompletedWasHandled'
    BY <2>1 DEF RowAdvances, CompletedWasHandled
  <2>3. ASSUME NEW q \in Passes
        PROVE  LocalsAgree(q)' /\ ClaimsAgree(q)' /\ HandlerAgrees(q)'
    <3>1. CASE \E C \in SUBSET Jobs : Claim(q, C)
      BY <3>1, ClaimingPass
    <3>2. CASE ~ \E C \in SUBSET Jobs : Claim(q, C)
      <4>1. PassAdvances(q)
        BY <1>3, <3>2, StillPass, MovingPass
      <4> QED BY <1>1, <2>1, <4>1, KeptClaims DEF PassAdvances
    <3> QED BY <3>1, <3>2
  <2>4. RunsArePast'
    BY <1>1, <1>3, <2>1, RunStep
  <2> QED BY <1>1, <2>2, <2>3, <2>4 DEF IInv
<1> QED BY <1>2, <1>3

\* The inductive invariant holds in every reachable state.
THEOREM Invariance == Spec => []IInv
BY InitInv, StepInv, PTL DEF Spec

\* Types, and the agreement of the lease columns with the state.
THEOREM TypeCorrect == Spec => []TypeOK
<1>1. IInv => TypeOK
  BY DEF IInv
<1> QED BY <1>1, Invariance, PTL

\* A completed job's handler ran to its end under the claim that completed it.
THEOREM CompletionIsEarned == Spec => []CompletedWasHandled
<1>1. IInv => CompletedWasHandled
  BY DEF IInv
<1> QED BY <1>1, Invariance, PTL

\* The attempt number a pass decides with is the row's as long as it can settle it.
THEOREM SnapshotsAreCurrent == Spec => []SnapshotIsCurrent
<1>1. IInv => SnapshotIsCurrent
  BY DEF IInv, ClaimsAgree, SnapshotIsCurrent, OwnsRow
<1> QED BY <1>1, Invariance, PTL

-----------------------------------------------------------------------------
(* Fencing: only the pass whose claim is the row's current one, and whose    *)
(* lease is live, takes a row out of the running state.                      *)

LEMMA SettlingStep ==
  ASSUME IInv, Next, NEW j \in Jobs, row[j].state = "running", row'[j].state # "running"
  PROVE  \E p \in Passes :
           /\ DeferUnleased(p) \/ Settle(p) \/ Complete(p) \/ CompleteErrs(p)
           /\ OwnsRow(p, pass[p].cur)
           /\ pass[p].cur.job = j
<1>1. row \in [Jobs -> Row] /\ row[j] \in Row
  BY DEF IInv, TypeOK
<1>2. ASSUME NEW i \in Jobs,
             \/ \E d \in BOOLEAN : Enqueue(i, d)
             \/ BecomeDue(i)
             \/ Cancel(i)
             \/ LeaseExpires(i)
             \/ RedisLeaseExpires(i)
      PROVE  FALSE
  BY <1>1, <1>2 DEF Enqueue, BecomeDue, Cancel, LeaseExpires, RedisLeaseExpires, SetRow, Row
<1>3. ASSUME NEW p \in Passes, End(p) PROVE FALSE
  BY <1>1, <1>3 DEF End, RetireRows, Row
<1>4. ASSUME NEW p \in Passes, NEW R \in SUBSET CleanupJobs, Reconcile(p, R) PROVE FALSE
  BY <1>1, <1>4 DEF Reconcile, Terminal
<1>5. ASSUME NEW p \in Passes, NEW C \in SUBSET Jobs, Claim(p, C) PROVE FALSE
  BY <1>1, <1>5 DEF Claim, ClaimedRow, Row
<1>6. PICK p \in Passes : DeferUnleased(p) \/ Settle(p) \/ Complete(p) \/ CompleteErrs(p)
  BY <1>2, <1>3, <1>4, <1>5
  DEF Next, Step, Disturb, Start, Abort, EndAborted, Finish, SkipAborted, Acquire,
      AcquireFails, HandlerOutcome, HandlerEnds, HandlerThrows, HandlerLosesLease,
      HandlerRenews, HandlerYields, RenewRedis, RenewDb, BadReferences, Release, Crash
<1>7. OwnsRow(p, pass[p].cur) /\ pass[p].cur.job = j
  BY <1>1, <1>6 DEF DeferUnleased, Settle, Complete, CompleteErrs, SetOwnedRow
<1> QED BY <1>6, <1>7

\* A pass that lost its lease cannot settle the job of the pass that took over.
THEOREM SettlementIsFenced == Spec => FencedSettlement
<1>1. ASSUME IInv, Next, NEW j \in Jobs, row[j].state = "running", row'[j].state # "running"
      PROVE  /\ row[j].live
             /\ \E p \in Passes :
                  /\ row[j].owner = p
                  /\ pass[p].cur # NoClaim
                  /\ pass[p].cur.job = j
                  /\ pass[p].cur.gen = row[j].gen
                  /\ pass'[p] # pass[p]
  <2>1. PICK p \in Passes :
          /\ DeferUnleased(p) \/ Settle(p) \/ Complete(p) \/ CompleteErrs(p)
          /\ OwnsRow(p, pass[p].cur)
          /\ pass[p].cur.job = j
    BY <1>1, SettlingStep
  <2>2. pass[p].phase \in Working
    BY <2>1 DEF DeferUnleased, Settle, Complete, CompleteErrs, Working
  <2>3. pass[p].cur # NoClaim
    BY <1>1, <2>2 DEF IInv, LocalsAgree, Working
  <2>4. pass'[p].phase # pass[p].phase
    <3>1. pass \in [Passes -> PassState] /\ pass[p] \in PassState /\ TypeOK
      BY <1>1 DEF IInv, TypeOK
    <3>2. CASE DeferUnleased(p)
      <4>1. pass'[p] = [pass[p] EXCEPT !.phase = "loop", !.cur = NoClaim]
        BY <3>1, <3>2 DEF DeferUnleased, BackToLoop, SetPass
      <4> QED BY <3>1, <3>2, <4>1 DEF DeferUnleased, PassState
    <3>3. CASE Settle(p) \/ Complete(p)
      <4>1. pass'[p] = [pass[p] EXCEPT !.phase = "release"]
        BY <3>1, <3>3 DEF Settle, Complete, Goto, SetPass
      <4> QED BY <3>1, <3>3, <4>1 DEF Settle, Complete, PassState
    <3>4. CASE CompleteErrs(p)
      <4>1. Catch(p, "retryable")
        BY <3>4 DEF CompleteErrs
      <4>2. pass'[p] = [pass[p] EXCEPT !.phase = "settle", !.verdict = Verdict(p, "retryable")]
        BY <3>1, <4>1, CatchGood
      <4> QED BY <3>1, <3>4, <4>2 DEF CompleteErrs, PassState
    <3> QED BY <2>1, <3>2, <3>3, <3>4
  <2> QED BY <2>1, <2>3, <2>4 DEF OwnsRow
<1>2. IInv /\ [Next]_vars =>
        [\A j \in Jobs :
           row[j].state = "running" /\ row'[j].state # "running" =>
             /\ row[j].live
             /\ \E p \in Passes :
                  /\ row[j].owner = p
                  /\ pass[p].cur # NoClaim
                  /\ pass[p].cur.job = j
                  /\ pass[p].cur.gen = row[j].gen
                  /\ pass'[p] # pass[p]]_vars
  BY <1>1
<1> QED BY <1>2, Invariance, PTL DEF Spec, FencedSettlement

-----------------------------------------------------------------------------
(* Tending: a pass keeps every row whose lease it has until it has settled   *)
(* it.  The invariant carries over from step to step beside IInv.            *)

Leased(j, q) == row[j].state = "running" /\ row[j].live /\ row[j].owner = q

LeaseIsKnown(j, q) ==
  \/ Leased(j, q) /\ row'[j].gen = row[j].gen
  \/ \E C \in SUBSET Jobs : Claim(q, C) /\ j \in C

\* A pass has a lease that it had before, or has just claimed the row.
LEMMA LeaseComesFromClaim ==
  ASSUME IInv, Next, NEW j \in Jobs, NEW q \in Passes, Leased(j, q)'
  PROVE  LeaseIsKnown(j, q)
<1>1. /\ TypeOK /\ row \in [Jobs -> Row] /\ row[j] \in Row /\ q # Gone
      /\ \A i \in Jobs : row[i] \in Row
  BY JobQueueAssumption DEF IInv, TypeOK
<1>2. CASE row'[j] = row[j]
  BY <1>2 DEF Leased, LeaseIsKnown
<1>3. ASSUME NEW i \in Jobs, NEW d \in BOOLEAN, Enqueue(i, d) PROVE LeaseIsKnown(j, q)
  BY <1>1, <1>2, <1>3 DEF Enqueue, SetRow, Row, Leased, LeaseIsKnown
<1>4. ASSUME NEW i \in Jobs, BecomeDue(i) \/ LeaseExpires(i) PROVE LeaseIsKnown(j, q)
  BY <1>1, <1>2, <1>4 DEF BecomeDue, LeaseExpires, SetRow, Row, Leased, LeaseIsKnown
<1>5. ASSUME NEW i \in Jobs, Cancel(i) PROVE LeaseIsKnown(j, q)
  <2>1. ReleasedRow(row[i], "dead_letter").state = "dead_letter"
    BY <1>1, RowFields DEF Terminal
  <2> QED BY <1>1, <1>2, <1>5, <2>1 DEF Cancel, SetRow, Leased, LeaseIsKnown
<1>6. ASSUME NEW p \in Passes, End(p) PROVE LeaseIsKnown(j, q)
  BY <1>1, <1>2, <1>6 DEF End, RetireRows, Row, Leased, LeaseIsKnown
<1>7. ASSUME NEW p \in Passes, NEW R \in SUBSET CleanupJobs, Reconcile(p, R) PROVE LeaseIsKnown(j, q)
  <2>1. RequeuedRow(row[j], TRUE).state = "queued"
    BY <1>1, RowFields
  <2> QED BY <1>1, <1>2, <1>7, <2>1 DEF Reconcile, Leased, LeaseIsKnown
<1>8. ASSUME NEW p \in Passes, NEW C \in SUBSET Jobs, Claim(p, C) PROVE LeaseIsKnown(j, q)
  <2>1. CASE j \in C
    <3>1. row'[j].owner = p
      BY <1>1, <1>8, <2>1 DEF Claim, ClaimedRow, Row
    <3> QED BY <1>8, <2>1, <3>1 DEF Leased, LeaseIsKnown
  <2>2. CASE j \notin C
    BY <1>1, <1>2, <1>8, <2>2 DEF Claim
  <2> QED BY <2>1, <2>2
<1>9. ASSUME NEW p \in Passes, NEW r \in Row, r.state # "running", SetOwnedRow(p, r) PROVE LeaseIsKnown(j, q)
  BY <1>1, <1>2, <1>9 DEF SetOwnedRow, Leased, LeaseIsKnown
<1>10. ASSUME NEW p \in Passes,
              DeferUnleased(p) \/ Settle(p) \/ Complete(p) \/ CompleteErrs(p)
       PROVE  LeaseIsKnown(j, q)
  <2>1. pass[p].phase \in Working /\ pass[p].verdict \in Verdicts
    BY <1>1, <1>10 DEF DeferUnleased, Settle, Complete, CompleteErrs, Working, TypeOK, PassState
  <2>2. GoodRow(CurRow(p)) /\ CurRow(p) \in Row
    BY <2>1, WorkingHasClaim DEF GoodRow
  <2>3. /\ DeferredRow(CurRow(p)) \in Row /\ CompletedRow(CurRow(p)) \in Row
        /\ SettledRow(CurRow(p), pass[p].verdict) \in Row
    BY <2>1, <2>2, ReleasedRowsGood DEF GoodRow
  <2>4. /\ DeferredRow(CurRow(p)).state # "running" /\ CompletedRow(CurRow(p)).state # "running"
        /\ SettledRow(CurRow(p), pass[p].verdict).state # "running"
    <3>1. SettledRow(CurRow(p), pass[p].verdict).state \in {"queued", "dead_letter"}
      BY <2>1, <2>2, RowFields
    <3> QED BY <2>2, <3>1, RowFields
  <2> QED BY <1>2, <1>9, <1>10, <2>3, <2>4 DEF DeferUnleased, Settle, Complete, CompleteErrs
<1> QED
  BY <1>2, <1>3, <1>4, <1>5, <1>6, <1>7, <1>8, <1>10
  DEF Next, Step, Disturb, RedisLeaseExpires, Start, Abort, EndAborted, Finish, SkipAborted,
      Acquire, AcquireFails, HandlerOutcome, HandlerEnds, HandlerThrows, HandlerLosesLease,
      HandlerRenews, HandlerYields, RenewRedis, RenewDb, BadReferences, Release, Crash

\* Claim c of pass q is still to be settled.
Tends(q, c) ==
  /\ pass[q].phase # "idle" /\ c \in Held(q)
  /\ pass[q].phase = "release" => c # pass[q].cur

\* A pass lets go of a claim only by ending, or by settling its row.
LEMMA ClaimIsKept ==
  ASSUME IInv, Next, NEW q \in Passes, NEW c \in Held(q), Tends(q, c),
         Leased(c.job, q), row[c.job].gen = c.gen, Leased(c.job, q)',
         ~ \E C \in SUBSET Jobs : Claim(q, C)
  PROVE  Tends(q, c)'
<1>1. /\ TypeOK /\ pass[q] \in PassState /\ pass \in [Passes -> PassState]
      /\ LocalsAgree(q) /\ c \in Claimed /\ c # NoClaim /\ c.job \in Jobs
      /\ row \in [Jobs -> Row] /\ row[c.job] \in Row /\ q # Gone
  BY JobQueueAssumption DEF IInv, TypeOK, Held, PassState, Claimed, NoClaim
<1>2. CASE pass'[q] = pass[q]
  BY <1>2 DEF Tends, Held
<1>3. ASSUME End(q) PROVE FALSE
  BY <1>1, <1>3 DEF End, RetireRows, Leased, Row
<1>4. ASSUME NEW p \in Passes, p # q, Start(p) \/ Step(p) \/ HandlerRenews(p) \/ Disturb(p)
      PROVE  pass'[q] = pass[q]
  <2>1. ASSUME NEW t, SetPass(p, t) PROVE pass'[q] = pass[q]
    BY <1>1, <1>4, <2>1 DEF SetPass
  <2> QED BY <1>4, <2>1
    DEF Step, Disturb, Start, Abort, EndAborted, Reconcile, Claim, Finish, SkipAborted, Acquire,
        AcquireFails, DeferUnleased, HandlerRenews, HandlerOutcome, HandlerEnds, HandlerThrows,
        HandlerLosesLease, HandlerYields, RenewRedis, RenewDb, Complete, BadReferences,
        CompleteErrs, Settle, Release, Crash, End, Goto, Take, BackToLoop, Catch
<1>5. ASSUME NEW ph \in Phases \ {"idle", "release"}, Goto(q, ph) PROVE Tends(q, c)'
  <2>1. pass'[q] = [pass[q] EXCEPT !.phase = ph]
    BY <1>1, <1>5 DEF Goto, SetPass
  <2> QED BY <1>1, <2>1 DEF Tends, Held, PassState
<1>6. ASSUME NEW err, Catch(q, err) PROVE Tends(q, c)'
  <2>1. pass'[q] = [pass[q] EXCEPT !.phase = "settle", !.verdict = Verdict(q, err)]
    BY <1>1, <1>6, CatchGood
  <2> QED BY <1>1, <2>1 DEF Tends, Held, PassState
<1>7. ASSUME Abort(q) PROVE Tends(q, c)'
  <2>1. pass'[q] = [pass[q] EXCEPT !.aborted = TRUE]
    BY <1>1, <1>7 DEF Abort, SetPass
  <2> QED BY <1>1, <2>1 DEF Tends, Held, PassState
<1>8. ASSUME NEW d \in pass[q].batch, NEW ph \in {"unleased", "handler"}, Take(q, d, ph),
             pass[q].phase = "loop"
      PROVE  Tends(q, c)'
  <2>1. /\ pass'[q].phase = ph /\ pass'[q].batch = pass[q].batch \ {d} /\ pass'[q].cur = d
    BY <1>1, <1>8 DEF Take, SetPass, PassState
  <2>2. c \in pass[q].batch
    BY <1>1, <1>8 DEF LocalsAgree, Held
  <2> QED BY <1>1, <2>1, <2>2 DEF Tends, Held
<1>9. ASSUME BackToLoop(q), c # pass[q].cur PROVE Tends(q, c)'
  <2>1. pass'[q] = [pass[q] EXCEPT !.phase = "loop", !.cur = NoClaim]
    BY <1>1, <1>9 DEF BackToLoop, SetPass
  <2> QED BY <1>1, <1>9, <2>1 DEF Tends, Held, PassState
<1>10. ASSUME Goto(q, "release"), c # pass[q].cur PROVE Tends(q, c)'
  <2>1. pass'[q] = [pass[q] EXCEPT !.phase = "release"]
    BY <1>1, <1>10 DEF Goto, SetPass
  <2> QED BY <1>1, <1>10, <2>1 DEF Tends, Held, PassState
<1>11. ASSUME NEW r \in Row, r.state # "running", SetOwnedRow(q, r) PROVE c # pass[q].cur
  BY <1>1, <1>11 DEF SetOwnedRow, OwnsRow, Leased
<1>12. CASE DeferUnleased(q) \/ Settle(q) \/ Complete(q)
  <2>1. pass[q].phase \in Working /\ pass[q].verdict \in Verdicts
    BY <1>1, <1>12 DEF DeferUnleased, Settle, Complete, Working, PassState
  <2>2. GoodRow(CurRow(q)) /\ CurRow(q) \in Row
    BY <2>1, WorkingHasClaim DEF GoodRow
  <2>3. /\ DeferredRow(CurRow(q)) \in Row /\ CompletedRow(CurRow(q)) \in Row
        /\ SettledRow(CurRow(q), pass[q].verdict) \in Row
    BY <2>1, <2>2, ReleasedRowsGood DEF GoodRow
  <2>4. /\ DeferredRow(CurRow(q)).state # "running" /\ CompletedRow(CurRow(q)).state # "running"
        /\ SettledRow(CurRow(q), pass[q].verdict).state # "running"
    <3>1. SettledRow(CurRow(q), pass[q].verdict).state \in {"queued", "dead_letter"}
      BY <2>1, <2>2, RowFields
    <3> QED BY <2>2, <3>1, RowFields
  <2>5. c # pass[q].cur
    BY <1>11, <1>12, <2>3, <2>4 DEF DeferUnleased, Settle, Complete
  <2> QED BY <1>9, <1>10, <1>12, <2>5 DEF DeferUnleased, Settle, Complete
<1>13. CASE Release(q)
  BY <1>9, <1>13 DEF Release, Tends
<1>14. CASE HandlerEnds(q)
  <2>1. CASE pass[q].aborted
    BY <1>6, <1>14, <2>1 DEF HandlerEnds
  <2>2. CASE ~pass[q].aborted
    <3>1. pass'[q] = [pass[q] EXCEPT !.phase = "renewRedis", !.ended = TRUE]
      BY <1>1, <1>14, <2>2 DEF HandlerEnds, SetPass
    <3> QED BY <1>1, <3>1 DEF Tends, Held, PassState
  <2> QED BY <2>1, <2>2
<1>15. CASE Start(q) \/ HandlerRenews(q) \/ RenewRedis(q) \/ RenewDb(q)
            \/ \E R \in SUBSET CleanupJobs : Reconcile(q, R)
  BY <1>5, <1>6, <1>15 DEF Start, HandlerRenews, RenewRedis, RenewDb, Reconcile, Phases
<1>16. CASE HandlerLosesLease(q) \/ HandlerYields(q) \/ BadReferences(q) \/ CompleteErrs(q)
            \/ \E err \in {"retryable", "permanent"} : HandlerThrows(q, err)
  BY <1>6, <1>16 DEF HandlerLosesLease, HandlerYields, BadReferences, CompleteErrs, HandlerThrows
<1>17. CASE \E d \in pass[q].batch :
              SkipAborted(q, d) \/ Acquire(q, d) \/ AcquireFails(q, d)
  BY <1>8, <1>17 DEF SkipAborted, Acquire, AcquireFails
<1>18. CASE EndAborted(q) \/ Finish(q) \/ Crash(q)
  BY <1>3, <1>18 DEF EndAborted, Finish, Crash
<1>19. pass' = pass \/ \E p \in Passes : Start(p) \/ Step(p) \/ HandlerRenews(p) \/ Disturb(p)
  BY DEF Next, Enqueue, BecomeDue, Cancel, LeaseExpires, RedisLeaseExpires
<1> QED
  BY <1>2, <1>4, <1>7, <1>12, <1>13, <1>14, <1>15, <1>16, <1>17, <1>18, <1>19
  DEF Step, Disturb, HandlerOutcome

LEMMA TendingStep ==
  ASSUME IInv, LeasesAreTended, Next
  PROVE  LeasesAreTended'
<1> SUFFICES ASSUME NEW j \in Jobs, NEW q \in Passes, Leased(j, q)'
             PROVE  \E c \in Held(q)' : c.job = j /\ c.gen = row'[j].gen /\ Tends(q, c)'
  BY DEF LeasesAreTended, RowTended, Leased, Tends
<1>1. pass \in [Passes -> PassState] /\ pass[q] \in PassState /\ row[j] \in Row /\ LocalsAgree(q)
  BY DEF IInv, TypeOK
<1>2. Leased(j, q) => \E c \in Held(q) : c.job = j /\ c.gen = row[j].gen /\ Tends(q, c)
  BY DEF LeasesAreTended, RowTended, Leased, Tends
<1>3. ASSUME NEW C \in SUBSET Jobs, Claim(q, C), j \in C
      PROVE  \E c \in Held(q)' : c.job = j /\ c.gen = row'[j].gen /\ Tends(q, c)'
  <2>1. /\ pass'[q].phase = "loop" /\ pass'[q].batch = {Snapshot(i) : i \in C}
    BY <1>1, <1>3 DEF Claim, SetPass, PassState
  <2>2. Snapshot(j).job = j /\ Snapshot(j).gen = row'[j].gen
    BY <1>1, <1>3 DEF Snapshot, Claim, ClaimedRow, Row
  <2> QED BY <1>3, <2>1, <2>2 DEF Held, Tends
\* A pass that claims has no claim yet, and so no lease.
<1>4. ASSUME NEW C \in SUBSET Jobs, Claim(q, C) PROVE ~Leased(j, q)
  BY <1>1, <1>2, <1>4 DEF Claim, LocalsAgree, Held
<1>5. CASE Leased(j, q) /\ row'[j].gen = row[j].gen
  <2>1. PICK c \in Held(q) : c.job = j /\ c.gen = row[j].gen /\ Tends(q, c)
    BY <1>2, <1>5
  <2>2. Tends(q, c)'
    BY <1>4, <1>5, <2>1, ClaimIsKept
  <2> QED BY <1>5, <2>1, <2>2 DEF Tends
<1> QED BY <1>3, <1>5, LeaseComesFromClaim DEF LeaseIsKnown

\* runJobsOnce: on no path (a skipped row, a lost lease, a failed renewal, a lost
\* reply to the completion) does a pass forget a row whose lease it has, so that
\* nobody waits for a lease that no one is going to give back.
THEOREM LeasesAreAlwaysTended == Spec => []LeasesAreTended
<1>1. Init => LeasesAreTended
  BY DEF Init, LeasesAreTended
<1>2. IInv /\ LeasesAreTended /\ [Next]_vars => LeasesAreTended'
  <2> SUFFICES ASSUME IInv, LeasesAreTended, [Next]_vars PROVE LeasesAreTended'
    OBVIOUS
  <2>1. CASE UNCHANGED vars
    BY <2>1 DEF LeasesAreTended, RowTended, Held, vars
  <2> QED BY <2>1, TendingStep
<1> QED BY <1>1, <1>2, Invariance, PTL DEF Spec

-----------------------------------------------------------------------------
(* Refinement: every step of JobQueue is a step of DurableTask, the abstract  *)
(* task seen through TaskStatus and TaskHandled, or none.                     *)


StatusNow == [j \in Jobs |-> TaskStatus(row[j])]
HandledNow == [j \in Jobs |-> TaskHandled(j)]

\* A step seen row by row: the rows of J change as given, the others look the same.
SameTask(j) ==
  /\ TaskStatus(row'[j]) = TaskStatus(row[j])
  /\ TaskHandled(j)' = TaskHandled(j)

LEMMA Stutter ==
  ASSUME \A j \in Jobs : SameTask(j)
  PROVE  UNCHANGED Task!vars
<1>1. StatusNow' = StatusNow
  BY DEF StatusNow, SameTask
<1>2. HandledNow' = HandledNow
  BY DEF HandledNow, SameTask
<1> QED BY <1>1, <1>2 DEF StatusNow, HandledNow, Task!vars

\* What the abstraction looks at: state, generation and recorded runs.
LEMMA SameIfSame ==
  ASSUME NEW j \in Jobs, row'[j].state = row[j].state, row'[j].gen = row[j].gen,
         ran'[j] = ran[j]
  PROVE  SameTask(j)
BY DEF SameTask, TaskStatus, TaskHandled

\* One row moves, all the others look the same: a step of one abstract task.
LEMMA OneTaskMoves ==
  ASSUME NEW i \in Jobs, \A j \in Jobs \ {i} : SameTask(j),
         \/ /\ TaskStatus(row[i]) = "absent"
            /\ TaskStatus(row'[i]) = "pending"
            /\ TaskHandled(i)' = TaskHandled(i)
         \/ /\ TaskStatus(row[i]) = "pending"
            /\ TaskStatus(row'[i]) = "pending"
         \/ /\ TaskStatus(row[i]) = "pending" /\ TaskHandled(i)
            /\ TaskStatus(row'[i]) = "done" /\ TaskHandled(i)'
         \/ /\ TaskStatus(row[i]) = "pending"
            /\ TaskStatus(row'[i]) = "dead" /\ ~TaskHandled(i)'
  PROVE  [Task!Next]_(Task!vars)
<1> USE DEF StatusNow, HandledNow
<1>1. \A s : TaskStatus(row'[i]) = s => StatusNow' = [StatusNow EXCEPT ![i] = s]
  BY DEF SameTask
<1>2. \A b \in BOOLEAN : TaskHandled(i)' = b => HandledNow' = [HandledNow EXCEPT ![i] = b]
  BY DEF SameTask
<1>3. TaskStatus(row'[i]) = TaskStatus(row[i]) => StatusNow' = StatusNow
  BY DEF SameTask
<1>4. TaskHandled(i)' = TaskHandled(i) => HandledNow' = HandledNow
  BY DEF SameTask
<1>5. TaskHandled(i) \in BOOLEAN /\ TaskHandled(i)' \in BOOLEAN
  BY DEF TaskHandled
<1>6. StatusNow[i] = TaskStatus(row[i]) /\ HandledNow[i] = TaskHandled(i)
  OBVIOUS
<1> HIDE DEF StatusNow, HandledNow
<1>7. CASE /\ TaskStatus(row[i]) = "absent"
           /\ TaskStatus(row'[i]) = "pending"
           /\ TaskHandled(i)' = TaskHandled(i)
  <2>1. Task!Submit(i)
    BY <1>1, <1>4, <1>6, <1>7 DEF Task!Submit, StatusNow, HandledNow
  <2> QED BY <2>1 DEF Task!Next
<1>8. CASE /\ TaskStatus(row[i]) = "pending"
           /\ TaskStatus(row'[i]) = "pending"
  <2>1. CASE TaskHandled(i)'
    <3>1. Task!Work(i)
      BY <1>2, <1>3, <1>6, <1>8, <2>1 DEF Task!Work, StatusNow, HandledNow
    <3> QED BY <3>1 DEF Task!Next
  <2>2. CASE ~TaskHandled(i)'
    <3>1. HandledNow' = [j \in Jobs |-> HandledNow[j] /\ j \notin {i}]
      <4>1. \A j \in Jobs : TaskHandled(j)' = (TaskHandled(j) /\ j \notin {i})
        <5> SUFFICES ASSUME NEW j \in Jobs
                     PROVE  TaskHandled(j)' = (TaskHandled(j) /\ j \notin {i})
          OBVIOUS
        <5>1. TaskHandled(j) \in BOOLEAN /\ TaskHandled(j)' \in BOOLEAN
          BY DEF TaskHandled
        <5> QED BY <2>2, <5>1 DEF SameTask
      <4> QED BY <4>1 DEF HandledNow
    <3>2. Task!Forget({i})
      BY <1>3, <1>6, <1>8, <3>1 DEF Task!Forget, StatusNow, HandledNow
    <3> QED BY <3>2 DEF Task!Next
  <2> QED BY <2>1, <2>2
<1>9. CASE /\ TaskStatus(row[i]) = "pending" /\ TaskHandled(i)
           /\ TaskStatus(row'[i]) = "done" /\ TaskHandled(i)'
  <2>1. Task!Finish(i)
    BY <1>1, <1>4, <1>5, <1>6, <1>9 DEF Task!Finish, StatusNow, HandledNow
  <2> QED BY <2>1 DEF Task!Next
<1>10. CASE /\ TaskStatus(row[i]) = "pending"
            /\ TaskStatus(row'[i]) = "dead" /\ ~TaskHandled(i)'
  <2>1. Task!Abandon(i)
    BY <1>1, <1>2, <1>5, <1>6, <1>10 DEF Task!Abandon, StatusNow, HandledNow
  <2> QED BY <2>1 DEF Task!Next
<1> QED BY <1>7, <1>8, <1>9, <1>10

\* The rows of J lose the work done under their claims: Forget.
LEMMA TasksForget ==
  ASSUME NEW J \in SUBSET Jobs, \A j \in Jobs \ J : SameTask(j),
         \A j \in J : /\ TaskStatus(row[j]) = "pending"
                     /\ TaskStatus(row'[j]) = "pending"
                     /\ ~TaskHandled(j)'
  PROVE  Task!Next
<1>1. \A j \in Jobs : TaskHandled(j)' = (TaskHandled(j) /\ j \notin J)
  <2> SUFFICES ASSUME NEW j \in Jobs
               PROVE  TaskHandled(j)' = (TaskHandled(j) /\ j \notin J)
    OBVIOUS
  <2>1. TaskHandled(j) \in BOOLEAN /\ TaskHandled(j)' \in BOOLEAN
    BY DEF TaskHandled
  <2> QED BY <2>1 DEF SameTask
<1>2. HandledNow' = [j \in Jobs |-> HandledNow[j] /\ j \notin J]
  BY <1>1 DEF HandledNow
<1>3. StatusNow' = StatusNow
  BY DEF StatusNow, SameTask
<1>4. \A j \in J : StatusNow[j] = "pending"
  BY DEF StatusNow
<1>5. Task!Forget(J)
  BY <1>2, <1>3, <1>4 DEF Task!Forget, StatusNow, HandledNow
<1> QED BY <1>5 DEF Task!Next

\* The rows of J are pending again: Reopen.
LEMMA TasksReopen ==
  ASSUME NEW J \in SUBSET Jobs, \A j \in Jobs \ J : SameTask(j),
         \A j \in J : /\ TaskStatus(row[j]) \in {"done", "dead"}
                     /\ TaskStatus(row'[j]) = "pending"
                     /\ ~TaskHandled(j)'
  PROVE  Task!Next
<1>1. \A j \in Jobs : TaskHandled(j)' = (TaskHandled(j) /\ j \notin J)
  <2> SUFFICES ASSUME NEW j \in Jobs
               PROVE  TaskHandled(j)' = (TaskHandled(j) /\ j \notin J)
    OBVIOUS
  <2>1. TaskHandled(j) \in BOOLEAN /\ TaskHandled(j)' \in BOOLEAN
    BY DEF TaskHandled
  <2> QED BY <2>1 DEF SameTask
<1>2. HandledNow' = [j \in Jobs |-> HandledNow[j] /\ j \notin J]
  BY <1>1 DEF HandledNow
<1>3. StatusNow' = [j \in Jobs |-> IF j \in J THEN "pending" ELSE StatusNow[j]]
  BY DEF StatusNow, SameTask
<1>4. \A j \in J : StatusNow[j] \in {"done", "dead"}
  BY DEF StatusNow
<1>5. Task!Reopen(J)
  BY <1>2, <1>3, <1>4 DEF Task!Reopen, StatusNow, HandledNow
<1> QED BY <1>5 DEF Task!Next

-----------------------------------------------------------------------------
(* The steps of the queue. *)

\* Rows outside a pass, and time.
LEMMA OtherStepRefines ==
  ASSUME IInv, NEW i \in Jobs,
         \/ \E d \in BOOLEAN : Enqueue(i, d)
         \/ BecomeDue(i)
         \/ Cancel(i)
         \/ LeaseExpires(i)
         \/ RedisLeaseExpires(i)
  PROVE  [Task!Next]_(Task!vars)
<1>1. row \in [Jobs -> Row] /\ row[i] \in Row
  BY DEF IInv, TypeOK
<1>2. CASE BecomeDue(i) \/ LeaseExpires(i) \/ RedisLeaseExpires(i)
  <2>1. \A j \in Jobs : row'[j].state = row[j].state /\ row'[j].gen = row[j].gen
    BY <1>1, <1>2 DEF BecomeDue, LeaseExpires, RedisLeaseExpires, SetRow, Row
  <2>2. ran' = ran
    BY <1>2 DEF BecomeDue, LeaseExpires, RedisLeaseExpires
  <2> QED BY <2>1, <2>2, SameIfSame, Stutter
<1>3. CASE Cancel(i)
  <2>1. \A j \in Jobs \ {i} : SameTask(j)
    BY <1>1, <1>3, SameIfSame DEF Cancel, SetRow
  <2>2. row'[i] = ReleasedRow(row[i], "dead_letter")
    BY <1>1, <1>3 DEF Cancel, SetRow
  <2>3. ReleasedRow(row[i], "dead_letter").state = "dead_letter"
    BY <1>1, RowFields DEF Terminal
  <2>4. row'[i].state = "dead_letter" /\ row[i].state = "queued"
    BY <1>3, <2>2, <2>3 DEF Cancel
  <2> QED BY <2>1, <2>4, OneTaskMoves DEF TaskStatus, TaskHandled
<1>4. ASSUME NEW d \in BOOLEAN, Enqueue(i, d) PROVE [Task!Next]_(Task!vars)
  <2>1. \A j \in Jobs \ {i} : SameTask(j)
    BY <1>1, <1>4, SameIfSame DEF Enqueue, SetRow
  <2>2. row'[i].state = "queued" /\ row[i].state = "absent"
    BY <1>1, <1>4 DEF Enqueue, SetRow, Row
  <2> QED BY <2>1, <2>2, OneTaskMoves DEF TaskStatus, TaskHandled
<1> QED BY <1>2, <1>3, <1>4

\* The statements on many rows: reconciliation, the claim, the end of a pass.
LEMMA BatchStepRefines ==
  ASSUME IInv, NEW p \in Passes, UNCHANGED ran,
         \/ End(p)
         \/ \E R \in SUBSET CleanupJobs : Reconcile(p, R)
         \/ \E C \in SUBSET Jobs : Claim(p, C)
  PROVE  [Task!Next]_(Task!vars)
<1>1. row \in [Jobs -> Row]
  BY DEF IInv, TypeOK
<1>2. CASE End(p)
  <2>1. \A j \in Jobs : row'[j].state = row[j].state /\ row'[j].gen = row[j].gen
    BY <1>1, <1>2 DEF End, RetireRows, Row
  <2> QED BY <2>1, SameIfSame, Stutter
<1>3. ASSUME NEW R \in SUBSET CleanupJobs, Reconcile(p, R) PROVE Task!Next
  <2>1. R \in SUBSET Jobs
    BY JobQueueAssumption
  <2>2. \A j \in Jobs \ R : SameTask(j)
    BY <1>1, <1>3, SameIfSame DEF Reconcile
  <2>3. \A j \in R : row'[j].state = "queued" /\ row[j].state \in Terminal
    <3> SUFFICES ASSUME NEW j \in R
                 PROVE  row'[j].state = "queued" /\ row[j].state \in Terminal
      OBVIOUS
    <3>1. j \in Jobs /\ row[j] \in Row
      BY <1>1, <2>1
    <3>2. row'[j] = RequeuedRow(row[j], TRUE) /\ row[j].state \in Terminal
      BY <1>3, <3>1 DEF Reconcile
    <3>3. RequeuedRow(row[j], TRUE).state = "queued"
      BY <3>1, RowFields
    <3> QED BY <3>2, <3>3
  <2> QED BY <2>1, <2>2, <2>3, TasksReopen DEF TaskStatus, TaskHandled, Terminal
<1>4. ASSUME NEW C \in SUBSET Jobs, Claim(p, C) PROVE Task!Next
  <2>1. \A j \in Jobs \ C : SameTask(j)
    BY <1>1, <1>4, SameIfSame DEF Claim
  <2>2. \A j \in C : /\ row'[j].state = "running" /\ row'[j].gen = row[j].gen + 1
                     /\ row[j].state \in {"queued", "running"}
    <3> SUFFICES ASSUME NEW j \in C
                 PROVE  /\ row'[j].state = "running" /\ row'[j].gen = row[j].gen + 1
                        /\ row[j].state \in {"queued", "running"}
      OBVIOUS
    <3>1. row[j] \in Row /\ row'[j] = ClaimedRow(row[j], p)
      BY <1>1, <1>4 DEF Claim
    <3>2. ClaimedRow(row[j], p).state = "running" /\ ClaimedRow(row[j], p).gen = row[j].gen + 1
      BY <3>1 DEF ClaimedRow, Row
    <3>3. row[j].state \in {"queued", "running"}
      BY <1>4 DEF Claim, Claimable
    <3> QED BY <3>1, <3>2, <3>3
  <2>3. \A j \in C : ~TaskHandled(j)'
    <3> SUFFICES ASSUME NEW j \in C, row[j].gen + 1 \in ran[j] PROVE FALSE
      BY <2>2 DEF TaskHandled
    <3>1. row[j].gen \in Nat /\ row[j].gen + 1 <= row[j].gen
      BY <1>1 DEF IInv, RunsArePast, Row
    <3> QED BY <3>1
  <2> QED BY <2>1, <2>2, <2>3, TasksForget DEF TaskStatus
<1> QED BY <1>2, <1>3, <1>4

\* The statements on the row a pass is working on.
LEMMA WorkStepRefines ==
  ASSUME IInv, NEW p \in Passes,
         DeferUnleased(p) \/ Settle(p) \/ Complete(p) \/ CompleteErrs(p) \/ HandlerEnds(p)
  PROVE  [Task!Next]_(Task!vars)
<1>1. row \in [Jobs -> Row] /\ ran \in [Jobs -> SUBSET Nat]
  BY DEF IInv, TypeOK
<1>2. pass[p].phase \in Working /\ pass[p].verdict \in Verdicts
  BY DEF DeferUnleased, Settle, Complete, CompleteErrs, HandlerEnds, Working, IInv, TypeOK,
         PassState
<1>3. PICK c \in Claimed, i \in Jobs : c = pass[p].cur /\ i = c.job /\ row[i] \in Row
  BY <1>1, <1>2, WorkingHasClaim
<1>4. CASE HandlerEnds(p)
  <2>1. \A j \in Jobs \ {i} : SameTask(j)
    BY <1>1, <1>3, <1>4, SameIfSame DEF HandlerEnds
  <2>2. row' = row /\ ran[i] \subseteq ran'[i]
    BY <1>1, <1>3, <1>4 DEF HandlerEnds
  <2>3. CASE row[i].state = "running"
    BY <1>3, <2>1, <2>2, <2>3, OneTaskMoves DEF TaskStatus
  <2>4. CASE row[i].state # "running"
    <3>1. row[i].state = "completed" => row[i].gen \in ran[i] /\ row[i].gen \in ran'[i]
      BY <1>3, <2>2 DEF IInv, CompletedWasHandled
    <3>2. SameTask(i)
      BY <2>2, <2>4, <3>1 DEF SameTask, TaskHandled
    <3> QED BY <2>1, <3>2, Stutter
  <2> QED BY <2>3, <2>4
<1>5. CASE ~HandlerEnds(p)
  <2>1. ran' = ran
    BY <1>5 DEF DeferUnleased, Settle, Complete, CompleteErrs
  <2>2. \A j \in Jobs : (j # i \/ ~OwnsRow(p, c)) => row'[j] = row[j]
    BY <1>1, <1>3, <1>5 DEF DeferUnleased, Settle, Complete, CompleteErrs, SetOwnedRow
  <2>3. \A j \in Jobs : row'[j] = row[j] => SameTask(j)
    BY <2>1, SameIfSame
  <2>4. CASE row'[i] = row[i]
    BY <2>2, <2>3, <2>4, Stutter
  <2>5. CASE row'[i] # row[i]
    <3>1. OwnsRow(p, c) /\ row[i].state = "running" /\ row[i].gen = c.gen
      BY <1>3, <2>2, <2>5 DEF OwnsRow
    <3>2. \A j \in Jobs \ {i} : SameTask(j)
      BY <2>2, <2>3
    <3>3. CASE DeferUnleased(p) \/ Settle(p)
      <4>1. row'[i] = DeferredRow(row[i]) \/ row'[i] = SettledRow(row[i], pass[p].verdict)
        BY <1>1, <1>3, <3>1, <3>3 DEF DeferUnleased, Settle, SetOwnedRow, CurRow
      <4>2. row'[i].state \in {"queued", "dead_letter"}
        <5>1. DeferredRow(row[i]).state = "queued"
          BY ONLY <1>3, RowFields
        <5>2. SettledRow(row[i], pass[p].verdict).state \in {"queued", "dead_letter"}
          BY ONLY <1>2, <1>3, RowFields
        <5> QED BY ONLY <4>1, <5>1, <5>2
      <4>3. ~TaskHandled(i)'
        BY <4>2 DEF TaskHandled
      <4>4. TaskStatus(row[i]) = "pending" /\ TaskStatus(row'[i]) \in {"pending", "dead"}
        BY <3>1, <4>2 DEF TaskStatus
      <4> QED BY <1>3, <3>2, <4>3, <4>4, OneTaskMoves
    <3>4. CASE Complete(p) \/ CompleteErrs(p)
      <4>1. row'[i] = CompletedRow(row[i])
        BY <1>1, <1>3, <2>5, <3>1, <3>4 DEF Complete, CompleteErrs, SetOwnedRow, CurRow
      <4>2. row'[i].state = "completed" /\ row'[i].gen = row[i].gen
        BY <1>3, <4>1, RowFields
      <4>3. c.gen \in ran[i]
        <5>1. LocalsAgree(p) /\ HandlerAgrees(p) /\ pass[p].phase = "complete"
          BY <3>4 DEF IInv, Complete, CompleteErrs
        <5>2. pass[p].cur.gen \in ran[pass[p].cur.job]
          BY <5>1 DEF LocalsAgree, HandlerAgrees
        <5> QED BY <1>3, <5>2
      <4>4. TaskHandled(i) /\ TaskHandled(i)'
        BY <2>1, <3>1, <4>2, <4>3 DEF TaskHandled
      <4>5. TaskStatus(row[i]) = "pending" /\ TaskStatus(row'[i]) = "done"
        BY <3>1, <4>2 DEF TaskStatus
      <4> QED BY <1>3, <3>2, <4>4, <4>5, OneTaskMoves
    <3> QED BY <1>5, <3>3, <3>4
  <2> QED BY <2>4, <2>5
<1> QED BY <1>4, <1>5

LEMMA QuietStepRefines ==
  ASSUME UNCHANGED <<row, ran>>
  PROVE  UNCHANGED Task!vars
BY SameIfSame, Stutter

\* Every step of the queue is a step of the abstract task or a stutter.
LEMMA StepRefines == IInv /\ [Next]_vars => [Task!Next]_(Task!vars)
<1> SUFFICES ASSUME IInv, [Next]_vars PROVE [Task!Next]_(Task!vars)
  OBVIOUS
<1>1. CASE UNCHANGED <<row, ran>>
  BY <1>1, QuietStepRefines
<1>2. CASE Next
  BY <1>1, <1>2, OtherStepRefines, BatchStepRefines, WorkStepRefines
  DEF Next, Step, Disturb, Start, Abort, EndAborted, Finish, SkipAborted, Acquire,
      AcquireFails, HandlerOutcome, HandlerThrows, HandlerLosesLease, HandlerRenews,
      HandlerYields, RenewRedis, RenewDb, BadReferences, Release, Crash, Reconcile, Claim
<1>3. CASE UNCHANGED vars
  BY <1>1, <1>3 DEF vars
<1> QED BY <1>2, <1>3

LEMMA InitRefines == Init => Task!Init
BY DEF Init, Task!Init, TaskStatus, TaskHandled

\* The queue implements the durable task, for any jobs, passes and bounds.
THEOREM Refinement == Spec => ImplementsDurableTask
BY InitRefines, StepRefines, Invariance, PTL DEF Spec, Task!Spec, ImplementsDurableTask

-----------------------------------------------------------------------------
(* Text extraction. *)

\* A job of life l of a run whose present life is n.
GoodTextJob(j, l, n) ==
  /\ j \in Text!Job
  /\ j.state # "absent" <=> l <= n
  /\ j.holder # None <=> j.state = "running"
  /\ j.state = "running" => j.attempts > 0

GoodTextRun(r) == r \in Text!Run /\ (r.state = "absent" <=> r.life = 0)

\* The passes at work have a run to work for.
AtWork(ws, n) == \A w \in Workers : ws[w].phase # "idle" => n > 0

LEMMA TextParts ==
  Text!IInv <=> /\ GoodTextRun(run)
                /\ archived \in BOOLEAN
                /\ job \in [Text!Lives -> Text!Job]
                /\ \A l \in Text!Lives : GoodTextJob(job[l], l, run.life)
                /\ worker \in [Workers -> Text!Worker] /\ AtWork(worker, run.life)
                /\ textBudget \in 0..TextBudget
BY DEF Text!IInv, Text!TypeOK, Text!LivesFit, GoodTextJob, GoodTextRun,
       AtWork

LEMMA TextConstants ==
  /\ MaxLives \in Nat \ {0} /\ TextBudget \in Nat
  /\ None \notin Workers /\ Text!Lives = 1..MaxLives
BY TextAssumption DEF Text!TextExtractionAssumption, Text!Lives

\* What a step may do to the budget.
LEMMA TextBudgets ==
  ASSUME Text!IInv
  PROVE  /\ Text!Spend => textBudget' \in 0..TextBudget
         /\ UNCHANGED textBudget => textBudget' \in 0..TextBudget
BY TextConstants DEF Text!IInv, Text!TypeOK, Text!Spend

\* A run that has ended stays so, unless a retry takes it up with a new job.
TextEndsOnce ==
  run.state \in Text!Ended /\ run'.state # run.state =>
    /\ run.state # "completed"
    /\ run'.state = "pending"
    /\ job[run'.life].state = "absent" /\ job'[run'.life].state = "queued"

TextStepOK == Text!IInv' /\ TextEndsOnce

\* Request and Retry: a new life with its job.
LEMMA NewLife ==
  ASSUME Text!IInv, Text!Request \/ Text!Retry
  PROVE  TextStepOK
<1>1. PICK n \in Text!Lives :
        /\ n = run.life + 1
        /\ run.state \in {"absent"} \cup Text!Retryable
        /\ run' = [run EXCEPT !.state = "pending", !.life = n]
        /\ job' = [job EXCEPT ![n].state = "queued"]
        /\ UNCHANGED <<archived, worker, textBudget>>
  <2>1. CASE Text!Request
    <3>1. run.life = 0 /\ 1 \in Text!Lives
      BY <2>1, TextConstants
      DEF Text!Request, Text!IInv, Text!LivesFit, Text!TypeOK, Text!Run
    <3>2. /\ run.state \in {"absent"} /\ run' = [run EXCEPT !.state = "pending", !.life = 1]
          /\ job' = [job EXCEPT ![1].state = "queued"]
          /\ UNCHANGED <<archived, worker, textBudget>>
      BY <2>1 DEF Text!Request, Text!Queued
    <3>3. 1 = run.life + 1
      BY <3>1
    <3> QED BY <3>1, <3>2, <3>3
  <2>2. CASE Text!Retry
    <3>1. run.life + 1 \in Text!Lives
      BY <2>2, TextConstants DEF Text!Retry, Text!IInv, Text!TypeOK, Text!Run
    <3>2. run' = [run EXCEPT !.state = "pending", !.life = run.life + 1]
      BY <2>2 DEF Text!Retry, Text!IInv, Text!TypeOK, Text!Run
    <3> QED BY <2>2, <3>1, <3>2 DEF Text!Retry, Text!Queued
  <2> QED BY <2>1, <2>2
<1>2. GoodTextRun(run') /\ run'.life = n /\ run'.state = "pending"
  <2>1. n \in 0..MaxLives /\ n # 0 /\ run \in Text!Run
    BY <1>1, TextParts, TextConstants DEF GoodTextRun
  <2>2. /\ [run EXCEPT !.state = "pending", !.life = n] \in Text!Run
        /\ [run EXCEPT !.state = "pending", !.life = n].life = n
        /\ [run EXCEPT !.state = "pending", !.life = n].state = "pending"
    BY <2>1 DEF Text!Run, Text!Active
  <2> QED BY <1>1, <2>1, <2>2 DEF GoodTextRun
<1>3. /\ job[n].state = "absent" /\ GoodTextJob([job[n] EXCEPT !.state = "queued"], n, n)
  BY <1>1, TextParts, TextConstants DEF GoodTextJob, GoodTextRun, Text!Job, Text!Run
<1>4. \A l \in Text!Lives : job'[l] = IF l = n THEN [job[l] EXCEPT !.state = "queued"]
                                       ELSE job[l]
  BY <1>1, TextParts
<1>5. \A l \in Text!Lives : GoodTextJob(job'[l], l, n)
  BY <1>1, <1>3, <1>4, TextParts, TextConstants
  DEF GoodTextJob, GoodTextRun, Text!Run
<1>6. job' \in [Text!Lives -> Text!Job]
  BY <1>1, <1>5, TextParts DEF GoodTextJob
<1>7. Text!IInv'
  <2>1. AtWork(worker', n)
    BY <1>1, TextConstants DEF AtWork
  <2> QED
    BY <1>1, <1>2, <1>5, <1>6, <2>1, TextParts
    DEF Text!IInv, Text!TypeOK, Text!LivesFit, GoodTextJob, GoodTextRun, AtWork
<1>8. TextEndsOnce
  BY <1>1, <1>2, <1>3, <1>4 DEF TextEndsOnce, Text!Ended, Text!Retryable, GoodTextJob, Text!Job
<1> QED BY <1>7, <1>8 DEF TextStepOK

\* A step of a pass or of the service within a life: an active run may change its state,
\* a job of that life or an earlier one may be claimed, settled or lose its lease.
LEMMA TextKept ==
  ASSUME Text!IInv,
         NEW r, GoodTextRun(r), r.life = run.life, run' = r,
         run.state \in Text!Ended => r.state = run.state,
         archived' \in BOOLEAN,
         worker' \in [Workers -> Text!Worker], AtWork(worker', run.life),
         textBudget' \in 0..TextBudget,
         job' \in [Text!Lives -> Text!Job],
         \A l \in Text!Lives : GoodTextJob(job'[l], l, run.life)
  PROVE  TextStepOK
BY DEF TextStepOK, TextEndsOnce, Text!IInv, Text!TypeOK, Text!LivesFit, GoodTextJob,
       GoodTextRun, AtWork

\* What the transaction of a phase may make of the run.
LEMMA TextCommitted ==
  ASSUME Text!IInv, NEW ph \in {"start", "complete", "fail"}
  PROVE  /\ GoodTextRun(Text!Committed(ph)) /\ Text!Committed(ph).life = run.life
         /\ run.state \in Text!Ended => Text!Committed(ph) = run
<1>1. run \in Text!Run /\ (run.state = "absent" <=> run.life = 0)
  BY TextParts DEF GoodTextRun
<1>2. CASE run.state # Text!FromOf(ph)
  BY <1>1, <1>2 DEF GoodTextRun, Text!Committed
<1>3. CASE run.state = Text!FromOf(ph)
  <2>1. /\ Text!Committed(ph) = [run EXCEPT !.state = Text!ToOf(ph)]
        /\ Text!ToOf(ph) \in {"processing", "completed", "error"}
        /\ run.state \in {"pending", "processing"}
    BY <1>3 DEF Text!Committed, Text!FromOf, Text!ToOf
  <2>2. ASSUME NEW s \in {"processing", "completed", "error"}, s = Text!ToOf(ph)
        PROVE  GoodTextRun([run EXCEPT !.state = s]) /\ [run EXCEPT !.state = s].life = run.life
    BY <1>1, <2>1 DEF GoodTextRun, Text!Run, Text!Active, Text!Ended, Text!Retryable
  <2> QED BY <2>1, <2>2 DEF Text!Ended, Text!Retryable
<1> QED BY <1>2, <1>3

\* Where the locals of a pass may go.
LEMMA TextLocals ==
  ASSUME Text!IInv, NEW w \in Workers
  PROVE  /\ \A s \in Text!Worker :
              worker' = [worker EXCEPT ![w] = s] /\ (s.phase # "idle" => run.life > 0) =>
                worker' \in [Workers -> Text!Worker] /\ AtWork(worker', run.life)
         /\ Text!IdleWorker \in Text!Worker /\ Text!IdleWorker.phase = "idle"
         /\ UNCHANGED worker =>
              worker' \in [Workers -> Text!Worker] /\ AtWork(worker', run.life)
<1>1. worker \in [Workers -> Text!Worker] /\ AtWork(worker, run.life)
  BY TextParts
<1>2. Text!IdleWorker \in Text!Worker /\ Text!IdleWorker.phase = "idle"
  BY TextConstants DEF Text!IdleWorker, Text!Worker
<1> QED BY <1>1, <1>2 DEF AtWork

\* The same for the steps of a pass at work.
LEMMA TextMoves ==
  ASSUME Text!IInv, NEW w \in Workers, worker[w].phase # "idle",
         \/ \E ph \in {"load", "start", "read", "complete", "fail"} : Text!Goto(w, ph)
         \/ \E v \in {"done", "retry", "permanent"} : Text!Ends(w, v)
         \/ worker' = [worker EXCEPT ![w].aborted = TRUE]
         \/ worker' = [worker EXCEPT ![w] = Text!IdleWorker]
  PROVE  worker' \in [Workers -> Text!Worker] /\ AtWork(worker', run.life)
<1>1. worker[w] \in Text!Worker /\ run.life > 0
  BY TextParts DEF AtWork
<1>2. \E s \in Text!Worker : worker' = [worker EXCEPT ![w] = s]
  <2>1. ASSUME NEW ph \in {"load", "start", "read", "complete", "fail"}, Text!Goto(w, ph)
        PROVE  \E s \in Text!Worker : worker' = [worker EXCEPT ![w] = s]
    <3>1. [worker[w] EXCEPT !.phase = ph] \in Text!Worker
      BY <1>1 DEF Text!Worker
    <3> QED BY <2>1, <3>1 DEF Text!Goto
  <2>2. ASSUME NEW v \in {"done", "retry", "permanent"}, Text!Ends(w, v)
        PROVE  \E s \in Text!Worker : worker' = [worker EXCEPT ![w] = s]
    <3>1. [worker[w] EXCEPT !.phase = "settle", !.verdict = v] \in Text!Worker
      BY <1>1 DEF Text!Worker
    <3>2. worker' = [worker EXCEPT ![w] = [worker[w] EXCEPT !.phase = "settle", !.verdict = v]]
      BY <2>2, TextParts DEF Text!Ends, Text!Worker
    <3> QED BY <3>1, <3>2
  <2>3. CASE worker' = [worker EXCEPT ![w].aborted = TRUE]
    <3>1. [worker[w] EXCEPT !.aborted = TRUE] \in Text!Worker
      BY <1>1 DEF Text!Worker
    <3> QED BY <2>3, <3>1
  <2>4. CASE worker' = [worker EXCEPT ![w] = Text!IdleWorker]
    BY <2>4, TextLocals
  <2> QED BY <2>1, <2>2, <2>3, <2>4
<1> QED BY <1>1, <1>2, TextLocals

\* A step that leaves the jobs alone.
LEMMA TextQuiet ==
  ASSUME Text!IInv,
         NEW r, GoodTextRun(r), r.life = run.life, run' = r,
         run.state \in Text!Ended => r.state = run.state,
         archived' \in BOOLEAN,
         worker' \in [Workers -> Text!Worker], AtWork(worker', run.life),
         textBudget' \in 0..TextBudget, UNCHANGED job
  PROVE  TextStepOK
BY TextKept, TextParts

LEMMA ServiceStep ==
  ASSUME Text!IInv, Text!Cancel \/ Text!Archive
  PROVE  TextStepOK
<1>1. /\ GoodTextRun(run) /\ archived \in BOOLEAN
      /\ worker \in [Workers -> Text!Worker] /\ AtWork(worker, run.life)
      /\ UNCHANGED textBudget => textBudget' \in 0..TextBudget
  BY TextParts, TextBudgets
<1>2. CASE Text!Cancel
  <2>1. /\ GoodTextRun([run EXCEPT !.state = "cancelled"])
        /\ [run EXCEPT !.state = "cancelled"].life = run.life
        /\ run.state \notin Text!Ended
    BY <1>1, <1>2
    DEF Text!Cancel, GoodTextRun, Text!Run, Text!Active, Text!Ended, Text!Retryable
  <2> QED BY <1>1, <1>2, <2>1, TextQuiet DEF Text!Cancel
<1>3. CASE Text!Archive
  BY <1>1, <1>3, TextQuiet DEF Text!Archive
<1> QED BY <1>2, <1>3

\* The handler: every phase but the settlement.
LEMMA HandlerStep ==
  ASSUME Text!IInv, NEW w \in Workers,
         \/ Text!Load(w) \/ Text!Start(w) \/ Text!Read(w) \/ Text!Complete(w) \/ Text!Fail(w)
         \/ Text!StatementErrs(w) \/ Text!Abort(w) \/ Text!WorkerCrash(w)
  PROVE  TextStepOK
<1>1. /\ GoodTextRun(run) /\ archived \in BOOLEAN
      /\ UNCHANGED textBudget => textBudget' \in 0..TextBudget
      /\ Text!Spend => textBudget' \in 0..TextBudget
  BY TextParts, TextBudgets
<1>2. CASE Text!Load(w)
  <2>1. worker[w].phase # "idle" /\ run.state \in Text!Active \cup Text!Ended
    BY <1>1, <1>2, TextParts DEF Text!Load, AtWork, GoodTextRun, Text!Run
  <2>2. \/ \E ph \in {"start", "read"} : Text!Goto(w, ph)
        \/ \E v \in {"done", "permanent"} : Text!Ends(w, v)
    BY <1>1, <1>2, <2>1 DEF Text!Load, Text!Loaded, Text!Active
  <2>3. worker' \in [Workers -> Text!Worker] /\ AtWork(worker', run.life)
    BY <2>1, <2>2, TextMoves
  <2> QED BY <1>1, <1>2, <2>3, TextQuiet DEF Text!Load
<1>3. CASE Text!Start(w)
  <2>1. worker' \in [Workers -> Text!Worker] /\ AtWork(worker', run.life)
    BY <1>3, TextMoves DEF Text!Start
  <2>2. PICK c : c = Text!Committed("start")
    OBVIOUS
  <2>3. /\ GoodTextRun(c) /\ c.life = run.life /\ c.raced \in BOOLEAN
        /\ run.state \in Text!Ended => c = run
    BY <2>2, TextCommitted DEF GoodTextRun, Text!Run
  <2>4. \E b \in BOOLEAN : run' = [c EXCEPT !.raced = b]
    BY <1>3, <2>2, <2>3 DEF Text!Start, GoodTextRun, Text!Run
  <2>5. PICK b \in BOOLEAN : run' = [c EXCEPT !.raced = b]
    BY <2>4
  <2>6. /\ GoodTextRun([c EXCEPT !.raced = b])
        /\ [c EXCEPT !.raced = b].life = run.life /\ [c EXCEPT !.raced = b].state = c.state
    BY <2>3 DEF GoodTextRun, Text!Run
  <2>7. UNCHANGED <<archived, job, textBudget>>
    BY <1>3 DEF Text!Start
  <2> QED BY <1>1, <2>1, <2>3, <2>5, <2>6, <2>7, TextQuiet
<1>4. CASE Text!Read(w)
  <2>1. worker' \in [Workers -> Text!Worker] /\ AtWork(worker', run.life)
    BY <1>4, TextMoves DEF Text!Read
  <2> QED BY <1>1, <1>4, <2>1, TextQuiet DEF Text!Read
<1>5. CASE Text!Complete(w) \/ Text!Fail(w) \/ Text!StatementErrs(w)
  <2>1. worker' \in [Workers -> Text!Worker] /\ AtWork(worker', run.life)
    BY <1>5, TextMoves DEF Text!Complete, Text!Fail, Text!StatementErrs
  <2>2. \E ph \in {"start", "complete", "fail"} : run' \in {run, Text!Committed(ph)}
    BY <1>5 DEF Text!Complete, Text!Fail, Text!StatementErrs
  <2>3. GoodTextRun(run') /\ run'.life = run.life
    BY <1>1, <2>2, TextCommitted
  <2>4. run.state \in Text!Ended => run' = run
    BY <2>2, TextCommitted
  <2>5. UNCHANGED <<archived, job>> /\ textBudget' \in 0..TextBudget
    BY <1>1, <1>5 DEF Text!Complete, Text!Fail, Text!StatementErrs
  <2> QED BY <1>1, <2>1, <2>3, <2>4, <2>5, TextQuiet
<1>6. CASE Text!Abort(w) \/ Text!WorkerCrash(w)
  <2>1. worker' \in [Workers -> Text!Worker] /\ AtWork(worker', run.life)
    BY <1>6, TextMoves DEF Text!Abort, Text!WorkerCrash
  <2> QED BY <1>1, <1>6, <2>1, TextQuiet DEF Text!Abort, Text!WorkerCrash
<1> QED BY <1>2, <1>3, <1>4, <1>5, <1>6

\* A step that writes one job of a life that has begun.
LEMMA TextJobWritten ==
  ASSUME Text!IInv, NEW l \in Text!Lives, l <= run.life,
         NEW j \in Text!Job, job' = [job EXCEPT ![l] = j], j.state # "absent",
         j.holder # None <=> j.state = "running",
         j.state = "running" => j.attempts > 0,
         UNCHANGED <<run, archived>>,
         worker' \in [Workers -> Text!Worker], AtWork(worker', run.life),
         textBudget' \in 0..TextBudget
  PROVE  TextStepOK
<1>1. GoodTextJob(j, l, run.life)
  BY DEF GoodTextJob
<1>2. /\ job' \in [Text!Lives -> Text!Job]
      /\ \A m \in Text!Lives : GoodTextJob(job'[m], m, run.life)
  BY <1>1, TextParts
<1> QED BY <1>2, TextParts, TextKept

LEMMA TextQueueStep ==
  ASSUME Text!IInv, NEW l \in Text!Lives,
         Text!LeaseExpires(l) \/ \E w \in Workers : Text!ClaimDue(w, l)
  PROVE  TextStepOK
<1>1. /\ GoodTextJob(job[l], l, run.life) /\ run \in Text!Run
      /\ worker \in [Workers -> Text!Worker] /\ AtWork(worker, run.life)
      /\ UNCHANGED textBudget => textBudget' \in 0..TextBudget
      /\ Text!Spend => textBudget' \in 0..TextBudget
  BY TextParts, TextBudgets DEF GoodTextRun
<1>2. CASE Text!LeaseExpires(l)
  <2>1. PICK j : j = [job[l] EXCEPT !.live = FALSE]
    OBVIOUS
  <2>2. /\ j \in Text!Job /\ j.state = job[l].state /\ j.holder = job[l].holder
        /\ j.attempts = job[l].attempts
    BY <1>1, <2>1 DEF GoodTextJob, Text!Job
  <2>3. job' = [job EXCEPT ![l] = j]
    BY <1>2, <2>1 DEF Text!LeaseExpires
  <2>4. UNCHANGED <<run, archived, worker>> /\ textBudget' \in 0..TextBudget
    BY <1>1, <1>2 DEF Text!LeaseExpires
  <2>5. CASE l <= run.life
    BY <1>1, <2>2, <2>3, <2>4, <2>5, TextJobWritten DEF GoodTextJob
  <2>6. CASE ~(l <= run.life)
    <3>1. GoodTextJob(j, l, run.life)
      BY <1>1, <2>2 DEF GoodTextJob
    <3>2. /\ job' \in [Text!Lives -> Text!Job]
          /\ \A m \in Text!Lives : GoodTextJob(job'[m], m, run.life)
      BY <2>2, <2>3, <3>1, TextParts
    <3>3. GoodTextRun(run) /\ archived \in BOOLEAN
      BY TextParts
    <3> QED BY <1>1, <2>4, <3>2, <3>3, TextKept
  <2> QED BY <2>5, <2>6
<1>3. ASSUME NEW w \in Workers, Text!ClaimDue(w, l) PROVE TextStepOK
  <2>1. PICK n \in Nat : n = job[l].attempts + 1
    BY <1>1 DEF GoodTextJob, Text!Job
  <2>2. /\ [state |-> "running", attempts |-> n, holder |-> w, live |-> TRUE] \in Text!Job
        /\ n > 0 /\ w # None /\ l <= run.life /\ l \in 0..MaxLives
    BY <1>1, <1>3, <2>1, TextConstants DEF Text!ClaimDue, GoodTextJob, Text!Job
  <2>3. job' = [job EXCEPT ![l] = [state |-> "running", attempts |-> n, holder |-> w,
                                   live |-> TRUE]]
    BY <1>3, <2>1 DEF Text!ClaimDue
  <2>4. worker' = [worker EXCEPT ![w] =
                     [Text!IdleWorker EXCEPT !.phase = "load", !.life = l, !.attempts = n]]
    BY <1>3, <2>1 DEF Text!ClaimDue
  <2>5. [Text!IdleWorker EXCEPT !.phase = "load", !.life = l, !.attempts = n] \in Text!Worker
    BY <2>2, TextConstants DEF Text!IdleWorker, Text!Worker
  <2>6. worker' \in [Workers -> Text!Worker] /\ AtWork(worker', run.life)
    <3>1. run.life > 0
      BY <1>1, <2>2, TextConstants DEF Text!Run
    <3> QED BY <2>4, <2>5, <3>1, TextLocals
  <2>7. UNCHANGED <<run, archived>> /\ textBudget' \in 0..TextBudget
    BY <1>1, <1>3 DEF Text!ClaimDue
  <2> QED BY <2>2, <2>3, <2>6, <2>7, TextJobWritten
<1> QED BY <1>2, <1>3

LEMMA TextSettleStep ==
  ASSUME Text!IInv, NEW w \in Workers, Text!Settle(w)
  PROVE  TextStepOK
<1>1. /\ GoodTextRun(run) /\ archived \in BOOLEAN
      /\ worker' \in [Workers -> Text!Worker] /\ AtWork(worker', run.life)
      /\ textBudget' \in 0..TextBudget /\ UNCHANGED <<run, archived>>
  BY TextParts, TextBudgets, TextMoves DEF Text!Settle
<1>2. PICK l : l = worker[w].life
  OBVIOUS
<1>3. CASE ~Text!Owns(w) \/ l \notin Text!Lives
  <2>1. job' = job
    BY <1>2, <1>3, TextParts DEF Text!Settle
  <2> QED BY <1>1, <2>1, TextQuiet
<1>4. CASE Text!Owns(w) /\ l \in Text!Lives
  <2>1. /\ job[l] \in Text!Job /\ job[l].state = "running" /\ l <= run.life
        /\ job[l].attempts \in Nat /\ job[l].attempts - 1 \in Nat
    BY <1>2, <1>4, TextParts DEF Text!Owns, GoodTextJob, Text!Job
  <2>2. PICK s \in {"queued", "completed", "dead_letter"}, n \in Nat :
          Text!Settled(w) = [state |-> s, attempts |-> n, holder |-> None, live |-> FALSE]
    BY <1>2, <2>1 DEF Text!Settled, Text!Released
  <2>3. [state |-> s, attempts |-> n, holder |-> None, live |-> FALSE] \in Text!Job
    BY DEF Text!Job
  <2>4. job' = [job EXCEPT ![l] = [state |-> s, attempts |-> n, holder |-> None,
                                   live |-> FALSE]]
    BY <1>2, <1>4, <2>2 DEF Text!Settle
  <2> QED BY <1>1, <1>4, <2>1, <2>3, <2>4, TextJobWritten
<1> QED BY <1>3, <1>4

LEMMA TextStep == ASSUME Text!IInv, [Text!Next]_textVars PROVE TextStepOK
<1>1. CASE UNCHANGED textVars
  BY <1>1, TextParts, TextQuiet DEF textVars
<1>2. ASSUME NEW w \in Workers,
             Text!Step(w) \/ Text!StatementErrs(w) \/ Text!Abort(w) \/ Text!WorkerCrash(w)
      PROVE  TextStepOK
  BY <1>2, HandlerStep, TextSettleStep DEF Text!Step
<1>3. ASSUME NEW l \in Text!Lives,
             Text!LeaseExpires(l) \/ \E w \in Workers : Text!ClaimDue(w, l)
      PROVE  TextStepOK
  BY <1>3, TextQueueStep
<1> QED BY <1>1, <1>2, <1>3, NewLife, ServiceStep DEF Text!Next

LEMMA TextInit == Text!Init => Text!IInv
<1> SUFFICES ASSUME Text!Init PROVE Text!IInv
  OBVIOUS
<1>1. GoodTextRun(run) /\ run.life = 0
  BY TextConstants
  DEF Text!Init, GoodTextRun, Text!Run, Text!Active, Text!Ended, Text!Retryable
<1>2. /\ job \in [Text!Lives -> Text!Job]
      /\ \A l \in Text!Lives : GoodTextJob(job[l], l, 0)
  BY TextConstants DEF Text!Init, GoodTextJob, Text!Job
<1>3. worker \in [Workers -> Text!Worker] /\ AtWork(worker, 0)
  BY TextConstants DEF Text!Init, Text!IdleWorker, Text!Worker, AtWork
<1>4. archived \in BOOLEAN
  BY DEF Text!Init
<1>5. textBudget \in 0..TextBudget
  BY TextConstants DEF Text!Init
<1> QED BY <1>1, <1>2, <1>3, <1>4, <1>5, TextParts

LEMMA TextInvariance == Text!Spec => []Text!IInv
<1>1. Text!IInv /\ [Text!Next]_(Text!vars) => Text!IInv'
  BY TextStep DEF TextStepOK, textVars, Text!vars
<1> QED BY TextInit, <1>1, PTL DEF Text!Spec

-----------------------------------------------------------------------------
(* AI analyses. *)

GoodAiRun(r) == r \in Ai!Run /\ (r.state \in Ai!Ended => r.prompt = "none")

GoodAiJob(j) ==
  /\ j \in Ai!Job
  /\ j.holder # None <=> j.state = "running"
  /\ j.state = "running" => j.attempts > 0

GoodAiLocal(s) == s \in Ai!Worker /\ Ai!LocalsFit(s)

GoodThread(t) ==
  /\ t \in Ai!Thread
  /\ t.listed => t.suggestion # "none"
  /\ t.purge = "checked" => ~t.held

LEMMA AiParts ==
  Ai!IInv <=> /\ GoodAiRun(aiRun) /\ GoodAiJob(aiJob) /\ GoodThread(thread)
              /\ aiRun.state = "absent" => aiJob.state = "absent"
              /\ aiWorker \in [Workers -> Ai!Worker]
              /\ \A w \in Workers : GoodAiLocal(aiWorker[w])
              /\ allowed \in BOOLEAN /\ configured \in BOOLEAN
              /\ aiBudget \in 0..AiBudget
BY DEF Ai!IInv, Ai!TypeOK, Ai!PromptsEnd, Ai!JobFollowsRun, Ai!ClaimsCount,
       Ai!PurgeIsFree, GoodAiRun, GoodAiJob, GoodThread, GoodAiLocal

LEMMA AiConstants ==
  /\ MaxTurns \in Nat /\ MaxTools \in Nat /\ AiBudget \in Nat /\ None \notin Workers
BY AiAssumption DEF Ai!AiRunAssumption

LEMMA AiBudgets ==
  ASSUME Ai!IInv
  PROVE  /\ Ai!Spend => aiBudget' \in 0..AiBudget
         /\ UNCHANGED aiBudget => aiBudget' \in 0..AiBudget
<1>1. aiBudget \in 0..AiBudget
  BY AiParts
<1> QED BY <1>1, AiConstants DEF Ai!Spend

\* A run keeps its terminal result until retention removes it, and retention does not
\* touch a thread under a hold.
AiEndsOnce ==
  aiRun.state \in Ai!Ended =>
    /\ aiRun.prompt = "none"
    /\ \/ aiRun'.state = "purged"
       \/ aiRun'.state = aiRun.state /\ aiRun'.answers = aiRun.answers

AiHeldIsKept == thread.held => (aiRun'.state = "purged" => aiRun.state = "purged")

AiStepOK == Ai!IInv' /\ AiEndsOnce /\ AiHeldIsKept

\* What a step other than retention does to the run.
KeepsAiRun(r) ==
  /\ GoodAiRun(r)
  /\ aiRun.state \in Ai!Ended => r.state = aiRun.state /\ r.answers = aiRun.answers
  /\ r.state \in {"absent", "purged"} => aiRun.state = r.state

KeepsAiJob(j) == GoodAiJob(j) /\ (aiJob.state = "absent" => j.state = "absent")

LEMMA AiKept ==
  ASSUME Ai!IInv, KeepsAiRun(aiRun'), GoodAiJob(aiJob'), GoodThread(thread'),
         aiRun'.state = "absent" => aiJob'.state = "absent",
         aiWorker' \in [Workers -> Ai!Worker], \A w \in Workers : GoodAiLocal(aiWorker'[w]),
         allowed' \in BOOLEAN, configured' \in BOOLEAN, aiBudget' \in 0..AiBudget
  PROVE  AiStepOK
<1>1. Ai!IInv'
  BY DEF KeepsAiRun, Ai!IInv, Ai!TypeOK, Ai!PromptsEnd, Ai!JobFollowsRun, Ai!ClaimsCount,
         Ai!PurgeIsFree, GoodAiRun, GoodAiJob, GoodThread, GoodAiLocal
<1>2. AiEndsOnce
  BY AiParts DEF AiEndsOnce, KeepsAiRun, GoodAiRun
<1>3. AiHeldIsKept
  BY DEF AiHeldIsKept, KeepsAiRun
<1> QED BY <1>1, <1>2, <1>3 DEF AiStepOK

\* The run as it is, and what a transaction of a pass commits.
LEMMA AiCommitted ==
  ASSUME Ai!IInv, NEW w \in Workers
  PROVE  KeepsAiRun(aiRun) /\ KeepsAiRun(Ai!Committed(w))
<1>1. /\ aiRun \in Ai!Run /\ (aiRun.state \in Ai!Ended => aiRun.prompt = "none")
      /\ aiRun.turns \in 0..MaxTurns /\ aiRun.tools \in 0..MaxTools /\ aiRun.answers \in Nat
  BY AiParts DEF GoodAiRun, Ai!Run
<1>2. KeepsAiRun(aiRun)
  BY <1>1 DEF KeepsAiRun, GoodAiRun
<1>3. ASSUME Ai!LocksRun(w)
      PROVE  /\ KeepsAiRun([aiRun EXCEPT !.state = "running"])
             /\ KeepsAiRun([aiRun EXCEPT !.state = "failed", !.prompt = "none"])
             /\ \A t \in 0..MaxTurns : KeepsAiRun([aiRun EXCEPT !.turns = t])
             /\ \A k \in 0..MaxTools : KeepsAiRun([aiRun EXCEPT !.tools = k])
             /\ \A n \in Nat : KeepsAiRun([aiRun EXCEPT !.state = "completed",
                                                        !.prompt = "none", !.answers = n])
  BY <1>1, <1>3
  DEF KeepsAiRun, GoodAiRun, Ai!LocksRun, Ai!Run, Ai!Active, Ai!Ended
<1>4. Ai!Authorized(w) => Ai!LocksRun(w)
  BY DEF Ai!Authorized
<1> SUFFICES KeepsAiRun(Ai!Committed(w))
  BY <1>2
<1>5. CASE aiWorker[w].phase = "boundary" /\ Ai!Authorized(w) /\ aiRun.turns < MaxTurns
  <2>1. PICK t \in 0..MaxTurns : t = aiRun.turns + 1
    BY <1>1, <1>5, AiConstants
  <2>2. Ai!Committed(w) = [aiRun EXCEPT !.turns = t]
    BY <1>1, <1>5, <2>1 DEF Ai!Committed
  <2> QED BY <1>3, <1>4, <1>5, <2>2
<1>6. CASE aiWorker[w].phase = "record" /\ Ai!Authorized(w) /\ aiRun.tools < MaxTools
  <2>1. PICK k \in 0..MaxTools : k = aiRun.tools + 1
    BY <1>1, <1>6, AiConstants
  <2>2. Ai!Committed(w) = [aiRun EXCEPT !.tools = k]
    BY <1>1, <1>6, <2>1 DEF Ai!Committed
  <2> QED BY <1>3, <1>4, <1>6, <2>2
<1>7. CASE aiWorker[w].phase = "finalize" /\ Ai!Authorized(w)
  <2>1. PICK n \in Nat : n = aiRun.answers + 1
    BY <1>1
  <2>2. Ai!Committed(w) = [aiRun EXCEPT !.state = "completed", !.prompt = "none", !.answers = n]
    BY <1>1, <1>7, <2>1 DEF Ai!Committed, Ai!Run
  <2> QED BY <1>3, <1>4, <1>7, <2>2
<1>8. CASE aiWorker[w].phase = "load" /\ Ai!LocksRun(w) /\ Ai!Readable
  <2>1. Ai!Committed(w) = [aiRun EXCEPT !.state = "running"]
    BY <1>8 DEF Ai!Committed
  <2> QED BY <1>3, <1>8, <2>1
<1>9. CASE aiWorker[w].phase = "fail" /\ Ai!LocksRun(w)
  <2>1. Ai!Committed(w) = [aiRun EXCEPT !.state = "failed", !.prompt = "none"]
    BY <1>9 DEF Ai!Committed
  <2> QED BY <1>3, <1>9, <2>1
<1>10. CASE /\ ~(aiWorker[w].phase = "load" /\ Ai!LocksRun(w) /\ Ai!Readable)
            /\ ~(aiWorker[w].phase = "boundary" /\ Ai!Authorized(w) /\ aiRun.turns < MaxTurns)
            /\ ~(aiWorker[w].phase = "record" /\ Ai!Authorized(w) /\ aiRun.tools < MaxTools)
            /\ ~(aiWorker[w].phase = "finalize" /\ Ai!Authorized(w))
            /\ ~(aiWorker[w].phase = "fail" /\ Ai!LocksRun(w))
  <2>1. Ai!Committed(w) = aiRun
    BY <1>10 DEF Ai!Committed
  <2> QED BY <1>2, <2>1
<1> QED BY <1>5, <1>6, <1>7, <1>8, <1>9, <1>10

\* The locals of pass w change to some that fit.
AiMovesTo(w) == \E s : GoodAiLocal(s) /\ aiWorker' = [aiWorker EXCEPT ![w] = s]

LEMMA AiMoved ==
  ASSUME Ai!IInv, NEW w \in Workers, AiMovesTo(w), KeepsAiRun(aiRun'), KeepsAiJob(aiJob'),
         UNCHANGED <<allowed, configured, thread>>, aiBudget' \in 0..AiBudget
  PROVE  AiStepOK
<1>1. PICK s : GoodAiLocal(s) /\ aiWorker' = [aiWorker EXCEPT ![w] = s]
  BY DEF AiMovesTo
<1>2. /\ aiWorker' \in [Workers -> Ai!Worker]
      /\ \A v \in Workers : GoodAiLocal(aiWorker'[v])
  BY <1>1, AiParts DEF GoodAiLocal
<1>3. GoodThread(thread') /\ allowed' \in BOOLEAN /\ configured' \in BOOLEAN
  BY AiParts
<1>4. GoodAiJob(aiJob') /\ (aiRun'.state = "absent" => aiJob'.state = "absent")
  BY AiParts DEF KeepsAiRun, KeepsAiJob
<1> QED BY <1>2, <1>3, <1>4, AiKept

AiVerdicts == {"done", "retry", "permanent", "defer"}

\* A pass that leaves its handler, or goes to another phase of it.
LEMMA AiLeaves ==
  ASSUME Ai!IInv, NEW w \in Workers, NEW ph \in {"settle", "fail"},
         NEW v \in AiVerdicts, Ai!Left(w, ph, v)
  PROVE  AiMovesTo(w)
<1>1. aiWorker[w] \in Ai!Worker /\ aiWorker \in [Workers -> Ai!Worker]
  BY AiParts
<1>2. aiWorker' = [aiWorker EXCEPT ![w] =
         [aiWorker[w] EXCEPT !.phase = ph, !.verdict = v, !.depth = 0, !.todo = 0,
                             !.forged = FALSE]]
  BY <1>1 DEF Ai!Left
<1> DEFINE s == [aiWorker[w] EXCEPT !.phase = ph, !.verdict = v, !.depth = 0, !.todo = 0,
                                    !.forged = FALSE]
<1>3. 0 \in 0..MaxTurns /\ 0 \in Nat /\ ph \in Ai!Phases
      /\ v \in {"none", "done", "retry", "permanent", "defer"}
  BY AiConstants DEF Ai!Phases, AiVerdicts
<1>4. s \in Ai!Worker /\ s.phase = ph /\ s.verdict = v
  BY <1>1, <1>3 DEF Ai!Worker
<1>5. GoodAiLocal(s)
  BY <1>4 DEF GoodAiLocal, Ai!LocalsFit, AiVerdicts
<1> QED BY <1>2, <1>5 DEF AiMovesTo

LEMMA AiGoes ==
  ASSUME Ai!IInv, NEW w \in Workers, NEW ph \in Ai!Phases, Ai!Goto(w, ph),
         ph \in {"generate", "boundary", "plan", "call", "record"} =>
           aiWorker[w].depth < MaxTurns,
         ph = "record" => aiWorker[w].todo > 0, ph \notin {"fail", "settle"}
  PROVE  AiMovesTo(w)
<1>1. aiWorker[w] \in Ai!Worker /\ aiWorker \in [Workers -> Ai!Worker]
  BY AiParts
<1>2. aiWorker' = [aiWorker EXCEPT ![w] = [aiWorker[w] EXCEPT !.phase = ph]]
  BY DEF Ai!Goto
<1>3. /\ [aiWorker[w] EXCEPT !.phase = ph] \in Ai!Worker
      /\ [aiWorker[w] EXCEPT !.phase = ph].phase = ph
      /\ [aiWorker[w] EXCEPT !.phase = ph].depth = aiWorker[w].depth
      /\ [aiWorker[w] EXCEPT !.phase = ph].todo = aiWorker[w].todo
  BY <1>1 DEF Ai!Worker
<1>4. GoodAiLocal([aiWorker[w] EXCEPT !.phase = ph])
  BY <1>3 DEF GoodAiLocal, Ai!LocalsFit
<1> QED BY <1>2, <1>4 DEF AiMovesTo

\* What the locals say in the phases of a turn.
LEMMA AiTurning ==
  ASSUME Ai!IInv, NEW w \in Workers
  PROVE  /\ aiWorker[w].phase \in {"generate", "boundary", "plan", "call", "record"} =>
              aiWorker[w].depth < MaxTurns
         /\ aiWorker[w].phase = "record" => aiWorker[w].todo > 0
         /\ aiWorker[w].depth \in 0..MaxTurns /\ aiWorker[w].todo \in Nat
         /\ aiWorker[w].phase \in {"fail", "settle"} => aiWorker[w].verdict \in AiVerdicts
         /\ aiWorker[w] \in Ai!Worker
BY AiParts DEF GoodAiLocal, Ai!LocalsFit, Ai!Worker, AiVerdicts

\* The outcomes that the steps of the handler share.
LEMMA AiThrows ==
  ASSUME Ai!IInv, NEW w \in Workers,
         \/ \E v \in AiVerdicts : Ai!Throw(w, v)
         \/ \E v \in {"retry", "permanent"} : Ai!Fails(w, v)
         \/ Ai!Leaves(w)
  PROVE  AiMovesTo(w)
<1>1. PICK ph \in {"settle", "fail"}, v \in AiVerdicts : Ai!Left(w, ph, v)
  BY DEF AiVerdicts, Ai!Throw, Ai!Fails, Ai!Leaves
<1> QED BY <1>1, AiLeaves

\* Load, Replay, Ask and Generate: up to the provider's answer.
LEMMA AskSteps ==
  ASSUME Ai!IInv, NEW w \in Workers,
         Ai!Load(w) \/ Ai!Replay(w) \/ Ai!Ask(w) \/ Ai!Generate(w)
  PROVE  AiMovesTo(w) /\ aiRun' \in {aiRun, Ai!Committed(w)}
<1>1. CASE Ai!Load(w)
  <2>1. \/ Ai!Leaves(w) \/ Ai!Fails(w, "permanent")
        \/ Ai!Goto(w, "replay") \/ Ai!Goto(w, "ask")
    BY <1>1 DEF Ai!Load
  <2>2. AiMovesTo(w)
    BY <2>1, AiThrows, AiGoes DEF Ai!Phases, AiVerdicts
  <2> QED BY <1>1, <2>2 DEF Ai!Load, Ai!Leaves
<1>2. CASE Ai!Replay(w)
  BY <1>2, AiThrows DEF Ai!Replay, AiVerdicts
<1>3. CASE Ai!Ask(w)
  <2>1. \/ Ai!Leaves(w) \/ Ai!Fails(w, "permanent")
        \/ aiWorker[w].depth # MaxTurns /\ Ai!Goto(w, "generate")
    BY <1>3 DEF Ai!Ask, Ai!Authorize
  <2>2. aiWorker[w].depth # MaxTurns => aiWorker[w].depth < MaxTurns
    BY AiTurning, AiConstants
  <2>3. AiMovesTo(w)
    BY <2>1, <2>2, AiThrows, AiGoes DEF Ai!Phases, AiVerdicts
  <2> QED BY <1>3, <2>3 DEF Ai!Ask, Ai!Authorize, Ai!Leaves
<1>4. CASE Ai!Generate(w)
  <2>1. CASE \E f \in BOOLEAN, k \in 0..(MaxTools + 1) :
               aiWorker' = [aiWorker EXCEPT ![w].phase = "boundary", ![w].forged = f,
                                            ![w].todo = k]
    <3>1. PICK f \in BOOLEAN, k \in 0..(MaxTools + 1) :
            aiWorker' = [aiWorker EXCEPT ![w].phase = "boundary", ![w].forged = f,
                                         ![w].todo = k]
      BY <2>1
    <3> DEFINE s == [aiWorker[w] EXCEPT !.phase = "boundary", !.forged = f, !.todo = k]
    <3>2. aiWorker' = [aiWorker EXCEPT ![w] = s]
      BY <3>1, AiTurning, AiParts DEF Ai!Worker
    <3>3. k \in Nat
      BY AiConstants
    <3>4. s \in Ai!Worker /\ s.phase = "boundary" /\ s.depth = aiWorker[w].depth
      BY <3>3, AiTurning DEF Ai!Worker, Ai!Phases
    <3>5. aiWorker[w].depth < MaxTurns
      BY <1>4, AiTurning DEF Ai!Generate
    <3>6. GoodAiLocal(s)
      BY <3>4, <3>5 DEF GoodAiLocal, Ai!LocalsFit
    <3>7. UNCHANGED aiRun
      BY <1>4 DEF Ai!Generate
    <3> QED BY <3>2, <3>6, <3>7 DEF AiMovesTo
  <2>2. CASE Ai!Fails(w, "permanent") \/ Ai!Fails(w, "retry") \/ Ai!Throw(w, "retry")
    <3>1. AiMovesTo(w)
      BY <2>2, AiThrows DEF AiVerdicts
    <3>2. UNCHANGED aiRun
      BY <1>4 DEF Ai!Generate
    <3> QED BY <3>1, <3>2
  <2> QED BY <1>4, <2>1, <2>2 DEF Ai!Generate
<1> QED BY <1>1, <1>2, <1>3, <1>4

\* Boundary, Answer, Finalize and Recheck.
LEMMA AnswerSteps ==
  ASSUME Ai!IInv, NEW w \in Workers,
         Ai!Boundary(w) \/ Ai!Answer(w) \/ Ai!Finalize(w) \/ Ai!Recheck(w)
  PROVE  AiMovesTo(w) /\ aiRun' \in {aiRun, Ai!Committed(w)}
<1>1. CASE Ai!Boundary(w)
  <2>1. \/ Ai!Leaves(w) \/ Ai!Fails(w, "permanent")
        \/ \E ph \in {"answer", "plan"} : Ai!Goto(w, ph)
    BY <1>1 DEF Ai!Boundary
  <2>2. aiWorker[w].depth < MaxTurns
    BY <1>1, AiTurning DEF Ai!Boundary
  <2>3. AiMovesTo(w)
    BY <2>1, <2>2, AiThrows, AiGoes DEF Ai!Phases, AiVerdicts
  <2> QED BY <1>1, <2>3 DEF Ai!Boundary, Ai!Leaves
<1>2. CASE Ai!Answer(w)
  <2>1. Ai!Leaves(w) \/ Ai!Fails(w, "permanent") \/ Ai!Goto(w, "finalize")
    BY <1>2 DEF Ai!Answer, Ai!Authorize
  <2>2. AiMovesTo(w)
    BY <2>1, AiThrows, AiGoes DEF Ai!Phases, AiVerdicts
  <2> QED BY <1>2, <2>2 DEF Ai!Answer, Ai!Authorize, Ai!Leaves
<1>3. CASE Ai!Finalize(w)
  <2>1. \E v \in {"done", "permanent", "defer"} : Ai!Throw(w, v)
    BY <1>3 DEF Ai!Finalize
  <2> QED BY <1>3, <2>1, AiThrows DEF Ai!Finalize, AiVerdicts
<1>4. CASE Ai!Recheck(w)
  <2>1. Ai!Leaves(w) \/ Ai!Fails(w, "permanent") \/ Ai!Throw(w, "defer")
    BY <1>4 DEF Ai!Recheck, Ai!Authorize
  <2>2. AiMovesTo(w)
    BY <2>1, AiThrows DEF AiVerdicts
  <2> QED BY <1>4, <2>2 DEF Ai!Recheck, Ai!Authorize, Ai!Leaves
<1> QED BY <1>1, <1>2, <1>3, <1>4

\* Plan, Call, Record and FailRun.
LEMMA CallSteps ==
  ASSUME Ai!IInv, NEW w \in Workers,
         Ai!Plan(w) \/ Ai!Call(w) \/ Ai!Record(w) \/ Ai!FailRun(w)
  PROVE  AiMovesTo(w) /\ aiRun' \in {aiRun, Ai!Committed(w)}
<1>1. CASE Ai!Plan(w)
  <2>1. Ai!Leaves(w) \/ Ai!Fails(w, "permanent") \/ Ai!Goto(w, "call")
    BY <1>1 DEF Ai!Plan, Ai!Authorize
  <2>2. aiWorker[w].depth < MaxTurns
    BY <1>1, AiTurning DEF Ai!Plan
  <2>3. AiMovesTo(w)
    BY <2>1, <2>2, AiThrows, AiGoes DEF Ai!Phases, AiVerdicts
  <2> QED BY <1>1, <2>3 DEF Ai!Plan, Ai!Authorize, Ai!Leaves
<1>2. CASE Ai!Call(w)
  <2>1. aiWorker[w].depth < MaxTurns
    BY <1>2, AiTurning DEF Ai!Call
  <2>2. CASE aiWorker[w].todo = 0
    <3>1. PICK n \in 0..MaxTurns : n = aiWorker[w].depth + 1
      BY <2>1, AiTurning, AiConstants
    <3>2. aiWorker' = [aiWorker EXCEPT ![w] = [aiWorker[w] EXCEPT !.phase = "ask", !.depth = n]]
      BY <1>2, <2>2, <3>1, AiTurning, AiParts DEF Ai!Call, Ai!Worker
    <3>3. GoodAiLocal([aiWorker[w] EXCEPT !.phase = "ask", !.depth = n])
      BY AiTurning DEF GoodAiLocal, Ai!LocalsFit, Ai!Worker, Ai!Phases
    <3> QED BY <1>2, <2>2, <3>2, <3>3 DEF AiMovesTo, Ai!Call
  <2>3. CASE aiWorker[w].todo # 0
    <3>1. Ai!Leaves(w) \/ Ai!Fails(w, "permanent") \/ Ai!Goto(w, "record")
      BY <1>2, <2>3 DEF Ai!Call, Ai!Authorize
    <3>2. aiWorker[w].todo > 0
      BY <2>3, AiTurning
    <3>3. AiMovesTo(w)
      BY <2>1, <3>1, <3>2, AiThrows, AiGoes DEF Ai!Phases, AiVerdicts
    <3> QED BY <1>2, <2>3, <3>3 DEF Ai!Call, Ai!Authorize, Ai!Leaves
  <2> QED BY <2>2, <2>3
<1>3. CASE Ai!Record(w)
  <2>1. aiWorker[w].depth < MaxTurns /\ aiWorker[w].todo > 0
    BY <1>3, AiTurning DEF Ai!Record
  <2>2. CASE Ai!Leaves(w) \/ Ai!Goto(w, "recheck")
    <3>1. AiMovesTo(w)
      BY <2>2, AiThrows, AiGoes DEF Ai!Phases, AiVerdicts
    <3> QED BY <1>3, <3>1 DEF Ai!Record, Ai!Leaves
  <2>3. CASE aiWorker' = [aiWorker EXCEPT ![w].phase = "call", ![w].todo = @ - 1]
    <3>1. PICK n \in Nat : n = aiWorker[w].todo - 1
      BY <2>1, AiTurning
    <3>2. aiWorker' = [aiWorker EXCEPT ![w] = [aiWorker[w] EXCEPT !.phase = "call", !.todo = n]]
      BY <2>3, <3>1, AiTurning, AiParts DEF Ai!Worker
    <3>3. GoodAiLocal([aiWorker[w] EXCEPT !.phase = "call", !.todo = n])
      BY <2>1, AiTurning DEF GoodAiLocal, Ai!LocalsFit, Ai!Worker, Ai!Phases
    <3> QED BY <1>3, <3>2, <3>3 DEF AiMovesTo, Ai!Record, Ai!Leaves
  <2> QED BY <1>3, <2>2, <2>3 DEF Ai!Record
<1>4. CASE Ai!FailRun(w)
  <2>1. \/ Ai!Leaves(w)
        \/ \E v \in AiVerdicts : Ai!Throw(w, v)
    BY <1>4, AiTurning DEF Ai!FailRun, AiVerdicts
  <2>2. AiMovesTo(w)
    BY <2>1, AiThrows DEF AiVerdicts
  <2> QED BY <1>4, <2>2 DEF Ai!FailRun, Ai!Leaves
<1> QED BY <1>1, <1>2, <1>3, <1>4

\* A step of a pass, and what may happen to it.
LEMMA AiPassStep ==
  ASSUME Ai!IInv, NEW w \in Workers,
         Ai!Step(w) \/ Ai!StatementErrs(w) \/ Ai!Abort(w) \/ Ai!WorkerCrash(w)
  PROVE  AiStepOK
<1>1. /\ KeepsAiRun(aiRun) /\ KeepsAiRun(Ai!Committed(w)) /\ KeepsAiJob(aiJob)
      /\ UNCHANGED aiBudget => aiBudget' \in 0..AiBudget
      /\ Ai!Spend => aiBudget' \in 0..AiBudget
      /\ UNCHANGED aiJob => KeepsAiJob(aiJob')
      /\ UNCHANGED aiRun => KeepsAiRun(aiRun')
  BY AiCommitted, AiBudgets, AiParts DEF KeepsAiJob
<1>2. GoodAiLocal(Ai!IdleWorker)
  BY AiConstants DEF GoodAiLocal, Ai!LocalsFit, Ai!IdleWorker, Ai!Worker, Ai!Phases
<1>3. CASE \/ Ai!Load(w) \/ Ai!Replay(w) \/ Ai!Ask(w) \/ Ai!Generate(w)
           \/ Ai!Boundary(w) \/ Ai!Answer(w) \/ Ai!Finalize(w) \/ Ai!Recheck(w)
           \/ Ai!Plan(w) \/ Ai!Call(w) \/ Ai!Record(w) \/ Ai!FailRun(w)
  <2>1. AiMovesTo(w) /\ aiRun' \in {aiRun, Ai!Committed(w)}
    BY <1>3, AskSteps, AnswerSteps, CallSteps
  <2>2. UNCHANGED <<aiJob, allowed, configured, thread, aiBudget>>
    BY <1>3
    DEF Ai!Load, Ai!Replay, Ai!Ask, Ai!Generate, Ai!Boundary, Ai!Answer, Ai!Finalize,
        Ai!Recheck, Ai!Plan, Ai!Call, Ai!Record, Ai!FailRun, Ai!rights
  <2>3. KeepsAiRun(aiRun')
    BY <1>1, <2>1
  <2> QED BY <1>1, <2>1, <2>2, <2>3, AiMoved
<1>4. CASE Ai!StatementErrs(w)
  <2>1. AiMovesTo(w)
    BY <1>4, AiThrows DEF Ai!StatementErrs, AiVerdicts
  <2>2. KeepsAiRun(aiRun')
    BY <1>1, <1>4 DEF Ai!StatementErrs
  <2> QED BY <1>1, <1>4, <2>1, <2>2, AiMoved DEF Ai!StatementErrs, Ai!rights
<1>5. CASE Ai!Settle(w)
  <2>1. AiMovesTo(w)
    BY <1>2, <1>5 DEF Ai!Settle, AiMovesTo
  <2>2. KeepsAiJob(aiJob')
    <3>1. CASE ~Ai!Owns(w)
      BY <1>1, <1>5, <3>1 DEF Ai!Settle
    <3>2. CASE Ai!Owns(w)
      <4>1. aiJob.attempts \in Nat /\ aiJob.attempts - 1 \in Nat
        BY <1>1, <3>2 DEF KeepsAiJob, GoodAiJob, Ai!Owns, Ai!Job
      <4>2. aiWorker[w].verdict \in AiVerdicts
        BY <1>5, AiTurning DEF Ai!Settle
      <4>3. PICK st \in {"queued", "completed", "dead_letter"}, n \in Nat :
              Ai!Settled(w) = Ai!Released(st, n)
        BY <4>1, <4>2 DEF Ai!Settled, AiVerdicts
      <4>4. KeepsAiJob(Ai!Released(st, n))
        BY <3>2, AiConstants DEF Ai!Owns, KeepsAiJob, GoodAiJob, Ai!Released, Ai!Job
      <4> QED BY <1>5, <3>2, <4>3, <4>4 DEF Ai!Settle
    <3> QED BY <3>1, <3>2
  <2> QED BY <1>1, <1>5, <2>1, <2>2, AiMoved DEF Ai!Settle, Ai!rights
<1>6. CASE Ai!Abort(w)
  <2>1. aiWorker[w] \in Ai!Worker /\ aiWorker \in [Workers -> Ai!Worker] /\ GoodAiLocal(aiWorker[w])
    BY AiParts
  <2> DEFINE s == [aiWorker[w] EXCEPT !.aborted = TRUE]
  <2>2. aiWorker' = [aiWorker EXCEPT ![w] = s]
    BY <1>6, <2>1 DEF Ai!Abort
  <2>3. s \in Ai!Worker /\ s.phase = aiWorker[w].phase /\ s.depth = aiWorker[w].depth
        /\ s.todo = aiWorker[w].todo /\ s.verdict = aiWorker[w].verdict
    BY <2>1 DEF Ai!Worker
  <2>4. GoodAiLocal(s)
    BY <2>1, <2>3 DEF GoodAiLocal, Ai!LocalsFit
  <2>5. AiMovesTo(w)
    BY <2>2, <2>4 DEF AiMovesTo
  <2> QED BY <1>1, <1>6, <2>5, AiMoved DEF Ai!Abort, Ai!rights
<1>7. CASE Ai!WorkerCrash(w)
  <2>1. AiMovesTo(w)
    BY <1>2, <1>7 DEF Ai!WorkerCrash, AiMovesTo
  <2> QED BY <1>1, <1>7, <2>1, AiMoved DEF Ai!WorkerCrash, Ai!rights
<1> QED BY <1>3, <1>4, <1>5, <1>6, <1>7 DEF Ai!Step

\* The claims of the queue.
LEMMA AiQueueStep ==
  ASSUME Ai!IInv, Ai!LeaseExpires \/ \E w \in Workers : Ai!ClaimDue(w)
  PROVE  AiStepOK
<1>1. /\ KeepsAiRun(aiRun) /\ KeepsAiJob(aiJob) /\ GoodThread(thread)
      /\ aiWorker \in [Workers -> Ai!Worker] /\ \A w \in Workers : GoodAiLocal(aiWorker[w])
      /\ allowed \in BOOLEAN /\ configured \in BOOLEAN
      /\ UNCHANGED aiBudget => aiBudget' \in 0..AiBudget
      /\ Ai!Spend => aiBudget' \in 0..AiBudget
  BY AiParts, AiBudgets DEF KeepsAiRun, KeepsAiJob
<1>2. CASE Ai!LeaseExpires
  <2>1. KeepsAiJob([aiJob EXCEPT !.live = FALSE])
    BY <1>1 DEF KeepsAiJob, GoodAiJob, Ai!Job
  <2>2. /\ aiJob' = [aiJob EXCEPT !.live = FALSE] /\ aiBudget' \in 0..AiBudget
        /\ UNCHANGED <<aiRun, aiWorker, allowed, configured, thread>>
    BY <1>1, <1>2 DEF Ai!LeaseExpires, Ai!rights
  <2>3. GoodAiJob(aiJob') /\ (aiRun'.state = "absent" => aiJob'.state = "absent")
    BY <2>1, <2>2, AiParts DEF KeepsAiJob
  <2> QED BY <1>1, <2>2, <2>3, AiKept
<1>3. ASSUME NEW w \in Workers, Ai!ClaimDue(w) PROVE AiStepOK
  <2>1. PICK n \in Nat : n = aiJob.attempts + 1
    BY <1>1 DEF KeepsAiJob, GoodAiJob, Ai!Job
  <2> DEFINE j == [state |-> "running", attempts |-> n, holder |-> w, live |-> TRUE]
             s == [Ai!IdleWorker EXCEPT !.phase = "load", !.attempts = n]
  <2>2. aiJob' = j /\ aiWorker' = [aiWorker EXCEPT ![w] = s]
    BY <1>3, <2>1 DEF Ai!ClaimDue
  <2>3. n > 0
    BY <1>1, <2>1 DEF KeepsAiJob, GoodAiJob, Ai!Job
  <2>4. KeepsAiJob(j)
    BY <1>3, <2>3, AiConstants DEF Ai!ClaimDue, KeepsAiJob, GoodAiJob, Ai!Job
  <2>5. 0 \in 0..MaxTurns /\ 0 \in Nat
    BY AiConstants
  <2>6. s \in Ai!Worker /\ s.phase = "load"
    BY <2>5 DEF Ai!IdleWorker, Ai!Worker, Ai!Phases
  <2>7. GoodAiLocal(s)
    BY <2>6 DEF GoodAiLocal, Ai!LocalsFit
  <2>8. AiMovesTo(w)
    BY <2>2, <2>7 DEF AiMovesTo
  <2>9. UNCHANGED <<aiRun, allowed, configured, thread, aiBudget>>
    BY <1>3 DEF Ai!ClaimDue, Ai!rights
  <2> QED BY <1>1, <2>2, <2>4, <2>8, <2>9, AiMoved
<1> QED BY <1>2, <1>3

\* A step that leaves the passes alone.
LEMMA AiQuiet ==
  ASSUME Ai!IInv, KeepsAiRun(aiRun'), KeepsAiJob(aiJob'), GoodThread(thread'),
         UNCHANGED aiWorker, allowed' \in BOOLEAN, configured' \in BOOLEAN,
         aiBudget' \in 0..AiBudget
  PROVE  AiStepOK
<1>1. GoodAiJob(aiJob') /\ (aiRun'.state = "absent" => aiJob'.state = "absent")
  BY AiParts DEF KeepsAiRun, KeepsAiJob
<1> QED BY <1>1, AiParts, AiKept

\* The owner, and what the run depends on.
LEMMA AiOwnerStep ==
  ASSUME Ai!IInv,
         Ai!StartAnalysis \/ Ai!CancelRun \/ Ai!RightsChange \/ Ai!ProviderChanges
  PROVE  AiStepOK
<1>1. /\ KeepsAiRun(aiRun) /\ KeepsAiJob(aiJob) /\ GoodThread(thread) /\ aiRun \in Ai!Run
      /\ allowed \in BOOLEAN /\ configured \in BOOLEAN
      /\ UNCHANGED aiBudget => aiBudget' \in 0..AiBudget
      /\ Ai!Spend => aiBudget' \in 0..AiBudget
  BY AiParts, AiBudgets DEF KeepsAiRun, KeepsAiJob, GoodAiRun
<1>2. CASE Ai!StartAnalysis
  <2>1. PICK p \in {"none", "live"} : aiRun' = [aiRun EXCEPT !.state = "pending", !.prompt = p]
    BY <1>2 DEF Ai!StartAnalysis
  <2>2. GoodAiRun(aiRun') /\ aiRun'.state = "pending" /\ aiRun.state = "absent"
    BY <1>1, <1>2, <2>1 DEF Ai!StartAnalysis, GoodAiRun, Ai!Run, Ai!Active, Ai!Ended
  <2>3. KeepsAiRun(aiRun')
    BY <2>2 DEF KeepsAiRun, Ai!Ended
  <2>4. aiJob' = [aiJob EXCEPT !.state = "queued"] /\ aiJob.state = "absent"
    BY <1>2, <2>2, AiParts DEF Ai!StartAnalysis
  <2>5. GoodAiJob(aiJob')
    BY <1>1, <2>4 DEF KeepsAiJob, GoodAiJob, Ai!Job
  <2>6. UNCHANGED <<aiWorker, allowed, configured, thread, aiBudget>>
    BY <1>2 DEF Ai!StartAnalysis, Ai!rights
  <2> QED BY <1>1, <2>2, <2>3, <2>5, <2>6, AiParts, AiKept
<1>3. CASE Ai!CancelRun
  <2>1. KeepsAiRun(Ai!CanceledRun)
    BY <1>1, <1>3
    DEF Ai!CancelRun, Ai!CanceledRun, KeepsAiRun, GoodAiRun, Ai!Run, Ai!Active, Ai!Ended
  <2>2. KeepsAiJob(aiJob')
    BY <1>1, <1>3 DEF Ai!CancelRun, KeepsAiJob, GoodAiJob, Ai!Job
  <2> QED BY <1>1, <1>3, <2>1, <2>2, AiQuiet DEF Ai!CancelRun, Ai!rights
<1>4. CASE Ai!RightsChange
  BY <1>1, <1>4, AiQuiet DEF Ai!RightsChange
<1>5. CASE Ai!ProviderChanges
  BY <1>1, <1>5, AiQuiet DEF Ai!ProviderChanges
<1> QED BY <1>2, <1>3, <1>4, <1>5

\* Prompts, suggestions, holds, and the purge up to its commit.
LEMMA AiRetentionStep ==
  ASSUME Ai!IInv,
         \/ Ai!PromptExpires \/ Ai!PurgePrompt \/ Ai!HoldChanges \/ Ai!DueChanges
         \/ Ai!Suggest \/ Ai!Decide \/ Ai!SelectThread \/ Ai!CheckThread
  PROVE  AiStepOK
<1>1. /\ KeepsAiRun(aiRun) /\ KeepsAiJob(aiJob) /\ GoodThread(thread) /\ aiRun \in Ai!Run
      /\ allowed \in BOOLEAN /\ configured \in BOOLEAN
      /\ UNCHANGED aiBudget => aiBudget' \in 0..AiBudget
      /\ aiRun.state \in Ai!Ended => aiRun.prompt = "none"
  BY AiParts, AiBudgets DEF KeepsAiRun, KeepsAiJob, GoodAiRun
<1>2. UNCHANGED <<aiJob, aiWorker, allowed, configured, aiBudget>>
  BY DEF Ai!PromptExpires, Ai!PurgePrompt, Ai!HoldChanges, Ai!DueChanges, Ai!Suggest,
         Ai!Decide, Ai!SelectThread, Ai!CheckThread, Ai!rights
<1>3. CASE Ai!PromptExpires \/ Ai!PurgePrompt
  <2>1. KeepsAiRun(aiRun')
    BY <1>1, <1>3 DEF Ai!PromptExpires, Ai!PurgePrompt, KeepsAiRun, GoodAiRun, Ai!Run
  <2>2. UNCHANGED thread
    BY <1>3 DEF Ai!PromptExpires, Ai!PurgePrompt
  <2> QED BY <1>1, <1>2, <2>1, <2>2, AiQuiet
<1>4. CASE \/ Ai!HoldChanges \/ Ai!DueChanges \/ Ai!Suggest \/ Ai!Decide \/ Ai!SelectThread
           \/ Ai!CheckThread
  <2>1. GoodThread(thread')
    BY <1>1, <1>4
    DEF Ai!HoldChanges, Ai!DueChanges, Ai!LockFree, Ai!Suggest, Ai!Decide, Ai!SelectThread,
        Ai!CheckThread, Ai!Purgeable, GoodThread, Ai!Thread
  <2>2. UNCHANGED aiRun
    BY <1>4
    DEF Ai!HoldChanges, Ai!DueChanges, Ai!Suggest, Ai!Decide, Ai!SelectThread, Ai!CheckThread
  <2> QED BY <1>1, <1>2, <2>1, <2>2, AiQuiet
<1> QED BY <1>3, <1>4

\* The commit of a purge, under the lock that its check took.
LEMMA AiPurgeStep ==
  ASSUME Ai!IInv, Ai!PurgeThread
  PROVE  AiStepOK
<1>1. /\ GoodAiRun(aiRun) /\ aiRun \in Ai!Run /\ GoodThread(thread) /\ ~thread.held
      /\ GoodAiJob(aiJob) /\ aiWorker \in [Workers -> Ai!Worker]
      /\ \A w \in Workers : GoodAiLocal(aiWorker[w])
      /\ aiRun.state = "absent" => aiJob.state = "absent"
      /\ allowed \in BOOLEAN /\ configured \in BOOLEAN /\ aiBudget \in 0..AiBudget
  BY AiParts DEF GoodAiRun, GoodThread, Ai!PurgeThread
<1>2. UNCHANGED <<aiJob, aiWorker, allowed, configured, aiBudget>>
  BY DEF Ai!PurgeThread, Ai!rights
<1>3. GoodThread(thread')
  BY <1>1 DEF Ai!PurgeThread, GoodThread, Ai!Thread
<1>4. CASE aiRun' = aiRun
  <2>1. Ai!IInv'
    BY <1>1, <1>2, <1>3, <1>4
    DEF Ai!IInv, Ai!TypeOK, Ai!PromptsEnd, Ai!JobFollowsRun, Ai!ClaimsCount,
        Ai!PurgeIsFree, GoodAiRun, GoodAiJob, GoodThread, GoodAiLocal
  <2> QED BY <1>1, <1>4, <2>1 DEF AiStepOK, AiEndsOnce, AiHeldIsKept, GoodAiRun
<1>5. CASE aiRun' = [aiRun EXCEPT !.state = "purged", !.prompt = "none", !.turns = 0,
                                  !.tools = 0, !.answers = 0]
  <2>1. 0 \in 0..MaxTurns /\ 0 \in 0..MaxTools
    BY AiConstants
  <2>2. aiRun' \in Ai!Run /\ aiRun'.state = "purged" /\ aiRun'.prompt = "none"
    BY <1>1, <1>5, <2>1 DEF Ai!Run
  <2>3. Ai!IInv'
    BY <1>1, <1>2, <1>3, <2>2
    DEF Ai!IInv, Ai!TypeOK, Ai!PromptsEnd, Ai!JobFollowsRun, Ai!ClaimsCount,
        Ai!PurgeIsFree, GoodAiRun, GoodAiJob, GoodThread, GoodAiLocal
  <2> QED BY <1>1, <2>2, <2>3 DEF AiStepOK, AiEndsOnce, AiHeldIsKept, GoodAiRun
<1> QED BY <1>4, <1>5 DEF Ai!PurgeThread

LEMMA AiStep == ASSUME Ai!IInv, [Ai!Next]_aiVars PROVE AiStepOK
<1>1. CASE UNCHANGED aiVars
  BY <1>1, AiParts, AiQuiet DEF aiVars, KeepsAiRun, KeepsAiJob
<1>2. ASSUME NEW w \in Workers,
             Ai!Step(w) \/ Ai!StatementErrs(w) \/ Ai!Abort(w) \/ Ai!WorkerCrash(w)
      PROVE  AiStepOK
  BY <1>2, AiPassStep
<1> QED
  BY <1>1, <1>2, AiQueueStep, AiOwnerStep, AiRetentionStep, AiPurgeStep DEF Ai!Next

LEMMA AiInit == Ai!Init => Ai!IInv
<1> SUFFICES ASSUME Ai!Init PROVE Ai!IInv
  OBVIOUS
<1>1. 0 \in 0..MaxTurns /\ 0 \in 0..MaxTools /\ 0 \in Nat /\ AiBudget \in 0..AiBudget
  BY AiConstants
<1>2. /\ GoodAiRun(aiRun) /\ GoodAiJob(aiJob) /\ GoodThread(thread)
      /\ aiRun.state = "absent" => aiJob.state = "absent"
  BY <1>1, AiConstants
  DEF Ai!Init, GoodAiRun, GoodAiJob, GoodThread, Ai!Run, Ai!Job, Ai!Thread, Ai!Ended
<1>3. GoodAiLocal(Ai!IdleWorker)
  BY <1>1 DEF GoodAiLocal, Ai!LocalsFit, Ai!IdleWorker, Ai!Worker, Ai!Phases
<1>4. /\ aiWorker \in [Workers -> Ai!Worker] /\ \A w \in Workers : GoodAiLocal(aiWorker[w])
  BY <1>3 DEF Ai!Init, GoodAiLocal
<1>5. allowed \in BOOLEAN /\ configured \in BOOLEAN
  BY DEF Ai!Init
<1>6. aiBudget \in 0..AiBudget
  BY <1>1 DEF Ai!Init
<1> QED BY <1>2, <1>4, <1>5, <1>6, AiParts

LEMMA AiInvariance == Ai!Spec => []Ai!IInv
<1>1. Ai!IInv /\ [Ai!Next]_(Ai!vars) => Ai!IInv'
  BY AiStep DEF AiStepOK, aiVars, Ai!vars
<1> QED BY AiInit, <1>1, PTL DEF Ai!Spec

-----------------------------------------------------------------------------
(* The composition. *)

\* What the composition does to each of its modules is what the module does by itself.
LEMMA JobModules == MCSpec => Spec /\ Ai!Spec /\ Text!Spec
<1>1. MCInit => Init /\ Ai!Init /\ Text!Init
  BY DEF MCInit
<1>2. [MCNext]_all =>
        [Next]_vars /\ [Ai!Next]_(Ai!vars) /\ [Text!Next]_(Text!vars)
  BY DEF MCNext, Queues, Analyses, Extracts, all, aiVars, textVars, Ai!vars, Text!vars
<1> QED BY <1>1, <1>2, PTL DEF MCSpec, Spec, Ai!Spec, Text!Spec

\* THEOREM: the rows, the locals and the counters of the three modules keep their
\* types: a job has a holder exactly while it runs, the jobs of an extraction are those
\* of the lives it has had, and a suggestion listed for a purge exists.
THEOREM JobTypes == MCSpec => []TypesOK
<1>1. (Ai!IInv => Ai!TypeOK) /\ (Text!IInv => Text!TypeOK)
  BY DEF Ai!IInv, Text!IInv
<1> QED BY <1>1, TypeCorrect, AiInvariance, TextInvariance, JobModules, PTL DEF TypesOK

\* THEOREM: an analysis commits one terminal result, whoever still holds an answer, a
\* failure to record or a claim, and its prompt does not outlive it; an extraction that
\* has ended is taken up again only by a retry, with a job of its own.
THEOREM OutcomesStayFinal == MCSpec => OutcomesAreFinal
<1>1. Ai!IInv /\ [Ai!Next]_(Ai!vars) =>
        [aiRun.state \in Ai!Ended =>
           /\ aiRun.prompt = "none"
           /\ \/ aiRun'.state = "purged"
              \/ aiRun'.state = aiRun.state /\ aiRun'.answers = aiRun.answers]_(Ai!vars)
  BY AiStep DEF AiStepOK, AiEndsOnce, aiVars, Ai!vars
<1>2. Text!IInv /\ [Text!Next]_(Text!vars) =>
        [run.state \in Text!Ended /\ run'.state # run.state =>
           /\ run.state # "completed"
           /\ run'.state = "pending"
           /\ job[run'.life].state = "absent"
           /\ job'[run'.life].state = "queued"]_(Text!vars)
  BY TextStep DEF TextStepOK, TextEndsOnce, textVars, Text!vars
<1>3. Ai!Spec => Ai!RunEndsOnce
  BY <1>1, AiInvariance, PTL DEF Ai!Spec, Ai!RunEndsOnce
<1>4. Text!Spec => Text!EndedIsFinal
  BY <1>2, TextInvariance, PTL DEF Text!Spec, Text!EndedIsFinal
<1> QED BY <1>3, <1>4, JobModules, PTL DEF OutcomesAreFinal

\* THEOREM: a thread on which a legal hold is in force is not purged, although its
\* purge was selected before the lock that orders the two was taken.
THEOREM HeldThreadStays == MCSpec => HeldThreadIsKept
<1>1. Ai!IInv /\ [Ai!Next]_(Ai!vars) =>
        [thread.held => (aiRun'.state = "purged" => aiRun.state = "purged")]_(Ai!vars)
  BY AiStep DEF AiStepOK, AiHeldIsKept, aiVars, Ai!vars
<1> QED
  BY <1>1, AiInvariance, JobModules, PTL DEF HeldThreadIsKept, Ai!HeldThreadIsKept, Ai!Spec

=============================================================================
