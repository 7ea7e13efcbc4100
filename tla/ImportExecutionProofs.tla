------------------------ MODULE ImportExecutionProofs ------------------------
(***************************************************************************)
(* For every number of staging requests, workers, rows, retries and        *)
(* disturbances: staging leaves exactly the rows of one generation, the    *)
(* record of a row is written once, and an import ends with its job.       *)
(***************************************************************************)
EXTENDS ImportExecution, FiniteSetTheorems, WellFoundedInduction, TLAPS

-----------------------------------------------------------------------------
(* The least row of a slice, and the counts of rows.                         *)

Less == {p \in Nat \X Nat : p[1] < p[2]}

LEMMA LessWellFounded == IsWellFoundedOn(Less, Nat)
BY NatLessThanWellFounded DEF OpToRel, Less

LEMMA LeastIsMember ==
  ASSUME NEW S \in SUBSET Nat, S # {}
  PROVE  Min(S) \in S
<1>1. PICK x \in S : \A y \in S : ~ (<<y, x>> \in Less)
  BY LessWellFounded, WFMin
<1>2. \A y \in S : x <= y
  <2> SUFFICES ASSUME NEW y \in S, y < x PROVE FALSE
    OBVIOUS
  <2>1. <<y, x>> \in Nat \X Nat /\ <<y, x>>[1] < <<y, x>>[2]
    OBVIOUS
  <2> QED BY <1>1, <2>1, Zenon DEF Less
<1> QED BY <1>2 DEF Min

LEMMA Bounds ==
  ASSUME ImportExecutionAssumption
  PROVE  /\ N \in Nat /\ N # 0 /\ Budget \in Nat /\ MaxJobs \in Nat
         /\ Gens \subseteq Nat /\ Numbers \subseteq Nat /\ Jobs \subseteq Nat
         /\ 0 \notin Gens /\ 0 \notin Jobs /\ 1 \in Numbers /\ 1 \in Jobs
BY DEF ImportExecutionAssumption, Gens, Numbers, Jobs

\* What is counted is finite.
LEMMA CountsAreNatural ==
  ASSUME ImportExecutionAssumption
  PROVE  /\ \A S : Cardinality(Having(S)) \in Nat
         /\ \A S \in SUBSET Numbers : Cardinality(S) \in Nat
<1>1. IsFiniteSet(Gens) /\ IsFiniteSet(Numbers)
  BY Bounds, FS_Interval DEF Gens, Numbers
<1>2. IsFiniteSet(Gens \X Numbers)
  BY <1>1, FS_Product
<1>3. ASSUME NEW S PROVE Cardinality(Having(S)) \in Nat
  <2>1. Having(S) \in SUBSET (Gens \X Numbers)
    BY DEF Having
  <2> QED BY <1>2, <2>1, FS_Subset, FS_CardinalityType
<1>4. ASSUME NEW S \in SUBSET Numbers PROVE Cardinality(S) \in Nat
  BY <1>1, FS_Subset, FS_CardinalityType
<1> QED BY <1>3, <1>4

\* The rows are exactly those of the last generation.
RowsAreExact == \A g \in Gens, n \in Numbers : rows[g][n] # "absent" <=> g = imp.gen

LEMMA ExactRows ==
  ASSUME rows \in [Gens -> [Numbers -> RowStates]]
  PROVE  /\ Having(RowStates \ {"absent"}) = {imp.gen} \X Numbers => RowsAreExact
         /\ RowsAreExact /\ imp.gen \in Gens =>
              Having(RowStates \ {"absent"}) = {imp.gen} \X Numbers
<1>1. \A g \in Gens, n \in Numbers :
        <<g, n>> \in Having(RowStates \ {"absent"}) <=> rows[g][n] # "absent"
  BY DEF Having
<1>2. ASSUME Having(RowStates \ {"absent"}) = {imp.gen} \X Numbers PROVE RowsAreExact
  BY <1>1, <1>2 DEF RowsAreExact
<1>3. ASSUME RowsAreExact, imp.gen \in Gens
      PROVE  Having(RowStates \ {"absent"}) = {imp.gen} \X Numbers
  <2>1. ASSUME NEW r \in Having(RowStates \ {"absent"}) PROVE r \in {imp.gen} \X Numbers
    <3>1. r \in Gens \X Numbers /\ rows[r[1]][r[2]] # "absent"
      BY DEF Having
    <3> QED BY <1>3, <3>1 DEF RowsAreExact
  <2>2. ASSUME NEW r \in {imp.gen} \X Numbers PROVE r \in Having(RowStates \ {"absent"})
    <3>1. r = <<imp.gen, r[2]>> /\ r[2] \in Numbers
      OBVIOUS
    <3> QED BY <1>1, <1>3, <3>1 DEF RowsAreExact
  <2> QED BY <2>1, <2>2
<1> QED BY <1>2, <1>3

RowsFollow ==
  /\ StagedRowsAreExact /\ imp.state \notin {"absent", "staging", "failed"} =>
       RowsAreExact /\ imp.total = N
  /\ RowsAreExact /\ imp.total = N /\ imp.gen \in Gens => StagedRowsAreExact

LEMMA ExactRowsNow == TypeOK => RowsFollow
BY ExactRows DEF TypeOK, RowsFollow, StagedRowsAreExact

LEMMA ExactRowsNext == TypeOK' => RowsFollow'
BY ExactRowsNow, PTL

LEMMA RowWrites ==
  ASSUME rows \in [Gens -> [Numbers -> RowStates]],
         NEW g \in Gens, NEW n \in Numbers, NEW x \in RowStates,
         rows' = [rows EXCEPT ![g][n] = x]
  PROVE  /\ rows' \in [Gens -> [Numbers -> RowStates]]
         /\ \A h \in Gens, m \in Numbers :
              rows'[h][m] = IF h = g /\ m = n THEN x ELSE rows[h][m]
OBVIOUS

-----------------------------------------------------------------------------
(* Staging. *)

\* As long as the import has not been started no job is under way, so that only what
\* staging itself works on can be wrong.
LEMMA UnstartedStep ==
  ASSUME ImportExecutionAssumption,
         IInv, imp.state \in Unstarted, UNCHANGED <<execution, file>>,
         TypeOK', imp'.state \in Unstarted \ {"absent"}, imp'.job = 0, imp'.gen \in Gens,
         \A g \in Gens, n \in Numbers :
           /\ rows'[g][n] \in {"absent", "pending", "unusable"}
           /\ g > imp'.gen => rows'[g][n] = "absent",
         imp'.state = "preview_ready" => RowsAreExact' /\ imp'.total = N,
         \A s \in Stagers : StagerOK(s)'
  PROVE  IInv'
<1>1. \A j \in Jobs : job[j].state \notin {"queued", "running"}
  BY DEF IInv, ImportEndsWithJob, Unstarted, Finished
<1>2. UNCHANGED <<applied, job, worker, file>>
  BY DEF execution
<1>3. ImportOK'
  BY Bounds DEF ImportOK
<1>4. RowsAppliedOnce'
  <2>1. \A g \in Gens, n \in Numbers : rows[g][n] # "succeeded" /\ rows'[g][n] # "succeeded"
    BY DEF IInv, ImportOK
  <2> QED BY <1>2, <2>1 DEF IInv, RowsAppliedOnce
<1>5. StagedRowsAreExact'
  <2>1. CASE imp'.state = "preview_ready"
    BY <2>1, ExactRowsNext DEF RowsFollow
  <2>2. CASE imp'.state # "preview_ready"
    BY <2>2 DEF StagedRowsAreExact, Unstarted
  <2> QED BY <2>1, <2>2
<1>6. ImportEndsWithJob'
  BY <1>1, <1>2 DEF ImportEndsWithJob, Unstarted
<1>7. ASSUME NEW w \in Workers PROVE WorkerOK(w)'
  <2>1. worker[w].phase # "idle" => ~Owns(w)'
    BY <1>1, <1>2 DEF IInv, WorkerOK, Owns
  <2> QED BY <1>2, <2>1 DEF IInv, WorkerOK
<1> QED BY <1>3, <1>4, <1>5, <1>6, <1>7 DEF IInv

StagingStep(s) ==
  ClaimPrepare(s) \/ InsertRow(s) \/ ParseFails(s) \/ FailPrepare(s) \/ FinishPrepare(s)
    \/ StagerCrash(s)

LEMMA StagerMoves ==
  ASSUME ImportExecutionAssumption,
         IInv, NEW s \in Stagers, StagingStep(s)
  PROVE  /\ stager' \in [Stagers -> Stager]
         /\ \A t \in Stagers : \/ stager'[t] = stager[t]
                               \/ stager'[t].phase = "idle"
                               \/ /\ stager[t].phase # "idle"
                                  /\ stager'[t].gen = stager[t].gen
                               \/ ClaimPrepare(s) /\ stager'[t].gen = imp.gen + 1
<1>0. /\ stager \in [Stagers -> Stager] /\ stager[s] \in Stager
      /\ 1 \in 1..(N + 1) /\ imp.gen \in {0} \cup Gens
  BY Bounds DEF IInv, TypeOK, Import
<1>1. IdleStager \in Stager /\ IdleStager.phase = "idle"
  BY <1>0 DEF IdleStager, Stager
<1>2. CASE ClaimPrepare(s)
  <2> DEFINE k == [phase |-> "insert", gen |-> imp.gen + 1, next |-> 1]
  <2>1. k \in Stager /\ k.gen = imp.gen + 1
    BY <1>0, <1>2 DEF ClaimPrepare, Stager
  <2>2. stager' = [stager EXCEPT ![s] = k]
    BY <1>2 DEF ClaimPrepare
  <2> HIDE DEF k
  <2> QED BY <1>0, <1>2, <2>1, <2>2
<1>3. CASE InsertRow(s) \/ ParseFails(s)
  <2>1. stager[s].phase # "idle"
    BY <1>3 DEF InsertRow, ParseFails
  <2>2. CASE InsertRow(s) /\ ~(stager[s].next > N)
    <3>1. PICK m \in 1..(N + 1) : m = stager[s].next + 1
      BY <1>0, <2>2, Bounds DEF Stager
    <3> DEFINE k == [stager[s] EXCEPT !.next = m]   l == [stager[s] EXCEPT !.phase = "fail"]
    <3>2. k \in Stager /\ k.gen = stager[s].gen /\ l \in Stager /\ l.gen = stager[s].gen
      BY <1>0 DEF Stager
    <3>3. stager' = [stager EXCEPT ![s] = k] \/ stager' = [stager EXCEPT ![s] = l]
      BY <1>0, <2>2, <3>1 DEF InsertRow
    <3> HIDE DEF k, l
    <3> QED BY <1>0, <2>1, <3>2, <3>3
  <2>3. CASE ParseFails(s) \/ (InsertRow(s) /\ stager[s].next > N)
    <3> DEFINE k == [stager[s] EXCEPT !.phase = "fail"]   l == [stager[s] EXCEPT !.phase = "finish"]
    <3>1. k \in Stager /\ k.gen = stager[s].gen /\ l \in Stager /\ l.gen = stager[s].gen
      BY <1>0 DEF Stager
    <3>2. stager' = [stager EXCEPT ![s] = k] \/ stager' = [stager EXCEPT ![s] = l]
      BY <1>0, <2>3 DEF InsertRow, ParseFails
    <3> HIDE DEF k, l
    <3> QED BY <1>0, <2>1, <3>1, <3>2
  <2> QED BY <1>3, <2>2, <2>3
<1>4. CASE FailPrepare(s) \/ FinishPrepare(s) \/ StagerCrash(s)
  <2>1. stager' = [stager EXCEPT ![s] = IdleStager]
    BY <1>4 DEF FailPrepare, FinishPrepare, StagerCrash
  <2> QED BY <1>0, <1>1, <2>1
<1> QED BY <1>2, <1>3, <1>4 DEF StagingStep

\* What staging writes to the import: its first claim, a failure, or its end.
LEMMA StagingWrites ==
  ASSUME ImportExecutionAssumption,
         IInv, NEW s \in Stagers, StagingStep(s), imp' # imp
  PROVE  /\ imp.state \in Unstarted
         /\ imp' \in Import /\ (imp'.live => imp'.state = "staging" /\ imp'.owner # None)
         /\ imp'.state \in Unstarted \ {"absent"} /\ imp'.job = 0
         /\ imp'.gen = imp.gen \/ (ClaimPrepare(s) /\ imp'.gen = imp.gen + 1)
         /\ imp'.gen \in Gens
         /\ imp'.state = "preview_ready" => FinishPrepare(s) /\ imp'.total = N
<1>0. /\ imp \in Import /\ None \notin Stagers /\ (imp.state \in Unstarted => imp.job = 0)
      /\ (imp.gen = 0 => imp.state = "absent")
  BY DEF ImportExecutionAssumption, IInv, TypeOK, ImportOK, Import, Unstarted
<1>1. CASE ClaimPrepare(s)
  BY <1>0, <1>1 DEF ClaimPrepare, TakesOver, Unstarted, Import, IInv, ImportOK
<1>2. CASE FailPrepare(s)
  BY <1>0, <1>2 DEF FailPrepare, OwnsStaging, Unstarted, Import
<1>3. CASE FinishPrepare(s)
  <2>1. PICK c \in Nat : c = Cardinality(file.unusable)
    BY CountsAreNatural DEF IInv, TypeOK
  <2>2. imp.state = "staging" /\ N \in Nat
    BY <1>3, Bounds DEF FinishPrepare, HoldsStaging, OwnsStaging
  <2>3. imp' = [imp EXCEPT !.state = "preview_ready", !.owner = None, !.live = FALSE,
                           !.total = N, !.rejected = c]
    BY <1>3, <2>1 DEF FinishPrepare
  <2> QED BY <1>0, <1>3, <2>2, <2>3 DEF Unstarted, Import
<1> QED BY <1>1, <1>2, <1>3 DEF StagingStep, InsertRow, ParseFails, StagerCrash

\* The last transaction of staging keeps the rows of its own generation.
LEMMA FinishRows ==
  ASSUME ImportExecutionAssumption,
         IInv, NEW s \in Stagers, FinishPrepare(s), imp' # imp \/ rows' # rows
  PROVE  /\ OwnsStaging(s) /\ stager[s].gen \in Gens
         /\ rows' \in [Gens -> [Numbers -> RowStates]]
         /\ \A g \in Gens, n \in Numbers : rows'[g][n] \in {rows[g][n], "absent"}
         /\ RowsAreExact'
<1>0. rows \in [Gens -> [Numbers -> RowStates]] /\ stager[s] \in Stager /\ imp \in Import
  BY DEF IInv, TypeOK
<1>1. /\ HoldsStaging(s) /\ stager[s].phase = "finish" /\ rows' = KeptRows(stager[s].gen)
      /\ \A n \in Numbers : rows[stager[s].gen][n] # "absent"
  BY DEF FinishPrepare
<1>2. stager[s].gen = imp.gen /\ stager[s].gen \in Gens
  BY <1>0, <1>1, Bounds DEF IInv, StagerOK, HoldsStaging, OwnsStaging, Stager, Gens, Import
<1>3. "absent" \in RowStates
  BY DEF RowStates
<1>4. /\ rows' \in [Gens -> [Numbers -> RowStates]]
      /\ \A g \in Gens, n \in Numbers :
           rows'[g][n] = IF g < imp.gen THEN "absent" ELSE rows[g][n]
  BY <1>0, <1>1, <1>2, <1>3 DEF KeptRows, MapRows
<1>5. imp'.gen = imp.gen
  BY <1>0 DEF FinishPrepare, Import
<1>6. ASSUME NEW g \in Gens, NEW n \in Numbers PROVE rows'[g][n] # "absent" <=> g = imp'.gen
  <2>1. g \in Nat /\ imp.gen \in Nat
    BY <1>2, Bounds
  <2>2. CASE g > imp.gen
    BY <1>4, <1>5, <2>1, <2>2 DEF IInv, ImportOK
  <2>3. CASE g <= imp.gen
    BY <1>1, <1>2, <1>4, <1>5, <2>1, <2>3
  <2> QED BY <2>1, <2>2, <2>3
<1> QED BY <1>1, <1>2, <1>4, <1>6 DEF HoldsStaging, RowsAreExact

\* What staging writes to the rows: usable and unusable ones of the generation that
\* holds the import, or it takes rows away.
LEMMA StagingRows ==
  ASSUME ImportExecutionAssumption,
         IInv, NEW s \in Stagers, StagingStep(s), rows' # rows
  PROVE  /\ OwnsStaging(s) /\ stager[s].gen \in Gens
         /\ rows' \in [Gens -> [Numbers -> RowStates]]
         /\ \A g \in Gens, n \in Numbers :
              \/ rows'[g][n] = rows[g][n]
              \/ g = imp.gen /\ rows'[g][n] \in {"pending", "unusable"}
              \/ rows'[g][n] = "absent"
<1>0. rows \in [Gens -> [Numbers -> RowStates]] /\ stager[s] \in Stager /\ imp \in Import
  BY DEF IInv, TypeOK
<1>1. CASE InsertRow(s)
  <2>1. HoldsStaging(s) /\ stager[s].phase = "insert" /\ ~(stager[s].next > N)
    BY <1>1 DEF InsertRow
  <2>2. stager[s].gen = imp.gen /\ stager[s].gen \in Gens /\ stager[s].next \in Numbers
    BY <1>0, <2>1, Bounds DEF IInv, StagerOK, HoldsStaging, OwnsStaging, Stager, Numbers, Gens, Import
  <2>3. PICK x \in {"pending", "unusable"} : rows' = [rows EXCEPT ![stager[s].gen][stager[s].next] = x]
    BY <1>1, <2>1 DEF InsertRow
  <2>4. x \in RowStates
    BY DEF RowStates
  <2> QED BY <1>0, <1>1, <2>1, <2>2, <2>3, <2>4, RowWrites DEF HoldsStaging
<1>2. CASE FailPrepare(s)
  <2>1. OwnsStaging(s) /\ stager[s].phase = "fail"
        /\ rows' = [rows EXCEPT ![stager[s].gen] = [n \in Numbers |-> "absent"]]
    BY <1>2 DEF FailPrepare
  <2>2. stager[s].gen \in Gens
    BY <1>0, <2>1, Bounds DEF IInv, StagerOK, OwnsStaging, Stager, Gens, Import
  <2>3. [n \in Numbers |-> "absent"] \in [Numbers -> RowStates]
    BY DEF RowStates
  <2> QED BY <1>0, <2>1, <2>2, <2>3
<1>3. CASE FinishPrepare(s)
  BY <1>3, FinishRows
<1> QED BY <1>1, <1>2, <1>3 DEF StagingStep, ClaimPrepare, ParseFails, StagerCrash

\* Steps that leave the import and its rows as they are.
LEMMA IdleStep ==
  ASSUME IInv, UNCHANGED <<imp, rows, execution, file>>, TypeOK',
         \A s \in Stagers : StagerOK(s)'
  PROVE  IInv'
<1>1. UNCHANGED <<applied, job, worker, file, imp, rows>>
  BY DEF execution
<1>2. ImportOK' /\ RowsAppliedOnce' /\ ImportEndsWithJob' /\ StagedRowsAreExact'
  BY <1>1 DEF IInv, ImportOK, RowsAppliedOnce, ImportEndsWithJob, StagedRowsAreExact, Having
<1>3. \A w \in Workers : WorkerOK(w)'
  BY <1>1 DEF IInv, WorkerOK, Owns
<1> QED BY <1>2, <1>3 DEF IInv

LEMMA StagingKeeps ==
  ASSUME ImportExecutionAssumption,
         IInv, NEW s \in Stagers, StagingStep(s)
  PROVE  IInv'
<1>0. TypeOK /\ imp.gen \in {0} \cup Gens
  BY DEF IInv, TypeOK, Import
<1>01. imp.gen \in Nat /\ \A t \in Stagers : stager[t].gen \in Nat
  <2>1. {0} \cup Gens \subseteq Nat
    BY Bounds
  <2>2. ASSUME NEW t \in Stagers PROVE stager[t].gen \in {0} \cup Gens
    BY <1>0 DEF TypeOK, Stager
  <2> QED BY <1>0, <2>1, <2>2
<1>1. UNCHANGED <<execution, outside>> /\ budget' \in 0..Budget
  <2>1. UNCHANGED <<execution, outside>> /\ (UNCHANGED budget \/ Spend)
    BY DEF StagingStep, ClaimPrepare, InsertRow, ParseFails, FailPrepare, FinishPrepare, StagerCrash
  <2> QED BY <1>0, <2>1, Bounds DEF TypeOK, Spend
<1>2. TypeOK'
  BY <1>0, <1>1, StagerMoves, StagingWrites, StagingRows DEF TypeOK, execution, outside
<1>3. ASSUME NEW t \in Stagers PROVE StagerOK(t)'
  <2>1. imp'.gen = imp.gen \/ (ClaimPrepare(s) /\ imp'.gen = imp.gen + 1)
    BY StagingWrites
  <2>2. ClaimPrepare(s) => imp'.gen = imp.gen + 1
    BY DEF ClaimPrepare
  <2>3. imp.gen + 1 \in 1..(imp.gen + 1)
    BY <1>01
  <2>4. \/ stager'[t] = stager[t]
        \/ stager'[t].phase = "idle"
        \/ stager[t].phase # "idle" /\ stager'[t].gen = stager[t].gen
        \/ ClaimPrepare(s) /\ stager'[t].gen = imp.gen + 1
    BY StagerMoves
  <2> QED BY <1>01, <2>1, <2>2, <2>3, <2>4 DEF IInv, StagerOK
<1>4. CASE imp' = imp /\ rows' = rows
  BY <1>1, <1>2, <1>3, <1>4, IdleStep DEF outside
<1>5. CASE ~(imp' = imp /\ rows' = rows)
  <2>1. imp.state \in Unstarted /\ imp.job = 0
    BY <1>5, StagingWrites, StagingRows DEF OwnsStaging, Unstarted, IInv, ImportOK
  <2>2. /\ imp'.state \in Unstarted \ {"absent"} /\ imp'.job = 0 /\ imp'.gen \in Gens
        /\ imp'.state = "preview_ready" => imp' # imp
    <3>1. CASE imp' # imp
      BY <3>1, StagingWrites
    <3>2. CASE imp' = imp
      <4>1. imp.state = "staging" /\ imp.gen \in Gens
        BY <1>5, <3>2, StagingRows DEF OwnsStaging
      <4> QED BY <2>1, <3>2, <4>1 DEF Unstarted
    <3> QED BY <3>1, <3>2
  <2>3. imp'.gen >= imp.gen
    BY <1>01, StagingWrites
  <2>4. ASSUME NEW g \in Gens, NEW n \in Numbers
        PROVE  /\ rows'[g][n] \in {"absent", "pending", "unusable"}
               /\ g > imp'.gen => rows'[g][n] = "absent"
    <3>1. /\ rows[g][n] \in {"absent", "pending", "unusable"}
          /\ g > imp.gen => rows[g][n] = "absent"
      BY <2>1 DEF IInv, ImportOK
    <3>2. \/ rows'[g][n] = rows[g][n]
          \/ g = imp.gen /\ rows'[g][n] \in {"pending", "unusable"}
          \/ rows'[g][n] = "absent"
      BY StagingRows
    <3>3. g \in Nat /\ imp'.gen \in Nat
      BY <2>2, Bounds
    <3> QED BY <1>01, <2>3, <3>1, <3>2, <3>3
  <2>5. imp'.state = "preview_ready" => RowsAreExact' /\ imp'.total = N
    <3>1. imp'.state = "preview_ready" => FinishPrepare(s) /\ imp'.total = N
      BY <2>2, StagingWrites
    <3> QED BY <1>5, <3>1, FinishRows
  <2> QED BY <1>1, <1>2, <1>3, <2>1, <2>2, <2>4, <2>5, UnstartedStep DEF outside
<1> QED BY <1>4, <1>5

-----------------------------------------------------------------------------
(* Execution. *)

WorkerPhases ==
  {"idle", "claim", "rows", "finalize", "refresh", "complete", "settle"}

\* Worker w goes to phase ph with the job it has; the other workers stay.
Goes(w, ph) ==
  /\ worker' \in [Workers -> Worker]
  /\ \A x \in Workers \ {w} : worker'[x] = worker[x]
  /\ worker'[w].phase = ph /\ worker'[w].job = worker[w].job

LEMMA WorkerMoves ==
  ASSUME TypeOK, NEW w \in Workers
  PROVE  /\ \A ph \in WorkerPhases :
              Goto(w, ph) => /\ Goes(w, ph) /\ worker'[w].slice = worker[w].slice
                             /\ worker'[w].outcome = worker[w].outcome
         /\ \A v \in Verdicts : Throw(w, v) => Goes(w, "settle")
         /\ \A n : NextRow(w, n) => Goes(w, "rows")
         /\ worker' = [worker EXCEPT ![w] = IdleWorker] =>
              /\ worker' \in [Workers -> Worker] /\ worker'[w].phase = "idle"
              /\ \A x \in Workers \ {w} : worker'[x] = worker[x]
<1>0. worker \in [Workers -> Worker] /\ worker[w] \in Worker
  BY DEF TypeOK
<1>1. ASSUME NEW ph \in WorkerPhases, Goto(w, ph)
      PROVE  /\ Goes(w, ph) /\ worker'[w].slice = worker[w].slice
             /\ worker'[w].outcome = worker[w].outcome
  <2> DEFINE k == [worker[w] EXCEPT !.phase = ph]
  <2>1. /\ k \in Worker /\ k.phase = ph /\ k.job = worker[w].job
        /\ k.slice = worker[w].slice /\ k.outcome = worker[w].outcome
    BY <1>0 DEF Worker, WorkerPhases
  <2>2. worker' = [worker EXCEPT ![w] = k]
    BY <1>0, <1>1 DEF Goto
  <2> HIDE DEF k
  <2> QED BY <1>0, <2>1, <2>2 DEF Goes
<1>2. ASSUME NEW v \in Verdicts, Throw(w, v) PROVE Goes(w, "settle")
  <2> DEFINE k == [worker[w] EXCEPT !.phase = "settle", !.verdict = v, !.slice = {},
                                    !.outcome = "none"]
  <2>1. k \in Worker /\ k.phase = "settle" /\ k.job = worker[w].job
    BY <1>0 DEF Worker
  <2>2. worker' = [worker EXCEPT ![w] = k]
    BY <1>0, <1>2 DEF Throw
  <2> HIDE DEF k
  <2> QED BY <1>0, <2>1, <2>2 DEF Goes
<1>3. ASSUME NEW n, NextRow(w, n) PROVE Goes(w, "rows")
  <2> DEFINE k == [worker[w] EXCEPT !.phase = "rows", !.slice = worker[w].slice \ {n},
                                    !.outcome = "none"]
  <2>1. k \in Worker /\ k.phase = "rows" /\ k.job = worker[w].job
    BY <1>0 DEF Worker
  <2>2. worker' = [worker EXCEPT ![w] = k]
    BY <1>0, <1>3 DEF NextRow, Worker
  <2> HIDE DEF k
  <2> QED BY <1>0, <2>1, <2>2 DEF Goes
<1>4. IdleWorker \in Worker /\ IdleWorker.phase = "idle"
  BY DEF IdleWorker, Worker, Verdicts
<1>5. ASSUME worker' = [worker EXCEPT ![w] = IdleWorker]
      PROVE  /\ worker' \in [Workers -> Worker] /\ worker'[w].phase = "idle"
             /\ \A x \in Workers \ {w} : worker'[x] = worker[x]
  BY <1>0, <1>4, <1>5
<1> QED BY <1>1, <1>2, <1>3, <1>5

\* A worker that moves on holds up nobody: what it leaves behind is right when it is
\* not about to finalize a row or to complete its job.
LEMMA WorkerGoesOn ==
  ASSUME IInv, NEW w \in Workers, \E ph \in WorkerPhases : Goes(w, ph),
         worker[w].phase # "idle" \/ worker'[w].phase = "idle",
         worker'[w].phase \notin {"finalize", "complete"},
         file' = file,
         \A x \in Workers \ {w} : Owns(x)' => Owns(x),
         imp.state \in Finished => imp'.state \in Finished
  PROVE  \A x \in Workers : WorkerOK(x)'
<1>1. ASSUME NEW x \in Workers \ {w} PROVE WorkerOK(x)'
  BY DEF IInv, WorkerOK, Goes
<1>2. WorkerOK(w)'
  BY DEF IInv, WorkerOK, Goes
<1> QED BY <1>1, <1>2

LEMMA WorkerStops ==
  ASSUME IInv, NEW w \in Workers, worker' = [worker EXCEPT ![w] = IdleWorker], file' = file,
         \A x \in Workers \ {w} : worker[x].phase # "idle" /\ Owns(x)' => Owns(x),
         imp.state \in Finished => imp'.state \in Finished
  PROVE  \A x \in Workers : WorkerOK(x)'
<1>0. /\ worker'[w].phase = "idle" /\ \A x \in Workers \ {w} : worker'[x] = worker[x]
  BY WorkerMoves DEF IInv
<1>1. ASSUME NEW x \in Workers \ {w} PROVE WorkerOK(x)'
  BY <1>0 DEF IInv, WorkerOK
<1>2. WorkerOK(w)'
  BY <1>0 DEF WorkerOK
<1> QED BY <1>1, <1>2

\* The rows stay exact as long as none appears or goes.
LEMMA ExecutionStep ==
  ASSUME IInv, TypeOK', UNCHANGED <<stager, file>>,
         imp'.gen = imp.gen, imp'.total = imp.total,
         \A g \in Gens, n \in Numbers : rows'[g][n] = "absent" <=> rows[g][n] = "absent",
         imp'.job = 0 <=> imp'.state \in Unstarted,
         imp'.state \in Unstarted => imp'.state = imp.state /\ rows' = rows,
         imp.state \in {"absent", "staging", "failed"} => imp'.state = imp.state,
         RowsAppliedOnce', ImportEndsWithJob', \A w \in Workers : WorkerOK(w)'
  PROVE  IInv'
<1>1. ImportOK'
  BY DEF IInv, ImportOK, Unstarted
<1>2. StagedRowsAreExact'
  <2>1. CASE imp.state \in {"absent", "staging", "failed"}
    BY <2>1 DEF StagedRowsAreExact
  <2>2. CASE imp.state \notin {"absent", "staging", "failed"}
    <3>1. RowsAreExact /\ imp.total = N /\ imp.gen \in Gens
      BY <2>2, ExactRowsNow DEF RowsFollow, IInv, ImportOK, TypeOK, Import
    <3>2. RowsAreExact'
      BY <3>1 DEF RowsAreExact
    <3> QED BY <3>1, <3>2, ExactRowsNext DEF RowsFollow
  <2> QED BY <2>1, <2>2
<1>3. \A s \in Stagers : StagerOK(s)'
  BY DEF IInv, StagerOK
<1> QED BY <1>1, <1>2, <1>3 DEF IInv

\* The records stay as they are when no row comes to succeed, or ceases to.
LEMMA NoRowSucceeds ==
  ASSUME IInv, UNCHANGED <<file, applied>>,
         \A g \in Gens, n \in Numbers : rows'[g][n] = "succeeded" <=> rows[g][n] = "succeeded"
  PROVE  RowsAppliedOnce'
<1>1. ASSUME NEW n \in Numbers
      PROVE  (\E g \in Gens : rows'[g][n] = "succeeded") <=> (\E g \in Gens : rows[g][n] = "succeeded")
  OBVIOUS
<1> QED BY <1>1 DEF IInv, RowsAppliedOnce

\* Starting or retrying an import finds none of its jobs under way, and adds the next.
LEMMA EnqueueKeeps ==
  ASSUME ImportExecutionAssumption,
         IInv, NEW i \in Import, Enqueue(i),
         i.gen = imp.gen, i.total = imp.total, ~i.live,
         imp.state \notin {"absent", "staging", "failed"},
         \A j \in Jobs : job[j].state \notin {"queued", "running"},
         rows' \in [Gens -> [Numbers -> RowStates]],
         \A g \in Gens, n \in Numbers :
           /\ rows'[g][n] = "absent" <=> rows[g][n] = "absent"
           /\ rows'[g][n] = "succeeded" <=> rows[g][n] = "succeeded"
  PROVE  IInv'
<1>0. /\ NextJob \in Jobs /\ job \in [Jobs -> Job] /\ job[NextJob] \in Job
      /\ job[NextJob].holder = None /\ NextJob # 0
  BY Bounds DEF Enqueue, IInv, TypeOK
<1>1. UNCHANGED <<applied, stager, worker, file, allowed, pinned, budget>>
  BY DEF Enqueue, staging, outside
<1>2. /\ imp' \in Import /\ imp'.state = "queued" /\ imp'.job = NextJob
      /\ imp'.gen = imp.gen /\ imp'.total = imp.total /\ ~imp'.live
  BY <1>0 DEF Enqueue, Import
<1>3. /\ job' \in [Jobs -> Job]
      /\ job'[NextJob].state = "queued" /\ job'[NextJob].holder = None
      /\ \A j \in Jobs \ {NextJob} : job'[j] = job[j]
  <2> DEFINE k == [job[NextJob] EXCEPT !.state = "queued"]
  <2>1. k \in Job /\ k.state = "queued" /\ k.holder = None
    BY <1>0 DEF Job
  <2>2. job' = [job EXCEPT ![NextJob] = k]
    BY <1>0 DEF Enqueue
  <2> HIDE DEF k
  <2> QED BY <1>0, <2>1, <2>2
<1>4. TypeOK'
  BY <1>1, <1>2, <1>3 DEF IInv, TypeOK
<1>5. RowsAppliedOnce'
  BY <1>1, NoRowSucceeds
<1>6. ImportEndsWithJob'
  BY <1>2, <1>3 DEF ImportEndsWithJob
<1>7. ASSUME NEW w \in Workers PROVE WorkerOK(w)'
  <2>1. worker[w].phase # "idle" => ~Owns(w)'
    BY <1>1, <1>3 DEF IInv, WorkerOK, Owns
  <2> QED BY <1>1, <2>1 DEF IInv, WorkerOK
<1> QED BY <1>0, <1>1, <1>2, <1>4, <1>5, <1>6, <1>7, ExecutionStep DEF Unstarted

LEMMA StartKeeps ==
  ASSUME ImportExecutionAssumption,
         IInv, StartImport
  PROVE  IInv'
<1>1. imp \in Import /\ imp.state = "preview_ready" /\ ~imp.live /\ rows' = rows
  BY DEF IInv, TypeOK, StartImport
<1>2. \A j \in Jobs : job[j].state \notin {"queued", "running"}
  BY <1>1 DEF IInv, ImportEndsWithJob, Finished
<1> QED BY <1>1, <1>2, EnqueueKeeps DEF StartImport, IInv, TypeOK

LEMMA RetryKeeps ==
  ASSUME ImportExecutionAssumption,
         IInv, RetryImport
  PROVE  IInv'
<1>1. /\ imp \in Import /\ imp.state \in {"dead_letter", "completed_with_errors"} /\ ~imp.live
      /\ rows \in [Gens -> [Numbers -> RowStates]]
  BY DEF IInv, TypeOK, RetryImport
<1>2. \A j \in Jobs : job[j].state \notin {"queued", "running"}
  BY <1>1 DEF IInv, ImportEndsWithJob, RetryImport, PriorJobSettled
<1>3. PICK a \in Nat, r \in Nat :
        a = Cardinality(Having({"succeeded"})) /\ r = Cardinality(Having({"unusable"}))
  BY CountsAreNatural
<1> DEFINE i == [imp EXCEPT !.accepted = a, !.rejected = r]
<1>4. i \in Import /\ i.gen = imp.gen /\ i.total = imp.total /\ ~i.live
  BY <1>1 DEF Import
<1>5. Enqueue(i)
  BY <1>3 DEF RetryImport
<1>6. rows' = [g \in Gens |-> [n \in Numbers |->
                IF Reset(rows[g][n]) THEN "pending" ELSE rows[g][n]]]
  BY DEF RetryImport, MapRows
<1>7. \A x \in RowStates : Reset(x) => x \notin {"absent", "succeeded"}
  BY DEF Reset, Processing
<1>8. "pending" \in RowStates
  BY DEF RowStates
<1>9. rows' \in [Gens -> [Numbers -> RowStates]]
  BY <1>1, <1>6, <1>8
<1>10. ASSUME NEW g \in Gens, NEW n \in Numbers
       PROVE  /\ rows'[g][n] = "absent" <=> rows[g][n] = "absent"
              /\ rows'[g][n] = "succeeded" <=> rows[g][n] = "succeeded"
  BY <1>1, <1>6, <1>7
<1> HIDE DEF i
<1> QED BY <1>1, <1>2, <1>4, <1>5, <1>9, <1>10, EnqueueKeeps

\* Steps that write no row: an import that has been started goes on.
LEMMA NoRowStep ==
  ASSUME IInv, TypeOK', UNCHANGED <<rows, applied, stager, file>>,
         imp'.gen = imp.gen, imp'.total = imp.total, imp'.job = imp.job,
         imp'.state \in Unstarted \/ imp.state \in Unstarted => imp'.state = imp.state,
         ImportEndsWithJob', \A w \in Workers : WorkerOK(w)'
  PROVE  IInv'
<1>1. RowsAppliedOnce'
  BY NoRowSucceeds
<1> QED BY <1>1, ExecutionStep DEF IInv, ImportOK, Unstarted

LEMMA ClaimDueKeeps ==
  ASSUME ImportExecutionAssumption,
         IInv, NEW w \in Workers, ClaimDue(w)
  PROVE  IInv'
<1>1. PICK j \in Jobs :
        /\ job[j].state = "queued" \/ (job[j].state = "running" /\ ~job[j].live)
        /\ job' = [job EXCEPT ![j] = [state |-> "running", attempts |-> job[j].attempts + 1,
                                      holder |-> w, live |-> TRUE]]
        /\ worker' = [worker EXCEPT ![w] = [IdleWorker EXCEPT
                        !.phase = "claim", !.job = j, !.attempts = job[j].attempts + 1]]
  BY DEF ClaimDue
<1>2. UNCHANGED <<imp, rows, applied, stager, file, allowed, pinned, budget>>
  BY DEF ClaimDue, staging, outside
<1>3. PICK a \in Nat : a = job[j].attempts + 1
  BY DEF IInv, TypeOK, Job
<1>4. /\ job' \in [Jobs -> Job]
      /\ job'[j].state = "running" /\ job'[j].holder = w
      /\ \A k \in Jobs \ {j} : job'[k] = job[k]
  <2> DEFINE k == [state |-> "running", attempts |-> a, holder |-> w, live |-> TRUE]
  <2>1. k \in Job /\ k.state = "running" /\ k.holder = w
    BY DEF Job
  <2>2. job' = [job EXCEPT ![j] = k]
    BY <1>1, <1>3
  <2> HIDE DEF k
  <2> QED BY <2>1, <2>2 DEF IInv, TypeOK
<1>5. /\ worker' \in [Workers -> Worker]
      /\ worker'[w].phase = "claim" /\ worker'[w].job = j
      /\ \A x \in Workers \ {w} : worker'[x] = worker[x]
  <2> DEFINE k == [IdleWorker EXCEPT !.phase = "claim", !.job = j, !.attempts = a]
  <2>1. k \in Worker /\ k.phase = "claim" /\ k.job = j
    BY DEF Worker, IdleWorker, Verdicts
  <2>2. worker' = [worker EXCEPT ![w] = k]
    BY <1>1, <1>3
  <2> HIDE DEF k
  <2> QED BY <2>1, <2>2 DEF IInv, TypeOK
<1>6. TypeOK'
  BY <1>2, <1>4, <1>5 DEF ImportExecutionAssumption, IInv, TypeOK
<1>7. ImportEndsWithJob'
  BY <1>1, <1>2, <1>4 DEF IInv, ImportEndsWithJob
<1>8. ASSUME NEW x \in Workers PROVE WorkerOK(x)'
  <2>1. CASE x = w
    BY <1>5, <2>1 DEF WorkerOK
  <2>2. CASE x # w
    <3>1. worker[x].phase # "idle" /\ Owns(x)' => Owns(x)
      BY <1>4, <1>5, <2>2 DEF IInv, WorkerOK, Owns
    <3> QED BY <1>2, <1>5, <2>2, <3>1 DEF IInv, WorkerOK
  <2> QED BY <2>1, <2>2
<1> QED BY <1>2, <1>6, <1>7, <1>8, NoRowStep

LEMMA RecoveredRows ==
  ASSUME IInv
  PROVE  \A g \in Gens, n \in Numbers :
           /\ Recovered[g][n] = IF rows[g][n] = "stale" THEN "pending" ELSE rows[g][n]
           /\ Recovered[g][n] \in RowStates
<1>1. rows \in [Gens -> [Numbers -> RowStates]] /\ "pending" \in RowStates
  BY DEF IInv, TypeOK, RowStates
<1> QED BY <1>1 DEF Recovered, MapRows

LEMMA ClaimSliceKeeps ==
  ASSUME IInv, NEW w \in Workers, ClaimSlice(w)
  PROVE  IInv'
<1>0. TypeOK /\ imp \in Import
  BY DEF IInv, TypeOK
<1>1. UNCHANGED <<applied, job, stager, file, allowed, pinned, budget>> /\ worker[w].phase = "claim"
  BY DEF ClaimSlice, staging, outside
<1>2. CASE imp' = imp /\ rows' = rows /\ Goes(w, "settle")
  <2>1. \A x \in Workers \ {w} : Owns(x)' => Owns(x)
    BY <1>1, <1>2 DEF Owns, Goes
  <2>2. \A x \in Workers : WorkerOK(x)'
    BY <1>1, <1>2, <2>1, WorkerGoesOn DEF WorkerPhases, Goes
  <2>3. TypeOK'
    BY <1>0, <1>1, <1>2 DEF TypeOK, Goes
  <2>4. ImportEndsWithJob'
    BY <1>1, <1>2 DEF IInv, ImportEndsWithJob
  <2> QED BY <1>1, <1>2, <2>2, <2>3, <2>4, NoRowStep
<1>3. CASE imp' = imp /\ rows' = rows /\ Goto(w, "complete") /\ imp.state \in Finished
  <2>1. Goes(w, "complete")
    BY <1>0, <1>3, WorkerMoves DEF WorkerPhases
  <2>2. ASSUME NEW x \in Workers PROVE WorkerOK(x)'
    BY <1>1, <1>3, <2>1 DEF IInv, WorkerOK, Goes
  <2>3. TypeOK'
    BY <1>0, <1>1, <1>3, <2>1 DEF TypeOK, Goes
  <2>4. ImportEndsWithJob'
    BY <1>1, <1>3 DEF IInv, ImportEndsWithJob
  <2> QED BY <1>1, <1>3, <2>2, <2>3, <2>4, NoRowStep
<1>4. CASE \E S \in SUBSET Numbers :
             /\ Owns(w) /\ imp.state \in {"queued", "running"}
             /\ S = Slice(Recovered, imp.gen)
             /\ imp' = [imp EXCEPT !.state = "running"]
             /\ rows' = MapRows(LAMBDA g, n : IF g = imp.gen /\ n \in S
                                                THEN "processing" ELSE Recovered[g][n])
             /\ worker' = [worker EXCEPT ![w].phase = "rows", ![w].slice = S]
  <2>1. PICK S \in SUBSET Numbers :
             /\ Owns(w) /\ imp.state \in {"queued", "running"}
             /\ S = Slice(Recovered, imp.gen)
             /\ imp' = [imp EXCEPT !.state = "running"]
             /\ rows' = MapRows(LAMBDA g, n : IF g = imp.gen /\ n \in S
                                                THEN "processing" ELSE Recovered[g][n])
             /\ worker' = [worker EXCEPT ![w].phase = "rows", ![w].slice = S]
    BY <1>4
  <2>2. /\ imp' \in Import /\ imp'.state = "running" /\ imp'.gen = imp.gen /\ imp'.job = imp.job
        /\ imp'.total = imp.total /\ imp'.live = imp.live
    BY <1>0, <2>1 DEF Import
  <2>3. Goes(w, "rows")
    <3> DEFINE k == [worker[w] EXCEPT !.phase = "rows", !.slice = S]
    <3>1. k \in Worker /\ k.phase = "rows" /\ k.job = worker[w].job
      BY <1>0 DEF TypeOK, Worker
    <3>2. worker' = [worker EXCEPT ![w] = k]
      BY <1>0, <2>1 DEF TypeOK
    <3> HIDE DEF k
    <3> QED BY <1>0, <3>1, <3>2 DEF TypeOK, Goes
  <2>4. /\ rows' \in [Gens -> [Numbers -> RowStates]]
        /\ \A g \in Gens, n \in Numbers :
             rows'[g][n] = IF g = imp.gen /\ n \in S THEN "processing"
                           ELSE IF rows[g][n] = "stale" THEN "pending" ELSE rows[g][n]
    <3>1. rows' = [g \in Gens |-> [n \in Numbers |->
                    IF g = imp.gen /\ n \in S THEN "processing" ELSE Recovered[g][n]]]
      BY <2>1 DEF MapRows
    <3>2. rows' \in [Gens -> [Numbers -> RowStates]]
      BY <3>1, RecoveredRows DEF RowStates
    <3> QED BY <3>1, <3>2, RecoveredRows
  \* Only pending rows are claimed.
  <2>5. \A n \in S : imp.gen \in Gens => rows[imp.gen][n] \in {"pending", "stale"}
    BY <2>1, RecoveredRows DEF Slice
  <2>6. \A g \in Gens, n \in Numbers :
          /\ rows'[g][n] = "absent" <=> rows[g][n] = "absent"
          /\ rows'[g][n] = "succeeded" <=> rows[g][n] = "succeeded"
    BY <2>4, <2>5
  <2>7. TypeOK'
    BY <1>0, <1>1, <2>1, <2>2, <2>3, <2>4 DEF TypeOK, Goes
  <2>8. RowsAppliedOnce'
    BY <1>1, <2>6, NoRowSucceeds
  <2>9. ImportEndsWithJob'
    BY <1>1, <2>1, <2>2 DEF IInv, ImportEndsWithJob
  <2>10. \A x \in Workers : WorkerOK(x)'
    <3>1. \A x \in Workers \ {w} : Owns(x)' => Owns(x)
      BY <1>1, <2>3 DEF Owns, Goes
    <3> QED BY <1>1, <2>1, <2>3, <3>1, WorkerGoesOn DEF WorkerPhases, Finished, Goes
  <2> QED BY <1>1, <2>1, <2>2, <2>6, <2>7, <2>8, <2>9, <2>10, ExecutionStep
          DEF Unstarted, IInv, ImportOK
<1> QED
  <2>1. \A v \in Verdicts : Throw(w, v) => Goes(w, "settle")
    BY <1>0, WorkerMoves
  <2>2. Slice(Recovered, imp.gen) \in SUBSET Numbers
    BY DEF Slice
  <2> QED BY <1>2, <1>3, <1>4, <2>1, <2>2 DEF ClaimSlice, Verdicts

\* Steps of a pass that change nothing but its worker.
LEMMA PassStep ==
  ASSUME IInv, NEW w \in Workers, NEW ph \in {"rows", "settle"}, Goes(w, ph),
         worker[w].phase # "idle", budget' \in 0..Budget,
         UNCHANGED <<imp, rows, applied, job, stager, file, allowed, pinned>>
  PROVE  IInv'
<1>1. TypeOK'
  BY DEF IInv, TypeOK, Goes
<1>2. ImportEndsWithJob'
  BY DEF IInv, ImportEndsWithJob
<1>3. \A x \in Workers : WorkerOK(x)'
  <2>1. \A x \in Workers \ {w} : Owns(x)' => Owns(x)
    BY DEF Owns, Goes
  <2>2. ph \in WorkerPhases /\ worker'[w].phase \notin {"finalize", "complete"}
    BY DEF Goes, WorkerPhases
  <2> QED BY <2>1, <2>2, WorkerGoesOn
<1> QED BY <1>1, <1>2, <1>3, NoRowStep

\* A row that is in progress under this job has not succeeded in any generation, so
\* that its record has not been written: the write that ends it is the first.
LEMMA RowEnds ==
  ASSUME IInv, NEW w \in Workers, worker[w].phase # "idle",
         NEW n \in Numbers, RowIsLive(w, rows[imp.gen][n]),
         NEW x \in {"succeeded", "rejected"}, NEW t \in {0, 1}, Write(n, x, t),
         t = 1 <=> file.mode = "COMMIT" /\ x = "succeeded",
         NEW ph \in {"rows", "settle"}, Goes(w, ph), budget' \in 0..Budget,
         UNCHANGED <<imp, job, stager, file, allowed, pinned>>
  PROVE  IInv'
<1>0. /\ imp \in Import /\ imp.state = "running"
      /\ rows \in [Gens -> [Numbers -> RowStates]] /\ applied \in [Numbers -> Nat]
      /\ rows[imp.gen][n] \in Processing
  BY DEF IInv, TypeOK, RowIsLive
<1>1. imp.gen \in Gens /\ RowsAreExact
  BY <1>0, ExactRowsNow DEF RowsFollow, IInv, ImportOK, Import
<1>2. \A g \in Gens : rows[g][n] # "succeeded"
  BY <1>0, <1>1 DEF RowsAreExact, Processing
<1>3. applied[n] = 0
  BY <1>2 DEF IInv, RowsAppliedOnce
<1>4. applied' \in [Numbers -> Nat] /\ applied'[n] = t
      /\ \A m \in Numbers \ {n} : applied'[m] = applied[m]
  <2>1. applied' = [applied EXCEPT ![n] = t]
    <3>1. applied' = [applied EXCEPT ![n] = applied[n] + t]
      BY DEF Write
    <3>2. applied[n] + t = t
      BY <1>3
    <3> QED BY <3>1, <3>2
  <2> QED BY <1>0, <2>1
<1>5. /\ rows' \in [Gens -> [Numbers -> RowStates]]
      /\ \A h \in Gens, m \in Numbers :
           rows'[h][m] = IF h = imp.gen /\ m = n THEN x ELSE rows[h][m]
  <2>1. x \in RowStates /\ rows' = [rows EXCEPT ![imp.gen][n] = x]
    BY DEF RowStates, Write
  <2> QED BY <1>0, <1>1, <2>1, RowWrites
<1>6. TypeOK'
  BY <1>4, <1>5 DEF IInv, TypeOK, Goes
<1>7. RowsAppliedOnce'
  <2>1. ASSUME NEW m \in Numbers
        PROVE  applied'[m] = IF file'.mode = "COMMIT" /\ \E g \in Gens : rows'[g][m] = "succeeded"
                             THEN 1 ELSE 0
    <3>1. CASE m = n
      <4>1. (\E g \in Gens : rows'[g][m] = "succeeded") <=> x = "succeeded"
        BY <1>1, <1>2, <1>5, <3>1
      <4> QED BY <1>4, <3>1, <4>1
    <3>2. CASE m # n
      <4>1. (\E g \in Gens : rows'[g][m] = "succeeded") <=> (\E g \in Gens : rows[g][m] = "succeeded")
        BY <1>5, <3>2
      <4>2. applied[m] = IF file.mode = "COMMIT" /\ \E g \in Gens : rows[g][m] = "succeeded"
                         THEN 1 ELSE 0
        BY DEF IInv, RowsAppliedOnce
      <4> QED BY <1>4, <3>2, <4>1, <4>2
    <3> QED BY <3>1, <3>2
  <2> QED BY <2>1 DEF RowsAppliedOnce
<1>8. ImportEndsWithJob'
  BY DEF IInv, ImportEndsWithJob
<1>9. \A y \in Workers : WorkerOK(y)'
  <2>1. \A y \in Workers \ {w} : Owns(y)' => Owns(y)
    BY DEF Owns, Goes
  <2>2. ph \in WorkerPhases /\ worker'[w].phase \notin {"finalize", "complete"}
    BY DEF Goes, WorkerPhases
  <2> QED BY <2>1, <2>2, WorkerGoesOn
<1>10. \A g \in Gens, m \in Numbers : rows'[g][m] = "absent" <=> rows[g][m] = "absent"
  BY <1>0, <1>5 DEF Processing
<1> QED BY <1>0, <1>6, <1>7, <1>8, <1>9, <1>10, ExecutionStep DEF IInv, ImportOK, Unstarted

LEMMA SliceRow ==
  ASSUME ImportExecutionAssumption,
         TypeOK, NEW w \in Workers, worker[w].slice # {}
  PROVE  Min(worker[w].slice) \in Numbers
<1>1. worker[w].slice \in SUBSET Numbers
  BY DEF TypeOK, Worker
<1> QED BY <1>1, Bounds, LeastIsMember

LEMMA RunRowKeeps ==
  ASSUME ImportExecutionAssumption,
         IInv, NEW w \in Workers, RunRow(w)
  PROVE  IInv'
<1>0. TypeOK /\ file.mode \in {"COMMIT", "DRY_RUN"}
  BY DEF IInv, TypeOK
<1>1. /\ worker[w].phase = "rows" /\ worker[w].slice # {}
      /\ UNCHANGED <<imp, job, stager, file, allowed, pinned, budget>>
  BY DEF RunRow, staging, outside
<1>2. PICK n \in Numbers : n = Min(worker[w].slice)
  BY <1>0, <1>1, SliceRow
<1>3. budget' \in 0..Budget
  BY <1>0, <1>1 DEF TypeOK
<1>4. CASE (Throw(w, "defer") \/ Throw(w, "fail")) /\ UNCHANGED <<rows, applied>>
  <2>1. Goes(w, "settle")
    BY <1>0, <1>4, WorkerMoves DEF Verdicts
  <2> QED BY <1>1, <1>3, <1>4, <2>1, PassStep
<1>5. CASE /\ RowIsLive(w, rows[imp.gen][n]) /\ file.mode = "COMMIT"
           /\ Write(n, "succeeded", 1) /\ NextRow(w, n)
  <2>1. Goes(w, "rows")
    BY <1>0, <1>5, WorkerMoves
  <2> QED BY <1>1, <1>3, <1>5, <2>1, RowEnds
<1>6. CASE \E o \in {"rejected"} \cup (IF file.mode = "DRY_RUN" THEN {"succeeded"} ELSE {}) :
             /\ worker' = [worker EXCEPT ![w].phase = "finalize", ![w].outcome = o]
             /\ UNCHANGED <<rows, applied>>
  <2>1. PICK o \in {"rejected", "succeeded"} :
          /\ o = "succeeded" => file.mode = "DRY_RUN"
          /\ worker' = [worker EXCEPT ![w].phase = "finalize", ![w].outcome = o]
          /\ UNCHANGED <<rows, applied>>
    BY <1>6
  <2>2. /\ Goes(w, "finalize") /\ worker'[w].slice = worker[w].slice /\ worker'[w].outcome = o
    <3> DEFINE k == [worker[w] EXCEPT !.phase = "finalize", !.outcome = o]
    <3>1. /\ k \in Worker /\ k.phase = "finalize" /\ k.job = worker[w].job
          /\ k.slice = worker[w].slice /\ k.outcome = o
      BY <1>0 DEF TypeOK, Worker
    <3>2. worker' = [worker EXCEPT ![w] = k]
      BY <1>0, <2>1 DEF TypeOK
    <3> HIDE DEF k
    <3> QED BY <1>0, <3>1, <3>2 DEF TypeOK, Goes
  <2>3. ASSUME NEW x \in Workers PROVE WorkerOK(x)'
    BY <1>1, <2>1, <2>2 DEF IInv, WorkerOK, Goes, Owns
  <2>4. TypeOK'
    BY <1>0, <1>1, <2>1, <2>2 DEF TypeOK, Goes
  <2>5. ImportEndsWithJob'
    BY <1>1 DEF IInv, ImportEndsWithJob
  <2> QED BY <1>1, <2>1, <2>3, <2>4, <2>5, NoRowStep
<1> QED BY <1>2, <1>4, <1>5, <1>6 DEF RunRow

LEMMA RowAnswerLostKeeps ==
  ASSUME ImportExecutionAssumption,
         IInv, NEW w \in Workers, RowAnswerLost(w)
  PROVE  IInv'
<1>0. TypeOK
  BY DEF IInv
<1>1. /\ worker[w].phase = "rows" /\ worker[w].slice # {} /\ file.mode = "COMMIT"
      /\ UNCHANGED <<imp, job, stager, file, allowed, pinned>> /\ budget' \in 0..Budget
  BY <1>0, Bounds DEF RowAnswerLost, staging, outside, Spend, TypeOK
<1>2. PICK n \in Numbers : n = Min(worker[w].slice)
  BY <1>0, <1>1, SliceRow
<1>3. RowIsLive(w, rows[imp.gen][n]) /\ Write(n, "succeeded", 1)
  BY <1>2 DEF RowAnswerLost
<1>4. Goes(w, "settle")
  BY <1>0, WorkerMoves DEF RowAnswerLost, Verdicts
<1> QED BY <1>1, <1>3, <1>4, RowEnds

LEMMA FinalizeRowKeeps ==
  ASSUME ImportExecutionAssumption,
         IInv, NEW w \in Workers, FinalizeRow(w)
  PROVE  IInv'
<1>0. TypeOK
  BY DEF IInv
<1>1. /\ worker[w].phase = "finalize" /\ worker[w].slice # {}
      /\ worker[w].outcome \in {"succeeded", "rejected"}
      /\ worker[w].outcome = "succeeded" => file.mode = "DRY_RUN"
      /\ UNCHANGED <<imp, job, stager, file, allowed, pinned, budget>>
  BY DEF FinalizeRow, staging, outside, IInv, WorkerOK, TypeOK, Worker
<1>2. PICK n \in Numbers : n = Min(worker[w].slice)
  BY <1>0, <1>1, SliceRow
<1>3. budget' \in 0..Budget
  BY <1>0, <1>1 DEF TypeOK
<1>4. CASE (Throw(w, "defer") \/ Throw(w, "fail")) /\ UNCHANGED <<rows, applied>>
  <2>1. Goes(w, "settle")
    BY <1>0, <1>4, WorkerMoves DEF Verdicts
  <2> QED BY <1>1, <1>3, <1>4, <2>1, PassStep
<1>5. CASE /\ RowIsLive(w, rows[imp.gen][n])
           /\ Write(n, worker[w].outcome, 0) /\ NextRow(w, n)
  <2>1. Goes(w, "rows")
    BY <1>0, <1>5, WorkerMoves
  <2> QED BY <1>1, <1>3, <1>5, <2>1, RowEnds
<1> QED BY <1>2, <1>4, <1>5 DEF FinalizeRow

LEMMA RefreshKeeps ==
  ASSUME ImportExecutionAssumption,
         IInv, NEW w \in Workers, Refresh(w)
  PROVE  IInv'
<1>0. TypeOK /\ imp \in Import
  BY DEF IInv, TypeOK
<1>1. /\ worker[w].phase = "rows"
      /\ UNCHANGED <<rows, applied, job, stager, file, allowed, pinned, budget>>
  BY DEF Refresh, staging, outside
<1>2. budget' \in 0..Budget
  BY <1>0, <1>1 DEF TypeOK
<1>3. \A v \in Verdicts : Throw(w, v) => Goes(w, "settle")
  BY <1>0, WorkerMoves
<1>4. CASE (Throw(w, "defer") \/ Throw(w, "permanent")) /\ UNCHANGED imp
  <2>1. Goes(w, "settle")
    BY <1>3, <1>4 DEF Verdicts
  <2> QED BY <1>1, <1>2, <1>4, <2>1, PassStep
<1>5. CASE /\ Owns(w) /\ imp.job = worker[w].job /\ imp.state = "running"
           /\ imp' = [imp EXCEPT
                !.accepted = Cardinality(Having({"succeeded"})),
                !.rejected = RejectedRows,
                !.state = IF ~Complete THEN "running"
                          ELSE IF RejectedRows > 0 THEN "completed_with_errors"
                          ELSE "completed"]
           /\ IF Complete THEN Goto(w, "complete") ELSE Throw(w, "defer")
  <2>1. PICK a \in Nat, r \in Nat : a = Cardinality(Having({"succeeded"})) /\ r = RejectedRows
    BY CountsAreNatural DEF RejectedRows
  <2>2. PICK st \in {"running"} \cup Finished :
          /\ st = IF ~Complete THEN "running"
                  ELSE IF RejectedRows > 0 THEN "completed_with_errors" ELSE "completed"
          /\ st = "running" <=> ~Complete
    BY DEF Finished
  <2>3. imp' = [imp EXCEPT !.accepted = a, !.rejected = r, !.state = st]
    BY <1>5, <2>1, <2>2
  <2>4. /\ imp' \in Import /\ imp'.state = st /\ imp'.gen = imp.gen /\ imp'.job = imp.job
        /\ imp'.total = imp.total /\ imp'.live = imp.live
    BY <1>0, <2>1, <2>2, <2>3 DEF Import, Finished
  <2>5. Goes(w, IF Complete THEN "complete" ELSE "settle")
    BY <1>0, <1>3, <1>5, WorkerMoves DEF WorkerPhases, Verdicts
  <2>6. TypeOK'
    BY <1>0, <1>1, <1>5, <2>4, <2>5 DEF TypeOK, Goes
  \* No other job of the import is queued or running.
  <2>7. ImportEndsWithJob'
    BY <1>1, <1>5, <2>2, <2>4 DEF IInv, ImportEndsWithJob, Owns, Finished
  <2>8. ASSUME NEW x \in Workers PROVE WorkerOK(x)'
    <3>1. CASE x = w
      BY <1>1, <2>2, <2>4, <2>5, <3>1 DEF IInv, WorkerOK, Goes
    <3>2. CASE x # w
      <4>1. worker'[x] = worker[x] /\ (Owns(x)' <=> Owns(x))
        BY <1>1, <2>5, <3>2 DEF Goes, Owns
      <4>2. imp.state \notin Finished
        BY <1>5 DEF Finished
      <4> QED BY <1>1, <4>1, <4>2 DEF IInv, WorkerOK
    <3> QED BY <3>1, <3>2
  <2>9. imp'.state \in Unstarted \/ imp.state \in Unstarted => imp'.state = imp.state
    BY <1>5, <2>4, <2>2 DEF Unstarted, Finished
  <2> QED BY <1>1, <2>4, <2>6, <2>7, <2>8, <2>9, NoRowStep
<1> QED BY <1>4, <1>5 DEF Refresh

LEMMA InterruptKeeps ==
  ASSUME ImportExecutionAssumption,
         IInv, NEW w \in Workers, Interrupt(w)
  PROVE  IInv'
<1>0. TypeOK
  BY DEF IInv
<1>1. /\ worker[w].phase # "idle" /\ budget' \in 0..Budget
      /\ UNCHANGED <<imp, rows, applied, job, stager, file, allowed, pinned>>
  BY <1>0, Bounds DEF Interrupt, staging, outside, Spend, TypeOK
<1>2. Goes(w, "settle")
  BY <1>0, WorkerMoves DEF Interrupt, Verdicts
<1> QED BY <1>1, <1>2, PassStep

\* A job that its holder settles, and the import that it carries.
LEMMA JobSettles ==
  ASSUME IInv, NEW w \in Workers, worker[w].phase # "idle", Owns(w),
         NEW s \in {"queued", "completed", "dead_letter"}, NEW a \in Nat,
         job' = Released(worker[w].job, s, a),
         worker' = [worker EXCEPT ![w] = IdleWorker],
         UNCHANGED <<rows, applied, stager, file, allowed, pinned, budget>>,
         imp' = imp \/ (imp.state \in {"queued", "running"} /\ s = "dead_letter"
                         /\ imp' = [imp EXCEPT !.state = "dead_letter"]),
         s = "completed" => imp.state \in Finished,
         s = "dead_letter" => imp'.state \notin {"queued", "running"} \/ imp.job # worker[w].job
  PROVE  IInv'
<1> DEFINE j == worker[w].job
<1>0. TypeOK /\ imp \in Import /\ j \in Jobs
  BY DEF IInv, TypeOK, WorkerOK
<1>1. /\ job' \in [Jobs -> Job]
      /\ job'[j].state = s /\ job'[j].holder = None
      /\ \A k \in Jobs \ {j} : job'[k] = job[k]
  <2> DEFINE r == [state |-> s, attempts |-> a, holder |-> None, live |-> FALSE]
  <2>1. r \in Job /\ r.state = s /\ r.holder = None
    BY DEF Job
  <2>2. job' = [job EXCEPT ![j] = r]
    BY DEF Released
  <2> HIDE DEF r
  <2> QED BY <1>0, <2>1, <2>2 DEF TypeOK
<1>2. /\ worker' \in [Workers -> Worker] /\ worker'[w].phase = "idle"
      /\ \A x \in Workers \ {w} : worker'[x] = worker[x]
  BY <1>0, WorkerMoves
<1>3. /\ imp' \in Import /\ imp'.gen = imp.gen /\ imp'.job = imp.job /\ imp'.total = imp.total
      /\ imp'.live = imp.live
      /\ imp' = imp \/ (imp.state \in {"queued", "running"} /\ imp'.state = "dead_letter"
                          /\ s = "dead_letter")
  BY <1>0 DEF Import
<1>4. TypeOK'
  <2>1. s # "running"
    OBVIOUS
  <2> QED BY <1>0, <1>1, <1>2, <1>3, <2>1 DEF TypeOK
<1>5. ImportEndsWithJob'
  <2>1. imp.job = j /\ job[j].state = "running" /\ imp.state \in {"queued", "running"} \cup Finished
    BY <1>0 DEF IInv, ImportEndsWithJob, Owns
  <2>2. \A k \in Jobs \ {j} : job[k].state \notin {"queued", "running"}
    BY <2>1 DEF IInv, ImportEndsWithJob
  <2> QED BY <1>1, <1>3, <2>1, <2>2 DEF ImportEndsWithJob, Finished
<1>6. \A x \in Workers : WorkerOK(x)'
  <2>1. ASSUME NEW x \in Workers \ {w}, worker[x].phase # "idle", Owns(x)' PROVE Owns(x)
    <3>1. worker'[x] = worker[x] /\ worker[x].job \in Jobs
      BY <1>2, <2>1 DEF IInv, WorkerOK
    <3>2. job'[j].state # "running"
      BY <1>1
    <3> QED BY <1>1, <2>1, <3>1, <3>2 DEF Owns
  <2>2. imp.state \in Finished => imp'.state \in Finished
    BY <1>3 DEF Finished
  <2> QED BY <2>1, <2>2, WorkerStops
<1>7. imp'.state \in Unstarted \/ imp.state \in Unstarted => imp'.state = imp.state
  BY <1>3 DEF Unstarted
<1> QED BY <1>3, <1>4, <1>5, <1>6, <1>7, NoRowStep

\* A worker that gives up, dies, or finds its claim gone changes nothing else.
LEMMA PassEnds ==
  ASSUME IInv, NEW w \in Workers, worker' = [worker EXCEPT ![w] = IdleWorker],
         budget' \in 0..Budget,
         UNCHANGED <<imp, rows, applied, job, stager, file, allowed, pinned>>
  PROVE  IInv'
<1>1. /\ worker' \in [Workers -> Worker] /\ worker'[w].phase = "idle"
      /\ \A x \in Workers \ {w} : worker'[x] = worker[x]
  BY WorkerMoves DEF IInv
<1>2. TypeOK' /\ ImportEndsWithJob'
  BY <1>1 DEF IInv, TypeOK, ImportEndsWithJob
<1>3. \A x \in Workers : WorkerOK(x)'
  <2>1. \A x \in Workers \ {w} : Owns(x)' => Owns(x)
    BY <1>1 DEF Owns
  <2> QED BY <2>1, WorkerStops
<1> QED BY <1>2, <1>3, NoRowStep

LEMMA CompleteJobKeeps ==
  ASSUME IInv, NEW w \in Workers, CompleteJob(w)
  PROVE  IInv'
<1>0. TypeOK
  BY DEF IInv
<1>1. /\ worker[w].phase = "complete" /\ worker' = [worker EXCEPT ![w] = IdleWorker]
      /\ UNCHANGED <<imp, rows, applied, stager, file, allowed, pinned, budget>>
  BY DEF CompleteJob, staging, outside
<1>2. CASE Owns(w)
  <2>1. imp.state \in Finished /\ worker[w].job \in Jobs
    BY <1>1, <1>2 DEF IInv, WorkerOK
  <2>2. PICK a \in Nat : a = job[worker[w].job].attempts
    BY <1>0, <2>1 DEF TypeOK, Job
  <2>3. job' = Released(worker[w].job, "completed", a)
    BY <1>2, <2>2 DEF CompleteJob
  <2> QED BY <1>1, <1>2, <2>1, <2>3, JobSettles
<1>3. CASE ~Owns(w)
  <2>1. job' = job /\ budget' \in 0..Budget
    BY <1>0, <1>1, <1>3 DEF CompleteJob, TypeOK
  <2> QED BY <1>1, <2>1, PassEnds
<1> QED BY <1>2, <1>3

LEMMA SettleKeeps ==
  ASSUME IInv, NEW w \in Workers, Settle(w)
  PROVE  IInv'
<1>0. TypeOK /\ worker[w].phase = "settle" /\ worker[w].job \in Jobs
  BY DEF IInv, Settle, WorkerOK
<1>1. /\ worker' = [worker EXCEPT ![w] = IdleWorker]
      /\ UNCHANGED <<rows, applied, stager, file, allowed, pinned, budget>>
  BY DEF Settle, staging, outside
<1>2. PICK a \in Nat : a = job[worker[w].job].attempts
  BY <1>0 DEF TypeOK, Job
<1>3. CASE ~Owns(w)
  <2>1. job' = job /\ imp' = imp /\ budget' \in 0..Budget
    BY <1>0, <1>1, <1>3 DEF Settle, TypeOK
  <2> QED BY <1>1, <2>1, PassEnds
<1>4. CASE /\ Owns(w) /\ job' = Released(worker[w].job, "dead_letter", a)
           /\ imp' = DeadImport(worker[w].job)
  <2>1. imp \in Import
    BY <1>0 DEF TypeOK
  <2>2. /\ imp' = imp \/ (imp.state \in {"queued", "running"}
                            /\ imp' = [imp EXCEPT !.state = "dead_letter"])
        /\ imp'.state \notin {"queued", "running"} \/ imp.job # worker[w].job
    BY <1>4, <2>1 DEF DeadImport, Import
  <2> QED BY <1>0, <1>1, <1>4, <2>2, JobSettles
<1>5. CASE /\ Owns(w) /\ UNCHANGED imp
           /\ job' = Released(worker[w].job, "queued",
                              IF worker[w].verdict = "defer" /\ a > 0 THEN a - 1 ELSE a)
  <2>1. PICK b \in Nat : b = IF worker[w].verdict = "defer" /\ a > 0 THEN a - 1 ELSE a
    OBVIOUS
  <2>2. job' = Released(worker[w].job, "queued", b)
    BY <1>5, <2>1
  <2> QED BY <1>0, <1>1, <1>5, <2>2, JobSettles
<1> QED BY <1>2, <1>3, <1>4, <1>5 DEF Settle

LEMMA WorkerCrashKeeps ==
  ASSUME ImportExecutionAssumption,
         IInv, NEW w \in Workers, WorkerCrash(w)
  PROVE  IInv'
<1>1. /\ worker' = [worker EXCEPT ![w] = IdleWorker] /\ budget' \in 0..Budget
      /\ UNCHANGED <<imp, rows, applied, job, stager, file, allowed, pinned>>
  BY Bounds DEF IInv, TypeOK, WorkerCrash, staging, outside, Spend
<1> QED BY <1>1, PassEnds

LEMMA JobLeaseExpiresKeeps ==
  ASSUME ImportExecutionAssumption,
         IInv, NEW j \in Jobs, JobLeaseExpires(j)
  PROVE  IInv'
<1>0. TypeOK
  BY DEF IInv
<1>1. UNCHANGED <<imp, rows, applied, stager, worker, file, allowed, pinned>> /\ budget' \in 0..Budget
  BY <1>0, Bounds DEF JobLeaseExpires, staging, outside, Spend, TypeOK
<1>2. /\ job' \in [Jobs -> Job]
      /\ \A k \in Jobs : /\ job'[k].state = job[k].state /\ job'[k].holder = job[k].holder
                         /\ job'[k].live => job[k].live
  <2> DEFINE r == [job[j] EXCEPT !.live = FALSE]
  <2>1. r \in Job /\ r.state = job[j].state /\ r.holder = job[j].holder /\ ~r.live
    BY <1>0 DEF TypeOK, Job
  <2>2. job' = [job EXCEPT ![j] = r]
    BY <1>0 DEF JobLeaseExpires, TypeOK
  <2> HIDE DEF r
  <2> QED BY <1>0, <2>1, <2>2 DEF TypeOK
<1>3. TypeOK'
  BY <1>0, <1>1, <1>2 DEF TypeOK
<1>4. ImportEndsWithJob'
  BY <1>1, <1>2 DEF IInv, ImportEndsWithJob
<1>5. ASSUME NEW x \in Workers PROVE WorkerOK(x)'
  <2>1. worker[x].phase # "idle" /\ Owns(x)' => Owns(x)
    BY <1>1, <1>2 DEF IInv, WorkerOK, Owns
  <2> QED BY <1>1, <2>1 DEF IInv, WorkerOK
<1> QED BY <1>1, <1>3, <1>4, <1>5, NoRowStep

LEMMA RowAgesKeeps ==
  ASSUME IInv, NEW n \in Numbers, RowAges(n)
  PROVE  IInv'
<1>0. TypeOK /\ imp.gen \in Gens /\ rows[imp.gen][n] = "processing"
  BY DEF IInv, RowAges
<1>1. UNCHANGED <<imp, applied, job, worker, stager, file, allowed, pinned, budget>>
  BY DEF RowAges, execution, staging, outside
<1>2. /\ rows' \in [Gens -> [Numbers -> RowStates]]
      /\ \A h \in Gens, m \in Numbers :
           rows'[h][m] = IF h = imp.gen /\ m = n THEN "stale" ELSE rows[h][m]
  <2>1. "stale" \in RowStates /\ rows' = [rows EXCEPT ![imp.gen][n] = "stale"]
    BY DEF RowStates, RowAges
  <2> QED BY <1>0, <2>1, RowWrites DEF TypeOK
<1>3. \A g \in Gens, m \in Numbers :
        /\ rows'[g][m] = "absent" <=> rows[g][m] = "absent"
        /\ rows'[g][m] = "succeeded" <=> rows[g][m] = "succeeded"
  BY <1>0, <1>2
<1>4. TypeOK' /\ ImportEndsWithJob'
  BY <1>0, <1>1, <1>2 DEF IInv, TypeOK, ImportEndsWithJob
<1>5. RowsAppliedOnce'
  BY <1>1, <1>3, NoRowSucceeds
<1>6. \A x \in Workers : WorkerOK(x)'
  BY <1>1 DEF IInv, WorkerOK, Owns
<1>7. imp.state \notin Unstarted
  BY <1>0 DEF IInv, ImportOK
<1> QED BY <1>1, <1>3, <1>4, <1>5, <1>6, <1>7, ExecutionStep DEF IInv, ImportOK, Unstarted

LEMMA StagingLeaseExpiresKeeps ==
  ASSUME ImportExecutionAssumption,
         IInv, StagingLeaseExpires
  PROVE  IInv'
<1>0. TypeOK /\ imp \in Import
  BY DEF IInv, TypeOK
<1>1. /\ UNCHANGED <<rows, applied, job, worker, stager, file, allowed, pinned>>
      /\ budget' \in 0..Budget
  BY <1>0, Bounds DEF StagingLeaseExpires, execution, staging, outside, Spend, TypeOK
<1>2. /\ imp' \in Import /\ imp'.state = imp.state /\ imp'.gen = imp.gen /\ imp'.job = imp.job
      /\ imp'.total = imp.total /\ ~imp'.live
  BY <1>0 DEF StagingLeaseExpires, Import
<1>3. TypeOK' /\ ImportEndsWithJob'
  BY <1>0, <1>1, <1>2 DEF IInv, TypeOK, ImportEndsWithJob
<1>4. \A x \in Workers : WorkerOK(x)'
  BY <1>1, <1>2 DEF IInv, WorkerOK, Owns
<1> QED BY <1>1, <1>2, <1>3, <1>4, NoRowStep

LEMMA OutsideKeeps ==
  ASSUME ImportExecutionAssumption,
         IInv, RoleChanges \/ MappingChanges \/ UNCHANGED vars
  PROVE  IInv'
<1>0. TypeOK
  BY DEF IInv
<1>1. UNCHANGED <<file, imp, rows, applied, job, worker, stager>>
  BY DEF RoleChanges, MappingChanges, vars, execution, staging
<1>2. budget' \in 0..Budget /\ allowed' \in BOOLEAN /\ pinned' \in BOOLEAN
  <2>1. budget' = budget \/ Spend
    BY DEF RoleChanges, MappingChanges, vars
  <2>2. budget' \in 0..Budget
    BY <1>0, <2>1, Bounds DEF Spend, TypeOK
  <2>3. /\ allowed' = allowed \/ allowed' = ~allowed
        /\ pinned' = pinned \/ pinned' = FALSE
    BY Zenon DEF RoleChanges, MappingChanges, vars
  <2>4. allowed' \in BOOLEAN /\ pinned' \in BOOLEAN
    BY <1>0, <2>3, Zenon DEF TypeOK
  <2> QED BY <2>2, <2>4
<1>3. TypeOK'
  BY <1>0, <1>1, <1>2 DEF TypeOK
<1>4. \A s \in Stagers : StagerOK(s)'
  BY <1>1 DEF IInv, StagerOK
<1> QED BY <1>1, <1>3, <1>4, IdleStep DEF execution

-----------------------------------------------------------------------------
(* The invariant.                                                            *)

LEMMA InitInv ==
  ASSUME ImportExecutionAssumption PROVE Init => IInv
<1> SUFFICES ASSUME Init PROVE IInv
  OBVIOUS
<1>1. /\ file \in [mode : {"COMMIT", "DRY_RUN"}, unusable : SUBSET Numbers]
      /\ imp = [state |-> "absent", gen |-> 0, owner |-> None, live |-> FALSE,
                job |-> 0, total |-> 0, accepted |-> 0, rejected |-> 0]
      /\ rows = [g \in Gens |-> [n \in Numbers |-> "absent"]]
      /\ applied = [n \in Numbers |-> 0]
      /\ job = [j \in Jobs |-> [state |-> "absent", attempts |-> 0, holder |-> None,
                                live |-> FALSE]]
      /\ stager = [s \in Stagers |-> IdleStager] /\ worker = [w \in Workers |-> IdleWorker]
      /\ allowed = TRUE /\ pinned = TRUE /\ budget = Budget
  BY DEF Init
<1>2. TypeOK
  <2>1. imp \in Import /\ ~imp.live
    BY <1>1 DEF Import
  <2>2. rows \in [Gens -> [Numbers -> RowStates]] /\ applied \in [Numbers -> Nat]
    BY <1>1 DEF RowStates
  <2>3. job \in [Jobs -> Job] /\ \A j \in Jobs : job[j].holder = None /\ job[j].state # "running"
    BY <1>1 DEF Job
  <2>4. stager \in [Stagers -> Stager]
    BY <1>1, Bounds DEF Stager, IdleStager
  <2>5. worker \in [Workers -> Worker]
    BY <1>1 DEF Worker, IdleWorker, Verdicts
  <2>6. budget \in 0..Budget
    BY <1>1, Bounds
  <2> QED BY <1>1, <2>1, <2>2, <2>3, <2>4, <2>5, <2>6 DEF TypeOK
<1>3. ImportOK
  BY <1>1 DEF ImportOK, Unstarted
<1>4. RowsAppliedOnce
  BY <1>1 DEF RowsAppliedOnce
<1>5. StagedRowsAreExact /\ ImportEndsWithJob
  BY <1>1 DEF StagedRowsAreExact, ImportEndsWithJob
<1>6. (\A s \in Stagers : StagerOK(s)) /\ (\A w \in Workers : WorkerOK(w))
  BY <1>1 DEF StagerOK, IdleStager, WorkerOK, IdleWorker
<1> QED BY <1>2, <1>3, <1>4, <1>5, <1>6 DEF IInv

LEMMA StepInv ==
  ASSUME ImportExecutionAssumption PROVE IInv /\ [Next]_vars => IInv'
<1> SUFFICES ASSUME IInv, [Next]_vars PROVE IInv'
  OBVIOUS
<1>1. ASSUME NEW s \in Stagers,
             ClaimPrepare(s) \/ InsertRow(s) \/ ParseFails(s) \/ FailPrepare(s)
               \/ FinishPrepare(s) \/ StagerCrash(s)
      PROVE  IInv'
  BY <1>1, StagingKeeps DEF StagingStep
<1>2. CASE StagingLeaseExpires
  BY <1>2, StagingLeaseExpiresKeeps
<1>3. CASE StartImport \/ RetryImport
  BY <1>3, StartKeeps, RetryKeeps
<1>4. ASSUME NEW w \in Workers,
             ClaimDue(w) \/ WorkerStep(w) \/ RowAnswerLost(w) \/ Interrupt(w) \/ WorkerCrash(w)
      PROVE  IInv'
  <2>1. CASE ClaimDue(w)
    BY <2>1, ClaimDueKeeps
  <2>2. CASE ClaimSlice(w)
    BY <2>2, ClaimSliceKeeps
  <2>3. CASE RunRow(w)
    BY <2>3, RunRowKeeps
  <2>4. CASE FinalizeRow(w)
    BY <2>4, FinalizeRowKeeps
  <2>5. CASE Refresh(w)
    BY <2>5, RefreshKeeps
  <2>6. CASE CompleteJob(w)
    BY <2>6, CompleteJobKeeps
  <2>7. CASE Settle(w)
    BY <2>7, SettleKeeps
  <2>8. CASE RowAnswerLost(w)
    BY <2>8, RowAnswerLostKeeps
  <2>9. CASE Interrupt(w)
    BY <2>9, InterruptKeeps
  <2>10. CASE WorkerCrash(w)
    BY <2>10, WorkerCrashKeeps
  <2> QED BY <1>4, <2>1, <2>2, <2>3, <2>4, <2>5, <2>6, <2>7, <2>8, <2>9, <2>10 DEF WorkerStep
<1>5. ASSUME NEW j \in Jobs, JobLeaseExpires(j) PROVE IInv'
  BY <1>5, JobLeaseExpiresKeeps
<1>6. ASSUME NEW n \in Numbers, RowAges(n) PROVE IInv'
  BY <1>6, RowAgesKeeps
<1>7. CASE RoleChanges \/ MappingChanges \/ UNCHANGED vars
  BY <1>7, OutsideKeeps
<1> QED BY <1>1, <1>2, <1>3, <1>4, <1>5, <1>6, <1>7 DEF Next

\* The inductive invariant: until it is started an import has no job and rows that
\* nobody has run, a request stages its own or an older generation, a worker
\* finalizes as succeeded rows of a dry run only, and completes its job after the
\* import has ended.
THEOREM ImportInvariance ==
  ASSUME ImportExecutionAssumption PROVE Spec => []IInv
<1>1. Init => IInv
  BY InitInv
<1>2. IInv /\ [Next]_vars => IInv'
  BY StepInv
<1> QED BY <1>1, <1>2, PTL DEF Spec

\* The columns of imports, import_rows and jobs and the locals of the requests and
\* workers keep their shape; a staging lease is live only while an owner stages.
THEOREM ImportTypes ==
  ASSUME ImportExecutionAssumption PROVE Spec => []TypeOK
<1>1. IInv => TypeOK
  BY DEF IInv
<1> QED BY <1>1, ImportInvariance, PTL

\* runDurableImportRowResearchTransaction: however often jobs crash, lose their
\* leases or the answer to a commit, overlap, and are retried, the record of a row
\* is written exactly once when the row has succeeded, and never otherwise.
THEOREM RowsAreAppliedOnce ==
  ASSUME ImportExecutionAssumption PROVE Spec => []RowsAppliedOnce
<1>1. IInv => RowsAppliedOnce
  BY DEF IInv
<1> QED BY <1>1, ImportInvariance, PTL

\* prepareImport: however many requests lose and take over the staging lease, a
\* staged import has exactly the rows of its last generation, so that the count by
\* which refreshExecutionTotals and retryImport refuse an import never fails.
THEOREM StagingIsExact ==
  ASSUME ImportExecutionAssumption PROVE Spec => []StagedRowsAreExact
<1>1. IInv => StagedRowsAreExact
  BY DEF IInv
<1> QED BY <1>1, ImportInvariance, PTL

\* startImport, retryImport, failClaim and the completion of a job keep an import and
\* its jobs in step: it is under way exactly while its last job is not settled, and
\* no earlier job is.
THEOREM ImportFollowsItsJob ==
  ASSUME ImportExecutionAssumption PROVE Spec => []ImportEndsWithJob
<1>1. IInv => ImportEndsWithJob
  BY DEF IInv
<1> QED BY <1>1, ImportInvariance, PTL

=============================================================================
