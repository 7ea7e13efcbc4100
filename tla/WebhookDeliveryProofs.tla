----------------------- MODULE WebhookDeliveryProofs -----------------------
(***************************************************************************)
(* For every number of passes, attempts and disturbances: an event is      *)
(* accepted once, and once more for each disturbance that kept the         *)
(* acceptance from being recorded; and a scheduled retry is made.          *)
(*                                                                         *)
(* The first is a matter of accounts.  What the destination has accepted,  *)
(* the handlers that lost their claim and may still bring an acceptance,   *)
(* and the acceptance that the job's own claims still owe are together     *)
(* covered by one plus what has been spent on disturbances.                *)
(***************************************************************************)
EXTENDS WebhookDelivery, FiniteSetTheorems, TLAPS

-----------------------------------------------------------------------------
(* Records and claims. *)

Recordable == {"start", "cancel", "post", "record", "settle"}

\* A step of a pass on its own row.
LEMMA OnePassMoves ==
  ASSUME worker \in [Workers -> WorkerState], NEW w \in Workers, NEW s \in WorkerState,
         Set(w, s)
  PROVE  /\ worker' \in [Workers -> WorkerState]
         /\ worker'[w] = s
         /\ \A v \in Workers \ {w} : worker'[v] = worker[v]
BY DEF Set

LEMMA Concluding ==
  ASSUME TypeOK, NEW w \in Workers, NEW v \in Verdict \ {"none"}, Conclude(w, v)
  PROVE  /\ worker' \in [Workers -> WorkerState]
         /\ \A u \in Workers \ {w} : worker'[u] = worker[u]
         /\ worker'[w].phase = "settle" /\ worker'[w].verdict = v
         /\ worker'[w].gen = worker[w].gen /\ worker'[w].attempts = worker[w].attempts
         /\ worker'[w].aborted = worker[w].aborted
<1>1. worker[w] \in WorkerState
  BY DEF TypeOK
<1>2. [worker[w] EXCEPT !.phase = "settle", !.verdict = v] \in WorkerState
  BY <1>1 DEF WorkerState, Verdict
<1> QED BY <1>1, <1>2 DEF Conclude, Set, TypeOK, WorkerState

LEMMA IdleType == IdleWorker \in WorkerState
BY DEF IdleWorker, WorkerState, Outcome, Verdict

\* No two passes hold the claim in force.
LEMMA OneOwner ==
  ASSUME ClaimsOK, NEW v \in Workers, NEW w \in Workers, v # w,
         worker[v].phase # "idle", worker[w].phase # "idle", Owns(w)
  PROVE  ~Owns(v)
BY DEF ClaimsOK, Owns

-----------------------------------------------------------------------------
(* The accounts. *)

Owed == IF Owing THEN 1 ELSE 0
Strayed == Cardinality(Stale)

LEMMA SpentIsNatural ==
  ASSUME WebhookDeliveryAssumption
  PROVE  /\ TypeOK /\ ClaimsOK => Spent \in Nat
         /\ TypeOK' /\ ClaimsOK' => Spent' \in Nat
BY DEF WebhookDeliveryAssumption, TypeOK, ClaimsOK, Spent

\* How the number of stale handlers changes.
LEMMA StaleMoves ==
  ASSUME IsFiniteSet(Stale)
  PROVE  /\ Cardinality(Stale) \in Nat
         /\ Stale' \subseteq Stale =>
              IsFiniteSet(Stale') /\ Cardinality(Stale') <= Cardinality(Stale)
         /\ \A w : Stale' \subseteq Stale \cup {w} =>
              IsFiniteSet(Stale') /\ Cardinality(Stale') <= Cardinality(Stale) + 1
         /\ \A w \in Stale : Stale' \subseteq Stale \ {w} =>
              IsFiniteSet(Stale') /\ Cardinality(Stale') <= Cardinality(Stale) - 1
<1>1. Cardinality(Stale) \in Nat
  BY FS_CardinalityType
<1>2. ASSUME Stale' \subseteq Stale
      PROVE  IsFiniteSet(Stale') /\ Cardinality(Stale') <= Cardinality(Stale)
  BY <1>2, FS_Subset
<1>3. ASSUME NEW w, Stale' \subseteq Stale \cup {w}
      PROVE  IsFiniteSet(Stale') /\ Cardinality(Stale') <= Cardinality(Stale) + 1
  <2>1. IsFiniteSet(Stale \cup {w}) /\ Cardinality(Stale \cup {w}) <= Cardinality(Stale) + 1
    BY <1>1, FS_AddElement
  <2>2. Cardinality(Stale \cup {w}) \in Nat
    BY <2>1, FS_CardinalityType
  <2>3. IsFiniteSet(Stale') /\ Cardinality(Stale') <= Cardinality(Stale \cup {w})
    BY <1>3, <2>1, FS_Subset
  <2>4. Cardinality(Stale') \in Nat
    BY <2>3, FS_CardinalityType
  <2> QED BY <1>1, <2>1, <2>2, <2>3, <2>4
<1>4. ASSUME NEW w \in Stale, Stale' \subseteq Stale \ {w}
      PROVE  IsFiniteSet(Stale') /\ Cardinality(Stale') <= Cardinality(Stale) - 1
  <2>1. IsFiniteSet(Stale \ {w}) /\ Cardinality(Stale \ {w}) = Cardinality(Stale) - 1
    BY FS_RemoveElement
  <2> QED BY <1>4, <2>1, FS_Subset
<1> QED BY <1>1, <1>2, <1>3, <1>4

\* The steps that keep the account balanced.
LEMMA Accounts ==
  ASSUME WebhookDeliveryAssumption, TypeOK, ClaimsOK, AcceptancesOK, TypeOK', ClaimsOK',
         \/ /\ Stale' \subseteq Stale /\ successes' = successes /\ Spent' >= Spent
            /\ Owing' => Owing
         \/ Stale' \subseteq Stale /\ successes' = successes /\ Spent' = Spent + 1
         \/ /\ \E w : Stale' \subseteq Stale \cup {w}
            /\ successes' = successes /\ Spent' = Spent + 1
            /\ Owing' => Owing
         \/ /\ \E w \in Stale : Stale' \subseteq Stale \ {w}
            /\ successes' = successes /\ Spent' >= Spent
         \/ /\ \E w \in Stale : Stale' \subseteq Stale \ {w}
            /\ successes' = successes + 1 /\ Spent' = Spent
            /\ Owing' => Owing
         \/ /\ Stale' \subseteq Stale /\ successes' = successes + 1 /\ Spent' = Spent
            /\ Owing /\ ~Owing'
  PROVE  AcceptancesOK'
<1>1. /\ Strayed \in Nat /\ Owed \in Nat /\ successes \in Nat /\ Spent \in Nat
      /\ successes + Strayed + Owed <= 1 + Spent
  BY StaleMoves, SpentIsNatural DEF AcceptancesOK, TypeOK, Owed, Strayed
<1>2. /\ IsFiniteSet(Stale)
      /\ Owed' \in Nat /\ Owed' <= 1
      /\ (Owing' => Owing) => Owed' <= Owed
      /\ Owing /\ ~Owing' => Owed = 1 /\ Owed' = 0
  BY DEF AcceptancesOK, Owed
<1>3. IsFiniteSet(Stale') /\ Strayed' \in Nat /\ Spent' \in Nat /\ successes' \in Nat
  BY <1>2, StaleMoves, SpentIsNatural, FS_CardinalityType DEF Strayed, TypeOK
<1>4. PICK a \in Nat, d \in Nat, o \in Nat, m \in Nat :
        a = successes' /\ d = Strayed' /\ o = Owed' /\ m = Spent'
  BY <1>2, <1>3
<1>5. a + d + o <= 1 + m
  <2>1. CASE /\ Stale' \subseteq Stale /\ successes' = successes /\ Spent' >= Spent
             /\ Owing' => Owing
    <3>1. d <= Strayed /\ a = successes /\ o <= Owed /\ m >= Spent
      BY <1>1, <1>2, <1>4, <2>1, StaleMoves DEF Strayed
    <3> QED BY <1>1, <3>1
  <2>2. CASE Stale' \subseteq Stale /\ successes' = successes /\ Spent' = Spent + 1
    <3>1. d <= Strayed /\ a = successes /\ o <= 1 /\ m = Spent + 1
      BY <1>1, <1>2, <1>4, <2>2, StaleMoves DEF Strayed
    <3> QED BY <1>1, <3>1
  <2>3. CASE /\ \E w : Stale' \subseteq Stale \cup {w}
             /\ successes' = successes /\ Spent' = Spent + 1
             /\ Owing' => Owing
    <3>1. d <= Strayed + 1 /\ a = successes /\ o <= Owed /\ m = Spent + 1
      BY <1>1, <1>2, <1>4, <2>3, StaleMoves DEF Strayed
    <3> QED BY <1>1, <3>1
  <2>4. CASE /\ \E w \in Stale : Stale' \subseteq Stale \ {w}
             /\ successes' = successes /\ Spent' >= Spent
    <3>1. d <= Strayed - 1 /\ a = successes /\ o <= 1 /\ m >= Spent
      BY <1>1, <1>2, <1>4, <2>4, StaleMoves DEF Strayed
    <3> QED BY <1>1, <3>1
  <2>5. CASE /\ \E w \in Stale : Stale' \subseteq Stale \ {w}
             /\ successes' = successes + 1 /\ Spent' = Spent
             /\ Owing' => Owing
    <3>1. d <= Strayed - 1 /\ a = successes + 1 /\ o <= Owed /\ m = Spent
      BY <1>1, <1>2, <1>4, <2>5, StaleMoves DEF Strayed
    <3> QED BY <1>1, <3>1
  <2>6. CASE /\ Stale' \subseteq Stale /\ successes' = successes + 1 /\ Spent' = Spent
             /\ Owing /\ ~Owing'
    <3>1. d <= Strayed /\ a = successes + 1 /\ o = 0 /\ m = Spent /\ Owed = 1
      BY <1>1, <1>2, <1>4, <2>6, StaleMoves DEF Strayed
    <3> QED BY <1>1, <3>1
  <2> QED BY <2>1, <2>2, <2>3, <2>4, <2>5, <2>6
<1>6. successes' + Strayed' + Owed' <= 1 + Spent'
  BY <1>4, <1>5, Zenon
<1> QED BY <1>3, <1>6 DEF AcceptancesOK, Owed, Strayed

-----------------------------------------------------------------------------
(* The steps of a pass on its own row. *)

BoundsOK == budget <= Budget /\ errors <= Errors /\ pauses <= Pauses /\ aborts <= Aborts

\* The pass w moves and the claims stay as they are.
Moves(w) ==
  /\ worker' \in [Workers -> WorkerState]
  /\ \A v \in Workers \ {w} : worker'[v] = worker[v]
  /\ worker[w].phase # "idle"
  /\ worker'[w].phase = "idle" \/ worker'[w].gen = worker[w].gen
  /\ worker'[w].phase = "settle" => worker'[w].verdict # "none"
  /\ job' = job

Open == ~delivery.completed \/ delivery.retry

\* What other passes contribute to an acceptance that is owed.
OthersOwe(w) ==
  \E v \in Workers \ {w} : Owns(v) /\ worker[v].phase \in {"post", "record"}
OthersFailed(w) ==
  \A v \in Workers \ {w} : (Owns(v) /\ worker[v].phase = "record") => worker[v].outcome # "ok"

LEMMA OwingParts ==
  ASSUME NEW w \in Workers
  PROVE  /\ Owing <=>
              /\ OthersFailed(w)
              /\ (Owns(w) /\ worker[w].phase = "record") => worker[w].outcome # "ok"
              /\ (Open \/ OthersOwe(w) \/ (Owns(w) /\ worker[w].phase \in {"post", "record"}))
BY DEF Owing, Open, OthersFailed, OthersOwe

LEMMA Moving ==
  ASSUME ClaimsOK, NEW w \in Workers, Moves(w), BoundsOK'
  PROVE  /\ ClaimsOK'
         /\ \A v \in Workers \ {w} : (Owns(v)' <=> Owns(v)) /\ (v \in Stale' <=> v \in Stale)
         /\ worker'[w].phase # "idle" => (Owns(w)' <=> Owns(w))
         /\ OthersFailed(w)' <=> OthersFailed(w)
         /\ OthersOwe(w)' <=> OthersOwe(w)
         /\ Owns(w) => OthersFailed(w) /\ ~OthersOwe(w)
<1>1. /\ \A v \in Workers \ {w} : Owns(v)' <=> Owns(v)
      /\ worker'[w].phase # "idle" => (Owns(w)' <=> Owns(w))
  BY DEF Moves, Owns
<1>2. ClaimsOK'
  BY DEF Moves, ClaimsOK, BoundsOK
<1>3. \A v \in Workers \ {w} : v \in Stale' <=> v \in Stale
  BY <1>1 DEF Moves, Stale, MayReopen
<1>4. (OthersFailed(w)' <=> OthersFailed(w)) /\ (OthersOwe(w)' <=> OthersOwe(w))
  BY <1>1 DEF Moves, OthersFailed, OthersOwe
<1>5. Owns(w) => OthersFailed(w) /\ ~OthersOwe(w)
  BY OneOwner DEF Moves, OthersFailed, OthersOwe
<1> QED BY <1>1, <1>2, <1>3, <1>4, <1>5

\* The same for the primed state.
LEMMA OwingPartsNext ==
  ASSUME NEW w \in Workers
  PROVE  /\ Owing' <=>
              /\ OthersFailed(w)'
              /\ (Owns(w)' /\ worker'[w].phase = "record") => worker'[w].outcome # "ok"
              /\ (Open' \/ OthersOwe(w)' \/ (Owns(w)' /\ worker'[w].phase \in {"post", "record"}))
BY DEF Owing, Open, OthersFailed, OthersOwe

\* As long as nothing disturbs the passes only one of them works.
LEMMA Alone ==
  ASSUME ClaimsOK, RetryOK, NEW w \in Workers, worker[w].phase # "idle"
  PROVE  Owns(w) /\ \A v \in Workers \ {w} : worker[v].phase = "idle"
BY OneOwner DEF RetryOK

LEMMA StartStep ==
  ASSUME WebhookDeliveryAssumption, IInv, NEW w \in Workers, Start(w)
  PROVE  IInv'
<1>0. TypeOK /\ ClaimsOK /\ AcceptancesOK /\ worker[w] \in WorkerState
  BY DEF IInv, TypeOK
<1>1. /\ worker' \in [Workers -> WorkerState]
      /\ \A v \in Workers \ {w} : worker'[v] = worker[v]
      /\ worker'[w].gen = worker[w].gen /\ worker'[w].attempts = worker[w].attempts
      /\ worker'[w].aborted = worker[w].aborted
      /\ \/ worker'[w].phase = "cancel"
         \/ worker'[w].phase = "settle" /\ worker'[w].verdict = "done" /\ Repeated(w)
         \/ worker'[w].phase = "settle" /\ worker'[w].verdict = "retry" /\ worker[w].aborted
         \/ worker'[w].phase = "post" /\ ~Repeated(w)
  <2>1. /\ [worker[w] EXCEPT !.phase = "cancel"] \in WorkerState
        /\ [worker[w] EXCEPT !.phase = "post"] \in WorkerState
    BY <1>0 DEF WorkerState
  <2>2. CASE Conclude(w, "done") /\ Repeated(w)
    BY <1>0, <2>2, Concluding DEF Verdict
  <2>3. CASE Conclude(w, "retry") /\ worker[w].aborted
    BY <1>0, <2>3, Concluding DEF Verdict
  <2>4. CASE Set(w, [worker[w] EXCEPT !.phase = "cancel"])
    BY <1>0, <2>1, <2>4 DEF Set, WorkerState, TypeOK
  <2>5. CASE Set(w, [worker[w] EXCEPT !.phase = "post"]) /\ ~Repeated(w)
    BY <1>0, <2>1, <2>5 DEF Set, WorkerState, TypeOK
  <2> QED BY <2>2, <2>3, <2>4, <2>5 DEF Start
<1>2. UNCHANGED <<job, delivery, webhook, successes, budget, errors, aborts, pauses>>
  BY DEF Start, Bounds
<1>3. worker[w].phase = "start"
  BY DEF Start
<1>4. TypeOK'
  BY <1>0, <1>1, <1>2 DEF TypeOK
<1>5. Moves(w) /\ BoundsOK'
  BY <1>0, <1>1, <1>2, <1>3 DEF Moves, BoundsOK, ClaimsOK
<1>6. ClaimsOK'
  BY <1>0, <1>5, Moving
<1>7. AcceptancesOK'
  <2>1. w \in Stale' => w \in Stale
    BY <1>0, <1>3, <1>5, Moving DEF Stale, MayReopen
  <2>2. Stale' \subseteq Stale
    BY <1>0, <1>5, <2>1, Moving DEF Stale
  <2>3. ~Repeated(w) => Open
    BY DEF Repeated, Open, HasScheduledRetry
  <2>4. Owing' => Owing
    BY <1>0, <1>1, <1>2, <1>3, <1>5, <2>3, Moving, OwingParts, OwingPartsNext DEF Open
  <2>5. successes' = successes /\ Spent' = Spent
    BY <1>2 DEF Spent
  <2>6. Spent \in Nat
    BY <1>0, SpentIsNatural
  <2> QED BY <1>0, <1>4, <1>6, <2>2, <2>4, <2>5, <2>6, Accounts
<1>8. Undisturbed' => RetryOK'
  <2> SUFFICES ASSUME Undisturbed' PROVE RetryOK'
    OBVIOUS
  <2>1. RetryOK
    BY <1>2 DEF IInv, Undisturbed
  <2>2. /\ Owns(w) /\ Owns(w)' /\ ~worker[w].aborted
        /\ \A v \in Workers \ {w} : worker'[v].phase = "idle"
    BY <1>0, <1>1, <1>2, <1>3, <2>1, Alone DEF RetryOK, Owns
  <2>3. delivery.retry => ~Repeated(w)
    <3>1. delivery.retry => delivery.attempt < worker[w].attempts /\ HasScheduledRetry
      BY <1>0, <1>3, <2>1 DEF TypeOK, RetryOK, HasScheduledRetry
    <3>2. delivery.attempt \in Nat /\ worker[w].attempts \in Nat
      BY <1>0 DEF TypeOK, Delivery, WorkerState
    <3>3. delivery.attempt < worker[w].attempts => ~(worker[w].attempts <= delivery.attempt)
      BY <3>2
    <3> QED BY <3>1, <3>3 DEF Repeated
  <2> QED BY <1>1, <1>2, <1>3, <2>1, <2>2, <2>3 DEF RetryOK
<1> QED BY <1>4, <1>6, <1>7, <1>8 DEF IInv

LEMMA CancelStep ==
  ASSUME WebhookDeliveryAssumption, IInv, NEW w \in Workers, CancelDelivery(w)
  PROVE  IInv'
<1>0. TypeOK /\ ClaimsOK /\ AcceptancesOK /\ worker[w] \in WorkerState
  BY DEF IInv, TypeOK
<1>1. /\ worker' \in [Workers -> WorkerState]
      /\ \A v \in Workers \ {w} : worker'[v] = worker[v]
      /\ worker'[w].gen = worker[w].gen /\ worker'[w].attempts = worker[w].attempts
      /\ worker'[w].aborted = worker[w].aborted
      /\ worker'[w].phase = "settle" /\ worker'[w].verdict = "done"
  BY <1>0, Concluding DEF CancelDelivery, Verdict
<1>2. UNCHANGED <<job, webhook, successes, budget, errors, aborts, pauses>>
  BY DEF CancelDelivery, Bounds
<1>3. worker[w].phase = "cancel"
  BY DEF CancelDelivery
<1>4. delivery' \in Delivery /\ ~delivery'.retry /\ ~Open'
  BY <1>0 DEF CancelDelivery, Delivery, TypeOK, Open
<1>5. TypeOK'
  BY <1>0, <1>1, <1>2, <1>4 DEF TypeOK
<1>6. Moves(w) /\ BoundsOK'
  BY <1>0, <1>1, <1>2, <1>3 DEF Moves, BoundsOK, ClaimsOK
<1>7. ClaimsOK'
  BY <1>0, <1>6, Moving
<1>8. AcceptancesOK'
  <2>1. w \notin Stale'
    BY <1>1 DEF Stale, MayReopen
  <2>2. Stale' \subseteq Stale
    BY <1>0, <1>6, <2>1, Moving DEF Stale
  <2>3. Owing' => Owing
    BY <1>0, <1>1, <1>3, <1>4, <1>6, Moving, OwingParts, OwingPartsNext
  <2>4. successes' = successes /\ Spent' = Spent /\ Spent \in Nat
    BY <1>0, <1>2, SpentIsNatural DEF Spent
  <2> QED BY <1>0, <1>5, <1>7, <2>2, <2>3, <2>4, Accounts
<1>9. Undisturbed' => RetryOK'
  <2> SUFFICES ASSUME Undisturbed' PROVE RetryOK'
    OBVIOUS
  <2>1. RetryOK
    BY <1>2 DEF IInv, Undisturbed
  <2>2. Owns(w) /\ Owns(w)' /\ \A v \in Workers \ {w} : worker'[v].phase = "idle"
    BY <1>0, <1>1, <1>2, <1>3, <2>1, Alone DEF RetryOK, Owns
  <2> QED BY <1>1, <1>2, <1>3, <1>4, <2>1, <2>2 DEF RetryOK
<1> QED BY <1>5, <1>7, <1>8, <1>9 DEF IInv

LEMMA PostStep ==
  ASSUME WebhookDeliveryAssumption, IInv, NEW w \in Workers, Post(w)
  PROVE  IInv'
<1>0. TypeOK /\ ClaimsOK /\ AcceptancesOK /\ worker[w] \in WorkerState
  BY DEF IInv, TypeOK
<1>1. PICK o \in Outcome \ {"none"} :
        /\ Set(w, [worker[w] EXCEPT !.phase = "record", !.outcome = o])
        /\ successes' = IF o = "ok" THEN successes + 1 ELSE successes
  BY DEF Post
<1>2. /\ worker' \in [Workers -> WorkerState]
      /\ \A v \in Workers \ {w} : worker'[v] = worker[v]
      /\ worker'[w].gen = worker[w].gen /\ worker'[w].attempts = worker[w].attempts
      /\ worker'[w].aborted = worker[w].aborted
      /\ worker'[w].phase = "record" /\ worker'[w].outcome = o
  <2>1. [worker[w] EXCEPT !.phase = "record", !.outcome = o] \in WorkerState
    BY <1>0 DEF WorkerState, Outcome
  <2> QED BY <1>0, <1>1, <2>1 DEF Set, WorkerState, TypeOK
<1>3. UNCHANGED <<job, delivery, webhook, budget, errors, aborts, pauses>>
  BY DEF Post, Bounds
<1>4. worker[w].phase = "post"
  BY DEF Post
<1>5. TypeOK'
  BY <1>0, <1>1, <1>2, <1>3 DEF TypeOK
<1>6. Moves(w) /\ BoundsOK'
  BY <1>0, <1>2, <1>3, <1>4 DEF Moves, BoundsOK, ClaimsOK
<1>7. ClaimsOK'
  BY <1>0, <1>6, Moving
<1>8. AcceptancesOK'
  <2>1. Spent' = Spent /\ Spent \in Nat
    BY <1>0, <1>3, SpentIsNatural DEF Spent
  <2>2. Owns(w)' <=> Owns(w)
    BY <1>0, <1>2, <1>6, Moving
  <2>3. w \in Stale' => w \in Stale /\ o # "ok"
    BY <1>2, <1>4, <2>2 DEF Stale, MayReopen
  <2>4. Stale' \subseteq Stale
    BY <1>0, <1>6, <2>3, Moving DEF Stale
  <2>5. CASE o # "ok"
    <3>1. Owing' => Owing
      BY <1>0, <1>2, <1>3, <1>4, <1>6, <2>2, Moving, OwingParts, OwingPartsNext DEF Open
    <3> QED BY <1>0, <1>1, <1>5, <1>7, <2>1, <2>4, <2>5, <3>1, Accounts
  <2>6. CASE o = "ok" /\ Owns(w)
    <3>1. Owing /\ ~Owing'
      BY <1>0, <1>2, <1>4, <1>6, <2>2, <2>6, Moving, OwingParts, OwingPartsNext
    <3> QED BY <1>0, <1>1, <1>5, <1>7, <2>1, <2>4, <2>6, <3>1, Accounts
  <2>7. CASE o = "ok" /\ ~Owns(w)
    <3>1. w \in Stale /\ Stale' \subseteq Stale \ {w}
      BY <1>4, <2>3, <2>4, <2>7 DEF Stale, MayReopen
    <3>2. Owing' => Owing
      BY <1>0, <1>2, <1>3, <1>4, <1>6, <2>2, <2>7, Moving, OwingParts, OwingPartsNext DEF Open
    <3> QED BY <1>0, <1>1, <1>5, <1>7, <2>1, <2>7, <3>1, <3>2, Accounts
  <2> QED BY <2>5, <2>6, <2>7
<1>9. Undisturbed' => RetryOK'
  <2> SUFFICES ASSUME Undisturbed' PROVE RetryOK'
    OBVIOUS
  <2>1. RetryOK
    BY <1>3 DEF IInv, Undisturbed
  <2>2. Owns(w) /\ Owns(w)' /\ \A v \in Workers \ {w} : worker'[v].phase = "idle"
    BY <1>0, <1>2, <1>3, <1>4, <2>1, Alone DEF RetryOK, Owns
  <2> QED BY <1>2, <1>3, <1>4, <2>1, <2>2 DEF RetryOK
<1> QED BY <1>5, <1>7, <1>8, <1>9 DEF IInv

\* What is recorded of an attempt.
LEMMA RecordedRow ==
  ASSUME TypeOK, NEW w \in Workers
  PROVE  /\ Recorded(w) \in Delivery
         /\ Recorded(w).attempt = worker[w].attempts /\ Recorded(w).completed
         /\ Recorded(w).retry => Recorded(w).failed /\ worker[w].attempts < MaxAttempts
         /\ worker[w].outcome = "ok" => ~Recorded(w).retry
         /\ Recorded(w).retry <=> worker[w].outcome # "ok" /\ Retries(w)
<1>1. worker[w].attempts \in Nat
  BY DEF TypeOK, WorkerState
<1>2. Retries(w) \in BOOLEAN /\ (worker[w].outcome # "ok") \in BOOLEAN
  BY DEF Retries
<1> QED BY <1>1, <1>2 DEF Recorded, Delivery, Retries

LEMMA RecordStep ==
  ASSUME WebhookDeliveryAssumption, IInv, NEW w \in Workers, Record(w)
  PROVE  IInv'
<1>0. TypeOK /\ ClaimsOK /\ AcceptancesOK /\ worker[w] \in WorkerState
  BY DEF IInv, TypeOK
<1>1. PICK v \in Verdict \ {"none"} :
        /\ Conclude(w, v)
        /\ Recorded(w).retry => v = "retry"
  <2>1. Record(w) => Conclude(w, IF worker[w].outcome = "ok" THEN "done"
                                 ELSE IF Retries(w) THEN "retry" ELSE "permanent")
    BY DEF Record
  <2>2. Recorded(w).retry => worker[w].outcome # "ok" /\ Retries(w)
    BY <1>0, RecordedRow
  <2> QED BY <2>1, <2>2 DEF Verdict
<1>2. /\ worker' \in [Workers -> WorkerState]
      /\ \A u \in Workers \ {w} : worker'[u] = worker[u]
      /\ worker'[w].gen = worker[w].gen /\ worker'[w].attempts = worker[w].attempts
      /\ worker'[w].aborted = worker[w].aborted
      /\ worker'[w].phase = "settle" /\ worker'[w].verdict = v
  BY <1>0, <1>1, Concluding
<1>3. UNCHANGED <<job, webhook, successes, budget, errors, aborts, pauses>>
  BY DEF Record, Bounds
<1>4. worker[w].phase = "record" /\ delivery' = Recorded(w)
  BY DEF Record
<1>5. TypeOK'
  BY <1>0, <1>2, <1>3, <1>4, RecordedRow DEF TypeOK
<1>6. Moves(w) /\ BoundsOK'
  BY <1>0, <1>2, <1>3, <1>4 DEF Moves, BoundsOK, ClaimsOK
<1>7. ClaimsOK'
  BY <1>0, <1>6, Moving
<1>8. AcceptancesOK'
  <2>1. Spent' = Spent /\ Spent \in Nat
    BY <1>0, <1>3, SpentIsNatural DEF Spent
  <2>2. w \notin Stale'
    BY <1>2 DEF Stale, MayReopen
  <2>3. Stale' \subseteq Stale \ {w}
    BY <1>0, <1>6, <2>2, Moving DEF Stale
  <2>4. worker[w].outcome = "ok" => ~Open'
    BY <1>0, <1>4, RecordedRow DEF Open
  <2>5. CASE Owns(w) \/ worker[w].outcome = "ok"
    <3>1. Owing' => Owing
      BY <1>0, <1>2, <1>4, <1>6, <2>4, <2>5, Moving, OwingParts, OwingPartsNext
    <3> QED BY <1>0, <1>3, <1>5, <1>7, <2>1, <2>3, <3>1, Accounts
  <2>6. CASE ~Owns(w) /\ worker[w].outcome # "ok"
    <3>1. w \in Stale
      BY <1>4, <2>6 DEF Stale, MayReopen
    <3> QED BY <1>0, <1>3, <1>5, <1>7, <2>1, <2>3, <3>1, Accounts
  <2> QED BY <2>5, <2>6
<1>9. Undisturbed' => RetryOK'
  <2> SUFFICES ASSUME Undisturbed' PROVE RetryOK'
    OBVIOUS
  <2>1. RetryOK
    BY <1>3 DEF IInv, Undisturbed
  <2>2. /\ Owns(w) /\ Owns(w)' /\ ~worker[w].aborted /\ worker[w].attempts = job.attempts
        /\ \A u \in Workers \ {w} : worker'[u].phase = "idle"
    BY <1>0, <1>2, <1>3, <1>4, <2>1, Alone DEF RetryOK, Owns
  <2>3. job.state = "running" /\ worker[w].attempts \in Nat /\ job.attempts \in Nat
    BY <1>0, <2>2 DEF Owns, TypeOK, Job, WorkerState
  <2> QED BY <1>0, <1>1, <1>2, <1>3, <1>4, <2>2, <2>3, RecordedRow DEF RetryOK
<1> QED BY <1>5, <1>7, <1>8, <1>9 DEF IInv

LEMMA RecordErrsStep ==
  ASSUME WebhookDeliveryAssumption, IInv, NEW w \in Workers, RecordErrs(w)
  PROVE  IInv'
<1>0. TypeOK /\ ClaimsOK /\ AcceptancesOK /\ worker[w] \in WorkerState
  BY DEF IInv, TypeOK
<1>1. /\ worker' \in [Workers -> WorkerState]
      /\ \A u \in Workers \ {w} : worker'[u] = worker[u]
      /\ worker'[w].gen = worker[w].gen
      /\ \/ worker'[w].phase = "settle" /\ worker'[w].verdict = "retry"
         \/ /\ worker'[w].phase = "record" /\ worker'[w].outcome = "transport"
            /\ worker[w].outcome # "transport"
  <2>1. CASE Conclude(w, "retry")
    BY <1>0, <2>1, Concluding DEF Verdict
  <2>2. CASE /\ worker[w].outcome # "transport"
             /\ Set(w, [worker[w] EXCEPT !.outcome = "transport"])
    <3>1. [worker[w] EXCEPT !.outcome = "transport"] \in WorkerState
      BY <1>0 DEF WorkerState, Outcome
    <3> QED BY <1>0, <2>2, <3>1 DEF Set, WorkerState, TypeOK, RecordErrs
  <2> QED BY <2>1, <2>2 DEF RecordErrs
<1>2. UNCHANGED <<job, webhook, successes, budget, aborts, pauses>>
  BY DEF RecordErrs
<1>3. worker[w].phase = "record" /\ delivery' \in {delivery, Recorded(w)}
  BY DEF RecordErrs
<1>4. errors > 0 /\ errors' = errors - 1 /\ errors' \in Nat
  BY <1>0 DEF RecordErrs, TypeOK
<1>5. TypeOK'
  BY <1>0, <1>1, <1>2, <1>3, <1>4, RecordedRow DEF TypeOK
<1>6. Moves(w) /\ BoundsOK'
  <2>1. Moves(w)
    BY <1>0, <1>1, <1>2, <1>3 DEF Moves
  <2>2. errors - 1 <= Errors
    BY <1>0, <1>4 DEF ClaimsOK, TypeOK, WebhookDeliveryAssumption
  <2> QED BY <1>0, <1>2, <1>4, <2>1, <2>2 DEF BoundsOK, ClaimsOK
<1>7. ClaimsOK'
  BY <1>0, <1>6, Moving
<1>8. AcceptancesOK'
  <2>1. Spent' = Spent + 1
    BY <1>0, <1>2, <1>4 DEF Spent, TypeOK, ClaimsOK, WebhookDeliveryAssumption
  <2>2. Stale' \subseteq Stale \cup {w}
    BY <1>0, <1>6, Moving DEF Stale
  <2>3. CASE Owns(w) \/ worker[w].outcome # "ok"
    <3>1. w \in Stale' => w \in Stale
      BY <1>0, <1>1, <1>3, <1>6, <2>3, Moving DEF Stale, MayReopen
    <3>2. Stale' \subseteq Stale
      BY <2>2, <3>1
    <3> QED BY <1>0, <1>2, <1>5, <1>7, <2>1, <3>2, Accounts
  <2>4. CASE ~Owns(w) /\ worker[w].outcome = "ok"
    <3>1. Open' => Open
      BY <1>0, <1>3, <2>4, RecordedRow DEF Open
    <3>2. Owing' => Owing
      BY <1>0, <1>1, <1>3, <1>6, <2>4, <3>1, Moving, OwingParts, OwingPartsNext
    <3> QED BY <1>0, <1>2, <1>5, <1>7, <2>1, <2>2, <3>2, Accounts
  <2> QED BY <2>3, <2>4
<1>9. ~Undisturbed'
  BY <1>0, <1>4 DEF Undisturbed, ClaimsOK, TypeOK, WebhookDeliveryAssumption
<1> QED BY <1>5, <1>7, <1>8, <1>9 DEF IInv

LEMMA AbortStep ==
  ASSUME WebhookDeliveryAssumption, IInv, NEW w \in Workers, Abort(w)
  PROVE  IInv'
<1>0. TypeOK /\ ClaimsOK /\ AcceptancesOK /\ worker[w] \in WorkerState
  BY DEF IInv, TypeOK
<1>1. /\ worker' \in [Workers -> WorkerState]
      /\ \A v \in Workers \ {w} : worker'[v] = worker[v]
      /\ worker'[w].gen = worker[w].gen /\ worker'[w].phase = worker[w].phase
      /\ worker'[w].outcome = worker[w].outcome /\ worker'[w].verdict = worker[w].verdict
  <2>1. [worker[w] EXCEPT !.aborted = TRUE] \in WorkerState
    BY <1>0 DEF WorkerState
  <2> QED BY <1>0, <2>1 DEF Abort, Set, WorkerState, TypeOK
<1>2. UNCHANGED <<job, delivery, webhook, successes, budget, errors, pauses>>
  BY DEF Abort
<1>3. /\ worker[w].phase # "idle"
      /\ aborts > 0 /\ aborts' = aborts - 1 /\ aborts' \in Nat
  BY <1>0 DEF Abort, TypeOK
<1>4. TypeOK'
  BY <1>0, <1>1, <1>2, <1>3 DEF TypeOK
<1>5. Moves(w) /\ BoundsOK'
  <2>1. Moves(w)
    BY <1>0, <1>1, <1>2, <1>3 DEF Moves, ClaimsOK
  <2>2. aborts - 1 <= Aborts
    BY <1>0, <1>3 DEF ClaimsOK, TypeOK, WebhookDeliveryAssumption
  <2> QED BY <1>0, <1>2, <1>3, <2>1, <2>2 DEF BoundsOK, ClaimsOK
<1>6. ClaimsOK'
  BY <1>0, <1>5, Moving
<1>7. AcceptancesOK'
  <2>1. w \in Stale' => w \in Stale
    BY <1>0, <1>1, <1>3, <1>5, Moving DEF Stale, MayReopen
  <2>2. Stale' \subseteq Stale
    BY <1>0, <1>5, <2>1, Moving DEF Stale
  <2>3. Owing' => Owing
    BY <1>0, <1>1, <1>2, <1>3, <1>5, Moving, OwingParts, OwingPartsNext DEF Open
  <2>4. Spent' = Spent /\ Spent \in Nat
    BY <1>0, <1>2, SpentIsNatural DEF Spent
  <2> QED BY <1>0, <1>2, <1>4, <1>6, <2>2, <2>3, <2>4, Accounts
<1>8. ~Undisturbed'
  BY <1>0, <1>3 DEF Undisturbed, ClaimsOK, TypeOK, WebhookDeliveryAssumption
<1> QED BY <1>4, <1>6, <1>7, <1>8 DEF IInv

\* One more crash or lost lease is paid for.
LEMMA Spending ==
  ASSUME WebhookDeliveryAssumption, TypeOK, ClaimsOK, Spend
  PROVE  BoundsOK' /\ budget' \in Nat /\ Spent' = Spent + 1
<1>1. budget' \in Nat /\ budget' = budget - 1 /\ UNCHANGED <<errors, aborts, pauses>>
  BY DEF Spend, TypeOK
<1>2. budget - 1 <= Budget
  BY <1>1 DEF TypeOK, ClaimsOK, WebhookDeliveryAssumption
<1>3. Spent' = Spent + 1
  BY <1>1 DEF Spent, TypeOK, ClaimsOK, WebhookDeliveryAssumption
<1> QED BY <1>1, <1>2, <1>3 DEF BoundsOK, ClaimsOK

LEMMA CrashStep ==
  ASSUME WebhookDeliveryAssumption, IInv, NEW w \in Workers, Crash(w)
  PROVE  IInv'
<1>0. TypeOK /\ ClaimsOK /\ AcceptancesOK /\ worker[w] \in WorkerState
  BY DEF IInv, TypeOK
<1>1. /\ worker' \in [Workers -> WorkerState]
      /\ \A v \in Workers \ {w} : worker'[v] = worker[v]
      /\ worker'[w].phase = "idle"
  BY <1>0, IdleType, OnePassMoves DEF Crash, TypeOK, IdleWorker
<1>2. worker[w].phase # "idle" /\ Spend /\ UNCHANGED <<job, delivery, webhook, successes>>
  BY DEF Crash
<1>3. BoundsOK' /\ budget' \in Nat /\ Spent' = Spent + 1
      /\ UNCHANGED <<errors, aborts, pauses>>
  BY <1>0, <1>2, Spending DEF Spend
<1>4. TypeOK'
  BY <1>0, <1>1, <1>2, <1>3 DEF TypeOK
<1>5. Moves(w)
  BY <1>1, <1>2 DEF Moves
<1>6. ClaimsOK'
  BY <1>0, <1>3, <1>5, Moving
<1>7. AcceptancesOK'
  <2>1. w \notin Stale'
    BY <1>1 DEF Stale, MayReopen
  <2>2. Stale' \subseteq Stale
    BY <1>0, <1>3, <1>5, <2>1, Moving DEF Stale
  <2> QED BY <1>0, <1>2, <1>3, <1>4, <1>6, <2>2, Accounts
<1>8. Undisturbed' => RetryOK'
  <2> SUFFICES ASSUME Undisturbed' PROVE RetryOK'
    OBVIOUS
  <2>1. RetryOK
    BY <1>3 DEF IInv, Undisturbed
  <2>2. \A v \in Workers : worker'[v].phase = "idle"
    BY <1>0, <1>1, <1>2, <2>1, Alone
  <2> QED BY <1>2, <2>1, <2>2 DEF RetryOK
<1> QED BY <1>4, <1>6, <1>7, <1>8 DEF IInv

-----------------------------------------------------------------------------
(* The steps that change the claim in force. *)

\* A pass lets go of the job, or finds that it has lost it.
LEMMA Leaving ==
  ASSUME TypeOK, ClaimsOK, NEW w \in Workers, worker[w].phase = "settle",
         Set(w, IdleWorker), UNCHANGED delivery, BoundsOK',
         NEW j \in Job, ~j.live, j.gen = job.gen, j.state # "running",
         job' = IF Owns(w) THEN j ELSE job
  PROVE  ClaimsOK' /\ Stale' \subseteq Stale /\ (Owing' => Owing)
<1>1. /\ worker' \in [Workers -> WorkerState]
      /\ \A v \in Workers \ {w} : worker'[v] = worker[v]
      /\ worker'[w].phase = "idle"
  BY IdleType, OnePassMoves DEF TypeOK, IdleWorker
<1>2. job'.gen = job.gen /\ job' \in Job
  BY DEF TypeOK
<1>3. ClaimsOK'
  <2>1. (job'.live => job'.state = "running") /\ (job'.state = "running" => job'.attempts >= 1)
    BY DEF ClaimsOK
  <2> QED BY <1>1, <1>2, <2>1 DEF ClaimsOK, BoundsOK
<1>4. \A v \in Workers \ {w} : worker[v].phase # "idle" => (Owns(v)' <=> Owns(v))
  <2>1. CASE Owns(w)
    <3>1. \A v \in Workers \ {w} : worker[v].phase # "idle" => ~Owns(v)
      BY <2>1, OneOwner
    <3>2. \A v \in Workers : ~Owns(v)'
      BY <2>1 DEF Owns
    <3> QED BY <3>1, <3>2
  <2>2. CASE ~Owns(w)
    BY <1>1, <2>2 DEF Owns
  <2> QED BY <2>1, <2>2
<1>5. Stale' \subseteq Stale
  BY <1>1, <1>4 DEF Stale, MayReopen
<1>6. Owing' => Owing
  <2>1. OthersFailed(w)' => OthersFailed(w)
    BY <1>1, <1>4 DEF OthersFailed
  <2>2. OthersOwe(w)' => OthersOwe(w)
    BY <1>1, <1>4 DEF OthersOwe
  <2>3. Open' <=> Open
    BY DEF Open
  <2> QED BY <1>1, <2>1, <2>2, <2>3, OwingParts, OwingPartsNext
<1> QED BY <1>3, <1>5, <1>6

LEMMA DeferredRow ==
  ASSUME TypeOK, ClaimsOK, job.state = "running"
  PROVE  /\ Deferred \in Job /\ ~Deferred.live /\ Deferred.gen = job.gen
         /\ Deferred.state = "queued"
<1>1. job.attempts - 1 \in Nat
  BY DEF TypeOK, ClaimsOK, Job
<1> QED BY <1>1 DEF TypeOK, Job, Deferred

LEMMA EndedRow ==
  ASSUME TypeOK, NEW s \in {"queued", "completed", "dead_letter"}
  PROVE  /\ Ended(s) \in Job /\ ~Ended(s).live /\ Ended(s).gen = job.gen
         /\ Ended(s).state = s /\ Ended(s).attempts = job.attempts
BY DEF TypeOK, Job, Ended

LEMMA SettledRow ==
  ASSUME WebhookDeliveryAssumption, TypeOK, ClaimsOK,
         NEW w \in Workers, worker[w].phase = "settle", Owns(w)
  PROVE  /\ Settled(w) \in Job /\ ~Settled(w).live /\ Settled(w).gen = job.gen
         /\ Settled(w).state # "running"
         /\ (/\ ~worker[w].aborted /\ worker[w].verdict = "retry"
             /\ worker[w].attempts < MaxAttempts)
              => Settled(w).state = "queued" /\ Settled(w).attempts = job.attempts
<1>1. worker[w].verdict \in {"done", "retry", "permanent"} /\ worker[w].attempts \in Nat
  BY DEF TypeOK, ClaimsOK, WorkerState, Verdict
<1>2. CASE worker[w].aborted
  BY <1>2, DeferredRow DEF Settled, Owns
<1>3. CASE ~worker[w].aborted /\ worker[w].verdict = "done"
  BY <1>3, EndedRow DEF Settled
<1>4. CASE ~worker[w].aborted /\ worker[w].verdict = "permanent"
  BY <1>4, EndedRow DEF Settled
<1>5. CASE ~worker[w].aborted /\ worker[w].verdict = "retry"
  <2>1. Settled(w) = Ended(IF worker[w].attempts >= MaxAttempts THEN "dead_letter" ELSE "queued")
    BY <1>5 DEF Settled
  <2>2. worker[w].attempts < MaxAttempts => ~(worker[w].attempts >= MaxAttempts)
    BY <1>1 DEF WebhookDeliveryAssumption
  <2> QED BY <2>1, <2>2, EndedRow
<1> QED BY <1>1, <1>2, <1>3, <1>4, <1>5

LEMMA SettleStep ==
  ASSUME WebhookDeliveryAssumption, IInv, NEW w \in Workers, Settle(w)
  PROVE  IInv'
<1>0. TypeOK /\ ClaimsOK /\ AcceptancesOK
  BY DEF IInv
<1>1. /\ worker[w].phase = "settle" /\ Set(w, IdleWorker)
      /\ UNCHANGED <<delivery, webhook, successes, budget, errors, aborts, pauses>>
      /\ job' = IF Owns(w) THEN Settled(w) ELSE job
  BY DEF Settle, Bounds
<1>2. PICK j \in Job :
        /\ ~j.live /\ j.gen = job.gen /\ j.state # "running"
        /\ job' = IF Owns(w) THEN j ELSE job
        /\ Owns(w) => j = Settled(w)
  <2>1. CASE Owns(w)
    BY <1>0, <1>1, <2>1, SettledRow
  <2>2. CASE ~Owns(w)
    <3>1. Ended("completed") \in Job /\ ~Ended("completed").live
          /\ Ended("completed").gen = job.gen /\ Ended("completed").state # "running"
      BY <1>0, EndedRow
    <3> QED BY <1>1, <2>2, <3>1
  <2> QED BY <2>1, <2>2
<1>3. /\ worker' \in [Workers -> WorkerState]
      /\ \A v \in Workers \ {w} : worker'[v] = worker[v]
      /\ worker'[w].phase = "idle"
  BY <1>0, <1>1, IdleType, OnePassMoves DEF TypeOK, IdleWorker
<1>4. TypeOK'
  BY <1>0, <1>1, <1>2, <1>3 DEF TypeOK
<1>5. BoundsOK'
  BY <1>0, <1>1 DEF BoundsOK, ClaimsOK
<1>6. ClaimsOK' /\ Stale' \subseteq Stale /\ (Owing' => Owing)
  BY <1>0, <1>1, <1>2, <1>5, Leaving
<1>7. AcceptancesOK'
  <2>1. Spent' = Spent /\ Spent \in Nat
    BY <1>0, <1>1, SpentIsNatural DEF Spent
  <2> QED BY <1>0, <1>1, <1>4, <1>6, <2>1, Accounts
<1>8. Undisturbed' => RetryOK'
  <2> SUFFICES ASSUME Undisturbed' PROVE RetryOK'
    OBVIOUS
  <2>1. RetryOK
    BY <1>1 DEF IInv, Undisturbed
  <2>2. /\ Owns(w) /\ ~worker[w].aborted
        /\ \A v \in Workers : worker'[v].phase = "idle"
    BY <1>0, <1>1, <1>3, <2>1, Alone DEF RetryOK
  <2>3. delivery.retry =>
          /\ worker[w].verdict = "retry" /\ worker[w].attempts < MaxAttempts
          /\ delivery.attempt <= job.attempts
    BY <1>1, <2>1 DEF RetryOK
  <2>4. delivery.retry => job'.state = "queued" /\ delivery.attempt <= job'.attempts
    BY <1>0, <1>1, <2>2, <2>3, SettledRow
  <2> QED BY <1>1, <2>2, <2>4 DEF RetryOK
<1> QED BY <1>4, <1>6, <1>7, <1>8 DEF IInv

LEMMA RenewFailsStep ==
  ASSUME WebhookDeliveryAssumption, IInv, NEW w \in Workers, RenewFails(w)
  PROVE  IInv'
<1>0. TypeOK /\ ClaimsOK /\ AcceptancesOK
  BY DEF IInv
<1>1. /\ worker[w].phase = "settle" /\ worker[w].verdict = "done" /\ Set(w, IdleWorker)
      /\ UNCHANGED <<delivery, webhook, successes>>
      /\ job' = IF Owns(w) THEN Deferred ELSE job
      /\ Spend
  BY DEF RenewFails
<1>2. BoundsOK' /\ budget' \in Nat /\ Spent' = Spent + 1
      /\ UNCHANGED <<errors, aborts, pauses>>
  BY <1>0, <1>1, Spending DEF Spend
<1>3. PICK j \in Job :
        /\ ~j.live /\ j.gen = job.gen /\ j.state # "running"
        /\ job' = IF Owns(w) THEN j ELSE job
  <2>1. CASE Owns(w)
    BY <1>0, <1>1, <2>1, DeferredRow DEF Owns
  <2>2. CASE ~Owns(w)
    <3>1. Ended("completed") \in Job /\ ~Ended("completed").live
          /\ Ended("completed").gen = job.gen /\ Ended("completed").state # "running"
      BY <1>0, EndedRow
    <3> QED BY <1>1, <2>2, <3>1
  <2> QED BY <2>1, <2>2
<1>4. /\ worker' \in [Workers -> WorkerState]
      /\ \A v \in Workers \ {w} : worker'[v] = worker[v]
      /\ worker'[w].phase = "idle"
  BY <1>0, <1>1, IdleType, OnePassMoves DEF TypeOK, IdleWorker
<1>5. TypeOK'
  BY <1>0, <1>1, <1>2, <1>3, <1>4 DEF TypeOK
<1>6. ClaimsOK' /\ Stale' \subseteq Stale /\ (Owing' => Owing)
  BY <1>0, <1>1, <1>2, <1>3, Leaving
<1>7. AcceptancesOK'
  BY <1>0, <1>1, <1>2, <1>5, <1>6, Accounts
<1>8. Undisturbed' => RetryOK'
  <2> SUFFICES ASSUME Undisturbed' PROVE RetryOK'
    OBVIOUS
  <2>1. RetryOK
    BY <1>2 DEF IInv, Undisturbed
  <2>2. \A v \in Workers : worker'[v].phase = "idle"
    BY <1>0, <1>1, <1>4, <2>1, Alone
  <2>3. ~delivery.retry
    BY <1>1, <2>1 DEF RetryOK
  <2> QED BY <1>1, <2>2, <2>3 DEF RetryOK
<1> QED BY <1>5, <1>6, <1>7, <1>8 DEF IInv

LEMMA ClaimStep ==
  ASSUME WebhookDeliveryAssumption, IInv, NEW w \in Workers, Claim(w)
  PROVE  IInv'
<1>0. TypeOK /\ ClaimsOK /\ AcceptancesOK /\ job.gen \in Nat /\ job.attempts \in Nat
  BY DEF IInv, TypeOK, Job
<1>1. /\ worker[w].phase = "idle"
      /\ UNCHANGED <<delivery, webhook, successes, budget, errors, aborts, pauses>>
  BY DEF Claim, Bounds
<1>2. PICK n \in Nat, g \in Nat : n = job.attempts + 1 /\ g = job.gen + 1
  BY <1>0
<1>3. /\ job' \in Job /\ job'.state = "running" /\ job'.live
      /\ job'.attempts = n /\ job'.gen = g
  BY <1>2 DEF Claim, Job
<1>4. /\ worker' \in [Workers -> WorkerState]
      /\ \A v \in Workers \ {w} : worker'[v] = worker[v]
      /\ worker'[w].phase = "start" /\ worker'[w].gen = g /\ worker'[w].attempts = n
      /\ ~worker'[w].aborted
  <2>1. /\ [IdleWorker EXCEPT !.phase = "start", !.attempts = n, !.gen = g] \in WorkerState
        /\ Set(w, [IdleWorker EXCEPT !.phase = "start", !.attempts = n, !.gen = g])
    BY <1>2 DEF Claim, IdleWorker, WorkerState, Outcome, Verdict
  <2> QED BY <1>0, <2>1 DEF Set, TypeOK, IdleWorker
<1>5. \A v \in Workers : ~Owns(v)
  BY DEF Claim, Claimable, Owns
<1>6. \A v \in Workers \ {w} :
        worker[v].phase # "idle" => worker[v].gen # g /\ worker[v].gen <= g
  <2> SUFFICES ASSUME NEW v \in Workers \ {w}, worker[v].phase # "idle"
               PROVE  worker[v].gen # g /\ worker[v].gen <= g
    OBVIOUS
  <2>1. worker[v].gen \in Nat /\ worker[v].gen <= job.gen
    BY <1>0 DEF TypeOK, ClaimsOK, WorkerState
  <2> QED BY <1>0, <1>2, <2>1
<1>7. Owns(w)' /\ \A v \in Workers \ {w} : worker'[v].phase # "idle" => ~Owns(v)'
  BY <1>3, <1>4, <1>6 DEF Owns
<1>8. TypeOK'
  BY <1>0, <1>1, <1>3, <1>4 DEF TypeOK
<1>9. ClaimsOK'
  <2>1. n >= 1
    BY <1>0, <1>2
  <2>2. worker'[w].gen <= job'.gen
    BY <1>2, <1>3, <1>4
  <2> QED BY <1>0, <1>1, <1>3, <1>4, <1>6, <2>1, <2>2 DEF ClaimsOK
<1>10. AcceptancesOK'
  <2>1. Stale' \subseteq Stale
    BY <1>4, <1>5, <1>7 DEF Stale, MayReopen
  <2>2. Owing' => Owing
    <3>1. Owing' => Open
      BY <1>1, <1>4, <1>7, OwingPartsNext DEF Open, OthersOwe
    <3>2. Open => Owing
      BY <1>5 DEF Open, Owing
    <3> QED BY <3>1, <3>2
  <2>3. Spent' = Spent /\ Spent \in Nat
    BY <1>0, <1>1, SpentIsNatural DEF Spent
  <2> QED BY <1>0, <1>1, <1>8, <1>9, <2>1, <2>2, <2>3, Accounts
<1>11. Undisturbed' => RetryOK'
  <2> SUFFICES ASSUME Undisturbed' PROVE RetryOK'
    OBVIOUS
  <2>1. RetryOK
    BY <1>1 DEF IInv, Undisturbed
  <2>2. \A v \in Workers \ {w} : worker'[v].phase = "idle"
    BY <1>4, <1>5, <2>1 DEF RetryOK
  <2>3. delivery.retry => delivery.attempt < n /\ delivery.attempt <= n
    <3>1. delivery.attempt \in Nat
      BY <1>0 DEF TypeOK, Delivery
    <3>2. delivery.retry => delivery.attempt <= job.attempts
      BY <2>1 DEF RetryOK
    <3> QED BY <1>0, <1>2, <3>1, <3>2
  <2> QED BY <1>1, <1>3, <1>4, <1>7, <2>2, <2>3 DEF RetryOK
<1> QED BY <1>8, <1>9, <1>10, <1>11 DEF IInv

LEMMA LeaseExpiresStep ==
  ASSUME WebhookDeliveryAssumption, IInv, LeaseExpires
  PROVE  IInv'
<1>0. TypeOK /\ ClaimsOK /\ AcceptancesOK
  BY DEF IInv
<1>1. /\ job.state = "running" /\ job.live /\ job' = [job EXCEPT !.live = FALSE]
      /\ UNCHANGED <<delivery, webhook, worker, successes, budget, errors, aborts>>
  BY DEF LeaseExpires
<1>2. /\ job' \in Job /\ job'.state = "running" /\ job'.attempts = job.attempts
      /\ job'.gen = job.gen /\ ~job'.live
  BY <1>0, <1>1 DEF TypeOK, Job
<1>3. /\ pauses' \in Nat /\ pauses' <= Pauses
      /\ \/ ~Tended /\ pauses' = pauses
         \/ Tended /\ pauses > 0 /\ Spent' = Spent + 1
  <2>1. CASE ~Tended /\ pauses' = pauses
    BY <1>0, <2>1 DEF TypeOK, ClaimsOK
  <2>2. CASE Tended /\ pauses > 0 /\ pauses' = pauses - 1
    <3>1. pauses - 1 \in Nat /\ pauses - 1 <= Pauses
      BY <1>0, <2>2 DEF TypeOK, ClaimsOK, WebhookDeliveryAssumption
    <3>2. Spent' = Spent + 1
      BY <1>0, <1>1, <2>2 DEF Spent, TypeOK, ClaimsOK, WebhookDeliveryAssumption
    <3> QED BY <2>2, <3>1, <3>2
  <2> QED BY <2>1, <2>2 DEF LeaseExpires
<1>4. TypeOK'
  BY <1>0, <1>1, <1>2, <1>3 DEF TypeOK
<1>5. ClaimsOK'
  BY <1>0, <1>1, <1>2, <1>3 DEF ClaimsOK
<1>6. \A v \in Workers : ~Owns(v)'
  BY <1>2 DEF Owns
<1>7. Owing' => Open
  BY <1>1, <1>6 DEF Owing, Open
<1>8. \A v \in Workers : worker[v].phase # "idle" /\ Owns(v) => Tended
  BY DEF Owns, Tended
<1>9. AcceptancesOK'
  <2>1. CASE \A v \in Workers : worker[v].phase # "idle" => ~Owns(v)
    <3>1. Stale' \subseteq Stale
      BY <1>1, <2>1 DEF Stale, MayReopen
    <3>2. Open => Owing
      BY <2>1 DEF Open, Owing
    <3>3. Spent' >= Spent
      BY <1>0, <1>1, <1>3, SpentIsNatural DEF Spent
    <3> QED BY <1>0, <1>1, <1>4, <1>5, <1>7, <3>1, <3>2, <3>3, Accounts
  <2>2. CASE \E v \in Workers : worker[v].phase # "idle" /\ Owns(v)
    <3>1. PICK w \in Workers : worker[w].phase # "idle" /\ Owns(w)
      BY <2>2
    <3>2. \A v \in Workers \ {w} : worker[v].phase # "idle" => ~Owns(v)
      BY <1>0, <3>1, OneOwner
    <3>3. Spent' = Spent + 1
      BY <1>3, <1>8, <3>1
    <3>4. Stale' \subseteq Stale \cup {w}
      BY <1>1, <3>2 DEF Stale, MayReopen
    <3>5. CASE MayReopen(w)
      <4>1. Open => Owing
        BY <3>2, <3>5 DEF Open, Owing, MayReopen
      <4> QED BY <1>0, <1>1, <1>4, <1>5, <1>7, <3>3, <3>4, <4>1, Accounts
    <3>6. CASE ~MayReopen(w)
      <4>1. Stale' \subseteq Stale
        BY <1>1, <3>4, <3>6 DEF Stale, MayReopen
      <4> QED BY <1>0, <1>1, <1>4, <1>5, <3>3, <4>1, Accounts
    <3> QED BY <3>5, <3>6
  <2> QED BY <2>1, <2>2
<1>10. Undisturbed' => RetryOK'
  <2> SUFFICES ASSUME Undisturbed' PROVE RetryOK'
    OBVIOUS
  <2>1. ~Tended /\ pauses' = pauses
    BY <1>0 DEF Undisturbed, TypeOK, ClaimsOK, LeaseExpires, WebhookDeliveryAssumption
  <2>2. RetryOK
    BY <1>1, <2>1 DEF IInv, Undisturbed
  <2>3. \A v \in Workers : worker'[v].phase = "idle"
    BY <1>1, <1>8, <2>1, <2>2 DEF RetryOK
  <2> QED BY <1>1, <1>2, <2>2, <2>3 DEF RetryOK
<1> QED BY <1>4, <1>5, <1>9, <1>10 DEF IInv

LEMMA DisableStep ==
  ASSUME WebhookDeliveryAssumption, IInv, UNCHANGED <<job, delivery, worker, successes, Bounds>>,
         webhook' \in {"active", "disabled"}
  PROVE  IInv'
<1>0. TypeOK /\ ClaimsOK /\ AcceptancesOK
      /\ UNCHANGED <<job, delivery, worker, successes, budget, errors, aborts, pauses>>
  BY DEF IInv, Bounds
<1>1. TypeOK'
  BY <1>0 DEF TypeOK
<1>2. ClaimsOK'
  BY <1>0 DEF ClaimsOK
<1>3. Stale' \subseteq Stale /\ (Owing' => Owing)
  BY <1>0 DEF Stale, MayReopen, Owns, Owing
<1>4. Spent' = Spent /\ Spent \in Nat
  BY <1>0, SpentIsNatural DEF Spent
<1>5. AcceptancesOK'
  BY <1>0, <1>1, <1>2, <1>3, <1>4, Accounts
<1>6. Undisturbed' => RetryOK'
  BY <1>0 DEF IInv, Undisturbed, RetryOK, Owns
<1> QED BY <1>1, <1>2, <1>5, <1>6 DEF IInv

-----------------------------------------------------------------------------
(* The theorems. *)

LEMMA Initially ==
  ASSUME WebhookDeliveryAssumption, Init
  PROVE  IInv
<1>1. \A w \in Workers : worker[w] = IdleWorker /\ worker[w].phase = "idle"
  BY DEF Init, IdleWorker
<1>2. TypeOK
  BY IdleType DEF Init, TypeOK, Job, Delivery, WebhookDeliveryAssumption
<1>3. ClaimsOK
  BY <1>1 DEF Init, ClaimsOK, WebhookDeliveryAssumption
<1>4. AcceptancesOK
  <2>1. Stale = {}
    BY <1>1 DEF Stale, MayReopen
  <2>2. Spent = 0
    BY DEF Init, Spent, WebhookDeliveryAssumption
  <2>3. successes = 0
    BY DEF Init
  <2> QED BY <2>1, <2>2, <2>3, FS_EmptySet DEF AcceptancesOK
<1>5. RetryOK
  BY <1>1 DEF Init, RetryOK
<1> QED BY <1>2, <1>3, <1>4, <1>5 DEF IInv

LEMMA Preserved ==
  ASSUME WebhookDeliveryAssumption, IInv, [Next]_vars
  PROVE  IInv'
<1>1. CASE \E w \in Workers : Claim(w) \/ Abort(w) \/ Step(w)
  BY <1>1, ClaimStep, AbortStep, StartStep, CancelStep, PostStep, RecordStep, SettleStep DEF Step
<1>2. CASE \E w \in Workers : RecordErrs(w) \/ RenewFails(w) \/ Crash(w)
  BY <1>2, RecordErrsStep, RenewFailsStep, CrashStep
<1>3. CASE LeaseExpires
  BY <1>3, LeaseExpiresStep
<1>4. CASE Disable
  BY <1>4, DisableStep DEF Disable
<1>5. CASE UNCHANGED vars
  BY <1>5, DisableStep DEF vars, Bounds, IInv, TypeOK
<1> QED BY <1>1, <1>2, <1>3, <1>4, <1>5 DEF Next

\* The claims of the job stay distinct, and every acceptance of the event is either the
\* one that was owed or was paid for by a disturbance.
THEOREM WebhookInvariance ==
  ASSUME WebhookDeliveryAssumption
  PROVE  Spec => []IInv
<1>1. Init => IInv
  BY Initially
<1>2. IInv /\ [Next]_vars => IInv'
  BY Preserved
<1> QED BY <1>1, <1>2, PTL DEF Spec

\* The rows and locals keep their shape, and a retry is scheduled only for a failed
\* attempt that is not the last.
THEOREM WebhookTypes ==
  ASSUME WebhookDeliveryAssumption
  PROVE  Spec => []TypeOK
<1>1. IInv => TypeOK
  BY DEF IInv
<1> QED BY <1>1, WebhookInvariance, PTL

LEMMA AcceptancesAreCovered ==
  ASSUME WebhookDeliveryAssumption, IInv
  PROVE  SuccessesBounded
<1>1. TypeOK /\ ClaimsOK /\ AcceptancesOK
  BY DEF IInv
<1>2. Strayed \in Nat /\ Owed \in Nat /\ Spent \in Nat /\ successes \in Nat
  BY <1>1, FS_CardinalityType, SpentIsNatural DEF AcceptancesOK, Strayed, Owed, TypeOK
<1>3. successes + Strayed + Owed <= 1 + Spent
  BY <1>1 DEF AcceptancesOK, Strayed, Owed
<1>4. successes <= 1 + Spent
  BY <1>2, <1>3
<1>5. 1 + Spent = 1 + (Budget - budget) + (Errors - errors) + (Pauses - pauses)
  BY <1>1 DEF Spent, TypeOK, WebhookDeliveryAssumption
<1> QED BY <1>4, <1>5 DEF SuccessesBounded

\* The destination accepts the event once, and once more for every crash, failed
\* statement or lost lease that kept an acceptance from being recorded; also when
\* handlers run on after their lease has passed to another.
THEOREM DestinationAcceptsOnce ==
  ASSUME WebhookDeliveryAssumption
  PROVE  Spec => []SuccessesBounded
<1>1. IInv => SuccessesBounded
  BY AcceptancesAreCovered
<1> QED BY <1>1, WebhookInvariance, PTL

\* The same, and a scheduled retry is made unless a time limit, a failed statement or a
\* handler that ran on past its lease came between.
THEOREM DeliveryIsExact ==
  ASSUME WebhookDeliveryAssumption
  PROVE  Spec => []DeliveriesAreExact
<1>1. IInv => SuccessesBounded
  BY AcceptancesAreCovered
<1>2. IInv => RetriesAreMade
  BY DEF IInv, Undisturbed, RetryOK, RetriesAreMade, NoStrandedRetry
<1>3. IInv => DeliveriesAreExact
  BY <1>1, <1>2 DEF DeliveriesAreExact
<1> QED BY <1>3, WebhookInvariance, PTL

=============================================================================
