--------------------------- MODULE AuthEmailOutbox ---------------------------
(***************************************************************************)
(* The encrypted outbox of authentication mail                             *)
(* (src/modules/auth/email-outbox.ts) and the workspace invitation that    *)
(* some of its rows belong to (src/modules/settings/workspace-members.ts). *)
(* Rows are enqueued inside the transaction that needs the mail, claimed   *)
(* under a 60 second lease, delivered outside any transaction and settled  *)
(* if the claim is still the row's.  In contrast to the job queue, the     *)
(* lease's clock plays no part in the settlement.                          *)
(*                                                                         *)
(* One action per transaction or provider call; deadlines are flags.       *)
(***************************************************************************)
EXTENDS Naturals, FiniteSets

CONSTANTS
  Intents,       \* rows of auth_email_outbox
  Verifications, \* those of kind verification; the others invite
  Drains,        \* runs of runAuthEmailOutboxOnce that overlap
  None,          \* SQL NULL
  Gone,          \* the worker ID of a run that has ended
  MaxAttempts,   \* MAX_ATTEMPTS
  Budget         \* bound: crashes, lost replies, leases lost by a running drain

AuthEmailOutboxAssumption ==
  /\ IsFiniteSet(Intents)
  /\ Verifications \subseteq Intents
  /\ Gone \notin Drains
  /\ None \notin Drains \cup {Gone} \cup [intent : Intents, gen : Nat, attempts : Nat]
  /\ MaxAttempts \in Nat \ {0}
  /\ Budget \in Nat

VARIABLES
  row,           \* row[i]: the outbox row of intent i
  invitation,    \* the row of invitations the inviting intents refer to
  drain,         \* drain[d]: the locals of run d
  budget

vars == <<row, invitation, drain, budget>>

-----------------------------------------------------------------------------

Terminal == {"completed", "dead_letter"}

Row == [state : {"absent", "queued", "running", "removed"} \cup Terminal,
        attempts : Nat,
        gen : Nat,                        \* claim_generation
        owner : Drains \cup {None, Gone}, \* lease_owner
        live : BOOLEAN,                   \* lease_expires_at has not passed
        due : BOOLEAN]                    \* scheduled_at has passed

Claimed == [intent : Intents, gen : Nat, attempts : Nat]

DrainState == [phase : {"idle", "loop", "sending", "sent", "failed"},
               batch : SUBSET Claimed,
               cur : Claimed \cup {None}]

IdleDrain == [phase |-> "idle", batch |-> {}, cur |-> None]

Init ==
  /\ row = [i \in Intents |-> [state |-> "absent", attempts |-> 0, gen |-> 0,
                               owner |-> None, live |-> FALSE, due |-> FALSE]]
  /\ invitation = [status |-> "pending", expired |-> FALSE]
  /\ drain = [d \in Drains |-> IdleDrain]
  /\ budget = Budget

Spend == budget > 0 /\ budget' = budget - 1

Invites == Intents \ Verifications
Invited(s) == {i \in Invites : row[i].state = s}

LiveInvitation == invitation.status = "pending" /\ ~invitation.expired

\* What the claim query demands of the invitation behind a row.
Deliverable(i) == i \in Verifications \/ LiveInvitation

SetDrain(d, s) == drain' = [drain EXCEPT ![d] = s]
Goto(d, ph) == SetDrain(d, [drain[d] EXCEPT !.phase = ph])

-----------------------------------------------------------------------------
(* Producers and administrators. *)

\* A sign-up, an issued invitation or a resend; a second enqueue under the
\* same idempotency key finds the row and changes nothing.
Enqueue(i) ==
  /\ row[i].state = "absent"
  /\ Deliverable(i)
  /\ row' = [row EXCEPT ![i].state = "queued", ![i].due = TRUE]
  /\ UNCHANGED <<invitation, drain, budget>>

\* The inviting rows that are queued become dead letters; a running row is left.
QueuedMailDies ==
  row' = [i \in Intents |-> IF i \in Invited("queued")
                              THEN [row[i] EXCEPT !.state = "dead_letter"] ELSE row[i]]

\* Mutant: a row that is being delivered does not hold up the cancellation.
CancelMutant ==
  /\ LiveInvitation
  /\ invitation' = [invitation EXCEPT !.status = "canceled"]
  /\ QueuedMailDies
  /\ UNCHANGED <<drain, budget>>

\* cancelInvitation: refused while a row of the invitation is running.
Cancel ==
  /\ LiveInvitation
  /\ Invited("running") = {}
  /\ invitation' = [invitation EXCEPT !.status = "canceled"]
  /\ QueuedMailDies
  /\ UNCHANGED <<drain, budget>>

\* issueInvitation to the same address, once the invitation has expired.
Replace ==
  /\ invitation.status = "pending"
  /\ invitation.expired
  /\ invitation' = [invitation EXCEPT !.status = "canceled"]
  /\ QueuedMailDies
  /\ UNCHANGED <<drain, budget>>

\* The recipient accepts.
Accept ==
  /\ LiveInvitation
  /\ invitation' = [invitation EXCEPT !.status = "accepted"]
  /\ UNCHANGED <<row, drain, budget>>

-----------------------------------------------------------------------------
(* runAuthEmailOutboxOnce. *)

\* Mutant: a row whose lease has expired is not claimed again.
ClaimableMutant(i) ==
  /\ row[i].state = "queued"
  /\ row[i].due
  /\ Deliverable(i)

Claimable(i) ==
  /\ \/ row[i].state = "queued" /\ row[i].due
     \/ row[i].state = "running" /\ ~row[i].live
  /\ Deliverable(i)

\* A batch of claimable rows: the oldest ones, or the ones a request asks for.
Claim(d, C) ==
  /\ drain[d].phase = "idle"
  /\ C # {}
  /\ \A i \in C : Claimable(i)
  /\ row' = [i \in Intents |->
               IF i \in C
                 THEN [row[i] EXCEPT !.state = "running", !.attempts = row[i].attempts + 1,
                                     !.gen = row[i].gen + 1, !.owner = d, !.live = TRUE]
                 ELSE row[i]]
  /\ SetDrain(d, [phase |-> "loop", cur |-> None,
                  batch |-> {[intent |-> i, gen |-> row[i].gen + 1,
                              attempts |-> row[i].attempts + 1] : i \in C}])
  /\ UNCHANGED <<invitation, budget>>

\* deliverWithTimeout is called for the next row; its claim is not looked at.
Deliver(d, c) ==
  /\ drain[d].phase = "loop"
  /\ c \in drain[d].batch
  /\ SetDrain(d, [phase |-> "sending", batch |-> drain[d].batch \ {c}, cur |-> c])
  /\ UNCHANGED <<row, invitation, budget>>

ProviderAccepts(d) ==
  /\ drain[d].phase = "sending"
  /\ Goto(d, "sent")
  /\ UNCHANGED <<row, invitation, budget>>

\* An undecipherable payload, an error or a timeout of the provider; after a
\* timeout the provider may have accepted the mail.
DeliveryFails(d) ==
  /\ drain[d].phase = "sending"
  /\ Goto(d, "failed")
  /\ UNCHANGED <<row, invitation, budget>>

\* Mutant: the generation and the owner are not compared.
OwnsMutant(d, c) == row[c.intent].state = "running"

\* The WHERE clause of both settlements.
Owns(d, c) ==
  /\ row[c.intent].state = "running"
  /\ row[c.intent].owner = d
  /\ row[c.intent].gen = c.gen

\* Mutant: the lease columns keep their values.
ReleasedMutant(r, s, due) == [r EXCEPT !.state = s, !.due = due]

Released(r, s, due) == [r EXCEPT !.state = s, !.owner = None, !.live = FALSE, !.due = due]

Settle(d, s, due) ==
  LET c == drain[d].cur IN
    row' = IF Owns(d, c) THEN [row EXCEPT ![c.intent] = Released(row[c.intent], s, due)]
                         ELSE row

BackToLoop(d) == SetDrain(d, [drain[d] EXCEPT !.phase = "loop", !.cur = None])

Complete(d) ==
  /\ drain[d].phase = "sent"
  /\ Settle(d, "completed", FALSE)
  /\ BackToLoop(d)
  /\ UNCHANGED <<invitation, budget>>

\* The completing statement fails, before or after its commit.
CompleteErrs(d) ==
  /\ drain[d].phase = "sent"
  /\ Spend
  /\ Settle(d, "completed", FALSE) \/ UNCHANGED row
  /\ Goto(d, "failed")
  /\ UNCHANGED <<invitation>>

Exhausted(c) == c.attempts >= MaxAttempts

Fail(d) ==
  /\ drain[d].phase = "failed"
  /\ IF Exhausted(drain[d].cur)
       THEN Settle(d, "dead_letter", FALSE) ELSE Settle(d, "queued", FALSE)
  /\ BackToLoop(d)
  /\ UNCHANGED <<invitation, budget>>

\* The run ends, its worker ID is never used again.
End(d) ==
  /\ SetDrain(d, IdleDrain)
  /\ row' = [i \in Intents |-> IF row[i].owner = d
                                 THEN [row[i] EXCEPT !.owner = Gone] ELSE row[i]]
  /\ UNCHANGED <<invitation>>

Finish(d) ==
  /\ drain[d].phase = "loop"
  /\ drain[d].batch = {}
  /\ End(d)
  /\ UNCHANGED budget

\* The process dies, or a failing statement ends the run.
Crash(d) ==
  /\ drain[d].phase # "idle"
  /\ Spend
  /\ End(d)

\* cleanupAuthEmailOutbox, after the retention of a settled row.
Remove(i) ==
  /\ row[i].state \in Terminal
  /\ row' = [row EXCEPT ![i].state = "removed"]
  /\ UNCHANGED <<invitation, drain, budget>>

-----------------------------------------------------------------------------
(* The clock. *)

BecomeDue(i) ==
  /\ row[i].state = "queued"
  /\ ~row[i].due
  /\ row' = [row EXCEPT ![i].due = TRUE]
  /\ UNCHANGED <<invitation, drain, budget>>

LeaseExpires(i) ==
  /\ row[i].live
  /\ IF row[i].owner \in Drains THEN Spend ELSE UNCHANGED budget
  /\ row' = [row EXCEPT ![i].live = FALSE]
  /\ UNCHANGED <<invitation, drain>>

InvitationExpires ==
  /\ ~invitation.expired
  /\ invitation' = [invitation EXCEPT !.expired = TRUE]
  /\ UNCHANGED <<row, drain, budget>>

-----------------------------------------------------------------------------

Step(d) ==
  \/ \E c \in drain[d].batch : Deliver(d, c)
  \/ ProviderAccepts(d) \/ DeliveryFails(d)
  \/ Complete(d) \/ Fail(d) \/ Finish(d)

Next ==
  \/ \E i \in Intents : Enqueue(i) \/ BecomeDue(i) \/ LeaseExpires(i) \/ Remove(i)
  \/ Cancel \/ Replace \/ Accept \/ InvitationExpires
  \/ \E d \in Drains :
       \/ \E C \in SUBSET Intents : Claim(d, C)
       \/ Step(d)
       \/ CompleteErrs(d)
       \/ Crash(d)

Spec == Init /\ [][Next]_vars

(***************************************************************************)
(* Fairness.  A drain takes its next step unless it crashes (delivery is   *)
(* cut off after five seconds), the worker starts a drain in every pass,   *)
(* and the clock advances.  Claims of other rows may keep a row waiting    *)
(* only as long as there are older ones, hence fairness per row.           *)
(***************************************************************************)
ClaimOf(i) == \E d \in Drains, C \in SUBSET Intents : i \in C /\ Claim(d, C)

Fairness ==
  /\ \A d \in Drains : WF_vars(Step(d))
  /\ \A i \in Intents : /\ SF_vars(ClaimOf(i))
                        /\ WF_vars(BecomeDue(i))
                        /\ WF_vars(row[i].owner \notin Drains /\ LeaseExpires(i))

FairSpec == Spec /\ Fairness

-----------------------------------------------------------------------------
(* Properties. *)

\* Every variable has the shape of its row or local variable; the lease
\* columns agree with the state.
TypeOK ==
  /\ row \in [Intents -> Row]
  /\ \A i \in Intents : /\ row[i].owner # None <=> row[i].state = "running"
                        /\ row[i].live => row[i].state = "running"
  /\ invitation \in [status : {"pending", "accepted", "canceled"}, expired : BOOLEAN]
  /\ drain \in [Drains -> DrainState]
  /\ budget \in Nat

\* The claim that is in force may be settled by its holder only.
SettledByHolder ==
  [][\A i \in Intents :
       row[i].state = "running" /\ row'[i].state # "running" =>
         \E d \in Drains : row[i].owner = d /\ drain[d].cur # None
                             /\ drain[d].cur.intent = i /\ drain[d].cur.gen = row[i].gen]_vars

\* An administrator cannot cancel an invitation whose mail a drain with a
\* current claim may be handing to the provider.
CancelWaitsForDelivery ==
  [][LiveInvitation /\ invitation'.status = "canceled" =>
       \A d \in Drains : \A c \in drain[d].batch \cup ({drain[d].cur} \ {None}) :
         c.intent \in Invites => ~Owns(d, c)]_vars

\* A canceled or replaced invitation leaves no mail queued.
CanceledMailIsTerminal ==
  invitation.status = "canceled" => Invited("queued") = {}

\* Mail that stays deliverable is in the end accepted or a dead letter.
MailSettles ==
  \A i \in Intents :
    row[i].state = "queued" ~> row[i].state \in Terminal \cup {"removed"} \/ ~Deliverable(i)

-----------------------------------------------------------------------------
(* The inductive invariant of WorkerProofs. *)

\* A drain that delivers or settles does so for a claim.
CurrentClaims ==
  \A d \in Drains : drain[d].phase \in {"sending", "sent", "failed"} => drain[d].cur # None

IInv == TypeOK /\ CurrentClaims

=============================================================================
