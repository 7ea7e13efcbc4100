---------------------------- MODULE DurableTask ----------------------------
(***************************************************************************)
(* What the job queue promises to the code that enqueues a job, whatever   *)
(* the workers, the leases and the retries do (docs/ARCHITECTURE.md and    *)
(* src/modules/jobs).  A submitted task stays pending until it is either   *)
(* done, and then its handler has run to its end since the task was last   *)
(* (re)submitted, or given up.  Work may be repeated and may be lost; a    *)
(* settled task is never settled again unless it is reopened.              *)
(***************************************************************************)

CONSTANT Jobs    \* the tasks that can ever be submitted

VARIABLES
  status,        \* status[j]: absent, pending, done or dead
  handled        \* handled[j]: work on j ended and still counts

vars == <<status, handled>>

Status == {"absent", "pending", "done", "dead"}

Init ==
  /\ status = [j \in Jobs |-> "absent"]
  /\ handled = [j \in Jobs |-> FALSE]

Submit(j) ==
  /\ status[j] = "absent"
  /\ status' = [status EXCEPT ![j] = "pending"]
  /\ UNCHANGED handled

Work(j) ==
  /\ status[j] = "pending"
  /\ handled' = [handled EXCEPT ![j] = TRUE]
  /\ UNCHANGED status

Finish(j) ==
  /\ status[j] = "pending"
  /\ handled[j]
  /\ status' = [status EXCEPT ![j] = "done"]
  /\ UNCHANGED handled

Abandon(j) ==
  /\ status[j] = "pending"
  /\ status' = [status EXCEPT ![j] = "dead"]
  /\ handled' = [handled EXCEPT ![j] = FALSE]

\* The claims under which the work of J was done are lost: it must be redone.
\* One transaction may do this, or reopen, for several tasks.
Forget(J) ==
  /\ \A j \in J : status[j] = "pending"
  /\ handled' = [j \in Jobs |-> handled[j] /\ j \notin J]
  /\ UNCHANGED status

Reopen(J) ==
  /\ \A j \in J : status[j] \in {"done", "dead"}
  /\ status' = [j \in Jobs |-> IF j \in J THEN "pending" ELSE status[j]]
  /\ handled' = [j \in Jobs |-> handled[j] /\ j \notin J]

Next ==
  \/ \E j \in Jobs : Submit(j) \/ Work(j) \/ Finish(j) \/ Abandon(j)
  \/ \E J \in SUBSET Jobs : Forget(J) \/ Reopen(J)

Spec == Init /\ [][Next]_vars

=============================================================================
