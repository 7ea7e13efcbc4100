---------------------------- MODULE WorkerProcess ----------------------------
(***************************************************************************)
(* The worker's process (src/worker/run-continuous.ts): bounded passes one *)
(* after the other, each under a time limit, a hard exit and a heartbeat,  *)
(* until the container tells it to stop; and the container that starts it  *)
(* again.                                                                  *)
(*                                                                         *)
(* One event loop: the code between two awaits is one action, timers and   *)
(* signals come between.  A pass (src/worker/runtime.ts) sends mail, does  *)
(* the privacy work and runs jobs; JobQueue and the modules of the stages  *)
(* have what is inside.                                                    *)
(***************************************************************************)
EXTENDS Naturals

CONSTANTS
  Budget,   \* bound: stages that hang, fail or are late, heartbeats that fail, crashes
  None

WorkerProcessAssumption ==
  /\ Budget \in Nat
  /\ None \notin {"drain", "time_limit", "dependency_unavailable"}

VARIABLES
  proc,     \* the process: up, or how it ended
  told,     \* input.signal is aborted: SIGTERM or SIGINT has come
  loop,     \* where runJobsContinuously and runPass are
  stage,    \* what the pass is doing
  hung,     \* the stage looks at no signal and may never end
  reason,   \* controller.signal.reason
  outcome,  \* what became of the pass
  deadline, grace,  \* the two timers of the pass: time limit and hard exit
  late,     \* history: the time limit of this pass is over
  beat,     \* pulseHeartbeat
  budget

pass == <<stage, hung, reason, outcome, deadline, grace, late, beat>>
vars == <<proc, told, loop, pass, budget>>

-----------------------------------------------------------------------------

Init ==
  /\ proc = "up" /\ told = FALSE /\ loop = "head"
  /\ stage = "none" /\ hung = FALSE /\ reason = None /\ outcome = None
  /\ deadline = FALSE /\ grace = FALSE /\ late = FALSE /\ beat = "off"
  /\ budget = Budget

Spend == budget > 0 /\ budget' = budget - 1

Up(at) == proc = "up" /\ loop = at

\* process.exit: timers, the handler and the heartbeat end with the process.
Ends(how) ==
  /\ proc' = how /\ loop' = "ended"
  /\ stage' = "none" /\ hung' = FALSE /\ reason' = None /\ outcome' = None
  /\ deadline' = FALSE /\ grace' = FALSE /\ beat' = "off"
  /\ UNCHANGED <<told, late>>

Exit(how) == Ends(how) /\ UNCHANGED budget

\* stopHeartbeat: a sleep ends at once, a refresh when it is written.
Stopped(b) == IF b = "sleeping" THEN "off" ELSE b

\* The controller is aborted once; the first reason stays.
EndsPass(why) ==
  /\ reason' = IF reason = None THEN why ELSE reason
  /\ beat' = Stopped(beat)

-----------------------------------------------------------------------------
(* The loop. *)

\* A stage that hangs is chosen with its pass.
BeginPass ==
  /\ Up("head") /\ ~told
  /\ loop' = "pass" /\ stage' = "mail" /\ reason' = None /\ outcome' = None
  /\ hung' \in BOOLEAN
  /\ IF hung' THEN Spend ELSE UNCHANGED budget
  /\ deadline' = TRUE /\ late' = FALSE /\ beat' = "writing"
  /\ UNCHANGED <<proc, told, grace>>

\* while (!input.signal?.aborted), or a return.
LoopEnds == Up("head") /\ told /\ Exit("exit_0")

\* Mutant: the hard exit is not called off.
CalledOffMutant(timer) == timer

CalledOff(timer) == FALSE

\* Mutant: only an abort stops the heartbeat.
PassStopsMutant(b) == b

PassStops(b) == Stopped(b)

\* runOnce settles; the finally clause runs up to the wait for the heartbeat.
Settles(result) ==
  /\ loop' = "settle" /\ stage' = "none" /\ hung' = FALSE
  /\ outcome' = IF result = "error" \/ beat = "failed" THEN "error"
                ELSE IF reason = "time_limit" THEN "time_limit" ELSE result
  /\ deadline' = FALSE
  /\ grace' = CalledOff(grace)
  /\ beat' = PassStops(beat)
  /\ UNCHANGED <<proc, told, reason, late>>

\* createRuntimeJobRunner: the privacy work is left out after an abort, jobs are
\* not claimed.
StageEnds ==
  /\ Up("pass")
  /\ \/ /\ stage \in {"mail", "privacy"}
        /\ stage' = IF stage = "mail" /\ reason = None THEN "privacy" ELSE "jobs"
        /\ UNCHANGED <<proc, told, loop, hung, reason, outcome, deadline, grace, late, beat,
                       budget>>
     \/ /\ stage = "jobs"
        /\ \E result \in {"idle", "claimed"} : Settles(result)
        /\ UNCHANGED budget

\* A stage throws, and those behind it are left out.
StageFails ==
  /\ Up("pass")
  /\ Spend
  /\ Settles("error")

\* After the heartbeat has come to an end.
PassEnds ==
  /\ Up("settle") /\ beat \in {"off", "failed"}
  /\ IF outcome = "claimed"
       THEN loop' = "head" /\ beat' = "off" /\
            UNCHANGED <<proc, told, stage, hung, reason, outcome, deadline, grace, late, budget>>
     ELSE IF told THEN Exit("exit_0")
     ELSE IF outcome = "time_limit" THEN Exit("exit_1")
     ELSE loop' = "pause" /\ beat' = "off" /\
          UNCHANGED <<proc, told, stage, hung, reason, outcome, deadline, grace, late, budget>>

\* Between two passes the heartbeat is refreshed once, then the loop sleeps.
Pause ==
  /\ Up("pause")
  /\ IF told THEN Exit("exit_0")
     ELSE loop' = "sleep" /\ UNCHANGED <<proc, told, pass, budget>>

PauseFails ==
  /\ Up("pause")
  /\ Spend
  /\ Ends(IF told THEN "exit_0" ELSE "exit_1")

Wakes ==
  /\ Up("sleep")
  /\ loop' = "head"
  /\ UNCHANGED <<proc, told, pass, budget>>

-----------------------------------------------------------------------------
(* Timers, the heartbeat and signals. *)

\* Mutant: a pass that has been aborted already is given no hard exit.
GraceMutant == reason = None

Grace == TRUE

\* exceedDeadline; a stage that does not hang is late at the cost of the budget.
DeadlinePasses ==
  /\ proc = "up" /\ deadline
  /\ IF hung THEN UNCHANGED budget ELSE Spend
  /\ EndsPass("time_limit")
  /\ deadline' = FALSE /\ grace' = Grace /\ late' = TRUE
  /\ UNCHANGED <<proc, told, loop, stage, hung, outcome>>

\* input.hardExit
HardExit == proc = "up" /\ grace /\ Exit("hard")

Stops == reason # None \/ loop # "pass"

HeartbeatIsWritten ==
  /\ proc = "up" /\ beat = "writing"
  /\ beat' = IF Stops THEN "off" ELSE "sleeping"
  /\ UNCHANGED <<proc, told, loop, stage, hung, reason, outcome, deadline, grace, late, budget>>

HeartbeatIsDue ==
  /\ proc = "up" /\ beat = "sleeping"
  /\ beat' = "writing"
  /\ UNCHANGED <<proc, told, loop, stage, hung, reason, outcome, deadline, grace, late, budget>>

\* A failure aborts the pass, unless the heartbeat is told to stop anyway.
HeartbeatFails ==
  /\ proc = "up" /\ beat = "writing"
  /\ Spend
  /\ IF Stops THEN beat' = "off" /\ UNCHANGED reason
     ELSE beat' = "failed" /\ reason' = "dependency_unavailable"
  /\ UNCHANGED <<proc, told, loop, stage, hung, outcome, deadline, grace, late>>

\* Mutant: the time limit stays in force during a drain.
DrainMutant == EndsPass("drain") /\ UNCHANGED deadline

Drain == EndsPass("drain") /\ deadline' = FALSE

\* The signal reaches an active pass, ends a sleep, or is looked at later.
Signal ==
  /\ proc = "up" /\ ~told
  /\ IF loop = "sleep"
       THEN /\ proc' = "exit_0" /\ loop' = "ended"
            /\ UNCHANGED <<pass, budget>>
       ELSE /\ IF loop = "pass" /\ reason = None
                 THEN Drain ELSE UNCHANGED <<reason, beat, deadline>>
            /\ UNCHANGED <<proc, loop, stage, hung, outcome, grace, late, budget>>
  /\ told' = TRUE

-----------------------------------------------------------------------------
(* The container. *)

\* SIGKILL at the end of the grace period of the container.
Kill == proc = "up" /\ told /\ Exit("killed")

Crash ==
  /\ proc = "up"
  /\ Spend
  /\ Ends("killed")

\* restart: unless-stopped
Restart ==
  /\ proc # "up" /\ ~told
  /\ proc' = "up" /\ loop' = "head" /\ late' = FALSE
  /\ UNCHANGED <<told, stage, hung, reason, outcome, deadline, grace, beat, budget>>

Runs == BeginPass \/ LoopEnds \/ PassEnds \/ Pause \/ Wakes

Timers == DeadlinePasses \/ HardExit

Next ==
  \/ Runs \/ StageEnds \/ StageFails \/ PauseFails
  \/ Timers
  \/ HeartbeatIsWritten \/ HeartbeatIsDue \/ HeartbeatFails
  \/ Signal \/ Kill \/ Crash \/ Restart

Spec == Init /\ [][Next]_vars

(***************************************************************************)
(* Fairness.  The loop and its timers go on; a stage that does not hang    *)
(* ends; the container kills what it has told to stop and restarts what    *)
(* ended otherwise.                                                        *)
(***************************************************************************)
Fairness ==
  /\ WF_vars(Runs) /\ WF_vars(HeartbeatIsWritten)
  /\ WF_vars(hung /\ DeadlinePasses) /\ WF_vars(HardExit)
  /\ WF_vars(~hung /\ StageEnds)
  /\ WF_vars(Kill) /\ WF_vars(Restart)

FairSpec == Spec /\ Fairness

-----------------------------------------------------------------------------
(* Properties. *)

\* Every variable has its type; a pass has a stage, a timer or a heartbeat only
\* while there is a process.
TypeOK ==
  /\ proc \in {"up", "exit_0", "exit_1", "hard", "killed"} /\ told \in BOOLEAN
  /\ loop \in {"head", "pass", "settle", "pause", "sleep", "ended"}
  /\ stage \in {"none", "mail", "privacy", "jobs"} /\ hung \in BOOLEAN
  /\ reason \in {None, "drain", "time_limit", "dependency_unavailable"}
  /\ outcome \in {None, "idle", "claimed", "error", "time_limit"}
  /\ deadline \in BOOLEAN /\ grace \in BOOLEAN /\ late \in BOOLEAN
  /\ beat \in {"off", "writing", "sleeping", "failed"}
  /\ budget \in 0..Budget
  /\ proc = "up" <=> loop # "ended"
  /\ stage # "none" <=> loop = "pass"
  /\ deadline => loop = "pass"

\* A hard exit ends only a pass that is still at work after its own time limit,
\* never one that a signal drains; and the process ends well only when it was told
\* to stop and its pass has settled.
ExitsAreEarned ==
  [][/\ proc = "up" /\ proc' = "hard" => stage # "none" /\ late /\ reason # "drain"
     /\ proc = "up" /\ proc' = "exit_0" => told' /\ stage = "none"]_vars

\* Whatever hangs or fails, the worker comes to its jobs again and again, until it
\* is told to stop; then it ends.
WorkerGoesOn ==
  /\ []<>(told \/ (stage = "jobs" /\ reason = None))
  /\ told ~> proc # "up"

-----------------------------------------------------------------------------
(* The inductive invariant of WorkerProofs. *)

\* A hard exit is pending only for a pass that ran out of time before any signal, and
\* a pass that a signal drains has no time limit left.
TimersOK ==
  /\ grace => loop = "pass" /\ late /\ reason \notin {None, "drain"}
  /\ deadline => reason # "drain"

IInv == TypeOK /\ TimersOK

=============================================================================
