---------------------------- MODULE TaskRegistry ----------------------------
(***************************************************************************)
(* The background tasks of the process (internal/api/tasks.go), and its    *)
(* restart from the dashboard (internal/api/selfrestart.go,                *)
(* cmd/orchestrator/selfrestart.go and the end of main).                   *)
(*                                                                         *)
(* A task is run by its schedule goroutine and, on request, by further     *)
(* goroutines; its status field keeps them apart.  A restart is accepted   *)
(* once, answered, and carried out later by a goroutine that cancels the   *)
(* root context as SIGTERM does and makes main exit with code 1, which is  *)
(* what makes systemd start the service again.                             *)
(*                                                                         *)
(* Abstractions.  A task's function ends, well or with an error; when is   *)
(* its own affair.  Interval and timer are the freedom to tick at any time.*)
(* The environment is systemd: the unit's Restart= setting, fixed while we *)
(* watch, and an operator who stops and starts the unit.                   *)
(***************************************************************************)
EXTENDS Naturals, FiniteSets

CONSTANTS
    Tasks,       \* registered tasks
    Scheduled,   \* those with an interval: each has a schedule goroutine
    Requests     \* goroutines of RunNow

VARIABLES
    status,      \* Task.Status
    at,          \* each goroutine: "rest", "call" (about to run the task), "work", "over"
    job,         \* the task a goroutine of RunNow is for
    process,     \* "up", "stopping" (the root context is cancelled), "down"
    pending,     \* selfRestartPending
    armed,       \* the goroutine that will call the trigger sleeps
    requested,   \* selfRestartRequested
    exit,        \* the last exit code
    stopped,     \* the operator stopped the unit
    policy       \* Restart= of the unit

restart == <<pending, armed, requested, exit, stopped, policy>>
vars == <<status, at, job, process, restart>>

Goroutines == Scheduled \cup Requests
JobOf(g) == IF g \in Scheduled THEN g ELSE job[g]

Policies == {"no", "on-success", "on-failure", "always"}

TypeOK ==
    /\ status \in [Tasks -> {"never", "idle", "running", "error"}]
    /\ at \in [Goroutines -> {"rest", "call", "work", "over"}]
    /\ job \in [Requests -> Tasks]
    /\ process \in {"up", "stopping", "down"}
    /\ pending \in BOOLEAN /\ armed \in BOOLEAN /\ requested \in BOOLEAN
    /\ exit \in {0, 1}
    /\ stopped \in BOOLEAN
    /\ policy \in Policies

Fresh ==
    /\ status' = [t \in Tasks |-> "never"]
    /\ at' = [g \in Goroutines |-> "rest"]
    /\ process' = "up"
    /\ pending' = FALSE /\ armed' = FALSE /\ requested' = FALSE

Init ==
    /\ status = [t \in Tasks |-> "never"]
    /\ at = [g \in Goroutines |-> "rest"]
    /\ job \in [Requests -> {CHOOSE t \in Tasks : TRUE}]
    /\ process = "up"
    /\ pending = FALSE /\ armed = FALSE /\ requested = FALSE
    /\ exit = 0
    /\ stopped = FALSE
    /\ policy \in Policies

Alive == process # "down"

-----------------------------------------------------------------------------
\* Tasks.

\* schedule: the interval is over.  Once the context is cancelled a goroutine
\* whose timer is due as well may still choose the timer.
Tick(t) ==
    /\ Alive /\ at[t] = "rest"
    /\ at' = [at EXCEPT ![t] = "call"]
    /\ UNCHANGED <<status, job, process, restart>>

ScheduleEnds(t) ==
    /\ process = "stopping" /\ at[t] = "rest"
    /\ at' = [at EXCEPT ![t] = "over"]
    /\ UNCHANGED <<status, job, process, restart>>

\* RunNow: a request that is served while HTTP drains counts as well.
RunNow(g, t) ==
    /\ Alive /\ at[g] = "rest"
    /\ at' = [at EXCEPT ![g] = "call"]
    /\ job' = [job EXCEPT ![g] = t]
    /\ UNCHANGED <<status, process, restart>>

\* (mutant: the status is only set when the task has run once)
EnterUnlessFirst(g) ==
    /\ status[JobOf(g)] # "running"
    /\ status' = [status EXCEPT ![JobOf(g)] = IF @ = "never" THEN @ ELSE "running"]
    /\ at' = [at EXCEPT ![g] = "work"]

\* run, under the task's mutex: to work, or back because somebody else is at it.
Enter(g) ==
    /\ status[JobOf(g)] # "running"
    /\ status' = [status EXCEPT ![JobOf(g)] = "running"]
    /\ at' = [at EXCEPT ![g] = "work"]

TurnBack(g) ==
    /\ status[JobOf(g)] = "running"
    /\ at' = [at EXCEPT ![g] = "rest"]
    /\ UNCHANGED status

Call(g) ==
    /\ Alive /\ at[g] = "call"
    /\ Enter(g) \/ TurnBack(g)
    /\ UNCHANGED <<job, process, restart>>

Outcome(g, failed) ==
    status' = [status EXCEPT ![JobOf(g)] = IF failed THEN "error" ELSE "idle"]

Finish(g) ==
    /\ Alive /\ at[g] = "work"
    /\ \E failed \in BOOLEAN : Outcome(g, failed)
    /\ at' = [at EXCEPT ![g] = "rest"]
    /\ UNCHANGED <<job, process, restart>>

-----------------------------------------------------------------------------
\* Restart and shutdown.

\* restartPolicyRevives: after the non-zero exit of a self-restart.
Revives(p) == p \in {"always", "on-failure"}

\* RequestSelfRestart; refused requests change nothing.
Request ==
    /\ process = "up"
    /\ ~pending
    /\ Revives(policy)
    /\ pending' = TRUE /\ armed' = TRUE
    /\ UNCHANGED <<status, at, job, process, requested, exit, stopped, policy>>

\* The delay is over: wireSelfRestart's trigger.
Trigger ==
    /\ Alive /\ armed
    /\ armed' = FALSE
    /\ requested' = TRUE
    /\ process' = "stopping"
    /\ UNCHANGED <<status, at, job, pending, exit, stopped, policy>>

\* systemctl stop.
Sigterm ==
    /\ process = "up"
    /\ process' = "stopping"
    /\ stopped' = TRUE
    /\ UNCHANGED <<status, at, job, pending, armed, requested, exit, policy>>

Halt(code) ==
    /\ process' = "down"
    /\ exit' = code
    /\ UNCHANGED <<status, at, job, pending, armed, requested, stopped, policy>>

\* (mutant: a restart that went well exits with 0)
CleanExitCode == 0

\* main's exit code once the server has drained.
ExitCode == IF requested THEN 1 ELSE 0

\* main returns; nothing waits for the tasks that still run.
Exit == process = "stopping" /\ Halt(ExitCode)

\* The listener fails, or a goroutine panics.
Crash == Alive /\ Halt(1)

\* systemd: not after systemctl stop, and otherwise by exit code and Restart=.
Revive ==
    /\ process = "down" /\ ~stopped
    /\ policy = "always" \/ policy = (IF exit = 0 THEN "on-success" ELSE "on-failure")
    /\ Fresh
    /\ UNCHANGED <<job, exit, stopped, policy>>

\* systemctl start.
Start ==
    /\ process = "down"
    /\ Fresh
    /\ stopped' = FALSE
    /\ UNCHANGED <<job, exit, policy>>

Work(g) == Call(g) \/ Finish(g)

Next ==
    \/ \E t \in Scheduled : Tick(t) \/ ScheduleEnds(t)
    \/ \E g \in Requests, t \in Tasks : RunNow(g, t)
    \/ \E g \in Goroutines : Work(g)
    \/ Request \/ Trigger \/ Sigterm \/ Exit \/ Crash \/ Revive \/ Start

Spec == Init /\ [][Next]_vars

\* Timers fire and tasks end (each has a budget or timeouts of its own), the
\* drain has a grace period, and systemd does what the unit says.
Fairness ==
    /\ \A t \in Scheduled : WF_vars(Tick(t))
    /\ \A g \in Goroutines : WF_vars(Work(g))
    /\ WF_vars(Trigger) /\ WF_vars(Exit) /\ WF_vars(Revive)

FairSpec == Spec /\ Fairness

-----------------------------------------------------------------------------

\* However schedule, requests and restarts fall together, a task is run by one
\* goroutine at a time, and its status says 'running' exactly while it is: one
\* that stayed behind would disable the task for the life of the process.
OneRunner ==
    Alive => \A t \in Tasks :
        /\ Cardinality({g \in Goroutines : at[g] = "work" /\ JobOf(g) = t}) <= 1
        /\ status[t] = "running" <=> \E g \in Goroutines : at[g] = "work" /\ JobOf(g) = t

\* An accepted restart ends in a new process, unless the operator stops the unit
\* meanwhile: it never leaves the service down for good (selfrestart.go:58).
RestartComesBack == []<>(~pending \/ stopped)
=============================================================================
