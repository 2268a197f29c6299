---------------------------- MODULE SandboxTimers ----------------------------
(* The clock of one sandbox: the idle and the absolute timeout, the window  *)
(* after which a run counts as stable, and the delay before a restart, with *)
(* the delayed requeues of the reconciler that make each come true          *)
(* (pkg/controller/sandbox_controller.go, lifecycle.go). SandboxLifecycle   *)
(* has the calls, caches and failures that are left out here: a reconcile   *)
(* is one step, it takes no time, and a pod fails by being lost.            *)
EXTENDS Naturals, FiniteSetsExt

CONSTANTS
  PollDelay,      \* DefaultRequeueDelay, in ticks; a tick is the second added to a requeue
  StableWindow,   \* RestartCountResetWindow
  RestartLimit,   \* MaxRestartCount
  IdleTimeouts, MaxRuntimes,   \* values of spec.idleTimeout and spec.timeout; 0: none
  LastTick,       \* the clock stops here
  NoTime

ASSUME TimersAssumption ==
  /\ PollDelay \in Nat \ {0} /\ StableWindow \in Nat /\ RestartLimit \in Nat \ {0}
  /\ IdleTimeouts \subseteq Nat /\ MaxRuntimes \subseteq Nat /\ LastTick \in Nat
  /\ NoTime \notin Nat

VARIABLES
  status,    \* what the timers read of the sandbox's status
  idleTimeout, maxRuntime,
  stopAsked, \* the annotation agenttier.io/action
  runPod,    \* the pod
  dirty,     \* a watch has put the sandbox in the queue
  wake,      \* the earliest delayed requeue
  clock,
  readySince, flaps   \* history: when the pod was last ready, losses since a run that must have been seen stable

timersVars == <<status, idleTimeout, maxRuntime, stopAsked, runPod, dirty, wake, clock, readySince, flaps>>

Ticks == 0..LastTick
Never == LastTick + 1

TimersInit ==
  /\ status = [phase |-> "New", restarts |-> 0, retry |-> FALSE, started |-> NoTime, active |-> NoTime]
  /\ idleTimeout \in IdleTimeouts /\ maxRuntime \in MaxRuntimes
  /\ stopAsked = FALSE /\ runPod = "none" /\ dirty = TRUE /\ wake = Never /\ clock = 0
  /\ readySince = 0 /\ flaps = 0

Queued == dirty \/ wake <= clock

\* The reconcile returns: requeued after some time, which does not replace an
\* earlier requeue that is pending.
Pending == IF wake <= clock THEN Never ELSE wake
After(n) == wake' = Min({Pending, clock + n}) /\ dirty' = FALSE
\* It wrote the status, and the watch will show that.
Wrote == wake' = Pending /\ dirty' = TRUE

userVars == <<idleTimeout, maxRuntime, stopAsked>>

-----------------------------------------------------------------------------
Phase(p) == Queued /\ status.phase = p /\ UNCHANGED <<clock, idleTimeout, maxRuntime>>

Initialize ==
  /\ Phase("New") /\ Wrote
  /\ status' = [status EXCEPT !.phase = "Creating"]
  /\ UNCHANGED <<stopAsked, runPod, readySince, flaps>>

EnsurePod ==
  /\ Phase("Creating") /\ runPod # "ready" /\ After(1)
  /\ runPod' = IF runPod = "none" THEN "starting" ELSE runPod
  /\ UNCHANGED <<status, stopAsked, readySince, flaps>>

Run ==
  /\ Phase("Creating") /\ runPod = "ready" /\ Wrote
  /\ status' = [status EXCEPT !.phase = "Running", !.started = clock, !.active = clock, !.retry = FALSE]
  /\ UNCHANGED <<stopAsked, runPod, readySince, flaps>>

\* handleInfrastructureFailure, for a pod that is gone.
ExhaustedLate(n) == n > RestartLimit
Exhausted(n) == n >= RestartLimit

Lose ==
  /\ Phase("Running") /\ ~stopAsked /\ runPod = "none" /\ Wrote
  /\ LET n == status.restarts + 1
     IN status' = IF Exhausted(n)
                  THEN [status EXCEPT !.phase = "Error", !.restarts = RestartLimit]
                  ELSE [status EXCEPT !.phase = "Error", !.restarts = n, !.retry = TRUE]
  /\ flaps' = Min({RestartLimit, flaps + 1})
  /\ UNCHANGED <<stopAsked, runPod, readySince>>

Stable == status.restarts > 0 /\ clock >= status.started + StableWindow /\ runPod = "ready"

Idle == idleTimeout > 0 /\ clock >= status.active + idleTimeout
Expired == maxRuntime > 0 /\ clock >= status.started + maxRuntime

Watched == Phase("Running") /\ ~stopAsked /\ runPod # "none"

ResetRestarts ==
  /\ Watched /\ Stable /\ Wrote
  /\ status' = [status EXCEPT !.restarts = 0]
  /\ UNCHANGED <<stopAsked, runPod, readySince, flaps>>

\* stopSandbox, for the annotation or for a timeout.
StopRun ==
  /\ \/ Phase("Running") /\ stopAsked
     \/ Watched /\ ~Stable /\ (Idle \/ Expired)
  /\ Wrote
  /\ status' = [status EXCEPT !.phase = "Stopped", !.started = NoTime]
  /\ stopAsked' = FALSE /\ runPod' = "none"
  /\ UNCHANGED <<readySince, flaps>>

\* When the next timeout is due, if that is before the next poll.
Remaining(limit, from) == IF limit > 0 /\ from + limit > clock THEN {from + limit - clock} ELSE {}
NextCheckIdle ==
  Min({PollDelay} \union {n + 1 : n \in {r \in Remaining(idleTimeout, status.active) : r < PollDelay}})
NextCheck ==
  Min({PollDelay} \union {n + 1 : n \in {r \in Remaining(idleTimeout, status.active)
                                            \union Remaining(maxRuntime, status.started) : r < PollDelay}})

WatchTimeouts ==
  /\ Watched /\ ~Stable /\ ~Idle /\ ~Expired
  /\ IF idleTimeout = 0 /\ maxRuntime = 0 THEN wake' = Pending /\ dirty' = FALSE ELSE After(NextCheck)
  /\ UNCHANGED <<status, stopAsked, runPod, readySince, flaps>>

Watch ==
  /\ Watched /\ ~Stable /\ ~Idle /\ ~Expired /\ After(NextCheck)
  /\ UNCHANGED <<status, stopAsked, runPod, readySince, flaps>>

\* calculateBackoffDelay: 10s, 20s, 40s, 80s, capped at 160s; the base is one tick.
BackoffDelay(n) == IF n < 4 THEN 2^n ELSE 16

\* It is asked for the count after its increment, and counts from StartedAt.
Backoff == status.started + BackoffDelay(status.restarts)

Recover ==
  /\ Phase("Error") /\ status.retry /\ ~Exhausted(status.restarts)
  /\ \/ clock < Backoff /\ After(Backoff - clock) /\ UNCHANGED status
     \/ clock >= Backoff /\ Wrote /\ status' = [status EXCEPT !.phase = "Creating", !.retry = FALSE]
  /\ UNCHANGED <<stopAsked, runPod, readySince, flaps>>

\* Nothing to do in Stopped, or once the budget is spent.
Rest ==
  /\ \/ Phase("Stopped")
     \/ Phase("Error") /\ Exhausted(status.restarts)
  /\ wake' = Pending /\ dirty' = FALSE
  /\ UNCHANGED <<status, stopAsked, runPod, readySince, flaps>>

\* Every object is listed anew; the delayed requeues are gone.
ControllerRestarts ==
  /\ dirty' = TRUE /\ wake' = Never
  /\ UNCHANGED <<status, userVars, runPod, clock, readySince, flaps>>

-----------------------------------------------------------------------------
\* The pod has been ready beyond the window for longer than a poll takes.
SeenStable ==
  /\ runPod = "ready" /\ status.phase = "Running"
  /\ clock > Max({readySince, status.started + StableWindow}) + PollDelay

\* The kubelet, and the loss of a node or a pod.
PodMoves ==
  /\ \/ runPod \in {"starting", "unready"} /\ runPod' = "ready" /\ readySince' = clock
     \/ runPod = "ready" /\ runPod' = "unready" /\ UNCHANGED readySince
     \/ runPod # "none" /\ runPod' = "none" /\ UNCHANGED readySince
  /\ flaps' = IF SeenStable THEN 0 ELSE flaps
  /\ dirty' = TRUE
  /\ UNCHANGED <<status, userVars, wake, clock>>

\* The Router's handlers: stop, resume, and a patch of the idle timeout.
AskStop ==
  /\ status.phase = "Running" /\ stopAsked' = TRUE /\ dirty' = TRUE
  /\ UNCHANGED <<status, idleTimeout, maxRuntime, runPod, wake, clock, readySince, flaps>>

AskResume ==
  /\ status.phase \in {"Stopped", "Error"} /\ dirty' = TRUE
  /\ status' = [status EXCEPT !.phase = "Creating", !.retry = FALSE]
  /\ UNCHANGED <<userVars, runPod, wake, clock, readySince, flaps>>

PatchIdleTimeout ==
  /\ idleTimeout' \in IdleTimeouts /\ dirty' = TRUE
  /\ UNCHANGED <<status, maxRuntime, stopAsked, runPod, wake, clock, readySince, flaps>>

\* A reconcile that is queued does not wait.
TickClock ==
  /\ ~Queued /\ clock < LastTick
  /\ clock' = clock + 1
  /\ UNCHANGED <<status, userVars, runPod, dirty, wake, readySince, flaps>>

TimersNext ==
  \/ Initialize \/ EnsurePod \/ Run \/ Lose \/ ResetRestarts \/ StopRun \/ Watch \/ Recover \/ Rest
  \/ ControllerRestarts \/ PodMoves \/ TickClock
  \/ AskStop \/ AskResume \/ PatchIdleTimeout

TimersSpec == TimersInit /\ [][TimersNext]_timersVars

-----------------------------------------------------------------------------
(* Properties.                                                              *)

\* Values have their types; a running sandbox knows when it started, and so
\* does one that waits to be restarted (sandbox_controller.go:602-611).
TimersTypeOK ==
  /\ status \in [phase : {"New", "Creating", "Running", "Stopped", "Error"}, restarts : 0..RestartLimit,
                 retry : BOOLEAN, started : Ticks \union {NoTime}, active : Ticks \union {NoTime}]
  /\ status.phase \in {"Running", "Error"} => status.started # NoTime /\ status.active # NoTime
  /\ idleTimeout \in IdleTimeouts /\ maxRuntime \in MaxRuntimes /\ stopAsked \in BOOLEAN
  /\ runPod \in {"none", "starting", "ready", "unready"} /\ dirty \in BOOLEAN
  /\ wake \in Nat /\ clock \in Ticks /\ readySince \in Ticks /\ flaps \in 0..RestartLimit

\* The reconciler wakes up for every deadline: a run goes on for no more than
\* the second added to the requeue beyond either timeout, a shorter one set
\* meanwhile and a new controller included (sandbox_controller.go:553-566).
StopsOnTime ==
  status.phase = "Running" /\ ~Queued =>
    /\ maxRuntime > 0 => clock <= status.started + maxRuntime
    /\ idleTimeout > 0 => clock <= status.active + idleTimeout

\* The restart budget is spent on losses in a row only: a run seen ready beyond
\* the window, at the latest one poll after, gives it back
\* (sandbox_controller.go:512-530, "each individual failure fully recovered").
BudgetCountsFlaps == status.restarts <= flaps

\* What a restart is decided by: the times and the count it reads.
RestartsCount == TimersTypeOK /\ BudgetCountsFlaps

\* The timers move the phase as SandboxPhases allows.
Machine == INSTANCE SandboxPhases WITH
  MaxRestartCount <- RestartLimit, phase <- status.phase, restarts <- status.restarts,
  retry <- status.retry, deleting <- FALSE
TimersFollowPhases == Machine!Spec
=============================================================================
