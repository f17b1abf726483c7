----------------------------- MODULE CpuWatchdog -----------------------------
(***************************************************************************)
(* The CPU limit of a cell: the execution thread (RuntimeExecution, lib.rs)*)
(* and the watchdog thread (watchdog.rs), which share a deadline under a   *)
(* mutex with a condition variable, an atomic flag and V8's own            *)
(* termination flag.                                                       *)
(*                                                                         *)
(* JavaScript runs in slices, each armed before and disarmed after it: the *)
(* bootstrap script, the program, and every poll of the event loop.  Time  *)
(* passes between any two steps of either thread, in ticks; deadlines are  *)
(* kept as the ticks that are left.                                        *)
(***************************************************************************)
EXTENDS Integers

CONSTANTS
  Limit,      \* cpu_limit_ms, in ticks
  MaxSlices   \* how many slices one cell runs: a bound

ASSUME WatchdogAssumption == Limit \in Nat \ {0} /\ MaxSlices \in Nat \ {0}

NoDeadline == -1

VARIABLES
  \* State, under the mutex
  deadline,    \* the ticks left, or NoDeadline
  generation,
  stopped,
  \* the watchdog thread
  watch,       \* "checking", "waiting" (no deadline), "timed" (wait_timeout), "fired", "tripped", "exited"
  seen,        \* the generation it waits for
  timeout,     \* the ticks left of its wait_timeout
  notified,    \* notify_one found it waiting
  tripped,     \* CpuWatchdog.tripped
  terminating, \* V8 will stop the script that runs, or the next one
  \* the execution thread
  exec,        \* "ready", "armed", "running", "returned", "disarmed", "ended", "dropping" or "dropped"
  result,      \* how the slice ended: "pending", "done" or "terminated"
  outcome,     \* how the execution ended: "none", "completed", "cpu_limit" or "failed"
  remaining,   \* cpu_remaining
  elapsed,     \* started.elapsed()
  \* history
  cancelled,   \* somebody else has terminated the isolate
  used         \* the ticks since the first slice was armed, but for those between slices

watchVars  == <<watch, seen, timeout, notified, tripped>>
execVars   == <<exec, result, outcome, remaining, elapsed>>
stateVars  == <<deadline, generation, stopped>>
threadVars == <<stateVars, watchVars, terminating, execVars, cancelled, used>>

WatchdogInit ==
  /\ deadline = NoDeadline /\ generation = 0 /\ stopped = FALSE
  /\ watch = "checking" /\ seen = 0 /\ timeout = NoDeadline /\ notified = FALSE
  /\ tripped = FALSE /\ terminating = FALSE
  /\ exec = "ready" /\ result = "pending" /\ outcome = "none"
  /\ remaining = Limit /\ elapsed = 0
  /\ cancelled = FALSE /\ used = 0

Down(ticks) == IF ticks > 0 THEN ticks - 1 ELSE ticks
Up(ticks)   == IF ticks < Limit THEN ticks + 1 ELSE ticks

\* Time passes; beyond the limit nothing tells one moment from another.
Tick ==
  /\ deadline' = Down(deadline)
  /\ timeout' = Down(timeout)
  /\ elapsed' = IF exec \in {"running", "returned", "disarmed"} THEN Up(elapsed) ELSE elapsed
  /\ used' = IF exec \in {"armed", "running", "returned", "disarmed"} THEN Up(used) ELSE used
  /\ UNCHANGED <<generation, stopped, watch, seen, notified, tripped, terminating, exec, result,
                 outcome, remaining, cancelled>>

-----------------------------------------------------------------------------
(* CpuWatchdog's methods, called by the execution thread                   *)

\* notify_one wakes the thread if it waits.
Notify == notified' = (notified \/ watch \in {"waiting", "timed"})

\* Mutant: the new deadline is not announced.
ArmQuietly(ticks) ==
  /\ generation' = generation + 1
  /\ deadline' = ticks
  /\ UNCHANGED <<stopped, notified>>

Arm(ticks) ==
  /\ generation' = generation + 1
  /\ deadline' = ticks
  /\ Notify
  /\ UNCHANGED stopped

Disarm ==
  /\ generation' = generation + 1
  /\ deadline' = NoDeadline
  /\ Notify
  /\ UNCHANGED stopped

\* drop, up to the join.
Stop ==
  /\ stopped' = TRUE
  /\ deadline' = NoDeadline
  /\ Notify
  /\ UNCHANGED generation

-----------------------------------------------------------------------------
(* The watchdog thread; it holds the mutex but for its waits and after it fired *)

WatchUnchanged == UNCHANGED <<generation, stopped, execVars, cancelled, used>>

\* The head of the loop.
WatchCheck ==
  /\ watch = "checking"
  /\ \/ /\ stopped
        /\ watch' = "exited"
        /\ UNCHANGED <<deadline, seen, timeout>>
     \/ /\ ~stopped /\ deadline = NoDeadline
        /\ watch' = "waiting"
        /\ UNCHANGED <<deadline, seen, timeout>>
     \/ /\ ~stopped /\ deadline = 0
        /\ deadline' = NoDeadline
        /\ watch' = "fired"
        /\ UNCHANGED <<seen, timeout>>
     \/ /\ ~stopped /\ deadline > 0
        /\ watch' = "timed"
        /\ seen' = generation
        /\ timeout' = deadline
        /\ UNCHANGED deadline
  /\ UNCHANGED <<notified, tripped, terminating>>
  /\ WatchUnchanged

\* Either wait ends by a notification, or spuriously.
WatchWakes ==
  /\ watch \in {"waiting", "timed"}
  /\ watch' = "checking"
  /\ notified' = FALSE
  /\ timeout' = NoDeadline
  /\ UNCHANGED <<deadline, seen, tripped, terminating>>
  /\ WatchUnchanged

\* Mutant: whatever deadline is set now has passed.
SameTimeUnchecked == deadline # NoDeadline

\* The deadline that has passed is still the one that is set.
SameTime == generation = seen /\ deadline # NoDeadline

\* wait_timeout ends by the time-out, although a notification may be on its way.
WatchTimesOut ==
  /\ watch = "timed" /\ timeout = 0
  /\ notified' = FALSE
  /\ timeout' = NoDeadline
  /\ \/ SameTime /\ watch' = "fired" /\ deadline' = NoDeadline
     \/ ~SameTime /\ watch' = "checking" /\ UNCHANGED deadline
  /\ UNCHANGED <<seen, tripped, terminating>>
  /\ WatchUnchanged

\* Mutant: V8 is stopped before the flag says why.
TerminateFirst ==
  \/ watch = "fired" /\ watch' = "tripped" /\ terminating' = TRUE /\ UNCHANGED tripped
  \/ watch = "tripped" /\ watch' = "checking" /\ tripped' = TRUE /\ UNCHANGED terminating

\* Without the mutex: first the flag, then V8.
TripAndTerminate ==
  \/ watch = "fired" /\ watch' = "tripped" /\ tripped' = TRUE /\ UNCHANGED terminating
  \/ watch = "tripped" /\ watch' = "checking" /\ terminating' = TRUE /\ UNCHANGED tripped

WatchFires == TripAndTerminate /\ UNCHANGED <<deadline, seen, timeout, notified>> /\ WatchUnchanged

-----------------------------------------------------------------------------
(* The execution thread                                                    *)

ExecUnchanged == UNCHANGED <<watch, seen, timeout, tripped, cancelled, used>>

End(how) == exec' = "ended" /\ outcome' = how

\* start_program and poll look at the limit first.
BeginRefused ==
  /\ exec = "ready" /\ generation > 0
  /\ remaining = 0 \/ tripped
  /\ End("cpu_limit")
  /\ UNCHANGED <<stateVars, notified, terminating, result, remaining, elapsed>>
  /\ ExecUnchanged

\* arm: the bootstrap script's slice is the first.
Begin ==
  /\ exec = "ready" /\ generation < 2 * MaxSlices
  /\ generation = 0 \/ (remaining # 0 /\ ~tripped)
  /\ Arm(remaining)
  /\ exec' = "armed"
  /\ UNCHANGED <<terminating, result, outcome, remaining, elapsed>>
  /\ ExecUnchanged

\* The clock is read after the deadline was set.
Run ==
  /\ exec = "armed"
  /\ exec' = "running"
  /\ elapsed' = 0
  /\ UNCHANGED <<stateVars, notified, terminating, result, outcome, remaining>>
  /\ ExecUnchanged

\* The script returns when it likes ...
Return(how) ==
  /\ exec = "running"
  /\ exec' = "returned"
  /\ result' = how
  /\ UNCHANGED <<stateVars, notified, terminating, outcome, remaining, elapsed>>
  /\ ExecUnchanged

\* ... or is stopped, which uses the termination up.
Stopped ==
  /\ exec = "running" /\ terminating
  /\ exec' = "returned"
  /\ result' = "terminated"
  /\ terminating' = FALSE
  /\ UNCHANGED <<stateVars, notified, outcome, remaining, elapsed>>
  /\ ExecUnchanged

EndSlice ==
  /\ exec = "returned"
  /\ Disarm
  /\ exec' = "disarmed"
  /\ UNCHANGED <<terminating, result, outcome, remaining, elapsed>>
  /\ ExecUnchanged

\* Mutant: the subtraction does not saturate.
LeftUnchecked == remaining - elapsed

\* saturating_sub
Left == IF elapsed < remaining THEN remaining - elapsed ELSE 0

\* new() only looks at the bootstrap script's result and grants the whole limit.
AccountBootstrap ==
  /\ exec = "disarmed" /\ generation = 2
  /\ \/ result = "terminated" /\ End("failed")
     \/ result # "terminated" /\ exec' = "ready" /\ UNCHANGED outcome
  /\ UNCHANGED <<stateVars, notified, terminating, result, remaining, elapsed>>
  /\ ExecUnchanged

\* The limit comes first, then the result.
Account ==
  /\ exec = "disarmed" /\ generation > 2
  /\ remaining' = Left
  /\ \/ /\ Left = 0 \/ tripped
        /\ End("cpu_limit")
     \/ /\ Left # 0 /\ ~tripped
        /\ \/ result = "done" /\ End("completed")
           \/ result = "terminated" /\ End("failed")
           \/ result = "pending" /\ exec' = "ready" /\ UNCHANGED outcome
  /\ UNCHANGED <<stateVars, notified, terminating, result, elapsed>>
  /\ ExecUnchanged

\* CellHandle::terminate, from another thread.
Cancel ==
  /\ ~cancelled
  /\ cancelled' = TRUE
  /\ terminating' = TRUE
  /\ UNCHANGED <<stateVars, watchVars, execVars, used>>

\* The actor drops the execution, at its end or between two polls ...
Drop ==
  /\ exec \in {"ready", "ended"} /\ generation > 0
  /\ Stop
  /\ exec' = "dropping"
  /\ UNCHANGED <<terminating, result, outcome, remaining, elapsed>>
  /\ ExecUnchanged

\* ... and joins the thread.
Join ==
  /\ exec = "dropping" /\ watch = "exited"
  /\ exec' = "dropped"
  /\ UNCHANGED <<stateVars, notified, terminating, result, outcome, remaining, elapsed>>
  /\ ExecUnchanged

-----------------------------------------------------------------------------
Watch == WatchCheck \/ WatchTimesOut \/ WatchFires \/ (notified /\ WatchWakes)

\* What the execution thread does by itself; a script need not return.
Execute == Run \/ Stopped \/ EndSlice \/ AccountBootstrap \/ Account \/ Join

WatchdogNext ==
  \/ Tick
  \/ Watch \/ WatchWakes
  \/ Execute \/ Begin \/ BeginRefused \/ Drop
  \/ \E how \in {"pending", "done"} : Return(how)
  \/ Cancel

\* Both threads are scheduled and time passes.
WatchdogFairness == WF_threadVars(Tick) /\ WF_threadVars(Watch) /\ WF_threadVars(Execute)

WatchdogSpec == WatchdogInit /\ [][WatchdogNext]_threadVars /\ WatchdogFairness

-----------------------------------------------------------------------------
(* Correctness                                                             *)

Ticks == 0 .. Limit

FlagsOK ==
  /\ stopped \in BOOLEAN /\ notified \in BOOLEAN
  /\ tripped \in BOOLEAN /\ terminating \in BOOLEAN /\ cancelled \in BOOLEAN

CountersOK ==
  /\ deadline \in Ticks \union {NoDeadline} /\ timeout \in Ticks \union {NoDeadline}
  /\ generation \in Nat /\ seen \in Nat
  /\ remaining \in Ticks /\ elapsed \in Ticks /\ used \in Ticks
  /\ watch \in {"checking", "waiting", "timed", "fired", "tripped", "exited"}
  /\ exec \in {"ready", "armed", "running", "returned", "disarmed", "ended", "dropping", "dropped"}
  /\ result \in {"pending", "done", "terminated"}
  /\ outcome \in {"none", "completed", "cpu_limit", "failed"}

WatchdogTypeOK == FlagsOK /\ CountersOK

\* Nobody is charged for time that was not his: the limit trips only when the slices
\* so far have taken that long, however late the watchdog thread is and whatever was
\* armed in between.
TripJustified == watch = "fired" \/ tripped \/ outcome = "cpu_limit" => used = Limit

\* A script the watchdog stopped is reported as out of CPU time, or as a failed
\* bootstrap, and never as a failure of its own, unless somebody else stopped it too.
StopNamed == outcome = "failed" /\ generation > 2 => cancelled

\* A script that never returns is stopped, and dropping an execution does not wait for the
\* watchdog thread for ever: neither wake-up is lost.
ExecutionEnds ==
  /\ exec = "running" ~> exec # "running"
  /\ exec = "dropping" ~> exec = "dropped"
=============================================================================
