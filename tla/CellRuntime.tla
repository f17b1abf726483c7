----------------------------- MODULE CellRuntime -----------------------------
(***************************************************************************)
(* One running cell: the operations of its JavaScript program (ops.rs,     *)
(* output.rs, the timers of bootstrap.rs) and the part of its actor        *)
(* (cell.rs) that hands the output to observers and resumes yields.        *)
(*                                                                         *)
(* Program and actor share one thread: a step is one iteration of the      *)
(* actor's select!, in which the program, if it is polled, starts or ends  *)
(* one operation.  After the verdict the program is polled no more.  Who   *)
(* may observe and terminate, and when, is CellHost's business.            *)
(***************************************************************************)
EXTENDS Integers, Sequences, FiniteSets, FiniteSetsExt, SequencesExt

CONSTANTS
  Calls, Yields, Timers,  \* the numbers of the operations the program may start: a bound
  MaxOps,                 \* how many of them, and of texts, it starts: a bound
  MaxObservations,        \* how often the cell is observed: a bound
  Sizes,                  \* the sizes of texts and of tool results
  ObserverLimits,         \* the values of max_output_bytes
  MaxOutput,              \* the cell's own output limit
  MaxToolCalls, MaxConcurrent, MaxResult, MaxTotalResult,  \* RuntimeLimits
  MaxTimers,
  None

ASSUME RuntimeAssumption ==
  /\ Calls \subseteq Nat /\ IsFiniteSet(Calls)
  /\ Yields \subseteq Nat /\ Timers \subseteq Nat
  /\ Sizes \subseteq Nat \ {0}
  /\ ObserverLimits \subseteq Nat
  /\ {MaxOps, MaxObservations, MaxOutput, MaxToolCalls, MaxConcurrent, MaxResult, MaxTotalResult,
      MaxTimers} \subseteq Nat
  /\ None \notin Yields

VARIABLES
  ops,          \* the operations started
  \* OutputBuffer
  entries,      \* per item its size
  totalBytes, truncated,
  \* the actor
  verdict,      \* TerminalState
  observer,     \* the max_output_bytes of the observer that waits, or None
  observations,
  delivered,    \* delivered_sequence
  suspended,    \* suspended_yield
  yieldQueue,
  got,          \* the items all observers together were given
  emitted,      \* the bytes the program has emitted
  unsaid,       \* did an answer leave output behind without saying so?
  \* RuntimeState
  toolCalls,    \* tool_calls
  resultBytes,  \* total_tool_result_bytes
  permits,      \* the semaphore's free permits
  slotQueue,    \* and its waiters
  call,         \* per tool call: "idle", "refused", "queued", "invoked", "resolved" or "rejected"
  size,         \* the size of the call's result
  yield,        \* per yield: "idle", "paused", "resumed" or "rejected"
  timers,       \* RuntimeState.timers
  sleep,        \* op_sleep: "idle", "sleeping", "woken", "cancelled" or "over"
  active,       \* activeTimers
  fired,        \* the timers whose callback has run
  cleared       \* the timers the program has cleared in time

outputVars == <<entries, totalBytes, truncated, emitted>>
answerVars == <<delivered, got, unsaid>>
actorVars  == <<verdict, observer, observations, suspended, yieldQueue, yield>>
toolVars   == <<toolCalls, resultBytes, permits, slotQueue, call, size>>
timerVars  == <<timers, sleep, active, fired, cleared>>
vars       == <<ops, outputVars, answerVars, actorVars, toolVars, timerVars>>

Init ==
  /\ ops = 0
  /\ entries = <<>> /\ totalBytes = 0 /\ truncated = FALSE
  /\ verdict = "none" /\ observer = None /\ observations = 0
  /\ delivered = 0 /\ suspended = None /\ yieldQueue = <<>>
  /\ got = <<>> /\ emitted = 0 /\ unsaid = FALSE
  /\ toolCalls = 0 /\ resultBytes = 0 /\ permits = MaxConcurrent /\ slotQueue = <<>>
  /\ call = [t \in Calls |-> "idle"] /\ size = [t \in Calls |-> 0]
  /\ yield = [y \in Yields |-> "idle"]
  /\ timers = {} /\ sleep = [m \in Timers |-> "idle"] /\ active = {}
  /\ fired = {} /\ cleared = {}

\* The program is polled from the first observation to the verdict.
Polled == verdict = "none" /\ observations > 0

\* It starts one more operation.
Started == Polled /\ ops < MaxOps /\ ops' = ops + 1

\* Operations of a kind are numbered in the order they are started.
IsNext(n, state) ==
  /\ state[n] = "idle"
  /\ \A k \in DOMAIN state : k < n => state[k] # "idle"

-----------------------------------------------------------------------------
(* Output                                                                  *)

\* truncate_utf8: the cut falls between two characters, so less than what is left may fit.
Kept(bytes) == IF totalBytes + bytes > MaxOutput THEN 0 .. MaxOutput - totalBytes ELSE {bytes}

\* push: what does not fit is cut off or dropped, and remembered as such.
Text(bytes) ==
  /\ Started
  /\ emitted' = emitted + bytes
  /\ \E kept \in Kept(bytes) :
       /\ totalBytes' = totalBytes + kept
       /\ truncated' = (truncated \/ kept < bytes)
       /\ entries' = IF kept = 0 THEN entries ELSE Append(entries, kept)
  /\ UNCHANGED <<answerVars, actorVars, toolVars, timerVars>>

Bytes(from, to) == MapThenSumSet(LAMBDA k : entries[k], from .. to)

\* The items from the cursor on that fit together: the first that does not fit is the end.
NextSequence(limit) ==
  CHOOSE n \in delivered .. Len(entries) :
    /\ Bytes(delivered + 1, n) <= limit
    /\ n = Len(entries) \/ Bytes(delivered + 1, n + 1) > limit

\* Mutant: the cursor moves past the items that did not fit.
SnapshotSkips(limit) ==
  /\ delivered' = Len(entries)
  /\ got' = got \o [k \in 1 .. NextSequence(limit) - delivered |-> delivered + k]

\* snapshot, and the cursor that build_result keeps.
Snapshot(limit) ==
  /\ delivered' = NextSequence(limit)
  /\ got' = got \o [k \in 1 .. delivered' - delivered |-> delivered + k]

\* The answer says that output is missing: dropped earlier, or left for later.
Truncated(limit) == truncated \/ NextSequence(limit) < Len(entries)

\* build_result
Deliver(limit) ==
  /\ Snapshot(limit)
  /\ unsaid' = (unsaid \/ (~Truncated(limit) /\ Bytes(1, NextSequence(limit)) # emitted))

-----------------------------------------------------------------------------
(* The actor                                                               *)

\* Answer the observer that waits, if there is one.
AnswerObserver ==
  \/ /\ observer # None
     /\ Deliver(observer)
     /\ observer' = None
  \/ observer = None /\ UNCHANGED <<observer, answerVars>>

\* An observation: a suspended yield goes on, or the observer terminates the cell, or
\* the verdict is repeated at once.
Observe(limit) ==
  /\ observer = None /\ observations < MaxObservations
  /\ observations' = observations + 1
  /\ \/ /\ verdict = "none"
        /\ observer' = limit
        /\ suspended' = None
        /\ yield' = [y \in Yields |-> IF y = suspended THEN "resumed" ELSE yield[y]]
        /\ UNCHANGED <<verdict, answerVars>>
     \/ /\ Polled
        /\ verdict' = "terminated"
        /\ Deliver(limit)
        /\ UNCHANGED <<observer, suspended, yield>>
     \/ /\ verdict # "none"
        /\ Deliver(limit)
        /\ UNCHANGED <<verdict, observer, suspended, yield>>
  /\ UNCHANGED <<ops, outputVars, yieldQueue, toolVars, timerVars>>

ObserverTimeout ==
  /\ Polled /\ observer # None
  /\ Deliver(observer)
  /\ observer' = None
  /\ UNCHANGED <<ops, outputVars, verdict, observations, suspended, yieldQueue, yield, toolVars,
                 timerVars>>

\* The program ends, is terminated or runs into the wall-time limit.
Conclude(how) ==
  /\ Polled
  /\ verdict' = how
  /\ AnswerObserver
  /\ UNCHANGED <<ops, outputVars, observations, suspended, yieldQueue, yield, toolVars, timerVars>>

\* op_yield_control
YieldControl(y) ==
  /\ Started
  /\ IsNext(y, yield)
  /\ yield' = [yield EXCEPT ![y] = "paused"]
  /\ yieldQueue' = Append(yieldQueue, y)
  /\ UNCHANGED <<outputVars, answerVars, verdict, observer, observations, suspended, toolVars,
                 timerVars>>

\* yields.recv: a yield that is still suspended loses its sender and is rejected.
ReceiveYield ==
  /\ Polled /\ yieldQueue # <<>>
  /\ yieldQueue' = Tail(yieldQueue)
  /\ suspended' = Head(yieldQueue)
  /\ yield' = [y \in Yields |-> IF y = suspended THEN "rejected" ELSE yield[y]]
  /\ AnswerObserver
  /\ UNCHANGED <<ops, outputVars, verdict, observations, toolVars, timerVars>>

-----------------------------------------------------------------------------
(* Tool calls                                                              *)

\* op_tool_invoke up to the semaphore; a refused call is counted too.
ToolInvoke(t) ==
  /\ Started
  /\ IsNext(t, call)
  /\ toolCalls' = toolCalls + 1
  /\ \/ /\ toolCalls' > MaxToolCalls
        /\ call' = [call EXCEPT ![t] = "refused"]
        /\ UNCHANGED slotQueue
     \/ /\ toolCalls' <= MaxToolCalls
        /\ call' = [call EXCEPT ![t] = "queued"]
        /\ slotQueue' = Append(slotQueue, t)
  /\ UNCHANGED <<outputVars, answerVars, actorVars, resultBytes, permits, size, timerVars>>

\* The semaphore is fair: first come, first served.
AcquireSlot ==
  /\ Polled /\ slotQueue # <<>> /\ permits > 0
  /\ permits' = permits - 1
  /\ slotQueue' = Tail(slotQueue)
  /\ call' = [call EXCEPT ![Head(slotQueue)] = "invoked"]
  /\ UNCHANGED <<ops, outputVars, answerVars, actorVars, toolCalls, resultBytes, size, timerVars>>

\* Mutant: the permit is only dropped on success.
KeepSlot == UNCHANGED permits

\* The permit is dropped, by `?` too.
ReleaseSlot == permits' = permits + 1

ToolFails(t) ==
  /\ Polled /\ call[t] = "invoked"
  /\ ReleaseSlot
  /\ call' = [call EXCEPT ![t] = "rejected"]
  /\ UNCHANGED <<ops, outputVars, answerVars, actorVars, toolCalls, resultBytes, slotQueue, size,
                 timerVars>>

\* Mutant: the total before the addition is compared.
TotalBefore(bytes) == resultBytes

\* fetch_add and the addition to its result
Total(bytes) == resultBytes + bytes

\* A result within the limits is the program's; one beyond the total is counted all the same.
ToolReturns(t, bytes) ==
  /\ Polled /\ call[t] = "invoked"
  /\ ReleaseSlot
  /\ size' = [size EXCEPT ![t] = bytes]
  /\ resultBytes' = IF bytes > MaxResult THEN resultBytes ELSE resultBytes + bytes
  /\ call' = [call EXCEPT ![t] = IF bytes > MaxResult \/ Total(bytes) > MaxTotalResult
                                 THEN "rejected" ELSE "resolved"]
  /\ UNCHANGED <<ops, outputVars, answerVars, actorVars, toolCalls, slotQueue, timerVars>>

-----------------------------------------------------------------------------
(* Timers                                                                  *)

\* setTimeout: op_timer_start refuses one too many, then op_sleep is started.
SetTimeout(m) ==
  /\ Started
  /\ IsNext(m, sleep)
  /\ \/ /\ Cardinality(timers) < MaxTimers
        /\ timers' = timers \union {m}
        /\ active' = active \union {m}
        /\ sleep' = [sleep EXCEPT ![m] = "sleeping"]
     \/ /\ Cardinality(timers) >= MaxTimers
        /\ sleep' = [sleep EXCEPT ![m] = "over"]
        /\ UNCHANGED <<timers, active>>
  /\ UNCHANGED <<outputVars, answerVars, actorVars, toolVars, fired, cleared>>

\* op_sleep returns.
SleepEnds(m) ==
  /\ Polled /\ sleep[m] = "sleeping"
  /\ sleep' = [sleep EXCEPT ![m] = "woken"]
  /\ timers' = timers \ {m}
  /\ UNCHANGED <<ops, outputVars, answerVars, actorVars, toolVars, active, fired, cleared>>

\* The callback runs when the sleep was completed and the timer is still active.
Due(m) == sleep[m] = "woken" /\ m \in active

\* The continuation of op_sleep.
TimerContinues(m) ==
  /\ Polled /\ sleep[m] \in {"woken", "cancelled"}
  /\ sleep' = [sleep EXCEPT ![m] = "over"]
  /\ fired' = IF Due(m) THEN fired \union {m} ELSE fired
  /\ active' = IF sleep[m] = "woken" THEN active \ {m} ELSE active
  /\ UNCHANGED <<ops, outputVars, answerVars, actorVars, toolVars, timers, cleared>>

\* Mutant: a cancelled timer keeps its entry.
CancelOnly(m) ==
  /\ sleep' = [sleep EXCEPT ![m] = IF m \in timers THEN "cancelled" ELSE @]
  /\ UNCHANGED timers

\* op_timer_cancel, which may come after the sleep has ended.
TimerCancel(m) ==
  /\ sleep' = [sleep EXCEPT ![m] = IF m \in timers THEN "cancelled" ELSE @]
  /\ timers' = timers \ {m}

ClearTimeout(m) ==
  /\ Polled /\ m \in active
  /\ active' = active \ {m}
  /\ cleared' = cleared \union {m}
  /\ TimerCancel(m)
  /\ UNCHANGED <<ops, outputVars, answerVars, actorVars, toolVars, fired>>

-----------------------------------------------------------------------------
Next ==
  \/ \E bytes \in Sizes : Text(bytes)
  \/ \E limit \in ObserverLimits : Observe(limit)
  \/ ObserverTimeout
  \/ \E how \in {"completed", "failed", "terminated"} : Conclude(how)
  \/ \E y \in Yields : YieldControl(y)
  \/ ReceiveYield
  \/ \E t \in Calls : ToolInvoke(t) \/ ToolFails(t) \/ \E bytes \in Sizes : ToolReturns(t, bytes)
  \/ AcquireSlot
  \/ \E m \in Timers : SetTimeout(m) \/ SleepEnds(m) \/ TimerContinues(m) \/ ClearTimeout(m)

\* The thread polls what is ready and every tool call gets its answer (HostLink's
\* ToolCallAnswered).  An observer's timer may be long: nothing is assumed of it.
Fairness ==
  /\ WF_vars(ReceiveYield) /\ WF_vars(AcquireSlot)
  /\ \A t \in Calls : WF_vars(ToolFails(t) \/ \E bytes \in Sizes : ToolReturns(t, bytes))

Spec == Init /\ [][Next]_vars /\ Fairness

-----------------------------------------------------------------------------
(* Correctness                                                             *)

TypeOK ==
  /\ ops \in 0 .. MaxOps
  /\ entries \in Seq(Nat \ {0}) /\ truncated \in BOOLEAN
  /\ totalBytes = Bytes(1, Len(entries)) /\ totalBytes <= MaxOutput
  /\ verdict \in {"none", "completed", "failed", "terminated"}
  /\ observer \in ObserverLimits \union {None} /\ observations \in 0 .. MaxObservations
  /\ delivered \in 0 .. Len(entries) /\ got \in Seq(Nat)
  /\ emitted \in Nat /\ unsaid \in BOOLEAN
  /\ suspended \in Yields \union {None} /\ yieldQueue \in Seq(Yields)
  /\ toolCalls \in Nat /\ resultBytes \in Nat /\ permits \in 0 .. MaxConcurrent
  /\ slotQueue \in Seq(Calls)
  /\ call \in [Calls -> {"idle", "refused", "queued", "invoked", "resolved", "rejected"}]
  /\ size \in [Calls -> Nat]
  /\ yield \in [Yields -> {"idle", "paused", "resumed", "rejected"}]
  /\ timers \subseteq Timers /\ active \subseteq Timers /\ fired \subseteq Timers /\ cleared \subseteq Timers
  /\ sleep \in [Timers -> {"idle", "sleeping", "woken", "cancelled", "over"}]

\* "Each `wait` returns only new output" (deno-core-host-plan.md:1502), and all of it: the
\* observers together are given every item up to the cursor, once and in order, and an
\* answer that is not marked as truncated leaves nothing of what was emitted behind.
OutputDelivered ==
  /\ TypeOK
  /\ got = [k \in 1 .. delivered |-> k]
  /\ ~unsaid

\* Whatever runs concurrently, the invoker is never asked for more calls than allowed, at
\* once or in all, and the program never gets more bytes than allowed.
ToolBudget ==
  /\ Cardinality({t \in Calls : call[t] = "invoked"}) <= MaxConcurrent
  /\ Cardinality({t \in Calls : call[t] \notin {"idle", "refused"}}) <= MaxToolCalls
  /\ MapThenSumSet(LAMBDA t : size[t], {t \in Calls : call[t] = "resolved"}) <= MaxTotalResult

\* A tool call does not wait for a slot for ever, whether the calls before it succeed,
\* fail or exceed a limit.
CallsProceed == \A t \in Calls : call[t] = "queued" ~> (call[t] # "queued" \/ verdict # "none")

\* Every timer that fired, was cleared, or was cleared after its sleep had ended, has
\* given its slot back; and one that was cleared in time never runs its callback, though
\* its sleep may be over.
TimersKept ==
  /\ timers = {m \in Timers : sleep[m] = "sleeping"}
  /\ fired \cap cleared = {}
=============================================================================
