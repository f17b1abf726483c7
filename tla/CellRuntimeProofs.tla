-------------------------- MODULE CellRuntimeProofs ---------------------------
(* A running cell, for any program and any limits: its timers, the budget of    *)
(* its tool calls, the output its observers are given, and the time its slices  *)
(* of JavaScript may use.                                                       *)
EXTENDS CellRuntime, CpuWatchdog, FiniteData

SleepStates == {"idle", "sleeping", "woken", "cancelled", "over"}

(* Whoever is active still has a sleep to come back from; a timer that was       *)
(* cleared is active no more, and one that fired has nothing left to clear.     *)
TimerInv ==
  /\ sleep \in [Timers -> SleepStates]
  /\ timers = {m \in Timers : sleep[m] = "sleeping"}
  /\ \A m \in active : m \in Timers /\ sleep[m] \in {"sleeping", "woken"}
  /\ \A m \in fired : m \in Timers /\ sleep[m] = "over"
  /\ \A m \in cleared : m \in Timers /\ m \notin active /\ sleep[m] # "idle"
  /\ fired \cap cleared = {}

\* No timer has been started.
LEMMA InitTimers == Init => TimerInv
  BY DEF Init, TimerInv, SleepStates

\* A timer that is started sleeps, or is over when there are too many.
LEMMA SetKeeps == ASSUME TimerInv, NEW m \in Timers, SetTimeout(m) PROVE TimerInv'
<1>1. sleep[m] = "idle" /\ UNCHANGED <<fired, cleared>>
  BY DEF SetTimeout, IsNext
<1>2. CASE /\ timers' = timers \union {m} /\ active' = active \union {m}
           /\ sleep' = [sleep EXCEPT ![m] = "sleeping"]
  BY <1>1, <1>2 DEF TimerInv, SleepStates
<1>3. CASE sleep' = [sleep EXCEPT ![m] = "over"] /\ UNCHANGED <<timers, active>>
  BY <1>1, <1>3 DEF TimerInv, SleepStates
<1> QED
  BY <1>2, <1>3 DEF SetTimeout

\* A sleep that ends gives its slot back.
LEMMA SleepKeeps == ASSUME TimerInv, NEW m \in Timers, SleepEnds(m) PROVE TimerInv'
  BY DEF SleepEnds, TimerInv, SleepStates

\* A continuation runs the callback of an active timer only.
LEMMA ContinueKeeps == ASSUME TimerInv, NEW m \in Timers, TimerContinues(m) PROVE TimerInv'
<1>1. /\ sleep[m] \in {"woken", "cancelled"} /\ sleep' = [sleep EXCEPT ![m] = "over"]
      /\ UNCHANGED <<timers, cleared>>
  BY DEF TimerContinues
<1>2. sleep' \in [Timers -> SleepStates] /\ timers' = {n \in Timers : sleep'[n] = "sleeping"}
  BY <1>1 DEF TimerInv, SleepStates
<1>3. CASE Due(m)
  <2>1. fired' = fired \union {m} /\ active' = active \ {m} /\ m \in active
    BY <1>3 DEF TimerContinues, Due
  <2> QED
    BY <1>1, <1>2, <2>1 DEF TimerInv
<1>4. CASE ~ Due(m)
  <2>1. fired' = fired /\ m \notin active' /\ active' \subseteq active
    BY <1>1, <1>4 DEF TimerContinues, Due, TimerInv
  <2> QED
    BY <1>1, <1>2, <2>1 DEF TimerInv
<1> QED
  BY <1>3, <1>4

\* A timer that is cleared is active no more.
LEMMA ClearKeeps == ASSUME TimerInv, NEW m \in Timers, ClearTimeout(m) PROVE TimerInv'
<1>1. /\ m \in active /\ active' = active \ {m} /\ cleared' = cleared \union {m}
      /\ sleep' = [sleep EXCEPT ![m] = IF m \in timers THEN "cancelled" ELSE @]
      /\ timers' = timers \ {m} /\ UNCHANGED fired
  BY DEF ClearTimeout, TimerCancel
<1>2. sleep[m] \in {"sleeping", "woken"} /\ (m \in timers <=> sleep[m] = "sleeping")
  BY <1>1 DEF TimerInv
<1>3. CASE m \in timers
  BY <1>1, <1>2, <1>3 DEF TimerInv, SleepStates
<1>4. CASE m \notin timers
  BY <1>1, <1>2, <1>4 DEF TimerInv, SleepStates
<1> QED
  BY <1>3, <1>4

\* The invariant on timers is inductive.
LEMMA NextKeepsTimers == ASSUME TimerInv, [Next]_vars PROVE TimerInv'
<1>1. ASSUME NEW m \in Timers,
             SetTimeout(m) \/ SleepEnds(m) \/ TimerContinues(m) \/ ClearTimeout(m)
      PROVE  TimerInv'
  BY <1>1, SetKeeps, SleepKeeps, ContinueKeeps, ClearKeeps
<1>2. CASE UNCHANGED timerVars
  BY <1>2 DEF timerVars, TimerInv
<1>3. \/ \E bytes \in Sizes : Text(bytes)
      \/ \E limit \in ObserverLimits : Observe(limit)
      \/ ObserverTimeout
      \/ \E how \in {"completed", "failed", "terminated"} : Conclude(how)
      \/ \E y \in Yields : YieldControl(y)
      \/ ReceiveYield
      \/ \E t \in Calls : ToolInvoke(t) \/ ToolFails(t) \/ \E bytes \in Sizes : ToolReturns(t, bytes)
      \/ AcquireSlot
      \/ UNCHANGED vars
      => UNCHANGED timerVars
  BY DEF Text, Observe, ObserverTimeout, Conclude, YieldControl, ReceiveYield, ToolInvoke,
         ToolFails, ToolReturns, AcquireSlot, vars
<1> QED
  BY <1>1, <1>2, <1>3 DEF Next

(* A timer keeps its slot as long as it sleeps and no longer, and one that was  *)
(* cleared in time never runs its callback.                                     *)
THEOREM SpecTimersKept == Spec => []TimersKept
<1>1. TimerInv => TimersKept
  BY DEF TimerInv, TimersKept
<1> QED
  BY InitTimers, NextKeepsTimers, <1>1, PTL DEF Spec

-----------------------------------------------------------------------------
(* The invariants on tool calls and output                                      *)

CallStates == {"idle", "refused", "queued", "invoked", "resolved", "rejected"}

Invoked  == {t \in Calls : call[t] = "invoked"}
Admitted == {t \in Calls : call[t] \notin {"idle", "refused"}}
Resolved == {t \in Calls : call[t] = "resolved"}

\* A permit is free or belongs to one invoked call; who waits for one waits once and has
\* not been invoked; and the totals are never below what the limits are about.
ToolInv ==
  /\ call \in [Calls -> CallStates] /\ size \in [Calls -> Nat]
  /\ toolCalls \in Nat /\ resultBytes \in Nat /\ permits \in Nat
  /\ slotQueue \in Seq(Calls)
  /\ \A i \in 1 .. Len(slotQueue) : call[slotQueue[i]] = "queued"
  /\ \A i, j \in 1 .. Len(slotQueue) : slotQueue[i] = slotQueue[j] => i = j
  /\ permits + Cardinality(Invoked) = MaxConcurrent
  /\ Cardinality(Admitted) <= toolCalls /\ Cardinality(Admitted) <= MaxToolCalls
  /\ SumOf(size, Resolved) <= resultBytes /\ SumOf(size, Resolved) <= MaxTotalResult

\* The buffer holds what it has counted, and without truncation all that was emitted.
OutputInv ==
  /\ entries \in Seq(Nat \ {0}) /\ truncated \in BOOLEAN /\ emitted \in Nat
  /\ totalBytes = SumOf(entries, 1 .. Len(entries)) /\ totalBytes <= MaxOutput
  /\ ~truncated => emitted = totalBytes

\* The observers were given the items up to the cursor, in order.
AnswerInv ==
  /\ delivered \in 0 .. Len(entries)
  /\ got = [k \in 1 .. delivered |-> k]
  /\ unsaid = FALSE

ActorInv ==
  /\ ops \in 0 .. MaxOps
  /\ verdict \in {"none", "completed", "failed", "terminated"}
  /\ observer \in ObserverLimits \union {None} /\ observations \in 0 .. MaxObservations
  /\ suspended \in Yields \union {None} /\ yieldQueue \in Seq(Yields)
  /\ yield \in [Yields -> {"idle", "paused", "resumed", "rejected"}]

-----------------------------------------------------------------------------
(* Tool calls                                                                   *)

\* Every set of calls is finite, and has a sum of result sizes.
LEMMA CallSets ==
  ASSUME NEW S \in SUBSET Calls
  PROVE  IsFiniteSet(S) /\ Cardinality(S) \in Nat
BY RuntimeAssumption, FS_Subset, FS_CardinalityType DEF RuntimeAssumption

\* The sets of calls in a state.
LEMMA CallKinds ==
  /\ Invoked \in SUBSET Calls /\ Admitted \in SUBSET Calls /\ Resolved \in SUBSET Calls
  /\ Cardinality(Invoked) \in Nat /\ Cardinality(Admitted) \in Nat
<1>1. Invoked \in SUBSET Calls /\ Admitted \in SUBSET Calls /\ Resolved \in SUBSET Calls
  BY DEF Invoked, Admitted, Resolved
<1> QED
  BY <1>1, CallSets

\* One more call in a set of them counts one more.
LEMMA OneMore ==
  ASSUME NEW S \in SUBSET Calls, NEW t \in Calls, t \notin S
  PROVE  Cardinality(S \union {t}) = Cardinality(S) + 1
BY CallSets, FS_AddElement

\* What a call that is not resolved takes no part in.
LEMMA SameResults ==
  ASSUME size \in [Calls -> Nat], \A t \in Resolved : size'[t] = size[t]
  PROVE  SumOf(size', Resolved) = SumOf(size, Resolved) /\ SumOf(size, Resolved) \in Nat
<1>1. Resolved \in SUBSET Calls /\ IsFiniteSet(Resolved)
  BY CallKinds, CallSets
<1>2. \A t \in Resolved : size[t] \in Nat /\ size'[t] = size[t]
  BY <1>1
<1>3. SumOf(size, Resolved) \in Nat
  BY <1>1, <1>2, SumType
<1>4. SumOf(size', Resolved) = SumOf(size, Resolved)
  BY <1>1, <1>2, SumCongruence
<1> QED
  BY <1>3, <1>4

\* No tool has been called.
LEMMA InitTools == Init => ToolInv
<1> SUFFICES ASSUME Init PROVE ToolInv
  OBVIOUS
<1>1. Invoked = {} /\ Admitted = {} /\ Resolved = {}
  BY DEF Init, Invoked, Admitted, Resolved
<1>2. Cardinality({}) = 0 /\ SumOf(size, {}) = 0
  BY FS_EmptySet, SumOfNothing
<1>3. MaxConcurrent \in Nat /\ MaxToolCalls \in Nat /\ MaxTotalResult \in Nat
  BY RuntimeAssumption DEF RuntimeAssumption
<1>4. call \in [Calls -> CallStates] /\ size \in [Calls -> Nat] /\ slotQueue \in Seq(Calls)
      /\ Len(slotQueue) = 0 /\ toolCalls = 0 /\ resultBytes = 0 /\ permits = MaxConcurrent
  BY DEF Init, CallStates
<1>5. \A i \in 1 .. Len(slotQueue) : FALSE
  BY <1>4
<1> QED
  BY <1>1, <1>2, <1>3, <1>4, <1>5 DEF ToolInv

\* A refused call is counted and nothing more; an admitted one waits for a permit.
LEMMA InvokeKeeps == ASSUME ToolInv, NEW t \in Calls, ToolInvoke(t) PROVE ToolInv'
<1>1. /\ call[t] = "idle" /\ toolCalls' = toolCalls + 1
      /\ UNCHANGED <<resultBytes, permits, size>>
  BY DEF ToolInvoke, IsNext
<1>2. MaxToolCalls \in Nat
  BY RuntimeAssumption DEF RuntimeAssumption
<1>3. CASE call' = [call EXCEPT ![t] = "refused"] /\ UNCHANGED slotQueue
  <2>1. Invoked' = Invoked /\ Admitted' = Admitted /\ Resolved' = Resolved
    BY <1>1, <1>3 DEF ToolInv, Invoked, Admitted, Resolved
  <2>2. call' \in [Calls -> CallStates]
    BY <1>3 DEF ToolInv, CallStates
  <2>3. \A i \in 1 .. Len(slotQueue) : call'[slotQueue[i]] = "queued"
    BY <1>1, <1>3 DEF ToolInv
  <2>4. SumOf(size', Resolved') = SumOf(size, Resolved)
    BY <1>1, <2>1
  <2> QED
    BY <1>1, <1>3, <2>1, <2>2, <2>3, <2>4, CallKinds DEF ToolInv
<1>4. CASE /\ toolCalls' <= MaxToolCalls /\ call' = [call EXCEPT ![t] = "queued"]
           /\ slotQueue' = Append(slotQueue, t)
  <2>1. Invoked' = Invoked /\ Admitted' = Admitted \union {t} /\ Resolved' = Resolved
    BY <1>1, <1>4 DEF ToolInv, Invoked, Admitted, Resolved
  <2>2. call' \in [Calls -> CallStates] /\ slotQueue' \in Seq(Calls)
    BY <1>4 DEF ToolInv, CallStates
  <2> DEFINE n == Len(slotQueue)
  <2>3. /\ n \in Nat /\ Len(slotQueue') = n + 1 /\ slotQueue'[n + 1] = t
        /\ \A i \in 1 .. n : slotQueue'[i] = slotQueue[i]
    BY <1>4 DEF ToolInv
  <2>4. \A i \in 1 .. n : slotQueue[i] \in Calls /\ call[slotQueue[i]] = "queued"
    BY DEF ToolInv
  <2>5. \A i, j \in 1 .. n : slotQueue[i] = slotQueue[j] => i = j
    BY DEF ToolInv
  <2>6. call'[t] = "queued" /\ \A u \in Calls \ {t} : call'[u] = call[u]
    BY <1>4 DEF ToolInv
  <2> HIDE DEF n
  <2>7. \A i \in 1 .. n + 1 : call'[slotQueue'[i]] = "queued"
    BY <1>1, <2>3, <2>4, <2>6
  <2>8. \A i, j \in 1 .. n + 1 : slotQueue'[i] = slotQueue'[j] => i = j
    BY <1>1, <2>3, <2>4, <2>5
  <2>9. Cardinality(Admitted') = Cardinality(Admitted) + 1
    <3>1. Admitted \in SUBSET Calls /\ t \notin Admitted
      BY <1>1 DEF Admitted
    <3> QED
      BY <2>1, <3>1, OneMore
  <2>10. Cardinality(Admitted') <= toolCalls' /\ Cardinality(Admitted') <= MaxToolCalls
    BY <1>1, <1>2, <1>4, <2>9, CallKinds DEF ToolInv
  <2>11. SumOf(size', Resolved') = SumOf(size, Resolved)
    BY <1>1, <2>1
  <2>12. /\ \A i \in 1 .. Len(slotQueue') : call'[slotQueue'[i]] = "queued"
         /\ \A i, j \in 1 .. Len(slotQueue') : slotQueue'[i] = slotQueue'[j] => i = j
    BY ONLY <2>3, <2>7, <2>8
  <2>13. /\ size' \in [Calls -> Nat] /\ toolCalls' \in Nat /\ resultBytes' \in Nat
         /\ permits' \in Nat /\ permits' + Cardinality(Invoked') = MaxConcurrent
    BY <1>1, <2>1 DEF ToolInv
  <2>14. SumOf(size', Resolved') <= resultBytes' /\ SumOf(size', Resolved') <= MaxTotalResult
    BY <1>1, <2>11 DEF ToolInv
  <2> QED
    BY <2>2, <2>10, <2>12, <2>13, <2>14 DEF ToolInv
<1> QED
  BY <1>3, <1>4 DEF ToolInvoke

\* The call that has waited longest gets a permit.
LEMMA AcquireKeeps == ASSUME ToolInv, AcquireSlot PROVE ToolInv'
<1> DEFINE t == slotQueue[1]
           n == Len(slotQueue)
<1>1. /\ slotQueue # <<>> /\ permits > 0 /\ permits' = permits - 1
      /\ slotQueue' = Tail(slotQueue) /\ call' = [call EXCEPT ![t] = "invoked"]
      /\ UNCHANGED <<toolCalls, resultBytes, size>>
  BY DEF AcquireSlot
<1>2. n \in Nat /\ n > 0
  BY <1>1 DEF ToolInv
<1>3. t \in Calls /\ call[t] = "queued"
  BY <1>2 DEF ToolInv
<1>4. /\ slotQueue' \in Seq(Calls) /\ Len(slotQueue') = n - 1
      /\ \A i \in 1 .. n - 1 : slotQueue'[i] = slotQueue[i + 1]
  BY <1>1 DEF ToolInv
<1>5. /\ \A i \in 1 .. n : slotQueue[i] \in Calls /\ call[slotQueue[i]] = "queued"
      /\ \A i, j \in 1 .. n : slotQueue[i] = slotQueue[j] => i = j
      /\ \A i \in 1 .. n : slotQueue[i] = t => i = 1
  BY <1>2 DEF ToolInv
<1>6. call' \in [Calls -> CallStates] /\ \A u \in Calls \ {t} : call'[u] = call[u]
  BY <1>1, <1>3 DEF ToolInv, CallStates
<1>7. Invoked' = Invoked \union {t} /\ Admitted' = Admitted /\ Resolved' = Resolved
  BY <1>1, <1>3 DEF ToolInv, Invoked, Admitted, Resolved
<1>8. Cardinality(Invoked') = Cardinality(Invoked) + 1
  <2>1. Invoked \in SUBSET Calls /\ t \notin Invoked
    BY <1>3 DEF Invoked
  <2> QED
    BY <1>3, <1>7, <2>1, OneMore
<1> HIDE DEF t, n
<1>9. \A i \in 1 .. n - 1 : i + 1 \in 1 .. n /\ i + 1 # 1
  BY <1>2
<1>10. \A i \in 1 .. n - 1 : call'[slotQueue'[i]] = "queued"
  BY <1>4, <1>5, <1>6, <1>9
<1>11. \A i, j \in 1 .. n - 1 : slotQueue'[i] = slotQueue'[j] => i = j
  <2> SUFFICES ASSUME NEW i \in 1 .. n - 1, NEW j \in 1 .. n - 1, slotQueue'[i] = slotQueue'[j]
               PROVE  i = j
    OBVIOUS
  <2>1. i + 1 = j + 1
    BY <1>4, <1>5, <1>9
  <2> QED
    BY <2>1
<1>12. permits' \in Nat /\ permits' + Cardinality(Invoked') = MaxConcurrent
  BY <1>1, <1>8, CallKinds DEF ToolInv
<1>13. SumOf(size', Resolved') = SumOf(size, Resolved)
  BY <1>1, <1>7
<1> QED
  BY <1>1, <1>4, <1>6, <1>7, <1>10, <1>11, <1>12, <1>13 DEF ToolInv

\* An invoked call that ends, either way, gives its permit back.
LEMMA ReleaseGivesBack ==
  ASSUME ToolInv, NEW t \in Calls, call[t] = "invoked", NEW end \in {"rejected", "resolved"},
         call' = [call EXCEPT ![t] = end], permits' = permits + 1,
         UNCHANGED <<toolCalls, slotQueue>>
  PROVE  /\ call' \in [Calls -> CallStates]
         /\ permits' \in Nat /\ permits' + Cardinality(Invoked') = MaxConcurrent
         /\ Cardinality(Admitted') = Cardinality(Admitted)
         /\ \A i \in 1 .. Len(slotQueue) : call'[slotQueue[i]] = "queued"
<1>1. call' \in [Calls -> CallStates]
  BY DEF ToolInv, CallStates
<1>2. Invoked = Invoked' \union {t} /\ Invoked' \in SUBSET Calls /\ t \notin Invoked'
  BY DEF ToolInv, Invoked
<1>3. Cardinality(Invoked) = Cardinality(Invoked') + 1 /\ Cardinality(Invoked') \in Nat
  BY <1>2, OneMore, CallSets
<1>4. permits' \in Nat /\ permits' + Cardinality(Invoked') = MaxConcurrent
  BY <1>3 DEF ToolInv
<1>5. Admitted' = Admitted
  BY DEF ToolInv, Admitted
<1>6. \A i \in 1 .. Len(slotQueue) : call'[slotQueue[i]] = "queued"
  BY DEF ToolInv
<1> QED
  BY <1>1, <1>4, <1>5, <1>6

\* A call that fails gives its permit back.
LEMMA FailKeeps == ASSUME ToolInv, NEW t \in Calls, ToolFails(t) PROVE ToolInv'
<1>1. /\ call[t] = "invoked" /\ call' = [call EXCEPT ![t] = "rejected"] /\ permits' = permits + 1
      /\ UNCHANGED <<toolCalls, resultBytes, slotQueue, size>>
  BY DEF ToolFails, ReleaseSlot
<1>2. Resolved' = Resolved
  BY <1>1 DEF ToolInv, Resolved
<1>3. SumOf(size', Resolved') = SumOf(size, Resolved)
  BY <1>1, <1>2
<1> QED
  BY <1>1, <1>3, ReleaseGivesBack DEF ToolInv

\* A result is added to the total before the total is compared.
LEMMA ReturnKeeps ==
  ASSUME ToolInv, NEW t \in Calls, NEW bytes \in Sizes, ToolReturns(t, bytes)
  PROVE  ToolInv'
<1>1. bytes \in Nat /\ MaxResult \in Nat /\ MaxTotalResult \in Nat
  BY RuntimeAssumption DEF RuntimeAssumption
<1>2. /\ call[t] = "invoked" /\ permits' = permits + 1 /\ size' = [size EXCEPT ![t] = bytes]
      /\ resultBytes' = IF bytes > MaxResult THEN resultBytes ELSE resultBytes + bytes
      /\ UNCHANGED <<toolCalls, slotQueue>>
  BY DEF ToolReturns, ReleaseSlot
<1>3. t \notin Resolved
  BY <1>2 DEF Resolved
<1>4. size' \in [Calls -> Nat] /\ \A u \in Resolved : size'[u] = size[u]
  BY <1>1, <1>2, <1>3 DEF ToolInv, Resolved
<1>5. SumOf(size', Resolved) = SumOf(size, Resolved) /\ SumOf(size, Resolved) \in Nat
  BY <1>4, SameResults DEF ToolInv
<1>6. resultBytes' \in Nat /\ resultBytes' >= resultBytes
  BY <1>1, <1>2 DEF ToolInv
<1>7. CASE bytes > MaxResult \/ resultBytes + bytes > MaxTotalResult
  <2>1. call' = [call EXCEPT ![t] = "rejected"]
    BY <1>7 DEF ToolReturns, Total
  <2>2. Resolved' = Resolved
    BY <1>2, <2>1 DEF ToolInv, Resolved
  <2>3. SumOf(size', Resolved') = SumOf(size', Resolved)
    BY <2>2
  <2>4. SumOf(size', Resolved') <= resultBytes' /\ SumOf(size', Resolved') <= MaxTotalResult
    BY <1>5, <1>6, <2>3 DEF ToolInv
  <2> QED
    BY <1>2, <1>4, <1>6, <2>1, <2>4, ReleaseGivesBack DEF ToolInv
<1>8. CASE ~(bytes > MaxResult \/ resultBytes + bytes > MaxTotalResult)
  <2>1. call' = [call EXCEPT ![t] = "resolved"] /\ resultBytes' = resultBytes + bytes
    BY <1>2, <1>8 DEF ToolReturns, Total
  <2>2. Resolved' = Resolved \union {t}
    BY <1>2, <2>1 DEF ToolInv, Resolved
  <2>3. SumOf(size', Resolved \union {t}) = size'[t] + SumOf(size', Resolved)
    <3>1. IsFiniteSet(Resolved) /\ \A u \in Resolved \union {t} : size'[u] \in Nat
      BY <1>4, CallKinds, CallSets
    <3> QED
      BY <1>3, <3>1, SumAdd
  <2>4. size'[t] = bytes
    BY <1>2 DEF ToolInv
  <2>5. SumOf(size', Resolved') = SumOf(size', Resolved \union {t})
    BY <2>2
  <2>6. SumOf(size', Resolved') <= resultBytes' /\ SumOf(size', Resolved') <= MaxTotalResult
    BY <1>1, <1>5, <1>8, <2>1, <2>3, <2>4, <2>5 DEF ToolInv
  <2> QED
    BY <1>2, <1>4, <1>6, <2>1, <2>6, ReleaseGivesBack DEF ToolInv
<1> QED
  BY <1>7, <1>8

\* The invariant on tool calls is inductive.
LEMMA NextKeepsTools == ASSUME ToolInv, [Next]_vars PROVE ToolInv'
<1>1. ASSUME NEW t \in Calls,
             ToolInvoke(t) \/ ToolFails(t) \/ \E bytes \in Sizes : ToolReturns(t, bytes)
      PROVE  ToolInv'
  BY <1>1, InvokeKeeps, FailKeeps, ReturnKeeps
<1>2. CASE UNCHANGED toolVars
  <2>1. UNCHANGED <<toolCalls, resultBytes, permits, slotQueue, call, size>>
    BY <1>2 DEF toolVars
  <2>2. Invoked' = Invoked /\ Admitted' = Admitted /\ Resolved' = Resolved
    BY <2>1 DEF Invoked, Admitted, Resolved
  <2>3. SumOf(size', Resolved') = SumOf(size, Resolved)
    BY <2>1, <2>2
  <2> QED
    BY <2>1, <2>2, <2>3 DEF ToolInv
<1>3. \/ \E bytes \in Sizes : Text(bytes)
      \/ \E limit \in ObserverLimits : Observe(limit)
      \/ ObserverTimeout
      \/ \E how \in {"completed", "failed", "terminated"} : Conclude(how)
      \/ \E y \in Yields : YieldControl(y)
      \/ ReceiveYield
      \/ \E m \in Timers : SetTimeout(m) \/ SleepEnds(m) \/ TimerContinues(m) \/ ClearTimeout(m)
      \/ UNCHANGED vars
      => UNCHANGED toolVars
  BY DEF Text, Observe, ObserverTimeout, Conclude, YieldControl, ReceiveYield, SetTimeout,
         SleepEnds, TimerContinues, ClearTimeout, vars
<1> QED
  BY <1>1, <1>2, <1>3, AcquireKeeps DEF Next

\* Whatever runs concurrently, the invoker is never asked for more calls than allowed, at
\* once or in all, and the program never gets more bytes than allowed (ops.rs:
\* op_tool_invoke).
THEOREM SpecToolBudget == Spec => []ToolBudget
<1>1. ToolInv => ToolBudget
  <2> SUFFICES ASSUME ToolInv PROVE ToolBudget
    OBVIOUS
  <2>1. Cardinality(Invoked) <= MaxConcurrent
    <3>1. MaxConcurrent \in Nat
      BY RuntimeAssumption DEF RuntimeAssumption
    <3> QED
      BY <3>1, CallKinds DEF ToolInv
  <2>2. MapThenSumSet(LAMBDA t : size[t], Resolved) = SumOf(size, Resolved)
    BY DEF SumOf
  <2> QED
    BY <2>1, <2>2 DEF ToolInv, ToolBudget, Invoked, Admitted, Resolved
<1> QED
  BY InitTools, NextKeepsTools, <1>1, PTL DEF Spec

-----------------------------------------------------------------------------
(* Output                                                                       *)

\* The bytes of a stretch of items are a sum.
LEMMA BytesAreSums == \A from, to : Bytes(from, to) = SumOf(entries, from .. to)
BY DEF Bytes, SumOf

\* A stretch of a sequence of sizes, of sizes that are natural numbers.
LEMMA StretchType ==
  ASSUME NEW q \in Seq(Nat \ {0}), NEW a \in Nat \ {0}, NEW b \in 0 .. Len(q)
  PROVE  /\ IsFiniteSet(a .. b) /\ \A k \in a .. b : q[k] \in Nat
         /\ SumOf(q, a .. b) \in Nat
<1>1. IsFiniteSet(a .. b)
  BY FS_Interval
<1>2. \A k \in a .. b : q[k] \in Nat
  OBVIOUS
<1>3. SumOf(q, a .. b) \in Nat
  BY <1>1, <1>2, SumType
<1> QED
  BY <1>1, <1>2, <1>3

\* A buffer's bytes grow by those of the item that is pushed.
LEMMA PushBytes ==
  ASSUME NEW q \in Seq(Nat \ {0}), NEW x \in Nat \ {0}
  PROVE  SumOf(Append(q, x), 1 .. Len(q) + 1) = SumOf(q, 1 .. Len(q)) + x
<1> DEFINE n == Len(q)
           e == Append(q, x)
<1>1. n \in Nat /\ e \in Seq(Nat \ {0}) /\ Len(e) = n + 1 /\ e[n + 1] = x
      /\ \A k \in 1 .. n : e[k] = q[k] /\ q[k] \in Nat
  OBVIOUS
<1>2. IsFiniteSet(1 .. n) /\ SumOf(q, 1 .. n) \in Nat
  <2>1. 1 \in Nat \ {0} /\ n \in 0 .. Len(q)
    BY <1>1
  <2> QED
    BY <2>1, StretchType
<1> HIDE DEF n, e
<1>3. SumOf(e, 1 .. n) = SumOf(q, 1 .. n)
  BY <1>1, <1>2, SumCongruence
<1>4. 1 .. n + 1 = (1 .. n) \cup {n + 1} /\ n + 1 \notin 1 .. n
  BY <1>1
<1>5. \A k \in (1 .. n) \cup {n + 1} : e[k] \in Nat
  BY <1>1
<1>6. SumOf(e, (1 .. n) \cup {n + 1}) = e[n + 1] + SumOf(e, 1 .. n)
  BY <1>2, <1>4, <1>5, SumAdd
<1>7. SumOf(e, 1 .. n + 1) = SumOf(e, (1 .. n) \cup {n + 1})
  BY <1>4
<1>8. e[n + 1] = x
  BY <1>1
<1>9. SumOf(e, 1 .. n + 1) = x + SumOf(q, 1 .. n)
  BY <1>3, <1>6, <1>7, <1>8
<1>10. SumOf(e, 1 .. n + 1) = SumOf(q, 1 .. n) + x
  BY <1>2, <1>9
<1> QED
  BY <1>10 DEF n, e

\* The cursor can always be moved: items are taken while they fit.
LEMMA NextFits ==
  ASSUME OutputInv, AnswerInv, NEW limit \in Nat
  PROVE  NextSequence(limit) \in delivered .. Len(entries)
<1> DEFINE d == delivered
           n == Len(entries)
           Fits(m) == Bytes(d + 1, m) <= limit
           Stops(m) == m = n \/ Bytes(d + 1, m + 1) > limit
           Ends == {m \in Nat : m >= d /\ m <= n /\ Stops(m)}
<1>1. d \in Nat /\ n \in Nat /\ d <= n
  BY DEF OutputInv, AnswerInv
<1>2. \A m \in Nat : m <= n => Bytes(d + 1, m) \in Nat
  <2> SUFFICES ASSUME NEW m \in Nat, m <= n PROVE Bytes(d + 1, m) \in Nat
    OBVIOUS
  <2>1. d + 1 \in Nat \ {0} /\ m \in 0 .. Len(entries)
    BY <1>1
  <2> QED
    BY <2>1, StretchType, BytesAreSums DEF OutputInv
<1>3. Fits(d)
  <2>1. (d + 1) .. d = {}
    BY <1>1
  <2>2. SumOf(entries, (d + 1) .. d) = 0
    BY <2>1, SumOfNothing
  <2>3. Bytes(d + 1, d) = 0
    BY <2>2, BytesAreSums
  <2> QED
    BY <2>3
<1> HIDE DEF d, n
<1>4. n \in Ends /\ Ends \in SUBSET Nat
  BY <1>1
<1>5. Min(Ends) \in Ends /\ \A m \in Ends : Min(Ends) <= m
  BY <1>4, LeastNatural
<1> DEFINE m == Min(Ends)
<1>6. m \in Nat /\ m >= d /\ m <= n /\ Stops(m)
  BY <1>5
<1>7. \A k \in Ends : m <= k
  BY <1>5
<1> HIDE DEF m
<1>8. Fits(m)
  <2>1. CASE m = d
    BY <1>3, <2>1
  <2>2. CASE m # d
    <3>1. m - 1 \in Nat /\ m - 1 >= d /\ m - 1 <= n /\ m - 1 # n
      BY <1>1, <1>6, <2>2
    <3>2. m - 1 \notin Ends
      BY <1>6, <1>7, <3>1
    <3>3. ~ Stops(m - 1)
      BY <3>1, <3>2
    <3>4. (m - 1) + 1 = m
      BY <1>6
    <3> QED
      BY <1>2, <1>6, <3>3, <3>4
  <2> QED
    BY <2>1, <2>2
<1>9. m \in d .. n
  BY <1>1, <1>6
<1>10. \E k \in d .. n : Fits(k) /\ Stops(k)
  BY <1>6, <1>8, <1>9
<1> QED
  BY <1>10 DEF NextSequence, d, n

\* A run of numbers continued.
LEMMA RunsOn ==
  ASSUME NEW d \in Nat, NEW n \in Nat, d <= n
  PROVE  [k \in 1 .. d |-> k] \o [k \in 1 .. n - d |-> d + k] = [k \in 1 .. n |-> k]
<1> DEFINE s == [k \in 1 .. d |-> k]
           t == [k \in 1 .. n - d |-> d + k]
           u == [k \in 1 .. n |-> k]
<1>1. s \in Seq(Nat) /\ Len(s) = d /\ \A k \in 1 .. d : s[k] = k
  OBVIOUS
<1>2. t \in Seq(Nat) /\ Len(t) = n - d /\ \A k \in 1 .. n - d : t[k] = d + k
  OBVIOUS
<1>3. u \in Seq(Nat) /\ Len(u) = n /\ \A k \in 1 .. n : u[k] = k
  OBVIOUS
<1> HIDE DEF s, t, u
<1>4. /\ s \o t \in Seq(Nat) /\ Len(s \o t) = Len(s) + Len(t)
      /\ \A i \in 1 .. Len(s) : (s \o t)[i] = s[i]
      /\ \A i \in 1 .. Len(t) : (s \o t)[Len(s) + i] = t[i]
  <2>1. s \in Seq(Nat) /\ t \in Seq(Nat)
    BY <1>1, <1>2
  <2> QED
    BY ONLY <2>1, ConcatFacts
<1>5. Len(s \o t) = n
  BY <1>1, <1>2, <1>4
<1>6. ASSUME NEW i \in 1 .. n PROVE (s \o t)[i] = u[i]
  <2>1. CASE i <= d
    BY <1>1, <1>3, <1>4, <2>1
  <2>2. CASE i > d
    <3>1. i - d \in 1 .. Len(t) /\ Len(s) + (i - d) = i
      BY <1>1, <1>2, <2>2
    <3>2. (s \o t)[i] = t[i - d]
      BY <1>4, <3>1
    <3> QED
      BY <1>2, <1>3, <3>1, <3>2
  <2>3. i <= d \/ i > d
    OBVIOUS
  <2> QED
    BY ONLY <2>1, <2>2, <2>3
<1>7. s \o t = u
  BY <1>3, <1>4, <1>5, <1>6
<1> QED
  BY <1>7 DEF s, t, u

\* An answer hands out what lies between the old cursor and the new one, and says so when
\* something is missing.
LEMMA DeliverKeeps ==
  ASSUME OutputInv, AnswerInv, NEW limit \in Nat, Deliver(limit), UNCHANGED entries
  PROVE  AnswerInv'
<1> DEFINE n == NextSequence(limit)
<1>1. n \in delivered .. Len(entries) /\ delivered \in Nat /\ Len(entries) \in Nat
  <2>1. n \in delivered .. Len(entries)
    BY NextFits
  <2>2. delivered \in Nat /\ Len(entries) \in Nat
    BY DEF OutputInv, AnswerInv
  <2> QED
    BY <2>1, <2>2
<1>2. /\ delivered' = n
      /\ got' = got \o [k \in 1 .. delivered' - delivered |-> delivered + k]
      /\ unsaid' = (unsaid \/ (~Truncated(limit) /\ Bytes(1, n) # emitted))
  BY DEF Deliver, Snapshot
<1>3. ~Truncated(limit) => Bytes(1, n) = emitted
  <2> SUFFICES ASSUME ~Truncated(limit) PROVE Bytes(1, n) = emitted
    OBVIOUS
  <2>1. ~truncated /\ ~(n < Len(entries))
    BY DEF Truncated
  <2> HIDE DEF n
  <2>2. n = Len(entries)
    BY <1>1, <2>1
  <2> QED
    BY <2>1, <2>2, BytesAreSums DEF OutputInv
<1>4. unsaid' = FALSE
  BY <1>2, <1>3 DEF AnswerInv
<1> HIDE DEF n
<1>5. n \in Nat /\ delivered <= n
  BY <1>1
<1>6. got' = [k \in 1 .. n |-> k]
  BY <1>1, <1>2, <1>5, RunsOn DEF AnswerInv
<1> QED
  BY <1>1, <1>2, <1>4, <1>6 DEF AnswerInv

\* What does not fit is cut off or dropped, and remembered as such.
LEMMA TextKeeps ==
  ASSUME OutputInv, AnswerInv, NEW bytes \in Sizes, Text(bytes)
  PROVE  OutputInv' /\ AnswerInv'
<1>1. bytes \in Nat \ {0} /\ MaxOutput \in Nat
  BY RuntimeAssumption DEF RuntimeAssumption
<1>2. PICK kept \in Kept(bytes) :
        /\ totalBytes' = totalBytes + kept
        /\ truncated' = (truncated \/ kept < bytes)
        /\ entries' = IF kept = 0 THEN entries ELSE Append(entries, kept)
  BY DEF Text
<1>3. emitted' = emitted + bytes /\ UNCHANGED <<delivered, got, unsaid>>
  BY DEF Text, answerVars
<1>4. totalBytes \in Nat /\ totalBytes <= MaxOutput /\ Len(entries) \in Nat
  <2>1. 1 \in Nat \ {0} /\ Len(entries) \in 0 .. Len(entries)
    BY DEF OutputInv
  <2> QED
    BY <2>1, StretchType DEF OutputInv
<1>5. kept \in Nat /\ totalBytes + kept <= MaxOutput /\ (kept >= bytes => kept = bytes)
  BY <1>1, <1>4 DEF Kept
<1>6. CASE kept = 0
  <2>0. kept < bytes
    BY <1>1, <1>6
  <2>1. entries' = entries
    BY <1>2, <1>6
  <2>2. totalBytes' = totalBytes
    BY <1>2, <1>4, <1>6
  <2>3. truncated' = TRUE
    BY ONLY <1>2, <2>0
  <2> QED
    BY <1>1, <1>3, <2>1, <2>2, <2>3 DEF OutputInv, AnswerInv
<1>7. CASE kept # 0
  <2>1. /\ entries' = Append(entries, kept) /\ entries' \in Seq(Nat \ {0})
        /\ Len(entries') = Len(entries) + 1
    BY <1>2, <1>5, <1>7 DEF OutputInv
  <2>2. SumOf(entries', 1 .. Len(entries')) = SumOf(entries, 1 .. Len(entries)) + kept
    BY <1>5, <1>7, <2>1, PushBytes DEF OutputInv
  <2>3. totalBytes' = SumOf(entries', 1 .. Len(entries')) /\ totalBytes' <= MaxOutput
    BY <1>2, <1>5, <2>2 DEF OutputInv
  <2>4. ~truncated' => emitted' = totalBytes'
    <3> SUFFICES ASSUME ~truncated' PROVE emitted' = totalBytes'
      OBVIOUS
    <3>1. ~truncated /\ ~(kept < bytes)
      BY <1>2
    <3>2. kept = bytes
      BY <1>1, <1>5, <3>1
    <3>3. emitted = totalBytes
      BY <3>1 DEF OutputInv
    <3> QED
      BY <1>2, <1>3, <3>2, <3>3
  <2>5. truncated' \in BOOLEAN /\ emitted' \in Nat
    BY <1>1, <1>2, <1>3 DEF OutputInv
  <2>6. delivered' \in 0 .. Len(entries')
    BY <1>3, <1>4, <2>1 DEF AnswerInv
  <2> QED
    BY <1>3, <2>1, <2>3, <2>4, <2>5, <2>6 DEF OutputInv, AnswerInv
<1> QED
  BY <1>6, <1>7

\* Nothing has been emitted.
LEMMA InitOutput == Init => OutputInv /\ AnswerInv
<1> SUFFICES ASSUME Init PROVE OutputInv /\ AnswerInv
  OBVIOUS
<1>1. entries = <<>> /\ totalBytes = 0 /\ truncated = FALSE /\ emitted = 0
      /\ delivered = 0 /\ got = <<>> /\ unsaid = FALSE
  BY DEF Init
<1>2. entries \in Seq(Nat \ {0}) /\ Len(entries) = 0 /\ 1 .. 0 = {}
  BY <1>1
<1>3. SumOf(entries, 1 .. Len(entries)) = 0
  BY <1>2, SumOfNothing
<1>4. [k \in 1 .. 0 |-> k] = <<>>
  BY <1>2
<1>5. MaxOutput \in Nat
  BY RuntimeAssumption DEF RuntimeAssumption
<1>6. OutputInv
  <2>1. totalBytes = SumOf(entries, 1 .. Len(entries)) /\ totalBytes <= MaxOutput
    BY <1>1, <1>3, <1>5
  <2>2. entries \in Seq(Nat \ {0}) /\ truncated \in BOOLEAN /\ emitted \in Nat
    BY <1>1, <1>2
  <2>3. emitted = totalBytes
    BY <1>1
  <2> QED
    BY <2>1, <2>2, <2>3 DEF OutputInv
<1>7. AnswerInv
  <2>1. got = [k \in 1 .. delivered |-> k]
    BY <1>1, <1>4
  <2>2. delivered \in 0 .. Len(entries) /\ unsaid = FALSE
    BY <1>1, <1>2
  <2> QED
    BY <2>1, <2>2 DEF AnswerInv
<1> QED
  BY <1>6, <1>7

\* The actor answers with the observer's limit, and an observer that waits has one.
LEMMA AnswerKeeps ==
  ASSUME OutputInv, AnswerInv, ActorInv, AnswerObserver, UNCHANGED outputVars
  PROVE  OutputInv' /\ AnswerInv'
<1>1. UNCHANGED <<entries, totalBytes, truncated, emitted>>
  BY DEF outputVars
<1>2. OutputInv'
  BY <1>1 DEF OutputInv
<1>3. CASE observer # None /\ Deliver(observer)
  <2>1. observer \in Nat
    BY <1>3, RuntimeAssumption DEF ActorInv, RuntimeAssumption
  <2> QED
    BY <1>1, <1>2, <1>3, <2>1, DeliverKeeps
<1>4. CASE UNCHANGED answerVars
  BY <1>1, <1>2, <1>4 DEF answerVars, AnswerInv
<1> QED
  BY <1>3, <1>4 DEF AnswerObserver

\* The invariants on output and answers are inductive together.
LEMMA NextKeepsOutput ==
  ASSUME OutputInv, AnswerInv, ActorInv, [Next]_vars
  PROVE  OutputInv' /\ AnswerInv'
<1>1. ASSUME UNCHANGED outputVars PROVE OutputInv' /\ UNCHANGED entries
  BY <1>1 DEF outputVars, OutputInv
<1>2. ASSUME UNCHANGED <<outputVars, answerVars>> PROVE OutputInv' /\ AnswerInv'
  BY <1>1, <1>2 DEF outputVars, answerVars, AnswerInv
<1>3. ASSUME NEW bytes \in Sizes, Text(bytes) PROVE OutputInv' /\ AnswerInv'
  BY <1>3, TextKeeps
<1>4. ASSUME NEW limit \in ObserverLimits, Observe(limit) PROVE OutputInv' /\ AnswerInv'
  <2>1. UNCHANGED outputVars /\ (Deliver(limit) \/ UNCHANGED answerVars)
    BY <1>4 DEF Observe
  <2>2. limit \in Nat
    BY RuntimeAssumption DEF RuntimeAssumption
  <2> QED
    BY <1>1, <1>2, <2>1, <2>2, DeliverKeeps
<1>5. ASSUME ObserverTimeout PROVE OutputInv' /\ AnswerInv'
  <2>1. UNCHANGED outputVars /\ observer # None /\ Deliver(observer)
    BY <1>5 DEF ObserverTimeout
  <2>2. observer \in Nat
    BY <2>1, RuntimeAssumption DEF ActorInv, RuntimeAssumption
  <2> QED
    BY <1>1, <2>1, <2>2, DeliverKeeps
<1>6. ASSUME ReceiveYield \/ \E how \in {"completed", "failed", "terminated"} : Conclude(how)
      PROVE  OutputInv' /\ AnswerInv'
  <2>1. AnswerObserver /\ UNCHANGED outputVars
    BY <1>6 DEF ReceiveYield, Conclude
  <2> QED
    BY <2>1, AnswerKeeps
<1>7. \/ \E y \in Yields : YieldControl(y)
      \/ \E t \in Calls : ToolInvoke(t) \/ ToolFails(t) \/ \E bytes \in Sizes : ToolReturns(t, bytes)
      \/ AcquireSlot
      \/ \E m \in Timers : SetTimeout(m) \/ SleepEnds(m) \/ TimerContinues(m) \/ ClearTimeout(m)
      \/ UNCHANGED vars
      => UNCHANGED <<outputVars, answerVars>>
  BY DEF YieldControl, ToolInvoke, ToolFails, ToolReturns, AcquireSlot, SetTimeout, SleepEnds,
         TimerContinues, ClearTimeout, vars
<1> QED
  BY <1>2, <1>3, <1>4, <1>5, <1>6, <1>7 DEF Next

-----------------------------------------------------------------------------
(* The actor's and the program's own state                                      *)

\* The program starts one operation at a time, within its bound.
LEMMA StartType == ASSUME ActorInv, Started PROVE ops' \in 0 .. MaxOps
BY RuntimeAssumption DEF ActorInv, Started, RuntimeAssumption

\* Every step keeps the types of the actor's state.
LEMMA NextKeepsActor == ASSUME ActorInv, [Next]_vars PROVE ActorInv'
<1>0. MaxOps \in Nat /\ MaxObservations \in Nat
  BY RuntimeAssumption DEF RuntimeAssumption
<1>1. ASSUME NEW bytes \in Sizes, Text(bytes) PROVE ActorInv'
  BY <1>1, StartType DEF Text, actorVars, ActorInv
<1>2. ASSUME NEW limit \in ObserverLimits, Observe(limit) PROVE ActorInv'
  <2>1. observations' \in 0 .. MaxObservations
    BY <1>0, <1>2 DEF Observe, ActorInv
  <2>2. yield' \in [Yields -> {"idle", "paused", "resumed", "rejected"}]
    BY <1>2 DEF Observe, ActorInv
  <2>3. /\ verdict' \in {"none", "completed", "failed", "terminated"}
        /\ observer' \in ObserverLimits \union {None} /\ suspended' \in Yields \union {None}
        /\ UNCHANGED <<ops, yieldQueue>>
    BY <1>2 DEF Observe, ActorInv
  <2> QED
    BY <2>1, <2>2, <2>3 DEF ActorInv
<1>3. ASSUME ObserverTimeout PROVE ActorInv'
  BY <1>3 DEF ObserverTimeout, ActorInv
<1>4. ASSUME NEW how \in {"completed", "failed", "terminated"}, Conclude(how) PROVE ActorInv'
  BY <1>4 DEF Conclude, AnswerObserver, ActorInv
<1>5. ASSUME NEW y \in Yields, YieldControl(y) PROVE ActorInv'
  BY <1>5, StartType DEF YieldControl, ActorInv
<1>6. ASSUME ReceiveYield PROVE ActorInv'
  <2>1. Head(yieldQueue) \in Yields /\ Tail(yieldQueue) \in Seq(Yields)
    BY <1>6 DEF ReceiveYield, ActorInv
  <2>2. yield' \in [Yields -> {"idle", "paused", "resumed", "rejected"}]
    BY <1>6 DEF ReceiveYield, ActorInv
  <2> QED
    BY <1>6, <2>1, <2>2 DEF ReceiveYield, AnswerObserver, ActorInv
<1>7. ASSUME NEW t \in Calls, ToolInvoke(t) PROVE ActorInv'
  BY <1>7, StartType DEF ToolInvoke, actorVars, ActorInv
<1>8. ASSUME NEW m \in Timers, SetTimeout(m) PROVE ActorInv'
  BY <1>8, StartType DEF SetTimeout, actorVars, ActorInv
<1>9. ASSUME UNCHANGED <<ops, actorVars>> PROVE ActorInv'
  BY <1>9 DEF actorVars, ActorInv
<1>10. \/ \E t \in Calls : ToolFails(t) \/ \E bytes \in Sizes : ToolReturns(t, bytes)
       \/ AcquireSlot
       \/ \E m \in Timers : SleepEnds(m) \/ TimerContinues(m) \/ ClearTimeout(m)
       \/ UNCHANGED vars
       => UNCHANGED <<ops, actorVars>>
  BY DEF ToolFails, ToolReturns, AcquireSlot, SleepEnds, TimerContinues, ClearTimeout, vars
<1> QED
  BY <1>1, <1>2, <1>3, <1>4, <1>5, <1>6, <1>7, <1>8, <1>9, <1>10 DEF Next

\* The actor has done nothing.
LEMMA InitActor == Init => ActorInv
  BY RuntimeAssumption DEF Init, ActorInv, RuntimeAssumption

\* The invariant of the whole cell.
RuntimeInv == TimerInv /\ ToolInv /\ OutputInv /\ AnswerInv /\ ActorInv

\* The invariant holds of every reachable state.
LEMMA RuntimeInvariant == Spec => []RuntimeInv
<1>1. Init => RuntimeInv
  BY InitTimers, InitTools, InitOutput, InitActor DEF RuntimeInv
<1>2. RuntimeInv /\ [Next]_vars => RuntimeInv'
  BY NextKeepsTimers, NextKeepsTools, NextKeepsOutput, NextKeepsActor DEF RuntimeInv
<1> QED
  BY <1>1, <1>2, PTL DEF Spec

\* The invariant implies the types the runs check.
LEMMA TypesHold == ASSUME RuntimeInv PROVE TypeOK
<1>1. totalBytes = Bytes(1, Len(entries))
  BY BytesAreSums DEF RuntimeInv, OutputInv
<1>2. permits \in 0 .. MaxConcurrent
  <2>1. MaxConcurrent \in Nat /\ permits \in Nat /\ permits + Cardinality(Invoked) = MaxConcurrent
    BY RuntimeAssumption DEF RuntimeInv, ToolInv, RuntimeAssumption
  <2>2. Cardinality(Invoked) \in Nat
    BY CallKinds
  <2> QED
    BY <2>1, <2>2
<1>3. got \in Seq(Nat)
  <2>1. delivered \in Nat /\ got = [k \in 1 .. delivered |-> k]
    BY DEF RuntimeInv, AnswerInv, OutputInv
  <2> QED
    BY <2>1
<1>4. /\ timers \subseteq Timers /\ active \subseteq Timers
      /\ fired \subseteq Timers /\ cleared \subseteq Timers
      /\ sleep \in [Timers -> {"idle", "sleeping", "woken", "cancelled", "over"}]
  BY DEF RuntimeInv, TimerInv, SleepStates
<1>5. /\ toolCalls \in Nat /\ resultBytes \in Nat /\ slotQueue \in Seq(Calls)
      /\ call \in [Calls -> {"idle", "refused", "queued", "invoked", "resolved", "rejected"}]
      /\ size \in [Calls -> Nat]
  BY DEF RuntimeInv, ToolInv, CallStates
<1>6. /\ entries \in Seq(Nat \ {0}) /\ truncated \in BOOLEAN /\ totalBytes <= MaxOutput
      /\ delivered \in 0 .. Len(entries) /\ emitted \in Nat /\ unsaid \in BOOLEAN
  BY DEF RuntimeInv, OutputInv, AnswerInv
<1> QED
  BY <1>1, <1>2, <1>3, <1>4, <1>5, <1>6 DEF RuntimeInv, ActorInv, TypeOK

\* "Each `wait` returns only new output", and all of it: the observers together are given
\* every item up to the cursor, once and in order, and an answer that is not marked as
\* truncated leaves nothing of what was emitted behind (output.rs: push, snapshot).
THEOREM SpecOutputDelivered == Spec => []OutputDelivered
<1>1. RuntimeInv => OutputDelivered
  BY TypesHold DEF RuntimeInv, AnswerInv, OutputDelivered
<1> QED
  BY RuntimeInvariant, <1>1, PTL

-----------------------------------------------------------------------------
(* The CPU limit: the execution thread and the watchdog thread, whose constants *)
(* and variables CellRuntime does not share.                                    *)

\* The ticks granted and not yet used reach up to the limit; once all are used, what
\* the counters say no longer matters.
BudgetInv ==
  used = Limit \/
    /\ deadline # NoDeadline => used + deadline >= Limit
    /\ exec \in {"ready", "armed"} => used + remaining >= Limit
    /\ exec \in {"running", "returned", "disarmed"} => used + remaining >= Limit + elapsed

\* A deadline is only set while its slice is charged, and the wait for it is as long.
DeadlineInv ==
  /\ deadline # NoDeadline => exec \in {"armed", "running", "returned"}
  /\ seen <= generation
  /\ watch = "timed" /\ seen = generation /\ deadline # NoDeadline => timeout = deadline

\* What the watchdog thread does, and every stop of a script, has its reason.
ReasonInv ==
  /\ watch = "tripped" => tripped
  /\ terminating => cancelled \/ tripped
  /\ exec \in {"returned", "disarmed"} /\ result = "terminated" => cancelled \/ tripped
  /\ outcome # "none" => exec \in {"ended", "dropping", "dropped"}

LimitInv == BudgetInv /\ DeadlineInv /\ ReasonInv /\ TripJustified /\ StopNamed

-----------------------------------------------------------------------------
LEMMA TypeInit == WatchdogInit => WatchdogTypeOK
<1>1. WatchdogInit => FlagsOK
  BY DEF WatchdogInit, FlagsOK
<1>2. WatchdogInit => CountersOK
  BY WatchdogAssumption DEF WatchdogInit, CountersOK, Ticks, NoDeadline
<1> QED
  BY <1>1, <1>2 DEF WatchdogTypeOK

\* Flags stay flags ...
LEMMA FlagsStep == FlagsOK /\ [WatchdogNext]_threadVars => FlagsOK'
<1> SUFFICES ASSUME FlagsOK, [WatchdogNext]_threadVars PROVE FlagsOK'
  OBVIOUS
<1> USE DEF FlagsOK
<1>1. CASE Tick
  BY <1>1 DEF Tick
<1>2. CASE Watch \/ WatchWakes
  BY <1>2 DEF Watch, WatchCheck, WatchTimesOut, WatchFires, WatchWakes, TripAndTerminate, WatchUnchanged
<1>3. CASE Execute
  BY <1>3 DEF Execute, Run, Stopped, EndSlice, AccountBootstrap, Account, Join, Disarm, Notify,
              ExecUnchanged, stateVars
<1>4. CASE Begin \/ BeginRefused \/ Drop \/ \E how \in {"pending", "done"} : Return(how)
  BY <1>4 DEF Begin, BeginRefused, Drop, Return, Arm, Stop, Notify, ExecUnchanged, stateVars
<1>5. CASE Cancel \/ UNCHANGED threadVars
  BY <1>5 DEF Cancel, threadVars, stateVars, watchVars
<1> QED
  BY <1>1, <1>2, <1>3, <1>4, <1>5 DEF WatchdogNext

\* ... and counters within the limit.
LEMMA CountersStep == CountersOK /\ [WatchdogNext]_threadVars => CountersOK'
<1> SUFFICES ASSUME CountersOK, [WatchdogNext]_threadVars PROVE CountersOK'
  OBVIOUS
<1> USE WatchdogAssumption DEF CountersOK, Ticks, NoDeadline
<1>1. CASE Tick
  BY <1>1 DEF Tick, Down, Up
<1>2. CASE Watch \/ WatchWakes
  BY <1>2 DEF Watch, WatchCheck, WatchTimesOut, WatchFires, WatchWakes, TripAndTerminate,
              WatchUnchanged, execVars
<1>3. CASE Run \/ Stopped \/ EndSlice \/ AccountBootstrap \/ Join
  BY <1>3 DEF Run, Stopped, EndSlice, AccountBootstrap, Join, Disarm, End, ExecUnchanged, stateVars
<1>4. CASE Account
  BY <1>4 DEF Account, Left, End, ExecUnchanged, stateVars
<1>5. CASE Begin \/ BeginRefused \/ Drop \/ \E how \in {"pending", "done"} : Return(how)
  BY <1>5 DEF Begin, BeginRefused, Drop, Return, Arm, Stop, End, ExecUnchanged, stateVars
<1>6. CASE Cancel \/ UNCHANGED threadVars
  BY <1>6 DEF Cancel, threadVars, stateVars, watchVars, execVars
<1> QED
  BY <1>1, <1>2, <1>3, <1>4, <1>5, <1>6 DEF WatchdogNext, Execute

LEMMA TypeStep == WatchdogTypeOK /\ [WatchdogNext]_threadVars => WatchdogTypeOK'
  BY FlagsStep, CountersStep DEF WatchdogTypeOK

\* The watchdog is type correct.
THEOREM WatchdogTypes == WatchdogSpec => []WatchdogTypeOK
<1> QED
  BY TypeInit, TypeStep, PTL DEF WatchdogSpec

-----------------------------------------------------------------------------
LEMMA LimitInit == WatchdogInit => LimitInv
  BY WatchdogAssumption DEF WatchdogInit, LimitInv, BudgetInv, DeadlineInv, ReasonInv, TripJustified,
     StopNamed, NoDeadline

\* Every step of either thread keeps the inductive invariant.
LEMMA LimitStep == WatchdogTypeOK /\ LimitInv /\ [WatchdogNext]_threadVars => LimitInv'
<1> SUFFICES ASSUME WatchdogTypeOK, LimitInv, [WatchdogNext]_threadVars PROVE LimitInv'
  OBVIOUS
<1> USE WatchdogAssumption DEF WatchdogTypeOK, CountersOK, Ticks, NoDeadline, LimitInv, BudgetInv, DeadlineInv,
        ReasonInv, TripJustified, StopNamed
<1>1. CASE Tick
  BY <1>1 DEF Tick, Down, Up
<1>2. CASE WatchCheck \/ WatchWakes
  BY <1>2 DEF WatchCheck, WatchWakes, WatchUnchanged, execVars
<1>3. CASE WatchTimesOut
  BY <1>3 DEF WatchTimesOut, SameTime, WatchUnchanged, execVars
<1>4. CASE WatchFires
  BY <1>4 DEF WatchFires, TripAndTerminate, WatchUnchanged, execVars
<1>5. CASE Begin
  BY <1>5 DEF Begin, Arm, ExecUnchanged
<1>6. CASE BeginRefused
  BY <1>6 DEF BeginRefused, End, ExecUnchanged, stateVars
<1>7. CASE Run \/ Stopped \/ \E how \in {"pending", "done"} : Return(how)
  BY <1>7 DEF Run, Stopped, Return, ExecUnchanged, stateVars
<1>8. CASE EndSlice
  BY <1>8 DEF EndSlice, Disarm, ExecUnchanged
<1>9. CASE AccountBootstrap
  BY <1>9 DEF AccountBootstrap, End, ExecUnchanged, stateVars
<1>10. CASE Account
  BY <1>10 DEF Account, Left, End, ExecUnchanged, stateVars
<1>11. CASE Drop \/ Join
  BY <1>11 DEF Drop, Join, Stop, ExecUnchanged, stateVars
<1>12. CASE Cancel \/ UNCHANGED threadVars
  BY <1>12 DEF Cancel, threadVars, stateVars, watchVars, execVars
<1> QED
  BY <1>1, <1>2, <1>3, <1>4, <1>5, <1>6, <1>7, <1>8, <1>9, <1>10, <1>11, <1>12
  DEF WatchdogNext, Watch, Execute

LEMMA LimitInvariant == WatchdogSpec => []LimitInv
<1> QED
  BY TypeInit, TypeStep, LimitInit, LimitStep, PTL DEF WatchdogSpec

\* The limit never trips before the slices of the cell have used it up, for every
\* limit and however the two threads are scheduled.
THEOREM LimitNeverTripsEarly == WatchdogSpec => []TripJustified
<1>1. LimitInv => TripJustified
  BY DEF LimitInv
<1> QED
  BY <1>1, LimitInvariant, PTL

\* A script that only the watchdog stopped is reported as out of CPU time.
THEOREM StopsAreNamed == WatchdogSpec => []StopNamed
<1>1. LimitInv => StopNamed
  BY DEF LimitInv
<1> QED
  BY <1>1, LimitInvariant, PTL
=============================================================================
