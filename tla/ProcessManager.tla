--------------------------- MODULE ProcessManager ---------------------------
(***************************************************************************)
(* The process manager (process-manager.ts): exec and write calls of the   *)
(* agent on command sessions, each a process group with two output pipes.  *)
(*                                                                         *)
(* JavaScript runs to completion, so one action is one callback of the     *)
(* event loop together with the promise continuations it makes ready.  The *)
(* group itself (its leader, a background descendant, the pipes) belongs   *)
(* to the operating system and moves between any two callbacks.            *)
(***************************************************************************)
EXTENDS Integers, Sequences, FiniteSets, FiniteSetsExt, SequencesExt

CONSTANTS
  Calls,         \* the exec and write calls of one behaviour: a bound
  MaxCommands,   \* how many commands are spawned: a bound
  Loads,         \* what the commands of a behaviour do: a bound on each
  MaxActive,     \* maxActiveProcesses
  MaxOutput,     \* MAX_TOTAL_OUTPUT_BYTES, in chunks
  MaxCompleted,  \* MAX_COMPLETED_PROCESSES
  MaxRetained,   \* MAX_COMPLETED_OUTPUT_BYTES, in chunks
  MaxTokens      \* max_output_tokens of each call, in chunks

ASSUME ManagerAssumption ==
  /\ IsFiniteSet(Calls)
  /\ {MaxCommands, MaxActive, MaxOutput, MaxCompleted, MaxRetained} \subseteq Nat
  /\ MaxTokens \in [Calls -> Nat \ {0}]
  /\ Loads \subseteq [commands : 1 .. MaxCommands,   \* how many there are
                       chunks : Nat,                 \* how many chunks each writes
                       eventful : BOOLEAN]           \* may fork, be aborted or time out

Commands == 1 .. MaxCommands
Streams  == {"stdout", "stderr"}

VARIABLES
  \* the operating system's side of a command
  leader,         \* the worker: "none", "running", "dead", "reaped" (exit event), "failed" or "lost"
  descendant,     \* a background child: "none", "holding" the pipes, or "detached" from them
  unread,         \* per stream, the chunks in the pipe, each with the process that wrote it
  \* ManagedProcess
  open,           \* the streams that have not ended
  received,       \* outputBytes
  cursor, closed,
  finishListeners,\* the waiting calls, in the order they were added
  postExitTimer, terminationTimer, evictionTimer,
  \* ProcessManager
  processes, nextId, managerClosed,
  \* the calls
  pc, target, aborted, answer,
  took,           \* the output an answer accounts for: its text or its original_token_count
  shown,          \* how much of that its text shows
  crashed,        \* an 'error' event without a listener has ended the process
  cutOff,         \* history: the records the post-exit timer or shutdown completed
  load            \* the load of this behaviour

osVars      == <<leader, descendant, unread>>
commandVars == <<open, received, cursor, closed, finishListeners>>
timerVars   == <<postExitTimer, terminationTimer, evictionTimer>>
managerVars == <<processes, nextId, managerClosed>>
callVars    == <<pc, target, aborted, took, shown, answer>>
vars        == <<osVars, commandVars, timerVars, managerVars, callVars, crashed, cutOff, load>>

-----------------------------------------------------------------------------
(* Helpers                                                                 *)

\* The retained output: beyond the limit only one notice is added.
Output(p) == IF received[p] <= MaxOutput THEN received[p] ELSE MaxOutput + 1

Exited(p) == leader[p] = "reaped"

\* Node destroys a child's stdin with its exit event, or when it cannot be started.
StdinDestroyed(p) == leader[p] \in {"reaped", "failed", "lost"}

\* Who may still write to the output pipes.
Writers(p) ==
  {w \in {"leader", "descendant"} :
     IF w = "leader" THEN leader[p] = "running" ELSE descendant[p] = "holding"}

Active == {p \in processes : ~closed[p]}

\* The output a set of records retains.
TotalOutput(records) == MapThenSumSet(Output, records)

\* Mutant: the limits are compared before the new record is counted.
RetainedBefore(completed) ==
  {p \in completed :
     LET newer == {q \in completed : q > p}
     IN  /\ Cardinality(newer) <= MaxCompleted
         /\ TotalOutput(newer) <= MaxRetained}

\* #retainCompleted: the newest completed commands that fit both limits stay.
Retained(completed) ==
  {p \in completed :
     LET newer == {q \in completed : q >= p}
     IN  /\ Cardinality(newer) <= MaxCompleted
         /\ TotalOutput(newer) <= MaxRetained}

\* #terminate: SIGTERM, which the group may ignore, and the timer for SIGKILL.
Terminate(p) ==
  terminationTimer' = IF closed[p] \/ terminationTimer[p] # "unset" THEN terminationTimer
                      ELSE [terminationTimer EXCEPT ![p] = "armed"]

\* The text of a slice: the newest output, up to the call's max_output_tokens.
Cut(k, fresh) == IF fresh <= MaxTokens[k] THEN fresh ELSE MaxTokens[k]

\* outputSlice: the output since the last slice, whose count the answer gives when it
\* shows less; an aborted call has thrown before.
Slice(k, p) ==
  LET fresh == IF aborted[k] THEN 0 ELSE Output(p) - cursor[p]
  IN  /\ took' = [took EXCEPT ![k] = fresh]
      /\ shown' = [shown EXCEPT ![k] = Cut(k, fresh)]
      /\ cursor' = IF aborted[k] THEN cursor ELSE [cursor EXCEPT ![p] = Output(p)]

\* #result: the fresh output, and a completed command is forgotten.
Result(k, p) ==
  LET forgotten == IF closed[p] /\ ~aborted[k] THEN {p} ELSE {}
  IN  /\ Slice(k, p)
      /\ pc' = [pc EXCEPT ![k] = "done"]
      /\ answer' = [answer EXCEPT ![k] = IF aborted[k] THEN "aborted"
                                         ELSE IF closed[p] THEN "exit_code" ELSE "session_id"]
      /\ processes' = processes \ forgotten
      /\ evictionTimer' = [q \in Commands |-> evictionTimer[q] /\ q \notin forgotten]

\* A call that throws before it touches a command.
Refuse(k, reason) ==
  /\ pc' = [pc EXCEPT ![k] = "done"]
  /\ answer' = [answer EXCEPT ![k] = reason]
  /\ UNCHANGED <<osVars, commandVars, timerVars, managerVars, target, aborted, took, shown,
                 crashed, cutOff>>

\* Mutant: #finalize clears the termination timer too.
ClearEveryTimer(p) ==
  /\ postExitTimer' = [postExitTimer EXCEPT ![p] = FALSE]
  /\ terminationTimer' = [terminationTimer EXCEPT ![p] = "unset"]

\* The timers a finalized command no longer needs; SIGKILL still follows SIGTERM.
ClearTimers(p) ==
  /\ postExitTimer' = [postExitTimer EXCEPT ![p] = FALSE]
  /\ UNCHANGED terminationTimer

\* #finalize: the record is retained, and every waiting call goes on; the first one
\* that was not aborted takes the output and forgets the record.
Finalize(p) ==
  LET woken     == finishListeners[p]
      polled    == {i \in DOMAIN woken : ~aborted[woken[i]]}
      completed == {q \in processes : closed[q] \/ q = p}
      kept      == IF managerClosed \/ p \notin processes THEN processes
                   ELSE (Active \ {p}) \union Retained(completed)
      polledOut == IF polled = {} THEN {} ELSE {p}
      fresh     == Output(p) - cursor[p]
      takes(k)  == polled # {} /\ k = woken[Min(polled)]
  IN  /\ closed' = [closed EXCEPT ![p] = TRUE]
      /\ ClearTimers(p)
      /\ finishListeners' = [finishListeners EXCEPT ![p] = <<>>]
      /\ processes' = kept \ polledOut
      /\ evictionTimer' = [q \in Commands |-> /\ q \in kept \ polledOut
                                              /\ evictionTimer[q] \/ (q = p /\ ~managerClosed)]
      /\ pc' = [k \in Calls |-> IF Contains(woken, k) THEN "done" ELSE pc[k]]
      /\ answer' = [k \in Calls |-> IF ~Contains(woken, k) THEN answer[k]
                                    ELSE IF aborted[k] THEN "aborted" ELSE "exit_code"]
      /\ took' = [k \in Calls |-> IF takes(k) THEN fresh ELSE took[k]]
      /\ shown' = [k \in Calls |-> IF takes(k) THEN Cut(k, fresh) ELSE shown[k]]
      /\ cursor' = IF polled = {} THEN cursor ELSE [cursor EXCEPT ![p] = Output(p)]

-----------------------------------------------------------------------------
Init ==
  /\ leader = [p \in Commands |-> "none"]
  /\ descendant = [p \in Commands |-> "none"]
  /\ unread = [p \in Commands |-> [s \in Streams |-> <<>>]]
  /\ open = [p \in Commands |-> Streams]
  /\ received = [p \in Commands |-> 0]
  /\ cursor = [p \in Commands |-> 0]
  /\ closed = [p \in Commands |-> FALSE]
  /\ finishListeners = [p \in Commands |-> <<>>]
  /\ postExitTimer = [p \in Commands |-> FALSE]
  /\ terminationTimer = [p \in Commands |-> "unset"]
  /\ evictionTimer = [p \in Commands |-> FALSE]
  /\ processes = {}
  /\ nextId = 1
  /\ managerClosed = FALSE
  /\ pc = [k \in Calls |-> "idle"]
  /\ target = [k \in Calls |-> 0]
  /\ aborted = [k \in Calls |-> FALSE]
  /\ took = [k \in Calls |-> 0]
  /\ shown = [k \in Calls |-> 0]
  /\ answer = [k \in Calls |-> "none"]
  /\ crashed = FALSE
  /\ cutOff = [p \in Commands |-> FALSE]
  /\ load \in Loads

-----------------------------------------------------------------------------
(* The command: what the operating system does                             *)

LoopUnchanged == UNCHANGED <<commandVars, timerVars, managerVars, callVars, crashed, cutOff>>

\* Either process of the group writes a chunk to a pipe it still holds; #finalize
\* destroys the other end.
Emit(p, s, w) ==
  /\ w \in Writers(p) /\ ~closed[p]
  /\ Len(unread[p]["stdout"]) + Len(unread[p]["stderr"]) + received[p] < load.chunks
  /\ unread' = [unread EXCEPT ![p][s] = Append(@, w)]
  /\ UNCHANGED <<leader, descendant>>
  /\ LoopUnchanged

\* The command starts a background child.
Fork(p) ==
  /\ load.eventful /\ leader[p] = "running"
  /\ descendant[p] = "none"
  /\ descendant' = [descendant EXCEPT ![p] = "holding"]
  /\ UNCHANGED <<leader, unread>>
  /\ LoopUnchanged

\* The child closes its pipes, or ends.
DescendantMoves(p, state) ==
  /\ descendant[p] = IF state = "detached" THEN "holding" ELSE descendant[p]
  /\ descendant[p] \in {"holding", "detached"}
  /\ descendant' = [descendant EXCEPT ![p] = state]
  /\ UNCHANGED <<leader, unread>>
  /\ LoopUnchanged

LeaderDies(p) ==
  /\ leader[p] = "running"
  /\ leader' = [leader EXCEPT ![p] = "dead"]
  /\ UNCHANGED <<descendant, unread>>
  /\ LoopUnchanged

-----------------------------------------------------------------------------
(* The calls                                                               *)

\* #assertOpen and #spawn's limit.
ExecRefused(k) ==
  /\ pc[k] = "idle"
  /\ managerClosed \/ Cardinality(Active) >= MaxActive
  /\ Refuse(k, "refused")

AdvanceId == nextId' = nextId + 1

\* #spawn; the configuration fits into the new pipe.
Exec(k) ==
  /\ pc[k] = "idle"
  /\ nextId <= load.commands
  /\ ~managerClosed /\ Cardinality(Active) < MaxActive
  /\ AdvanceId
  /\ processes' = processes \union {nextId}
  /\ target' = [target EXCEPT ![k] = nextId]
  /\ finishListeners' = [finishListeners EXCEPT ![nextId] = <<k>>]
  /\ pc' = [pc EXCEPT ![k] = "waiting"]
  /\ \E start \in {"running", "failed"} : leader' = [leader EXCEPT ![nextId] = start]
  /\ UNCHANGED <<descendant, unread, open, received, cursor, closed, timerVars, managerClosed,
                 aborted, took, shown, answer, crashed, cutOff>>

\* A write without characters is a poll.
WriteRefused(k, p, chars) ==
  /\ pc[k] = "idle"
  /\ p < nextId
  /\ managerClosed \/ p \notin processes \/ (chars /\ closed[p])
  /\ Refuse(k, "refused")

\* #wait adds a listener unless the command is complete.
Wait(k, p) ==
  \/ /\ ~closed[p]
     /\ pc' = [pc EXCEPT ![k] = "waiting"]
     /\ finishListeners' = [finishListeners EXCEPT ![p] = Append(@, k)]
     /\ UNCHANGED <<processes, evictionTimer, cursor, took, shown, answer>>
  \/ /\ closed[p]
     /\ Result(k, p)
     /\ UNCHANGED finishListeners

Poll(k, p) ==
  /\ pc[k] = "idle"
  /\ ~managerClosed /\ p \in processes
  /\ target' = [target EXCEPT ![k] = p]
  /\ Wait(k, p)
  /\ UNCHANGED <<osVars, open, received, closed, postExitTimer, terminationTimer, nextId,
                 managerClosed, aborted, crashed, cutOff>>

\* The characters are handed to the pipe; write() awaits the callback.
Write(k, p) ==
  /\ pc[k] = "idle"
  /\ ~managerClosed /\ p \in Active
  /\ target' = [target EXCEPT ![k] = p]
  /\ pc' = [pc EXCEPT ![k] = "writing"]
  /\ UNCHANGED <<osVars, commandVars, timerVars, managerVars, aborted, took, shown, answer,
                 crashed, cutOff>>

\* The callback without an error: the pipe had room or its reader made some.
WriteFlushed(k, p) ==
  /\ pc[k] = "writing" /\ target[k] = p
  /\ ~StdinDestroyed(p)
  /\ Wait(k, p)
  /\ UNCHANGED <<osVars, open, received, closed, postExitTimer, terminationTimer, nextId,
                 managerClosed, target, aborted, crashed, cutOff>>

\* stdin is destroyed: the callback gets the error and write() throws.
WriteRejected(k, p) ==
  /\ pc[k] = "writing" /\ target[k] = p
  /\ StdinDestroyed(p)
  /\ pc' = [pc EXCEPT ![k] = "done"]
  /\ answer' = [answer EXCEPT ![k] = "write_failed"]
  /\ UNCHANGED <<osVars, commandVars, timerVars, managerVars, target, aborted, took, shown,
                 crashed, cutOff>>

\* EPIPE: the worker, which holds the other end for as long as it lives, has ended, and
\* its exit event has not come yet.  stdin emits 'error', and nothing listens to it.
BrokenPipe(k, p) ==
  /\ pc[k] = "writing" /\ target[k] = p
  /\ leader[p] = "dead"
  /\ crashed' = TRUE
  /\ UNCHANGED <<osVars, commandVars, timerVars, managerVars, callVars, cutOff>>

\* The call's signal, listened to while the call waits or writes.
Abort(k) ==
  /\ load.eventful /\ pc[k] \in {"waiting", "writing"} /\ ~aborted[k]
  /\ aborted' = [aborted EXCEPT ![k] = TRUE]
  /\ Terminate(target[k])
  /\ UNCHANGED <<osVars, commandVars, postExitTimer, evictionTimer, managerVars, pc, target,
                 took, shown, answer, crashed, cutOff>>

\* Mutant: close() clears the yield timers as it clears the listeners.
WaitTimeoutWhileOpen(k, p) ==
  /\ pc[k] = "waiting" /\ target[k] = p /\ ~managerClosed
  /\ finishListeners' = [finishListeners EXCEPT ![p] = RemoveFirst(@, k)]
  /\ Result(k, p)
  /\ UNCHANGED <<osVars, open, received, closed, postExitTimer, terminationTimer, nextId,
                 managerClosed, target, aborted, crashed, cutOff>>

\* The call's own yield timer, which stays armed when the manager closes.
WaitTimeout(k, p) ==
  /\ pc[k] = "waiting" /\ target[k] = p
  /\ finishListeners' = [finishListeners EXCEPT ![p] = RemoveFirst(@, k)]
  /\ Result(k, p)
  /\ UNCHANGED <<osVars, open, received, closed, postExitTimer, terminationTimer, nextId,
                 managerClosed, target, aborted, crashed, cutOff>>

-----------------------------------------------------------------------------
(* The command's events and timers                                         *)

\* #append: after the exit every chunk re-arms the post-exit timer.
Data(p, s) ==
  /\ unread[p][s] # <<>> /\ ~closed[p]
  /\ unread' = [unread EXCEPT ![p][s] = Tail(@)]
  /\ received' = [received EXCEPT ![p] = @ + 1]
  /\ postExitTimer' = [postExitTimer EXCEPT ![p] = @ \/ Exited(p)]
  /\ UNCHANGED <<leader, descendant, open, cursor, closed, finishListeners,
                 terminationTimer, evictionTimer, managerVars, callVars, crashed, cutOff>>

\* Mutant: one ended stream is enough.
EitherEnded(p) == open[p] # Streams

\* stdoutEnded && stderrEnded
BothEnded(p) == open[p] = {}

\* Finalize or leave the command alone, after an event that changed nothing else.
FinalizeIf(condition, p) ==
  \/ condition /\ ~closed[p] /\ Finalize(p) /\ UNCHANGED <<nextId, managerClosed, target, aborted>>
  \/ /\ ~condition \/ closed[p]
     /\ UNCHANGED <<cursor, closed, finishListeners, timerVars, managerVars, callVars>>

StreamEnd(p, s) ==
  /\ leader[p] \notin {"none", "running"} /\ Writers(p) = {}
  /\ s \in open[p] /\ unread[p][s] = <<>> /\ ~closed[p]
  /\ open' = [open EXCEPT ![p] = @ \ {s}]
  /\ FinalizeIf(Exited(p) /\ BothEnded(p)', p)
  /\ UNCHANGED <<osVars, received, crashed, cutOff>>

\* The exit event, which also destroys stdin.
ExitEvent(p) ==
  /\ leader[p] = "dead"
  /\ leader' = [leader EXCEPT ![p] = "reaped"]
  /\ \/ /\ BothEnded(p) /\ ~closed[p]
        /\ Finalize(p)
        /\ UNCHANGED <<nextId, managerClosed, target, aborted>>
     \/ /\ ~BothEnded(p) /\ ~closed[p]
        /\ postExitTimer' = [postExitTimer EXCEPT ![p] = TRUE]
        /\ UNCHANGED <<cursor, closed, finishListeners, terminationTimer, evictionTimer,
                       managerVars, callVars>>
     \/ /\ closed[p]
        /\ UNCHANGED <<cursor, closed, finishListeners, timerVars, managerVars, callVars>>
  /\ UNCHANGED <<descendant, unread, open, received, crashed, cutOff>>

\* EXIT_STDIO_GRACE_MS without a chunk read.  A busy event loop runs its timers before
\* it reads the pipes, and a descendant may write later: what is unread is lost.
PostExitTimeout(p) ==
  /\ postExitTimer[p]
  /\ FinalizeIf(TRUE, p)
  /\ cutOff' = [cutOff EXCEPT ![p] = @ \/ ~closed[p]]
  /\ UNCHANGED <<osVars, open, received, crashed>>

\* The error event of a worker that could not be started: a line of output ...
StartError(p) ==
  /\ leader[p] = "failed"
  /\ leader' = [leader EXCEPT ![p] = "lost"]
  /\ received' = [received EXCEPT ![p] = @ + 1]
  /\ UNCHANGED <<descendant, unread, open, cursor, closed, finishListeners, timerVars,
                 managerVars, callVars, crashed, cutOff>>

\* ... a second one when its configuration cannot be written either ...
ConfigurationFailed(p) ==
  /\ leader[p] = "lost" /\ ~closed[p]
  /\ received[p] = 1
  /\ received' = [received EXCEPT ![p] = 2]
  /\ Terminate(p)
  /\ UNCHANGED <<osVars, open, cursor, closed, finishListeners, postExitTimer, evictionTimer,
                 managerVars, callVars, crashed, cutOff>>

\* ... and the close event.  Otherwise that event follows an exit and the end of both
\* streams, where the command is complete already.
CloseEvent(p) ==
  /\ leader[p] = "lost" /\ ~closed[p]
  /\ FinalizeIf(TRUE, p)
  /\ UNCHANGED <<osVars, open, received, crashed, cutOff>>

\* wallTimeLimitMs
LifetimeTimeout(p) ==
  /\ load.eventful /\ leader[p] # "none" /\ ~closed[p] /\ ~managerClosed
  /\ terminationTimer[p] = "unset"
  /\ Terminate(p)
  /\ UNCHANGED <<osVars, commandVars, postExitTimer, evictionTimer, managerVars, callVars,
                 crashed, cutOff>>

\* SIGKILL reaches every process of the group.
KillTimeout(p) ==
  /\ terminationTimer[p] = "armed"
  /\ terminationTimer' = [terminationTimer EXCEPT ![p] = "fired"]
  /\ leader' = [leader EXCEPT ![p] = IF @ = "running" THEN "dead" ELSE @]
  /\ descendant' = [descendant EXCEPT ![p] = "none"]
  /\ UNCHANGED <<unread, commandVars, postExitTimer, evictionTimer, managerVars, callVars,
                 crashed, cutOff>>

EvictionTimeout(p) ==
  /\ evictionTimer[p]
  /\ evictionTimer' = [evictionTimer EXCEPT ![p] = FALSE]
  /\ processes' = processes \ {p}
  /\ UNCHANGED <<osVars, commandVars, postExitTimer, terminationTimer, nextId, managerClosed,
                 callVars, crashed, cutOff>>

\* close(): listeners and timers go, exited commands are completed, none is signalled.
CloseManager ==
  /\ ~managerClosed
  /\ managerClosed' = TRUE
  /\ processes' = {}
  /\ LET completed == {p \in Active : Exited(p)}
     IN  /\ closed' = [p \in Commands |-> closed[p] \/ p \in completed]
         /\ cutOff' = [p \in Commands |-> cutOff[p] \/ p \in completed]
  /\ finishListeners' = [p \in Commands |-> IF p \in processes THEN <<>> ELSE finishListeners[p]]
  /\ postExitTimer' = [p \in Commands |-> postExitTimer[p] /\ p \notin processes]
  /\ evictionTimer' = [p \in Commands |-> evictionTimer[p] /\ p \notin processes]
  /\ UNCHANGED <<osVars, open, received, cursor, terminationTimer, nextId, callVars, crashed>>

-----------------------------------------------------------------------------
CallStep(k) ==
  \/ ExecRefused(k) \/ Exec(k) \/ Abort(k)
  \/ \E p \in Commands :
       \/ \E chars \in BOOLEAN : WriteRefused(k, p, chars)
       \/ Poll(k, p) \/ Write(k, p)
       \/ WriteFlushed(k, p) \/ WriteRejected(k, p) \/ BrokenPipe(k, p) \/ WaitTimeout(k, p)

\* What the event loop or the operating system brings about by itself.
Event(p) ==
  \/ \E s \in Streams : Data(p, s) \/ StreamEnd(p, s)
  \/ ExitEvent(p) \/ PostExitTimeout(p) \/ KillTimeout(p) \/ EvictionTimeout(p)
  \/ StartError(p) \/ ConfigurationFailed(p) \/ CloseEvent(p)

CommandStep(p) ==
  \/ \E s \in Streams, w \in {"leader", "descendant"} : Emit(p, s, w)
  \/ Fork(p) \/ LeaderDies(p)
  \/ \E state \in {"detached", "none"} : DescendantMoves(p, state)

Next ==
  /\ ~crashed /\ UNCHANGED load
  /\ \/ \E k \in Calls : CallStep(k)
     \/ \E p \in Commands : Event(p) \/ CommandStep(p) \/ LifetimeTimeout(p)
     \/ CloseManager

\* Timers fire and events are delivered; a command may ignore its input and SIGTERM.
Fairness ==
  /\ \A p \in Commands : WF_vars(~crashed /\ UNCHANGED load /\ Event(p))
  /\ \A k \in Calls, p \in Commands :
       WF_vars(~crashed /\ UNCHANGED load /\ (WaitTimeout(k, p) \/ WriteRejected(k, p)))

Spec == Init /\ [][Next]_vars /\ Fairness

-----------------------------------------------------------------------------
(* Correctness                                                             *)

TypeOK ==
  /\ leader \in [Commands -> {"none", "running", "dead", "reaped", "failed", "lost"}]
  /\ descendant \in [Commands -> {"none", "holding", "detached"}]
  /\ \A p \in Commands, s \in Streams : unread[p][s] \in Seq({"leader", "descendant"})
  /\ open \in [Commands -> SUBSET Streams]
  /\ \A p \in Commands : received[p] \in 0 .. Max({load.chunks, 2})
  /\ cursor \in [Commands -> Nat]
  /\ closed \in [Commands -> BOOLEAN]
  /\ \A p \in Commands : finishListeners[p] \in Seq(Calls)
  /\ postExitTimer \in [Commands -> BOOLEAN]
  /\ terminationTimer \in [Commands -> {"unset", "armed", "fired"}]
  /\ evictionTimer \in [Commands -> BOOLEAN]
  /\ processes \subseteq 1 .. nextId - 1
  /\ nextId \in 1 .. MaxCommands + 1
  /\ managerClosed \in BOOLEAN
  /\ pc \in [Calls -> {"idle", "waiting", "writing", "done"}]
  /\ target \in [Calls -> Commands \union {0}]
  /\ aborted \in [Calls -> BOOLEAN]
  /\ took \in [Calls -> Nat]
  /\ shown \in [Calls -> Nat]
  /\ answer \in [Calls -> {"none", "refused", "aborted", "session_id", "exit_code", "write_failed"}]
  /\ crashed \in BOOLEAN
  /\ cutOff \in [Commands -> BOOLEAN]

\* What the answers on a command account for of its output.
TakenOutput(p) == MapThenSumSet(LAMBDA k : took[k], {k \in Calls : target[k] = p})

\* An exit code is only given for a worker that has exited or could not be started, and
\* comes with all that was written to its pipes, unless the post-exit timer or shutdown
\* cut it off.  Every chunk past the cursor of an earlier answer is accounted for by one
\* answer, whatever calls are aborted or wait together; an answer shows less than it
\* accounts for only when it shows as much as max_output_tokens allows.
OutputWhole ==
  /\ TypeOK
  /\ \A p \in Commands :
       /\ closed[p] => leader[p] \in {"reaped", "lost"}
       /\ closed[p] /\ ~cutOff[p] => \A s \in Streams : unread[p][s] = <<>>
       /\ cursor[p] = TakenOutput(p)
  /\ \A k \in Calls :
       shown[k] = took[k] \/ (shown[k] = MaxTokens[k] /\ shown[k] < took[k])

\* "at most 16 unpolled completed records ... with a 60-second expiry": each
\* completed record has its expiry, within both limits, and no forgotten one keeps a timer.
RecordsExpire ==
  /\ \A p \in Commands : evictionTimer[p] <=> p \in processes /\ closed[p]
  /\ LET completed == processes \ Active
     IN  Cardinality(completed) <= MaxCompleted /\ TotalOutput(completed) <= MaxRetained

\* A waiting call is answered however the command behaves, and an aborted write too.
CallAnswered ==
  \A k \in Calls :
    (pc[k] = "waiting" \/ (pc[k] = "writing" /\ aborted[k])) ~> (pc[k] = "done" \/ crashed)

\* "process-group SIGTERM followed by guaranteed SIGKILL": an abort that found the
\* command incomplete ends its whole group, also after the worker's own exit.
AbortEndsGroup ==
  \A p \in Commands :
    terminationTimer[p] = "armed" ~>
      (leader[p] \notin {"running"} /\ descendant[p] = "none") \/ crashed

\* Acceptance item 37 (deno-core-host-plan.md:2726): "V8 or command failure cannot
\* crash the Pi process."
CommandCannotCrash == ~crashed
=============================================================================
