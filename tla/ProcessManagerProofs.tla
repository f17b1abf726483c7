------------------------- MODULE ProcessManagerProofs -------------------------
(***************************************************************************)
(* Proofs about the process manager, for any calls, commands, loads and    *)
(* limits: its types, the completeness and uniqueness of the output the    *)
(* calls return, and the retention and expiry of completed records.        *)
(***************************************************************************)
EXTENDS ProcessManager, FiniteData

-----------------------------------------------------------------------------
(* The inductive invariant                                                 *)

\* What TypeOK says of each command, as functions.
ShapeInv ==
  /\ load \in Loads
  /\ leader \in [Commands -> {"none", "running", "dead", "reaped", "failed", "lost"}]
  /\ descendant \in [Commands -> {"none", "holding", "detached"}]
  /\ unread \in [Commands -> [Streams -> Seq({"leader", "descendant"})]]
  /\ open \in [Commands -> SUBSET Streams]
  /\ received \in [Commands -> Nat]
  /\ cursor \in [Commands -> Nat]
  /\ closed \in [Commands -> BOOLEAN]
  /\ finishListeners \in [Commands -> Seq(Calls)]
  /\ postExitTimer \in [Commands -> BOOLEAN]
  /\ terminationTimer \in [Commands -> {"unset", "armed", "fired"}]
  /\ evictionTimer \in [Commands -> BOOLEAN]
  /\ processes \subseteq 1 .. nextId - 1
  /\ nextId \in 1 .. MaxCommands + 1
  /\ managerClosed \in BOOLEAN
  /\ pc \in [Calls -> {"idle", "waiting", "writing", "done"}]
  /\ target \in [Calls -> Commands \union {0}]
  /\ aborted \in [Calls -> BOOLEAN]
  /\ took \in [Calls -> Nat]
  /\ answer \in [Calls -> {"none", "refused", "aborted", "session_id", "exit_code",
     "write_failed"}]
  /\ crashed \in BOOLEAN
  /\ cutOff \in [Commands -> BOOLEAN]

\* A command whose number has not been given out has not done anything yet.
Fresh(p) ==
  /\ leader[p] = "none" /\ descendant[p] = "none"
  /\ \A s \in Streams : unread[p][s] = <<>>
  /\ open[p] = Streams /\ received[p] = 0 /\ cursor[p] = 0
  /\ ~closed[p] /\ finishListeners[p] = <<>>
  /\ ~evictionTimer[p]

\* The chunks a command has written: those its load allows, or the lines an error event adds
\* to the output of a worker that could not be started, which never wrote any.
Written(p) ==
  IF leader[p] \in {"none", "failed", "lost"}
  THEN /\ received[p] \in (IF leader[p] = "lost" THEN 1 .. 2 ELSE {0})
       /\ descendant[p] = "none"
       /\ \A s \in Streams : unread[p][s] = <<>>
  ELSE Len(unread[p]["stdout"]) + Len(unread[p]["stderr"]) + received[p] <= load.chunks

\* A stream that has ended has no writer left and nothing to read.
Ended(p) ==
  \A s \in Streams \ open[p] :
    /\ leader[p] \notin {"none", "running"} /\ descendant[p] # "holding"
    /\ unread[p][s] = <<>>

\* A complete command is over, and unless it was cut off its pipes are read empty.
Drained(p) ==
  closed[p] => /\ leader[p] \in {"reaped", "lost"}
               /\ ~cutOff[p] => \A s \in Streams : unread[p][s] = <<>>

CommandOK(p) ==
  /\ p >= nextId => Fresh(p)
  /\ Written(p) /\ Ended(p) /\ Drained(p)
  /\ postExitTimer[p] => leader[p] = "reaped"

CommandInv == \A p \in Commands : CommandOK(p)

\* The listeners of a command are calls that wait for it, each once.
ListenersOK(p) ==
  \A i \in 1 .. Len(finishListeners[p]) :
    /\ pc[finishListeners[p][i]] = "waiting"
    /\ target[finishListeners[p][i]] = p
    /\ \A j \in 1 .. Len(finishListeners[p]) :
         finishListeners[p][i] = finishListeners[p][j] => i = j

ListenerInv == \A p \in Commands : ListenersOK(p)

\* A call that has not been answered has taken nothing.
CallOK(k) ==
  /\ target[k] < nextId
  /\ pc[k] = "idle" => target[k] = 0
  /\ pc[k] \in {"waiting", "writing"} => target[k] # 0
  /\ pc[k] # "done" => took[k] = 0

CallInv == \A k \in Calls : CallOK(k)

\* The cursor is what the calls have taken, and never beyond the retained output.
TakersOf(g, p) == {k \in Calls : g[k] = p}
Takers(p) == TakersOf(target, p)
CursorInv ==
  \A p \in Commands : cursor[p] <= Output(p) /\ cursor[p] = SumOf(took, Takers(p))

\* The records kept of complete commands, with their expiry and within the limits.
Completed == {p \in processes : closed[p]}
Outputs == [p \in Commands |-> Output(p)]
RecordInv ==
  /\ managerClosed => processes = {}
  /\ \A p \in Commands : evictionTimer[p] <=> p \in processes /\ closed[p]
  /\ Cardinality(Completed) <= MaxCompleted
  /\ SumOf(Outputs, Completed) <= MaxRetained

\* An answer shows the newest part of what it accounts for, up to its limit.
ShownInv == shown = [k \in Calls |-> Cut(k, took[k])]

ManagerInv ==
  ShapeInv /\ CommandInv /\ ListenerInv /\ CallInv /\ CursorInv /\ ShownInv /\ RecordInv

-----------------------------------------------------------------------------
(* Lemmas on the operators of the model                                    *)

\* The retained output of a command is counted in whole chunks.
LEMMA OutputType ==
  ASSUME NEW p \in Commands, received[p] \in Nat
  PROVE  Output(p) \in Nat
BY ManagerAssumption DEF Output, ManagerAssumption

\* A retained part of some records is a part of them.
LEMMA RetainedSubset == \A completed : Retained(completed) \subseteq completed
BY DEF Retained

-----------------------------------------------------------------------------
(* Types                                                                   *)

\* A result keeps the types and removes records at most.
LEMMA ResultShape ==
  ASSUME ShapeInv, CursorInv, NEW k \in Calls, NEW p \in Commands, Result(k, p)
  PROVE  /\ took' \in [Calls -> Nat] /\ cursor' \in [Commands -> Nat]
         /\ pc' \in [Calls -> {"idle", "waiting", "writing", "done"}]
         /\ answer' \in [Calls -> {"none", "refused", "aborted", "session_id", "exit_code",
                                   "write_failed"}]
         /\ processes' \subseteq processes
         /\ evictionTimer' \in [Commands -> BOOLEAN]
<1>1. Output(p) \in Nat
  BY OutputType DEF ShapeInv
<1>2. Output(p) - cursor[p] \in Nat
  BY <1>1 DEF ShapeInv, CursorInv
<1>3. took' \in [Calls -> Nat] /\ cursor' \in [Commands -> Nat]
  BY <1>1, <1>2 DEF ShapeInv, Result, Slice
<1> QED
  BY <1>3 DEF ShapeInv, Result

\* #finalize keeps the types and removes records at most.
LEMMA FinalizeShape ==
  ASSUME ShapeInv, CursorInv, NEW p \in Commands, Finalize(p)
  PROVE  /\ closed' \in [Commands -> BOOLEAN]
         /\ postExitTimer' \in [Commands -> BOOLEAN]
         /\ terminationTimer' = terminationTimer
         /\ finishListeners' \in [Commands -> Seq(Calls)]
         /\ processes' \subseteq processes
         /\ evictionTimer' \in [Commands -> BOOLEAN]
         /\ pc' \in [Calls -> {"idle", "waiting", "writing", "done"}]
         /\ answer' \in [Calls -> {"none", "refused", "aborted", "session_id", "exit_code",
                                   "write_failed"}]
         /\ took' \in [Calls -> Nat]
         /\ cursor' \in [Commands -> Nat]
<1>1. Output(p) \in Nat /\ Output(p) - cursor[p] \in Nat
  BY OutputType DEF ShapeInv, CursorInv
<1>2. closed' \in [Commands -> BOOLEAN] /\ postExitTimer' \in [Commands -> BOOLEAN]
      /\ terminationTimer' = terminationTimer
      /\ finishListeners' \in [Commands -> Seq(Calls)]
  BY DEF ShapeInv, Finalize, ClearTimers
<1>3. processes' \subseteq processes
  BY RetainedSubset DEF Finalize, Active
<1>4. evictionTimer' \in [Commands -> BOOLEAN]
  BY DEF ShapeInv, Finalize
<1>5. pc' \in [Calls -> {"idle", "waiting", "writing", "done"}]
  BY DEF ShapeInv, Finalize
<1>6. answer' \in [Calls -> {"none", "refused", "aborted", "session_id", "exit_code",
                            "write_failed"}]
  BY DEF ShapeInv, Finalize
<1>7. took' \in [Calls -> Nat] /\ cursor' \in [Commands -> Nat]
  BY <1>1 DEF ShapeInv, Finalize
<1> QED
  BY <1>2, <1>3, <1>4, <1>5, <1>6, <1>7

\* Every step keeps the types.
LEMMA ShapeStep ==
  ASSUME ShapeInv, CursorInv, [Next]_vars
  PROVE  ShapeInv'
<1>0. UNCHANGED load
  BY DEF Next, vars
<1>1. ASSUME NEW k \in Calls, ExecRefused(k) PROVE ShapeInv'
  BY <1>0, <1>1 DEF ExecRefused, Refuse, osVars, commandVars, timerVars, managerVars, ShapeInv
<1>2. ASSUME NEW k \in Calls, Exec(k) PROVE ShapeInv'
  <2>1. nextId \in Commands
    BY <1>2, ManagerAssumption DEF Exec, ManagerAssumption, Commands, ShapeInv
  <2>2. finishListeners' \in [Commands -> Seq(Calls)]
    BY <1>2, <2>1 DEF Exec, ShapeInv
  <2>3. nextId' \in 1 .. MaxCommands + 1 /\ processes' \subseteq 1 .. nextId' - 1
    BY <1>2, <2>1, ManagerAssumption DEF Exec, AdvanceId, ManagerAssumption, Commands, ShapeInv
  <2>4. target' \in [Calls -> Commands \union {0}]
    BY <1>2, <2>1 DEF Exec, ShapeInv
  <2>5. leader' \in [Commands -> {"none", "running", "dead", "reaped", "failed", "lost"}]
    BY <1>2, <2>1 DEF Exec, ShapeInv
  <2> QED
    BY <1>0, <1>2, <2>1, <2>2, <2>3, <2>4, <2>5 DEF Exec, timerVars, ShapeInv
<1>3. ASSUME NEW k \in Calls, Abort(k) PROVE ShapeInv'
  BY <1>0, <1>3 DEF Abort, Terminate, osVars, commandVars, managerVars, ShapeInv
<1>4. ASSUME NEW k \in Calls, NEW p \in Commands, NEW chars \in BOOLEAN, WriteRefused(k, p,
   chars)
      PROVE  ShapeInv'
  BY <1>0, <1>4 DEF WriteRefused, Refuse, osVars, commandVars, timerVars, managerVars, ShapeInv
<1>5. ASSUME NEW k \in Calls, NEW p \in Commands, Poll(k, p) PROVE ShapeInv'
  <2>1. CASE closed[p]
    <3>1. Result(k, p) /\ UNCHANGED finishListeners
      BY <1>5, <2>1 DEF Poll, Wait
    <3> QED
      BY <1>0, <1>5, <3>1, ResultShape DEF Poll, osVars, ShapeInv
  <2>2. CASE ~closed[p]
    <3>1. /\ pc' = [pc EXCEPT ![k] = "waiting"]
          /\ finishListeners' = [finishListeners EXCEPT ![p] = Append(@, k)]
          /\ UNCHANGED <<processes, evictionTimer, cursor, took, shown, answer>>
      BY <1>5, <2>2 DEF Poll, Wait
    <3>2. finishListeners' \in [Commands -> Seq(Calls)]
      BY <3>1 DEF ShapeInv
    <3> QED
      BY <1>0, <1>5, <3>1, <3>2 DEF Poll, osVars, ShapeInv
  <2> QED
    BY <2>1, <2>2 DEF ShapeInv
<1>6. ASSUME NEW k \in Calls, NEW p \in Commands, Write(k, p) PROVE ShapeInv'
  BY <1>0, <1>6 DEF Write, osVars, commandVars, timerVars, managerVars, ShapeInv
<1>7. ASSUME NEW k \in Calls, NEW p \in Commands, WriteFlushed(k, p) PROVE ShapeInv'
  <2>1. CASE closed[p]
    <3>1. Result(k, p) /\ UNCHANGED finishListeners
      BY <1>7, <2>1 DEF WriteFlushed, Wait
    <3> QED
      BY <1>0, <1>7, <3>1, ResultShape DEF WriteFlushed, osVars, ShapeInv
  <2>2. CASE ~closed[p]
    <3>1. /\ pc' = [pc EXCEPT ![k] = "waiting"]
          /\ finishListeners' = [finishListeners EXCEPT ![p] = Append(@, k)]
          /\ UNCHANGED <<processes, evictionTimer, cursor, took, shown, answer>>
      BY <1>7, <2>2 DEF WriteFlushed, Wait
    <3>2. finishListeners' \in [Commands -> Seq(Calls)]
      BY <3>1 DEF ShapeInv
    <3> QED
      BY <1>0, <1>7, <3>1, <3>2 DEF WriteFlushed, osVars, ShapeInv
  <2> QED
    BY <2>1, <2>2 DEF ShapeInv
<1>8. ASSUME NEW k \in Calls, NEW p \in Commands, WriteRejected(k, p) PROVE ShapeInv'
  BY <1>0, <1>8 DEF WriteRejected, osVars, commandVars, timerVars, managerVars, ShapeInv
<1>9. ASSUME NEW k \in Calls, NEW p \in Commands, BrokenPipe(k, p) PROVE ShapeInv'
  BY <1>0, <1>9 DEF BrokenPipe, osVars, commandVars, timerVars, managerVars, callVars, ShapeInv
<1>10. ASSUME NEW k \in Calls, NEW p \in Commands, WaitTimeout(k, p) PROVE ShapeInv'
  <2>1. Result(k, p) /\ UNCHANGED load
    BY <1>0, <1>10 DEF WaitTimeout
  <2>2. RemoveFirst(finishListeners[p], k) \in Seq(Calls)
    BY RemoveFirstFacts DEF ShapeInv
  <2>3. finishListeners' \in [Commands -> Seq(Calls)]
    BY <1>10, <2>2 DEF WaitTimeout, ShapeInv
  <2> QED
    BY <1>10, <2>1, <2>3, ResultShape DEF WaitTimeout, osVars, ShapeInv
<1>11. ASSUME NEW p \in Commands, NEW s \in Streams, Data(p, s) PROVE ShapeInv'
  <2>1. Tail(unread[p][s]) \in Seq({"leader", "descendant"})
    BY <1>11 DEF Data, ShapeInv
  <2>2. unread' \in [Commands -> [Streams -> Seq({"leader", "descendant"})]]
    BY <1>11, <2>1 DEF Data, ShapeInv
  <2>3. received' \in [Commands -> Nat] /\ postExitTimer' \in [Commands -> BOOLEAN]
    BY <1>11 DEF Data, ShapeInv, Exited
  <2> QED
    BY <1>0, <1>11, <2>2, <2>3 DEF Data, managerVars, callVars, ShapeInv
<1>12. ASSUME NEW p \in Commands, NEW s \in Streams, StreamEnd(p, s) PROVE ShapeInv'
  <2>1. CASE Finalize(p) /\ UNCHANGED <<nextId, managerClosed, target, aborted>>
    BY <1>0, <1>12, <2>1, FinalizeShape DEF StreamEnd, osVars, ShapeInv
  <2>2. CASE UNCHANGED <<cursor, closed, finishListeners, timerVars, managerVars, callVars>>
    BY <1>0, <1>12, <2>2 DEF StreamEnd, osVars, commandVars, timerVars, managerVars, callVars,
       ShapeInv
  <2> QED
    BY <1>12, <2>1, <2>2 DEF StreamEnd, FinalizeIf
<1>13. ASSUME NEW p \in Commands, ExitEvent(p) PROVE ShapeInv'
  <2>1. CASE Finalize(p) /\ UNCHANGED <<nextId, managerClosed, target, aborted>>
    BY <1>0, <1>13, <2>1, FinalizeShape DEF ExitEvent, osVars, commandVars, timerVars,
       managerVars, callVars, ShapeInv
  <2>2. CASE /\ postExitTimer' = [postExitTimer EXCEPT ![p] = TRUE]
             /\ UNCHANGED <<cursor, closed, finishListeners, terminationTimer, evictionTimer,
                            managerVars, callVars>>
    BY <1>0, <1>13, <2>2 DEF ExitEvent, osVars, commandVars, timerVars, managerVars, callVars,
       ShapeInv
  <2>3. CASE UNCHANGED <<cursor, closed, finishListeners, timerVars, managerVars, callVars>>
    BY <1>0, <1>13, <2>3 DEF ExitEvent, osVars, commandVars, timerVars, managerVars, callVars,
       ShapeInv
  <2> QED
    BY <1>13, <2>1, <2>2, <2>3 DEF ExitEvent
<1>14. ASSUME NEW p \in Commands, PostExitTimeout(p) PROVE ShapeInv'
  <2>1. CASE Finalize(p) /\ UNCHANGED <<nextId, managerClosed, target, aborted>>
    BY <1>0, <1>14, <2>1, FinalizeShape DEF PostExitTimeout, osVars, commandVars, timerVars,
       managerVars, callVars, ShapeInv
  <2>2. CASE UNCHANGED <<cursor, closed, finishListeners, timerVars, managerVars, callVars>>
    BY <1>0, <1>14, <2>2 DEF PostExitTimeout, osVars, commandVars, timerVars, managerVars,
       callVars, ShapeInv
  <2> QED
    BY <1>14, <2>1, <2>2 DEF PostExitTimeout, FinalizeIf
<1>15. ASSUME NEW p \in Commands, KillTimeout(p) PROVE ShapeInv'
  BY <1>0, <1>15 DEF KillTimeout, osVars, commandVars, timerVars, managerVars, callVars,
     ShapeInv
<1>16. ASSUME NEW p \in Commands, EvictionTimeout(p) PROVE ShapeInv'
  BY <1>0, <1>16 DEF EvictionTimeout, osVars, commandVars, timerVars, managerVars, callVars,
     ShapeInv
<1>17. ASSUME NEW p \in Commands, StartError(p) PROVE ShapeInv'
  <2>1. received' \in [Commands -> Nat]
    BY <1>17 DEF StartError, ShapeInv
  <2> QED
    BY <1>0, <1>17, <2>1 DEF StartError, osVars, commandVars, timerVars, managerVars, callVars,
       ShapeInv
<1>18. ASSUME NEW p \in Commands, ConfigurationFailed(p) PROVE ShapeInv'
  BY <1>0, <1>18 DEF ConfigurationFailed, Terminate, osVars, commandVars, timerVars,
     managerVars, callVars, ShapeInv
<1>19. ASSUME NEW p \in Commands, CloseEvent(p) PROVE ShapeInv'
  <2>1. CASE Finalize(p) /\ UNCHANGED <<nextId, managerClosed, target, aborted>>
    BY <1>0, <1>19, <2>1, FinalizeShape DEF CloseEvent, osVars, commandVars, timerVars,
       managerVars, callVars, ShapeInv
  <2>2. CASE UNCHANGED <<cursor, closed, finishListeners, timerVars, managerVars, callVars>>
    BY <1>0, <1>19, <2>2 DEF CloseEvent, osVars, commandVars, timerVars, managerVars, callVars,
       ShapeInv
  <2> QED
    BY <1>19, <2>1, <2>2 DEF CloseEvent, FinalizeIf
<1>20. ASSUME NEW p \in Commands, NEW s \in Streams, NEW w \in {"leader", "descendant"},
   Emit(p, s, w)
      PROVE  ShapeInv'
  <2>1. Append(unread[p][s], w) \in Seq({"leader", "descendant"})
    BY DEF ShapeInv
  <2>2. unread' \in [Commands -> [Streams -> Seq({"leader", "descendant"})]]
    BY <1>20, <2>1 DEF Emit, ShapeInv
  <2> QED
    BY <1>0, <1>20, <2>2 DEF Emit, LoopUnchanged, osVars, commandVars, timerVars, managerVars,
       callVars, ShapeInv
<1>21. ASSUME NEW p \in Commands, Fork(p) PROVE ShapeInv'
  BY <1>0, <1>21 DEF Fork, LoopUnchanged, osVars, commandVars, timerVars, managerVars,
     callVars, ShapeInv
<1>22. ASSUME NEW p \in Commands, LeaderDies(p) PROVE ShapeInv'
  BY <1>0, <1>22 DEF LeaderDies, LoopUnchanged, osVars, commandVars, timerVars, managerVars,
     callVars, ShapeInv
<1>23. ASSUME NEW p \in Commands, NEW state \in {"detached", "none"}, DescendantMoves(p, state)
      PROVE  ShapeInv'
  BY <1>0, <1>23 DEF DescendantMoves, LoopUnchanged, osVars, commandVars, timerVars,
     managerVars, callVars, ShapeInv
<1>24. ASSUME NEW p \in Commands, LifetimeTimeout(p) PROVE ShapeInv'
  BY <1>0, <1>24 DEF LifetimeTimeout, Terminate, osVars, commandVars, timerVars, managerVars,
     callVars, ShapeInv
<1>25. ASSUME CloseManager PROVE ShapeInv'
  BY <1>0, <1>25 DEF CloseManager, osVars, commandVars, timerVars, managerVars, callVars,
     ShapeInv
<1>26. ASSUME UNCHANGED vars PROVE ShapeInv'
  BY <1>0, <1>26, SMTT(30) DEF vars, osVars, commandVars, timerVars, managerVars, callVars,
     ShapeInv
<1> QED
  BY <1>0, <1>1, <1>2, <1>3, <1>4, <1>5, <1>6, <1>7, <1>8, <1>9, <1>10, <1>11, <1>12,
     <1>13, <1>14, <1>15, <1>16, <1>17, <1>18, <1>19, <1>20, <1>21, <1>22, <1>23, <1>24,
     <1>25, <1>26 DEF Next, CallStep, Event, CommandStep

\* What a behaviour may do is bounded.
LEMMA LoadType == ASSUME ShapeInv PROVE load.chunks \in Nat /\ load.commands \in 1 .. MaxCommands
BY ManagerAssumption DEF ShapeInv, ManagerAssumption

\* The pipes of a command hold sequences of chunks.
LEMMA PipeType ==
  ASSUME ShapeInv, NEW p \in Commands
  PROVE  /\ unread[p]["stdout"] \in Seq({"leader", "descendant"})
         /\ unread[p]["stderr"] \in Seq({"leader", "descendant"})
         /\ received[p] \in Nat /\ Len(unread[p]["stdout"]) \in Nat
         /\ Len(unread[p]["stderr"]) \in Nat
<1>1. "stdout" \in Streams /\ "stderr" \in Streams
  BY DEF Streams
<1>2. unread[p] \in [Streams -> Seq({"leader", "descendant"})] /\ received[p] \in Nat
  BY DEF ShapeInv
<1>3. /\ unread[p]["stdout"] \in Seq({"leader", "descendant"})
      /\ unread[p]["stderr"] \in Seq({"leader", "descendant"})
  BY <1>1, <1>2
<1> QED
  BY <1>2, <1>3
-----------------------------------------------------------------------------
(* The commands                                                            *)

\* What a step leaves alone of a command.
SameCommand(q) ==
  /\ leader'[q] = leader[q] /\ descendant'[q] = descendant[q] /\ unread'[q] = unread[q]
  /\ open'[q] = open[q] /\ received'[q] = received[q] /\ closed'[q] = closed[q]
  /\ postExitTimer'[q] => postExitTimer[q]
  /\ cutOff[q] => cutOff'[q]
  /\ q >= nextId' => /\ cursor'[q] = cursor[q] /\ finishListeners'[q] = finishListeners[q]
                     /\ evictionTimer'[q] => evictionTimer[q]

\* Only a command whose number has been given out is more than fresh.
LEMMA Numbered ==
  ASSUME ShapeInv, NEW p \in Commands, CommandOK(p), leader[p] # "none"
  PROVE  p < nextId /\ ~(p >= nextId)
<1>1. p \in Int /\ nextId \in Int
  BY DEF ShapeInv, Commands
<1>2. ~(p >= nextId)
  BY DEF CommandOK, Fresh
<1> QED
  BY <1>1, <1>2

\* A command a step leaves alone keeps its part of the invariant.
LEMMA SameCommandOK ==
  ASSUME NEW q \in Commands, ShapeInv, CommandOK(q), SameCommand(q),
         load' = load, nextId' \in Int, nextId' >= nextId
  PROVE  CommandOK(q)'
<1>1. (q >= nextId => Fresh(q))' 
  BY DEF SameCommand, CommandOK, Fresh, ShapeInv, Commands
<1>2. Written(q)'
  BY DEF SameCommand, CommandOK, Written
<1>3. Ended(q)' /\ Drained(q)'
  BY DEF SameCommand, CommandOK, Ended, Drained
<1> QED
  BY <1>1, <1>2, <1>3 DEF SameCommand, CommandOK

\* The end of a stream leaves what is written, and no writer of that stream.
LEMMA EndedAfter ==
  ASSUME ShapeInv, NEW p \in Commands, NEW s \in Streams, CommandOK(p), load' = load,
         StreamEnd(p, s)
  PROVE  Written(p)' /\ Ended(p)'
<1>1. UNCHANGED <<leader, descendant, unread, received>>
  BY DEF StreamEnd, osVars
<1>2. Written(p)'
  BY <1>1 DEF CommandOK, Written
<1>3. /\ leader[p] \notin {"none", "running"} /\ unread[p][s] = <<>>
      /\ open'[p] = open[p] \ {s}
  BY DEF StreamEnd, ShapeInv
<1>4. descendant[p] # "holding"
  BY DEF StreamEnd, Writers
<1> QED
  BY <1>1, <1>2, <1>3, <1>4 DEF CommandOK, Ended

\* What completing a command leaves alone of the others, and what it does to its own record.
LEMMA FinalizeOthers ==
  ASSUME ShapeInv, NEW p \in Commands, Finalize(p), NEW q \in Commands
  PROVE  /\ q # p => /\ closed'[q] = closed[q] /\ postExitTimer'[q] = postExitTimer[q]
                     /\ finishListeners'[q] = finishListeners[q] /\ cursor'[q] = cursor[q]
                     /\ evictionTimer'[q] => evictionTimer[q]
         /\ closed'[p] = TRUE /\ postExitTimer'[p] = FALSE
<1>1. closed' = [closed EXCEPT ![p] = TRUE]
      /\ postExitTimer' = [postExitTimer EXCEPT ![p] = FALSE]
      /\ finishListeners' = [finishListeners EXCEPT ![p] = <<>>]
  BY DEF Finalize, ClearTimers
<1>2. q # p => cursor'[q] = cursor[q]
  BY DEF Finalize, ShapeInv
<1>3. q # p => (evictionTimer'[q] => evictionTimer[q])
  BY DEF Finalize, ShapeInv
<1>4. DOMAIN closed = Commands /\ DOMAIN postExitTimer = Commands
      /\ DOMAIN finishListeners = Commands
  BY DEF ShapeInv
<1>5. closed'[p] = TRUE /\ postExitTimer'[p] = FALSE
  BY ONLY <1>1, <1>4, p \in Commands
<1>6. q # p => /\ closed'[q] = closed[q] /\ postExitTimer'[q] = postExitTimer[q]
               /\ finishListeners'[q] = finishListeners[q]
  BY ONLY <1>1, <1>4, q \in Commands
<1> QED
  BY ONLY <1>2, <1>3, <1>5, <1>6

\* Every step keeps what relates a command, its pipes and its completion.
LEMMA CommandInvStep ==
  ASSUME ShapeInv, CommandInv, CallInv, [Next]_vars
  PROVE  CommandInv'
<1>0. UNCHANGED load
  BY DEF Next, vars
<1>1. ASSUME NEW k \in Calls, ExecRefused(k) PROVE CommandInv'
  <2> SUFFICES ASSUME NEW q \in Commands PROVE CommandOK(q)'
    BY DEF CommandInv
  <2>1. CommandOK(q) /\ nextId' \in Int /\ nextId' >= nextId
    BY <1>1 DEF ExecRefused, Refuse, osVars, commandVars, timerVars, managerVars, CommandInv,
       ShapeInv
  <2>2. SameCommand(q)
    BY <1>1 DEF ExecRefused, Refuse, osVars, commandVars, timerVars, managerVars, SameCommand,
       ShapeInv, CommandInv, CommandOK, Fresh
  <2> QED
    BY <1>0, <2>1, <2>2, SameCommandOK
<1>2. ASSUME NEW k \in Calls, Exec(k) PROVE CommandInv'
  <2> SUFFICES ASSUME NEW q \in Commands PROVE CommandOK(q)'
    BY DEF CommandInv
  <2>1. CommandOK(q) /\ nextId' = nextId + 1 /\ nextId \in Int
    BY <1>2 DEF Exec, AdvanceId, CommandInv, ShapeInv
  <2>2. CASE q # nextId
    <3>1. SameCommand(q)
      BY <1>2, <2>2 DEF Exec, timerVars, SameCommand, ShapeInv
    <3> QED
      BY <1>0, <1>2, <2>1, <3>1, SameCommandOK DEF Exec
  <2>3. CASE q = nextId
    <3>1. Fresh(q) /\ Written(q)
      BY <2>1, <2>3 DEF CommandOK
    <3>2. leader'[q] \in {"running", "failed"}
      BY <1>2, <2>3 DEF Exec, ShapeInv
    <3>3. UNCHANGED <<descendant, unread, open, received, closed, postExitTimer, managerClosed>>
      BY <1>2 DEF Exec, timerVars
    <3>4. load.chunks \in Nat
      BY LoadType
    <3>5. ~postExitTimer[q]
      BY <2>1, <3>1 DEF CommandOK, Fresh
    <3>6. Written(q)'
      <4>1. received[q] = 0 /\ unread[q]["stdout"] = <<>> /\ unread[q]["stderr"] = <<>>
            /\ descendant[q] = "none" /\ \A s \in Streams : unread[q][s] = <<>>
        BY <3>1 DEF Fresh, Streams
      <4> QED
        BY <1>0, <3>2, <3>3, <3>4, <4>1 DEF Written
    <3> QED
      BY <2>1, <2>3, <3>1, <3>2, <3>3, <3>5, <3>6 DEF CommandOK, Fresh, Ended, Drained
  <2> QED
    BY <2>2, <2>3
<1>3. ASSUME NEW k \in Calls, Abort(k) PROVE CommandInv'
  <2> SUFFICES ASSUME NEW q \in Commands PROVE CommandOK(q)'
    BY DEF CommandInv
  <2>1. CommandOK(q) /\ nextId' \in Int /\ nextId' >= nextId
    BY <1>3 DEF Abort, Terminate, osVars, commandVars, managerVars, CommandInv, ShapeInv
  <2>2. SameCommand(q)
    BY <1>3 DEF Abort, Terminate, osVars, commandVars, managerVars, SameCommand, ShapeInv,
       CommandInv, CommandOK, Fresh
  <2> QED
    BY <1>0, <2>1, <2>2, SameCommandOK
<1>4. ASSUME NEW k \in Calls, NEW p \in Commands, NEW chars \in BOOLEAN, WriteRefused(k, p,
   chars)
      PROVE  CommandInv'
  <2> SUFFICES ASSUME NEW q \in Commands PROVE CommandOK(q)'
    BY DEF CommandInv
  <2>1. CommandOK(q) /\ nextId' \in Int /\ nextId' >= nextId
    BY <1>4 DEF WriteRefused, Refuse, osVars, commandVars, timerVars, managerVars, CommandInv,
       ShapeInv
  <2>2. SameCommand(q)
    BY <1>4 DEF WriteRefused, Refuse, osVars, commandVars, timerVars, managerVars, SameCommand,
       ShapeInv, CommandInv, CommandOK, Fresh
  <2> QED
    BY <1>0, <2>1, <2>2, SameCommandOK
<1>5. ASSUME NEW k \in Calls, NEW p \in Commands, Poll(k, p) PROVE CommandInv'
  <2> SUFFICES ASSUME NEW q \in Commands PROVE CommandOK(q)'
    BY DEF CommandInv
  <2>1. CommandOK(q) /\ nextId' \in Int /\ nextId' >= nextId
    BY <1>5 DEF Poll, Wait, Result, Slice, osVars, CommandInv, ShapeInv
  <2>2. SameCommand(q)
    BY <1>5 DEF Poll, Wait, Result, Slice, osVars, SameCommand, ShapeInv, CommandInv,
       CommandOK, Fresh
  <2> QED
    BY <1>0, <2>1, <2>2, SameCommandOK
<1>6. ASSUME NEW k \in Calls, NEW p \in Commands, Write(k, p) PROVE CommandInv'
  <2> SUFFICES ASSUME NEW q \in Commands PROVE CommandOK(q)'
    BY DEF CommandInv
  <2>1. CommandOK(q) /\ nextId' \in Int /\ nextId' >= nextId
    BY <1>6 DEF Write, osVars, commandVars, timerVars, managerVars, CommandInv, ShapeInv
  <2>2. SameCommand(q)
    BY <1>6 DEF Write, osVars, commandVars, timerVars, managerVars, SameCommand, ShapeInv,
       CommandInv, CommandOK, Fresh
  <2> QED
    BY <1>0, <2>1, <2>2, SameCommandOK
<1>7. ASSUME NEW k \in Calls, NEW p \in Commands, WriteFlushed(k, p) PROVE CommandInv'
  <2> SUFFICES ASSUME NEW q \in Commands PROVE CommandOK(q)'
    BY DEF CommandInv
  <2>1. CommandOK(q) /\ UNCHANGED <<nextId, managerClosed>> /\ nextId \in Int /\ p < nextId
    BY <1>7 DEF WriteFlushed, osVars, CommandInv, ShapeInv, CallInv, CallOK
  <2>2. UNCHANGED <<leader, descendant, unread, open, received, closed, postExitTimer, cutOff>>
    BY <1>7 DEF WriteFlushed, osVars
  <2>3. q # p => /\ cursor'[q] = cursor[q] /\ finishListeners'[q] = finishListeners[q]
                 /\ evictionTimer'[q] => evictionTimer[q]
    BY <1>7 DEF WriteFlushed, Wait, Result, Slice, ShapeInv
  <2>4. SameCommand(q)
    BY <2>1, <2>2, <2>3 DEF SameCommand, Commands
  <2> QED
    BY <1>0, <2>1, <2>4, SameCommandOK
<1>8. ASSUME NEW k \in Calls, NEW p \in Commands, WriteRejected(k, p) PROVE CommandInv'
  <2> SUFFICES ASSUME NEW q \in Commands PROVE CommandOK(q)'
    BY DEF CommandInv
  <2>1. CommandOK(q) /\ nextId' \in Int /\ nextId' >= nextId
    BY <1>8 DEF WriteRejected, osVars, commandVars, timerVars, managerVars, CommandInv, ShapeInv
  <2>2. SameCommand(q)
    BY <1>8 DEF WriteRejected, osVars, commandVars, timerVars, managerVars, SameCommand,
       ShapeInv, CommandInv, CommandOK, Fresh
  <2> QED
    BY <1>0, <2>1, <2>2, SameCommandOK
<1>9. ASSUME NEW k \in Calls, NEW p \in Commands, BrokenPipe(k, p) PROVE CommandInv'
  <2> SUFFICES ASSUME NEW q \in Commands PROVE CommandOK(q)'
    BY DEF CommandInv
  <2>1. CommandOK(q) /\ nextId' \in Int /\ nextId' >= nextId
    BY <1>9 DEF BrokenPipe, osVars, commandVars, timerVars, managerVars, callVars, CommandInv,
       ShapeInv
  <2>2. SameCommand(q)
    BY <1>9 DEF BrokenPipe, osVars, commandVars, timerVars, managerVars, callVars, SameCommand,
       ShapeInv, CommandInv, CommandOK, Fresh
  <2> QED
    BY <1>0, <2>1, <2>2, SameCommandOK
<1>10. ASSUME NEW k \in Calls, NEW p \in Commands, WaitTimeout(k, p) PROVE CommandInv'
  <2> SUFFICES ASSUME NEW q \in Commands PROVE CommandOK(q)'
    BY DEF CommandInv
  <2>1. CommandOK(q) /\ UNCHANGED <<nextId, managerClosed>> /\ nextId \in Int /\ p < nextId
    BY <1>10 DEF WaitTimeout, osVars, CommandInv, ShapeInv, CallInv, CallOK
  <2>2. UNCHANGED <<leader, descendant, unread, open, received, closed, postExitTimer, cutOff>>
    BY <1>10 DEF WaitTimeout, osVars
  <2>3. q # p => /\ cursor'[q] = cursor[q] /\ finishListeners'[q] = finishListeners[q]
                 /\ evictionTimer'[q] => evictionTimer[q]
    BY <1>10 DEF WaitTimeout, Result, Slice, ShapeInv
  <2>4. SameCommand(q)
    BY <2>1, <2>2, <2>3 DEF SameCommand, Commands
  <2> QED
    BY <1>0, <2>1, <2>4, SameCommandOK
<1>11. ASSUME NEW p \in Commands, NEW s \in Streams, Data(p, s) PROVE CommandInv'
  <2> SUFFICES ASSUME NEW q \in Commands PROVE CommandOK(q)'
    BY DEF CommandInv
  <2>1. CommandOK(q) /\ nextId' \in Int /\ nextId' >= nextId
    BY <1>11 DEF Data, managerVars, callVars, CommandInv, ShapeInv
  <2>2. CASE q # p
    <3>1. SameCommand(q)
      BY <1>11, <2>2 DEF Data, managerVars, callVars, SameCommand, ShapeInv
    <3> QED
      BY <1>0, <2>1, <3>1, SameCommandOK
  <2>3. CASE q = p
    <3>1. /\ unread[p][s] # <<>> /\ ~closed[p] /\ unread[p][s] \in Seq({"leader", "descendant"})
          /\ unread' = [unread EXCEPT ![p][s] = Tail(@)]
          /\ received' = [received EXCEPT ![p] = @ + 1]
          /\ postExitTimer' = [postExitTimer EXCEPT ![p] = @ \/ Exited(p)]
          /\ UNCHANGED <<leader, descendant, open, closed, nextId>>
      BY <1>11 DEF Data, managerVars, ShapeInv
    <3>2. leader[p] \notin {"none", "failed", "lost"}
      BY <2>1, <2>3, <3>1 DEF CommandOK, Written
    <3>3. s \in open[p] /\ p < nextId
      BY <2>1, <2>3, <3>1, <3>2 DEF CommandOK, Ended, Fresh, Commands, ShapeInv
    <3>4. Written(p)'
      <4>1. Len(unread'[p][s]) = Len(unread[p][s]) - 1
        BY <3>1 DEF ShapeInv
      <4>2. \A t \in Streams : t # s => unread'[p][t] = unread[p][t]
        BY <3>1 DEF ShapeInv
      <4>3. /\ Len(unread[p]["stdout"]) \in Nat /\ Len(unread[p]["stderr"]) \in Nat
            /\ received[p] \in Nat /\ load.chunks \in Nat
        BY LoadType, PipeType
      <4>4. received'[p] = received[p] + 1
        BY <3>1 DEF ShapeInv
      <4>5. Len(unread[p]["stdout"]) + Len(unread[p]["stderr"]) + received[p] <= load.chunks
        BY <2>1, <2>3, <3>2 DEF CommandOK, Written
      <4> QED
        <5> DEFINE a == Len(unread[p]["stdout"])
                   b == Len(unread[p]["stderr"])
                   aa == Len(unread'[p]["stdout"])
                   bb == Len(unread'[p]["stderr"])
        <5>1. a \in Nat /\ b \in Nat /\ a + b + received[p] <= load.chunks
          BY <4>3, <4>4, <4>5
        <5>2. (aa = a - 1 /\ bb = b) \/ (aa = a /\ bb = b - 1)
          BY <4>1, <4>2 DEF Streams
        <5> HIDE DEF a, b, aa, bb
        <5>3. aa + bb + received'[p] <= load.chunks
          BY <4>3, <4>4, <5>1, <5>2
        <5> QED
          BY <1>0, <3>1, <3>2, <5>3 DEF Written, aa, bb
    <3>5. Ended(p)'
      BY <2>1, <2>3, <3>1, <3>3 DEF Ended, CommandOK, ShapeInv
    <3>6. postExitTimer'[p] => leader[p] = "reaped"
      BY <2>1, <2>3, <3>1 DEF CommandOK, Exited, ShapeInv
    <3> QED
      BY <2>1, <2>3, <3>1, <3>3, <3>4, <3>5, <3>6 DEF CommandOK, Drained, Commands, ShapeInv
  <2> QED
    BY <2>2, <2>3
<1>12. ASSUME NEW p \in Commands, NEW s \in Streams, StreamEnd(p, s) PROVE CommandInv'
  <2> SUFFICES ASSUME NEW q \in Commands PROVE CommandOK(q)'
    BY DEF CommandInv
  <2>1. CommandOK(q) /\ CommandOK(p) /\ UNCHANGED nextId /\ nextId \in Int
        /\ managerClosed \in BOOLEAN /\ UNCHANGED managerClosed
    BY <1>12 DEF StreamEnd, osVars, timerVars, managerVars, callVars, FinalizeIf, CommandInv,
       ShapeInv
  <2>2. CASE Finalize(p) /\ ~closed[p]
    <3>1. CASE q # p
      <4>0. /\ open'[q] = open[q] /\ (cutOff[q] => cutOff'[q])
            /\ UNCHANGED <<leader, descendant, unread, received>>
        BY <1>12, <3>1 DEF StreamEnd, osVars, ShapeInv
      <4>1. SameCommand(q)
        BY <2>2, <3>1, <4>0, FinalizeOthers DEF SameCommand
      <4> QED
        BY <1>0, <2>1, <4>1, SameCommandOK
    <3>2. CASE q = p
      <4>0. leader[p] # "none"
        BY <1>12, <2>1 DEF StreamEnd, CommandOK
      <4>1. closed'[p] = TRUE /\ postExitTimer'[p] = FALSE /\ p < nextId
        BY <2>1, <2>2, <4>0, FinalizeOthers, Numbered
      <4>2. /\ leader'[p] \in {"reaped", "lost"}
            /\ \A t \in Streams : unread'[p][t] = <<>>
        <5>1. /\ open'[p] = {} /\ leader[p] = "reaped" /\ unread[p][s] = <<>>
              /\ UNCHANGED <<leader, unread>>
          <6>1. unread[p][s] = <<>> /\ UNCHANGED <<leader, unread>> /\ ~closed[p]
                /\ FinalizeIf(Exited(p) /\ BothEnded(p)', p)
            BY <1>12 DEF StreamEnd, osVars
          <6>2. closed'[p] # closed[p]
            BY <2>2, <6>1, FinalizeOthers
          <6>3. Exited(p) /\ BothEnded(p)'
            BY <6>1, <6>2 DEF FinalizeIf
          <6> QED
            BY <6>1, <6>3 DEF Exited, BothEnded
        <5>2. \A t \in Streams \ open[p] : unread[p][t] = <<>>
          BY <2>1 DEF CommandOK, Ended
        <5>3. \A t \in Streams : t # s => t \notin open[p]
          BY <1>12, <5>1 DEF StreamEnd, ShapeInv
        <5> QED
          BY <5>1, <5>2, <5>3
      <4>3. Written(p)' /\ Ended(p)'
        BY <1>0, <1>12, <2>1, EndedAfter
      <4> QED
        BY <1>12, <2>1, <3>2, <4>1, <4>2, <4>3 DEF StreamEnd, osVars, CommandOK, Drained,
           Commands
    <3> QED
      BY <3>1, <3>2
  <2>3. CASE ~Finalize(p) \/ closed[p]
    <3>1. UNCHANGED <<closed, finishListeners, cursor, postExitTimer, evictionTimer>>
      BY <1>12, <2>3 DEF StreamEnd, FinalizeIf, timerVars
    <3>2. CASE q # p
      <4>0. /\ open'[q] = open[q] /\ (cutOff[q] => cutOff'[q])
            /\ UNCHANGED <<leader, descendant, unread, received>>
        BY <1>12, <3>2 DEF StreamEnd, osVars, ShapeInv
      <4>1. SameCommand(q)
        BY <3>1, <4>0 DEF SameCommand
      <4> QED
        BY <1>0, <2>1, <4>1, SameCommandOK
    <3>3. CASE q = p
      <4>0. leader[p] # "none" /\ p < nextId
        BY <1>12, <2>1, Numbered DEF StreamEnd
      <4>1. Written(p)' /\ Ended(p)'
        BY <1>0, <1>12, <2>1, EndedAfter
      <4> QED
        BY <1>12, <2>1, <3>1, <3>3, <4>0, <4>1 DEF StreamEnd, osVars, CommandOK, Drained,
           Commands
    <3> QED
      BY <3>2, <3>3
  <2> QED
    BY <2>2, <2>3
<1>13. ASSUME NEW p \in Commands, ExitEvent(p) PROVE CommandInv'
  <2> SUFFICES ASSUME NEW q \in Commands PROVE CommandOK(q)'
    BY DEF CommandInv
  <2>1. CommandOK(q) /\ CommandOK(p) /\ UNCHANGED nextId /\ nextId \in Int
        /\ managerClosed \in BOOLEAN /\ UNCHANGED managerClosed
    BY <1>13 DEF ExitEvent, timerVars, managerVars, callVars, FinalizeIf, CommandInv, ShapeInv
  <2>2. CASE Finalize(p) /\ ~closed[p]
    <3>1. CASE q # p
      <4>0. leader'[q] = leader[q] /\ UNCHANGED <<open, descendant, unread, received, cutOff>>
        BY <1>13, <3>1 DEF ExitEvent, ShapeInv
      <4>1. SameCommand(q)
        BY <2>2, <3>1, <4>0, FinalizeOthers DEF SameCommand
      <4> QED
        BY <1>0, <2>1, <4>1, SameCommandOK
    <3>2. CASE q = p
      <4>1. closed'[p] = TRUE /\ postExitTimer'[p] = FALSE /\ p < nextId
        BY <1>13, <2>1, <2>2, FinalizeOthers, Numbered DEF ExitEvent
      <4>2. leader'[p] = "reaped" /\ UNCHANGED <<descendant, unread, open, received>>
        BY <1>13 DEF ExitEvent, ShapeInv
      <4>3. open[p] = {}
        BY <1>13, <2>2, <4>1 DEF ExitEvent, BothEnded, ShapeInv, timerVars, managerVars,
           callVars
      <4>4. \A s \in Streams : unread[p][s] = <<>>
        BY <2>1, <4>3 DEF CommandOK, Ended
      <4>5. Written(p)' /\ Ended(p)'
        BY <1>0, <1>13, <2>1, <4>2 DEF ExitEvent, CommandOK, Written, Ended
      <4> QED
        BY <2>1, <3>2, <4>1, <4>2, <4>4, <4>5 DEF CommandOK, Drained, Commands
    <3> QED
      BY <3>1, <3>2
  <2>3. CASE ~Finalize(p) \/ closed[p]
    <3>1. /\ closed' = closed /\ p < nextId
          /\ leader' = [leader EXCEPT ![p] = "reaped"]
          /\ UNCHANGED <<descendant, unread, open, received, finishListeners, cursor,
             evictionTimer, cutOff>>
          /\ \A t \in Commands \ {p} : postExitTimer'[t] = postExitTimer[t]
      <4>1. p < nextId
        BY <1>13, <2>1, Numbered DEF ExitEvent
      <4> QED
        BY <1>13, <2>3, <4>1 DEF ExitEvent, timerVars, ShapeInv
    <3>2. CASE q # p
      <4>1. SameCommand(q)
        BY <3>1, <3>2 DEF SameCommand, ShapeInv
      <4> QED
        BY <1>0, <2>1, <4>1, SameCommandOK
    <3>3. CASE q = p
      <4>1. leader[p] = "dead" /\ leader'[p] = "reaped"
        BY <1>13, <3>1 DEF ExitEvent, ShapeInv
      <4> QED
        BY <1>0, <2>1, <3>1, <3>3, <4>1
           DEF CommandOK, Fresh, Written, Ended, Drained, ShapeInv, Commands
    <3> QED
      BY <3>2, <3>3
  <2> QED
    BY <2>2, <2>3
<1>14. ASSUME NEW p \in Commands, PostExitTimeout(p) PROVE CommandInv'
  <2> SUFFICES ASSUME NEW q \in Commands PROVE CommandOK(q)'
    BY DEF CommandInv
  <2>1. CommandOK(q) /\ CommandOK(p) /\ UNCHANGED nextId /\ nextId \in Int
        /\ managerClosed \in BOOLEAN /\ UNCHANGED managerClosed
    BY <1>14 DEF PostExitTimeout, osVars, timerVars, managerVars, callVars, FinalizeIf,
       CommandInv, ShapeInv
  <2>2. CASE Finalize(p) /\ ~closed[p]
    <3>1. CASE q # p
      <4>0. /\ open'[q] = open[q] /\ (cutOff[q] => cutOff'[q])
            /\ UNCHANGED <<leader, descendant, unread, received>>
        BY <1>14, <3>1 DEF PostExitTimeout, osVars, ShapeInv
      <4>1. SameCommand(q)
        BY <2>2, <3>1, <4>0, FinalizeOthers DEF SameCommand
      <4> QED
        BY <1>0, <2>1, <4>1, SameCommandOK
    <3>2. CASE q = p
      <4>0. leader[p] # "none"
        BY <1>14, <2>1 DEF PostExitTimeout, CommandOK
      <4>1. closed'[p] = TRUE /\ postExitTimer'[p] = FALSE /\ p < nextId
        BY <2>1, <2>2, <4>0, FinalizeOthers, Numbered
      <4>2. leader'[p] \in {"reaped", "lost"} /\ cutOff'[p]
        BY <1>14, <2>1, <2>2 DEF PostExitTimeout, osVars, CommandOK, ShapeInv
      <4>3. Written(p)' /\ Ended(p)'
        BY <1>0, <1>14, <2>1 DEF PostExitTimeout, osVars, Writers, CommandOK, Written, Ended,
           ShapeInv
      <4> QED
        BY <1>14, <2>1, <3>2, <4>1, <4>2, <4>3 DEF PostExitTimeout, osVars, CommandOK, Drained,
           Commands
    <3> QED
      BY <3>1, <3>2
  <2>3. CASE ~Finalize(p) \/ closed[p]
    <3>1. /\ UNCHANGED <<closed, finishListeners, cursor, postExitTimer, evictionTimer>>
          /\ cutOff[q] => cutOff'[q]
      BY <1>14, <2>3 DEF PostExitTimeout, FinalizeIf, timerVars, ShapeInv
    <3> QED
      BY <1>0, <1>14, <2>1, <3>1, SameCommandOK DEF PostExitTimeout, osVars, SameCommand
  <2> QED
    BY <2>2, <2>3
<1>15. ASSUME NEW p \in Commands, KillTimeout(p) PROVE CommandInv'
  <2> SUFFICES ASSUME NEW q \in Commands PROVE CommandOK(q)'
    BY DEF CommandInv
  <2>1. CommandOK(q) /\ nextId' \in Int /\ nextId' >= nextId
    BY <1>15 DEF KillTimeout, commandVars, managerVars, callVars, CommandInv, ShapeInv
  <2>2. CASE q # p
    <3>1. SameCommand(q)
      BY <1>15, <2>2 DEF KillTimeout, commandVars, managerVars, callVars, SameCommand, ShapeInv
    <3> QED
      BY <1>0, <2>1, <3>1, SameCommandOK
  <2>3. CASE q = p
    BY <1>0, <1>15, <2>1, <2>3 DEF KillTimeout, commandVars, managerVars, callVars, ShapeInv,
       CommandOK, Fresh, Written, Ended, Drained, Writers
  <2> QED
    BY <2>2, <2>3
<1>16. ASSUME NEW p \in Commands, EvictionTimeout(p) PROVE CommandInv'
  <2> SUFFICES ASSUME NEW q \in Commands PROVE CommandOK(q)'
    BY DEF CommandInv
  <2>1. CommandOK(q) /\ nextId' \in Int /\ nextId' >= nextId
    BY <1>16 DEF EvictionTimeout, osVars, commandVars, callVars, CommandInv, ShapeInv
  <2>2. SameCommand(q)
    BY <1>16 DEF EvictionTimeout, osVars, commandVars, callVars, SameCommand, ShapeInv,
       CommandInv, CommandOK, Fresh
  <2> QED
    BY <1>0, <2>1, <2>2, SameCommandOK
<1>17. ASSUME NEW p \in Commands, StartError(p) PROVE CommandInv'
  <2> SUFFICES ASSUME NEW q \in Commands PROVE CommandOK(q)'
    BY DEF CommandInv
  <2>1. CommandOK(q) /\ nextId' \in Int /\ nextId' >= nextId
    BY <1>17 DEF StartError, timerVars, managerVars, callVars, CommandInv, ShapeInv
  <2>2. CASE q # p
    <3>1. SameCommand(q)
      BY <1>17, <2>2 DEF StartError, timerVars, managerVars, callVars, SameCommand, ShapeInv
    <3> QED
      BY <1>0, <2>1, <3>1, SameCommandOK
  <2>3. CASE q = p
    BY <1>0, <1>17, <2>1, <2>3 DEF StartError, timerVars, managerVars, callVars, ShapeInv,
       CommandOK, Fresh, Written, Ended, Drained, Writers
  <2> QED
    BY <2>2, <2>3
<1>18. ASSUME NEW p \in Commands, ConfigurationFailed(p) PROVE CommandInv'
  <2> SUFFICES ASSUME NEW q \in Commands PROVE CommandOK(q)'
    BY DEF CommandInv
  <2>1. CommandOK(q) /\ nextId' \in Int /\ nextId' >= nextId
    BY <1>18 DEF ConfigurationFailed, Terminate, osVars, managerVars, callVars, CommandInv,
       ShapeInv
  <2>2. CASE q # p
    <3>1. SameCommand(q)
      BY <1>18, <2>2 DEF ConfigurationFailed, Terminate, osVars, managerVars, callVars,
         SameCommand, ShapeInv
    <3> QED
      BY <1>0, <2>1, <3>1, SameCommandOK
  <2>3. CASE q = p
    BY <1>0, <1>18, <2>1, <2>3 DEF ConfigurationFailed, Terminate, osVars, managerVars,
       callVars, ShapeInv, CommandOK, Fresh, Written, Ended, Drained, Writers
  <2> QED
    BY <2>2, <2>3
<1>19. ASSUME NEW p \in Commands, CloseEvent(p) PROVE CommandInv'
  <2> SUFFICES ASSUME NEW q \in Commands PROVE CommandOK(q)'
    BY DEF CommandInv
  <2>1. CommandOK(q) /\ CommandOK(p) /\ UNCHANGED nextId /\ nextId \in Int
        /\ managerClosed \in BOOLEAN /\ UNCHANGED managerClosed
    BY <1>19 DEF CloseEvent, osVars, timerVars, managerVars, callVars, FinalizeIf, CommandInv,
       ShapeInv
  <2>2. CASE Finalize(p) /\ ~closed[p]
    <3>1. CASE q # p
      <4>0. /\ open'[q] = open[q] /\ (cutOff[q] => cutOff'[q])
            /\ UNCHANGED <<leader, descendant, unread, received>>
        BY <1>19, <3>1 DEF CloseEvent, osVars, ShapeInv
      <4>1. SameCommand(q)
        BY <2>2, <3>1, <4>0, FinalizeOthers DEF SameCommand
      <4> QED
        BY <1>0, <2>1, <4>1, SameCommandOK
    <3>2. CASE q = p
      <4>0. leader[p] # "none"
        BY <1>19, <2>1 DEF CloseEvent, CommandOK
      <4>1. closed'[p] = TRUE /\ postExitTimer'[p] = FALSE /\ p < nextId
        BY <2>1, <2>2, <4>0, FinalizeOthers, Numbered
      <4>2. leader'[p] \in {"reaped", "lost"} /\ \A s \in Streams : unread'[p][s] = <<>>
        BY <1>19, <2>1, <2>2 DEF CloseEvent, FinalizeIf, osVars, CommandOK, Ended, Written,
           ShapeInv
      <4>3. Written(p)' /\ Ended(p)'
        BY <1>0, <1>19, <2>1 DEF CloseEvent, osVars, Writers, CommandOK, Written, Ended,
           ShapeInv
      <4> QED
        BY <1>19, <2>1, <3>2, <4>1, <4>2, <4>3 DEF CloseEvent, osVars, CommandOK, Drained,
           Commands
    <3> QED
      BY <3>1, <3>2
  <2>3. CASE ~Finalize(p) \/ closed[p]
    <3>1. UNCHANGED <<closed, finishListeners, cursor, postExitTimer, evictionTimer>>
      BY <1>19, <2>3 DEF CloseEvent, FinalizeIf, timerVars
    <3> QED
      BY <1>0, <1>19, <2>1, <3>1, SameCommandOK DEF CloseEvent, osVars, SameCommand
  <2> QED
    BY <2>2, <2>3
<1>20. ASSUME NEW p \in Commands, NEW s \in Streams, NEW w \in {"leader", "descendant"},
   Emit(p, s, w)
      PROVE  CommandInv'
  <2> SUFFICES ASSUME NEW q \in Commands PROVE CommandOK(q)'
    BY DEF CommandInv
  <2>1. CommandOK(q) /\ nextId' \in Int /\ nextId' >= nextId
    BY <1>20 DEF Emit, LoopUnchanged, commandVars, timerVars, managerVars, callVars,
       CommandInv, ShapeInv
  <2>2. CASE q # p
    <3>1. SameCommand(q)
      BY <1>20, <2>2 DEF Emit, LoopUnchanged, commandVars, timerVars, managerVars, callVars,
         SameCommand, ShapeInv
    <3> QED
      BY <1>0, <2>1, <3>1, SameCommandOK
  <2>3. CASE q = p
    <3>1. /\ w \in Writers(p) /\ ~closed[p] /\ unread[p][s] \in Seq({"leader", "descendant"})
          /\ Len(unread[p]["stdout"]) + Len(unread[p]["stderr"]) + received[p] < load.chunks
          /\ unread' = [unread EXCEPT ![p][s] = Append(@, w)]
          /\ UNCHANGED <<leader, descendant, open, received, closed, postExitTimer, nextId>>
      BY <1>20 DEF Emit, LoopUnchanged, commandVars, timerVars, managerVars, ShapeInv
    <3>2. leader[p] \notin {"none", "failed", "lost"}
      BY <2>1, <2>3, <3>1 DEF Writers, CommandOK, Written
    <3>3. s \in open[p] /\ p < nextId
      BY <2>1, <2>3, <3>1, <3>2 DEF Writers, CommandOK, Ended, Fresh, Commands, ShapeInv
    <3>4. Written(p)'
      <4>1. Len(unread'[p][s]) = Len(unread[p][s]) + 1
        BY <3>1 DEF ShapeInv
      <4>2. \A t \in Streams : t # s => unread'[p][t] = unread[p][t]
        BY <3>1 DEF ShapeInv
      <4>3. /\ Len(unread[p]["stdout"]) \in Nat /\ Len(unread[p]["stderr"]) \in Nat
            /\ received[p] \in Nat /\ load.chunks \in Nat
        BY LoadType, PipeType
      <4>4. /\ Len(unread[p]["stdout"]) + Len(unread[p]["stderr"]) + received[p] < load.chunks
            /\ received'[p] = received[p]
        BY <3>1
      <4> QED
        <5> DEFINE a == Len(unread[p]["stdout"])
                   b == Len(unread[p]["stderr"])
                   aa == Len(unread'[p]["stdout"])
                   bb == Len(unread'[p]["stderr"])
        <5>1. a \in Nat /\ b \in Nat /\ a + b + received[p] < load.chunks
          BY <4>3, <4>4
        <5>2. (aa = a + 1 /\ bb = b) \/ (aa = a /\ bb = b + 1)
          BY <4>1, <4>2 DEF Streams
        <5> HIDE DEF a, b, aa, bb
        <5>3. aa + bb + received'[p] <= load.chunks
          BY <4>3, <4>4, <5>1, <5>2
        <5> QED
          BY <1>0, <3>1, <3>2, <5>3 DEF Written, aa, bb
    <3>5. Ended(p)'
      BY <2>1, <2>3, <3>1, <3>3 DEF Ended, CommandOK, ShapeInv
    <3> QED
      BY <2>1, <2>3, <3>1, <3>3, <3>4, <3>5 DEF CommandOK, Drained, Commands, ShapeInv
  <2> QED
    BY <2>2, <2>3
<1>21. ASSUME NEW p \in Commands, Fork(p) PROVE CommandInv'
  <2> SUFFICES ASSUME NEW q \in Commands PROVE CommandOK(q)'
    BY DEF CommandInv
  <2>1. CommandOK(q) /\ nextId' \in Int /\ nextId' >= nextId
    BY <1>21 DEF Fork, LoopUnchanged, commandVars, timerVars, managerVars, callVars,
       CommandInv, ShapeInv
  <2>2. CASE q # p
    <3>1. SameCommand(q)
      BY <1>21, <2>2 DEF Fork, LoopUnchanged, commandVars, timerVars, managerVars, callVars,
         SameCommand, ShapeInv
    <3> QED
      BY <1>0, <2>1, <3>1, SameCommandOK
  <2>3. CASE q = p
    BY <1>0, <1>21, <2>1, <2>3 DEF Fork, LoopUnchanged, commandVars, timerVars, managerVars,
       callVars, ShapeInv, CommandOK, Fresh, Written, Ended, Drained, Writers
  <2> QED
    BY <2>2, <2>3
<1>22. ASSUME NEW p \in Commands, LeaderDies(p) PROVE CommandInv'
  <2> SUFFICES ASSUME NEW q \in Commands PROVE CommandOK(q)'
    BY DEF CommandInv
  <2>1. CommandOK(q) /\ nextId' \in Int /\ nextId' >= nextId
    BY <1>22 DEF LeaderDies, LoopUnchanged, commandVars, timerVars, managerVars, callVars,
       CommandInv, ShapeInv
  <2>2. CASE q # p
    <3>1. SameCommand(q)
      BY <1>22, <2>2 DEF LeaderDies, LoopUnchanged, commandVars, timerVars, managerVars,
         callVars, SameCommand, ShapeInv
    <3> QED
      BY <1>0, <2>1, <3>1, SameCommandOK
  <2>3. CASE q = p
    BY <1>0, <1>22, <2>1, <2>3 DEF LeaderDies, LoopUnchanged, commandVars, timerVars,
       managerVars, callVars, ShapeInv, CommandOK, Fresh, Written, Ended, Drained, Writers
  <2> QED
    BY <2>2, <2>3
<1>23. ASSUME NEW p \in Commands, NEW state \in {"detached", "none"}, DescendantMoves(p, state)
      PROVE  CommandInv'
  <2> SUFFICES ASSUME NEW q \in Commands PROVE CommandOK(q)'
    BY DEF CommandInv
  <2>1. CommandOK(q) /\ nextId' \in Int /\ nextId' >= nextId
    BY <1>23 DEF DescendantMoves, LoopUnchanged, commandVars, timerVars, managerVars, callVars,
       CommandInv, ShapeInv
  <2>2. CASE q # p
    <3>1. SameCommand(q)
      BY <1>23, <2>2 DEF DescendantMoves, LoopUnchanged, commandVars, timerVars, managerVars,
         callVars, SameCommand, ShapeInv
    <3> QED
      BY <1>0, <2>1, <3>1, SameCommandOK
  <2>3. CASE q = p
    BY <1>0, <1>23, <2>1, <2>3 DEF DescendantMoves, LoopUnchanged, commandVars, timerVars,
       managerVars, callVars, ShapeInv, CommandOK, Fresh, Written, Ended, Drained, Writers
  <2> QED
    BY <2>2, <2>3
<1>24. ASSUME NEW p \in Commands, LifetimeTimeout(p) PROVE CommandInv'
  <2> SUFFICES ASSUME NEW q \in Commands PROVE CommandOK(q)'
    BY DEF CommandInv
  <2>1. CommandOK(q) /\ nextId' \in Int /\ nextId' >= nextId
    BY <1>24 DEF LifetimeTimeout, Terminate, osVars, commandVars, managerVars, callVars,
       CommandInv, ShapeInv
  <2>2. SameCommand(q)
    BY <1>24 DEF LifetimeTimeout, Terminate, osVars, commandVars, managerVars, callVars,
       SameCommand, ShapeInv, CommandInv, CommandOK, Fresh
  <2> QED
    BY <1>0, <2>1, <2>2, SameCommandOK
<1>25. ASSUME CloseManager PROVE CommandInv'
  <2> SUFFICES ASSUME NEW q \in Commands PROVE CommandOK(q)'
    BY DEF CommandInv
  <2>1. CommandOK(q) /\ UNCHANGED <<nextId, osVars, open, received, cursor>>
    BY <1>25 DEF CloseManager, CommandInv
  <2>2. q >= nextId => q \notin processes
    BY DEF ShapeInv, Commands
  <2>3. /\ closed'[q] => closed[q] \/ (leader[q] = "reaped" /\ cutOff'[q])
        /\ cutOff[q] => cutOff'[q]
    BY <1>25 DEF CloseManager, Active, Exited
  <2>4. (postExitTimer'[q] => postExitTimer[q]) /\ (evictionTimer'[q] => evictionTimer[q])
    BY <1>25 DEF CloseManager
  <2>5. q \notin processes /\ ~closed[q] => ~closed'[q]
    BY <1>25 DEF CloseManager, Active
  <2>6. q \notin processes => finishListeners'[q] = finishListeners[q]
    BY <1>25 DEF CloseManager
  <2>7. (q >= nextId => Fresh(q))'
    BY <2>1, <2>2, <2>4, <2>5, <2>6 DEF CommandOK, Fresh, osVars
  <2>8. Written(q)' /\ Ended(q)'
    BY <1>0, <2>1 DEF CommandOK, Written, Ended, osVars
  <2> QED
    BY <2>1, <2>3, <2>4, <2>7, <2>8 DEF CommandOK, Drained, osVars
<1>26. ASSUME UNCHANGED vars PROVE CommandInv'
  <2> SUFFICES ASSUME NEW q \in Commands PROVE CommandOK(q)'
    BY DEF CommandInv
  <2>1. /\ UNCHANGED <<leader, descendant, unread, open, received, closed, cursor>>
        /\ UNCHANGED <<cutOff, postExitTimer, finishListeners, evictionTimer, nextId, managerClosed>>
    BY <1>26 DEF vars, osVars, commandVars, timerVars, managerVars
  <2>2. CommandOK(q) /\ nextId' \in Int /\ nextId' >= nextId
    BY <2>1 DEF CommandInv, ShapeInv
  <2>3. SameCommand(q)
    BY ONLY <2>1 DEF SameCommand
  <2> QED
    BY <1>0, <2>1, <2>2, <2>3, SameCommandOK
<1> QED
  BY <1>0, <1>1, <1>2, <1>3, <1>4, <1>5, <1>6, <1>7, <1>8, <1>9, <1>10, <1>11, <1>12,
     <1>13, <1>14, <1>15, <1>16, <1>17, <1>18, <1>19, <1>20, <1>21, <1>22, <1>23, <1>24,
     <1>25, <1>26 DEF Next, CallStep, Event, CommandStep

-----------------------------------------------------------------------------
(* The calls                                                               *)

\* Completing a command answers its listeners; the first that was not aborted takes the output.
LEMMA FinalizeCalls ==
  ASSUME ShapeInv, NEW p \in Commands, Finalize(p)
  PROVE  /\ \A k \in Calls : pc'[k] = IF Contains(finishListeners[p], k) THEN "done" ELSE pc[k]
         /\ \/ /\ UNCHANGED <<took, cursor>>
               /\ p \in processes' => p \in processes
            \/ \E k \in Calls :
                 /\ Contains(finishListeners[p], k) /\ ~aborted[k]
                 /\ took' = [took EXCEPT ![k] = Output(p) - cursor[p]]
                 /\ cursor' = [cursor EXCEPT ![p] = Output(p)]
                 /\ p \notin processes'
<1> DEFINE woken == finishListeners[p]
           polled == {i \in DOMAIN woken : ~aborted[woken[i]]}
<1>1. \A k \in Calls : pc'[k] = IF Contains(woken, k) THEN "done" ELSE pc[k]
  BY DEF Finalize
<1>2. CASE polled = {}
  <2>1. cursor' = cursor
    BY <1>2 DEF Finalize
  <2>2. took' = [k \in Calls |-> took[k]]
    BY <1>2 DEF Finalize
  <2>3. took' = took
    BY <2>2 DEF ShapeInv
  <2>4. processes' \subseteq processes
    BY <1>2, RetainedSubset DEF Finalize, Active
  <2> QED
    BY <1>1, <2>1, <2>3, <2>4
<1>3. CASE polled # {}
  <2> DEFINE k == woken[Min(polled)]
  <2>1. woken \in Seq(Calls)
    BY DEF ShapeInv
  <2>2. polled \in SUBSET Nat
    BY <2>1
  <2>3. Min(polled) \in polled
    BY <1>3, <2>2, LeastNatural
  <2>4. k \in Calls /\ Contains(woken, k) /\ ~aborted[k]
    <3>1. Min(polled) \in 1 .. Len(woken) /\ ~aborted[woken[Min(polled)]]
      BY <2>1, <2>3
    <3> HIDE DEF polled
    <3> QED
      BY <2>1, <3>1 DEF Contains
  <2>5. cursor' = [cursor EXCEPT ![p] = Output(p)]
    BY <1>3 DEF Finalize
  <2>6. took' = [j \in Calls |-> IF j = k THEN Output(p) - cursor[p] ELSE took[j]]
    BY <1>3 DEF Finalize
  <2>7. took' = [took EXCEPT ![k] = Output(p) - cursor[p]]
    BY <2>4, <2>6 DEF ShapeInv
  <2>8. p \notin processes'
    BY <1>3 DEF Finalize
  <2> QED
    BY <1>1, <2>4, <2>5, <2>7, <2>8
<1> QED
  BY <1>2, <1>3

\* What a step leaves alone of the other calls.
OnlyCall(k) ==
  \A j \in Calls \ {k} : pc'[j] = pc[j] /\ target'[j] = target[j] /\ took'[j] = took[j]
SameCalls == UNCHANGED <<pc, target, took>>

\* A step of one call keeps what is said of the others.
LEMMA CallFrame ==
  ASSUME ShapeInv, CallInv, nextId' \in Int, nextId' >= nextId, NEW k \in Calls, OnlyCall(k),
         CallOK(k)'
  PROVE  CallInv'
<1> SUFFICES ASSUME NEW j \in Calls PROVE CallOK(j)'
  BY DEF CallInv
<1>1. target[j] \in Int /\ nextId \in Int
  BY DEF ShapeInv, Commands
<1>2. j # k => CallOK(j)'
  BY <1>1 DEF OnlyCall, CallInv, CallOK
<1> QED
  BY <1>2

\* An answered call may have taken something.
LEMMA FinalizedCalls ==
  ASSUME ShapeInv, CallInv, NEW p \in Commands, Finalize(p), UNCHANGED <<nextId, target>>
  PROVE  CallInv'
<1> SUFFICES ASSUME NEW j \in Calls PROVE CallOK(j)'
  BY DEF CallInv
<1>1. CallOK(j)
  BY DEF CallInv
<1>2. CASE Contains(finishListeners[p], j)
  BY <1>1, <1>2, FinalizeCalls DEF CallOK
<1>3. CASE ~Contains(finishListeners[p], j)
  <2>1. pc'[j] = pc[j]
    BY <1>3, FinalizeCalls
  <2>2. \/ took' = took
        \/ \E k \in Calls : /\ Contains(finishListeners[p], k)
                           /\ took' = [took EXCEPT ![k] = Output(p) - cursor[p]]
    BY FinalizeCalls
  <2>3. DOMAIN took = Calls
    BY DEF ShapeInv
  <2>4. took'[j] = took[j]
    BY ONLY <1>3, <2>2, <2>3, j \in Calls
  <2> QED
    BY <1>1, <2>1, <2>4 DEF CallOK
<1> QED
  BY <1>2, <1>3

\* Every step keeps what is said of the calls.
LEMMA CallInvStep ==
  ASSUME ShapeInv, CommandInv, CallInv, [Next]_vars
  PROVE  CallInv'
<1>0. UNCHANGED load
  BY DEF Next, vars
<1>1. ASSUME NEW k \in Calls, ExecRefused(k) PROVE CallInv'
  <2>1. OnlyCall(k) /\ nextId' \in Int /\ nextId' >= nextId
    BY <1>1 DEF ExecRefused, Refuse, osVars, commandVars, timerVars, managerVars, OnlyCall,
       ShapeInv
  <2>2. CallOK(k)'
    BY <1>1 DEF ExecRefused, Refuse, osVars, commandVars, timerVars, managerVars, CallInv,
       CallOK, ShapeInv, Commands
  <2> QED
    BY <2>1, <2>2, CallFrame
<1>2. ASSUME NEW k \in Calls, Exec(k) PROVE CallInv'
  <2>1. OnlyCall(k) /\ nextId' \in Int /\ nextId' >= nextId
    BY <1>2 DEF Exec, AdvanceId, timerVars, OnlyCall, ShapeInv
  <2>2. CallOK(k)'
    BY <1>2 DEF Exec, AdvanceId, timerVars, CallInv, CallOK, ShapeInv, Commands
  <2> QED
    BY <2>1, <2>2, CallFrame
<1>3. ASSUME NEW k \in Calls, Abort(k) PROVE CallInv'
  <2>1. OnlyCall(k) /\ nextId' \in Int /\ nextId' >= nextId
    BY <1>3 DEF Abort, Terminate, osVars, commandVars, managerVars, OnlyCall, ShapeInv
  <2>2. CallOK(k)'
    BY <1>3 DEF Abort, Terminate, osVars, commandVars, managerVars, CallInv, CallOK, ShapeInv,
       Commands
  <2> QED
    BY <2>1, <2>2, CallFrame
<1>4. ASSUME NEW k \in Calls, NEW p \in Commands, NEW chars \in BOOLEAN, WriteRefused(k, p,
   chars)
      PROVE  CallInv'
  <2>1. OnlyCall(k) /\ nextId' \in Int /\ nextId' >= nextId
    BY <1>4 DEF WriteRefused, Refuse, osVars, commandVars, timerVars, managerVars, OnlyCall,
       ShapeInv
  <2>2. CallOK(k)'
    BY <1>4 DEF WriteRefused, Refuse, osVars, commandVars, timerVars, managerVars, CallInv,
       CallOK, ShapeInv, Commands
  <2> QED
    BY <2>1, <2>2, CallFrame
<1>5. ASSUME NEW k \in Calls, NEW p \in Commands, Poll(k, p) PROVE CallInv'
  <2>1. OnlyCall(k) /\ nextId' \in Int /\ nextId' >= nextId
    BY <1>5 DEF Poll, Wait, Result, Slice, osVars, OnlyCall, ShapeInv
  <2>2. CallOK(k)'
    BY <1>5 DEF Poll, Wait, Result, Slice, osVars, CallInv, CallOK, ShapeInv, Commands
  <2> QED
    BY <2>1, <2>2, CallFrame
<1>6. ASSUME NEW k \in Calls, NEW p \in Commands, Write(k, p) PROVE CallInv'
  <2>1. OnlyCall(k) /\ nextId' \in Int /\ nextId' >= nextId
    BY <1>6 DEF Write, Active, osVars, commandVars, timerVars, managerVars, OnlyCall, ShapeInv
  <2>2. CallOK(k)'
    BY <1>6 DEF Write, Active, osVars, commandVars, timerVars, managerVars, CallInv, CallOK,
       ShapeInv, Commands
  <2> QED
    BY <2>1, <2>2, CallFrame
<1>7. ASSUME NEW k \in Calls, NEW p \in Commands, WriteFlushed(k, p) PROVE CallInv'
  <2>1. OnlyCall(k) /\ nextId' \in Int /\ nextId' >= nextId
    BY <1>7 DEF WriteFlushed, Wait, Result, Slice, osVars, OnlyCall, ShapeInv
  <2>2. CallOK(k)'
    BY <1>7 DEF WriteFlushed, Wait, Result, Slice, osVars, CallInv, CallOK, ShapeInv, Commands
  <2> QED
    BY <2>1, <2>2, CallFrame
<1>8. ASSUME NEW k \in Calls, NEW p \in Commands, WriteRejected(k, p) PROVE CallInv'
  <2>1. OnlyCall(k) /\ nextId' \in Int /\ nextId' >= nextId
    BY <1>8 DEF WriteRejected, osVars, commandVars, timerVars, managerVars, OnlyCall, ShapeInv
  <2>2. CallOK(k)'
    BY <1>8 DEF WriteRejected, osVars, commandVars, timerVars, managerVars, CallInv, CallOK,
       ShapeInv, Commands
  <2> QED
    BY <2>1, <2>2, CallFrame
<1>9. ASSUME NEW k \in Calls, NEW p \in Commands, BrokenPipe(k, p) PROVE CallInv'
  BY <1>0, <1>9 DEF BrokenPipe, osVars, commandVars, timerVars, managerVars, callVars, CallInv,
     CallOK
<1>10. ASSUME NEW k \in Calls, NEW p \in Commands, WaitTimeout(k, p) PROVE CallInv'
  <2>1. OnlyCall(k) /\ nextId' \in Int /\ nextId' >= nextId
    BY <1>10 DEF WaitTimeout, Result, Slice, osVars, OnlyCall, ShapeInv
  <2>2. CallOK(k)'
    BY <1>10 DEF WaitTimeout, Result, Slice, osVars, CallInv, CallOK, ShapeInv, Commands
  <2> QED
    BY <2>1, <2>2, CallFrame
<1>11. ASSUME NEW p \in Commands, NEW s \in Streams, Data(p, s) PROVE CallInv'
  BY <1>0, <1>11 DEF Data, managerVars, callVars, CallInv, CallOK
<1>12. ASSUME NEW p \in Commands, NEW s \in Streams, StreamEnd(p, s) PROVE CallInv'
  <2>1. UNCHANGED <<nextId, target>>
    BY <1>12 DEF StreamEnd, FinalizeIf, managerVars, callVars
  <2>2. CASE Finalize(p)
    BY <2>1, <2>2, FinalizedCalls
  <2>3. CASE ~Finalize(p)
    <3>1. SameCalls
      BY <1>12, <2>3 DEF StreamEnd, FinalizeIf, callVars, SameCalls
    <3> QED
      BY <2>1, <3>1 DEF SameCalls, CallInv, CallOK
  <2> QED
    BY <2>2, <2>3
<1>13. ASSUME NEW p \in Commands, ExitEvent(p) PROVE CallInv'
  <2>1. UNCHANGED <<nextId, target>>
    BY <1>13 DEF ExitEvent, FinalizeIf, managerVars, callVars
  <2>2. CASE Finalize(p)
    BY <2>1, <2>2, FinalizedCalls
  <2>3. CASE ~Finalize(p)
    <3>1. SameCalls
      BY <1>13, <2>3 DEF ExitEvent, FinalizeIf, callVars, SameCalls
    <3> QED
      BY <2>1, <3>1 DEF SameCalls, CallInv, CallOK
  <2> QED
    BY <2>2, <2>3
<1>14. ASSUME NEW p \in Commands, PostExitTimeout(p) PROVE CallInv'
  <2>1. UNCHANGED <<nextId, target>>
    BY <1>14 DEF PostExitTimeout, FinalizeIf, managerVars, callVars
  <2>2. CASE Finalize(p)
    BY <2>1, <2>2, FinalizedCalls
  <2>3. CASE ~Finalize(p)
    <3>1. SameCalls
      BY <1>14, <2>3 DEF PostExitTimeout, FinalizeIf, callVars, SameCalls
    <3> QED
      BY <2>1, <3>1 DEF SameCalls, CallInv, CallOK
  <2> QED
    BY <2>2, <2>3
<1>15. ASSUME NEW p \in Commands, KillTimeout(p) PROVE CallInv'
  BY <1>0, <1>15 DEF KillTimeout, commandVars, managerVars, callVars, CallInv, CallOK
<1>16. ASSUME NEW p \in Commands, EvictionTimeout(p) PROVE CallInv'
  BY <1>0, <1>16 DEF EvictionTimeout, osVars, commandVars, callVars, CallInv, CallOK
<1>17. ASSUME NEW p \in Commands, StartError(p) PROVE CallInv'
  BY <1>0, <1>17 DEF StartError, timerVars, managerVars, callVars, CallInv, CallOK
<1>18. ASSUME NEW p \in Commands, ConfigurationFailed(p) PROVE CallInv'
  BY <1>0, <1>18 DEF ConfigurationFailed, Terminate, osVars, managerVars, callVars, CallInv,
     CallOK
<1>19. ASSUME NEW p \in Commands, CloseEvent(p) PROVE CallInv'
  <2>1. UNCHANGED <<nextId, target>>
    BY <1>19 DEF CloseEvent, FinalizeIf, managerVars, callVars
  <2>2. CASE Finalize(p)
    BY <2>1, <2>2, FinalizedCalls
  <2>3. CASE ~Finalize(p)
    <3>1. SameCalls
      BY <1>19, <2>3 DEF CloseEvent, FinalizeIf, callVars, SameCalls
    <3> QED
      BY <2>1, <3>1 DEF SameCalls, CallInv, CallOK
  <2> QED
    BY <2>2, <2>3
<1>20. ASSUME NEW p \in Commands, NEW s \in Streams, NEW w \in {"leader", "descendant"},
   Emit(p, s, w)
      PROVE  CallInv'
  BY <1>0, <1>20 DEF Emit, LoopUnchanged, commandVars, timerVars, managerVars, callVars,
     CallInv, CallOK
<1>21. ASSUME NEW p \in Commands, Fork(p) PROVE CallInv'
  BY <1>0, <1>21 DEF Fork, LoopUnchanged, commandVars, timerVars, managerVars, callVars,
     CallInv, CallOK
<1>22. ASSUME NEW p \in Commands, LeaderDies(p) PROVE CallInv'
  BY <1>0, <1>22 DEF LeaderDies, LoopUnchanged, commandVars, timerVars, managerVars, callVars,
     CallInv, CallOK
<1>23. ASSUME NEW p \in Commands, NEW state \in {"detached", "none"}, DescendantMoves(p, state)
      PROVE  CallInv'
  BY <1>0, <1>23 DEF DescendantMoves, LoopUnchanged, commandVars, timerVars, managerVars,
     callVars, CallInv, CallOK
<1>24. ASSUME NEW p \in Commands, LifetimeTimeout(p) PROVE CallInv'
  BY <1>0, <1>24 DEF LifetimeTimeout, Terminate, osVars, commandVars, managerVars, callVars,
     CallInv, CallOK
<1>25. ASSUME CloseManager PROVE CallInv'
  BY <1>0, <1>25 DEF CloseManager, osVars, callVars, CallInv, CallOK
<1>26. ASSUME UNCHANGED vars PROVE CallInv'
  BY <1>0, <1>26, SMTT(30) DEF vars, osVars, commandVars, timerVars, managerVars, callVars,
     CallInv, CallOK
<1> QED
  BY <1>0, <1>1, <1>2, <1>3, <1>4, <1>5, <1>6, <1>7, <1>8, <1>9, <1>10, <1>11, <1>12,
     <1>13, <1>14, <1>15, <1>16, <1>17, <1>18, <1>19, <1>20, <1>21, <1>22, <1>23, <1>24,
     <1>25, <1>26 DEF Next, CallStep, Event, CommandStep

-----------------------------------------------------------------------------
(* The listeners                                                           *)

\* A call that is not waiting is in no list of listeners, a waiting one only in its command's.
LEMMA ListenersWait ==
  ASSUME ShapeInv, ListenerInv, NEW q \in Commands, NEW k, pc[k] # "waiting" \/ target[k] # q
  PROVE  \A i \in 1 .. Len(finishListeners[q]) : finishListeners[q][i] # k
BY DEF ListenerInv, ListenersOK

\* The listeners of a command are undisturbed when neither they nor their list change.
LEMMA SameListenersOK ==
  ASSUME ShapeInv, ListenerInv, NEW q \in Commands, finishListeners'[q] = finishListeners[q],
         \A i \in 1 .. Len(finishListeners[q]) :
           LET k == finishListeners[q][i] IN pc'[k] = pc[k] /\ target'[k] = target[k]
  PROVE  ListenersOK(q)'
BY DEF ListenerInv, ListenersOK

\* A call in another state than waiting moves without disturbing them.
LEMMA ListenersFrame ==
  ASSUME ShapeInv, ListenerInv, NEW q \in Commands, finishListeners'[q] = finishListeners[q],
         NEW k \in Calls, OnlyCall(k), pc[k] # "waiting" \/ target[k] # q
  PROVE  ListenersOK(q)'
<1>1. ASSUME NEW i \in 1 .. Len(finishListeners[q])
      PROVE  LET j == finishListeners[q][i] IN pc'[j] = pc[j] /\ target'[j] = target[j]
  <2>1. finishListeners[q][i] \in Calls /\ finishListeners[q][i] # k
    BY ListenersWait DEF ShapeInv
  <2> QED
    BY <2>1 DEF OnlyCall
<1> QED
  BY <1>1, SameListenersOK

\* A call starts to wait.
LEMMA ListenersAppend ==
  ASSUME ShapeInv, ListenerInv, NEW q \in Commands, NEW k \in Calls, OnlyCall(k),
         pc[k] # "waiting",
         finishListeners'[q] = Append(finishListeners[q], k), pc'[k] = "waiting", target'[k] = q
  PROVE  ListenersOK(q)'
<1> DEFINE old == finishListeners[q]
           new == finishListeners'[q]
<1>1. old \in Seq(Calls) /\ Len(new) = Len(old) + 1 /\ new[Len(old) + 1] = k
      /\ \A i \in 1 .. Len(old) : new[i] = old[i]
  BY DEF ShapeInv
<1>2. \A i \in 1 .. Len(old) :
        /\ old[i] \in Calls \ {k} /\ pc[old[i]] = "waiting" /\ target[old[i]] = q
        /\ \A j \in 1 .. Len(old) : old[i] = old[j] => i = j
  BY <1>1, ListenersWait DEF ListenerInv, ListenersOK
<1>3. \A i \in 1 .. Len(old) : pc'[old[i]] = "waiting" /\ target'[old[i]] = q
  BY <1>2 DEF OnlyCall
<1> HIDE DEF old, new
<1>4. ASSUME NEW i \in 1 .. Len(new)
      PROVE  /\ pc'[new[i]] = "waiting" /\ target'[new[i]] = q
             /\ \A j \in 1 .. Len(new) : new[i] = new[j] => i = j
  <2>1. CASE i = Len(old) + 1
    BY <1>1, <1>2, <2>1
  <2>2. CASE i # Len(old) + 1
    <3>1. i \in 1 .. Len(old)
      BY <1>1, <2>2
    <3>2. pc'[new[i]] = "waiting" /\ target'[new[i]] = q
      BY <1>1, <1>3, <3>1
    <3>3. ASSUME NEW j \in 1 .. Len(new), new[i] = new[j] PROVE i = j
      <4>1. j # Len(old) + 1
        BY <1>1, <1>2, <3>1, <3>3
      <4>2. j \in 1 .. Len(old)
        BY <1>1, <4>1
      <4> QED
        BY <1>1, <1>2, <3>1, <3>3, <4>2
    <3> QED
      BY <3>2, <3>3
  <2> QED
    BY <2>1, <2>2
<1> QED
  BY <1>4 DEF ListenersOK, new

\* A call stops waiting.
LEMMA ListenersRemove ==
  ASSUME ShapeInv, ListenerInv, NEW q \in Commands, NEW k \in Calls, OnlyCall(k),
         finishListeners'[q] = RemoveFirst(finishListeners[q], k)
  PROVE  ListenersOK(q)'
<1> DEFINE old == finishListeners[q]
           new == finishListeners'[q]
<1>1. old \in Seq(Calls)
  BY DEF ShapeInv
<1>2. \A i \in 1 .. Len(old) :
        /\ old[i] \in Calls /\ pc[old[i]] = "waiting" /\ target[old[i]] = q
        /\ \A j \in 1 .. Len(old) : old[i] = old[j] => i = j
  BY <1>1 DEF ListenerInv, ListenersOK
<1>3. /\ new \in Seq(Calls)
      /\ \/ new = old /\ \A i \in 1 .. Len(old) : old[i] # k
         \/ \E m \in 1 .. Len(old) :
              /\ old[m] = k /\ Len(new) = Len(old) - 1
              /\ \A i \in 1 .. Len(old) - 1 : new[i] = IF i < m THEN old[i] ELSE old[i + 1]
  <2> DEFINE rest == RemoveFirst(old, k)
  <2>1. /\ rest \in Seq(Calls)
        /\ \/ rest = old /\ \A i \in 1 .. Len(old) : old[i] # k
           \/ \E m \in 1 .. Len(old) :
                /\ old[m] = k /\ Len(rest) = Len(old) - 1
                /\ \A i \in 1 .. Len(old) - 1 : rest[i] = IF i < m THEN old[i] ELSE old[i + 1]
    <3> HIDE DEF old
    <3> QED
      BY <1>1, RemoveFirstFacts
  <2>2. new = rest
    OBVIOUS
  <2> QED
    BY <2>1, <2>2
<1>4. ASSUME NEW j \in Calls \ {k}, pc[j] = "waiting", target[j] = q
      PROVE  pc'[j] = "waiting" /\ target'[j] = q
  BY <1>4 DEF OnlyCall
<1> HIDE DEF old, new
<1>5. CASE new = old /\ \A i \in 1 .. Len(old) : old[i] # k
  <2>1. \A i \in 1 .. Len(new) :
          /\ pc'[new[i]] = "waiting" /\ target'[new[i]] = q
          /\ \A j \in 1 .. Len(new) : new[i] = new[j] => i = j
    BY <1>2, <1>4, <1>5
  <2> QED
    BY <2>1 DEF ListenersOK, new
<1>6. CASE ~(new = old /\ \A i \in 1 .. Len(old) : old[i] # k)
  <2>1. PICK m \in 1 .. Len(old) :
              /\ old[m] = k /\ Len(new) = Len(old) - 1
              /\ \A i \in 1 .. Len(old) - 1 : new[i] = IF i < m THEN old[i] ELSE old[i + 1]
    BY <1>3, <1>6
  <2> DEFINE from(i) == IF i < m THEN i ELSE i + 1
  <2>2. \A i \in 1 .. Len(new) : from(i) \in 1 .. Len(old) /\ from(i) # m /\ new[i] = old[from(i)]
    BY <1>1, <2>1
  <2>3. \A i, j \in 1 .. Len(new) : from(i) = from(j) => i = j
    BY <1>1, <2>1
  <2> HIDE DEF from
  <2>4. ASSUME NEW i \in 1 .. Len(new)
        PROVE  /\ pc'[new[i]] = "waiting" /\ target'[new[i]] = q
               /\ \A j \in 1 .. Len(new) : new[i] = new[j] => i = j
    <3>1. old[from(i)] # k
      BY <1>2, <2>1, <2>2
    <3>2. pc'[new[i]] = "waiting" /\ target'[new[i]] = q
      BY <1>2, <1>4, <2>2, <3>1
    <3>3. ASSUME NEW j \in 1 .. Len(new), new[i] = new[j] PROVE i = j
      <4>1. old[from(i)] = old[from(j)]
        BY <2>2, <3>3
      <4>2. from(i) = from(j)
        BY <1>2, <2>2, <4>1
      <4> QED
        BY <2>3, <4>2
    <3> QED
      BY <3>2, <3>3
  <2> QED
    BY <2>4 DEF ListenersOK, new
<1> QED
  BY <1>5, <1>6

\* A completed command has no listeners left, and it answers no other command's.
LEMMA FinalizedListeners ==
  ASSUME ShapeInv, ListenerInv, NEW p \in Commands, Finalize(p), UNCHANGED target
  PROVE  ListenerInv'
<1> SUFFICES ASSUME NEW q \in Commands PROVE ListenersOK(q)'
  BY DEF ListenerInv
<1>1. CASE q = p
  <2>1. finishListeners'[q] = <<>>
    BY <1>1 DEF Finalize, ShapeInv
  <2> QED
    BY <2>1 DEF ListenersOK
<1>2. CASE q # p
  <2>1. finishListeners'[q] = finishListeners[q]
    BY <1>2, FinalizeOthers
  <2>2. ASSUME NEW i \in 1 .. Len(finishListeners[q])
        PROVE  LET j == finishListeners[q][i] IN pc'[j] = pc[j] /\ target'[j] = target[j]
    <3>1. finishListeners[q][i] \in Calls /\ target[finishListeners[q][i]] = q
      BY DEF ShapeInv, ListenerInv, ListenersOK
    <3>2. ~Contains(finishListeners[p], finishListeners[q][i])
      BY <1>2, <3>1, ListenersWait DEF Contains
    <3> QED
      BY <3>1, <3>2, FinalizeCalls
  <2> QED
    BY <2>1, <2>2, SameListenersOK
<1> QED
  BY <1>1, <1>2

\* Every step keeps each waiting call at most once among the listeners of its command.
LEMMA ListenerInvStep ==
  ASSUME ShapeInv, CommandInv, ListenerInv, CallInv, [Next]_vars
  PROVE  ListenerInv'
<1>0. UNCHANGED load
  BY DEF Next, vars
<1>1. ASSUME NEW k \in Calls, ExecRefused(k) PROVE ListenerInv'
  <2> SUFFICES ASSUME NEW q \in Commands PROVE ListenersOK(q)'
    BY DEF ListenerInv
  <2>1. OnlyCall(k) /\ pc[k] # "waiting" /\ UNCHANGED finishListeners
    BY <1>1 DEF ExecRefused, Refuse, osVars, commandVars, timerVars, managerVars, OnlyCall,
       ShapeInv
  <2> QED
    BY <2>1, ListenersFrame
<1>2. ASSUME NEW k \in Calls, Exec(k) PROVE ListenerInv'
  <2> SUFFICES ASSUME NEW q \in Commands PROVE ListenersOK(q)'
    BY DEF ListenerInv
  <2>1. OnlyCall(k) /\ pc[k] # "waiting" /\ pc'[k] = "waiting" /\ target'[k] = nextId
    BY <1>2 DEF Exec, OnlyCall, ShapeInv
  <2>2. CASE q = nextId
    <3>1. finishListeners'[q] = <<k>>
      BY <1>2, <2>2 DEF Exec, ShapeInv
    <3> QED
      BY <2>1, <2>2, <3>1 DEF ListenersOK
  <2>3. CASE q # nextId
    <3>1. finishListeners'[q] = finishListeners[q]
      BY <1>2, <2>3 DEF Exec, ShapeInv
    <3> QED
      BY <2>1, <3>1, ListenersFrame
  <2> QED
    BY <2>2, <2>3
<1>3. ASSUME NEW k \in Calls, Abort(k) PROVE ListenerInv'
  BY <1>0, <1>3 DEF Abort, Terminate, osVars, commandVars, managerVars, ListenerInv, ListenersOK
<1>4. ASSUME NEW k \in Calls, NEW p \in Commands, NEW chars \in BOOLEAN, WriteRefused(k, p,
   chars)
      PROVE  ListenerInv'
  <2> SUFFICES ASSUME NEW q \in Commands PROVE ListenersOK(q)'
    BY DEF ListenerInv
  <2>1. OnlyCall(k) /\ pc[k] # "waiting" /\ UNCHANGED finishListeners
    BY <1>4 DEF WriteRefused, Refuse, osVars, commandVars, timerVars, managerVars, OnlyCall,
       ShapeInv
  <2> QED
    BY <2>1, ListenersFrame
<1>5. ASSUME NEW k \in Calls, NEW p \in Commands, Poll(k, p) PROVE ListenerInv'
  <2> SUFFICES ASSUME NEW q \in Commands PROVE ListenersOK(q)'
    BY DEF ListenerInv
  <2>1. pc[k] # "waiting" /\ target'[k] = p /\ \A j \in Calls \ {k} : target'[j] = target[j]
    BY <1>5 DEF Poll, ShapeInv
  <2>2. CASE closed[p]
    <3>1. Result(k, p) /\ UNCHANGED finishListeners
      BY <1>5, <2>2 DEF Poll, Wait
    <3>2. OnlyCall(k)
      BY <2>1, <3>1 DEF Result, Slice, OnlyCall, ShapeInv
    <3> QED
      BY <2>1, <3>1, <3>2, ListenersFrame
  <2>3. CASE ~closed[p]
    <3>1. /\ pc' = [pc EXCEPT ![k] = "waiting"]
          /\ finishListeners' = [finishListeners EXCEPT ![p] = Append(@, k)]
          /\ UNCHANGED took
      BY <1>5, <2>3 DEF Poll, Wait
    <3>2. OnlyCall(k) /\ pc'[k] = "waiting"
      BY <2>1, <3>1 DEF OnlyCall, ShapeInv
    <3>3. q # p => finishListeners'[q] = finishListeners[q]
      BY <3>1 DEF ShapeInv
    <3>4. finishListeners'[p] = Append(finishListeners[p], k)
      BY <3>1 DEF ShapeInv
    <3>5. CASE q = p
      BY <2>1, <3>2, <3>4, <3>5, ListenersAppend
    <3>6. CASE q # p
      BY <2>1, <3>2, <3>3, <3>6, ListenersFrame
    <3> QED
      BY <3>5, <3>6
  <2> QED
    BY <2>2, <2>3 DEF ShapeInv
<1>6. ASSUME NEW k \in Calls, NEW p \in Commands, Write(k, p) PROVE ListenerInv'
  <2> SUFFICES ASSUME NEW q \in Commands PROVE ListenersOK(q)'
    BY DEF ListenerInv
  <2>1. OnlyCall(k) /\ pc[k] # "waiting" /\ UNCHANGED finishListeners
    BY <1>6 DEF Write, osVars, commandVars, timerVars, managerVars, OnlyCall, ShapeInv
  <2> QED
    BY <2>1, ListenersFrame
<1>7. ASSUME NEW k \in Calls, NEW p \in Commands, WriteFlushed(k, p) PROVE ListenerInv'
  <2> SUFFICES ASSUME NEW q \in Commands PROVE ListenersOK(q)'
    BY DEF ListenerInv
  <2>1. pc[k] # "waiting" /\ target'[k] = p /\ \A j \in Calls \ {k} : target'[j] = target[j]
    BY <1>7 DEF WriteFlushed, ShapeInv
  <2>2. CASE closed[p]
    <3>1. Result(k, p) /\ UNCHANGED finishListeners
      BY <1>7, <2>2 DEF WriteFlushed, Wait
    <3>2. OnlyCall(k)
      BY <2>1, <3>1 DEF Result, Slice, OnlyCall, ShapeInv
    <3> QED
      BY <2>1, <3>1, <3>2, ListenersFrame
  <2>3. CASE ~closed[p]
    <3>1. /\ pc' = [pc EXCEPT ![k] = "waiting"]
          /\ finishListeners' = [finishListeners EXCEPT ![p] = Append(@, k)]
          /\ UNCHANGED took
      BY <1>7, <2>3 DEF WriteFlushed, Wait
    <3>2. OnlyCall(k) /\ pc'[k] = "waiting"
      BY <2>1, <3>1 DEF OnlyCall, ShapeInv
    <3>3. q # p => finishListeners'[q] = finishListeners[q]
      BY <3>1 DEF ShapeInv
    <3>4. finishListeners'[p] = Append(finishListeners[p], k)
      BY <3>1 DEF ShapeInv
    <3>5. CASE q = p
      BY <2>1, <3>2, <3>4, <3>5, ListenersAppend
    <3>6. CASE q # p
      BY <2>1, <3>2, <3>3, <3>6, ListenersFrame
    <3> QED
      BY <3>5, <3>6
  <2> QED
    BY <2>2, <2>3 DEF ShapeInv
<1>8. ASSUME NEW k \in Calls, NEW p \in Commands, WriteRejected(k, p) PROVE ListenerInv'
  <2> SUFFICES ASSUME NEW q \in Commands PROVE ListenersOK(q)'
    BY DEF ListenerInv
  <2>1. OnlyCall(k) /\ pc[k] # "waiting" /\ UNCHANGED finishListeners
    BY <1>8 DEF WriteRejected, osVars, commandVars, timerVars, managerVars, OnlyCall, ShapeInv
  <2> QED
    BY <2>1, ListenersFrame
<1>9. ASSUME NEW k \in Calls, NEW p \in Commands, BrokenPipe(k, p) PROVE ListenerInv'
  BY <1>0, <1>9 DEF BrokenPipe, osVars, commandVars, timerVars, managerVars, callVars,
     ListenerInv, ListenersOK
<1>10. ASSUME NEW k \in Calls, NEW p \in Commands, WaitTimeout(k, p) PROVE ListenerInv'
  <2> SUFFICES ASSUME NEW q \in Commands PROVE ListenersOK(q)'
    BY DEF ListenerInv
  <2>1. OnlyCall(k) /\ target[k] = p
    BY <1>10 DEF WaitTimeout, Result, Slice, OnlyCall, ShapeInv
  <2>2. CASE q = p
    <3>1. finishListeners'[q] = RemoveFirst(finishListeners[q], k)
      BY <1>10, <2>2 DEF WaitTimeout, ShapeInv
    <3> QED
      BY <2>1, <3>1, ListenersRemove
  <2>3. CASE q # p
    <3>1. finishListeners'[q] = finishListeners[q]
      BY <1>10, <2>3 DEF WaitTimeout, ShapeInv
    <3> QED
      BY <2>1, <2>3, <3>1, ListenersFrame
  <2> QED
    BY <2>2, <2>3
<1>11. ASSUME NEW p \in Commands, NEW s \in Streams, Data(p, s) PROVE ListenerInv'
  BY <1>0, <1>11 DEF Data, managerVars, callVars, ListenerInv, ListenersOK
<1>12. ASSUME NEW p \in Commands, NEW s \in Streams, StreamEnd(p, s) PROVE ListenerInv'
  <2>1. UNCHANGED target
    BY <1>12 DEF StreamEnd, FinalizeIf, managerVars, callVars
  <2>2. CASE Finalize(p)
    BY <2>1, <2>2, FinalizedListeners
  <2>3. CASE ~Finalize(p)
    <3>1. UNCHANGED <<pc, target, finishListeners>>
      BY <1>12, <2>3 DEF StreamEnd, FinalizeIf, callVars
    <3> QED
      BY <3>1 DEF ListenerInv, ListenersOK
  <2> QED
    BY <2>2, <2>3
<1>13. ASSUME NEW p \in Commands, ExitEvent(p) PROVE ListenerInv'
  <2>1. UNCHANGED target
    BY <1>13 DEF ExitEvent, FinalizeIf, managerVars, callVars
  <2>2. CASE Finalize(p)
    BY <2>1, <2>2, FinalizedListeners
  <2>3. CASE ~Finalize(p)
    <3>1. UNCHANGED <<pc, target, finishListeners>>
      BY <1>13, <2>3 DEF ExitEvent, FinalizeIf, callVars
    <3> QED
      BY <3>1 DEF ListenerInv, ListenersOK
  <2> QED
    BY <2>2, <2>3
<1>14. ASSUME NEW p \in Commands, PostExitTimeout(p) PROVE ListenerInv'
  <2>1. UNCHANGED target
    BY <1>14 DEF PostExitTimeout, FinalizeIf, managerVars, callVars
  <2>2. CASE Finalize(p)
    BY <2>1, <2>2, FinalizedListeners
  <2>3. CASE ~Finalize(p)
    <3>1. UNCHANGED <<pc, target, finishListeners>>
      BY <1>14, <2>3 DEF PostExitTimeout, FinalizeIf, callVars
    <3> QED
      BY <3>1 DEF ListenerInv, ListenersOK
  <2> QED
    BY <2>2, <2>3
<1>15. ASSUME NEW p \in Commands, KillTimeout(p) PROVE ListenerInv'
  BY <1>0, <1>15 DEF KillTimeout, commandVars, managerVars, callVars, ListenerInv, ListenersOK
<1>16. ASSUME NEW p \in Commands, EvictionTimeout(p) PROVE ListenerInv'
  BY <1>0, <1>16 DEF EvictionTimeout, osVars, commandVars, callVars, ListenerInv, ListenersOK
<1>17. ASSUME NEW p \in Commands, StartError(p) PROVE ListenerInv'
  BY <1>0, <1>17 DEF StartError, timerVars, managerVars, callVars, ListenerInv, ListenersOK
<1>18. ASSUME NEW p \in Commands, ConfigurationFailed(p) PROVE ListenerInv'
  BY <1>0, <1>18 DEF ConfigurationFailed, Terminate, osVars, managerVars, callVars,
     ListenerInv, ListenersOK
<1>19. ASSUME NEW p \in Commands, CloseEvent(p) PROVE ListenerInv'
  <2>1. UNCHANGED target
    BY <1>19 DEF CloseEvent, FinalizeIf, managerVars, callVars
  <2>2. CASE Finalize(p)
    BY <2>1, <2>2, FinalizedListeners
  <2>3. CASE ~Finalize(p)
    <3>1. UNCHANGED <<pc, target, finishListeners>>
      BY <1>19, <2>3 DEF CloseEvent, FinalizeIf, callVars
    <3> QED
      BY <3>1 DEF ListenerInv, ListenersOK
  <2> QED
    BY <2>2, <2>3
<1>20. ASSUME NEW p \in Commands, NEW s \in Streams, NEW w \in {"leader", "descendant"},
   Emit(p, s, w)
      PROVE  ListenerInv'
  BY <1>0, <1>20 DEF Emit, LoopUnchanged, commandVars, timerVars, managerVars, callVars,
     ListenerInv, ListenersOK
<1>21. ASSUME NEW p \in Commands, Fork(p) PROVE ListenerInv'
  BY <1>0, <1>21 DEF Fork, LoopUnchanged, commandVars, timerVars, managerVars, callVars,
     ListenerInv, ListenersOK
<1>22. ASSUME NEW p \in Commands, LeaderDies(p) PROVE ListenerInv'
  BY <1>0, <1>22 DEF LeaderDies, LoopUnchanged, commandVars, timerVars, managerVars, callVars,
     ListenerInv, ListenersOK
<1>23. ASSUME NEW p \in Commands, NEW state \in {"detached", "none"}, DescendantMoves(p, state)
      PROVE  ListenerInv'
  BY <1>0, <1>23 DEF DescendantMoves, LoopUnchanged, commandVars, timerVars, managerVars,
     callVars, ListenerInv, ListenersOK
<1>24. ASSUME NEW p \in Commands, LifetimeTimeout(p) PROVE ListenerInv'
  BY <1>0, <1>24 DEF LifetimeTimeout, Terminate, osVars, commandVars, managerVars, callVars,
     ListenerInv, ListenersOK
<1>25. ASSUME CloseManager PROVE ListenerInv'
  <2> SUFFICES ASSUME NEW q \in Commands PROVE ListenersOK(q)'
    BY DEF ListenerInv
  <2>1. finishListeners'[q] = <<>> \/ finishListeners'[q] = finishListeners[q]
    BY <1>25 DEF CloseManager
  <2>2. UNCHANGED <<pc, target>>
    BY <1>25 DEF CloseManager, callVars
  <2>3. CASE finishListeners'[q] = <<>>
    BY <2>3 DEF ListenersOK
  <2>4. CASE finishListeners'[q] = finishListeners[q]
    BY <2>2, <2>4, SameListenersOK
  <2> QED
    BY <2>1, <2>3, <2>4
<1>26. ASSUME UNCHANGED vars PROVE ListenerInv'
  BY <1>0, <1>26, SMTT(30) DEF vars, osVars, commandVars, timerVars, managerVars, callVars,
     ListenerInv, ListenersOK
<1> QED
  BY <1>0, <1>1, <1>2, <1>3, <1>4, <1>5, <1>6, <1>7, <1>8, <1>9, <1>10, <1>11, <1>12,
     <1>13, <1>14, <1>15, <1>16, <1>17, <1>18, <1>19, <1>20, <1>21, <1>22, <1>23, <1>24,
     <1>25, <1>26 DEF Next, CallStep, Event, CommandStep

-----------------------------------------------------------------------------
(* The output and its cursor                                               *)

\* Only one call takes something, and it had taken nothing before.
LEMMA TakenChange ==
  ASSUME NEW t \in [Calls -> Nat], NEW u \in [Calls -> Nat], NEW g, NEW h, NEW q,
         NEW k \in Calls,
         \A j \in Calls \ {k} : u[j] = t[j] /\ h[j] = g[j],
         g[k] = q => t[k] = 0
  PROVE  SumOf(u, TakersOf(h, q)) = SumOf(t, TakersOf(g, q)) + (IF h[k] = q THEN u[k] ELSE 0)
<1> DEFINE rest == {j \in Calls \ {k} : g[j] = q}
           before == {j \in Calls : g[j] = q}
           after == {j \in Calls : h[j] = q}
<1>1. IsFiniteSet(rest) /\ k \notin rest /\ rest \subseteq Calls
  BY FS_Subset, ManagerAssumption DEF ManagerAssumption
<1>2. before = IF g[k] = q THEN rest \cup {k} ELSE rest
  OBVIOUS
<1>3. after = IF h[k] = q THEN rest \cup {k} ELSE rest
  OBVIOUS
<1> HIDE DEF rest, before, after
<1>4. SumOf(u, rest) = SumOf(t, rest)
  BY <1>1, SumCongruence DEF rest
<1>5. SumOf(t, rest) \in Nat
  BY <1>1, SumType
<1>6. SumOf(t, rest \cup {k}) = t[k] + SumOf(t, rest)
  BY <1>1, SumAdd
<1>7. SumOf(u, rest \cup {k}) = u[k] + SumOf(u, rest)
  BY <1>1, SumAdd
<1>8. SumOf(t, before) = SumOf(t, rest)
  BY <1>2, <1>5, <1>6
<1>9. SumOf(u, after) = SumOf(t, rest) + (IF h[k] = q THEN u[k] ELSE 0)
  BY <1>1, <1>3, <1>4, <1>5, <1>7
<1> QED
  BY <1>8, <1>9 DEF before, after, TakersOf

\* The retained output never shrinks.
LEMMA OutputGrows ==
  ASSUME NEW q \in Commands, received[q] \in Nat, received'[q] \in Nat,
         received'[q] >= received[q]
  PROVE  Output(q)' >= Output(q) /\ Output(q) \in Nat /\ Output(q)' \in Nat
BY ManagerAssumption DEF Output, ManagerAssumption

\* A step at which no call takes anything.
LEMMA NothingTaken ==
  ASSUME ShapeInv, ShapeInv', CursorInv, UNCHANGED <<took, target, cursor>>,
         \A q \in Commands : received'[q] >= received[q]
  PROVE  CursorInv'
<1> SUFFICES ASSUME NEW q \in Commands
             PROVE  cursor'[q] <= Output(q)' /\ cursor'[q] = SumOf(took', Takers(q)')
  BY DEF CursorInv
<1>1. SumOf(took', Takers(q)') = SumOf(took, Takers(q))
  BY DEF Takers, TakersOf
<1>2. cursor[q] <= Output(q) /\ cursor[q] = SumOf(took, Takers(q)) /\ cursor[q] \in Nat
  BY DEF CursorInv, ShapeInv
<1>3. Output(q)' >= Output(q) /\ Output(q) \in Nat /\ Output(q)' \in Nat
  BY OutputGrows DEF ShapeInv
<1> QED
  BY <1>1, <1>2, <1>3

\* A step at which one call takes what its command has retained since the last one, or nothing.
LEMMA OneTakes ==
  ASSUME ShapeInv, ShapeInv', CursorInv, NEW k \in Calls, NEW p \in Commands,
         took[k] = 0, target[k] \in {0, p}, target'[k] = p,
         \A j \in Calls \ {k} : took'[j] = took[j] /\ target'[j] = target[j],
         received' = received,
         \/ took'[k] = 0 /\ cursor' = cursor
         \/ took'[k] = Output(p) - cursor[p] /\ cursor' = [cursor EXCEPT ![p] = Output(p)]
  PROVE  CursorInv'
<1> SUFFICES ASSUME NEW q \in Commands
             PROVE  cursor'[q] <= Output(q)' /\ cursor'[q] = SumOf(took', Takers(q)')
  BY DEF CursorInv
<1>1. took \in [Calls -> Nat] /\ took' \in [Calls -> Nat]
  BY DEF ShapeInv
<1>2. SumOf(took', Takers(q)') = SumOf(took, Takers(q)) + (IF p = q THEN took'[k] ELSE 0)
  <2>1. \A j \in Calls \ {k} : took'[j] = took[j] /\ target'[j] = target[j]
    OBVIOUS
  <2>2. target[k] = q => took[k] = 0
    OBVIOUS
  <2>3. SumOf(took', TakersOf(target', q))
          = SumOf(took, TakersOf(target, q)) + (IF target'[k] = q THEN took'[k] ELSE 0)
    BY <1>1, <2>1, <2>2, TakenChange
  <2> QED
    BY <2>3 DEF Takers
<1>3. cursor[q] <= Output(q) /\ cursor[q] = SumOf(took, Takers(q)) /\ cursor[q] \in Nat
  BY DEF CursorInv, ShapeInv
<1>4. Output(q)' = Output(q) /\ Output(q) \in Nat
  BY OutputType DEF Output, ShapeInv
<1>5. CASE q # p
  <2>1. cursor'[q] = cursor[q]
    BY <1>5 DEF ShapeInv
  <2> QED
    BY <1>2, <1>3, <1>4, <1>5, <2>1
<1>6. CASE q = p
  <2>1. CASE took'[k] = 0 /\ cursor' = cursor
    BY <1>2, <1>3, <1>4, <1>6, <2>1
  <2>2. CASE took'[k] = Output(p) - cursor[p] /\ cursor' = [cursor EXCEPT ![p] = Output(p)]
    <3>1. cursor'[p] = Output(p)
      BY <2>2 DEF ShapeInv
    <3> QED
      BY <1>2, <1>3, <1>4, <1>6, <2>2, <3>1
  <2> QED
    BY <2>1, <2>2
<1> QED
  BY <1>5, <1>6

\* A call's slice of the output is such a step, unless the call was aborted.
LEMMA SliceTakes ==
  ASSUME ShapeInv, NEW k \in Calls, NEW p \in Commands, Slice(k, p)
  PROVE  /\ \A j \in Calls \ {k} : took'[j] = took[j]
         /\ \/ took'[k] = 0 /\ cursor' = cursor
            \/ took'[k] = Output(p) - cursor[p] /\ cursor' = [cursor EXCEPT ![p] = Output(p)]
BY DEF Slice, ShapeInv

\* Completing a command gives its output to at most one of its listeners.
LEMMA FinalizeTakes ==
  ASSUME ShapeInv, ShapeInv', CursorInv, ListenerInv, CallInv, NEW p \in Commands, Finalize(p),
         UNCHANGED <<target, received>>
  PROVE  CursorInv'
<1>1. CASE UNCHANGED <<took, cursor>>
  <2>1. \A q \in Commands : received'[q] >= received[q]
    BY DEF ShapeInv
  <2> QED
    BY <1>1, <2>1, NothingTaken
<1>2. CASE ~UNCHANGED <<took, cursor>>
  <2>1. PICK k \in Calls :
          /\ Contains(finishListeners[p], k) /\ ~aborted[k]
          /\ took' = [took EXCEPT ![k] = Output(p) - cursor[p]]
          /\ cursor' = [cursor EXCEPT ![p] = Output(p)]
    BY <1>2, FinalizeCalls
  <2>2. pc[k] = "waiting" /\ target[k] = p
    BY <2>1 DEF Contains, ListenerInv, ListenersOK
  <2>3. took[k] = 0
    BY <2>2 DEF CallInv, CallOK
  <2>4. took'[k] = Output(p) - cursor[p] /\ \A j \in Calls \ {k} : took'[j] = took[j]
    BY <2>1 DEF ShapeInv
  <2> QED
    BY <2>1, <2>2, <2>3, <2>4, OneTakes
<1> QED
  BY <1>1, <1>2

\* Every step keeps the cursor equal to what the calls have taken.
LEMMA CursorInvStep ==
  ASSUME ShapeInv, ShapeInv', CommandInv, ListenerInv, CallInv, CursorInv, [Next]_vars
  PROVE  CursorInv'
<1>0. UNCHANGED load
  BY DEF Next, vars
<1>1. ASSUME NEW k \in Calls, ExecRefused(k) PROVE CursorInv'
  <2>1. UNCHANGED <<took, target, cursor>> /\ \A q \in Commands : received'[q] >= received[q]
    BY <1>1 DEF ExecRefused, Refuse, osVars, commandVars, timerVars, managerVars, ShapeInv
  <2> QED
    BY <2>1, NothingTaken
<1>2. ASSUME NEW k \in Calls, Exec(k) PROVE CursorInv'
  <2>1. nextId \in Commands
    BY <1>2, ManagerAssumption DEF Exec, ManagerAssumption, Commands, ShapeInv
  <2>2. took[k] = 0 /\ target[k] = 0 /\ UNCHANGED <<took, cursor, received>>
    BY <1>2 DEF Exec, CallInv, CallOK
  <2>3. target'[k] = nextId /\ \A j \in Calls \ {k} : target'[j] = target[j]
    BY <1>2 DEF Exec, ShapeInv
  <2> QED
    BY <2>1, <2>2, <2>3, OneTakes
<1>3. ASSUME NEW k \in Calls, Abort(k) PROVE CursorInv'
  <2>1. UNCHANGED <<took, target, cursor>> /\ \A q \in Commands : received'[q] >= received[q]
    BY <1>3 DEF Abort, Terminate, osVars, commandVars, managerVars, ShapeInv
  <2> QED
    BY <2>1, NothingTaken
<1>4. ASSUME NEW k \in Calls, NEW p \in Commands, NEW chars \in BOOLEAN, WriteRefused(k, p,
   chars)
      PROVE  CursorInv'
  <2>1. UNCHANGED <<took, target, cursor>> /\ \A q \in Commands : received'[q] >= received[q]
    BY <1>4 DEF WriteRefused, Refuse, osVars, commandVars, timerVars, managerVars, ShapeInv
  <2> QED
    BY <2>1, NothingTaken
<1>5. ASSUME NEW k \in Calls, NEW p \in Commands, Poll(k, p) PROVE CursorInv'
  <2>1. /\ took[k] = 0 /\ target[k] \in {0, p} /\ UNCHANGED received /\ target'[k] = p
        /\ \A j \in Calls \ {k} : target'[j] = target[j]
    BY <1>5 DEF Poll, CallInv, CallOK, ShapeInv
  <2>2. CASE Slice(k, p)
    BY <2>1, <2>2, SliceTakes, OneTakes
  <2>3. CASE UNCHANGED <<took, cursor>>
    BY <2>1, <2>3, OneTakes
  <2> QED
    BY <1>5, <2>2, <2>3 DEF Poll, Wait, Result
<1>6. ASSUME NEW k \in Calls, NEW p \in Commands, Write(k, p) PROVE CursorInv'
  <2>1. took[k] = 0 /\ target[k] = 0 /\ UNCHANGED <<took, cursor, received>>
    BY <1>6 DEF Write, CallInv, CallOK, commandVars
  <2>2. target'[k] = p /\ \A j \in Calls \ {k} : target'[j] = target[j]
    BY <1>6 DEF Write, ShapeInv
  <2> QED
    BY <2>1, <2>2, OneTakes
<1>7. ASSUME NEW k \in Calls, NEW p \in Commands, WriteFlushed(k, p) PROVE CursorInv'
  <2>1. /\ took[k] = 0 /\ target[k] \in {0, p} /\ UNCHANGED received /\ target'[k] = p
        /\ \A j \in Calls \ {k} : target'[j] = target[j]
    BY <1>7 DEF WriteFlushed, CallInv, CallOK, ShapeInv
  <2>2. CASE Slice(k, p)
    BY <2>1, <2>2, SliceTakes, OneTakes
  <2>3. CASE UNCHANGED <<took, cursor>>
    BY <2>1, <2>3, OneTakes
  <2> QED
    BY <1>7, <2>2, <2>3 DEF WriteFlushed, Wait, Result
<1>8. ASSUME NEW k \in Calls, NEW p \in Commands, WriteRejected(k, p) PROVE CursorInv'
  <2>1. UNCHANGED <<took, target, cursor>> /\ \A q \in Commands : received'[q] >= received[q]
    BY <1>8 DEF WriteRejected, osVars, commandVars, timerVars, managerVars, ShapeInv
  <2> QED
    BY <2>1, NothingTaken
<1>9. ASSUME NEW k \in Calls, NEW p \in Commands, BrokenPipe(k, p) PROVE CursorInv'
  <2>1. UNCHANGED <<took, target, cursor>> /\ \A q \in Commands : received'[q] >= received[q]
    BY <1>9 DEF BrokenPipe, osVars, commandVars, timerVars, managerVars, callVars, ShapeInv
  <2> QED
    BY <2>1, NothingTaken
<1>10. ASSUME NEW k \in Calls, NEW p \in Commands, WaitTimeout(k, p) PROVE CursorInv'
  <2>1. /\ took[k] = 0 /\ target[k] \in {0, p} /\ UNCHANGED received /\ target'[k] = p
        /\ \A j \in Calls \ {k} : target'[j] = target[j]
    BY <1>10 DEF WaitTimeout, CallInv, CallOK, ShapeInv
  <2>2. CASE Slice(k, p)
    BY <2>1, <2>2, SliceTakes, OneTakes
  <2>3. CASE UNCHANGED <<took, cursor>>
    BY <2>1, <2>3, OneTakes
  <2> QED
    BY <1>10, <2>2, <2>3 DEF WaitTimeout, Wait, Result
<1>11. ASSUME NEW p \in Commands, NEW s \in Streams, Data(p, s) PROVE CursorInv'
  <2>1. UNCHANGED <<took, target, cursor>> /\ \A q \in Commands : received'[q] >= received[q]
    BY <1>11 DEF Data, managerVars, callVars, ShapeInv
  <2> QED
    BY <2>1, NothingTaken
<1>12. ASSUME NEW p \in Commands, NEW s \in Streams, StreamEnd(p, s) PROVE CursorInv'
  <2>1. UNCHANGED <<target, received>>
    BY <1>12 DEF StreamEnd, FinalizeIf, callVars
  <2>2. CASE Finalize(p)
    BY <2>1, <2>2, FinalizeTakes
  <2>3. CASE ~Finalize(p)
    <3>1. UNCHANGED <<took, target, cursor>> /\ \A q \in Commands : received'[q] >= received[q]
      BY <1>12, <2>1, <2>3 DEF StreamEnd, FinalizeIf, callVars, ShapeInv
    <3> QED
      BY <3>1, NothingTaken
  <2> QED
    BY <2>2, <2>3
<1>13. ASSUME NEW p \in Commands, ExitEvent(p) PROVE CursorInv'
  <2>1. UNCHANGED <<target, received>>
    BY <1>13 DEF ExitEvent, FinalizeIf, callVars
  <2>2. CASE Finalize(p)
    BY <2>1, <2>2, FinalizeTakes
  <2>3. CASE ~Finalize(p)
    <3>1. UNCHANGED <<took, target, cursor>> /\ \A q \in Commands : received'[q] >= received[q]
      BY <1>13, <2>1, <2>3 DEF ExitEvent, FinalizeIf, callVars, ShapeInv
    <3> QED
      BY <3>1, NothingTaken
  <2> QED
    BY <2>2, <2>3
<1>14. ASSUME NEW p \in Commands, PostExitTimeout(p) PROVE CursorInv'
  <2>1. UNCHANGED <<target, received>>
    BY <1>14 DEF PostExitTimeout, FinalizeIf, callVars
  <2>2. CASE Finalize(p)
    BY <2>1, <2>2, FinalizeTakes
  <2>3. CASE ~Finalize(p)
    <3>1. UNCHANGED <<took, target, cursor>> /\ \A q \in Commands : received'[q] >= received[q]
      BY <1>14, <2>1, <2>3 DEF PostExitTimeout, FinalizeIf, callVars, ShapeInv
    <3> QED
      BY <3>1, NothingTaken
  <2> QED
    BY <2>2, <2>3
<1>15. ASSUME NEW p \in Commands, KillTimeout(p) PROVE CursorInv'
  <2>1. UNCHANGED <<took, target, cursor>> /\ \A q \in Commands : received'[q] >= received[q]
    BY <1>15 DEF KillTimeout, commandVars, managerVars, callVars, ShapeInv
  <2> QED
    BY <2>1, NothingTaken
<1>16. ASSUME NEW p \in Commands, EvictionTimeout(p) PROVE CursorInv'
  <2>1. UNCHANGED <<took, target, cursor>> /\ \A q \in Commands : received'[q] >= received[q]
    BY <1>16 DEF EvictionTimeout, osVars, commandVars, callVars, ShapeInv
  <2> QED
    BY <2>1, NothingTaken
<1>17. ASSUME NEW p \in Commands, StartError(p) PROVE CursorInv'
  <2>1. UNCHANGED <<took, target, cursor>> /\ \A q \in Commands : received'[q] >= received[q]
    BY <1>17 DEF StartError, timerVars, managerVars, callVars, ShapeInv
  <2> QED
    BY <2>1, NothingTaken
<1>18. ASSUME NEW p \in Commands, ConfigurationFailed(p) PROVE CursorInv'
  <2>1. UNCHANGED <<took, target, cursor>> /\ \A q \in Commands : received'[q] >= received[q]
    BY <1>18 DEF ConfigurationFailed, Terminate, osVars, managerVars, callVars, ShapeInv
  <2> QED
    BY <2>1, NothingTaken
<1>19. ASSUME NEW p \in Commands, CloseEvent(p) PROVE CursorInv'
  <2>1. UNCHANGED <<target, received>>
    BY <1>19 DEF CloseEvent, FinalizeIf, callVars
  <2>2. CASE Finalize(p)
    BY <2>1, <2>2, FinalizeTakes
  <2>3. CASE ~Finalize(p)
    <3>1. UNCHANGED <<took, target, cursor>> /\ \A q \in Commands : received'[q] >= received[q]
      BY <1>19, <2>1, <2>3 DEF CloseEvent, FinalizeIf, callVars, ShapeInv
    <3> QED
      BY <3>1, NothingTaken
  <2> QED
    BY <2>2, <2>3
<1>20. ASSUME NEW p \in Commands, NEW s \in Streams, NEW w \in {"leader", "descendant"},
   Emit(p, s, w)
      PROVE  CursorInv'
  <2>1. UNCHANGED <<took, target, cursor>> /\ \A q \in Commands : received'[q] >= received[q]
    BY <1>20 DEF Emit, LoopUnchanged, commandVars, timerVars, managerVars, callVars, ShapeInv
  <2> QED
    BY <2>1, NothingTaken
<1>21. ASSUME NEW p \in Commands, Fork(p) PROVE CursorInv'
  <2>1. UNCHANGED <<took, target, cursor>> /\ \A q \in Commands : received'[q] >= received[q]
    BY <1>21 DEF Fork, LoopUnchanged, commandVars, timerVars, managerVars, callVars, ShapeInv
  <2> QED
    BY <2>1, NothingTaken
<1>22. ASSUME NEW p \in Commands, LeaderDies(p) PROVE CursorInv'
  <2>1. UNCHANGED <<took, target, cursor>> /\ \A q \in Commands : received'[q] >= received[q]
    BY <1>22 DEF LeaderDies, LoopUnchanged, commandVars, timerVars, managerVars, callVars,
       ShapeInv
  <2> QED
    BY <2>1, NothingTaken
<1>23. ASSUME NEW p \in Commands, NEW state \in {"detached", "none"}, DescendantMoves(p, state)
      PROVE  CursorInv'
  <2>1. UNCHANGED <<took, target, cursor>> /\ \A q \in Commands : received'[q] >= received[q]
    BY <1>23 DEF DescendantMoves, LoopUnchanged, commandVars, timerVars, managerVars, callVars,
       ShapeInv
  <2> QED
    BY <2>1, NothingTaken
<1>24. ASSUME NEW p \in Commands, LifetimeTimeout(p) PROVE CursorInv'
  <2>1. UNCHANGED <<took, target, cursor>> /\ \A q \in Commands : received'[q] >= received[q]
    BY <1>24 DEF LifetimeTimeout, Terminate, osVars, commandVars, managerVars, callVars,
       ShapeInv
  <2> QED
    BY <2>1, NothingTaken
<1>25. ASSUME CloseManager PROVE CursorInv'
  <2>1. UNCHANGED <<took, target, cursor>> /\ \A q \in Commands : received'[q] >= received[q]
    BY <1>25 DEF CloseManager, osVars, callVars, ShapeInv
  <2> QED
    BY <2>1, NothingTaken
<1>26. ASSUME UNCHANGED vars PROVE CursorInv'
  <2>1. UNCHANGED <<took, target, cursor>> /\ \A q \in Commands : received'[q] >= received[q]
    BY <1>26 DEF vars, commandVars, callVars, ShapeInv
  <2> QED
    BY <2>1, NothingTaken
<1> QED
  BY <1>0, <1>1, <1>2, <1>3, <1>4, <1>5, <1>6, <1>7, <1>8, <1>9, <1>10, <1>11, <1>12,
     <1>13, <1>14, <1>15, <1>16, <1>17, <1>18, <1>19, <1>20, <1>21, <1>22, <1>23, <1>24,
     <1>25, <1>26 DEF Next, CallStep, Event, CommandStep

-----------------------------------------------------------------------------
(* The completed records                                                   *)

\* There are finitely many commands.
LEMMA CommandsFinite == IsFiniteSet(Commands) /\ Commands \subseteq Nat
<1>1. MaxCommands \in Nat
  BY ManagerAssumption DEF ManagerAssumption
<1> QED
  BY <1>1, FS_Interval DEF Commands

\* The outputs of the commands are a function of them.
LEMMA OutputsType == ASSUME ShapeInv PROVE Outputs \in [Commands -> Nat]
BY OutputType DEF Outputs, ShapeInv

\* The output of a set of records is a sum.
LEMMA TotalOutputIsSum ==
  ASSUME ShapeInv, NEW S \in SUBSET Commands
  PROVE  TotalOutput(S) = SumOf(Outputs, S)
<1> DEFINE Sums(g) == g = [s \in SUBSET S |-> IF s = {} THEN 0
                                            ELSE Output(Picked(s)) + g[s \ {Picked(s)}]]
           total == CHOOSE g : Sums(g)
<1>1. TotalOutput(S) = total[S]
  BY DEF TotalOutput, MapThenSumSet, MapThenFoldSet, Picked
<1>2. IsFiniteSet(S)
  BY FS_Subset, CommandsFinite
<1>3. \A x \in S : Outputs[x] \in Nat /\ Outputs[x] = Output(x)
  BY OutputsType DEF Outputs
<1>4. \A g : \A s \in SUBSET S :
        Unfolded(g, Outputs, s) = IF s = {} THEN 0 ELSE Output(Picked(s)) + g[s \ {Picked(s)}]
  BY <1>3, PickedIsMember DEF Unfolded
<1>5. ASSUME NEW g PROVE IsSum(g, Outputs, S) <=> Sums(g)
  BY <1>4 DEF IsSum
<1>6. PICK g : IsSum(g, Outputs, S)
  BY <1>2, <1>3, SumExists
<1>7. Sums(g)
  BY <1>5, <1>6
<1> HIDE DEF Sums
<1>8. Sums(total)
  BY <1>7
<1> HIDE DEF total
<1>9. IsSum(total, Outputs, S)
  BY <1>5, <1>8
<1>10. SumOf(Outputs, S) = total[S]
  BY <1>2, <1>3, <1>9, SumIsSolution
<1> QED
  BY <1>1, <1>10

\* What #retainCompleted keeps fits both limits: it is a part of what its oldest record is
\* compared with.
LEMMA RetainedFits ==
  ASSUME ShapeInv, NEW S \in SUBSET Commands
  PROVE  Cardinality(Retained(S)) <= MaxCompleted /\ SumOf(Outputs, Retained(S)) <= MaxRetained
<1> DEFINE kept == Retained(S)
<1>1. MaxCompleted \in Nat /\ MaxRetained \in Nat
  BY ManagerAssumption DEF ManagerAssumption
<1>2. CASE kept = {}
  BY <1>1, <1>2, FS_EmptySet, SumOfNothing
<1>3. CASE kept # {}
  <2> DEFINE oldest == Min(kept)
             newer == {q \in S : q >= oldest}
  <2>1. kept \in SUBSET Nat
    BY RetainedSubset, CommandsFinite
  <2>2. oldest \in kept /\ \A q \in kept : oldest <= q
    BY <1>3, <2>1, LeastNatural
  <2>3. Cardinality(newer) <= MaxCompleted /\ TotalOutput(newer) <= MaxRetained
    BY <2>2 DEF Retained
  <2>4. kept \subseteq newer
    BY <2>1, <2>2, RetainedSubset
  <2> HIDE DEF kept, oldest
  <2>5. newer \in SUBSET Commands /\ IsFiniteSet(newer)
    BY FS_Subset, CommandsFinite
  <2>6. TotalOutput(newer) = SumOf(Outputs, newer)
    BY <2>5, TotalOutputIsSum
  <2> HIDE DEF newer
  <2>7. Cardinality(kept) <= Cardinality(newer) /\ IsFiniteSet(kept)
        /\ Cardinality(kept) \in Nat /\ Cardinality(newer) \in Nat
    BY <2>4, <2>5, FS_Subset, FS_CardinalityType
  <2>8. SumOf(Outputs, kept) <= SumOf(Outputs, newer)
    BY <2>4, <2>5, OutputsType, SumMonotonic
  <2>9. SumOf(Outputs, kept) \in Nat /\ SumOf(Outputs, newer) \in Nat
    BY <2>4, <2>5, <2>7, OutputsType, SumType
  <2>10. Cardinality(kept) <= MaxCompleted
    BY <1>1, <2>3, <2>7
  <2>11. SumOf(Outputs, kept) <= MaxRetained
    BY <1>1, <2>3, <2>6, <2>8, <2>9
  <2> QED
    BY <2>10, <2>11 DEF kept
<1> QED
  BY <1>2, <1>3

\* A part of records that fit the limits, with the output they had, fits them too.
LEMMA RecordsShrink ==
  ASSUME ShapeInv, ShapeInv', NEW S \in SUBSET Commands, NEW R \in SUBSET S,
         Cardinality(S) <= MaxCompleted, SumOf(Outputs, S) <= MaxRetained,
         \A q \in R : received'[q] = received[q]
  PROVE  Cardinality(R) <= MaxCompleted /\ SumOf(Outputs', R) <= MaxRetained
<1>1. IsFiniteSet(S) /\ IsFiniteSet(R) /\ Cardinality(R) <= Cardinality(S)
  BY FS_Subset, CommandsFinite
<1>2. Cardinality(R) \in Nat /\ Cardinality(S) \in Nat
  BY <1>1, FS_CardinalityType
<1>3. Outputs \in [Commands -> Nat]
  BY OutputsType
<1>4. \A q \in R : Outputs[q] \in Nat /\ Outputs'[q] = Outputs[q]
  BY <1>3 DEF Outputs, Output
<1>5. SumOf(Outputs', R) = SumOf(Outputs, R)
  BY <1>1, <1>4, SumCongruence
<1>6. SumOf(Outputs, R) <= SumOf(Outputs, S)
  BY <1>1, <1>3, SumMonotonic
<1>7. SumOf(Outputs, R) \in Nat /\ SumOf(Outputs, S) \in Nat
  BY <1>1, <1>3, SumType
<1>8. MaxCompleted \in Nat /\ MaxRetained \in Nat
  BY ManagerAssumption DEF ManagerAssumption
<1>9. Cardinality(R) <= MaxCompleted
  BY <1>1, <1>2, <1>8
<1>10. SumOf(Outputs', R) <= MaxRetained
  BY <1>5, <1>6, <1>7, <1>8
<1> QED
  BY <1>9, <1>10

\* Only numbers that have been given out are in the table.
LEMMA NumberedBelow ==
  ASSUME NEW n, n \in 1 .. MaxCommands + 1, NEW S, S \subseteq 1 .. n - 1
  PROVE  S \subseteq Commands
<1>1. MaxCommands \in Nat
  BY ManagerAssumption DEF ManagerAssumption
<1> SUFFICES ASSUME NEW q \in S PROVE q \in Commands
  OBVIOUS
<1>2. q \in 1 .. n - 1
  OBVIOUS
<1> QED
  BY <1>1, <1>2 DEF Commands

\* The table holds commands.
LEMMA RecordsAreCommands == ASSUME ShapeInv PROVE processes \subseteq Commands
<1>1. nextId \in 1 .. MaxCommands + 1 /\ processes \subseteq 1 .. nextId - 1
  BY DEF ShapeInv
<1> QED
  BY <1>1, NumberedBelow

\* Delivering the rest of a complete command forgets its record and its expiry timer together.
LEMMA ResultKeepsExpiry ==
  ASSUME RecordInv, NEW k \in Calls, NEW p \in Commands, Result(k, p), UNCHANGED closed
  PROVE  \A q \in Commands : evictionTimer'[q] <=> q \in processes' /\ closed'[q]
<1>1. \A q \in Commands : evictionTimer[q] <=> q \in processes /\ closed[q]
  BY DEF RecordInv
<1>2. PICK forgotten : /\ processes' = processes \ forgotten
                       /\ evictionTimer' = [q \in Commands |->
                                              evictionTimer[q] /\ q \notin forgotten]
  BY DEF Result
<1>3. \A q \in Commands : evictionTimer'[q] <=> evictionTimer[q] /\ q \notin forgotten
  BY ONLY <1>2
<1> QED
  BY ONLY <1>1, <1>2, <1>3, closed' = closed

\* So does waiting for a command, which may find it complete.
LEMMA WaitKeepsExpiry ==
  ASSUME RecordInv, NEW k \in Calls, NEW p \in Commands, Wait(k, p), UNCHANGED closed
  PROVE  \A q \in Commands : evictionTimer'[q] <=> q \in processes' /\ closed'[q]
<1>1. CASE Result(k, p)
  BY <1>1, ResultKeepsExpiry
<1>2. CASE UNCHANGED <<processes, evictionTimer>>
  BY <1>2 DEF RecordInv
<1> QED
  BY <1>1, <1>2 DEF Wait

\* A step that completes nothing.
LEMMA RecordFrame ==
  ASSUME ShapeInv, ShapeInv', RecordInv,
         \A q \in Completed : received'[q] = received[q],
         \A q \in Commands : q \in processes' /\ closed'[q] => q \in processes /\ closed[q],
         \A q \in Commands : evictionTimer'[q] <=> q \in processes' /\ closed'[q],
         managerClosed' => processes' = {}
  PROVE  RecordInv'
<1>1. processes \subseteq Commands
  BY RecordsAreCommands
<1>0. processes' \subseteq Commands
  <2>1. nextId' \in 1 .. MaxCommands + 1 /\ processes' \subseteq 1 .. nextId' - 1
    BY DEF ShapeInv
  <2> QED
    BY <2>1, NumberedBelow
<1>2. Completed \in SUBSET Commands /\ Completed' \in SUBSET Completed
  BY <1>0, <1>1 DEF Completed
<1>3. Cardinality(Completed') <= MaxCompleted /\ SumOf(Outputs', Completed') <= MaxRetained
  BY <1>2, RecordsShrink DEF RecordInv
<1> QED
  BY <1>3 DEF RecordInv

\* Completing a command retains its record within the limits.
LEMMA FinalizeRecords ==
  ASSUME ShapeInv, ShapeInv', RecordInv, NEW p \in Commands, ~closed[p], Finalize(p),
         UNCHANGED <<received, managerClosed>>
  PROVE  RecordInv'
<1> DEFINE completed == {q \in processes : closed[q] \/ q = p}
<1>1. processes \subseteq Commands /\ processes' \subseteq processes
  BY RecordsAreCommands, RetainedSubset DEF Finalize, Active
<1>2. closed' = [closed EXCEPT ![p] = TRUE]
  BY DEF Finalize
<1>3. \A q \in Commands : evictionTimer'[q] <=> q \in processes' /\ closed'[q]
  <2> SUFFICES ASSUME NEW q \in Commands PROVE evictionTimer'[q] <=> q \in processes' /\ closed'[q]
    OBVIOUS
  <2>1. evictionTimer'[q] <=> q \in processes' /\ (evictionTimer[q] \/ (q = p /\ ~managerClosed))
    BY DEF Finalize
  <2>2. CASE q = p
    <3>1. q \in processes' => ~managerClosed
      BY <1>1 DEF RecordInv
    <3> QED
      BY <1>2, <2>1, <2>2, <3>1 DEF ShapeInv
  <2>3. CASE q # p
    <3>1. closed'[q] = closed[q]
      BY <1>2, <2>3 DEF ShapeInv
    <3> QED
      BY <1>1, <2>1, <2>3, <3>1 DEF RecordInv
  <2> QED
    BY <2>2, <2>3
<1>4. managerClosed' => processes' = {}
  BY <1>1 DEF RecordInv
<1>5. CASE managerClosed \/ p \notin processes
  <2>1. \A q \in Commands : q \in processes' /\ closed'[q] => q \in processes /\ closed[q]
    BY <1>1, <1>2, <1>5, FinalizeOthers DEF RecordInv
  <2> QED
    BY <1>3, <1>4, <2>1, RecordFrame
<1>6. CASE ~(managerClosed \/ p \notin processes)
  <2>1. completed \in SUBSET Commands
    BY <1>1
  <2>2. Completed' \subseteq Retained(completed)
    <3>1. processes' \subseteq (Active \ {p}) \union Retained(completed)
      BY <1>6 DEF Finalize
    <3>2. \A q \in Active \ {p} : ~closed'[q]
      BY <1>1, <1>2 DEF Active, ShapeInv
    <3> QED
      BY <3>1, <3>2 DEF Completed
  <2> HIDE DEF completed
  <2>3. /\ Cardinality(Retained(completed)) <= MaxCompleted
        /\ SumOf(Outputs, Retained(completed)) <= MaxRetained
    BY <2>1, RetainedFits
  <2>4. Retained(completed) \in SUBSET Commands /\ Completed' \in SUBSET Retained(completed)
    BY <2>1, <2>2, RetainedSubset
  <2>5. Cardinality(Completed') <= MaxCompleted /\ SumOf(Outputs', Completed') <= MaxRetained
    BY <2>3, <2>4, RecordsShrink
  <2> QED
    BY <1>3, <1>4, <2>5 DEF RecordInv
<1> QED
  BY <1>5, <1>6

\* Every step keeps the records within their limits, each with its timer.
LEMMA RecordInvStep ==
  ASSUME ShapeInv, ShapeInv', CommandInv, RecordInv, [Next]_vars
  PROVE  RecordInv'
<1>0. UNCHANGED load
  BY DEF Next, vars
<1>1. ASSUME NEW k \in Calls, ExecRefused(k) PROVE RecordInv'
  <2>1. \A q \in Completed : received'[q] = received[q]
    BY <1>1 DEF ExecRefused, Refuse, osVars, commandVars, timerVars, managerVars, Completed,
       CommandInv, CommandOK, Drained, ShapeInv
  <2>2. \A q \in Commands : q \in processes' /\ closed'[q] => q \in processes /\ closed[q]
    BY <1>1 DEF ExecRefused, Refuse, osVars, commandVars, timerVars, managerVars, ShapeInv
  <2>3. \A q \in Commands : evictionTimer'[q] <=> q \in processes' /\ closed'[q]
    BY <1>1 DEF ExecRefused, Refuse, osVars, commandVars, timerVars, managerVars, RecordInv,
       ShapeInv
  <2>4. managerClosed' => processes' = {}
    BY <1>1 DEF ExecRefused, Refuse, osVars, commandVars, timerVars, managerVars, RecordInv
  <2> QED
    BY <2>1, <2>2, <2>3, <2>4, RecordFrame
<1>2. ASSUME NEW k \in Calls, Exec(k) PROVE RecordInv'
  <2>1. \A q \in Completed : received'[q] = received[q]
    BY <1>2 DEF Exec
  <2>2. nextId \in Commands
    BY <1>2, ManagerAssumption DEF Exec, ManagerAssumption, Commands, ShapeInv
  <2>3. ~closed[nextId] /\ ~evictionTimer[nextId]
    BY <2>2 DEF CommandInv, CommandOK, Fresh, ShapeInv
  <2>4. /\ processes' = processes \union {nextId}
        /\ UNCHANGED <<closed, evictionTimer, managerClosed>> /\ ~managerClosed
    BY <1>2 DEF Exec, timerVars
  <2>5. \A q \in Commands : q \in processes' /\ closed'[q] => q \in processes /\ closed[q]
    BY <2>3, <2>4
  <2>6. \A q \in Commands : evictionTimer'[q] <=> q \in processes' /\ closed'[q]
    BY <2>3, <2>4 DEF RecordInv
  <2> QED
    BY <2>1, <2>4, <2>5, <2>6, RecordFrame
<1>3. ASSUME NEW k \in Calls, Abort(k) PROVE RecordInv'
  <2>1. \A q \in Completed : received'[q] = received[q]
    BY <1>3 DEF Abort, Terminate, osVars, commandVars, managerVars, Completed, CommandInv,
       CommandOK, Drained, ShapeInv
  <2>2. \A q \in Commands : q \in processes' /\ closed'[q] => q \in processes /\ closed[q]
    BY <1>3 DEF Abort, Terminate, osVars, commandVars, managerVars, ShapeInv
  <2>3. \A q \in Commands : evictionTimer'[q] <=> q \in processes' /\ closed'[q]
    BY <1>3 DEF Abort, Terminate, osVars, commandVars, managerVars, RecordInv, ShapeInv
  <2>4. managerClosed' => processes' = {}
    BY <1>3 DEF Abort, Terminate, osVars, commandVars, managerVars, RecordInv
  <2> QED
    BY <2>1, <2>2, <2>3, <2>4, RecordFrame
<1>4. ASSUME NEW k \in Calls, NEW p \in Commands, NEW chars \in BOOLEAN, WriteRefused(k, p,
   chars)
      PROVE  RecordInv'
  <2>1. \A q \in Completed : received'[q] = received[q]
    BY <1>4 DEF WriteRefused, Refuse, osVars, commandVars, timerVars, managerVars, Completed,
       CommandInv, CommandOK, Drained, ShapeInv
  <2>2. \A q \in Commands : q \in processes' /\ closed'[q] => q \in processes /\ closed[q]
    BY <1>4 DEF WriteRefused, Refuse, osVars, commandVars, timerVars, managerVars, ShapeInv
  <2>3. \A q \in Commands : evictionTimer'[q] <=> q \in processes' /\ closed'[q]
    BY <1>4 DEF WriteRefused, Refuse, osVars, commandVars, timerVars, managerVars, RecordInv,
       ShapeInv
  <2>4. managerClosed' => processes' = {}
    BY <1>4 DEF WriteRefused, Refuse, osVars, commandVars, timerVars, managerVars, RecordInv
  <2> QED
    BY <2>1, <2>2, <2>3, <2>4, RecordFrame
<1>5. ASSUME NEW k \in Calls, NEW p \in Commands, Poll(k, p) PROVE RecordInv'
  <2>1. \A q \in Completed : received'[q] = received[q]
    BY <1>5 DEF Poll, Wait, Result, Slice, osVars, Completed, CommandInv, CommandOK, Drained,
       ShapeInv
  <2>2. \A q \in Commands : q \in processes' /\ closed'[q] => q \in processes /\ closed[q]
    BY <1>5 DEF Poll, Wait, Result, Slice, osVars, ShapeInv
  <2>3. \A q \in Commands : evictionTimer'[q] <=> q \in processes' /\ closed'[q]
    BY <1>5, WaitKeepsExpiry DEF Poll
  <2>4. managerClosed' => processes' = {}
    BY <1>5 DEF Poll, Wait, Result, Slice, osVars, RecordInv
  <2> QED
    BY <2>1, <2>2, <2>3, <2>4, RecordFrame
<1>6. ASSUME NEW k \in Calls, NEW p \in Commands, Write(k, p) PROVE RecordInv'
  <2>1. \A q \in Completed : received'[q] = received[q]
    BY <1>6 DEF Write, osVars, commandVars, timerVars, managerVars, Completed, CommandInv,
       CommandOK, Drained, ShapeInv
  <2>2. \A q \in Commands : q \in processes' /\ closed'[q] => q \in processes /\ closed[q]
    BY <1>6 DEF Write, osVars, commandVars, timerVars, managerVars, ShapeInv
  <2>3. \A q \in Commands : evictionTimer'[q] <=> q \in processes' /\ closed'[q]
    BY <1>6 DEF Write, osVars, commandVars, timerVars, managerVars, RecordInv, ShapeInv
  <2>4. managerClosed' => processes' = {}
    BY <1>6 DEF Write, osVars, commandVars, timerVars, managerVars, RecordInv
  <2> QED
    BY <2>1, <2>2, <2>3, <2>4, RecordFrame
<1>7. ASSUME NEW k \in Calls, NEW p \in Commands, WriteFlushed(k, p) PROVE RecordInv'
  <2>1. \A q \in Completed : received'[q] = received[q]
    BY <1>7 DEF WriteFlushed, Wait, Result, Slice, osVars, Completed, CommandInv, CommandOK,
       Drained, ShapeInv
  <2>2. \A q \in Commands : q \in processes' /\ closed'[q] => q \in processes /\ closed[q]
    BY <1>7 DEF WriteFlushed, Wait, Result, Slice, osVars, ShapeInv
  <2>3. \A q \in Commands : evictionTimer'[q] <=> q \in processes' /\ closed'[q]
    BY <1>7, WaitKeepsExpiry DEF WriteFlushed
  <2>4. managerClosed' => processes' = {}
    BY <1>7 DEF WriteFlushed, Wait, Result, Slice, osVars, RecordInv
  <2> QED
    BY <2>1, <2>2, <2>3, <2>4, RecordFrame
<1>8. ASSUME NEW k \in Calls, NEW p \in Commands, WriteRejected(k, p) PROVE RecordInv'
  <2>1. \A q \in Completed : received'[q] = received[q]
    BY <1>8 DEF WriteRejected, osVars, commandVars, timerVars, managerVars, Completed,
       CommandInv, CommandOK, Drained, ShapeInv
  <2>2. \A q \in Commands : q \in processes' /\ closed'[q] => q \in processes /\ closed[q]
    BY <1>8 DEF WriteRejected, osVars, commandVars, timerVars, managerVars, ShapeInv
  <2>3. \A q \in Commands : evictionTimer'[q] <=> q \in processes' /\ closed'[q]
    BY <1>8 DEF WriteRejected, osVars, commandVars, timerVars, managerVars, RecordInv, ShapeInv
  <2>4. managerClosed' => processes' = {}
    BY <1>8 DEF WriteRejected, osVars, commandVars, timerVars, managerVars, RecordInv
  <2> QED
    BY <2>1, <2>2, <2>3, <2>4, RecordFrame
<1>9. ASSUME NEW k \in Calls, NEW p \in Commands, BrokenPipe(k, p) PROVE RecordInv'
  <2>1. \A q \in Completed : received'[q] = received[q]
    BY <1>9 DEF BrokenPipe, osVars, commandVars, timerVars, managerVars, callVars, Completed,
       CommandInv, CommandOK, Drained, ShapeInv
  <2>2. \A q \in Commands : q \in processes' /\ closed'[q] => q \in processes /\ closed[q]
    BY <1>9 DEF BrokenPipe, osVars, commandVars, timerVars, managerVars, callVars, ShapeInv
  <2>3. \A q \in Commands : evictionTimer'[q] <=> q \in processes' /\ closed'[q]
    BY <1>9 DEF BrokenPipe, osVars, commandVars, timerVars, managerVars, callVars, RecordInv,
       ShapeInv
  <2>4. managerClosed' => processes' = {}
    BY <1>9 DEF BrokenPipe, osVars, commandVars, timerVars, managerVars, callVars, RecordInv
  <2> QED
    BY <2>1, <2>2, <2>3, <2>4, RecordFrame
<1>10. ASSUME NEW k \in Calls, NEW p \in Commands, WaitTimeout(k, p) PROVE RecordInv'
  <2>1. \A q \in Completed : received'[q] = received[q]
    BY <1>10 DEF WaitTimeout, Result, Slice, osVars, Completed, CommandInv, CommandOK, Drained,
       ShapeInv
  <2>2. \A q \in Commands : q \in processes' /\ closed'[q] => q \in processes /\ closed[q]
    BY <1>10 DEF WaitTimeout, Result, Slice, osVars, ShapeInv
  <2>3. \A q \in Commands : evictionTimer'[q] <=> q \in processes' /\ closed'[q]
    BY <1>10 DEF WaitTimeout, Result, Slice, osVars, RecordInv, ShapeInv
  <2>4. managerClosed' => processes' = {}
    BY <1>10 DEF WaitTimeout, Result, Slice, osVars, RecordInv
  <2> QED
    BY <2>1, <2>2, <2>3, <2>4, RecordFrame
<1>11. ASSUME NEW p \in Commands, NEW s \in Streams, Data(p, s) PROVE RecordInv'
  <2>1. \A q \in Completed : received'[q] = received[q]
    BY <1>11 DEF Data, managerVars, callVars, Completed, CommandInv, CommandOK, Drained,
       ShapeInv
  <2>2. \A q \in Commands : q \in processes' /\ closed'[q] => q \in processes /\ closed[q]
    BY <1>11 DEF Data, managerVars, callVars, ShapeInv
  <2>3. \A q \in Commands : evictionTimer'[q] <=> q \in processes' /\ closed'[q]
    BY <1>11 DEF Data, managerVars, callVars, RecordInv, ShapeInv
  <2>4. managerClosed' => processes' = {}
    BY <1>11 DEF Data, managerVars, callVars, RecordInv
  <2> QED
    BY <2>1, <2>2, <2>3, <2>4, RecordFrame
<1>12. ASSUME NEW p \in Commands, NEW s \in Streams, StreamEnd(p, s) PROVE RecordInv'
  <2>1. UNCHANGED <<received, managerClosed>>
    BY <1>12 DEF StreamEnd, FinalizeIf, managerVars
  <2>2. CASE Finalize(p) /\ ~closed[p]
    BY <2>1, <2>2, FinalizeRecords
  <2>3. CASE ~(Finalize(p) /\ ~closed[p])
    <3>1. UNCHANGED <<processes, closed, evictionTimer>>
      BY <1>12, <2>3 DEF StreamEnd, FinalizeIf, timerVars, managerVars
    <3> QED
      BY <2>1, <3>1, RecordFrame DEF RecordInv
  <2> QED
    BY <2>2, <2>3
<1>13. ASSUME NEW p \in Commands, ExitEvent(p) PROVE RecordInv'
  <2>1. UNCHANGED <<received, managerClosed>>
    BY <1>13 DEF ExitEvent, FinalizeIf, managerVars
  <2>2. CASE Finalize(p) /\ ~closed[p]
    BY <2>1, <2>2, FinalizeRecords
  <2>3. CASE ~(Finalize(p) /\ ~closed[p])
    <3>1. UNCHANGED <<processes, closed, evictionTimer>>
      BY <1>13, <2>3 DEF ExitEvent, FinalizeIf, timerVars, managerVars
    <3> QED
      BY <2>1, <3>1, RecordFrame DEF RecordInv
  <2> QED
    BY <2>2, <2>3
<1>14. ASSUME NEW p \in Commands, PostExitTimeout(p) PROVE RecordInv'
  <2>1. UNCHANGED <<received, managerClosed>>
    BY <1>14 DEF PostExitTimeout, FinalizeIf, managerVars
  <2>2. CASE Finalize(p) /\ ~closed[p]
    BY <2>1, <2>2, FinalizeRecords
  <2>3. CASE ~(Finalize(p) /\ ~closed[p])
    <3>1. UNCHANGED <<processes, closed, evictionTimer>>
      BY <1>14, <2>3 DEF PostExitTimeout, FinalizeIf, timerVars, managerVars
    <3> QED
      BY <2>1, <3>1, RecordFrame DEF RecordInv
  <2> QED
    BY <2>2, <2>3
<1>15. ASSUME NEW p \in Commands, KillTimeout(p) PROVE RecordInv'
  <2>1. \A q \in Completed : received'[q] = received[q]
    BY <1>15 DEF KillTimeout, commandVars, managerVars, callVars, Completed, CommandInv,
       CommandOK, Drained, ShapeInv
  <2>2. \A q \in Commands : q \in processes' /\ closed'[q] => q \in processes /\ closed[q]
    BY <1>15 DEF KillTimeout, commandVars, managerVars, callVars, ShapeInv
  <2>3. \A q \in Commands : evictionTimer'[q] <=> q \in processes' /\ closed'[q]
    BY <1>15 DEF KillTimeout, commandVars, managerVars, callVars, RecordInv, ShapeInv
  <2>4. managerClosed' => processes' = {}
    BY <1>15 DEF KillTimeout, commandVars, managerVars, callVars, RecordInv
  <2> QED
    BY <2>1, <2>2, <2>3, <2>4, RecordFrame
<1>16. ASSUME NEW p \in Commands, EvictionTimeout(p) PROVE RecordInv'
  <2>1. \A q \in Completed : received'[q] = received[q]
    BY <1>16 DEF EvictionTimeout, osVars, commandVars, callVars, Completed, CommandInv,
       CommandOK, Drained, ShapeInv
  <2>2. \A q \in Commands : q \in processes' /\ closed'[q] => q \in processes /\ closed[q]
    BY <1>16 DEF EvictionTimeout, osVars, commandVars, callVars, ShapeInv
  <2>3. \A q \in Commands : evictionTimer'[q] <=> q \in processes' /\ closed'[q]
    BY <1>16 DEF EvictionTimeout, osVars, commandVars, callVars, RecordInv, ShapeInv
  <2>4. managerClosed' => processes' = {}
    BY <1>16 DEF EvictionTimeout, osVars, commandVars, callVars, RecordInv
  <2> QED
    BY <2>1, <2>2, <2>3, <2>4, RecordFrame
<1>17. ASSUME NEW p \in Commands, StartError(p) PROVE RecordInv'
  <2>1. \A q \in Completed : received'[q] = received[q]
    <3> SUFFICES ASSUME NEW q \in Completed PROVE received'[q] = received[q]
      OBVIOUS
    <3>1. q \in Commands /\ closed[q]
      BY RecordsAreCommands DEF Completed
    <3>2. leader[q] \in {"reaped", "lost"}
      BY <3>1 DEF CommandInv, CommandOK, Drained
    <3>3. q # p
      BY <1>17, <3>2 DEF StartError
    <3> QED
      BY <1>17, <3>1, <3>3 DEF StartError, ShapeInv
  <2>2. \A q \in Commands : q \in processes' /\ closed'[q] => q \in processes /\ closed[q]
    BY <1>17 DEF StartError, timerVars, managerVars, callVars, ShapeInv
  <2>3. \A q \in Commands : evictionTimer'[q] <=> q \in processes' /\ closed'[q]
    BY <1>17 DEF StartError, timerVars, managerVars, callVars, RecordInv, ShapeInv
  <2>4. managerClosed' => processes' = {}
    BY <1>17 DEF StartError, timerVars, managerVars, callVars, RecordInv
  <2> QED
    BY <2>1, <2>2, <2>3, <2>4, RecordFrame
<1>18. ASSUME NEW p \in Commands, ConfigurationFailed(p) PROVE RecordInv'
  <2>1. \A q \in Completed : received'[q] = received[q]
    BY <1>18 DEF ConfigurationFailed, Terminate, osVars, managerVars, callVars, Completed,
       CommandInv, CommandOK, Drained, ShapeInv
  <2>2. \A q \in Commands : q \in processes' /\ closed'[q] => q \in processes /\ closed[q]
    BY <1>18 DEF ConfigurationFailed, Terminate, osVars, managerVars, callVars, ShapeInv
  <2>3. \A q \in Commands : evictionTimer'[q] <=> q \in processes' /\ closed'[q]
    BY <1>18 DEF ConfigurationFailed, Terminate, osVars, managerVars, callVars, RecordInv,
       ShapeInv
  <2>4. managerClosed' => processes' = {}
    BY <1>18 DEF ConfigurationFailed, Terminate, osVars, managerVars, callVars, RecordInv
  <2> QED
    BY <2>1, <2>2, <2>3, <2>4, RecordFrame
<1>19. ASSUME NEW p \in Commands, CloseEvent(p) PROVE RecordInv'
  <2>1. UNCHANGED <<received, managerClosed>>
    BY <1>19 DEF CloseEvent, FinalizeIf, managerVars
  <2>2. CASE Finalize(p) /\ ~closed[p]
    BY <2>1, <2>2, FinalizeRecords
  <2>3. CASE ~(Finalize(p) /\ ~closed[p])
    <3>1. UNCHANGED <<processes, closed, evictionTimer>>
      BY <1>19, <2>3 DEF CloseEvent, FinalizeIf, timerVars, managerVars
    <3> QED
      BY <2>1, <3>1, RecordFrame DEF RecordInv
  <2> QED
    BY <2>2, <2>3
<1>20. ASSUME NEW p \in Commands, NEW s \in Streams, NEW w \in {"leader", "descendant"},
   Emit(p, s, w)
      PROVE  RecordInv'
  <2>1. \A q \in Completed : received'[q] = received[q]
    BY <1>20 DEF Emit, LoopUnchanged, commandVars, timerVars, managerVars, callVars, Completed,
       CommandInv, CommandOK, Drained, ShapeInv
  <2>2. \A q \in Commands : q \in processes' /\ closed'[q] => q \in processes /\ closed[q]
    BY <1>20 DEF Emit, LoopUnchanged, commandVars, timerVars, managerVars, callVars, ShapeInv
  <2>3. \A q \in Commands : evictionTimer'[q] <=> q \in processes' /\ closed'[q]
    BY <1>20 DEF Emit, LoopUnchanged, commandVars, timerVars, managerVars, callVars, RecordInv,
       ShapeInv
  <2>4. managerClosed' => processes' = {}
    BY <1>20 DEF Emit, LoopUnchanged, commandVars, timerVars, managerVars, callVars, RecordInv
  <2> QED
    BY <2>1, <2>2, <2>3, <2>4, RecordFrame
<1>21. ASSUME NEW p \in Commands, Fork(p) PROVE RecordInv'
  <2>1. \A q \in Completed : received'[q] = received[q]
    BY <1>21 DEF Fork, LoopUnchanged, commandVars, timerVars, managerVars, callVars, Completed,
       CommandInv, CommandOK, Drained, ShapeInv
  <2>2. \A q \in Commands : q \in processes' /\ closed'[q] => q \in processes /\ closed[q]
    BY <1>21 DEF Fork, LoopUnchanged, commandVars, timerVars, managerVars, callVars, ShapeInv
  <2>3. \A q \in Commands : evictionTimer'[q] <=> q \in processes' /\ closed'[q]
    BY <1>21 DEF Fork, LoopUnchanged, commandVars, timerVars, managerVars, callVars, RecordInv,
       ShapeInv
  <2>4. managerClosed' => processes' = {}
    BY <1>21 DEF Fork, LoopUnchanged, commandVars, timerVars, managerVars, callVars, RecordInv
  <2> QED
    BY <2>1, <2>2, <2>3, <2>4, RecordFrame
<1>22. ASSUME NEW p \in Commands, LeaderDies(p) PROVE RecordInv'
  <2>1. \A q \in Completed : received'[q] = received[q]
    BY <1>22 DEF LeaderDies, LoopUnchanged, commandVars, timerVars, managerVars, callVars,
       Completed, CommandInv, CommandOK, Drained, ShapeInv
  <2>2. \A q \in Commands : q \in processes' /\ closed'[q] => q \in processes /\ closed[q]
    BY <1>22 DEF LeaderDies, LoopUnchanged, commandVars, timerVars, managerVars, callVars,
       ShapeInv
  <2>3. \A q \in Commands : evictionTimer'[q] <=> q \in processes' /\ closed'[q]
    BY <1>22 DEF LeaderDies, LoopUnchanged, commandVars, timerVars, managerVars, callVars,
       RecordInv, ShapeInv
  <2>4. managerClosed' => processes' = {}
    BY <1>22 DEF LeaderDies, LoopUnchanged, commandVars, timerVars, managerVars, callVars,
       RecordInv
  <2> QED
    BY <2>1, <2>2, <2>3, <2>4, RecordFrame
<1>23. ASSUME NEW p \in Commands, NEW state \in {"detached", "none"}, DescendantMoves(p, state)
      PROVE  RecordInv'
  <2>1. \A q \in Completed : received'[q] = received[q]
    BY <1>23 DEF DescendantMoves, LoopUnchanged, commandVars, timerVars, managerVars, callVars,
       Completed, CommandInv, CommandOK, Drained, ShapeInv
  <2>2. \A q \in Commands : q \in processes' /\ closed'[q] => q \in processes /\ closed[q]
    BY <1>23 DEF DescendantMoves, LoopUnchanged, commandVars, timerVars, managerVars, callVars,
       ShapeInv
  <2>3. \A q \in Commands : evictionTimer'[q] <=> q \in processes' /\ closed'[q]
    BY <1>23 DEF DescendantMoves, LoopUnchanged, commandVars, timerVars, managerVars, callVars,
       RecordInv, ShapeInv
  <2>4. managerClosed' => processes' = {}
    BY <1>23 DEF DescendantMoves, LoopUnchanged, commandVars, timerVars, managerVars, callVars,
       RecordInv
  <2> QED
    BY <2>1, <2>2, <2>3, <2>4, RecordFrame
<1>24. ASSUME NEW p \in Commands, LifetimeTimeout(p) PROVE RecordInv'
  <2>1. \A q \in Completed : received'[q] = received[q]
    BY <1>24 DEF LifetimeTimeout, Terminate, osVars, commandVars, managerVars, callVars,
       Completed, CommandInv, CommandOK, Drained, ShapeInv
  <2>2. \A q \in Commands : q \in processes' /\ closed'[q] => q \in processes /\ closed[q]
    BY <1>24 DEF LifetimeTimeout, Terminate, osVars, commandVars, managerVars, callVars,
       ShapeInv
  <2>3. \A q \in Commands : evictionTimer'[q] <=> q \in processes' /\ closed'[q]
    BY <1>24 DEF LifetimeTimeout, Terminate, osVars, commandVars, managerVars, callVars,
       RecordInv, ShapeInv
  <2>4. managerClosed' => processes' = {}
    BY <1>24 DEF LifetimeTimeout, Terminate, osVars, commandVars, managerVars, callVars,
       RecordInv
  <2> QED
    BY <2>1, <2>2, <2>3, <2>4, RecordFrame
<1>25. ASSUME CloseManager PROVE RecordInv'
  <2>1. \A q \in Completed : received'[q] = received[q]
    BY <1>25 DEF CloseManager, osVars, callVars, Completed, CommandInv, CommandOK, Drained,
       ShapeInv
  <2>2. \A q \in Commands : q \in processes' /\ closed'[q] => q \in processes /\ closed[q]
    BY <1>25 DEF CloseManager, osVars, callVars, ShapeInv
  <2>3. \A q \in Commands : evictionTimer'[q] <=> q \in processes' /\ closed'[q]
    BY <1>25 DEF CloseManager, osVars, callVars, RecordInv, ShapeInv
  <2>4. managerClosed' => processes' = {}
    BY <1>25 DEF CloseManager, osVars, callVars, RecordInv
  <2> QED
    BY <2>1, <2>2, <2>3, <2>4, RecordFrame
<1>26. ASSUME UNCHANGED vars PROVE RecordInv'
  <2>1. UNCHANGED <<received, processes, closed, evictionTimer, managerClosed>>
    BY <1>26 DEF vars, commandVars, timerVars, managerVars
  <2> QED
    BY <2>1, RecordFrame DEF RecordInv
<1> QED
  BY <1>0, <1>1, <1>2, <1>3, <1>4, <1>5, <1>6, <1>7, <1>8, <1>9, <1>10, <1>11, <1>12,
     <1>13, <1>14, <1>15, <1>16, <1>17, <1>18, <1>19, <1>20, <1>21, <1>22, <1>23, <1>24,
     <1>25, <1>26 DEF Next, CallStep, Event, CommandStep

-----------------------------------------------------------------------------
(* What the answers show                                                   *)

\* A step that answers no call with output leaves what the answers show.
LEMMA ShownFrame == ASSUME ShownInv, UNCHANGED <<took, shown>> PROVE ShownInv'
BY DEF ShownInv, Cut

\* A result shows the newest part of its slice.
LEMMA ResultShown ==
  ASSUME ShapeInv, ShownInv, NEW k \in Calls, NEW p \in Commands, Result(k, p)
  PROVE  ShownInv'
<1> DEFINE fresh == IF aborted[k] THEN 0 ELSE Output(p) - cursor[p]
<1>1. took' = [took EXCEPT ![k] = fresh] /\ shown' = [shown EXCEPT ![k] = Cut(k, fresh)]
  BY DEF Result, Slice
<1> HIDE DEF fresh
<1> QED
  BY <1>1 DEF ShownInv, Cut, ShapeInv

\* So does the call that takes the output of a command completed while it waits.
LEMMA FinalizeShown ==
  ASSUME ShownInv, NEW p \in Commands, Finalize(p)
  PROVE  ShownInv'
<1> DEFINE woken    == finishListeners[p]
           polled   == {i \in DOMAIN woken : ~aborted[woken[i]]}
           fresh    == Output(p) - cursor[p]
           takes(k) == polled # {} /\ k = woken[Min(polled)]
<1>1. /\ took' = [k \in Calls |-> IF takes(k) THEN fresh ELSE took[k]]
      /\ shown' = [k \in Calls |-> IF takes(k) THEN Cut(k, fresh) ELSE shown[k]]
  BY DEF Finalize
<1> HIDE DEF takes, fresh
<1> QED
  BY <1>1 DEF ShownInv, Cut

\* A step on a command's events completes it or leaves what the answers show.
LEMMA EventShown ==
  ASSUME ShownInv, NEW p \in Commands, Event(p)
  PROVE  ShownInv'
<1>1. Finalize(p) \/ UNCHANGED <<took, shown>>
  BY DEF Event, Data, StreamEnd, ExitEvent, PostExitTimeout, KillTimeout, EvictionTimeout,
     StartError, ConfigurationFailed, CloseEvent, FinalizeIf, callVars
<1> QED
  BY <1>1, FinalizeShown, ShownFrame

\* Every step keeps what the answers show.
LEMMA ShownInvStep == ASSUME ShapeInv, ShownInv, [Next]_vars PROVE ShownInv'
<1>1. ASSUME NEW k \in Calls, CallStep(k) PROVE ShownInv'
  <2>1. UNCHANGED <<took, shown>> \/ \E p \in Commands : Result(k, p)
    BY <1>1 DEF CallStep, ExecRefused, Refuse, Exec, Abort, WriteRefused, Poll, Write, Wait,
       WriteFlushed, WriteRejected, BrokenPipe, WaitTimeout, callVars
  <2> QED
    BY <2>1, ResultShown, ShownFrame
<1>2. ASSUME NEW p \in Commands, CommandStep(p) \/ LifetimeTimeout(p) PROVE ShownInv'
  BY <1>2, ShownFrame DEF CommandStep, Emit, Fork, LeaderDies, DescendantMoves, LoopUnchanged,
     LifetimeTimeout, callVars
<1>3. ASSUME CloseManager \/ UNCHANGED vars PROVE ShownInv'
  BY <1>3, ShownFrame DEF CloseManager, vars, callVars
<1> QED
  BY <1>1, <1>2, <1>3, EventShown DEF Next

-----------------------------------------------------------------------------
(* The theorems                                                            *)

\* The invariant holds of the initial states.
LEMMA ManagerInit == ASSUME Init PROVE ManagerInv
<1>1. ShapeInv
  <2>1. unread \in [Commands -> [Streams -> Seq({"leader", "descendant"})]]
    BY DEF Init
  <2>2. finishListeners \in [Commands -> Seq(Calls)]
    BY DEF Init
  <2>3. nextId \in 1 .. MaxCommands + 1 /\ processes \subseteq 1 .. nextId - 1
    BY ManagerAssumption DEF Init, ManagerAssumption
  <2>4. open \in [Commands -> SUBSET Streams]
    BY DEF Init
  <2> QED
    BY <2>1, <2>2, <2>3, <2>4 DEF Init, ShapeInv
<1>2. CommandInv
  BY DEF Init, CommandInv, CommandOK, Fresh, Written, Ended, Drained
<1>3. ListenerInv
  BY DEF Init, ListenerInv, ListenersOK
<1>4. CallInv
  BY DEF Init, CallInv, CallOK
<1>5. CursorInv
  <2> SUFFICES ASSUME NEW p \in Commands
               PROVE  cursor[p] <= Output(p) /\ cursor[p] = SumOf(took, Takers(p))
    BY DEF CursorInv
  <2>1. Takers(p) = {}
    BY CommandsFinite DEF Init, Takers, TakersOf, Commands
  <2>2. cursor[p] = 0 /\ Output(p) = 0
    BY ManagerAssumption DEF Init, Output, ManagerAssumption
  <2> QED
    BY <2>1, <2>2, SumOfNothing
<1>6. RecordInv
  <2>1. Completed = {} /\ MaxCompleted \in Nat /\ MaxRetained \in Nat
    BY ManagerAssumption DEF Init, Completed, ManagerAssumption
  <2> QED
    BY <2>1, FS_EmptySet, SumOfNothing DEF Init, RecordInv
<1>7. ShownInv
  BY ManagerAssumption DEF Init, ShownInv, Cut, ManagerAssumption
<1> QED
  BY <1>1, <1>2, <1>3, <1>4, <1>5, <1>6, <1>7 DEF ManagerInv

\* The invariant is inductive.
LEMMA ManagerStep == ASSUME ManagerInv, [Next]_vars PROVE ManagerInv'
<1>1. ShapeInv'
  BY ShapeStep DEF ManagerInv
<1>2. CommandInv' /\ ListenerInv' /\ CallInv'
  BY CommandInvStep, ListenerInvStep, CallInvStep DEF ManagerInv
<1>3. CursorInv' /\ ShownInv' /\ RecordInv'
  BY <1>1, CursorInvStep, ShownInvStep, RecordInvStep DEF ManagerInv
<1> QED
  BY <1>1, <1>2, <1>3 DEF ManagerInv

\* The invariant holds of every reachable state.
LEMMA ManagerInvariant == Spec => []ManagerInv
BY ManagerInit, ManagerStep, PTL DEF Spec

\* The invariant implies the types the runs check.
LEMMA TypesHold == ASSUME ManagerInv PROVE TypeOK
<1>1. ASSUME NEW p \in Commands PROVE received[p] \in 0 .. Max({load.chunks, 2})
  <2> DEFINE bound == Max({load.chunks, 2})
  <2>1. load.chunks \in Nat
    BY LoadType DEF ManagerInv
  <2>2. bound \in {load.chunks, 2} /\ bound >= load.chunks /\ bound >= 2
    <3>1. \E x \in {load.chunks, 2} : \A y \in {load.chunks, 2} : x >= y
      BY <2>1
    <3> QED
      BY <3>1 DEF Max
  <2> HIDE DEF bound
  <2>3. received[p] \in Nat /\ Len(unread[p]["stdout"]) \in Nat /\ Len(unread[p]["stderr"]) \in Nat
    BY PipeType DEF ManagerInv
  <2> DEFINE a == Len(unread[p]["stdout"])
             b == Len(unread[p]["stderr"])
  <2>4. Written(p)
    BY DEF ManagerInv, CommandInv, CommandOK
  <2>5. received[p] <= 2 \/ a + b + received[p] <= load.chunks
    <3>1. CASE leader[p] \in {"none", "failed", "lost"}
      <4>1. received[p] \in (IF leader[p] = "lost" THEN 1 .. 2 ELSE {0})
        BY <2>4, <3>1 DEF Written
      <4>2. received[p] <= 2
        BY ONLY <4>1
      <4> QED
        BY <4>2
    <3>2. CASE leader[p] \notin {"none", "failed", "lost"}
      BY <2>4, <3>2 DEF Written
    <3> QED
      BY <3>1, <3>2
  <2>6. a \in Nat /\ b \in Nat
    BY <2>3
  <2> HIDE DEF a, b
  <2>7. received[p] <= bound
    BY <2>1, <2>2, <2>3, <2>5, <2>6
  <2> QED
    BY <2>1, <2>2, <2>3, <2>7 DEF bound
<1>2. \A p \in Commands : \A s \in Streams : unread[p][s] \in Seq({"leader", "descendant"})
  BY DEF ManagerInv, ShapeInv
<1>3. \A p \in Commands : finishListeners[p] \in Seq(Calls)
  BY DEF ManagerInv, ShapeInv
<1>4. shown \in [Calls -> Nat]
  BY ManagerAssumption DEF ManagerInv, ShapeInv, ShownInv, Cut, ManagerAssumption
<1> QED
  BY <1>1, <1>2, <1>3, <1>4 DEF ManagerInv, ShapeInv, TypeOK

\* An exit code is only given for a worker that has exited or could not be started, and comes
\* with all that was written to its pipes unless the post-exit timer or shutdown cut it off;
\* what the cursor has passed is accounted for by one answer each, which shows less only at
\* the limit it was given (process-manager.ts: #finalize, #maybeFinalizeAfterExit,
\* #armPostExitTimer, outputSlice).
THEOREM OutputIsWhole == Spec => []OutputWhole
<1>1. ASSUME ManagerInv PROVE OutputWhole
  <2>1. TypeOK
    BY <1>1, TypesHold
  <2>2. ASSUME NEW p \in Commands, closed[p]
        PROVE  /\ leader[p] \in {"reaped", "lost"}
               /\ ~cutOff[p] => \A s \in Streams : unread[p][s] = <<>>
    BY <1>1, <2>2 DEF ManagerInv, CommandInv, CommandOK, Drained
  <2>3. ASSUME NEW p \in Commands PROVE cursor[p] = TakenOutput(p)
    <3>1. TakenOutput(p) = SumOf(took, Takers(p))
      BY DEF TakenOutput, SumOf, Takers, TakersOf, MapThenSumSet, MapThenFoldSet
    <3> QED
      BY <1>1, <3>1 DEF ManagerInv, CursorInv
  <2>4. ASSUME NEW k \in Calls
        PROVE  shown[k] = took[k] \/ (shown[k] = MaxTokens[k] /\ shown[k] < took[k])
    <3>1. took[k] \in Nat /\ MaxTokens[k] \in Nat /\ shown[k] = Cut(k, took[k])
      BY <1>1, ManagerAssumption DEF ManagerInv, ShapeInv, ShownInv, ManagerAssumption
    <3> QED
      BY <3>1 DEF Cut
  <2> QED
    BY <2>1, <2>2, <2>3, <2>4 DEF OutputWhole
<1> QED
  BY <1>1, ManagerInvariant, PTL

\* "at most 16 unpolled completed records ... with a 60-second expiry": the records of complete
\* commands keep within both limits, each has its timer, and no timer outlives its record
\* (process-manager.ts: #retainCompleted, #remove).
THEOREM RecordsDoExpire == Spec => []RecordsExpire
<1>1. ASSUME ManagerInv PROVE RecordsExpire
  <2>1. processes \ Active = Completed
    BY DEF Active, Completed
  <2>2. Completed \in SUBSET Commands
    BY <1>1, RecordsAreCommands DEF ManagerInv, Completed
  <2>3. TotalOutput(Completed) = SumOf(Outputs, Completed)
    BY <1>1, <2>2, TotalOutputIsSum DEF ManagerInv
  <2> QED
    BY <1>1, <2>1, <2>3 DEF ManagerInv, RecordInv, RecordsExpire
<1> QED
  BY <1>1, ManagerInvariant, PTL
=============================================================================
