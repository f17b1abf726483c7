--------------------------- MODULE CellHostProofs ---------------------------
(***************************************************************************)
(* The cell host, for every number of requests, sessions and cell ids and  *)
(* every value of the limits.                                              *)
(*                                                                         *)
(* First the slots: TypeOK, SlotAccounting and RunningHoldsSlot follow     *)
(* from SlotInv, which every step keeps: one step of the proof per action, *)
(* and under it what happens to the waiters of the actors, to the          *)
(* invariants on handles and to the accounts.                              *)
(*                                                                         *)
(* Then what a client hears of its cells: an observer is never lost        *)
(* (ObserverTracked), and with a client that names each cell once, a cell  *)
(* that holds a slot can be reached (SlotReachable), a cancelled cell      *)
(* never starts (CancelledNeverStarts) and the host implements             *)
(* CellContract (ContractHolds).                                           *)
(***************************************************************************)
EXTENDS CellHostContract, CellHostInvariant, FiniteSetTheorems, TLAPS

-----------------------------------------------------------------------------
(* Command queues                                                          *)

Elements(q) == {q[k] : k \in DOMAIN q}

\* A queue grows by the command that is sent to it.
LEMMA AppendElements ==
  ASSUME NEW S, NEW q \in Seq(S), NEW x \in S
  PROVE  /\ Append(q, x) \in Seq(S)
         /\ Elements(Append(q, x)) = Elements(q) \union {x}
  <1>1. Append(q, x) \in Seq(S)
    OBVIOUS
  <1>2. Len(q) \in Nat /\ DOMAIN q = 1..Len(q)
    OBVIOUS
  <1>3. /\ DOMAIN Append(q, x) = 1..(Len(q) + 1)
        /\ \A k \in 1..Len(q) : Append(q, x)[k] = q[k]
        /\ Append(q, x)[Len(q) + 1] = x
    BY <1>2
  <1>4. Elements(Append(q, x)) \subseteq Elements(q) \union {x}
    BY <1>2, <1>3 DEF Elements
  <1>5. Elements(q) \union {x} \subseteq Elements(Append(q, x))
    BY <1>2, <1>3 DEF Elements
  <1> QED
    BY <1>1, <1>4, <1>5

\* Receiving takes a command off the queue and adds none.
LEMMA TailElements ==
  ASSUME NEW S, NEW q \in Seq(S), q # <<>>
  PROVE  /\ Tail(q) \in Seq(S)
         /\ Head(q) \in S
         /\ Head(q) \in Elements(q)
         /\ Elements(Tail(q)) \subseteq Elements(q)
  <1>1. Len(q) \in Nat \ {0} /\ DOMAIN q = 1..Len(q)
    OBVIOUS
  <1>2. Tail(q) \in Seq(S) /\ Head(q) \in S /\ Head(q) = q[1]
    OBVIOUS
  <1>3. /\ DOMAIN Tail(q) = 1..(Len(q) - 1)
        /\ \A k \in 1..(Len(q) - 1) : Tail(q)[k] = q[k + 1]
    BY <1>1
  <1> QED
    BY <1>1, <1>2, <1>3 DEF Elements

-----------------------------------------------------------------------------
(* Type correctness                                                        *)

\* The initial values are in range.
LEMMA TypeInit == Init => TypeOK
  BY DEF Init, TypeOK, Steps, NoCall

\* A step of a request's task keeps every variable in its range.
LEMMA TypeTask == ASSUME TypeOK, NEW r \in Requests, TaskStep(r) PROVE TypeOK'
  <1>1. CASE RequireSession(r)
    BY <1>1 DEF TypeOK, RequireSession, Goto, sessionVars, slotVars, actorVars, flagVars,
         FirstStep, Steps, Responses, Refusals, Terminal, Calls, Methods
  <1>2. CASE SessionExpired(r)
    BY <1>2 DEF TypeOK, SessionExpired, Answer, sessionVars, slotVars, actorVars, flagVars,
         Goto, Steps, Responses, Refusals, Terminal, Calls
  <1>3. CASE ReserveSessionCell(r)
    BY <1>3 DEF TypeOK, ReserveSessionCell, Goto, sessionVars, actorVars, flagVars, Steps,
         Responses, Refusals, Terminal, Calls
  <1>4. CASE SessionFull(r)
    BY <1>4 DEF TypeOK, SessionFull, Answer, sessionVars, slotVars, actorVars, flagVars, Goto,
         Steps, Responses, Refusals, Terminal, Calls
  <1>5. CASE ReserveHostCell(r)
    BY <1>5 DEF TypeOK, ReserveHostCell, Goto, sessionVars, actorVars, flagVars, Steps,
         Responses, Refusals, Terminal
  <1>6. CASE HostFull(r)
    <2>1. sessionActive' \in [Sessions -> Int]
      BY <1>6 DEF HostFull, TypeOK, Calls
    <2> QED
      BY <1>6, <2>1 DEF TypeOK, HostFull, Answer, sessionVars, actorVars, flagVars, Goto, Steps,
           Responses, Refusals, Terminal, Calls
  <1>7. CASE SpawnCell(r)
    BY <1>7 DEF TypeOK, SpawnCell, Goto, sessionVars, flagVars, Steps, Responses, Refusals,
         Terminal
  <1>8. CASE SpawnFails(r)
    <2>1. sessionActive' \in [Sessions -> Int]
      BY <1>8 DEF SpawnFails, TypeOK, Calls, ReleaseReserved
    <2> QED
      BY <1>8, <2>1 DEF TypeOK, SpawnFails, Answer, ReleaseReserved, sessionVars, actorVars,
           flagVars, Goto, Steps, Responses, Refusals, Terminal, Calls
  <1>9. CASE InsertCancelled(r)
    BY <1>9 DEF TypeOK, InsertCancelled, Goto, slotVars, actorVars, flagVars, Steps, Responses,
         Refusals, Terminal, Calls
  <1>10. CASE InsertDuplicate(r)
    BY <1>10 DEF TypeOK, InsertDuplicate, Answer, Named, Signal, ReleaseReserved, sessionVars,
         Goto, Steps, Responses, Refusals, Terminal, Calls
  <1>11. CASE InsertCell(r)
    BY <1>11 DEF TypeOK, InsertCell, Goto, Named, slotVars, actorVars, flagVars, Steps,
         Responses, Refusals, Terminal, Calls
  <1>12. CASE FindCell(r)
    BY <1>12 DEF TypeOK, FindCell, Goto, Named, sessionVars, slotVars, actorVars, flagVars,
         Steps, Responses, Refusals, Terminal, Calls
  <1>13. CASE CellNotFound(r)
    BY <1>13 DEF TypeOK, CellNotFound, Answer, Named, sessionVars, slotVars, actorVars,
         flagVars, Goto, Steps, Responses, Refusals, Terminal, Calls
  <1>14. CASE RemoveCell(r)
    BY <1>14 DEF TypeOK, RemoveCell, Goto, slotVars, actorVars, flagVars, Steps, Responses,
         Refusals, Terminal, Calls
  <1>15. CASE RequestTermination(r)
    BY <1>15 DEF TypeOK, RequestTermination, Goto, Named, sessionVars, slotVars, actorVars,
         flagVars, Steps, Responses, Refusals, Terminal, Calls
  <1>16. CASE MarkTermination(r)
    BY <1>16 DEF TypeOK, MarkTermination, Answer, Named, slotVars, actorVars, flagVars, Goto,
         Steps, Responses, Refusals, Terminal, Calls
  <1>17. CASE CloseSession(r)
    BY <1>17 DEF TypeOK, CloseSession, Goto, slotVars, actorVars, flagVars, Steps, Responses,
         Refusals, Terminal, Calls
  <1>18. CASE TakeCells(r)
    BY <1>18 DEF TypeOK, TakeCells, Goto, slotVars, actorVars, flagVars, Steps, Responses,
         Refusals, Terminal, Calls
  <1>19. CASE SessionClosed(r)
    BY <1>19 DEF TypeOK, SessionClosed, Answer, sessionVars, slotVars, actorVars, flagVars,
         Goto, Steps, Responses, Refusals, Terminal
  <1>20. ASSUME NEW c \in Requests, ObserveBegin(r, c) PROVE TypeOK'
    BY <1>20 DEF TypeOK, ObserveBegin, Goto, sessionVars, slotVars, actorVars, Steps, Responses,
         Refusals, Terminal
  <1>21. ASSUME NEW c \in Requests, ObserveClaim(r, c) PROVE TypeOK'
    BY <1>21 DEF TypeOK, ObserveClaim, Goto, sessionVars, slotVars, actorVars, Steps, Responses,
         Refusals, Terminal
  <1>22. ASSUME NEW c \in Requests, ObserveRefused(r, c) PROVE TypeOK'
    BY <1>22 DEF TypeOK, ObserveRefused, EndObservation, sessionVars, slotVars, actorVars,
         flagVars, Goto, Cancelled, Steps, Responses, Refusals, Terminal
  <1>23. ASSUME NEW c \in Requests, ObserveSend(r, c) PROVE TypeOK'
    BY <1>23 DEF TypeOK, ObserveSend, Goto, sessionVars, slotVars, flagVars, Steps, Responses,
         Refusals, Terminal
  <1>24. ASSUME NEW c \in Requests, ObserveExpired(r, c) PROVE TypeOK'
    BY <1>24 DEF TypeOK, ObserveExpired, EndObservation, sessionVars, slotVars, actorVars, Goto,
         Cancelled, Steps, Responses, Refusals, Terminal
  <1>25. ASSUME NEW c \in Requests, ObserveEnd(r, c) PROVE TypeOK'
    BY <1>25 DEF TypeOK, ObserveEnd, EndObservation, sessionVars, slotVars, actorVars, Goto,
         Cancelled, Steps, Responses, Refusals, Terminal
  <1>26. ASSUME NEW c \in Requests, ObserveVerdict(r, c) PROVE TypeOK'
    BY <1>26 DEF TypeOK, ObserveVerdict, Goto, Cancelled, Terminal, sessionVars, slotVars,
         actorVars, Steps, Responses, Refusals
  <1>27. ASSUME NEW c \in Requests, ReleaseTerminal(r, c) PROVE TypeOK'
    BY <1>27 DEF TypeOK, ReleaseTerminal, Answer, ReleaseCell, sessionVars, actorVars, flagVars,
         Goto, Steps, Responses, Refusals, Terminal, Calls
  <1>28. ASSUME NEW c \in Requests, TerminateCell(r, c) PROVE TypeOK'
    BY <1>28 DEF TypeOK, TerminateCell, Answer, Signal, sessionVars, slotVars, Goto, Steps,
         Responses, Refusals, Terminal
  <1>29. ASSUME NEW c \in Requests, CloseSessionCell(r, c) PROVE TypeOK'
    BY <1>29 DEF TypeOK, CloseSessionCell, Signal, ReleaseCell, sessionVars, Responses,
         Refusals, Terminal, Calls
  <1> QED
    BY <1>1, <1>2, <1>3, <1>4, <1>5, <1>6, <1>7, <1>8, <1>9, <1>10, <1>11, <1>12, <1>13, <1>14,
         <1>15, <1>16, <1>17, <1>18, <1>19, <1>20, <1>21, <1>22, <1>23, <1>24, <1>25, <1>26,
         <1>27, <1>28, <1>29 DEF TaskStep

\* A step in which an actor receives a command keeps every variable in its range.
LEMMA TypeActor == ASSUME TypeOK, NEW c \in Requests, ActorCommand(c) PROVE TypeOK'
  <1>1. CASE ActorStart(c)
    BY <1>1, TailElements DEF TypeOK, ActorStart, Alive, Command, Receive, sessionVars,
         slotVars, taskVars, flagVars, Terminal
  <1>2. CASE ActorCancel(c)
    BY <1>2, TailElements DEF TypeOK, ActorCancel, Exit, Alive, Command, sessionVars, slotVars,
         flagVars, Waiters, Responses, Refusals, Terminal
  <1>3. CASE ActorTerminate(c)
    BY <1>3, TailElements DEF TypeOK, ActorTerminate, Conclude, Running, Command, Receive,
         sessionVars, slotVars, flagVars, Alive, Responses, Refusals, Terminal
  <1>4. CASE ActorObserveEnding(c)
    BY <1>4, TailElements DEF TypeOK, ActorObserveEnding, Running, Command, Receive,
         sessionVars, slotVars, flagVars, Alive, Responses, Refusals, Terminal
  <1>5. CASE ActorObserve(c)
    BY <1>5, TailElements DEF TypeOK, ActorObserve, Running, Command, Receive, sessionVars,
         slotVars, taskVars, flagVars, Alive, Terminal
  <1>6. CASE ActorRepeat(c)
    BY <1>6, TailElements DEF TypeOK, ActorRepeat, Command, Receive, Terminal, sessionVars,
         slotVars, flagVars, Responses, Refusals
  <1>7. CASE ActorReturn(c)
    BY <1>7, TailElements DEF TypeOK, ActorReturn, Exit, Command, Terminal, sessionVars,
         slotVars, flagVars, Waiters, Responses, Refusals
  <1>8. CASE ActorOrphaned(c)
    BY <1>8 DEF TypeOK, ActorOrphaned, Exit, sessionVars, slotVars, flagVars, Waiters,
         Responses, Refusals, Terminal
  <1> QED
    BY <1>1, <1>2, <1>3, <1>4, <1>5, <1>6, <1>7, <1>8 DEF ActorCommand

\* Each step keeps every variable in its range.
LEMMA TypeStep == TypeOK /\ [Next]_vars => TypeOK'
  <1> SUFFICES ASSUME TypeOK, [Next]_vars PROVE TypeOK'
    OBVIOUS
  <1>1. ASSUME NEW s \in Sessions, OpenSession(s) PROVE TypeOK'
    BY <1>1 DEF TypeOK, OpenSession, slotVars, taskVars, actorVars, flagVars
  <1>2. ASSUME NEW r \in Requests, NEW m \in Methods, NEW s \in Sessions,
               NEW i \in CellIds, NEW t \in BOOLEAN, Arrive(r, m, s, i, t)
        PROVE  TypeOK'
    BY <1>2 DEF TypeOK, Arrive, Goto, Calls, Steps, sessionVars, slotVars, actorVars, flagVars
  <1>3. ASSUME NEW c \in Requests, NEW status \in Terminal, ActorConclude(c, status)
        PROVE  TypeOK'
    BY <1>3 DEF TypeOK, ActorConclude, Running, Alive, Conclude, Responses, sessionVars,
                slotVars, flagVars
  <1>4. ASSUME NEW c \in Requests, ActorYield(c) PROVE TypeOK'
    BY <1>4 DEF TypeOK, ActorYield, Running, Alive, Responses, sessionVars, slotVars, flagVars
  <1>5. CASE UNCHANGED vars
    BY <1>5 DEF TypeOK, vars, sessionVars, slotVars, taskVars, actorVars, flagVars
  <1> QED
    BY <1>1, <1>2, <1>3, <1>4, <1>5, TypeTask, TypeActor DEF Next

\* The specification keeps every variable in its range.
THEOREM TypeCorrect == Spec => []TypeOK
  BY TypeInit, TypeStep, PTL DEF Spec

-----------------------------------------------------------------------------
(* Waiters                                                                 *)

\* Only requests wait.
LEMMA WaiterTypes == TypeOK => \A c \in Requests : Waiters(c) \subseteq Requests
  BY DEF TypeOK, Waiters

\* A command that is received was waiting, and receiving it makes nobody else wait.
LEMMA ReceiveWaiters ==
  ASSUME TypeOK, NEW c \in Requests, commands[c] # <<>>, Receive(c),
         \/ observer' = observer
         \/ observer' = [observer EXCEPT ![c] = None]
         \/ observer' = [observer EXCEPT ![c] = Command(c)]
  PROVE  /\ \A d \in Requests : Waiters(d)' \subseteq Waiters(d)
         /\ Command(c) = None \/ Command(c) \in Waiters(c)
  <1>1. commands[c] \in Seq(Requests \union {None})
    BY DEF TypeOK
  <1>2. /\ Head(commands[c]) \in Elements(commands[c])
        /\ Elements(Tail(commands[c])) \subseteq Elements(commands[c])
    BY <1>1, TailElements
  <1>3. \A d \in Requests : Waiters(d) = ({observer[d]} \union Elements(commands[d])) \ {None}
    BY DEF Waiters, Elements
  <1>4. \A d \in Requests : Waiters(d)' = ({observer'[d]} \union Elements(commands'[d])) \ {None}
    BY DEF Waiters, Elements
  <1>5. commands'[c] = Tail(commands[c]) /\ \A d \in Requests \ {c} : commands'[d] = commands[d]
    BY DEF Receive, TypeOK
  <1>6. \A d \in Requests : observer'[d] \in {observer[d], None} \union (IF d = c THEN {Command(c)} ELSE {})
    BY DEF TypeOK
  <1> QED
    BY <1>2, <1>3, <1>4, <1>5, <1>6 DEF Command

\* Sending a command makes at most its sender wait.
LEMMA SendWaiters ==
  ASSUME TypeOK, NEW c \in Requests, NEW x \in Requests \union {None},
         commands' = [commands EXCEPT ![c] = Append(@, x)], observer' = observer
  PROVE  /\ Waiters(c)' \subseteq Waiters(c) \union {x}
         /\ \A d \in Requests \ {c} : Waiters(d)' \subseteq Waiters(d)
  <1>1. commands[c] \in Seq(Requests \union {None})
    BY DEF TypeOK
  <1>2. Elements(Append(commands[c], x)) = Elements(commands[c]) \union {x}
    BY <1>1, AppendElements
  <1>3. \A d \in Requests : Waiters(d) = ({observer[d]} \union Elements(commands[d])) \ {None}
    BY DEF Waiters, Elements
  <1>4. \A d \in Requests : Waiters(d)' = ({observer'[d]} \union Elements(commands'[d])) \ {None}
    BY DEF Waiters, Elements
  <1>5. commands'[c] = Append(commands[c], x) /\ \A d \in Requests \ {c} : commands'[d] = commands[d]
    BY DEF TypeOK
  <1> QED
    BY <1>2, <1>3, <1>4, <1>5

-----------------------------------------------------------------------------
(* Accounts                                                                *)

\* A step that moves no slot keeps the accounts.
LEMMA Unmoved ==
  ASSUME SlotAccounting,
         hostActive' = hostActive, sessionActive' = sessionActive,
         \A q \in Requests : HoldsSlot(q) \/ pc[q] = "reserve_host" => call'[q] = call[q],
         \A q \in Requests : /\ HoldsSlot(q)' <=> HoldsSlot(q)
                             /\ pc'[q] = "reserve_host" <=> pc[q] = "reserve_host"
  PROVE  SlotAccounting'
  <1>1. HostHolders' = HostHolders
    BY DEF HostHolders
  <1>2. \A s \in Sessions : SessionHolders(s)' = SessionHolders(s)
    BY DEF SessionHolders
  <1> QED
    BY <1>1, <1>2 DEF SlotAccounting

\* The holders are requests, and there are finitely many of those.
LEMMA HoldersFinite ==
  IsFiniteSet(HostHolders) /\ \A s \in Sessions : IsFiniteSet(SessionHolders(s))
  BY HostAssumption, FS_Subset DEF HostHolders, SessionHolders

\* A host slot is given back.
LEMMA HostDrop ==
  ASSUME TypeOK, SlotAccounting, NEW c \in HostHolders,
         HostHolders' = HostHolders \ {c}, hostActive' = hostActive - 1
  PROVE  hostActive' = Cardinality(HostHolders)' /\ hostActive' <= MaxHostCells
  <1>1. Cardinality(HostHolders \ {c}) = Cardinality(HostHolders) - 1
    BY HoldersFinite, FS_RemoveElement
  <1> QED
    BY <1>1, HostAssumption DEF SlotAccounting, TypeOK

\* A session slot is given back.
LEMMA SessionDrop ==
  ASSUME TypeOK, SlotAccounting, NEW c \in Requests, call[c].session \in Sessions,
         c \in SessionHolders(call[c].session),
         \A s \in Sessions : SessionHolders(s)' = SessionHolders(s) \ {c},
         sessionActive' = [sessionActive EXCEPT ![call[c].session] = @ - 1]
  PROVE  \A s \in Sessions : /\ sessionActive'[s] = Cardinality(SessionHolders(s))'
                             /\ sessionActive'[s] <= MaxSessionCells
  <1> SUFFICES ASSUME NEW s \in Sessions
               PROVE  /\ sessionActive'[s] = Cardinality(SessionHolders(s))'
                      /\ sessionActive'[s] <= MaxSessionCells
    OBVIOUS
  <1>1. sessionActive[s] = Cardinality(SessionHolders(s)) /\ sessionActive[s] <= MaxSessionCells
    BY DEF SlotAccounting
  <1>2. sessionActive[s] \in Int
    BY DEF TypeOK
  <1>3. CASE s = call[c].session
    <2>1. Cardinality(SessionHolders(s) \ {c}) = Cardinality(SessionHolders(s)) - 1
      BY <1>3, HoldersFinite, FS_RemoveElement
    <2>2. sessionActive'[s] = sessionActive[s] - 1
      BY <1>3 DEF TypeOK
    <2>3. SessionHolders(s)' = SessionHolders(s) \ {c}
      OBVIOUS
    <2>4. Cardinality(SessionHolders(s))' = sessionActive[s] - 1
      BY <1>1, <2>1, <2>3
    <2> QED
      BY <1>1, <1>2, <2>2, <2>4, HostAssumption
  <1>4. CASE s # call[c].session
    <2>1. SessionHolders(s) \ {c} = SessionHolders(s)
      BY <1>4 DEF SessionHolders
    <2>2. sessionActive'[s] = sessionActive[s]
      BY <1>4 DEF TypeOK
    <2> QED
      BY <1>1, <2>1, <2>2
  <1> QED
    BY <1>3, <1>4

\* The request c loses its slot, and nobody else does.
LEMMA Released ==
  ASSUME TypeOK, SlotAccounting, NEW c \in Requests, call[c].session \in Sessions, call' = call,
         HoldsSlot(c), ~HoldsSlot(c)', pc'[c] # "reserve_host",
         \A q \in Requests \ {c} : /\ HoldsSlot(q)' <=> HoldsSlot(q)
                                   /\ pc'[q] = "reserve_host" <=> pc[q] = "reserve_host",
         hostActive' = hostActive - 1,
         sessionActive' = [sessionActive EXCEPT ![call[c].session] = @ - 1]
  PROVE  SlotAccounting'
  <1>1. c \in HostHolders /\ HostHolders' = HostHolders \ {c}
    BY DEF HostHolders
  <1>2. /\ c \in SessionHolders(call[c].session)
        /\ \A s \in Sessions : SessionHolders(s)' = SessionHolders(s) \ {c}
    BY DEF SessionHolders
  <1> QED
    BY <1>1, <1>2, HostDrop, SessionDrop DEF SlotAccounting

-----------------------------------------------------------------------------
(* The invariant is inductive                                              *)

\* A step of a request's task keeps the invariant.
LEMMA SlotTask == ASSUME TypeOK, SlotInv, NEW r \in Requests, TaskStep(r) PROVE SlotInv'
  <1> USE DEF SlotInv, HandleInv
  <1>1. CASE RequireSession(r)
    <2>1. call[r].method \in {"exec", "wait", "terminate"}
      BY <1>1 DEF TypeOK, RequireSession, Calls, Methods
    <2>2. /\ FirstStep["exec"] = "reserve"
          /\ FirstStep["wait"] = "find"
          /\ FirstStep["terminate"] = "mark"
      BY DEF FirstStep
    <2>3. \E step \in {"reserve", "find", "mark"} :
             /\ pc' = [pc EXCEPT ![r] = step]
             /\ step = "reserve" => call[r].method = "exec"
      BY <1>1, <2>1, <2>2 DEF RequireSession, Goto
    <2>4. \A d \in Requests : Waiters(d)' = Waiters(d)
      BY <1>1 DEF Waiters, RequireSession, Goto, sessionVars, slotVars, actorVars, flagVars,
           FirstStep
    <2>5. WaiterInv'
      BY <1>1, <2>4, <2>3 DEF TypeOK, WaiterInv, ProgressInv, Answered, Unlisted, Fresh,
           RequireSession, sessionVars, slotVars, actorVars, flagVars, Terminal
    <2>6. ProgressInv' /\ DuplicateInv' /\ VerdictInv' /\ ActiveInv'
      BY <1>1, <2>3 DEF TypeOK, ProgressInv, Private, Answered, Unlisted, Fresh, Single,
           DuplicateInv, VerdictInv, ActiveInv, HoldsSlot, RequireSession, sessionVars,
           slotVars, actorVars, flagVars, Terminal
    <2>7. SlotAccounting'
      <3>1. \A q \in Requests : /\ HoldsSlot(q)' <=> HoldsSlot(q)
                                /\ pc'[q] = "reserve_host" <=> pc[q] = "reserve_host"
        BY <1>1, <2>3 DEF TypeOK, HoldsSlot, ProgressInv, Unlisted, Fresh, Answered,
             RequireSession, sessionVars, slotVars, actorVars, flagVars, Terminal
      <3> QED
        BY <1>1, <3>1, Unmoved DEF RequireSession, slotVars
    <2> QED
      BY <2>5, <2>6, <2>7 DEF SlotInv, HandleInv
  <1>2. CASE SessionExpired(r)
    <2>1. \A d \in Requests : Waiters(d)' = Waiters(d)
      BY <1>2 DEF Waiters, SessionExpired, Answer, sessionVars, slotVars, actorVars, flagVars,
           Goto
    <2>2. WaiterInv'
      BY <1>2, <2>1 DEF TypeOK, WaiterInv, ProgressInv, Answered, Unlisted, Fresh,
           SessionExpired, Answer, sessionVars, slotVars, actorVars, flagVars, Goto, Terminal
    <2>3. ProgressInv' /\ DuplicateInv' /\ VerdictInv' /\ ActiveInv'
      BY <1>2 DEF TypeOK, ProgressInv, Private, Answered, Unlisted, Fresh, Single, DuplicateInv,
           VerdictInv, ActiveInv, HoldsSlot, SessionExpired, Answer, sessionVars, slotVars,
           actorVars, flagVars, Goto, Terminal
    <2>4. SlotAccounting'
      <3>1. \A q \in Requests : /\ HoldsSlot(q)' <=> HoldsSlot(q)
                                /\ pc'[q] = "reserve_host" <=> pc[q] = "reserve_host"
        BY <1>2 DEF TypeOK, HoldsSlot, ProgressInv, Unlisted, Fresh, Answered, SessionExpired,
             Answer, sessionVars, slotVars, actorVars, flagVars, Goto, Terminal
      <3> QED
        BY <1>2, <3>1, Unmoved DEF SessionExpired, slotVars
    <2> QED
      BY <2>2, <2>3, <2>4 DEF SlotInv, HandleInv
  <1>3. CASE ReserveSessionCell(r)
    <2>1. \A d \in Requests : Waiters(d)' = Waiters(d)
      BY <1>3 DEF Waiters, ReserveSessionCell, Goto, sessionVars, actorVars, flagVars
    <2>2. WaiterInv'
      BY <1>3, <2>1 DEF TypeOK, WaiterInv, ProgressInv, Answered, Unlisted, Fresh,
           ReserveSessionCell, Goto, sessionVars, actorVars, flagVars, Terminal
    <2>3. ProgressInv' /\ DuplicateInv' /\ VerdictInv' /\ ActiveInv'
      BY <1>3 DEF TypeOK, ProgressInv, Private, Answered, Unlisted, Fresh, Single, DuplicateInv,
           VerdictInv, ActiveInv, HoldsSlot, ReserveSessionCell, Goto, sessionVars, actorVars,
           flagVars, Terminal
    <2>4. SlotAccounting'
      <3>1. r \notin SessionHolders(call[r].session) /\ call[r].session \in Sessions
        BY <1>3 DEF TypeOK, Calls, SessionHolders, HoldsSlot, ProgressInv, Fresh,
           ReserveSessionCell
      <3>2. /\ HostHolders' = HostHolders
            /\ \A s \in Sessions : SessionHolders(s)' = SessionHolders(s)
                                     \union (IF s = call[r].session THEN {r} ELSE {})
        BY <1>3 DEF TypeOK, HostHolders, SessionHolders, HoldsSlot, ReserveSessionCell, Goto
      <3>3. Cardinality(SessionHolders(call[r].session) \union {r})
              = Cardinality(SessionHolders(call[r].session)) + 1
        BY <3>1, HoldersFinite, FS_AddElement
      <3>4. sessionActive[call[r].session] < MaxSessionCells /\ hostActive' = hostActive
        BY <1>3 DEF ReserveSessionCell
      <3>5. \A s \in Sessions : /\ sessionActive[s] \in Int
                               /\ sessionActive'[s] = IF s = call[r].session THEN sessionActive[s] + 1
                                                      ELSE sessionActive[s]
        BY <1>3 DEF TypeOK, ReserveSessionCell
      <3>6. ASSUME NEW s \in Sessions PROVE sessionActive'[s] = Cardinality(SessionHolders(s))'
        <4>1. sessionActive[s] = Cardinality(SessionHolders(s))
          BY DEF SlotAccounting
        <4>2. CASE s = call[r].session
          BY <3>2, <3>3, <3>5, <4>1, <4>2
        <4>3. CASE s # call[r].session
          BY <3>2, <3>5, <4>1, <4>3
        <4> QED
          BY <4>2, <4>3
      <3>7. \A s \in Sessions : sessionActive'[s] <= MaxSessionCells
        BY <3>1, <3>4, <3>5, HostAssumption DEF SlotAccounting
      <3> QED
        BY <3>2, <3>4, <3>6, <3>7 DEF SlotAccounting
    <2> QED
      BY <2>2, <2>3, <2>4 DEF SlotInv, HandleInv
  <1>4. CASE SessionFull(r)
    <2>1. \A d \in Requests : Waiters(d)' = Waiters(d)
      BY <1>4 DEF Waiters, SessionFull, Answer, sessionVars, slotVars, actorVars, flagVars, Goto
    <2>2. WaiterInv'
      BY <1>4, <2>1 DEF TypeOK, WaiterInv, ProgressInv, Answered, Unlisted, Fresh, SessionFull,
           Answer, sessionVars, slotVars, actorVars, flagVars, Goto, Terminal
    <2>3. ProgressInv' /\ DuplicateInv' /\ VerdictInv' /\ ActiveInv'
      BY <1>4 DEF TypeOK, ProgressInv, Private, Answered, Unlisted, Fresh, Single, DuplicateInv,
           VerdictInv, ActiveInv, HoldsSlot, SessionFull, Answer, sessionVars, slotVars,
           actorVars, flagVars, Goto, Terminal
    <2>4. SlotAccounting'
      <3>1. \A q \in Requests : /\ HoldsSlot(q)' <=> HoldsSlot(q)
                                /\ pc'[q] = "reserve_host" <=> pc[q] = "reserve_host"
        BY <1>4 DEF TypeOK, HoldsSlot, ProgressInv, Unlisted, Fresh, Answered, SessionFull,
             Answer, sessionVars, slotVars, actorVars, flagVars, Goto, Terminal
      <3> QED
        BY <1>4, <3>1, Unmoved DEF SessionFull, slotVars
    <2> QED
      BY <2>2, <2>3, <2>4 DEF SlotInv, HandleInv
  <1>5. CASE ReserveHostCell(r)
    <2>1. \A d \in Requests : Waiters(d)' = Waiters(d)
      BY <1>5 DEF Waiters, ReserveHostCell, Goto, sessionVars, actorVars, flagVars
    <2>2. WaiterInv'
      BY <1>5, <2>1 DEF TypeOK, WaiterInv, ProgressInv, Answered, Unlisted, Fresh,
           ReserveHostCell, Goto, sessionVars, actorVars, flagVars, Terminal
    <2>3. ProgressInv' /\ DuplicateInv' /\ VerdictInv' /\ ActiveInv'
      BY <1>5 DEF TypeOK, ProgressInv, Private, Answered, Unlisted, Fresh, Single, DuplicateInv,
           VerdictInv, ActiveInv, HoldsSlot, ReserveHostCell, Goto, sessionVars, actorVars,
           flagVars, Terminal
    <2>4. SlotAccounting'
      <3>1. r \notin HostHolders
        BY <1>5 DEF TypeOK, HostHolders, HoldsSlot, ProgressInv, Fresh, ReserveHostCell
      <3>2. /\ HostHolders' = HostHolders \union {r}
            /\ \A s \in Sessions : SessionHolders(s)' = SessionHolders(s)
        BY <1>5 DEF TypeOK, HostHolders, SessionHolders, HoldsSlot, ReserveHostCell, Goto,
           ProgressInv,
                 Answered
      <3>3. Cardinality(HostHolders \union {r}) = Cardinality(HostHolders) + 1
        BY <3>1, HoldersFinite, FS_AddElement
      <3> QED
        BY <1>5, <3>2, <3>3, HostAssumption DEF SlotAccounting, TypeOK, ReserveHostCell
    <2> QED
      BY <2>2, <2>3, <2>4 DEF SlotInv, HandleInv
  <1>6. CASE HostFull(r)
    <2>1. \A d \in Requests : Waiters(d)' = Waiters(d)
      BY <1>6 DEF Waiters, HostFull, Answer, sessionVars, actorVars, flagVars, Goto
    <2>2. WaiterInv'
      BY <1>6, <2>1 DEF TypeOK, WaiterInv, ProgressInv, Answered, Unlisted, Fresh, HostFull,
           Answer, sessionVars, actorVars, flagVars, Goto, Terminal
    <2>3. ProgressInv' /\ DuplicateInv' /\ VerdictInv' /\ ActiveInv'
      BY <1>6 DEF TypeOK, ProgressInv, Private, Answered, Unlisted, Fresh, Single, DuplicateInv,
           VerdictInv, ActiveInv, HoldsSlot, HostFull, Answer, sessionVars, actorVars, flagVars,
           Goto, Terminal
    <2>4. SlotAccounting'
      <3>1. r \in SessionHolders(call[r].session) /\ call[r].session \in Sessions
        BY <1>6 DEF TypeOK, Calls, SessionHolders, HoldsSlot, HostFull
      <3>2. /\ HostHolders' = HostHolders
            /\ \A s \in Sessions : SessionHolders(s)' = SessionHolders(s) \ {r}
        BY <1>6 DEF TypeOK, HostHolders, SessionHolders, HoldsSlot, HostFull, Answer, Goto,
                 ProgressInv, Fresh, Answered
      <3>3. \A s \in Sessions : /\ sessionActive'[s] = Cardinality(SessionHolders(s))'
                               /\ sessionActive'[s] <= MaxSessionCells
        BY <1>6, <3>1, <3>2, SessionDrop DEF HostFull
      <3> QED
        BY <1>6, <3>2, <3>3 DEF SlotAccounting, HostFull
    <2> QED
      BY <2>2, <2>3, <2>4 DEF SlotInv, HandleInv
  <1>7. CASE SpawnCell(r)
    <2>1. \A d \in Requests : Waiters(d)' = Waiters(d)
      BY <1>7 DEF Waiters, SpawnCell, Goto, sessionVars, flagVars
    <2>2. WaiterInv'
      BY <1>7, <2>1 DEF TypeOK, WaiterInv, ProgressInv, Answered, Unlisted, Fresh, SpawnCell,
           Goto, sessionVars, flagVars, Terminal
    <2>3. ProgressInv' /\ DuplicateInv' /\ VerdictInv' /\ ActiveInv'
      BY <1>7 DEF TypeOK, ProgressInv, Private, Answered, Unlisted, Fresh, Single, DuplicateInv,
           VerdictInv, ActiveInv, HoldsSlot, SpawnCell, Goto, sessionVars, flagVars, Terminal
    <2>4. SlotAccounting'
      <3>1. \A q \in Requests : /\ HoldsSlot(q)' <=> HoldsSlot(q)
                                /\ pc'[q] = "reserve_host" <=> pc[q] = "reserve_host"
        BY <1>7 DEF TypeOK, HoldsSlot, ProgressInv, Unlisted, Fresh, Answered, DuplicateInv,
             SpawnCell, Goto, sessionVars, flagVars, Terminal
      <3> QED
        BY <1>7, <3>1, Unmoved DEF SpawnCell
    <2> QED
      BY <2>2, <2>3, <2>4 DEF SlotInv, HandleInv
  <1>8. CASE SpawnFails(r)
    <2>1. \A d \in Requests : Waiters(d)' = Waiters(d)
      BY <1>8 DEF Waiters, SpawnFails, Answer, ReleaseReserved, sessionVars, actorVars,
           flagVars, Goto
    <2>2. WaiterInv'
      BY <1>8, <2>1 DEF TypeOK, WaiterInv, ProgressInv, Answered, Unlisted, Fresh, SpawnFails,
           Answer, ReleaseReserved, sessionVars, actorVars, flagVars, Goto, Terminal
    <2>3. ProgressInv' /\ DuplicateInv' /\ VerdictInv' /\ ActiveInv'
      BY <1>8 DEF TypeOK, ProgressInv, Private, Answered, Unlisted, Fresh, Single, DuplicateInv,
           VerdictInv, ActiveInv, HoldsSlot, SpawnFails, Answer, ReleaseReserved, sessionVars,
           actorVars, flagVars, Goto, Terminal
    <2>4. SlotAccounting'
      <3>1. HoldsSlot(r) /\ call[r].session \in Sessions
        BY <1>8 DEF TypeOK, Calls, HoldsSlot, ProgressInv, Fresh, Answered, DuplicateInv,
           Private,
         SpawnFails
      <3>2. ~HoldsSlot(r)' /\ pc'[r] # "reserve_host"
        BY <1>8 DEF TypeOK, HoldsSlot, ProgressInv, Unlisted, Fresh, Answered, Private,
           DuplicateInv,
         SpawnFails, Answer, ReleaseReserved, flagVars, Goto
      <3>3. \A q \in Requests \ {r} : /\ HoldsSlot(q)' <=> HoldsSlot(q)
                                      /\ pc'[q] = "reserve_host" <=> pc[q] = "reserve_host"
        BY <1>8 DEF TypeOK, HoldsSlot, ProgressInv, Answered, DuplicateInv, SpawnFails, Answer,
         ReleaseReserved, flagVars, Goto
      <3>4. /\ call' = call /\ hostActive' = hostActive - 1
            /\ sessionActive' = [sessionActive EXCEPT ![call[r].session] = @ - 1]
        BY <1>8 DEF SpawnFails, Answer, ReleaseReserved, flagVars, Goto
      <3> QED
        BY <3>1, <3>2, <3>3, <3>4, Released
    <2> QED
      BY <2>2, <2>3, <2>4 DEF SlotInv, HandleInv
  <1>9. CASE InsertCancelled(r)
    <2>1. \A d \in Requests : Waiters(d)' = Waiters(d)
      BY <1>9 DEF Waiters, InsertCancelled, Goto, slotVars, actorVars, flagVars
    <2>2. WaiterInv'
      BY <1>9, <2>1 DEF TypeOK, WaiterInv, ProgressInv, Answered, Unlisted, Fresh,
           InsertCancelled, Goto, slotVars, actorVars, flagVars, Terminal
    <2>3. ProgressInv' /\ DuplicateInv' /\ VerdictInv' /\ ActiveInv'
      BY <1>9 DEF TypeOK, ProgressInv, Private, Answered, Unlisted, Fresh, Single, DuplicateInv,
           VerdictInv, ActiveInv, HoldsSlot, InsertCancelled, Goto, slotVars, actorVars,
           flagVars, Terminal
    <2>4. SlotAccounting'
      <3>1. \A q \in Requests : /\ HoldsSlot(q)' <=> HoldsSlot(q)
                                /\ pc'[q] = "reserve_host" <=> pc[q] = "reserve_host"
        BY <1>9 DEF TypeOK, HoldsSlot, ProgressInv, Unlisted, Fresh, Answered, InsertCancelled,
             Goto, slotVars, actorVars, flagVars, Terminal
      <3> QED
        BY <1>9, <3>1, Unmoved DEF InsertCancelled, slotVars
    <2> QED
      BY <2>2, <2>3, <2>4 DEF SlotInv, HandleInv
  <1>10. CASE InsertDuplicate(r)
    <2>1. \A d \in Requests : Waiters(d)' \subseteq Waiters(d)
      BY <1>10 DEF Waiters, InsertDuplicate, Answer, Named, Signal, ReleaseReserved,
           sessionVars, Goto
    <2>2. WaiterInv'
      BY <1>10, <2>1 DEF TypeOK, WaiterInv, ProgressInv, Answered, Unlisted, Fresh, Calls,
           InsertDuplicate, Answer, Named, Signal, ReleaseReserved, sessionVars, Goto, Terminal
    <2>3. ProgressInv' /\ DuplicateInv' /\ VerdictInv' /\ ActiveInv'
      BY <1>10 DEF TypeOK, ProgressInv, Private, Answered, Unlisted, Fresh, Single,
           DuplicateInv, VerdictInv, ActiveInv, HoldsSlot, Calls, InsertDuplicate, Answer,
           Named, Signal, ReleaseReserved, sessionVars, Goto, Terminal
    <2>4. SlotAccounting'
      <3>1. HoldsSlot(r) /\ call[r].session \in Sessions
        BY <1>10 DEF TypeOK, Calls, HoldsSlot, ProgressInv, Fresh, Answered, DuplicateInv,
           Private,
         InsertDuplicate
      <3>2. ~HoldsSlot(r)' /\ pc'[r] # "reserve_host"
        BY <1>10 DEF TypeOK, HoldsSlot, ProgressInv, Unlisted, Fresh, Answered, Private,
           DuplicateInv,
         InsertDuplicate, Answer, Named, Signal, ReleaseReserved, Goto
      <3>3. \A q \in Requests \ {r} : /\ HoldsSlot(q)' <=> HoldsSlot(q)
                                      /\ pc'[q] = "reserve_host" <=> pc[q] = "reserve_host"
        BY <1>10 DEF TypeOK, HoldsSlot, ProgressInv, Answered, DuplicateInv, InsertDuplicate,
           Answer,
         Named, Signal, ReleaseReserved, Goto
      <3>4. /\ call' = call /\ hostActive' = hostActive - 1
            /\ sessionActive' = [sessionActive EXCEPT ![call[r].session] = @ - 1]
        BY <1>10 DEF InsertDuplicate, Answer, Named, Signal, ReleaseReserved, Goto
      <3> QED
        BY <3>1, <3>2, <3>3, <3>4, Released
    <2> QED
      BY <2>2, <2>3, <2>4 DEF SlotInv, HandleInv
  <1>11. CASE InsertCell(r)
    <2>1. \A d \in Requests : Waiters(d)' = Waiters(d)
      BY <1>11 DEF Waiters, InsertCell, Goto, Named, slotVars, actorVars, flagVars
    <2>2. WaiterInv'
      BY <1>11, <2>1 DEF TypeOK, WaiterInv, ProgressInv, Answered, Unlisted, Fresh, Calls,
           InsertCell, Goto, Named, slotVars, actorVars, flagVars, Terminal
    <2>3. ProgressInv' /\ DuplicateInv' /\ VerdictInv' /\ ActiveInv'
      BY <1>11 DEF TypeOK, ProgressInv, Private, Answered, Unlisted, Fresh, Single,
           DuplicateInv, VerdictInv, ActiveInv, HoldsSlot, Calls, InsertCell, Goto, Named,
           slotVars, actorVars, flagVars, Terminal
    <2>4. SlotAccounting'
      <3>1. \A q \in Requests : /\ HoldsSlot(q)' <=> HoldsSlot(q)
                                /\ pc'[q] = "reserve_host" <=> pc[q] = "reserve_host"
        BY <1>11 DEF TypeOK, HoldsSlot, ProgressInv, Unlisted, Fresh, Answered, InsertCell,
             Goto, Named, slotVars, actorVars, flagVars, Terminal
      <3> QED
        BY <1>11, <3>1, Unmoved DEF InsertCell, slotVars
    <2> QED
      BY <2>2, <2>3, <2>4 DEF SlotInv, HandleInv
  <1>12. CASE FindCell(r)
    <2>1. \A d \in Requests : Waiters(d)' = Waiters(d)
      BY <1>12 DEF Waiters, FindCell, Goto, Named, sessionVars, slotVars, actorVars, flagVars
    <2>2. WaiterInv'
      BY <1>12, <2>1 DEF TypeOK, WaiterInv, ProgressInv, Answered, Unlisted, Fresh, Calls,
           FindCell, Goto, Named, sessionVars, slotVars, actorVars, flagVars, Terminal
    <2>3. ProgressInv' /\ DuplicateInv' /\ VerdictInv' /\ ActiveInv'
      BY <1>12 DEF TypeOK, ProgressInv, Private, Answered, Unlisted, Fresh, Single,
           DuplicateInv, VerdictInv, ActiveInv, HoldsSlot, Calls, FindCell, Goto, Named,
           sessionVars, slotVars, actorVars, flagVars, Terminal
    <2>4. SlotAccounting'
      <3>1. \A q \in Requests : /\ HoldsSlot(q)' <=> HoldsSlot(q)
                                /\ pc'[q] = "reserve_host" <=> pc[q] = "reserve_host"
        BY <1>12 DEF TypeOK, HoldsSlot, ProgressInv, Unlisted, Fresh, Answered, FindCell, Goto,
             Named, sessionVars, slotVars, actorVars, flagVars, Terminal
      <3> QED
        BY <1>12, <3>1, Unmoved DEF FindCell, slotVars
    <2> QED
      BY <2>2, <2>3, <2>4 DEF SlotInv, HandleInv
  <1>13. CASE CellNotFound(r)
    <2>1. \A d \in Requests : Waiters(d)' = Waiters(d)
      BY <1>13 DEF Waiters, CellNotFound, Answer, Named, sessionVars, slotVars, actorVars,
           flagVars, Goto
    <2>2. WaiterInv'
      BY <1>13, <2>1 DEF TypeOK, WaiterInv, ProgressInv, Answered, Unlisted, Fresh, Calls,
           CellNotFound, Answer, Named, sessionVars, slotVars, actorVars, flagVars, Goto,
           Terminal
    <2>3. ProgressInv' /\ DuplicateInv' /\ VerdictInv' /\ ActiveInv'
      BY <1>13 DEF TypeOK, ProgressInv, Private, Answered, Unlisted, Fresh, Single,
           DuplicateInv, VerdictInv, ActiveInv, HoldsSlot, Calls, CellNotFound, Answer, Named,
           sessionVars, slotVars, actorVars, flagVars, Goto, Terminal
    <2>4. SlotAccounting'
      <3>1. \A q \in Requests : /\ HoldsSlot(q)' <=> HoldsSlot(q)
                                /\ pc'[q] = "reserve_host" <=> pc[q] = "reserve_host"
        BY <1>13 DEF TypeOK, HoldsSlot, ProgressInv, Unlisted, Fresh, Answered, CellNotFound,
             Answer, Named, sessionVars, slotVars, actorVars, flagVars, Goto, Terminal
      <3> QED
        BY <1>13, <3>1, Unmoved DEF CellNotFound, slotVars
    <2> QED
      BY <2>2, <2>3, <2>4 DEF SlotInv, HandleInv
  <1>14. CASE RemoveCell(r)
    <2>1. \A s \in Sessions, i \in CellIds : cells'[s][i] \in {None, cells[s][i]}
      BY <1>14 DEF TypeOK, RemoveCell, Calls
    <2>2. \A d \in Requests : Waiters(d)' = Waiters(d)
      BY <1>14 DEF Waiters, RemoveCell, Goto, slotVars, actorVars, flagVars
    <2>3. WaiterInv'
      BY <1>14, <2>2, <2>1, HostAssumption DEF TypeOK, WaiterInv, ProgressInv, Answered,
           Unlisted, Fresh, Calls, RemoveCell, Goto, slotVars, actorVars, flagVars, Terminal
    <2>4. ProgressInv' /\ DuplicateInv' /\ VerdictInv' /\ ActiveInv'
      BY <1>14, <2>1, HostAssumption DEF TypeOK, ProgressInv, Private, Answered, Unlisted,
           Fresh, Single, DuplicateInv, VerdictInv, ActiveInv, HoldsSlot, Calls, RemoveCell,
           Goto, slotVars, actorVars, flagVars, Terminal
    <2>5. SlotAccounting'
      <3>1. \A q \in Requests : /\ HoldsSlot(q)' <=> HoldsSlot(q)
                                /\ pc'[q] = "reserve_host" <=> pc[q] = "reserve_host"
        BY <1>14 DEF TypeOK, HoldsSlot, ProgressInv, Unlisted, Fresh, Answered, RemoveCell,
             Goto, slotVars, actorVars, flagVars, Terminal
      <3> QED
        BY <1>14, <3>1, Unmoved DEF RemoveCell, slotVars
    <2> QED
      BY <2>3, <2>4, <2>5 DEF SlotInv, HandleInv
  <1>15. CASE RequestTermination(r)
    <2>1. \A d \in Requests : Waiters(d)' = Waiters(d)
      BY <1>15 DEF Waiters, RequestTermination, Goto, Named, sessionVars, slotVars, actorVars,
           flagVars
    <2>2. WaiterInv'
      BY <1>15, <2>1 DEF TypeOK, WaiterInv, ProgressInv, Answered, Unlisted, Fresh, Calls,
           RequestTermination, Goto, Named, sessionVars, slotVars, actorVars, flagVars, Terminal
    <2>3. ProgressInv' /\ DuplicateInv' /\ VerdictInv' /\ ActiveInv'
      BY <1>15 DEF TypeOK, ProgressInv, Private, Answered, Unlisted, Fresh, Single,
           DuplicateInv, VerdictInv, ActiveInv, HoldsSlot, Calls, RequestTermination, Goto,
           Named, sessionVars, slotVars, actorVars, flagVars, Terminal
    <2>4. SlotAccounting'
      <3>1. \A q \in Requests : /\ HoldsSlot(q)' <=> HoldsSlot(q)
                                /\ pc'[q] = "reserve_host" <=> pc[q] = "reserve_host"
        BY <1>15 DEF TypeOK, HoldsSlot, ProgressInv, Unlisted, Fresh, Answered,
             RequestTermination, Goto, Named, sessionVars, slotVars, actorVars, flagVars,
             Terminal
      <3> QED
        BY <1>15, <3>1, Unmoved DEF RequestTermination, slotVars
    <2> QED
      BY <2>2, <2>3, <2>4 DEF SlotInv, HandleInv
  <1>16. CASE MarkTermination(r)
    <2>1. \A d \in Requests : Waiters(d)' = Waiters(d)
      BY <1>16 DEF Waiters, MarkTermination, Answer, Named, slotVars, actorVars, flagVars, Goto
    <2>2. WaiterInv'
      BY <1>16, <2>1 DEF TypeOK, WaiterInv, ProgressInv, Answered, Unlisted, Fresh, Calls,
           MarkTermination, Answer, Named, slotVars, actorVars, flagVars, Goto, Terminal
    <2>3. ProgressInv' /\ DuplicateInv' /\ VerdictInv' /\ ActiveInv'
      BY <1>16 DEF TypeOK, ProgressInv, Private, Answered, Unlisted, Fresh, Single,
           DuplicateInv, VerdictInv, ActiveInv, HoldsSlot, Calls, MarkTermination, Answer,
           Named, slotVars, actorVars, flagVars, Goto, Terminal
    <2>4. SlotAccounting'
      <3>1. \A q \in Requests : /\ HoldsSlot(q)' <=> HoldsSlot(q)
                                /\ pc'[q] = "reserve_host" <=> pc[q] = "reserve_host"
        BY <1>16 DEF TypeOK, HoldsSlot, ProgressInv, Unlisted, Fresh, Answered, MarkTermination,
             Answer, Named, slotVars, actorVars, flagVars, Goto, Terminal
      <3> QED
        BY <1>16, <3>1, Unmoved DEF MarkTermination, slotVars
    <2> QED
      BY <2>2, <2>3, <2>4 DEF SlotInv, HandleInv
  <1>17. CASE CloseSession(r)
    <2>1. \A d \in Requests : Waiters(d)' = Waiters(d)
      BY <1>17 DEF Waiters, CloseSession, Goto, slotVars, actorVars, flagVars
    <2>2. WaiterInv'
      BY <1>17, <2>1 DEF TypeOK, WaiterInv, ProgressInv, Answered, Unlisted, Fresh,
           CloseSession, Goto, slotVars, actorVars, flagVars, Terminal
    <2>3. ProgressInv' /\ DuplicateInv' /\ VerdictInv' /\ ActiveInv'
      BY <1>17 DEF TypeOK, ProgressInv, Private, Answered, Unlisted, Fresh, Single,
           DuplicateInv, VerdictInv, ActiveInv, HoldsSlot, CloseSession, Goto, slotVars,
           actorVars, flagVars, Terminal
    <2>4. SlotAccounting'
      <3>1. \A q \in Requests : /\ HoldsSlot(q)' <=> HoldsSlot(q)
                                /\ pc'[q] = "reserve_host" <=> pc[q] = "reserve_host"
        BY <1>17 DEF TypeOK, HoldsSlot, ProgressInv, Unlisted, Fresh, Answered, CloseSession,
             Goto, slotVars, actorVars, flagVars, Terminal
      <3> QED
        BY <1>17, <3>1, Unmoved DEF CloseSession, slotVars
    <2> QED
      BY <2>2, <2>3, <2>4 DEF SlotInv, HandleInv
  <1>18. CASE TakeCells(r)
    <2>1. \A s \in Sessions, i \in CellIds : cells'[s][i] \in {None, cells[s][i]}
      BY <1>18 DEF TypeOK, TakeCells, Calls
    <2>2. \A c \in held'[r] : \E i \in CellIds : cells[call[r].session][i] = c
      BY <1>18 DEF TypeOK, TakeCells, Calls
    <2>3. \A d \in Requests : Waiters(d)' = Waiters(d)
      BY <1>18 DEF Waiters, TakeCells, Goto, slotVars, actorVars, flagVars
    <2>4. WaiterInv'
      BY <1>18, <2>3, <2>1, HostAssumption, <2>2 DEF TypeOK, WaiterInv, ProgressInv, Answered,
           Unlisted, Fresh, Calls, TakeCells, Goto, slotVars, actorVars, flagVars, Terminal
    <2>5. ProgressInv' /\ DuplicateInv' /\ VerdictInv' /\ ActiveInv'
      BY <1>18, <2>1, HostAssumption, <2>2 DEF TypeOK, ProgressInv, Private, Answered,
           Unlisted, Fresh, Single, DuplicateInv, VerdictInv, ActiveInv, HoldsSlot, Calls,
           TakeCells, Goto, slotVars, actorVars, flagVars, Terminal
    <2>6. SlotAccounting'
      <3>1. \A q \in Requests : /\ HoldsSlot(q)' <=> HoldsSlot(q)
                                /\ pc'[q] = "reserve_host" <=> pc[q] = "reserve_host"
        BY <1>18 DEF TypeOK, HoldsSlot, ProgressInv, Unlisted, Fresh, Answered, TakeCells, Goto,
             slotVars, actorVars, flagVars, Terminal
      <3> QED
        BY <1>18, <3>1, Unmoved DEF TakeCells, slotVars
    <2> QED
      BY <2>4, <2>5, <2>6 DEF SlotInv, HandleInv
  <1>19. CASE SessionClosed(r)
    <2>1. \A d \in Requests : Waiters(d)' = Waiters(d)
      BY <1>19 DEF Waiters, SessionClosed, Answer, sessionVars, slotVars, actorVars, flagVars,
           Goto
    <2>2. WaiterInv'
      BY <1>19, <2>1 DEF TypeOK, WaiterInv, ProgressInv, Answered, Unlisted, Fresh,
           SessionClosed, Answer, sessionVars, slotVars, actorVars, flagVars, Goto, Terminal
    <2>3. ProgressInv' /\ DuplicateInv' /\ VerdictInv' /\ ActiveInv'
      BY <1>19 DEF TypeOK, ProgressInv, Private, Answered, Unlisted, Fresh, Single,
           DuplicateInv, VerdictInv, ActiveInv, HoldsSlot, SessionClosed, Answer, sessionVars,
           slotVars, actorVars, flagVars, Goto, Terminal
    <2>4. SlotAccounting'
      <3>1. \A q \in Requests : /\ HoldsSlot(q)' <=> HoldsSlot(q)
                                /\ pc'[q] = "reserve_host" <=> pc[q] = "reserve_host"
        BY <1>19 DEF TypeOK, HoldsSlot, ProgressInv, Unlisted, Fresh, Answered, DuplicateInv,
             SessionClosed, Answer, sessionVars, slotVars, actorVars, flagVars, Goto, Terminal
      <3> QED
        BY <1>19, <3>1, Unmoved DEF SessionClosed, slotVars
    <2> QED
      BY <2>2, <2>3, <2>4 DEF SlotInv, HandleInv
  <1>20. ASSUME NEW c \in Requests, ObserveBegin(r, c) PROVE SlotInv'
    <2>1. \A d \in Requests : Waiters(d)' = Waiters(d)
      BY <1>20 DEF Waiters, ObserveBegin, Goto, sessionVars, slotVars, actorVars
    <2>2. WaiterInv'
      BY <1>20, <2>1 DEF TypeOK, WaiterInv, ProgressInv, Answered, Unlisted, Fresh,
           ObserveBegin, Goto, sessionVars, slotVars, actorVars, Terminal
    <2>3. ProgressInv' /\ DuplicateInv' /\ VerdictInv' /\ ActiveInv'
      BY <1>20 DEF TypeOK, ProgressInv, Private, Answered, Unlisted, Fresh, Single,
           DuplicateInv, VerdictInv, ActiveInv, HoldsSlot, ObserveBegin, Goto, sessionVars,
           slotVars, actorVars, Terminal
    <2>4. SlotAccounting'
      <3>1. \A q \in Requests : /\ HoldsSlot(q)' <=> HoldsSlot(q)
                                /\ pc'[q] = "reserve_host" <=> pc[q] = "reserve_host"
        BY <1>20 DEF TypeOK, HoldsSlot, ProgressInv, Unlisted, Fresh, Answered, ObserveBegin,
             Goto, sessionVars, slotVars, actorVars, Terminal
      <3> QED
        BY <1>20, <3>1, Unmoved DEF ObserveBegin, slotVars
    <2> QED
      BY <2>2, <2>3, <2>4 DEF SlotInv, HandleInv
  <1>21. ASSUME NEW c \in Requests, ObserveClaim(r, c) PROVE SlotInv'
    <2>1. \A d \in Requests : Waiters(d)' = Waiters(d)
      BY <1>21 DEF Waiters, ObserveClaim, Goto, sessionVars, slotVars, actorVars
    <2>2. WaiterInv'
      BY <1>21, <2>1 DEF TypeOK, WaiterInv, ProgressInv, Answered, Unlisted, Fresh,
           ObserveClaim, Goto, sessionVars, slotVars, actorVars, Terminal
    <2>3. ProgressInv' /\ DuplicateInv' /\ VerdictInv' /\ ActiveInv'
      BY <1>21 DEF TypeOK, ProgressInv, Private, Answered, Unlisted, Fresh, Single,
           DuplicateInv, VerdictInv, ActiveInv, HoldsSlot, ObserveClaim, Goto, sessionVars,
           slotVars, actorVars, Terminal
    <2>4. SlotAccounting'
      <3>1. \A q \in Requests : /\ HoldsSlot(q)' <=> HoldsSlot(q)
                                /\ pc'[q] = "reserve_host" <=> pc[q] = "reserve_host"
        BY <1>21 DEF TypeOK, HoldsSlot, ProgressInv, Unlisted, Fresh, Answered, ObserveClaim,
             Goto, sessionVars, slotVars, actorVars, Terminal
      <3> QED
        BY <1>21, <3>1, Unmoved DEF ObserveClaim, slotVars
    <2> QED
      BY <2>2, <2>3, <2>4 DEF SlotInv, HandleInv
  <1>22. ASSUME NEW c \in Requests, ObserveRefused(r, c) PROVE SlotInv'
    <2>1. \A d \in Requests : Waiters(d)' = Waiters(d)
      BY <1>22 DEF Waiters, ObserveRefused, EndObservation, sessionVars, slotVars, actorVars,
           flagVars, Goto, Cancelled
    <2>2. WaiterInv'
      BY <1>22, <2>1 DEF TypeOK, WaiterInv, ProgressInv, Answered, Unlisted, Fresh,
           ObserveRefused, EndObservation, sessionVars, slotVars, actorVars, flagVars, Goto,
           Cancelled, Terminal
    <2>3. ProgressInv' /\ DuplicateInv' /\ VerdictInv' /\ ActiveInv'
      BY <1>22 DEF TypeOK, ProgressInv, Private, Answered, Unlisted, Fresh, Single,
           DuplicateInv, VerdictInv, ActiveInv, HoldsSlot, ObserveRefused, EndObservation,
           sessionVars, slotVars, actorVars, flagVars, Goto, Cancelled, Terminal
    <2>4. SlotAccounting'
      <3>1. \A q \in Requests : /\ HoldsSlot(q)' <=> HoldsSlot(q)
                                /\ pc'[q] = "reserve_host" <=> pc[q] = "reserve_host"
        BY <1>22 DEF TypeOK, HoldsSlot, ProgressInv, Unlisted, Fresh, Answered, DuplicateInv,
             ObserveRefused, EndObservation, sessionVars, slotVars, actorVars, flagVars, Goto,
             Cancelled, Terminal
      <3> QED
        BY <1>22, <3>1, Unmoved DEF ObserveRefused, slotVars
    <2> QED
      BY <2>2, <2>3, <2>4 DEF SlotInv, HandleInv
  <1>23. ASSUME NEW c \in Requests, ObserveSend(r, c) PROVE SlotInv'
    <2>1. c \in held[r] /\ pc[r] = "send"
      BY <1>23 DEF ObserveSend
    <2>2. reply[r] = "none"
      BY <2>1 DEF ProgressInv, Answered
    <2>3. \A d \in held[r] : d = c
      BY <2>1 DEF ProgressInv, Single
    <2>4. held[r] = {c}
      BY <2>1, <2>3
    <2>5. /\ Waiters(c)' \subseteq Waiters(c) \union {r}
          /\ \A d \in Requests \ {c} : Waiters(d)' \subseteq Waiters(d)
      BY <1>23, SendWaiters DEF ObserveSend, Goto, sessionVars, slotVars, flagVars
    <2>6. /\ pc'[r] = "await" /\ held' = held /\ reply' = reply
            /\ \A q \in Requests \ {r} : pc'[q] = pc[q]
      BY <1>23 DEF TypeOK, ObserveSend, Goto
    <2>7. WaiterInv'
      BY <2>1, <2>2, <2>4, <2>6, <2>5, WaiterTypes DEF WaiterInv, ProgressInv, Answered,
           Unlisted, Fresh
    <2>8. ProgressInv' /\ DuplicateInv' /\ VerdictInv' /\ ActiveInv'
      BY <1>23, <2>1, <2>2, <2>4 DEF TypeOK, ProgressInv, Private, Answered, Unlisted, Fresh,
           Single, DuplicateInv, VerdictInv, ActiveInv, HoldsSlot, ObserveSend, Goto,
           sessionVars, slotVars, flagVars, Terminal
    <2>9. SlotAccounting'
      <3>1. \A q \in Requests : /\ HoldsSlot(q)' <=> HoldsSlot(q)
                                /\ pc'[q] = "reserve_host" <=> pc[q] = "reserve_host"
        BY <1>23 DEF TypeOK, HoldsSlot, ProgressInv, Unlisted, Fresh, Answered, ObserveSend,
             Goto, sessionVars, slotVars, flagVars, Terminal
      <3> QED
        BY <1>23, <3>1, Unmoved DEF ObserveSend, slotVars
    <2> QED
      BY <2>7, <2>8, <2>9 DEF SlotInv, HandleInv
  <1>24. ASSUME NEW c \in Requests, ObserveExpired(r, c) PROVE SlotInv'
    <2>1. \A d \in Requests : Waiters(d)' = Waiters(d)
      BY <1>24 DEF Waiters, ObserveExpired, EndObservation, sessionVars, slotVars, actorVars,
           Goto, Cancelled
    <2>2. WaiterInv'
      BY <1>24, <2>1 DEF TypeOK, WaiterInv, ProgressInv, Answered, Unlisted, Fresh,
           ObserveExpired, EndObservation, sessionVars, slotVars, actorVars, Goto, Cancelled,
           Terminal
    <2>3. ProgressInv' /\ DuplicateInv' /\ VerdictInv' /\ ActiveInv'
      BY <1>24 DEF TypeOK, ProgressInv, Private, Answered, Unlisted, Fresh, Single,
           DuplicateInv, VerdictInv, ActiveInv, HoldsSlot, ObserveExpired, EndObservation,
           sessionVars, slotVars, actorVars, Goto, Cancelled, Terminal
    <2>4. SlotAccounting'
      <3>1. \A q \in Requests : /\ HoldsSlot(q)' <=> HoldsSlot(q)
                                /\ pc'[q] = "reserve_host" <=> pc[q] = "reserve_host"
        BY <1>24 DEF TypeOK, HoldsSlot, ProgressInv, Unlisted, Fresh, Answered, DuplicateInv,
             ObserveExpired, EndObservation, sessionVars, slotVars, actorVars, Goto, Cancelled,
             Terminal
      <3> QED
        BY <1>24, <3>1, Unmoved DEF ObserveExpired, slotVars
    <2> QED
      BY <2>2, <2>3, <2>4 DEF SlotInv, HandleInv
  <1>25. ASSUME NEW c \in Requests, ObserveEnd(r, c) PROVE SlotInv'
    <2>1. \A d \in Requests : Waiters(d)' = Waiters(d)
      BY <1>25 DEF Waiters, ObserveEnd, EndObservation, sessionVars, slotVars, actorVars, Goto,
           Cancelled
    <2>2. WaiterInv'
      BY <1>25, <2>1 DEF TypeOK, WaiterInv, ProgressInv, Answered, Unlisted, Fresh, ObserveEnd,
           EndObservation, sessionVars, slotVars, actorVars, Goto, Cancelled, Terminal
    <2>3. ProgressInv' /\ DuplicateInv' /\ VerdictInv' /\ ActiveInv'
      BY <1>25 DEF TypeOK, ProgressInv, Private, Answered, Unlisted, Fresh, Single,
           DuplicateInv, VerdictInv, ActiveInv, HoldsSlot, ObserveEnd, EndObservation,
           sessionVars, slotVars, actorVars, Goto, Cancelled, Terminal
    <2>4. SlotAccounting'
      <3>1. \A q \in Requests : /\ HoldsSlot(q)' <=> HoldsSlot(q)
                                /\ pc'[q] = "reserve_host" <=> pc[q] = "reserve_host"
        BY <1>25 DEF TypeOK, HoldsSlot, ProgressInv, Unlisted, Fresh, Answered, DuplicateInv,
             ObserveEnd, EndObservation, sessionVars, slotVars, actorVars, Goto, Cancelled,
             Terminal
      <3> QED
        BY <1>25, <3>1, Unmoved DEF ObserveEnd, slotVars
    <2> QED
      BY <2>2, <2>3, <2>4 DEF SlotInv, HandleInv
  <1>26. ASSUME NEW c \in Requests, ObserveVerdict(r, c) PROVE SlotInv'
    <2>1. \A d \in Requests : Waiters(d)' = Waiters(d)
      BY <1>26 DEF Waiters, ObserveVerdict, Goto, Cancelled, sessionVars, slotVars, actorVars
    <2>2. WaiterInv'
      BY <1>26, <2>1 DEF TypeOK, WaiterInv, ProgressInv, Answered, Unlisted, Fresh,
           ObserveVerdict, Goto, Cancelled, Terminal, sessionVars, slotVars, actorVars
    <2>3. ProgressInv' /\ DuplicateInv' /\ VerdictInv' /\ ActiveInv'
      BY <1>26 DEF TypeOK, ProgressInv, Private, Answered, Unlisted, Fresh, Single,
           DuplicateInv, VerdictInv, ActiveInv, HoldsSlot, ObserveVerdict, Goto, Cancelled,
           Terminal, sessionVars, slotVars, actorVars
    <2>4. SlotAccounting'
      <3>1. \A q \in Requests : /\ HoldsSlot(q)' <=> HoldsSlot(q)
                                /\ pc'[q] = "reserve_host" <=> pc[q] = "reserve_host"
        BY <1>26 DEF TypeOK, HoldsSlot, ProgressInv, Unlisted, Fresh, Answered, ObserveVerdict,
             Goto, Cancelled, Terminal, sessionVars, slotVars, actorVars
      <3> QED
        BY <1>26, <3>1, Unmoved DEF ObserveVerdict, slotVars
    <2> QED
      BY <2>2, <2>3, <2>4 DEF SlotInv, HandleInv
  <1>27. ASSUME NEW c \in Requests, ReleaseTerminal(r, c) PROVE SlotInv'
    <2>1. \A d \in Requests : Waiters(d)' = Waiters(d)
      BY <1>27 DEF Waiters, ReleaseTerminal, Answer, ReleaseCell, sessionVars, actorVars,
           flagVars, Goto
    <2>2. ProgressInv'
      BY <1>27 DEF TypeOK, ProgressInv, Private, Answered, Unlisted, Fresh, Single,
           ReleaseTerminal, Answer, ReleaseCell, sessionVars, actorVars, flagVars, Goto,
           Terminal
    <2>3. DuplicateInv'
      BY <1>27 DEF TypeOK, DuplicateInv, ProgressInv, Private, Unlisted, Fresh, Answered,
           ReleaseTerminal, Answer, ReleaseCell, sessionVars, actorVars, flagVars, Goto,
           Terminal
    <2>4. WaiterInv'
      BY <1>27, <2>1 DEF TypeOK, WaiterInv, ProgressInv, Answered, Unlisted, Fresh,
           ReleaseTerminal, Answer, ReleaseCell, sessionVars, actorVars, flagVars, Goto,
           Terminal
    <2>5. VerdictInv'
      BY <1>27 DEF TypeOK, VerdictInv, ProgressInv, Private, Unlisted, Fresh, Single, Answered,
           ReleaseTerminal, Answer, ReleaseCell, sessionVars, actorVars, flagVars, Goto,
           Terminal
    <2>6. ActiveInv'
      BY <1>27 DEF TypeOK, ActiveInv, HoldsSlot, ProgressInv, Unlisted, Fresh, Answered,
           VerdictInv, ReleaseTerminal, Answer, ReleaseCell, sessionVars, actorVars, flagVars,
           Goto, Terminal
    <2>7. SlotAccounting'
      <3>1. CASE ~counted[c]
        <4>1. \A q \in Requests : /\ HoldsSlot(q)' <=> HoldsSlot(q)
                                  /\ pc'[q] = "reserve_host" <=> pc[q] = "reserve_host"
          BY <1>27, <3>1 DEF TypeOK, HoldsSlot, ProgressInv, Answered, DuplicateInv,
             ReleaseTerminal,
           Answer, ReleaseCell, flagVars, Goto
        <4> QED
          BY <1>27, <3>1, <4>1, Unmoved DEF ReleaseTerminal, Answer, ReleaseCell, flagVars, Goto
      <3>2. CASE counted[c]
        <4>1. HoldsSlot(c) /\ call[c].session \in Sessions
          BY <1>27, <3>2 DEF TypeOK, Calls, HoldsSlot, ProgressInv, Fresh, Answered,
             DuplicateInv, Private,
         ReleaseTerminal
        <4>2. ~HoldsSlot(c)' /\ pc'[c] # "reserve_host"
          BY <1>27, <3>2 DEF TypeOK, HoldsSlot, ProgressInv, Unlisted, Fresh, Answered,
             Private, DuplicateInv,
         ReleaseTerminal, Answer, ReleaseCell, flagVars, Goto
        <4>3. \A q \in Requests \ {c} : /\ HoldsSlot(q)' <=> HoldsSlot(q)
                                        /\ pc'[q] = "reserve_host" <=> pc[q] = "reserve_host"
          BY <1>27, <3>2 DEF TypeOK, HoldsSlot, ProgressInv, Answered, DuplicateInv,
             ReleaseTerminal, Answer,
         ReleaseCell, flagVars, Goto
        <4>4. /\ call' = call /\ hostActive' = hostActive - 1
              /\ sessionActive' = [sessionActive EXCEPT ![call[c].session] = @ - 1]
          BY <1>27, <3>2 DEF ReleaseTerminal, Answer, ReleaseCell, flagVars, Goto
        <4> QED
          BY <4>1, <4>2, <4>3, <4>4, Released
      <3> QED
        BY <3>1, <3>2
    <2> QED
      BY <2>2, <2>3, <2>4, <2>5, <2>6, <2>7 DEF SlotInv, HandleInv
  <1>28. ASSUME NEW c \in Requests, TerminateCell(r, c) PROVE SlotInv'
    <2>1. \A d \in Requests : Waiters(d)' \subseteq Waiters(d)
      BY <1>28 DEF Waiters, TerminateCell, Answer, Signal, sessionVars, slotVars, Goto
    <2>2. WaiterInv'
      BY <1>28, <2>1 DEF TypeOK, WaiterInv, ProgressInv, Answered, Unlisted, Fresh,
           TerminateCell, Answer, Signal, sessionVars, slotVars, Goto, Terminal
    <2>3. ProgressInv' /\ DuplicateInv' /\ VerdictInv' /\ ActiveInv'
      BY <1>28 DEF TypeOK, ProgressInv, Private, Answered, Unlisted, Fresh, Single,
           DuplicateInv, VerdictInv, ActiveInv, HoldsSlot, TerminateCell, Answer, Signal,
           sessionVars, slotVars, Goto, Terminal
    <2>4. SlotAccounting'
      <3>1. \A q \in Requests : /\ HoldsSlot(q)' <=> HoldsSlot(q)
                                /\ pc'[q] = "reserve_host" <=> pc[q] = "reserve_host"
        BY <1>28 DEF TypeOK, HoldsSlot, ProgressInv, Unlisted, Fresh, Answered, DuplicateInv,
             TerminateCell, Answer, Signal, sessionVars, slotVars, Goto, Terminal
      <3> QED
        BY <1>28, <3>1, Unmoved DEF TerminateCell, slotVars
    <2> QED
      BY <2>2, <2>3, <2>4 DEF SlotInv, HandleInv
  <1>29. ASSUME NEW c \in Requests, CloseSessionCell(r, c) PROVE SlotInv'
    <2>1. \A d \in Requests : Waiters(d)' \subseteq Waiters(d)
      BY <1>29 DEF Waiters, CloseSessionCell, Signal, ReleaseCell, sessionVars
    <2>2. WaiterInv'
      BY <1>29, <2>1 DEF TypeOK, WaiterInv, ProgressInv, Answered, Unlisted, Fresh,
           CloseSessionCell, Signal, ReleaseCell, sessionVars, Terminal
    <2>3. ProgressInv' /\ DuplicateInv' /\ VerdictInv' /\ ActiveInv'
      BY <1>29 DEF TypeOK, ProgressInv, Private, Answered, Unlisted, Fresh, Single,
           DuplicateInv, VerdictInv, ActiveInv, HoldsSlot, CloseSessionCell, Signal,
           ReleaseCell, sessionVars, Terminal
    <2>4. SlotAccounting'
      <3>1. CASE ~counted[c]
        <4>1. \A q \in Requests : /\ HoldsSlot(q)' <=> HoldsSlot(q)
                                  /\ pc'[q] = "reserve_host" <=> pc[q] = "reserve_host"
          BY <1>29, <3>1 DEF TypeOK, HoldsSlot, ProgressInv, Answered, DuplicateInv,
             CloseSessionCell,
           Signal, ReleaseCell
        <4> QED
          BY <1>29, <3>1, <4>1, Unmoved DEF CloseSessionCell, Signal, ReleaseCell
      <3>2. CASE counted[c]
        <4>1. HoldsSlot(c) /\ call[c].session \in Sessions
          BY <1>29, <3>2 DEF TypeOK, Calls, HoldsSlot, ProgressInv, Fresh, Answered,
             DuplicateInv, Private,
         CloseSessionCell
        <4>2. ~HoldsSlot(c)' /\ pc'[c] # "reserve_host"
          BY <1>29, <3>2 DEF TypeOK, HoldsSlot, ProgressInv, Unlisted, Fresh, Answered,
             Private, DuplicateInv,
         CloseSessionCell, Signal, ReleaseCell
        <4>3. \A q \in Requests \ {c} : /\ HoldsSlot(q)' <=> HoldsSlot(q)
                                        /\ pc'[q] = "reserve_host" <=> pc[q] = "reserve_host"
          BY <1>29, <3>2 DEF TypeOK, HoldsSlot, ProgressInv, Answered, DuplicateInv,
             CloseSessionCell, Signal,
         ReleaseCell
        <4>4. /\ call' = call /\ hostActive' = hostActive - 1
              /\ sessionActive' = [sessionActive EXCEPT ![call[c].session] = @ - 1]
          BY <1>29, <3>2 DEF CloseSessionCell, Signal, ReleaseCell
        <4> QED
          BY <4>1, <4>2, <4>3, <4>4, Released
      <3> QED
        BY <3>1, <3>2
    <2> QED
      BY <2>2, <2>3, <2>4 DEF SlotInv, HandleInv
  <1> QED
    BY <1>1, <1>2, <1>3, <1>4, <1>5, <1>6, <1>7, <1>8, <1>9, <1>10, <1>11, <1>12, <1>13, <1>14,
         <1>15, <1>16, <1>17, <1>18, <1>19, <1>20, <1>21, <1>22, <1>23, <1>24, <1>25, <1>26,
         <1>27, <1>28, <1>29 DEF TaskStep

\* A step in which an actor receives a command keeps the invariant.
LEMMA SlotActor == ASSUME TypeOK, SlotInv, NEW c \in Requests, ActorCommand(c) PROVE SlotInv'
  <1> USE DEF SlotInv, HandleInv
  <1>1. CASE ActorStart(c)
    <2>1. /\ \A d \in Requests : Waiters(d)' \subseteq Waiters(d)
          /\ Command(c) = None \/ Command(c) \in Waiters(c)
      BY <1>1, ReceiveWaiters DEF ActorStart, Alive, sessionVars, slotVars, taskVars, flagVars
    <2>2. WaiterInv'
      BY <1>1, <2>1, WaiterTypes DEF TypeOK, WaiterInv, ProgressInv, Answered, Unlisted, Fresh,
           ActorStart, sessionVars, slotVars, taskVars, flagVars, Terminal
    <2>3. ProgressInv' /\ DuplicateInv' /\ VerdictInv' /\ ActiveInv'
      BY <1>1 DEF TypeOK, ProgressInv, Private, Answered, Unlisted, Fresh, Single, DuplicateInv,
           VerdictInv, ActiveInv, HoldsSlot, ActorStart, Alive, Command, Receive, sessionVars,
           slotVars, taskVars, flagVars, Terminal
    <2>4. SlotAccounting'
      <3>1. \A q \in Requests : /\ HoldsSlot(q)' <=> HoldsSlot(q)
                                /\ pc'[q] = "reserve_host" <=> pc[q] = "reserve_host"
        BY <1>1 DEF TypeOK, HoldsSlot, ProgressInv, Unlisted, Fresh, Answered, ActorStart,
             Alive, Command, Receive, sessionVars, slotVars, taskVars, flagVars, Terminal
      <3> QED
        BY <1>1, <3>1, Unmoved DEF ActorStart, slotVars, taskVars
    <2> QED
      BY <2>2, <2>3, <2>4 DEF SlotInv, HandleInv
  <1>2. CASE ActorCancel(c)
    <2>1. \A d \in Requests : Waiters(d)' \subseteq Waiters(d)
      BY <1>2 DEF Waiters, ActorCancel, Exit, Alive, Command, sessionVars, slotVars, flagVars
    <2>2. \A w \in Requests : (reply'[w] = reply[w]) \/ (w \in Waiters(c) /\ reply'[w] \in {"terminated", "runtime_crashed"})
      BY <1>2, <2>1, HostAssumption DEF TypeOK, ActorCancel, Exit, Alive, Command, sessionVars,
           slotVars, flagVars
    <2>3. WaiterInv'
      BY <1>2, <2>1, WaiterTypes, <2>2 DEF TypeOK, WaiterInv, ProgressInv, Answered, Unlisted,
           Fresh, ActorCancel, Exit, Alive, Command, sessionVars, slotVars, flagVars, Terminal
    <2>4. ProgressInv' /\ DuplicateInv' /\ VerdictInv' /\ ActiveInv'
      BY <1>2, <2>1, <2>2 DEF TypeOK, ProgressInv, Private, Answered, Unlisted, Fresh, Single,
           DuplicateInv, VerdictInv, ActiveInv, HoldsSlot, WaiterInv, ActorCancel, Exit, Alive,
           Command, sessionVars, slotVars, flagVars, Terminal
    <2>5. SlotAccounting'
      <3>1. \A q \in Requests : /\ HoldsSlot(q)' <=> HoldsSlot(q)
                                /\ pc'[q] = "reserve_host" <=> pc[q] = "reserve_host"
        BY <1>2, <2>1, <2>2 DEF TypeOK, HoldsSlot, ProgressInv, Unlisted, Fresh, Answered,
             WaiterInv, ActorCancel, Exit, Alive, Command, sessionVars, slotVars, flagVars,
             Terminal
      <3> QED
        BY <1>2, <3>1, Unmoved DEF ActorCancel, slotVars
    <2> QED
      BY <2>3, <2>4, <2>5 DEF SlotInv, HandleInv
  <1>3. CASE ActorTerminate(c)
    <2>1. /\ \A d \in Requests : Waiters(d)' \subseteq Waiters(d)
          /\ Command(c) = None \/ Command(c) \in Waiters(c)
      BY <1>3, ReceiveWaiters DEF ActorTerminate, Conclude, Running, sessionVars, slotVars,
           flagVars, Alive
    <2>2. \A w \in Requests : (reply'[w] = reply[w]) \/ (w \in Waiters(c) /\ reply'[w] \in {"terminated"})
      BY <1>3, <2>1, HostAssumption DEF TypeOK, Waiters, ActorTerminate, Conclude, Running,
           Receive, sessionVars, slotVars, flagVars, Alive
    <2>3. WaiterInv'
      BY <1>3, <2>1, WaiterTypes, <2>2 DEF TypeOK, WaiterInv, ProgressInv, Answered, Unlisted,
           Fresh, ActorTerminate, sessionVars, slotVars, flagVars, Terminal
    <2>4. ProgressInv' /\ DuplicateInv' /\ VerdictInv' /\ ActiveInv'
      BY <1>3, <2>1, <2>2 DEF TypeOK, ProgressInv, Private, Answered, Unlisted, Fresh, Single,
           DuplicateInv, VerdictInv, ActiveInv, HoldsSlot, WaiterInv, ActorTerminate, Conclude,
           Running, Command, Receive, sessionVars, slotVars, flagVars, Alive, Terminal
    <2>5. SlotAccounting'
      <3>1. \A q \in Requests : /\ HoldsSlot(q)' <=> HoldsSlot(q)
                                /\ pc'[q] = "reserve_host" <=> pc[q] = "reserve_host"
        BY <1>3, <2>1, <2>2 DEF TypeOK, HoldsSlot, ProgressInv, Unlisted, Fresh, Answered,
             WaiterInv, ActorTerminate, Conclude, Running, Command, Receive, sessionVars,
             slotVars, flagVars, Alive, Terminal
      <3> QED
        BY <1>3, <3>1, Unmoved DEF ActorTerminate, slotVars
    <2> QED
      BY <2>3, <2>4, <2>5 DEF SlotInv, HandleInv
  <1>4. CASE ActorObserveEnding(c)
    <2>1. /\ \A d \in Requests : Waiters(d)' \subseteq Waiters(d)
          /\ Command(c) = None \/ Command(c) \in Waiters(c)
      BY <1>4, ReceiveWaiters DEF ActorObserveEnding, Running, sessionVars, slotVars, flagVars,
           Alive
    <2>2. \A w \in Requests : (reply'[w] = reply[w]) \/ (w \in Waiters(c) /\ reply'[w] \in {"terminated"})
      BY <1>4, <2>1, HostAssumption DEF TypeOK, ActorObserveEnding, Running, Receive,
           sessionVars, slotVars, flagVars, Alive
    <2>3. WaiterInv'
      BY <1>4, <2>1, WaiterTypes, <2>2 DEF TypeOK, WaiterInv, ProgressInv, Answered, Unlisted,
           Fresh, ActorObserveEnding, sessionVars, slotVars, flagVars, Terminal
    <2>4. ProgressInv' /\ DuplicateInv' /\ VerdictInv' /\ ActiveInv'
      BY <1>4, <2>1, <2>2 DEF TypeOK, ProgressInv, Private, Answered, Unlisted, Fresh, Single,
           DuplicateInv, VerdictInv, ActiveInv, HoldsSlot, WaiterInv, ActorObserveEnding,
           Running, Command, Receive, sessionVars, slotVars, flagVars, Alive, Terminal
    <2>5. SlotAccounting'
      <3>1. \A q \in Requests : /\ HoldsSlot(q)' <=> HoldsSlot(q)
                                /\ pc'[q] = "reserve_host" <=> pc[q] = "reserve_host"
        BY <1>4, <2>1, <2>2 DEF TypeOK, HoldsSlot, ProgressInv, Unlisted, Fresh, Answered,
             WaiterInv, ActorObserveEnding, Running, Command, Receive, sessionVars, slotVars,
             flagVars, Alive, Terminal
      <3> QED
        BY <1>4, <3>1, Unmoved DEF ActorObserveEnding, slotVars
    <2> QED
      BY <2>3, <2>4, <2>5 DEF SlotInv, HandleInv
  <1>5. CASE ActorObserve(c)
    <2>1. /\ \A d \in Requests : Waiters(d)' \subseteq Waiters(d)
          /\ Command(c) = None \/ Command(c) \in Waiters(c)
      BY <1>5, ReceiveWaiters DEF ActorObserve, Running, sessionVars, slotVars, taskVars,
           flagVars, Alive
    <2>2. WaiterInv'
      BY <1>5, <2>1, WaiterTypes DEF TypeOK, WaiterInv, ProgressInv, Answered, Unlisted, Fresh,
           ActorObserve, sessionVars, slotVars, taskVars, flagVars, Terminal
    <2>3. ProgressInv' /\ DuplicateInv' /\ VerdictInv' /\ ActiveInv'
      BY <1>5 DEF TypeOK, ProgressInv, Private, Answered, Unlisted, Fresh, Single, DuplicateInv,
           VerdictInv, ActiveInv, HoldsSlot, ActorObserve, Running, Command, Receive,
           sessionVars, slotVars, taskVars, flagVars, Alive, Terminal
    <2>4. SlotAccounting'
      <3>1. \A q \in Requests : /\ HoldsSlot(q)' <=> HoldsSlot(q)
                                /\ pc'[q] = "reserve_host" <=> pc[q] = "reserve_host"
        BY <1>5 DEF TypeOK, HoldsSlot, ProgressInv, Unlisted, Fresh, Answered, ActorObserve,
             Running, Command, Receive, sessionVars, slotVars, taskVars, flagVars, Alive,
             Terminal
      <3> QED
        BY <1>5, <3>1, Unmoved DEF ActorObserve, slotVars, taskVars
    <2> QED
      BY <2>2, <2>3, <2>4 DEF SlotInv, HandleInv
  <1>6. CASE ActorRepeat(c)
    <2>1. /\ \A d \in Requests : Waiters(d)' \subseteq Waiters(d)
          /\ Command(c) = None \/ Command(c) \in Waiters(c)
      BY <1>6, ReceiveWaiters DEF ActorRepeat, sessionVars, slotVars, flagVars
    <2>2. \A w \in Requests : (reply'[w] = reply[w]) \/ (w \in Waiters(c) /\ reply'[w] \in {phase[c]})
      BY <1>6, <2>1, HostAssumption DEF TypeOK, ActorRepeat, Receive, sessionVars, slotVars,
           flagVars
    <2>3. WaiterInv'
      BY <1>6, <2>1, WaiterTypes, <2>2 DEF TypeOK, WaiterInv, ProgressInv, Answered, Unlisted,
           Fresh, ActorRepeat, Terminal, sessionVars, slotVars, flagVars
    <2>4. ProgressInv' /\ DuplicateInv' /\ VerdictInv' /\ ActiveInv'
      BY <1>6, <2>1, <2>2 DEF TypeOK, ProgressInv, Private, Answered, Unlisted, Fresh, Single,
           DuplicateInv, VerdictInv, ActiveInv, HoldsSlot, WaiterInv, ActorRepeat, Command,
           Receive, Terminal, sessionVars, slotVars, flagVars
    <2>5. SlotAccounting'
      <3>1. \A q \in Requests : /\ HoldsSlot(q)' <=> HoldsSlot(q)
                                /\ pc'[q] = "reserve_host" <=> pc[q] = "reserve_host"
        BY <1>6, <2>1, <2>2 DEF TypeOK, HoldsSlot, ProgressInv, Unlisted, Fresh, Answered,
             WaiterInv, ActorRepeat, Command, Receive, Terminal, sessionVars, slotVars, flagVars
      <3> QED
        BY <1>6, <3>1, Unmoved DEF ActorRepeat, slotVars
    <2> QED
      BY <2>3, <2>4, <2>5 DEF SlotInv, HandleInv
  <1>7. CASE ActorReturn(c)
    <2>1. \A d \in Requests : Waiters(d)' \subseteq Waiters(d)
      BY <1>7 DEF Waiters, ActorReturn, Exit, Command, sessionVars, slotVars, flagVars
    <2>2. \A w \in Requests : (reply'[w] = reply[w]) \/ (w \in Waiters(c) /\ reply'[w] \in {"runtime_crashed"})
      BY <1>7, <2>1, HostAssumption DEF TypeOK, ActorReturn, Exit, Command, sessionVars,
           slotVars, flagVars
    <2>3. WaiterInv'
      BY <1>7, <2>1, WaiterTypes, <2>2 DEF TypeOK, WaiterInv, ProgressInv, Answered, Unlisted,
           Fresh, ActorReturn, Exit, Command, Terminal, sessionVars, slotVars, flagVars
    <2>4. ProgressInv' /\ DuplicateInv' /\ VerdictInv' /\ ActiveInv'
      BY <1>7, <2>1, <2>2 DEF TypeOK, ProgressInv, Private, Answered, Unlisted, Fresh, Single,
           DuplicateInv, VerdictInv, ActiveInv, HoldsSlot, WaiterInv, ActorReturn, Exit,
           Command, Terminal, sessionVars, slotVars, flagVars
    <2>5. SlotAccounting'
      <3>1. \A q \in Requests : /\ HoldsSlot(q)' <=> HoldsSlot(q)
                                /\ pc'[q] = "reserve_host" <=> pc[q] = "reserve_host"
        BY <1>7, <2>1, <2>2 DEF TypeOK, HoldsSlot, ProgressInv, Unlisted, Fresh, Answered,
             WaiterInv, ActorReturn, Exit, Command, Terminal, sessionVars, slotVars, flagVars
      <3> QED
        BY <1>7, <3>1, Unmoved DEF ActorReturn, slotVars
    <2> QED
      BY <2>3, <2>4, <2>5 DEF SlotInv, HandleInv
  <1>8. CASE ActorOrphaned(c)
    <2>1. \A d \in Requests : Waiters(d)' \subseteq Waiters(d)
      BY <1>8 DEF Waiters, ActorOrphaned, Exit, sessionVars, slotVars, flagVars
    <2>2. \A w \in Requests : (reply'[w] = reply[w]) \/ (w \in Waiters(c) /\ reply'[w] \in {"runtime_crashed"})
      BY <1>8, <2>1, HostAssumption DEF TypeOK, ActorOrphaned, Exit, sessionVars, slotVars,
           flagVars
    <2>3. WaiterInv'
      BY <1>8, <2>1, WaiterTypes, <2>2 DEF TypeOK, WaiterInv, ProgressInv, Answered, Unlisted,
           Fresh, ActorOrphaned, Exit, sessionVars, slotVars, flagVars, Terminal
    <2>4. ProgressInv' /\ DuplicateInv' /\ VerdictInv' /\ ActiveInv'
      BY <1>8, <2>1, <2>2 DEF TypeOK, ProgressInv, Private, Answered, Unlisted, Fresh, Single,
           DuplicateInv, VerdictInv, ActiveInv, HoldsSlot, WaiterInv, ActorOrphaned, Exit,
           sessionVars, slotVars, flagVars, Terminal
    <2>5. SlotAccounting'
      <3>1. \A q \in Requests : /\ HoldsSlot(q)' <=> HoldsSlot(q)
                                /\ pc'[q] = "reserve_host" <=> pc[q] = "reserve_host"
        BY <1>8, <2>1, <2>2 DEF TypeOK, HoldsSlot, ProgressInv, Unlisted, Fresh, Answered,
             WaiterInv, ActorOrphaned, Exit, sessionVars, slotVars, flagVars, Terminal
      <3> QED
        BY <1>8, <3>1, Unmoved DEF ActorOrphaned, slotVars
    <2> QED
      BY <2>3, <2>4, <2>5 DEF SlotInv, HandleInv
  <1> QED
    BY <1>1, <1>2, <1>3, <1>4, <1>5, <1>6, <1>7, <1>8 DEF ActorCommand
\* At the start no cell is known to anybody and no slot is held.
LEMMA SlotInit == Init => SlotInv
  <1> SUFFICES ASSUME Init PROVE SlotInv
    OBVIOUS
  <1>1. \A c \in Requests : Waiters(c) = {}
    BY DEF Init, Waiters
  <1>2. ProgressInv /\ DuplicateInv /\ VerdictInv /\ ActiveInv
    BY HostAssumption DEF Init, ProgressInv, DuplicateInv, VerdictInv, ActiveInv, Private,
       Answered, Unlisted, Fresh, Single, NoCall
  <1>3. HostHolders = {} /\ \A s \in Sessions : SessionHolders(s) = {}
    BY DEF Init, HostHolders, SessionHolders, HoldsSlot
  <1>4. SlotAccounting
    <2>1. Cardinality({}) = 0
      BY FS_EmptySet
    <2>2. hostActive = 0 /\ \A s \in Sessions : sessionActive[s] = 0
      BY DEF Init
    <2> QED
      BY <1>3, <2>1, <2>2, HostAssumption DEF SlotAccounting
  <1> QED
    BY <1>1, <1>2, <1>4 DEF SlotInv, HandleInv, WaiterInv

\* Every step keeps the invariant.
LEMMA SlotStep == TypeOK /\ SlotInv /\ [Next]_vars => SlotInv'
  <1> SUFFICES ASSUME TypeOK, SlotInv, [Next]_vars PROVE SlotInv'
    OBVIOUS
  <1> USE DEF SlotInv, HandleInv
  <1>1. ASSUME NEW s \in Sessions, OpenSession(s) PROVE SlotInv'
    <2>1. \A d \in Requests : Waiters(d)' = Waiters(d)
      BY <1>1 DEF Waiters, OpenSession, slotVars, taskVars, actorVars, flagVars
    <2>2. WaiterInv'
      BY <1>1, <2>1 DEF TypeOK, WaiterInv, ProgressInv, Answered, Unlisted, Fresh, OpenSession,
           slotVars, taskVars, actorVars, flagVars, Terminal
    <2>3. ProgressInv' /\ DuplicateInv' /\ VerdictInv' /\ ActiveInv'
      BY <1>1 DEF TypeOK, ProgressInv, Private, Answered, Unlisted, Fresh, Single, DuplicateInv,
           VerdictInv, ActiveInv, HoldsSlot, OpenSession, slotVars, taskVars, actorVars,
           flagVars, Terminal
    <2>4. SlotAccounting'
      <3>1. \A q \in Requests : /\ HoldsSlot(q)' <=> HoldsSlot(q)
                                /\ pc'[q] = "reserve_host" <=> pc[q] = "reserve_host"
        BY <1>1 DEF TypeOK, HoldsSlot, ProgressInv, Unlisted, Fresh, Answered, OpenSession,
             slotVars, taskVars, actorVars, flagVars, Terminal
      <3> QED
        BY <1>1, <3>1, Unmoved DEF OpenSession, slotVars, taskVars
    <2> QED
      BY <2>2, <2>3, <2>4 DEF SlotInv, HandleInv
  <1>2. ASSUME NEW r \in Requests, NEW m \in Methods, NEW s \in Sessions,
               NEW i \in CellIds, NEW t \in BOOLEAN, Arrive(r, m, s, i, t)
        PROVE  SlotInv'
    <2>1. \A d \in Requests : Waiters(d)' = Waiters(d)
      BY <1>2 DEF Waiters, Arrive, Goto, sessionVars, slotVars, actorVars, flagVars
    <2>2. WaiterInv'
      BY <1>2, <2>1 DEF TypeOK, WaiterInv, ProgressInv, Answered, Unlisted, Fresh, Arrive, Goto,
           sessionVars, slotVars, actorVars, flagVars, Terminal
    <2>3. ProgressInv' /\ DuplicateInv' /\ VerdictInv' /\ ActiveInv'
      BY <1>2 DEF TypeOK, ProgressInv, Private, Answered, Unlisted, Fresh, Single, DuplicateInv,
           VerdictInv, ActiveInv, HoldsSlot, Arrive, Goto, sessionVars, slotVars, actorVars,
           flagVars, Terminal
    <2>4. SlotAccounting'
      <3>1. \A q \in Requests : /\ HoldsSlot(q)' <=> HoldsSlot(q)
                                /\ pc'[q] = "reserve_host" <=> pc[q] = "reserve_host"
        BY <1>2 DEF TypeOK, HoldsSlot, ProgressInv, Unlisted, Fresh, Answered, Arrive, Goto,
             sessionVars, slotVars, actorVars, flagVars, Terminal
      <3>2. \A q \in Requests : HoldsSlot(q) \/ pc[q] = "reserve_host" => call'[q] = call[q]
        BY <1>2 DEF TypeOK, HoldsSlot, ProgressInv, Fresh, Arrive
      <3> QED
        BY <1>2, <3>1, <3>2, Unmoved DEF Arrive, slotVars
    <2> QED
      BY <2>2, <2>3, <2>4 DEF SlotInv, HandleInv
  <1>3. ASSUME NEW c \in Requests, NEW status \in Terminal, ActorConclude(c, status)
        PROVE  SlotInv'
    <2>1. \A d \in Requests : Waiters(d)' \subseteq Waiters(d)
      BY <1>3 DEF Waiters, ActorConclude, Conclude, Running, sessionVars, slotVars, flagVars,
           Alive
    <2>2. \A w \in Requests : (reply'[w] = reply[w]) \/ (w \in Waiters(c) /\ reply'[w] \in {status})
      BY <1>3, <2>1, HostAssumption DEF TypeOK, Waiters, ActorConclude, Conclude, Running,
           sessionVars, slotVars, flagVars, Alive
    <2>3. WaiterInv'
      BY <1>3, <2>1, WaiterTypes, <2>2 DEF TypeOK, WaiterInv, ProgressInv, Answered, Unlisted,
           Fresh, ActorConclude, Conclude, Running, sessionVars, slotVars, flagVars, Alive,
           Terminal
    <2>4. ProgressInv' /\ DuplicateInv' /\ VerdictInv' /\ ActiveInv'
      BY <1>3, <2>1, <2>2 DEF TypeOK, ProgressInv, Private, Answered, Unlisted, Fresh, Single,
           DuplicateInv, VerdictInv, ActiveInv, HoldsSlot, WaiterInv, ActorConclude, Conclude,
           Running, sessionVars, slotVars, flagVars, Alive, Terminal
    <2>5. SlotAccounting'
      <3>1. \A q \in Requests : /\ HoldsSlot(q)' <=> HoldsSlot(q)
                                /\ pc'[q] = "reserve_host" <=> pc[q] = "reserve_host"
        BY <1>3, <2>1, <2>2 DEF TypeOK, HoldsSlot, ProgressInv, Unlisted, Fresh, Answered,
             WaiterInv, ActorConclude, Conclude, Running, sessionVars, slotVars, flagVars,
             Alive, Terminal
      <3> QED
        BY <1>3, <3>1, Unmoved DEF ActorConclude, slotVars
    <2> QED
      BY <2>3, <2>4, <2>5 DEF SlotInv, HandleInv
  <1>4. ASSUME NEW c \in Requests, ActorYield(c) PROVE SlotInv'
    <2>1. \A d \in Requests : Waiters(d)' \subseteq Waiters(d)
      BY <1>4 DEF Waiters, ActorYield, Running, sessionVars, slotVars, flagVars, Alive
    <2>2. \A w \in Requests : (reply'[w] = reply[w]) \/ (w \in Waiters(c) /\ reply'[w] \in {"waiting"})
      BY <1>4, <2>1, HostAssumption DEF TypeOK, Waiters, ActorYield, Running, sessionVars,
           slotVars, flagVars, Alive
    <2>3. WaiterInv'
      BY <1>4, <2>1, WaiterTypes, <2>2 DEF TypeOK, WaiterInv, ProgressInv, Answered, Unlisted,
           Fresh, ActorYield, Running, sessionVars, slotVars, flagVars, Alive, Terminal
    <2>4. ProgressInv' /\ DuplicateInv' /\ VerdictInv' /\ ActiveInv'
      BY <1>4, <2>1, <2>2 DEF TypeOK, ProgressInv, Private, Answered, Unlisted, Fresh, Single,
           DuplicateInv, VerdictInv, ActiveInv, HoldsSlot, WaiterInv, ActorYield, Running,
           sessionVars, slotVars, flagVars, Alive, Terminal
    <2>5. SlotAccounting'
      <3>1. \A q \in Requests : /\ HoldsSlot(q)' <=> HoldsSlot(q)
                                /\ pc'[q] = "reserve_host" <=> pc[q] = "reserve_host"
        BY <1>4, <2>1, <2>2 DEF TypeOK, HoldsSlot, ProgressInv, Unlisted, Fresh, Answered,
             WaiterInv, ActorYield, Running, sessionVars, slotVars, flagVars, Alive, Terminal
      <3> QED
        BY <1>4, <3>1, Unmoved DEF ActorYield, slotVars
    <2> QED
      BY <2>3, <2>4, <2>5 DEF SlotInv, HandleInv
  <1>5. CASE UNCHANGED vars
    <2>1. \A d \in Requests : Waiters(d)' = Waiters(d)
      BY <1>5 DEF Waiters, vars, actorVars
    <2>2. HandleInv'
      BY <1>5, <2>1 DEF vars, sessionVars, slotVars, taskVars, actorVars, flagVars,
         ProgressInv, DuplicateInv, WaiterInv, VerdictInv, ActiveInv, Private, HoldsSlot
    <2>3. SlotAccounting'
      BY <1>5, Unmoved DEF vars, slotVars, taskVars, HoldsSlot
    <2> QED
      BY <2>2, <2>3
  <1> QED
    BY <1>1, <1>2, <1>3, <1>4, <1>5, SlotTask, SlotActor DEF Next

\* The inductive invariant holds throughout.
LEMMA SlotInvariant == Spec => []SlotInv
  BY TypeCorrect, SlotInit, SlotStep, PTL DEF Spec

\* The counters never drift from the slots that are held, and the limits hold.
THEOREM SlotsAccounted == Spec => []SlotAccounting
  BY SlotInvariant, PTL DEF SlotInv

\* JavaScript never runs outside the limits.
THEOREM RunningCellsHoldSlots == Spec => []RunningHoldsSlot
  <1>1. SlotInv => RunningHoldsSlot
    BY DEF SlotInv, HandleInv, ActiveInv, RunningHoldsSlot, Running, Alive
  <1> QED
    BY <1>1, SlotInvariant, PTL

-----------------------------------------------------------------------------
(* Who waits at a cell                                                     *)

\* What waits at a cell, in terms of the queue's elements.
LEMMA WaitersOf ==
  /\ \A d \in Requests : Waiters(d) = ({observer[d]} \union Elements(commands[d])) \ {None}
  /\ \A d \in Requests : Waiters(d)' = ({observer'[d]} \union Elements(commands'[d])) \ {None}
  BY DEF Waiters, Elements

\* Sending to a cell at which nobody waits, or sending Terminate.
LEMMA SendOnce ==
  ASSUME TypeOK, NEW c \in Requests, NEW x \in Requests \union {None},
         commands' = [commands EXCEPT ![c] = Append(@, x)], observer' = observer,
         x = None \/ Waiters(c) = {}
  PROVE  /\ Waiters(c)' = Waiters(c) \union ({x} \ {None})
         /\ \A d \in Requests \ {c} : Waiters(d)' = Waiters(d)
         /\ \A d \in Requests : HeardOnce(d) => HeardOnce(d)'
  <1>1. commands[c] \in Seq(Requests \union {None})
    BY DEF TypeOK
  <1>2. commands'[c] = Append(commands[c], x) /\ \A d \in Requests \ {c} : commands'[d] = commands[d]
    BY DEF TypeOK
  <1>3. Elements(commands'[c]) = Elements(commands[c]) \union {x}
    BY <1>1, <1>2, AppendElements
  <1>4. ASSUME NEW d \in Requests, d = c PROVE HeardOnce(d) => HeardOnce(d)'
    <2> DEFINE q == commands[c]
    <2>1. Len(q) \in Nat /\ DOMAIN q = 1..Len(q)
      BY <1>1
    <2>2. /\ DOMAIN commands'[c] = 1..(Len(q) + 1)
          /\ \A k \in 1..Len(q) : commands'[c][k] = q[k]
          /\ commands'[c][Len(q) + 1] = x
      BY <1>1, <1>2
    <2>3. x # None => observer[c] = None /\ \A k \in 1..Len(q) : q[k] = None
      BY <2>1 DEF Waiters
    <2>4. \A k \in DOMAIN commands'[c] : k \in DOMAIN q \/ k = Len(q) + 1
      BY ONLY <2>1, <2>2
    <2>5. CASE x = None
      <3>1. \A k \in DOMAIN commands'[c] :
              commands'[c][k] # None => k \in DOMAIN q /\ commands'[c][k] = q[k]
        BY ONLY <2>1, <2>2, <2>4, <2>5
      <3>2. \A k \in DOMAIN commands'[c] : k \in DOMAIN q => commands'[c][k] = q[k]
        BY ONLY <2>1, <2>2
      <3> QED
        BY <1>4, <3>1, <3>2 DEF HeardOnce
    <2>6. CASE x # None
      <3>1. \A k \in DOMAIN commands'[c] : commands'[c][k] # None => k = Len(q) + 1
        BY ONLY <2>1, <2>2, <2>3, <2>4, <2>6
      <3> QED
        BY <1>4, <2>3, <2>6, <3>1 DEF HeardOnce
    <2> QED
      BY <2>5, <2>6
  <1>5. \A d \in Requests \ {c} : HeardOnce(d) => HeardOnce(d)'
    BY <1>2 DEF HeardOnce
  <1>6. Waiters(c)' = Waiters(c) \union ({x} \ {None})
    BY <1>3, WaitersOf
  <1>7. ASSUME NEW d \in Requests \ {c} PROVE Waiters(d)' = Waiters(d)
    <2>1. observer'[d] = observer[d] /\ commands'[d] = commands[d]
      BY <1>2
    <2> QED
      BY <2>1, WaitersOf
  <1>8. ASSUME NEW d \in Requests PROVE HeardOnce(d) => HeardOnce(d)'
    <2>1. CASE d = c
      BY ONLY <1>8, <2>1, <1>4
    <2>2. CASE d # c
      <3>1. d \in Requests \ {c}
        BY <1>8, <2>2
      <3> QED
        BY ONLY <3>1, <1>5
    <2> QED
      BY <2>1, <2>2
  <1> QED
    BY ONLY <1>6, <1>7, <1>8

\* A command without an observer changes nobody's place.
LEMMA SendTerminate ==
  ASSUME TypeOK, NEW c \in Requests, commands' = [commands EXCEPT ![c] = Append(@, None)],
         observer' = observer
  PROVE  \A d \in Requests : Waiters(d)' = Waiters(d) /\ (HeardOnce(d) => HeardOnce(d)')
  <1>1. /\ Waiters(c)' = Waiters(c) \union ({None} \ {None})
        /\ \A d \in Requests \ {c} : Waiters(d)' = Waiters(d)
        /\ \A d \in Requests : HeardOnce(d) => HeardOnce(d)'
    BY SendOnce
  <1> QED
    BY <1>1

\* Receiving a command: the observer takes its place, or the actor answers it ...
LEMMA ReceiveOnce ==
  ASSUME TypeOK, NEW c \in Requests, HeardOnce(c), commands[c] # <<>>, Receive(c)
  PROVE  /\ Command(c) \in Requests \union {None}
         /\ Command(c) # None => observer[c] = None /\ Command(c) \in Waiters(c)
         /\ observer' = observer
            => Waiters(c)' = Waiters(c) \ {Command(c)} /\ HeardOnce(c)'
         /\ observer' = [observer EXCEPT ![c] = None] /\ Command(c) = None
            => Waiters(c)' = Waiters(c) \ {observer[c]} /\ HeardOnce(c)'
         /\ observer' = [observer EXCEPT ![c] = Command(c)] /\ Command(c) # None
            => Waiters(c)' = Waiters(c) /\ HeardOnce(c)'
  <1> DEFINE q == commands[c]
  <1>1. q \in Seq(Requests \union {None}) /\ q # <<>>
    BY DEF TypeOK
  <1>2. Len(q) \in Nat \ {0} /\ DOMAIN q = 1..Len(q) /\ Head(q) = q[1]
    BY <1>1
  <1>3. /\ DOMAIN Tail(q) = 1..(Len(q) - 1)
        /\ \A k \in 1..(Len(q) - 1) : Tail(q)[k] = q[k + 1]
    BY <1>1, <1>2
  <1>4. commands'[c] = Tail(q)
    BY DEF Receive, TypeOK
  <1>5. Command(c) = q[1] /\ q[1] \in Requests \union {None} /\ q[1] \in Elements(q)
    BY <1>1, <1>2 DEF Command, Elements
  <1>6. Elements(q) = {q[1]} \union Elements(Tail(q))
    <2>1. \A k \in 1..Len(q) : k = 1 \/ (k - 1 \in 1..(Len(q) - 1) /\ Tail(q)[k - 1] = q[k])
      BY <1>2, <1>3
    <2>2. Elements(q) \subseteq {q[1]} \union Elements(Tail(q))
      <3>1. ASSUME NEW k \in 1..Len(q), k # 1 PROVE q[k] \in Elements(Tail(q))
        <4>1. k - 1 \in DOMAIN Tail(q) /\ Tail(q)[k - 1] = q[k]
          BY <1>3, <2>1, <3>1
        <4> QED
          BY <4>1 DEF Elements
      <3> QED
        BY <1>2, <3>1 DEF Elements
    <2>3. Elements(Tail(q)) \subseteq Elements(q) /\ q[1] \in Elements(q)
      BY <1>2, <1>3, <1>5 DEF Elements
    <2> QED
      BY <2>2, <2>3
  <1>7. q[1] # None => observer[c] = None /\ \A x \in Elements(Tail(q)) : x = None
    BY <1>2, <1>3 DEF HeardOnce, Elements
  <1>8. observer[c] # None => \A x \in Elements(q) : x = None
    BY DEF HeardOnce, Elements
  <1>9. \A j, k \in DOMAIN Tail(q) : Tail(q)[j] # None /\ Tail(q)[k] # None => j = k
    BY ONLY <1>2, <1>3, HeardOnce(c) DEF HeardOnce
  <1>10. HeardOnce(c)' <=> (observer'[c] # None => \A x \in Elements(Tail(q)) : x = None)
    BY ONLY <1>4, <1>9 DEF HeardOnce, Elements
  <1>11. observer[c] \in Requests \union {None} /\ observer \in [Requests -> Requests \union {None}]
    BY DEF TypeOK
  <1> HIDE DEF q
  <1>12. /\ Waiters(c) = ({observer[c]} \union Elements(q)) \ {None}
         /\ Waiters(c)' = ({observer'[c]} \union Elements(Tail(q))) \ {None}
    BY <1>4, WaitersOf DEF q
  <1>13. observer' = observer => Waiters(c)' = Waiters(c) \ {q[1]} /\ HeardOnce(c)'
    BY <1>6, <1>7, <1>8, <1>10, <1>12
  <1>14. observer' = [observer EXCEPT ![c] = None] /\ q[1] = None
         => Waiters(c)' = Waiters(c) \ {observer[c]} /\ HeardOnce(c)'
    BY <1>6, <1>8, <1>10, <1>11, <1>12
  <1>15. observer' = [observer EXCEPT ![c] = q[1]] /\ q[1] # None
         => Waiters(c)' = Waiters(c) /\ HeardOnce(c)'
    BY <1>6, <1>7, <1>10, <1>11, <1>12
  <1> QED
    BY <1>5, <1>6, <1>7, <1>12, <1>13, <1>14, <1>15

\* ... and an observer that is answered waits no longer.
LEMMA DropOnce ==
  ASSUME TypeOK, NEW c \in Requests, HeardOnce(c), commands' = commands,
         observer' = [observer EXCEPT ![c] = None]
  PROVE  Waiters(c)' = Waiters(c) \ {observer[c]} /\ HeardOnce(c)'
  <1>1. observer'[c] = None
    BY DEF TypeOK
  <1>2. observer[c] # None => \A x \in Elements(commands[c]) : x = None
    BY DEF HeardOnce, Elements
  <1>3. HeardOnce(c)'
    BY <1>1 DEF HeardOnce
  <1> QED
    BY <1>1, <1>2, <1>3, WaitersOf

-----------------------------------------------------------------------------
(* What a step leaves alone                                                *)

\* Only the task of r moves, and no actor.
OnlyTask(r) ==
  /\ \A q \in Requests \ {r} :
       /\ pc'[q] = pc[q] /\ ending'[q] = ending[q] /\ held'[q] = held[q]
       /\ reply'[q] = reply[q] /\ phase'[q] = phase[q]
  /\ call' = call /\ gone' = gone /\ observer' = observer

\* A step of a task changes its own local state and nobody else's.
LEMMA TaskFrame == ASSUME TypeOK, NEW r \in Requests, TaskStep(r) PROVE OnlyTask(r)
  <1>1. CASE RequireSession(r) \/ SessionExpired(r) \/ ReserveSessionCell(r) \/ SessionFull(r) \/
             ReserveHostCell(r) \/ HostFull(r)
    BY <1>1 DEF TypeOK, OnlyTask, RequireSession, Goto, FirstStep, sessionVars, slotVars,
         actorVars, flagVars, SessionExpired, Answer, ReserveSessionCell, SessionFull,
         ReserveHostCell, HostFull
  <1>2. CASE SpawnCell(r) \/ SpawnFails(r) \/ InsertCancelled(r)
    BY <1>2 DEF TypeOK, OnlyTask, SpawnCell, Goto, sessionVars, flagVars, SpawnFails, Answer,
         ReleaseReserved, actorVars, InsertCancelled, slotVars
  <1>3. CASE InsertDuplicate(r) \/ InsertCell(r) \/ FindCell(r) \/ CellNotFound(r)
    BY <1>3 DEF TypeOK, OnlyTask, InsertDuplicate, Answer, Goto, Named, Signal, ReleaseReserved,
         sessionVars, InsertCell, slotVars, actorVars, flagVars, FindCell, CellNotFound
  <1>4. CASE RemoveCell(r) \/ RequestTermination(r) \/ MarkTermination(r) \/ CloseSession(r) \/
             TakeCells(r) \/ SessionClosed(r)
    BY <1>4 DEF TypeOK, OnlyTask, RemoveCell, Goto, slotVars, actorVars, flagVars,
         RequestTermination, Named, sessionVars, MarkTermination, Answer, CloseSession,
         TakeCells, SessionClosed
  <1>5. ASSUME NEW c \in Requests,
               ObserveBegin(r, c) \/ ObserveClaim(r, c) \/ ObserveRefused(r, c) \/
               ObserveSend(r, c)
        PROVE  OnlyTask(r)
    BY <1>5 DEF TypeOK, OnlyTask, ObserveBegin, Goto, sessionVars, slotVars, actorVars,
         ObserveClaim, ObserveRefused, EndObservation, Cancelled, flagVars, ObserveSend
  <1>6. ASSUME NEW c \in Requests,
               ObserveExpired(r, c) \/ ObserveEnd(r, c) \/ ObserveVerdict(r, c)
        PROVE  OnlyTask(r)
    BY <1>6 DEF TypeOK, OnlyTask, ObserveExpired, EndObservation, Goto, Cancelled, sessionVars,
         slotVars, actorVars, ObserveEnd, ObserveVerdict, Terminal
  <1>7. ASSUME NEW c \in Requests,
               ReleaseTerminal(r, c) \/ TerminateCell(r, c) \/ CloseSessionCell(r, c)
        PROVE  OnlyTask(r)
    BY <1>7 DEF TypeOK, OnlyTask, ReleaseTerminal, Answer, Goto, ReleaseCell, sessionVars,
         actorVars, flagVars, TerminateCell, Signal, slotVars, CloseSessionCell
  <1> QED
    BY <1>1, <1>2, <1>3, <1>4, <1>5, <1>6, <1>7 DEF TaskStep

\* Only the actor of c moves; it answers requests that wait for it, and a verdict
\* is its last phase.
OnlyActor(c) ==
  /\ UNCHANGED <<sessionVars, slotVars, pc, call, ending, held, flagVars>>
  /\ \A d \in Requests \ {c} : /\ phase'[d] = phase[d] /\ observer'[d] = observer[d]
                              /\ commands'[d] = commands[d]
  /\ phase'[c] = phase[c] \/ (phase[c] \in {"boot", "running"} /\ phase'[c] \in Terminal)
       \/ (phase[c] = "boot" /\ phase'[c] = "running")
  /\ \A q \in Requests : \/ reply'[q] = reply[q]
                         \/ q \in Waiters(c) /\ reply'[q] \in Terminal \union {"waiting", "runtime_crashed"}

\* A step of an actor changes its own state and answers its own observers.
LEMMA ActorFrame ==
  ASSUME TypeOK, NEW c \in Requests,
         \/ ActorCommand(c) \/ ActorYield(c)
         \/ \E status \in Terminal : ActorConclude(c, status)
  PROVE  OnlyActor(c)
  <1>1. commands[c] # <<>> => Command(c) = None \/ Command(c) \in Waiters(c)
    <2> SUFFICES ASSUME commands[c] # <<>> PROVE Command(c) \in Elements(commands[c])
      BY WaitersOf
    <2> QED
      BY TailElements DEF TypeOK, Command
  <1>2. observer[c] \in Waiters(c) \union {None}
    BY WaitersOf
  <1>3. CASE ActorStart(c)
    BY <1>3, <1>1, <1>2, HostAssumption DEF TypeOK, OnlyActor, Terminal, ActorStart, Alive,
         Receive, sessionVars, slotVars, taskVars, flagVars
  <1>4. CASE ActorCancel(c)
    BY <1>4, <1>1, <1>2, HostAssumption DEF TypeOK, OnlyActor, Terminal, ActorCancel, Exit,
         Alive, Waiters, sessionVars, slotVars, flagVars
  <1>5. CASE ActorTerminate(c)
    BY <1>5, <1>1, <1>2, HostAssumption DEF TypeOK, OnlyActor, Terminal, ActorTerminate,
         Conclude, Running, Alive, Receive, sessionVars, slotVars, flagVars
  <1>6. CASE ActorObserveEnding(c)
    BY <1>6, <1>1, <1>2, HostAssumption DEF TypeOK, OnlyActor, Terminal, ActorObserveEnding,
         Running, Alive, Receive, sessionVars, slotVars, flagVars
  <1>7. CASE ActorObserve(c)
    BY <1>7, <1>1, <1>2, HostAssumption DEF TypeOK, OnlyActor, Terminal, ActorObserve, Running,
         Alive, Receive, sessionVars, slotVars, taskVars, flagVars
  <1>8. CASE ActorRepeat(c)
    BY <1>8, <1>1, <1>2, HostAssumption DEF TypeOK, OnlyActor, Terminal, ActorRepeat, Receive,
         sessionVars, slotVars, flagVars
  <1>9. CASE ActorReturn(c)
    BY <1>9, <1>1, <1>2, HostAssumption DEF TypeOK, OnlyActor, Terminal, ActorReturn, Exit,
         Waiters, sessionVars, slotVars, flagVars
  <1>10. CASE ActorOrphaned(c)
    BY <1>10, <1>1, <1>2, HostAssumption DEF TypeOK, OnlyActor, Terminal, ActorOrphaned, Exit,
         Waiters, sessionVars, slotVars, flagVars
  <1>11. CASE ActorYield(c)
    BY <1>11, <1>2 DEF TypeOK, OnlyActor, Terminal, ActorYield, Running, Alive, sessionVars,
         slotVars, flagVars
  <1>12. ASSUME NEW status \in Terminal, ActorConclude(c, status) PROVE OnlyActor(c)
    BY <1>12, <1>2, HostAssumption DEF TypeOK, OnlyActor, Terminal, ActorConclude, Conclude,
         Running, Alive, sessionVars, slotVars, flagVars
  <1> QED
    BY <1>1, <1>2, <1>3, <1>4, <1>5, <1>6, <1>7, <1>8, <1>9, <1>10, <1>11, <1>12 DEF
         ActorCommand

-----------------------------------------------------------------------------
(* An observer is never lost                                               *)

\* A step in which nobody starts or ends an observation.
LEMMA ObserversKept ==
  ASSUME ObserverInv, observing' = observing,
         \A d \in Requests : Waiters(d)' = Waiters(d) /\ (HeardOnce(d) => HeardOnce(d)'),
         \A q \in Requests :
           \/ pc'[q] = pc[q] /\ held'[q] = held[q] /\ reply'[q] = reply[q]
           \/ pc[q] \notin {"send", "await"} /\ pc'[q] \notin {"send", "await"}
  PROVE  ObserverInv'
  <1>1. \A d \in Requests : Observers(d)' = Observers(d)
    BY DEF Observers
  <1>2. \A d \in Requests : {q \in Observers(d) : pc[q] = "await" /\ reply[q] = "none"}'
                            = {q \in Observers(d) : pc[q] = "await" /\ reply[q] = "none"}
    BY DEF Observers
  <1> QED
    BY <1>1, <1>2 DEF ObserverInv

\* A step of an actor that answers the requests in told and takes in nobody new.
LEMMA ObserversAnswered ==
  ASSUME ProgressInv, ObserverInv, NEW c \in Requests, NEW told \in SUBSET Waiters(c),
         OnlyActor(c), Waiters(c)' = Waiters(c) \ told, HeardOnce(c)',
         \A q \in Requests : IF q \in told THEN reply'[q] # "none" ELSE reply'[q] = reply[q]
  PROVE  ObserverInv'
  <1>1. pc' = pc /\ held' = held /\ observing' = observing
    BY DEF OnlyActor, flagVars
  <1>2. \A d \in Requests : Observers(d)' = Observers(d)
    BY <1>1 DEF Observers
  <1>3. \A d \in Requests \ {c} : Waiters(d)' = Waiters(d) /\ (HeardOnce(d) => HeardOnce(d)')
    BY DEF OnlyActor, Waiters, HeardOnce
  <1>4. told \subseteq Observers(c) /\ \A d \in Requests \ {c} : told \cap Observers(d) = {}
    BY DEF ObserverInv, Observers, ProgressInv, Single
  <1>5. \A d \in Requests \ {c} : {q \in Observers(d) : pc[q] = "await" /\ reply[q] = "none"}'
                                  = {q \in Observers(d) : pc[q] = "await" /\ reply[q] = "none"}
    BY <1>1, <1>2, <1>4 DEF Observers
  <1>6. {q \in Observers(c) : pc[q] = "await" /\ reply[q] = "none"}'
          = {q \in Observers(c) : pc[q] = "await" /\ reply[q] = "none"} \ told
    BY <1>1, <1>2, <1>4 DEF Observers
  <1> QED
    BY <1>1, <1>2, <1>3, <1>5, <1>6 DEF ObserverInv

\* The task of r takes up or gives up the observation of c, and nobody else moves.
LEMMA ObserverMoves ==
  ASSUME TypeOK, ProgressInv, ObserverInv, NEW r \in Requests, NEW c \in held[r],
         OnlyTask(r), pc[r] \in Single, held'[r] \in {{}, held[r]},
         \A d \in Requests : HeardOnce(d)',
         \A d \in Requests \ {c} : Waiters(d)' = Waiters(d),
         observing' = [observing EXCEPT ![c] = pc'[r] \in {"send", "await"}],
         r \in Observers(c) \/ ~observing[c],
         pc'[r] \in {"send", "await"} => held'[r] = held[r],
         Waiters(c)' = IF pc'[r] = "await" /\ reply'[r] = "none" THEN {r} ELSE {}
  PROVE  ObserverInv'
  <1>1. c \in Requests /\ held[r] = {c} /\ \A d \in Requests \ {c} : r \notin Observers(d)
    BY DEF TypeOK, ProgressInv, Single, Observers
  <1>2. Observers(c) \subseteq {r}
    BY <1>1 DEF ObserverInv
  <1>3. \A q \in Requests \ {r} : pc'[q] = pc[q] /\ held'[q] = held[q] /\ reply'[q] = reply[q]
    BY DEF OnlyTask
  <1>4. Observers(c)' = IF pc'[r] \in {"send", "await"} THEN {r} ELSE {}
    BY <1>1, <1>2, <1>3 DEF Observers
  <1>5. \A d \in Requests \ {c} : Observers(d)' = Observers(d)
    BY <1>1, <1>3 DEF Observers
  <1>6. ASSUME NEW d \in Requests \ {c}
        PROVE  /\ observing'[d] = observing[d]
               /\ {q \in Observers(d) : pc[q] = "await" /\ reply[q] = "none"}'
                   = {q \in Observers(d) : pc[q] = "await" /\ reply[q] = "none"}
    BY <1>1, <1>3, <1>5 DEF Observers, TypeOK
  <1>7. observing'[c] = (pc'[r] \in {"send", "await"})
    BY <1>1 DEF TypeOK
  <1>8. {q \in Observers(c) : pc[q] = "await" /\ reply[q] = "none"}' = Waiters(c)'
    BY <1>4
  <1>9. ASSUME NEW d \in Requests
        PROVE  /\ \A p, q \in Observers(d)' : p = q
               /\ observing'[d] <=> Observers(d)' # {}
               /\ Waiters(d)' = {q \in Observers(d) : pc[q] = "await" /\ reply[q] = "none"}'
    <2>1. CASE d = c
      BY <1>4, <1>7, <1>8, <2>1
    <2>2. CASE d # c
      BY <1>5, <1>6, <2>2 DEF ObserverInv
    <2> QED
      BY <2>1, <2>2
  <1> QED
    BY <1>9 DEF ObserverInv

\* A step of a request's task keeps the observers.
LEMMA ObserverTask ==
  ASSUME TypeOK, HandleInv, ObserverInv, NEW r \in Requests, TaskStep(r)
  PROVE  ObserverInv'
  <1>0. OnlyTask(r)
    BY TaskFrame
  <1> USE DEF HandleInv
  <1>1. CASE RequireSession(r) \/ SessionExpired(r) \/ ReserveSessionCell(r) \/
             SessionFull(r) \/ ReserveHostCell(r) \/ HostFull(r) \/ SpawnCell(r) \/
             SpawnFails(r) \/ InsertCancelled(r)
    <2>1. \A d \in Requests : Waiters(d)' = Waiters(d) /\ (HeardOnce(d) => HeardOnce(d)')
      BY <1>1 DEF Waiters, HeardOnce, RequireSession, Goto, FirstStep, sessionVars, slotVars,
           actorVars, flagVars, SessionExpired, Answer, ReserveSessionCell, SessionFull,
           ReserveHostCell, HostFull, SpawnCell, SpawnFails, ReleaseReserved, InsertCancelled
    <2>2. pc[r] \notin {"send", "await"} /\ pc'[r] \notin {"send", "await"}
      BY <1>1 DEF TypeOK, FirstStep, Calls, Methods, RequireSession, Goto, sessionVars,
           slotVars, actorVars, flagVars, SessionExpired, Answer, ReserveSessionCell,
           SessionFull, ReserveHostCell, HostFull, SpawnCell, SpawnFails, ReleaseReserved,
           InsertCancelled
    <2>3. observing' = observing
      BY <1>1 DEF RequireSession, Goto, FirstStep, sessionVars, slotVars, actorVars, flagVars,
           SessionExpired, Answer, ReserveSessionCell, SessionFull, ReserveHostCell, HostFull,
           SpawnCell, SpawnFails, ReleaseReserved, InsertCancelled
    <2> QED
      BY <1>0, <2>1, <2>2, <2>3, ObserversKept DEF OnlyTask
  <1>2. CASE InsertCell(r) \/ FindCell(r) \/ CellNotFound(r) \/ RemoveCell(r) \/
             RequestTermination(r) \/ MarkTermination(r) \/ CloseSession(r) \/ TakeCells(r)
             \/ SessionClosed(r)
    <2>0. commands' = commands /\ observer' = observer
      BY <1>2 DEF InsertCell, Goto, Named, slotVars, actorVars, flagVars,
           FindCell, sessionVars, CellNotFound, Answer, RemoveCell, RequestTermination,
           MarkTermination, CloseSession, TakeCells, SessionClosed
    <2>1. \A d \in Requests : Waiters(d)' = Waiters(d) /\ (HeardOnce(d) => HeardOnce(d)')
      BY <2>0 DEF Waiters, HeardOnce
    <2>2. pc[r] \notin {"send", "await"} /\ pc'[r] \notin {"send", "await"}
      BY <1>2 DEF TypeOK, FirstStep, Calls, Methods, InsertCell, Goto, Named, slotVars,
           actorVars, flagVars, FindCell, sessionVars, CellNotFound, Answer, RemoveCell,
           RequestTermination, MarkTermination, CloseSession, TakeCells, SessionClosed
    <2>3. observing' = observing
      BY <1>2 DEF InsertCell, Goto, Named, slotVars, actorVars, flagVars, FindCell, sessionVars,
           CellNotFound, Answer, RemoveCell, RequestTermination, MarkTermination, CloseSession,
           TakeCells, SessionClosed
    <2> QED
      BY <1>0, <2>1, <2>2, <2>3, ObserversKept DEF OnlyTask
  <1>3. CASE InsertDuplicate(r)
    <2>1. commands' = commands \/ commands' = [commands EXCEPT ![r] = Append(@, None)]
      BY <1>3 DEF InsertDuplicate, Signal
    <2>2. \A d \in Requests : Waiters(d)' = Waiters(d) /\ (HeardOnce(d) => HeardOnce(d)')
      <3>1. CASE commands' = commands
        BY <1>0, <3>1 DEF Waiters, HeardOnce, OnlyTask
      <3>2. CASE commands' = [commands EXCEPT ![r] = Append(@, None)]
        BY <1>0, <3>2, SendTerminate DEF OnlyTask
      <3> QED
        BY <2>1, <3>1, <3>2
    <2>3. pc[r] \notin {"send", "await"} /\ pc'[r] \notin {"send", "await"} /\ observing' = observing
      BY <1>3 DEF TypeOK, InsertDuplicate, Answer, Goto
    <2> QED
      BY <1>0, <2>2, <2>3, ObserversKept DEF OnlyTask
  <1>4. ASSUME NEW c \in Requests, TerminateCell(r, c) PROVE ObserverInv'
    <2>1. commands' = commands \/ commands' = [commands EXCEPT ![c] = Append(@, None)]
      BY <1>4 DEF TerminateCell, Signal
    <2>2. \A d \in Requests : Waiters(d)' = Waiters(d) /\ (HeardOnce(d) => HeardOnce(d)')
      <3>1. CASE commands' = commands
        BY <1>0, <3>1 DEF Waiters, HeardOnce, OnlyTask
      <3>2. CASE commands' = [commands EXCEPT ![c] = Append(@, None)]
        BY <1>0, <3>2, SendTerminate DEF OnlyTask
      <3> QED
        BY <2>1, <3>1, <3>2
    <2>3. pc[r] \notin {"send", "await"} /\ pc'[r] \notin {"send", "await"} /\ observing' = observing
      BY <1>4 DEF TypeOK, TerminateCell, Answer, Goto
    <2> QED
      BY <1>0, <2>2, <2>3, ObserversKept DEF OnlyTask
  <1>5. ASSUME NEW c \in Requests, CloseSessionCell(r, c) PROVE ObserverInv'
    <2>1. commands' = commands \/ commands' = [commands EXCEPT ![c] = Append(@, None)]
      BY <1>5 DEF CloseSessionCell, Signal
    <2>2. \A d \in Requests : Waiters(d)' = Waiters(d) /\ (HeardOnce(d) => HeardOnce(d)')
      <3>1. CASE commands' = commands
        BY <1>0, <3>1 DEF Waiters, HeardOnce, OnlyTask
      <3>2. CASE commands' = [commands EXCEPT ![c] = Append(@, None)]
        BY <1>0, <3>2, SendTerminate DEF OnlyTask
      <3> QED
        BY <2>1, <3>1, <3>2
    <2>3. pc[r] \notin {"send", "await"} /\ pc'[r] \notin {"send", "await"} /\ observing' = observing
      BY <1>5 DEF TypeOK, CloseSessionCell, Answer, Goto
    <2> QED
      BY <1>0, <2>2, <2>3, ObserversKept DEF OnlyTask
  <1>6. ASSUME NEW c \in Requests,
               ObserveBegin(r, c) \/ ObserveRefused(r, c) \/ ReleaseTerminal(r, c)
        PROVE  ObserverInv'
    <2>1. \A d \in Requests : Waiters(d)' = Waiters(d) /\ (HeardOnce(d) => HeardOnce(d)')
      BY <1>6 DEF Waiters, HeardOnce, ObserveBegin, Goto, sessionVars, slotVars, actorVars,
           ObserveRefused, EndObservation, Cancelled, flagVars, ReleaseTerminal, Answer,
           ReleaseCell
    <2>2. pc[r] \notin {"send", "await"} /\ pc'[r] \notin {"send", "await"} /\ observing' = observing
      BY <1>6 DEF TypeOK, ObserveBegin, Goto, sessionVars, slotVars, actorVars, ObserveRefused,
           EndObservation, Cancelled, flagVars, ReleaseTerminal, Answer, ReleaseCell
    <2> QED
      BY <1>0, <2>1, <2>2, ObserversKept DEF OnlyTask
  <1>7. ASSUME NEW c \in Requests, ObserveClaim(r, c) PROVE ObserverInv'
    <2>1. \A d \in Requests : Waiters(d)' = Waiters(d) /\ HeardOnce(d)'
      BY <1>7 DEF ObserveClaim, sessionVars, slotVars, actorVars, Waiters, HeardOnce,
         ObserverInv
    <2>2. /\ c \in held[r] /\ pc[r] = "claim" /\ ~observing[c] /\ pc'[r] = "send"
          /\ held'[r] = held[r] /\ observing' = [observing EXCEPT ![c] = TRUE]
      BY <1>7 DEF ObserveClaim, Goto, TypeOK
    <2>3. Waiters(c)' = {}
      BY <2>1, <2>2 DEF ObserverInv
    <2> QED
      BY <1>0, <2>1, <2>2, <2>3, ObserverMoves DEF Single
  <1>8. ASSUME NEW c \in Requests, ObserveSend(r, c) PROVE ObserverInv'
    <2>1. /\ c \in held[r] /\ pc[r] = "send" /\ pc'[r] = "await" /\ held'[r] = held[r]
          /\ reply'[r] = "none" /\ observing' = observing /\ observer' = observer
          /\ commands' = [commands EXCEPT ![c] = Append(@, r)]
      BY <1>8 DEF ObserveSend, Goto, TypeOK, slotVars, flagVars, ProgressInv, Answered
    <2>2. r \in Observers(c) /\ observing[c] = TRUE
      BY <2>1 DEF Observers, ObserverInv, TypeOK
    <2>3. Waiters(c) = {}
      BY <2>1, <2>2 DEF ObserverInv
    <2>4. /\ Waiters(c)' = {r} /\ \A d \in Requests \ {c} : Waiters(d)' = Waiters(d)
          /\ \A d \in Requests : HeardOnce(d)'
      <3>1. Waiters(c)' = Waiters(c) \union ({r} \ {None})
        BY <2>1, <2>3, SendOnce
      <3>2. /\ \A d \in Requests \ {c} : Waiters(d)' = Waiters(d)
            /\ \A d \in Requests : HeardOnce(d) => HeardOnce(d)'
        BY <2>1, <2>3, SendOnce
      <3> QED
        BY <2>3, <3>1, <3>2, HostAssumption DEF ObserverInv
    <2>5. observing' = [observing EXCEPT ![c] = TRUE]
      BY <2>1, <2>2 DEF TypeOK
    <2> QED
      BY <1>0, <2>1, <2>2, <2>4, <2>5, ObserverMoves DEF Single
  <1>9. ASSUME NEW c \in Requests,
               ObserveExpired(r, c) \/ ObserveEnd(r, c) \/ ObserveVerdict(r, c)
        PROVE  ObserverInv'
    <2>1. \A d \in Requests : Waiters(d)' = Waiters(d) /\ HeardOnce(d)'
      BY <1>9 DEF Waiters, HeardOnce, ObserverInv, ObserveExpired, EndObservation, Goto,
           Cancelled, sessionVars, slotVars, actorVars, ObserveEnd, ObserveVerdict, Terminal
    <2>2. /\ c \in held[r] /\ pc[r] \in {"send", "await"} /\ pc'[r] \notin {"send", "await"}
          /\ pc[r] = "send" \/ reply[r] # "none"
          /\ held'[r] \in {{}, held[r]} /\ observing' = [observing EXCEPT ![c] = FALSE]
      BY <1>9 DEF TypeOK, ObserveExpired, EndObservation, Goto, Cancelled, sessionVars,
           slotVars, actorVars, ObserveEnd, ObserveVerdict, Terminal
    <2>3. r \in Observers(c)
      BY <2>2 DEF Observers
    <2>4. Waiters(c)' = {}
      BY <2>1, <2>2, <2>3 DEF ObserverInv
    <2>5. observing' = [observing EXCEPT ![c] = pc'[r] \in {"send", "await"}]
      <3>1. (pc'[r] \in {"send", "await"}) = FALSE
        BY <2>2
      <3> QED
        BY <2>2, <3>1, Zenon
    <2> QED
      BY <1>0, <2>1, <2>2, <2>3, <2>4, <2>5, ObserverMoves DEF Single
  <1> QED
    BY <1>1, <1>2, <1>3, <1>4, <1>5, <1>6, <1>7, <1>8, <1>9 DEF TaskStep

\* A step of an actor keeps the observers.
LEMMA ObserverActor ==
  ASSUME TypeOK, HandleInv, ObserverInv, NEW c \in Requests,
         \/ ActorCommand(c) \/ ActorYield(c)
         \/ \E status \in Terminal : ActorConclude(c, status)
  PROVE  ObserverInv'
  <1>0. OnlyActor(c) /\ ProgressInv /\ HeardOnce(c)
    BY ActorFrame DEF HandleInv, ObserverInv
  <1>1. \A w \in Waiters(c) : w \in Requests /\ w # None /\ reply[w] = "none"
    BY WaiterTypes DEF ObserverInv, Waiters
  <1>2. observer[c] = None \/ observer[c] \in Waiters(c)
    BY DEF Waiters
  <1>3. CASE ActorStart(c) \/ ActorObserve(c)
    <2>1. /\ commands[c] # <<>> /\ Receive(c) /\ Command(c) # None /\ reply' = reply
          /\ observer' = [observer EXCEPT ![c] = Command(c)]
      BY <1>3 DEF ActorStart, ActorObserve, taskVars
    <2>2. Waiters(c)' = Waiters(c) \ {} /\ HeardOnce(c)'
      BY <1>0, <2>1, ReceiveOnce
    <2>3. \A q \in Requests : IF q \in {} THEN reply'[q] # "none" ELSE reply'[q] = reply[q]
      BY <2>1
    <2>4. {} \in SUBSET Waiters(c)
      OBVIOUS
    <2> QED
      BY <1>0, <2>2, <2>3, <2>4, ObserversAnswered
  <1>4. CASE ActorObserveEnding(c) \/ ActorRepeat(c)
    <2>1. /\ commands[c] # <<>> /\ Receive(c) /\ Command(c) # None /\ observer' = observer
          /\ \E v \in Terminal : reply' = [reply EXCEPT ![Command(c)] = v]
      BY <1>4 DEF ActorObserveEnding, ActorRepeat, Terminal
    <2>2. /\ Command(c) \in Waiters(c)
          /\ Waiters(c)' = Waiters(c) \ {Command(c)} /\ HeardOnce(c)'
      BY <1>0, <2>1, ReceiveOnce
    <2>3. \A q \in Requests : IF q \in {Command(c)} THEN reply'[q] # "none" ELSE reply'[q] = reply[q]
      BY <1>1, <2>1, <2>2 DEF TypeOK, Terminal
    <2> QED
      BY <1>0, <2>2, <2>3, ObserversAnswered
  <1>5. ASSUME ActorTerminate(c) \/ ActorYield(c) \/ \E status \in Terminal : ActorConclude(c, status)
        PROVE  ObserverInv'
    <2>1. /\ observer' = [observer EXCEPT ![c] = None]
          /\ \A q \in Requests : IF q = observer[c] THEN reply'[q] # "none" ELSE reply'[q] = reply[q]
      BY <1>1, <1>2, <1>5 DEF ActorTerminate, ActorYield, ActorConclude, Conclude, Terminal,
         TypeOK
    <2>2. \/ commands' = commands
          \/ commands[c] # <<>> /\ Receive(c) /\ Command(c) = None
      BY <1>5 DEF ActorTerminate, ActorYield, ActorConclude
    <2>3. Waiters(c)' = Waiters(c) \ {observer[c]} /\ HeardOnce(c)'
      BY <1>0, <2>1, <2>2, ReceiveOnce, DropOnce
    <2>4. CASE observer[c] = None
      <3>1. Waiters(c)' = Waiters(c) \ {}
        BY <2>3, <2>4 DEF Waiters
      <3>2. \A q \in Requests : IF q \in {} THEN reply'[q] # "none" ELSE reply'[q] = reply[q]
        BY <2>1, <2>4, HostAssumption
      <3>3. {} \in SUBSET Waiters(c)
        OBVIOUS
      <3> QED
        BY <1>0, <2>3, <3>1, <3>2, <3>3, ObserversAnswered
    <2>5. CASE observer[c] # None
      <3>1. {observer[c]} \in SUBSET Waiters(c)
        BY <1>2, <2>5
      <3> QED
        BY <1>0, <2>1, <2>3, <3>1, ObserversAnswered
    <2> QED
      BY <2>4, <2>5
  <1>6. CASE ActorCancel(c) \/ ActorReturn(c) \/ ActorOrphaned(c)
    <2>1. /\ commands'[c] = <<>> /\ observer'[c] = None
          /\ \A q \in Requests : IF q \in Waiters(c) THEN reply'[q] # "none" ELSE reply'[q] = reply[q]
      BY <1>6 DEF ActorCancel, ActorReturn, ActorOrphaned, Exit, TypeOK
    <2>2. Waiters(c)' = Waiters(c) \ Waiters(c) /\ HeardOnce(c)'
      BY <2>1 DEF Waiters, HeardOnce
    <2> QED
      BY <1>0, <2>1, <2>2, ObserversAnswered
  <1> QED
    BY <1>3, <1>4, <1>5, <1>6 DEF ActorCommand

\* Nobody observes at first, and each step keeps the observers.
LEMMA ObserverInit == Init => ObserverInv
  BY DEF Init, ObserverInv, Observers, HeardOnce, Waiters

\* Every step keeps an observer in one place.
LEMMA ObserverStep == TypeOK /\ HandleInv /\ ObserverInv /\ [Next]_vars => ObserverInv'
  <1> SUFFICES ASSUME TypeOK, HandleInv, ObserverInv, [Next]_vars PROVE ObserverInv'
    OBVIOUS
  <1>1. ASSUME NEW s \in Sessions, OpenSession(s) PROVE ObserverInv'
    BY <1>1, ObserversKept DEF OpenSession, taskVars, actorVars, flagVars, Waiters, HeardOnce
  <1>2. ASSUME NEW r \in Requests, NEW m \in Methods, NEW s \in Sessions, NEW i \in CellIds,
               NEW t \in BOOLEAN, Arrive(r, m, s, i, t)
        PROVE  ObserverInv'
    <2>1. \A d \in Requests : Waiters(d)' = Waiters(d) /\ (HeardOnce(d) => HeardOnce(d)')
      BY <1>2 DEF Arrive, actorVars, Waiters, HeardOnce
    <2>2. \A q \in Requests :
            \/ pc'[q] = pc[q] /\ held'[q] = held[q] /\ reply'[q] = reply[q]
            \/ pc[q] \notin {"send", "await"} /\ pc'[q] \notin {"send", "await"}
      BY <1>2 DEF Arrive, Goto, TypeOK
    <2> QED
      BY <1>2, <2>1, <2>2, ObserversKept DEF Arrive, flagVars
  <1>3. CASE UNCHANGED vars
    BY <1>3, ObserversKept DEF vars, taskVars, actorVars, flagVars, Waiters, HeardOnce
  <1> QED
    BY <1>1, <1>2, <1>3, ObserverTask, ObserverActor DEF Next

\* ObserverInv is invariant.
LEMMA ObserverInvariant == Spec => []ObserverInv
  <1>1. SlotInv => HandleInv
    BY DEF SlotInv
  <1> QED
    BY <1>1, ObserverInit, ObserverStep, TypeCorrect, SlotInvariant, PTL DEF Spec

\* However many requests compete to observe a cell, at most one does, and until it
\* is answered it is in the actor's channel or is the observer the actor keeps.
THEOREM ObserversTracked == Spec => []ObserverTracked
  <1>1. ObserverInv => ObserverTracked
    <2> SUFFICES ASSUME ObserverInv, NEW c \in Requests
                 PROVE  /\ Cardinality(Observers(c)) = IF observing[c] THEN 1 ELSE 0
                        /\ Waiters(c) = {r \in Observers(c) : pc[r] = "await" /\ reply[r] = "none"}
      BY DEF ObserverTracked, Observers
    <2>1. CASE observing[c]
      <3>1. PICK r \in Observers(c) : TRUE
        BY <2>1 DEF ObserverInv
      <3>2. Observers(c) = {r}
        BY <3>1 DEF ObserverInv
      <3> QED
        BY <2>1, <3>2, FS_Singleton DEF ObserverInv
    <2>2. CASE ~observing[c]
      BY <2>2, FS_EmptySet DEF ObserverInv
    <2> QED
      BY <2>1, <2>2
  <1> QED
    BY <1>1, ObserverInvariant, PTL

-----------------------------------------------------------------------------
(* A name leads to one cell                                                *)

\* An actor neither registers a cell nor frees its slot, nor leaves a mark.
LEMMA NamingActor ==
  ASSUME TypeOK, NamingInv, NEW c \in Requests, OnlyActor(c)
  PROVE  NamingInv'
  <1>1. /\ session' = session /\ cells' = cells /\ pendingTerminations' = pendingTerminations
        /\ pc' = pc /\ call' = call /\ ending' = ending /\ held' = held /\ counted' = counted
    BY DEF OnlyActor, sessionVars, slotVars
  <1>2. \A d \in Requests : /\ phase'[d] = "none" <=> phase[d] = "none"
                            /\ phase[d] \in Terminal => phase'[d] \in Terminal
                            /\ phase'[d] = "boot" => phase[d] = "boot"
                            /\ reply'[d] = "pending" => reply[d] = "pending"
    BY DEF OnlyActor, Terminal
  <1>3. NameInv'
    BY <1>1, <1>2 DEF NamingInv, NameInv, ExecOf
  <1>4. CancelledInv'
    BY <1>1 DEF NamingInv, CancelledInv, Cancelled, Private
  <1>5. ReachInv'
    <2> SUFFICES ASSUME NEW d \in Requests
                 PROVE  /\ pc[d] = "remove" => \E e \in held[d] : phase'[e] \in Terminal
                        /\ call[d].method = "exec" /\ phase[d] = "none" => pc[d] \in Fresh \union {"done"}
                        /\ phase[d] # "none" /\ pc[d] \notin Unlisted /\ session[call[d].session] = "open"
                           => \/ Named(d) = d
                              \/ Cancelled(d)
                              \/ /\ phase'[d] \in Terminal
                                 /\ ~counted[d] \/ \E q \in Requests : pc[q] = "release" /\ d \in held[q]
      BY <1>1, <1>2 DEF ReachInv, Cancelled, Named
    <2>1. \A e \in held[d] : phase[e] \in Terminal => phase'[e] \in Terminal
      BY <1>2 DEF TypeOK
    <2> QED
      BY <1>2, <2>1 DEF NamingInv, ReachInv
  <1>6. MarkInv'
    BY <1>1, <1>2 DEF NamingInv, MarkInv, SameName, Cancelled
  <1> QED
    BY <1>3, <1>4, <1>5, <1>6 DEF NamingInv

\* A request that arrives is about no cell another exec has named.
LEMMA NamingArrive ==
  ASSUME ~ReuseIds, TypeOK, ProgressInv, NamingInv, NEW r \in Requests, NEW m \in Methods, NEW s \in Sessions,
         NEW i \in CellIds, NEW t \in BOOLEAN, Arrive(r, m, s, i, t)
  PROVE  NamingInv'
  <1>1. /\ call' = [call EXCEPT ![r] = [method |-> m, session |-> s, id |-> i]]
        /\ session[s] # "unborn"
        /\ pc[r] = "idle" /\ pc' = [pc EXCEPT ![r] = "lookup"] /\ call[r] = NoCall
        /\ ending' = [ending EXCEPT ![r] = t] /\ (t => m = "wait")
        /\ m = "exec" => \A q \in Requests : call[q] # [method |-> "exec", session |-> s, id |-> i]
        /\ UNCHANGED <<session, cells, pendingTerminations, counted, held, reply, phase>>
    BY DEF Arrive, Goto, NamingInv, NameInv, sessionVars, slotVars, actorVars
  <1>2. /\ reply[r] = "none" /\ phase[r] = "none" /\ ~counted[r] /\ Private(r)
    BY <1>1 DEF ProgressInv, Answered, Fresh, Unlisted
  <1>3. /\ \A q \in Requests \ {r} : pc'[q] = pc[q] /\ call'[q] = call[q] /\ ending'[q] = ending[q]
        /\ pc'[r] = "lookup" /\ call'[r] = [method |-> m, session |-> s, id |-> i] /\ ending'[r] = t
    BY <1>1 DEF TypeOK
  <1>4. NameInv'
    BY <1>1, <1>2, <1>3 DEF NamingInv, NameInv, ExecOf, Single, Private, NoCall
  <1>5. CancelledInv'
    BY <1>1, <1>2, <1>3 DEF NamingInv, CancelledInv, Cancelled, Private
  <1>6. ReachInv'
    BY <1>1, <1>2, <1>3 DEF NamingInv, ReachInv, Cancelled, Named, Fresh
  <1>7. MarkInv'
    <2> SUFFICES ASSUME NEW u \in Requests, reply'[u] = "pending", session'[call'[u].session] = "open"
                 PROVE  /\ \/ call[u].id \in pendingTerminations[call[u].session]
                           \/ \E c \in Requests : call'[c].method = "exec" /\ SameName(c, u)'
                        /\ \A c \in Requests :
                             call'[c].method = "exec" /\ SameName(c, u)' /\ phase[c] \in {"none", "boot"} =>
                               \/ /\ pc'[c] \in Unlisted
                                  /\ call[u].id \in pendingTerminations[call[u].session]
                               \/ Cancelled(c)'
                               \/ pc'[c] = "done" /\ phase[c] = "none"
      BY <1>1, <1>2, <1>3 DEF MarkInv
    <2>1. u # r /\ call'[u] = call[u] /\ reply[u] = "pending" /\ session[call[u].session] = "open"
      BY <1>1, <1>2, <1>3
    <2>2. call[r].method # "exec"
      BY <1>1 DEF NoCall
    <2>3. ASSUME NEW c \in Requests, call[c].method = "exec", SameName(c, u)
          PROVE  call'[c].method = "exec" /\ SameName(c, u)'
      BY <1>3, <2>1, <2>2, <2>3 DEF SameName
    <2>4. ASSUME NEW c \in Requests, call'[c].method = "exec", SameName(c, u)', phase[c] \in {"none", "boot"}
          PROVE  \/ pc'[c] \in Unlisted /\ call[u].id \in pendingTerminations[call[u].session]
                 \/ Cancelled(c)'
                 \/ pc'[c] = "done" /\ phase[c] = "none"
      <3>1. CASE c = r
        <4>1. \A q \in Requests : ~(call[q].method = "exec" /\ SameName(q, u))
          <5>1. m = "exec" /\ call[u].session = s /\ call[u].id = i
            BY <1>3, <2>1, <2>4, <3>1 DEF SameName
          <5> QED
            BY <1>1, <5>1 DEF SameName, TypeOK, Calls, NoCall
        <4> QED
          BY <1>3, <2>1, <3>1, <4>1 DEF NamingInv, MarkInv, Unlisted, Fresh
      <3>2. CASE c # r
        BY <1>3, <2>1, <2>4, <3>2 DEF NamingInv, MarkInv, SameName, Cancelled
      <3> QED
        BY <3>1, <3>2
    <2> QED
      BY <2>1, <2>3, <2>4 DEF NamingInv, MarkInv
  <1> QED
    BY <1>4, <1>5, <1>6, <1>7 DEF NamingInv

\* A task registers a cell under its own name, and finds it there.
LEMMA NameTask ==
  ASSUME TypeOK, ProgressInv, NameInv, NEW r \in Requests, TaskStep(r)
  PROVE  NameInv'
  <1>0. OnlyTask(r)
    BY TaskFrame
  <1>1. CASE RequireSession(r)
    BY <1>1, <1>0 DEF OnlyTask, TypeOK, NameInv, ExecOf, ProgressInv, Single, Private, Fresh,
         Unlisted, Answered, Calls, Methods, RequireSession, Goto, FirstStep, sessionVars,
         slotVars, actorVars, flagVars
  <1>2. CASE SessionExpired(r)
    BY <1>2, <1>0 DEF OnlyTask, TypeOK, NameInv, ExecOf, ProgressInv, Single, Private, Fresh,
         Unlisted, Answered, Calls, Methods, SessionExpired, Answer, Goto, sessionVars,
         slotVars, actorVars, flagVars
  <1>3. CASE ReserveSessionCell(r)
    BY <1>3, <1>0 DEF OnlyTask, TypeOK, NameInv, ExecOf, ProgressInv, Single, Private, Fresh,
         Unlisted, Answered, Calls, Methods, ReserveSessionCell, Goto, sessionVars, actorVars,
         flagVars
  <1>4. CASE SessionFull(r)
    BY <1>4, <1>0 DEF OnlyTask, TypeOK, NameInv, ExecOf, ProgressInv, Single, Private, Fresh,
         Unlisted, Answered, Calls, Methods, SessionFull, Answer, Goto, sessionVars, slotVars,
         actorVars, flagVars
  <1>5. CASE ReserveHostCell(r)
    BY <1>5, <1>0 DEF OnlyTask, TypeOK, NameInv, ExecOf, ProgressInv, Single, Private, Fresh,
         Unlisted, Answered, Calls, Methods, ReserveHostCell, Goto, sessionVars, actorVars,
         flagVars
  <1>6. CASE HostFull(r)
    BY <1>6, <1>0 DEF OnlyTask, TypeOK, NameInv, ExecOf, ProgressInv, Single, Private, Fresh,
         Unlisted, Answered, Calls, Methods, HostFull, Answer, Goto, sessionVars, actorVars,
         flagVars
  <1>7. CASE SpawnCell(r)
    BY <1>7, <1>0 DEF OnlyTask, TypeOK, NameInv, ExecOf, ProgressInv, Single, Private, Fresh,
         Unlisted, Answered, Calls, Methods, SpawnCell, Goto, sessionVars, flagVars
  <1>8. CASE SpawnFails(r)
    BY <1>8, <1>0 DEF OnlyTask, TypeOK, NameInv, ExecOf, ProgressInv, Single, Private, Fresh,
         Unlisted, Answered, Calls, Methods, SpawnFails, Answer, Goto, ReleaseReserved,
         sessionVars, actorVars, flagVars
  <1>9. CASE InsertCancelled(r)
    BY <1>9, <1>0 DEF OnlyTask, TypeOK, NameInv, ExecOf, ProgressInv, Single, Private, Fresh,
         Unlisted, Answered, Calls, Methods, InsertCancelled, Goto, slotVars, actorVars,
         flagVars
  <1>10. CASE InsertDuplicate(r)
    BY <1>10, <1>0 DEF OnlyTask, TypeOK, NameInv, ExecOf, ProgressInv, Single, Private, Fresh,
         Unlisted, Answered, Calls, Methods, InsertDuplicate, Answer, Goto, Named, Signal,
         ReleaseReserved, sessionVars
  <1>11. CASE InsertCell(r)
    BY <1>11, <1>0 DEF OnlyTask, TypeOK, NameInv, ExecOf, ProgressInv, Single, Private, Fresh,
         Unlisted, Answered, Calls, Methods, InsertCell, Goto, Named, slotVars, actorVars,
         flagVars
  <1>12. CASE FindCell(r)
    BY <1>12, <1>0 DEF OnlyTask, TypeOK, NameInv, ExecOf, ProgressInv, Single, Private, Fresh,
         Unlisted, Answered, Calls, Methods, FindCell, Goto, Named, sessionVars, slotVars,
         actorVars, flagVars
  <1>13. CASE CellNotFound(r)
    BY <1>13, <1>0 DEF OnlyTask, TypeOK, NameInv, ExecOf, ProgressInv, Single, Private, Fresh,
         Unlisted, Answered, Calls, Methods, CellNotFound, Answer, Goto, Named, sessionVars,
         slotVars, actorVars, flagVars
  <1>14. CASE RemoveCell(r)
    BY <1>14, <1>0 DEF OnlyTask, TypeOK, NameInv, ExecOf, ProgressInv, Single, Private, Fresh,
         Unlisted, Answered, Calls, Methods, RemoveCell, Goto, slotVars, actorVars, flagVars
  <1>15. CASE RequestTermination(r)
    BY <1>15, <1>0 DEF OnlyTask, TypeOK, NameInv, ExecOf, ProgressInv, Single, Private, Fresh,
         Unlisted, Answered, Calls, Methods, RequestTermination, Goto, Named, sessionVars,
         slotVars, actorVars, flagVars
  <1>16. CASE MarkTermination(r)
    BY <1>16, <1>0 DEF OnlyTask, TypeOK, NameInv, ExecOf, ProgressInv, Single, Private, Fresh,
         Unlisted, Answered, Calls, Methods, MarkTermination, Answer, Goto, Named, slotVars,
         actorVars, flagVars
  <1>17. CASE CloseSession(r)
    BY <1>17, <1>0 DEF OnlyTask, TypeOK, NameInv, ExecOf, ProgressInv, Single, Private, Fresh,
         Unlisted, Answered, Calls, Methods, CloseSession, Goto, slotVars, actorVars, flagVars
  <1>18. CASE TakeCells(r)
    <2>1. /\ pc[r] = "take" /\ pc'[r] = "drain" /\ session' = session
          /\ counted' = counted /\ phase' = phase
          /\ \A s \in Sessions, i \in CellIds : cells'[s][i] \in {cells[s][i], None}
      BY <1>18 DEF TypeOK, TakeCells, Goto, slotVars, actorVars
    <2> QED
      BY <1>0, <2>1 DEF OnlyTask, NameInv, Single
  <1>19. CASE SessionClosed(r)
    BY <1>19, <1>0 DEF OnlyTask, TypeOK, NameInv, ExecOf, ProgressInv, Single, Private, Fresh,
         Unlisted, Answered, Calls, Methods, SessionClosed, Answer, Goto, sessionVars, slotVars,
         actorVars, flagVars
  <1>20. ASSUME NEW c \in Requests,
               ObserveBegin(r, c)
        PROVE  NameInv'
    BY <1>20, <1>0 DEF OnlyTask, TypeOK, NameInv, ExecOf, ProgressInv, Single, Private, Fresh,
         Unlisted, Answered, Calls, Methods, ObserveBegin, Goto, sessionVars, slotVars,
         actorVars
  <1>21. ASSUME NEW c \in Requests,
               ObserveClaim(r, c)
        PROVE  NameInv'
    BY <1>21, <1>0 DEF OnlyTask, TypeOK, NameInv, ExecOf, ProgressInv, Single, Private, Fresh,
         Unlisted, Answered, Calls, Methods, ObserveClaim, Goto, sessionVars, slotVars,
         actorVars
  <1>22. ASSUME NEW c \in Requests,
               ObserveRefused(r, c)
        PROVE  NameInv'
    BY <1>22, <1>0 DEF OnlyTask, TypeOK, NameInv, ExecOf, ProgressInv, Single, Private, Fresh,
         Unlisted, Answered, Calls, Methods, ObserveRefused, EndObservation, Goto, Cancelled,
         sessionVars, slotVars, actorVars, flagVars
  <1>23. ASSUME NEW c \in Requests,
               ObserveSend(r, c)
        PROVE  NameInv'
    BY <1>23, <1>0 DEF OnlyTask, TypeOK, NameInv, ExecOf, ProgressInv, Single, Private, Fresh,
         Unlisted, Answered, Calls, Methods, ObserveSend, Goto, sessionVars, slotVars, flagVars
  <1>24. ASSUME NEW c \in Requests,
               ObserveExpired(r, c)
        PROVE  NameInv'
    BY <1>24, <1>0 DEF OnlyTask, TypeOK, NameInv, ExecOf, ProgressInv, Single, Private, Fresh,
         Unlisted, Answered, Calls, Methods, ObserveExpired, EndObservation, Goto, Cancelled,
         sessionVars, slotVars, actorVars
  <1>25. ASSUME NEW c \in Requests,
               ObserveEnd(r, c)
        PROVE  NameInv'
    BY <1>25, <1>0 DEF OnlyTask, TypeOK, NameInv, ExecOf, ProgressInv, Single, Private, Fresh,
         Unlisted, Answered, Calls, Methods, ObserveEnd, EndObservation, Goto, Cancelled,
         sessionVars, slotVars, actorVars
  <1>26. ASSUME NEW c \in Requests,
               ObserveVerdict(r, c)
        PROVE  NameInv'
    BY <1>26, <1>0 DEF OnlyTask, TypeOK, NameInv, ExecOf, ProgressInv, Single, Private, Fresh,
         Unlisted, Answered, Calls, Methods, ObserveVerdict, Goto, Cancelled, Terminal,
         sessionVars, slotVars, actorVars
  <1>27. ASSUME NEW c \in Requests,
               ReleaseTerminal(r, c)
        PROVE  NameInv'
    BY <1>27, <1>0 DEF OnlyTask, TypeOK, NameInv, ExecOf, ProgressInv, Single, Private, Fresh,
         Unlisted, Answered, Calls, Methods, ReleaseTerminal, Answer, Goto, ReleaseCell,
         sessionVars, actorVars, flagVars
  <1>28. ASSUME NEW c \in Requests,
               TerminateCell(r, c)
        PROVE  NameInv'
    BY <1>28, <1>0 DEF OnlyTask, TypeOK, NameInv, ExecOf, ProgressInv, Single, Private, Fresh,
         Unlisted, Answered, Calls, Methods, TerminateCell, Answer, Goto, Signal, sessionVars,
         slotVars
  <1>29. ASSUME NEW c \in Requests,
               CloseSessionCell(r, c)
        PROVE  NameInv'
    BY <1>29, <1>0 DEF OnlyTask, TypeOK, NameInv, ExecOf, ProgressInv, Single, Private, Fresh,
         Unlisted, Answered, Calls, Methods, CloseSessionCell, Signal, ReleaseCell, sessionVars
  <1> QED
    BY <1>1, <1>2, <1>3, <1>4, <1>5, <1>6, <1>7, <1>8, <1>9, <1>10, <1>11, <1>12, <1>13, <1>14,
         <1>15, <1>16, <1>17, <1>18, <1>19, <1>20, <1>21, <1>22, <1>23, <1>24, <1>25, <1>26,
         <1>27, <1>28, <1>29 DEF TaskStep

\* What the task of r may do to handles, the registry, the phases and the slots.
ReachesCells(r) ==
  /\ \A x \in held'[r] : x \in held[r] \/ x = r \/ \E s \in Sessions, i \in CellIds : cells[s][i] = x
  /\ \A s \in Sessions, i \in CellIds :
       \/ cells'[s][i] = cells[s][i]
       \/ cells'[s][i] = None /\ pc[r] = "remove" /\ pc'[r] = "release" /\ held'[r] = held[r]
            /\ s = call[r].session /\ i = call[r].id
       \/ cells'[s][i] = None /\ pc[r] = "take" /\ s = call[r].session
       \/ cells'[s][i] = r /\ pc[r] = "insert" /\ s = call[r].session /\ i = call[r].id
            /\ cells[s][i] = None
  /\ \A s \in Sessions : session'[s] = "open" => session[s] = "open"
  /\ \A s \in Sessions : session[s] = "closed" => session'[s] = "closed"
  /\ pc[r] # "spawn" => phase'[r] = phase[r]
  /\ pc[r] = "spawn" => \/ phase'[r] = "boot" /\ pc'[r] = "insert"
                        \/ phase'[r] = phase[r] /\ pc'[r] = "done"
  /\ ending[r] => ending'[r]
  /\ \A x \in Requests : counted'[x] => counted[x] \/ (x = r /\ pc[r] = "spawn")
  /\ pc[r] = "release" => \A x \in held[r] : ~counted'[x]

\* What it may do to its own progress, to the marks and to its answer.
ReachesOwn(r) ==
  /\ pc[r] # "done"
  /\ pc'[r] = "remove" => pc[r] = "await" /\ reply[r] \in Terminal /\ held[r] # {} /\ held'[r] = held[r]
  /\ pc[r] \in Fresh /\ call[r].method = "exec" => pc'[r] \in Fresh \union {"insert", "done"}
  /\ pc[r] \in Fresh /\ pc[r] # "spawn" => pc'[r] # "insert"
  /\ pc[r] = "insert" => \/ Named(r) # None
                         \/ cells'[call[r].session][call[r].id] = r
                         \/ call[r].method = "exec" => ending'[r]
  /\ pc[r] = "insert" /\ call[r].id \in pendingTerminations[call[r].session] => ending'[r]
  /\ \A s \in Sessions : \A i \in pendingTerminations[s] :
       \/ i \in pendingTerminations'[s]
       \/ pc[r] = "insert" /\ s = call[r].session /\ i = call[r].id
       \/ pc[r] = "take" /\ s = call[r].session
  /\ \/ reply'[r] = reply[r]
     \/ reply[r] = "none" /\ reply'[r] \notin Terminal \union {"waiting"}
  /\ reply'[r] = "pending" => reply[r] = "pending" \/ MarkTermination(r)

OnlyReach(r) == ReachesCells(r) /\ ReachesOwn(r)

\* Every step of a task keeps to that.
LEMMA TaskReach ==
  ASSUME TypeOK, ProgressInv, NEW r \in Requests, TaskStep(r)
  PROVE  OnlyReach(r)
  <1>1. CASE RequireSession(r)
    <2>1. ReachesCells(r)
      BY <1>1 DEF ReachesCells, TypeOK, Calls, Methods, ProgressInv, Single, Fresh, Named,
           Terminal, Answered, RequireSession, Goto, FirstStep, sessionVars, slotVars,
           actorVars, flagVars
    <2>2. ReachesOwn(r)
      BY <1>1 DEF ReachesOwn, TypeOK, Calls, Methods, ProgressInv, Single, Fresh, Named,
           Terminal, Answered, RequireSession, Goto, FirstStep, sessionVars, slotVars,
           actorVars, flagVars
    <2> QED
      BY <2>1, <2>2 DEF OnlyReach
  <1>2. CASE SessionExpired(r)
    <2>1. ReachesCells(r)
      BY <1>2 DEF ReachesCells, TypeOK, Calls, Methods, ProgressInv, Single, Fresh, Named,
           Terminal, Answered, SessionExpired, Answer, Goto, sessionVars, slotVars, actorVars,
           flagVars
    <2>2. ReachesOwn(r)
      BY <1>2 DEF ReachesOwn, TypeOK, Calls, Methods, ProgressInv, Single, Fresh, Named,
           Terminal, Answered, SessionExpired, Answer, Goto, sessionVars, slotVars, actorVars,
           flagVars
    <2> QED
      BY <2>1, <2>2 DEF OnlyReach
  <1>3. CASE ReserveSessionCell(r)
    <2>1. ReachesCells(r)
      BY <1>3 DEF ReachesCells, TypeOK, Calls, Methods, ProgressInv, Single, Fresh, Named,
           Terminal, Answered, ReserveSessionCell, Goto, sessionVars, actorVars, flagVars
    <2>2. ReachesOwn(r)
      BY <1>3 DEF ReachesOwn, TypeOK, Calls, Methods, ProgressInv, Single, Fresh, Named,
           Terminal, Answered, ReserveSessionCell, Goto, sessionVars, actorVars, flagVars
    <2> QED
      BY <2>1, <2>2 DEF OnlyReach
  <1>4. CASE SessionFull(r)
    <2>1. ReachesCells(r)
      BY <1>4 DEF ReachesCells, TypeOK, Calls, Methods, ProgressInv, Single, Fresh, Named,
           Terminal, Answered, SessionFull, Answer, Goto, sessionVars, slotVars, actorVars,
           flagVars
    <2>2. ReachesOwn(r)
      BY <1>4 DEF ReachesOwn, TypeOK, Calls, Methods, ProgressInv, Single, Fresh, Named,
           Terminal, Answered, SessionFull, Answer, Goto, sessionVars, slotVars, actorVars,
           flagVars
    <2> QED
      BY <2>1, <2>2 DEF OnlyReach
  <1>5. CASE ReserveHostCell(r)
    <2>1. ReachesCells(r)
      BY <1>5 DEF ReachesCells, TypeOK, Calls, Methods, ProgressInv, Single, Fresh, Named,
           Terminal, Answered, ReserveHostCell, Goto, sessionVars, actorVars, flagVars
    <2>2. ReachesOwn(r)
      BY <1>5 DEF ReachesOwn, TypeOK, Calls, Methods, ProgressInv, Single, Fresh, Named,
           Terminal, Answered, ReserveHostCell, Goto, sessionVars, actorVars, flagVars
    <2> QED
      BY <2>1, <2>2 DEF OnlyReach
  <1>6. CASE HostFull(r)
    <2>1. ReachesCells(r)
      BY <1>6 DEF ReachesCells, TypeOK, Calls, Methods, ProgressInv, Single, Fresh, Named,
           Terminal, Answered, HostFull, Answer, Goto, sessionVars, actorVars, flagVars
    <2>2. ReachesOwn(r)
      BY <1>6 DEF ReachesOwn, TypeOK, Calls, Methods, ProgressInv, Single, Fresh, Named,
           Terminal, Answered, HostFull, Answer, Goto, sessionVars, actorVars, flagVars
    <2> QED
      BY <2>1, <2>2 DEF OnlyReach
  <1>7. CASE SpawnCell(r)
    <2>1. ReachesCells(r)
      BY <1>7 DEF ReachesCells, TypeOK, Calls, Methods, ProgressInv, Single, Fresh, Named,
           Terminal, Answered, SpawnCell, Goto, sessionVars, flagVars
    <2>2. ReachesOwn(r)
      BY <1>7 DEF ReachesOwn, TypeOK, Calls, Methods, ProgressInv, Single, Fresh, Named,
           Terminal, Answered, SpawnCell, Goto, sessionVars, flagVars
    <2> QED
      BY <2>1, <2>2 DEF OnlyReach
  <1>8. CASE SpawnFails(r)
    <2>1. ReachesCells(r)
      BY <1>8 DEF ReachesCells, TypeOK, Calls, Methods, ProgressInv, Single, Fresh, Named,
           Terminal, Answered, SpawnFails, Answer, Goto, ReleaseReserved, sessionVars,
           actorVars, flagVars
    <2>2. ReachesOwn(r)
      BY <1>8 DEF ReachesOwn, TypeOK, Calls, Methods, ProgressInv, Single, Fresh, Named,
           Terminal, Answered, SpawnFails, Answer, Goto, ReleaseReserved, sessionVars,
           actorVars, flagVars
    <2> QED
      BY <2>1, <2>2 DEF OnlyReach
  <1>9. CASE InsertCancelled(r)
    <2>1. ReachesCells(r)
      BY <1>9 DEF ReachesCells, TypeOK, Calls, Methods, ProgressInv, Single, Fresh, Named,
           Terminal, Answered, InsertCancelled, Goto, slotVars, actorVars, flagVars
    <2>2. ReachesOwn(r)
      BY <1>9 DEF ReachesOwn, TypeOK, Calls, Methods, ProgressInv, Single, Fresh, Named,
           Terminal, Answered, InsertCancelled, Goto, slotVars, actorVars, flagVars
    <2> QED
      BY <2>1, <2>2 DEF OnlyReach
  <1>10. CASE InsertDuplicate(r)
    <2>1. ReachesCells(r)
      BY <1>10 DEF ReachesCells, TypeOK, Calls, Methods, ProgressInv, Single, Fresh, Named,
           Terminal, Answered, InsertDuplicate, Answer, Goto, Signal, ReleaseReserved,
           sessionVars
    <2>2. /\ pc[r] = "insert" /\ pc'[r] = "done"
          /\ reply[r] = "none" /\ reply'[r] = "duplicate"
          /\ Named(r) # None /\ UNCHANGED <<cells, pendingTerminations>>
          /\ call[r].id \notin pendingTerminations[call[r].session]
      <3>1. /\ pc[r] = "insert" /\ pc' = [pc EXCEPT ![r] = "done"]
            /\ reply' = [reply EXCEPT ![r] = "duplicate"]
            /\ Named(r) # None /\ UNCHANGED <<cells, pendingTerminations>>
            /\ call[r].id \notin pendingTerminations[call[r].session]
        BY <1>10 DEF InsertDuplicate, Answer, Goto, sessionVars
      <3>2. reply[r] = "none"
        BY <3>1 DEF ProgressInv, Answered
      <3> QED
        BY <3>1, <3>2 DEF TypeOK
    <2>3. reply'[r] \notin Terminal \union {"waiting", "pending"}
      BY ONLY <2>2 DEF Terminal
    <2>4. pc[r] \notin Fresh /\ pc[r] # "done" /\ pc'[r] # "remove"
      BY ONLY <2>2 DEF Fresh
    <2>5. ReachesOwn(r)
      BY ONLY <2>2, <2>3, <2>4 DEF ReachesOwn
    <2> QED
      BY <2>1, <2>5 DEF OnlyReach
  <1>11. CASE InsertCell(r)
    <2>1. ReachesCells(r)
      BY <1>11 DEF ReachesCells, TypeOK, Calls, Methods, ProgressInv, Single, Fresh, Named,
           Terminal, Answered, InsertCell, Goto, slotVars, actorVars, flagVars
    <2>2. ReachesOwn(r)
      BY <1>11 DEF ReachesOwn, TypeOK, Calls, Methods, ProgressInv, Single, Fresh, Named,
           Terminal, Answered, InsertCell, Goto, slotVars, actorVars, flagVars
    <2> QED
      BY <2>1, <2>2 DEF OnlyReach
  <1>12. CASE FindCell(r)
    <2>1. ReachesCells(r)
      BY <1>12 DEF ReachesCells, TypeOK, Calls, Methods, ProgressInv, Single, Fresh, Named,
           Terminal, Answered, FindCell, Goto, sessionVars, slotVars, actorVars, flagVars
    <2>2. ReachesOwn(r)
      BY <1>12 DEF ReachesOwn, TypeOK, Calls, Methods, ProgressInv, Single, Fresh, Named,
           Terminal, Answered, FindCell, Goto, sessionVars, slotVars, actorVars, flagVars
    <2> QED
      BY <2>1, <2>2 DEF OnlyReach
  <1>13. CASE CellNotFound(r)
    <2>1. ReachesCells(r)
      BY <1>13 DEF ReachesCells, TypeOK, Calls, Methods, ProgressInv, Single, Fresh, Named,
           Terminal, Answered, CellNotFound, Answer, Goto, sessionVars, slotVars, actorVars,
           flagVars
    <2>2. ReachesOwn(r)
      BY <1>13 DEF ReachesOwn, TypeOK, Calls, Methods, ProgressInv, Single, Fresh, Named,
           Terminal, Answered, CellNotFound, Answer, Goto, sessionVars, slotVars, actorVars,
           flagVars
    <2> QED
      BY <2>1, <2>2 DEF OnlyReach
  <1>14. CASE RemoveCell(r)
    <2>1. ReachesCells(r)
      BY <1>14 DEF ReachesCells, TypeOK, Calls, Methods, ProgressInv, Single, Fresh, Named,
           Terminal, Answered, RemoveCell, Goto, slotVars, actorVars, flagVars
    <2>2. ReachesOwn(r)
      BY <1>14 DEF ReachesOwn, TypeOK, Calls, Methods, ProgressInv, Single, Fresh, Named,
           Terminal, Answered, RemoveCell, Goto, slotVars, actorVars, flagVars
    <2> QED
      BY <2>1, <2>2 DEF OnlyReach
  <1>15. CASE RequestTermination(r)
    <2>1. ReachesCells(r)
      BY <1>15 DEF ReachesCells, TypeOK, Calls, Methods, ProgressInv, Single, Fresh, Named,
           Terminal, Answered, RequestTermination, Goto, sessionVars, slotVars, actorVars,
           flagVars
    <2>2. ReachesOwn(r)
      BY <1>15 DEF ReachesOwn, TypeOK, Calls, Methods, ProgressInv, Single, Fresh, Named,
           Terminal, Answered, RequestTermination, Goto, sessionVars, slotVars, actorVars,
           flagVars
    <2> QED
      BY <2>1, <2>2 DEF OnlyReach
  <1>16. CASE MarkTermination(r)
    <2>1. ReachesCells(r)
      BY <1>16 DEF ReachesCells, TypeOK, Calls, Methods, ProgressInv, Single, Fresh, Named,
           Terminal, Answered, MarkTermination, Answer, Goto, slotVars, actorVars, flagVars
    <2>2. /\ pc[r] = "mark" /\ pc'[r] = "done"
          /\ reply[r] = "none"
          /\ \A s \in Sessions : pendingTerminations[s] \subseteq pendingTerminations'[s]
          /\ reply'[r] = "pending" /\ ending' = ending
      BY <1>16 DEF TypeOK, ProgressInv, Answered, MarkTermination, Answer, Goto
    <2>3. ReachesOwn(r)
      BY ONLY <1>16, <2>2 DEF ReachesOwn, Terminal, Fresh
    <2> QED
      BY <2>1, <2>3 DEF OnlyReach
  <1>17. CASE CloseSession(r)
    <2>1. ReachesCells(r)
      BY <1>17 DEF ReachesCells, TypeOK, Calls, Methods, ProgressInv, Single, Fresh, Named,
           Terminal, Answered, CloseSession, Goto, slotVars, actorVars, flagVars
    <2>2. ReachesOwn(r)
      BY <1>17 DEF ReachesOwn, TypeOK, Calls, Methods, ProgressInv, Single, Fresh, Named,
           Terminal, Answered, CloseSession, Goto, slotVars, actorVars, flagVars
    <2> QED
      BY <2>1, <2>2 DEF OnlyReach
  <1>18. CASE TakeCells(r)
    <2>1. ReachesCells(r)
      BY <1>18 DEF ReachesCells, TypeOK, Calls, Methods, ProgressInv, Single, Fresh, Named,
           Terminal, Answered, TakeCells, Goto, slotVars, actorVars, flagVars
    <2>2. ReachesOwn(r)
      BY <1>18 DEF ReachesOwn, TypeOK, Calls, Methods, ProgressInv, Single, Fresh, Named,
           Terminal, Answered, TakeCells, Goto, slotVars, actorVars, flagVars
    <2> QED
      BY <2>1, <2>2 DEF OnlyReach
  <1>19. CASE SessionClosed(r)
    <2>1. ReachesCells(r)
      BY <1>19 DEF ReachesCells, TypeOK, Calls, Methods, ProgressInv, Single, Fresh, Named,
           Terminal, Answered, SessionClosed, Answer, Goto, sessionVars, slotVars, actorVars,
           flagVars
    <2>2. ReachesOwn(r)
      BY <1>19 DEF ReachesOwn, TypeOK, Calls, Methods, ProgressInv, Single, Fresh, Named,
           Terminal, Answered, SessionClosed, Answer, Goto, sessionVars, slotVars, actorVars,
           flagVars
    <2> QED
      BY <2>1, <2>2 DEF OnlyReach
  <1>20. ASSUME NEW c \in Requests,
               ObserveBegin(r, c)
        PROVE  OnlyReach(r)
    <2>1. ReachesCells(r)
      BY <1>20 DEF ReachesCells, TypeOK, Calls, Methods, ProgressInv, Single, Fresh, Named,
           Terminal, Answered, ObserveBegin, Goto, sessionVars, slotVars, actorVars
    <2>2. ReachesOwn(r)
      BY <1>20 DEF ReachesOwn, TypeOK, Calls, Methods, ProgressInv, Single, Fresh, Named,
           Terminal, Answered, ObserveBegin, Goto, sessionVars, slotVars, actorVars
    <2> QED
      BY <2>1, <2>2 DEF OnlyReach
  <1>21. ASSUME NEW c \in Requests,
               ObserveClaim(r, c)
        PROVE  OnlyReach(r)
    <2>1. ReachesCells(r)
      BY <1>21 DEF ReachesCells, TypeOK, Calls, Methods, ProgressInv, Single, Fresh, Named,
           Terminal, Answered, ObserveClaim, Goto, sessionVars, slotVars, actorVars
    <2>2. ReachesOwn(r)
      BY <1>21 DEF ReachesOwn, TypeOK, Calls, Methods, ProgressInv, Single, Fresh, Named,
           Terminal, Answered, ObserveClaim, Goto, sessionVars, slotVars, actorVars
    <2> QED
      BY <2>1, <2>2 DEF OnlyReach
  <1>22. ASSUME NEW c \in Requests,
               ObserveRefused(r, c)
        PROVE  OnlyReach(r)
    <2>1. ReachesCells(r)
      BY <1>22 DEF ReachesCells, TypeOK, Calls, Methods, ProgressInv, Single, Fresh, Named,
           Terminal, Answered, ObserveRefused, EndObservation, Goto, Cancelled, sessionVars,
           slotVars, actorVars, flagVars
    <2>2. /\ pc[r] = "claim" /\ pc'[r] \in {"release", "done"}
          /\ reply[r] = "none" /\ reply'[r] = "wait_already_active"
          /\ UNCHANGED <<ending, pendingTerminations>>
      BY <1>22 DEF TypeOK, ProgressInv, Answered, ObserveRefused, EndObservation, Goto, Cancelled,
           sessionVars, flagVars
    <2>3. reply'[r] \notin Terminal \union {"waiting", "pending"}
      BY ONLY <2>2 DEF Terminal
    <2>4. pc[r] \notin Fresh \union {"done", "insert"} /\ pc'[r] # "remove"
      BY ONLY <2>2 DEF Fresh
    <2>5. ReachesOwn(r)
      BY ONLY <2>2, <2>3, <2>4 DEF ReachesOwn
    <2> QED
      BY <2>1, <2>5 DEF OnlyReach
  <1>23. ASSUME NEW c \in Requests,
               ObserveSend(r, c)
        PROVE  OnlyReach(r)
    <2>1. ReachesCells(r)
      BY <1>23 DEF ReachesCells, TypeOK, Calls, Methods, ProgressInv, Single, Fresh, Named,
           Terminal, Answered, ObserveSend, Goto, sessionVars, slotVars, flagVars
    <2>2. ReachesOwn(r)
      BY <1>23 DEF ReachesOwn, TypeOK, Calls, Methods, ProgressInv, Single, Fresh, Named,
           Terminal, Answered, ObserveSend, Goto, sessionVars, slotVars, flagVars
    <2> QED
      BY <2>1, <2>2 DEF OnlyReach
  <1>24. ASSUME NEW c \in Requests,
               ObserveExpired(r, c)
        PROVE  OnlyReach(r)
    <2>1. ReachesCells(r)
      BY <1>24 DEF ReachesCells, TypeOK, Calls, Methods, ProgressInv, Single, Fresh, Named,
           Terminal, Answered, ObserveExpired, EndObservation, Goto, Cancelled, sessionVars,
           slotVars, actorVars
    <2>2. ReachesOwn(r)
      BY <1>24 DEF ReachesOwn, TypeOK, Calls, Methods, ProgressInv, Single, Fresh, Named,
           Terminal, Answered, ObserveExpired, EndObservation, Goto, Cancelled, sessionVars,
           slotVars, actorVars
    <2> QED
      BY <2>1, <2>2 DEF OnlyReach
  <1>25. ASSUME NEW c \in Requests,
               ObserveEnd(r, c)
        PROVE  OnlyReach(r)
    <2>1. ReachesCells(r)
      BY <1>25 DEF ReachesCells, TypeOK, Calls, Methods, ProgressInv, Single, Fresh, Named,
           Terminal, Answered, ObserveEnd, EndObservation, Goto, Cancelled, sessionVars,
           slotVars, actorVars
    <2>2. ReachesOwn(r)
      BY <1>25 DEF ReachesOwn, TypeOK, Calls, Methods, ProgressInv, Single, Fresh, Named,
           Terminal, Answered, ObserveEnd, EndObservation, Goto, Cancelled, sessionVars,
           slotVars, actorVars
    <2> QED
      BY <2>1, <2>2 DEF OnlyReach
  <1>26. ASSUME NEW c \in Requests,
               ObserveVerdict(r, c)
        PROVE  OnlyReach(r)
    <2>1. ReachesCells(r)
      BY <1>26 DEF ReachesCells, TypeOK, Calls, Methods, ProgressInv, Single, Fresh, Named,
           Terminal, Answered, ObserveVerdict, Goto, Cancelled, sessionVars, slotVars, actorVars
    <2>2. ReachesOwn(r)
      BY <1>26 DEF ReachesOwn, TypeOK, Calls, Methods, ProgressInv, Single, Fresh, Named,
           Terminal, Answered, ObserveVerdict, Goto, Cancelled, sessionVars, slotVars, actorVars
    <2> QED
      BY <2>1, <2>2 DEF OnlyReach
  <1>27. ASSUME NEW c \in Requests,
               ReleaseTerminal(r, c)
        PROVE  OnlyReach(r)
    <2>1. ReachesCells(r)
      BY <1>27 DEF ReachesCells, TypeOK, Calls, Methods, ProgressInv, Single, Fresh, Named,
           Terminal, Answered, ReleaseTerminal, Answer, Goto, ReleaseCell, sessionVars,
           actorVars, flagVars
    <2>2. ReachesOwn(r)
      BY <1>27 DEF ReachesOwn, TypeOK, Calls, Methods, ProgressInv, Single, Fresh, Named,
           Terminal, Answered, ReleaseTerminal, Answer, Goto, ReleaseCell, sessionVars,
           actorVars, flagVars
    <2> QED
      BY <2>1, <2>2 DEF OnlyReach
  <1>28. ASSUME NEW c \in Requests,
               TerminateCell(r, c)
        PROVE  OnlyReach(r)
    <2>1. ReachesCells(r)
      BY <1>28 DEF ReachesCells, TypeOK, Calls, Methods, ProgressInv, Single, Fresh, Named,
           Terminal, Answered, TerminateCell, Answer, Goto, Signal, sessionVars, slotVars
    <2>2. ReachesOwn(r)
      BY <1>28 DEF ReachesOwn, TypeOK, Calls, Methods, ProgressInv, Single, Fresh, Named,
           Terminal, Answered, TerminateCell, Answer, Goto, Signal, sessionVars, slotVars
    <2> QED
      BY <2>1, <2>2 DEF OnlyReach
  <1>29. ASSUME NEW c \in Requests,
               CloseSessionCell(r, c)
        PROVE  OnlyReach(r)
    <2>1. ReachesCells(r)
      BY <1>29 DEF ReachesCells, TypeOK, Calls, Methods, ProgressInv, Single, Fresh, Named,
           Terminal, Answered, CloseSessionCell, Signal, ReleaseCell, sessionVars
    <2>2. ReachesOwn(r)
      BY <1>29 DEF ReachesOwn, TypeOK, Calls, Methods, ProgressInv, Single, Fresh, Named,
           Terminal, Answered, CloseSessionCell, Signal, ReleaseCell, sessionVars
    <2> QED
      BY <2>1, <2>2 DEF OnlyReach
  <1> QED
    BY <1>1, <1>2, <1>3, <1>4, <1>5, <1>6, <1>7, <1>8, <1>9, <1>10, <1>11, <1>12, <1>13, <1>14,
         <1>15, <1>16, <1>17, <1>18, <1>19, <1>20, <1>21, <1>22, <1>23, <1>24, <1>25, <1>26,
         <1>27, <1>28, <1>29 DEF TaskStep

\* A cell that is private stays so, unless its exec registers it.
LEMMA PrivateKept ==
  ASSUME NEW r \in Requests, OnlyTask(r), OnlyReach(r), NEW c \in Requests, Private(c),
         c # r \/ pc[r] # "insert"
  PROVE  Private(c)'
  <1>1. \A s \in Sessions, i \in CellIds : cells'[s][i] # c
    BY HostAssumption DEF Private, OnlyReach, ReachesCells, ReachesOwn
  <1>2. \A q \in Requests : q # c => c \notin held'[q]
    BY DEF Private, OnlyReach, ReachesCells, ReachesOwn, OnlyTask
  <1> QED
    BY <1>1, <1>2 DEF Private

\* A cancelled exec hands its cell to nobody.
LEMMA CancelledTask ==
  ASSUME TypeOK, ProgressInv, NameInv, CancelledInv, NEW r \in Requests, TaskStep(r)
  PROVE  CancelledInv'
  <1>0. OnlyTask(r) /\ OnlyReach(r)
    BY TaskFrame, TaskReach
  <1>1. ASSUME NEW c \in Requests, c # r, Cancelled(c)'
        PROVE  /\ Private(c)'
               /\ \/ pc'[c] \in {"observe", "claim", "send", "await", "release"} /\ c \in held'[c]
                  \/ pc'[c] = "done" /\ ~counted'[c]
    <2>1. Cancelled(c)
      BY <1>0, <1>1 DEF Cancelled, OnlyTask
    <2> QED
      BY <1>0, <1>1, <2>1, PrivateKept DEF CancelledInv, OnlyTask, OnlyReach, ReachesCells,
         ReachesOwn
  <1>2. ASSUME Cancelled(r), Cancelled(r)'
        PROVE  /\ Private(r)'
               /\ \/ pc'[r] \in {"observe", "claim", "send", "await", "release"} /\ r \in held'[r]
                  \/ pc'[r] = "done" /\ ~counted'[r]
    <2>1. /\ Private(r) /\ call[r].method = "exec" /\ ending[r]
          /\ \/ pc[r] \in {"observe", "claim", "send", "await", "release"} /\ r \in held[r]
             \/ pc[r] = "done" /\ ~counted[r]
      BY <1>2 DEF CancelledInv, Cancelled
    <2>2. Private(r)'
      BY <1>0, <2>1, PrivateKept
    <2>3. ASSUME NEW c \in Requests,
                 \/ ObserveBegin(r, c) \/ ObserveClaim(r, c) \/ ObserveRefused(r, c)
                 \/ ObserveSend(r, c) \/ ObserveExpired(r, c) \/ ObserveEnd(r, c)
                 \/ ObserveVerdict(r, c)
          PROVE  pc'[r] \in {"claim", "send", "await", "release"} /\ r \in held'[r]
      BY <2>1, <2>3 DEF TypeOK, ObserveBegin, ObserveClaim, ObserveRefused, ObserveSend,
           ObserveExpired, ObserveEnd, ObserveVerdict, EndObservation, Cancelled, Goto
    <2>4. ASSUME NEW c \in Requests, ReleaseTerminal(r, c)
          PROVE  pc'[r] = "done" /\ ~counted'[r]
      BY <1>0, <2>1, <2>4 DEF TypeOK, ReleaseTerminal, Answer, Goto, OnlyReach, ReachesCells,
         ReachesOwn
    <2> QED
      BY <2>1, <2>2, <2>3, <2>4 DEF TaskStep, RequireSession, SessionExpired,
         ReserveSessionCell,
           SessionFull, ReserveHostCell, HostFull, SpawnCell, SpawnFails, InsertCancelled,
           InsertDuplicate, InsertCell, FindCell, CellNotFound, RemoveCell, RequestTermination,
           MarkTermination, CloseSession, TakeCells, SessionClosed, TerminateCell,
           CloseSessionCell
  <1>3. ASSUME ~Cancelled(r), Cancelled(r)'
        PROVE  Private(r)' /\ pc'[r] = "observe" /\ r \in held'[r]
    <2>1. InsertCancelled(r)
      BY <1>3 DEF TaskStep, Cancelled, TypeOK, RequireSession, Goto, FirstStep, sessionVars,
           slotVars, actorVars, flagVars, SessionExpired, Answer, ReserveSessionCell,
           SessionFull, ReserveHostCell, HostFull, SpawnCell, SpawnFails, ReleaseReserved,
           InsertCancelled, InsertDuplicate, Named, Signal, InsertCell, FindCell, CellNotFound,
           RemoveCell, RequestTermination, MarkTermination, CloseSession, TakeCells,
           SessionClosed, ObserveBegin, ObserveClaim, ObserveRefused, EndObservation,
           ObserveSend, ObserveExpired, ObserveEnd, ObserveVerdict, Terminal, ReleaseTerminal,
           ReleaseCell, TerminateCell, CloseSessionCell
    <2>2. pc'[r] = "observe" /\ held' = held /\ cells' = cells /\ pc[r] = "insert"
      BY <2>1 DEF InsertCancelled, Goto, TypeOK
    <2> QED
      BY <2>2 DEF ProgressInv, NameInv, Unlisted, Private
  <1> QED
    BY <1>1, <1>2, <1>3 DEF CancelledInv

\* Two cells with one name are the same.
LEMMA SameCell ==
  ASSUME TypeOK, NameInv, NEW c \in Requests, NEW d \in Requests,
         call[c].method = "exec", call[d].method = "exec", SameName(c, d)
  PROVE  c = d
  <1>1. call[c] \in Calls /\ call[d] \in Calls
    BY DEF TypeOK, NoCall
  <1>2. call[c] = call[d]
    BY <1>1 DEF Calls, SameName
  <1> QED
    BY <1>2 DEF NameInv

\* A cell leaves an open session's registry only after its verdict.
LEMMA ReachTask ==
  ASSUME TypeOK, HandleInv, NamingInv, NEW r \in Requests, TaskStep(r)
  PROVE  ReachInv'
  <1>0. /\ OnlyTask(r) /\ OnlyReach(r) /\ CancelledInv' /\ ProgressInv /\ VerdictInv
        /\ NameInv /\ CancelledInv /\ ReachInv
    BY TaskFrame, TaskReach, CancelledTask DEF HandleInv, NamingInv
  <1>1. \A x \in Requests : phase[x] # "none" => phase'[x] = phase[x]
    BY <1>0 DEF OnlyTask, OnlyReach, ReachesCells, ReachesOwn, ProgressInv, Fresh
  <1>2. ASSUME NEW d \in Requests, pc'[d] = "remove" PROVE \E e \in held'[d] : phase'[e] \in Terminal
    <2>1. \E e \in held'[d] : e \in Requests /\ phase[e] \in Terminal
      <3>1. CASE d = r
        <4>1. PICK e \in held[r] : TRUE
          BY <1>0, <1>2, <3>1 DEF OnlyReach, ReachesCells, ReachesOwn
        <4> QED
          BY <1>0, <1>2, <3>1, <4>1 DEF OnlyReach, ReachesCells, ReachesOwn, VerdictInv, TypeOK
      <3>2. CASE d # r
        BY <1>0, <1>2, <3>2 DEF ReachInv, OnlyTask, TypeOK
      <3> QED
        BY <3>1, <3>2
    <2> QED
      BY <1>1, <2>1 DEF Terminal
  <1>3. ASSUME NEW d \in Requests, call'[d].method = "exec", phase'[d] = "none"
        PROVE  pc'[d] \in Fresh \union {"done"}
    <2>1. phase[d] = "none" /\ call[d].method = "exec" /\ pc[d] \in Fresh \union {"done"}
      BY <1>0, <1>1, <1>3 DEF ReachInv, OnlyTask
    <2> QED
      BY <1>0, <1>3, <2>1 DEF OnlyTask, OnlyReach, ReachesCells, ReachesOwn, Fresh
  <1>4. ASSUME NEW d \in Requests, phase'[d] # "none", pc'[d] \notin Unlisted,
               session'[call'[d].session] = "open"
        PROVE  \/ Named(d)' = d
               \/ Cancelled(d)'
               \/ /\ phase'[d] \in Terminal
                  /\ ~counted'[d] \/ \E q \in Requests : pc'[q] = "release" /\ d \in held'[q]
    <2>1. call'[d] = call[d] /\ call[d] \in Calls /\ call'[r] = call[r]
      <3>1. pc[d] # "idle"
        BY <1>0, <1>4 DEF OnlyTask, OnlyReach, ReachesCells, ReachesOwn, ProgressInv, Fresh,
           Unlisted
      <3> QED
        BY <1>0, <3>1 DEF OnlyTask, TypeOK
    <2>2. session[call[d].session] = "open"
      BY <1>0, <1>4, <2>1 DEF OnlyReach, ReachesCells, ReachesOwn, Calls
    <2>3. CASE pc[d] \in Unlisted
      <3>1. d = r
        BY <1>0, <1>4, <2>3 DEF OnlyTask
      <3>2. pc[r] = "insert"
        BY <1>0, <1>4, <2>3, <3>1 DEF Unlisted, Fresh, OnlyReach, ReachesCells, ReachesOwn,
           ProgressInv
      <3>3. call[r].method = "exec" /\ phase[r] # "none" /\ Private(r) /\ Named(r) # r
        BY <1>0, <2>1, <3>1, <3>2 DEF NameInv, ProgressInv, Unlisted, Private, Named, Calls
      <3>4. Named(r) = None
        <4>1. ASSUME Named(r) \in Requests PROVE call[Named(r)] = call[r]
          BY <1>0, <2>1, <3>1, <3>3, <4>1, HostAssumption DEF NameInv, Named, ExecOf, Calls
        <4>2. Named(r) \in Requests \union {None}
          BY <2>1, <3>1 DEF Named, TypeOK, Calls
        <4> QED
          BY <1>0, <3>3, <4>1, <4>2 DEF NameInv
      <3> QED
        BY <1>0, <2>1, <3>1, <3>2, <3>3, <3>4 DEF OnlyReach, ReachesCells, ReachesOwn, Named,
           Cancelled
    <2>4. CASE pc[d] \notin Unlisted
      <3>1. phase[d] # "none" /\ phase'[d] = phase[d]
        BY <1>0, <1>1, <1>4, <2>4 DEF OnlyTask, OnlyReach, ReachesCells, ReachesOwn, Unlisted,
           Fresh
      <3>2. CASE Named(d) = d
        <4>1. CASE cells'[call[d].session][call[d].id] = d
          BY <2>1, <4>1 DEF Named
        <4>2. CASE cells'[call[d].session][call[d].id] # d
          <5>1. /\ pc[r] = "remove" /\ pc'[r] = "release" /\ held'[r] = held[r]
                /\ SameName(d, r)
            <6>1. ~(pc[r] = "take" /\ call[d].session = call[r].session)
              BY <1>0, <2>2 DEF NameInv
            <6> QED
              BY <1>0, <2>1, <3>2, <4>2, <6>1, HostAssumption DEF OnlyReach, ReachesCells,
                 ReachesOwn, Named, SameName, Calls
          <5>2. PICK e \in held[r] : phase[e] \in Terminal
            BY <1>0, <5>1 DEF ReachInv
          <5>3. e \in Requests /\ call[e] = ExecOf(call[r].session, call[r].id)
            BY <1>0, <5>1, <5>2 DEF NameInv, Single, TypeOK
          <5>4. e = d
            BY <1>0, <3>1, <5>1, <5>3, SameCell DEF SameName, ExecOf, NameInv
          <5> QED
            BY <3>1, <5>1, <5>2, <5>4
        <4> QED
          BY <4>1, <4>2
      <3>3. CASE Cancelled(d)
        BY <1>0, <3>3, <2>1 DEF Cancelled, OnlyTask, OnlyReach, ReachesCells, ReachesOwn,
           CancelledInv, Private
      <3>4. CASE /\ phase[d] \in Terminal
                 /\ ~counted[d] \/ \E q \in Requests : pc[q] = "release" /\ d \in held[q]
        BY <1>0, <3>1, <3>4 DEF OnlyTask, OnlyReach, ReachesCells, ReachesOwn, ProgressInv,
           Fresh, Terminal
      <3> QED
        BY <1>0, <2>2, <2>4, <3>1, <3>2, <3>3, <3>4 DEF ReachInv
    <2> QED
      BY <2>3, <2>4
  <1> QED
    BY <1>2, <1>3, <1>4 DEF ReachInv

\* A mark is left for an exec that has not spawned its cell, and taken by it.
LEMMA MarkTask ==
  ASSUME TypeOK, HandleInv, NamingInv, NEW r \in Requests, TaskStep(r)
  PROVE  MarkInv'
  <1>0. /\ OnlyTask(r) /\ OnlyReach(r) /\ ProgressInv
        /\ NameInv /\ CancelledInv /\ ReachInv /\ MarkInv
    BY TaskFrame, TaskReach DEF HandleInv, NamingInv
  <1> SUFFICES ASSUME NEW t \in Requests, reply'[t] = "pending", session'[call'[t].session] = "open"
               PROVE  /\ \/ call'[t].id \in pendingTerminations'[call'[t].session]
                         \/ \E c \in Requests : call'[c].method = "exec" /\ SameName(c, t)'
                      /\ \A c \in Requests :
                           call'[c].method = "exec" /\ SameName(c, t)' /\ phase'[c] \in {"none", "boot"} =>
                             \/ /\ pc'[c] \in Unlisted
                                /\ call'[t].id \in pendingTerminations'[call'[t].session]
                             \/ Cancelled(c)'
                             \/ pc'[c] = "done" /\ phase'[c] = "none"
    BY DEF MarkInv
  <1>1. /\ call' = call /\ \A c \in Requests : SameName(c, t)' <=> SameName(c, t)
        /\ \A c \in Requests : phase'[c] \in {"none", "boot"} => phase[c] \in {"none", "boot"}
        /\ \A c \in Requests : phase[c] # "none" => phase'[c] = phase[c]
        /\ \A c \in Requests : Cancelled(c) => Cancelled(c)'
    BY <1>0 DEF OnlyTask, OnlyReach, ReachesCells, ReachesOwn, SameName, Cancelled,
       ProgressInv, Fresh
  <1>2. CASE reply[t] = "pending"
    <2>1. call[t] \in Calls
      BY <1>2 DEF TypeOK, HandleInv, ProgressInv, Answered
    <2>2. session[call[t].session] = "open"
      BY <1>0, <1>1, <2>1 DEF OnlyReach, ReachesCells, ReachesOwn, Calls
    <2>3. ASSUME call[t].id \in pendingTerminations[call[t].session]
          PROVE  \/ call[t].id \in pendingTerminations'[call[t].session]
                 \/ SameName(r, t) /\ call[r].method = "exec" /\ Cancelled(r)'
      <3>1. ~(pc[r] = "take" /\ call[t].session = call[r].session)
        BY <1>0, <2>2 DEF NameInv
      <3>2. CASE pc[r] = "insert" /\ call[t].session = call[r].session /\ call[t].id = call[r].id
        BY <1>0, <1>1, <2>3, <3>2 DEF OnlyReach, ReachesCells, ReachesOwn, NameInv, SameName,
           Cancelled
      <3> QED
        BY <1>0, <2>1, <2>3, <3>1, <3>2 DEF OnlyReach, ReachesCells, ReachesOwn, Calls
    <2>4. \/ call[t].id \in pendingTerminations'[call[t].session]
          \/ \E c \in Requests : call[c].method = "exec" /\ SameName(c, t)
      BY <1>0, <1>2, <2>2, <2>3 DEF MarkInv
    <2>5. ASSUME NEW c \in Requests, call[c].method = "exec", SameName(c, t), phase'[c] \in {"none", "boot"}
          PROVE  \/ /\ pc'[c] \in Unlisted
                    /\ call[t].id \in pendingTerminations'[call[t].session]
                 \/ Cancelled(c)'
                 \/ pc'[c] = "done" /\ phase'[c] = "none"
      <3>1. CASE pc[c] \in Unlisted /\ call[t].id \in pendingTerminations[call[t].session]
        <4>1. \/ call[t].id \in pendingTerminations'[call[t].session]
              \/ Cancelled(c)'
          <5>1. SameName(r, t) /\ call[r].method = "exec" => r = c
            BY <1>0, <2>5, SameCell DEF SameName
          <5> QED
            BY <2>3, <3>1, <5>1
        <4>2. CASE c # r
          BY <1>0, <3>1, <4>1, <4>2 DEF OnlyTask
        <4>3. CASE c = r /\ pc[r] \in Fresh
          BY <1>0, <1>1, <2>5, <4>1, <4>3 DEF OnlyReach, ReachesCells, ReachesOwn, ProgressInv,
             Unlisted, Fresh
        <4>4. CASE c = r /\ pc[r] = "insert"
          BY <1>0, <1>1, <2>5, <3>1, <4>4 DEF OnlyReach, ReachesCells, ReachesOwn, SameName,
             Cancelled
        <4> QED
          BY <3>1, <4>2, <4>3, <4>4 DEF Unlisted
      <3>2. CASE Cancelled(c)
        BY <1>1, <3>2
      <3>3. CASE pc[c] = "done" /\ phase[c] = "none"
        BY <1>0, <3>3 DEF OnlyTask, OnlyReach, ReachesCells, ReachesOwn
      <3> QED
        BY <1>0, <1>1, <1>2, <2>2, <2>5, <3>1, <3>2, <3>3 DEF MarkInv
    <2> QED
      BY <1>1, <2>4, <2>5
  <1>3. CASE reply[t] # "pending"
    <2>1. t = r /\ MarkTermination(r)
      BY <1>0, <1>3 DEF OnlyTask, OnlyReach, ReachesCells, ReachesOwn
    <2>2. /\ pc[r] = "mark" /\ Named(r) = None /\ session' = session /\ phase' = phase
          /\ call[r] \in Calls /\ call[r].id \in pendingTerminations'[call[r].session]
      BY <2>1 DEF MarkTermination, TypeOK, actorVars, Calls
    <2>3. ASSUME NEW c \in Requests, call[c].method = "exec", SameName(c, t), phase[c] \in {"none", "boot"}
          PROVE  pc'[c] \in Unlisted \/ Cancelled(c)' \/ (pc'[c] = "done" /\ phase[c] = "none")
      <3>1. CASE phase[c] = "none"
        BY <1>0, <2>2, <2>3, <3>1 DEF ReachInv, OnlyTask, Unlisted, Fresh
      <3>2. CASE pc[c] \in Unlisted
        BY <1>0, <2>2, <3>2 DEF OnlyTask, Unlisted, Fresh
      <3>3. CASE phase[c] = "boot" /\ pc[c] \notin Unlisted
        <4>1. session[call[c].session] = "open" /\ Named(c) = None
          BY <1>1, <2>1, <2>2, <2>3 DEF SameName, Named
        <4> QED
          BY <1>0, <1>1, <3>3, <4>1, HostAssumption DEF ReachInv, Terminal
      <3> QED
        BY <2>3, <3>1, <3>2, <3>3
    <2> QED
      BY <1>1, <2>1, <2>2, <2>3
  <1> QED
    BY <1>2, <1>3

-----------------------------------------------------------------------------
(* With a client that names each cell once                                 *)

\* The names at the start: nothing is named yet.
LEMMA NamingInit == Init => NamingInv
  BY HostAssumption DEF Init, NamingInv, NameInv, CancelledInv, ReachInv, MarkInv, Cancelled,
     NoCall, Unlisted,
       Fresh

\* Every step keeps what a name stands for.
LEMMA NamingStep ==
  ASSUME ~ReuseIds
  PROVE  TypeOK /\ HandleInv /\ NamingInv /\ [Next]_vars => NamingInv'
  <1> SUFFICES ASSUME TypeOK, HandleInv, NamingInv, [Next]_vars PROVE NamingInv'
    OBVIOUS
  <1>1. ASSUME NEW s \in Sessions, OpenSession(s) PROVE NamingInv'
    <2>1. /\ UNCHANGED <<cells, pendingTerminations, pc, call, ending, held, reply, phase, counted>>
          /\ \A x \in Sessions : session'[x] = IF x = s THEN "open" ELSE session[x]
          /\ session[s] = "unborn"
      BY <1>1 DEF OpenSession, TypeOK, slotVars, taskVars, actorVars
    <2>2. \A r \in Requests : pc[r] # "idle" => call[r] \in Calls /\ call[r].session # s
      BY <2>1 DEF NamingInv, NameInv, TypeOK
    <2>3. \A r \in Requests : pc[r] # "idle" => session'[call[r].session] = session[call[r].session]
      BY <2>1, <2>2 DEF Calls
    <2>4. NameInv'
      BY <2>1, <2>2, <2>3 DEF NamingInv, NameInv
    <2>5. CancelledInv'
      BY <2>1 DEF NamingInv, CancelledInv, Cancelled, Private
    <2>6. ReachInv'
      BY <2>1, <2>3 DEF NamingInv, ReachInv, Cancelled, Named, Unlisted, Fresh
    <2>7. MarkInv'
      <3>1. \A t \in Requests : reply[t] = "pending" => pc[t] # "idle"
        BY DEF HandleInv, ProgressInv, Answered
      <3> QED
        BY <2>1, <2>3, <3>1 DEF NamingInv, MarkInv, Cancelled, SameName
    <2> QED
      BY <2>4, <2>5, <2>6, <2>7 DEF NamingInv
  <1>2. ASSUME NEW r \in Requests, NEW m \in Methods, NEW s \in Sessions, NEW i \in CellIds,
               NEW t \in BOOLEAN, Arrive(r, m, s, i, t)
        PROVE  NamingInv'
    BY <1>2, NamingArrive DEF HandleInv
  <1>3. ASSUME NEW r \in Requests, TaskStep(r) PROVE NamingInv'
    BY <1>3, NameTask, CancelledTask, ReachTask, MarkTask DEF NamingInv, HandleInv
  <1>4. ASSUME NEW c \in Requests,
               \/ ActorCommand(c) \/ ActorYield(c)
               \/ \E status \in Terminal : ActorConclude(c, status)
        PROVE  NamingInv'
    BY <1>4, ActorFrame, NamingActor
  <1>5. CASE UNCHANGED vars
    BY <1>5 DEF vars, sessionVars, slotVars, taskVars, actorVars, NamingInv, NameInv,
       CancelledInv, Private, ReachInv,
             MarkInv, SameName, Cancelled, Named
  <1> QED
    BY <1>1, <1>2, <1>3, <1>4, <1>5 DEF Next

\* With unique ids NamingInv is invariant.
LEMMA NamingInvariant == ASSUME ~ReuseIds PROVE Spec => []NamingInv
  <1>1. SlotInv => HandleInv
    BY DEF SlotInv
  <1>2. TypeOK /\ HandleInv /\ NamingInv /\ [Next]_vars => NamingInv'
    BY NamingStep
  <1> QED
    BY <1>1, <1>2, NamingInit, TypeCorrect, SlotInvariant, PTL DEF Spec

\* While its session is open, no cell can hold a slot out of everybody's reach: a
\* wait or the close of the session finds it, or a request is about to release it.
THEOREM SlotsReachable == ASSUME ~ReuseIds PROVE Spec => []SlotReachable
  <1>1. NamingInv => SlotReachable
    <2> SUFFICES ASSUME NamingInv, NEW r \in Requests, pc[r] = "done", HoldsSlot(r),
                        session[call[r].session] = "open"
                 PROVE  \/ cells[call[r].session][call[r].id] = r
                        \/ \E q \in Requests : pc[q] = "release" /\ r \in held[q]
      BY DEF SlotReachable
    <2>1. counted[r] /\ phase[r] # "none" /\ pc[r] \notin Unlisted
      BY DEF NamingInv, NameInv, HoldsSlot, Unlisted, Fresh
    <2> QED
      BY <2>1 DEF NamingInv, ReachInv, CancelledInv, Named
  <1> QED
    BY <1>1, NamingInvariant, PTL

\* A cell starts only if no terminate request came before its exec.
StartsUncancelled ==
  \A c, t \in Requests :
    /\ phase[c] = "boot" /\ phase'[c] = "running"
    /\ reply[t] = "pending" /\ session[call[t].session] = "open"
    => call[t].session # call[c].session \/ call[t].id # call[c].id

\* No step starts a cell whose name a terminate marked.
LEMMA StartStep ==
  ASSUME TypeOK, HandleInv, ObserverInv, NamingInv, [Next]_vars
  PROVE  StartsUncancelled
  <1> SUFFICES ASSUME NEW c \in Requests, NEW t \in Requests,
                      phase[c] = "boot", phase'[c] = "running",
                      reply[t] = "pending", session[call[t].session] = "open", SameName(c, t)
               PROVE  FALSE
    BY DEF StartsUncancelled, SameName
  <1>1. ActorStart(c)
    <2>1. ~UNCHANGED vars
      BY DEF vars, actorVars
    <2>2. ASSUME NEW r \in Requests, TaskStep(r) PROVE FALSE
      BY <2>2, TaskFrame, TaskReach DEF OnlyTask, OnlyReach, ReachesCells, ReachesOwn, HandleInv
    <2>3. ASSUME NEW d \in Requests, d # c,
                 \/ ActorCommand(d) \/ ActorYield(d)
                 \/ \E status \in Terminal : ActorConclude(d, status)
          PROVE  FALSE
      BY <2>3, ActorFrame DEF OnlyActor
    <2>4. \A s \in Sessions : ~OpenSession(s)
      BY DEF OpenSession, actorVars
    <2>5. \A r \in Requests : \A m \in Methods, s \in Sessions, i \in CellIds, b \in BOOLEAN :
            ~Arrive(r, m, s, i, b)
      BY DEF Arrive, actorVars
    <2>6. ~ActorYield(c) /\ ~\E status \in Terminal : ActorConclude(c, status)
      BY DEF ActorYield, ActorConclude, Running, Alive
    <2>7. ActorCommand(c)
      BY <2>1, <2>2, <2>3, <2>4, <2>5, <2>6 DEF Next
    <2>8. phase'[c] \notin Terminal
      BY DEF Terminal
    <2> QED
      BY <2>7, <2>8 DEF ActorCommand, ActorCancel, ActorTerminate, ActorObserveEnding,
         ActorObserve,
           ActorRepeat, ActorReturn, ActorOrphaned, Running, Alive, TypeOK
  <1> DEFINE w == Command(c)
  <1>2. w \in Waiters(c) /\ ~ending[w]
    <2>1. HeardOnce(c) /\ commands[c] # <<>> /\ w # None /\ ~ending[w] /\ Receive(c)
      BY <1>1 DEF ActorStart, ObserverInv
    <2> QED
      BY <2>1, ReceiveOnce
  <1>3. w \in Requests /\ pc[w] = "await" /\ c \in held[w]
    BY <1>2, WaiterTypes DEF ObserverInv, Observers
  <1>4. call[c].method = "exec"
    BY DEF NamingInv, NameInv
  <1>5. pc[c] \in Unlisted \/ Cancelled(c)
    BY <1>4 DEF NamingInv, MarkInv
  <1>6. Private(c)
    BY <1>5 DEF HandleInv, ProgressInv, NamingInv, CancelledInv
  <1>7. w = c
    BY <1>3, <1>6 DEF Private
  <1> QED
    BY <1>2, <1>3, <1>5, <1>7 DEF Cancelled, Unlisted, Fresh

\* A terminate request that came before its exec stops it: in an open session no
\* cell with that name starts to run once the terminate was answered "pending".
THEOREM CancelledCellsNeverStart == ASSUME ~ReuseIds PROVE Spec => CancelledNeverStarts
  <1>1. SlotInv => HandleInv
    BY DEF SlotInv
  <1>2. TypeOK /\ HandleInv /\ ObserverInv /\ NamingInv /\ [Next]_vars => [StartsUncancelled]_vars
    BY StartStep
  <1>3. Spec => [][StartsUncancelled]_vars
    BY <1>1, <1>2, TypeCorrect, SlotInvariant, ObserverInvariant, NamingInvariant, PTL DEF Spec
  <1> QED
    BY <1>3 DEF CancelledNeverStarts, StartsUncancelled

-----------------------------------------------------------------------------
(* The host implements the client's contract                               *)

\* The verdict of a cell's name is the verdict of the cell.
LEMMA VerdictOf ==
  ASSUME TypeOK, NameInv, NEW c \in Requests, phase[c] # "none"
  PROVE  /\ NameOf(c) \in Names
         /\ verdict[NameOf(c)] = IF phase[c] \in Terminal THEN phase[c] ELSE "none"
  <1>1. call[c].method = "exec" /\ call[c] \in Calls /\ NameOf(c) \in Names
    BY DEF NameInv, TypeOK, NoCall, Names, NameOf, Calls
  <1>2. Decided(NameOf(c)) \subseteq {c}
    BY <1>1, SameCell DEF Decided, NameOf, NameInv, SameName, Terminal
  <1>3. CASE phase[c] \in Terminal
    <2>1. Decided(NameOf(c)) = {c}
      BY <1>2, <1>3 DEF Decided
    <2> QED
      BY <1>1, <1>3, <2>1 DEF verdict
  <1>4. CASE phase[c] \notin Terminal
    <2>1. Decided(NameOf(c)) = {}
      BY <1>2, <1>4 DEF Decided
    <2> QED
      BY <1>1, <1>4, <2>1 DEF verdict
  <1> QED
    BY <1>3, <1>4

\* A request that waits for a cell observes this cell under its name, unanswered.
LEMMA WaiterAsks ==
  ASSUME TypeOK, NameInv, ObserverInv, NEW c \in Requests, phase[c] # "none", NEW w \in Waiters(c)
  PROVE  /\ w \in Requests /\ about[w] = NameOf(c) /\ about[w] # None
         /\ answer[w] = "none" /\ reply[w] = "none"
  <1>1. w \in Requests /\ w \in Observers(c) /\ pc[w] = "await" /\ reply[w] = "none"
    BY WaiterTypes DEF ObserverInv
  <1>2. call[w] \in Calls /\ call[c] = ExecOf(call[w].session, call[w].id)
    BY <1>1 DEF TypeOK, NameInv, Observers, Single
  <1>3. NameOf(w) = NameOf(c) /\ call[w] # NoCall
    BY <1>2 DEF NameOf, ExecOf, NoCall, Calls, Methods
  <1> QED
    BY <1>1, <1>3, VerdictOf, NameAssumption DEF about, answer, Terminal

\* An actor's step leaves the verdicts of other names alone.
LEMMA VerdictsKept ==
  ASSUME TypeOK, NameInv, NEW c \in Requests, OnlyActor(c), phase[c] # "none"
  PROVE  /\ about' = about
         /\ phase'[c] \notin Terminal \/ phase'[c] = phase[c] => verdict' = verdict
         /\ phase'[c] \in Terminal /\ phase[c] \notin Terminal
            => verdict' = [verdict EXCEPT ![NameOf(c)] = phase'[c]]
  <1>1. call' = call /\ \A d \in Requests \ {c} : phase'[d] = phase[d]
    BY DEF OnlyActor
  <1>2. about' = about /\ \A d \in Requests : NameOf(d)' = NameOf(d)
    BY <1>1 DEF about, NameOf
  <1>3. ASSUME phase'[c] \notin Terminal \/ phase'[c] = phase[c]
        PROVE  verdict' = verdict
    <2>1. \A d \in Requests : phase[d] \in Terminal \/ phase'[d] \in Terminal => phase'[d] = phase[d]
      BY <1>1, <1>3 DEF OnlyActor, Terminal
    <2>2. \A n \in Names : Decided(n)' = Decided(n)
      BY <1>2, <2>1 DEF Decided
    <2>3. \A n \in Names : Decided(n) # {} =>
             phase'[CHOOSE d \in Decided(n) : TRUE] = phase[CHOOSE d \in Decided(n) : TRUE]
      BY <2>1 DEF Decided
    <2> QED
      BY <2>2, <2>3 DEF verdict
  <1>4. ASSUME phase'[c] \in Terminal, phase[c] \notin Terminal
        PROVE  verdict' = [verdict EXCEPT ![NameOf(c)] = phase'[c]]
    <2>1. call[c].method = "exec" /\ NameOf(c) \in Names
      BY VerdictOf DEF NameInv
    <2>2. \A n \in Names \ {NameOf(c)} : Decided(n)' = Decided(n) /\ c \notin Decided(n)
      BY <1>1, <1>2 DEF Decided
    <2>3. \A n \in Names \ {NameOf(c)} : Decided(n) # {} =>
             phase'[CHOOSE d \in Decided(n) : TRUE] = phase[CHOOSE d \in Decided(n) : TRUE]
      BY <1>1, <2>2 DEF Decided
    <2>4. {d \in Requests : NameOf(d)' = NameOf(c) /\ phase'[d] \in Terminal} = {c}
      <3>1. \A d \in Requests \ {c} : NameOf(d) = NameOf(c) => phase[d] \notin Terminal
        <4> SUFFICES ASSUME NEW d \in Requests \ {c}, NameOf(d) = NameOf(c), phase[d] \in Terminal
                     PROVE  FALSE
          OBVIOUS
        <4>1. call[d].method = "exec"
          BY DEF NameInv, Terminal
        <4> QED
          BY <2>1, <4>1, SameCell DEF SameName, NameOf
      <3> QED
        BY <1>1, <1>2, <1>4, <3>1
    <2>5. verdict'[NameOf(c)] = phase'[c]
      <3>1. PICK n \in Names : n = NameOf(c)
        BY <2>1
      <3>2. Decided(n)' = {c}
        BY <2>4, <3>1 DEF Decided
      <3>3. verdict'[n] = phase'[c]
        BY <3>2 DEF verdict
      <3> QED
        BY <3>1, <3>3
    <2>6. \A n \in Names \ {NameOf(c)} : verdict'[n] = verdict[n]
      BY <2>2, <2>3 DEF verdict
    <2> QED
      BY <2>1, <2>5, <2>6, ZenonT(30) DEF verdict
  <1> QED
    BY <1>2, <1>3, <1>4, ZenonT(30)

\* The step of an actor that reaches its verdict and tells it to a waiter, or nobody.
LEMMA ContractDecide ==
  ASSUME TypeOK, NameInv, ObserverInv, NEW c \in Requests, OnlyActor(c), phase[c] \in {"boot", "running"},
         phase'[c] \in Terminal, NEW told, told = {} \/ \E w \in Waiters(c) : told = {w},
         \A q \in Requests : IF q \in told THEN reply'[q] = phase'[c]
                             ELSE reply'[q] = reply[q] \/ (reply[q] = "none" /\ reply'[q] = "runtime_crashed")
  PROVE  Contract!Next
  <1>1. phase[c] # "none" /\ phase[c] \notin Terminal
    BY DEF Terminal
  <1>2. /\ NameOf(c) \in Names /\ verdict[NameOf(c)] = "none" /\ about' = about
        /\ verdict' = [verdict EXCEPT ![NameOf(c)] = phase'[c]]
    BY <1>1, VerdictOf, VerdictsKept
  <1>3. told \subseteq Requests /\ \A q \in told : about[q] = NameOf(c) /\ answer[q] = "none"
    BY <1>1, WaiterAsks
  <1>4. answer' = [q \in Requests |-> IF q \in told THEN phase'[c] ELSE answer[q]]
    BY DEF answer, Terminal
  <1>5. Contract!Decide(NameOf(c), phase'[c], told)
    BY <1>2, <1>3, <1>4 DEF Contract!Decide
  <1> QED
    BY <1>2, <1>3, <1>5 DEF Contract!Next

\* The step of an actor that tells a waiter how its cell is.
LEMMA ContractTell ==
  ASSUME TypeOK, NameInv, ObserverInv, NEW c \in Requests, OnlyActor(c), phase[c] # "none",
         phase'[c] = phase[c], NEW w \in Waiters(c),
         reply' = [reply EXCEPT ![w] = IF phase[c] \in Terminal THEN phase[c] ELSE "waiting"]
  PROVE  Contract!Next
  <1>1. /\ w \in Requests /\ about[w] = NameOf(c) /\ about[w] # None /\ answer[w] = "none"
        /\ about' = about /\ verdict' = verdict
        /\ verdict[NameOf(c)] = IF phase[c] \in Terminal THEN phase[c] ELSE "none"
    BY VerdictOf, WaiterAsks, VerdictsKept
  <1>2. answer' = [answer EXCEPT ![w] = IF phase[c] \in Terminal THEN phase[c] ELSE "waiting"]
    BY <1>1 DEF answer, TypeOK
  <1>3. answer' = [answer EXCEPT ![w] = IF verdict[about[w]] = "none" THEN "waiting"
                                        ELSE verdict[about[w]]]
    BY <1>1, <1>2 DEF Terminal
  <1>4. Contract!Tell(w)
    BY <1>1, <1>3 DEF Contract!Tell
  <1> QED
    BY <1>1, <1>4 DEF Contract!Next

\* The step of an actor that answers nobody with a verdict or with "waiting".
LEMMA ContractSilent ==
  ASSUME TypeOK, NameInv, NEW c \in Requests, OnlyActor(c), phase[c] # "none",
         phase'[c] = phase[c] \/ phase'[c] \notin Terminal,
         \A q \in Requests : \/ reply'[q] = reply[q]
                             \/ reply[q] = "none" /\ reply'[q] = "runtime_crashed"
  PROVE  UNCHANGED Contract!vars
  <1>1. about' = about /\ verdict' = verdict
    BY VerdictsKept
  <1>2. answer' = answer
    BY DEF answer, Terminal
  <1> QED
    BY <1>1, <1>2 DEF Contract!vars

\* A step of a request's task is silent: answers and verdicts are the actors'.
LEMMA ContractTask ==
  ASSUME TypeOK, HandleInv, NEW r \in Requests, TaskStep(r)
  PROVE  UNCHANGED Contract!vars
  <1>0. OnlyTask(r) /\ OnlyReach(r) /\ ProgressInv
    BY TaskFrame, TaskReach DEF HandleInv
  <1>1. \A q \in Requests : phase[q] \in Terminal \/ phase'[q] \in Terminal => phase'[q] = phase[q]
    BY <1>0 DEF OnlyTask, OnlyReach, ReachesCells, ReachesOwn, ProgressInv, Fresh, Terminal
  <1>2. about' = about /\ \A q \in Requests : NameOf(q)' = NameOf(q)
    BY <1>0 DEF OnlyTask, about, NameOf
  <1>3. \A n \in Names : Decided(n)' = Decided(n)
    BY <1>1, <1>2 DEF Decided
  <1>4. \A n \in Names : Decided(n) # {} =>
           phase'[CHOOSE d \in Decided(n) : TRUE] = phase[CHOOSE d \in Decided(n) : TRUE]
    BY <1>1 DEF Decided
  <1>5. verdict' = verdict
    BY <1>3, <1>4 DEF verdict
  <1>6. answer' = answer
    <2>1. \A q \in Requests : \/ reply'[q] = reply[q]
                              \/ reply[q] = "none" /\ reply'[q] \notin Terminal \union {"waiting"}
      BY <1>0 DEF OnlyTask, OnlyReach, ReachesCells, ReachesOwn
    <2> QED
      BY <2>1 DEF answer, Terminal
  <1> QED
    BY <1>2, <1>5, <1>6 DEF Contract!vars

\* A request that arrives asks about the cell it names.
LEMMA ContractArrive ==
  ASSUME TypeOK, HandleInv, NameInv, NEW r \in Requests, NEW m \in Methods, NEW s \in Sessions,
         NEW i \in CellIds, NEW t \in BOOLEAN, Arrive(r, m, s, i, t)
  PROVE  Contract!Next
  <1>1. /\ call[r] = NoCall /\ phase[r] = "none" /\ reply' = reply /\ phase' = phase
        /\ call'[r] = [method |-> m, session |-> s, id |-> i]
        /\ \A q \in Requests \ {r} : call'[q] = call[q]
    BY DEF Arrive, NameInv, HandleInv, ProgressInv, Fresh, TypeOK, actorVars
  <1>2. call'[r] # NoCall /\ NameOf(r)' = <<s, i>> /\ \A q \in Requests \ {r} : NameOf(q)' = NameOf(q)
    BY <1>1 DEF NoCall, Methods, NameOf
  <1>3. about[r] = None /\ about' = [about EXCEPT ![r] = <<s, i>>]
    BY <1>1, <1>2 DEF about
  <1>4. \A n \in Names : Decided(n)' = Decided(n)
    BY <1>1, <1>2 DEF Decided, Terminal
  <1>5. verdict' = verdict /\ answer' = answer
    <2>1. \A n \in Names : Decided(n) # {} =>
             phase'[CHOOSE d \in Decided(n) : TRUE] = phase[CHOOSE d \in Decided(n) : TRUE]
      BY <1>1
    <2>2. verdict' = verdict
      BY <1>4, <2>1 DEF verdict
    <2> QED
      BY <1>1, <2>2 DEF answer
  <1>6. Contract!Ask(r, <<s, i>>)
    BY <1>3, <1>5 DEF Contract!Ask
  <1> QED
    BY <1>6 DEF Contract!Next, Names

\* A step of an actor decides its cell, tells a waiter, or is silent.
LEMMA ContractActor ==
  ASSUME TypeOK, NameInv, ObserverInv, NEW c \in Requests,
         \/ ActorCommand(c) \/ ActorYield(c)
         \/ \E status \in Terminal : ActorConclude(c, status)
  PROVE  Contract!Next \/ UNCHANGED Contract!vars
  <1>1. OnlyActor(c) /\ HeardOnce(c)
    BY ActorFrame DEF ObserverInv
  <1>2. \A w \in Waiters(c) : w \in Requests /\ w # None /\ reply[w] = "none"
    BY WaiterTypes DEF ObserverInv, Waiters
  <1>3. observer[c] = None \/ observer[c] \in Waiters(c)
    BY DEF Waiters
  <1>4. ASSUME ActorStart(c) \/ ActorObserve(c) PROVE UNCHANGED Contract!vars
    <2>1. phase[c] # "none" /\ reply' = reply /\ (phase'[c] = phase[c] \/ phase'[c] = "running")
      BY <1>4 DEF ActorStart, ActorObserve, Running, Alive, TypeOK, taskVars
    <2> QED
      BY <1>1, <2>1, ContractSilent DEF Terminal
  <1>5. ASSUME ActorReturn(c) \/ ActorOrphaned(c) PROVE UNCHANGED Contract!vars
    <2>1. phase[c] # "none" /\ phase' = phase
      BY <1>5 DEF ActorReturn, ActorOrphaned, Terminal
    <2>2. \A q \in Requests : \/ reply'[q] = reply[q]
                              \/ reply[q] = "none" /\ reply'[q] = "runtime_crashed"
      BY <1>2, <1>5 DEF ActorReturn, ActorOrphaned, Exit
    <2> QED
      BY <1>1, <2>1, <2>2, ContractSilent
  <1>6. ASSUME ActorCancel(c) PROVE Contract!Next
    <2>1. Command(c) \in Waiters(c)
      <3>1. commands[c] # <<>> /\ Command(c) # None
        BY <1>6 DEF ActorCancel
      <3>2. Command(c) \in Elements(commands[c])
        BY <3>1, TailElements DEF TypeOK, Command
      <3> QED
        BY <3>1, <3>2, WaitersOf
    <2>2. phase[c] = "boot" /\ phase'[c] = "terminated"
      BY <1>6 DEF ActorCancel, Alive, TypeOK
    <2>3. \A q \in Requests : IF q \in {Command(c)} THEN reply'[q] = "terminated"
                             ELSE reply'[q] = reply[q] \/ (reply[q] = "none" /\ reply'[q] = "runtime_crashed")
      BY <1>2, <1>6, <2>1 DEF ActorCancel, Exit
    <2> QED
      BY <1>1, <2>1, <2>2, <2>3, ContractDecide DEF Terminal
  <1>7. ASSUME ActorTerminate(c) \/ \E status \in Terminal : ActorConclude(c, status)
        PROVE  Contract!Next
    <2>1. /\ phase[c] = "running" /\ phase'[c] \in Terminal
          /\ \A q \in Requests : reply'[q] = IF q = observer[c] THEN phase'[c] ELSE reply[q]
      BY <1>7 DEF ActorTerminate, ActorConclude, Conclude, Running, Alive, TypeOK, Terminal
    <2>2. CASE observer[c] = None
      <3>1. \A q \in Requests : reply'[q] = reply[q]
        BY <2>1, <2>2, HostAssumption
      <3>2. PICK told : told = {}
        OBVIOUS
      <3>3. \A q \in Requests : IF q \in told THEN reply'[q] = phase'[c]
                               ELSE reply'[q] = reply[q] \/ (reply[q] = "none" /\ reply'[q] = "runtime_crashed")
        BY <3>1, <3>2
      <3> QED
        BY <1>1, <2>1, <3>2, <3>3, ContractDecide
    <2>3. CASE observer[c] \in Waiters(c)
      <3>1. \A q \in Requests : IF q \in {observer[c]} THEN reply'[q] = phase'[c]
                               ELSE reply'[q] = reply[q] \/ (reply[q] = "none" /\ reply'[q] = "runtime_crashed")
        BY <2>1
      <3> QED
        BY <1>1, <2>1, <2>3, <3>1, ContractDecide
    <2> QED
      BY <1>3, <2>2, <2>3
  <1>8. ASSUME ActorObserveEnding(c) PROVE Contract!Next
    <2>1. Command(c) \in Waiters(c)
      BY <1>1, <1>8, ReceiveOnce DEF ActorObserveEnding
    <2>2. phase[c] = "running" /\ phase'[c] = "terminated" /\ reply' = [reply EXCEPT ![Command(c)] = "terminated"]
      BY <1>8 DEF ActorObserveEnding, Running, Alive, TypeOK
    <2>3. \A q \in Requests : IF q \in {Command(c)} THEN reply'[q] = "terminated"
                             ELSE reply'[q] = reply[q] \/ (reply[q] = "none" /\ reply'[q] = "runtime_crashed")
      BY <2>2 DEF TypeOK
    <2> QED
      BY <1>1, <2>1, <2>2, <2>3, ContractDecide DEF Terminal
  <1>9. ASSUME ActorRepeat(c) PROVE Contract!Next
    <2>1. /\ Command(c) \in Waiters(c) /\ phase[c] \in Terminal /\ phase'[c] = phase[c]
          /\ reply' = [reply EXCEPT ![Command(c)] = phase[c]]
      BY <1>1, <1>9, ReceiveOnce DEF ActorRepeat
    <2> QED
      BY <1>1, <2>1, ContractTell DEF Terminal
  <1>10. ASSUME ActorYield(c) PROVE Contract!Next
    <2>1. /\ observer[c] \in Waiters(c) /\ phase[c] = "running" /\ phase'[c] = phase[c]
          /\ reply' = [reply EXCEPT ![observer[c]] = "waiting"]
      BY <1>3, <1>10 DEF ActorYield, Running, Alive
    <2> QED
      BY <1>1, <2>1, ContractTell DEF Terminal
  <1> QED
    BY <1>4, <1>5, <1>6, <1>7, <1>8, <1>9, <1>10 DEF ActorCommand

\* The initial states map to the contract's.
LEMMA ContractInit == Init => Contract!Init
  BY DEF Init, Contract!Init, about, verdict, answer, Decided, Terminal

\* Every step is a step of the contract or leaves its variables alone.
LEMMA ContractStep ==
  TypeOK /\ HandleInv /\ ObserverInv /\ NamingInv /\ [Next]_vars => [Contract!Next]_(Contract!vars)
  <1> SUFFICES ASSUME TypeOK, HandleInv, ObserverInv, NamingInv, [Next]_vars
               PROVE  Contract!Next \/ UNCHANGED Contract!vars
    OBVIOUS
  <1>1. ASSUME NEW s \in Sessions, OpenSession(s) PROVE UNCHANGED Contract!vars
    BY <1>1 DEF OpenSession, taskVars, actorVars, Contract!vars, about, verdict, answer,
       Decided, NameOf
  <1>2. CASE UNCHANGED vars
    BY <1>2 DEF vars, taskVars, actorVars, Contract!vars, about, verdict, answer, Decided,
       NameOf
  <1> QED
    BY <1>1, <1>2, ContractTask, ContractArrive, ContractActor DEF Next, NamingInv

\* Whatever the tasks and the actors do in between, a client that names each cell
\* once sees what CellContract promises: one verdict per cell, at most one answer
\* per observation, "waiting" only before the verdict and the verdict after it.
THEOREM HostKeepsContract == ASSUME ~ReuseIds PROVE Spec => ContractHolds
  <1>1. SlotInv => HandleInv
    BY DEF SlotInv
  <1>2. Spec => Contract!Init /\ [][Contract!Next]_(Contract!vars)
    BY <1>1, ContractInit, ContractStep, TypeCorrect, SlotInvariant, ObserverInvariant,
       NamingInvariant, PTL DEF Spec
  <1> QED
    BY <1>2 DEF ContractHolds, Contract!Spec
=============================================================================
