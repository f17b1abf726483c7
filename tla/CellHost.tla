------------------------------ MODULE CellHost ------------------------------
(***************************************************************************)
(* The Code Mode host process: the request tasks of server.rs, the         *)
(* per-session cell registry of session.rs and the cell actors of cell.rs. *)
(*                                                                         *)
(* Every protocol request is a tokio task of its own on a runtime with two *)
(* worker threads (server.rs:113, main.rs), so a task may be overtaken     *)
(* between any two of its steps.  A step here is one critical section of   *)
(* the registry mutex, one operation on an atomic together with the local  *)
(* computation that follows it, or one iteration of an actor's select!.    *)
(*                                                                         *)
(* An exec request spawns at most one cell, so the cell that request r     *)
(* spawns is named r: the per-cell variables are functions on Requests.    *)
(***************************************************************************)
EXTENDS Integers, Sequences, FiniteSets

CONSTANTS
  Requests,         \* the protocol requests of one behaviour: the model's bound
  Sessions,         \* the session ids that session/open may generate
  CellIds,          \* the cell ids a client may name
  MaxSessionCells,  \* MAX_ACTIVE_CELLS_PER_SESSION
  MaxHostCells,     \* MAX_ACTIVE_CELLS_PER_HOST
  ReuseIds,         \* may a client send two execs with one cell id?
  None              \* no request and no cell; in a queue, the Terminate command

ASSUME HostAssumption ==
  /\ IsFiniteSet(Requests)
  /\ None \notin Requests
  /\ MaxSessionCells \in Nat
  /\ MaxHostCells \in Nat
  /\ ReuseIds \in BOOLEAN

Methods  == {"exec", "wait", "terminate", "close"}
Terminal == {"completed", "failed", "terminated"}
NoCall   == [method |-> "none", session |-> None, id |-> None]

VARIABLES
  \* ServerState and HostSession
  session,              \* "unborn", "open" (in ServerState.sessions) or "closed"
  sessionActive,        \* HostSession.active_cells
  hostActive,           \* ServerState.active_cells
  cells,                \* CellRegistry.cells: per session, cell id -> cell
  pendingTerminations,  \* CellRegistry.pending_terminations
  \* the request tasks
  pc,                   \* the next step of the task
  call,                 \* the method, session and cell id the client sent
  ending,               \* ObserveOptions.terminate of the task's observation
  held,                 \* the cell handles the task holds
  reply,                \* what its oneshot received; at "done", its response
  \* the cells: run_actor and the flags shared through CellHandle
  phase,                \* the actor's state; "boot" awaits the first command
  gone,                 \* the cells whose actor thread has returned
  commands,             \* the command channel
  observer,             \* the observer the actor will answer
  observing, counted, terminationRequested

sessionVars == <<session, cells, pendingTerminations>>
slotVars    == <<sessionActive, hostActive, counted>>
taskVars    == <<pc, call, ending, held, reply>>
actorVars   == <<phase, gone, commands, observer>>
flagVars    == <<observing, terminationRequested>>
vars        == <<sessionVars, slotVars, taskVars, actorVars, flagVars>>

-----------------------------------------------------------------------------
(* Helpers                                                                 *)

Goto(r, step) == pc' = [pc EXCEPT ![r] = step]

\* process_request sends the response and the task ends, dropping its handles.
Answer(r, response) ==
  /\ Goto(r, "done")
  /\ reply' = [reply EXCEPT ![r] = response]
  /\ held' = [held EXCEPT ![r] = {}]

\* The registry's cell for the id that request r names, or None.
Named(r) == cells[call[r].session][call[r].id]

\* An exec whose cell was cancelled before it was registered.
Cancelled(r) == call[r].method = "exec" /\ ending[r]

\* CellHandle::terminate: the flag, V8's own termination and the command.
Signal(c) ==
  /\ terminationRequested' = [terminationRequested EXCEPT ![c] = TRUE]
  /\ commands' = IF c \in gone THEN commands
                 ELSE [commands EXCEPT ![c] = Append(@, None)]

\* Mutant: the slot is given back without the swap of the counted flag.
ReleaseCellAgain(c) ==
  /\ counted' = [counted EXCEPT ![c] = FALSE]
  /\ sessionActive' = [sessionActive EXCEPT ![call[c].session] = @ - 1]
  /\ hostActive' = hostActive - 1

\* release_cell: only the caller that finds the cell counted gives back its slot.
ReleaseCell(c) ==
  /\ counted' = [counted EXCEPT ![c] = FALSE]
  /\ \/ /\ counted[c]
        /\ sessionActive' = [sessionActive EXCEPT ![call[c].session] = @ - 1]
        /\ hostActive' = hostActive - 1
     \/ ~counted[c] /\ UNCHANGED <<sessionActive, hostActive>>

\* release_reserved: gives back a slot no registered cell stands for.
ReleaseReserved(s) ==
  /\ sessionActive' = [sessionActive EXCEPT ![s] = @ - 1]
  /\ hostActive' = hostActive - 1
  /\ UNCHANGED counted

\* The requests that wait on an answer of cell c's actor.
Waiters(c) == ({observer[c]} \union {commands[c][k] : k \in DOMAIN commands[c]}) \ {None}

\* run_actor returns: every oneshot sender it still has is dropped, r is answered.
Exit(c, r, status) ==
  /\ gone' = gone \union {c}
  /\ commands' = [commands EXCEPT ![c] = <<>>]
  /\ observer' = [observer EXCEPT ![c] = None]
  /\ reply' = [w \in Requests |-> IF w \notin Waiters(c) THEN reply[w]
                                  ELSE IF w = r THEN status
                                  ELSE "runtime_crashed"]

-----------------------------------------------------------------------------
Init ==
  /\ session = [s \in Sessions |-> "unborn"]
  /\ sessionActive = [s \in Sessions |-> 0]
  /\ hostActive = 0
  /\ cells = [s \in Sessions |-> [i \in CellIds |-> None]]
  /\ pendingTerminations = [s \in Sessions |-> {}]
  /\ pc = [r \in Requests |-> "idle"]
  /\ call = [r \in Requests |-> NoCall]
  /\ ending = [r \in Requests |-> FALSE]
  /\ held = [r \in Requests |-> {}]
  /\ reply = [r \in Requests |-> "none"]
  /\ phase = [c \in Requests |-> "none"]
  /\ gone = {}
  /\ commands = [c \in Requests |-> <<>>]
  /\ observer = [c \in Requests |-> None]
  /\ observing = [c \in Requests |-> FALSE]
  /\ counted = [c \in Requests |-> FALSE]
  /\ terminationRequested = [c \in Requests |-> FALSE]

-----------------------------------------------------------------------------
(* Every request                                                           *)

OpenSession(s) ==
  /\ session[s] = "unborn"
  /\ session' = [session EXCEPT ![s] = "open"]
  /\ UNCHANGED <<cells, pendingTerminations, slotVars, taskVars, actorVars, flagVars>>

\* The reader hands a frame to a new task.  A client names sessions it opened.
Arrive(r, m, s, i, t) ==
  /\ pc[r] = "idle"
  /\ session[s] # "unborn"
  /\ ReuseIds \/ m # "exec" \/ \A q \in Requests : call[q] # [method |-> "exec", session |-> s, id |-> i]
  /\ t => m = "wait"
  /\ Goto(r, "lookup")
  /\ call' = [call EXCEPT ![r] = [method |-> m, session |-> s, id |-> i]]
  /\ ending' = [ending EXCEPT ![r] = t]
  /\ UNCHANGED <<sessionVars, slotVars, held, reply, actorVars, flagVars>>

FirstStep == [exec |-> "reserve", wait |-> "find", terminate |-> "mark"]

\* require_session clones the session's Arc for the handler of the method.
RequireSession(r) ==
  /\ pc[r] = "lookup"
  /\ call[r].method # "close"
  /\ session[call[r].session] = "open"
  /\ Goto(r, FirstStep[call[r].method])
  /\ UNCHANGED <<sessionVars, slotVars, call, ending, held, reply, actorVars, flagVars>>

SessionExpired(r) ==
  /\ pc[r] = "lookup"
  /\ session[call[r].session] # "open"
  /\ Answer(r, IF call[r].method = "close" THEN "not_closed" ELSE "session_expired")
  /\ UNCHANGED <<sessionVars, slotVars, call, ending, actorVars, flagVars>>

-----------------------------------------------------------------------------
(* cell/exec up to the registration of its cell                            *)

ReserveSessionCell(r) ==
  /\ pc[r] = "reserve"
  /\ sessionActive[call[r].session] < MaxSessionCells
  /\ sessionActive' = [sessionActive EXCEPT ![call[r].session] = @ + 1]
  /\ Goto(r, "reserve_host")
  /\ UNCHANGED <<sessionVars, hostActive, counted, call, ending, held, reply, actorVars,
                 flagVars>>

SessionFull(r) ==
  /\ pc[r] = "reserve"
  /\ sessionActive[call[r].session] >= MaxSessionCells
  /\ Answer(r, "session_limit")
  /\ UNCHANGED <<sessionVars, slotVars, call, ending, actorVars, flagVars>>

ReserveHostCell(r) ==
  /\ pc[r] = "reserve_host"
  /\ hostActive < MaxHostCells
  /\ hostActive' = hostActive + 1
  /\ Goto(r, "spawn")
  /\ UNCHANGED <<sessionVars, sessionActive, counted, call, ending, held, reply, actorVars,
                 flagVars>>

\* The session's reservation is undone.
HostFull(r) ==
  /\ pc[r] = "reserve_host"
  /\ hostActive >= MaxHostCells
  /\ sessionActive' = [sessionActive EXCEPT ![call[r].session] = @ - 1]
  /\ Answer(r, "host_limit")
  /\ UNCHANGED <<sessionVars, hostActive, counted, call, ending, actorVars, flagVars>>

\* spawn_cell: the thread, its V8 isolate and the handle the task now holds.
SpawnCell(r) ==
  /\ pc[r] = "spawn"
  /\ Goto(r, "insert")
  /\ phase' = [phase EXCEPT ![r] = "boot"]
  /\ counted' = [counted EXCEPT ![r] = TRUE]
  /\ held' = [held EXCEPT ![r] = {r}]
  /\ UNCHANGED <<sessionVars, sessionActive, hostActive, call, ending, reply,
                 gone, commands, observer, flagVars>>

\* A tool of unknown kind, no thread, or an isolate that does not start.
SpawnFails(r) ==
  /\ pc[r] = "spawn"
  /\ ReleaseReserved(call[r].session)
  /\ Answer(r, "spawn_failed")
  /\ UNCHANGED <<sessionVars, call, ending, actorVars, flagVars>>

\* insert_cell -> Cancelled: a terminate request came first.
InsertCancelled(r) ==
  /\ pc[r] = "insert"
  /\ call[r].id \in pendingTerminations[call[r].session]
  /\ pendingTerminations' = [pendingTerminations EXCEPT ![call[r].session] = @ \ {call[r].id}]
  /\ ending' = [ending EXCEPT ![r] = TRUE]
  /\ Goto(r, "observe")
  /\ UNCHANGED <<session, cells, slotVars, call, held, reply, actorVars, flagVars>>

\* insert_cell -> Duplicate: the new cell is told to end and its slot given back.
InsertDuplicate(r) ==
  /\ pc[r] = "insert"
  /\ call[r].id \notin pendingTerminations[call[r].session]
  /\ Named(r) # None
  /\ Signal(r)
  /\ ReleaseReserved(call[r].session)
  /\ Answer(r, "duplicate")
  /\ UNCHANGED <<sessionVars, call, ending, phase, gone, observer, observing>>

\* insert_cell -> Inserted, in a session that may have been closed meanwhile.
InsertCell(r) ==
  /\ pc[r] = "insert"
  /\ call[r].id \notin pendingTerminations[call[r].session]
  /\ Named(r) = None
  /\ cells' = [cells EXCEPT ![call[r].session][call[r].id] = r]
  /\ Goto(r, "claim")
  /\ UNCHANGED <<session, pendingTerminations, slotVars, call, ending, held, reply,
                 actorVars, flagVars>>

-----------------------------------------------------------------------------
(* CellHandle::observe, for exec and wait                                  *)

\* Mutant: the lookup's None is not turned into an error.
FindCellUnchecked(r) ==
  /\ pc[r] = "find"
  /\ held' = [held EXCEPT ![r] = {Named(r)}]
  /\ Goto(r, IF ending[r] THEN "observe" ELSE "claim")
  /\ UNCHANGED <<sessionVars, slotVars, call, ending, reply, actorVars, flagVars>>

FindCell(r) ==
  /\ pc[r] = "find"
  /\ Named(r) # None
  /\ held' = [held EXCEPT ![r] = {Named(r)}]
  /\ Goto(r, IF ending[r] THEN "observe" ELSE "claim")
  /\ UNCHANGED <<sessionVars, slotVars, call, ending, reply, actorVars, flagVars>>

CellNotFound(r) ==
  /\ pc[r] = "find"
  /\ Named(r) = None
  /\ Answer(r, "cell_not_found")
  /\ UNCHANGED <<sessionVars, slotVars, call, ending, actorVars, flagVars>>

\* A terminating observation stops V8 before it competes to observe.
ObserveBegin(r, c) ==
  /\ pc[r] = "observe"
  /\ c \in held[r]
  /\ Goto(r, "claim")
  /\ terminationRequested' = [terminationRequested EXCEPT ![c] = TRUE]
  /\ UNCHANGED <<sessionVars, slotVars, call, ending, held, reply, actorVars, observing>>

\* An observation without a verdict answers the request; only an exec that was
\* cancelled still releases its cell first.
EndObservation(r, response) ==
  /\ Goto(r, IF Cancelled(r) THEN "release" ELSE "done")
  /\ reply' = [reply EXCEPT ![r] = response]
  /\ held' = [held EXCEPT ![r] = IF Cancelled(r) THEN @ ELSE {}]

\* Mutant: a plain store to observing instead of the compare-exchange.
ObserveClaimAnyway(r, c) ==
  /\ pc[r] = "claim"
  /\ c \in held[r]
  /\ observing' = [observing EXCEPT ![c] = TRUE]
  /\ Goto(r, "send")
  /\ UNCHANGED <<sessionVars, slotVars, call, ending, held, reply, actorVars,
                 terminationRequested>>

\* The compare-exchange on observing lets one request observe at a time.
ObserveClaim(r, c) ==
  /\ pc[r] = "claim"
  /\ c \in held[r]
  /\ ~observing[c]
  /\ observing' = [observing EXCEPT ![c] = TRUE]
  /\ Goto(r, "send")
  /\ UNCHANGED <<sessionVars, slotVars, call, ending, held, reply, actorVars,
                 terminationRequested>>

ObserveRefused(r, c) ==
  /\ pc[r] = "claim"
  /\ c \in held[r]
  /\ observing[c]
  /\ EndObservation(r, "wait_already_active")
  /\ UNCHANGED <<sessionVars, slotVars, call, ending, actorVars, flagVars>>

ObserveSend(r, c) ==
  /\ pc[r] = "send"
  /\ c \in held[r] \ gone
  /\ commands' = [commands EXCEPT ![c] = Append(@, r)]
  /\ Goto(r, "await")
  /\ UNCHANGED <<sessionVars, slotVars, call, ending, held, reply, phase, gone, observer,
                 flagVars>>

\* The actor has returned and its channel is closed.
ObserveExpired(r, c) ==
  /\ pc[r] = "send"
  /\ c \in held[r] \cap gone
  /\ observing' = [observing EXCEPT ![c] = FALSE]
  /\ EndObservation(r, "cell_expired")
  /\ UNCHANGED <<sessionVars, slotVars, call, ending, actorVars, terminationRequested>>

\* The oneshot resolves: with "waiting", or because the actor dropped the sender ...
ObserveEnd(r, c) ==
  /\ pc[r] = "await"
  /\ c \in held[r]
  /\ reply[r] \in {"waiting", "runtime_crashed"}
  /\ observing' = [observing EXCEPT ![c] = FALSE]
  /\ EndObservation(r, reply[r])
  /\ UNCHANGED <<sessionVars, slotVars, call, ending, actorVars, terminationRequested>>

\* ... or with a terminal status, which goes on to release_terminal.
ObserveVerdict(r, c) ==
  /\ pc[r] = "await"
  /\ c \in held[r]
  /\ reply[r] \in Terminal
  /\ observing' = [observing EXCEPT ![c] = FALSE]
  /\ Goto(r, IF Cancelled(r) THEN "release" ELSE "remove")
  /\ UNCHANGED <<sessionVars, slotVars, call, ending, held, reply, actorVars,
                 terminationRequested>>

\* release_terminal: the registry entry goes, whatever cell it names.
RemoveCell(r) ==
  /\ pc[r] = "remove"
  /\ cells' = [cells EXCEPT ![call[r].session][call[r].id] = None]
  /\ Goto(r, "release")
  /\ UNCHANGED <<session, pendingTerminations, slotVars, call, ending, held, reply,
                 actorVars, flagVars>>

\* Mutant: release_terminal removes the cell and forgets its slot.
ForgetTerminal(r, c) ==
  /\ pc[r] = "release"
  /\ c \in held[r]
  /\ Answer(r, reply[r])
  /\ UNCHANGED <<sessionVars, slotVars, call, ending, actorVars, flagVars>>

ReleaseTerminal(r, c) ==
  /\ pc[r] = "release"
  /\ c \in held[r]
  /\ ReleaseCell(c)
  /\ Answer(r, reply[r])
  /\ UNCHANGED <<sessionVars, call, ending, actorVars, flagVars>>

-----------------------------------------------------------------------------
(* cell/terminate and session/close                                        *)

\* request_termination: the cell to terminate, or a mark for an exec still to come.
RequestTermination(r) ==
  /\ pc[r] = "mark"
  /\ Named(r) # None
  /\ held' = [held EXCEPT ![r] = {Named(r)}]
  /\ Goto(r, "kill")
  /\ UNCHANGED <<sessionVars, slotVars, call, ending, reply, actorVars, flagVars>>

\* Mutant: the terminate request leaves no mark.
IgnoreTermination(r) ==
  /\ pc[r] = "mark"
  /\ Named(r) = None
  /\ Answer(r, "pending")
  /\ UNCHANGED <<sessionVars, slotVars, call, ending, actorVars, flagVars>>

MarkTermination(r) ==
  /\ pc[r] = "mark"
  /\ Named(r) = None
  /\ pendingTerminations' = [pendingTerminations EXCEPT ![call[r].session] = @ \union {call[r].id}]
  /\ Answer(r, "pending")
  /\ UNCHANGED <<session, cells, slotVars, call, ending, actorVars, flagVars>>

TerminateCell(r, c) ==
  /\ pc[r] = "kill"
  /\ c \in held[r]
  /\ Signal(c)
  /\ Answer(r, "terminating")
  /\ UNCHANGED <<sessionVars, slotVars, call, ending, phase, gone, observer, observing>>

\* The session leaves ServerState.sessions; tasks that hold its Arc go on.
CloseSession(r) ==
  /\ pc[r] = "lookup"
  /\ call[r].method = "close"
  /\ session[call[r].session] = "open"
  /\ session' = [session EXCEPT ![call[r].session] = "closed"]
  /\ Goto(r, "take")
  /\ UNCHANGED <<cells, pendingTerminations, slotVars, call, ending, held, reply, actorVars,
                 flagVars>>

TakeCells(r) ==
  LET s == call[r].session
  IN  /\ pc[r] = "take"
      /\ held' = [held EXCEPT ![r] = {cells[s][i] : i \in CellIds} \ {None}]
      /\ cells' = [cells EXCEPT ![s] = [i \in CellIds |-> None]]
      /\ pendingTerminations' = [pendingTerminations EXCEPT ![s] = {}]
      /\ Goto(r, "drain")
      /\ UNCHANGED <<session, slotVars, call, ending, reply, actorVars, flagVars>>

\* Mutant: close_session_cells gives the slot back and does not end the cell.
AbandonSessionCell(r, c) ==
  /\ pc[r] = "drain"
  /\ c \in held[r]
  /\ ReleaseCell(c)
  /\ held' = [held EXCEPT ![r] = @ \ {c}]
  /\ UNCHANGED <<sessionVars, pc, call, ending, reply, actorVars, flagVars>>

CloseSessionCell(r, c) ==
  /\ pc[r] = "drain"
  /\ c \in held[r]
  /\ Signal(c)
  /\ ReleaseCell(c)
  /\ held' = [held EXCEPT ![r] = @ \ {c}]
  /\ UNCHANGED <<sessionVars, pc, call, ending, reply, phase, gone, observer, observing>>

SessionClosed(r) ==
  /\ pc[r] = "drain"
  /\ held[r] = {}
  /\ Answer(r, "closed")
  /\ UNCHANGED <<sessionVars, slotVars, call, ending, actorVars, flagVars>>

-----------------------------------------------------------------------------
(* run_actor                                                               *)

\* The actor of c is in the given phase and can take another step.
Alive(c, p) == c \notin gone /\ phase[c] = p

Running(c) == Alive(c, "running")

Command(c) == Head(commands[c])

Receive(c) == commands' = [commands EXCEPT ![c] = Tail(@)]

\* The first command observes: the execution starts to be polled.
ActorStart(c) ==
  /\ Alive(c, "boot")
  /\ commands[c] # <<>>
  /\ Command(c) # None
  /\ ~ending[Command(c)]
  /\ phase' = [phase EXCEPT ![c] = "running"]
  /\ observer' = [observer EXCEPT ![c] = Command(c)]
  /\ Receive(c)
  /\ UNCHANGED <<sessionVars, slotVars, taskVars, gone, flagVars>>

\* The first command is a terminating observation: answered, never started.
ActorCancel(c) ==
  /\ Alive(c, "boot")
  /\ commands[c] # <<>>
  /\ Command(c) # None
  /\ ending[Command(c)]
  /\ phase' = [phase EXCEPT ![c] = "terminated"]
  /\ Exit(c, Command(c), "terminated")
  /\ UNCHANGED <<sessionVars, slotVars, pc, call, ending, held, flagVars>>

\* Record the verdict and tell the observer, if there is one.
Conclude(c, status) ==
  /\ phase' = [phase EXCEPT ![c] = status]
  /\ observer' = [observer EXCEPT ![c] = None]
  /\ reply' = [r \in Requests |-> IF r = observer[c] THEN status ELSE reply[r]]

\* The execution future resolves, or the wall-time timer fires ("failed").  An error
\* counts as a termination once one was requested.
ActorConclude(c, status) ==
  /\ Running(c)
  /\ status = "terminated" => terminationRequested[c]
  /\ Conclude(c, status)
  /\ UNCHANGED <<sessionVars, slotVars, pc, call, ending, held, gone, commands, flagVars>>

\* yield_control or the observer's timer: the observer hears that the cell waits.
ActorYield(c) ==
  /\ Running(c)
  /\ observer[c] # None
  /\ observer' = [observer EXCEPT ![c] = None]
  /\ reply' = [reply EXCEPT ![observer[c]] = "waiting"]
  /\ UNCHANGED <<sessionVars, slotVars, pc, call, ending, held, phase, gone, commands,
                 flagVars>>

ActorTerminate(c) ==
  /\ Running(c)
  /\ commands[c] # <<>>
  /\ Command(c) = None
  /\ Conclude(c, "terminated")
  /\ Receive(c)
  /\ UNCHANGED <<sessionVars, slotVars, pc, call, ending, held, gone, flagVars>>

\* Mutant: the verdict goes to the actor's observer instead of the command's.
ActorObserveEndingLost(c) ==
  /\ Running(c)
  /\ commands[c] # <<>>
  /\ Command(c) # None
  /\ ending[Command(c)]
  /\ Conclude(c, "terminated")
  /\ Receive(c)
  /\ UNCHANGED <<sessionVars, slotVars, pc, call, ending, held, gone, flagVars>>

\* A terminating observation is answered itself; an earlier observer would not be.
ActorObserveEnding(c) ==
  /\ Running(c)
  /\ commands[c] # <<>>
  /\ Command(c) # None
  /\ ending[Command(c)]
  /\ phase' = [phase EXCEPT ![c] = "terminated"]
  /\ reply' = [reply EXCEPT ![Command(c)] = "terminated"]
  /\ Receive(c)
  /\ UNCHANGED <<sessionVars, slotVars, pc, call, ending, held, gone, observer, flagVars>>

\* The next observer replaces the one before it.
ActorObserve(c) ==
  /\ Running(c)
  /\ commands[c] # <<>>
  /\ Command(c) # None
  /\ ~ending[Command(c)]
  /\ observer' = [observer EXCEPT ![c] = Command(c)]
  /\ Receive(c)
  /\ UNCHANGED <<sessionVars, slotVars, taskVars, phase, gone, flagVars>>

\* Mutant: a terminating observation hears "terminated" whatever the verdict was.
ActorRevise(c) ==
  /\ c \notin gone
  /\ phase[c] \in Terminal
  /\ commands[c] # <<>>
  /\ Command(c) # None
  /\ reply' = [reply EXCEPT ![Command(c)] = IF ending[Command(c)] THEN "terminated"
                                            ELSE phase[c]]
  /\ Receive(c)
  /\ UNCHANGED <<sessionVars, slotVars, pc, call, ending, held, phase, gone, observer, flagVars>>

\* With a verdict, observers are answered with it ...
ActorRepeat(c) ==
  /\ c \notin gone
  /\ phase[c] \in Terminal
  /\ commands[c] # <<>>
  /\ Command(c) # None
  /\ reply' = [reply EXCEPT ![Command(c)] = phase[c]]
  /\ Receive(c)
  /\ UNCHANGED <<sessionVars, slotVars, pc, call, ending, held, phase, gone, observer, flagVars>>

\* ... and Terminate ends the thread, as it does when it is the first command:
\* nobody is answered.
ActorReturn(c) ==
  /\ c \notin gone
  /\ phase[c] \in Terminal \union {"boot"}
  /\ commands[c] # <<>>
  /\ Command(c) = None
  /\ Exit(c, None, "runtime_crashed")
  /\ UNCHANGED <<sessionVars, slotVars, pc, call, ending, held, phase, flagVars>>

\* A closed session lives as long as a task that looked it up.
SessionAlive(s) ==
  \/ session[s] = "open"
  \/ \E r \in Requests : call[r].session = s /\ pc[r] \notin {"idle", "lookup", "done"}

Referenced(c) ==
  \/ \E r \in Requests : c \in held[r]
  \/ \E s \in Sessions : SessionAlive(s) /\ \E i \in CellIds : cells[s][i] = c

\* Every sender of the channel is dropped and the queue is empty: recv gives None.
ActorOrphaned(c) ==
  /\ c \notin gone
  /\ phase[c] # "none"
  /\ commands[c] = <<>>
  /\ ~Referenced(c)
  /\ Exit(c, None, "runtime_crashed")
  /\ UNCHANGED <<sessionVars, slotVars, pc, call, ending, held, phase, flagVars>>

-----------------------------------------------------------------------------
TaskStep(r) ==
  \/ RequireSession(r) \/ SessionExpired(r)
  \/ ReserveSessionCell(r) \/ SessionFull(r) \/ ReserveHostCell(r) \/ HostFull(r)
  \/ SpawnCell(r) \/ SpawnFails(r)
  \/ InsertCancelled(r) \/ InsertDuplicate(r) \/ InsertCell(r)
  \/ FindCell(r) \/ CellNotFound(r) \/ RemoveCell(r)
  \/ RequestTermination(r) \/ MarkTermination(r)
  \/ CloseSession(r) \/ TakeCells(r) \/ SessionClosed(r)
  \/ \E c \in Requests :
       \/ ObserveBegin(r, c) \/ ObserveClaim(r, c) \/ ObserveRefused(r, c)
       \/ ObserveSend(r, c) \/ ObserveExpired(r, c)
       \/ ObserveEnd(r, c) \/ ObserveVerdict(r, c) \/ ReleaseTerminal(r, c)
       \/ TerminateCell(r, c) \/ CloseSessionCell(r, c)

ActorCommand(c) ==
  \/ ActorStart(c) \/ ActorCancel(c)
  \/ ActorTerminate(c) \/ ActorObserveEnding(c) \/ ActorObserve(c)
  \/ ActorRepeat(c) \/ ActorReturn(c) \/ ActorOrphaned(c)

Next ==
  \/ \E s \in Sessions : OpenSession(s)
  \/ \E r \in Requests : \E m \in Methods, s \in Sessions, i \in CellIds, t \in BOOLEAN :
       Arrive(r, m, s, i, t)
  \/ \E r \in Requests : TaskStep(r)
  \/ \E c \in Requests : \/ ActorCommand(c)
                         \/ \E status \in Terminal : ActorConclude(c, status)
                         \/ ActorYield(c)

\* tokio polls every woken task, the actor's select! is unbiased, its timers fire.
Fairness ==
  /\ \A r \in Requests : WF_vars(TaskStep(r))
  /\ \A c \in Requests : WF_vars(ActorCommand(c)) /\ WF_vars(ActorYield(c))

Spec == Init /\ [][Next]_vars /\ Fairness

-----------------------------------------------------------------------------
(* Correctness                                                             *)

Steps == {"idle", "lookup", "reserve", "reserve_host", "spawn", "insert", "find", "observe",
          "claim", "send", "await", "remove", "release", "mark", "kill", "take", "drain",
          "done"}

Refusals == {"session_expired", "session_limit", "host_limit", "spawn_failed", "duplicate",
             "cell_not_found", "wait_already_active", "cell_expired", "runtime_crashed"}

Responses == Terminal \union Refusals \union
             {"waiting", "pending", "terminating", "closed", "not_closed"}

Calls == [method : Methods, session : Sessions, id : CellIds]

\* Type correctness; that the counters are never negative is part of SlotAccounting.
TypeOK ==
  /\ session \in [Sessions -> {"unborn", "open", "closed"}]
  /\ sessionActive \in [Sessions -> Int]
  /\ hostActive \in Int
  /\ cells \in [Sessions -> [CellIds -> Requests \union {None}]]
  /\ pendingTerminations \in [Sessions -> SUBSET CellIds]
  /\ pc \in [Requests -> Steps]
  /\ call \in [Requests -> Calls \union {NoCall}]
  /\ \A r \in Requests : pc[r] # "idle" => call[r] \in Calls
  /\ ending \in [Requests -> BOOLEAN]
  /\ held \in [Requests -> SUBSET Requests]
  /\ reply \in [Requests -> Responses \union {"none"}]
  /\ phase \in [Requests -> Terminal \union {"none", "boot", "running"}]
  /\ gone \in SUBSET Requests
  /\ commands \in [Requests -> Seq(Requests \union {None})]
  /\ observer \in [Requests -> Requests \union {None}]
  /\ observing \in [Requests -> BOOLEAN]
  /\ counted \in [Requests -> BOOLEAN]
  /\ terminationRequested \in [Requests -> BOOLEAN]

\* A request holds a host slot from the reservation until its cell is released;
\* the cell of a duplicate keeps its flag but its slot was given back directly.
HoldsSlot(r) == pc[r] = "spawn" \/ (counted[r] /\ reply[r] # "duplicate")

HostHolders == {r \in Requests : HoldsSlot(r)}

SessionHolders(s) ==
  {r \in Requests : call[r].session = s /\ (HoldsSlot(r) \/ pc[r] = "reserve_host")}

\* The counters never drift from the reservations and counted cells they stand
\* for, although exec, wait, terminate and close race to release the same cell:
\* no slot is given back twice, and the limits are never exceeded.
SlotAccounting ==
  /\ hostActive = Cardinality(HostHolders)
  /\ \A s \in Sessions : sessionActive[s] = Cardinality(SessionHolders(s))
  /\ hostActive <= MaxHostCells
  /\ \A s \in Sessions : sessionActive[s] <= MaxSessionCells

\* JavaScript never runs outside the limits: a cell whose slot has been given
\* back is no longer running, or has been told to stop.
RunningHoldsSlot ==
  \A c \in Requests : Running(c) /\ ~terminationRequested[c] => HoldsSlot(c)

\* Only one request at a time observes a cell, and the actor never loses one: an
\* unanswered observer is in the command channel or is the one the actor keeps.
ObserverTracked ==
  \A c \in Requests :
    LET observers == {r \in Requests : pc[r] \in {"send", "await"} /\ c \in held[r]}
    IN  /\ Cardinality(observers) = IF observing[c] THEN 1 ELSE 0
        /\ Waiters(c) = {r \in observers : pc[r] = "await" /\ reply[r] = "none"}

\* While its session is open, a cell that still holds a slot after its exec was
\* answered can be found again: by a wait while its actor lives, by the close of its
\* session also when the actor has gone.
SlotReachable ==
  \A r \in Requests :
    /\ pc[r] = "done" /\ HoldsSlot(r) /\ session[call[r].session] = "open"
    => \/ cells[call[r].session][call[r].id] = r
       \/ \E q \in Requests : pc[q] = "release" /\ r \in held[q]

\* A terminate request answered "pending" reaches the exec it overtook: while the
\* session is open, no cell with that id starts to run afterwards.
CancelledNeverStarts ==
  [][\A c, t \in Requests :
       /\ phase[c] = "boot" /\ phase'[c] = "running"
       /\ reply[t] = "pending" /\ session[call[t].session] = "open"
       => call[t].session # call[c].session \/ call[t].id # call[c].id]_vars

\* Every request is answered.
RequestAnswered == \A r \in Requests : pc[r] # "idle" ~> pc[r] = "done"

\* The test "releases active-cell slots when abort races cell startup"
\* (tests/sandbox.test.mjs:130): an exec that was told that its cell's actor is gone
\* holds no slot, once no other request has the cell to release it.
AbortedExecReleased ==
  \A r \in Requests :
    /\ pc[r] = "done" /\ call[r].method = "exec"
    /\ reply[r] \in {"cell_expired", "runtime_crashed"}
    /\ \A q \in Requests : r \notin held[q]
    => ~HoldsSlot(r)
=============================================================================
