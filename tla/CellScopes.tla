----------------------------- MODULE CellScopes -----------------------------
(***************************************************************************)
(* The exec and wait tools (extension/index.ts) on one host session        *)
(* (host/session.ts): the scope that routes a cell's tool calls, the       *)
(* broker that runs or replays them (broker/broker.ts), the abort of a     *)
(* call and the shutdown of the session.                                   *)
(*                                                                         *)
(* A cell is named as the exec that started it.  An action is what happens *)
(* between two awaits.  The host is what CellHost makes of it: a cell's    *)
(* frames arrive in their order, its verdict after its tool calls.  Pi     *)
(* runs the calls of one message together, the next message when all of    *)
(* them are answered, and repeats a call only in a message of its own; it  *)
(* calls no tool of a session it has shut down.  Every tool is one that is *)
(* unsafe to replay: the others differ in not using the cache.             *)
(***************************************************************************)
EXTENDS Naturals, Sequences, FiniteSets

CONSTANTS
  MaxExecs, Waits,  \* the calls of the two tools: a bound
  MaxCalls,         \* how many unsafe tool calls a cell makes: a bound
  MaxReplay         \* MAX_REPLAY_ENTRIES

ASSUME ScopesAssumption ==
  /\ MaxExecs \in Nat /\ MaxCalls \in Nat /\ MaxReplay \in Nat
  /\ Waits \cap Nat = {}

\* The execs, and the ids Pi gives them (a replay repeats one), numbered as they come.
Execs   == 1 .. MaxExecs
Parents == 1 .. MaxExecs
None    == 0

Calls == Execs \union Waits
Keys  == Parents \X (1 .. MaxCalls)

VARIABLES
  \* Pi and the handlers of exec and wait
  pc,        \* "idle", "called", "asked" while the host's answer is awaited, or "done"
  turn,      \* the calls of the current message
  parentOf, target,  \* the id of an exec, the cell of a wait
  knew,      \* the waits that found the parent of their cell
  aborted,
  contexts,  \* RuntimeOwner.#invocationContexts
  traces,    \* cellTraces, and with it cellParentCalls
  \* the session, its manager and the brokers
  closing,   \* "no", "asked" while session/close is awaited, or "done"
  scopes, cellParents,
  cancelled, \* the brokers whose signal is aborted
  cache,     \* the keys of the replay cache
  effects,   \* how often an unsafe tool was run for a key
  handlers,  \* the tools that were started; what their end changes is the host's business
  \* the link and the host
  link, toClient,
  result,    \* the answer a call has received
  pending,   \* the calls the host has not answered
  doomed,    \* the cells the host was asked to terminate
  cell,      \* "none", "running", "ended", or "gone" once its verdict was taken
  made       \* how many tool calls it has made

piVars     == <<pc, turn, parentOf, target, knew, aborted, contexts, traces>>
brokerVars == <<cache, effects, handlers>>
agentVars  == <<closing, scopes, cellParents, cancelled, brokerVars>>
hostVars   == <<cell, made>>
vars       == <<piVars, agentVars, link, toClient, result, pending, doomed, hostVars>>

Init ==
  /\ pc = [c \in Calls |-> "idle"] /\ turn = {}
  /\ parentOf = [e \in Execs |-> None] /\ target = [w \in Waits |-> None]
  /\ knew = {} /\ aborted = {} /\ contexts = {} /\ traces = {}
  /\ closing = "no"
  /\ scopes = [p \in Parents |-> None] /\ cellParents = {} /\ cancelled = {}
  /\ cache = {} /\ effects = [k \in Keys |-> 0] /\ handlers = {}
  /\ link = TRUE /\ toClient = <<>>
  /\ result = [c \in Calls |-> "none"]
  /\ pending = {} /\ doomed = {}
  /\ cell = [e \in Execs |-> "none"] /\ made = [e \in Execs |-> 0]

CellOf(c) == IF c \in Waits THEN target[c] ELSE c

-----------------------------------------------------------------------------
(* The scopes                                                              *)

\* CodeModeHostManager.release
Release(p) ==
  /\ cancelled' = cancelled \union ({scopes[p]} \ {None})
  /\ scopes' = [scopes EXCEPT ![p] = None]

\* An exec that Pi has repeated is alone in its message.
Repeats(e) == \E d \in Execs \ {e} : parentOf[d] = parentOf[e]

\* Pi's own order of calls.
Joins(c) == IF \A d \in turn : pc[d] = "done" THEN turn' = {c}
            ELSE /\ \A d \in turn : pc[d] # "done" /\ ~ (d \in Execs /\ Repeats(d))
                 /\ turn' = turn \union {c}

-----------------------------------------------------------------------------
(* exec                                                                    *)

\* The handler makes a broker, which records the context, and awaits the session.
Exec(e, p) ==
  /\ pc[e] = "idle" /\ closing = "no"
  /\ \A d \in 1 .. e - 1 : pc[d] # "idle"
  /\ \A q \in 1 .. p - 1 : \E d \in Execs : parentOf[d] = q
  /\ Joins(e)
  /\ (\E d \in Execs : parentOf[d] = p) => turn' = {e}
  /\ pc' = [pc EXCEPT ![e] = "called"]
  /\ parentOf' = [parentOf EXCEPT ![e] = p]
  /\ contexts' = contexts \union {p}
  /\ UNCHANGED <<target, knew, aborted, traces, agentVars, link, toClient, result, pending, doomed, hostVars>>

\* Mutant: the scope is registered inside the try block.
RefusedReleases(e, p) ==
  /\ cancelled' = cancelled \union ({e, scopes[p]} \ {None})
  /\ scopes' = [scopes EXCEPT ![p] = None]

\* register throws before the try block: the scope of the other cell stays.
Refused(e, p) == cancelled' = cancelled \union {e} /\ UNCHANGED scopes

\* Session.exec up to its request; a closed session, an abort and a scope in use end it.
SubmitExec(e) ==
  LET p == parentOf[e] IN
  /\ pc[e] = "called"
  /\ \/ /\ closing # "no" \/ e \in aborted \/ scopes[p] # None
        /\ Refused(e, p)
        /\ pc' = [pc EXCEPT ![e] = "done"]
        /\ contexts' = contexts \ {p}
        /\ UNCHANGED <<pending, result>>
     \/ /\ closing = "no" /\ e \notin aborted /\ scopes[p] = None
        /\ pc' = [pc EXCEPT ![e] = "asked"]
        /\ scopes' = [scopes EXCEPT ![p] = e]
        /\ IF link THEN pending' = pending \union {e} /\ UNCHANGED result
                   ELSE result' = [result EXCEPT ![e] = "error"] /\ UNCHANGED pending
        /\ UNCHANGED <<contexts, cancelled>>
  /\ UNCHANGED <<turn, parentOf, target, knew, aborted, traces, closing, cellParents, brokerVars,
                 link, toClient, doomed, hostVars>>

\* The rest of Session.exec and of the handler, which throws when the session is gone.
ExecReturns(e) ==
  LET p == parentOf[e] IN
  /\ pc[e] = "asked" /\ result[e] # "none"
  /\ pc' = [pc EXCEPT ![e] = "done"]
  /\ \/ /\ result[e] = "waiting"
        /\ cellParents' = cellParents \union {e}
        /\ traces' = traces \union {e}
        /\ cancelled' = IF closing = "no" THEN cancelled ELSE cancelled \union {e}
        /\ contexts' = IF closing = "no" THEN contexts ELSE contexts \ {p}
        /\ UNCHANGED scopes
     \/ /\ result[e] # "waiting"
        /\ Release(p)
        /\ contexts' = contexts \ {p}
        /\ UNCHANGED <<cellParents, traces>>
  /\ UNCHANGED <<turn, parentOf, target, knew, aborted, closing, brokerVars,
                 link, toClient, result, pending, doomed, hostVars>>

-----------------------------------------------------------------------------
(* wait                                                                    *)

\* The handler looks the parent up, and awaits the session.
Wait(w, e) ==
  /\ pc[w] = "idle" /\ closing = "no"
  /\ pc[e] = "done" /\ result[e] = "waiting"
  /\ Joins(w)
  /\ pc' = [pc EXCEPT ![w] = "called"]
  /\ target' = [target EXCEPT ![w] = e]
  /\ knew' = IF e \in traces THEN knew \union {w} ELSE knew
  /\ UNCHANGED <<parentOf, aborted, contexts, traces, agentVars, link, toClient, result, pending, doomed, hostVars>>

\* Session.wait up to its request, which may ask for the end of the cell.
SubmitWait(w) ==
  /\ pc[w] = "called"
  /\ \/ /\ closing # "no" \/ w \in aborted \/ target[w] \notin cellParents
        /\ pc' = [pc EXCEPT ![w] = "done"]
        /\ UNCHANGED <<pending, result, doomed>>
     \/ /\ closing = "no" /\ w \notin aborted /\ target[w] \in cellParents
        /\ pc' = [pc EXCEPT ![w] = "asked"]
        /\ \/ link /\ pending' = pending \union {w} /\ doomed' \in {doomed, doomed \union {target[w]}} /\ UNCHANGED result
           \/ ~link /\ result' = [result EXCEPT ![w] = "error"] /\ UNCHANGED <<pending, doomed>>
  /\ UNCHANGED <<turn, parentOf, target, knew, aborted, contexts, traces, agentVars, link, toClient, hostVars>>

\* A verdict releases the cell; the handler of an aborted wait leaves the rest as it is.
WaitReturns(w) ==
  LET e == target[w] IN
  /\ pc[w] = "asked" /\ result[w] # "none"
  /\ pc' = [pc EXCEPT ![w] = "done"]
  /\ \/ /\ result[w] = "verdict"
        /\ cellParents' = cellParents \ {e}
        /\ Release(parentOf[e])
        /\ traces' = IF w \in aborted THEN traces ELSE traces \ {e}
        /\ contexts' = IF w \in aborted \/ w \notin knew THEN contexts ELSE contexts \ {parentOf[e]}
     \/ /\ result[w] # "verdict"
        /\ UNCHANGED <<cellParents, scopes, cancelled, traces, contexts>>
  /\ UNCHANGED <<turn, parentOf, target, knew, aborted, closing, brokerVars,
                 link, toClient, result, pending, doomed, hostVars>>

-----------------------------------------------------------------------------
(* abort and shutdown                                                      *)

\* Mutant: the broker is cancelled, and the cell left alone.
AskNothing(e) == UNCHANGED doomed

\* cell/terminate, whose answer nobody awaits
AskTermination(e) == doomed' = IF link THEN doomed \union {e} ELSE doomed

\* The listener is there while the host's answer is awaited.
Abort(c) ==
  /\ pc[c] \in {"called", "asked"} /\ c \notin aborted
  /\ aborted' = aborted \union {c}
  /\ IF pc[c] = "asked" THEN AskTermination(CellOf(c)) ELSE UNCHANGED doomed
  /\ cancelled' = IF pc[c] = "asked" /\ c \in Execs THEN cancelled \union {c} ELSE cancelled
  /\ UNCHANGED <<pc, turn, parentOf, target, knew, contexts, traces, closing, scopes, cellParents, brokerVars,
                 link, toClient, result, pending, hostVars>>

\* session_shutdown, up to the session/close request
ShutdownStarts ==
  /\ closing = "no"
  /\ closing' = "asked"
  /\ contexts' = {} /\ traces' = {} /\ cache' = {}
  /\ UNCHANGED <<pc, turn, parentOf, target, knew, aborted, scopes, cellParents, cancelled, effects, handlers,
                 link, toClient, result, pending, doomed, hostVars>>

\* session/close is answered, or fails: every scope of the session is released.
ShutdownEnds ==
  /\ closing = "asked"
  /\ \/ ~link /\ UNCHANGED toClient
     \/ toClient # <<>> /\ Head(toClient).type = "closed" /\ toClient' = Tail(toClient)
  /\ closing' = "done"
  /\ cellParents' = {}
  /\ scopes' = [p \in Parents |-> None]
  /\ cancelled' = cancelled \union {scopes[p] : p \in {q \in Parents : scopes[q] # None}}
  /\ UNCHANGED <<piVars, brokerVars, link, result, pending, doomed, hostVars>>

-----------------------------------------------------------------------------
(* The broker                                                              *)

\* A replayed exec has the id of the first one, and a cell of its own.
Key(e, n) == <<parentOf[e], n>>

Full == Cardinality(cache) >= MaxReplay

\* Mutant: a run that fails is forgotten.
RunForgotten(b, n) ==
  LET key == Key(b, n) IN
  \/ /\ Full \/ key \in cache
     /\ UNCHANGED brokerVars
  \/ /\ ~Full /\ key \notin cache
     /\ cache' \in {cache, cache \union {key}}
     /\ effects' = [effects EXCEPT ![key] = @ + 1]
     /\ handlers' = handlers \union {<<b, n>>}

\* CodeModeReplayCache.run: a known call gets the recorded result, or fails when it differs.
RunUnsafe(b, n) ==
  LET key == Key(b, n) IN
  \/ /\ Full \/ key \in cache
     /\ UNCHANGED brokerVars
  \/ /\ ~Full /\ key \notin cache
     /\ cache' = cache \union {key}
     /\ effects' = [effects EXCEPT ![key] = @ + 1]
     /\ handlers' = handlers \union {<<b, n>>}

\* A tool/invoke request: the broker is the one of the scope, unless it is cancelled.
ReceiveInvoke ==
  /\ toClient # <<>> /\ Head(toClient).type = "invoke"
  /\ LET call == Head(toClient)
         b    == scopes[parentOf[call.cell]]
     IN  \/ /\ b = None \/ b \in cancelled
            /\ UNCHANGED brokerVars
         \/ /\ b # None /\ b \notin cancelled
            /\ RunUnsafe(b, call.n)
  /\ toClient' = Tail(toClient)
  /\ UNCHANGED <<piVars, closing, scopes, cellParents, cancelled, link, result, pending, doomed, hostVars>>

\* An answer settles the promise of its request.
ReceiveAnswer ==
  /\ toClient # <<>> /\ Head(toClient).type = "answer"
  /\ result' = [result EXCEPT ![Head(toClient).call] = Head(toClient).result]
  /\ toClient' = Tail(toClient)
  /\ UNCHANGED <<piVars, agentVars, link, pending, doomed, hostVars>>

\* The host dies, or the link breaks: what is pending fails.  During a shutdown, its end
\* is HostLink's business.
LinkLost ==
  /\ link /\ closing = "no"
  /\ link' = FALSE
  /\ toClient' = <<>>
  /\ result' = [c \in Calls |-> IF pc[c] = "asked" /\ result[c] = "none" THEN "error" ELSE result[c]]
  /\ pending' = {}
  /\ UNCHANGED <<piVars, agentVars, doomed, hostVars>>

-----------------------------------------------------------------------------
(* The host                                                                *)

HostKeeps == UNCHANGED <<piVars, agentVars, link, result, doomed>>

Answer(c, r) ==
  /\ pending' = pending \ {c}
  /\ toClient' = Append(toClient, [type |-> "answer", call |-> c, result |-> r])

\* An exec starts its cell, or is refused: too many cells, terminated before it started.
HostStarts(e) ==
  /\ e \in pending /\ cell[e] = "none"
  /\ \/ /\ e \notin doomed /\ closing = "no"
        /\ cell' = [cell EXCEPT ![e] = "running"]
        /\ UNCHANGED <<pending, toClient>>
     \/ /\ Answer(e, "error")
        /\ UNCHANGED cell
  /\ UNCHANGED made
  /\ HostKeeps

HostInvokes(e) ==
  /\ link /\ cell[e] = "running" /\ made[e] < MaxCalls
  /\ made' = [made EXCEPT ![e] = @ + 1]
  /\ toClient' = Append(toClient, [type |-> "invoke", cell |-> e, n |-> made[e] + 1])
  /\ UNCHANGED <<cell, pending>>
  /\ HostKeeps

HostEnds(e) ==
  /\ link /\ cell[e] = "running"
  /\ cell' = [cell EXCEPT ![e] = "ended"]
  /\ UNCHANGED <<made, pending, toClient>>
  /\ HostKeeps

\* A yield, the verdict, or the error of a second observer or of one that came too late.
HostAnswers(c) ==
  LET e == CellOf(c) IN
  /\ c \in pending /\ cell[e] # "none"
  /\ \/ cell[e] = "running" /\ Answer(c, "waiting") /\ UNCHANGED cell
     \/ cell[e] = "ended" /\ Answer(c, "verdict") /\ cell' = [cell EXCEPT ![e] = "gone"]
     \/ cell[e] = "gone" /\ UNCHANGED cell /\ \E r \in {"verdict", "error"} : Answer(c, r)
     \/ (\E d \in pending \ {c} : CellOf(d) = e) /\ Answer(c, "error") /\ UNCHANGED cell
  /\ UNCHANGED made
  /\ HostKeeps

HostCloses ==
  /\ link /\ closing = "asked"
  /\ \A i \in 1 .. Len(toClient) : toClient[i].type # "closed"
  /\ cell' = [e \in Execs |-> IF cell[e] = "none" THEN "none" ELSE "gone"]
  /\ toClient' = Append(toClient, [type |-> "closed"])
  /\ UNCHANGED <<made, pending>>
  /\ HostKeeps

-----------------------------------------------------------------------------
AgentStep(c) ==
  \/ c \in Execs /\ (SubmitExec(c) \/ ExecReturns(c))
  \/ c \in Waits /\ (SubmitWait(c) \/ WaitReturns(c))

HostStep(c) == (c \in Execs /\ HostStarts(c)) \/ HostAnswers(c)

Receive == ReceiveInvoke \/ ReceiveAnswer \/ ShutdownEnds

Next ==
  \/ \E e \in Execs :
       \/ \E p \in Parents : Exec(e, p)
       \/ HostInvokes(e) \/ HostEnds(e)
       \/ \E w \in Waits : Wait(w, e)
  \/ \E c \in Calls : AgentStep(c) \/ HostStep(c) \/ Abort(c)
  \/ Receive \/ HostCloses \/ ShutdownStarts \/ LinkLost

\* Promise continuations run, frames arrive, an observation yields, a terminated cell ends;
\* a program may run and a tool work for ever.
Fairness ==
  WF_vars(\/ \E c \in Calls : AgentStep(c) \/ HostStep(c)
          \/ \E e \in doomed : HostEnds(e)
          \/ Receive)

Spec == Init /\ [][Next]_vars /\ Fairness

-----------------------------------------------------------------------------
(* Correctness                                                             *)

TypeOK ==
  /\ pc \in [Calls -> {"idle", "called", "asked", "done"}]
  /\ turn \subseteq Calls
  /\ parentOf \in [Execs -> Parents \union {None}]
  /\ target \in [Waits -> Execs \union {None}]
  /\ knew \subseteq Waits /\ aborted \subseteq Calls
  /\ contexts \subseteq Parents /\ traces \subseteq Execs
  /\ closing \in {"no", "asked", "done"}
  /\ scopes \in [Parents -> Execs \union {None}]
  /\ cellParents \subseteq Execs /\ cancelled \subseteq Execs
  /\ cache \subseteq Keys /\ Cardinality(cache) <= MaxReplay
  /\ effects \in [Keys -> Nat]
  /\ handlers \subseteq Execs \X (1 .. MaxCalls)
  /\ link \in BOOLEAN
  /\ \A i \in 1 .. Len(toClient) : toClient[i].type \in {"invoke", "answer", "closed"}
  /\ result \in [Calls -> {"none", "waiting", "verdict", "error"}]
  /\ pending \subseteq Calls /\ doomed \subseteq Execs
  /\ cell \in [Execs -> {"none", "running", "ended", "gone"}]
  /\ made \in [Execs -> 0 .. MaxCalls]

\* The exec was answered with a cell id, and nothing has ended the cell for the agent.
Waiting(e) ==
  /\ pc[e] = "done" /\ result[e] = "waiting"
  /\ e \notin aborted /\ closing = "no"
  /\ \A w \in Waits : target[w] = e => result[w] # "verdict"

\* While the model may wait for a cell, its tool calls find their scope, a live broker and,
\* unless the same exec was called again, the context they run in; and a tool that
\* was started for a cell that is over has been told to stop.
ScopesMatchCells ==
  /\ TypeOK
  /\ \A e \in Execs : Waiting(e) =>
       /\ scopes[parentOf[e]] = e /\ e \notin cancelled
       /\ e \in cellParents /\ e \in traces
       /\ (\A d \in Execs \ {e} : parentOf[d] # parentOf[e]) => parentOf[e] \in contexts
  /\ \A h \in handlers : scopes[parentOf[h[1]]] = h[1] \/ h[1] \in cancelled

\* "replaying a completed top-level call does not repeat its writes or commands"
\* (README.md:175), until shutdown clears the cache.
ReplayOnce == closing = "no" => \A k \in Keys : effects[k] <= 1

\* An abort ends the call, and the cell with it: also when it crosses the cell's start,
\* its yield or its verdict.
AbortTerminates ==
  \A c \in Calls :
    (pc[c] = "asked" /\ c \in aborted) ~> ((pc[c] = "done" /\ cell[CellOf(c)] # "running") \/ ~link)
=============================================================================
