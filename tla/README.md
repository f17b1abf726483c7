# A verification project for pi-code-mode

pi-code-mode gives the Pi agent one tool, `exec`, that runs JavaScript in V8 in a process of its
own, the *host*, and lets that program call the agent's tools. A program that is not finished in
time stays behind as a *cell*, which the model observes again with `wait`. This directory holds TLA+
modules of the parts of the system where the order of steps decides whether it is right, the TLC
configurations that check them, and proofs for TLAPS.

`PROJECT.json` is the index: the components, the runs and their properties, for every property a
mutation of the modelled code that breaks it, the source lines behind every definition, the hazards
of the code and the theorems.

    tlc -workers 2 -config CellHostSlots.cfg MCCellHost.tla     # one of the runs
    tlapm ExtensionProofs.tla                                   # one of the proofs

Contents: [the system](#the-system), [the modules](#the-modules), [the runs](#the-runs-and-their-bounds),
[fairness](#fairness), [proofs](#proofs), [where the code differs from its documents](#where-the-code-and-its-documents-differ),
[what is not modelled](#what-is-not-modelled), [plan](#plan).

## The system

    Pi (the agent's process, Node)                           pi-code-mode-host (tokio)
    ------------------------------                           -------------------------
    extension/index.ts  exec, wait, shutdown
      |  invocation contexts, traces
    host/session.ts     HostSession, HostSessionManager
      |  scopes and parents of cells                         server.rs   read loop, one task per request
    broker/broker.ts    ToolBroker, ReplayCache              session.rs  registry of cells, active-cell counters
      |                                                      cell.rs     one actor (thread) per cell
    host/client.ts      HostClient  <== frames, 2 pipes ==>  delegate.rs tool calls back to the client
                                                             runtime crate: V8, output, timers, watchdog
    process-manager.ts  exec_command, write_stdin  ----->    command workers (their own process groups)
    workspace.ts, modes/codex/apply-patch.ts  ----->         files

The same binary is the host and, started with other arguments, the sandboxed worker of a command.

| Component | State it keeps | Operations | What is hard | What makes it right |
|---|---|---|---|---|
| **Host server** (`server.rs`, `session.rs`) | sessions; per session the cells by id, the terminations that came before their exec, `active_cells`; the host's `active_cells` | `session/open`, `session/close`, `cell/exec`, `cell/wait`, `cell/terminate`, each in a task | tasks interleave at every lock and await; two counters taken one after the other and undone on five error paths; ids are reused | counters equal the cells they stand for; no cell runs without a slot; every request is answered; an early terminate is not lost |
| **Cell actor** (`cell.rs`) | the verdict, the observer, the output already delivered, the suspended yield | start, observe, terminate, yield, expire, return | commands, V8 and timers race in one unbiased `select!`; the channel may close at any time | one verdict for ever; one observer at a time and never lost; output delivered once |
| **Tool delegate** (`delegate.rs`) | pending tool calls | `invoke`, `resolve_response` | a response for a call that was cancelled | every call is answered while the host lives |
| **V8 runtime** (`runtime` crate) | output buffer, tool-call limits and semaphore, timers, CPU limit, store | `text`, `tools.*`, `setTimeout`, `yield_control`, slices of JavaScript | callbacks of Rust futures and of the program interleave; a second thread terminates the script | limits are kept and given back; no cleared timer fires; nobody is stopped before the limit, and a runaway is |
| **Host client** (`client.ts`) | the table of requests, the state of the link | `request`, `close`, `kill`, frames, events of the child process | errors, exit and close events in any order; an id that is not pending ends the link | every promise settles; no living host is left behind |
| **Session manager** (`session.ts`) | per cell the broker scope of its tool calls, and its parent call | `execute`, `wait`, `close`, abort | a scope must live as long as its cell, which outlives the request | a cell's tool calls find their scope; an abort ends the cell |
| **Broker** (`broker.ts`) | the admitted descriptors; the replay cache of unsafe calls, per session | constructor, `invoke` | a repeated exec makes its tool calls again while the first are running | an unsafe tool runs once per call |
| **Extension** (`extension/index.ts`) | invocation contexts, traces; the runtime it owns (host, session, the start under way); the session's contract; the tools pi had before | `exec`, `wait`, `session_start`, `session_shutdown`, `/code-mode`, configure, start, shutdown | everything above, with the agent's shutdown in between; starts shared by several callers; a step of configure that fails | contexts and traces live as long as their cells; no host without an owner; what the session file records governs; a shutdown leaves nothing behind |
| **Mode** (`core/mode.ts`) | the contracts recorded in session files | create, parse, normalize | a recorded entry of another version or shape | the last contract that can be read is the one in force |
| **Settings** (`harness/config.ts`, `cli.ts`) | one file | load, save, command line | a second process, a crash in the middle of a save | readers find a whole configuration |
| **Process manager** (`process-manager.ts`) | records of commands, output and cursors, three timers per record | `exec`, `write`, poll, abort, `close`, events | five events in any order complete a command; two calls share one record; two limits and a timer evict it | output complete and given once; calls answered; an abort ends the whole process group; records expire |
| **Workspace** (`workspace.ts`) | the queue of mutations | `mutate`, `writeFile`, `move`, `remove`, `close` | mutations that fail, nest, or meet `close` | one mutation at a time; every one is answered |
| **apply_patch** (`apply-patch.ts`) | snapshots, created parents | parse, apply, roll back | any call of the file system may fail in the middle; hunks that build on each other | the workspace changes by whole patches; a hunk changes the lines it names |
| **Read-only tools** (`core/capabilities.ts`, `catalog.ts`) | counters, visited directories | read, ls, find, grep | links in circles and out of the root; limits shared by all calls | everything once, nothing outside, no more than the limits |
| **Wire protocol** (`framing.ts`, `protocol.ts`, `read_stdin`) | the bytes of an unfinished frame | encode, decode | chunks end anywhere | messages arrive as sent |
| Command worker, provider detection, prompts, creation of the agent session | none that outlives a call | | | see [what is not modelled](#what-is-not-modelled) |

They interact in four ways: frames over two ordered pipes (client and host), message channels inside
the host (tasks to actors, ops to actors), promises and events on one JavaScript thread, and signals
and pipes between the process manager and its commands.

## The modules

### CellHost: requests, registry, counters and actors

One module holds the request tasks and the cell actors, because what goes wrong goes wrong between
them. A request `r` is a task: `pc[r]` is its next step, named for what the step does, and there is
a step wherever another task may run: before each lock is taken and at each await. A cell has the
name of the exec that made it, so two cells with one id stay apart.

| Variables | Code |
|---|---|
| `session`, `sessionActive`, `hostActive` | `ServerState.sessions` and `.active_cells`, `HostSession.active_cells` |
| `cells`, `pendingTerminations` | `CellRegistry` |
| `pc`, `call`, `ending`, `held`, `reply` | the local state of a request task: its parameters, whether it terminates what it observes, its `CellHandle`s, its oneshot |
| `phase`, `gone`, `commands`, `observer` | `run_actor` and its channel |
| `observing`, `counted`, `terminationRequested` | the atomics in `CellHandle` |

`cell/exec` is ReserveSessionCell, ReserveHostCell, SpawnCell, InsertCell, ObserveClaim,
ObserveSend, ObserveVerdict, RemoveCell, ReleaseTerminal, and at each of them the error exits of the
code (SessionFull, HostFull, SpawnFails, InsertCancelled, InsertDuplicate, ObserveRefused,
ObserveExpired). `cell/wait` enters at FindCell, `cell/terminate` at RequestTermination or
MarkTermination, `session/close` is CloseSession, TakeCells and a CloseSessionCell for each cell.
The actor's steps are ActorStart ... ActorOrphaned; ActorConclude is V8 ending by itself, ActorYield
its yield timer. `release_cell` takes the session's and then the host's counter down; the model does
both in one step, and so leaves out that a task may find the host still full for the moment between.

*CellContract* is what the client may rely on: a name gets at most one verdict; an observation is
answered once, with "waiting" only before the verdict and with the verdict from then on.
*CellHostContract* maps CellHost to it (ContractHolds). It is used with unique ids: with reused
ones, a late answer may concern the earlier cell of the name.
*CellHostInvariant* has the inductive invariants, *CellHostProofs* the theorems, the refinement
among them, *MCCellHost* the symmetry of a run.

### HostLink: the two ends of the link

`client.ts` with the two pipes, the read loop of `server.rs`, the tasks' answers and `delegate.rs`.
A request is only its id: `Hello` and `Shutdown` are the handshake and the last one. `pending` and
`outcome` are the promises, `toHost` and `toClient` the pipes. Stop loses any tail of what the host
had still to write. The child's three events (InputError, ChildExit, ChildClose) come in the orders
Node allows. `crashed` is an unhandled rejection of `void this.#receiveRequest` (HandlerUnhandled),
which ends the agent's process; the properties are stated up to it. *HostLinkProofs* has the
theorems.

*Framing* is what the frames on the pipes are made of: `FrameDecoder` and `parseEnvelope` on the
client's side, `read_stdin` and the serde types of `message.rs` on the host's. What a byte is, how many
make a header and how a header says a length are parameters, and so is what a payload says to
`JSON.parse` (`Json`) and to serde_json (`SerdeJson`). The two sides do not agree on every payload, and
the module does not say they do: serde takes a null error for none, which `parseEnvelope` refuses, and
refuses an error code that `message.rs` does not have, a key given twice and an escaped lone surrogate.
In the instance a null error, an unknown code and an escape that serde refuses occur. It has bytes of two
values and headers of two bytes, so that every stream of up to seven bytes and every way to cut it into
chunks can be tried; the proof has them all. A module of operators, the loops of `push` and
`read_stdin` as recursive functions: *MCHostLink* puts it beside HostLink and states FramingSound
where a behaviour starts.

### CellRuntime: one program and its observers

The output buffer with its cursor (`output.rs`), the tool-call ops with their semaphore and byte
limits (`ops.rs`), the timers (`ops.rs` with `bootstrap.rs`), and the part of `cell.rs` that
delivers output and parks a yield. Output items are their sizes; `got` records which items the
observers were given, together. The program is free: any operation at any moment it is polled.
*CellRuntimeProofs* has the theorems about timers, tool calls and output.

### CpuWatchdog: the CPU limit

The execution thread (`lib.rs`) and the watchdog thread (`watchdog.rs`), down to the mutex, the
condition variable, the atomic flag and V8's own termination flag. Time passes in ticks between any
two steps; a deadline is the ticks that are left. `used` counts the ticks since the first slice
was armed, without those between slices, and is what TripJustified compares the limit with.
The theorems are the last section of *CellRuntimeProofs*.

### CellScopes: exec and wait on the agent's side

The handlers of `exec` and `wait` in `extension/index.ts`, `HostSessionManager` and `HostSession` in
`session.ts`, `ToolBroker` and `ReplayCache`, on a small host. An exec has a number of its own and a
parent, the id of its tool call, that another exec may repeat. Tools are unsafe ones, those that the
replay cache is there for; `effects` counts how often a call of a parent ran its tool. Abort,
ShutdownStarts and LinkLost may come at any step. *CellScopesProofs* has the theorems.

### Extension, Settings, ToolAdmission: the life of a runtime

*Extension* is the rest of `extension/index.ts`: `RuntimeOwner` and the handlers that drive it.

| Variables | Code |
|---|---|
| `rt` | the fields of `RuntimeOwner`; `rt.starting` is the promise, named for the host it starts |
| `host` | a host process as its owner sees it: spawned, opening its session, open, crashed, gone |
| `waits` | the promise each caller of `session()` awaits |
| `life` | the lifecycle handler under way: where it awaits, and what it will do then |
| `ext`, `active` | `contract`, `baselineTools` and `registrations`; the tools pi offers |
| `current`, `entries`, `conversation` | the session file that is open; in each file the recorded contracts and whether it holds a message |
| `rejected` | a history variable: a shutdown was rejected since the last `session_start` |

A handler runs from one await to the next in one action: SessionStart or DefaultSaved, then
SessionClosed, HostClosed, Install, HelloAnswered and SessionOpened, or StartFailed at any point of
the start and ShutdownRejected in either await of a shutdown. CallSession is `before_agent_start`,
`exec` or `wait` asking for the session meanwhile. HostCrashes may come at any step.

*Settings* is the settings file with its save, one system call per action, and the command line
(`ParseArguments`, `EffectiveConfig`), by which a second process saves it too; `Providers` are all
arguments that are no option, whatever they are used for. *ToolAdmission* has
the contracts of `mode.ts`, the descriptors of both modes and the admission by the broker's
constructor. *ExtensionProofs* has the theorems, *MCExtension* gives registrations, one of which
collides in pi mode only, and command lines.

### ProcessManager: commands

All of `process-manager.ts` and the operating system's side of a command: the worker (`leader`), a
background child that may keep the pipes open (`descendant`), the chunks in each pipe with the
process that wrote them. Data, StreamEnd, ExitEvent, CloseEvent, StartError, ConfigurationFailed and
the four timers are the callbacks, ExecRefused, Exec, Poll, Write, Abort and their ends the calls.
*ProcessManagerProofs* has the theorems. *FiniteData* has the lemmas on data that these and others
rest on: sums over finite sets, folds over sequences, the operators on sequences.

### FileTree, Workspace, PatchContract: patches

*FileTree* has the tree of files and what `writeFile`, `move` and `remove` make of it, as functions,
and with them Outcome, what a patch should make of a tree. *Workspace* is the queue of `mutate` and
`applyPatch` step by step: snapshots in Enter, one step per operation (a move writes and renames, so
it takes two), a Fault in any call of the file system, and the rollback entry by entry with its
modes and its directories. `Masked` is what the umask leaves of a mode: a file that is written over loses
the other bits, and the rollback's chmod brings them back. *PatchContract* is the transaction: Commit
applies a whole patch to the tree as it is, Refuse changes nothing. Under the refinement mapping the tree of a task under way
is its snapshot. *MCWorkspace* gives the trees and the patches of the runs, *WorkspaceProofs* has the
theorems.

### PatchText and ReadTools: text and directories

Modules of operators, checked against what they are for; MCWorkspace states both where a behaviour
starts. *PatchText* is `parseApplyPatch`, a fold over the lines, and `replaceHunks`, from the
characters of a file to its lines and back. The parser's reference is the grammar read the other way
(WrittenAs). That of `replaceHunks` stays with the characters of the file, which it neither splits nor
joins: a choice of places where the old lines stand as they are written in such a file, and the
characters between them taken over as they are (Placed, Patched). It is about files whose line ends are
all alike; one that mixes LF and CRLF is rewritten, and HunksReplaced says into what. *ReadTools* is `ReadOnlyCapabilityHost` over small file
systems with links: its reference for a walk is the smallest set of directories closed under what they show, and
for `read` the lines of the whole file.

## The runs and their bounds

Every module has one type invariant; the other properties are about what several steps, mostly of
several actors, make of each other. `CHECK_DEADLOCK FALSE` stands in every configuration but that of `extension`, because each of these
runs has a finite number of requests, calls or slices, and the system is at rest after the last. An
extension can always be started or shut down once more.

FramingSound, PatchTextSound and ReadToolsSound are about functions: a push, a parse or a call of a
read-only tool is one step of the program. They quantify over all bounded inputs themselves, and are
evaluated in the states a behaviour can start in.

| Run | Instance | What it shows |
|---|---|---|
| `host_slots` | 4 requests, 1 session, 1 cell id that may be reused, limits 3 (session) and 2 (host), symmetric | SlotAccounting: both counters equal the reservations and counted cells at every step and stay within their limits. RunningHoldsSlot: a cell that runs and was not told to stop holds a slot. ObserverTracked: one observer at a time, and `observing` says whether there is one. |
| `host_contract` | 3 requests, unique ids, both limits 1 | RequestAnswered, CancelledNeverStarts (a terminate that overtook its exec stops it), SlotReachable (a cell that still holds a slot when its exec was answered is still registered, so the close of its session can release it, and a wait while its actor lives), ContractHolds (refinement of CellContract). |
| `host_abort` | 3 requests, limits 2 | a counterexample, see below |
| `process_output` | 2 calls and either 1 command with 2 chunks of output, a background child, aborts and time limits, or 2 commands that only start, end or fail to start; a record keeps 1 chunk of output and the notice that there was more, one call has a token limit of 1 chunk, 1 completed record is kept | OutputWhole (an exit code comes with pipes read to their end, unless the post-exit timer or shutdown cut them off; each chunk is accounted for by one answer, which shows less only at its token limit); CallAnswered also for a command that ignores everything; AbortEndsGroup also after the worker has gone; RecordsExpire (a completed record has its expiry timer and an expiry timer its record; both limits hold). |
| `process_crash` | 2 calls, 1 command, 1 chunk | a counterexample, see below |
| `host_link` | 2 requests besides handshake and shutdown; streams of up to 7 bytes | RequestTracked (a request is answered once and never forgotten while its response is under way), RequestSettles, ToolCallAnswered, HostStops; FramingSound (the client reads each frame once and in order however the pipe cuts it, the host up to the first frame its decoder refuses, and each ends the link just then) |
| `cpu_watchdog` | limit of 3 ticks, 4 slices | TripJustified (nobody is stopped early), StopNamed (whoever was stopped is told so), ExecutionEnds (a runaway script is stopped and a drop ends: no wake-up of the thread is lost) |
| `cell_runtime` | 3 tool calls, 2 yields, 2 timers, at most 4 operations and 3 observations; items of 1 or 2 bytes, observers of 1 or 3, a buffer of 3; 2 tool calls, 1 at a time, results of 2 bytes in all; 1 timer at a time | OutputDelivered (once, in order, and what is left behind is announced), ToolBudget, CallsProceed, TimersKept (the table holds the timers that sleep, and a cleared one never fires) |
| `cell_scopes` | 2 execs whose parents may coincide, 1 wait, 1 tool call each, a replay cache of 1 | ScopesMatchCells (a cell that waits has its scope, and its context, trace and parent), ReplayOnce, AbortTerminates |
| `workspace` | 4 paths two directories deep, a patch of up to 2 operations and one of 1, 1 fault, a close; files of up to 5 characters, patches of up to 4 lines; file systems of up to 3 entries below the root | PatchesAreTransactions (refinement of PatchContract, with modes and directories), PatchAnswered; PatchTextSound, ReadToolsSound |
| `patch_nested` | 1 patch on a path and a path below it, no fault | a counterexample, see below |
| `extension` | 2 session files, one of which may hold a contract and an entry that is none, 2 hosts remembered at a time, 1 turn, 2 other extensions, 4 command lines of a second process, at most 3 recorded contracts | HostsOwned, RecordedContractGoverns, ShutdownCleans, ConversationKeepsMode, SettingsWhole, LifecycleSettles |

Why these are enough:

- *CellHost.* `Requests` bounds everything, because each request is served once. The races are
  between a cell's exec, its observer, a second observer, terminate and close: three requests give
  every pair of them on one cell, and four allow a second cell under the same id while a task still
  holds the first. One session is enough for the counters of a session; with limits 3 and 2 the host's
  limit refuses after the session's reservation was made, with 1 and 1 the session's does.
- *ProcessManager.* `MaxCommands`, `Loads` and `MaxTokens`. Two calls may share a command, which is the
  only way they meet; one of the chunks may come from the background child, the second does not fit
  the record, and both together do not fit the answer of the call that asks for less. Retention needs
  two completed commands and no output, hence a load of its own.
- *HostLink.* Two requests meet in the table and in both pipes, and each may make a tool call.
- *CpuWatchdog.* `MaxSlices`: bootstrap, program, and two polls; the watchdog may lag by any number
  of them. The limit of 3 leaves budget after a slice that used some.
- *CellRuntime.* `MaxOps` and `MaxObservations`: an item that fits, one that does not fit the
  observer and one that does not fit the buffer; a call that holds the one permit, one that waits for it,
  one over the limit.
- *CellScopes.* `MaxExecs`, `Waits`, `MaxCalls`, `MaxReplay`: one repetition, one observer of a cell
  that outlived its exec, a cache that is full after one entry. More waits are left to the proof.
- *Workspace.* `Size`, `Start` and `MaxFaults`: the rollback of the second operation undoes the
  first. One fault at any call, and none in the rollback itself, of which nothing can be promised.
  Three modes: that of a new file, one that the umask changes, and what is left of it.
- *Extension.* `Hosts`, `Turns`, `MaxEntries`. A dead host that nobody refers to is forgotten and its
  name used again, so behaviours have any number of hosts; two are alive or referred to at most
  when a start meets the host of a shutdown. One turn shares a start with a handler. Two session
  files are the one left and the one entered.
- *Framing, PatchText, ReadTools.* Seven bytes are three empty frames and a byte, or a frame of two
  with a header begun; a file of five characters holds three lines with a CRLF, of which the others may be LF; two hunks may find
  the same line, or what the other put in; three entries are a directory with an entry and a link to
  either, or to the root, or two links in a circle.

What the models take for granted of their surroundings: other processes leave the named files
alone, and a patch never awaits anything between its steps, so `close` never meets one under
way (Workspace); Pi runs the calls of one message together, repeats an id only in a message of its
own, and calls no tool after its shutdown; every tool is an unsafe one; the loss of the link during
a shutdown is HostLink's (CellScopes); pi awaits one lifecycle handler before it calls the next and
lets turns begin only when a runtime is configured, which is `EarlyTurns = FALSE` (Extension); the
settings of the other process are saved whole, its load and its save in one step, of which only the
rename can be seen (Settings); files do not change during a call of a read-only tool (ReadTools).

## Fairness

Only what the program brings about by itself is fair, and only weakly so.

- CellHost: tokio polls a task that was woken, so each TaskStep and ActorCommand that stays possible
  happens; `select!` is unbiased, so commands do not starve; the yield timer fires (ActorYield).
  V8 need not finish: ActorConclude is not fair.
- CpuWatchdog: time passes, and both threads are scheduled. A script need not return.
- CellRuntime: the yield queue and the semaphore are polled; a tool call is answered, which
  ToolCallAnswered of HostLink shows. Observers come when they like.
- HostLink: both read loops run, handlers settle, a task answers its request (RequestAnswered of
  CellHost), a process that got SIGTERM dies. Nobody needs to close, kill or crash.
- CellScopes: promise continuations run, frames arrive, an observation returns, and a cell that was
  told to terminate ends (ExecutionEnds of CpuWatchdog). A program or a tool may run for ever.
- ProcessManager: timers fire and events are delivered. A command may ignore its input, SIGTERM and
  its own end; SIGKILL it may not.
- Extension: promise continuations run, and a host answers or dies (StartStep; HostLink shows that its
  requests settle). Nobody needs to start a session, to answer a dialog or to crash.
- Workspace: promise continuations run, so the patch at the head of the queue makes its steps.

## Proofs

| Theorem | Module | Says, for every value of the constants |
|---|---|---|
| TypeCorrect | CellHostProofs | `Spec => []TypeOK` |
| SlotsAccounted | CellHostProofs | `Spec => []SlotAccounting` |
| RunningCellsHoldSlots | CellHostProofs | `Spec => []RunningHoldsSlot` |
| ObserversTracked | CellHostProofs | `Spec => []ObserverTracked` |
| SlotsReachable | CellHostProofs | `Spec => []SlotReachable`, with unique ids |
| CancelledCellsNeverStart | CellHostProofs | `Spec => CancelledNeverStarts`, with unique ids |
| HostKeepsContract | CellHostProofs | `Spec => ContractHolds`, with unique ids: CellHost implements CellContract |
| OutputIsWhole | ProcessManagerProofs | `Spec => []OutputWhole` |
| RecordsDoExpire | ProcessManagerProofs | `Spec => []RecordsExpire` |
| WatchdogTypes | CellRuntimeProofs | `WatchdogSpec => []WatchdogTypeOK` |
| LimitNeverTripsEarly | CellRuntimeProofs | `WatchdogSpec => []TripJustified` |
| StopsAreNamed | CellRuntimeProofs | `WatchdogSpec => []StopNamed` |
| SpecRequestTracked | HostLinkProofs | `Spec => []RequestTracked` |
| FramesAreSound | HostLinkProofs | `Spec => []FramingSound`: any stream of any frames, cut anywhere |
| SpecTimersKept | CellRuntimeProofs | `Spec => []TimersKept` |
| SpecToolBudget | CellRuntimeProofs | `Spec => []ToolBudget` |
| SpecOutputDelivered | CellRuntimeProofs | `Spec => []OutputDelivered` |
| SpecReplayOnce | CellScopesProofs | `Spec => []ReplayOnce` |
| SpecScopesMatchCells | CellScopesProofs | `Spec => []ScopesMatchCells` |
| SpecHostsOwned | ExtensionProofs | `Spec => []HostsOwned`, without early turns |
| SpecShutdownCleans | ExtensionProofs | `Spec => []ShutdownCleans`, without early turns |
| SpecConversationKeepsMode | ExtensionProofs | `Spec => ConversationKeepsMode` |
| SpecTypeCorrect | ExtensionProofs | `Spec => []TypeOK`, the contracts and the settings included |
| SpecSettingsWhole | ExtensionProofs | `Spec => []SettingsWhole` |
| SpecRecordedContractGoverns | ExtensionProofs | `Spec => []RecordedContractGoverns`, without early turns |
| WorkspaceTypes | WorkspaceProofs | `Spec => []TypeOK`: what is in the workspace is in a directory |
| PatchesTakeTurns | WorkspaceProofs | `Spec => []OneUnderWay`: only the head of the queue is under way |
| UnnestedPatchesAreTransactions | WorkspaceProofs | `Spec => PatchesAreTransactions`, when no path a patch may name is below another: Workspace implements PatchContract |
| FlatPatchesAreTransactions | WorkspaceProofs | `Spec /\ []PatchesAreFlat => PatchesAreTransactions`: while no patch under way names a path below another |
| FailedFlatPatchRestores | WorkspaceProofs | `Spec /\ []PatchesAreFlat => FailedPatchRestores` |

*Assumptions.* They are about the constants, and TLC evaluates them on the instances of the runs.

- HostAssumption: the set of requests is finite and `None` is not one of them, and both limits are
  natural numbers. NameAssumption: `None` is not a pair of a session and an id either.
- WatchdogAssumption: the limit and the number of slices are positive.
- LinkAssumption: the handshake and the shutdown are two requests of their own.
- FramingAssumption: a header has a fixed, positive number of bytes; each length up to the limit has
  one, and any such bytes are the header of one length, as the numbers below 2^32 are in four bytes; the
  limit is a natural number; a payload says a value or is no JSON, to either side.
- ScopesAssumption: the bounds are natural numbers, and no wait is a number, as execs are.
- RuntimeAssumption: tool calls, yields and timers have numbers, and only finitely many calls do; an
  item has a size, and the limits are natural numbers.
- ManagerAssumption: the set of calls is finite, the limits are natural numbers, the token limit of a
  call positive, and a load says how
  many commands there are and how many chunks each writes.
- SettingsAssumption: a command line is a sequence of options and other arguments, and a file that is
  written in part is not taken for a configuration.
- ExtensionAssumption: `None` is no host, no session file, no contract and none of the strings it is
  compared with, `Unsupported` is no contract, and the mode option is a mode or absent.
- TreeAssumption, PathsAreTree: every path is in a directory or in the root, which is no path, and
  none is below itself; the umask makes a mode of every mode.
- WorkspaceAssumption: the workspace starts as a tree, and the lengths of patches and the number of
  faults are natural numbers.

Three hypotheses restrict what a theorem is about, because it is false otherwise. `~ ReuseIds` is a client
that names each cell once, which ours does (`CodeModeHostSession.exec` draws a random id): with
reused ids a wait for a cell that is gone may find the next one, and `release_terminal` take the newer
cell out of the registry. `~ EarlyTurns` is what pi guarantees,
see above. PatchesAreFlat is that no patch under way names a path below another; `patch_nested` is the
counterexample without it. Nothing else is restricted: the number of requests, sessions, ids, slices,
timers, execs, waits, calls, commands, chunks, bytes, hosts, session files, turns, paths, patches, operations
and faults is arbitrary, and so are the limits, the registrations, the mode option and the settings.

*The slots.* SlotAccounting is not inductive. A task that returns a slot takes one off both counters, and
that is only right when the cell still counts; whether it does depends on how the task came by its
handle and on what the actor told it. SlotInv (CellHostInvariant) adds exactly that:

- ProgressInv: how far an exec is says whether its cell is counted, known to others, or told to stop;
- DuplicateInv: the cell of an exec refused as a duplicate is out of everybody's reach, so the
  direct release in InsertDuplicate is never repeated through a handle;
- WaiterInv: an actor only answers requests that wait for this very cell;
- VerdictInv: a task about to release a cell has seen its verdict or has asked for its end;
- ActiveInv: a cell that may still run holds a slot unless it was told to stop.

Each action has a lemma. Those that touch a counter use the lemmas on cardinalities at the head of
the module: the holders gain one element, lose one, or stay. The rest shows that the sets of holders are
equal before and after.

*The observers.* ObserverTracked says where an observer is, not that it is there once, and a second copy
in the channel would be answered twice. ObserverInv adds it: no request is twice in the hands of an
actor, the channel and the slot of the observer taken together (HeardOnce), and the observers of a
cell are one at most. It needs WaiterInv, by which the answer of an actor ends the
observation it belongs to and no other.

*Names.* What the host promises about a name rests on NamingInv:

- NameInv: a name leads to one cell, from the registry and from a task's handle. It is all that
  `~ ReuseIds` is used for;
- CancelledInv: an exec that found a mark keeps its cell to itself until its slot is returned;
- ReachInv: a cell that left the registry of an open session has ended, and whoever took it out is
  about to return its slot. SlotReachable follows, and `host_abort` shows why it has to speak
  of cells that are still registered: an exec that fails leaves them there;
- MarkInv: the mark of a terminate that was answered "pending" is there until the exec takes it, and
  then that exec is cancelled. CancelledNeverStarts follows for the step that would start the cell.

*The refinement.* HostKeepsContract goes through the actions once more. The verdict of a name is
that of its only cell (VerdictOf), and whoever waits for a cell asks for its name (WaiterAsks). Then
the arrival of a request is Ask, an actor's verdict is Decide, with the observer it answers in the
same step, any other answer of an actor is Tell, and every other step leaves the three variables of
the contract alone.

*The watchdog.* LimitInv joins BudgetInv (what is left of the budget and what was used reach up to the limit),
DeadlineInv (the deadline and a wait that was armed for it never run out before the slice has used
its budget; a wait for an earlier generation is not believed), ReasonInv (whoever is terminated was
cancelled or has the flag set) with TripJustified and StopNamed.

*The link.* RequestTracked counts a pending request's places, of which every step changes two.
LinkInv says of every request, pending or not, where it may be (Flight): in one place only; if it is
anywhere, then it is pending, or it was rejected by a client that is closed, so that a response
nobody waits for only reaches a closed client; and behind a handshake that is complete. The
lemmas at the head of the module are about messages in sequences: what Append, Tail and SubSeq
leave of them, and that a message that is there once is counted as one.

*The frames.* FramingSound compares the messages received with the frames of the stream, which are a
CHOOSE: a longest list of payloads whose encodings are a prefix. It exists because every frame takes a
header, so that the stream holds no more frames than headers (Layout, FramesFacts). What the decoder
sees of the stream after its g-th frame is then settled by how far the chunks have come: the header of
the next frame says its length as soon as it is there, and it is taken just when all of it is there;
after the last frame nothing is (LooksFacts). Pushed says what a pass of the loop has taken, and
LinkAt what the client has after a chunk: the frames so far, all of them good while the link is open,
and in the buffer exactly the bytes after them. The frames that a push took before it threw are lost, and
the next chunk goes on behind the broken one: this is why ArrivedFrom, and not a prefix, is what holds of a
link that was closed. ReadAt says the same of the host, with its own decoder: it stops at the first frame that decoder refuses.
The lemmas on good frames (SoundFacts, ParsedFacts, ParsedSlice) are about any decoder, and nothing is
assumed of one that the other does.

*The program of a cell.* TimersKept relates the table of timers, the ops that sleep and the script's
own list; TimerInv adds which of them an id may be in at each step of its life, so that one that
fired was never cleared. For ToolBudget, ToolInv says who has the permits (those that are free and
the calls invoked make up the limit; who waits for one waits once), and that the totals counted are
never below what was admitted and handed out. The latter is an inequality: a result that is refused
for its size has been counted. For OutputDelivered, OutputInv says that the buffer's total is the sum of
its items and, until it truncates, of all that was emitted; AnswerInv that the observers together
have exactly the items up to the cursor, and that no answer kept silent about a loss.

*The process manager.* OutputWhole relates a command's completion to its pipes and its cursor to the
answers of several calls; neither is inductive. ManagerInv adds

- CommandInv: a number that was not given out is untouched; what was written is in a pipe or was
  received; a stream that has ended has neither a writer nor bytes left, so that the close event, which
  comes after both streams, finds nothing unread; the timer that completes a command without it
  runs only after the exit; and a complete record with something unread was cut off;
- ListenerInv and CallInv: the listeners of a command are the calls that wait for it, each once, so
  that the call that is polled first takes what is new and the others nothing, and a call takes once;
- CursorInv: the cursor is the sum of what the calls on the command took;
- ShownInv: an answer shows what it took, or its newest part up to the token limit of the call;
- RecordInv: the expiry timers are those of the complete records, and these keep within both limits.

The records that `#retainCompleted` keeps are those with a bounded sum of output among the newer ones:
the oldest that is kept bounds them all (RecordInv after a completion).

*The scopes.* ReplayOnce needs only that a tool that ran is in the cache (ReplayInv). For
ScopesMatchCells the calls come first (CallInv): their types, that a call is answered once, while it
awaits that, and that a wait is for a cell that was handed out. What makes the scopes right is the
order of the calls:

- TurnInv: a busy call is one of the current message, and a repeated exec that is busy is the only one;
- OwnerInv, AskedInv, ParentInv: a scope belongs to a cell of its parent; an exec that awaits the
  host, and a cell the session knows, have theirs;
- WaiterInv: while a wait is under way, the scope it may release is its own cell's, or nobody's;
- FreshInv, RunningInv, ContextInv, WaitingInv, ToolsInv: whose broker is live, whose context is
  there, and whose tools were told to stop.

ReleaseKeepsScopes is the heart of it: exec and wait release a scope by the id of its parent, and
TurnInv and WaiterInv together say that it is never another cell's. It holds for any number of waits,
of which the run has one.

*The runtime's owner.* HostsOwned is not inductive: a start that is under way when its field is
overwritten would lose its host one step later. OwnerInv adds who may be where:

- StartInv: there is one start at a time, the handler of configure awaits it, and whoever awaits a
  start awaits this one, so that no field is cleared by a caller that comes late;
- OpenInv: an open host is the runtime's or the one being closed, a handler that closes one has
  cleared the runtime, and a runtime that has a contract has a session or the start of one, so that
  a turn never starts a host of its own (the only place `~ EarlyTurns` is needed);
- SavingInv: the settings are only being saved in the phase of /code-mode that waits for it.

CleanInv adds to it, for ShutdownCleans, that the tools to restore are pi's own, are remembered
whenever others are offered, and that without an open session file there is no runtime. For
ConversationKeepsMode NextExtends says which file a step may add a contract to, and when.

*The settings and what they govern.* SettingsWhole is inductive once it is known that only the save
writes in part, and beside the file (SettingsInv with SettingsTypeOK). That a second process's
command line parses to a configuration is a statement about a fold over the arguments.
RecordedContractGoverns needs three more things:

- TypeInv: the contracts in force, recorded and created are contracts. `NormalizeBuiltins` leaves a list
  that it made as it is (NormalizeOnce), hence a recorded contract is read back unchanged, and the one
  recorded last is the session's (RecordedLast);
- CleanInv and OwnerInv, from above: nobody else configures the runtime at the same time;
- GovernInv: a handler between the shutdown of the old runtime and the start of the new one has
  in `ext.contract` the contract that the session file records, and the runtime has its tools.

*The patches.* Four invariants carry the refinement.

- QueueInv: the queue holds every call that is not idle and not answered, once, and only its head is
  under way. It makes the steps of a patch a transaction as far as other patches go, and
  OneUnderWay is all of it that a reader needs;
- TypeInv with PhaseInv: what a call keeps has its type and belongs to the phase it is in. That a tree
  remains a tree is not a matter of types: `mkdirSync` must have made every directory above the file
  that is written;
- UndoInv: the workspace differs from the snapshot only at the paths the patch names and at
  directories above them that were missing (Undoable), which `parents` has until the rollback has
  removed them (Covers), and what the rollback has dealt with is as it was. From it follows
  that Restore never meets a path it cannot write, that RemoveParent never meets a directory that is not
  empty, and that the tree at Rethrow is the snapshot;
- StageInv: before a failure the workspace is one of the Stages of Outcome, with the rest of the
  patch still to come, or between the two calls of a move.

UndoInv is where PatchesAreFlat is needed, and with it the rollback's order does not matter. The
refinement then says of each step what it is of PatchContract: Call is Ask, the Return of a patch is Commit,
its end with "failed" is Refuse, and every other step stutters, because the tree that others
may see is the snapshot until then. A fault may come at any call of the file system on the way forward, and
none is assumed away.

*Data.* What sums, folds and the largest index of a sequence are is proved in FiniteData without the
induction theorems that take an operator: a sum over a finite set is the only solution of its
equation, which exists because a smallest set without one cannot (SumIsUnique, SumExists), and a fold
likewise, by the smallest set of indices over which it would fail (FoldExists). That a
recursive function has a solution is shown by the smallest argument without one (StageFacts; for any
loop that is counted from 0 up to a bound, CountUp and IteratesExist, which the loops of Framing use).

*Model-checked only.* Liveness under fairness (RequestAnswered, CallAnswered, LifecycleSettles and the
others of that kind) and ENABLED are beyond this prover, and AbortEndsGroup and AbortTerminates are of
that kind too. ReadToolsSound is about RECURSIVE definitions, which it does not accept;
PatchTextSound compares folds with their meaning for every input, an induction over data.

## Where the code and its documents differ

Three runs end in a counterexample, each against a sentence of the repository.

- `host_abort`. `exec_cell` leaves through `?` when its observation fails (`server.rs:367`), past
  `release_terminal`. When a terminate finds the registered cell before the exec's own observation
  reached the actor, the actor ends on that first command (`cell.rs:229`), the exec is answered with
  `cell_expired`, and its slot stays counted. No task has the cell any more and its actor is gone, so
  that a wait or a terminate fails as the exec did: only the session's close returns the slot, which
  SlotReachable shows it can. `tests/sandbox.test.mjs:130` says
  "releases active-cell slots when abort races cell startup".
- `process_crash`. A write to a command whose worker has ended, before its exit event is delivered, makes
  `child.stdin` emit `error`, and nobody listens (`process-manager.ts:230`): it becomes an uncaught
  exception of the agent's process. A command that only closes its input does not do it, because the
  worker keeps its own copy open while it lives (`command_worker.rs:33`, `:73`). `docs/2026-08-31-deno-core-host-plan.md:2726` says "V8 or command
  failure cannot crash the Pi process."
- `patch_nested`. A patch that replaces the file `outer` by a directory with `outer/inner` and then
  fails does not get its file back: the rollback renames the snapshot over the directory, throws, and
  leaves the rest undone (`apply-patch.ts:207`). `docs/2026-08-31-code-mode-plan.md:389` promises
  the restoration of contents and parent directories.

Met while modelling, in the models but without a run of their own:

- a second terminate ends the actor of a finished cell, and a wait after it gets `cell_expired` in
  place of the verdict (`cell.rs:251`);
- two concurrent `yield_control()` calls: the second takes the place of the first, whose promise is
  rejected with "cell was terminated" while the cell goes on (`cell.rs:302`);
- the host dies while a tool handler runs: the failure to send the result, and then the error, is an
  unhandled rejection (`client.ts:191`);
- an exec refused as a duplicate releases the invocation context of the cell that still runs
  (`extension/index.ts:419`);
- shutdown clears the replay cache before the session is closed (`extension/index.ts:189`);
- `wait` releases a scope by the parent's id it read before its await (`session.ts:171` and `:189`),
  whoever has the scope by then. If a message held a repeated exec beside two waits on the first
  cell, the first verdict would free the scope, the new cell take it, and the second verdict release
  that one's: its tool calls would fail. Pi repeats an exec in a message of its own, which `Joins`
  states; without it TLC finds ScopesMatchCells violated with two waits;
- requests that are pending while `close()` waits never settle (`client.ts:74`);
- when the host has died, the first await of `shutdown` is rejected (`extension/index.ts:191`): the
  manager and the workspace are not closed and `session_shutdown` does not restore the tools, which
  `docs/2026-08-31-deno-core-host-plan.md:1973` asks for. ShutdownCleans excludes it by `rejected`;
- a start that was begun before a configure installs its host over the one of the configure
  (`extension/index.ts:206`), and the first is never closed. Only a turn that begins without a
  configured runtime can do it: with `EarlyTurns = TRUE` TLC finds HostsOwned violated;
- the post-exit timer completes a record after `EXIT_STDIO_GRACE_MS` without a chunk, whatever the pipes
  hold (`process-manager.ts:369`): on a busy event loop, whose timers run before its reads, or with a
  background child that writes later, output is lost. OutputWhole excludes the records it cut off;
- a tool result with a lone surrogate is written by `JSON.stringify` as an escape, which serde_json
  refuses (`framing.ts:6`, `server.rs:171`): the host stops reading and ends with every cell;
- an update of a file that mixes LF and CRLF rewrites every line end of it to CRLF, those of lines that
  no hunk names too (`apply-patch.ts:105`, `:107`, `:129`), and a file left without lines keeps one line end;
- `writeFile` creates its temporary file with the old mode under the umask (`workspace.ts:89`), so that a
  patch that succeeds may take permission bits from the files it updates; one that fails restores them;
- a cell registered in a session that was closed meanwhile runs there, and holds its slot of the host, until
  its program ends (`server.rs:339`);
- `release_terminal` removes the registry entry of an id, whose ever it is (`session.rs:76`): with reused ids
  (`ReuseIds = TRUE`, three requests) TLC finds a newer cell taken out and SlotReachable violated;
- two processes that save the settings read them first: the one that renames last undoes the other's
  change;
- `FrameDecoder.finish` has no caller under `src/`: a host whose output ends inside a frame is only
  noticed by its exit. The messages decoded before a bad frame of the same chunk are dropped.

## What is not modelled

- *Command worker and sandbox* (`command_worker.rs`, `sandbox.rs`): namespaces, seccomp and rlimits set up
  by one straight line of system calls; no state outlives it.
- *Validation field by field* (`validation.rs`, `parseCellResult`, `parseHostHello`): each is one
  conjunction over the fields of a message.
- *The store* (one insert and one undo under one lock), the memory limit, V8 itself and the rest of
  the bootstrap script.
- *Path confinement* of the workspace (`Workspace.resolve`) and its plain reads. That of the
  read-only tools is in ReadTools.
- *Globs and case folding* of `find` and `grep`, the argument types of the tools, and the order in
  which directories are read.
- *Provider detection*, *prompts*, *limits*: functions from a description to wording or clamped
  numbers. The creation of an agent session in `harness/index.ts` is a straight line of calls to pi.
- *Exhausted resources of the agent's own calls*, such as a `chmod` of the settings that fails after
  its rename: the save has then happened and its caller reports an error.

## Plan

The order followed the weight of what may go wrong: first the host that every session shares, then
what runs commands and changes files, then the link, then the runtime of one cell, then the agent's
side of it.

Done: CellHost with CellContract, its invariants and proofs; ProcessManager, HostLink, CpuWatchdog,
CellRuntime and CellScopes with proofs; FileTree, Workspace and PatchContract with proofs; Extension with
Settings, ToolAdmission and proofs; Framing with proofs; PatchText; ReadTools.

To model next:

1. *A rejected frame* as an event of HostLink, and the end of input with cells running.
2. *HostLink over CellHost*: tasks answer what CellHost's tasks answer, in place of an arbitrary
   answer, and the end of the host closes every session.
3. *CellScopes under Extension*: the exec and wait handlers over the session of the current runtime,
   so that a shutdown in the middle of an exec clears the contexts of cells that still run.

To prove next: the safety half of CallAnswered, that a call which waits is always in its command's list
of listeners; that HostLink loses no tool call's answer while the host lives.
