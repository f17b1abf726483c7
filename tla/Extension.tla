------------------------------ MODULE Extension ------------------------------
(* The life of the agent's side: the pi extension (extension/index.ts) owns one *)
(* runtime at a time, with its host process and the session opened in it        *)
(* (RuntimeOwner, host/session.ts), and configures it from the contract the     *)
(* agent's session file records.  One action per stretch of code between two    *)
(* awaits.  pi awaits the lifecycle handlers one after the other (session_start,*)
(* session_shutdown, /code-mode, the harness's dispose); calls of session()     *)
(* made by turns and tools overlap them.  pi itself, its session files and the  *)
(* host processes are modelled by what the extension sees of them.              *)
EXTENDS Settings

CONSTANTS Sessions,       \* session files
          Hosts,          \* host processes remembered at one time
          Turns,          \* concurrent callers of session() outside the lifecycle
          ModeOption,     \* the mode option of the extension, None by default
          ActiveBuiltins, \* pi's own tools that are active when it starts
          Registrations,  \* lists of tools other extensions register
          EarlyTurns,     \* BOOLEAN: turns also begin while no runtime is configured
          MaxEntries      \* bound: contracts recorded in all session files

VARIABLES rt,             \* the fields of RuntimeOwner
          host,           \* the state of each host process
          waits,          \* the start each caller of session() awaits
          life,           \* the lifecycle handler under way
          current,        \* the session file the agent has open
          ext,            \* the extension's variables: contract, baseline, registrations
          active,         \* the tools pi offers: "user", "code" (exec and wait), "empty"
          entries,        \* the contracts each session file records, oldest first
          conversation,   \* does the session file hold a message
          rejected        \* a shutdown was rejected since the last session_start

owner == <<rt, host, waits, life>>
agent == <<current, ext, active, entries, conversation, rejected>>
vars == <<owner, agent, settings>>

Callers == Turns \cup {"life"}
Contract == [mode : Modes, builtins : {NormalizeBuiltins(<<>>),
               NormalizeBuiltins(ActiveBuiltins), NormalizeBuiltins(DefaultBuiltins)}]
ASSUME ExtensionAssumption ==
  /\ MaxEntries \in Nat /\ EarlyTurns \in BOOLEAN
  /\ None \notin Hosts \cup Sessions \cup {"user", "configure", "switch"}
  /\ ModeOption \in Modes \cup {None} /\ Unsupported \notin Contract /\ None \notin Contract
NoRuntime == [session |-> None, manager |-> None, starting |-> None,
              workspace |-> FALSE, contract |-> None, tools |-> <<>>]
Idle == [phase |-> "idle", op |-> None, host |-> None, workspace |-> FALSE,
         target |-> None, mode |-> None]

TypeOK ==
  /\ rt.session \in Hosts \cup {None} /\ rt.manager \in Hosts \cup {None}
  /\ rt.starting \in Hosts \cup {None} /\ rt.workspace \in BOOLEAN
  /\ rt.contract \in Contract \cup {None} /\ DOMAIN rt = DOMAIN NoRuntime
  /\ host \in [Hosts -> {"gone", "spawned", "opening", "open", "crashed"}]
  /\ waits \in [Callers -> Hosts \cup {None}]
  /\ life \in [phase : {"idle", "selecting", "saving", "confirming", "closing",
                        "ending", "closed", "starting", "switching"},
               op : {None, "configure", "undo", "stop", "switch", "dispose"},
               host : Hosts \cup {None}, workspace : BOOLEAN,
               target : Sessions \cup {None}, mode : Modes \cup {None}]
  /\ current \in Sessions \cup {None}
  /\ ext \in [contract : Contract \cup {None}, baseline : {None, "user", "empty"},
              registrations : Registrations \cup {<<>>}]
  /\ active \in {"user", "code", "empty"}
  /\ DOMAIN entries = Sessions
  /\ \A s \in Sessions : ToSet(entries[s]) \subseteq Contract \cup {Unsupported}
  /\ conversation \in [Sessions -> BOOLEAN] /\ rejected \in BOOLEAN
  /\ SettingsTypeOK

Init ==
  /\ rt = NoRuntime /\ life = Idle
  /\ host = [h \in Hosts |-> "gone"] /\ waits = [c \in Callers |-> None]
  /\ current = None /\ active = "user" /\ rejected = FALSE
  /\ ext = [contract |-> None, baseline |-> None, registrations |-> <<>>]
  /\ \E recorded \in {<<>>, <<CreateContract("codex", <<>>), Unsupported>>} :
       entries = [s \in Sessions |-> IF s = CHOOSE t \in Sessions : TRUE
                                    THEN recorded ELSE <<>>]
  /\ conversation = [s \in Sessions |-> entries[s] # <<>>]
  /\ SettingsInit

------------------------------------------------------------------------------
(* What the handlers read.                                                      *)
Parsed == [entry \in Contract \cup {Unsupported} |-> ParseContract(entry)]
SessionContract(s) ==
  LET supported == {i \in DOMAIN entries[s] : Parsed[entries[s][i]] # Unsupported}
  IN IF supported = {} THEN None ELSE Parsed[entries[s][Max(supported)]]
AnyConversation(s) == FALSE     \* mutant: nobody looks for a message
HasConversation(s) == conversation[s]
ConfiguredMode == IF ModeOption # None THEN ModeOption
                  ELSE OrElse(Loaded.mode, DefaultMode)
ActivePiBuiltins(baseline) ==
  IF OrElse(baseline, active) = "user" THEN ActiveBuiltins ELSE <<>>
CreatedContract ==
  [mode \in Modes |-> [names \in {<<>>, ActiveBuiltins} |-> CreateContract(mode, names)]]
NewContract(mode, baseline) == CreatedContract[mode][ActivePiBuiltins(baseline)]

(* Synchronous code holds the agent's event loop: while it saves the settings,  *)
(* or goes on after an await of nothing, no other handler runs.                 *)
LoopFree == saving = None /\ life.phase \notin {"closed", "switching"}
LifeIdle == life.phase = "idle" /\ LoopFree

Activated(e) ==
  [e EXCEPT !.baseline = IF @ # None THEN @ ELSE IF active = "user" THEN "user" ELSE "empty"]

(* RuntimeOwner.shutdown up to its first await: every field is cleared first.   *)
Shutdown(runtime, op, target) ==
  /\ rt' = NoRuntime
  /\ life' = [Idle EXCEPT !.phase = IF runtime.session = None THEN "closed" ELSE "closing",
                          !.op = op, !.host = runtime.session,
                          !.workspace = runtime.workspace, !.target = target]

Unused == {h \in Hosts : host[h] = "gone"}

(* RuntimeOwner.session by one caller, with the runtime's fields in "runtime":  *)
(* it starts a host unless one is open or starting, and awaits the start.       *)
AwaitSession(runtime, caller) ==
  \/ /\ runtime.session # None
     /\ rt' = runtime /\ UNCHANGED <<host, waits>>
  \/ /\ runtime.session = None /\ runtime.starting # None
     /\ rt' = runtime /\ waits' = [waits EXCEPT ![caller] = runtime.starting]
     /\ UNCHANGED host
  \/ /\ runtime.session = None /\ runtime.starting = None
     /\ Unused # {}
     /\ LET h == CHOOSE h \in Unused : TRUE IN
          /\ host' = [host EXCEPT ![h] = "spawned"]
          /\ rt' = [runtime EXCEPT !.starting = h]
          /\ waits' = [waits EXCEPT ![caller] = h]

------------------------------------------------------------------------------
(* session_start up to configure's first await.  With settings nobody can read  *)
(* and nothing recorded it throws before it changes the runtime.                *)
Recorded == Cardinality(UNION {{s} \X DOMAIN entries[s] : s \in Sessions})
StartingContractDefault(s, baseline) ==   \* mutant: whatever is recorded
  NewContract(DefaultMode, baseline)
StartingContract(s, baseline) ==
  IF SessionContract(s) # None THEN SessionContract(s)
  ELSE NewContract(ConfiguredMode, baseline)

StartSession(s) ==
  \E registered \in Registrations :
    LET baseline == IF active = "user" THEN "user" ELSE ext.baseline
        recorded == SessionContract(s)
        contract == StartingContract(s, baseline)
        started == [ext EXCEPT !.baseline = baseline, !.registrations = registered]
    IN /\ recorded # None \/ Recorded < MaxEntries
       /\ current' = s /\ rejected' = FALSE
       /\ IF recorded = None /\ ModeOption = None /\ Unreadable
          THEN /\ ext' = started /\ life' = Idle
               /\ UNCHANGED <<rt, entries>>
          ELSE /\ ext' = [started EXCEPT !.contract = contract]
               /\ entries' = IF recorded # None THEN entries
                             ELSE [entries EXCEPT ![s] = Append(@, contract)]
               /\ Shutdown(rt, "configure", None)

SessionStart(s) ==
  /\ LifeIdle /\ current = None
  /\ StartSession(s)
  /\ UNCHANGED <<host, waits, active, conversation, settings>>

(* session_shutdown, when pi exits, reloads or goes to another session.         *)
SessionShutdown ==
  /\ LifeIdle /\ current # None
  /\ Shutdown(rt, "stop", None)
  /\ UNCHANGED <<host, waits, agent, settings>>

(* The harness's dispose: the runtime alone is shut down.                       *)
Dispose ==
  /\ LifeIdle /\ rt # NoRuntime
  /\ Shutdown(rt, "dispose", None)
  /\ UNCHANGED <<host, waits, agent, settings>>

------------------------------------------------------------------------------
(* The rest of shutdown: session/close, then host/shutdown and the end of the   *)
(* host's input, then the workspace.  Either request is rejected when the host  *)
(* has died, and what comes after it is left out.                               *)
SessionClosed ==
  /\ life.phase = "closing" /\ host[life.host] = "open" /\ LoopFree
  /\ life' = [life EXCEPT !.phase = "ending"]
  /\ UNCHANGED <<rt, host, waits, agent, settings>>

HostClosed ==
  /\ life.phase = "ending" /\ host[life.host] = "open" /\ LoopFree
  /\ host' = [host EXCEPT ![life.host] = "gone"]
  /\ life' = [life EXCEPT !.phase = "closed", !.host = None, !.workspace = FALSE]
  /\ UNCHANGED <<rt, waits, agent, settings>>

ShutdownRejected ==
  /\ life.phase \in {"closing", "ending"} /\ host[life.host] = "crashed" /\ LoopFree
  /\ IF life.op = "switch"
     THEN StartSession(life.target)             \* pi reports the error and goes on
     ELSE /\ life' = Idle /\ rejected' = TRUE
          /\ current' = IF life.op = "stop" THEN None ELSE current
          /\ UNCHANGED <<rt, ext, entries>>
  /\ UNCHANGED <<host, waits, active, conversation, settings>>

(* Mutant: the tools pi had before are forgotten.                               *)
SessionStoppedOnly ==
  /\ life.phase = "closed" /\ life.op \in {"stop", "switch"}
  /\ ext' = [ext EXCEPT !.baseline = None]
  /\ life' = IF life.op = "stop" THEN Idle ELSE [life EXCEPT !.phase = "switching"]
  /\ current' = None
  /\ UNCHANGED <<rt, host, waits, active, entries, conversation, rejected, settings>>

(* session_shutdown after its await: the tools pi had before come back.         *)
SessionStopped ==
  /\ life.phase = "closed" /\ life.op \in {"stop", "switch"}
  /\ active' = IF ext.baseline = None THEN active ELSE ext.baseline
  /\ ext' = [ext EXCEPT !.baseline = None]
  /\ life' = IF life.op = "stop" THEN Idle ELSE [life EXCEPT !.phase = "switching"]
  /\ current' = None
  /\ UNCHANGED <<rt, host, waits, entries, conversation, rejected, settings>>

SwitchedTo ==
  /\ life.phase = "switching"
  /\ StartSession(life.target)
  /\ UNCHANGED <<host, waits, active, conversation, settings>>

DisposeReturns ==
  /\ life.phase = "closed" /\ life.op \in {"dispose", "undo"}
  /\ life' = Idle
  /\ UNCHANGED <<rt, host, waits, agent, settings>>

------------------------------------------------------------------------------
(* configure after its shutdown: the tools are admitted, the fields set and the *)
(* session awaited.  A refused list of tools is undone by another shutdown.     *)
Admitted ==
  [contract \in Contract |-> [registered \in Registrations \cup {<<>>} |->
     Admit(contract.mode, BuiltinTools(contract) \o registered)]]
Offered == Admitted[ext.contract][ext.registrations]
Install ==
  /\ life.phase = "closed" /\ life.op = "configure"
  /\ IF Offered = Refused
     THEN /\ Shutdown(rt, "undo", None)
          /\ UNCHANGED <<host, waits, active, ext>>
     ELSE /\ AwaitSession([rt EXCEPT !.workspace = TRUE, !.contract = ext.contract,
                                     !.tools = Offered], "life")
          /\ IF rt.session # None
             THEN life' = Idle /\ active' = "code" /\ ext' = Activated(ext)
             ELSE /\ life' = [life EXCEPT !.phase = "starting"]
                  /\ UNCHANGED <<active, ext>>
  /\ UNCHANGED <<current, entries, conversation, rejected, settings>>

(* RuntimeOwner.#start: the handshake and session/open; all who await the start *)
(* go on together, and each clears the field it was shared through.             *)
HelloAnswered(h) ==
  /\ host[h] = "spawned" /\ LoopFree
  /\ host' = [host EXCEPT ![h] = "opening"]
  /\ UNCHANGED <<rt, waits, life, agent, settings>>

(* Mutant: only the handler that configures is told.                            *)
ReleasedLifecycle(h) ==
  [waits EXCEPT !["life"] = IF @ = h THEN None ELSE @]
Released(h) == [c \in Callers |-> IF waits[c] = h THEN None ELSE waits[c]]

SessionOpened(h) ==
  /\ host[h] = "opening" /\ LoopFree
  /\ host' = [host EXCEPT ![h] = "open"]
  /\ rt' = [rt EXCEPT !.manager = h, !.session = h, !.starting = None]
  /\ waits' = Released(h)
  /\ IF waits["life"] = h
     THEN life' = Idle /\ active' = "code" /\ ext' = Activated(ext)
     ELSE UNCHANGED <<life, active, ext>>
  /\ UNCHANGED <<current, entries, conversation, rejected, settings>>

(* Mutant: the host is not killed when its handshake or session/open fails.     *)
StartAbandoned(h) ==
  /\ \E c \in Callers : waits[c] = h
  /\ host[h] \in {"spawned", "opening", "crashed"} /\ LoopFree
  /\ waits' = Released(h)
  /\ IF waits["life"] = h
     THEN Shutdown([rt EXCEPT !.starting = None], "undo", None)
     ELSE rt' = [rt EXCEPT !.starting = None] /\ UNCHANGED life
  /\ UNCHANGED <<host, agent, settings>>

(* The handshake or session/open fails and the host is killed, or it has died.  *)
StartFailed(h) ==
  /\ \E c \in Callers : waits[c] = h
  /\ host[h] \in {"spawned", "opening", "crashed"} /\ LoopFree
  /\ host' = [host EXCEPT ![h] = IF @ = "crashed" THEN @ ELSE "gone"]
  /\ waits' = Released(h)
  /\ IF waits["life"] = h
     THEN Shutdown([rt EXCEPT !.starting = None], "undo", None)
     ELSE rt' = [rt EXCEPT !.starting = None] /\ UNCHANGED life
  /\ UNCHANGED <<agent, settings>>

HostCrashes(h) ==
  /\ host[h] \in {"spawned", "opening", "open"}
  /\ host' = [host EXCEPT ![h] = "crashed"]
  /\ UNCHANGED <<rt, waits, life, agent, settings>>

(* A dead host that nothing refers to any more is forgotten, so that its name    *)
(* can be used again.  One that was told to leave, or was killed, is gone.      *)
HostForgotten(h) ==
  /\ host[h] = "crashed" /\ h \notin {rt.session, rt.starting, life.host}
  /\ \A c \in Callers : waits[c] # h
  /\ host' = [host EXCEPT ![h] = "gone"]
  /\ UNCHANGED <<rt, waits, life, agent, settings>>

------------------------------------------------------------------------------
(* before_agent_start, exec or wait asks for the session.                       *)
TurnAllowed == EarlyTurns \/ rt.contract # None
CallSession(t) ==
  /\ LoopFree /\ current # None /\ waits[t] = None /\ TurnAllowed
  /\ AwaitSession(rt, t)
  /\ active' = "code" /\ ext' = Activated(ext)
  /\ UNCHANGED <<life, current, entries, conversation, rejected, settings>>

(* A message, of the user or of an extension, enters the session file.          *)
MessageRecorded ==
  /\ LoopFree /\ current # None /\ ~ conversation[current]
  /\ conversation' = [conversation EXCEPT ![current] = TRUE]
  /\ UNCHANGED <<owner, current, ext, active, entries, rejected, settings>>

------------------------------------------------------------------------------
(* /code-mode: the dialog, the saved default, and then either the session's own *)
(* mode or, when it holds a conversation, the offer of a new session.           *)
CommandInvoked ==
  /\ LifeIdle /\ current # None
  /\ Recorded < MaxEntries
  /\ life' = [Idle EXCEPT !.phase = "selecting"]
  /\ UNCHANGED <<rt, host, waits, agent, settings>>

CommandDeclined ==
  /\ life.phase \in {"selecting", "confirming"} /\ LoopFree
  /\ life' = Idle
  /\ UNCHANGED <<rt, host, waits, agent, settings>>

ModeSelected(mode) ==
  /\ life.phase = "selecting" /\ LoopFree
  /\ IF Unreadable
     THEN life' = Idle /\ UNCHANGED <<files, saving>>
     ELSE /\ life' = [Idle EXCEPT !.phase = "saving", !.mode = mode]
          /\ SaveCreate([Loaded EXCEPT !.mode = mode])
  /\ UNCHANGED <<rt, host, waits, agent>>

DefaultSaveFails ==
  /\ SaveFail
  /\ life' = Idle
  /\ UNCHANGED <<rt, host, waits, agent>>

DefaultSaved ==
  LET next == NewContract(life.mode, ext.baseline) IN
  /\ SaveRename
  /\ IF HasConversation(current)
     THEN /\ life' = [life EXCEPT !.phase = "confirming"]
          /\ UNCHANGED <<rt, ext, entries>>
     ELSE /\ ext' = [ext EXCEPT !.contract = next]
          /\ entries' = [entries EXCEPT ![current] = Append(@, next)]
          /\ Shutdown(rt, "configure", None)
  /\ UNCHANGED <<host, waits, current, active, conversation, rejected>>

NewSession(s) ==
  /\ life.phase = "confirming" /\ LoopFree
  /\ s # current /\ entries[s] = <<>> /\ ~ conversation[s]
  /\ entries' = [entries EXCEPT ![s] = <<NewContract(life.mode, ext.baseline)>>]
  /\ Shutdown(rt, "switch", s)
  /\ UNCHANGED <<host, waits, current, ext, active, conversation, rejected, settings>>

------------------------------------------------------------------------------
(* The other process only touches the settings, which the agent reads when a    *)
(* session starts and in /code-mode: its steps are taken in front of those.     *)
SettingsMatter ==
  \/ life.phase \in {"selecting", "saving", "switching"}
  \/ current = None /\ life.phase = "idle"

Lifecycle ==
  \/ SessionClosed
  \/ HostClosed
  \/ ShutdownRejected
  \/ SessionStopped
  \/ SwitchedTo
  \/ DisposeReturns
  \/ Install
  \/ DefaultSaved
  \/ SaveFill /\ UNCHANGED <<owner, agent>>
StartStep(h) ==
  \/ HelloAnswered(h)
  \/ SessionOpened(h)
  \/ StartFailed(h)

Next ==
  \/ \E s \in Sessions : SessionStart(s) \/ NewSession(s)
  \/ SessionShutdown
  \/ Dispose
  \/ Lifecycle
  \/ \E h \in Hosts : StartStep(h) \/ HostCrashes(h) \/ HostForgotten(h)
  \/ \E t \in Turns : CallSession(t)
  \/ MessageRecorded
  \/ CommandInvoked
  \/ CommandDeclined
  \/ \E mode \in Modes : ModeSelected(mode)
  \/ DefaultSaveFails
  \/ \E args \in CommandLines : SettingsMatter /\ OtherProcess(args) /\ UNCHANGED <<owner, agent>>

(* The host answers or dies, and the event loop runs what has been resolved.    *)
Fairness ==
  /\ WF_vars(Lifecycle)
  /\ \A h \in Hosts : WF_vars(StartStep(h)) /\ WF_vars(HostForgotten(h))

Spec == Init /\ [][Next]_vars /\ Fairness

------------------------------------------------------------------------------
(* A host process that runs is the runtime's own, or the one being started for  *)
(* it, or the one a shutdown is closing: no sequence of starts, failures,       *)
(* crashes and reconfigurations leaves a host nobody will close                 *)
(* (index.ts:166-214; docs/2026-08-31-deno-core-host-plan.md:1972).             *)
HostsOwned ==
  \A h \in Hosts : host[h] \in {"spawned", "opening", "open"} =>
    h \in {rt.manager, rt.starting, life.host}

(* Between handlers a configured runtime has the contract that its session file *)
(* records last, and exactly the tools that contract and the registrations      *)
(* admit: a configuration that failed half-way leaves no runtime behind         *)
(* (index.ts:84-116, 557-566).                                                  *)
RecordedContractGoverns ==
  (life.phase = "idle" /\ rt.contract # None) =>
    /\ rt.contract = SessionContract(current)
    /\ rt.tools = Admit(rt.contract.mode, BuiltinTools(rt.contract) \o ext.registrations)
    /\ rt.session # None /\ rt.workspace

(* Unless the host died under it, a session_shutdown that has returned leaves   *)
(* nothing behind: no runtime, no host that was not told to leave, and the      *)
(* tools pi offered before (index.ts:176-194, 585-591; the plan's lines         *)
(* 1968-1973).                                                                  *)
ShutdownCleans ==
  (life.phase = "idle" /\ current = None /\ ~ rejected) =>
    /\ rt = NoRuntime
    /\ \A h \in Hosts : host[h] \in {"gone", "crashed"}
    /\ active = "user"

(* Once a session file holds a conversation, its recorded contract never        *)
(* changes: /code-mode looks for a message after its dialog and its save, and   *)
(* in the same step that records the new contract (index.ts:513-520).           *)
ConversationKeepsMode ==
  [][\A s \in Sessions : (conversation[s] /\ SessionContract(s) # None) =>
       SessionContract(s)' = SessionContract(s)]_vars

(* Every lifecycle handler returns and every caller of session() is answered,   *)
(* although the host it waits for may fail, be killed or die at any moment      *)
(* (index.ts:166-174).                                                          *)
LifecycleSettles ==
  /\ (life.phase \in {"closing", "ending", "closed", "switching", "starting"})
       ~> (life.phase = "idle")
  /\ \A c \in Callers : (waits[c] # None) ~> (waits[c] = None)
==============================================================================
