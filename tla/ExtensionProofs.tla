--------------------------- MODULE ExtensionProofs ---------------------------
(* What the owner of a runtime keeps, for any number of hosts, session files    *)
(* and turns: no living host without an owner, and nothing left behind by a     *)
(* shutdown.                                                                    *)
EXTENDS Extension, FiniteData, TLAPS

Phases == {"idle", "selecting", "saving", "confirming", "closing", "ending", "closed",
           "starting", "switching"}
States == {"gone", "spawned", "opening", "open", "crashed"}

(* The types of what the owner keeps; the contract, the tools and what a        *)
(* handler will do next are of no concern here.                                 *)
OwnerType ==
  /\ rt \in [session : Hosts \cup {None}, manager : Hosts \cup {None},
             starting : Hosts \cup {None}, workspace : BOOLEAN,
             contract : {rt.contract}, tools : {rt.tools}]
  /\ host \in [Hosts -> States]
  /\ waits \in [Callers -> Hosts \cup {None}]
  /\ life \in [phase : Phases, op : {life.op}, host : Hosts \cup {None},
               workspace : BOOLEAN, target : {life.target}, mode : {life.mode}]

(* There is one start at a time, it is the one the handler awaits, and whoever  *)
(* awaits a start awaits this one.                                              *)
StartInv ==
  /\ rt.starting # None =>
       life.phase = "starting" /\ waits["life"] = rt.starting /\ rt.session = None
  /\ life.phase = "starting" => rt.starting # None
  /\ \A c \in Callers : waits[c] # None => waits[c] = rt.starting
  /\ \A h \in Hosts : host[h] \in {"spawned", "opening"} => h = rt.starting

(* An open host is the runtime's or the one being closed; a handler that closes *)
(* a host, or has closed it, has cleared the runtime before.                    *)
OpenInv ==
  /\ rt.session = rt.manager
  /\ \A h \in Hosts : host[h] = "open" => h \in {rt.session, life.host}
  /\ rt.contract # None => rt.session # None \/ rt.starting # None
  /\ life.host # None <=> life.phase \in {"closing", "ending"}
  /\ life.phase \in {"closing", "ending", "closed", "switching"} => rt = NoRuntime

(* Only /code-mode saves the settings, and it waits for the save.               *)
SavingInv == saving # None => life.phase = "saving"

RuntimeInv == OwnerType /\ StartInv /\ OpenInv
OwnerInv == RuntimeInv /\ SavingInv

------------------------------------------------------------------------------
(* What a handler is in when it shuts the runtime down: no start is under way.  *)
Quiet == life.phase \in Phases \ {"starting", "closing", "ending"}

LEMMA ShutdownKeepsOwner ==
  ASSUME RuntimeInv, NEW op, NEW target, Quiet, UNCHANGED <<host, waits>>,
         Shutdown(rt, op, target)
  PROVE  RuntimeInv'
<1> USE ExtensionAssumption
<1>1. rt.starting = None /\ life.host = None
  BY DEF RuntimeInv, StartInv, OpenInv, Quiet
<1>2. /\ rt' = NoRuntime
      /\ life'.phase = IF rt.session = None THEN "closed" ELSE "closing"
      /\ life'.host = rt.session
      /\ life' \in [phase : Phases, op : {life'.op}, host : Hosts \cup {None},
                    workspace : BOOLEAN, target : {life'.target}, mode : {life'.mode}]
  BY DEF Shutdown, RuntimeInv, OwnerType, Idle, Phases
<1>3. OwnerType'
  BY <1>2 DEF RuntimeInv, OwnerType, NoRuntime
<1>4. StartInv'
  BY <1>1, <1>2 DEF RuntimeInv, StartInv, NoRuntime
<1>5. OpenInv'
  BY <1>1, <1>2 DEF RuntimeInv, OpenInv, NoRuntime
<1> QED
  BY <1>3, <1>4, <1>5 DEF RuntimeInv

(* Nothing but the phase of a quiet handler changes.                            *)
LEMMA QuietKeepsOwner ==
  ASSUME RuntimeInv, Quiet, UNCHANGED <<rt, host, waits>>,
         life' \in [phase : Phases, op : {life'.op}, host : {None},
                    workspace : BOOLEAN, target : {life'.target}, mode : {life'.mode}],
         life'.phase \in {"idle", "selecting", "saving", "confirming"}
                           \cup (IF rt = NoRuntime THEN {"switching"} ELSE {})
  PROVE  RuntimeInv'
<1>1. OwnerType'
  BY DEF RuntimeInv, OwnerType
<1>2. rt.starting = None /\ life.host = None
  BY DEF RuntimeInv, StartInv, OpenInv, Quiet
<1>3. StartInv'
  BY <1>2 DEF RuntimeInv, StartInv
<1>4. OpenInv'
  BY <1>2 DEF RuntimeInv, OpenInv
<1> QED
  BY <1>1, <1>3, <1>4 DEF RuntimeInv

(* session_start: the runtime is shut down, unless the settings are unreadable. *)
LEMMA StartSessionKeepsOwner ==
  ASSUME RuntimeInv, NEW s, StartSession(s), UNCHANGED <<host, waits>>,
         \/ Quiet
         \/ life.phase \in {"closing", "ending"} /\ host[life.host] = "crashed"
  PROVE  RuntimeInv'
<1> USE ExtensionAssumption
<1>1. \/ rt' = rt /\ life' = Idle
      \/ Shutdown(rt, "configure", None)
  BY DEF StartSession
<1>2. CASE Quiet /\ rt' = rt /\ life' = Idle
  BY <1>2, QuietKeepsOwner DEF Idle, Phases
<1>3. CASE Quiet /\ Shutdown(rt, "configure", None)
  BY <1>3, ShutdownKeepsOwner
<1>4. CASE life.phase \in {"closing", "ending"} /\ host[life.host] = "crashed"
  <2> DEFINE AfterCrash ==
        /\ life'.host = None /\ life'.phase \in {"idle", "closed"}
        /\ life' \in [phase : Phases, op : {life'.op}, host : {None},
                      workspace : BOOLEAN, target : {life'.target}, mode : {life'.mode}]
  <2>0. rt = NoRuntime
    BY <1>4 DEF RuntimeInv, OpenInv
  <2>1. rt = NoRuntime /\ rt' = NoRuntime /\ AfterCrash
    <3>1. CASE rt' = rt /\ life' = Idle
      BY <2>0, <3>1 DEF Idle, Phases
    <3>2. CASE Shutdown(rt, "configure", None)
      <4>1. AfterCrash
        BY <2>0, <3>2 DEF Shutdown, Idle, NoRuntime, Phases
      <4> QED
        BY <2>0, <3>2, <4>1 DEF Shutdown
    <3> QED
      BY <1>1, <3>1, <3>2
  <2>2. OwnerType'
    BY <2>1 DEF RuntimeInv, OwnerType
  <2>3. StartInv'
    BY <2>1 DEF RuntimeInv, StartInv, NoRuntime
  <2>4. OpenInv'
    BY <1>4, <2>1 DEF RuntimeInv, OpenInv, NoRuntime
  <2> QED
    BY <2>2, <2>3, <2>4 DEF RuntimeInv
<1> QED
  BY <1>1, <1>2, <1>3, <1>4

------------------------------------------------------------------------------
(* A host that leaves, or dies, takes no owner with it.                         *)
LEMMA HostStopsKeepsOwner ==
  ASSUME RuntimeInv, NEW h \in Hosts, UNCHANGED <<rt, waits>>,
         \/ host' = [host EXCEPT ![h] = "gone"]
         \/ host' = [host EXCEPT ![h] = "crashed"],
         \/ life' = life
         \/ /\ life.phase = "ending" /\ life.host = h /\ host' = [host EXCEPT ![h] = "gone"]
            /\ life' = [life EXCEPT !.phase = "closed", !.host = None, !.workspace = FALSE]
  PROVE  RuntimeInv'
<1> USE ExtensionAssumption
<1>1. host' \in [Hosts -> States] /\ \A g \in Hosts \ {h} : host'[g] = host[g]
  BY DEF RuntimeInv, OwnerType, States
<1>2. host'[h] \in {"gone", "crashed"}
  BY DEF RuntimeInv, OwnerType, States
<1>3. CASE life' = life
  <2>1. OwnerType'
    BY <1>1, <1>3 DEF RuntimeInv, OwnerType
  <2>2. StartInv'
    BY <1>1, <1>2, <1>3 DEF RuntimeInv, StartInv
  <2>3. OpenInv'
    BY <1>1, <1>2, <1>3 DEF RuntimeInv, OpenInv
  <2> QED
    BY <2>1, <2>2, <2>3 DEF RuntimeInv
<1>4. CASE /\ life.phase = "ending" /\ life.host = h
           /\ life' = [life EXCEPT !.phase = "closed", !.host = None, !.workspace = FALSE]
  <2>0. /\ life'.phase = "closed" /\ life'.host = None
        /\ life' \in [phase : Phases, op : {life'.op}, host : {None},
                      workspace : BOOLEAN, target : {life'.target}, mode : {life'.mode}]
    BY <1>4 DEF RuntimeInv, OwnerType, Phases
  <2>1. OwnerType'
    BY <1>1, <2>0 DEF RuntimeInv, OwnerType
  <2>2. StartInv'
    BY <1>1, <1>2, <1>4, <2>0 DEF RuntimeInv, StartInv
  <2>3. OpenInv'
    BY <1>1, <1>2, <1>4, <2>0 DEF RuntimeInv, OpenInv
  <2> QED
    BY <2>1, <2>2, <2>3 DEF RuntimeInv
<1> QED
  BY <1>3, <1>4

(* configure's start: no host was starting, one is now, and the handler waits.  *)
LEMMA InstallKeepsOwner == ASSUME RuntimeInv, Install PROVE RuntimeInv'
<1> USE ExtensionAssumption
<1>1. rt = NoRuntime /\ life.phase = "closed" /\ life.host = None
  BY DEF Install, RuntimeInv, OpenInv
<1>2. CASE Shutdown(rt, "undo", None) /\ UNCHANGED <<host, waits>>
  BY <1>1, <1>2, ShutdownKeepsOwner DEF Quiet, Phases
<1>3. CASE ~ (Shutdown(rt, "undo", None) /\ UNCHANGED <<host, waits>>)
  <2> DEFINE runtime == [rt EXCEPT !.workspace = TRUE, !.contract = ext.contract,
                                   !.tools = Offered]
             h == CHOOSE g \in Unused : TRUE
  <2>1. /\ runtime.session = None /\ runtime.manager = None /\ runtime.starting = None
        /\ runtime \in [session : {None}, manager : {None}, starting : {None},
                        workspace : BOOLEAN, contract : {runtime.contract},
                        tools : {runtime.tools}]
    BY <1>1 DEF NoRuntime
  <2>2. AwaitSession(runtime, "life")
    BY <1>3 DEF Install
  <2>3. life' = [life EXCEPT !.phase = "starting"]
    BY <1>1, <1>3 DEF Install, NoRuntime
  <2> HIDE DEF runtime
  <2>4. /\ Unused # {} /\ host' = [host EXCEPT ![h] = "spawned"]
        /\ rt' = [runtime EXCEPT !.starting = h]
        /\ waits' = [waits EXCEPT !["life"] = h]
    BY <2>1, <2>2 DEF AwaitSession
  <2>5. h \in Hosts /\ host[h] = "gone"
    <3>1. h \in Unused
      BY <2>4
    <3> QED
      BY <3>1 DEF Unused
  <2> HIDE DEF h
  <2>6. /\ life'.phase = "starting" /\ life'.host = None
        /\ life' \in [phase : Phases, op : {life'.op}, host : {None},
                      workspace : BOOLEAN, target : {life'.target}, mode : {life'.mode}]
    BY <1>1, <2>3 DEF RuntimeInv, OwnerType, Phases
  <2>7. /\ rt'.session = None /\ rt'.manager = None /\ rt'.starting = h
        /\ rt' \in [session : {None}, manager : {None}, starting : Hosts,
                    workspace : BOOLEAN, contract : {rt'.contract}, tools : {rt'.tools}]
    BY <2>1, <2>4, <2>5
  <2>8. /\ \A c \in Callers : waits[c] = None
        /\ \A g \in Hosts : host[g] \notin {"spawned", "opening", "open"}
    BY <1>1 DEF RuntimeInv, StartInv, OpenInv, NoRuntime
  <2>9. /\ waits' \in [Callers -> Hosts \cup {None}] /\ waits'["life"] = h
        /\ \A c \in Callers : waits'[c] \in {h, None}
    BY <2>4, <2>5, <2>8 DEF RuntimeInv, OwnerType, Callers
  <2>10. /\ host' \in [Hosts -> States] /\ host'[h] = "spawned"
         /\ \A g \in Hosts \ {h} : host'[g] = host[g]
    BY <2>4, <2>5 DEF RuntimeInv, OwnerType, States
  <2>11. OwnerType'
    BY <2>6, <2>7, <2>9, <2>10 DEF OwnerType
  <2>12. StartInv'
    BY <2>5, <2>6, <2>7, <2>8, <2>9, <2>10 DEF StartInv
  <2>13. OpenInv'
    BY <2>5, <2>6, <2>7, <2>8, <2>10 DEF OpenInv
  <2> QED
    BY <2>11, <2>12, <2>13 DEF RuntimeInv
<1> QED
  BY <1>2, <1>3

(* The start that opens a session was the one under way: it becomes the         *)
(* runtime's, and everyone who awaited it goes on.                              *)
LEMMA OpenedKeepsOwner ==
  ASSUME RuntimeInv, NEW h \in Hosts, SessionOpened(h)
  PROVE  RuntimeInv'
<1> USE ExtensionAssumption
<1>1. rt.starting = h /\ waits["life"] = h /\ rt.session = None /\ life.phase = "starting"
  BY DEF SessionOpened, RuntimeInv, StartInv
<1>2. /\ life' = Idle
      /\ rt' = [rt EXCEPT !.manager = h, !.session = h, !.starting = None]
      /\ waits' = Released(h) /\ host' = [host EXCEPT ![h] = "open"]
  BY <1>1 DEF SessionOpened
<1>3. /\ rt'.session = h /\ rt'.manager = h /\ rt'.starting = None
      /\ rt' \in [session : Hosts, manager : Hosts, starting : {None},
                  workspace : BOOLEAN, contract : {rt'.contract}, tools : {rt'.tools}]
  BY <1>2 DEF RuntimeInv, OwnerType
<1>4. waits' \in [Callers -> {None}]
  BY <1>1, <1>2 DEF Released, RuntimeInv, StartInv
<1>5. /\ host' \in [Hosts -> States] /\ host'[h] = "open"
      /\ \A g \in Hosts \ {h} : host'[g] = host[g]
  BY <1>2 DEF RuntimeInv, OwnerType, States
<1>6. /\ life'.phase = "idle" /\ life'.host = None
      /\ life' \in [phase : Phases, op : {life'.op}, host : {None},
                    workspace : BOOLEAN, target : {life'.target}, mode : {life'.mode}]
  BY <1>2 DEF Idle, Phases
<1>7. OwnerType'
  BY <1>3, <1>4, <1>5, <1>6 DEF OwnerType
<1>8. StartInv'
  BY <1>1, <1>3, <1>4, <1>5, <1>6 DEF RuntimeInv, StartInv
<1>9. OpenInv'
  BY <1>1, <1>3, <1>5, <1>6 DEF RuntimeInv, OpenInv
<1> QED
  BY <1>7, <1>8, <1>9 DEF RuntimeInv

(* The start that fails was the one under way; configure, which awaited it,     *)
(* shuts the runtime down again.                                                *)
LEMMA FailedKeepsOwner ==
  ASSUME RuntimeInv, NEW h \in Hosts, StartFailed(h)
  PROVE  RuntimeInv'
<1> USE ExtensionAssumption
<1>1. rt.starting = h /\ waits["life"] = h /\ rt.session = None /\ life.phase = "starting"
  BY DEF StartFailed, RuntimeInv, StartInv
<1>2. /\ Shutdown([rt EXCEPT !.starting = None], "undo", None)
      /\ waits' = Released(h)
      /\ host' = [host EXCEPT ![h] = IF @ = "crashed" THEN @ ELSE "gone"]
  BY <1>1 DEF StartFailed
<1>3. /\ rt' = NoRuntime /\ life'.phase = "closed" /\ life'.host = None
      /\ life' \in [phase : Phases, op : {life'.op}, host : {None},
                    workspace : BOOLEAN, target : {life'.target}, mode : {life'.mode}]
  <2> DEFINE runtime == [rt EXCEPT !.starting = None]
  <2>1. runtime.session = None /\ runtime.workspace \in BOOLEAN
    BY <1>1 DEF RuntimeInv, OwnerType
  <2>2. Shutdown(runtime, "undo", None)
    BY <1>2
  <2> HIDE DEF runtime
  <2> QED
    BY <2>1, <2>2 DEF Shutdown, Idle, Phases
<1>4. waits' \in [Callers -> {None}]
  BY <1>1, <1>2 DEF Released, RuntimeInv, StartInv
<1>5. /\ host' \in [Hosts -> States] /\ host'[h] \in {"gone", "crashed"}
      /\ \A g \in Hosts \ {h} : host'[g] = host[g]
  BY <1>2 DEF RuntimeInv, OwnerType, States
<1>6. \A g \in Hosts : host'[g] \notin {"spawned", "opening", "open"}
  BY <1>1, <1>5 DEF RuntimeInv, StartInv, OpenInv
<1>7. OwnerType'
  BY <1>3, <1>4, <1>5 DEF OwnerType, NoRuntime
<1>8. StartInv'
  BY <1>3, <1>4, <1>6 DEF StartInv, NoRuntime
<1>9. OpenInv'
  BY <1>3, <1>6 DEF OpenInv, NoRuntime
<1> QED
  BY <1>7, <1>8, <1>9 DEF RuntimeInv

LEMMA HelloKeepsOwner ==
  ASSUME RuntimeInv, NEW h \in Hosts, HelloAnswered(h)
  PROVE  RuntimeInv'
<1>1. /\ host' \in [Hosts -> States] /\ host[h] = "spawned" /\ host'[h] = "opening"
      /\ \A g \in Hosts \ {h} : host'[g] = host[g]
      /\ UNCHANGED <<rt, waits, life>>
  BY DEF HelloAnswered, RuntimeInv, OwnerType, States
<1>2. OwnerType'
  BY <1>1 DEF RuntimeInv, OwnerType
<1>3. StartInv'
  BY <1>1 DEF RuntimeInv, StartInv
<1>4. OpenInv'
  BY <1>1 DEF RuntimeInv, OpenInv
<1> QED
  BY <1>2, <1>3, <1>4 DEF RuntimeInv

(* A turn of a configured runtime finds a session, or the start of one.         *)
LEMMA CallKeepsOwner ==
  ASSUME ~ EarlyTurns, RuntimeInv, NEW t \in Turns, CallSession(t)
  PROVE  RuntimeInv'
<1>1. rt.session # None \/ rt.starting # None
  BY DEF CallSession, TurnAllowed, RuntimeInv, OpenInv
<1>2. /\ UNCHANGED <<rt, host, life>>
      /\ \/ UNCHANGED waits
         \/ waits' = [waits EXCEPT ![t] = rt.starting]
  BY <1>1 DEF CallSession, AwaitSession
<1>3. /\ waits' \in [Callers -> Hosts \cup {None}]
      /\ \A c \in Callers : waits'[c] = waits[c] \/ waits'[c] = rt.starting
  BY <1>2 DEF RuntimeInv, OwnerType, Callers
<1>4. OwnerType'
  BY <1>2, <1>3 DEF RuntimeInv, OwnerType
<1>5. "life" \in Callers
  BY DEF Callers
<1>6. StartInv'
  BY <1>2, <1>3, <1>5 DEF RuntimeInv, StartInv
<1>7. OpenInv'
  BY <1>2 DEF RuntimeInv, OpenInv
<1> QED
  BY <1>4, <1>6, <1>7 DEF RuntimeInv

(* The steps of the handlers.                                                   *)
LEMMA LifecycleKeepsOwner ==
  ASSUME OwnerInv, Lifecycle
  PROVE  RuntimeInv'
<1> USE ExtensionAssumption
<1>0. RuntimeInv /\ SavingInv
  BY DEF OwnerInv
<1>1. CASE SessionClosed
  <2>1. /\ UNCHANGED <<rt, host, waits>> /\ rt = NoRuntime
        /\ life.phase = "closing" /\ life'.phase = "ending" /\ life'.host = life.host
        /\ life' \in [phase : Phases, op : {life'.op}, host : Hosts \cup {None},
                      workspace : BOOLEAN, target : {life'.target}, mode : {life'.mode}]
    BY <1>0, <1>1 DEF SessionClosed, RuntimeInv, OwnerType, OpenInv, Phases
  <2>2. OwnerType'
    BY <1>0, <2>1 DEF RuntimeInv, OwnerType
  <2>3. StartInv'
    BY <1>0, <2>1 DEF RuntimeInv, StartInv, NoRuntime
  <2>4. OpenInv'
    BY <1>0, <2>1 DEF RuntimeInv, OpenInv
  <2> QED
    BY <2>2, <2>3, <2>4 DEF RuntimeInv
<1>2. CASE HostClosed
  <2>1. life.host \in Hosts
    BY <1>0, <1>2 DEF HostClosed, RuntimeInv, OwnerType, OpenInv
  <2> QED
    BY <1>0, <1>2, <2>1, HostStopsKeepsOwner DEF HostClosed
<1>3. CASE ShutdownRejected
  <2>1. CASE life.op = "switch"
    BY <1>0, <1>3, <2>1, StartSessionKeepsOwner DEF ShutdownRejected
  <2>2. CASE life.op # "switch"
    <3>0. /\ life.phase \in {"closing", "ending"} /\ host[life.host] = "crashed"
          /\ life' = Idle /\ UNCHANGED <<rt, host, waits>>
      BY <1>3, <2>2 DEF ShutdownRejected
    <3>1. /\ rt = NoRuntime
          /\ life'.phase = "idle" /\ life'.host = None
          /\ life' \in [phase : Phases, op : {life'.op}, host : {None},
                        workspace : BOOLEAN, target : {life'.target}, mode : {life'.mode}]
      BY <1>0, <3>0 DEF RuntimeInv, OpenInv, Idle, Phases
    <3>2. OwnerType'
      BY <1>0, <3>0, <3>1 DEF RuntimeInv, OwnerType
    <3>3. StartInv'
      BY <1>0, <3>0, <3>1 DEF RuntimeInv, StartInv, NoRuntime
    <3>4. OpenInv'
      BY <1>0, <3>0, <3>1 DEF RuntimeInv, OpenInv, NoRuntime
    <3> QED
      BY <3>2, <3>3, <3>4 DEF RuntimeInv
  <2> QED
    BY <2>1, <2>2
<1>4. CASE SessionStopped
  <2>1. /\ life.phase = "closed" /\ UNCHANGED <<rt, host, waits>>
        /\ life' = Idle \/ life' = [life EXCEPT !.phase = "switching"]
    BY <1>4 DEF SessionStopped
  <2>2. life.host = None /\ rt = NoRuntime
    BY <1>0, <2>1 DEF RuntimeInv, OpenInv
  <2>3. /\ life'.phase \in {"idle", "switching"}
        /\ life' \in [phase : Phases, op : {life'.op}, host : {None},
                      workspace : BOOLEAN, target : {life'.target}, mode : {life'.mode}]
    <3>1. CASE life' = Idle
      BY <3>1 DEF Idle, Phases
    <3>2. CASE life' = [life EXCEPT !.phase = "switching"]
      BY <1>0, <2>2, <3>2 DEF RuntimeInv, OwnerType, Phases
    <3> QED
      BY <2>1, <3>1, <3>2
  <2> QED
    BY <1>0, <2>1, <2>2, <2>3, QuietKeepsOwner DEF Quiet, Phases
<1>5. CASE SwitchedTo
  BY <1>0, <1>5, StartSessionKeepsOwner DEF SwitchedTo, Quiet, Phases
<1>6. CASE DisposeReturns
  BY <1>0, <1>6, QuietKeepsOwner DEF DisposeReturns, Quiet, Idle, Phases
<1>7. CASE Install
  BY <1>0, <1>7, InstallKeepsOwner
<1>8. CASE DefaultSaved
  <2>1. life.phase = "saving" /\ UNCHANGED <<host, waits>>
    BY <1>0, <1>8 DEF DefaultSaved, SaveRename, SavingInv
  <2>2. CASE HasConversation(current)
    <3>1. rt' = rt /\ life' = [life EXCEPT !.phase = "confirming"]
      BY <1>8, <2>2 DEF DefaultSaved
    <3>2. life.host = None
      BY <1>0, <2>1 DEF RuntimeInv, OpenInv
    <3>3. /\ life'.phase = "confirming"
          /\ life' \in [phase : Phases, op : {life'.op}, host : {None},
                        workspace : BOOLEAN, target : {life'.target}, mode : {life'.mode}]
      BY <1>0, <3>1, <3>2 DEF RuntimeInv, OwnerType, Phases
    <3> QED
      BY <1>0, <2>1, <3>1, <3>3, QuietKeepsOwner DEF Quiet, Phases
  <2>3. CASE ~ HasConversation(current)
    BY <1>0, <1>8, <2>1, <2>3, ShutdownKeepsOwner DEF DefaultSaved, Quiet, Phases
  <2> QED
    BY <2>2, <2>3
<1>9. CASE SaveFill /\ UNCHANGED <<owner, agent>>
  BY <1>0, <1>9 DEF owner, RuntimeInv, OwnerType, StartInv, OpenInv
<1> QED
  BY <1>1, <1>2, <1>3, <1>4, <1>5, <1>6, <1>7, <1>8, <1>9 DEF Lifecycle

LEMMA NextKeepsRuntime ==
  ASSUME ~ EarlyTurns, OwnerInv, [Next]_vars
  PROVE  RuntimeInv'
<1> USE ExtensionAssumption
<1>0. RuntimeInv /\ SavingInv
  BY DEF OwnerInv
<1>1. ASSUME NEW s \in Sessions, SessionStart(s) PROVE RuntimeInv'
  BY <1>0, <1>1, StartSessionKeepsOwner DEF SessionStart, LifeIdle, Quiet, Phases
<1>2. ASSUME NEW s \in Sessions, NewSession(s) PROVE RuntimeInv'
  BY <1>0, <1>2, ShutdownKeepsOwner DEF NewSession, Quiet, Phases
<1>3. CASE SessionShutdown
  BY <1>0, <1>3, ShutdownKeepsOwner DEF SessionShutdown, LifeIdle, Quiet, Phases
<1>4. CASE Dispose
  BY <1>0, <1>4, ShutdownKeepsOwner DEF Dispose, LifeIdle, Quiet, Phases
<1>5. CASE Lifecycle
  BY <1>5, LifecycleKeepsOwner
<1>6. ASSUME NEW h \in Hosts, StartStep(h) PROVE RuntimeInv'
  BY <1>0, <1>6, HelloKeepsOwner, OpenedKeepsOwner, FailedKeepsOwner DEF StartStep
<1>7. ASSUME NEW h \in Hosts, HostCrashes(h) \/ HostForgotten(h) PROVE RuntimeInv'
  BY <1>0, <1>7, HostStopsKeepsOwner DEF HostCrashes, HostForgotten
<1>8. ASSUME NEW t \in Turns, CallSession(t) PROVE RuntimeInv'
  BY <1>0, <1>8, CallKeepsOwner
<1>9. CASE UNCHANGED owner
  BY <1>0, <1>9 DEF owner, RuntimeInv, OwnerType, StartInv, OpenInv
<1>10. CASE CommandInvoked
  BY <1>0, <1>10, QuietKeepsOwner DEF CommandInvoked, LifeIdle, Quiet, Idle, Phases
<1>11. CASE CommandDeclined
  BY <1>0, <1>11, QuietKeepsOwner DEF CommandDeclined, Quiet, Idle, Phases
<1>12. ASSUME NEW mode \in Modes, ModeSelected(mode) PROVE RuntimeInv'
  <2>1. /\ life.phase = "selecting" /\ UNCHANGED <<rt, host, waits>>
        /\ \/ life' = Idle
           \/ life' = [Idle EXCEPT !.phase = "saving", !.mode = mode]
    BY <1>12 DEF ModeSelected
  <2>2. /\ life'.phase \in {"idle", "saving"}
        /\ life' \in [phase : Phases, op : {life'.op}, host : {None},
                      workspace : BOOLEAN, target : {life'.target}, mode : {life'.mode}]
    <3>1. CASE life' = Idle
      BY <3>1 DEF Idle, Phases
    <3>2. CASE life' = [Idle EXCEPT !.phase = "saving", !.mode = mode]
      BY <3>2 DEF Idle, Phases
    <3> QED
      BY <2>1, <3>1, <3>2
  <2> QED
    BY <1>0, <2>1, <2>2, QuietKeepsOwner DEF Quiet, Phases
<1>13. CASE DefaultSaveFails
  <2>1. life.phase = "saving" /\ life' = Idle /\ UNCHANGED <<rt, host, waits>>
    BY <1>0, <1>13 DEF DefaultSaveFails, SaveFail, SavingInv
  <2> QED
    BY <1>0, <2>1, QuietKeepsOwner DEF Quiet, Idle, Phases
<1>14. MessageRecorded => UNCHANGED owner
  BY DEF MessageRecorded
<1> QED
  BY <1>1, <1>2, <1>3, <1>4, <1>5, <1>6, <1>7, <1>8, <1>9, <1>10, <1>11, <1>12, <1>13, <1>14
     DEF Next, vars

(* While the settings are being saved no handler goes on.                       *)
LEMMA NextKeepsSaving ==
  ASSUME SavingInv, [Next]_vars
  PROVE  SavingInv'
<1> SUFFICES \/ saving' = None
             \/ saving' = saving /\ (saving = None \/ life' = life)
             \/ life'.phase = "saving"
  BY DEF SavingInv
<1>1. CASE Lifecycle
  <2>1. CASE DefaultSaved
    BY <2>1 DEF DefaultSaved, SaveRename
  <2>2. CASE SaveFill /\ UNCHANGED <<owner, agent>>
    BY <2>2 DEF SaveFill, owner
  <2>3. CASE SessionClosed \/ HostClosed \/ ShutdownRejected
    BY <2>3 DEF SessionClosed, HostClosed, ShutdownRejected, LoopFree, settings
  <2>4. CASE SessionStopped \/ SwitchedTo \/ DisposeReturns \/ Install
    <3>1. life.phase \in {"closed", "switching"} /\ saving' = saving
      BY <2>4 DEF SessionStopped, SwitchedTo, DisposeReturns, Install, settings
    <3> QED
      BY <3>1 DEF SavingInv
  <2> QED
    BY <1>1, <2>1, <2>2, <2>3, <2>4 DEF Lifecycle
<1>2. ASSUME NEW s \in Sessions, SessionStart(s) \/ NewSession(s) PROVE saving' = saving /\ saving = None
  BY <1>2 DEF SessionStart, NewSession, LifeIdle, LoopFree, settings
<1>3. CASE SessionShutdown \/ Dispose \/ CommandInvoked \/ CommandDeclined
  BY <1>3 DEF SessionShutdown, Dispose, CommandInvoked, CommandDeclined, LifeIdle, LoopFree,
              settings
<1>4. ASSUME NEW h \in Hosts, StartStep(h) PROVE saving' = saving /\ saving = None
  BY <1>4 DEF StartStep, HelloAnswered, SessionOpened, StartFailed, LoopFree, settings
<1>5. ASSUME NEW h \in Hosts, HostCrashes(h) \/ HostForgotten(h)
      PROVE saving' = saving /\ life' = life
  BY <1>5 DEF HostCrashes, HostForgotten, settings
<1>6. ASSUME NEW t \in Turns, CallSession(t) PROVE saving' = saving /\ life' = life
  BY <1>6 DEF CallSession, settings
<1>7. CASE MessageRecorded
  BY <1>7 DEF MessageRecorded, owner, settings
<1>8. ASSUME NEW mode \in Modes, ModeSelected(mode)
      PROVE (saving' = saving /\ saving = None) \/ life'.phase = "saving"
  BY <1>8 DEF ModeSelected, LoopFree, Idle
<1>9. CASE DefaultSaveFails
  BY <1>9 DEF DefaultSaveFails, SaveFail
<1>10. ASSUME NEW args \in CommandLines, OtherProcess(args), UNCHANGED <<owner, agent>>
       PROVE saving' = saving /\ life' = life
  BY <1>10 DEF OtherProcess, owner
<1>11. CASE UNCHANGED vars
  BY <1>11 DEF vars, owner, settings
<1> QED
  BY <1>1, <1>2, <1>3, <1>4, <1>5, <1>6, <1>7, <1>8, <1>9, <1>10, <1>11 DEF Next

LEMMA InitOwner == Init => OwnerInv
<1> USE ExtensionAssumption
<1> SUFFICES ASSUME Init PROVE OwnerInv
  OBVIOUS
<1>1. OwnerType
  BY DEF Init, OwnerType, NoRuntime, Idle, Phases, States
<1>2. StartInv /\ OpenInv
  BY DEF Init, StartInv, OpenInv, NoRuntime, Idle
<1>3. SavingInv
  BY DEF Init, SettingsInit, SavingInv
<1> QED
  BY <1>1, <1>2, <1>3 DEF OwnerInv, RuntimeInv

(* When turns wait for the runtime that a session start configures, no sequence *)
(* of starts, failures, crashes and shutdowns leaves a living host without an   *)
(* owner.                                                                       *)
THEOREM SpecHostsOwned == ASSUME ~ EarlyTurns PROVE Spec => []HostsOwned
<1>1. OwnerInv /\ [Next]_vars => OwnerInv'
  BY NextKeepsRuntime, NextKeepsSaving DEF OwnerInv
<1>2. OwnerInv => HostsOwned
  BY ExtensionAssumption DEF OwnerInv, RuntimeInv, OwnerType, StartInv, OpenInv, HostsOwned
<1> QED
  BY InitOwner, <1>1, <1>2, PTL DEF Spec

------------------------------------------------------------------------------
(* What session_shutdown needs in order to leave nothing behind: without an     *)
(* open session file no runtime exists and no handler but the one that goes on  *)
(* to the next file; the tools to restore are pi's own, and they are remembered *)
(* whenever others are offered.                                                 *)
CleanInv ==
  /\ ext \in [contract : {ext.contract}, baseline : {None, "user"},
              registrations : {ext.registrations}]
  /\ current = None => rt = NoRuntime /\ life.phase \in {"idle", "switching"}
  /\ life.op = "switch" => life.target \in Sessions
  /\ life.phase = "switching" => life.op = "switch"
  /\ ext.baseline = None => active = "user"
  /\ (current = None /\ ~ rejected) => active = "user"

(* A step that leaves the agent's tools alone.                                  *)
LEMMA ToolsKept ==
  ASSUME CleanInv, UNCHANGED <<current, active, rejected>>,
         ext' = ext \/ \E c : ext' = [ext EXCEPT !.contract = c],
         current # None \/ UNCHANGED <<rt, life>>,
         life'.op = "switch" => life'.target \in Sessions,
         life'.phase = "switching" => life'.op = "switch"
  PROVE  CleanInv'
<1>1. /\ ext'.baseline = ext.baseline
      /\ ext' \in [contract : {ext'.contract}, baseline : {None, "user"},
                   registrations : {ext'.registrations}]
  BY DEF CleanInv
<1> QED
  BY <1>1 DEF CleanInv

(* A step that offers exec and wait.                                            *)
LEMMA ToolsActivated ==
  ASSUME CleanInv, UNCHANGED <<current, rejected>>, current # None,
         ext' = Activated(ext),
         life' = life \/ life' = Idle
  PROVE  CleanInv'
<1> USE ExtensionAssumption
<1>1. /\ ext'.baseline = "user"
      /\ ext' \in [contract : {ext'.contract}, baseline : {None, "user"},
                   registrations : {ext'.registrations}]
  BY DEF Activated, CleanInv
<1>2. life'.op = "switch" \/ life'.phase = "switching" => life' = life
  BY DEF Idle
<1> QED
  BY <1>1, <1>2 DEF CleanInv

(* What a shutdown is for stays with the handler.                               *)
LEMMA ShutdownFor ==
  ASSUME NEW runtime, NEW op, NEW target, Shutdown(runtime, op, target)
  PROVE  /\ rt' = NoRuntime /\ life'.op = op /\ life'.target = target
         /\ life'.phase \in {"closed", "closing"}
  BY DEF Shutdown, Idle

LEMMA StartSessionClean ==
  ASSUME CleanInv, NEW s \in Sessions, StartSession(s), UNCHANGED active
  PROVE  CleanInv'
<1> USE ExtensionAssumption
<1>1. current' = s /\ rejected' = FALSE
  BY DEF StartSession
<1>2. life' = Idle \/ Shutdown(rt, "configure", None)
  BY DEF StartSession
<1>3. life'.op # "switch" /\ life'.phase # "switching"
  BY <1>2, ShutdownFor DEF Idle
<1>4. PICK registered \in Registrations :
        LET baseline == IF active = "user" THEN "user" ELSE ext.baseline
            started == [ext EXCEPT !.baseline = baseline, !.registrations = registered]
        IN ext' = started \/ \E c : ext' = [started EXCEPT !.contract = c]
  BY DEF StartSession
<1>5. (IF active = "user" THEN "user" ELSE ext.baseline) = "user"
  BY DEF CleanInv
<1>6. /\ ext'.baseline = "user"
      /\ ext' \in [contract : {ext'.contract}, baseline : {None, "user"},
                   registrations : {ext'.registrations}]
  BY <1>4, <1>5 DEF CleanInv
<1> QED
  BY <1>1, <1>3, <1>6 DEF CleanInv

LEMMA LifecycleKeepsClean ==
  ASSUME OwnerInv, CleanInv, Lifecycle
  PROVE  CleanInv'
<1> USE ExtensionAssumption
<1>0. OwnerType /\ OpenInv /\ SavingInv
  BY DEF OwnerInv, RuntimeInv
<1>1. CASE SessionClosed \/ HostClosed
  <2>1. /\ UNCHANGED <<current, active, rejected, ext>>
        /\ life.phase \in {"closing", "ending"}
        /\ \/ life' = [life EXCEPT !.phase = "ending"]
           \/ life' = [life EXCEPT !.phase = "closed", !.host = None, !.workspace = FALSE]
    BY <1>1 DEF SessionClosed, HostClosed, agent
  <2>2. life'.op = life.op /\ life'.target = life.target /\ life'.phase # "switching"
    BY <1>0, <2>1 DEF OwnerType
  <2>3. current # None
    BY <2>1 DEF CleanInv
  <2>4. life'.op = "switch" => life'.target \in Sessions
    BY <2>2 DEF CleanInv
  <2> QED
    BY <2>1, <2>2, <2>3, <2>4, ToolsKept
<1>2. CASE ShutdownRejected
  <2>1. CASE life.op = "switch"
    <3>1. life.target \in Sessions /\ StartSession(life.target) /\ UNCHANGED active
      BY <1>2, <2>1 DEF ShutdownRejected, CleanInv
    <3> QED
      BY <3>1, StartSessionClean
  <2>2. CASE life.op # "switch"
    <3>1. /\ life.phase \in {"closing", "ending"} /\ life' = Idle /\ rejected' = TRUE
          /\ UNCHANGED <<rt, ext, active>>
      BY <1>2, <2>2 DEF ShutdownRejected
    <3>2. rt = NoRuntime
      BY <1>0, <3>1 DEF OpenInv
    <3> QED
      BY <3>1, <3>2 DEF CleanInv, Idle
  <2> QED
    BY <2>1, <2>2
<1>3. CASE SessionStopped
  <2>1. rt = NoRuntime /\ rt' = NoRuntime
    BY <1>0, <1>3 DEF SessionStopped, OpenInv
  <2>2. active' = "user" /\ current' = None
    BY <1>3 DEF SessionStopped, CleanInv
  <2>3. /\ ext' \in [contract : {ext'.contract}, baseline : {None, "user"},
                     registrations : {ext'.registrations}]
    BY <1>3 DEF SessionStopped, CleanInv
  <2>4. /\ life'.phase \in {"idle", "switching"}
        /\ life'.op = "switch" => life'.target \in Sessions
        /\ life'.phase = "switching" => life'.op = "switch"
    <3>1. CASE life.op = "stop"
      BY <1>3, <3>1 DEF SessionStopped, Idle
    <3>2. CASE life.op = "switch"
      <4>1. life' = [life EXCEPT !.phase = "switching"]
        BY <1>3, <3>2 DEF SessionStopped
      <4>2. life'.phase = "switching" /\ life'.op = life.op /\ life'.target = life.target
        BY <1>0, <4>1 DEF OwnerType
      <4> QED
        BY <3>2, <4>2 DEF CleanInv
    <3> QED
      BY <1>3, <3>1, <3>2 DEF SessionStopped
  <2> QED
    BY <2>1, <2>2, <2>3, <2>4 DEF CleanInv
<1>4. CASE SwitchedTo
  <2>1. life.target \in Sessions /\ StartSession(life.target) /\ UNCHANGED active
    BY <1>4 DEF SwitchedTo, CleanInv
  <2> QED
    BY <2>1, StartSessionClean
<1>5. CASE DisposeReturns
  <2>1. life.phase = "closed" /\ life' = Idle /\ UNCHANGED <<rt, current, active, rejected, ext>>
    BY <1>5 DEF DisposeReturns, agent
  <2>2. current # None
    BY <2>1 DEF CleanInv
  <2> QED
    BY <2>1, <2>2, ToolsKept DEF Idle
<1>6. CASE Install
  <2>1. life.phase = "closed" /\ UNCHANGED <<current, rejected>>
    BY <1>6 DEF Install
  <2>2. current # None
    BY <2>1 DEF CleanInv
  <2>3. CASE Shutdown(rt, "undo", None) /\ UNCHANGED <<active, ext>>
    BY <2>1, <2>2, <2>3, ShutdownFor, ToolsKept
  <2>4. CASE life' = [life EXCEPT !.phase = "starting"] /\ UNCHANGED <<active, ext>>
    <3>1. life'.op = life.op /\ life'.target = life.target /\ life'.phase # "switching"
      BY <1>0, <2>4 DEF OwnerType
    <3>2. life'.op = "switch" => life'.target \in Sessions
      BY <3>1 DEF CleanInv
    <3> QED
      BY <2>1, <2>2, <2>4, <3>1, <3>2, ToolsKept
  <2>5. CASE life' = Idle /\ ext' = Activated(ext)
    BY <2>1, <2>2, <2>5, ToolsActivated
  <2> QED
    BY <1>6, <2>3, <2>4, <2>5 DEF Install
<1>7. CASE DefaultSaved
  <2>1. life.phase = "saving" /\ UNCHANGED <<current, active, rejected>>
    BY <1>0, <1>7 DEF DefaultSaved, SaveRename, SavingInv
  <2>2. current # None
    BY <2>1 DEF CleanInv
  <2>3. CASE life' = [life EXCEPT !.phase = "confirming"] /\ ext' = ext
    <3>1. life'.op = life.op /\ life'.target = life.target /\ life'.phase # "switching"
      BY <1>0, <2>3 DEF OwnerType
    <3>2. life'.op = "switch" => life'.target \in Sessions
      BY <3>1 DEF CleanInv
    <3> QED
      BY <2>1, <2>2, <2>3, <3>1, <3>2, ToolsKept
  <2>4. CASE Shutdown(rt, "configure", None) /\ \E c : ext' = [ext EXCEPT !.contract = c]
    <3>1. life'.op = "configure" /\ life'.phase \in {"closed", "closing"}
      BY <2>4, ShutdownFor
    <3> QED
      BY <2>1, <2>2, <2>4, <3>1, ToolsKept
  <2> QED
    BY <1>7, <2>3, <2>4 DEF DefaultSaved
<1>8. CASE SaveFill /\ UNCHANGED <<owner, agent>>
  BY <1>8 DEF owner, agent, CleanInv
<1> QED
  BY <1>1, <1>2, <1>3, <1>4, <1>5, <1>6, <1>7, <1>8 DEF Lifecycle

LEMMA NextKeepsClean ==
  ASSUME OwnerInv, CleanInv, [Next]_vars
  PROVE  CleanInv'
<1> USE ExtensionAssumption
<1>0. OwnerType /\ StartInv /\ OpenInv /\ SavingInv
  BY DEF OwnerInv, RuntimeInv
<1>1. ASSUME NEW s \in Sessions, SessionStart(s) PROVE CleanInv'
  BY <1>1, StartSessionClean DEF SessionStart
<1>2. ASSUME NEW s \in Sessions, NewSession(s) PROVE CleanInv'
  <2>1. /\ life.phase = "confirming" /\ Shutdown(rt, "switch", s)
        /\ UNCHANGED <<current, ext, active, rejected>>
    BY <1>2 DEF NewSession
  <2>2. current # None
    BY <2>1 DEF CleanInv
  <2> QED
    BY <2>1, <2>2, ShutdownFor, ToolsKept
<1>3. CASE SessionShutdown \/ Dispose
  <2>1. /\ UNCHANGED <<current, ext, active, rejected>>
        /\ current # None
        /\ \E op \in {"stop", "dispose"} : Shutdown(rt, op, None)
    BY <1>3 DEF SessionShutdown, Dispose, agent, CleanInv
  <2> QED
    BY <2>1, ShutdownFor, ToolsKept
<1>4. CASE Lifecycle
  BY <1>4, LifecycleKeepsClean
<1>5. ASSUME NEW h \in Hosts, HelloAnswered(h) \/ HostCrashes(h) \/ HostForgotten(h)
      PROVE  CleanInv'
  BY <1>5 DEF HelloAnswered, HostCrashes, HostForgotten, agent, CleanInv
<1>6. ASSUME NEW h \in Hosts, SessionOpened(h) PROVE CleanInv'
  <2>1. waits["life"] = h /\ life.phase = "starting"
    BY <1>0, <1>6 DEF SessionOpened, StartInv
  <2>2. current # None
    BY <2>1 DEF CleanInv
  <2> QED
    BY <1>6, <2>1, <2>2, ToolsActivated DEF SessionOpened
<1>7. ASSUME NEW h \in Hosts, StartFailed(h) PROVE CleanInv'
  <2>1. waits["life"] = h /\ life.phase = "starting"
    BY <1>0, <1>7 DEF StartFailed, StartInv
  <2>2. /\ current # None /\ UNCHANGED <<current, ext, active, rejected>>
        /\ Shutdown([rt EXCEPT !.starting = None], "undo", None)
    BY <1>7, <2>1 DEF StartFailed, agent, CleanInv
  <2>3. life'.op = "undo" /\ life'.phase \in {"closed", "closing"}
    BY <2>2, ShutdownFor
  <2> QED
    BY <2>2, <2>3, ToolsKept
<1>8. ASSUME NEW t \in Turns, CallSession(t) PROVE CleanInv'
  BY <1>8, ToolsActivated DEF CallSession
<1>9. CASE MessageRecorded
  BY <1>9 DEF MessageRecorded, owner, CleanInv
<1>10. CASE CommandInvoked \/ CommandDeclined
  <2>1. /\ UNCHANGED <<rt, current, ext, active, rejected>> /\ current # None
        /\ life' = Idle \/ life' = [Idle EXCEPT !.phase = "selecting"]
    BY <1>10 DEF CommandInvoked, CommandDeclined, agent, CleanInv
  <2> QED
    BY <2>1, ToolsKept DEF Idle
<1>11. ASSUME NEW mode \in Modes, ModeSelected(mode) PROVE CleanInv'
  <2>1. /\ UNCHANGED <<rt, current, ext, active, rejected>> /\ current # None
        /\ life' = Idle \/ life' = [Idle EXCEPT !.phase = "saving", !.mode = mode]
    BY <1>11 DEF ModeSelected, agent, CleanInv
  <2>2. life'.op # "switch" /\ life'.phase # "switching"
    <3>1. CASE life' = Idle
      BY <3>1 DEF Idle
    <3>2. CASE life' = [Idle EXCEPT !.phase = "saving", !.mode = mode]
      BY <3>2 DEF Idle
    <3> QED
      BY <2>1, <3>1, <3>2
  <2> QED
    BY <2>1, <2>2, ToolsKept
<1>12. CASE DefaultSaveFails
  <2>1. /\ UNCHANGED <<rt, current, ext, active, rejected>> /\ current # None /\ life' = Idle
    BY <1>0, <1>12 DEF DefaultSaveFails, SaveFail, SavingInv, agent, CleanInv
  <2> QED
    BY <2>1, ToolsKept DEF Idle
<1>13. CASE UNCHANGED <<owner, agent>>
  BY <1>13 DEF owner, agent, CleanInv
<1> QED
  BY <1>1, <1>2, <1>3, <1>4, <1>5, <1>6, <1>7, <1>8, <1>9, <1>10, <1>11, <1>12, <1>13
     DEF Next, StartStep, vars

LEMMA InitClean == Init => CleanInv
  BY ExtensionAssumption DEF Init, CleanInv, Idle

(* A session_shutdown that has returned, and whose host did not die under it,   *)
(* leaves no runtime, no living host and the tools pi had before.               *)
THEOREM SpecShutdownCleans == ASSUME ~ EarlyTurns PROVE Spec => []ShutdownCleans
<1>1. OwnerInv /\ CleanInv /\ [Next]_vars => (OwnerInv /\ CleanInv)'
  BY NextKeepsRuntime, NextKeepsSaving, NextKeepsClean DEF OwnerInv
<1>2. OwnerInv /\ CleanInv => ShutdownCleans
  <2> SUFFICES ASSUME OwnerInv, CleanInv, life.phase = "idle", current = None, ~ rejected
               PROVE  /\ rt = NoRuntime
                      /\ \A h \in Hosts : host[h] \in {"gone", "crashed"}
                      /\ active = "user"
    BY DEF ShutdownCleans
  <2>1. rt = NoRuntime /\ active = "user"
    BY DEF CleanInv
  <2>2. rt.session = None /\ rt.starting = None /\ life.host = None
    BY <2>1 DEF OwnerInv, RuntimeInv, OpenInv, NoRuntime
  <2>3. \A h \in Hosts : host[h] \in {"gone", "crashed"}
    BY <2>2, ExtensionAssumption
       DEF OwnerInv, RuntimeInv, OwnerType, StartInv, OpenInv, States
  <2> QED
    BY <2>1, <2>3
<1> QED
  BY InitOwner, InitClean, <1>1, <1>2, PTL DEF Spec

------------------------------------------------------------------------------
(* The session files: a step leaves a file's contracts alone, or adds one to a  *)
(* file that has no message yet, or had no contract.                            *)
EntriesInv == DOMAIN entries = Sessions
EntriesKept(s) == entries'[s] = entries[s]
Extended(s) ==
  \/ UNCHANGED entries
  \/ /\ ~ conversation[s] \/ SessionContract(s) = None
     /\ \E recorded : entries' = [entries EXCEPT ![s] = recorded]

LEMMA StartSessionExtends == ASSUME NEW s, StartSession(s) PROVE Extended(s)
<1>1. UNCHANGED entries \/ SessionContract(s) = None
  BY DEF StartSession
<1>2. UNCHANGED entries \/ \E recorded : entries' = [entries EXCEPT ![s] = recorded]
  BY DEF StartSession
<1> QED
  BY <1>1, <1>2 DEF Extended

LEMMA NextExtends ==
  ASSUME [Next]_vars
  PROVE  \E s : Extended(s)
<1>1. ASSUME NEW s \in Sessions, SessionStart(s) PROVE Extended(s)
  BY <1>1, StartSessionExtends DEF SessionStart
<1>2. ASSUME NEW s \in Sessions, NewSession(s) PROVE Extended(s)
  BY <1>2 DEF NewSession, Extended
<1>3. CASE SwitchedTo \/ ShutdownRejected
  <2>1. UNCHANGED entries \/ StartSession(life.target)
    BY <1>3 DEF SwitchedTo, ShutdownRejected
  <2> QED
    BY <2>1, StartSessionExtends DEF Extended
<1>4. CASE DefaultSaved
  <2>1. UNCHANGED entries \/ ~ conversation[current]
    BY <1>4 DEF DefaultSaved, HasConversation
  <2>2. UNCHANGED entries
          \/ \E recorded : entries' = [entries EXCEPT ![current] = recorded]
    BY <1>4 DEF DefaultSaved
  <2> QED
    BY <2>1, <2>2 DEF Extended
<1>5. CASE UNCHANGED entries
  BY <1>5 DEF Extended
<1>6. (\E h \in Hosts : StartStep(h) \/ HostCrashes(h) \/ HostForgotten(h)) => UNCHANGED entries
  BY DEF StartStep, HelloAnswered, SessionOpened, StartFailed, HostCrashes, HostForgotten, agent
<1>7. (\E t \in Turns : CallSession(t)) => UNCHANGED entries
  BY DEF CallSession
<1>8. \/ SessionShutdown \/ Dispose \/ MessageRecorded \/ CommandInvoked
      \/ CommandDeclined \/ DefaultSaveFails \/ (\E mode \in Modes : ModeSelected(mode))
      => UNCHANGED entries
  BY DEF SessionShutdown, Dispose, MessageRecorded, CommandInvoked, CommandDeclined,
         DefaultSaveFails, ModeSelected, agent
<1>9. Lifecycle => SwitchedTo \/ ShutdownRejected \/ DefaultSaved \/ UNCHANGED entries
  BY DEF Lifecycle, SessionClosed, HostClosed, SessionStopped, DisposeReturns, Install, agent
<1>10. UNCHANGED vars \/ UNCHANGED <<owner, agent>> => UNCHANGED entries
  BY DEF vars, agent
<1> QED
  BY <1>1, <1>2, <1>3, <1>4, <1>5, <1>6, <1>7, <1>8, <1>9, <1>10 DEF Next

(* Once a session file holds a message, the contract it records last stays.     *)
THEOREM SpecConversationKeepsMode == Spec => ConversationKeepsMode
<1>1. Init => EntriesInv
  BY DEF Init, EntriesInv
<1>2. EntriesInv /\ [Next]_vars => EntriesInv'
  BY NextExtends DEF EntriesInv, Extended
<1>3. EntriesInv /\ [Next]_vars =>
        [\A s \in Sessions : (conversation[s] /\ SessionContract(s) # None) =>
           SessionContract(s)' = SessionContract(s)]_vars
  <2> SUFFICES ASSUME EntriesInv, [Next]_vars, NEW s \in Sessions,
                      conversation[s], SessionContract(s) # None
               PROVE  SessionContract(s)' = SessionContract(s)
    OBVIOUS
  <2>1. PICK t : Extended(t)
    BY NextExtends
  <2>2. EntriesKept(s)
    BY <2>1 DEF EntriesKept, Extended, EntriesInv
  <2> QED
    BY <2>2 DEF EntriesKept, SessionContract
<1> QED
  BY <1>1, <1>2, <1>3, PTL DEF Spec, ConversationKeepsMode
------------------------------------------------------------------------------
(* The command line of the other process.                                       *)
ParseState ==
  [provider : Providers \cup {None}, mode : Modes \cup {None}, save : BOOLEAN,
   prompt : Seq(Options \cup Providers), want : {None, "--provider", "--mode"},
   rest : BOOLEAN, ends : BOOLEAN]

(* One argument: only an allowed value ever becomes the provider or the mode.   *)
LEMMA ParseArgumentType ==
  ASSUME NEW state \in ParseState, NEW arg \in Options \cup Providers
  PROVE  ParseArgument(state, arg) \in ParseState
<1>1. ParseValue(state, arg) \in ParseState
  <2>1. CASE arg \in Options \/ (state.want = "--mode" /\ arg \notin Modes)
    <3>1. ParseValue(state, arg) = [state EXCEPT !.ends = TRUE]
      BY <2>1 DEF ParseValue
    <3> QED
      BY <3>1 DEF ParseState
  <2>2. CASE arg \notin Options /\ state.want = "--mode" /\ arg \in Modes
    <3>1. ParseValue(state, arg) = [state EXCEPT !.mode = arg, !.want = None]
      BY <2>2 DEF ParseValue
    <3> QED
      BY <2>2, <3>1 DEF ParseState
  <2>3. CASE arg \notin Options /\ state.want # "--mode"
    <3>1. ParseValue(state, arg) = [state EXCEPT !.provider = arg, !.want = None]
      BY <2>3 DEF ParseValue
    <3> QED
      BY <2>3, <3>1 DEF ParseState
  <2> QED
    BY <2>1, <2>2, <2>3
<1>2. /\ [state EXCEPT !.rest = TRUE] \in ParseState
      /\ [state EXCEPT !.save = TRUE] \in ParseState
      /\ [state EXCEPT !.ends = TRUE] \in ParseState
      /\ arg \in {"--provider", "--mode"} => [state EXCEPT !.want = arg] \in ParseState
  BY DEF ParseState
<1>3. [state EXCEPT !.prompt = Append(@, arg)] \in ParseState
  <2>1. Append(state.prompt, arg) \in Seq(Options \cup Providers)
    BY DEF ParseState
  <2> QED
    BY <2>1 DEF ParseState
<1>4. ParseOption(state, arg) \in ParseState
  BY <1>2 DEF ParseOption
<1> QED
  BY <1>1, <1>3, <1>4 DEF ParseArgument

(* The whole command line: the recursion behind FoldLeft has a solution, and    *)
(* every value of it is a parse state.                                          *)
LEMMA ParseArgumentsType ==
  ASSUME NEW args \in Seq(Options \cup Providers)
  PROVE  ParseArguments(args) \in ParseState
<1> DEFINE n == Len(args)
           S == 1 .. n
           Parse(g, s) == IF s = {} THEN NoArguments
                          ELSE ParseArgument(g[s \ {Max(s)}], args[Max(s)])
           IsParse(g) == g = [s \in SUBSET (DOMAIN args) |-> Parse(g, s)]
           chosen == CHOOSE g : IsParse(g)
           step == [v \in ParseState |-> [i \in 1 .. n |-> ParseArgument(v, args[i])]]
<1>1. FoldLeft(ParseArgument, NoArguments, args) = chosen[DOMAIN args]
  BY DEF FoldLeft, MapThenFoldSet
<1>2. n \in Nat /\ DOMAIN args = S /\ \A i \in S : args[i] \in Options \cup Providers
  OBVIOUS
<1>3. NoArguments \in ParseState
  BY DEF NoArguments, ParseState
<1>4. step \in StepsOver(ParseState, n)
  BY <1>2, ParseArgumentType DEF StepsOver
<1>5. \A s \in SUBSET S : s # {} => Max(s) \in s
  BY <1>2, GreatestIndex
<1> HIDE DEF n, step
<1>6. PICK g \in [SUBSET S -> ParseState] :
        \A s \in SUBSET S : g[s] = FoldStep(g, step, NoArguments, s)
  <2>1. n \in Nat
    BY <1>2
  <2>2. \E g \in FoldsOver(ParseState, n) : IsFold(g, step, NoArguments, n)
    BY ONLY <1>3, <1>4, <2>1, FoldExists
  <2> QED
    BY <2>2 DEF FoldsOver, IsFold
<1>7. ASSUME NEW s \in SUBSET S PROVE g[s] = Parse(g, s)
  <2>1. CASE s = {}
    BY <1>6, <2>1 DEF FoldStep
  <2>2. CASE s # {}
    <3>1. Max(s) \in S /\ g[s \ {Max(s)}] \in ParseState
      BY <1>5, <1>6, <2>2
    <3>2. step[g[s \ {Max(s)}]][Max(s)] = ParseArgument(g[s \ {Max(s)}], args[Max(s)])
      BY ONLY <3>1 DEF step, S
    <3> QED
      BY <1>6, <2>2, <3>2 DEF FoldStep
  <2> QED
    BY <2>1, <2>2
<1>8. g = [s \in SUBSET S |-> Parse(g, s)]
  BY <1>6, <1>7
<1>9. IsParse(chosen)
  BY <1>2, <1>8
<1> HIDE DEF chosen, S
<1>10. \A s \in SUBSET S : chosen[s] = Parse(chosen, s)
  BY <1>2, <1>9
<1> DEFINE Wrong == {s \in SUBSET S : chosen[s] \notin ParseState}
<1>11. Wrong = {}
  <2>1. SUFFICES ASSUME Wrong # {} PROVE FALSE
    OBVIOUS
  <2>2. Wrong \in SUBSET (SUBSET S) /\ \A s \in SUBSET S : s \in Wrong <=> chosen[s] \notin ParseState
    OBVIOUS
  <2> HIDE DEF Wrong
  <2>3. IsFiniteSet(S)
    BY <1>2, FS_Interval DEF S
  <2>4. PICK s \in Wrong : \A t \in Wrong : ~(t \subseteq s /\ t # s)
    BY <2>1, <2>2, <2>3, SmallestSubset
  <2>5. s \in SUBSET S /\ chosen[s] \notin ParseState
    BY <2>2, <2>4
  <2>6. s # {}
    BY <1>3, <1>10, <2>5
  <2>7. Max(s) \in s
    BY <1>5, <2>5, <2>6
  <2>8. chosen[s \ {Max(s)}] \in ParseState
    BY <2>2, <2>4, <2>5, <2>7
  <2>9. ParseArgument(chosen[s \ {Max(s)}], args[Max(s)]) \in ParseState
    BY <1>2, <2>5, <2>7, <2>8, ParseArgumentType
  <2> QED
    BY <1>10, <2>5, <2>6, <2>9
<1>12. chosen[S] \in ParseState
  BY <1>11
<1> DEFINE state == FoldLeft(ParseArgument, NoArguments, args)
<1>13. state \in ParseState
  BY <1>1, <1>2, <1>12
<1>14. ParseArguments(args) = [state EXCEPT !.ends = state.ends \/ state.want # None]
  BY DEF ParseArguments
<1> HIDE DEF state
<1>15. (state.ends \/ state.want # None) \in BOOLEAN
  OBVIOUS
<1> QED
  BY <1>13, <1>14, <1>15 DEF ParseState

------------------------------------------------------------------------------
(* The settings: a file with the settings' own name is always complete.         *)
SettingsInv == SettingsTypeOK /\ SettingsWhole

(* Settings somebody can read are a configuration.                              *)
LEMMA LoadedType == ASSUME SettingsInv, ~ Unreadable PROVE Loaded \in Config
<1>1. files[SettingsPath] \in Config \cup {None}
  BY DEF SettingsInv, SettingsTypeOK, Unreadable, Paths, SettingsPath
<1>2. NoConfig \in Config
  BY DEF NoConfig, Config
<1> QED
  BY <1>1, <1>2 DEF Loaded

LEMMA OtherProcessKeepsSettings ==
  ASSUME SettingsInv, NEW args \in CommandLines, OtherProcess(args)
  PROVE  SettingsInv'
<1> DEFINE state == ParseArguments(args)
<1>1. state \in ParseState
  BY SettingsAssumption, ParseArgumentsType
<1> HIDE DEF state
<1>2. /\ ~ Unreadable /\ EffectiveConfig(state).provider # None
      /\ files' = [files EXCEPT ![SettingsPath] = EffectiveConfig(state)]
      /\ saving' = saving
  BY DEF OtherProcess, state
<1>3. Loaded \in Config
  BY <1>2, LoadedType
<1>4. EffectiveConfig(state) \in Config
  BY <1>1, <1>3 DEF EffectiveConfig, OrElse, Config, ParseState, DefaultMode, Modes
<1>5. EffectiveConfig(state) # Partial
  BY <1>4, SettingsAssumption
<1> HIDE DEF state
<1> QED
  BY <1>2, <1>4, <1>5 DEF SettingsInv, SettingsTypeOK, SettingsWhole, Paths, SettingsPath

(* The agent's save, which renames what it has written to the end.              *)
LEMMA SaveKeepsSettings ==
  ASSUME SettingsInv, SaveFill \/ SaveRename \/ SaveFail
  PROVE  SettingsInv'
<1>1. saving # Partial
  BY SettingsAssumption DEF SettingsInv, SettingsTypeOK
<1> QED
  BY <1>1 DEF SaveFill, SaveRename, SaveFail, SettingsInv, SettingsTypeOK, SettingsWhole,
              Paths, SettingsPath, TempPath

LEMMA NextKeepsSettings == ASSUME SettingsInv, [Next]_vars PROVE SettingsInv'
<1>1. CASE UNCHANGED settings
  BY <1>1 DEF settings, SettingsInv, SettingsTypeOK, SettingsWhole
<1>2. CASE SaveFill \/ SaveRename \/ SaveFail
  BY <1>2, SaveKeepsSettings
<1>3. ASSUME NEW args \in CommandLines, OtherProcess(args) PROVE SettingsInv'
  BY <1>3, OtherProcessKeepsSettings
<1>4. ASSUME NEW mode \in Modes, ModeSelected(mode) PROVE SettingsInv'
  <2>1. CASE Unreadable
    BY <1>1, <1>4, <2>1 DEF ModeSelected, settings
  <2>2. CASE ~ Unreadable
    <3>1. [Loaded EXCEPT !.mode = mode] \in Config
      BY <2>2, LoadedType DEF Config
    <3>2. SaveCreate([Loaded EXCEPT !.mode = mode])
      BY <1>4, <2>2 DEF ModeSelected
    <3> QED
      BY <3>1, <3>2 DEF SaveCreate, SettingsInv, SettingsTypeOK, SettingsWhole, Paths,
                        SettingsPath, TempPath
  <2> QED
    BY <2>1, <2>2
<1>5. Lifecycle => UNCHANGED settings \/ SaveFill \/ SaveRename
  BY DEF Lifecycle, SessionClosed, HostClosed, ShutdownRejected, SessionStopped, SwitchedTo,
         DisposeReturns, Install, DefaultSaved
<1>6. \A s \in Sessions : SessionStart(s) \/ NewSession(s) => UNCHANGED settings
  BY DEF SessionStart, NewSession
<1>7. SessionShutdown \/ Dispose \/ CommandInvoked \/ CommandDeclined => UNCHANGED settings
  BY DEF SessionShutdown, Dispose, CommandInvoked, CommandDeclined
<1>8. \A h \in Hosts : StartStep(h) \/ HostCrashes(h) \/ HostForgotten(h) => UNCHANGED settings
  BY DEF StartStep, HelloAnswered, SessionOpened, StartFailed, HostCrashes, HostForgotten
<1>9. \A t \in Turns : CallSession(t) => UNCHANGED settings
  BY DEF CallSession
<1>10. MessageRecorded => UNCHANGED settings
  BY DEF MessageRecorded
<1>11. DefaultSaveFails => SaveFail
  BY DEF DefaultSaveFails
<1>12. UNCHANGED vars => UNCHANGED settings
  BY DEF vars
<1> QED
  BY <1>1, <1>2, <1>3, <1>4, <1>5, <1>6, <1>7, <1>8, <1>9, <1>10, <1>11, <1>12 DEF Next

LEMMA InitSettings == Init => SettingsInv
<1>1. [provider |-> None, mode |-> "pi"] \in Config
  BY DEF Config, Modes
<1> QED
  BY <1>1, SettingsAssumption DEF Init, SettingsInit, SettingsInv, SettingsTypeOK,
     SettingsWhole, Paths, SettingsPath

(* Whatever the two processes do, and wherever they are killed: nobody ever      *)
(* reads a settings file that is only partly written.                           *)
THEOREM SpecSettingsWhole == Spec => []SettingsWhole
<1>1. SettingsInv /\ [Next]_vars => SettingsInv'
  BY NextKeepsSettings
<1>2. SettingsInv => SettingsWhole
  BY DEF SettingsInv
<1> QED
  BY InitSettings, <1>1, <1>2, PTL DEF Spec

------------------------------------------------------------------------------
(* The contracts: what is recorded is read back unchanged.                      *)
ContractEntries == Contract \cup {Unsupported}

PiBuiltins == {"read", "bash", "powershell", "edit", "write", "grep", "find", "ls"}
NamedIn(builtin, names) == IF builtin \in ToSet(names) THEN <<builtin>> ELSE <<>>

(* A sequence that holds at most one given name.                                *)
LEMMA NamedFacts ==
  ASSUME NEW builtin \in PiBuiltins, NEW names
  PROVE  /\ NamedIn(builtin, names) \in Seq(PiBuiltins)
         /\ ToSet(NamedIn(builtin, names)) = {builtin} \cap ToSet(names)
<1>1. ToSet(<<builtin>>) = {builtin}
  <2>1. DOMAIN <<builtin>> = {1} /\ <<builtin>>[1] = builtin
    OBVIOUS
  <2> DEFINE list == <<builtin>>
  <2> HIDE DEF list
  <2>2. DOMAIN list = {1} /\ list[1] = builtin
    BY <2>1 DEF list
  <2>3. {list[i] : i \in DOMAIN list} = {builtin}
    BY ONLY <2>2
  <2> QED
    BY <2>3 DEF ToSet, list
<1>2. ToSet(<<>>) = {}
  <2>1. DOMAIN <<>> = {}
    OBVIOUS
  <2> QED
    BY <2>1 DEF ToSet
<1>3. CASE builtin \in ToSet(names)
  <2>1. NamedIn(builtin, names) = <<builtin>> /\ <<builtin>> \in Seq(PiBuiltins)
    BY <1>3 DEF NamedIn
  <2> QED
    BY <1>1, <1>3, <2>1
<1>4. CASE builtin \notin ToSet(names)
  <2>1. NamedIn(builtin, names) = <<>> /\ <<>> \in Seq(PiBuiltins)
    BY <1>4 DEF NamedIn
  <2> QED
    BY <1>2, <1>4, <2>1
<1> QED
  BY <1>3, <1>4

(* Two sequences in a row hold what either of them holds.                       *)
LEMMA ToSetConcat ==
  ASSUME NEW S, NEW s \in Seq(S), NEW t \in Seq(S)
  PROVE  s \o t \in Seq(S) /\ ToSet(s \o t) = ToSet(s) \cup ToSet(t)
<1>1. /\ s \o t \in Seq(S) /\ Len(s \o t) = Len(s) + Len(t)
      /\ \A i \in 1 .. Len(s) : (s \o t)[i] = s[i]
      /\ \A i \in 1 .. Len(t) : (s \o t)[Len(s) + i] = t[i]
  BY ConcatFacts
<1>2. ToSet(s) = {s[i] : i \in 1 .. Len(s)} /\ ToSet(t) = {t[i] : i \in 1 .. Len(t)}
  BY DEF ToSet
<1>3. ToSet(s \o t) = {(s \o t)[i] : i \in 1 .. Len(s) + Len(t)}
  BY <1>1 DEF ToSet
<1>4. ASSUME NEW x \in ToSet(s \o t) PROVE x \in ToSet(s) \cup ToSet(t)
  <2>1. PICK i \in 1 .. Len(s) + Len(t) : x = (s \o t)[i]
    BY <1>3, <1>4
  <2>2. CASE i \in 1 .. Len(s)
    BY <1>1, <1>2, <2>1, <2>2
  <2>3. CASE i \notin 1 .. Len(s)
    <3>1. PICK j \in 1 .. Len(t) : i = Len(s) + j
      <4>1. i - Len(s) \in 1 .. Len(t)
        BY <2>3
      <4> QED
        BY <4>1
    <3> QED
      BY <1>1, <1>2, <2>1, <3>1
  <2> QED
    BY <2>2, <2>3
<1>5. \A i \in 1 .. Len(s) : i \in 1 .. Len(s) + Len(t)
  OBVIOUS
<1>6. \A i \in 1 .. Len(t) : Len(s) + i \in 1 .. Len(s) + Len(t)
  OBVIOUS
<1>7. ToSet(s) \cup ToSet(t) \subseteq ToSet(s \o t)
  BY <1>1, <1>2, <1>3, <1>5, <1>6
<1> QED
  BY <1>1, <1>4, <1>7

(* What normalising keeps is those of the names that are pi's own tools.        *)
LEMMA NormalizeKeepsNames ==
  ASSUME NEW names
  PROVE  ToSet(NormalizeBuiltins(names)) = PiBuiltins \cap ToSet(names)
<1> DEFINE n1 == NamedIn("read", names)
           n2 == n1 \o NamedIn("bash", names)
           n3 == n2 \o NamedIn("powershell", names)
           n4 == n3 \o NamedIn("edit", names)
           n5 == n4 \o NamedIn("write", names)
           n6 == n5 \o NamedIn("grep", names)
           n7 == n6 \o NamedIn("find", names)
           n8 == n7 \o NamedIn("ls", names)
           b1 == {"read"}
           b2 == b1 \cup {"bash"}
           b3 == b2 \cup {"powershell"}
           b4 == b3 \cup {"edit"}
           b5 == b4 \cup {"write"}
           b6 == b5 \cup {"grep"}
           b7 == b6 \cup {"find"}
           b8 == b7 \cup {"ls"}
<1>0. NormalizeBuiltins(names) = n8
  BY DEF NormalizeBuiltins, NamedIn
<1>1. \A builtin \in PiBuiltins :
        /\ NamedIn(builtin, names) \in Seq(PiBuiltins)
        /\ ToSet(NamedIn(builtin, names)) = {builtin} \cap ToSet(names)
  BY NamedFacts
<1> DEFINE Holds(list, builtins) ==
      list \in Seq(PiBuiltins) /\ ToSet(list) = builtins \cap ToSet(names)
<1>2. \A builtin \in PiBuiltins : Holds(NamedIn(builtin, names), {builtin})
  BY <1>1
<1>3. ASSUME NEW list, NEW builtins, Holds(list, builtins), NEW builtin \in PiBuiltins
      PROVE  Holds(list \o NamedIn(builtin, names), builtins \cup {builtin})
  BY <1>1, <1>3, ToSetConcat
<1> HIDE DEF Holds
<1>4. b8 = PiBuiltins
  BY DEF PiBuiltins
<1>5. /\ "read" \in PiBuiltins /\ "bash" \in PiBuiltins /\ "powershell" \in PiBuiltins
      /\ "edit" \in PiBuiltins /\ "write" \in PiBuiltins /\ "grep" \in PiBuiltins
      /\ "find" \in PiBuiltins /\ "ls" \in PiBuiltins
  BY DEF PiBuiltins
<1>6. Holds(n1, b1)
  BY ONLY <1>2, <1>5
<1> HIDE DEF n1, b1
<1>7. Holds(n2, b2)
  BY ONLY <1>3, <1>6, <1>5
<1> HIDE DEF n2, b2
<1>8. Holds(n3, b3)
  BY ONLY <1>3, <1>7, <1>5
<1> HIDE DEF n3, b3
<1>9. Holds(n4, b4)
  BY ONLY <1>3, <1>8, <1>5
<1> HIDE DEF n4, b4
<1>10. Holds(n5, b5)
  BY ONLY <1>3, <1>9, <1>5
<1> HIDE DEF n5, b5
<1>11. Holds(n6, b6)
  BY ONLY <1>3, <1>10, <1>5
<1> HIDE DEF n6, b6
<1>12. Holds(n7, b7)
  BY ONLY <1>3, <1>11, <1>5
<1> HIDE DEF n7, b7
<1>13. Holds(n8, b8)
  BY ONLY <1>3, <1>12, <1>5
<1> HIDE DEF b8
<1> QED
  BY <1>0, <1>13, <1>4 DEF Holds

(* Normalising twice is normalising once, and nothing stays nothing.            *)
LEMMA NormalizeOnce ==
  /\ \A names : NormalizeBuiltins(NormalizeBuiltins(names)) = NormalizeBuiltins(names)
  /\ NormalizeBuiltins(<<>>) = <<>>
<1>1. ASSUME NEW names
      PROVE  NormalizeBuiltins(NormalizeBuiltins(names)) = NormalizeBuiltins(names)
  <2> DEFINE normal == NormalizeBuiltins(names)
  <2>1. \A builtin \in PiBuiltins : builtin \in ToSet(normal) <=> builtin \in ToSet(names)
    BY NormalizeKeepsNames
  <2> HIDE DEF normal
  <2>2. \A builtin \in PiBuiltins : NamedIn(builtin, normal) = NamedIn(builtin, names)
    BY <2>1 DEF NamedIn
  <2> DEFINE Listed(list) ==
        NamedIn("read", list) \o NamedIn("bash", list) \o NamedIn("powershell", list)
          \o NamedIn("edit", list) \o NamedIn("write", list) \o NamedIn("grep", list)
          \o NamedIn("find", list) \o NamedIn("ls", list)
  <2>3. Listed(normal) = Listed(names)
    BY <2>2 DEF PiBuiltins
  <2>4. \A list : NormalizeBuiltins(list) = Listed(list)
    BY DEF NormalizeBuiltins, NamedIn
  <2> HIDE DEF Listed
  <2> QED
    BY <2>3, <2>4 DEF normal
<1>2. NormalizeBuiltins(<<>>) = <<>>
  BY DEF NormalizeBuiltins, ToSet
<1> QED
  BY <1>1, <1>2

(* The contract of a new session is one, and reading it back changes nothing.   *)
LEMMA CreatedFacts ==
  ASSUME NEW mode \in Modes, NEW baseline
  PROVE  /\ NewContract(mode, baseline) \in Contract
         /\ Parsed[NewContract(mode, baseline)] = NewContract(mode, baseline)
<1> DEFINE names == ActivePiBuiltins(baseline)
           contract == NewContract(mode, baseline)
<1>1. names \in {<<>>, ActiveBuiltins}
  BY DEF ActivePiBuiltins
<1>2. contract = [mode |-> mode,
                  builtins |-> IF mode = "pi" THEN NormalizeBuiltins(names) ELSE <<>>]
  BY <1>1 DEF NewContract, CreatedContract, CreateContract
<1> HIDE DEF names, contract
<1>3. contract \in Contract
  BY <1>1, <1>2, NormalizeOnce DEF Contract, Modes
<1>4. Parsed[contract] = CreateContract(contract.mode, contract.builtins)
  BY <1>3, ExtensionAssumption DEF Parsed, ParseContract
<1>5. CreateContract(contract.mode, contract.builtins) = contract
  BY <1>2, NormalizeOnce DEF CreateContract
<1> QED
  BY <1>3, <1>4, <1>5 DEF contract

(* An entry of a session file is read as a contract or passed over.             *)
LEMMA ParsedType == \A entry \in ContractEntries : Parsed[entry] \in ContractEntries
<1> SUFFICES ASSUME NEW entry \in ContractEntries PROVE ParseContract(entry) \in ContractEntries
  BY DEF Parsed, ContractEntries
<1>1. CASE entry = Unsupported
  BY <1>1 DEF ParseContract, ContractEntries
<1>2. CASE entry # Unsupported
  <2>1. /\ entry.mode \in Modes
        /\ entry.builtins \in {NormalizeBuiltins(<<>>), NormalizeBuiltins(ActiveBuiltins),
                               NormalizeBuiltins(DefaultBuiltins)}
    BY <1>2 DEF ContractEntries, Contract
  <2>2. NormalizeBuiltins(entry.builtins) = entry.builtins
    BY <2>1, NormalizeOnce
  <2>3. CreateContract(entry.mode, entry.builtins) \in Contract
    BY <2>1, <2>2, NormalizeOnce DEF CreateContract, Contract
  <2> QED
    BY <1>2, <2>3 DEF ParseContract, ContractEntries
<1> QED
  BY <1>1, <1>2

(* The recorded contract is a contract, if there is one.                        *)
LEMMA SessionContractType ==
  ASSUME NEW s \in Sessions, entries[s] \in Seq(ContractEntries)
  PROVE  SessionContract(s) \in Contract \cup {None}
<1> DEFINE supported == {i \in DOMAIN entries[s] : Parsed[entries[s][i]] # Unsupported}
<1>1. SessionContract(s) = IF supported = {} THEN None ELSE Parsed[entries[s][Max(supported)]]
  BY DEF SessionContract
<1>2. supported \in SUBSET (1 .. Len(entries[s])) /\ Len(entries[s]) \in Nat
  OBVIOUS
<1>3. \A i \in supported : Parsed[entries[s][i]] \in Contract
  BY ParsedType DEF ContractEntries
<1> HIDE DEF supported
<1>4. supported # {} => Max(supported) \in supported
  BY <1>2, GreatestIndex
<1> QED
  BY <1>1, <1>3, <1>4

(* A contract recorded last is the recorded contract.                           *)
LEMMA RecordedLast ==
  ASSUME NEW s \in Sessions, entries[s] \in Seq(ContractEntries),
         NEW c \in Contract, Parsed[c] = c, entries'[s] = Append(entries[s], c)
  PROVE  SessionContract(s)' = c
<1> DEFINE n == Len(entries[s]) + 1
           supported == {i \in DOMAIN entries'[s] : Parsed[entries'[s][i]] # Unsupported}
<1>1. SessionContract(s)' = IF supported = {} THEN None ELSE Parsed[entries'[s][Max(supported)]]
  BY DEF SessionContract, Parsed
<1>2. n \in Nat /\ DOMAIN entries'[s] = 1 .. n /\ entries'[s][n] = c
  OBVIOUS
<1>3. n \in supported /\ \A i \in supported : i \in 1 .. n
  BY <1>2, ExtensionAssumption
<1> HIDE DEF n, supported
<1>4. \A i \in supported : n >= i
  BY <1>2, <1>3
<1>5. Max(supported) = n
  <2>1. \A m \in supported : (\A i \in supported : m >= i) => m = n
    BY <1>2, <1>3, <1>4
  <2> QED
    BY <1>3, <1>4, <2>1 DEF Max
<1> QED
  BY <1>1, <1>2, <1>3, <1>5
------------------------------------------------------------------------------
(* Type correctness.  A handler that goes on to another session file knows      *)
(* which, and one that saves the settings knows the mode that was selected.     *)
Owners == Hosts \cup {None}
Operations == {None, "configure", "undo", "stop", "switch", "dispose"}
Runtimes(tools) ==
  [session : Owners, manager : Owners, starting : Owners, workspace : BOOLEAN,
   contract : Contract \cup {None}, tools : {tools}]
Handlers ==
  [phase : Phases, op : Operations, host : Owners, workspace : BOOLEAN,
   target : Sessions \cup {None}, mode : Modes \cup {None}]

RuntimeType ==
  /\ rt \in Runtimes(rt.tools)
  /\ host \in [Hosts -> States] /\ waits \in [Callers -> Owners]
HandlerType ==
  /\ life \in Handlers
  /\ life.op = "switch" => life.target \in Sessions
  /\ life.phase = "switching" => life.op = "switch"
  /\ life.phase \in {"saving", "confirming"} => life.mode \in Modes
AgentType ==
  /\ current \in Sessions \cup {None}
  /\ ext \in [contract : Contract \cup {None}, baseline : {None, "user", "empty"},
              registrations : Registrations \cup {<<>>}]
  /\ active \in {"user", "code", "empty"}
  /\ entries \in [Sessions -> Seq(ContractEntries)]
  /\ conversation \in [Sessions -> BOOLEAN] /\ rejected \in BOOLEAN

DataType == RuntimeType /\ HandlerType /\ AgentType
TypeInv == DataType /\ SavingInv /\ SettingsInv

LEMMA TypeInvImpliesTypeOK == TypeInv => TypeOK
<1> SUFFICES ASSUME TypeInv PROVE TypeOK
  OBVIOUS
<1>1. \A s \in Sessions : ToSet(entries[s]) \subseteq Contract \cup {Unsupported}
  <2> SUFFICES ASSUME NEW s \in Sessions, NEW i \in DOMAIN entries[s]
               PROVE  entries[s][i] \in Contract \cup {Unsupported}
    BY DEF ToSet
  <2>1. entries[s] \in Seq(ContractEntries)
    BY DEF TypeInv, DataType, AgentType
  <2> QED
    BY <2>1 DEF ContractEntries
<1>2. DOMAIN rt = DOMAIN NoRuntime
  BY DEF TypeInv, DataType, RuntimeType, Runtimes, NoRuntime
<1>3. /\ rt.session \in Hosts \cup {None} /\ rt.manager \in Hosts \cup {None}
      /\ rt.starting \in Hosts \cup {None} /\ rt.workspace \in BOOLEAN
      /\ rt.contract \in Contract \cup {None}
  BY DEF TypeInv, DataType, RuntimeType, Runtimes, Owners
<1> QED
  BY <1>1, <1>2, <1>3 DEF TypeInv, DataType, RuntimeType, HandlerType, AgentType, SettingsInv,
     Handlers, Owners, Operations, Phases, States, TypeOK

(* The three parts of a step that leaves the others alone.                      *)
LEMMA TypeFrames ==
  ASSUME DataType
  PROVE  /\ UNCHANGED <<rt, host, waits>> => RuntimeType'
         /\ life' = Idle \/ UNCHANGED life => HandlerType'
         /\ UNCHANGED agent => AgentType'
<1>1. UNCHANGED <<rt, host, waits>> => RuntimeType'
  BY DEF DataType, RuntimeType, Runtimes
<1>2. life' = Idle => HandlerType'
  BY ExtensionAssumption DEF HandlerType, Handlers, Idle, Phases, Operations, Owners
<1>3. UNCHANGED life => HandlerType'
  BY DEF DataType, HandlerType
<1>4. UNCHANGED agent => AgentType'
  BY DEF DataType, AgentType, agent
<1> QED
  BY <1>1, <1>2, <1>3, <1>4

LEMMA ShutdownTypes ==
  ASSUME NEW runtime, runtime.session \in Owners, runtime.workspace \in BOOLEAN,
         NEW op \in Operations, NEW target \in Sessions \cup {None},
         op = "switch" => target \in Sessions,
         Shutdown(runtime, op, target)
  PROVE  rt' \in Runtimes(rt'.tools) /\ HandlerType'
<1>1. rt' \in Runtimes(rt'.tools)
  BY DEF Shutdown, NoRuntime, Runtimes, Owners
<1>2. PICK phase \in {"closed", "closing"} :
        life' = [phase |-> phase, op |-> op, host |-> runtime.session,
                 workspace |-> runtime.workspace, target |-> target, mode |-> None]
  BY DEF Shutdown, Idle
<1>3. HandlerType'
  BY <1>2 DEF HandlerType, Handlers, Phases
<1> QED
  BY <1>1, <1>3

LEMMA AwaitTypes ==
  ASSUME DataType, NEW runtime, runtime \in Runtimes(runtime.tools), NEW caller \in Callers,
         AwaitSession(runtime, caller)
  PROVE  RuntimeType'
<1>1. CASE rt' = runtime /\ UNCHANGED <<host, waits>>
  BY <1>1 DEF DataType, RuntimeType
<1>2. CASE /\ runtime.starting # None /\ rt' = runtime /\ UNCHANGED host
           /\ waits' = [waits EXCEPT ![caller] = runtime.starting]
  <2>1. runtime.starting \in Owners
    BY DEF Runtimes
  <2> QED
    BY <1>2, <2>1 DEF DataType, RuntimeType
<1>3. CASE Unused # {} /\ ~ (rt' = runtime)
  <2> DEFINE h == CHOOSE g \in Unused : TRUE
  <2>1. /\ host' = [host EXCEPT ![h] = "spawned"]
        /\ rt' = [runtime EXCEPT !.starting = h]
        /\ waits' = [waits EXCEPT ![caller] = h]
    BY <1>3 DEF AwaitSession
  <2>2. h \in Hosts
    <3>1. h \in Unused
      BY <1>3
    <3> QED
      BY <3>1 DEF Unused
  <2> HIDE DEF h
  <2>3. rt' \in Runtimes(rt'.tools)
    BY <2>1, <2>2 DEF Runtimes, Owners
  <2> QED
    BY <2>1, <2>2, <2>3 DEF DataType, RuntimeType, Owners, States
<1>4. CASE Unused # {} /\ rt' = runtime /\ runtime.starting = None /\ runtime.session = None
  <2> DEFINE h == CHOOSE g \in Unused : TRUE
  <2>1. /\ host' = [host EXCEPT ![h] = "spawned"]
        /\ waits' = [waits EXCEPT ![caller] = h]
    BY <1>4 DEF AwaitSession, DataType, RuntimeType
  <2> QED
    BY <1>4, <2>1 DEF DataType, RuntimeType, Owners, States, Unused
<1> QED
  BY <1>1, <1>2, <1>3, <1>4 DEF AwaitSession

LEMMA ConfiguredModeType ==
  ASSUME SettingsInv, ModeOption # None \/ ~ Unreadable
  PROVE  ConfiguredMode \in Modes
<1>1. CASE ModeOption # None
  BY <1>1, ExtensionAssumption DEF ConfiguredMode
<1>2. CASE ModeOption = None
  <2>1. Loaded.mode \in Modes \cup {None}
    BY <1>2, LoadedType DEF Config
  <2> QED
    BY <1>2, <2>1 DEF ConfiguredMode, OrElse, DefaultMode, Modes
<1> QED
  BY <1>1, <1>2

(* What session_start reads and records.                                        *)
LEMMA StartFacts ==
  ASSUME DataType, SettingsInv, NEW s \in Sessions, StartSession(s)
  PROVE  /\ current' = s /\ rejected' = FALSE
         /\ ext' \in [contract : Contract \cup {None}, baseline : {None, "user", "empty"},
                      registrations : Registrations \cup {<<>>}]
         /\ entries' \in [Sessions -> Seq(ContractEntries)]
         /\ \/ rt' = rt /\ life' = Idle
            \/ /\ Shutdown(rt, "configure", None)
               /\ ext'.contract # None /\ ext'.contract = SessionContract(s)'
<1> USE ExtensionAssumption
<1> DEFINE baseline == IF active = "user" THEN "user" ELSE ext.baseline
           recorded == SessionContract(s)
           contract == StartingContract(s, baseline)
<1>1. PICK registered \in Registrations :
        /\ current' = s /\ rejected' = FALSE
        /\ IF recorded = None /\ ModeOption = None /\ Unreadable
           THEN /\ ext' = [ext EXCEPT !.baseline = baseline, !.registrations = registered]
                /\ life' = Idle /\ UNCHANGED <<rt, entries>>
           ELSE /\ ext' = [[ext EXCEPT !.baseline = baseline, !.registrations = registered]
                             EXCEPT !.contract = contract]
                /\ entries' = IF recorded # None THEN entries
                              ELSE [entries EXCEPT ![s] = Append(@, contract)]
                /\ Shutdown(rt, "configure", None)
  BY DEF StartSession
<1>2. baseline \in {None, "user", "empty"}
  BY DEF DataType, AgentType
<1>3. recorded \in Contract \cup {None} /\ entries[s] \in Seq(ContractEntries)
  BY SessionContractType DEF DataType, AgentType
<1> HIDE DEF baseline
<1>4. CASE recorded = None /\ ModeOption = None /\ Unreadable
  <2>1. /\ current' = s /\ rejected' = FALSE /\ life' = Idle /\ UNCHANGED <<rt, entries>>
        /\ ext' = [ext EXCEPT !.baseline = baseline, !.registrations = registered]
    BY <1>1, <1>4
  <2> HIDE DEF recorded, contract
  <2>2. ext' \in [contract : Contract \cup {None}, baseline : {None, "user", "empty"},
                  registrations : Registrations \cup {<<>>}]
    BY <1>2, <2>1 DEF DataType, AgentType
  <2> QED
    BY <2>1, <2>2 DEF DataType, AgentType
<1>5. CASE ~ (recorded = None /\ ModeOption = None /\ Unreadable)
  <2>1. recorded # None => contract = recorded
    BY DEF StartingContract
  <2>2. recorded = None => contract \in Contract /\ Parsed[contract] = contract
    <3> SUFFICES ASSUME recorded = None
                 PROVE  contract \in Contract /\ Parsed[contract] = contract
      OBVIOUS
    <3>1. contract = NewContract(ConfiguredMode, baseline)
      BY DEF StartingContract
    <3>2. ConfiguredMode \in Modes
      BY <1>5, ConfiguredModeType
    <3> QED
      BY <3>1, <3>2, CreatedFacts
  <2> HIDE DEF recorded, contract
  <2>3. contract \in Contract /\ contract # None
    <3>1. recorded # None => recorded \in Contract
      BY <1>3
    <3> QED
      BY <2>1, <2>2, <3>1
  <2>4. ext' \in [contract : {contract}, baseline : {None, "user", "empty"},
                  registrations : Registrations \cup {<<>>}]
    BY <1>1, <1>2, <1>5 DEF DataType, AgentType
  <2>5. CASE recorded # None
    <3>1. entries' = entries
      BY <1>1, <1>5, <2>5
    <3>2. SessionContract(s)' = SessionContract(s)
      BY <3>1 DEF SessionContract, Parsed
    <3> QED
      BY <1>1, <1>5, <2>1, <2>3, <2>4, <2>5, <3>1, <3>2 DEF DataType, AgentType, recorded
  <2>6. CASE recorded = None
    <3>1. entries' = [entries EXCEPT ![s] = Append(@, contract)]
      BY <1>1, <1>5, <2>6
    <3>2. Append(entries[s], contract) \in Seq(ContractEntries)
      BY <1>3, <2>3 DEF ContractEntries
    <3>3. entries' \in [Sessions -> Seq(ContractEntries)] /\ entries'[s] = Append(entries[s], contract)
      BY <3>1, <3>2 DEF DataType, AgentType
    <3>4. SessionContract(s)' = contract
      BY <1>3, <2>2, <2>6, <3>3, RecordedLast
    <3> QED
      BY <1>1, <1>5, <2>3, <2>4, <3>3, <3>4
  <2> QED
    BY <2>5, <2>6
<1> QED
  BY <1>4, <1>5
LEMMA StartSessionTypes ==
  ASSUME DataType, SettingsInv, NEW s \in Sessions, StartSession(s),
         UNCHANGED <<host, waits, active, conversation>>
  PROVE  DataType'
<1>1. /\ current' = s /\ rejected' = FALSE
      /\ ext' \in [contract : Contract \cup {None}, baseline : {None, "user", "empty"},
                   registrations : Registrations \cup {<<>>}]
      /\ entries' \in [Sessions -> Seq(ContractEntries)]
      /\ \/ rt' = rt /\ life' = Idle
         \/ Shutdown(rt, "configure", None)
  BY StartFacts
<1>2. AgentType'
  BY <1>1 DEF DataType, AgentType
<1>3. CASE rt' = rt /\ life' = Idle
  BY <1>2, <1>3, TypeFrames DEF DataType
<1>4. CASE Shutdown(rt, "configure", None)
  <2>1. rt.session \in Owners /\ rt.workspace \in BOOLEAN
    BY DEF DataType, RuntimeType, Runtimes
  <2>2. rt' \in Runtimes(rt'.tools) /\ HandlerType'
    BY <1>4, <2>1, ShutdownTypes, ExtensionAssumption DEF Operations
  <2> QED
    BY <1>2, <2>2 DEF DataType, RuntimeType
<1> QED
  BY <1>1, <1>3, <1>4

(* A shutdown of the runtime itself.                                            *)
LEMMA ShutdownKeepsTypes ==
  ASSUME DataType, NEW op \in Operations, NEW target \in Sessions \cup {None},
         op = "switch" => target \in Sessions,
         Shutdown(rt, op, target), UNCHANGED <<host, waits>>
  PROVE  RuntimeType' /\ HandlerType'
<1>1. rt.session \in Owners /\ rt.workspace \in BOOLEAN
  BY DEF DataType, RuntimeType, Runtimes
<1>2. rt' \in Runtimes(rt'.tools) /\ HandlerType'
  BY <1>1, ShutdownTypes
<1> QED
  BY <1>2 DEF DataType, RuntimeType

(* The tools the agent offers and those it had before.                          *)
LEMMA ActivatedTypes ==
  ASSUME DataType, ext' = Activated(ext), active' = "code",
         UNCHANGED <<current, entries, conversation, rejected>>
  PROVE  AgentType'
<1>1. ext' \in [contract : Contract \cup {None}, baseline : {None, "user", "empty"},
                registrations : Registrations \cup {<<>>}]
  BY DEF Activated, DataType, AgentType
<1> QED
  BY <1>1 DEF DataType, AgentType

(* Recording a contract in a session file.                                      *)
LEMMA RecordedTypes ==
  ASSUME DataType, NEW s \in Sessions, NEW c \in Contract,
         \/ entries' = [entries EXCEPT ![s] = Append(@, c)]
         \/ entries' = [entries EXCEPT ![s] = <<c>>]
  PROVE  entries' \in [Sessions -> Seq(ContractEntries)]
<1>1. entries \in [Sessions -> Seq(ContractEntries)] /\ c \in ContractEntries
  BY DEF DataType, AgentType, ContractEntries
<1>2. Append(entries[s], c) \in Seq(ContractEntries) /\ <<c>> \in Seq(ContractEntries)
  BY <1>1
<1> QED
  BY <1>1, <1>2

LEMMA LifecycleTypes ==
  ASSUME TypeInv, Lifecycle
  PROVE  DataType'
<1> USE ExtensionAssumption
<1>0. DataType /\ SettingsInv /\ SavingInv
  BY DEF TypeInv
<1>1. CASE SessionClosed
  <2>1. HandlerType'
    BY <1>0, <1>1 DEF SessionClosed, DataType, HandlerType, Handlers, Phases
  <2> QED
    BY <1>0, <1>1, <2>1, TypeFrames DEF SessionClosed, DataType
<1>2. CASE HostClosed
  <2>1. life' = [life EXCEPT !.phase = "closed", !.host = None, !.workspace = FALSE]
    BY <1>2 DEF HostClosed
  <2>2. HandlerType'
    BY <1>0, <2>1 DEF DataType, HandlerType, Handlers, Phases, Owners
  <2>3. RuntimeType'
    BY <1>0, <1>2 DEF HostClosed, DataType, RuntimeType, Runtimes, States
  <2> QED
    BY <1>0, <1>2, <2>2, <2>3, TypeFrames DEF HostClosed, DataType
<1>3. CASE ShutdownRejected
  <2>1. CASE life.op = "switch"
    <3>1. life.target \in Sessions /\ StartSession(life.target)
      BY <1>0, <1>3, <2>1 DEF ShutdownRejected, DataType, HandlerType
    <3> QED
      BY <1>0, <1>3, <3>1, StartSessionTypes DEF ShutdownRejected
  <2>2. CASE life.op # "switch"
    <3>1. /\ life' = Idle /\ rejected' = TRUE /\ current' \in {current, None}
          /\ UNCHANGED <<rt, host, waits, ext, active, entries, conversation>>
      BY <1>3, <2>2 DEF ShutdownRejected
    <3>2. AgentType'
      BY <1>0, <3>1 DEF DataType, AgentType
    <3> QED
      BY <1>0, <3>1, <3>2, TypeFrames DEF DataType
  <2> QED
    BY <2>1, <2>2
<1>4. CASE SessionStopped
  <2>1. /\ UNCHANGED <<rt, host, waits, entries, conversation, rejected>>
        /\ current' = None /\ ext' = [ext EXCEPT !.baseline = None]
        /\ active' = IF ext.baseline = None THEN active ELSE ext.baseline
        /\ life' = Idle \/ (life.op = "switch" /\ life' = [life EXCEPT !.phase = "switching"])
    BY <1>4 DEF SessionStopped
  <2>2. AgentType'
    BY <1>0, <2>1 DEF DataType, AgentType
  <2>3. HandlerType'
    <3>1. CASE life' = Idle
      BY <1>0, <3>1, TypeFrames
    <3>2. CASE life.op = "switch" /\ life' = [life EXCEPT !.phase = "switching"]
      BY <1>0, <3>2 DEF DataType, HandlerType, Handlers, Phases
    <3> QED
      BY <2>1, <3>1, <3>2
  <2> QED
    BY <1>0, <2>1, <2>2, <2>3, TypeFrames DEF DataType
<1>5. CASE SwitchedTo
  <2>1. life.target \in Sessions /\ StartSession(life.target)
    BY <1>0, <1>5 DEF SwitchedTo, DataType, HandlerType
  <2> QED
    BY <1>0, <1>5, <2>1, StartSessionTypes DEF SwitchedTo
<1>6. CASE DisposeReturns
  BY <1>0, <1>6, TypeFrames DEF DisposeReturns, DataType
<1>7. CASE Install
  <2>1. CASE Offered = Refused
    <3>1. Shutdown(rt, "undo", None) /\ UNCHANGED <<host, waits, agent>>
      BY <1>7, <2>1 DEF Install, agent
    <3> QED
      BY <1>0, <3>1, ShutdownKeepsTypes, TypeFrames DEF DataType, Operations
  <2>2. CASE Offered # Refused
    <3> DEFINE runtime == [rt EXCEPT !.workspace = TRUE, !.contract = ext.contract,
                                     !.tools = Offered]
    <3>1. /\ AwaitSession(runtime, "life")
          /\ \/ life' = Idle /\ active' = "code" /\ ext' = Activated(ext)
             \/ life' = [life EXCEPT !.phase = "starting"] /\ UNCHANGED <<active, ext>>
          /\ UNCHANGED <<current, entries, conversation, rejected>>
      BY <1>7, <2>2 DEF Install
    <3>2. runtime \in Runtimes(runtime.tools)
      <4>1. ext.contract \in Contract \cup {None}
        BY <1>0 DEF DataType, AgentType
      <4> QED
        BY <1>0, <4>1 DEF DataType, RuntimeType, Runtimes
    <3> HIDE DEF runtime
    <3>3. RuntimeType'
      BY <1>0, <3>1, <3>2, AwaitTypes DEF Callers
    <3>4. AgentType'
      BY <1>0, <3>1, ActivatedTypes, TypeFrames DEF agent
    <3>5. HandlerType'
      <4>1. CASE life' = Idle
        BY <1>0, <4>1, TypeFrames
      <4>2. CASE life' = [life EXCEPT !.phase = "starting"]
        BY <1>0, <4>2 DEF DataType, HandlerType, Handlers, Phases
      <4> QED
        BY <3>1, <4>1, <4>2
    <3> QED
      BY <3>3, <3>4, <3>5 DEF DataType
  <2> QED
    BY <2>1, <2>2
<1>8. CASE DefaultSaved
  <2> DEFINE next == NewContract(life.mode, ext.baseline)
  <2>1. life.phase = "saving" /\ life.mode \in Modes
    BY <1>0, <1>8 DEF DefaultSaved, SaveRename, SavingInv, DataType, HandlerType
  <2>2. next \in Contract
    BY <2>1, CreatedFacts
  <2>3. CASE HasConversation(current)
    <3>1. /\ life' = [life EXCEPT !.phase = "confirming"] /\ UNCHANGED <<rt, host, waits, agent>>
      BY <1>8, <2>3 DEF DefaultSaved, agent
    <3>2. HandlerType'
      BY <1>0, <2>1, <3>1 DEF DataType, HandlerType, Handlers, Phases
    <3> QED
      BY <1>0, <3>1, <3>2, TypeFrames DEF DataType
  <2>4. CASE ~ HasConversation(current)
    <3>1. /\ ext' = [ext EXCEPT !.contract = next]
          /\ entries' = [entries EXCEPT ![current] = Append(@, next)]
          /\ Shutdown(rt, "configure", None)
          /\ UNCHANGED <<host, waits, current, active, conversation, rejected>>
      BY <1>8, <2>4 DEF DefaultSaved
    <3> HIDE DEF next
    <3>2. entries' \in [Sessions -> Seq(ContractEntries)]
      <4>1. CASE current \in Sessions
        BY <1>0, <2>2, <3>1, <4>1, RecordedTypes
      <4>2. CASE current \notin Sessions
        <5>1. entries' = entries
          BY <1>0, <3>1, <4>2 DEF DataType, AgentType
        <5> QED
          BY <1>0, <5>1 DEF DataType, AgentType
      <4> QED
        BY <4>1, <4>2
    <3>3. ext' \in [contract : Contract \cup {None}, baseline : {None, "user", "empty"},
                    registrations : Registrations \cup {<<>>}]
      BY <1>0, <2>2, <3>1 DEF DataType, AgentType
    <3>4. AgentType'
      BY <1>0, <3>1, <3>2, <3>3 DEF DataType, AgentType
    <3> QED
      BY <1>0, <3>1, <3>4, ShutdownKeepsTypes DEF DataType, Operations
  <2> QED
    BY <2>3, <2>4
<1>9. CASE SaveFill /\ UNCHANGED <<owner, agent>>
  BY <1>0, <1>9, TypeFrames DEF owner, DataType
<1> QED
  BY <1>1, <1>2, <1>3, <1>4, <1>5, <1>6, <1>7, <1>8, <1>9 DEF Lifecycle

(* The steps of a host.                                                         *)
LEMMA HostTypes ==
  ASSUME TypeInv, NEW h \in Hosts, StartStep(h) \/ HostCrashes(h) \/ HostForgotten(h)
  PROVE  DataType'
<1> USE ExtensionAssumption
<1>0. DataType
  BY DEF TypeInv
<1>1. CASE \/ HelloAnswered(h) \/ HostCrashes(h) \/ HostForgotten(h)
  <2>1. /\ \E state \in States : host' = [host EXCEPT ![h] = state]
        /\ UNCHANGED <<rt, waits, life, agent>>
    BY <1>1 DEF HelloAnswered, HostCrashes, HostForgotten, States
  <2>2. RuntimeType'
    BY <1>0, <2>1 DEF DataType, RuntimeType, Runtimes
  <2> QED
    BY <1>0, <2>1, <2>2, TypeFrames DEF DataType
<1>2. CASE SessionOpened(h)
  <2>1. /\ rt' = [rt EXCEPT !.manager = h, !.session = h, !.starting = None]
        /\ host' = [host EXCEPT ![h] = "open"] /\ waits' = Released(h)
        /\ UNCHANGED <<current, entries, conversation, rejected>>
        /\ \/ life' = Idle /\ active' = "code" /\ ext' = Activated(ext)
           \/ UNCHANGED <<life, active, ext>>
    BY <1>2 DEF SessionOpened
  <2>2. rt' \in Runtimes(rt'.tools)
    BY <1>0, <2>1 DEF DataType, RuntimeType, Runtimes, Owners
  <2>3. RuntimeType'
    BY <1>0, <2>1, <2>2 DEF DataType, RuntimeType, Released, States, Owners
  <2>4. AgentType'
    BY <1>0, <2>1, ActivatedTypes, TypeFrames DEF agent
  <2> QED
    BY <1>0, <2>1, <2>3, <2>4, TypeFrames DEF DataType
<1>3. CASE StartFailed(h)
  <2> DEFINE runtime == [rt EXCEPT !.starting = None]
  <2>1. /\ host' = [host EXCEPT ![h] = IF @ = "crashed" THEN @ ELSE "gone"]
        /\ waits' = Released(h) /\ UNCHANGED agent
        /\ \/ Shutdown(runtime, "undo", None)
           \/ rt' = runtime /\ UNCHANGED life
    BY <1>3 DEF StartFailed
  <2>2. runtime \in Runtimes(runtime.tools)
    BY <1>0 DEF DataType, RuntimeType, Runtimes, Owners
  <2> HIDE DEF runtime
  <2>3. rt' \in Runtimes(rt'.tools) /\ HandlerType'
    <3>1. CASE Shutdown(runtime, "undo", None)
      <4>1. runtime.session \in Owners /\ runtime.workspace \in BOOLEAN
        BY <2>2 DEF Runtimes
      <4> QED
        BY <3>1, <4>1, ShutdownTypes DEF Operations
    <3>2. CASE rt' = runtime /\ UNCHANGED life
      BY <1>0, <2>2, <3>2, TypeFrames
    <3> QED
      BY <2>1, <3>1, <3>2
  <2>4. RuntimeType'
    BY <1>0, <2>1, <2>3 DEF DataType, RuntimeType, Released, States, Owners
  <2> QED
    BY <1>0, <2>1, <2>3, <2>4, TypeFrames DEF DataType
<1> QED
  BY <1>1, <1>2, <1>3 DEF StartStep

LEMMA NextKeepsTypes ==
  ASSUME TypeInv, [Next]_vars
  PROVE  DataType'
<1> USE ExtensionAssumption
<1>0. DataType /\ SettingsInv
  BY DEF TypeInv
<1>1. ASSUME NEW s \in Sessions, SessionStart(s) PROVE DataType'
  BY <1>0, <1>1, StartSessionTypes DEF SessionStart
<1>2. ASSUME NEW s \in Sessions, NewSession(s) PROVE DataType'
  <2> DEFINE next == NewContract(life.mode, ext.baseline)
  <2>1. /\ life.phase = "confirming" /\ entries' = [entries EXCEPT ![s] = <<next>>]
        /\ Shutdown(rt, "switch", s)
        /\ UNCHANGED <<host, waits, current, ext, active, conversation, rejected>>
    BY <1>2 DEF NewSession
  <2>2. next \in Contract
    BY <1>0, <2>1, CreatedFacts DEF DataType, HandlerType
  <2> HIDE DEF next
  <2>3. entries' \in [Sessions -> Seq(ContractEntries)]
    BY <1>0, <2>1, <2>2, RecordedTypes
  <2>4. AgentType'
    BY <1>0, <2>1, <2>3 DEF DataType, AgentType
  <2> QED
    BY <1>0, <2>1, <2>4, ShutdownKeepsTypes DEF DataType, Operations
<1>3. CASE SessionShutdown \/ Dispose
  <2>1. PICK op \in {"stop", "dispose"} : Shutdown(rt, op, None)
    BY <1>3 DEF SessionShutdown, Dispose
  <2>2. UNCHANGED <<host, waits, agent>>
    BY <1>3 DEF SessionShutdown, Dispose
  <2> QED
    BY <1>0, <2>1, <2>2, ShutdownKeepsTypes, TypeFrames DEF DataType, Operations
<1>4. CASE Lifecycle
  BY <1>4, LifecycleTypes
<1>5. ASSUME NEW h \in Hosts, StartStep(h) \/ HostCrashes(h) \/ HostForgotten(h) PROVE DataType'
  BY <1>5, HostTypes
<1>6. ASSUME NEW t \in Turns, CallSession(t) PROVE DataType'
  <2>1. /\ AwaitSession(rt, t) /\ active' = "code" /\ ext' = Activated(ext)
        /\ UNCHANGED <<life, current, entries, conversation, rejected>>
    BY <1>6 DEF CallSession
  <2>2. RuntimeType'
    BY <1>0, <2>1, AwaitTypes DEF DataType, RuntimeType, Callers
  <2> QED
    BY <1>0, <2>1, <2>2, ActivatedTypes, TypeFrames DEF DataType
<1>7. CASE MessageRecorded
  <2>1. AgentType'
    BY <1>0, <1>7 DEF MessageRecorded, DataType, AgentType
  <2> QED
    BY <1>0, <1>7, <2>1, TypeFrames DEF MessageRecorded, owner, DataType
<1>8. CASE CommandInvoked \/ CommandDeclined \/ DefaultSaveFails
  <2>1. /\ life' = Idle \/ life' = [Idle EXCEPT !.phase = "selecting"]
        /\ UNCHANGED <<rt, host, waits, agent>>
    BY <1>8 DEF CommandInvoked, CommandDeclined, DefaultSaveFails
  <2>2. HandlerType'
    BY <1>0, <2>1, TypeFrames DEF HandlerType, Handlers, Idle, Phases, Operations, Owners
  <2> QED
    BY <1>0, <2>1, <2>2, TypeFrames DEF DataType
<1>9. ASSUME NEW mode \in Modes, ModeSelected(mode) PROVE DataType'
  <2>1. /\ life' = Idle \/ life' = [Idle EXCEPT !.phase = "saving", !.mode = mode]
        /\ UNCHANGED <<rt, host, waits, agent>>
    BY <1>9 DEF ModeSelected
  <2>2. HandlerType'
    BY <1>0, <2>1, TypeFrames DEF HandlerType, Handlers, Idle, Phases, Operations, Owners
  <2> QED
    BY <1>0, <2>1, <2>2, TypeFrames DEF DataType
<1>10. CASE UNCHANGED <<owner, agent>>
  BY <1>0, <1>10, TypeFrames DEF owner, DataType
<1> QED
  BY <1>1, <1>2, <1>3, <1>4, <1>5, <1>6, <1>7, <1>8, <1>9, <1>10 DEF Next, vars

LEMMA InitTypes == Init => TypeInv
<1> USE ExtensionAssumption
<1> SUFFICES ASSUME Init PROVE TypeInv
  OBVIOUS
<1>1. RuntimeType
  BY DEF Init, RuntimeType, Runtimes, NoRuntime, Owners, States
<1>2. HandlerType
  BY DEF Init, HandlerType, Handlers, Idle, Phases, Operations, Owners
<1>3. CreateContract("codex", <<>>) \in Contract
  BY NormalizeOnce DEF CreateContract, Contract, Modes
<1>4. entries \in [Sessions -> Seq(ContractEntries)]
  <2>1. /\ <<>> \in Seq(ContractEntries)
        /\ <<CreateContract("codex", <<>>), Unsupported>> \in Seq(ContractEntries)
    BY <1>3 DEF ContractEntries
  <2> QED
    BY <2>1 DEF Init
<1>5. AgentType
  BY <1>4 DEF Init, AgentType
<1>6. SavingInv
  BY DEF Init, SettingsInit, SavingInv
<1>7. SettingsInv
  BY InitSettings
<1> QED
  BY <1>1, <1>2, <1>5, <1>6, <1>7 DEF TypeInv, DataType

(* The variables of the extension, of its runtime and of the settings have the  *)
(* types that TypeOK gives them, in every state and whoever calls session().    *)
THEOREM SpecTypeCorrect == Spec => []TypeOK
<1>1. TypeInv /\ [Next]_vars => TypeInv'
  BY NextKeepsTypes, NextKeepsSaving, NextKeepsSettings DEF TypeInv
<1> QED
  BY InitTypes, <1>1, TypeInvImpliesTypeOK, PTL DEF Spec
------------------------------------------------------------------------------
(* The contract that governs.  A runtime has the contract the extension goes    *)
(* by, with the tools that contract and the registrations admit, and that is    *)
(* the contract its session file records; so is the contract of a handler that  *)
(* is about to configure a runtime.                                             *)
GovernInv ==
  /\ rt.contract # None =>
       /\ rt.contract = ext.contract
       /\ rt.tools = Admit(rt.contract.mode, BuiltinTools(rt.contract) \o ext.registrations)
       /\ rt.workspace
       /\ rt.contract = SessionContract(current)
  /\ life.op = "configure" => ext.contract # None /\ ext.contract = SessionContract(current)

ConfiguredInv == TypeInv /\ OwnerInv /\ CleanInv /\ GovernInv

(* A step that records nothing and leaves the runtime's contract alone, or      *)
(* clears it.                                                                   *)
LEMMA GovernFrame ==
  ASSUME GovernInv, UNCHANGED <<current, entries>>,
         ext'.contract = ext.contract, ext'.registrations = ext.registrations,
         \/ rt'.contract = None
         \/ UNCHANGED <<rt.contract, rt.tools, rt.workspace>>,
         life'.op = life.op \/ life'.op # "configure"
  PROVE  GovernInv'
<1>1. SessionContract(current)' = SessionContract(current)
  BY DEF SessionContract, Parsed
<1> QED
  BY <1>1 DEF GovernInv

LEMMA CurrentContract ==
  ASSUME NEW s, current' = s PROVE SessionContract(s)' = SessionContract(current)'
BY DEF SessionContract, Parsed

LEMMA StartSessionGoverns ==
  ASSUME TypeInv, NEW s \in Sessions, StartSession(s), rt = NoRuntime
  PROVE  GovernInv'
<1> USE ExtensionAssumption
<1>1. /\ current' = s
      /\ \/ rt' = rt /\ life' = Idle
         \/ /\ Shutdown(rt, "configure", None)
            /\ ext'.contract # None /\ ext'.contract = SessionContract(s)'
  BY StartFacts DEF TypeInv
<1>2. rt'.contract = None
  BY <1>1, ShutdownFor DEF NoRuntime
<1>3. CASE life' = Idle
  BY <1>2, <1>3 DEF GovernInv, Idle
<1>4. CASE ext'.contract # None /\ ext'.contract = SessionContract(s)'
  <2>1. SessionContract(s)' = SessionContract(current)'
    BY <1>1, CurrentContract
  <2> QED
    BY <1>2, <1>4, <2>1 DEF GovernInv
<1> QED
  BY <1>1, <1>3, <1>4

(* configure's start: the contract and the tools are those that were admitted.  *)
LEMMA InstallGoverns == ASSUME ConfiguredInv, Install PROVE GovernInv'
<1> USE ExtensionAssumption
<1>0. GovernInv /\ rt = NoRuntime /\ life.op = "configure"
  BY DEF Install, ConfiguredInv, OwnerInv, RuntimeInv, OpenInv
<1>1. CASE Offered = Refused
  <2>1. Shutdown(rt, "undo", None) /\ UNCHANGED <<current, entries, ext>>
    BY <1>1 DEF Install
  <2>2. rt'.contract = None /\ life'.op # "configure"
    BY <2>1, ShutdownFor DEF NoRuntime
  <2> QED
    BY <1>0, <2>1, <2>2, GovernFrame
<1>2. CASE Offered # Refused
  <2> DEFINE runtime == [rt EXCEPT !.workspace = TRUE, !.contract = ext.contract,
                                   !.tools = Offered]
  <2>1. /\ AwaitSession(runtime, "life")
        /\ \/ life' = Idle /\ ext' = Activated(ext)
           \/ life' = [life EXCEPT !.phase = "starting"] /\ UNCHANGED ext
        /\ UNCHANGED <<current, entries>>
    BY <1>2 DEF Install
  <2>2. /\ runtime.contract = ext.contract /\ runtime.tools = Offered /\ runtime.workspace
        /\ DOMAIN runtime = DOMAIN NoRuntime
        /\ runtime = [x \in DOMAIN NoRuntime |-> runtime[x]]
    BY <1>0 DEF NoRuntime
  <2> HIDE DEF runtime
  <2>3. \/ rt' = runtime
        \/ \E h : rt' = [runtime EXCEPT !.starting = h]
    BY <2>1 DEF AwaitSession
  <2>4. /\ rt'.contract = ext.contract /\ rt'.tools = Offered /\ rt'.workspace
    BY <2>2, <2>3 DEF NoRuntime
  <2>5. /\ ext.contract \in Contract /\ ext.contract = SessionContract(current)
        /\ ext.registrations \in Registrations \cup {<<>>}
    BY <1>0 DEF GovernInv, ConfiguredInv, TypeInv, DataType, AgentType
  <2>6. ext'.contract = ext.contract /\ ext'.registrations = ext.registrations
    BY <2>1 DEF Activated, ConfiguredInv, TypeInv, DataType, AgentType
  <2>7. Offered = Admit(ext.contract.mode, BuiltinTools(ext.contract) \o ext.registrations)
    BY <2>5 DEF Offered, Admitted
  <2>8. SessionContract(current)' = SessionContract(current)
    BY <2>1 DEF SessionContract, Parsed
  <2>9. life'.op = life.op \/ life'.op # "configure"
    BY <2>1 DEF Idle, ConfiguredInv, TypeInv, DataType, HandlerType, Handlers
  <2> QED
    BY <1>0, <2>4, <2>5, <2>6, <2>7, <2>8 DEF GovernInv
<1> QED
  BY <1>1, <1>2

LEMMA LifecycleGoverns ==
  ASSUME ConfiguredInv, Lifecycle
  PROVE  GovernInv'
<1> USE ExtensionAssumption
<1>0. TypeInv /\ OwnerInv /\ CleanInv /\ GovernInv /\ OpenInv /\ SavingInv
  BY DEF ConfiguredInv, OwnerInv, RuntimeInv
<1>1. CASE SessionClosed \/ HostClosed
  <2>1. /\ \/ life' = [life EXCEPT !.phase = "ending"]
           \/ life' = [life EXCEPT !.phase = "closed", !.host = None, !.workspace = FALSE]
        /\ UNCHANGED <<rt, current, entries, ext>>
    BY <1>1 DEF SessionClosed, HostClosed, agent
  <2>2. life'.op = life.op
    BY <1>0, <2>1 DEF TypeInv, DataType, HandlerType, Handlers
  <2> QED
    BY <1>0, <2>1, <2>2, GovernFrame
<1>2. CASE ShutdownRejected
  <2>0. rt = NoRuntime
    BY <1>0, <1>2 DEF ShutdownRejected, OpenInv
  <2>1. CASE life.op = "switch"
    <3>1. life.target \in Sessions /\ StartSession(life.target)
      BY <1>0, <1>2, <2>1 DEF ShutdownRejected, CleanInv
    <3> QED
      BY <1>0, <2>0, <3>1, StartSessionGoverns
  <2>2. CASE life.op # "switch"
    BY <1>2, <2>0, <2>2 DEF ShutdownRejected, GovernInv, Idle, NoRuntime
  <2> QED
    BY <2>1, <2>2
<1>3. CASE SessionStopped
  <2>0. rt' = NoRuntime
    BY <1>0, <1>3 DEF SessionStopped, OpenInv
  <2>1. life'.op # "configure"
    <3>1. life' = Idle \/ (life.op = "switch" /\ life' = [life EXCEPT !.phase = "switching"])
      BY <1>3 DEF SessionStopped
    <3> QED
      BY <1>0, <3>1 DEF Idle, TypeInv, DataType, HandlerType, Handlers
  <2> QED
    BY <2>0, <2>1 DEF GovernInv, NoRuntime
<1>4. CASE SwitchedTo
  <2>1. life.target \in Sessions /\ StartSession(life.target) /\ rt = NoRuntime
    BY <1>0, <1>4 DEF SwitchedTo, CleanInv, OpenInv
  <2> QED
    BY <1>0, <2>1, StartSessionGoverns
<1>5. CASE DisposeReturns
  BY <1>0, <1>5, GovernFrame DEF DisposeReturns, agent, Idle
<1>6. CASE Install
  BY <1>6, InstallGoverns
<1>7. CASE DefaultSaved
  <2>1. life.phase = "saving"
    BY <1>0, <1>7 DEF DefaultSaved, SaveRename, SavingInv
  <2>2. CASE HasConversation(current)
    <3>1. life' = [life EXCEPT !.phase = "confirming"] /\ UNCHANGED <<rt, ext, current, entries>>
      BY <1>7, <2>2 DEF DefaultSaved
    <3>2. life'.op = life.op
      BY <1>0, <3>1 DEF TypeInv, DataType, HandlerType, Handlers
    <3> QED
      BY <1>0, <3>1, <3>2, GovernFrame
  <2>3. CASE ~ HasConversation(current)
    <3> DEFINE next == NewContract(life.mode, ext.baseline)
    <3>1. /\ ext' = [ext EXCEPT !.contract = next]
          /\ entries' = [entries EXCEPT ![current] = Append(@, next)]
          /\ Shutdown(rt, "configure", None) /\ current' = current
      BY <1>7, <2>3 DEF DefaultSaved
    <3>2. current \in Sessions /\ life.mode \in Modes
      BY <1>0, <2>1 DEF CleanInv, TypeInv, DataType, HandlerType, AgentType
    <3>3. next \in Contract /\ Parsed[next] = next
      BY <3>2, CreatedFacts
    <3> HIDE DEF next
    <3>4. entries[current] \in Seq(ContractEntries) /\ entries'[current] = Append(entries[current], next)
      BY <1>0, <3>1, <3>2 DEF TypeInv, DataType, AgentType
    <3>5. PICK s : s = current
      OBVIOUS
    <3>6. SessionContract(current)' = next
      <4>1. /\ s \in Sessions /\ entries[s] \in Seq(ContractEntries)
            /\ entries'[s] = Append(entries[s], next)
        BY <3>2, <3>4, <3>5
      <4>2. SessionContract(s)' = next
        BY <3>3, <4>1, RecordedLast
      <4>3. current' = s
        BY <3>1, <3>5
      <4>4. SessionContract(s)' = SessionContract(current)'
        BY <4>3, CurrentContract
      <4> QED
        BY <4>2, <4>4
    <3>7. ext'.contract = next /\ next # None
      BY <1>0, <3>1, <3>3 DEF TypeInv, DataType, AgentType
    <3>8. rt'.contract = None
      BY <3>1, ShutdownFor DEF NoRuntime
    <3> QED
      BY <3>6, <3>7, <3>8 DEF GovernInv
  <2> QED
    BY <2>2, <2>3
<1>8. CASE SaveFill /\ UNCHANGED <<owner, agent>>
  BY <1>0, <1>8, GovernFrame DEF owner, agent
<1> QED
  BY <1>1, <1>2, <1>3, <1>4, <1>5, <1>6, <1>7, <1>8 DEF Lifecycle

LEMMA NextGoverns ==
  ASSUME ~ EarlyTurns, ConfiguredInv, [Next]_vars
  PROVE  GovernInv'
<1> USE ExtensionAssumption
<1>0. TypeInv /\ OwnerInv /\ CleanInv /\ GovernInv /\ OpenInv /\ StartInv
  BY DEF ConfiguredInv, OwnerInv, RuntimeInv
<1>1. ASSUME NEW s \in Sessions, SessionStart(s) PROVE GovernInv'
  BY <1>0, <1>1, StartSessionGoverns DEF SessionStart, CleanInv
<1>2. ASSUME NEW runtime, NEW op \in {"stop", "dispose", "undo", "switch"}, NEW target,
             Shutdown(runtime, op, target)
      PROVE  GovernInv'
  BY <1>2, ShutdownFor DEF GovernInv, NoRuntime
<1>3. ASSUME NEW s \in Sessions, NewSession(s) PROVE GovernInv'
  BY <1>2, <1>3 DEF NewSession
<1>4. CASE SessionShutdown \/ Dispose
  BY <1>2, <1>4 DEF SessionShutdown, Dispose
<1>5. CASE Lifecycle
  BY <1>5, LifecycleGoverns
<1>6. ASSUME NEW h \in Hosts, HelloAnswered(h) \/ HostCrashes(h) \/ HostForgotten(h)
      PROVE  GovernInv'
  BY <1>0, <1>6, GovernFrame DEF HelloAnswered, HostCrashes, HostForgotten, agent
<1>7. ASSUME NEW h \in Hosts, SessionOpened(h) PROVE GovernInv'
  <2>1. /\ rt' = [rt EXCEPT !.manager = h, !.session = h, !.starting = None]
        /\ UNCHANGED <<current, entries>>
        /\ \/ life' = Idle /\ ext' = Activated(ext)
           \/ UNCHANGED <<life, ext>>
    BY <1>7 DEF SessionOpened
  <2>2. rt'.contract = rt.contract /\ rt'.tools = rt.tools /\ rt'.workspace = rt.workspace
    BY <1>0, <2>1 DEF TypeInv, DataType, RuntimeType, Runtimes
  <2>3. ext'.contract = ext.contract /\ ext'.registrations = ext.registrations
    BY <1>0, <2>1 DEF Activated, TypeInv, DataType, AgentType
  <2>4. life'.op = life.op \/ life'.op # "configure"
    BY <2>1 DEF Idle
  <2> QED
    BY <1>0, <2>1, <2>2, <2>3, <2>4, GovernFrame
<1>8. ASSUME NEW h \in Hosts, StartFailed(h) PROVE GovernInv'
  <2>1. waits["life"] = h
    BY <1>0, <1>8 DEF StartFailed, StartInv
  <2> QED
    BY <1>2, <1>8, <2>1 DEF StartFailed
<1>9. ASSUME NEW t \in Turns, CallSession(t) PROVE GovernInv'
  <2>1. rt' = rt
    BY <1>0, <1>9 DEF CallSession, AwaitSession, TurnAllowed, OpenInv
  <2>2. UNCHANGED <<current, entries, life>> /\ ext' = Activated(ext)
    BY <1>9 DEF CallSession
  <2>3. ext'.contract = ext.contract /\ ext'.registrations = ext.registrations
    BY <1>0, <2>2 DEF Activated, TypeInv, DataType, AgentType
  <2> QED
    BY <1>0, <2>1, <2>2, <2>3, GovernFrame
<1>10. CASE MessageRecorded
  BY <1>0, <1>10, GovernFrame DEF MessageRecorded, owner
<1>11. CASE CommandInvoked \/ CommandDeclined \/ DefaultSaveFails
  <2>1. life'.op = None /\ UNCHANGED <<rt, current, entries, ext>>
    BY <1>11 DEF CommandInvoked, CommandDeclined, DefaultSaveFails, Idle, agent
  <2> QED
    BY <1>0, <2>1, GovernFrame
<1>12. ASSUME NEW mode \in Modes, ModeSelected(mode) PROVE GovernInv'
  <2>1. UNCHANGED <<rt, current, entries, ext>>
    BY <1>12 DEF ModeSelected, agent
  <2>2. life' = Idle \/ life' = [Idle EXCEPT !.phase = "saving", !.mode = mode]
    BY <1>12 DEF ModeSelected
  <2>3. PICK idle : idle = Idle
    OBVIOUS
  <2>4. idle.op = None /\ "op" \in DOMAIN idle
    BY <2>3 DEF Idle
  <2>5. life' = idle \/ life' = [idle EXCEPT !.phase = "saving", !.mode = mode]
    BY <2>2, <2>3
  <2>6. life'.op = None
    BY ONLY <2>4, <2>5
  <2> QED
    BY <1>0, <2>1, <2>6, GovernFrame
<1>13. CASE UNCHANGED <<owner, agent>>
  BY <1>0, <1>13, GovernFrame DEF owner, agent
<1> QED
  BY <1>1, <1>3, <1>4, <1>5, <1>6, <1>7, <1>8, <1>9, <1>10, <1>11, <1>12, <1>13
     DEF Next, StartStep, vars

(* Between handlers, whatever hosts failed or died before: a configured runtime *)
(* has the contract its session file records last, an open session, and the     *)
(* tools which that contract and the other extensions' registrations admit.     *)
THEOREM SpecRecordedContractGoverns ==
  ASSUME ~ EarlyTurns PROVE Spec => []RecordedContractGoverns
<1>1. Init => ConfiguredInv
  BY InitTypes, InitOwner, InitClean, ExtensionAssumption
     DEF ConfiguredInv, GovernInv, Init, NoRuntime, Idle
<1>2. ConfiguredInv /\ [Next]_vars => ConfiguredInv'
  BY NextKeepsTypes, NextKeepsSaving, NextKeepsSettings, NextKeepsRuntime, NextKeepsClean,
     NextGoverns DEF ConfiguredInv, TypeInv, OwnerInv
<1>3. ConfiguredInv => RecordedContractGoverns
  BY DEF ConfiguredInv, OwnerInv, RuntimeInv, StartInv, OpenInv, GovernInv,
         RecordedContractGoverns
<1> QED
  BY <1>1, <1>2, <1>3, PTL DEF Spec
==============================================================================
