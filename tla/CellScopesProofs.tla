--------------------------- MODULE CellScopesProofs ---------------------------
(* The broker's replay cache and the scopes of the cells, for any number of     *)
(* calls, of tool calls in a cell and any size of the cache: what was run is    *)
(* not run again, and a cell keeps what it needs.                               *)
EXTENDS CellScopes, FiniteSetTheorems, TLAPS

(* A tool that ran is in the cache, which only a shutdown empties.              *)
ReplayInv ==
  /\ effects \in [Keys -> Nat]
  /\ closing = "no" => \A k \in Keys : effects[k] = IF k \in cache THEN 1 ELSE 0

LEMMA InitReplay == Init => ReplayInv
  BY DEF Init, ReplayInv

LEMMA RunKeepsReplay ==
  ASSUME ReplayInv, NEW b, NEW n, RunUnsafe(b, n), UNCHANGED closing
  PROVE  ReplayInv'
<1>1. CASE UNCHANGED brokerVars
  BY <1>1 DEF brokerVars, ReplayInv
<1>2. CASE /\ Key(b, n) \notin cache /\ cache' = cache \union {Key(b, n)}
           /\ effects' = [effects EXCEPT ![Key(b, n)] = @ + 1]
  <2> DEFINE key == Key(b, n)
  <2> HIDE DEF key
  <2>1. /\ key \notin cache /\ cache' = cache \union {key}
        /\ effects' = [effects EXCEPT ![key] = @ + 1]
    BY <1>2 DEF key
  <2>2. effects' \in [Keys -> Nat]
    <3>1. CASE key \in Keys
      <4>1. effects[key] + 1 \in Nat
        BY <3>1 DEF ReplayInv
      <4> QED
        BY <2>1, <4>1 DEF ReplayInv
    <3>2. CASE key \notin Keys
      BY <2>1, <3>2 DEF ReplayInv
    <3> QED
      BY <3>1, <3>2
  <2>3. ASSUME NEW k \in Keys, closing = "no"
        PROVE  effects'[k] = IF k \in cache' THEN 1 ELSE 0
    <3>1. CASE k = key
      BY <2>1, <2>3, <3>1 DEF ReplayInv
    <3>2. CASE k # key
      BY <2>1, <2>3, <3>2 DEF ReplayInv
    <3> QED
      BY <3>1, <3>2
  <2> QED
    BY <2>2, <2>3 DEF ReplayInv
<1> QED
  BY <1>1, <1>2 DEF RunUnsafe

LEMMA NextKeepsReplay == ASSUME ReplayInv, [Next]_vars PROVE ReplayInv'
<1>1. CASE UNCHANGED <<brokerVars, closing>>
  BY <1>1 DEF brokerVars, ReplayInv
<1>2. CASE ReceiveInvoke
  <2>1. UNCHANGED closing
    BY <1>2 DEF ReceiveInvoke
  <2>2. UNCHANGED brokerVars \/ \E b, n : RunUnsafe(b, n)
    BY <1>2 DEF ReceiveInvoke
  <2> QED
    BY <1>1, <2>1, <2>2, RunKeepsReplay
<1>3. CASE ShutdownStarts \/ ShutdownEnds
  BY <1>3 DEF ShutdownStarts, ShutdownEnds, brokerVars, ReplayInv
<1>4. ASSUME NEW e \in Execs,
             \/ \E p \in Parents : Exec(e, p)
             \/ HostInvokes(e) \/ HostEnds(e)
             \/ \E w \in Waits : Wait(w, e)
      PROVE  UNCHANGED <<brokerVars, closing>>
  BY <1>4 DEF Exec, HostInvokes, HostEnds, Wait, agentVars, HostKeeps
<1>5. ASSUME NEW c \in Calls, AgentStep(c) \/ HostStep(c) \/ Abort(c)
      PROVE  UNCHANGED <<brokerVars, closing>>
  BY <1>5 DEF AgentStep, SubmitExec, ExecReturns, SubmitWait, WaitReturns, HostStep, HostStarts,
              HostAnswers, Abort, agentVars, HostKeeps
<1>6. ReceiveAnswer \/ HostCloses \/ LinkLost \/ UNCHANGED vars => UNCHANGED <<brokerVars, closing>>
  BY DEF ReceiveAnswer, HostCloses, LinkLost, vars, agentVars, HostKeeps
<1> QED
  BY <1>1, <1>2, <1>3, <1>4, <1>5, <1>6 DEF Next, Receive

(* As long as the session is not shut down no unsafe tool runs twice for one    *)
(* call of a parent, however often the exec is repeated.                        *)
THEOREM SpecReplayOnce == Spec => []ReplayOnce
<1>1. ReplayInv => ReplayOnce
  BY DEF ReplayInv, ReplayOnce
<1> QED
  BY InitReplay, NextKeepsReplay, <1>1, PTL DEF Spec

------------------------------------------------------------------------------
(* The frames for the client                                                    *)

Message ==
  [type : {"invoke"}, cell : Execs, n : 1 .. MaxCalls]
    \union [type : {"answer"}, call : Calls, result : {"waiting", "verdict", "error"}]
    \union [type : {"closed"}]

Answers(m, c) == m.type = "answer" /\ m.call = c
Invokes(m, e) == m.type = "invoke" /\ m.cell = e

Answered(s, c) == \E i \in DOMAIN s : Answers(s[i], c)
Invoked(s, e)  == \E i \in DOMAIN s : Invokes(s[i], e)
Once(s, c)     == \A i, j \in DOMAIN s : Answers(s[i], c) /\ Answers(s[j], c) => i = j

LEMMA MessageTypes ==
  ASSUME NEW m \in Message
  PROVE  /\ m.type \in {"invoke", "answer", "closed"}
         /\ m.type = "invoke" => m.cell \in Execs /\ m.n \in 1 .. MaxCalls
         /\ m.type = "answer" => m.call \in Calls /\ m.result \in {"waiting", "verdict", "error"}
  BY DEF Message

LEMMA PipeEmpty == \A c : ~ Answered(<<>>, c) /\ ~ Invoked(<<>>, c) /\ Once(<<>>, c)
  BY DEF Answered, Invoked, Once

LEMMA PipeAppend ==
  ASSUME NEW s \in Seq(Message), NEW m \in Message
  PROVE  /\ Append(s, m) \in Seq(Message)
         /\ \A c : Answered(Append(s, m), c) <=> Answered(s, c) \/ Answers(m, c)
         /\ \A e : Invoked(Append(s, m), e) <=> Invoked(s, e) \/ Invokes(m, e)
         /\ \A c : Once(s, c) /\ ~ (Answered(s, c) /\ Answers(m, c)) => Once(Append(s, m), c)
<1>1. /\ Append(s, m) \in Seq(Message) /\ DOMAIN s = 1 .. Len(s) /\ Len(s) \in Nat
      /\ DOMAIN Append(s, m) = 1 .. (Len(s) + 1)
      /\ \A k \in 1 .. Len(s) : Append(s, m)[k] = s[k]
      /\ Append(s, m)[Len(s) + 1] = m
  OBVIOUS
<1>2. /\ \A k \in 1 .. (Len(s) + 1) : k \in 1 .. Len(s) \/ k = Len(s) + 1
      /\ 1 .. Len(s) \subseteq 1 .. (Len(s) + 1) /\ Len(s) + 1 \in 1 .. (Len(s) + 1)
  BY <1>1
<1>3. \A c : Answered(Append(s, m), c) <=> Answered(s, c) \/ Answers(m, c)
  BY <1>1, <1>2 DEF Answered
<1>4. \A e : Invoked(Append(s, m), e) <=> Invoked(s, e) \/ Invokes(m, e)
  BY <1>1, <1>2 DEF Invoked
<1>5. \A c : Once(s, c) /\ ~ (Answered(s, c) /\ Answers(m, c)) => Once(Append(s, m), c)
  BY <1>1, <1>2 DEF Answered, Once
<1> QED
  BY <1>1, <1>3, <1>4, <1>5

LEMMA PipeTail ==
  ASSUME NEW s \in Seq(Message), s # <<>>
  PROVE  /\ Tail(s) \in Seq(Message) /\ Head(s) \in Message
         /\ \A c : Answered(Tail(s), c) => Answered(s, c)
         /\ \A c : Answers(Head(s), c) => Answered(s, c)
         /\ \A c : Once(s, c) /\ Answers(Head(s), c) => ~ Answered(Tail(s), c)
         /\ \A e : Invoked(Tail(s), e) \/ Invokes(Head(s), e) => Invoked(s, e)
         /\ \A c : Once(s, c) => Once(Tail(s), c)
<1>1. /\ Tail(s) \in Seq(Message) /\ Head(s) \in Message /\ Head(s) = s[1]
      /\ Len(s) \in Nat \ {0} /\ DOMAIN s = 1 .. Len(s)
      /\ DOMAIN Tail(s) = 1 .. (Len(s) - 1)
      /\ \A k \in 1 .. (Len(s) - 1) : Tail(s)[k] = s[k + 1]
  OBVIOUS
<1>2. /\ \A k \in DOMAIN Tail(s) : k + 1 \in DOMAIN s /\ k + 1 # 1 /\ Tail(s)[k] = s[k + 1]
      /\ \A j, k \in DOMAIN Tail(s) : j + 1 = k + 1 => j = k
      /\ 1 \in DOMAIN s
  BY <1>1
<1>3. /\ \A c : Answered(Tail(s), c) => Answered(s, c)
      /\ \A c : Answers(Head(s), c) => Answered(s, c)
  BY <1>1, <1>2 DEF Answered
<1>4. \A c : Once(s, c) /\ Answers(Head(s), c) => ~ Answered(Tail(s), c)
  BY <1>1, <1>2 DEF Answered, Once
<1>5. \A e : Invoked(Tail(s), e) \/ Invokes(Head(s), e) => Invoked(s, e)
  BY <1>1, <1>2 DEF Invoked
<1>6. \A c : Once(s, c) => Once(Tail(s), c)
  BY <1>2 DEF Once
<1> QED
  BY <1>1, <1>3, <1>4, <1>5, <1>6

------------------------------------------------------------------------------
(* What is known of the calls                                                   *)

PiTypes ==
  /\ pc \in [Calls -> {"idle", "called", "asked", "done"}] /\ turn \subseteq Calls
  /\ parentOf \in [Execs -> Parents \union {None}] /\ target \in [Waits -> Execs \union {None}]
  /\ knew \subseteq Waits /\ aborted \subseteq Calls
  /\ contexts \subseteq Parents /\ traces \subseteq Execs

SessionTypes ==
  /\ closing \in {"no", "asked", "done"}
  /\ scopes \in [Parents -> Execs \union {None}]
  /\ cellParents \subseteq Execs /\ cancelled \subseteq Execs

CacheTypes ==
  /\ cache \subseteq Keys /\ IsFiniteSet(cache) /\ Cardinality(cache) <= MaxReplay
  /\ effects \in [Keys -> Nat]
  /\ handlers \subseteq Execs \X (1 .. MaxCalls)

HostTypes ==
  /\ link \in BOOLEAN /\ toClient \in Seq(Message)
  /\ result \in [Calls -> {"none", "waiting", "verdict", "error"}]
  /\ pending \subseteq Calls /\ doomed \subseteq Execs
  /\ cell \in [Execs -> {"none", "running", "ended", "gone"}]
  /\ made \in [Execs -> 0 .. MaxCalls]

TypeInv == PiTypes /\ SessionTypes /\ CacheTypes /\ HostTypes

LEMMA TypesCorrect == TypeInv => TypeOK
<1>1. HostTypes => \A i \in 1 .. Len(toClient) : toClient[i].type \in {"invoke", "answer", "closed"}
  BY MessageTypes DEF HostTypes
<1> QED
  BY <1>1 DEF TypeInv, PiTypes, SessionTypes, CacheTypes, HostTypes, TypeOK

(* An exec has its parent, and a wait its cell, once it is called.              *)
NameInv ==
  /\ \A e \in Execs : parentOf[e] = None <=> pc[e] = "idle"
  /\ \A w \in Waits : target[w] = None <=> pc[w] = "idle"
  /\ \A w \in Waits : pc[w] # "idle" => pc[target[w]] = "done" /\ result[target[w]] = "waiting"
  /\ \A e \in Execs : cell[e] # "none" => pc[e] \in {"asked", "done"}
  /\ \A e \in Execs : Invoked(toClient, e) => cell[e] # "none"

(* A call is answered once, while it waits for that.                            *)
AnswerInv ==
  /\ \A c \in Calls : pc[c] \in {"idle", "called"} => result[c] = "none"
  /\ \A c \in pending : pc[c] = "asked" /\ result[c] = "none" /\ ~ Answered(toClient, c)
  /\ \A c \in Calls : Answered(toClient, c) => pc[c] = "asked" /\ result[c] = "none"
  /\ \A c \in Calls : Once(toClient, c)

CallInv == TypeInv /\ NameInv /\ AnswerInv

(* A busy call is one of the current message, and a repeated exec the only one. *)
Busy(c) == pc[c] \in {"called", "asked"}

TurnInv ==
  /\ \A c \in Calls : Busy(c) => c \in turn
  /\ \A c \in turn : pc[c] # "idle"
  /\ \A e \in Execs : Busy(e) /\ Repeats(e) => turn = {e}

(* Whose a scope is, and for whom it is kept until the session is closed.       *)
OwnerInv ==
  \A p \in Parents : scopes[p] # None =>
    parentOf[scopes[p]] = p /\ pc[scopes[p]] \in {"asked", "done"} /\ closing # "done"
AskedInv  == closing # "done" => \A e \in Execs : pc[e] = "asked" => scopes[parentOf[e]] = e
ParentInv == closing # "done" => \A e \in cellParents : pc[e] = "done" /\ scopes[parentOf[e]] = e
WaiterInv ==
  closing # "done" => \A w \in Waits : pc[w] = "asked" => scopes[parentOf[target[w]]] \in {target[w], None}

ScopeInv == OwnerInv /\ AskedInv /\ ParentInv /\ WaiterInv

(* What else a cell needs while it runs, or is waited for, and its tools' end.  *)
FreshInv   == \A e \in Execs : pc[e] = "idle" => e \notin cancelled
RunningInv == closing # "done" => \A e \in Execs : Busy(e) /\ e \notin aborted => e \notin cancelled
ContextInv == closing = "no" => \A e \in Execs : Busy(e) /\ ~ Repeats(e) => parentOf[e] \in contexts
WaitingInv ==
  \A e \in Execs : Waiting(e) =>
    /\ e \notin cancelled /\ e \in cellParents /\ e \in traces
    /\ ~ Repeats(e) => parentOf[e] \in contexts
ToolsInv ==
  \A h \in handlers : (parentOf[h[1]] \in Parents /\ scopes[parentOf[h[1]]] = h[1]) \/ h[1] \in cancelled

LiveInv == FreshInv /\ RunningInv /\ ContextInv /\ WaitingInv /\ ToolsInv

LEMMA Numbers ==
  /\ Execs = Parents /\ Execs \subseteq Nat /\ None \notin Execs /\ Execs \cap Waits = {}
  /\ Execs \subseteq Calls /\ Waits \subseteq Calls
  /\ \A c \in Calls : c \in Execs \/ c \in Waits
  BY ScopesAssumption DEF Execs, Parents, None, Calls

LEMMA InitCall == Init => CallInv
<1> SUFFICES ASSUME Init PROVE CallInv
  OBVIOUS
<1>1. toClient = <<>> /\ toClient \in Seq(Message) /\ Len(toClient) = 0
  BY DEF Init
<1>2. IsFiniteSet(cache) /\ Cardinality(cache) = 0
  BY FS_EmptySet DEF Init
<1>3. 0 <= MaxReplay /\ 0 \in 0 .. MaxCalls
  BY ScopesAssumption
<1>4. TypeInv
  BY <1>1, <1>2, <1>3, Numbers DEF Init, TypeInv, PiTypes, SessionTypes, CacheTypes, HostTypes, Keys
<1>5. NameInv
  BY <1>1, PipeEmpty, Numbers DEF Init, NameInv
<1>6. AnswerInv
  BY <1>1, PipeEmpty, Numbers DEF Init, AnswerInv
<1> QED
  BY <1>4, <1>5, <1>6 DEF CallInv

LEMMA CellNamed ==
  ASSUME CallInv, NEW c \in Calls, pc[c] # "idle"
  PROVE  CellOf(c) \in Execs
  BY Numbers DEF CallInv, TypeInv, PiTypes, NameInv, CellOf

LEMMA ReleaseTypes ==
  ASSUME SessionTypes, NEW p \in Parents, Release(p)
  PROVE  scopes' \in [Parents -> Execs \union {None}] /\ cancelled' \subseteq Execs
  BY DEF SessionTypes, Release

LEMMA ExecKeepsCall ==
  ASSUME CallInv, NEW e \in Execs, NEW p \in Parents, Exec(e, p)
  PROVE  CallInv'
<1>1. PiTypes'
  <2>1. pc' \in [Calls -> {"idle", "called", "asked", "done"}]
    BY Numbers DEF CallInv, TypeInv, PiTypes, Exec
  <2>2. parentOf' \in [Execs -> Parents \union {None}]
    BY DEF CallInv, TypeInv, PiTypes, Exec
  <2>3. turn' = {e} \/ turn' = turn \union {e}
    BY DEF Exec, Joins
  <2>4. contexts' \subseteq Parents /\ UNCHANGED <<target, knew, aborted, traces>>
    BY DEF CallInv, TypeInv, PiTypes, Exec
  <2>5. turn' \subseteq Calls
    BY <2>3, Numbers DEF CallInv, TypeInv, PiTypes
  <2> QED
    BY <2>1, <2>2, <2>4, <2>5 DEF CallInv, TypeInv, PiTypes
<1>2. SessionTypes'
  BY Numbers DEF CallInv, TypeInv, PiTypes, SessionTypes, Exec, Joins, agentVars, brokerVars, hostVars
<1>3. CacheTypes'
  BY DEF CallInv, TypeInv, CacheTypes, Exec, Joins, agentVars, brokerVars, hostVars
<1>4. HostTypes'
  BY Numbers DEF CallInv, TypeInv, PiTypes, HostTypes, Exec, Joins, agentVars, brokerVars, hostVars
<1>5. NameInv'
  BY Numbers DEF CallInv, TypeInv, PiTypes, HostTypes, NameInv, Exec, Joins, agentVars, brokerVars,
     hostVars
<1>6. AnswerInv'
  BY Numbers DEF CallInv, TypeInv, PiTypes, HostTypes, NameInv, AnswerInv, Exec, Joins, agentVars,
     brokerVars, hostVars
<1> QED
  BY <1>1, <1>2, <1>3, <1>4, <1>5, <1>6 DEF CallInv, TypeInv

(* A request is made, fails at once, or is not made.                            *)
LEMMA SubmitKeepsCall ==
  ASSUME CallInv, NEW c \in Calls, pc[c] = "called",
         \/ pc' = [pc EXCEPT ![c] = "done"] /\ UNCHANGED <<pending, result>>
         \/ pc' = [pc EXCEPT ![c] = "asked"] /\ pending' = pending \union {c} /\ UNCHANGED result
         \/ pc' = [pc EXCEPT ![c] = "asked"] /\ result' = [result EXCEPT ![c] = "error"] /\ UNCHANGED pending,
         doomed' \subseteq Execs, UNCHANGED <<parentOf, target, link, toClient, cell, made>>
  PROVE  /\ pc' \in [Calls -> {"idle", "called", "asked", "done"}]
         /\ HostTypes' /\ NameInv' /\ AnswerInv'
<1>1. result[c] = "none" /\ c \notin pending /\ ~ Answered(toClient, c)
  BY DEF CallInv, AnswerInv
<1>2. /\ pc' \in [Calls -> {"idle", "called", "asked", "done"}]
      /\ pc'[c] \in {"asked", "done"} /\ \A d \in Calls \ {c} : pc'[d] = pc[d]
  BY DEF CallInv, TypeInv, PiTypes
<1>3. /\ result' \in [Calls -> {"none", "waiting", "verdict", "error"}]
      /\ \A d \in Calls \ {c} : result'[d] = result[d]
      /\ pending' \subseteq Calls /\ pending' \subseteq pending \union {c}
      /\ c \in pending' => pc'[c] = "asked" /\ result'[c] = "none"
  BY <1>1, <1>2 DEF CallInv, TypeInv, PiTypes, HostTypes
<1>4. HostTypes'
  BY <1>3 DEF CallInv, TypeInv, HostTypes
<1>5. NameInv'
  <2>1. \A d \in Calls : (pc'[d] = "idle" <=> pc[d] = "idle") /\ (pc[d] \in {"asked", "done"} => pc'[d] \in {"asked", "done"})
    BY <1>2
  <2>2. \A w \in Waits : pc[w] # "idle" => pc'[target[w]] = "done" /\ result'[target[w]] = "waiting"
    <3>1. \A w \in Waits : pc[w] # "idle" => target[w] \in Calls /\ target[w] # c
      BY Numbers DEF CallInv, TypeInv, PiTypes, NameInv
    <3> QED
      BY <3>1, <1>2, <1>3 DEF CallInv, NameInv
  <2> QED
    BY <2>1, <2>2, Numbers DEF CallInv, NameInv
<1>6. AnswerInv'
  BY <1>1, <1>2, <1>3 DEF CallInv, AnswerInv
<1> QED
  BY <1>2, <1>4, <1>5, <1>6

LEMMA SubmitExecKeepsCall ==
  ASSUME CallInv, NEW e \in Execs, SubmitExec(e)
  PROVE  CallInv'
<1>1. e \in Calls /\ pc[e] = "called" /\ parentOf[e] \in Parents
  BY Numbers DEF CallInv, TypeInv, PiTypes, NameInv, SubmitExec
<1>2. /\ pc' \in [Calls -> {"idle", "called", "asked", "done"}]
      /\ HostTypes' /\ NameInv' /\ AnswerInv'
  <2>1. doomed' \subseteq Execs /\ UNCHANGED <<parentOf, target, link, toClient, cell, made>>
    BY DEF CallInv, TypeInv, HostTypes, SubmitExec, hostVars
  <2>2. \/ pc' = [pc EXCEPT ![e] = "done"] /\ UNCHANGED <<pending, result>>
        \/ pc' = [pc EXCEPT ![e] = "asked"] /\ pending' = pending \union {e} /\ UNCHANGED result
        \/ pc' = [pc EXCEPT ![e] = "asked"] /\ result' = [result EXCEPT ![e] = "error"] /\ UNCHANGED pending
    BY DEF SubmitExec
  <2> QED
    BY <1>1, <2>1, <2>2, SubmitKeepsCall
<1>3. PiTypes'
  BY <1>2 DEF CallInv, TypeInv, PiTypes, SubmitExec
<1>4. SessionTypes'
  <2>1. scopes' \in [Parents -> Execs \union {None}] /\ cancelled' \subseteq Execs
    BY <1>1 DEF CallInv, TypeInv, SessionTypes, SubmitExec, Refused
  <2> QED
    BY <2>1 DEF CallInv, TypeInv, SessionTypes, SubmitExec
<1>5. CacheTypes'
  BY DEF CallInv, TypeInv, CacheTypes, SubmitExec, brokerVars
<1> QED
  BY <1>2, <1>3, <1>4, <1>5 DEF CallInv, TypeInv

LEMMA SubmitWaitKeepsCall ==
  ASSUME CallInv, NEW w \in Waits, SubmitWait(w)
  PROVE  CallInv'
<1>1. w \in Calls /\ pc[w] = "called" /\ target[w] \in Execs
  BY Numbers DEF CallInv, TypeInv, PiTypes, NameInv, SubmitWait
<1>2. /\ pc' \in [Calls -> {"idle", "called", "asked", "done"}]
      /\ HostTypes' /\ NameInv' /\ AnswerInv'
  <2>1. doomed' \subseteq Execs /\ UNCHANGED <<parentOf, target, link, toClient, cell, made>>
    BY <1>1 DEF CallInv, TypeInv, HostTypes, SubmitWait, hostVars
  <2>2. \/ pc' = [pc EXCEPT ![w] = "done"] /\ UNCHANGED <<pending, result>>
        \/ pc' = [pc EXCEPT ![w] = "asked"] /\ pending' = pending \union {w} /\ UNCHANGED result
        \/ pc' = [pc EXCEPT ![w] = "asked"] /\ result' = [result EXCEPT ![w] = "error"] /\ UNCHANGED pending
    BY DEF SubmitWait
  <2> QED
    BY <1>1, <2>1, <2>2, SubmitKeepsCall
<1>3. PiTypes'
  BY <1>2 DEF CallInv, TypeInv, PiTypes, SubmitWait
<1>4. SessionTypes' /\ CacheTypes'
  BY DEF CallInv, TypeInv, SessionTypes, CacheTypes, SubmitWait, agentVars, brokerVars
<1> QED
  BY <1>2, <1>3, <1>4 DEF CallInv, TypeInv

LEMMA ExecReturnsKeepsCall ==
  ASSUME CallInv, NEW e \in Execs, ExecReturns(e)
  PROVE  CallInv'
<1>1. /\ e \in Calls /\ pc[e] = "asked" /\ result[e] # "none" /\ parentOf[e] \in Parents
      /\ pc' = [pc EXCEPT ![e] = "done"]
      /\ UNCHANGED <<parentOf, target, link, toClient, result, pending, doomed, cell, made>>
  BY Numbers DEF CallInv, TypeInv, PiTypes, NameInv, ExecReturns, hostVars
<1>2. PiTypes'
  BY <1>1 DEF CallInv, TypeInv, PiTypes, ExecReturns
<1>3. SessionTypes'
  <2>1. scopes' \in [Parents -> Execs \union {None}] /\ cancelled' \subseteq Execs
    BY <1>1, ReleaseTypes DEF CallInv, TypeInv, SessionTypes, ExecReturns
  <2> QED
    BY <2>1 DEF CallInv, TypeInv, SessionTypes, ExecReturns
<1>4. CacheTypes' /\ HostTypes'
  BY <1>1 DEF CallInv, TypeInv, CacheTypes, HostTypes, ExecReturns, brokerVars
<1>5. NameInv' /\ AnswerInv'
  BY <1>1, Numbers DEF CallInv, TypeInv, PiTypes, NameInv, AnswerInv
<1> QED
  BY <1>2, <1>3, <1>4, <1>5 DEF CallInv, TypeInv

LEMMA WaitReturnsKeepsCall ==
  ASSUME CallInv, NEW w \in Waits, WaitReturns(w)
  PROVE  CallInv'
<1> DEFINE e == target[w]
<1>1. /\ w \in Calls /\ pc[w] = "asked" /\ result[w] # "none" /\ e \in Execs /\ parentOf[e] \in Parents
      /\ pc' = [pc EXCEPT ![w] = "done"]
      /\ UNCHANGED <<parentOf, target, link, toClient, result, pending, doomed, cell, made>>
  BY Numbers DEF CallInv, TypeInv, PiTypes, NameInv, WaitReturns, hostVars
<1>2. PiTypes'
  BY <1>1 DEF CallInv, TypeInv, PiTypes, WaitReturns
<1>3. SessionTypes'
  <2>1. scopes' \in [Parents -> Execs \union {None}] /\ cancelled' \subseteq Execs
    BY <1>1, ReleaseTypes DEF CallInv, TypeInv, SessionTypes, WaitReturns
  <2> QED
    BY <2>1 DEF CallInv, TypeInv, SessionTypes, WaitReturns
<1>4. CacheTypes' /\ HostTypes'
  BY <1>1 DEF CallInv, TypeInv, CacheTypes, HostTypes, WaitReturns, brokerVars
<1>5. NameInv' /\ AnswerInv'
  BY <1>1, Numbers DEF CallInv, TypeInv, PiTypes, NameInv, AnswerInv
<1> QED
  BY <1>2, <1>3, <1>4, <1>5 DEF CallInv, TypeInv

LEMMA WaitKeepsCall ==
  ASSUME CallInv, NEW w \in Waits, NEW e \in Execs, Wait(w, e)
  PROVE  CallInv'
<1>1. PiTypes'
  BY Numbers DEF CallInv, TypeInv, PiTypes, Wait, Joins, agentVars, brokerVars, hostVars
<1>2. SessionTypes'
  BY Numbers DEF CallInv, TypeInv, PiTypes, SessionTypes, Wait, Joins, agentVars, brokerVars, hostVars
<1>3. CacheTypes'
  BY DEF CallInv, TypeInv, CacheTypes, Wait, Joins, agentVars, brokerVars, hostVars
<1>4. HostTypes'
  BY Numbers DEF CallInv, TypeInv, PiTypes, HostTypes, Wait, Joins, agentVars, brokerVars, hostVars
<1>5. NameInv'
  BY Numbers DEF CallInv, TypeInv, PiTypes, HostTypes, NameInv, Wait, Joins, agentVars, brokerVars,
     hostVars
<1>6. AnswerInv'
  BY Numbers DEF CallInv, TypeInv, PiTypes, HostTypes, NameInv, AnswerInv, Wait, Joins, agentVars,
     brokerVars, hostVars
<1> QED
  BY <1>1, <1>2, <1>3, <1>4, <1>5, <1>6 DEF CallInv, TypeInv

LEMMA AbortKeepsCall ==
  ASSUME CallInv, NEW c \in Calls, Abort(c)
  PROVE  CallInv'
<1>1. PiTypes'
  BY Numbers DEF CallInv, TypeInv, PiTypes, Abort, AskTermination, brokerVars, hostVars
<1>2. SessionTypes'
  BY Numbers DEF CallInv, TypeInv, PiTypes, SessionTypes, Abort, AskTermination, brokerVars, hostVars
<1>3. CacheTypes'
  BY DEF CallInv, TypeInv, CacheTypes, Abort, AskTermination, brokerVars, hostVars
<1>4. HostTypes'
  BY CellNamed DEF CallInv, TypeInv, PiTypes, HostTypes, Abort, AskTermination, hostVars
<1>5. NameInv'
  BY Numbers DEF CallInv, TypeInv, PiTypes, HostTypes, NameInv, Abort, AskTermination, brokerVars,
     hostVars
<1>6. AnswerInv'
  BY Numbers DEF CallInv, TypeInv, PiTypes, HostTypes, NameInv, AnswerInv, Abort, AskTermination,
     brokerVars, hostVars
<1> QED
  BY <1>1, <1>2, <1>3, <1>4, <1>5, <1>6 DEF CallInv, TypeInv

LEMMA ShutdownStartsKeepsCall ==
  ASSUME CallInv, ShutdownStarts
  PROVE  CallInv'
<1>1. PiTypes'
  BY Numbers DEF CallInv, TypeInv, PiTypes, ShutdownStarts, hostVars
<1>2. SessionTypes'
  BY Numbers DEF CallInv, TypeInv, PiTypes, SessionTypes, ShutdownStarts, hostVars
<1>3. CacheTypes'
  BY FS_EmptySet, ScopesAssumption DEF CallInv, TypeInv, CacheTypes, ShutdownStarts
<1>4. HostTypes'
  BY Numbers DEF CallInv, TypeInv, PiTypes, HostTypes, ShutdownStarts, hostVars
<1>5. NameInv'
  BY Numbers DEF CallInv, TypeInv, PiTypes, HostTypes, NameInv, ShutdownStarts, hostVars
<1>6. AnswerInv'
  BY Numbers DEF CallInv, TypeInv, PiTypes, HostTypes, NameInv, AnswerInv, ShutdownStarts, hostVars
<1> QED
  BY <1>1, <1>2, <1>3, <1>4, <1>5, <1>6 DEF CallInv, TypeInv

(* The sets and functions that only the agent's side changes.                   *)
LEMMA HostKeepsTypes ==
  ASSUME CallInv, HostKeeps
  PROVE  /\ PiTypes' /\ SessionTypes' /\ CacheTypes'
         /\ link' \in BOOLEAN /\ result' \in [Calls -> {"none", "waiting", "verdict", "error"}]
         /\ doomed' \subseteq Execs
  BY DEF CallInv, TypeInv, PiTypes, SessionTypes, CacheTypes, HostTypes, HostKeeps, piVars, agentVars,
     brokerVars

LEMMA ShutdownEndsKeepsCall == ASSUME CallInv, ShutdownEnds PROVE CallInv'
<1>1. /\ UNCHANGED <<pc, turn, parentOf, target, knew, aborted, contexts, traces, cache, effects, handlers,
                     link, result, pending, doomed, cell, made>>
      /\ (UNCHANGED toClient) \/ (toClient # <<>> /\ toClient' = Tail(toClient))
  BY DEF ShutdownEnds, piVars, brokerVars, hostVars
<1>2. PiTypes' /\ CacheTypes'
  BY <1>1 DEF CallInv, TypeInv, PiTypes, CacheTypes
<1>3. SessionTypes'
  BY DEF CallInv, TypeInv, SessionTypes, ShutdownEnds
<1>4. /\ toClient' \in Seq(Message)
      /\ \A c : Answered(toClient', c) => Answered(toClient, c)
      /\ \A c : Once(toClient, c) => Once(toClient', c)
      /\ \A e : Invoked(toClient', e) => Invoked(toClient, e)
  BY <1>1, PipeTail DEF CallInv, TypeInv, HostTypes
<1>5. HostTypes' /\ NameInv' /\ AnswerInv'
  BY <1>1, <1>4 DEF CallInv, TypeInv, HostTypes, NameInv, AnswerInv
<1> QED
  BY <1>2, <1>3, <1>5 DEF CallInv, TypeInv

(* The broker that runs a tool call is that of the scope of its parent.         *)
LEMMA InvokeRuns ==
  ASSUME CallInv, ScopeInv, ReceiveInvoke, ~ UNCHANGED brokerVars
  PROVE  \E b \in Execs, n \in 1 .. MaxCalls :
           /\ parentOf[b] \in Parents /\ scopes[parentOf[b]] = b
           /\ ~ Full /\ cache' = cache \union {<<parentOf[b], n>>}
           /\ effects' = [effects EXCEPT ![<<parentOf[b], n>>] = @ + 1]
           /\ handlers' = handlers \union {<<b, n>>}
<1> DEFINE m == Head(toClient)
           p == parentOf[m.cell]
           b == scopes[p]
<1>1. m \in Message /\ m.type = "invoke" /\ \A e : Invokes(m, e) => Invoked(toClient, e)
  BY PipeTail DEF CallInv, TypeInv, HostTypes, ReceiveInvoke
<1>2. m.cell \in Execs /\ m.n \in 1 .. MaxCalls /\ Invokes(m, m.cell)
  BY <1>1, MessageTypes DEF Invokes
<1>3. p \in Parents
  <2>1. pc[m.cell] \in {"asked", "done"}
    BY <1>1, <1>2 DEF CallInv, NameInv
  <2> QED
    BY <1>2, <2>1 DEF CallInv, TypeInv, PiTypes, NameInv
<1>4. b # None /\ RunUnsafe(b, m.n)
  BY DEF ReceiveInvoke
<1>5. b \in Execs /\ parentOf[b] = p
  BY <1>3, <1>4 DEF CallInv, TypeInv, SessionTypes, ScopeInv, OwnerInv
<1>6. ~ Full /\ cache' = cache \union {<<parentOf[b], m.n>>}
      /\ effects' = [effects EXCEPT ![<<parentOf[b], m.n>>] = @ + 1]
      /\ handlers' = handlers \union {<<b, m.n>>}
  BY <1>4 DEF RunUnsafe, Key
<1> QED
  BY <1>2, <1>3, <1>5, <1>6

LEMMA ReceiveInvokeKeepsCall == ASSUME CallInv, ScopeInv, ReceiveInvoke PROVE CallInv'
<1>1. /\ UNCHANGED <<pc, turn, parentOf, target, knew, aborted, contexts, traces, closing, scopes, cellParents,
                     cancelled, link, result, pending, doomed, cell, made>>
      /\ toClient # <<>> /\ toClient' = Tail(toClient)
  BY DEF ReceiveInvoke, piVars, hostVars
<1>2. PiTypes' /\ SessionTypes'
  BY <1>1 DEF CallInv, TypeInv, PiTypes, SessionTypes
<1>4. /\ toClient' \in Seq(Message)
      /\ \A c : Answered(toClient', c) => Answered(toClient, c)
      /\ \A c : Once(toClient, c) => Once(toClient', c)
      /\ \A e : Invoked(toClient', e) => Invoked(toClient, e)
  BY <1>1, PipeTail DEF CallInv, TypeInv, HostTypes
<1>5. HostTypes' /\ NameInv' /\ AnswerInv'
  BY <1>1, <1>4 DEF CallInv, TypeInv, HostTypes, NameInv, AnswerInv
<1>6. CacheTypes'
  <2>1. CASE UNCHANGED brokerVars
    BY <2>1 DEF CallInv, TypeInv, CacheTypes, brokerVars
  <2>2. CASE ~ UNCHANGED brokerVars
    <3>1. PICK b \in Execs, n \in 1 .. MaxCalls :
                /\ parentOf[b] \in Parents
                /\ ~ Full /\ cache' = cache \union {<<parentOf[b], n>>}
                /\ effects' = [effects EXCEPT ![<<parentOf[b], n>>] = @ + 1]
                /\ handlers' = handlers \union {<<b, n>>}
      BY <2>2, InvokeRuns
    <3> DEFINE key == <<parentOf[b], n>>
    <3>2. key \in Keys
      BY <3>1 DEF Keys
    <3> HIDE DEF key
    <3>3. cache' = cache \union {key} /\ effects' = [effects EXCEPT ![key] = @ + 1]
      BY <3>1 DEF key
    <3>4. IsFiniteSet(cache') /\ Cardinality(cache') <= MaxReplay
      <4>1. IsFiniteSet(cache) /\ Cardinality(cache) \in Nat /\ ~ (Cardinality(cache) >= MaxReplay)
        BY <3>1, FS_CardinalityType DEF Full, CallInv, TypeInv, CacheTypes
      <4>2. /\ IsFiniteSet(cache \union {key})
            /\ Cardinality(cache \union {key}) = IF key \in cache THEN Cardinality(cache) ELSE Cardinality(cache) + 1
        BY <4>1, FS_AddElement
      <4> QED
        BY <3>3, <4>1, <4>2, ScopesAssumption
    <3>5. effects' \in [Keys -> Nat]
      BY <3>2, <3>3 DEF CallInv, TypeInv, CacheTypes
    <3> QED
      BY <3>1, <3>2, <3>3, <3>4, <3>5 DEF CallInv, TypeInv, CacheTypes
  <2> QED
    BY <2>1, <2>2
<1> QED
  BY <1>2, <1>5, <1>6 DEF CallInv, TypeInv

LEMMA ReceiveAnswerKeepsCall == ASSUME CallInv, ReceiveAnswer PROVE CallInv'
<1> DEFINE c == Head(toClient).call
<1>1. /\ UNCHANGED <<pc, turn, parentOf, target, knew, aborted, contexts, traces, closing, scopes, cellParents,
                     cancelled, cache, effects, handlers, link, pending, doomed, cell, made>>
      /\ toClient # <<>> /\ toClient' = Tail(toClient) /\ Head(toClient).type = "answer"
      /\ result' = [result EXCEPT ![c] = Head(toClient).result]
  BY DEF ReceiveAnswer, piVars, agentVars, brokerVars, hostVars
<1>2. /\ toClient' \in Seq(Message) /\ Head(toClient) \in Message
      /\ \A d : Answered(toClient', d) => Answered(toClient, d)
      /\ \A d : Answers(Head(toClient), d) => Answered(toClient, d)
      /\ \A d : Once(toClient, d) => Once(toClient', d)
      /\ \A d : Once(toClient, d) /\ Answers(Head(toClient), d) => ~ Answered(toClient', d)
      /\ \A e : Invoked(toClient', e) => Invoked(toClient, e)
  BY <1>1, PipeTail DEF CallInv, TypeInv, HostTypes
<1>3. c \in Calls /\ Answers(Head(toClient), c) /\ Head(toClient).result \in {"waiting", "verdict", "error"}
  BY <1>1, <1>2, MessageTypes DEF Answers
<1> HIDE DEF c
<1>4. pc[c] = "asked" /\ result[c] = "none" /\ ~ Answered(toClient', c) /\ c \notin pending
  BY <1>2, <1>3 DEF CallInv, AnswerInv
<1>5. /\ result' \in [Calls -> {"none", "waiting", "verdict", "error"}]
      /\ \A d \in Calls \ {c} : result'[d] = result[d]
  BY <1>1, <1>3 DEF CallInv, TypeInv, HostTypes
<1>6. PiTypes' /\ SessionTypes' /\ CacheTypes' /\ HostTypes'
  BY <1>1, <1>2, <1>5 DEF CallInv, TypeInv, PiTypes, SessionTypes, CacheTypes, HostTypes
<1>7. NameInv'
  BY <1>1, <1>2, <1>4, <1>5, Numbers DEF CallInv, TypeInv, PiTypes, NameInv
<1>8. AnswerInv'
  BY <1>1, <1>2, <1>4, <1>5 DEF CallInv, TypeInv, HostTypes, AnswerInv
<1> QED
  BY <1>6, <1>7, <1>8 DEF CallInv, TypeInv

LEMMA LinkLostKeepsCall == ASSUME CallInv, LinkLost PROVE CallInv'
<1>1. /\ UNCHANGED <<pc, turn, parentOf, target, knew, aborted, contexts, traces, closing, scopes, cellParents,
                     cancelled, cache, effects, handlers, doomed, cell, made>>
      /\ toClient' = <<>> /\ pending' = {} /\ link' = FALSE
      /\ result' = [c \in Calls |-> IF pc[c] = "asked" /\ result[c] = "none" THEN "error" ELSE result[c]]
  BY DEF LinkLost, piVars, agentVars, brokerVars, hostVars
<1>2. PiTypes' /\ SessionTypes' /\ CacheTypes' /\ HostTypes'
  <2>1. toClient' \in Seq(Message) /\ pending' \subseteq Calls
    BY <1>1
  <2>2. result' \in [Calls -> {"none", "waiting", "verdict", "error"}]
    BY <1>1 DEF CallInv, TypeInv, HostTypes
  <2> QED
    BY <1>1, <2>1, <2>2 DEF CallInv, TypeInv, PiTypes, SessionTypes, CacheTypes, HostTypes
<1>3. NameInv'
  BY <1>1, PipeEmpty, Numbers DEF CallInv, TypeInv, PiTypes, NameInv
<1>4. AnswerInv'
  BY <1>1, PipeEmpty DEF CallInv, TypeInv, AnswerInv
<1> QED
  BY <1>2, <1>3, <1>4 DEF CallInv, TypeInv

(* The host answers a request, and nothing else becomes of the calls.           *)
LEMMA AnswerKeepsCall ==
  ASSUME CallInv, HostKeeps, NEW c \in pending, NEW r \in {"waiting", "verdict", "error"}, Answer(c, r),
         cell' \in [Execs -> {"none", "running", "ended", "gone"}], UNCHANGED made,
         \A e \in Execs : cell'[e] = "none" <=> cell[e] = "none"
  PROVE  CallInv'
<1> DEFINE m == [type |-> "answer", call |-> c, result |-> r]
<1>1. /\ c \in Calls /\ m \in Message /\ ~ Answered(toClient, c)
      /\ pending' = pending \ {c} /\ toClient' = Append(toClient, m)
      /\ \A d : Answers(m, d) <=> d = c
      /\ \A e : ~ Invokes(m, e)
  BY DEF CallInv, TypeInv, HostTypes, AnswerInv, Answer, Message, Answers, Invokes
<1> HIDE DEF m
<1>2. /\ toClient' \in Seq(Message)
      /\ \A d : Answered(toClient', d) <=> Answered(toClient, d) \/ d = c
      /\ \A e : Invoked(toClient', e) <=> Invoked(toClient, e)
      /\ \A d : Once(toClient, d) => Once(toClient', d)
  BY <1>1, PipeAppend DEF CallInv, TypeInv, HostTypes
<1>3. UNCHANGED <<pc, parentOf, target, result>>
  BY DEF HostKeeps, piVars
<1>4. HostTypes'
  BY <1>1, <1>2, HostKeepsTypes DEF CallInv, TypeInv, HostTypes
<1>5. NameInv'
  BY <1>2, <1>3 DEF CallInv, NameInv
<1>6. AnswerInv'
  BY <1>1, <1>2, <1>3 DEF CallInv, AnswerInv
<1> QED
  BY <1>4, <1>5, <1>6, HostKeepsTypes DEF CallInv, TypeInv

LEMMA HostStartsKeepsCall == ASSUME CallInv, NEW e \in Execs, HostStarts(e) PROVE CallInv'
<1>1. HostKeeps /\ e \in pending /\ UNCHANGED made
  BY DEF HostStarts
<1>2. CASE UNCHANGED <<pending, toClient>> /\ cell' = [cell EXCEPT ![e] = "running"]
  <2>1. UNCHANGED <<pc, parentOf, target, result>> /\ pc[e] = "asked"
    BY <1>1 DEF CallInv, AnswerInv, HostKeeps, piVars
  <2>2. HostTypes'
    BY <1>1, <1>2, HostKeepsTypes DEF CallInv, TypeInv, HostTypes
  <2>3. NameInv' /\ AnswerInv'
    BY <1>1, <1>2, <2>1 DEF CallInv, TypeInv, HostTypes, NameInv, AnswerInv
  <2> QED
    BY <1>1, <2>2, <2>3, HostKeepsTypes DEF CallInv, TypeInv
<1>3. CASE Answer(e, "error") /\ UNCHANGED cell
  BY <1>1, <1>3, AnswerKeepsCall DEF CallInv, TypeInv, HostTypes
<1> QED
  BY <1>2, <1>3 DEF HostStarts

LEMMA HostAnswersKeepsCall == ASSUME CallInv, NEW c \in Calls, HostAnswers(c) PROVE CallInv'
<1> DEFINE e == CellOf(c)
<1>1. HostKeeps /\ c \in pending /\ UNCHANGED made /\ cell[e] # "none"
  BY DEF HostAnswers
<1>2. e \in Execs
  BY <1>1, CellNamed DEF CallInv, AnswerInv
<1>3. PICK r \in {"waiting", "verdict", "error"} : Answer(c, r)
  BY DEF HostAnswers
<1>4. UNCHANGED cell \/ cell' = [cell EXCEPT ![e] = "gone"]
  BY DEF HostAnswers
<1>5. /\ cell' \in [Execs -> {"none", "running", "ended", "gone"}]
      /\ \A d \in Execs : cell'[d] = "none" <=> cell[d] = "none"
  BY <1>1, <1>2, <1>4 DEF CallInv, TypeInv, HostTypes
<1> QED
  BY <1>1, <1>3, <1>5, AnswerKeepsCall

LEMMA HostInvokesKeepsCall == ASSUME CallInv, NEW e \in Execs, HostInvokes(e) PROVE CallInv'
<1> DEFINE m == [type |-> "invoke", cell |-> e, n |-> made[e] + 1]
<1>1. /\ HostKeeps /\ cell[e] = "running" /\ made' = [made EXCEPT ![e] = @ + 1]
      /\ toClient' = Append(toClient, m) /\ UNCHANGED <<cell, pending>>
      /\ made[e] \in 0 .. MaxCalls /\ made[e] < MaxCalls
  BY DEF CallInv, TypeInv, HostTypes, HostInvokes
<1>2. made[e] + 1 \in 1 .. MaxCalls /\ made[e] + 1 \in 0 .. MaxCalls
  BY <1>1, ScopesAssumption
<1>3. m \in Message /\ \A c : ~ Answers(m, c)
  BY <1>2 DEF Message, Answers
<1>4. \A d : Invokes(m, d) <=> d = e
  BY DEF Invokes
<1> HIDE DEF m
<1>5. /\ toClient' \in Seq(Message)
      /\ \A d : Answered(toClient', d) <=> Answered(toClient, d)
      /\ \A d : Invoked(toClient', d) <=> Invoked(toClient, d) \/ d = e
      /\ \A d : Once(toClient, d) => Once(toClient', d)
  BY <1>1, <1>3, <1>4, PipeAppend DEF CallInv, TypeInv, HostTypes
<1>6. UNCHANGED <<pc, parentOf, target, result>>
  BY <1>1 DEF HostKeeps, piVars
<1>7. HostTypes'
  BY <1>1, <1>2, <1>5, HostKeepsTypes DEF CallInv, TypeInv, HostTypes
<1>8. NameInv' /\ AnswerInv'
  BY <1>1, <1>5, <1>6 DEF CallInv, NameInv, AnswerInv
<1> QED
  BY <1>1, <1>7, <1>8, HostKeepsTypes DEF CallInv, TypeInv

LEMMA HostEndsKeepsCall == ASSUME CallInv, NEW e \in Execs, HostEnds(e) PROVE CallInv'
<1>1. HostKeeps /\ cell[e] = "running" /\ cell' = [cell EXCEPT ![e] = "ended"] /\ UNCHANGED <<made, pending, toClient>>
  BY DEF HostEnds
<1>2. UNCHANGED <<pc, parentOf, target, result>>
  BY <1>1 DEF HostKeeps, piVars
<1>3. HostTypes'
  BY <1>1, HostKeepsTypes DEF CallInv, TypeInv, HostTypes
<1>4. NameInv' /\ AnswerInv'
  BY <1>1, <1>2 DEF CallInv, TypeInv, HostTypes, NameInv, AnswerInv
<1> QED
  BY <1>1, <1>3, <1>4, HostKeepsTypes DEF CallInv, TypeInv

LEMMA HostClosesKeepsCall == ASSUME CallInv, HostCloses PROVE CallInv'
<1> DEFINE m == [type |-> "closed"]
<1>1. /\ HostKeeps /\ UNCHANGED <<made, pending>> /\ toClient' = Append(toClient, m)
      /\ cell' = [e \in Execs |-> IF cell[e] = "none" THEN "none" ELSE "gone"]
  BY DEF HostCloses
<1>2. m \in Message /\ \A d : ~ Answers(m, d) /\ ~ Invokes(m, d)
  BY DEF Message, Answers, Invokes
<1> HIDE DEF m
<1>3. /\ toClient' \in Seq(Message)
      /\ \A d : Answered(toClient', d) <=> Answered(toClient, d)
      /\ \A d : Invoked(toClient', d) <=> Invoked(toClient, d)
      /\ \A d : Once(toClient, d) => Once(toClient', d)
  BY <1>1, <1>2, PipeAppend DEF CallInv, TypeInv, HostTypes
<1>4. UNCHANGED <<pc, parentOf, target, result>>
  BY <1>1 DEF HostKeeps, piVars
<1>5. HostTypes'
  BY <1>1, <1>3, HostKeepsTypes DEF CallInv, TypeInv, HostTypes
<1>6. NameInv' /\ AnswerInv'
  BY <1>1, <1>3, <1>4 DEF CallInv, NameInv, AnswerInv
<1> QED
  BY <1>1, <1>5, <1>6, HostKeepsTypes DEF CallInv, TypeInv

------------------------------------------------------------------------------
(* Scopes, contexts and brokers                                                 *)

ScopesInv == CallInv /\ TurnInv /\ ScopeInv /\ LiveInv

LEMMA InitScopes == Init => ScopesInv
  BY InitCall, Numbers DEF Init, ScopesInv, Busy, Waiting, TurnInv, ScopeInv, OwnerInv, AskedInv,
     ParentInv, WaiterInv, LiveInv, FreshInv, RunningInv, ContextInv, WaitingInv, ToolsInv

LEMMA InvMeansScopesMatch == ScopesInv => ScopesMatchCells
<1> SUFFICES ASSUME ScopesInv PROVE ScopesMatchCells
  OBVIOUS
<1>1. TypeOK
  BY TypesCorrect DEF ScopesInv, CallInv
<1>2. \A e \in Execs : Waiting(e) =>
        /\ scopes[parentOf[e]] = e /\ e \notin cancelled
        /\ e \in cellParents /\ e \in traces
        /\ (\A d \in Execs \ {e} : parentOf[d] # parentOf[e]) => parentOf[e] \in contexts
  BY DEF ScopesInv, ScopeInv, ParentInv, LiveInv, WaitingInv, Waiting, Repeats
<1>3. \A h \in handlers : scopes[parentOf[h[1]]] = h[1] \/ h[1] \in cancelled
  BY DEF ScopesInv, LiveInv, ToolsInv
<1> QED
  BY <1>1, <1>2, <1>3 DEF ScopesMatchCells

(* Beside another busy call there is no repeated exec.                          *)
LEMMA Alone ==
  ASSUME TurnInv, NEW e \in Execs, Busy(e), NEW c \in Calls, Busy(c), c # e
  PROVE  \A d \in Execs \ {e} : parentOf[d] # parentOf[e]
  BY DEF TurnInv, Repeats

(* Calls that go on, or end, in their message.                                  *)
LEMMA TurnStays ==
  ASSUME TurnInv, UNCHANGED <<turn, parentOf>>,
         \A c \in Calls : (Busy(c)' => Busy(c)) /\ (pc'[c] = "idle" <=> pc[c] = "idle"),
         turn \subseteq Calls
  PROVE  TurnInv'
<1>1. \A e \in Execs : Repeats(e)' <=> Repeats(e)
  BY DEF Repeats
<1> QED
  BY <1>1, Numbers DEF TurnInv

(* Nothing happens but that calls are answered and frames taken.                *)
LEMMA QuietKeepsScopes ==
  ASSUME ScopesInv,
         UNCHANGED <<pc, turn, parentOf, target, aborted, contexts, traces, closing, scopes, cellParents, cancelled>>,
         \A c \in Calls : result'[c] = result[c] \/ (pc[c] = "asked" /\ result[c] = "none"),
         \A h \in handlers' : (parentOf[h[1]] \in Parents /\ scopes[parentOf[h[1]]] = h[1]) \/ h[1] \in cancelled
  PROVE  TurnInv' /\ ScopeInv' /\ LiveInv'
<1>1. \A e \in Execs : (Repeats(e)' <=> Repeats(e)) /\ (Waiting(e)' => Waiting(e))
  BY Numbers DEF Repeats, Waiting
<1>2. \A c : Busy(c)' <=> Busy(c)
  BY DEF Busy
<1> QED
  BY <1>1, <1>2 DEF ScopesInv, TurnInv, ScopeInv, OwnerInv, AskedInv, ParentInv, WaiterInv, LiveInv,
     FreshInv, RunningInv, ContextInv, WaitingInv, ToolsInv

LEMMA Named ==
  ASSUME CallInv
  PROVE  /\ \A e \in Execs : pc[e] # "idle" => parentOf[e] \in Parents
         /\ \A w \in Waits : pc[w] # "idle" =>
              target[w] \in Execs /\ pc[target[w]] = "done" /\ parentOf[target[w]] \in Parents
         /\ turn \subseteq Calls
  BY Numbers DEF CallInv, TypeInv, PiTypes, NameInv

(* A call that returns releases the scope of its cell, which is over for it.    *)
LEMMA ReleaseKeepsScopes ==
  ASSUME ScopesInv, NEW c \in Calls, pc[c] = "asked", pc' = [pc EXCEPT ![c] = "done"],
         NEW e \in Execs, e = c \/ (c \in Waits /\ pc[e] = "done"), NEW p \in Parents, parentOf[e] = p, Release(p),
         UNCHANGED <<turn, parentOf, target, aborted, closing, handlers, result>>,
         cellParents \ {e} \subseteq cellParents', cellParents' \subseteq cellParents,
         closing # "done" => e \notin cellParents' /\ scopes[p] \in {e, None},
         \A d \in Execs \ {e} : Busy(d) => parentOf[d] # p,
         traces \ {e} \subseteq traces', contexts \ {p} \subseteq contexts', ~ Waiting(e)'
  PROVE  ScopeInv' /\ LiveInv'
<1>1. /\ pc'[c] = "done" /\ \A d \in Calls \ {c} : pc'[d] = pc[d]
      /\ \A d \in Calls : Busy(d)' <=> Busy(d) /\ d # c
      /\ \A d \in Execs : pc'[d] = "idle" <=> pc[d] = "idle"
  BY Numbers DEF ScopesInv, CallInv, TypeInv, PiTypes, Busy
<1>2. \A d \in Execs : (Repeats(d)' <=> Repeats(d)) /\ (Waiting(d)' => Waiting(d) /\ d # e)
  BY <1>1, Numbers DEF Repeats, Waiting
<1>3. /\ \A q \in Parents : scopes'[q] = IF q = p THEN None ELSE scopes[q]
      /\ cancelled' = cancelled \union ({scopes[p]} \ {None})
      /\ scopes[p] # None => scopes[p] = e /\ pc[e] # "idle" /\ closing # "done"
  BY DEF ScopesInv, CallInv, TypeInv, SessionTypes, ScopeInv, OwnerInv, Release
<1>4. /\ \A d \in Execs : pc[d] # "idle" /\ parentOf[d] # p => scopes'[parentOf[d]] = scopes[parentOf[d]]
      /\ \A d \in Execs : d \in cancelled' => d \in cancelled \/ d = e
  BY <1>3, Named DEF ScopesInv
<1>5. OwnerInv'
  BY <1>1, <1>3, Numbers DEF ScopesInv, CallInv, TypeInv, SessionTypes, ScopeInv, OwnerInv
<1>6. AskedInv'
  BY <1>1, <1>4, Numbers DEF ScopesInv, ScopeInv, AskedInv, Busy
<1>7. ParentInv'
  <2>1. ASSUME NEW d \in cellParents', closing # "done"
        PROVE  pc'[d] = "done" /\ scopes'[parentOf[d]] = d
    <3>1. d \in Execs /\ d # e /\ pc[d] = "done" /\ scopes[parentOf[d]] = d
      BY <2>1 DEF ScopesInv, CallInv, TypeInv, SessionTypes, ScopeInv, ParentInv
    <3>2. parentOf[d] # p
      BY <2>1, <3>1, Numbers
    <3> QED
      BY <1>1, <1>4, <3>1, <3>2, Numbers
  <2> QED
    BY <2>1 DEF ParentInv
<1>8. WaiterInv'
  <2>1. ASSUME NEW w \in Waits, pc'[w] = "asked", closing # "done"
        PROVE  scopes'[parentOf[target[w]]] \in {target[w], None}
    <3>1. pc[w] = "asked" /\ scopes[parentOf[target[w]]] \in {target[w], None}
      BY <1>1, <2>1, Numbers DEF ScopesInv, ScopeInv, WaiterInv
    <3>2. parentOf[target[w]] \in Parents
      BY <3>1, Named DEF ScopesInv
    <3> QED
      BY <1>3, <3>1, <3>2
  <2> QED
    BY <2>1 DEF WaiterInv
<1>9. FreshInv' /\ RunningInv'
  BY <1>1, <1>3, <1>4, Numbers DEF ScopesInv, LiveInv, FreshInv, RunningInv, Busy
<1>10. ContextInv' /\ WaitingInv'
  <2>1. \A d \in Execs \ {e} : ~ Repeats(d) => parentOf[d] # p
    BY DEF Repeats
  <2>2. ContextInv'
    BY <1>1, <1>2, <2>1, Numbers DEF ScopesInv, LiveInv, ContextInv, Busy
  <2>3. WaitingInv'
    BY <1>2, <1>4, <2>1 DEF ScopesInv, LiveInv, WaitingInv
  <2> QED
    BY <2>2, <2>3
<1>11. ToolsInv'
  <2>1. \A q \in Parents : scopes'[q] = scopes[q] \/ scopes[q] = None \/ scopes[q] \in cancelled'
    BY <1>3
  <2>2. \A h \in handlers : h[1] # None
    BY Numbers DEF ScopesInv, CallInv, TypeInv, CacheTypes
  <2> QED
    BY <1>3, <2>1, <2>2 DEF ScopesInv, LiveInv, ToolsInv
<1> QED
  BY <1>5, <1>6, <1>7, <1>8, <1>9, <1>10, <1>11 DEF ScopeInv, LiveInv

LEMMA ExecReturnsKeepsScopes ==
  ASSUME ScopesInv, NEW e \in Execs, ExecReturns(e)
  PROVE  TurnInv' /\ ScopeInv' /\ LiveInv'
<1> DEFINE p == parentOf[e]
<1>1. /\ e \in Calls /\ pc[e] = "asked" /\ Busy(e) /\ p \in Parents
      /\ pc' = [pc EXCEPT ![e] = "done"]
      /\ UNCHANGED <<turn, parentOf, target, aborted, closing, handlers, result>>
  BY Numbers DEF ScopesInv, CallInv, TypeInv, PiTypes, NameInv, ExecReturns, Busy, brokerVars
<1>2. /\ pc'[e] = "done" /\ \A c \in Calls \ {e} : pc'[c] = pc[c]
      /\ \A c \in Calls : Busy(c)' <=> Busy(c) /\ c # e
      /\ turn \subseteq Calls
  BY <1>1 DEF ScopesInv, CallInv, TypeInv, PiTypes, Busy
<1>3. \A d \in Execs : (Repeats(d)' <=> Repeats(d)) /\ (Waiting(d)' => Waiting(d) \/ d = e)
  BY <1>1, <1>2, Numbers DEF Repeats, Waiting
<1>4. /\ closing # "done" => scopes[p] = e
      /\ \A d \in Execs \ {e} : Busy(d) => parentOf[d] # p
  BY <1>1, Numbers, Alone DEF ScopesInv, ScopeInv, AskedInv
<1>5. CASE /\ result[e] = "waiting" /\ cellParents' = cellParents \union {e} /\ traces' = traces \union {e}
           /\ cancelled' = IF closing = "no" THEN cancelled ELSE cancelled \union {e}
           /\ contexts' = IF closing = "no" THEN contexts ELSE contexts \ {p}
           /\ UNCHANGED scopes
  <2>1. TurnInv'
    BY <1>1, <1>2, TurnStays DEF ScopesInv
  <2>2. OwnerInv'
    BY <1>1, <1>2, <1>3, <1>4, <1>5, Numbers DEF ScopesInv, CallInv, TypeInv, SessionTypes, ScopeInv,
       OwnerInv
  <2>3. AskedInv'
    BY <1>1, <1>2, <1>3, <1>4, <1>5, Numbers DEF ScopesInv, ScopeInv, AskedInv
  <2>4. ParentInv'
    BY <1>1, <1>2, <1>3, <1>4, <1>5, Numbers DEF ScopesInv, CallInv, TypeInv, SessionTypes, ScopeInv,
       ParentInv
  <2>5. WaiterInv'
    BY <1>1, <1>2, <1>3, <1>4, <1>5, Numbers DEF ScopesInv, ScopeInv, WaiterInv
  <2>6. FreshInv'
    BY <1>1, <1>2, <1>3, <1>4, <1>5, Numbers DEF ScopesInv, LiveInv, FreshInv
  <2>7. RunningInv'
    BY <1>1, <1>2, <1>3, <1>4, <1>5, Numbers DEF ScopesInv, LiveInv, RunningInv
  <2>8. ContextInv'
    BY <1>1, <1>2, <1>3, <1>4, <1>5, Numbers DEF ScopesInv, LiveInv, ContextInv
  <2>9. WaitingInv'
    BY <1>1, <1>2, <1>3, <1>4, <1>5, Numbers DEF ScopesInv, LiveInv, RunningInv, ContextInv,
       WaitingInv, Waiting
  <2>10. ToolsInv'
    BY <1>1, <1>2, <1>3, <1>4, <1>5, Numbers DEF ScopesInv, LiveInv, ToolsInv
  <2> QED
    BY <2>1, <2>2, <2>3, <2>4, <2>5, <2>6, <2>7, <2>8, <2>9, <2>10 DEF ScopeInv, LiveInv
<1>6. CASE /\ result[e] # "waiting" /\ Release(p) /\ contexts' = contexts \ {p}
           /\ UNCHANGED <<cellParents, traces>>
  <2>1. TurnInv'
    BY <1>1, <1>2, TurnStays DEF ScopesInv
  <2>2. ~ Waiting(e)' /\ (closing # "done" => e \notin cellParents)
    BY <1>1, <1>6 DEF ScopesInv, ScopeInv, ParentInv, Waiting
  <2>3. ScopeInv' /\ LiveInv'
    BY <1>1, <1>4, <1>6, <2>2, ReleaseKeepsScopes
  <2> QED
    BY <2>1, <2>3
<1> QED
  BY <1>5, <1>6 DEF ExecReturns

LEMMA WaitReturnsKeepsScopes ==
  ASSUME ScopesInv, NEW w \in Waits, WaitReturns(w)
  PROVE  TurnInv' /\ ScopeInv' /\ LiveInv'
<1> DEFINE e == target[w]
           p == parentOf[e]
<1>1. /\ w \in Calls /\ pc[w] = "asked" /\ Busy(w) /\ e \in Execs /\ pc[e] = "done" /\ p \in Parents
      /\ pc' = [pc EXCEPT ![w] = "done"]
      /\ UNCHANGED <<turn, parentOf, target, aborted, closing, handlers, result>>
  BY Numbers DEF ScopesInv, CallInv, TypeInv, PiTypes, NameInv, WaitReturns, Busy, brokerVars
<1>2. /\ pc'[w] = "done" /\ \A c \in Calls \ {w} : pc'[c] = pc[c]
      /\ \A c \in Calls : Busy(c)' <=> Busy(c) /\ c # w
      /\ turn \subseteq Calls
  BY <1>1 DEF ScopesInv, CallInv, TypeInv, PiTypes, Busy
<1>3. \A d \in Execs : (Repeats(d)' <=> Repeats(d)) /\ (Waiting(d)' <=> Waiting(d)) /\ d # w
  BY <1>1, <1>2, Numbers DEF Repeats, Waiting
<1>4. /\ closing # "done" => scopes[p] \in {e, None}
      /\ \A d \in Execs \ {e} : Busy(d) => parentOf[d] # p
  <2>1. ASSUME NEW d \in Execs \ {e}, Busy(d) PROVE parentOf[d] # p
    BY <1>1, <1>3, <2>1, Alone DEF ScopesInv
  <2> QED
    BY <1>1, <2>1 DEF ScopesInv, ScopeInv, WaiterInv
<1>5. TurnInv'
  BY <1>1, <1>2, TurnStays DEF ScopesInv
<1>6. CASE UNCHANGED <<cellParents, scopes, cancelled, traces, contexts>>
  BY <1>1, <1>2, <1>3, <1>5, <1>6, Numbers DEF ScopesInv, TurnInv, ScopeInv, OwnerInv, AskedInv,
     ParentInv, WaiterInv, LiveInv, FreshInv, RunningInv, ContextInv, WaitingInv, ToolsInv
<1>7. CASE /\ result[w] = "verdict" /\ cellParents' = cellParents \ {e} /\ Release(p)
           /\ traces' \in {traces, traces \ {e}} /\ contexts' \in {contexts, contexts \ {p}}
  <2>1. ~ Waiting(e)' /\ (closing # "done" => e \notin cellParents')
    BY <1>1, <1>7 DEF Waiting
  <2>2. ScopeInv' /\ LiveInv'
    BY <1>1, <1>4, <1>7, <2>1, ReleaseKeepsScopes
  <2> QED
    BY <1>5, <2>2
<1> QED
  BY <1>6, <1>7 DEF WaitReturns

(* The scopes are as they were, and nobody has come to need another.            *)
LEMMA SameScopes ==
  ASSUME ScopesInv, UNCHANGED <<scopes, cellParents>>, closing' = closing,
         \A e \in Execs : pc[e] \in {"asked", "done"} => pc'[e] \in {"asked", "done"} /\ parentOf'[e] = parentOf[e],
         \A e \in Execs : (pc'[e] = "asked" => pc[e] = "asked") /\ (pc[e] = "done" => pc'[e] = "done"),
         \A w \in Waits : pc'[w] = "asked" =>
           /\ target'[w] = target[w] /\ target[w] \in Execs /\ parentOf'[target[w]] = parentOf[target[w]]
           /\ pc[w] = "asked" \/ target[w] \in cellParents
  PROVE  ScopeInv'
<1>1. OwnerInv'
  <2>1. \A p \in Parents : scopes[p] # None => scopes[p] \in Execs
    BY DEF ScopesInv, CallInv, TypeInv, SessionTypes
  <2> QED
    BY <2>1 DEF ScopesInv, ScopeInv, OwnerInv
<1>2. AskedInv'
  BY DEF ScopesInv, ScopeInv, AskedInv
<1>3. ParentInv'
  <2>1. cellParents \subseteq Execs
    BY DEF ScopesInv, CallInv, TypeInv, SessionTypes
  <2> QED
    BY <2>1 DEF ScopesInv, ScopeInv, ParentInv
<1>4. WaiterInv'
  BY DEF ScopesInv, ScopeInv, ParentInv, WaiterInv
<1> QED
  BY <1>1, <1>2, <1>3, <1>4 DEF ScopeInv

LEMMA ExecKeepsScopes ==
  ASSUME ScopesInv, NEW e \in Execs, NEW p \in Parents, Exec(e, p)
  PROVE  TurnInv' /\ ScopeInv' /\ LiveInv'
<1>1. /\ e \in Calls /\ pc[e] = "idle" /\ parentOf[e] = None
      /\ pc'[e] = "called" /\ \A c \in Calls \ {e} : pc'[c] = pc[c]
      /\ parentOf'[e] = p /\ \A d \in Execs \ {e} : parentOf'[d] = parentOf[d]
      /\ contexts' = contexts \union {p} /\ closing = "no"
      /\ UNCHANGED <<target, aborted, traces, closing, scopes, cellParents, cancelled, handlers, result>>
  BY Numbers DEF ScopesInv, CallInv, TypeInv, PiTypes, NameInv, Exec, agentVars, brokerVars
<1>2. /\ \A c \in Calls : Busy(c)' <=> Busy(c) \/ c = e
      /\ \A d \in Execs : Waiting(d)' <=> Waiting(d)
  BY <1>1, Numbers DEF Busy, Waiting
<1>3. \A d \in Execs : pc[d] # "idle" /\ Repeats(d) => Repeats(d)'
  <2>1. ASSUME NEW d \in Execs, NEW x \in Execs \ {d}, pc[d] # "idle", parentOf[x] = parentOf[d]
        PROVE  x # e /\ d # e /\ parentOf'[x] = parentOf'[d]
    BY <1>1, <2>1, Named, Numbers DEF ScopesInv
  <2> QED
    BY <2>1 DEF Repeats
<1>4. TurnInv'
  <2>1. /\ \/ (\A d \in turn : pc[d] = "done") /\ turn' = {e}
           \/ (\A d \in turn : pc[d] # "done" /\ ~ (d \in Execs /\ Repeats(d))) /\ turn' = turn \union {e}
        /\ (\E d \in Execs : parentOf[d] = p) => turn' = {e}
    BY DEF Exec, Joins
  <2>2. \A c \in Calls : Busy(c)' => c \in turn'
    BY <1>2, <2>1 DEF ScopesInv, TurnInv, Busy
  <2>3. \A c \in turn' : pc'[c] # "idle"
    BY <1>1, <2>1, Named DEF ScopesInv, TurnInv
  <2>4. ASSUME NEW d \in Execs, Busy(d)', Repeats(d)', turn' # {e} PROVE FALSE
    <3>1. \A x \in Execs : parentOf[x] # p
      BY <2>1, <2>4
    <3>2. PICK x \in Execs \ {d} : parentOf'[x] = parentOf'[d]
      BY <2>4 DEF Repeats
    <3>3. d # e /\ x # e
      BY <1>1, <3>1, <3>2
    <3>4. Repeats(d) /\ d \in turn
      BY <1>1, <1>2, <2>4, <3>2, <3>3, Numbers DEF Repeats, ScopesInv, TurnInv
    <3>5. turn' = turn \union {e} /\ ~ Repeats(d)
      BY <2>1, <2>4, <3>4
    <3> QED
      BY <3>4, <3>5
  <2>5. \A d \in Execs : Busy(d)' /\ Repeats(d)' => turn' = {d}
    <3>1. ASSUME NEW d \in Execs, Busy(d)', Repeats(d)' PROVE d = e
      BY <1>2, <2>1, <2>4, <3>1, Numbers DEF ScopesInv, TurnInv, Busy
    <3> QED
      BY <2>4, <3>1
  <2> QED
    BY <2>2, <2>3, <2>5 DEF TurnInv
<1>5. ScopeInv'
  <2>1. \A w \in Waits : w # e /\ (pc[w] = "asked" => target[w] \in Execs \ {e})
    BY <1>1, Named, Numbers DEF ScopesInv
  <2>2. \A d \in Execs : d \in Calls
    BY Numbers
  <2>3. /\ \A d \in Execs : pc[d] \in {"asked", "done"} => pc'[d] \in {"asked", "done"} /\ parentOf'[d] = parentOf[d]
        /\ \A d \in Execs : (pc'[d] = "asked" => pc[d] = "asked") /\ (pc[d] = "done" => pc'[d] = "done")
    BY <1>1, <2>2
  <2>4. \A w \in Waits : pc'[w] = "asked" => pc[w] = "asked"
    BY <1>1, <2>1, Numbers
  <2> QED
    BY <1>1, <2>1, <2>3, <2>4, SameScopes
<1>6. FreshInv' /\ RunningInv' /\ ContextInv' /\ WaitingInv'
  BY <1>1, <1>2, <1>3, Numbers DEF ScopesInv, LiveInv, FreshInv, RunningInv, ContextInv, WaitingInv,
     Waiting, Busy
<1>7. ToolsInv'
  BY <1>1, Numbers DEF ScopesInv, CallInv, TypeInv, CacheTypes, LiveInv, ToolsInv
<1> QED
  BY <1>4, <1>5, <1>6, <1>7 DEF LiveInv

LEMMA SubmitExecKeepsScopes ==
  ASSUME ScopesInv, NEW e \in Execs, SubmitExec(e)
  PROVE  TurnInv' /\ ScopeInv' /\ LiveInv'
<1> DEFINE p == parentOf[e]
<1>1. /\ e \in Calls /\ pc[e] = "called" /\ Busy(e) /\ result[e] = "none" /\ p \in Parents
      /\ pc'[e] \in {"asked", "done"} /\ \A c \in Calls \ {e} : pc'[c] = pc[c]
      /\ \A c \in Calls \ {e} : result'[c] = result[c]
      /\ result'[e] # "waiting"
      /\ UNCHANGED <<turn, parentOf, target, aborted, traces, closing, cellParents, handlers>>
  BY Numbers DEF ScopesInv, CallInv, TypeInv, PiTypes, HostTypes, NameInv, AnswerInv, SubmitExec, Busy,
     brokerVars
<1>2. /\ \A c \in Calls : (Busy(c)' => Busy(c)) /\ (pc'[c] = "idle" <=> pc[c] = "idle")
      /\ \A d \in Execs : (Repeats(d)' <=> Repeats(d)) /\ (Waiting(d)' => Waiting(d) /\ d # e)
  BY <1>1, Numbers DEF Repeats, Waiting, Busy
<1>3. TurnInv'
  BY <1>1, <1>2, Named, TurnStays DEF ScopesInv
<1>4. \A d \in Execs \ {e} : (pc[d] = "asked" => parentOf[d] # p) /\ (~ Repeats(d) => parentOf[d] # p)
  BY <1>1, Alone, Numbers DEF ScopesInv, Repeats, Busy
<1>5. CASE pc'[e] = "done" /\ cancelled' = cancelled \union {e} /\ contexts' = contexts \ {p} /\ UNCHANGED scopes
  <2>1. ScopeInv'
    <3>1. \A w \in Waits : w # e /\ (pc[w] = "asked" => target[w] \in Execs)
      BY Named, Numbers DEF ScopesInv
    <3> QED
      BY <1>1, <1>5, <3>1, Numbers, SameScopes
  <2>2. FreshInv' /\ RunningInv' /\ ContextInv'
    BY <1>1, <1>2, <1>4, <1>5, Numbers DEF ScopesInv, LiveInv, FreshInv, RunningInv, ContextInv, Busy
  <2>3. WaitingInv' /\ ToolsInv'
    BY <1>1, <1>2, <1>4, <1>5 DEF ScopesInv, LiveInv, WaitingInv, ToolsInv
  <2> QED
    BY <1>3, <2>1, <2>2, <2>3 DEF LiveInv
<1>6. CASE pc'[e] = "asked" /\ closing = "no" /\ scopes[p] = None /\ scopes' = [scopes EXCEPT ![p] = e]
           /\ UNCHANGED <<contexts, cancelled>>
  <2>1. \A q \in Parents : scopes'[q] = IF q = p THEN e ELSE scopes[q]
    BY <1>1, <1>6 DEF ScopesInv, CallInv, TypeInv, SessionTypes
  <2>2. OwnerInv' /\ AskedInv'
    <3>1. OwnerInv'
      <4>1. \A q \in Parents : scopes[q] # None => scopes[q] \in Execs \ {e}
        BY <1>1 DEF ScopesInv, CallInv, TypeInv, SessionTypes, ScopeInv, OwnerInv
      <4>2. ASSUME NEW q \in Parents \ {p}, scopes[q] # None
            PROVE  parentOf'[scopes[q]] = q /\ pc'[scopes[q]] \in {"asked", "done"}
        BY <1>1, <4>1, <4>2, Numbers DEF ScopesInv, ScopeInv, OwnerInv
      <4>3. parentOf'[e] = p /\ pc'[e] = "asked" /\ closing' # "done"
        BY <1>1, <1>6
      <4> QED
        BY <2>1, <4>2, <4>3 DEF OwnerInv
    <3>2. AskedInv'
      <4>1. ASSUME NEW d \in Execs \ {e}, pc'[d] = "asked"
            PROVE  scopes'[parentOf[d]] = d
        <5>1. pc[d] = "asked" /\ parentOf[d] \in Parents /\ parentOf[d] # p
          BY <1>1, <1>4, <4>1, Named, Numbers DEF ScopesInv
        <5> QED
          BY <1>6, <2>1, <5>1 DEF ScopesInv, ScopeInv, AskedInv
      <4>2. scopes'[p] = e
        BY <1>1, <2>1
      <4> QED
        BY <1>1, <4>1, <4>2 DEF AskedInv
    <3> QED
      BY <3>1, <3>2
  <2>3. ParentInv'
    BY <1>1, <1>6, <2>1, Named, Numbers DEF ScopesInv, CallInv, TypeInv, SessionTypes, ScopeInv,
       ParentInv
  <2>4. WaiterInv'
    <3>1. ASSUME NEW w \in Waits, pc[w] = "asked"
          PROVE  parentOf[target[w]] \in Parents /\ parentOf[target[w]] # p
      <4>1. target[w] \in Execs \ {e} /\ parentOf[target[w]] \in Parents
        BY <1>1, <3>1, Named DEF ScopesInv
      <4> QED
        BY <1>1, <3>1, <4>1, Alone, Numbers DEF ScopesInv, Busy
    <3>2. \A w \in Waits : w # e /\ w \in Calls
      BY Numbers
    <3> QED
      BY <1>1, <2>1, <3>1, <3>2 DEF ScopesInv, ScopeInv, WaiterInv
  <2>5. FreshInv' /\ RunningInv' /\ ContextInv' /\ WaitingInv'
    BY <1>1, <1>2, <1>6, Numbers DEF ScopesInv, LiveInv, FreshInv, RunningInv, ContextInv, WaitingInv
  <2>6. ToolsInv'
    BY <1>1, <1>6, <2>1, Numbers DEF ScopesInv, CallInv, TypeInv, CacheTypes, LiveInv, ToolsInv
  <2> QED
    BY <1>3, <2>2, <2>3, <2>4, <2>5, <2>6 DEF ScopeInv, LiveInv
<1> QED
  BY <1>1, <1>5, <1>6 DEF ScopesInv, CallInv, TypeInv, PiTypes, SubmitExec, Refused

LEMMA WaitKeepsScopes ==
  ASSUME ScopesInv, NEW w \in Waits, NEW e \in Execs, Wait(w, e)
  PROVE  TurnInv' /\ ScopeInv' /\ LiveInv'
<1>1. /\ w \in Calls /\ pc[w] = "idle" /\ target[w] = None
      /\ pc'[w] = "called" /\ \A c \in Calls \ {w} : pc'[c] = pc[c]
      /\ \A v \in Waits \ {w} : target'[v] = target[v]
      /\ UNCHANGED <<parentOf, aborted, contexts, traces, closing, scopes, cellParents, cancelled, handlers, result>>
  BY Numbers DEF ScopesInv, CallInv, TypeInv, PiTypes, NameInv, Wait, agentVars, brokerVars
<1>2. /\ \A c \in Calls : Busy(c)' <=> Busy(c) \/ c = w
      /\ \A d \in Execs : (Waiting(d)' => Waiting(d)) /\ (Repeats(d)' <=> Repeats(d)) /\ d # w
  BY <1>1, Numbers DEF Busy, Waiting, Repeats
<1>3. TurnInv'
  <2>1. \/ (\A d \in turn : pc[d] = "done") /\ turn' = {w}
        \/ (\A d \in turn : pc[d] # "done" /\ ~ (d \in Execs /\ Repeats(d))) /\ turn' = turn \union {w}
    BY DEF Wait, Joins
  <2>2. \A c \in Calls : Busy(c)' => c \in turn'
    BY <1>2, <2>1 DEF ScopesInv, TurnInv, Busy
  <2>3. \A c \in turn' : pc'[c] # "idle"
    BY <1>1, <2>1, Named DEF ScopesInv, TurnInv
  <2>4. \A d \in Execs : ~ (Busy(d)' /\ Repeats(d)')
    BY <1>2, <2>1, Numbers DEF ScopesInv, TurnInv, Busy
  <2> QED
    BY <2>2, <2>3, <2>4 DEF TurnInv
<1>4. ScopeInv'
  <2>1. \A v \in Waits : pc[v] = "asked" => target[v] \in Execs
    BY Named DEF ScopesInv
  <2>2. closing' = closing
    BY DEF Wait, agentVars
  <2> QED
    BY <1>1, <1>2, <2>1, <2>2, Numbers, SameScopes
<1>5. LiveInv'
  BY <1>1, <1>2, Numbers DEF ScopesInv, LiveInv, FreshInv, RunningInv, ContextInv, WaitingInv, ToolsInv
<1> QED
  BY <1>3, <1>4, <1>5

LEMMA SubmitWaitKeepsScopes ==
  ASSUME ScopesInv, NEW w \in Waits, SubmitWait(w)
  PROVE  TurnInv' /\ ScopeInv' /\ LiveInv'
<1>1. /\ w \in Calls /\ pc[w] = "called" /\ Busy(w) /\ result[w] = "none"
      /\ pc'[w] \in {"asked", "done"} /\ \A c \in Calls \ {w} : pc'[c] = pc[c] /\ result'[c] = result[c]
      /\ pc'[w] = "asked" => target[w] \in cellParents
      /\ UNCHANGED <<turn, parentOf, target, aborted, contexts, traces, closing, scopes, cellParents, cancelled,
                     handlers>>
  BY Numbers DEF ScopesInv, CallInv, TypeInv, PiTypes, HostTypes, NameInv, AnswerInv, SubmitWait, Busy,
                 agentVars, brokerVars
<1>2. /\ \A c \in Calls : (Busy(c)' => Busy(c)) /\ (pc'[c] = "idle" <=> pc[c] = "idle")
      /\ \A d \in Execs : (Repeats(d)' <=> Repeats(d)) /\ (Waiting(d)' => Waiting(d)) /\ d # w
  BY <1>1, Numbers DEF Repeats, Waiting, Busy
<1>3. TurnInv'
  BY <1>1, <1>2, Named, TurnStays DEF ScopesInv
<1>4. ScopeInv'
  <2>1. \A v \in Waits : pc[v] # "idle" => target[v] \in Execs
    BY Named DEF ScopesInv
  <2> QED
    BY <1>1, <1>2, <2>1, Numbers, SameScopes
<1>5. LiveInv'
  BY <1>1, <1>2, Numbers DEF ScopesInv, LiveInv, FreshInv, RunningInv, ContextInv, WaitingInv, ToolsInv
<1> QED
  BY <1>3, <1>4, <1>5

LEMMA AbortKeepsScopes ==
  ASSUME ScopesInv, NEW c \in Calls, Abort(c)
  PROVE  TurnInv' /\ ScopeInv' /\ LiveInv'
<1>1. /\ Busy(c) /\ aborted' = aborted \union {c}
      /\ cancelled' = cancelled \/ cancelled' = cancelled \union {c}
      /\ UNCHANGED <<pc, turn, parentOf, target, contexts, traces, closing, scopes, cellParents, handlers, result>>
  BY DEF Abort, Busy, brokerVars
<1>2. /\ \A d : Busy(d)' <=> Busy(d)
      /\ \A d \in Execs : (Repeats(d)' <=> Repeats(d)) /\ (Waiting(d)' => Waiting(d) /\ d # c)
  BY <1>1 DEF Repeats, Waiting, Busy
<1>3. TurnInv' /\ ScopeInv'
  BY <1>1, <1>2 DEF ScopesInv, TurnInv, ScopeInv, OwnerInv, AskedInv, ParentInv, WaiterInv
<1>4. LiveInv'
  BY <1>1, <1>2 DEF ScopesInv, LiveInv, FreshInv, RunningInv, ContextInv, WaitingInv, ToolsInv, Busy
<1> QED
  BY <1>3, <1>4

LEMMA ShutdownKeepsScopes ==
  ASSUME ScopesInv, ShutdownStarts \/ ShutdownEnds
  PROVE  TurnInv' /\ ScopeInv' /\ LiveInv'
<1>1. /\ UNCHANGED <<pc, turn, parentOf, target, aborted, handlers, result>>
      /\ closing' # "no" /\ (closing' # "done" => closing # "done")
  BY DEF ShutdownStarts, ShutdownEnds, piVars, brokerVars
<1>2. TurnInv'
  BY <1>1 DEF ScopesInv, TurnInv, Busy, Repeats
<1>3. \A d \in Execs : ~ Waiting(d)'
  BY <1>1 DEF Waiting
<1>4. CASE ShutdownStarts
  BY <1>1, <1>2, <1>3, <1>4 DEF ShutdownStarts, ScopesInv, ScopeInv, OwnerInv, AskedInv, ParentInv,
     WaiterInv,
       LiveInv, FreshInv, RunningInv, ContextInv, WaitingInv, ToolsInv, Busy
<1>5. CASE ShutdownEnds
  <2>1. /\ closing' = "done" /\ \A p \in Parents : scopes'[p] = None
        /\ cancelled' = cancelled \union {scopes[p] : p \in {q \in Parents : scopes[q] # None}}
    BY <1>5 DEF ShutdownEnds
  <2>2. ScopeInv'
    BY <2>1 DEF ScopeInv, OwnerInv, AskedInv, ParentInv, WaiterInv
  <2>3. FreshInv'
    BY <1>1, <2>1 DEF ScopesInv, ScopeInv, OwnerInv, LiveInv, FreshInv
  <2>4. RunningInv' /\ ContextInv' /\ WaitingInv'
    BY <1>1, <1>3, <2>1 DEF RunningInv, ContextInv, WaitingInv
  <2>5. ToolsInv'
    BY <1>1, <2>1, Numbers DEF ScopesInv, CallInv, TypeInv, CacheTypes, LiveInv, ToolsInv
  <2> QED
    BY <1>2, <2>2, <2>3, <2>4, <2>5 DEF LiveInv
<1> QED
  BY <1>4, <1>5

LEMMA ReceiveKeepsScopes ==
  ASSUME ScopesInv, ReceiveInvoke \/ ReceiveAnswer \/ LinkLost
  PROVE  TurnInv' /\ ScopeInv' /\ LiveInv'
<1>1. UNCHANGED <<pc, turn, parentOf, target, aborted, contexts, traces, closing, scopes, cellParents, cancelled>>
  BY DEF ReceiveInvoke, ReceiveAnswer, LinkLost, piVars, agentVars
<1>2. \A c \in Calls : result'[c] = result[c] \/ (pc[c] = "asked" /\ result[c] = "none")
  <2>1. CASE ReceiveInvoke
    BY <2>1 DEF ReceiveInvoke
  <2>2. CASE ReceiveAnswer
    <3> DEFINE m == Head(toClient)
    <3>1. m \in Message /\ m.type = "answer" /\ \A d : Answers(m, d) => Answered(toClient, d)
      BY <2>2, PipeTail DEF ReceiveAnswer, ScopesInv, CallInv, TypeInv, HostTypes
    <3>2. m.call \in Calls /\ Answers(m, m.call)
      BY <3>1, MessageTypes DEF Answers
    <3>3. pc[m.call] = "asked" /\ result[m.call] = "none"
      BY <3>1, <3>2 DEF ScopesInv, CallInv, AnswerInv
    <3> QED
      BY <2>2, <3>2, <3>3 DEF ReceiveAnswer, ScopesInv, CallInv, TypeInv, HostTypes
  <2>3. CASE LinkLost
    BY <2>3 DEF LinkLost
  <2> QED
    BY <2>1, <2>2, <2>3
<1>3. \A h \in handlers' : (parentOf[h[1]] \in Parents /\ scopes[parentOf[h[1]]] = h[1]) \/ h[1] \in cancelled
  <2>1. CASE UNCHANGED handlers
    BY <2>1 DEF ScopesInv, LiveInv, ToolsInv
  <2>2. CASE ~ UNCHANGED handlers
    <3>1. ReceiveInvoke /\ ~ UNCHANGED brokerVars
      BY <2>2 DEF ReceiveAnswer, LinkLost, agentVars, brokerVars
    <3>2. PICK b \in Execs, n \in 1 .. MaxCalls :
                 parentOf[b] \in Parents /\ scopes[parentOf[b]] = b /\ handlers' = handlers \union {<<b, n>>}
      BY <3>1, InvokeRuns DEF ScopesInv
    <3> QED
      BY <3>2 DEF ScopesInv, LiveInv, ToolsInv
  <2> QED
    BY <2>1, <2>2
<1> QED
  BY <1>1, <1>2, <1>3, QuietKeepsScopes

LEMMA HostKeepsScopes ==
  ASSUME ScopesInv, HostKeeps \/ UNCHANGED vars
  PROVE  TurnInv' /\ ScopeInv' /\ LiveInv'
<1>1. /\ UNCHANGED <<pc, turn, parentOf, target, aborted, contexts, traces, closing, scopes, cellParents, cancelled>>
      /\ UNCHANGED <<result, handlers>>
  BY DEF HostKeeps, vars, piVars, agentVars, brokerVars
<1>2. \A h \in handlers' : (parentOf[h[1]] \in Parents /\ scopes[parentOf[h[1]]] = h[1]) \/ h[1] \in cancelled
  BY <1>1 DEF ScopesInv, LiveInv, ToolsInv
<1> QED
  BY <1>1, <1>2, QuietKeepsScopes

LEMMA NextKeepsScopes == ASSUME ScopesInv, [Next]_vars PROVE ScopesInv'
<1>1. ASSUME NEW e \in Execs, NEW p \in Parents, Exec(e, p) PROVE ScopesInv'
  BY <1>1, ExecKeepsCall, ExecKeepsScopes DEF ScopesInv
<1>2. ASSUME NEW e \in Execs, SubmitExec(e) \/ ExecReturns(e) PROVE ScopesInv'
  BY <1>2, SubmitExecKeepsCall, SubmitExecKeepsScopes, ExecReturnsKeepsCall, ExecReturnsKeepsScopes DEF
     ScopesInv
<1>3. ASSUME NEW w \in Waits, SubmitWait(w) \/ WaitReturns(w) \/ \E e \in Execs : Wait(w, e) PROVE ScopesInv'
  BY <1>3, WaitKeepsCall, WaitKeepsScopes, SubmitWaitKeepsCall, SubmitWaitKeepsScopes,
     WaitReturnsKeepsCall, WaitReturnsKeepsScopes DEF ScopesInv
<1>4. ASSUME NEW c \in Calls, Abort(c) PROVE ScopesInv'
  BY <1>4, AbortKeepsCall, AbortKeepsScopes DEF ScopesInv
<1>5. CASE ShutdownStarts \/ ShutdownEnds
  BY <1>5, ShutdownStartsKeepsCall, ShutdownEndsKeepsCall, ShutdownKeepsScopes DEF ScopesInv
<1>6. CASE ReceiveInvoke \/ ReceiveAnswer \/ LinkLost
  BY <1>6, ReceiveInvokeKeepsCall, ReceiveAnswerKeepsCall, LinkLostKeepsCall, ReceiveKeepsScopes DEF
     ScopesInv
<1>7. ASSUME NEW e \in Execs, HostStarts(e) \/ HostInvokes(e) \/ HostEnds(e) PROVE ScopesInv'
  <2>1. HostKeeps
    BY <1>7 DEF HostStarts, HostInvokes, HostEnds
  <2> QED
    BY <1>7, <2>1, HostStartsKeepsCall, HostInvokesKeepsCall, HostEndsKeepsCall, HostKeepsScopes DEF
       ScopesInv
<1>8. ASSUME NEW c \in Calls, HostAnswers(c) PROVE ScopesInv'
  <2>1. HostKeeps
    BY <1>8 DEF HostAnswers
  <2> QED
    BY <1>8, <2>1, HostAnswersKeepsCall, HostKeepsScopes DEF ScopesInv
<1>9. CASE HostCloses
  <2>1. HostKeeps
    BY <1>9 DEF HostCloses
  <2> QED
    BY <1>9, <2>1, HostClosesKeepsCall, HostKeepsScopes DEF ScopesInv
<1>10. CASE UNCHANGED vars
  <2>1. PiTypes' /\ SessionTypes' /\ CacheTypes' /\ HostTypes' /\ NameInv' /\ AnswerInv'
    BY <1>10 DEF ScopesInv, CallInv, TypeInv, PiTypes, SessionTypes, CacheTypes, HostTypes, NameInv,
       AnswerInv,
                 vars, piVars, agentVars, brokerVars, hostVars
  <2> QED
    BY <1>10, <2>1, HostKeepsScopes DEF ScopesInv, CallInv, TypeInv
<1> QED
  BY <1>1, <1>2, <1>3, <1>4, <1>5, <1>6, <1>7, <1>8, <1>9, <1>10 DEF Next, AgentStep, HostStep, Receive

(* A cell that may be waited for keeps its scope, its broker, its context and   *)
(* its trace, whatever calls are repeated, aborted, lost or shut down beside    *)
(* it; and the tools of a cell that is over have been told to stop.             *)
THEOREM SpecScopesMatchCells == Spec => []ScopesMatchCells
  BY InitScopes, NextKeepsScopes, InvMeansScopesMatch, PTL DEF Spec
==============================================================================
