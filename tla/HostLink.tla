------------------------------ MODULE HostLink ------------------------------
(***************************************************************************)
(* The link between the agent's process and the host process: HostClient   *)
(* (host/client.ts) on one side, the read loop, the request tasks and the  *)
(* tool delegate of the host (server.rs, delegate.rs) on the other.  Both  *)
(* send requests: the client the protocol's methods, the host tool/invoke. *)
(*                                                                         *)
(* What a request does inside the host is CellHost's business: here its    *)
(* task runs and is answered in the end (CellHost's RequestAnswered), and  *)
(* while the host runs its cell may invoke one tool, named as the request. *)
(***************************************************************************)
EXTENDS Integers, Sequences, FiniteSets, SequencesExt

CONSTANTS
  Requests,  \* the requests after the handshake, the model's bound
  Hello,     \* client/hello, sent by HostClient.start
  Shutdown   \* host/shutdown, sent by close()

ASSUME LinkAssumption == Hello # Shutdown /\ {Hello, Shutdown} \cap Requests = {}

Ids == Requests \union {Hello, Shutdown}

VARIABLES
  \* HostClient
  clientClosed,  \* #closed
  pending,       \* #pending
  outcome,       \* how the promise of a request was settled
  input,         \* the child's stdin: "open", "ended" or "destroyed"
  closing,       \* close(): "no", "asked" while it awaits the response, "done"
  handling,      \* the tool calls whose handler runs
  unknown,       \* has a response with an unknown id arrived?
  crashed,       \* an unhandled rejection has ended the agent's process
  \* the pipes
  toHost, toClient,
  \* the host process
  host,          \* "running", "stopping" (out of the read loop), "exited" or "killed"
  signalled,     \* SIGTERM was sent
  helloComplete, \* ServerState.hello_complete
  shutdown,      \* the watch channel of host/shutdown
  tasks,         \* the requests whose task runs
  invoked,       \* the tool calls made
  hostPending    \* ServerState.pending: the tool calls that await a response

clientVars == <<clientClosed, pending, outcome, input, closing, handling, unknown, crashed>>
hostVars   == <<host, helloComplete, shutdown, tasks, invoked, hostPending>>
vars       == <<clientVars, toHost, toClient, signalled, hostVars>>

Message(kind, id) == [kind |-> kind, id |-> id]

Init ==
  /\ clientClosed = FALSE
  /\ pending = {Hello}
  /\ outcome = [q \in Ids |-> "none"]
  /\ input = "open"
  /\ closing = "no"
  /\ handling = {}
  /\ unknown = FALSE
  /\ crashed = FALSE
  /\ toHost = <<Message("request", Hello)>>
  /\ toClient = <<>>
  /\ host = "running"
  /\ signalled = FALSE
  /\ helloComplete = FALSE
  /\ shutdown = FALSE
  /\ tasks = {}
  /\ invoked = {}
  /\ hostPending = {}

HostDead == host \in {"exited", "killed"}

-----------------------------------------------------------------------------
(* HostClient                                                              *)

\* Mutant: #fail leaves the pending promises alone.
LeavePending == UNCHANGED <<pending, outcome>>

\* #rejectPending
RejectPending ==
  /\ pending' = {}
  /\ outcome' = [q \in Ids |-> IF q \in pending THEN "rejected" ELSE outcome[q]]

\* Mutant: the host is not signalled.
FailQuietly ==
  \/ /\ ~clientClosed
     /\ clientClosed' = TRUE
     /\ RejectPending
     /\ UNCHANGED signalled
  \/ clientClosed /\ UNCHANGED <<clientClosed, pending, outcome, signalled>>

\* #fail, and kill(), which differ in the error alone: once, and then nothing.
Fail ==
  \/ /\ ~clientClosed
     /\ clientClosed' = TRUE
     /\ RejectPending
     /\ signalled' = TRUE
  \/ clientClosed /\ UNCHANGED <<clientClosed, pending, outcome, signalled>>

Settle(q, how) ==
  /\ pending' = pending \ {q}
  /\ outcome' = [outcome EXCEPT ![q] = how]

\* Mutant: start() does not wait for the handshake.
SendEarly(q) ==
  /\ outcome[q] = "none" /\ q \notin pending
  /\ ~clientClosed /\ input = "open"
  /\ pending' = pending \union {q}
  /\ toHost' = Append(toHost, Message("request", q))
  /\ UNCHANGED <<clientClosed, outcome, input, handling, unknown, crashed, toClient, signalled,
                 hostVars>>

\* request(): on a closed client or with its input gone it is rejected at once.
Send(q) ==
  /\ outcome[Hello] = "answered"
  /\ outcome[q] = "none" /\ q \notin pending
  /\ \/ /\ ~clientClosed /\ input = "open"
        /\ pending' = pending \union {q}
        /\ toHost' = Append(toHost, Message("request", q))
        /\ UNCHANGED outcome
     \/ /\ clientClosed \/ input # "open"
        /\ outcome' = [outcome EXCEPT ![q] = "rejected"]
        /\ UNCHANGED <<pending, toHost>>
  /\ UNCHANGED <<clientClosed, input, handling, unknown, crashed, toClient, signalled, hostVars>>

SendRequest(q) == Send(q) /\ UNCHANGED closing

\* close() asks for a shutdown ...
Close ==
  /\ closing = "no" /\ ~clientClosed
  /\ closing' = "asked"
  /\ Send(Shutdown)

\* ... and, answered or not, ends the input of the host.
CloseInput ==
  /\ closing = "asked" /\ outcome[Shutdown] # "none"
  /\ closing' = "done"
  /\ clientClosed' = TRUE
  /\ input' = IF input = "open" THEN "ended" ELSE input
  /\ UNCHANGED <<pending, outcome, handling, unknown, crashed, toHost, toClient, signalled, hostVars>>

Kill ==
  /\ ~clientClosed
  /\ Fail
  /\ UNCHANGED <<input, closing, handling, unknown, crashed, toHost, toClient, hostVars>>

\* #receiveResponse: the promise of the request is settled ...
ReceiveResponse(q) ==
  /\ toClient # <<>> /\ Head(toClient) = Message("response", q)
  /\ q \in pending
  /\ toClient' = Tail(toClient)
  /\ Settle(q, "answered")
  /\ UNCHANGED <<clientClosed, input, closing, handling, unknown, crashed, toHost, signalled, hostVars>>

\* ... and a response nobody waits for ends the link.
ReceiveUnknown(q) ==
  /\ toClient # <<>> /\ Head(toClient) = Message("response", q)
  /\ q \notin pending
  /\ toClient' = Tail(toClient)
  /\ unknown' = (unknown \/ ~clientClosed)
  /\ Fail
  /\ UNCHANGED <<input, closing, handling, crashed, toHost, hostVars>>

\* #receiveRequest up to the await on the tool's handler.
ReceiveInvoke(q) ==
  /\ toClient # <<>> /\ Head(toClient) = Message("invoke", q)
  /\ toClient' = Tail(toClient)
  /\ handling' = handling \union {q}
  /\ UNCHANGED <<clientClosed, pending, outcome, input, closing, unknown, crashed, toHost,
                 signalled, hostVars>>

\* Mutant: the handler's failure is swallowed.
HandlerFails(q) ==
  /\ q \in handling
  /\ handling' = handling \ {q}
  /\ UNCHANGED <<clientClosed, pending, outcome, input, closing, unknown, crashed, toHost,
                 toClient, signalled, hostVars>>

\* The handler's result or error is sent ...
HandlerSettles(q) ==
  /\ q \in handling
  /\ input = "open"
  /\ handling' = handling \ {q}
  /\ toHost' = Append(toHost, Message("response", q))
  /\ UNCHANGED <<clientClosed, pending, outcome, input, closing, unknown, crashed, toClient,
                 signalled, hostVars>>

\* ... and without an input #send throws, also from the catch block of the first throw:
\* nobody handles the rejection of #receiveRequest.
HandlerUnhandled(q) ==
  /\ q \in handling
  /\ input # "open"
  /\ handling' = handling \ {q}
  /\ crashed' = TRUE
  /\ UNCHANGED <<clientClosed, pending, outcome, input, closing, unknown, toHost, toClient,
                 signalled, hostVars>>

\* stdin's error event: a write found no reader.
InputError ==
  /\ HostDead /\ input = "open" /\ toHost # <<>>
  /\ input' = "destroyed"
  /\ Fail
  /\ UNCHANGED <<closing, handling, unknown, crashed, toHost, toClient, hostVars>>

\* The child's exit destroys stdin ...
ChildExit ==
  /\ HostDead /\ input # "destroyed"
  /\ input' = "destroyed"
  /\ UNCHANGED <<clientClosed, pending, outcome, closing, handling, unknown, crashed, toHost,
                 toClient, signalled, hostVars>>

\* ... and once its output is read the close event follows, ignored after close() and a
\* regular exit, and by #fail on a closed client.
ChildClose ==
  /\ HostDead /\ input = "destroyed" /\ toClient = <<>>
  /\ ~clientClosed
  /\ Fail
  /\ UNCHANGED <<input, closing, handling, unknown, crashed, toHost, toClient, hostVars>>

-----------------------------------------------------------------------------
(* The host                                                                *)

HostUnchanged == UNCHANGED <<clientVars, signalled>>

\* The read loop hands a request to a task of its own.
HostReceiveRequest(q) ==
  /\ host = "running"
  /\ toHost # <<>> /\ Head(toHost) = Message("request", q)
  /\ toHost' = Tail(toHost)
  /\ tasks' = tasks \union {q}
  /\ UNCHANGED <<toClient, host, helloComplete, shutdown, invoked, hostPending>>
  /\ HostUnchanged

\* resolve_response: the waiting tool call, or a warning about an unknown one.
HostReceiveResponse(q) ==
  /\ host = "running"
  /\ toHost # <<>> /\ Head(toHost) = Message("response", q)
  /\ toHost' = Tail(toHost)
  /\ hostPending' = hostPending \ {q}
  /\ UNCHANGED <<toClient, host, helloComplete, shutdown, tasks, invoked>>
  /\ HostUnchanged

\* process_request: the response, and for host/shutdown the signal to the read loop.
TaskAnswers(q) ==
  /\ q \in tasks /\ host \in {"running", "stopping"}
  /\ tasks' = tasks \ {q}
  /\ toClient' = Append(toClient, Message("response", q))
  /\ helloComplete' = (helloComplete \/ q = Hello)
  /\ shutdown' = (shutdown \/ q = Shutdown)
  /\ UNCHANGED <<toHost, host, invoked, hostPending>>
  /\ HostUnchanged

\* invoke_inner: the cell of an exec, answered with "waiting" or not yet, calls a tool.
InvokeTool(q) ==
  /\ host = "running"
  /\ q \in tasks \/ outcome[q] = "answered" \/ Contains(toClient, Message("response", q))
  /\ q \in Requests \ invoked
  /\ invoked' = invoked \union {q}
  /\ hostPending' = hostPending \union {q}
  /\ toClient' = Append(toClient, Message("invoke", q))
  /\ UNCHANGED <<toHost, host, helloComplete, shutdown, tasks>>
  /\ HostUnchanged

\* run() leaves the loop, on the signal or at the end of the input, and close_all
\* answers every tool call that still waits.
LeaveLoop ==
  /\ host = "running"
  /\ shutdown \/ (input # "open" /\ toHost = <<>>)
  /\ host' = "stopping"
  /\ hostPending' = {}
  /\ UNCHANGED <<toHost, toClient, helloComplete, shutdown, tasks, invoked>>
  /\ HostUnchanged

\* What the writer has not written when it is aborted, or when the host dies, is lost.
Stop(how) ==
  /\ host' = how
  /\ \E n \in 0 .. Len(toClient) : toClient' = SubSeq(toClient, 1, n)
  /\ UNCHANGED <<toHost, helloComplete, shutdown, tasks, invoked, hostPending>>
  /\ HostUnchanged

HostExit == host = "stopping" /\ Stop("exited")

\* SIGTERM, or a failure of V8 that takes the process with it.
HostDies == ~HostDead /\ Stop("killed")

-----------------------------------------------------------------------------
Receive(q) == ReceiveResponse(q) \/ ReceiveUnknown(q) \/ ReceiveInvoke(q)

HostReceive(q) == HostReceiveRequest(q) \/ HostReceiveResponse(q)

Handle(q) == HandlerSettles(q) \/ HandlerUnhandled(q)

Child == InputError \/ ChildExit \/ ChildClose

Next ==
  /\ ~crashed
  /\ \/ \E q \in Requests : SendRequest(q) \/ Handle(q) \/ InvokeTool(q)
     \/ \E q \in Ids : Receive(q) \/ HostReceive(q) \/ TaskAnswers(q)
     \/ Close \/ CloseInput \/ Kill \/ Child
     \/ LeaveLoop \/ HostExit \/ HostDies

\* Both loops run, handlers settle, tasks are answered, a signalled process dies.
Fairness ==
  /\ \A q \in Ids : /\ WF_vars(~crashed /\ Receive(q))
                    /\ WF_vars(~crashed /\ HostReceive(q))
                    /\ WF_vars(~crashed /\ TaskAnswers(q))
                    /\ WF_vars(~crashed /\ Handle(q))
  /\ WF_vars(~crashed /\ (CloseInput \/ Child))
  /\ WF_vars(~crashed /\ (LeaveLoop \/ HostExit \/ (signalled /\ HostDies)))

Spec == Init /\ [][Next]_vars /\ Fairness

-----------------------------------------------------------------------------
(* Correctness                                                             *)

TypeOK ==
  LET Messages == [kind : {"request", "response", "invoke"}, id : Ids]
  IN  /\ {clientClosed, unknown, crashed, signalled, helloComplete, shutdown} \subseteq BOOLEAN
      /\ pending \subseteq Ids
      /\ outcome \in [Ids -> {"none", "answered", "rejected"}]
      /\ input \in {"open", "ended", "destroyed"}
      /\ closing \in {"no", "asked", "done"}
      /\ handling \subseteq Requests
      /\ toHost \in Seq(Messages) /\ toClient \in Seq(Messages)
      /\ host \in {"running", "stopping", "exited", "killed"}
      /\ tasks \subseteq Ids /\ invoked \subseteq Requests /\ hostPending \subseteq Requests
      /\ \A q \in Ids : q \in pending => outcome[q] = "none"

\* While the host lives, a pending request is in exactly one place on its way there and
\* back, and no task but the handshake's runs before the handshake is complete.  So the
\* client is never handed a response it does not wait for, which would end a link in order,
\* whatever it closes, kills or loses.
RequestTracked ==
  /\ TypeOK
  /\ \A q \in pending :
       HostDead \/ Cardinality({k \in DOMAIN toHost : toHost[k] = Message("request", q)})
                   + Cardinality({k \in DOMAIN toClient : toClient[k] = Message("response", q)})
                   + Cardinality(tasks \cap {q}) = 1
  /\ tasks \subseteq {Hello} \/ helloComplete
  /\ ~unknown

\* "a host crash fails the cell visibly" (deno-core-host-plan.md:2282): a request is
\* settled whether the host answers, dies or is killed.  A shutdown is another matter.
RequestSettles ==
  \A q \in Ids : q \in pending ~> (q \notin pending \/ closing # "no" \/ crashed)

\* A tool call of a running host gets its response, also when its handler fails.
ToolCallAnswered ==
  \A q \in Requests : q \in hostPending ~> (q \notin hostPending \/ HostDead \/ crashed)

\* Once the client is closed no host process stays behind.
HostStops == clientClosed ~> (HostDead \/ crashed)
=============================================================================
