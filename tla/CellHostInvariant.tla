-------------------------- MODULE CellHostInvariant --------------------------
(***************************************************************************)
(* The inductive invariants behind CellHost's properties.                  *)
(* SlotAccounting and RunningHoldsSlot: the counters can only be trusted   *)
(* if nobody but its exec reaches a cell that is not registered yet, if a  *)
(* slot that was given back directly can not be given back again through a *)
(* handle, and if an actor only answers requests that wait for that very   *)
(* cell.  ObserverTracked: an observer is in one place of its actor.  What *)
(* needs a client that names each cell once, SlotReachable and the client  *)
(* contract: a name leads to one cell, and a cell leaves an open session's *)
(* registry only after its verdict.                                        *)
(***************************************************************************)
EXTENDS CellHost

\* Steps of an exec before, and with, a spawned cell that is not registered.
Fresh    == {"idle", "lookup", "reserve", "reserve_host", "spawn"}
Unlisted == Fresh \union {"insert"}

\* Steps at which a request may have been answered by an actor.
Answered == {"await", "remove", "release", "done"}

\* Steps at which a task holds one cell handle.
Single == {"insert", "observe", "claim", "send", "await", "remove", "release"}

\* No other task and no registry knows the cell of r.
Private(r) ==
  /\ \A q \in Requests : q # r => r \notin held[q]
  /\ \A s \in Sessions, i \in CellIds : cells[s][i] # r

\* How far an exec is says what is known of its cell.
ProgressInv ==
  \A r \in Requests :
    /\ pc[r] \notin Answered => reply[r] = "none"
    /\ pc[r] \in Fresh => ~counted[r] /\ phase[r] = "none"
    /\ pc[r] = "insert" => counted[r]
    /\ pc[r] \in Unlisted => Private(r)
    /\ pc[r] \in Unlisted /\ ending[r] => pc[r] = "lookup" /\ call[r].method = "wait"
    /\ pc[r] \in Single => \A c, d \in held[r] : c = d

\* The cell of a duplicate is out of everybody's reach.
DuplicateInv ==
  \A r \in Requests :
    reply[r] = "duplicate" => pc[r] = "done" /\ held[r] = {} /\ Private(r)

\* An actor only answers requests that observe its cell, or no longer listen.
WaiterInv ==
  \A c \in Requests : \A w \in Waiters(c) :
    /\ pc[w] \in Answered
    /\ reply[w] # "duplicate"
    /\ pc[w] = "await" => held[w] = {c}

\* A request that is about to release a cell has seen its end or asked for it.
VerdictInv ==
  \A r \in Requests : \A c \in held[r] :
    /\ pc[r] = "await" /\ reply[r] \in Terminal => phase[c] \in Terminal
    /\ pc[r] \in {"claim", "send", "await", "remove", "release"} /\ ending[r]
       => terminationRequested[c]
    /\ pc[r] \in {"remove", "release"} => phase[c] \in Terminal \/ terminationRequested[c]

\* A cell that may run, now or later, holds a slot unless it was told to stop.
ActiveInv ==
  \A c \in Requests :
    c \notin gone /\ phase[c] \in {"boot", "running"} /\ ~terminationRequested[c] => HoldsSlot(c)

HandleInv == ProgressInv /\ DuplicateInv /\ WaiterInv /\ VerdictInv /\ ActiveInv

\* The inductive invariant: it implies SlotAccounting and RunningHoldsSlot.
SlotInv == HandleInv /\ SlotAccounting
-----------------------------------------------------------------------------
(* Observation                                                             *)

\* The requests between their claim of cell c and the end of their observation.
Observers(c) == {r \in Requests : pc[r] \in {"send", "await"} /\ c \in held[r]}

\* No request is twice in the hands of an actor.
HeardOnce(c) ==
  /\ observer[c] # None => \A k \in DOMAIN commands[c] : commands[c][k] = None
  /\ \A j, k \in DOMAIN commands[c] :
       commands[c][j] # None /\ commands[c][k] # None => j = k

\* A cell has at most one observer, the observing flag stands for it, and it is
\* in the actor's hands, once, until it is answered: it implies ObserverTracked.
ObserverInv ==
  \A c \in Requests :
    /\ \A r, q \in Observers(c) : r = q
    /\ observing[c] <=> Observers(c) # {}
    /\ Waiters(c) = {r \in Observers(c) : pc[r] = "await" /\ reply[r] = "none"}
    /\ HeardOnce(c)

-----------------------------------------------------------------------------
(* Names: what follows from a client that names each cell once             *)

ExecOf(s, i) == [method |-> "exec", session |-> s, id |-> i]

SameName(r, q) == call[r].session = call[q].session /\ call[r].id = call[q].id

\* A cell's name leads to this cell only, from the registry and from a handle.
NameInv ==
  /\ \A c, d \in Requests : call[c].method = "exec" /\ call[d] = call[c] => c = d
  /\ \A s \in Sessions, i \in CellIds :
       cells[s][i] # None => call[cells[s][i]] = ExecOf(s, i)
  /\ \A r \in Requests :
       /\ IF pc[r] = "idle" THEN call[r] = NoCall ELSE session[call[r].session] # "unborn"
       /\ pc[r] \in {"reserve", "reserve_host", "spawn", "insert"} => call[r].method = "exec"
       /\ pc[r] = "insert" => r \in held[r]
       /\ pc[r] \in Single => \A c \in held[r] : call[c] = ExecOf(call[r].session, call[r].id)
       /\ pc[r] = "take" => session[call[r].session] = "closed"
       /\ phase[r] # "none" => call[r].method = "exec"
       /\ counted[r] => phase[r] # "none"

\* An exec that was cancelled keeps its cell to itself until it has released it.
CancelledInv ==
  \A c \in Requests :
    Cancelled(c) =>
      /\ Private(c)
      /\ \/ pc[c] \in {"observe", "claim", "send", "await", "release"} /\ c \in held[c]
         \/ pc[c] = "done" /\ ~counted[c]

\* A cell that left the registry of an open session has ended, and whoever took
\* it out is about to give back its slot.
ReachInv ==
  \A c \in Requests :
    /\ pc[c] = "remove" => \E d \in held[c] : phase[d] \in Terminal
    /\ call[c].method = "exec" /\ phase[c] = "none" => pc[c] \in Fresh \union {"done"}
    /\ phase[c] # "none" /\ pc[c] \notin Unlisted /\ session[call[c].session] = "open"
       => \/ Named(c) = c
          \/ Cancelled(c)
          \/ /\ phase[c] \in Terminal
             /\ ~counted[c] \/ \E q \in Requests : pc[q] = "release" /\ c \in held[q]

\* A mark that a terminate request left waits for the exec it is meant for.
MarkInv ==
  \A t \in Requests :
    reply[t] = "pending" /\ session[call[t].session] = "open" =>
      /\ \/ call[t].id \in pendingTerminations[call[t].session]
         \/ \E c \in Requests : call[c].method = "exec" /\ SameName(c, t)
      /\ \A c \in Requests :
           call[c].method = "exec" /\ SameName(c, t) /\ phase[c] \in {"none", "boot"} =>
             \/ pc[c] \in Unlisted /\ call[t].id \in pendingTerminations[call[t].session]
             \/ Cancelled(c)
             \/ pc[c] = "done" /\ phase[c] = "none"

\* The inductive invariant behind SlotReachable, CancelledNeverStarts and the contract.
NamingInv == NameInv /\ CancelledInv /\ ReachInv /\ MarkInv
=============================================================================
