---------------------------- MODULE CellContract ----------------------------
(***************************************************************************)
(* What the host promises the client about a cell, whatever tasks and      *)
(* actors do inside: a cell gets at most one verdict, an observation is    *)
(* answered at most once, with "waiting" only before the verdict and with  *)
(* the verdict itself from then on ("Terminal states cannot return to      *)
(* running", "A cancelled or expired cell cannot revive").  Refusals of a  *)
(* request are not answers in this sense and are left out.                 *)
(***************************************************************************)
CONSTANTS
  Requests,   \* the client's requests
  Names,      \* the cells' names
  Verdicts,   \* the terminal cell states
  NoName      \* what a request that was not sent is about

VARIABLES
  about,      \* the name each request is about
  verdict,    \* per name, its verdict or "none"
  answer      \* per request, "none", "waiting" or a verdict

vars == <<about, verdict, answer>>

Init ==
  /\ about = [r \in Requests |-> NoName]
  /\ verdict = [n \in Names |-> "none"]
  /\ answer = [r \in Requests |-> "none"]

Ask(r, n) ==
  /\ about[r] = NoName
  /\ about' = [about EXCEPT ![r] = n]
  /\ UNCHANGED <<verdict, answer>>

\* The cell n reaches its verdict, and an observation that was open learns it.
Decide(n, v, told) ==
  /\ verdict[n] = "none"
  /\ \A r \in told : about[r] = n /\ answer[r] = "none"
  /\ verdict' = [verdict EXCEPT ![n] = v]
  /\ answer' = [r \in Requests |-> IF r \in told THEN v ELSE answer[r]]
  /\ UNCHANGED about

Tell(r) ==
  /\ about[r] # NoName
  /\ answer[r] = "none"
  /\ answer' = [answer EXCEPT ![r] = IF verdict[about[r]] = "none" THEN "waiting"
                                     ELSE verdict[about[r]]]
  /\ UNCHANGED <<about, verdict>>

Next ==
  \/ \E r \in Requests, n \in Names : Ask(r, n)
  \/ \E n \in Names, v \in Verdicts :
       Decide(n, v, {}) \/ \E r \in Requests : Decide(n, v, {r})
  \/ \E r \in Requests : Tell(r)

Spec == Init /\ [][Next]_vars
=============================================================================
