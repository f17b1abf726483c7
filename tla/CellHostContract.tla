-------------------------- MODULE CellHostContract --------------------------
(* The refinement of CellContract by CellHost, for a client that names each  *)
(* cell once (CodeModeHostSession.exec draws a random id per cell).          *)
EXTENDS CellHost

Names == Sessions \X CellIds

\* A cell's name, a pair, is not the mark of a request that was not sent.
ASSUME NameAssumption == None \notin Names

NameOf(r) == <<call[r].session, call[r].id>>

\* The cells that execs with the name n spawned and that reached a verdict.
Decided(n) == {c \in Requests : NameOf(c) = n /\ phase[c] \in Terminal}

\* CellContract's variables as functions of the host's state.
about   == [r \in Requests |-> IF call[r] = NoCall THEN None ELSE NameOf(r)]
verdict == [n \in Names |-> IF Decided(n) = {} THEN "none"
                            ELSE phase[CHOOSE c \in Decided(n) : TRUE]]
answer  == [r \in Requests |-> IF reply[r] \in Terminal \union {"waiting"} THEN reply[r]
                               ELSE "none"]

Contract == INSTANCE CellContract WITH Verdicts <- Terminal, NoName <- None

\* The host keeps the client's contract: over all interleavings of exec, waits,
\* terminations and close, a cell has one verdict and every answer agrees with it.
ContractHolds == Contract!Spec
=============================================================================
