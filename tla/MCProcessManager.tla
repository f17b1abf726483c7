-------------------------- MODULE MCProcessManager --------------------------
(* The loads of the runs.  One command that writes two chunks, with a         *)
(* background child, aborts and the wall-time limit; and two commands, for    *)
(* the limits on completed records, that only start, end or fail to start.    *)
(* One call asks for less output than two chunks.                             *)
EXTENDS ProcessManager

Eventful(chunks) == [commands |-> 1, chunks |-> chunks, eventful |-> TRUE]
MCLoads == {Eventful(2), [commands |-> 2, chunks |-> 0, eventful |-> FALSE]}
MCOneChunk == {Eventful(1)}
MCMaxTokens ==
  LET brief == CHOOSE k \in Calls : TRUE IN [k \in Calls |-> IF k = brief THEN 1 ELSE 2]
=============================================================================
