---------------------------- MODULE PatchContract ----------------------------
(***************************************************************************)
(* What apply_patch promises ("applies a Codex patch as one transaction",  *)
(* README.md:42): the workspace changes by whole patches only.  A patch    *)
(* that does not apply, or that fails, leaves it as it was; one that       *)
(* succeeds has applied operation by operation to what it found: a file    *)
(* that it has written has the mode it had as far as the umask allows.     *)
(***************************************************************************)
EXTENDS FileTree

CONSTANTS Tasks

VARIABLES
  tree,    \* the workspace as anybody but a patch under way may see it
  asked,   \* per task, its patch, or <<>>
  answer   \* per task, "none", "done" or "failed"

vars == <<tree, asked, answer>>

Init ==
  /\ tree \in Trees
  /\ asked = [t \in Tasks |-> <<>>]
  /\ answer = [t \in Tasks |-> "none"]

\* A patch is asked for; a closed workspace refuses at once.
Ask(t) ==
  /\ asked[t] = <<>>
  /\ asked'[t] \in Seq(Operations) \ {<<>>}
  /\ asked' = [asked EXCEPT ![t] = asked'[t]]
  /\ answer' \in {answer, [answer EXCEPT ![t] = "failed"]}
  /\ UNCHANGED tree

Commit(t) ==
  /\ asked[t] # <<>> /\ answer[t] = "none"
  /\ Outcome(tree, asked[t]).ok
  /\ tree' = Outcome(tree, asked[t]).tree
  /\ answer' = [answer EXCEPT ![t] = "done"]
  /\ UNCHANGED asked

Refuse(t) ==
  /\ asked[t] # <<>> /\ answer[t] = "none"
  /\ answer' = [answer EXCEPT ![t] = "failed"]
  /\ UNCHANGED <<tree, asked>>

Next == \E t \in Tasks : Commit(t) \/ Refuse(t) \/ Ask(t)

Spec == Init /\ [][Next]_vars
=============================================================================
