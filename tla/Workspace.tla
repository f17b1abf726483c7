------------------------------ MODULE Workspace ------------------------------
(***************************************************************************)
(* The workspace of codex mode: apply_patch calls (apply-patch.ts) on the  *)
(* mutation queue of workspace.ts.                                         *)
(*                                                                         *)
(* The file system is called synchronously; an action is what happens      *)
(* between two awaits of one call.  The awaits wait for nothing but other  *)
(* patches, so the event that closes the workspace finds none under way.   *)
(* Other processes leave the named files alone while a patch runs, and the *)
(* file system does not fail a second time during the rollback.            *)
(***************************************************************************)
EXTENDS FileTree, FiniteSetsExt

CONSTANTS
  Start,      \* the trees there may be at first: a bound
  Tasks,      \* the apply_patch calls: a bound
  Size,       \* how many operations the patch of each has at most: a bound
  MaxFaults   \* how many calls of the file system fail for reasons of their own: a bound

ASSUME WorkspaceAssumption == Start \subseteq Trees /\ Size \in [Tasks -> Nat] /\ MaxFaults \in Nat

VARIABLES
  tree,
  \* Workspace
  closed,
  queue,    \* the calls of mutate not yet released, each chained to the one before it
  faults,
  \* applyPatch
  pc,       \* "idle", "queued", "apply", "move", "undo", "chmod" or "done"
  patch,
  left,     \* the operations still to be applied
  before,   \* snapshots
  undo,     \* the places of the snapshots still to be restored
  parents,  \* createdParents
  answer

localVars == <<pc, patch, left, before, undo, parents, answer>>
vars      == <<tree, closed, queue, faults, localVars>>

Bare == [p \in Paths |-> Absent]

Init ==
  /\ tree \in Start
  /\ closed = FALSE /\ queue = <<>> /\ faults = 0
  /\ pc = [t \in Tasks |-> "idle"] /\ patch = [t \in Tasks |-> <<>>]
  /\ left = [t \in Tasks |-> <<>>] /\ before = [t \in Tasks |-> Bare]
  /\ undo = [t \in Tasks |-> {}] /\ parents = [t \in Tasks |-> {}]
  /\ answer = [t \in Tasks |-> "none"]

-----------------------------------------------------------------------------
(* mutate                                                                  *)

\* Mutant: a mutation that throws never lets the next one go.
ReleaseOnSuccess(how) == queue' = IF how = "done" THEN Tail(queue) ELSE queue

\* The finally block.
Release(how) == queue' = Tail(queue)

Finish(t, how) ==
  /\ pc' = [pc EXCEPT ![t] = "done"]
  /\ answer' = [answer EXCEPT ![t] = how]
  /\ Release(how)
  /\ left' = [left EXCEPT ![t] = <<>>]
  /\ before' = [before EXCEPT ![t] = Bare]
  /\ undo' = [undo EXCEPT ![t] = {}]
  /\ parents' = [parents EXCEPT ![t] = {}]
  /\ UNCHANGED <<closed, patch>>

\* A call joins the queue; a closed workspace refuses it.
Call(t, source) ==
  /\ pc[t] = "idle"
  /\ patch' = [patch EXCEPT ![t] = source]
  /\ \/ /\ closed
        /\ pc' = [pc EXCEPT ![t] = "done"]
        /\ answer' = [answer EXCEPT ![t] = "failed"]
        /\ UNCHANGED queue
     \/ /\ ~closed
        /\ pc' = [pc EXCEPT ![t] = "queued"]
        /\ queue' = Append(queue, t)
        /\ UNCHANGED answer
  /\ UNCHANGED <<tree, closed, faults, left, before, undo, parents>>

\* Mutant: nobody awaits the previous mutation.
AnyTurn(t) == TRUE

\* await previous
Turn(t) == Head(queue) = t

Close ==
  /\ ~closed /\ queue = <<>>
  /\ closed' = TRUE
  /\ UNCHANGED <<tree, queue, faults, localVars>>

-----------------------------------------------------------------------------
(* applyPatch                                                              *)

\* The paths a patch names, in their order; a path is snapshot where it is named first.
PathAt(source, i) == IF i % 2 = 1 THEN source[(i + 1) \div 2].path ELSE source[i \div 2].to

Snapshots(source) ==
  {i \in 1 .. 2 * Len(source) :
     PathAt(source, i) # Nowhere /\ \A j \in 1 .. i - 1 : PathAt(source, j) # PathAt(source, i)}

NamedBy(source) == {PathAt(source, i) : i \in Snapshots(source)}

\* The patch's turn: a snapshot of every path it names; a directory cannot be read.
Enter(t) ==
  /\ pc[t] = "queued" /\ Turn(t)
  /\ LET named == NamedBy(patch[t])
     IN  \/ /\ \E p \in named : tree[p] = Dir
            /\ Finish(t, "failed")
         \/ /\ \A p \in named : tree[p] # Dir
            /\ pc' = [pc EXCEPT ![t] = "apply"]
            /\ left' = [left EXCEPT ![t] = patch[t]]
            /\ before' = [before EXCEPT ![t] = tree]
            /\ parents' = [parents EXCEPT ![t] =
                             {q \in UNION {Above[p] : p \in named} : ~Exists(tree, q)}]
            /\ UNCHANGED <<closed, queue, patch, undo, answer>>
  /\ UNCHANGED <<tree, faults>>

LocalsKept == UNCHANGED <<closed, queue, patch, before, parents, answer>>

\* The catch block begins, with the last snapshot.
Fail(t) ==
  /\ pc' = [pc EXCEPT ![t] = "undo"]
  /\ undo' = [undo EXCEPT ![t] = Snapshots(patch[t])]
  /\ UNCHANGED left
  /\ LocalsKept

\* The next operation, after this one.
Advance(t) ==
  /\ pc' = [pc EXCEPT ![t] = "apply"]
  /\ left' = [left EXCEPT ![t] = Tail(left[t])]
  /\ UNCHANGED undo
  /\ LocalsKept

\* The same operation goes on after an await.
Continue(t, step) ==
  /\ pc' = [pc EXCEPT ![t] = step]
  /\ UNCHANGED <<left, undo>>
  /\ LocalsKept

\* A call of the file system fails, possibly after it has made the directories for p.
Fault(t, p) ==
  /\ faults < MaxFaults
  /\ faults' = faults + 1
  /\ tree' \in {tree, IF CanMakeParents(tree, p) THEN WithParents(tree, p) ELSE tree}
  /\ Fail(t)

\* A conflict: nothing was changed.
Conflict(t) == Fail(t) /\ UNCHANGED <<tree, faults>>

Add(t) ==
  LET op == Head(left[t]) IN
  /\ pc[t] = "apply" /\ left[t] # <<>> /\ op.type = "add"
  /\ \/ /\ Exists(tree, op.path) \/ ~CanWrite(tree, op.path)
        /\ Conflict(t)
     \/ /\ ~Exists(tree, op.path) /\ CanWrite(tree, op.path)
        /\ tree' = Written(tree, op.path, "new")
        /\ Advance(t)
        /\ UNCHANGED faults
     \/ ~Exists(tree, op.path) /\ Fault(t, op.path)

Delete(t) ==
  LET op == Head(left[t]) IN
  /\ pc[t] = "apply" /\ left[t] # <<>> /\ op.type = "delete"
  /\ \/ /\ ~Exists(tree, op.path) \/ ~Empty(tree, op.path)
        /\ Conflict(t)
     \/ /\ Exists(tree, op.path) /\ Empty(tree, op.path)
        /\ tree' = Removed(tree, op.path)
        /\ Advance(t)
        /\ UNCHANGED faults
     \/ Exists(tree, op.path) /\ faults < MaxFaults /\ faults' = faults + 1 /\ Fail(t) /\ UNCHANGED tree

\* replaceHunks finds the context in the old content only.
Update(t) ==
  LET op == Head(left[t]) IN
  /\ pc[t] = "apply" /\ left[t] # <<>> /\ op.type = "update"
  /\ \/ /\ tree[op.path].content # "old"
        /\ Conflict(t)
     \/ /\ tree[op.path].content = "old"
        /\ tree' = Written(tree, op.path, "new")
        /\ IF op.to = Nowhere THEN Advance(t) ELSE Continue(t, "move")
        /\ UNCHANGED faults
     \/ tree[op.path].content = "old" /\ Fault(t, op.path)

\* moveTo, after the update was written.
Move(t) ==
  LET op == Head(left[t]) IN
  /\ pc[t] = "move"
  /\ \/ /\ Exists(tree, op.to) \/ ~CanMakeParents(tree, op.to)
        /\ Conflict(t)
     \/ /\ ~Exists(tree, op.to) /\ CanMakeParents(tree, op.to)
        /\ tree' = Moved(tree, op.path, op.to)
        /\ Advance(t)
        /\ UNCHANGED faults
     \/ ~Exists(tree, op.to) /\ Fault(t, op.to)

Return(t) ==
  /\ pc[t] = "apply" /\ left[t] = <<>>
  /\ Finish(t, "done")
  /\ UNCHANGED <<tree, faults>>

-----------------------------------------------------------------------------
(* The rollback                                                            *)

\* The snapshots are restored in reverse.
Restoring(t) == PathAt(patch[t], Max(undo[t]))

Restored(t) ==
  /\ pc' = [pc EXCEPT ![t] = "undo"]
  /\ undo' = [undo EXCEPT ![t] = @ \ {Max(@)}]
  /\ UNCHANGED left
  /\ LocalsKept

\* One snapshot: the content is written back, or what was not there is removed.
Restore(t) ==
  LET p == Restoring(t) IN
  /\ pc[t] = "undo" /\ undo[t] # {}
  /\ \/ /\ IsFile(before[t], p) /\ CanWrite(tree, p)
        /\ tree' = Written(tree, p, before[t][p].content)
        /\ Continue(t, "chmod")
     \/ /\ IsFile(before[t], p) /\ ~CanWrite(tree, p)
        /\ Finish(t, "failed")
        /\ UNCHANGED tree
     \/ /\ ~Exists(before[t], p)
        /\ tree' = Removed(tree, p)
        /\ Restored(t)
  /\ UNCHANGED faults

\* Mutant: the content is enough.
ChmodNothing(t, p) == UNCHANGED tree

\* chmod to the mode of the snapshot
Chmod(t, p) == tree' = [tree EXCEPT ![p].mode = before[t][p].mode]

RestoreMode(t) ==
  /\ pc[t] = "chmod"
  /\ Chmod(t, Restoring(t))
  /\ Restored(t)
  /\ UNCHANGED faults

\* A directory the patch has created is removed, the deepest first.
RemoveParent(t, q) ==
  /\ pc[t] = "undo" /\ undo[t] = {}
  /\ q \in parents[t] /\ \A r \in parents[t] : q \notin Above[r]
  /\ \/ /\ Empty(tree, q)
        /\ tree' = Removed(tree, q)
        /\ parents' = [parents EXCEPT ![t] = @ \ {q}]
        /\ UNCHANGED <<closed, queue, pc, patch, left, before, undo, answer>>
     \/ /\ ~Empty(tree, q)
        /\ Finish(t, "failed")
        /\ UNCHANGED tree
  /\ UNCHANGED faults

Rethrow(t) ==
  /\ pc[t] = "undo" /\ undo[t] = {} /\ parents[t] = {}
  /\ Finish(t, "failed")
  /\ UNCHANGED <<tree, faults>>

-----------------------------------------------------------------------------
Apply(t) ==
  \/ Enter(t) \/ Add(t) \/ Delete(t) \/ Update(t) \/ Move(t) \/ Return(t)
  \/ Restore(t) \/ RestoreMode(t) \/ Rethrow(t)
  \/ \E q \in Paths : RemoveParent(t, q)

Next ==
  \/ Close
  \/ \E t \in Tasks :
       \/ Apply(t)
       \/ \E n \in 1 .. Size[t] : \E source \in Patches(n) : Call(t, source)

\* Promise continuations run.
Fairness == WF_vars(\E t \in Tasks : Apply(t))

Spec == Init /\ [][Next]_vars /\ Fairness

-----------------------------------------------------------------------------
(* Correctness                                                             *)

TypeOK ==
  /\ tree \in Trees
  /\ closed \in BOOLEAN
  /\ queue \in Seq(Tasks)
  /\ faults \in 0 .. MaxFaults
  /\ pc \in [Tasks -> {"idle", "queued", "apply", "move", "undo", "chmod", "done"}]
  /\ \A t \in Tasks : patch[t] \in Seq(Operations) /\ left[t] \in Seq(Operations)
  /\ before \in [Tasks -> Trees]
  /\ \A t \in Tasks : undo[t] \subseteq Snapshots(patch[t])
  /\ parents \in [Tasks -> SUBSET Paths]
  /\ answer \in [Tasks -> {"none", "done", "failed"}]

UnderWay == {t \in Tasks : pc[t] \in {"apply", "move", "undo", "chmod"}}

Contract == INSTANCE PatchContract WITH
  tree  <- IF UnderWay = {} THEN tree ELSE before[CHOOSE t \in UnderWay : TRUE],
  asked <- patch

\* "applies a Codex patch as one transaction" (README.md:42): whatever is called at the
\* same time and whichever step fails, the workspace changes by whole patches.
PatchesAreTransactions == Contract!Spec

\* A patch is answered, also when the ones before it fail.
PatchAnswered == \A t \in Tasks : pc[t] = "queued" ~> pc[t] = "done"

\* "Failed multi-file patches restore file contents, file modes, moves, and parent
\* directories created by the failed transaction" (code-mode-plan.md:389).
FailedPatchRestores ==
  [][\A t \in Tasks : pc[t] # "done" /\ answer'[t] = "failed" /\ t \in UnderWay => tree' = before[t]]_vars
=============================================================================
