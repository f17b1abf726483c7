------------------------------ MODULE FileTree ------------------------------
(***************************************************************************)
(* The files of a workspace, and what the operations of workspace.ts and   *)
(* of a patch (apply-patch.ts) make of them when they succeed.  A file is  *)
(* "old" until a patch has made it "new"; the context of an update matches *)
(* the old content only.                                                   *)
(***************************************************************************)
EXTENDS Naturals, Sequences

CONSTANTS
  Paths,          \* the paths of the workspace
  Parent,         \* their directories; Nowhere is the directory of those at the root
  Named,          \* the paths a patch may name
  Nowhere,
  Modes,          \* the permission bits of a file
  NewMode,        \* 0o644
  Masked          \* per mode, what the umask leaves of it in a file created with it

ASSUME TreeAssumption ==
  /\ Parent \in [Paths -> Paths \union {Nowhere}] /\ Nowhere \notin Paths
  /\ Named \subseteq Paths
  /\ NewMode \in Modes /\ Masked \in [Modes -> Modes]

Absent == [kind |-> "absent", content |-> "", mode |-> ""]
Dir    == [kind |-> "dir", content |-> "", mode |-> ""]
File(content, mode) == [kind |-> "file", content |-> content, mode |-> mode]

Nodes == {Absent, Dir} \union {File(c, m) : c \in {"old", "new"}, m \in Modes}

\* Has the set the directory of p, if p has one?
Holds(set, p) == Parent[p] \in set \union {Nowhere}

\* The directories above a path: the least set that has its own directory and theirs.
Above ==
  [p \in Paths |->
     {q \in Paths : \A set \in SUBSET Paths :
        Holds(set, p) /\ (\A r \in set : Holds(set, r)) => q \in set}]

\* No path is its own directory, or that of a directory above it.
ASSUME PathsAreTree == \A p \in Paths : p \notin Above[p]

\* What is there is in a directory.
Trees == {tree \in [Paths -> Nodes] :
            \A p \in Paths : tree[p] # Absent => \A q \in Above[p] : tree[q] = Dir}

Exists(tree, p) == tree[p] # Absent
IsFile(tree, p) == tree[p].kind = "file"

\* Mutant: the directories are taken for granted.
WithoutParents(tree, p) == tree

\* mkdirSync with recursive
WithParents(tree, p) == [q \in Paths |-> IF q \in Above[p] /\ ~Exists(tree, q) THEN Dir ELSE tree[q]]

CanMakeParents(tree, p) == \A q \in Above[p] : ~IsFile(tree, q)

\* A rename cannot replace a directory.
CanWrite(tree, p) == CanMakeParents(tree, p) /\ tree[p] # Dir

\* writeFile renames a temporary file over the path.  It is created with the mode of the file
\* it replaces, of which the umask may take bits away.
Written(tree, p, content) ==
  LET mode == IF IsFile(tree, p) THEN tree[p].mode ELSE NewMode
  IN  [WithParents(tree, p) EXCEPT ![p] = File(content, Masked[mode])]

Moved(tree, from, to) == [WithParents(tree, to) EXCEPT ![to] = tree[from], ![from] = Absent]

Removed(tree, p) == [q \in Paths |-> IF q = p \/ p \in Above[q] THEN Absent ELSE tree[q]]

Empty(tree, p) == \A q \in Paths : p \in Above[q] => ~Exists(tree, q)

-----------------------------------------------------------------------------
(* Patches                                                                 *)

Operations == [type : {"add", "delete", "update"}, path : Named, to : {Nowhere}]
              \union [type : {"update"}, path : Named, to : Named]

Patches(n) == [1 .. n -> Operations]

\* Does the operation apply, and what does it make of the tree?
Applies(tree, op) ==
  CASE op.type = "add"    -> ~Exists(tree, op.path) /\ CanWrite(tree, op.path)
    [] op.type = "delete" -> Exists(tree, op.path) /\ Empty(tree, op.path)
    [] op.type = "update" -> /\ IsFile(tree, op.path) /\ tree[op.path].content = "old"
                             /\ op.to # Nowhere => ~Exists(tree, op.to) /\ CanMakeParents(tree, op.to)

Applied(tree, op) ==
  CASE op.type = "add"    -> Written(tree, op.path, "new")
    [] op.type = "delete" -> Removed(tree, op.path)
    [] op.type = "update" -> LET updated == Written(tree, op.path, "new")
                             IN  IF op.to = Nowhere THEN updated ELSE Moved(updated, op.path, op.to)

\* What is done, and one operation more.
Further(done, op) ==
  IF done.ok /\ Applies(done.tree, op) THEN [ok |-> TRUE, tree |-> Applied(done.tree, op)]
  ELSE [ok |-> FALSE, tree |-> done.tree]

\* The whole patch: each operation applies to what the ones before it have made.
Stages(tree, patch) ==
  LET after[k \in 0 .. Len(patch)] ==
        IF k = 0 THEN [ok |-> TRUE, tree |-> tree] ELSE Further(after[k - 1], patch[k])
  IN  after

Outcome(tree, patch) == Stages(tree, patch)[Len(patch)]
=============================================================================
