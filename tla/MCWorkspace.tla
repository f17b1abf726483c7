---------------------------- MODULE MCWorkspace ----------------------------
(***************************************************************************)
(* A workspace with two files two directories below its root, and a patch  *)
(* of two operations racing one of a single operation; and, for one patch  *)
(* alone, one of three.                                                    *)
(***************************************************************************)
EXTENDS Workspace, PatchText, ReadTools, TLC

CONSTANTS outer, inner, deep, side, first, second

MCParent == (outer :> Nowhere) @@ (inner :> outer) @@ (deep :> inner) @@ (side :> inner)

\* Modes: that of a new file, which no umask in use changes, one of the file's own with a bit
\* that the umask has, and what is left of that.
MCMasked == ("new" :> "new") @@ ("own" :> "masked") @@ ("masked" :> "masked")

MCTexts == {<<>>, <<"a">>}

\* Old files with modes of their own.  The two leaves are alike: a tree with only `side` in
\* it is a tree with only `deep` in it.
MCStart ==
  {tr \in Trees : /\ \A p \in Paths : IsFile(tr, p) => tr[p] = File("old", "own")
                  /\ tr[side] # Dir
                  /\ Exists(tr, side) => Exists(tr, deep)
                  /\ tr[outer] = Dir => tr[inner] # Absent}

MCSizes == (first :> 2) @@ (second :> 1)

MCSize == first :> 3

\* The text of every patch is read as it was written, and each update changes exactly the
\* lines its hunks name (apply-patch.ts:24-131).  Text has no state of its own: this is
\* checked where a behaviour starts.
PatchTextSound ==
  (\A t \in Tasks : pc[t] = "idle") => HunksReplaced /\ PatchReadAsWritten

\* The read-only tools find what is there, once, within limits shared by every call of a
\* catalog, and read the lines asked for (capabilities.ts:145-431).  A call is one step of
\* the program, and these functions of the files have no state of their own either.
ReadToolsSound ==
  (\A t \in Tasks : pc[t] = "idle") => WalkComplete /\ LimitsShared /\ ReadExact
=============================================================================
