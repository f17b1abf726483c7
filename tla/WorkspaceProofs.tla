--------------------------- MODULE WorkspaceProofs ---------------------------
(***************************************************************************)
(* apply_patch on the mutation queue, for any paths, patches, calls and    *)
(* faults: its types, and that patches which name no path below another    *)
(* are transactions.                                                       *)
(***************************************************************************)
EXTENDS Workspace, FiniteData

-----------------------------------------------------------------------------
(* Paths and trees                                                         *)

\* The directories above a directory of p are above p.
LEMMA AboveClosed ==
  ASSUME NEW p \in Paths, NEW q \in Above[p]
  PROVE  q \in Paths /\ q # p /\ Above[q] \subseteq Above[p]
<1>1. q \in Paths /\ q # p
  BY PathsAreTree DEF Above
<1>2. ASSUME NEW r \in Above[q] PROVE r \in Above[p]
  <2>1. r \in Paths
    BY <1>1 DEF Above
  <2>2. ASSUME NEW set \in SUBSET Paths, Holds(set, p), \A s \in set : Holds(set, s)
        PROVE  r \in set
    <3>1. q \in set
      BY <2>2 DEF Above
    <3>2. Holds(set, q)
      BY <2>2, <3>1
    <3> QED
      BY <1>1, <2>2, <3>2 DEF Above
  <2> QED
    BY <2>1, <2>2 DEF Above
<1> QED
  BY <1>1, <1>2

Contents == {"old", "new"}

\* What may be at a path.
LEMMA NodeKinds ==
  /\ Absent \in Nodes /\ Dir \in Nodes /\ Absent # Dir
  /\ \A c \in Contents, m \in Modes :
       /\ File(c, m) \in Nodes /\ File(c, m) # Absent /\ File(c, m) # Dir
       /\ File(c, m).kind = "file" /\ File(c, m).content = c /\ File(c, m).mode = m
  /\ \A n \in Nodes :
       /\ n.kind = "file" <=> n # Absent /\ n # Dir
       /\ n.kind = "file" => /\ n.content \in Contents /\ n.mode \in Modes
                             /\ n = File(n.content, n.mode)
       /\ n.content = "old" => n.kind = "file"
<1>1. Absent.kind = "absent" /\ Absent.content = "" /\ Dir.kind = "dir" /\ Dir.content = ""
  BY DEF Absent, Dir
<1>2. ASSUME NEW c \in Contents, NEW m \in Modes
      PROVE  /\ File(c, m) \in Nodes
             /\ File(c, m).kind = "file" /\ File(c, m).content = c /\ File(c, m).mode = m
  BY DEF File, Nodes, Contents
<1>3. \A n \in Nodes : n = Absent \/ n = Dir \/ \E c \in Contents, m \in Modes : n = File(c, m)
  BY DEF Nodes, Contents
<1>4. Absent \in Nodes /\ Dir \in Nodes
  BY DEF Nodes
<1>5. Absent # Dir /\ \A c \in Contents, m \in Modes : File(c, m) # Absent /\ File(c, m) # Dir
  BY <1>1, <1>2
<1>6. ASSUME NEW n \in Nodes
      PROVE  /\ n.kind = "file" <=> n # Absent /\ n # Dir
             /\ n.kind = "file" => /\ n.content \in Contents /\ n.mode \in Modes
                                   /\ n = File(n.content, n.mode)
             /\ n.content = "old" => n.kind = "file"
  <2>1. CASE n = Absent \/ n = Dir
    BY <1>1, <2>1
  <2>2. CASE \E c \in Contents, m \in Modes : n = File(c, m)
    <3>1. PICK c \in Contents, m \in Modes : n = File(c, m)
      BY <2>2
    <3>2. n.kind = "file" /\ n.content = c /\ n.mode = m
      BY <1>2, <3>1
    <3> QED
      BY <1>5, <3>1, <3>2
  <2> QED
    BY <1>3, <2>1, <2>2
<1> QED
  BY <1>2, <1>4, <1>5, <1>6

\* What a tree has at its paths.
LEMMA TreeNodes ==
  ASSUME NEW tr \in Trees, NEW p \in Paths
  PROVE  /\ tr \in [Paths -> Nodes] /\ tr[p] \in Nodes
         /\ Exists(tr, p) <=> tr[p] # Absent
         /\ IsFile(tr, p) <=> tr[p] # Absent /\ tr[p] # Dir
         /\ IsFile(tr, p) => tr[p].content \in Contents /\ tr[p].mode \in Modes
         /\ tr[p] # Absent => \A q \in Above[p] : tr[q] = Dir
<1>1. tr \in [Paths -> Nodes] /\ tr[p] \in Nodes
  BY DEF Trees
<1>2. tr[p] # Absent => \A q \in Above[p] : tr[q] = Dir
  BY DEF Trees
<1> QED
  BY <1>1, <1>2, NodeKinds DEF Exists, IsFile

\* Nothing is below what is no directory.
LEMMA NothingBelow ==
  ASSUME NEW tr \in Trees, NEW p \in Paths, tr[p] # Dir, NEW q \in Paths, p \in Above[q]
  PROVE  tr[q] = Absent
BY TreeNodes

\* The directories above p can be made, and then are there.
LEMMA WithParentsTree ==
  ASSUME NEW tr \in Trees, NEW p \in Paths, CanMakeParents(tr, p)
  PROVE  /\ \A q \in Above[p] : tr[q] \in {Absent, Dir}
         /\ WithParents(tr, p) \in Trees
         /\ \A q \in Paths : WithParents(tr, p)[q] = IF q \in Above[p] THEN Dir ELSE tr[q]
<1> DEFINE made == WithParents(tr, p)
<1>1. \A q \in Above[p] : tr[q] \in {Absent, Dir}
  BY AboveClosed, TreeNodes DEF CanMakeParents
<1>2. \A q \in Paths : made[q] = IF q \in Above[p] THEN Dir ELSE tr[q]
  BY <1>1, TreeNodes DEF WithParents
<1>3. made \in [Paths -> Nodes]
  BY <1>1, TreeNodes, NodeKinds DEF WithParents
<1> HIDE DEF made
<1>4. ASSUME NEW q \in Paths, made[q] # Absent, NEW r \in Above[q] PROVE made[r] = Dir
  <2>1. r \in Paths
    BY AboveClosed
  <2>2. CASE q \in Above[p]
    BY <1>2, <2>1, <2>2, AboveClosed
  <2>3. CASE q \notin Above[p]
    BY <1>2, <1>4, <2>1, <2>3, TreeNodes
  <2> QED
    BY <2>2, <2>3
<1> QED
  BY <1>1, <1>2, <1>3, <1>4 DEF Trees, made

\* A tree in which one path changes, and nothing is below it.
LEMMA OneNode ==
  ASSUME NEW tr \in Trees, NEW p \in Paths, NEW n \in Nodes,
         tr[p] # Dir, n # Absent => \A q \in Above[p] : tr[q] = Dir
  PROVE  [tr EXCEPT ![p] = n] \in Trees
<1> DEFINE put == [tr EXCEPT ![p] = n]
<1>1. put \in [Paths -> Nodes] /\ \A q \in Paths : put[q] = IF q = p THEN n ELSE tr[q]
  BY TreeNodes
<1> HIDE DEF put
<1>2. ASSUME NEW q \in Paths, put[q] # Absent, NEW r \in Above[q] PROVE put[r] = Dir
  <2>1. r \in Paths
    BY AboveClosed
  <2>2. CASE q = p
    BY <1>1, <1>2, <2>1, <2>2, AboveClosed
  <2>3. CASE q # p
    <3>1. tr[q] # Absent
      BY <1>1, <1>2, <2>3
    <3>2. r # p /\ tr[r] = Dir
      BY <3>1, <2>1, TreeNodes
    <3> QED
      BY <1>1, <2>1, <3>2
  <2> QED
    BY <2>2, <2>3
<1> QED
  BY <1>1, <1>2 DEF Trees, put

\* writeFile
LEMMA WrittenTree ==
  ASSUME NEW tr \in Trees, NEW p \in Paths, CanWrite(tr, p), NEW c \in Contents
  PROVE  /\ Written(tr, p, c) \in Trees
         /\ IsFile(Written(tr, p, c), p) /\ Written(tr, p, c)[p].content = c
         /\ \A q \in Paths \ {p} : Written(tr, p, c)[q] = IF q \in Above[p] THEN Dir ELSE tr[q]
<1> DEFINE mode == IF IsFile(tr, p) THEN tr[p].mode ELSE NewMode
           m == Masked[mode]
           made == WithParents(tr, p)
<1>1. m \in Modes
  <2>1. mode \in Modes
    BY TreeNodes, TreeAssumption
  <2> QED
    BY <2>1, TreeAssumption
<1>2. File(c, m) \in Nodes /\ File(c, m).kind = "file" /\ File(c, m).content = c
  BY <1>1, NodeKinds
<1>3. /\ made \in Trees /\ p \notin Above[p] /\ tr[p] # Dir
      /\ \A q \in Paths : made[q] = IF q \in Above[p] THEN Dir ELSE tr[q]
  BY WithParentsTree, AboveClosed DEF CanWrite
<1>4. Written(tr, p, c) = [made EXCEPT ![p] = File(c, m)]
  BY DEF Written
<1> HIDE DEF m, made
<1>5. made[p] # Dir /\ \A q \in Above[p] : made[q] = Dir
  BY <1>3, AboveClosed
<1>6. [made EXCEPT ![p] = File(c, m)] \in Trees
  BY <1>2, <1>3, <1>5, OneNode
<1>7. made \in [Paths -> Nodes]
  BY <1>3 DEF Trees
<1> QED
  BY <1>2, <1>3, <1>4, <1>6, <1>7 DEF IsFile

\* remove, which takes what is below with it
LEMMA RemovedTree ==
  ASSUME NEW tr \in Trees, NEW p \in Paths
  PROVE  /\ Removed(tr, p) \in Trees
         /\ \A q \in Paths : Removed(tr, p)[q] = IF q = p \/ p \in Above[q] THEN Absent ELSE tr[q]
<1> DEFINE gone == Removed(tr, p)
<1>1. \A q \in Paths : gone[q] = IF q = p \/ p \in Above[q] THEN Absent ELSE tr[q]
  BY DEF Removed
<1>2. gone \in [Paths -> Nodes]
  BY TreeNodes, NodeKinds DEF Removed
<1> HIDE DEF gone
<1>3. ASSUME NEW q \in Paths, gone[q] # Absent, NEW r \in Above[q] PROVE gone[r] = Dir
  <2>1. r \in Paths /\ Above[r] \subseteq Above[q]
    BY AboveClosed
  <2>2. q # p /\ p \notin Above[q] /\ tr[q] # Absent
    BY <1>1, <1>3
  <2>3. r # p /\ p \notin Above[r] /\ tr[r] = Dir
    BY <2>1, <2>2, TreeNodes
  <2> QED
    BY <1>1, <2>1, <2>3
<1> QED
  BY <1>1, <1>2, <1>3 DEF Trees, gone

\* move, of a file to where nothing is
LEMMA MovedTree ==
  ASSUME NEW tr \in Trees, NEW p \in Paths, NEW to \in Paths,
         IsFile(tr, p), ~Exists(tr, to), CanMakeParents(tr, to)
  PROVE  /\ Moved(tr, p, to) \in Trees /\ p # to /\ p \notin Above[to]
         /\ Moved(tr, p, to)[p] = Absent /\ Moved(tr, p, to)[to] = tr[p]
         /\ \A q \in Paths \ {p, to} :
              Moved(tr, p, to)[q] = IF q \in Above[to] THEN Dir ELSE tr[q]
<1> DEFINE made == WithParents(tr, to)
           put == [made EXCEPT ![to] = tr[p]]
<1>1. tr[p] # Absent /\ tr[p] # Dir /\ tr[p] \in Nodes /\ tr[to] = Absent /\ p # to
  BY TreeNodes
<1>2. p \notin Above[to]
  BY <1>1, WithParentsTree
<1>3. /\ made \in Trees /\ to \notin Above[to]
      /\ \A q \in Paths : made[q] = IF q \in Above[to] THEN Dir ELSE tr[q]
  BY WithParentsTree, AboveClosed
<1>4. Moved(tr, p, to) = [made EXCEPT ![to] = tr[p], ![p] = Absent]
  BY DEF Moved
<1> HIDE DEF made
<1>5. made[to] = Absent /\ made[p] = tr[p] /\ \A q \in Above[to] : made[q] = Dir
  BY <1>1, <1>2, <1>3, AboveClosed
<1>6. put \in Trees
  BY <1>1, <1>3, <1>5, NodeKinds, OneNode
<1>7. made \in [Paths -> Nodes]
  BY <1>3 DEF Trees
<1>8. put[p] = tr[p]
  BY <1>1, <1>5, <1>7
<1>9. Moved(tr, p, to) = [put EXCEPT ![p] = Absent]
  BY <1>4
<1>10. put[to] = tr[p] /\ \A q \in Paths \ {to} : put[q] = made[q]
  BY <1>7
<1> HIDE DEF put
<1>11. [put EXCEPT ![p] = Absent] \in Trees
  BY <1>1, <1>6, <1>8, NodeKinds, OneNode
<1>12. put \in [Paths -> Nodes]
  BY <1>6 DEF Trees
<1> QED
  BY <1>1, <1>2, <1>3, <1>9, <1>10, <1>11, <1>12
-----------------------------------------------------------------------------
(* Patches                                                                 *)

\* What an operation of a patch says.
LEMMA OperationParts ==
  ASSUME NEW op \in Operations
  PROVE  /\ op.path \in Named /\ op.path \in Paths /\ op.path # Nowhere
         /\ op.to \in Named \union {Nowhere}
         /\ op.type \in {"add", "delete", "update"}
         /\ op.to # Nowhere => op.type = "update" /\ op.to \in Paths
BY TreeAssumption DEF Operations

\* The names of a patch, in their order.
LEMMA NamesOfOperations ==
  ASSUME NEW source \in Seq(Operations)
  PROVE  /\ \A k \in 1 .. Len(source) :
              /\ 2 * k - 1 \in 1 .. 2 * Len(source) /\ PathAt(source, 2 * k - 1) = source[k].path
              /\ 2 * k \in 1 .. 2 * Len(source) /\ PathAt(source, 2 * k) = source[k].to
         /\ \A i \in 1 .. 2 * Len(source) : PathAt(source, i) \in Named \union {Nowhere}
<1>1. ASSUME NEW k \in 1 .. Len(source)
      PROVE  /\ 2 * k - 1 \in 1 .. 2 * Len(source) /\ PathAt(source, 2 * k - 1) = source[k].path
             /\ 2 * k \in 1 .. 2 * Len(source) /\ PathAt(source, 2 * k) = source[k].to
  <2>1. k \in Int /\ Len(source) \in Nat
    OBVIOUS
  <2>2. (2 * k - 1) % 2 = 1 /\ ((2 * k - 1) + 1) \div 2 = k /\ (2 * k) % 2 = 0 /\ (2 * k) \div 2 = k
    BY ONLY <2>1
  <2> QED
    BY <2>1, <2>2 DEF PathAt
<1>2. ASSUME NEW i \in 1 .. 2 * Len(source) PROVE PathAt(source, i) \in Named \union {Nowhere}
  <2>1. i \in Int /\ Len(source) \in Nat /\ 1 <= i /\ i <= 2 * Len(source)
    OBVIOUS
  <2>2. CASE i % 2 = 1
    <3>1. (i + 1) \div 2 \in 1 .. Len(source)
      BY ONLY <2>1, <2>2
    <3>2. source[(i + 1) \div 2] \in Operations
      BY <3>1
    <3> QED
      BY <2>2, <3>2, OperationParts DEF PathAt
  <2>3. CASE i % 2 # 1
    <3>1. i \div 2 \in 1 .. Len(source)
      BY ONLY <2>1, <2>3
    <3>2. source[i \div 2] \in Operations
      BY <3>1
    <3> QED
      BY <2>3, <3>2, OperationParts DEF PathAt
  <2> QED
    BY <2>2, <2>3
<1> QED
  BY <1>1, <1>2

\* Every path that is named has one snapshot.
LEMMA SnapshotFacts ==
  ASSUME NEW source \in Seq(Operations)
  PROVE  /\ Snapshots(source) \subseteq 1 .. 2 * Len(source)
         /\ \A i \in Snapshots(source) : PathAt(source, i) \in Named
         /\ \A i, j \in Snapshots(source) : i # j => PathAt(source, i) # PathAt(source, j)
         /\ NamedBy(source) \subseteq Named
         /\ \A k \in 1 .. Len(source) :
              /\ source[k].path \in NamedBy(source)
              /\ source[k].to # Nowhere => source[k].to \in NamedBy(source)
<1> DEFINE n == 2 * Len(source)
<1>1. n \in Nat /\ Snapshots(source) \subseteq 1 .. n
  BY DEF Snapshots
<1> HIDE DEF n
<1>2. \A i \in Snapshots(source) : PathAt(source, i) \in Named
  BY NamesOfOperations DEF Snapshots
<1>3. \A i, j \in Snapshots(source) : i # j => PathAt(source, i) # PathAt(source, j)
  <2>1. SUFFICES ASSUME NEW i \in Snapshots(source), NEW j \in Snapshots(source), i # j
                 PROVE  PathAt(source, i) # PathAt(source, j)
    OBVIOUS
  <2>2. i \in 1 .. n /\ j \in 1 .. n /\ (i \in 1 .. j - 1 \/ j \in 1 .. i - 1)
    BY <1>1, <2>1
  <2>3. \A m \in 1 .. j - 1 : PathAt(source, m) # PathAt(source, j)
    BY DEF Snapshots
  <2>4. \A m \in 1 .. i - 1 : PathAt(source, m) # PathAt(source, i)
    BY DEF Snapshots
  <2> QED
    BY <2>2, <2>3, <2>4
<1>4. ASSUME NEW i \in 1 .. n, PathAt(source, i) # Nowhere PROVE PathAt(source, i) \in NamedBy(source)
  <2> DEFINE Places == {j \in 1 .. n : PathAt(source, j) = PathAt(source, i)}
             least == Min(Places)
  <2>1. Places \in SUBSET Nat /\ i \in Places
    BY <1>1
  <2>2. least \in Places /\ \A j \in Places : least <= j
    BY <2>1, LeastNatural
  <2>3. least \in 1 .. n /\ PathAt(source, least) = PathAt(source, i)
    BY <2>2
  <2>4. \A j \in 1 .. least - 1 : j \in 1 .. n /\ ~(least <= j)
    BY <1>1, <2>3
  <2>5. \A j \in 1 .. least - 1 : PathAt(source, j) # PathAt(source, i)
    BY <2>2, <2>4
  <2> HIDE DEF least, Places
  <2>6. least \in Snapshots(source)
    BY <1>4, <2>3, <2>5 DEF Snapshots, n
  <2> QED
    BY <2>3, <2>6 DEF NamedBy
<1>5. NamedBy(source) \subseteq Named
  BY <1>2 DEF NamedBy
<1>6. ASSUME NEW k \in 1 .. Len(source)
      PROVE  /\ source[k].path \in NamedBy(source)
             /\ source[k].to # Nowhere => source[k].to \in NamedBy(source)
  <2>1. source[k].path # Nowhere
    BY OperationParts
  <2>2. /\ 2 * k - 1 \in 1 .. n /\ PathAt(source, 2 * k - 1) = source[k].path
        /\ 2 * k \in 1 .. n /\ PathAt(source, 2 * k) = source[k].to
    BY NamesOfOperations DEF n
  <2> QED
    BY <1>4, <2>1, <2>2
<1> QED
  BY <1>1, <1>2, <1>3, <1>5, <1>6 DEF n

\* The snapshot that is restored next.
LEMMA LastSnapshot ==
  ASSUME NEW source \in Seq(Operations), NEW places \in SUBSET Snapshots(source), places # {}
  PROVE  /\ Max(places) \in places /\ Max(places) \in Snapshots(source)
         /\ PathAt(source, Max(places)) \in Named /\ PathAt(source, Max(places)) \in Paths
         /\ PathAt(source, Max(places)) \in NamedBy(source)
<1>1. 2 * Len(source) \in Nat /\ places \in SUBSET (1 .. 2 * Len(source))
  BY SnapshotFacts
<1>2. Max(places) \in places
  BY <1>1, GreatestIndex
<1> QED
  BY <1>2, SnapshotFacts, TreeAssumption DEF NamedBy

\* The stages of a patch: what it finds, and then one operation at a time.
StagesFollow(tr, source) ==
  /\ Stages(tr, source)[0] = [ok |-> TRUE, tree |-> tr]
  /\ \A k \in 1 .. Len(source) :
       Stages(tr, source)[k] = Further(Stages(tr, source)[k - 1], source[k])

LEMMA StageFacts ==
  ASSUME NEW tr, NEW source \in Seq(Operations)
  PROVE  StagesFollow(tr, source)
<1> DEFINE n == Len(source)
           first == [ok |-> TRUE, tree |-> tr]
           Body(g, k) == IF k = 0 THEN first ELSE Further(g[k - 1], source[k])
           Upto(g, m) == \A k \in 0 .. n : k <= m => g[k] = Body(g, k)
           Solved == {m \in 0 .. n : \E g : Upto(g, m)}
           Unsolved == (0 .. n) \ Solved
           IsStages(g) == g = [k \in 0 .. n |-> Body(g, k)]
           after == CHOOSE g : IsStages(g)
<1>1. n \in Nat
  OBVIOUS
<1>2. Stages(tr, source) = after
  BY DEF Stages
<1> HIDE DEF n, first
<1>3. ASSUME NEW m \in 0 .. n, m = 0 \/ m - 1 \in Solved PROVE m \in Solved
  <2>1. CASE m = 0
    <3> DEFINE g == [k \in 0 .. n |-> first]
    <3>1. Upto(g, m)
      BY <1>1, <2>1
    <3> QED
      BY <3>1
  <2>2. CASE m # 0
    <3>1. PICK g : Upto(g, m - 1)
      BY <1>3, <2>2
    <3> DEFINE next == [k \in 0 .. n |-> Body(g, k)]
    <3>2. ASSUME NEW k \in 0 .. n, k <= m PROVE next[k] = Body(next, k)
      <4>1. CASE k = 0
        BY <4>1
      <4>2. CASE k # 0
        <5>1. k - 1 \in 0 .. n /\ k - 1 <= m - 1
          BY <1>1, <3>2, <4>2
        <5>2. next[k - 1] = Body(g, k - 1) /\ g[k - 1] = Body(g, k - 1)
          BY <3>1, <5>1
        <5>3. next[k] = Further(g[k - 1], source[k]) /\ next[k - 1] = g[k - 1]
          BY <4>2, <5>2
        <5> HIDE DEF next
        <5> QED
          BY <4>2, <5>3
      <4> QED
        BY <4>1, <4>2
    <3>3. Upto(next, m)
      BY <3>2
    <3> QED
      BY <3>3
  <2> QED
    BY <2>1, <2>2
<1>4. PICK g : Upto(g, n)
  <2>1. n \in Solved
    <3> HIDE DEF Solved
    <3>1. SUFFICES ASSUME n \notin Solved PROVE FALSE
      OBVIOUS
    <3>2. Unsolved \in SUBSET Nat /\ n \in Unsolved
      BY <1>1, <3>1
    <3> DEFINE m == Min(Unsolved)
    <3>3. m \in Unsolved /\ \A y \in Unsolved : m <= y
      BY <3>2, LeastNatural
    <3> HIDE DEF m
    <3>4. m \in 0 .. n /\ m \notin Solved /\ \A y \in 0 .. n : y \notin Solved => m <= y
      BY <3>3
    <3>5. m # 0 => m - 1 \in 0 .. n /\ ~(m <= m - 1)
      BY <1>1, <3>4
    <3> QED
      BY <1>3, <3>4, <3>5
  <2> QED
    BY <2>1
<1> DEFINE h == [k \in 0 .. n |-> g[k]]
<1>5. \A k \in 0 .. n : h[k] = Body(h, k)
  <2>1. ASSUME NEW k \in 0 .. n PROVE h[k] = Body(h, k)
    <3>1. g[k] = Body(g, k) /\ k <= n
      BY <1>1, <1>4
    <3>2. CASE k = 0
      BY <3>1, <3>2
    <3>3. CASE k # 0
      <4>1. k - 1 \in 0 .. n
        BY <1>1, <3>3
      <4>2. h[k - 1] = g[k - 1] /\ h[k] = g[k]
        BY <4>1
      <4> HIDE DEF h
      <4> QED
        BY <3>1, <3>3, <4>2
    <3> QED
      BY <3>2, <3>3
  <2> QED
    BY <2>1
<1>6. h = [k \in 0 .. n |-> h[k]]
  OBVIOUS
<1> HIDE DEF h
<1>7. IsStages(h)
  BY <1>5, <1>6
<1> HIDE DEF IsStages
<1>8. IsStages(after)
  BY <1>7
<1> HIDE DEF after
<1>9. \A k \in 0 .. n : after[k] = Body(after, k)
  BY <1>8 DEF IsStages
<1>10. after[0] = first /\ \A k \in 1 .. n : after[k] = Further(after[k - 1], source[k])
  <2>1. 0 \in 0 .. n /\ \A k \in 1 .. n : k \in 0 .. n /\ k # 0
    BY <1>1
  <2> QED
    BY <1>9, <2>1
<1> QED
  BY <1>2, <1>10 DEF n, first, StagesFollow
-----------------------------------------------------------------------------
(* The state, and what a step keeps of it                                  *)

Phases == {"idle", "queued", "apply", "move", "undo", "chmod", "done"}

Answers == {"none", "done", "failed"}

\* What the calls keep has its type.
LocalShapes ==
  /\ pc \in [Tasks -> Phases]
  /\ patch \in [Tasks -> Seq(Operations)] /\ left \in [Tasks -> Seq(Operations)]
  /\ before \in [Tasks -> Trees]
  /\ undo \in [Tasks -> SUBSET Nat] /\ \A t \in Tasks : undo[t] \subseteq Snapshots(patch[t])
  /\ parents \in [Tasks -> SUBSET Paths]
  /\ answer \in [Tasks -> Answers]

\* The queue holds every call under way or waiting, once; only its first is under way.
QueueInv ==
  /\ queue \in Seq(Tasks)
  /\ \A i, j \in 1 .. Len(queue) : queue[i] = queue[j] => i = j
  /\ \A t \in Tasks : pc[t] \notin {"idle", "done"} <=> \E i \in 1 .. Len(queue) : queue[i] = t
  /\ \A t \in UnderWay : queue # <<>> /\ Head(queue) = t

\* How far a call has come.
PhaseInv(t) ==
  /\ pc[t] = "idle" <=> patch[t] = <<>>
  /\ pc[t] \in {"idle", "queued"} => undo[t] = {}
  /\ pc[t] = "done" <=> answer[t] # "none"
  /\ pc[t] = "move" => /\ left[t] # <<>> /\ Head(left[t]).to # Nowhere
                       /\ IsFile(tree, Head(left[t]).path)
  /\ pc[t] = "chmod" => /\ undo[t] # {}
                        /\ IsFile(tree, Restoring(t)) /\ IsFile(before[t], Restoring(t))

TypeInv ==
  /\ tree \in Trees /\ closed \in BOOLEAN /\ faults \in 0 .. MaxFaults
  /\ LocalShapes
  /\ QueueInv
  /\ \A t \in Tasks : PhaseInv(t)

\* The calls but t are where they were.
OthersKept(t) == \A u \in Tasks \ {t} :
  /\ pc'[u] = pc[u] /\ patch'[u] = patch[u] /\ left'[u] = left[u] /\ before'[u] = before[u]
  /\ undo'[u] = undo[u] /\ parents'[u] = parents[u] /\ answer'[u] = answer[u]

LEMMA BareIsTree == Bare \in Trees
BY NodeKinds DEF Bare, Trees

\* A call ends.
LEMMA FinishStep ==
  ASSUME LocalShapes, NEW t \in Tasks, NEW how \in {"done", "failed"}, Finish(t, how)
  PROVE  /\ LocalShapes' /\ OthersKept(t)
         /\ pc'[t] = "done" /\ answer'[t] = how /\ patch'[t] = patch[t]
         /\ left'[t] = <<>> /\ before'[t] = Bare /\ undo'[t] = {} /\ parents'[t] = {}
         /\ patch' = patch /\ closed' = closed /\ queue' = Tail(queue)
<1>1. /\ OthersKept(t)
      /\ pc'[t] = "done" /\ answer'[t] = how /\ patch'[t] = patch[t]
      /\ left'[t] = <<>> /\ before'[t] = Bare /\ undo'[t] = {} /\ parents'[t] = {}
      /\ patch' = patch /\ closed' = closed /\ queue' = Tail(queue)
  BY DEF LocalShapes, Finish, Release, OthersKept
<1>2. /\ pc' \in [Tasks -> Phases] /\ answer' \in [Tasks -> Answers]
      /\ patch' \in [Tasks -> Seq(Operations)] /\ parents' \in [Tasks -> SUBSET Paths]
  BY DEF LocalShapes, Finish, Phases, Answers
<1>3. left' \in [Tasks -> Seq(Operations)] /\ undo' \in [Tasks -> SUBSET Nat]
  BY DEF LocalShapes, Finish
<1>4. before' \in [Tasks -> Trees]
  BY BareIsTree DEF LocalShapes, Finish
<1>5. \A u \in Tasks : undo'[u] \subseteq Snapshots(patch[u])
  BY <1>1 DEF LocalShapes, OthersKept
<1> QED
  BY <1>1, <1>2, <1>3, <1>4, <1>5 DEF LocalShapes

\* The patch goes on with what is left of it.
LEMMA AdvanceStep ==
  ASSUME LocalShapes, NEW t \in Tasks, Advance(t), left[t] # <<>>
  PROVE  /\ LocalShapes' /\ OthersKept(t)
         /\ pc'[t] = "apply" /\ left'[t] = Tail(left[t]) /\ undo' = undo
         /\ patch' = patch /\ closed' = closed /\ queue' = queue
         /\ before' = before /\ parents' = parents /\ answer' = answer
<1>1. left[t] \in Seq(Operations) /\ Tail(left[t]) \in Seq(Operations)
  BY DEF LocalShapes
<1>2. LocalShapes'
  BY <1>1 DEF LocalShapes, Advance, LocalsKept, Phases
<1> QED
  BY <1>2 DEF LocalShapes, Advance, LocalsKept, OthersKept

\* The same operation, or the same snapshot, goes on.
LEMMA ContinueStep ==
  ASSUME LocalShapes, NEW t \in Tasks, NEW step \in {"move", "chmod"}, Continue(t, step)
  PROVE  /\ LocalShapes' /\ OthersKept(t)
         /\ pc'[t] = step /\ left' = left /\ undo' = undo
         /\ patch' = patch /\ closed' = closed /\ queue' = queue
         /\ before' = before /\ parents' = parents /\ answer' = answer
BY DEF LocalShapes, Continue, LocalsKept, OthersKept, Phases

\* The rollback begins, with every snapshot.
LEMMA FailStep ==
  ASSUME LocalShapes, NEW t \in Tasks, Fail(t)
  PROVE  /\ LocalShapes' /\ OthersKept(t)
         /\ pc'[t] = "undo" /\ left' = left /\ undo'[t] = Snapshots(patch[t])
         /\ patch' = patch /\ closed' = closed /\ queue' = queue
         /\ before' = before /\ parents' = parents /\ answer' = answer
<1>1. patch[t] \in Seq(Operations)
  BY DEF LocalShapes
<1>2. Snapshots(patch[t]) \subseteq Nat
  BY <1>1 DEF Snapshots
<1>3. LocalShapes'
  BY <1>2 DEF LocalShapes, Fail, LocalsKept, Phases
<1> QED
  BY <1>3 DEF LocalShapes, Fail, LocalsKept, OthersKept

\* One snapshot is restored.
LEMMA RestoredStep ==
  ASSUME LocalShapes, NEW t \in Tasks, Restored(t)
  PROVE  /\ LocalShapes' /\ OthersKept(t)
         /\ pc'[t] = "undo" /\ left' = left /\ undo'[t] = undo[t] \ {Max(undo[t])}
         /\ patch' = patch /\ closed' = closed /\ queue' = queue
         /\ before' = before /\ parents' = parents /\ answer' = answer
<1> DEFINE last == Max(undo[t])
<1>1. undo' = [undo EXCEPT ![t] = undo[t] \ {last}]
  BY DEF Restored
<1> HIDE DEF last
<1>2. LocalShapes'
  BY <1>1 DEF LocalShapes, Restored, LocalsKept, Phases
<1>3. undo'[t] = undo[t] \ {last}
  BY <1>1 DEF LocalShapes
<1> QED
  BY <1>1, <1>2, <1>3 DEF LocalShapes, Restored, LocalsKept, OthersKept, last

\* The patch's turn comes: what may be needed to undo it is kept.
EnterKept(t) ==
  /\ LocalShapes' /\ OthersKept(t)
  /\ \A p \in NamedBy(patch[t]) : tree[p] # Dir
  /\ pc'[t] = "apply" /\ left'[t] = patch[t] /\ before'[t] = tree
  /\ parents'[t] = {q \in UNION {Above[p] : p \in NamedBy(patch[t])} : ~Exists(tree, q)}
  /\ patch' = patch /\ closed' = closed /\ queue' = queue /\ undo' = undo /\ answer' = answer

LEMMA EnterStep ==
  ASSUME LocalShapes, tree \in Trees, NEW t \in Tasks, Enter(t)
  PROVE  /\ pc[t] = "queued" /\ Head(queue) = t /\ tree' = tree /\ faults' = faults
         /\ Finish(t, "failed") \/ EnterKept(t)
<1> DEFINE named == NamedBy(patch[t])
           made == {q \in UNION {Above[p] : p \in named} : ~Exists(tree, q)}
<1>1. pc[t] = "queued" /\ Head(queue) = t /\ tree' = tree /\ faults' = faults
  BY DEF Enter, Turn
<1>2. \/ Finish(t, "failed")
      \/ /\ \A p \in named : tree[p] # Dir
         /\ pc' = [pc EXCEPT ![t] = "apply"]
         /\ left' = [left EXCEPT ![t] = patch[t]]
         /\ before' = [before EXCEPT ![t] = tree]
         /\ parents' = [parents EXCEPT ![t] = made]
         /\ UNCHANGED <<closed, queue, patch, undo, answer>>
  BY DEF Enter
<1>3. made \in SUBSET Paths
  <2>1. patch[t] \in Seq(Operations)
    BY DEF LocalShapes
  <2>2. named \subseteq Paths
    BY <2>1, SnapshotFacts, TreeAssumption
  <2> HIDE DEF named
  <2> QED
    BY <2>2, AboveClosed
<1> HIDE DEF made
<1>4. CASE /\ \A p \in named : tree[p] # Dir
           /\ pc' = [pc EXCEPT ![t] = "apply"]
           /\ left' = [left EXCEPT ![t] = patch[t]]
           /\ before' = [before EXCEPT ![t] = tree]
           /\ parents' = [parents EXCEPT ![t] = made]
           /\ UNCHANGED <<closed, queue, patch, undo, answer>>
  <2>1. LocalShapes'
    BY <1>3, <1>4 DEF LocalShapes, Phases
  <2>2. parents'[t] = made
    BY <1>4 DEF LocalShapes
  <2>3. OthersKept(t) /\ pc'[t] = "apply" /\ left'[t] = patch[t] /\ before'[t] = tree
    BY <1>4 DEF LocalShapes, OthersKept
  <2> QED
    BY <1>1, <1>4, <2>1, <2>2, <2>3 DEF EnterKept, made
<1> QED
  BY <1>1, <1>2, <1>4

-----------------------------------------------------------------------------
(* The queue                                                               *)

\* What is under way, or has its turn, is alone.
LEMMA FirstIsAlone ==
  ASSUME QueueInv, NEW t \in Tasks, pc[t] \notin {"idle", "done"},
         t \in UnderWay \/ Head(queue) = t
  PROVE  /\ queue # <<>> /\ Head(queue) = t
         /\ \A u \in Tasks \ {t} : u \notin UnderWay
<1>1. queue # <<>> /\ Head(queue) = t
  BY DEF QueueInv
<1> QED
  BY <1>1 DEF QueueInv, UnderWay

\* The first call goes on, or a call starts to wait for its turn.
LEMMA QueueKept ==
  ASSUME QueueInv, NEW t \in Tasks, pc[t] \notin {"idle", "done"}, queue # <<>>, Head(queue) = t,
         queue' = queue, pc'[t] \notin {"idle", "done"}, \A u \in Tasks \ {t} : pc'[u] = pc[u]
  PROVE  QueueInv'
BY DEF QueueInv, UnderWay

LEMMA QueueLeft ==
  ASSUME QueueInv, NEW t \in Tasks, pc[t] \notin {"idle", "done"}, queue # <<>>, Head(queue) = t,
         queue' = Tail(queue), pc'[t] = "done", \A u \in Tasks \ {t} : pc'[u] = pc[u]
  PROVE  QueueInv' /\ UnderWay' = {}
<1> DEFINE n == Len(queue)
<1>1. queue \in Seq(Tasks) /\ n \in Nat /\ n >= 1 /\ queue[1] = t
  BY DEF QueueInv
<1>2. /\ queue' \in Seq(Tasks) /\ Len(queue') = n - 1
      /\ \A i \in 1 .. n - 1 : queue'[i] = queue[i + 1]
  BY <1>1
<1>3. \A u \in Tasks \ {t} : u \notin UnderWay
  BY FirstIsAlone
<1>4. UnderWay' = {}
  BY <1>3 DEF UnderWay
<1>5. ASSUME NEW i \in 1 .. Len(queue'), NEW j \in 1 .. Len(queue'), queue'[i] = queue'[j]
      PROVE  i = j
  <2>1. i \in 1 .. n - 1 /\ j \in 1 .. n - 1
    BY <1>2
  <2>2. i + 1 \in 1 .. n /\ j + 1 \in 1 .. n /\ queue[i + 1] = queue[j + 1]
    BY <1>1, <1>2, <1>5, <2>1
  <2>3. i + 1 = j + 1
    BY <2>2 DEF QueueInv
  <2> QED
    BY <2>1, <2>3
<1>6. ASSUME NEW u \in Tasks
      PROVE  pc'[u] \notin {"idle", "done"} <=> \E i \in 1 .. Len(queue') : queue'[i] = u
  <2>1. ASSUME NEW i \in 1 .. Len(queue'), queue'[i] = u PROVE pc'[u] \notin {"idle", "done"}
    <3>1. i + 1 \in 1 .. n /\ 1 \in 1 .. n /\ i + 1 # 1 /\ queue[i + 1] = u
      BY <1>1, <1>2, <2>1
    <3>2. u # t
      BY <1>1, <3>1 DEF QueueInv
    <3>3. pc[u] \notin {"idle", "done"}
      BY <3>1 DEF QueueInv
    <3> QED
      BY <3>2, <3>3
  <2>2. ASSUME pc'[u] \notin {"idle", "done"} PROVE \E i \in 1 .. Len(queue') : queue'[i] = u
    <3>1. u # t /\ pc[u] \notin {"idle", "done"}
      BY <2>2
    <3>2. PICK i \in 1 .. n : queue[i] = u
      BY <3>1 DEF QueueInv
    <3>3. i # 1
      BY <1>1, <3>1, <3>2
    <3>4. i - 1 \in 1 .. n - 1 /\ queue'[i - 1] = queue[(i - 1) + 1] /\ (i - 1) + 1 = i
      BY <1>1, <1>2, <3>3
    <3> QED
      BY <1>2, <3>2, <3>4
  <2> QED
    BY <2>1, <2>2
<1> QED
  BY <1>2, <1>4, <1>5, <1>6 DEF QueueInv

\* A call joins at the end.
LEMMA QueueJoined ==
  ASSUME QueueInv, NEW t \in Tasks, pc[t] = "idle", queue' = Append(queue, t),
         pc'[t] = "queued", \A u \in Tasks \ {t} : pc'[u] = pc[u]
  PROVE  QueueInv'
<1> DEFINE n == Len(queue)
<1>1. /\ queue \in Seq(Tasks) /\ n \in Nat /\ queue' \in Seq(Tasks) /\ Len(queue') = n + 1
      /\ queue'[n + 1] = t /\ \A i \in 1 .. n : queue'[i] = queue[i]
  BY DEF QueueInv
<1>2. \A i \in 1 .. n : queue[i] # t
  BY DEF QueueInv
<1>3. ASSUME NEW i \in 1 .. Len(queue'), NEW j \in 1 .. Len(queue'), queue'[i] = queue'[j]
      PROVE  i = j
  BY <1>1, <1>2, <1>3 DEF QueueInv
<1>4. ASSUME NEW u \in Tasks
      PROVE  pc'[u] \notin {"idle", "done"} <=> \E i \in 1 .. Len(queue') : queue'[i] = u
  <2>1. CASE u = t
    BY <1>1, <2>1
  <2>2. CASE u # t
    <3>1. pc[u] \notin {"idle", "done"} <=> \E i \in 1 .. n : queue[i] = u
      BY DEF QueueInv
    <3>2. (\E i \in 1 .. n : queue[i] = u) <=> \E i \in 1 .. n + 1 : queue'[i] = u
      BY <1>1, <2>2
    <3> QED
      BY <1>1, <2>2, <3>1, <3>2
  <2> QED
    BY <2>1, <2>2
<1>5. ASSUME NEW u \in UnderWay' PROVE queue' # <<>> /\ Head(queue') = u
  <2>1. u # t /\ u \in UnderWay
    BY <1>5 DEF UnderWay
  <2>2. queue # <<>> /\ Head(queue) = u
    BY <2>1 DEF QueueInv
  <2> QED
    BY <1>1, <2>2
<1> QED
  BY <1>1, <1>3, <1>4, <1>5 DEF QueueInv
-----------------------------------------------------------------------------
(* Types                                                                   *)

\* chmod of a file
ModeSet(next, tr, p, m) == next = [tr EXCEPT ![p].mode = m]

LEMMA ChmodTree ==
  ASSUME NEW tr \in Trees, NEW p \in Paths, IsFile(tr, p), NEW m \in Modes,
         NEW next, ModeSet(next, tr, p, m)
  PROVE  /\ next \in Trees
         /\ next[p] = File(tr[p].content, m) /\ \A q \in Paths : q # p => next[q] = tr[q]
<1>1. tr[p] \in Nodes /\ tr[p].content \in Contents /\ tr[p].mode \in Modes /\ tr[p] # Dir
      /\ tr[p] # Absent /\ tr[p] = File(tr[p].content, tr[p].mode)
  BY TreeNodes, NodeKinds DEF IsFile
<1>2. \A c, old : [File(c, old) EXCEPT !.mode = m] = File(c, m)
  BY DEF File
<1>3. ASSUME NEW n, n = tr[p], n = File(n.content, n.mode)
      PROVE  [tr EXCEPT ![p].mode = m] = [tr EXCEPT ![p] = File(n.content, m)]
  <2>1. [n EXCEPT !.mode = m] = File(n.content, m)
    BY <1>2, <1>3
  <2>2. [tr EXCEPT ![p].mode = m] = [tr EXCEPT ![p] = [n EXCEPT !.mode = m]]
    BY <1>3
  <2> QED
    BY <2>1, <2>2
<1>4. [tr EXCEPT ![p].mode = m] = [tr EXCEPT ![p] = File(tr[p].content, m)]
  BY <1>1, <1>3
<1>5. File(tr[p].content, m) \in Nodes
  BY <1>1, NodeKinds
<1>6. \A q \in Above[p] : tr[q] = Dir
  BY <1>1, TreeNodes
<1> DEFINE n == File(tr[p].content, m)
<1> HIDE DEF n
<1>7. [tr EXCEPT ![p] = n] \in Trees
  BY <1>1, <1>5, <1>6, OneNode DEF n
<1>8. tr \in [Paths -> Nodes]
  BY DEF Trees
<1>9. next = [tr EXCEPT ![p] = n]
  BY <1>4 DEF n, ModeSet
<1>10. next[p] = n /\ \A q \in Paths : q # p => next[q] = tr[q]
  BY <1>8, <1>9
<1> QED
  BY <1>7, <1>9, <1>10 DEF n

\* A file can be written where it is.
LEMMA FileCanBeWritten ==
  ASSUME NEW tr \in Trees, NEW p \in Paths, IsFile(tr, p)
  PROVE  CanWrite(tr, p)
<1>1. tr[p] # Absent /\ tr[p] # Dir
  BY TreeNodes
<1>2. ASSUME NEW q \in Above[p] PROVE ~IsFile(tr, q)
  <2>1. q \in Paths /\ tr[q] = Dir
    BY <1>1, TreeNodes, AboveClosed
  <2> QED
    BY <2>1, TreeNodes
<1> QED
  BY <1>1, <1>2 DEF CanWrite, CanMakeParents

\* The first call goes on.
LEMMA GoesOn ==
  ASSUME TypeInv, NEW t \in Tasks, pc[t] \notin {"idle", "done"}, t \in UnderWay \/ Head(queue) = t,
         LocalShapes', OthersKept(t), queue' = queue, patch' = patch, closed' = closed,
         answer' = answer, tree' \in Trees, faults' \in 0 .. MaxFaults,
         \/ pc'[t] \in {"apply", "undo"}
         \/ pc'[t] \in {"move", "chmod"} /\ PhaseInv(t)'
  PROVE  TypeInv'
<1>1. queue # <<>> /\ Head(queue) = t /\ \A u \in Tasks \ {t} : u \notin UnderWay
  BY FirstIsAlone DEF TypeInv
<1>2. QueueInv'
  BY <1>1, QueueKept DEF TypeInv, OthersKept
<1>3. PhaseInv(t)'
  BY DEF TypeInv, PhaseInv
<1>4. ASSUME NEW u \in Tasks \ {t} PROVE PhaseInv(u)'
  <2>1. PhaseInv(u) /\ u \notin UnderWay /\ pc'[u] = pc[u] /\ undo'[u] = undo[u]
    BY <1>1 DEF TypeInv, OthersKept
  <2>2. pc[u] \notin {"move", "chmod"}
    BY <2>1 DEF UnderWay
  <2> QED
    BY <2>1, <2>2 DEF PhaseInv
<1> QED
  BY <1>2, <1>3, <1>4 DEF TypeInv

\* The first call ends.
LEMMA Ends ==
  ASSUME TypeInv, NEW t \in Tasks, pc[t] \notin {"idle", "done"}, t \in UnderWay \/ Head(queue) = t,
         NEW how \in {"done", "failed"}, Finish(t, how), tree' = tree, faults' = faults
  PROVE  TypeInv' /\ UnderWay' = {}
<1>1. queue # <<>> /\ Head(queue) = t /\ \A u \in Tasks \ {t} : u \notin UnderWay
  BY FirstIsAlone DEF TypeInv
<1>2. /\ LocalShapes' /\ OthersKept(t)
      /\ pc'[t] = "done" /\ answer'[t] = how /\ undo'[t] = {}
      /\ patch' = patch /\ closed' = closed /\ queue' = Tail(queue)
  BY FinishStep DEF TypeInv
<1>3. QueueInv' /\ UnderWay' = {}
  BY <1>1, <1>2, QueueLeft DEF TypeInv, OthersKept
<1>4. PhaseInv(t)'
  BY <1>2 DEF TypeInv, PhaseInv
<1>5. ASSUME NEW u \in Tasks \ {t} PROVE PhaseInv(u)'
  <2>1. /\ PhaseInv(u) /\ u \notin UnderWay /\ pc'[u] = pc[u] /\ undo'[u] = undo[u]
        /\ answer'[u] = answer[u]
    BY <1>1, <1>2 DEF TypeInv, OthersKept
  <2>2. pc[u] \notin {"move", "chmod"}
    BY <2>1 DEF UnderWay
  <2> QED
    BY <1>2, <2>1, <2>2 DEF PhaseInv
<1> QED
  BY <1>2, <1>3, <1>4, <1>5 DEF TypeInv

\* The operation that is next.
LEMMA NextOperation ==
  ASSUME LocalShapes, NEW t \in Tasks, left[t] # <<>>
  PROVE  /\ Head(left[t]) \in Operations
         /\ Head(left[t]).path \in Named /\ Head(left[t]).path \in Paths
         /\ Head(left[t]).to \in Named \union {Nowhere}
         /\ Head(left[t]).to # Nowhere => Head(left[t]).to \in Paths
<1>1. Head(left[t]) \in Operations
  BY DEF LocalShapes
<1> QED
  BY <1>1, OperationParts

\* The path that is restored next.
LEMMA NextRestored ==
  ASSUME LocalShapes, NEW t \in Tasks, undo[t] # {}
  PROVE  /\ Max(undo[t]) \in undo[t] /\ Max(undo[t]) \in Snapshots(patch[t])
         /\ Restoring(t) = PathAt(patch[t], Max(undo[t]))
         /\ Restoring(t) \in Paths /\ Restoring(t) \in NamedBy(patch[t])
<1>1. patch[t] \in Seq(Operations) /\ undo[t] \in SUBSET Snapshots(patch[t])
  BY DEF LocalShapes
<1> QED
  BY <1>1, LastSnapshot DEF Restoring

\* What a failed call of the file system leaves.
LEMMA FaultTree ==
  ASSUME tree \in Trees, NEW t, NEW p \in Paths, Fault(t, p), faults \in 0 .. MaxFaults
  PROVE  /\ tree' \in Trees /\ faults' \in 0 .. MaxFaults /\ Fail(t)
         /\ tree' = tree \/ (CanMakeParents(tree, p) /\ tree' = WithParents(tree, p))
BY WithParentsTree, WorkspaceAssumption DEF Fault

-----------------------------------------------------------------------------
LEMMA InitTypeInv == Init => TypeInv
<1> SUFFICES ASSUME Init PROVE TypeInv
  OBVIOUS
<1>1. tree \in Trees /\ closed \in BOOLEAN /\ faults \in 0 .. MaxFaults
  <2>1. tree \in Start /\ closed = FALSE /\ faults = 0
    BY DEF Init
  <2>2. MaxFaults \in Nat /\ Start \subseteq Trees
    BY WorkspaceAssumption
  <2>3. tree \in Trees
    BY <2>1, <2>2
  <2>4. faults \in 0 .. MaxFaults
    BY <2>1, <2>2
  <2>5. closed \in BOOLEAN
    BY <2>1
  <2> QED
    BY <2>3, <2>4, <2>5
<1>2. LocalShapes
  BY BareIsTree DEF Init, LocalShapes, Phases, Answers
<1>3. QueueInv
  BY DEF Init, QueueInv, UnderWay
<1>4. \A t \in Tasks : PhaseInv(t)
  BY DEF Init, PhaseInv
<1> QED
  BY <1>1, <1>2, <1>3, <1>4 DEF TypeInv

LEMMA CallTypeInv ==
  ASSUME TypeInv, NEW t \in Tasks, NEW n \in 1 .. Size[t], NEW source \in Patches(n), Call(t, source)
  PROVE  TypeInv' /\ source \in Seq(Operations) \ {<<>>} /\ UnderWay' = UnderWay
<1>1. source \in Seq(Operations) /\ source # <<>>
  <2>1. n \in Nat /\ n >= 1 /\ source \in [1 .. n -> Operations]
    BY WorkspaceAssumption DEF Patches
  <2> QED
    BY <2>1
<1>2. /\ pc[t] = "idle" /\ undo[t] = {} /\ patch' = [patch EXCEPT ![t] = source]
      /\ UNCHANGED <<tree, closed, faults, left, before, undo, parents>>
  BY DEF TypeInv, PhaseInv, Call
<1>3. /\ OthersKept(t) /\ patch'[t] = source
      /\ \/ pc'[t] = "queued" /\ answer' = answer
         \/ pc'[t] = "done" /\ answer'[t] = "failed"
  BY <1>2 DEF TypeInv, LocalShapes, OthersKept, Call
<1>4. LocalShapes'
  <2>1. pc' \in [Tasks -> Phases] /\ answer' \in [Tasks -> Answers]
    <3>1. pc \in [Tasks -> Phases] /\ answer \in [Tasks -> Answers]
      BY DEF TypeInv, LocalShapes
    <3>2. \/ pc' = [pc EXCEPT ![t] = "done"] /\ answer' = [answer EXCEPT ![t] = "failed"]
          \/ pc' = [pc EXCEPT ![t] = "queued"] /\ answer' = answer
      BY DEF Call
    <3> QED
      BY <3>1, <3>2 DEF Phases, Answers
  <2>2. patch' \in [Tasks -> Seq(Operations)]
    BY <1>1, <1>2 DEF TypeInv, LocalShapes
  <2>3. \A u \in Tasks : undo'[u] \subseteq Snapshots(patch'[u])
    BY <1>2, <1>3 DEF TypeInv, LocalShapes, OthersKept
  <2> QED
    BY <1>2, <2>1, <2>2, <2>3 DEF TypeInv, LocalShapes
<1>5. QueueInv'
  <2>1. CASE closed
    <3>1. queue' = queue /\ pc'[t] = "done"
      BY <2>1 DEF TypeInv, LocalShapes, Call
    <3>2. \A u \in Tasks \ {t} : pc'[u] = pc[u]
      BY <1>3 DEF OthersKept
    <3>3. \A u \in Tasks : pc'[u] \notin {"idle", "done"} <=> pc[u] \notin {"idle", "done"}
      BY <1>2, <3>1, <3>2
    <3>4. UnderWay' = UnderWay
      BY <1>2, <3>1, <3>2 DEF UnderWay
    <3> QED
      BY <3>1, <3>3, <3>4 DEF TypeInv, QueueInv
  <2>2. CASE ~closed
    <3>1. queue' = Append(queue, t) /\ pc'[t] = "queued"
      BY <2>2 DEF TypeInv, LocalShapes, Call
    <3> QED
      BY <1>2, <1>3, <3>1, QueueJoined DEF TypeInv, OthersKept
  <2> QED
    BY <2>1, <2>2
<1>6. UnderWay' = UnderWay
  BY <1>2, <1>3 DEF UnderWay, OthersKept
<1>7. PhaseInv(t)'
  BY <1>1, <1>2, <1>3 DEF TypeInv, PhaseInv
<1>8. ASSUME NEW u \in Tasks \ {t} PROVE PhaseInv(u)'
  <2>1. /\ PhaseInv(u) /\ pc'[u] = pc[u] /\ patch'[u] = patch[u] /\ left'[u] = left[u]
        /\ before'[u] = before[u] /\ undo'[u] = undo[u] /\ answer'[u] = answer[u] /\ tree' = tree
    BY <1>2, <1>3 DEF TypeInv, OthersKept
  <2> QED
    BY <2>1 DEF PhaseInv, Restoring
<1> QED
  BY <1>1, <1>2, <1>4, <1>5, <1>6, <1>7, <1>8 DEF TypeInv
LEMMA EnterTypeInv ==
  ASSUME TypeInv, NEW t \in Tasks, Enter(t)
  PROVE  TypeInv'
<1>1. /\ pc[t] = "queued" /\ Head(queue) = t /\ tree' = tree /\ faults' = faults
      /\ Finish(t, "failed") \/ EnterKept(t)
  BY EnterStep DEF TypeInv
<1>2. CASE Finish(t, "failed")
  BY <1>1, <1>2, Ends
<1>3. CASE EnterKept(t)
  BY <1>1, <1>3, GoesOn DEF TypeInv, EnterKept
<1> QED
  BY <1>1, <1>2, <1>3

\* A step that fails a patch changes at most directories.
LEMMA FailTypeInv ==
  ASSUME TypeInv, NEW t \in UnderWay, Fail(t), tree' \in Trees, faults' \in 0 .. MaxFaults
  PROVE  TypeInv'
<1>1. t \in Tasks /\ pc[t] \notin {"idle", "done"}
  BY DEF UnderWay
<1>2. /\ LocalShapes' /\ OthersKept(t) /\ pc'[t] = "undo"
      /\ patch' = patch /\ closed' = closed /\ queue' = queue /\ answer' = answer
  BY <1>1, FailStep DEF TypeInv
<1> QED
  BY <1>1, <1>2, GoesOn

LEMMA AdvanceTypeInv ==
  ASSUME TypeInv, NEW t \in UnderWay, left[t] # <<>>, Advance(t), tree' \in Trees, faults' = faults
  PROVE  TypeInv'
<1>1. t \in Tasks /\ pc[t] \notin {"idle", "done"}
  BY DEF UnderWay
<1>2. /\ LocalShapes' /\ OthersKept(t) /\ pc'[t] = "apply"
      /\ patch' = patch /\ closed' = closed /\ queue' = queue /\ answer' = answer
  BY <1>1, AdvanceStep DEF TypeInv
<1>3. faults' \in 0 .. MaxFaults
  BY DEF TypeInv
<1> QED
  BY <1>1, <1>2, <1>3, GoesOn

LEMMA AddTypeInv ==
  ASSUME TypeInv, NEW t \in Tasks, Add(t)
  PROVE  TypeInv'
<1> DEFINE op == Head(left[t])
<1>1. /\ pc[t] = "apply" /\ left[t] # <<>> /\ t \in UnderWay
      /\ \/ Conflict(t)
         \/ /\ CanWrite(tree, op.path) /\ tree' = Written(tree, op.path, "new")
            /\ Advance(t) /\ faults' = faults
         \/ Fault(t, op.path)
  BY DEF Add, UnderWay
<1>2. op.path \in Paths
  BY <1>1, NextOperation DEF TypeInv
<1> HIDE DEF op
<1>3. CASE Conflict(t)
  BY <1>1, <1>3, FailTypeInv DEF TypeInv, Conflict
<1>4. CASE /\ CanWrite(tree, op.path) /\ tree' = Written(tree, op.path, "new")
           /\ Advance(t) /\ faults' = faults
  <2>1. tree' \in Trees
    BY <1>2, <1>4, WrittenTree DEF TypeInv, Contents
  <2> QED
    BY <1>1, <1>4, <2>1, AdvanceTypeInv
<1>5. CASE Fault(t, op.path)
  BY <1>1, <1>2, <1>5, FaultTree, FailTypeInv DEF TypeInv
<1> QED
  BY <1>1, <1>3, <1>4, <1>5

LEMMA DeleteTypeInv ==
  ASSUME TypeInv, NEW t \in Tasks, Delete(t)
  PROVE  TypeInv'
<1> DEFINE op == Head(left[t])
<1>1. /\ pc[t] = "apply" /\ left[t] # <<>> /\ t \in UnderWay
      /\ \/ Conflict(t)
         \/ tree' = Removed(tree, op.path) /\ Advance(t) /\ faults' = faults
         \/ faults < MaxFaults /\ faults' = faults + 1 /\ Fail(t) /\ tree' = tree
  BY DEF Delete, UnderWay
<1>2. op.path \in Paths
  BY <1>1, NextOperation DEF TypeInv
<1> HIDE DEF op
<1>3. CASE Conflict(t)
  BY <1>1, <1>3, FailTypeInv DEF TypeInv, Conflict
<1>4. CASE tree' = Removed(tree, op.path) /\ Advance(t) /\ faults' = faults
  <2>1. tree' \in Trees
    BY <1>2, <1>4, RemovedTree DEF TypeInv
  <2> QED
    BY <1>1, <1>4, <2>1, AdvanceTypeInv
<1>5. CASE faults < MaxFaults /\ faults' = faults + 1 /\ Fail(t) /\ tree' = tree
  <2>1. faults' \in 0 .. MaxFaults /\ tree' \in Trees
    BY <1>5, WorkspaceAssumption DEF TypeInv
  <2> QED
    BY <1>1, <1>5, <2>1, FailTypeInv
<1> QED
  BY <1>1, <1>3, <1>4, <1>5

LEMMA UpdateTypeInv ==
  ASSUME TypeInv, NEW t \in Tasks, Update(t)
  PROVE  TypeInv'
<1> DEFINE op == Head(left[t])
<1>1. /\ pc[t] = "apply" /\ left[t] # <<>> /\ t \in UnderWay
      /\ \/ Conflict(t)
         \/ /\ tree[op.path].content = "old" /\ tree' = Written(tree, op.path, "new")
            /\ IF op.to = Nowhere THEN Advance(t) ELSE Continue(t, "move")
            /\ faults' = faults
         \/ Fault(t, op.path)
  BY DEF Update, UnderWay
<1>2. op.path \in Paths /\ t \in Tasks
  BY <1>1, NextOperation DEF TypeInv
<1>3. CASE Conflict(t)
  BY <1>1, <1>3, FailTypeInv DEF TypeInv, Conflict
<1>4. CASE /\ tree[op.path].content = "old" /\ tree' = Written(tree, op.path, "new")
           /\ IF op.to = Nowhere THEN Advance(t) ELSE Continue(t, "move")
           /\ faults' = faults
  <2> HIDE DEF op
  <2>1. CanWrite(tree, op.path)
    <3>1. IsFile(tree, op.path)
      BY <1>2, <1>4, TreeNodes, NodeKinds DEF TypeInv, IsFile
    <3> QED
      BY <1>2, <3>1, FileCanBeWritten DEF TypeInv
  <2>2. tree' \in Trees /\ IsFile(Written(tree, op.path, "new"), op.path)
    BY <1>2, <1>4, <2>1, WrittenTree DEF TypeInv, Contents
  <2>3. CASE op.to = Nowhere
    BY <1>1, <1>4, <2>2, <2>3, AdvanceTypeInv
  <2>4. CASE op.to # Nowhere
    <3>1. Continue(t, "move")
      BY <1>4, <2>4
    <3>2. /\ LocalShapes' /\ OthersKept(t) /\ pc'[t] = "move" /\ left' = left
          /\ patch' = patch /\ closed' = closed /\ queue' = queue /\ answer' = answer
      BY <1>2, <3>1, ContinueStep DEF TypeInv
    <3>3. IsFile(tree', op.path)
      BY <1>4, <2>2
    <3>4. PhaseInv(t)'
      BY <1>1, <2>4, <3>2, <3>3 DEF TypeInv, PhaseInv, op
    <3>5. faults' \in 0 .. MaxFaults
      BY <1>4 DEF TypeInv
    <3> QED
      BY <1>1, <2>2, <3>2, <3>4, <3>5, GoesOn
  <2> QED
    BY <2>3, <2>4
<1> HIDE DEF op
<1>5. CASE Fault(t, op.path)
  BY <1>1, <1>2, <1>5, FaultTree, FailTypeInv DEF TypeInv
<1> QED
  BY <1>1, <1>3, <1>4, <1>5

LEMMA MoveTypeInv ==
  ASSUME TypeInv, NEW t \in Tasks, Move(t)
  PROVE  TypeInv'
<1> DEFINE op == Head(left[t])
<1>1. /\ pc[t] = "move" /\ t \in UnderWay
      /\ \/ Conflict(t)
         \/ /\ ~Exists(tree, op.to) /\ CanMakeParents(tree, op.to)
            /\ tree' = Moved(tree, op.path, op.to) /\ Advance(t) /\ faults' = faults
         \/ Fault(t, op.to)
  BY DEF Move, UnderWay
<1>2. left[t] # <<>> /\ op.to # Nowhere /\ IsFile(tree, op.path)
  BY <1>1 DEF TypeInv, PhaseInv
<1>3. op.path \in Paths /\ op.to \in Paths
  BY <1>2, NextOperation DEF TypeInv
<1> HIDE DEF op
<1>4. CASE Conflict(t)
  BY <1>1, <1>4, FailTypeInv DEF TypeInv, Conflict
<1>5. CASE /\ ~Exists(tree, op.to) /\ CanMakeParents(tree, op.to)
           /\ tree' = Moved(tree, op.path, op.to) /\ Advance(t) /\ faults' = faults
  <2>1. tree' \in Trees
    BY <1>2, <1>3, <1>5, MovedTree DEF TypeInv
  <2> QED
    BY <1>1, <1>2, <1>5, <2>1, AdvanceTypeInv
<1>6. CASE Fault(t, op.to)
  BY <1>1, <1>3, <1>6, FaultTree, FailTypeInv DEF TypeInv
<1> QED
  BY <1>1, <1>4, <1>5, <1>6

LEMMA RestoreTypeInv ==
  ASSUME TypeInv, NEW t \in Tasks, Restore(t)
  PROVE  TypeInv'
<1> DEFINE p == Restoring(t)
<1>1. /\ pc[t] = "undo" /\ undo[t] # {} /\ t \in UnderWay /\ faults' = faults
      /\ \/ /\ IsFile(before[t], p) /\ CanWrite(tree, p)
            /\ tree' = Written(tree, p, before[t][p].content) /\ Continue(t, "chmod")
         \/ Finish(t, "failed") /\ tree' = tree
         \/ tree' = Removed(tree, p) /\ Restored(t)
  BY DEF Restore, UnderWay
<1>2. p \in Paths /\ before[t] \in Trees /\ faults' \in 0 .. MaxFaults /\ pc[t] \notin {"idle", "done"}
  BY <1>1, NextRestored DEF TypeInv, LocalShapes
<1>3. CASE /\ IsFile(before[t], p) /\ CanWrite(tree, p)
           /\ tree' = Written(tree, p, before[t][p].content) /\ Continue(t, "chmod")
  <2>1. /\ LocalShapes' /\ OthersKept(t) /\ pc'[t] = "chmod" /\ undo' = undo /\ before' = before
        /\ patch' = patch /\ closed' = closed /\ queue' = queue /\ answer' = answer
    BY <1>3, ContinueStep DEF TypeInv
  <2>2. Restoring(t)' = p
    BY <2>1 DEF Restoring
  <2> HIDE DEF p
  <2>3. before[t][p].content \in Contents
    BY <1>2, <1>3, TreeNodes
  <2>4. tree' \in Trees /\ IsFile(tree', p)
    BY <1>2, <1>3, <2>3, WrittenTree DEF TypeInv
  <2>5. IsFile(tree', Restoring(t)') /\ IsFile(before[t]', Restoring(t)')
    BY <1>3, <2>1, <2>2, <2>4
  <2>6. PhaseInv(t)'
    BY <1>1, <2>1, <2>5 DEF TypeInv, PhaseInv
  <2> QED
    BY <1>1, <1>2, <2>1, <2>4, <2>6, GoesOn
<1>4. CASE Finish(t, "failed") /\ tree' = tree
  BY <1>1, <1>2, <1>4, Ends
<1>5. CASE tree' = Removed(tree, p) /\ Restored(t)
  <2> HIDE DEF p
  <2>1. tree' \in Trees
    BY <1>2, <1>5, RemovedTree DEF TypeInv
  <2>2. /\ LocalShapes' /\ OthersKept(t) /\ pc'[t] = "undo"
        /\ patch' = patch /\ closed' = closed /\ queue' = queue /\ answer' = answer
    BY <1>5, RestoredStep DEF TypeInv
  <2> QED
    BY <1>1, <1>2, <2>1, <2>2, GoesOn
<1> QED
  BY <1>1, <1>3, <1>4, <1>5

LEMMA RestoreModeTypeInv ==
  ASSUME TypeInv, NEW t \in Tasks, RestoreMode(t)
  PROVE  TypeInv'
<1> DEFINE p == Restoring(t)
           m == before[t][p].mode
<1>1. /\ pc[t] = "chmod" /\ pc[t] \notin {"idle", "done"} /\ t \in UnderWay
      /\ tree' = [tree EXCEPT ![p].mode = m] /\ Restored(t) /\ faults' = faults
  BY DEF RestoreMode, Chmod, UnderWay
<1>2. undo[t] # {} /\ IsFile(tree, p) /\ IsFile(before[t], p)
  BY <1>1 DEF TypeInv, PhaseInv
<1>3. p \in Paths /\ before[t] \in Trees /\ faults' \in 0 .. MaxFaults
  BY <1>1, <1>2, NextRestored DEF TypeInv, LocalShapes
<1> HIDE DEF p
<1>4. m \in Modes
  BY <1>2, <1>3, TreeNodes
<1> HIDE DEF m
<1>5. tree' \in Trees
  <2>1. ModeSet(tree', tree, p, m)
    BY <1>1 DEF ModeSet
  <2> QED
    BY <1>2, <1>3, <1>4, <2>1, ChmodTree DEF TypeInv
<1>6. /\ LocalShapes' /\ OthersKept(t) /\ pc'[t] = "undo"
      /\ patch' = patch /\ closed' = closed /\ queue' = queue /\ answer' = answer
  BY <1>1, RestoredStep DEF TypeInv
<1> QED
  BY <1>1, <1>3, <1>5, <1>6, GoesOn

LEMMA RemoveParentTypeInv ==
  ASSUME TypeInv, NEW t \in Tasks, NEW q \in Paths, RemoveParent(t, q)
  PROVE  TypeInv'
<1>1. /\ pc[t] = "undo" /\ pc[t] \notin {"idle", "done"} /\ t \in UnderWay /\ faults' = faults
      /\ \/ /\ tree' = Removed(tree, q) /\ parents' = [parents EXCEPT ![t] = @ \ {q}]
            /\ UNCHANGED <<closed, queue, pc, patch, left, before, undo, answer>>
         \/ Finish(t, "failed") /\ tree' = tree
  BY DEF RemoveParent, UnderWay
<1>2. CASE /\ tree' = Removed(tree, q) /\ parents' = [parents EXCEPT ![t] = @ \ {q}]
           /\ UNCHANGED <<closed, queue, pc, patch, left, before, undo, answer>>
  <2>1. tree' \in Trees
    BY <1>2, RemovedTree DEF TypeInv
  <2>2. faults' \in 0 .. MaxFaults
    BY <1>1 DEF TypeInv
  <2>3. LocalShapes' /\ OthersKept(t) /\ pc'[t] = "undo"
    BY <1>1, <1>2 DEF TypeInv, LocalShapes, OthersKept
  <2> QED
    BY <1>1, <1>2, <2>1, <2>2, <2>3, GoesOn
<1>3. CASE Finish(t, "failed") /\ tree' = tree
  BY <1>1, <1>3, Ends
<1> QED
  BY <1>1, <1>2, <1>3

LEMMA NextTypeInv == TypeInv /\ [Next]_vars => TypeInv'
<1> SUFFICES ASSUME TypeInv, [Next]_vars PROVE TypeInv'
  OBVIOUS
<1>1. CASE UNCHANGED vars
  BY <1>1 DEF vars, localVars, TypeInv, LocalShapes, QueueInv, UnderWay, PhaseInv, Restoring
<1>2. CASE Close
  <2>1. UNCHANGED <<tree, queue, faults, pc, patch, left, before, undo, parents, answer>>
    BY <1>2 DEF Close, localVars
  <2>2. LocalShapes' /\ QueueInv'
    BY <2>1 DEF TypeInv, LocalShapes, QueueInv, UnderWay
  <2>3. \A t \in Tasks : PhaseInv(t)'
    BY <2>1 DEF TypeInv, PhaseInv, Restoring
  <2>4. closed' \in BOOLEAN
    BY <1>2 DEF Close
  <2> QED
    BY <2>1, <2>2, <2>3, <2>4 DEF TypeInv
<1>3. ASSUME NEW t \in Tasks, Apply(t) PROVE TypeInv'
  <2>1. ASSUME Return(t) \/ Rethrow(t) PROVE TypeInv'
    <3>1. /\ pc[t] \notin {"idle", "done"} /\ t \in UnderWay /\ tree' = tree /\ faults' = faults
          /\ Finish(t, "done") \/ Finish(t, "failed")
      BY <2>1 DEF Return, Rethrow, UnderWay
    <3> QED
      BY <3>1, Ends
  <2> QED
    BY <1>3, <2>1, EnterTypeInv, AddTypeInv, DeleteTypeInv, UpdateTypeInv, MoveTypeInv,
       RestoreTypeInv, RestoreModeTypeInv, RemoveParentTypeInv DEF Apply
<1>4. ASSUME NEW t \in Tasks, NEW n \in 1 .. Size[t], NEW source \in Patches(n), Call(t, source)
      PROVE  TypeInv'
  BY <1>4, CallTypeInv
<1> QED
  BY <1>1, <1>2, <1>3, <1>4 DEF Next

LEMMA SpecTypeInv == Spec => []TypeInv
BY InitTypeInv, NextTypeInv, PTL DEF Spec

\* The workspace, the queue and what every call of apply_patch keeps of its patch
\* (workspace.ts, apply-patch.ts) have their types: in particular what is in the workspace
\* is always in a directory.
THEOREM WorkspaceTypes == Spec => []TypeOK
<1>1. TypeInv => TypeOK
  BY DEF TypeInv, LocalShapes, QueueInv, Phases, Answers, TypeOK
<1> QED
  BY <1>1, SpecTypeInv, PTL

\* Patches are applied one at a time, in the order of the calls: the one under way is the
\* first that has not been released, and nobody waits twice (mutate, workspace.ts).
OneUnderWay ==
  /\ \A t \in UnderWay : queue # <<>> /\ Head(queue) = t
  /\ \A i, j \in 1 .. Len(queue) : queue[i] = queue[j] => i = j

THEOREM PatchesTakeTurns == Spec => []OneUnderWay
<1>1. TypeInv => OneUnderWay
  BY DEF TypeInv, QueueInv, OneUnderWay
<1> QED
  BY <1>1, SpecTypeInv, PTL
-----------------------------------------------------------------------------
(* What can be undone                                                      *)

\* Only the paths a patch names, and the directories that were missing above them, are
\* not as they were before the patch; and none of the former is a directory.
Undoable(tr, bf, named, made) ==
  /\ \A p \in named : tr[p] # Dir /\ bf[p] # Dir
  /\ \A q \in made : q \in Paths /\ q \notin named /\ bf[q] = Absent /\ tr[q] \in {Absent, Dir}
  /\ \A q \in Paths : q \notin named /\ q \notin made => tr[q] = bf[q]

\* Every directory that was missing above these paths is among those made.
Covers(made, bf, named) == \A p \in named : \A q \in Above[p] : bf[q] = Absent => q \in made

\* No path of the set is below another.
Flat(named) == \A p, q \in named : p \notin Above[q]

\* The operations that are left, and what the ones before them have made.
AtStage(tr, bf, source, rest) ==
  /\ Len(rest) <= Len(source)
  /\ \A i \in 1 .. Len(rest) : rest[i] = source[Len(source) - Len(rest) + i]
  /\ Stages(bf, source)[Len(source) - Len(rest)] = [ok |-> TRUE, tree |-> tr]

\* While a patch is under way, it can be undone.
UndoInv(t) ==
  LET named == NamedBy(patch[t])
  IN  /\ Undoable(tree, before[t], named, parents[t])
      /\ pc[t] # "undo" \/ undo[t] # {} => Covers(parents[t], before[t], named)
      /\ pc[t] \in {"undo", "chmod"} =>
           \A j \in Snapshots(patch[t]) \ undo[t] :
             tree[PathAt(patch[t], j)] = before[t][PathAt(patch[t], j)]
      /\ pc[t] = "chmod" => tree[Restoring(t)].content = before[t][Restoring(t)].content

\* While it is being applied, the workspace is at one of its stages.
StageInv(t) ==
  /\ pc[t] = "apply" => AtStage(tree, before[t], patch[t], left[t])
  /\ pc[t] = "move" => LET op == Head(left[t]) IN
       \E tr \in Trees :
         /\ AtStage(tr, before[t], patch[t], left[t])
         /\ op.type = "update" /\ IsFile(tr, op.path) /\ tr[op.path].content = "old"
         /\ tree = Written(tr, op.path, "new")

PatchInv == \A t \in UnderWay : UndoInv(t) /\ StageInv(t)

\* Each patch under way names no path below another.
PatchesAreFlat == \A t \in UnderWay : Flat(NamedBy(patch[t]))

-----------------------------------------------------------------------------
\* A step that makes the directories above a path the patch names can be undone.
LEMMA UndoableMade ==
  ASSUME NEW tr \in Trees, NEW bf \in Trees, NEW named \in SUBSET Paths, NEW made,
         Undoable(tr, bf, named, made), Covers(made, bf, named), Flat(named),
         NEW p \in named, CanMakeParents(tr, p), NEW next \in Trees,
         \A q \in Above[p] : next[q] = Dir,
         \A q \in named : next[q] # Dir,
         \A q \in Paths : q \notin named /\ q \notin Above[p] => next[q] = tr[q]
  PROVE  Undoable(next, bf, named, made)
<1>1. ASSUME NEW q \in Above[p]
      PROVE  q \in Paths /\ q \notin named /\ (tr[q] = Dir \/ q \in made)
  <2>1. q \in Paths /\ q \notin named
    BY AboveClosed DEF Flat
  <2>2. tr[q] \in {Absent, Dir}
    BY WithParentsTree
  <2>3. tr[q] = Absent => q \in made
    BY <2>1 DEF Undoable, Covers
  <2> QED
    BY <2>1, <2>2, <2>3
<1>2. ASSUME NEW q \in made
      PROVE  q \in Paths /\ q \notin named /\ bf[q] = Absent /\ next[q] \in {Absent, Dir}
  BY DEF Undoable
<1>3. ASSUME NEW q \in Paths, q \notin named, q \notin made PROVE next[q] = bf[q]
  <2>1. tr[q] = bf[q]
    BY <1>3 DEF Undoable
  <2> QED
    BY <1>1, <1>3, <2>1
<1>4. \A q \in named : next[q] # Dir /\ bf[q] # Dir
  BY DEF Undoable
<1> QED
  BY <1>2, <1>3, <1>4 DEF Undoable

\* A step that changes only a path the patch names can be undone.
LEMMA UndoableOne ==
  ASSUME NEW tr, NEW bf, NEW named \in SUBSET Paths, NEW made, Undoable(tr, bf, named, made),
         NEW p \in named, NEW next, next[p] # Dir, \A q \in Paths : q # p => next[q] = tr[q]
  PROVE  Undoable(next, bf, named, made)
BY DEF Undoable

\* Removing what is no directory, or an empty one, changes nothing else.
LEMMA RemovedOne ==
  ASSUME NEW tr \in Trees, NEW p \in Paths, tr[p] # Dir \/ Empty(tr, p)
  PROVE  Removed(tr, p)[p] = Absent /\ \A q \in Paths : q # p => Removed(tr, p)[q] = tr[q]
<1>1. \A q \in Paths : p \in Above[q] => tr[q] = Absent
  BY NothingBelow DEF Empty, Exists
<1> QED
  BY <1>1, RemovedTree

\* The steps of a patch, and those of its rollback, can be undone.
LEMMA UndoableSteps ==
  ASSUME NEW tr \in Trees, NEW bf \in Trees, NEW named \in SUBSET Paths, NEW made,
         Undoable(tr, bf, named, made), Flat(named), NEW p \in named
  PROVE  /\ Undoable(Removed(tr, p), bf, named, made)
         /\ Covers(made, bf, named) /\ CanMakeParents(tr, p) =>
              /\ Undoable(WithParents(tr, p), bf, named, made)
              /\ \A c \in Contents : Undoable(Written(tr, p, c), bf, named, made)
              /\ \A from \in named : IsFile(tr, from) /\ ~Exists(tr, p) =>
                   Undoable(Moved(tr, from, p), bf, named, made)
<1>1. p \in Paths /\ \A q \in named : q \in Paths /\ q \notin Above[p] /\ tr[q] # Dir
  BY DEF Undoable, Flat
<1>2. Undoable(Removed(tr, p), bf, named, made)
  <2>1. Removed(tr, p)[p] = Absent /\ \A q \in Paths : q # p => Removed(tr, p)[q] = tr[q]
    BY <1>1, RemovedOne
  <2>2. Absent # Dir
    BY NodeKinds
  <2> QED
    BY <2>1, <2>2, UndoableOne
<1>3. ASSUME Covers(made, bf, named), CanMakeParents(tr, p)
      PROVE  Undoable(WithParents(tr, p), bf, named, made)
  <2> DEFINE next == WithParents(tr, p)
  <2>1. next \in Trees /\ \A q \in Paths : next[q] = IF q \in Above[p] THEN Dir ELSE tr[q]
    BY <1>1, <1>3, WithParentsTree
  <2>2. \A q \in Above[p] : q \in Paths
    BY <1>1, AboveClosed
  <2> HIDE DEF next
  <2>3. Undoable(next, bf, named, made)
    BY <1>1, <1>3, <2>1, <2>2, UndoableMade
  <2> QED
    BY <2>3 DEF next
<1>4. ASSUME Covers(made, bf, named), CanMakeParents(tr, p), NEW c \in Contents
      PROVE  Undoable(Written(tr, p, c), bf, named, made)
  <2> DEFINE next == Written(tr, p, c)
  <2>1. /\ next \in Trees /\ IsFile(next, p)
        /\ \A q \in Paths \ {p} : next[q] = IF q \in Above[p] THEN Dir ELSE tr[q]
    BY <1>1, <1>4, WrittenTree DEF CanWrite
  <2>2. \A q \in Above[p] : q \in Paths /\ q # p
    BY <1>1, AboveClosed
  <2> HIDE DEF next
  <2>3. next[p] # Dir
    BY <1>1, <2>1, TreeNodes
  <2>4. Undoable(next, bf, named, made)
    BY <1>1, <1>4, <2>1, <2>2, <2>3, UndoableMade
  <2> QED
    BY <2>4 DEF next
<1>5. ASSUME Covers(made, bf, named), CanMakeParents(tr, p), NEW from \in named, IsFile(tr, from),
             ~Exists(tr, p)
      PROVE  Undoable(Moved(tr, from, p), bf, named, made)
  <2> DEFINE next == Moved(tr, from, p)
  <2>1. /\ next \in Trees /\ from # p /\ from \notin Above[p]
        /\ next[from] = Absent /\ next[p] = tr[from]
        /\ \A q \in Paths \ {from, p} : next[q] = IF q \in Above[p] THEN Dir ELSE tr[q]
    BY <1>1, <1>5, MovedTree
  <2>2. \A q \in Above[p] : q \in Paths /\ q # p
    BY <1>1, AboveClosed
  <2>3. Absent # Dir /\ tr[from] # Dir
    BY <1>1, NodeKinds
  <2> HIDE DEF next
  <2>4. \A q \in named : next[q] # Dir
    BY <1>1, <2>1, <2>3
  <2>5. Undoable(next, bf, named, made)
    BY <1>1, <1>5, <2>1, <2>2, <2>4, UndoableMade
  <2> QED
    BY <2>5 DEF next
<1> QED
  BY <1>2, <1>3, <1>4, <1>5

\* What was a file can be written again.
LEMMA CanBeRestored ==
  ASSUME NEW tr \in Trees, NEW bf \in Trees, NEW named \in SUBSET Paths, NEW made,
         Undoable(tr, bf, named, made), Flat(named), NEW p \in named, IsFile(bf, p)
  PROVE  CanWrite(tr, p)
<1>1. p \in Paths /\ bf[p] # Absent /\ tr[p] # Dir
  BY TreeNodes DEF Undoable
<1>2. ASSUME NEW q \in Above[p] PROVE ~IsFile(tr, q)
  <2>1. q \in Paths /\ q \notin named /\ bf[q] = Dir
    BY <1>1, AboveClosed, TreeNodes DEF Flat
  <2>2. tr[q] = Dir
    BY <2>1, NodeKinds DEF Undoable
  <2> QED
    BY <2>1, <2>2, TreeNodes
<1> QED
  BY <1>1, <1>2 DEF CanWrite, CanMakeParents

\* Once every path is restored, a directory the patch has made is empty when no other one
\* is below it.
LEMMA MadeIsEmpty ==
  ASSUME NEW tr \in Trees, NEW bf \in Trees, NEW named \in SUBSET Paths, NEW made,
         Undoable(tr, bf, named, made), \A p \in named : tr[p] = bf[p],
         NEW q \in made, \A r \in made : q \notin Above[r]
  PROVE  /\ Empty(tr, q)
         /\ Undoable(Removed(tr, q), bf, named, made \ {q})
         /\ \A p \in named : Removed(tr, q)[p] = tr[p]
<1>1. q \in Paths /\ q \notin named /\ bf[q] = Absent /\ Absent # Dir
  BY NodeKinds DEF Undoable
<1>2. ASSUME NEW r \in Paths, q \in Above[r] PROVE tr[r] = Absent
  <2>1. bf[r] = Absent
    BY <1>1, <1>2, TreeNodes
  <2>2. r \notin made
    BY <1>2
  <2>3. tr[r] = bf[r]
    BY <2>2 DEF Undoable
  <2> QED
    BY <2>1, <2>3
<1>3. Empty(tr, q)
  BY <1>2 DEF Empty, Exists
<1>4. Removed(tr, q)[q] = Absent /\ \A r \in Paths : r # q => Removed(tr, q)[r] = tr[r]
  BY <1>1, <1>3, RemovedOne
<1> DEFINE next == Removed(tr, q)
<1> HIDE DEF next
<1>5. next[q] = Absent /\ \A r \in Paths : r # q => next[r] = tr[r]
  BY <1>4 DEF next
<1>6. \A p \in named : next[p] = tr[p] /\ next[p] # Dir /\ bf[p] # Dir
  BY <1>1, <1>5 DEF Undoable
<1>7. Undoable(next, bf, named, made \ {q})
  BY <1>1, <1>5, <1>6 DEF Undoable
<1> QED
  BY <1>3, <1>6, <1>7 DEF next

\* When all is undone, the workspace is as it was.
LEMMA AllUndone ==
  ASSUME NEW tr \in Trees, NEW bf \in Trees, NEW named \in SUBSET Paths,
         Undoable(tr, bf, named, {}), \A p \in named : tr[p] = bf[p]
  PROVE  tr = bf
<1>1. \A p \in Paths : tr[p] = bf[p]
  BY DEF Undoable
<1>2. tr \in [Paths -> Nodes] /\ bf \in [Paths -> Nodes]
  BY DEF Trees
<1> QED
  BY <1>1, <1>2

\* The next stage.
LEMMA NextStage ==
  ASSUME NEW bf, NEW source \in Seq(Operations), NEW rest \in Seq(Operations), rest # <<>>,
         NEW tr, AtStage(tr, bf, source, rest)
  PROVE  /\ \E k \in 1 .. Len(source) : Head(rest) = source[k]
         /\ Applies(tr, Head(rest)) => AtStage(Applied(tr, Head(rest)), bf, source, Tail(rest))
<1>1. \A j \in 1 .. Len(source) :
         Stages(bf, source)[j] = Further(Stages(bf, source)[j - 1], source[j])
  <2>1. StagesFollow(bf, source)
    BY StageFacts
  <2> QED
    BY <2>1 DEF StagesFollow
<1> DEFINE k == Len(source) - Len(rest)
           after == Tail(rest)
           op == Head(rest)
<1>2. /\ Len(rest) \in Nat /\ Len(rest) >= 1 /\ Len(source) \in Nat /\ Len(rest) <= Len(source)
      /\ op = rest[1] /\ Len(after) = Len(rest) - 1 /\ after \in Seq(Operations)
      /\ \A i \in 1 .. Len(after) : after[i] = rest[i + 1]
  BY DEF AtStage
<1>3. /\ \A i \in 1 .. Len(rest) : rest[i] = source[k + i]
      /\ Stages(bf, source)[k] = [ok |-> TRUE, tree |-> tr]
  BY DEF AtStage
<1> HIDE DEF op, after
<1>4. k + 1 \in 1 .. Len(source) /\ (k + 1) - 1 = k /\ Len(source) - Len(after) = k + 1
  BY <1>2
<1>5. op = source[k + 1]
  BY <1>2, <1>3
<1>6. ASSUME Applies(tr, op) PROVE AtStage(Applied(tr, op), bf, source, after)
  <2>1. ASSUME NEW done, done = Stages(bf, source)[k]
        PROVE  Further(done, op) = [ok |-> TRUE, tree |-> Applied(tr, op)]
    <3>1. done.ok = TRUE /\ done.tree = tr
      BY <1>3, <2>1
    <3> QED
      BY <1>6, <3>1 DEF Further
  <2>2. ASSUME NEW i \in 1 .. Len(after) PROVE after[i] = source[(k + 1) + i]
    <3>1. i + 1 \in 1 .. Len(rest) /\ k + (i + 1) = (k + 1) + i
      BY <1>2
    <3> QED
      BY <1>2, <1>3, <3>1
  <2>3. Len(after) <= Len(source)
    BY <1>2
  <2>4. Stages(bf, source)[k + 1] = [ok |-> TRUE, tree |-> Applied(tr, op)]
    BY <1>1, <1>4, <1>5, <2>1
  <2> DEFINE j == k + 1
             new == Applied(tr, op)
  <2>5. Len(source) - Len(after) = j /\ Stages(bf, source)[j] = [ok |-> TRUE, tree |-> new]
    BY <1>4, <2>4
  <2>6. \A i \in 1 .. Len(after) : after[i] = source[j + i]
    BY <2>2
  <2> HIDE DEF k, j, new
  <2>7. AtStage(new, bf, source, after)
    BY <2>3, <2>5, <2>6 DEF AtStage
  <2> QED
    BY <2>7 DEF new
<1> QED
  BY <1>4, <1>5, <1>6 DEF op, after
-----------------------------------------------------------------------------
(* The steps of a patch                                                    *)

\* What is known of a patch under way.
LEMMA PatchFacts ==
  ASSUME TypeInv, PatchInv, PatchesAreFlat, NEW t \in UnderWay
  PROVE  /\ t \in Tasks /\ pc[t] \notin {"idle", "done"}
         /\ tree \in Trees /\ before[t] \in Trees
         /\ patch[t] \in Seq(Operations) /\ left[t] \in Seq(Operations)
         /\ NamedBy(patch[t]) \in SUBSET Paths /\ Flat(NamedBy(patch[t]))
         /\ Undoable(tree, before[t], NamedBy(patch[t]), parents[t])
         /\ pc[t] # "undo" \/ undo[t] # {} => Covers(parents[t], before[t], NamedBy(patch[t]))
<1>1. t \in Tasks /\ pc[t] \notin {"idle", "done"}
  BY DEF UnderWay
<1>2. /\ tree \in Trees /\ before[t] \in Trees
      /\ patch[t] \in Seq(Operations) /\ left[t] \in Seq(Operations)
  BY <1>1 DEF TypeInv, LocalShapes
<1>3. NamedBy(patch[t]) \in SUBSET Paths
  BY <1>2, SnapshotFacts, TreeAssumption
<1>4. /\ Flat(NamedBy(patch[t]))
      /\ Undoable(tree, before[t], NamedBy(patch[t]), parents[t])
      /\ pc[t] # "undo" \/ undo[t] # {} => Covers(parents[t], before[t], NamedBy(patch[t]))
  BY DEF PatchInv, UndoInv, PatchesAreFlat
<1> QED
  BY <1>1, <1>2, <1>3, <1>4

\* The paths of the next operation have snapshots.
LEMMA NextIsNamed ==
  ASSUME TypeInv, NEW t \in Tasks, left[t] # <<>>, NEW tr, AtStage(tr, before[t], patch[t], left[t])
  PROVE  /\ Head(left[t]) \in Operations
         /\ Head(left[t]).path \in NamedBy(patch[t])
         /\ Head(left[t]).to # Nowhere => Head(left[t]).to \in NamedBy(patch[t])
<1>1. patch[t] \in Seq(Operations) /\ left[t] \in Seq(Operations)
  BY DEF TypeInv, LocalShapes
<1>2. PICK k \in 1 .. Len(patch[t]) : Head(left[t]) = patch[t][k]
  BY <1>1, NextStage
<1> QED
  BY <1>1, <1>2, SnapshotFacts

\* A patch that fails can be undone.
LEMMA FailPatch ==
  ASSUME TypeInv, NEW t \in Tasks, Fail(t), Covers(parents[t], before[t], NamedBy(patch[t])),
         Undoable(tree', before[t], NamedBy(patch[t]), parents[t])
  PROVE  UndoInv(t)' /\ StageInv(t)'
<1>1. /\ pc'[t] = "undo" /\ undo'[t] = Snapshots(patch[t])
      /\ patch' = patch /\ before' = before /\ parents' = parents
  BY FailStep DEF TypeInv
<1> QED
  BY <1>1 DEF UndoInv, StageInv

\* An operation that succeeds brings the patch to its next stage.
LEMMA AdvancePatch ==
  ASSUME TypeInv, NEW t \in Tasks, Advance(t), left[t] # <<>>,
         Covers(parents[t], before[t], NamedBy(patch[t])),
         Undoable(tree', before[t], NamedBy(patch[t]), parents[t]),
         AtStage(tree', before[t], patch[t], Tail(left[t]))
  PROVE  UndoInv(t)' /\ StageInv(t)'
<1>1. /\ pc'[t] = "apply" /\ left'[t] = Tail(left[t])
      /\ patch' = patch /\ before' = before /\ parents' = parents
  BY AdvanceStep DEF TypeInv
<1> QED
  BY <1>1 DEF UndoInv, StageInv

LEMMA ConflictPatch ==
  ASSUME TypeInv, PatchInv, PatchesAreFlat, NEW t \in UnderWay, pc[t] # "undo",
         Fail(t), tree' = tree
  PROVE  UndoInv(t)' /\ StageInv(t)'
BY PatchFacts, FailPatch

LEMMA FaultPatch ==
  ASSUME TypeInv, PatchInv, PatchesAreFlat, NEW t \in UnderWay, pc[t] # "undo",
         NEW p \in NamedBy(patch[t]), Fault(t, p)
  PROVE  UndoInv(t)' /\ StageInv(t)'
<1> DEFINE named == NamedBy(patch[t])
           made == parents[t]
           bf == before[t]
<1>1. /\ t \in Tasks /\ tree \in Trees /\ bf \in Trees /\ named \in SUBSET Paths /\ Flat(named)
      /\ Undoable(tree, bf, named, made) /\ Covers(made, bf, named)
  BY PatchFacts
<1>2. /\ Fail(t)
      /\ tree' = tree \/ (CanMakeParents(tree, p) /\ tree' = WithParents(tree, p))
  BY <1>1, FaultTree DEF TypeInv
<1>3. p \in named
  OBVIOUS
<1> HIDE DEF named, made, bf
<1>4. CanMakeParents(tree, p) => Undoable(WithParents(tree, p), bf, named, made)
  BY <1>1, <1>3, UndoableSteps
<1>5. Undoable(tree', bf, named, made)
  BY <1>1, <1>2, <1>4
<1> QED
  BY <1>1, <1>2, <1>5, FailPatch DEF named, made, bf

LEMMA AddPatch ==
  ASSUME TypeInv, PatchInv, PatchesAreFlat, NEW t \in Tasks, Add(t)
  PROVE  UndoInv(t)' /\ StageInv(t)'
<1> DEFINE op == Head(left[t])
           named == NamedBy(patch[t])
           made == parents[t]
           bf == before[t]
<1>1. /\ pc[t] = "apply" /\ left[t] # <<>> /\ t \in UnderWay /\ op.type = "add"
      /\ \/ Conflict(t)
         \/ /\ ~Exists(tree, op.path) /\ CanWrite(tree, op.path)
            /\ tree' = Written(tree, op.path, "new") /\ Advance(t)
         \/ Fault(t, op.path)
  BY DEF Add, UnderWay
<1>2. AtStage(tree, bf, patch[t], left[t])
  BY <1>1 DEF PatchInv, StageInv
<1>3. op \in Operations /\ op.path \in named
  BY <1>1, <1>2, NextIsNamed
<1>4. /\ tree \in Trees /\ bf \in Trees /\ named \in SUBSET Paths /\ Flat(named)
      /\ patch[t] \in Seq(Operations) /\ left[t] \in Seq(Operations)
      /\ Undoable(tree, bf, named, made) /\ Covers(made, bf, named)
  BY <1>1, PatchFacts
<1>5. CASE Conflict(t)
  BY <1>1, <1>5, ConflictPatch DEF Conflict
<1>6. CASE /\ ~Exists(tree, op.path) /\ CanWrite(tree, op.path)
           /\ tree' = Written(tree, op.path, "new") /\ Advance(t)
  <2>1. Applies(tree, op) /\ Applied(tree, op) = Written(tree, op.path, "new")
    BY <1>1, <1>6 DEF Applies, Applied
  <2>2. AtStage(tree', bf, patch[t], Tail(left[t]))
    BY <1>1, <1>2, <1>4, <1>6, <2>1, NextStage
  <2> HIDE DEF op, named, made, bf
  <2>3. Undoable(tree', bf, named, made)
    BY <1>3, <1>4, <1>6, UndoableSteps DEF CanWrite, Contents
  <2> QED
    BY <1>1, <1>4, <1>6, <2>2, <2>3, AdvancePatch DEF named, made, bf
<1>7. CASE Fault(t, op.path)
  BY <1>1, <1>3, <1>7, FaultPatch
<1> QED
  BY <1>1, <1>5, <1>6, <1>7

LEMMA DeletePatch ==
  ASSUME TypeInv, PatchInv, PatchesAreFlat, NEW t \in Tasks, Delete(t)
  PROVE  UndoInv(t)' /\ StageInv(t)'
<1> DEFINE op == Head(left[t])
           named == NamedBy(patch[t])
           made == parents[t]
           bf == before[t]
<1>1. /\ pc[t] = "apply" /\ left[t] # <<>> /\ t \in UnderWay /\ op.type = "delete"
      /\ \/ Conflict(t)
         \/ /\ Exists(tree, op.path) /\ Empty(tree, op.path)
            /\ tree' = Removed(tree, op.path) /\ Advance(t)
         \/ Fail(t) /\ tree' = tree
  BY DEF Delete, UnderWay
<1>2. AtStage(tree, bf, patch[t], left[t])
  BY <1>1 DEF PatchInv, StageInv
<1>3. op \in Operations /\ op.path \in named
  BY <1>1, <1>2, NextIsNamed
<1>4. /\ tree \in Trees /\ bf \in Trees /\ named \in SUBSET Paths /\ Flat(named)
      /\ patch[t] \in Seq(Operations) /\ left[t] \in Seq(Operations)
      /\ Undoable(tree, bf, named, made) /\ Covers(made, bf, named)
  BY <1>1, PatchFacts
<1>5. CASE Conflict(t) \/ (Fail(t) /\ tree' = tree)
  BY <1>1, <1>5, ConflictPatch DEF Conflict
<1>6. CASE /\ Exists(tree, op.path) /\ Empty(tree, op.path)
           /\ tree' = Removed(tree, op.path) /\ Advance(t)
  <2>1. Applies(tree, op) /\ Applied(tree, op) = Removed(tree, op.path)
    BY <1>1, <1>6 DEF Applies, Applied
  <2>2. AtStage(tree', bf, patch[t], Tail(left[t]))
    BY <1>1, <1>2, <1>4, <1>6, <2>1, NextStage
  <2> HIDE DEF op, named, made, bf
  <2>3. Undoable(tree', bf, named, made)
    BY <1>3, <1>4, <1>6, UndoableSteps
  <2> QED
    BY <1>1, <1>4, <1>6, <2>2, <2>3, AdvancePatch DEF named, made, bf
<1> QED
  BY <1>1, <1>5, <1>6

LEMMA UpdatePatch ==
  ASSUME TypeInv, PatchInv, PatchesAreFlat, NEW t \in Tasks, Update(t)
  PROVE  UndoInv(t)' /\ StageInv(t)'
<1> DEFINE op == Head(left[t])
           named == NamedBy(patch[t])
           made == parents[t]
           bf == before[t]
<1>1. /\ pc[t] = "apply" /\ left[t] # <<>> /\ t \in UnderWay /\ op.type = "update"
      /\ \/ Conflict(t)
         \/ /\ tree[op.path].content = "old" /\ tree' = Written(tree, op.path, "new")
            /\ IF op.to = Nowhere THEN Advance(t) ELSE Continue(t, "move")
         \/ Fault(t, op.path)
  BY DEF Update, UnderWay
<1>2. AtStage(tree, bf, patch[t], left[t])
  BY <1>1 DEF PatchInv, StageInv
<1>3. op \in Operations /\ op.path \in named
  BY <1>1, <1>2, NextIsNamed
<1>4. /\ tree \in Trees /\ bf \in Trees /\ named \in SUBSET Paths /\ Flat(named)
      /\ patch[t] \in Seq(Operations) /\ left[t] \in Seq(Operations)
      /\ Undoable(tree, bf, named, made) /\ Covers(made, bf, named)
  BY <1>1, PatchFacts
<1>5. CASE Conflict(t)
  BY <1>1, <1>5, ConflictPatch DEF Conflict
<1>6. CASE /\ tree[op.path].content = "old" /\ tree' = Written(tree, op.path, "new")
           /\ IF op.to = Nowhere THEN Advance(t) ELSE Continue(t, "move")
  <2> HIDE DEF op, named, made, bf
  <2>1. IsFile(tree, op.path) /\ CanWrite(tree, op.path)
    <3>1. op.path \in Paths
      BY <1>3, <1>4
    <3>2. IsFile(tree, op.path)
      BY <1>4, <1>6, <3>1, TreeNodes, NodeKinds DEF IsFile
    <3> QED
      BY <1>4, <3>1, <3>2, FileCanBeWritten
  <2>2. Undoable(tree', bf, named, made)
    BY <1>3, <1>4, <1>6, <2>1, UndoableSteps DEF CanWrite, Contents
  <2>3. CASE op.to = Nowhere
    <3>1. Applies(tree, op) /\ Applied(tree, op) = Written(tree, op.path, "new")
      BY <1>1, <1>6, <2>1, <2>3 DEF Applies, Applied
    <3>2. AtStage(tree', bf, patch[t], Tail(left[t]))
      BY <1>1, <1>2, <1>4, <1>6, <3>1, NextStage DEF op
    <3> QED
      BY <1>1, <1>4, <1>6, <2>2, <2>3, <3>2, AdvancePatch DEF named, made, bf
  <2>4. CASE op.to # Nowhere
    <3>1. /\ pc'[t] = "move" /\ left' = left /\ undo' = undo
          /\ patch' = patch /\ before' = before /\ parents' = parents
      BY <1>6, <2>4, ContinueStep DEF TypeInv
    <3>2. StageInv(t)'
      BY <1>1, <1>2, <1>4, <1>6, <2>1, <3>1 DEF StageInv, op, bf
    <3>3. UndoInv(t)'
      BY <1>4, <2>2, <3>1 DEF UndoInv, named, made, bf
    <3> QED
      BY <3>2, <3>3
  <2> QED
    BY <2>3, <2>4
<1>7. CASE Fault(t, op.path)
  BY <1>1, <1>3, <1>7, FaultPatch
<1> QED
  BY <1>1, <1>5, <1>6, <1>7

\* An update that has been written can be moved when it could before.
LEMMA MoveApplies ==
  ASSUME NEW tr \in Trees, NEW op \in Operations, op.type = "update", op.to # Nowhere,
         IsFile(tr, op.path), tr[op.path].content = "old",
         NEW written, written = Written(tr, op.path, "new"),
         ~Exists(written, op.to), CanMakeParents(written, op.to)
  PROVE  Applies(tr, op) /\ Applied(tr, op) = Moved(written, op.path, op.to)
<1> DEFINE p == op.path
           to == op.to
<1>1. p \in Paths /\ to \in Paths
  BY OperationParts
<1>2. CanWrite(tr, p) /\ tr[p] # Absent
  BY <1>1, FileCanBeWritten, TreeNodes
<1>3. /\ written \in Trees /\ IsFile(written, p)
      /\ \A q \in Paths \ {p} : written[q] = IF q \in Above[p] THEN Dir ELSE tr[q]
  BY <1>1, <1>2, WrittenTree DEF Contents
<1>4. \A q \in Above[p] : tr[q] = Dir
  BY <1>1, <1>2, TreeNodes
<1>5. \A q \in Paths \ {p} : written[q] = tr[q]
  BY <1>3, <1>4
<1>6. to # p
  BY <1>1, <1>3, TreeNodes
<1>7. ~Exists(tr, to)
  BY <1>1, <1>5, <1>6 DEF Exists
<1>8. ASSUME NEW q \in Above[to] PROVE ~IsFile(tr, q)
  <2>1. q \in Paths /\ ~IsFile(written, q)
    BY <1>1, AboveClosed DEF CanMakeParents
  <2>2. q # p
    BY <1>3, <2>1
  <2> QED
    BY <1>5, <2>1, <2>2 DEF IsFile
<1>9. CanMakeParents(tr, to)
  BY <1>8 DEF CanMakeParents
<1>10. Applies(tr, op)
  BY <1>7, <1>9 DEF Applies
<1> QED
  BY <1>10 DEF Applied

LEMMA MovePatch ==
  ASSUME TypeInv, PatchInv, PatchesAreFlat, NEW t \in Tasks, Move(t)
  PROVE  UndoInv(t)' /\ StageInv(t)'
<1> DEFINE op == Head(left[t])
           named == NamedBy(patch[t])
           made == parents[t]
           bf == before[t]
<1>1. /\ pc[t] = "move" /\ t \in UnderWay
      /\ \/ Conflict(t)
         \/ /\ ~Exists(tree, op.to) /\ CanMakeParents(tree, op.to)
            /\ tree' = Moved(tree, op.path, op.to) /\ Advance(t)
         \/ Fault(t, op.to)
  BY DEF Move, UnderWay
<1>2. left[t] # <<>> /\ op.to # Nowhere /\ IsFile(tree, op.path)
  BY <1>1 DEF TypeInv, PhaseInv
<1>3. PICK tr \in Trees :
        /\ AtStage(tr, bf, patch[t], left[t])
        /\ op.type = "update" /\ IsFile(tr, op.path) /\ tr[op.path].content = "old"
        /\ tree = Written(tr, op.path, "new")
  BY <1>1 DEF PatchInv, StageInv
<1>4. op \in Operations /\ op.path \in named /\ op.to \in named
  BY <1>2, <1>3, NextIsNamed
<1>5. /\ tree \in Trees /\ bf \in Trees /\ named \in SUBSET Paths /\ Flat(named)
      /\ patch[t] \in Seq(Operations) /\ left[t] \in Seq(Operations)
      /\ Undoable(tree, bf, named, made) /\ Covers(made, bf, named)
  BY <1>1, PatchFacts
<1>6. CASE Conflict(t)
  BY <1>1, <1>6, ConflictPatch DEF Conflict
<1>7. CASE /\ ~Exists(tree, op.to) /\ CanMakeParents(tree, op.to)
           /\ tree' = Moved(tree, op.path, op.to) /\ Advance(t)
  <2>1. Applies(tr, op) /\ Applied(tr, op) = Moved(tree, op.path, op.to)
    <3> HIDE DEF op
    <3> QED
      BY <1>2, <1>3, <1>4, <1>7, MoveApplies
  <2>2. AtStage(tree', bf, patch[t], Tail(left[t]))
    BY <1>2, <1>3, <1>5, <1>7, <2>1, NextStage
  <2> HIDE DEF op, named, made, bf
  <2>3. Undoable(tree', bf, named, made)
    BY <1>2, <1>4, <1>5, <1>7, UndoableSteps
  <2> QED
    BY <1>2, <1>5, <1>7, <2>2, <2>3, AdvancePatch DEF named, made, bf
<1>8. CASE Fault(t, op.to)
  BY <1>1, <1>4, <1>8, FaultPatch
<1> QED
  BY <1>1, <1>6, <1>7, <1>8
-----------------------------------------------------------------------------
(* The steps of the rollback                                               *)

\* The snapshots that have been restored are those of other paths.
LEMMA RestoredSoFar ==
  ASSUME TypeInv, PatchInv, PatchesAreFlat, NEW t \in UnderWay, pc[t] \in {"undo", "chmod"},
         undo[t] # {}, NEW j \in Snapshots(patch[t]), j # Max(undo[t])
  PROVE  /\ PathAt(patch[t], j) \in NamedBy(patch[t]) /\ PathAt(patch[t], j) \in Paths
         /\ PathAt(patch[t], j) # Restoring(t)
         /\ PathAt(patch[t], j) \notin Above[Restoring(t)]
         /\ j \notin undo[t] => tree[PathAt(patch[t], j)] = before[t][PathAt(patch[t], j)]
<1>1. /\ t \in Tasks /\ patch[t] \in Seq(Operations)
      /\ NamedBy(patch[t]) \in SUBSET Paths /\ Flat(NamedBy(patch[t]))
  BY PatchFacts
<1>2. /\ Max(undo[t]) \in Snapshots(patch[t])
      /\ Restoring(t) = PathAt(patch[t], Max(undo[t])) /\ Restoring(t) \in NamedBy(patch[t])
  BY <1>1, NextRestored DEF TypeInv
<1>3. PathAt(patch[t], j) \in NamedBy(patch[t]) /\ PathAt(patch[t], j) # Restoring(t)
  BY <1>1, <1>2, SnapshotFacts DEF NamedBy
<1>4. j \notin undo[t] => tree[PathAt(patch[t], j)] = before[t][PathAt(patch[t], j)]
  BY DEF PatchInv, UndoInv
<1> QED
  BY <1>1, <1>2, <1>3, <1>4 DEF Flat

\* A snapshot has been restored.
LEMMA RestoredPatch ==
  ASSUME TypeInv, PatchInv, PatchesAreFlat, NEW t \in UnderWay, pc[t] \in {"undo", "chmod"},
         undo[t] # {}, Restored(t),
         Undoable(tree', before[t], NamedBy(patch[t]), parents[t]),
         tree'[Restoring(t)] = before[t][Restoring(t)],
         \A q \in NamedBy(patch[t]) : q # Restoring(t) => tree'[q] = tree[q]
  PROVE  UndoInv(t)' /\ StageInv(t)' /\ answer' = answer /\ pc'[t] = "undo"
<1>1. t \in Tasks /\ Covers(parents[t], before[t], NamedBy(patch[t]))
  BY PatchFacts
<1>2. /\ pc'[t] = "undo" /\ undo'[t] = undo[t] \ {Max(undo[t])}
      /\ patch' = patch /\ before' = before /\ parents' = parents /\ answer' = answer
  BY <1>1, RestoredStep DEF TypeInv
<1>3. ASSUME NEW j \in Snapshots(patch[t]), j \notin undo'[t]
      PROVE  tree'[PathAt(patch[t], j)] = before[t][PathAt(patch[t], j)]
  <2>1. CASE j = Max(undo[t])
    BY <2>1 DEF Restoring
  <2>2. CASE j # Max(undo[t])
    BY <1>2, <1>3, <2>2, RestoredSoFar
  <2> QED
    BY <2>1, <2>2
<1>4. UndoInv(t)'
  BY <1>1, <1>2, <1>3 DEF UndoInv
<1> QED
  BY <1>2, <1>4 DEF StageInv

LEMMA RestorePatch ==
  ASSUME TypeInv, PatchInv, PatchesAreFlat, NEW t \in Tasks, Restore(t)
  PROVE  UndoInv(t)' /\ StageInv(t)' /\ answer' = answer /\ pc'[t] # "done"
<1> DEFINE p == Restoring(t)
           named == NamedBy(patch[t])
           made == parents[t]
           bf == before[t]
<1>1. /\ pc[t] = "undo" /\ undo[t] # {} /\ t \in UnderWay
      /\ \/ /\ IsFile(bf, p) /\ CanWrite(tree, p)
            /\ tree' = Written(tree, p, bf[p].content) /\ Continue(t, "chmod")
         \/ IsFile(bf, p) /\ ~CanWrite(tree, p)
         \/ ~Exists(bf, p) /\ tree' = Removed(tree, p) /\ Restored(t)
  BY DEF Restore, UnderWay
<1>2. /\ tree \in Trees /\ bf \in Trees /\ named \in SUBSET Paths /\ Flat(named)
      /\ Undoable(tree, bf, named, made) /\ Covers(made, bf, named)
  BY <1>1, PatchFacts
<1>3. p \in named
  BY <1>1, NextRestored DEF TypeInv
<1>4. p \in Paths /\ tree[p] # Dir
  BY <1>2, <1>3 DEF Undoable
<1>5. IsFile(bf, p) => CanWrite(tree, p)
  <2> HIDE DEF p, named, made, bf
  <2> QED
    BY <1>2, <1>3, CanBeRestored
<1>6. CASE /\ IsFile(bf, p) /\ CanWrite(tree, p)
           /\ tree' = Written(tree, p, bf[p].content) /\ Continue(t, "chmod")
  <2>1. /\ pc'[t] = "chmod" /\ undo' = undo /\ answer' = answer
        /\ patch' = patch /\ before' = before /\ parents' = parents
    BY <1>6, ContinueStep DEF TypeInv
  <2>2. Restoring(t)' = p
    BY <2>1 DEF Restoring
  <2>3. \A j \in Snapshots(patch[t]) \ undo[t] :
           LET q == PathAt(patch[t], j)
           IN  q \in Paths \ {p} /\ q \notin Above[p] /\ tree[q] = bf[q]
    <3>1. Max(undo[t]) \in undo[t]
      BY <1>1, NextRestored DEF TypeInv
    <3> QED
      BY <1>1, <3>1, RestoredSoFar
  <2> DEFINE c == bf[p].content
  <2>4. c \in Contents
    <3> HIDE DEF p, bf
    <3> QED
      BY <1>2, <1>4, <1>6, TreeNodes
  <2>5. tree' = Written(tree, p, c)
    BY <1>6
  <2> HIDE DEF p, named, made, bf, c
  <2>6. Undoable(tree', bf, named, made)
    BY <1>2, <1>3, <1>6, <2>4, <2>5, UndoableSteps DEF CanWrite
  <2>7. tree'[p].content = c /\ \A q \in Paths \ {p} : q \notin Above[p] => tree'[q] = tree[q]
    BY <1>2, <1>4, <1>6, <2>4, <2>5, WrittenTree
  <2>8. \A j \in Snapshots(patch[t]) \ undo[t] : tree'[PathAt(patch[t], j)] = bf[PathAt(patch[t], j)]
    BY <2>3, <2>7
  <2>9. UndoInv(t)'
    BY <1>2, <2>1, <2>2, <2>6, <2>7, <2>8 DEF UndoInv, named, made, bf, c
  <2> QED
    BY <2>1, <2>9 DEF StageInv
<1>7. CASE ~Exists(bf, p) /\ tree' = Removed(tree, p) /\ Restored(t)
  <2>1. tree'[p] = Absent /\ \A q \in Paths : q # p => tree'[q] = tree[q]
    <3> HIDE DEF p
    <3> QED
      BY <1>2, <1>4, <1>7, RemovedOne
  <2>2. tree'[p] = bf[p]
    BY <1>7, <2>1 DEF Exists
  <2>3. Undoable(tree', bf, named, made)
    <3> HIDE DEF p, named, made, bf
    <3> QED
      BY <1>2, <1>3, <1>7, UndoableSteps
  <2> QED
    BY <1>1, <1>2, <1>7, <2>1, <2>2, <2>3, RestoredPatch
<1> QED
  BY <1>1, <1>5, <1>6, <1>7

LEMMA RestoreModePatch ==
  ASSUME TypeInv, PatchInv, PatchesAreFlat, NEW t \in Tasks, RestoreMode(t)
  PROVE  UndoInv(t)' /\ StageInv(t)' /\ answer' = answer /\ pc'[t] # "done"
<1> DEFINE p == Restoring(t)
           named == NamedBy(patch[t])
           made == parents[t]
           bf == before[t]
           m == bf[p].mode
<1>1. pc[t] = "chmod" /\ t \in UnderWay /\ tree' = [tree EXCEPT ![p].mode = m] /\ Restored(t)
  BY DEF RestoreMode, Chmod, UnderWay
<1>2. undo[t] # {} /\ IsFile(tree, p) /\ IsFile(bf, p)
  BY <1>1 DEF TypeInv, PhaseInv
<1>3. /\ tree \in Trees /\ bf \in Trees /\ named \in SUBSET Paths
      /\ Undoable(tree, bf, named, made)
  BY <1>1, PatchFacts
<1>4. p \in named /\ p \in Paths
  BY <1>2, NextRestored DEF TypeInv
<1>5. tree[p].content = bf[p].content
  BY <1>1 DEF PatchInv, UndoInv
<1>6. tree'[p] = bf[p] /\ \A q \in Paths : q # p => tree'[q] = tree[q]
  <2> HIDE DEF p, bf
  <2>1. bf[p] \in Nodes /\ bf[p].kind = "file"
    BY <1>2, <1>3, <1>4, TreeNodes DEF IsFile
  <2>2. m \in Modes /\ bf[p] = File(tree[p].content, m)
    BY <1>5, <2>1, NodeKinds
  <2> HIDE DEF m
  <2>3. ModeSet(tree', tree, p, m)
    BY <1>1 DEF ModeSet
  <2>4. tree'[p] = File(tree[p].content, m) /\ \A q \in Paths : q # p => tree'[q] = tree[q]
    BY <1>2, <1>3, <1>4, <2>2, <2>3, ChmodTree
  <2> QED
    BY <2>2, <2>4
<1>7. Undoable(tree', bf, named, made)
  <2> HIDE DEF p, named, made, bf, m
  <2>1. tree'[p] # Dir
    BY <1>4, <1>6, <1>3 DEF Undoable
  <2> QED
    BY <1>3, <1>4, <1>6, <2>1, UndoableOne
<1> QED
  BY <1>1, <1>2, <1>3, <1>6, <1>7, RestoredPatch

\* With every snapshot restored, each path the patch names is as it was.
LEMMA NamedRestored ==
  ASSUME TypeInv, PatchInv, NEW t \in UnderWay, pc[t] = "undo", undo[t] = {}
  PROVE  \A q \in NamedBy(patch[t]) : tree[q] = before[t][q]
BY DEF PatchInv, UndoInv, NamedBy

LEMMA RemoveParentPatch ==
  ASSUME TypeInv, PatchInv, PatchesAreFlat, NEW t \in Tasks, NEW q \in Paths, RemoveParent(t, q)
  PROVE  UndoInv(t)' /\ StageInv(t)' /\ answer' = answer /\ pc'[t] # "done"
<1> DEFINE named == NamedBy(patch[t])
           made == parents[t]
           bf == before[t]
<1>1. /\ pc[t] = "undo" /\ undo[t] = {} /\ t \in UnderWay
      /\ q \in made /\ \A r \in made : q \notin Above[r]
      /\ \/ /\ tree' = Removed(tree, q) /\ parents' = [parents EXCEPT ![t] = @ \ {q}]
            /\ UNCHANGED <<closed, queue, pc, patch, left, before, undo, answer>>
         \/ ~Empty(tree, q)
  BY DEF RemoveParent, UnderWay
<1>2. /\ tree \in Trees /\ bf \in Trees /\ named \in SUBSET Paths
      /\ Undoable(tree, bf, named, made)
  BY <1>1, PatchFacts
<1>3. \A p \in named : tree[p] = bf[p]
  BY <1>1, NamedRestored
<1>4. /\ Empty(tree, q)
      /\ Undoable(Removed(tree, q), bf, named, made \ {q})
      /\ \A p \in named : Removed(tree, q)[p] = tree[p]
  <2> HIDE DEF named, made, bf
  <2> QED
    BY <1>1, <1>2, <1>3, MadeIsEmpty
<1>5. /\ tree' = Removed(tree, q) /\ parents'[t] = made \ {q} /\ patch' = patch
      /\ pc' = pc /\ before' = before /\ undo' = undo /\ answer' = answer
  BY <1>1, <1>4 DEF TypeInv, LocalShapes
<1>6. \A p \in named : tree'[p] = bf[p]
  BY <1>3, <1>4, <1>5
<1>7. \A j \in Snapshots(patch[t]) : PathAt(patch[t], j) \in named
  BY DEF NamedBy
<1>8. \A j \in Snapshots(patch[t]) : tree'[PathAt(patch[t], j)] = bf[PathAt(patch[t], j)]
  <2> HIDE DEF named, bf
  <2> QED
    BY <1>6, <1>7
<1>9. UndoInv(t)'
  BY <1>1, <1>4, <1>5, <1>8 DEF UndoInv
<1> QED
  BY <1>1, <1>5, <1>9 DEF StageInv

\* A patch that gives up has left nothing behind.
LEMMA RethrowPatch ==
  ASSUME TypeInv, PatchInv, PatchesAreFlat, NEW t \in Tasks, Rethrow(t)
  PROVE  t \in UnderWay /\ tree = before[t] /\ tree' = tree /\ Finish(t, "failed")
<1>1. /\ pc[t] = "undo" /\ undo[t] = {} /\ parents[t] = {} /\ t \in UnderWay
      /\ tree' = tree /\ Finish(t, "failed")
  BY DEF Rethrow, UnderWay
<1>2. /\ tree \in Trees /\ before[t] \in Trees /\ NamedBy(patch[t]) \in SUBSET Paths
      /\ Undoable(tree, before[t], NamedBy(patch[t]), {})
  BY <1>1, PatchFacts
<1>3. \A q \in NamedBy(patch[t]) : tree[q] = before[t][q]
  BY <1>1, NamedRestored
<1>4. tree = before[t]
  BY <1>2, <1>3, AllUndone
<1> QED
  BY <1>1, <1>4

\* A patch that returns has applied as a whole.
LEMMA ReturnPatch ==
  ASSUME TypeInv, PatchInv, NEW t \in Tasks, Return(t)
  PROVE  /\ t \in UnderWay /\ tree' = tree /\ Finish(t, "done")
         /\ Outcome(before[t], patch[t]) = [ok |-> TRUE, tree |-> tree]
<1>1. /\ pc[t] = "apply" /\ left[t] = <<>> /\ t \in UnderWay
      /\ tree' = tree /\ Finish(t, "done")
  BY DEF Return, UnderWay
<1>2. AtStage(tree, before[t], patch[t], <<>>)
  BY <1>1 DEF PatchInv, StageInv
<1>3. Len(patch[t]) \in Nat
  BY DEF TypeInv, LocalShapes
<1>4. Len(patch[t]) - Len(<<>>) = Len(patch[t])
  BY <1>3
<1>5. Stages(before[t], patch[t])[Len(patch[t])] = [ok |-> TRUE, tree |-> tree]
  BY <1>2, <1>4 DEF AtStage
<1> QED
  BY <1>1, <1>5 DEF Outcome

\* When its turn comes, a patch has changed nothing.
LEMMA EnterPatch ==
  ASSUME TypeInv, NEW t \in Tasks, EnterKept(t), tree' = tree, Flat(NamedBy(patch[t]))
  PROVE  UndoInv(t)' /\ StageInv(t)'
<1> DEFINE named == NamedBy(patch[t])
           above == UNION {Above[p] : p \in named}
           made == {q \in above : ~Exists(tree, q)}
<1>1. /\ \A p \in named : tree[p] # Dir
      /\ pc'[t] = "apply" /\ left'[t] = patch[t] /\ before'[t] = tree /\ parents'[t] = made
      /\ patch' = patch
  BY DEF EnterKept
<1>2. tree \in Trees /\ patch[t] \in Seq(Operations) /\ named \in SUBSET Paths
  BY SnapshotFacts, TreeAssumption DEF TypeInv, LocalShapes
<1>3. Flat(named)
  OBVIOUS
<1> HIDE DEF named
<1>4. \A q \in above : q \in Paths /\ q \notin named
  BY <1>2, <1>3, AboveClosed DEF Flat
<1>5. \A p \in named : \A q \in Above[p] : q \in above
  OBVIOUS
<1> HIDE DEF above
<1>6. \A q \in made : q \in Paths /\ q \notin named /\ tree[q] = Absent
  BY <1>4 DEF Exists
<1>7. \A p \in named : \A q \in Above[p] : tree[q] = Absent => q \in made
  BY <1>5 DEF Exists
<1> HIDE DEF made
<1>8. Undoable(tree, tree, named, made)
  BY <1>1, <1>6 DEF Undoable
<1>9. Covers(made, tree, named)
  BY <1>7 DEF Covers
<1>10. AtStage(tree, tree, patch[t], patch[t])
  <2>1. Len(patch[t]) \in Nat
    BY <1>2
  <2>2. Len(patch[t]) - Len(patch[t]) = 0 /\ \A i \in 1 .. Len(patch[t]) : 0 + i = i
    BY <2>1
  <2>3. Stages(tree, patch[t])[0] = [ok |-> TRUE, tree |-> tree]
    <3>1. patch[t] \in Seq(Operations)
      BY <1>2
    <3>2. StagesFollow(tree, patch[t])
      BY <3>1, StageFacts
    <3> QED
      BY <3>2 DEF StagesFollow
  <2> QED
    BY <2>1, <2>2, <2>3 DEF AtStage
<1>11. UndoInv(t)'
  BY <1>1, <1>8, <1>9 DEF UndoInv, named
<1> QED
  BY <1>1, <1>10, <1>11 DEF StageInv
-----------------------------------------------------------------------------
(* Transactions                                                            *)

\* A call takes a step when it is under way or has its turn, and then alone.
LEMMA ApplyAlone ==
  ASSUME TypeInv, NEW t \in Tasks, Apply(t)
  PROVE  /\ pc[t] \notin {"idle", "done"} /\ UnderWay \subseteq {t} /\ UnderWay' \subseteq {t}
         /\ \A u \in Tasks \ {t} : pc'[u] = pc[u] /\ answer'[u] = answer[u]
<1>1. pc[t] \notin {"idle", "done"} /\ (t \in UnderWay \/ Head(queue) = t)
  BY DEF Apply, Enter, Turn, Add, Delete, Update, Move, Return, Restore, RestoreMode, Rethrow,
         RemoveParent, UnderWay
<1>2. \A u \in Tasks \ {t} : u \notin UnderWay
  BY <1>1, FirstIsAlone DEF TypeInv
<1>3. \A u \in Tasks \ {t} : pc'[u] = pc[u] /\ answer'[u] = answer[u]
  <2> USE DEF TypeInv, LocalShapes, LocalsKept, Finish
  <2>1. ASSUME Enter(t) PROVE \A u \in Tasks \ {t} : pc'[u] = pc[u] /\ answer'[u] = answer[u]
    BY <2>1 DEF Enter
  <2>2. ASSUME Add(t) PROVE \A u \in Tasks \ {t} : pc'[u] = pc[u] /\ answer'[u] = answer[u]
    BY <2>2 DEF Add, Conflict, Fault, Fail, Advance
  <2>3. ASSUME Delete(t) PROVE \A u \in Tasks \ {t} : pc'[u] = pc[u] /\ answer'[u] = answer[u]
    BY <2>3 DEF Delete, Conflict, Fail, Advance
  <2>4. ASSUME Update(t) PROVE \A u \in Tasks \ {t} : pc'[u] = pc[u] /\ answer'[u] = answer[u]
    BY <2>4 DEF Update, Conflict, Fault, Fail, Advance, Continue
  <2>5. ASSUME Move(t) PROVE \A u \in Tasks \ {t} : pc'[u] = pc[u] /\ answer'[u] = answer[u]
    BY <2>5 DEF Move, Conflict, Fault, Fail, Advance
  <2>6. ASSUME Return(t) \/ Rethrow(t) PROVE \A u \in Tasks \ {t} : pc'[u] = pc[u] /\ answer'[u] = answer[u]
    BY <2>6 DEF Return, Rethrow
  <2>7. ASSUME Restore(t) PROVE \A u \in Tasks \ {t} : pc'[u] = pc[u] /\ answer'[u] = answer[u]
    BY <2>7 DEF Restore, Restored, Continue
  <2>8. ASSUME RestoreMode(t) PROVE \A u \in Tasks \ {t} : pc'[u] = pc[u] /\ answer'[u] = answer[u]
    BY <2>8 DEF RestoreMode, Restored
  <2>9. ASSUME NEW q \in Paths, RemoveParent(t, q) PROVE \A u \in Tasks \ {t} : pc'[u] = pc[u] /\ answer'[u] = answer[u]
    BY <2>9 DEF RemoveParent
  <2> HIDE DEF TypeInv, LocalShapes, LocalsKept, Finish
  <2> QED
    BY <2>1, <2>2, <2>3, <2>4, <2>5, <2>6, <2>7, <2>8, <2>9 DEF Apply
<1> QED
  BY <1>1, <1>2, <1>3 DEF UnderWay

\* A step within a patch.
Within(t) ==
  /\ t \in UnderWay /\ t \in UnderWay'
  /\ before'[t] = before[t] /\ patch' = patch /\ answer' = answer

LEMMA StepsWithin ==
  ASSUME TypeInv, NEW t \in Tasks,
         \/ Add(t) \/ Delete(t) \/ Update(t) \/ Move(t) \/ RestoreMode(t)
         \/ Restore(t) /\ pc'[t] # "done"
         \/ (\E q \in Paths : RemoveParent(t, q)) /\ pc'[t] # "done"
  PROVE  Within(t)
<1> USE DEF TypeInv, LocalShapes, LocalsKept, Within, UnderWay
<1>1. ASSUME Add(t) PROVE Within(t)
  BY <1>1 DEF Add, Conflict, Fault, Fail, Advance
<1>2. ASSUME Delete(t) PROVE Within(t)
  BY <1>2 DEF Delete, Conflict, Fail, Advance
<1>3. ASSUME Update(t) PROVE Within(t)
  BY <1>3 DEF Update, Conflict, Fault, Fail, Advance, Continue
<1>4. ASSUME Move(t) PROVE Within(t)
  BY <1>4 DEF Move, Conflict, Fault, Fail, Advance
<1>5. ASSUME RestoreMode(t) PROVE Within(t)
  BY <1>5 DEF RestoreMode, Restored
<1>6. ASSUME Restore(t), pc'[t] # "done" PROVE Within(t)
  BY <1>6 DEF Restore, Restored, Continue, Finish
<1>7. ASSUME NEW q \in Paths, RemoveParent(t, q), pc'[t] # "done" PROVE Within(t)
  BY <1>7 DEF RemoveParent, Finish
<1> HIDE DEF TypeInv, LocalShapes, LocalsKept, Within, UnderWay
<1> QED
  BY <1>1, <1>2, <1>3, <1>4, <1>5, <1>6, <1>7

\* What the steps of a call do, when its patch is flat.
LEMMA ApplyPatch ==
  ASSUME TypeInv, PatchInv, PatchesAreFlat, NEW t \in Tasks, Apply(t)
  PROVE  \/ Enter(t)
         \/ Within(t) /\ UndoInv(t)' /\ StageInv(t)'
         \/ /\ t \in UnderWay /\ tree' = tree /\ Finish(t, "done")
            /\ Outcome(before[t], patch[t]) = [ok |-> TRUE, tree |-> tree]
         \/ t \in UnderWay /\ tree' = tree /\ Finish(t, "failed") /\ tree = before[t]
<1>1. ASSUME Add(t) \/ Delete(t) \/ Update(t) \/ Move(t)
      PROVE  Within(t) /\ UndoInv(t)' /\ StageInv(t)'
  BY <1>1, StepsWithin, AddPatch, DeletePatch, UpdatePatch, MovePatch
<1>2. ASSUME Restore(t) \/ RestoreMode(t)
      PROVE  Within(t) /\ UndoInv(t)' /\ StageInv(t)'
  BY <1>2, StepsWithin, RestorePatch, RestoreModePatch
<1>3. ASSUME NEW q \in Paths, RemoveParent(t, q)
      PROVE  Within(t) /\ UndoInv(t)' /\ StageInv(t)'
  BY <1>3, StepsWithin, RemoveParentPatch
<1> QED
  BY <1>1, <1>2, <1>3, ReturnPatch, RethrowPatch DEF Apply

\* A call that does not take the step is not touched by it.
LEMMA NextPatchInv ==
  TypeInv /\ PatchInv /\ PatchesAreFlat /\ PatchesAreFlat' /\ [Next]_vars => PatchInv'
<1> SUFFICES ASSUME TypeInv, PatchInv, PatchesAreFlat, PatchesAreFlat', [Next]_vars PROVE PatchInv'
  OBVIOUS
<1>1. ASSUME UNCHANGED <<tree, left, before, undo, parents>>, UnderWay' = UnderWay,
             \A t \in UnderWay : patch'[t] = patch[t] /\ pc'[t] = pc[t]
      PROVE  PatchInv'
  <2> SUFFICES ASSUME NEW t \in UnderWay PROVE UndoInv(t)' /\ StageInv(t)'
    BY <1>1 DEF PatchInv
  <2>1. /\ tree' = tree /\ left' = left /\ before' = before /\ undo' = undo /\ parents' = parents
        /\ patch'[t] = patch[t] /\ pc'[t] = pc[t]
    BY <1>1
  <2>2. UndoInv(t) /\ StageInv(t)
    BY DEF PatchInv
  <2> QED
    BY <2>1, <2>2 DEF UndoInv, StageInv, Restoring
<1>2. CASE UNCHANGED vars
  BY <1>1, <1>2 DEF vars, localVars, UnderWay
<1>3. CASE Close
  BY <1>1, <1>3 DEF Close, localVars, UnderWay
<1>4. ASSUME NEW t \in Tasks, NEW n \in 1 .. Size[t], NEW source \in Patches(n), Call(t, source)
      PROVE  PatchInv'
  <2>1. UnderWay' = UnderWay /\ t \notin UnderWay
    BY <1>4, CallTypeInv DEF Call, UnderWay
  <2>2. \A u \in UnderWay : patch'[u] = patch[u] /\ pc'[u] = pc[u]
    BY <1>4, <2>1 DEF Call, TypeInv, LocalShapes, UnderWay
  <2> QED
    BY <1>1, <1>4, <2>1, <2>2 DEF Call
<1>5. ASSUME NEW t \in Tasks, Apply(t) PROVE PatchInv'
  <2>1. UnderWay' \subseteq {t}
    BY <1>5, ApplyAlone
  <2>2. ASSUME t \in UnderWay' PROVE UndoInv(t)' /\ StageInv(t)'
    <3>1. ASSUME Finish(t, "done") \/ Finish(t, "failed") PROVE FALSE
      BY <2>2, <3>1 DEF Finish, UnderWay, TypeInv, LocalShapes
    <3>2. ASSUME Enter(t) PROVE UndoInv(t)' /\ StageInv(t)'
      <4>1. EnterKept(t) /\ tree' = tree
        BY <3>1, <3>2, EnterStep DEF TypeInv
      <4>2. Flat(NamedBy(patch[t]))
        BY <2>2, <4>1 DEF PatchesAreFlat, EnterKept
      <4> QED
        BY <4>1, <4>2, EnterPatch
    <3> QED
      BY <1>5, <3>1, <3>2, ApplyPatch
  <2> QED
    BY <2>1, <2>2 DEF PatchInv
<1> QED
  BY <1>2, <1>3, <1>4, <1>5 DEF Next

LEMMA SpecPatchInv == Spec /\ []PatchesAreFlat => []PatchInv
<1>1. Init => PatchInv
  BY DEF Init, PatchInv, UnderWay
<1> QED
  BY <1>1, NextPatchInv, SpecTypeInv, PTL DEF Spec

-----------------------------------------------------------------------------
(* The contract                                                            *)

\* The workspace as anybody but a patch under way may see it.
Visible == IF UnderWay = {} THEN tree ELSE before[CHOOSE t \in UnderWay : TRUE]

LEMMA WhatIsVisible ==
  /\ UnderWay = {} => Visible = tree
  /\ \A t \in UnderWay : UnderWay \subseteq {t} => Visible = before[t]
BY DEF Visible

LEMMA WhatIsVisibleNext ==
  /\ UnderWay' = {} => Visible' = tree'
  /\ \A t \in UnderWay' : UnderWay' \subseteq {t} => Visible' = before'[t]
BY DEF Visible

\* The contract speaks of the same trees and patches.
LEMMA SameContract ==
  /\ Contract!Trees = Trees
  /\ Contract!Operations = Operations
  /\ \A tr, source : Contract!Outcome(tr, source) = Outcome(tr, source)
<1>1. Contract!Absent = Absent /\ Contract!Dir = Dir /\ \A c, m : Contract!File(c, m) = File(c, m)
  BY DEF Contract!Absent, Contract!Dir, Contract!File, Absent, Dir, File
<1>2. Contract!Nodes = Nodes
  BY DEF Contract!Nodes, Nodes, Contract!Absent, Contract!Dir, Contract!File, Absent, Dir, File
<1>3. Contract!Above = Above
  BY DEF Contract!Above, Above, Contract!Holds, Holds
<1>4. Contract!Trees = Trees
  BY <1>1, <1>2, <1>3 DEF Contract!Trees, Trees
<1>5. Contract!Operations = Operations
  BY DEF Contract!Operations, Operations
<1>6. \A tr, op : Contract!Applies(tr, op) = Applies(tr, op)
  BY <1>1, <1>3 DEF Contract!Applies, Applies, Contract!Exists, Exists, Contract!CanWrite, CanWrite, Contract!CanMakeParents, CanMakeParents, Contract!IsFile, IsFile, Contract!Empty, Empty
<1>7. \A tr, op : Contract!Applied(tr, op) = Applied(tr, op)
  BY <1>1, <1>3 DEF Contract!Applied, Applied, Contract!Written, Written, Contract!WithParents, WithParents, Contract!Exists, Exists, Contract!IsFile, IsFile, Contract!Removed, Removed, Contract!Moved, Moved, Contract!File, File, Contract!Absent, Absent, Contract!Dir, Dir
<1>8. \A done, op : Contract!Further(done, op) = Further(done, op)
  BY <1>6, <1>7 DEF Contract!Further, Further
<1>9. \A tr, source : Contract!Outcome(tr, source) = Outcome(tr, source)
  BY <1>8 DEF Contract!Outcome, Outcome, Contract!Stages, Stages
<1> QED
  BY <1>4, <1>5, <1>9

\* The steps of the contract.
LEMMA ContractCommits ==
  ASSUME NEW t \in Tasks, patch[t] # <<>>, answer[t] = "none",
         Outcome(Visible, patch[t]) = [ok |-> TRUE, tree |-> Visible'],
         answer' = [answer EXCEPT ![t] = "done"], patch' = patch
  PROVE  Contract!Next
<1>1. Contract!Outcome(Visible, patch[t]).ok /\ Contract!Outcome(Visible, patch[t]).tree = Visible'
  BY SameContract
<1> QED
  BY <1>1 DEF Contract!Next, Contract!Commit, Visible

LEMMA ContractRefuses ==
  ASSUME NEW t \in Tasks, patch[t] # <<>>, answer[t] = "none", Visible' = Visible,
         answer' = [answer EXCEPT ![t] = "failed"], patch' = patch
  PROVE  Contract!Next
BY DEF Contract!Next, Contract!Refuse, Visible

LEMMA ContractAsked ==
  ASSUME NEW t \in Tasks, patch[t] = <<>>, NEW source \in Seq(Operations), source # <<>>,
         patch' = [patch EXCEPT ![t] = source], patch'[t] = source, Visible' = Visible,
         answer' = answer \/ answer' = [answer EXCEPT ![t] = "failed"]
  PROVE  Contract!Next
<1>1. patch'[t] \in Seq(Contract!Operations) \ {<<>>}
  BY SameContract
<1>2. patch' = [patch EXCEPT ![t] = patch'[t]]
  OBVIOUS
<1> QED
  BY <1>1, <1>2 DEF Contract!Next, Contract!Ask, Visible

LEMMA InitContract == Init => Contract!Init
<1> SUFFICES ASSUME Init PROVE Contract!Init
  OBVIOUS
<1>1. UnderWay = {} /\ tree \in Trees
  BY WorkspaceAssumption DEF Init, UnderWay
<1> QED
  BY <1>1, SameContract DEF Init, Contract!Init

LEMMA NextContract ==
  TypeInv /\ PatchInv /\ PatchesAreFlat /\ [Next]_vars => [Contract!Next]_(Contract!vars)
<1> SUFFICES ASSUME TypeInv, PatchInv, PatchesAreFlat, [Next]_vars
             PROVE  Contract!Next \/ UNCHANGED <<Visible, patch, answer>>
  BY DEF Contract!vars, Visible
<1>1. CASE UNCHANGED vars
  BY <1>1 DEF vars, localVars, Visible, UnderWay
<1>2. CASE Close
  BY <1>2 DEF Close, localVars, Visible, UnderWay
<1>3. ASSUME NEW t \in Tasks, NEW n \in 1 .. Size[t], NEW source \in Patches(n), Call(t, source)
      PROVE  Contract!Next
  <2>1. UnderWay' = UnderWay /\ source \in Seq(Operations) /\ source # <<>>
    BY <1>3, CallTypeInv
  <2>2. /\ tree' = tree /\ before' = before /\ patch' = [patch EXCEPT ![t] = source]
        /\ pc[t] = "idle"
        /\ answer' = answer \/ answer' = [answer EXCEPT ![t] = "failed"]
    BY <1>3 DEF Call
  <2>3. Visible' = Visible
    BY <2>1, <2>2 DEF Visible
  <2>4. patch[t] = <<>> /\ patch'[t] = source
    BY <2>2 DEF TypeInv, PhaseInv, LocalShapes
  <2> QED
    BY <2>1, <2>2, <2>3, <2>4, ContractAsked
<1>4. ASSUME NEW t \in Tasks, Apply(t)
      PROVE  Contract!Next \/ UNCHANGED <<Visible, patch, answer>>
  <2>1. /\ pc[t] \notin {"idle", "done"} /\ UnderWay \subseteq {t} /\ UnderWay' \subseteq {t}
        /\ patch[t] # <<>> /\ answer[t] = "none"
    BY <1>4, ApplyAlone DEF TypeInv, PhaseInv
  <2>2. ASSUME NEW how \in {"done", "failed"}, Finish(t, how)
        PROVE  /\ UnderWay' = {} /\ patch' = patch /\ answer' = [answer EXCEPT ![t] = how]
    BY <2>1, <2>2 DEF Finish, UnderWay, TypeInv, LocalShapes
  <2>3. ASSUME Enter(t) PROVE Contract!Next \/ UNCHANGED <<Visible, patch, answer>>
    <3>1. UnderWay = {} /\ tree' = tree
      BY <2>1, <2>3 DEF Enter, UnderWay
    <3>2. CASE Finish(t, "failed")
      <4>1. Visible' = Visible
        BY <2>2, <3>1, <3>2, WhatIsVisible, WhatIsVisibleNext
      <4> QED
        BY <2>1, <2>2, <3>2, <4>1, ContractRefuses
    <3>3. CASE EnterKept(t)
      <4>1. t \in UnderWay' /\ before'[t] = tree /\ patch' = patch /\ answer' = answer
        BY <3>3 DEF EnterKept, UnderWay
      <4> QED
        BY <2>1, <3>1, <4>1, WhatIsVisible, WhatIsVisibleNext
    <3> QED
      BY <2>3, <3>2, <3>3, EnterStep DEF TypeInv
  <2>4. ASSUME Within(t) PROVE UNCHANGED <<Visible, patch, answer>>
    BY <2>1, <2>4, WhatIsVisible, WhatIsVisibleNext DEF Within
  <2>5. ASSUME t \in UnderWay, tree' = tree, Finish(t, "done"),
               Outcome(before[t], patch[t]) = [ok |-> TRUE, tree |-> tree]
        PROVE  Contract!Next
    <3>1. Visible = before[t] /\ Visible' = tree
      BY <2>1, <2>2, <2>5, WhatIsVisible, WhatIsVisibleNext
    <3> QED
      BY <2>1, <2>2, <2>5, <3>1, ContractCommits
  <2>6. ASSUME t \in UnderWay, tree' = tree, Finish(t, "failed"), tree = before[t]
        PROVE  Contract!Next
    <3>1. Visible' = Visible
      BY <2>1, <2>2, <2>6, WhatIsVisible, WhatIsVisibleNext
    <3> QED
      BY <2>1, <2>2, <2>6, <3>1, ContractRefuses
  <2> QED
    BY <1>4, <2>3, <2>4, <2>5, <2>6, ApplyPatch
<1> QED
  BY <1>1, <1>2, <1>3, <1>4 DEF Next

\* "applies a Codex patch as one transaction" (README.md:42): while no patch under way names
\* a path below another, the workspace changes by whole patches, whatever is called at the
\* same time and whichever calls of the file system fail.
THEOREM FlatPatchesAreTransactions == Spec /\ []PatchesAreFlat => PatchesAreTransactions
<1>1. Spec /\ []PatchesAreFlat => []TypeInv /\ []PatchInv
  BY SpecTypeInv, SpecPatchInv
<1> QED
  BY <1>1, InitContract, NextContract, PTL DEF Spec, PatchesAreTransactions, Contract!Spec

\* "Failed multi-file patches restore file contents, file modes, moves, and parent
\* directories created by the failed transaction" (code-mode-plan.md:389): they do, while no
\* patch under way names a path below another.
THEOREM FailedFlatPatchRestores == Spec /\ []PatchesAreFlat => FailedPatchRestores
<1>1. ASSUME TypeInv, PatchInv, PatchesAreFlat, [Next]_vars, NEW t \in UnderWay, pc[t] # "done",
             answer'[t] = "failed"
      PROVE  tree' = before[t]
  <2>1. t \in Tasks /\ answer[t] = "none" /\ answer'[t] # answer[t]
    BY <1>1 DEF UnderWay, TypeInv, PhaseInv
  <2>2. PICK u \in Tasks : \/ Apply(u)
                           \/ \E n \in 1 .. Size[u] : \E source \in Patches(n) : Call(u, source)
    BY <1>1, <2>1 DEF Next, vars, localVars, Close
  <2>3. ASSUME NEW n \in 1 .. Size[u], NEW source \in Patches(n), Call(u, source) PROVE FALSE
    <3>1. u # t
      BY <2>3 DEF Call, UnderWay
    <3> QED
      BY <1>1, <2>1, <2>3, <3>1 DEF Call, TypeInv, LocalShapes
  <2>4. Apply(u)
    BY <2>2, <2>3
  <2>5. u = t
    BY <1>1, <2>1, <2>4, ApplyAlone
  <2>6. ~Within(t) /\ ~Enter(t)
    BY <2>1 DEF Within, Enter, UnderWay
  <2>7. ~Finish(t, "done")
    BY <1>1, <2>1 DEF Finish, TypeInv, LocalShapes
  <2> QED
    BY <1>1, <2>1, <2>4, <2>5, <2>6, <2>7, ApplyPatch
<1>2. TypeInv /\ PatchInv /\ PatchesAreFlat /\ [Next]_vars =>
        [\A t \in Tasks : pc[t] # "done" /\ answer'[t] = "failed" /\ t \in UnderWay
                            => tree' = before[t]]_vars
  BY <1>1
<1>3. Spec /\ []PatchesAreFlat => []TypeInv /\ []PatchInv
  BY SpecTypeInv, SpecPatchInv
<1> QED
  BY <1>2, <1>3, PTL DEF Spec, FailedPatchRestores

\* It is enough that no path a patch may name is below another.
THEOREM UnnestedPatchesAreTransactions ==
  ASSUME \A p, q \in Named : p \notin Above[q]
  PROVE  Spec => PatchesAreTransactions
<1>1. TypeInv => PatchesAreFlat
  <2> SUFFICES ASSUME TypeInv, NEW t \in UnderWay PROVE Flat(NamedBy(patch[t]))
    BY DEF PatchesAreFlat
  <2>1. patch[t] \in Seq(Operations)
    BY DEF TypeInv, LocalShapes, UnderWay
  <2>2. NamedBy(patch[t]) \subseteq Named
    BY <2>1, SnapshotFacts
  <2> QED
    BY <2>2 DEF Flat
<1> QED
  BY <1>1, SpecTypeInv, FlatPatchesAreTransactions, PTL
=============================================================================
