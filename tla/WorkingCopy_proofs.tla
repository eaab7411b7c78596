------------------------- MODULE WorkingCopy_proofs -------------------------
(***************************************************************************)
(* The working copy agrees with its branch, for any paths, documents,      *)
(* branches and histories, whatever commands follow each other, are cut    *)
(* off, or meet a push of another clone: the table, what status tells, and *)
(* what a commit takes from the staging table.                             *)
(***************************************************************************)
EXTENDS WorkingCopy

\* The steps of each command.
StepsOf(kind) ==
  CASE kind = "none"     -> {"idle"}
    [] kind = "commit"   -> {"put", "table"}
    [] kind = "checkout" -> {"export", "switch", "refresh"}
    [] kind = "orphan"   -> {"export", "clear", "set", "remove"}
    [] kind = "merge"    -> {"export", "refresh"}
    [] kind = "pull"     -> {"sync", "export", "refresh"}

Ops ==
  [kind : {"none", "commit", "checkout", "orphan", "merge", "pull"},
   pc : {"idle", "put", "table", "sync", "export", "switch", "refresh", "clear", "set", "remove"},
   branch : Branches \union {None}, from : Branches \union {None}, tree : Trees,
   todo : SUBSET Branches, moved : BOOLEAN]

Types ==
  /\ files \in Trees /\ table \in Trees
  /\ staging \in [Paths -> Docs \union {Deleted, None}]
  /\ current \in Branches
  /\ IsRepository(commits, branches)
  /\ op \in Ops
  /\ edited \in SUBSET Paths /\ disturbed \in BOOLEAN
  /\ ops \in 0 .. MaxOps /\ incidents \in 0 .. MaxIncidents

\* What a command knows of branches at each of its steps.
UnderWay ==
  /\ op.pc \in StepsOf(op.kind)
  /\ IsIdle => op = Idle
  /\ ~IsIdle => op.branch \in Branches
  /\ op.kind \in {"commit", "merge", "pull"} \/ op.pc \in {"refresh", "remove"} => op.branch = current
  /\ op.kind \in {"checkout", "orphan"} => op.from \in Branches /\ StagedPaths = {}
  /\ op.kind \in {"checkout", "orphan"} /\ op.pc \notin {"refresh", "remove"} => op.from = current
  /\ op.moved => op.kind \in {"merge", "pull"}
  /\ op.moved \/ op.kind = "checkout" => branches[op.branch] # None

\* The steps at which the table need not be the tree of the current branch.
Behind == disturbed \/ op.moved \/ op.pc \in {"table", "refresh", "set"}

\* The commit that a commit command has made.
Recorded(c) ==
  /\ branches[op.branch] # None /\ c \in Ancestors(Parents, branches[op.branch])
  /\ commits[c].tree = op.tree

TableKnown ==
  /\ ~Behind => table = TreeAt(current)
  /\ op.pc \in {"set", "remove"} => table = EmptyTree
  /\ op.pc \in {"put", "table"} => op.tree = Overlay
  /\ op.pc = "table" => /\ ~disturbed => op.tree = TreeAt(current)
                        /\ \E c \in DOMAIN commits : Recorded(c)

\* A file that is not what a tree has is one the user may have changed.
KnownBut(tree, S) == \A p \in Paths \ S : files[p] # tree[p] => p \in edited

NewOrphan == branches[op.branch] = None

FilesKnown ==
  /\ \A p \in StagedPaths : files[p] # Overlay[p] => p \in edited
  /\ op.pc \in {"idle", "put", "table", "sync", "export"} \/ (op.pc = "clear" /\ NewOrphan) => KnownBut(table, {})
  /\ op.pc \in {"switch", "refresh"} => KnownBut(TreeAt(op.branch), {})
  /\ (op.pc = "set" /\ NewOrphan) \/ op.pc = "remove" => KnownBut(EmptyTree, Kept(TreeAt(op.from)))
  /\ disturbed => \/ edited = Paths
                  \/ op.pc \in {"switch", "refresh"}
                  \/ (op.pc \in {"clear", "set"} /\ ~NewOrphan)

IInv == Types /\ UnderWay /\ TableKnown /\ FilesKnown

-----------------------------------------------------------------------------
(* The repository: commits are added, never changed.                       *)

\* Between two states, the repository is the same but for new commits and
\* what branch b names.
Grown(b) ==
  /\ IsRepository(commits, branches)'
  /\ \A c \in DOMAIN commits : c \in DOMAIN commits' /\ commits'[c] = commits[c]
  /\ \A d \in Branches \ {b} : branches'[d] = branches[d]

\* A commit is added and a branch names it.
LEMMA CommitAppended ==
  ASSUME Types, NEW b \in Branches, NEW ps \in Seq(DOMAIN commits), NEW tree \in Trees,
         commits' = Append(commits, NewCommit(ps, tree)),
         branches' = [branches EXCEPT ![b] = Len(commits')]
  PROVE  /\ Grown(b) /\ branches'[b] = Len(commits') /\ branches'[b] \in DOMAIN commits'
         /\ commits'[branches'[b]] = NewCommit(ps, tree)
<1> DEFINE n == Len(commits)
<1>1. /\ commits \in Seq(CommitObjects) /\ n \in Nat /\ DOMAIN commits = 1 .. n
      /\ branches \in [Branches -> DOMAIN commits \union {None}]
      /\ \A c \in DOMAIN commits : \A i \in DOMAIN commits[c].parents : commits[c].parents[i] \in 1 .. (c - 1)
  BY DEF Types, IsRepository
<1>2. NewCommit(ps, tree) \in CommitObjects
  <2>1. ps \in Seq(Nat)
    BY <1>1
  <2>2. QED BY <2>1 DEF NewCommit, CommitObjects
<1>3. /\ commits' \in Seq(CommitObjects) /\ DOMAIN commits' = 1 .. (n + 1) /\ Len(commits') = n + 1
      /\ \A c \in 1 .. n : commits'[c] = commits[c]
      /\ commits'[n + 1] = NewCommit(ps, tree)
  BY <1>1, <1>2
<1>4. branches' \in [Branches -> DOMAIN commits' \union {None}]
  BY <1>1, <1>3
<1>5. ASSUME NEW c \in DOMAIN commits', NEW i \in DOMAIN commits'[c].parents
      PROVE  commits'[c].parents[i] \in 1 .. (c - 1)
  <2>1. CASE c = n + 1
    <3>1. commits'[c].parents = ps
      BY <2>1, <1>3 DEF NewCommit
    <3>2. ps[i] \in 1 .. n
      BY <3>1, <1>1, <1>5
    <3>3. QED BY <2>1, <3>1, <3>2, <1>1
  <2>2. CASE c # n + 1
    BY <2>2, <1>1, <1>3, <1>5
  <2>3. QED BY <2>1, <2>2
<1>6. IsRepository(commits, branches)'
  BY <1>3, <1>4, <1>5 DEF IsRepository
<1>7. QED BY <1>1, <1>3, <1>6 DEF Grown

\* A branch is moved to a commit that is there, or deleted.
LEMMA BranchMoved ==
  ASSUME Types, NEW b \in Branches, NEW c \in DOMAIN commits \union {None},
         UNCHANGED commits, branches' = [branches EXCEPT ![b] = c]
  PROVE  Grown(b) /\ branches'[b] = c
  BY DEF Types, IsRepository, Grown

\* Nothing happens to the repository.
LEMMA RepoUnchanged ==
  ASSUME Types, UNCHANGED repo, NEW b
  PROVE  Grown(b)
  BY DEF Types, IsRepository, Grown, repo

\* The tree of a branch that is not moved stays.
LEMMA TreesKept ==
  ASSUME Types, NEW b, Grown(b), NEW d \in Branches \ {b}
  PROVE  TreeAt(d)' = TreeAt(d)
<1>1. branches'[d] = branches[d] /\ branches[d] \in DOMAIN commits \union {None}
  BY DEF Types, IsRepository, Grown
<1>2. CASE branches[d] = None
  BY <1>1, <1>2 DEF TreeAt, EmptyTree
<1>3. CASE branches[d] # None
  BY <1>1, <1>3 DEF TreeAt, Grown
<1>4. QED BY <1>2, <1>3

\* A branch has a tree.
LEMMA TreeAtIsTree ==
  ASSUME IsRepository(commits, branches), NEW d \in Branches
  PROVE  TreeAt(d) \in Trees
<1>1. EmptyTree \in Trees
  BY DEF EmptyTree, Trees
<1>2. ASSUME branches[d] # None PROVE commits[branches[d]] \in CommitObjects
  <2>1. branches[d] \in DOMAIN commits
    BY <1>2 DEF IsRepository
  <2>2. commits \in Seq(CommitObjects)
    BY DEF IsRepository
  <2>3. DOMAIN commits = 1 .. Len(commits)
    BY <2>2
  <2>4. QED BY <2>1, <2>2, <2>3
<1>3. QED BY <1>1, <1>2 DEF TreeAt, CommitObjects

-----------------------------------------------------------------------------
(* Types.                                                                  *)

\* ... and the types.
LEMMA InitTypes == Init => Types
<1> SUFFICES ASSUME Init PROVE Types
  OBVIOUS
<1>1. PICK h \in Histories :
        /\ commits = h.commits /\ branches = h.branches
        /\ current = Main
        /\ files = TreeAt(Main) /\ table = TreeAt(Main)
        /\ staging = [p \in Paths |-> None]
        /\ op = Idle /\ edited = {} /\ disturbed = FALSE /\ ops = 0 /\ incidents = 0
  BY DEF Init
<1>2. IsRepository(commits, branches) /\ Main \in Branches
  BY <1>1, SessionsStart
<1>3. TreeAt(Main) \in Trees /\ EmptyTree \in Trees
  BY <1>2, TreeAtIsTree DEF EmptyTree, Trees
<1>4. Idle \in Ops
  BY <1>3 DEF Idle, Ops
<1>5. /\ staging \in [Paths -> Docs \union {Deleted, None}] /\ current \in Branches
      /\ files \in Trees /\ table \in Trees
  BY <1>1, <1>2, <1>3
<1>6. /\ edited \in SUBSET Paths /\ disturbed \in BOOLEAN
      /\ ops \in 0 .. MaxOps /\ incidents \in 0 .. MaxIncidents
  <2>1. ops = 0 /\ incidents = 0
    BY <1>1
  <2>2. edited = {} /\ disturbed = FALSE
    BY <1>1
  <2>3. ops \in 0 .. MaxOps /\ incidents \in 0 .. MaxIncidents
    BY <2>1, BoundsAreNatural
  <2>4. QED BY <2>2, <2>3
<1>7. QED BY <1>1, <1>2, <1>4, <1>5, <1>6 DEF Types

\* The parents of a commit that has at most one.
LEMMA RootOrChild ==
  ASSUME NEW S, NEW tip \in S \union {None}
  PROVE  (IF tip = None THEN <<>> ELSE <<tip>>) \in Seq(S)
<1>1. CASE tip = None
  BY <1>1
<1>2. CASE tip # None
  BY <1>2
<1>3. QED BY <1>1, <1>2

\* A fast-forward gives the branch a commit.
LEMMA BranchForwarded ==
  ASSUME Types, NEW b \in Branches, FastForward(b)
  PROVE  Grown(b) /\ branches'[b] \in DOMAIN commits'
<1> DEFINE tip == branches[b]
           ps == IF tip = None THEN <<>> ELSE <<tip>>
<1>1. CASE \E c \in DOMAIN commits : branches' = [branches EXCEPT ![b] = c] /\ UNCHANGED commits
  <2>1. PICK c \in DOMAIN commits : branches' = [branches EXCEPT ![b] = c] /\ UNCHANGED commits
    BY <1>1
  <2>2. QED BY <2>1, BranchMoved
<1>2. CASE \E tree \in Incoming : /\ commits' = Append(commits, NewCommit(ps, tree))
                                 /\ branches' = [branches EXCEPT ![b] = Len(commits')]
  <2>1. PICK tree \in Incoming : /\ commits' = Append(commits, NewCommit(ps, tree))
                                /\ branches' = [branches EXCEPT ![b] = Len(commits')]
    BY <1>2
  <2>2. tip \in DOMAIN commits \union {None}
    BY DEF Types, IsRepository
  <2>3. ps \in Seq(DOMAIN commits)
    BY <2>2, RootOrChild
  <2>4. tree \in Trees
    BY IncomingAreTrees
  <2>5. QED BY <2>1, <2>3, <2>4, CommitAppended
<1>3. QED BY <1>1, <1>2 DEF FastForward

\* Merge adds a commit of both tips, or moves the branch to the other tip.
LEMMA BranchMerged ==
  ASSUME Types, NEW b \in Branches, Merge(b)
  PROVE  Grown(current) /\ branches'[current] \in DOMAIN commits'
<1> DEFINE ours == branches[current]
           theirs == branches[b]
<1>1. ours \in DOMAIN commits /\ theirs \in DOMAIN commits /\ current \in Branches
  BY DEF Types, IsRepository, Merge
<1>2. CASE branches' = [branches EXCEPT ![current] = theirs] /\ UNCHANGED commits
  BY <1>1, <1>2, BranchMoved
<1>3. CASE \E tree \in Trees : /\ commits' = Append(commits, NewCommit(<<ours, theirs>>, tree))
                              /\ branches' = [branches EXCEPT ![current] = Len(commits')]
  <2>1. PICK tree \in Trees : /\ commits' = Append(commits, NewCommit(<<ours, theirs>>, tree))
                             /\ branches' = [branches EXCEPT ![current] = Len(commits')]
    BY <1>3
  <2>2. <<ours, theirs>> \in Seq(DOMAIN commits)
    BY <1>1
  <2>3. QED BY <1>1, <2>1, <2>2, CommitAppended
<1>4. QED BY <1>2, <1>3 DEF Merge, MergedTrees

\* The commit of `commit` has the tip as its parent.
LEMMA BranchCommitted ==
  ASSUME Types, UnderWay, CommitPut
  PROVE  /\ Grown(op.branch) /\ branches'[op.branch] \in DOMAIN commits'
         /\ commits'[branches'[op.branch]].tree = op.tree
         /\ branches'[op.branch] = Len(commits')
<1> DEFINE tip == branches[op.branch]
           ps == IF tip = None THEN <<>> ELSE <<tip>>
<1>1. op.branch \in Branches /\ op.tree \in Trees
  BY DEF Types, UnderWay, CommitPut, At, IsIdle, Ops
<1>2. branches \in [Branches -> DOMAIN commits \union {None}]
  BY DEF Types, IsRepository
<1>3. ps \in Seq(DOMAIN commits)
  BY <1>1, <1>2, RootOrChild
<1>4. /\ commits' = Append(commits, NewCommit(ps, op.tree))
      /\ branches' = [branches EXCEPT ![op.branch] = Len(commits')]
  BY DEF CommitPut
<1>5. PICK b \in Branches, tree \in Trees, s \in Seq(DOMAIN commits) :
        b = op.branch /\ tree = op.tree /\ s = ps
  BY <1>1, <1>3
<1>6. /\ commits' = Append(commits, NewCommit(s, tree))
      /\ branches' = [branches EXCEPT ![b] = Len(commits')]
  BY <1>4, <1>5
<1>7. /\ Grown(b) /\ branches'[b] = Len(commits') /\ branches'[b] \in DOMAIN commits'
      /\ commits'[branches'[b]] = NewCommit(s, tree)
  BY <1>6, CommitAppended
<1>8. QED BY <1>5, <1>7 DEF NewCommit

\* A step of a branch command moves a branch to another's tip, or deletes it.
LEMMA BranchPointed ==
  ASSUME Types, NEW b \in Branches, PointBranch(b), UNCHANGED commits
  PROVE  Grown(b) /\ branches'[b] = branches[current] /\ branches[current] # None
<1>1. branches[current] \in DOMAIN commits \union {None}
  BY DEF Types, IsRepository
<1>2. QED BY <1>1, BranchMoved DEF PointBranch

\* checkout --orphan deletes the branch.
LEMMA BranchDeleted ==
  ASSUME Types, NEW b \in Branches, DeleteBranch(b)
  PROVE  Grown(b) /\ branches'[b] = None
  BY BranchMoved DEF DeleteBranch

\* Whatever a step does to the repository, it is one.
LEMMA RepositoryStays ==
  ASSUME Types, UnderWay, [Next]_vars
  PROVE  \E b \in Branches : Grown(b)
<1>0. current \in Branches
  BY DEF Types
<1>1. ASSUME NEW b \in Branches, CreateBranch(b) \/ DeleteBranch(b) PROVE Grown(b)
  BY <1>1, BranchPointed, BranchDeleted DEF CreateBranch
<1>2. ASSUME NEW b \in Branches, NEW create \in BOOLEAN, Checkout(b, create) PROVE Grown(b)
  <2>1. CASE create
    BY <1>2, <2>1, BranchPointed DEF Checkout
  <2>2. CASE ~create
    BY <1>2, <2>2, RepoUnchanged DEF Checkout, repo
  <2>3. QED BY <2>1, <2>2
<1>3. ASSUME NEW b \in Branches, Merge(b) PROVE Grown(current)
  BY <1>3, BranchMerged
<1>4. ASSUME NEW b \in Branches, Receive(b) \/ PullRef(b) PROVE Grown(b)
  BY <1>4, BranchForwarded DEF Receive, PullRef
<1>5. ASSUME CommitPut PROVE op.branch \in Branches /\ Grown(op.branch)
  BY <1>5, BranchCommitted DEF UnderWay, CommitPut, At, IsIdle
<1>6. ASSUME \/ \E p \in Paths : Edit(p) \/ Add(p) \/ Rm(p) \/ Unstage(p) \/ Revert(p)
             \/ \E b \in Branches : Orphan(b)
             \/ CommitRead \/ CommitTable \/ Export \/ Switch \/ Refresh
             \/ OrphanClear \/ OrphanSwitch \/ OrphanRemove
             \/ Pull \/ PullFails \/ PullDone \/ Crash \/ UNCHANGED vars
      PROVE  Grown(current)
  <2>1. UNCHANGED repo
    BY <1>6 DEF Edit, Add, Rm, Unstage, Revert, Orphan, CommitRead, CommitTable, Export, Switch, Refresh,
       OrphanClear, OrphanSwitch, OrphanRemove, Pull, PullFails, PullDone, Crash, repo, vars
  <2>2. QED BY <2>1, RepoUnchanged
<1>7. QED BY <1>0, <1>1, <1>2, <1>3, <1>4, <1>5, <1>6 DEF Next

\* A command that starts, and one that goes on, is a command.
LEMMA OpsAreTyped ==
  /\ Idle \in Ops
  /\ \A o \in Ops : \A pc \in {"table", "export", "switch", "refresh", "clear", "set", "remove"} :
       [o EXCEPT !.pc = pc] \in Ops
<1>1. EmptyTree \in Trees
  BY DEF EmptyTree, Trees
<1>2. QED BY <1>1 DEF Idle, Ops

\* What is written to the files is a tree.
LEMMA ExportedIsTree ==
  ASSUME Types, UnderWay, Export \/ op.pc = "export"
  PROVE  Exported \in Trees
<1>1. PICK b \in Branches : b = op.branch
  BY DEF UnderWay, IsIdle, Export
<1>2. TreeAt(b) \in [Paths -> Docs \union {None}] /\ files \in [Paths -> Docs \union {None}]
  BY TreeAtIsTree DEF Types, Trees
<1>3. QED BY <1>1, <1>2 DEF Exported, Trees

\* The table with the staged changes is a tree.
LEMMA OverlayIsTree == Types => Overlay \in Trees
  BY DEF Types, Overlay, Trees

\* Every step keeps the variables in their types.
LEMMA TypeStays == Types /\ UnderWay /\ [Next]_vars => Types'
<1> SUFFICES ASSUME Types, UnderWay, [Next]_vars PROVE Types'
  OBVIOUS
<1>0. /\ IsRepository(commits, branches)'
      /\ EmptyTree \in Trees /\ Overlay \in Trees /\ op \in Ops /\ Idle \in Ops
      /\ \A b \in Branches : TreeAt(b) \in Trees
  BY RepositoryStays, OpsAreTyped, OverlayIsTree, TreeAtIsTree DEF Types, Grown, EmptyTree, Trees
<1> USE <1>0, BoundsAreNatural
<1>1. ASSUME Ready PROVE ops' \in 0 .. MaxOps
  BY <1>1 DEF Types, Ready
<1>2. ASSUME Incident PROVE incidents' \in 0 .. MaxIncidents
  BY <1>2 DEF Types, Incident
<1>3. ASSUME NEW p \in Paths, Edit(p) PROVE Types'
  <2>1. files' \in Trees /\ edited' \in SUBSET Paths
    BY <1>3 DEF Types, Edit, Trees
  <2>2. QED BY <1>1, <1>3, <2>1 DEF Types, Edit
<1>4. ASSUME NEW p \in Paths, Add(p) \/ Unstage(p) PROVE Types'
  <2>1. staging' \in [Paths -> Docs \union {Deleted, None}]
    BY <1>4 DEF Types, Add, Unstage, Trees
  <2>2. QED BY <1>1, <1>4, <2>1 DEF Types, Add, Unstage
<1>5. ASSUME NEW p \in Paths, Rm(p) PROVE Types'
  <2>1. /\ staging' \in [Paths -> Docs \union {Deleted, None}] /\ edited' \in SUBSET Paths
        /\ files' \in Trees
    BY <1>5 DEF Types, Rm, Trees
  <2>2. incidents' \in 0 .. MaxIncidents
    BY <1>2, <1>5 DEF Types, Rm
  <2>3. QED BY <1>1, <1>5, <2>1, <2>2 DEF Types, Rm
<1>6. ASSUME NEW p \in Paths, Revert(p) PROVE Types'
  <2>1. TreeAt(current) \in [Paths -> Docs \union {None}]
    BY DEF Types, Trees
  <2>2. /\ staging' \in [Paths -> Docs \union {Deleted, None}] /\ edited' \in SUBSET Paths
        /\ files' \in Trees
    BY <1>6, <2>1 DEF Types, Revert, Trees
  <2>3. QED BY <1>1, <1>6, <2>2 DEF Types, Revert
<1>7. CASE CommitRead
  <2>1. op' \in Ops
    BY <1>7 DEF CommitRead, Types, Idle, Ops
  <2>2. QED BY <1>1, <1>7, <2>1 DEF Types, CommitRead, repo
<1>8. CASE CommitPut
  <2>1. op' \in Ops
    BY <1>8, OpsAreTyped DEF CommitPut
  <2>2. QED BY <1>8, <2>1 DEF Types, CommitPut, disk
<1>9. CASE CommitTable
  <2>1. op.tree \in Trees
    BY DEF Ops
  <2>2. staging' \in [Paths -> Docs \union {Deleted, None}]
    BY <1>9 DEF CommitTable
  <2>3. QED BY <1>9, <2>1, <2>2 DEF Types, CommitTable, disk, repo
<1>10. ASSUME NEW b \in Branches, CreateBranch(b) \/ DeleteBranch(b) PROVE Types'
  BY <1>1, <1>10 DEF Types, CreateBranch, DeleteBranch
<1>11. ASSUME NEW b \in Branches, Orphan(b) \/ \E create \in BOOLEAN : Checkout(b, create) PROVE Types'
  <2>1. op' \in Ops
    <3>1. CASE Orphan(b)
      BY <3>1 DEF Orphan, Types, Idle, Ops
    <3>2. CASE \E create \in BOOLEAN : Checkout(b, create)
      BY <3>2, ZenonT(60) DEF Checkout, Types, Idle, Ops
    <3>3. QED BY <1>11, <3>1, <3>2
  <2>2. QED BY <1>1, <1>11, <2>1 DEF Types, Orphan, Checkout, repo
<1>12. ASSUME NEW b \in Branches, Merge(b) PROVE Types'
  <2>1. op' \in Ops
    BY <1>12 DEF Merge, Types, Idle, Ops
  <2>2. QED BY <1>1, <1>12, <2>1 DEF Types, Merge
<1>13. ASSUME NEW b \in Branches, Receive(b) PROVE Types'
  <2>1. edited' \in SUBSET Paths /\ disturbed' \in BOOLEAN
    BY <1>13 DEF Receive, Types
  <2>2. QED BY <1>2, <1>13, <2>1 DEF Types, Receive
<1>14. ASSUME NEW b \in Branches, PullRef(b) PROVE Types'
  <2>1. op' \in Ops
    BY <1>14 DEF PullRef, Ops
  <2>2. QED BY <1>14, <2>1 DEF Types, PullRef, disk
<1>15. CASE Export
  <2>1. Exported \in Trees
    BY <1>15, ExportedIsTree
  <2>2. op' \in Ops
    BY <1>15, OpsAreTyped DEF Export
  <2>3. edited' \in SUBSET Paths
    BY <1>15 DEF Export, Types, StagedPaths, Kept
  <2>4. QED BY <1>15, <2>1, <2>2, <2>3 DEF Types, Export, repo
<1>16. CASE Switch
  <2>1. op' \in Ops /\ op.branch \in Branches
    BY <1>16, OpsAreTyped DEF Switch, UnderWay, IsIdle
  <2>2. QED BY <1>16, <2>1 DEF Types, Switch, disk, repo
<1>17. CASE Refresh
  <2>1. op.branch \in Branches
    BY <1>17 DEF Refresh, UnderWay, IsIdle
  <2>2. QED BY <1>17, <2>1 DEF Types, Refresh, disk, repo
<1>18. CASE OrphanClear
  <2>1. op' \in Ops
    BY <1>18, OpsAreTyped DEF OrphanClear
  <2>2. QED BY <1>18, <2>1 DEF Types, OrphanClear, disk, repo
<1>19. CASE OrphanSwitch
  <2>1. op' \in Ops /\ op.branch \in Branches
    BY <1>19, OpsAreTyped DEF OrphanSwitch, UnderWay, IsIdle
  <2>2. edited' \in SUBSET Paths /\ disturbed' \in BOOLEAN
    BY <1>19 DEF Types, OrphanSwitch
  <2>3. QED BY <1>19, <2>1, <2>2 DEF Types, OrphanSwitch, repo
<1>20. CASE OrphanRemove
  <2>1. files' \in Trees
    BY <1>20 DEF OrphanRemove, Types, Trees
  <2>2. QED BY <1>20, <2>1 DEF Types, OrphanRemove, repo
<1>21. CASE Pull
  <2>1. op' \in Ops
    BY <1>21, ZenonT(60) DEF Pull, Types, Idle, Ops
  <2>2. QED BY <1>1, <1>21, <2>1 DEF Types, Pull, repo
<1>22. CASE PullFails
  <2>1. edited' \in SUBSET Paths /\ disturbed' \in BOOLEAN
    BY <1>22 DEF Types, PullFails, Ops
  <2>2. QED BY <1>22, <2>1 DEF Types, PullFails, repo
<1>23. CASE PullDone
  <2>1. op' \in Ops
    BY <1>23, OpsAreTyped DEF PullDone
  <2>2. QED BY <1>23, <2>1 DEF Types, PullDone, disk, repo
<1>24. CASE Crash
  <2>1. PICK S \in SUBSET Paths :
       /\ files' = [p \in Paths |-> IF op.pc = "export" /\ p \in S THEN Exported[p] ELSE files[p]]
       /\ table' = CASE op.pc = "table"   -> [p \in Paths |-> IF p \in S THEN op.tree[p] ELSE None]
                     [] op.pc = "refresh" -> [p \in Paths |-> IF p \in S THEN TreeAt(op.branch)[p] ELSE None]
                     [] OTHER             -> table
    BY <1>24 DEF Crash
  <2>2. op.pc = "export" => Exported \in [Paths -> Docs \union {None}]
    BY ExportedIsTree DEF Trees
  <2>3. files \in [Paths -> Docs \union {None}] /\ op.tree \in [Paths -> Docs \union {None}]
    BY DEF Types, Ops, Trees
  <2>4. op.pc = "refresh" => TreeAt(op.branch) \in [Paths -> Docs \union {None}]
    BY DEF UnderWay, IsIdle, Trees
  <2>5. files' \in Trees
    BY <2>1, <2>2, <2>3 DEF Trees
  <2>6. table' \in Trees
    BY <2>1, <2>3, <2>4 DEF Trees, Types
  <2>7. disturbed' \in BOOLEAN /\ edited' \in SUBSET Paths
    BY <1>24 DEF Crash, Types
  <2>8. QED BY <1>2, <1>24, <2>5, <2>6, <2>7 DEF Types, Crash, repo
<1>25. CASE UNCHANGED vars
  BY <1>25 DEF vars, Types
<1>26. QED
  BY <1>3, <1>4, <1>5, <1>6, <1>7, <1>8, <1>9, <1>10, <1>11, <1>12, <1>13, <1>14, <1>15, <1>16, <1>17,
     <1>18, <1>19, <1>20, <1>21, <1>22, <1>23, <1>24, <1>25 DEF Next

-----------------------------------------------------------------------------
(* What a command knows of branches.                                       *)

\* Between commands there is nothing to know.
LEMMA RestIsUnderWay == op' = Idle => UnderWay'
  BY DEF UnderWay, Idle, StepsOf, IsIdle

\* No branch goes away under a command.
LEMMA BranchesStay ==
  ASSUME Types, UnderWay, [Next]_vars, ~IsIdle
  PROVE  \A d \in Branches : branches[d] # None => branches'[d] # None
<1>1. ASSUME NEW b \in Branches, Grown(b), branches'[b] \in DOMAIN commits'
      PROVE  \A d \in Branches : branches[d] # None => branches'[d] # None
  <2>1. None \notin DOMAIN commits'
    BY <1>1, NoneIsNothing DEF Grown, IsRepository
  <2>2. QED BY <1>1, <2>1 DEF Grown
<1>2. ASSUME NEW b \in Branches, Receive(b) \/ PullRef(b)
      PROVE  \A d \in Branches : branches[d] # None => branches'[d] # None
  <2>1. Grown(b) /\ branches'[b] \in DOMAIN commits'
    BY <1>2, BranchForwarded DEF Receive, PullRef
  <2>2. QED BY <2>1, <1>1
<1>3. CASE CommitPut
  <2>1. PICK b \in Branches : b = op.branch
    BY <1>3 DEF UnderWay
  <2>2. Grown(b) /\ branches'[b] \in DOMAIN commits'
    BY <1>3, <2>1, BranchCommitted
  <2>3. QED BY <2>2, <1>1
<1>4. CASE UNCHANGED branches
  BY <1>4
<1>5. QED
  BY <1>2, <1>3, <1>4 DEF Next, Ready, Edit, Add, Rm, Unstage, Revert, CommitRead, CommitTable, CreateBranch,
     DeleteBranch, Orphan, Checkout, Merge, Export, Switch, Refresh, OrphanClear, OrphanSwitch, OrphanRemove,
     Pull, PullFails, PullDone, Crash, repo, vars

\* Every step keeps what its command knows of branches.
LEMMA UnderWayStays == Types /\ UnderWay /\ [Next]_vars => UnderWay'
<1> SUFFICES ASSUME Types, UnderWay, [Next]_vars PROVE UnderWay'
  OBVIOUS
<1>0. op \in Ops /\ current \in Branches /\ Types'
  BY TypeStays DEF Types
<1>1. ASSUME UNCHANGED op, Ready PROVE UnderWay'
  BY <1>1, RestIsUnderWay DEF Ready, UnderWay
<1>2. ASSUME \/ \E p \in Paths : Edit(p) \/ Add(p) \/ Rm(p) \/ Unstage(p) \/ Revert(p)
             \/ \E b \in Branches : CreateBranch(b) \/ DeleteBranch(b)
      PROVE  UnderWay'
  BY <1>1, <1>2 DEF Edit, Add, Rm, Unstage, Revert, CreateBranch, DeleteBranch
<1>3. CASE CommitTable \/ Refresh \/ OrphanRemove \/ PullFails \/ Crash
  BY <1>3, RestIsUnderWay DEF CommitTable, Refresh, OrphanRemove, PullFails, Crash
<1>4. CASE CommitRead
  BY <1>0, <1>4 DEF CommitRead, Idle, UnderWay, StepsOf, IsIdle, repo
<1>5. CASE CommitPut
  BY <1>0, <1>5 DEF CommitPut, At, UnderWay, StepsOf, IsIdle, Ops
<1>6. ASSUME NEW b \in Branches, NEW create \in BOOLEAN, Checkout(b, create) PROVE UnderWay'
  <2>1. branches'[b] # None
    <3>1. CASE create
      BY <1>6, <3>1, BranchPointed DEF Checkout
    <3>2. CASE ~create
      BY <1>6, <3>2 DEF Checkout
    <3>3. QED BY <3>1, <3>2
  <2>2. QED
    BY <1>0, <1>6, <2>1, NoneIsNothing DEF Checkout, Idle, UnderWay, StepsOf, IsIdle, StagedPaths
<1>7. ASSUME NEW b \in Branches, Orphan(b) PROVE UnderWay'
  BY <1>0, <1>7, NoneIsNothing DEF Orphan, Idle, UnderWay, StepsOf, IsIdle, StagedPaths, repo
<1>8. ASSUME NEW b \in Branches, Merge(b) PROVE UnderWay'
  <2>1. branches'[current] # None
    <3>1. Grown(current) /\ branches'[current] \in DOMAIN commits'
      BY <1>8, BranchMerged
    <3>2. QED BY <3>1, NoneIsNothing DEF Grown, IsRepository
  <2>2. QED BY <1>0, <1>8, <2>1 DEF Merge, Idle, UnderWay, StepsOf, IsIdle
<1>9. CASE Pull
  BY <1>0, <1>9 DEF Pull, Idle, UnderWay, StepsOf, IsIdle, repo
<1>10. ASSUME NEW b \in Branches, PullRef(b) PROVE UnderWay'
  <2>1. ~IsIdle /\ op.branch = current
    BY <1>10 DEF PullRef, At, IsIdle, UnderWay
  <2>2. branches[current] # None \/ b = current => branches'[current] # None
    <3>1. Grown(b) /\ branches'[b] \in DOMAIN commits'
      BY <1>10, BranchForwarded DEF PullRef
    <3>2. branches'[b] # None
      BY <3>1, NoneIsNothing DEF Grown, IsRepository
    <3>3. QED BY <1>0, <2>1, <3>2, BranchesStay
  <2>3. QED
    BY <1>0, <1>10, <2>1, <2>2 DEF PullRef, At, UnderWay, StepsOf, IsIdle, Ops
<1>11. ASSUME NEW b \in Branches, Receive(b) PROVE UnderWay'
  <2>1. CASE IsIdle
    BY <1>11, <2>1, RestIsUnderWay DEF Receive, UnderWay
  <2>2. CASE ~IsIdle
    <3>1. op.branch \in Branches /\ (branches[op.branch] # None => branches'[op.branch] # None)
      BY <2>2, BranchesStay DEF UnderWay
    <3>2. UNCHANGED <<op, current, staging>>
      BY <1>11 DEF Receive
    <3>3. QED BY <3>1, <3>2 DEF UnderWay, IsIdle, StagedPaths
  <2>3. QED BY <2>1, <2>2
<1>12. CASE Export
  BY <1>0, <1>12 DEF Export, UnderWay, StepsOf, IsIdle, StagedPaths, Ops, repo
<1>13. CASE Switch
  BY <1>0, <1>13 DEF Switch, UnderWay, StepsOf, IsIdle, StagedPaths, Ops, repo
<1>14. CASE OrphanClear
  BY <1>0, <1>14 DEF OrphanClear, UnderWay, StepsOf, IsIdle, StagedPaths, Ops, repo
<1>15. CASE OrphanSwitch
  BY <1>0, <1>15 DEF OrphanSwitch, UnderWay, StepsOf, IsIdle, StagedPaths, Ops, repo
<1>16. CASE PullDone
  BY <1>0, <1>16 DEF PullDone, At, UnderWay, StepsOf, IsIdle, StagedPaths, Ops, repo
<1>17. CASE UNCHANGED vars
  BY <1>17 DEF vars, UnderWay, IsIdle, StagedPaths
<1>18. QED
  BY <1>2, <1>3, <1>4, <1>5, <1>6, <1>7, <1>8, <1>9, <1>10, <1>11, <1>12, <1>13, <1>14, <1>15, <1>16, <1>17
     DEF Next

-----------------------------------------------------------------------------
(* Histories only grow.                                                    *)

\* The parents of commits are commits.
LEMMA ParentsAreTyped ==
  ASSUME NEW cs, NEW bs, IsRepository(cs, bs)
  PROVE  [c \in DOMAIN cs |-> cs[c].parents] \in [DOMAIN cs -> Seq(DOMAIN cs)]
<1>1. DOMAIN cs = 1 .. Len(cs) /\ Len(cs) \in Nat
  BY DEF IsRepository
<1>2. ASSUME NEW c \in DOMAIN cs PROVE cs[c].parents \in Seq(DOMAIN cs)
  <2>1. cs[c] \in CommitObjects
    BY <1>1 DEF IsRepository
  <2>2. cs[c].parents \in Seq(Nat)
    BY <2>1 DEF CommitObjects
  <2>3. \A i \in DOMAIN cs[c].parents : cs[c].parents[i] \in DOMAIN cs
    BY <1>1 DEF IsRepository
  <2>4. PICK s \in Seq(Nat) : s = cs[c].parents /\ \A i \in DOMAIN s : s[i] \in DOMAIN cs
    BY <2>2, <2>3
  <2>5. s \in [1 .. Len(s) -> DOMAIN cs] /\ Len(s) \in Nat
    BY <2>4
  <2>6. s \in [1 .. Len(s) -> DOMAIN cs] => s \in Seq(DOMAIN cs)
    BY ONLY <2>5
  <2>7. QED BY ONLY <2>4, <2>5, <2>6
<1>3. QED BY <1>2

\* What was an ancestor of a commit is one of it for ever.
LEMMA HistoriesGrow ==
  ASSUME Types, NEW b, Grown(b), NEW c \in DOMAIN commits
  PROVE  Ancestors(Parents, c) \subseteq Ancestors(Parents, c)'
<1>1. Parents \in [DOMAIN commits -> Seq(DOMAIN commits)]
  BY ParentsAreTyped DEF Types, Parents
<1>2. Parents' \in [DOMAIN commits' -> Seq(DOMAIN commits')]
  BY ParentsAreTyped DEF Grown, Parents
<1>3. \A x \in DOMAIN commits : x \in DOMAIN commits' /\ Parents'[x] = Parents[x]
  BY DEF Grown, Parents
<1>4. PICK C, D, par, more : C = DOMAIN commits /\ D = DOMAIN commits' /\ par = Parents /\ more = Parents'
  OBVIOUS
<1>5. /\ par \in [C -> Seq(C)] /\ more \in [D -> Seq(D)] /\ c \in C
      /\ C \subseteq D /\ \A x \in C : more[x] = par[x]
  BY <1>1, <1>2, <1>3, <1>4
<1>6. Ancestors(par, c) \subseteq Ancestors(more, c)
  BY <1>5, AncestorsGrow
<1>7. QED BY <1>4, <1>6

\* A commit is in its own history.
LEMMA OwnHistory ==
  ASSUME NEW b, Grown(b), NEW c \in DOMAIN commits'
  PROVE  c \in Ancestors(Parents', c)
<1>1. Parents' \in [DOMAIN commits' -> Seq(DOMAIN commits')]
  BY ParentsAreTyped DEF Grown, Parents
<1>2. QED BY <1>1, AncestorsClosed

\* A fast-forward keeps the history of the branch.
LEMMA ForwardKeepsHistory ==
  ASSUME Types, NEW b \in Branches, FastForward(b), branches[b] # None
  PROVE  Ancestors(Parents, branches[b]) \subseteq Ancestors(Parents', branches'[b])
<1> DEFINE tip == branches[b]
<1>1. tip \in DOMAIN commits /\ Grown(b) /\ branches'[b] \in DOMAIN commits'
  BY BranchForwarded DEF Types, IsRepository
<1>2. Parents' \in [DOMAIN commits' -> Seq(DOMAIN commits')]
  BY <1>1, ParentsAreTyped DEF Grown, Parents
<1>3. tip \in Ancestors(Parents', branches'[b])
  <2>1. CASE \E c \in DOMAIN commits : /\ Descends(c, tip) /\ UNCHANGED commits
                                      /\ branches' = [branches EXCEPT ![b] = c]
    <3>1. PICK c \in DOMAIN commits : /\ Descends(c, tip) /\ UNCHANGED commits
                                     /\ branches' = [branches EXCEPT ![b] = c]
      BY <2>1
    <3>2. tip \in Ancestors(Parents, c) /\ Parents' = Parents /\ branches'[b] = c
      BY <3>1 DEF Descends, Parents, Types, IsRepository
    <3>3. QED BY <3>2
  <2>2. CASE \E tree \in Incoming : /\ commits' = Append(commits, NewCommit(<<tip>>, tree))
                                   /\ branches' = [branches EXCEPT ![b] = Len(commits')]
    <3>1. PICK tree \in Incoming : /\ commits' = Append(commits, NewCommit(<<tip>>, tree))
                                  /\ branches' = [branches EXCEPT ![b] = Len(commits')]
      BY <2>2
    <3>2. tree \in Trees /\ <<tip>> \in Seq(DOMAIN commits)
      BY <1>1, IncomingAreTrees
    <3>3. commits'[branches'[b]] = NewCommit(<<tip>>, tree)
      BY <3>1, <3>2, CommitAppended
    <3>4. PICK n : n = branches'[b] /\ n \in DOMAIN commits'
      BY <1>1
    <3>5. Parents'[n] = <<tip>>
      BY <3>3, <3>4 DEF Parents, NewCommit
    <3>6. tip \in ParentsOf(Parents', n)
      BY <3>5 DEF ParentsOf
    <3>7. n \in Ancestors(Parents', n) /\ ParentsOf(Parents', n) \subseteq Ancestors(Parents', n)
      BY <1>2, <3>4, AncestorsClosed
    <3>8. QED BY <3>4, <3>6, <3>7
  <2>3. QED BY <2>1, <2>2 DEF FastForward
<1>4. Ancestors(Parents', tip) \subseteq Ancestors(Parents', branches'[b])
  BY <1>1, <1>2, <1>3, AncestorsTransitive
<1>5. Ancestors(Parents, tip) \subseteq Ancestors(Parents', tip)
  <2>1. PICK c \in DOMAIN commits : c = tip
    BY <1>1
  <2>2. Ancestors(Parents, c) \subseteq Ancestors(Parents', c)
    BY <1>1, HistoriesGrow
  <2>3. QED BY <2>1, <2>2
<1>6. QED BY <1>4, <1>5

\* A push of another clone leaves the commit of a commit command where it is.
LEMMA RecordedStays ==
  ASSUME Types, NEW b \in Branches, FastForward(b), UNCHANGED op, op.branch \in Branches,
         NEW c \in DOMAIN commits, Recorded(c)
  PROVE  c \in DOMAIN commits' /\ Recorded(c)'
<1>1. PICK d \in Branches : d = op.branch
  OBVIOUS
<1>2. PICK tip \in DOMAIN commits : tip = branches[d]
  BY <1>1 DEF Recorded, Types, IsRepository
<1>3. Grown(b) /\ branches'[b] \in DOMAIN commits' /\ None \notin DOMAIN commits'
  <2>1. Grown(b) /\ branches'[b] \in DOMAIN commits'
    BY BranchForwarded
  <2>2. QED BY <2>1, NoneIsNothing DEF Grown, IsRepository
<1>4. c \in DOMAIN commits' /\ commits'[c] = commits[c] /\ tip \in DOMAIN commits'
  BY <1>3 DEF Grown
<1>5. c \in Ancestors(Parents, tip) /\ commits[c].tree = op.tree
  BY <1>1, <1>2 DEF Recorded
<1>6. branches'[d] # None /\ c \in Ancestors(Parents', branches'[d])
  <2>1. CASE d = b
    <3>1. branches[b] # None
      BY <1>1, <2>1 DEF Recorded
    <3>2. Ancestors(Parents, branches[b]) \subseteq Ancestors(Parents', branches'[b])
      BY <3>1, ForwardKeepsHistory
    <3>3. QED BY <1>2, <1>3, <1>5, <2>1, <3>2
  <2>2. CASE d # b
    <3>1. branches'[d] = tip
      BY <1>2, <1>3, <2>2 DEF Grown
    <3>2. Ancestors(Parents, tip) \subseteq Ancestors(Parents', tip)
      BY <1>3, HistoriesGrow
    <3>3. QED BY <1>3, <1>4, <1>5, <3>1, <3>2
  <2>3. QED BY <2>1, <2>2
<1>7. QED BY <1>1, <1>4, <1>5, <1>6 DEF Recorded

-----------------------------------------------------------------------------
(* The table.                                                              *)

\* A command that starts leaves the table as it is.
LEMMA TableKnownAtStart ==
  ASSUME Types, UnderWay, TableKnown, IsIdle, UNCHANGED <<table, current, disturbed>>,
         TreeAt(current)' = TreeAt(current),
         op'.pc \notin {"set", "remove", "put", "table"}
  PROVE  TableKnown'
<1>1. op.moved = FALSE /\ op.pc = "idle"
  BY DEF UnderWay, Idle, IsIdle
<1>2. ~Behind' => ~Behind
  BY <1>1 DEF Behind
<1>3. QED BY <1>2 DEF TableKnown

\* Pointing a branch at the current branch's tip changes no tree of it.
LEMMA PointedKeepsTree ==
  ASSUME Types, NEW b \in Branches, PointBranch(b), UNCHANGED <<commits, current>>
  PROVE  TreeAt(current)' = TreeAt(current)
<1>1. branches'[current] = branches[current]
  BY DEF PointBranch, Types, IsRepository
<1>2. QED BY <1>1 DEF TreeAt, EmptyTree

\* Every step keeps what is known of the table.
LEMMA TableKnownStays ==
  ASSUME Types, UnderWay, TableKnown, [Next]_vars
  PROVE  TableKnown'
<1>0. op \in Ops /\ current \in Branches /\ (IsIdle => op.pc = "idle" /\ ~op.moved)
  BY DEF Types, UnderWay, Idle, IsIdle
<1>1. ASSUME \/ \E p \in Paths : Edit(p) \/ Add(p) \/ Rm(p) \/ Unstage(p) \/ Revert(p)
             \/ \E b \in Branches : Orphan(b)
             \/ Pull
      PROVE  TableKnown'
  <2>1. /\ IsIdle /\ UNCHANGED <<table, current, disturbed, repo>>
        /\ op'.pc \notin {"set", "remove", "put", "table"}
    BY <1>0, <1>1 DEF Ready, Edit, Add, Rm, Unstage, Revert, Orphan, Pull, Idle
  <2>2. TreeAt(current)' = TreeAt(current)
    BY <2>1 DEF TreeAt, EmptyTree, repo
  <2>3. QED BY <2>1, <2>2, TableKnownAtStart
<1>2. ASSUME NEW b \in Branches, CreateBranch(b) \/ DeleteBranch(b) \/ \E create \in BOOLEAN : Checkout(b, create)
      PROVE  TableKnown'
  <2>1. /\ IsIdle /\ UNCHANGED <<table, current, disturbed, commits>>
        /\ op'.pc \notin {"set", "remove", "put", "table"}
    BY <1>0, <1>2 DEF Ready, CreateBranch, DeleteBranch, Checkout, Idle
  <2>2. TreeAt(current)' = TreeAt(current)
    <3>1. CASE PointBranch(b)
      BY <2>1, <3>1, PointedKeepsTree
    <3>2. CASE DeleteBranch(b)
      BY <1>0, <2>1, <3>2 DEF DeleteBranch, TreeAt, EmptyTree, Types, IsRepository
    <3>3. CASE UNCHANGED branches
      BY <2>1, <3>3 DEF TreeAt, EmptyTree
    <3>4. QED BY <1>2, <3>1, <3>2, <3>3 DEF CreateBranch, Checkout
  <2>3. QED BY <2>1, <2>2, TableKnownAtStart
<1>3. CASE CommitRead
  <2>1. /\ op' = [Idle EXCEPT !.kind = "commit", !.pc = "put", !.branch = current, !.tree = Overlay]
        /\ IsIdle /\ UNCHANGED <<table, staging, current, repo, disturbed>>
    BY <1>3 DEF CommitRead, Ready
  <2>2. op'.pc = "put" /\ op'.tree = Overlay /\ op'.moved = FALSE
    BY <2>1 DEF Idle
  <2>3. TreeAt(current)' = TreeAt(current) /\ Overlay' = Overlay
    BY <2>1 DEF TreeAt, EmptyTree, Overlay, repo
  <2>4. ~Behind' => ~Behind
    BY <1>0, <2>1, <2>2 DEF Behind
  <2>5. QED BY <2>1, <2>2, <2>3, <2>4 DEF TableKnown
<1>4. CASE CommitPut
  <2>1. PICK b \in Branches : b = op.branch /\ b = current
    BY <1>0, <1>4 DEF CommitPut, At, UnderWay
  <2>2. /\ Grown(b) /\ branches'[b] \in DOMAIN commits' /\ branches'[b] = Len(commits')
        /\ commits'[branches'[b]].tree = op.tree
    BY <1>4, <2>1, BranchCommitted
  <2>3. /\ op' = [op EXCEPT !.pc = "table"] /\ UNCHANGED <<table, staging, current>>
        /\ op.pc = "put"
    BY <1>4 DEF CommitPut, At
  <2>4. op'.pc = "table" /\ op'.tree = op.tree /\ op'.branch = b
    BY <1>0, <2>1, <2>3 DEF Ops
  <2>5. op'.tree = Overlay'
    BY <2>3, <2>4 DEF TableKnown, Overlay
  <2>6. branches'[b] # None
    BY <2>2, NoneIsNothing DEF Grown, IsRepository
  <2>7. op'.tree = TreeAt(current)'
    BY <2>1, <2>2, <2>3, <2>4, <2>6 DEF TreeAt
  <2>8. \E c \in DOMAIN commits' : Recorded(c)'
    <3>1. PICK c \in DOMAIN commits' : c = branches'[b]
      BY <2>2
    <3>2. c \in Ancestors(Parents', c)
      BY <2>2, OwnHistory
    <3>3. Recorded(c)'
      BY <2>2, <2>4, <2>6, <3>1, <3>2 DEF Recorded
    <3>4. QED BY <3>3
  <2>9. QED BY <2>4, <2>5, <2>7, <2>8 DEF TableKnown, Behind
<1>5. CASE CommitTable
  <2>1. /\ op.pc = "table" /\ op.kind = "commit" /\ table' = op.tree /\ op' = Idle
        /\ UNCHANGED <<current, repo, disturbed>>
    BY <1>5 DEF CommitTable, At
  <2>2. TreeAt(current)' = TreeAt(current)
    BY <2>1 DEF TreeAt, EmptyTree, repo
  <2>3. QED BY <2>1, <2>2 DEF TableKnown, Behind, Idle
<1>6. ASSUME NEW b \in Branches, Merge(b) PROVE TableKnown'
  BY <1>6 DEF Merge, Idle, TableKnown, Behind
<1>7. ASSUME NEW b \in Branches, PullRef(b) PROVE TableKnown'
  <2>1. /\ Grown(b) /\ op.pc = "sync" /\ UNCHANGED <<table, staging, current, disturbed>>
        /\ op' = [op EXCEPT !.todo = @ \ {b}, !.moved = @ \/ b = current]
    BY <1>7, BranchForwarded DEF PullRef, At
  <2>2. op'.pc = "sync" /\ (op'.moved <=> op.moved \/ b = current)
    BY <1>0, <2>1 DEF Ops
  <2>3. CASE b = current
    BY <2>2, <2>3 DEF TableKnown, Behind
  <2>4. CASE b # current
    <3>1. TreeAt(current)' = TreeAt(current)
      <4>1. PICK d \in Branches \ {b} : d = current
        BY <1>0, <2>4
      <4>2. TreeAt(d)' = TreeAt(d)
        BY <2>1, TreesKept
      <4>3. QED BY <2>1, <4>1, <4>2 DEF TreeAt
    <3>2. ~Behind' => ~Behind
      BY <2>1, <2>2 DEF Behind
    <3>3. QED BY <2>1, <2>2, <3>1, <3>2 DEF TableKnown
  <2>5. QED BY <2>3, <2>4
<1>8. CASE PullFails \/ PullDone
  <2>1. /\ op.pc = "sync" /\ op'.pc \in {"idle", "export"} /\ UNCHANGED <<table, current, repo>>
        /\ ~Behind' => ~Behind
    <3>1. CASE PullFails
      <4>1. /\ op.pc = "sync" /\ op' = Idle /\ UNCHANGED <<table, current, repo>>
            /\ disturbed' = (disturbed \/ op.moved)
        BY <3>1 DEF PullFails, At
      <4>2. op'.pc = "idle" /\ op'.moved = FALSE
        BY <4>1 DEF Idle
      <4>3. QED BY <4>1, <4>2 DEF Behind
    <3>2. CASE PullDone
      <4>1. /\ op.pc = "sync" /\ op'.pc = "export" /\ op'.moved = op.moved
            /\ UNCHANGED <<table, current, repo, disturbed>>
        BY <1>0, <3>2 DEF PullDone, At, Ops
      <4>2. QED BY <4>1 DEF Behind
    <3>3. QED BY <1>8, <3>1, <3>2
  <2>2. TreeAt(current)' = TreeAt(current)
    BY <2>1 DEF TreeAt, EmptyTree, repo
  <2>3. QED BY <2>1, <2>2 DEF TableKnown
<1>9. CASE Export
  <2>1. /\ op.pc = "export" /\ op'.pc \in {"switch", "clear", "refresh"} /\ op'.moved = op.moved
        /\ UNCHANGED <<table, current, repo, disturbed>>
    BY <1>0, <1>9 DEF Export, Ops
  <2>2. TreeAt(current)' = TreeAt(current)
    BY <2>1 DEF TreeAt, EmptyTree, repo
  <2>3. QED BY <2>1, <2>2 DEF TableKnown, Behind
<1>10. CASE Switch
  BY <1>0, <1>10 DEF Switch, TableKnown, Behind, Ops
<1>11. CASE Refresh
  <2>1. /\ op.pc = "refresh" /\ op.branch = current /\ op' = Idle /\ table' = TreeAt(op.branch)
        /\ UNCHANGED <<current, repo>>
    BY <1>11 DEF Refresh, UnderWay
  <2>2. TreeAt(current)' = TreeAt(current)
    BY <2>1 DEF TreeAt, EmptyTree, repo
  <2>3. QED BY <2>1, <2>2 DEF TableKnown, Idle
<1>12. CASE OrphanClear
  <2>1. op'.pc = "set" /\ table' = EmptyTree
    BY <1>0, <1>12 DEF OrphanClear, Ops
  <2>2. EmptyTree' = EmptyTree
    BY DEF EmptyTree
  <2>3. QED BY <2>1, <2>2 DEF TableKnown, Behind
<1>13. CASE OrphanSwitch
  <2>1. /\ op.pc = "set" /\ op'.pc = "remove" /\ op'.branch = op.branch /\ UNCHANGED <<table, repo>>
        /\ current' = op.branch /\ disturbed' = (branches[op.branch] # None)
    BY <1>0, <1>13 DEF OrphanSwitch, Ops
  <2>2. table' = EmptyTree /\ EmptyTree' = EmptyTree
    BY <2>1 DEF TableKnown, EmptyTree
  <2>3. ~disturbed' => TreeAt(current)' = EmptyTree
    BY <2>1, <2>2 DEF TreeAt, repo
  <2>4. QED BY <2>1, <2>2, <2>3 DEF TableKnown, Behind
<1>14. CASE OrphanRemove
  <2>1. /\ op.pc = "remove" /\ op.moved = FALSE /\ op' = Idle
        /\ UNCHANGED <<table, current, repo, disturbed>>
    BY <1>0, <1>14 DEF OrphanRemove, UnderWay, StepsOf, Ops
  <2>2. TreeAt(current)' = TreeAt(current)
    BY <2>1 DEF TreeAt, EmptyTree, repo
  <2>3. QED BY <2>1, <2>2 DEF TableKnown, Behind, Idle
<1>15. ASSUME NEW b \in Branches, Receive(b) PROVE TableKnown'
  <2>1. /\ FastForward(b) /\ Grown(b) /\ UNCHANGED <<table, staging, current, op>>
        /\ disturbed' = (disturbed \/ b = current)
    BY <1>15, BranchForwarded DEF Receive
  <2>2. b # current => TreeAt(current)' = TreeAt(current)
    <3>1. ASSUME b # current PROVE TreeAt(current)' = TreeAt(current)
      <4>1. PICK d \in Branches \ {b} : d = current
        BY <1>0, <3>1
      <4>2. TreeAt(d)' = TreeAt(d)
        BY <2>1, TreesKept
      <4>3. QED BY <2>1, <4>1, <4>2 DEF TreeAt
    <3>2. QED BY <3>1
  <2>3. op.pc = "table" => \E c \in DOMAIN commits' : Recorded(c)'
    <3>1. ASSUME op.pc = "table" PROVE \E c \in DOMAIN commits' : Recorded(c)'
      <4>1. PICK c \in DOMAIN commits : Recorded(c)
        BY <3>1 DEF TableKnown
      <4>2. op.branch \in Branches
        BY <3>1 DEF UnderWay, IsIdle
      <4>3. c \in DOMAIN commits' /\ Recorded(c)'
        BY <2>1, <4>1, <4>2, RecordedStays
      <4>4. QED BY <4>3
    <3>2. QED BY <3>1
  <2>4. Overlay' = Overlay /\ EmptyTree' = EmptyTree /\ (~Behind' => ~Behind /\ b # current)
    BY <2>1 DEF Overlay, EmptyTree, Behind
  <2>5. ~disturbed' => ~disturbed /\ b # current
    BY <2>1
  <2>6. QED BY <2>1, <2>2, <2>3, <2>4, <2>5 DEF TableKnown
<1>16. CASE Crash
  <2>1. op' = Idle /\ UNCHANGED <<current, repo>> /\ disturbed' = Behind
    BY <1>16 DEF Crash, Behind
  <2>2. TreeAt(current)' = TreeAt(current)
    BY <2>1 DEF TreeAt, EmptyTree, repo
  <2>3. ~Behind => table' = table
    BY <1>16 DEF Crash, Behind
  <2>4. QED BY <2>1, <2>2, <2>3 DEF TableKnown, Behind, Idle
<1>17. CASE UNCHANGED vars
  BY <1>17 DEF vars, TableKnown, Behind, TreeAt, EmptyTree, Overlay, Recorded, Parents
<1>18. QED
  BY <1>1, <1>2, <1>3, <1>4, <1>5, <1>6, <1>7, <1>8, <1>9, <1>10, <1>11, <1>12, <1>13, <1>14, <1>15, <1>16, <1>17
     DEF Next

-----------------------------------------------------------------------------
(* The files.                                                              *)

Resting == {"idle", "put", "table", "sync", "export"}

\* If the user may have changed every file there is nothing to know.
LEMMA AllEdited == edited' = Paths => FilesKnown'
  BY DEF FilesKnown, KnownBut, StagedPaths

\* A step that leaves files, table and staging alone.
LEMMA FilesKnownKept ==
  ASSUME FilesKnown, op.pc \in Resting, op'.pc \in Resting, disturbed' => disturbed,
         UNCHANGED <<files, table, staging, edited>>
  PROVE  FilesKnown'
<1>1. KnownBut(table, {})' /\ StagedPaths' = StagedPaths /\ Overlay' = Overlay
  BY DEF FilesKnown, KnownBut, Resting, StagedPaths, Overlay
<1>2. disturbed => edited = Paths
  BY DEF FilesKnown, Resting
<1>3. QED BY <1>1, <1>2 DEF FilesKnown, Resting

\* What the commands of a session do to one path at a time.
LEMMA PathKnown ==
  ASSUME Types, Types', FilesKnown, op.pc = "idle", op'.pc = "idle", UNCHANGED <<table, disturbed>>, NEW p \in Paths,
         \A q \in Paths \ {p} : /\ files'[q] = files[q] /\ staging'[q] = staging[q]
                                /\ q \in edited => q \in edited',
         staging'[p] # None /\ files'[p] # Overlay'[p] => p \in edited',
         files'[p] # table[p] => p \in edited',
         disturbed /\ p \in edited => p \in edited'
  PROVE  FilesKnown'
<1>1. KnownBut(table, {})'
  BY DEF FilesKnown, KnownBut
<1>2. \A q \in StagedPaths' : files'[q] # Overlay'[q] => q \in edited'
  <2> SUFFICES ASSUME NEW q \in Paths, staging'[q] # None, files'[q] # Overlay'[q] PROVE q \in edited'
    BY DEF StagedPaths
  <2>1. CASE q = p
    BY <2>1
  <2>2. CASE q # p
    <3>1. Overlay'[q] = Overlay[q] /\ q \in StagedPaths
      BY <2>2 DEF Overlay, StagedPaths
    <3>2. QED BY <2>2, <3>1 DEF FilesKnown
  <2>3. QED BY <2>1, <2>2
<1>3. disturbed' => edited' = Paths
  BY DEF FilesKnown, Types
<1>4. QED BY <1>1, <1>2, <1>3 DEF FilesKnown

\* An export writes the new tree, and takes away what the branch it leaves
\* had: a file that differs from the tree is one it does not know.
LEMMA ExportKnown ==
  ASSUME Types, UnderWay, TableKnown, FilesKnown, Export
  PROVE  FilesKnown'
<1> DEFINE new == TreeAt(op.branch)
           kind == op.kind
<1>0. /\ op \in Ops /\ op.pc = "export" /\ current \in Branches /\ op.branch \in Branches
      /\ kind \in {"checkout", "orphan", "merge", "pull"}
      /\ files' = Exported
      /\ op' = [op EXCEPT !.pc = CASE kind = "checkout" -> "switch"
                                   [] kind = "orphan"   -> "clear"
                                   [] OTHER             -> "refresh"]
      /\ UNCHANGED <<table, staging, current, repo, disturbed>>
  BY DEF Types, UnderWay, Export, IsIdle, StepsOf, Ops
<1>1. /\ op'.pc = CASE kind = "checkout" -> "switch" [] kind = "orphan" -> "clear" [] OTHER -> "refresh"
      /\ op'.branch = op.branch /\ op'.from = op.from
  BY <1>0 DEF Ops
<1>2. /\ \A p \in Paths : files[p] # table[p] => p \in edited
      /\ disturbed => edited = Paths
  BY <1>0 DEF FilesKnown, KnownBut
<1>3. ~disturbed /\ ~op.moved => table = TreeAt(current)
  BY <1>0 DEF TableKnown, Behind
<1>4. new' = new /\ StagedPaths' = StagedPaths /\ NewOrphan' = NewOrphan
  BY <1>0, <1>1 DEF TreeAt, EmptyTree, StagedPaths, NewOrphan, repo
<1>5. CASE branches[op.branch] = None
  <2>1. files' = files /\ edited' = edited
    BY <1>0, <1>5 DEF Exported, Export
  <2>2. kind # "checkout" /\ ~op.moved
    BY <1>5 DEF UnderWay
  <2>3. Overlay' = Overlay
    BY <1>0 DEF Overlay
  <2>4. kind # "orphan" => KnownBut(new, {})'
    <3>1. ASSUME kind # "orphan", NEW p \in Paths, files[p] # new[p] PROVE p \in edited
      <4>1. op.branch = current
        BY <1>0, <2>2, <3>1 DEF UnderWay
      <4>2. QED BY <1>2, <1>3, <2>2, <3>1, <4>1
    <3>2. QED BY <1>4, <2>1, <3>1 DEF KnownBut
  <2>5. KnownBut(table, {})'
    BY <1>0, <1>2, <2>1 DEF KnownBut
  <2>6. QED BY <1>0, <1>1, <1>2, <1>4, <2>1, <2>2, <2>3, <2>4, <2>5 DEF FilesKnown
<1>6. CASE branches[op.branch] # None
  <2>1. files' = [p \in Paths |-> IF new[p] # None THEN new[p]
                                 ELSE IF p \in LeftBehind THEN None ELSE files[p]]
    BY <1>0, <1>6 DEF Exported
  <2>2. edited' = StagedPaths \union (edited \ (Kept(new) \union LeftBehind))
                     \union (IF kind = "pull" THEN Kept(table) \ Kept(new) ELSE {})
    BY <1>6 DEF Export
  <2>3. KnownBut(new, {})'
    <3> SUFFICES ASSUME NEW p \in Paths, files'[p] # new[p] PROVE p \in edited'
      BY <1>4 DEF KnownBut
    <3>1. new[p] = None /\ p \notin LeftBehind /\ files[p] # None
      BY <2>1
    <3>2. p \notin Kept(new)
      BY <3>1 DEF Kept
    <3>3. CASE p \in edited
      BY <2>2, <3>1, <3>2, <3>3
    <3>4. CASE p \notin edited
      <4>1. ~disturbed /\ p \in Kept(table)
        BY <1>2, <3>1, <3>4 DEF Kept
      <4>2. kind # "merge"
        BY <3>1, <4>1 DEF LeftBehind
      <4>3. kind \notin {"checkout", "orphan"}
        <5>1. ASSUME kind \in {"checkout", "orphan"} PROVE FALSE
          <6>1. LeftBehind = Kept(TreeAt(op.from)) /\ op.from = current /\ ~op.moved
            BY <1>0, <5>1 DEF LeftBehind, UnderWay
          <6>2. QED BY <1>3, <3>1, <4>1, <6>1
        <5>2. QED BY <5>1
      <4>4. QED BY <1>0, <2>2, <3>2, <4>1, <4>2, <4>3
    <3>5. QED BY <3>3, <3>4
  <2>4. StagedPaths' \subseteq edited'
    BY <1>4, <2>2
  <2>5. ~NewOrphan'
    BY <1>4, <1>6 DEF NewOrphan
  <2>6. op'.pc \in {"switch", "refresh", "clear"} /\ TreeAt(op.branch)' = new'
    BY <1>0, <1>1
  <2>7. QED BY <2>3, <2>4, <2>5, <2>6 DEF FilesKnown
<1>7. QED BY <1>5, <1>6

\* Every step keeps what is known of the files.
LEMMA FilesKnownStays ==
  ASSUME Types, UnderWay, TableKnown, FilesKnown, [Next]_vars
  PROVE  FilesKnown'
<1>0. /\ op \in Ops /\ current \in Branches /\ Types'
      /\ IsIdle => op.pc = "idle" /\ ~op.moved
  BY TypeStays DEF Types, UnderWay, Idle, IsIdle
<1>1. ASSUME NEW p \in Paths, Edit(p) PROVE FilesKnown'
  <2>1. /\ op.pc = "idle" /\ UNCHANGED <<table, staging, op, disturbed>> /\ edited' = edited \union {p}
        /\ \A q \in Paths \ {p} : files'[q] = files[q]
    BY <1>0, <1>1 DEF Edit, Ready, Types, Trees
  <2>2. QED BY <1>0, <2>1, PathKnown
<1>2. ASSUME NEW p \in Paths, Add(p) PROVE FilesKnown'
  <2>1. /\ op.pc = "idle" /\ UNCHANGED <<files, edited, table, op, disturbed>>
        /\ staging' = [staging EXCEPT ![p] = files[p]]
    BY <1>0, <1>2 DEF Add, Ready
  <2>2. files[p] # Deleted /\ files[p] # None
    BY <1>2, NoneIsNothing DEF Add, Types, Trees
  <2>3. Overlay'[p] = files'[p]
    BY <2>1, <2>2 DEF Overlay, Types
  <2>4. files[p] # table[p] => p \in edited
    BY <2>1 DEF FilesKnown, KnownBut
  <2>5. \A q \in Paths \ {p} : staging'[q] = staging[q]
    BY <2>1 DEF Types
  <2>6. QED BY <1>0, <2>1, <2>3, <2>4, <2>5, PathKnown
<1>3. ASSUME NEW p \in Paths, Rm(p) PROVE FilesKnown'
  <2>1. /\ op.pc = "idle" /\ UNCHANGED <<table, op, disturbed>> /\ edited' = edited \union {p}
        /\ \A q \in Paths \ {p} : files'[q] = files[q] /\ staging'[q] = staging[q]
    BY <1>0, <1>3 DEF Rm, Ready, Types, Trees
  <2>2. QED BY <1>0, <2>1, PathKnown
<1>4. ASSUME NEW p \in Paths, Unstage(p) PROVE FilesKnown'
  <2>1. /\ op.pc = "idle" /\ UNCHANGED <<files, edited, table, op, disturbed>>
        /\ staging' = [staging EXCEPT ![p] = None]
    BY <1>0, <1>4 DEF Unstage, Ready
  <2>2. files[p] # table[p] => p \in edited
    BY <2>1 DEF FilesKnown, KnownBut
  <2>3. staging'[p] = None /\ \A q \in Paths \ {p} : staging'[q] = staging[q]
    BY <2>1 DEF Types
  <2>4. QED BY <1>0, <2>1, <2>2, <2>3, PathKnown
<1>5. ASSUME NEW p \in Paths, Revert(p) PROVE FilesKnown'
  <2>1. /\ op.pc = "idle" /\ ~op.moved /\ UNCHANGED <<table, op, disturbed>>
        /\ files' = [files EXCEPT ![p] = TreeAt(current)[p]]
        /\ staging' = [staging EXCEPT ![p] = None]
        /\ edited' = IF disturbed THEN edited \union {p} ELSE edited \ {p}
    BY <1>0, <1>5 DEF Revert, Ready
  <2>2. /\ staging'[p] = None /\ files'[p] = TreeAt(current)[p]
        /\ \A q \in Paths \ {p} : files'[q] = files[q] /\ staging'[q] = staging[q]
    BY <2>1 DEF Types, Trees
  <2>3. ~disturbed => table = TreeAt(current)
    BY <2>1 DEF TableKnown, Behind
  <2>4. \A q \in Paths \ {p} : q \in edited => q \in edited'
    BY <2>1
  <2>5. files'[p] # table[p] => p \in edited'
    BY <2>1, <2>2, <2>3
  <2>6. disturbed /\ p \in edited => p \in edited'
    BY <2>1
  <2>7. QED BY <1>0, <2>1, <2>2, <2>4, <2>5, <2>6, PathKnown
<1>6. ASSUME \/ \E b \in Branches : CreateBranch(b) \/ DeleteBranch(b) \/ Orphan(b) \/ Merge(b)
             \/ \E b \in Branches, create \in BOOLEAN : Checkout(b, create)
             \/ CommitRead \/ Pull
      PROVE  FilesKnown'
  <2>1. /\ op.pc = "idle" /\ op'.pc \in Resting /\ UNCHANGED <<files, table, staging, edited, disturbed>>
    BY <1>0, <1>6 DEF CreateBranch, DeleteBranch, Orphan, Merge, Checkout, CommitRead, Pull, Ready, Idle, Resting
  <2>2. QED BY <2>1, FilesKnownKept DEF Resting
<1>7. ASSUME CommitPut \/ PullDone \/ \E b \in Branches : PullRef(b) PROVE FilesKnown'
  <2>1. /\ op.pc \in Resting /\ op'.pc \in Resting /\ UNCHANGED <<files, table, staging, edited>>
        /\ disturbed' => disturbed
    <3>1. CASE CommitPut
      BY <1>0, <3>1 DEF CommitPut, At, Ops, Resting, disk
    <3>2. CASE PullDone
      BY <1>0, <3>2 DEF PullDone, At, Ops, Resting, disk
    <3>3. ASSUME NEW b \in Branches, PullRef(b)
          PROVE  /\ op.pc = "sync" /\ op'.pc = "sync" /\ UNCHANGED <<files, table, staging, edited, disturbed>>
      BY <1>0, <3>3 DEF PullRef, At, Ops, disk
    <3>4. QED BY <1>7, <3>1, <3>2, <3>3 DEF Resting
  <2>2. QED BY <2>1, FilesKnownKept
<1>8. CASE CommitTable
  <2>1. /\ op.pc = "table" /\ op'.pc = "idle" /\ UNCHANGED <<files, edited, disturbed>>
        /\ table' = op.tree /\ staging' = [p \in Paths |-> None]
    BY <1>8 DEF CommitTable, At, Idle, disk
  <2>2. table' = Overlay /\ StagedPaths' = {}
    BY <2>1 DEF TableKnown, StagedPaths
  <2>3. ASSUME NEW p \in Paths, files[p] # Overlay[p] PROVE p \in edited
    <3>1. CASE p \in StagedPaths
      BY <2>3, <3>1 DEF FilesKnown
    <3>2. CASE p \notin StagedPaths
      <4>1. Overlay[p] = table[p]
        BY <3>2 DEF Overlay, StagedPaths
      <4>2. QED BY <2>1, <2>3, <4>1 DEF FilesKnown, KnownBut
    <3>3. QED BY <3>1, <3>2
  <2>4. disturbed => edited = Paths
    BY <2>1 DEF FilesKnown
  <2>5. QED BY <2>1, <2>2, <2>3, <2>4 DEF FilesKnown, KnownBut
<1>9. CASE PullFails
  <2>1. /\ op.pc = "sync" /\ op'.pc = "idle" /\ UNCHANGED <<files, table, staging>>
        /\ disturbed' = (disturbed \/ op.moved) /\ edited' = IF op.moved THEN Paths ELSE edited
    BY <1>9 DEF PullFails, At, Idle
  <2>2. CASE op.moved
    BY <2>1, <2>2, AllEdited
  <2>3. CASE ~op.moved
    BY <2>1, <2>3, FilesKnownKept DEF Resting
  <2>4. QED BY <2>2, <2>3
<1>10. CASE Export
  BY <1>10, ExportKnown
<1>11. CASE Switch
  <2>1. /\ op.pc = "switch" /\ op'.pc = "refresh" /\ op'.branch = op.branch
        /\ UNCHANGED <<files, edited, table, staging, repo, disturbed>>
    BY <1>0, <1>11 DEF Switch, Ops, disk
  <2>2. /\ TreeAt(op.branch)' = TreeAt(op.branch) /\ StagedPaths' = StagedPaths /\ Overlay' = Overlay
    BY <2>1 DEF TreeAt, EmptyTree, StagedPaths, Overlay, repo
  <2>3. QED BY <2>1, <2>2 DEF FilesKnown, KnownBut
<1>12. CASE Refresh
  <2>1. /\ op.pc = "refresh" /\ op'.pc = "idle" /\ table' = TreeAt(op.branch) /\ disturbed' = FALSE
        /\ UNCHANGED <<files, edited, staging>>
    BY <1>12 DEF Refresh, Idle, disk
  <2>2. StagedPaths' = StagedPaths /\ \A p \in StagedPaths : Overlay'[p] = Overlay[p]
    BY <2>1 DEF StagedPaths, Overlay
  <2>3. QED BY <2>1, <2>2 DEF FilesKnown, KnownBut
<1>13. CASE OrphanClear
  <2>1. /\ op.pc = "clear" /\ op.kind = "orphan" /\ op'.pc = "set"
        /\ op'.branch = op.branch /\ op'.from = op.from
        /\ UNCHANGED <<files, edited, staging, repo, disturbed>>
        /\ StagedPaths = {} /\ op.from = current /\ ~op.moved
    BY <1>0, <1>13 DEF OrphanClear, UnderWay, StepsOf, Ops, disk
  <2>2. /\ TreeAt(op.from)' = TreeAt(op.from) /\ StagedPaths' = {} /\ NewOrphan' = NewOrphan
    BY <2>1 DEF TreeAt, EmptyTree, StagedPaths, NewOrphan, repo
  <2>3. ASSUME NewOrphan, NEW p \in Paths, p \notin Kept(TreeAt(op.from)), files[p] # None
        PROVE  p \in edited
    <3>1. CASE disturbed
      BY <2>1, <2>3, <3>1 DEF FilesKnown
    <3>2. CASE ~disturbed
      <4>1. table[p] = None
        BY <2>1, <2>3, <3>2 DEF TableKnown, Behind, Kept
      <4>2. QED BY <2>1, <2>3, <4>1 DEF FilesKnown, KnownBut
    <3>3. QED BY <3>1, <3>2
  <2>4. NewOrphan => KnownBut(EmptyTree, Kept(TreeAt(op.from)))'
    <3> SUFFICES ASSUME NewOrphan, NEW p \in Paths, p \notin Kept(TreeAt(op.from))', files'[p] # EmptyTree'[p]
                 PROVE  p \in edited'
      BY DEF KnownBut
    <3>1. Kept(TreeAt(op.from))' = Kept(TreeAt(op.from))
      BY <2>2 DEF Kept
    <3>2. QED BY <2>1, <2>3, <3>1 DEF EmptyTree
  <2>5. disturbed' => edited' = Paths \/ ~NewOrphan'
    BY <2>1, <2>2 DEF FilesKnown
  <2>6. QED BY <2>1, <2>2, <2>4, <2>5 DEF FilesKnown
<1>14. CASE OrphanSwitch
  <2>1. /\ op.pc = "set" /\ op.kind = "orphan" /\ op'.pc = "remove" /\ op'.from = op.from
        /\ UNCHANGED <<files, staging, repo>> /\ StagedPaths = {}
        /\ disturbed' = (branches[op.branch] # None)
        /\ edited' = IF branches[op.branch] # None THEN Paths ELSE edited
    BY <1>0, <1>14 DEF OrphanSwitch, UnderWay, StepsOf, Ops
  <2>2. CASE branches[op.branch] # None
    BY <2>1, <2>2, AllEdited
  <2>3. CASE branches[op.branch] = None
    <3>1. KnownBut(EmptyTree, Kept(TreeAt(op.from)))
      BY <2>1, <2>3 DEF FilesKnown, NewOrphan
    <3>2. TreeAt(op.from)' = TreeAt(op.from) /\ EmptyTree' = EmptyTree /\ StagedPaths' = {}
      BY <2>1 DEF TreeAt, EmptyTree, StagedPaths, repo
    <3>3. KnownBut(EmptyTree, Kept(TreeAt(op.from)))'
      BY <2>1, <2>3, <3>1, <3>2 DEF KnownBut, Kept
    <3>4. QED BY <2>1, <2>3, <3>2, <3>3 DEF FilesKnown
  <2>4. QED BY <2>2, <2>3
<1>15. CASE OrphanRemove
  <2>1. /\ op.pc = "remove" /\ op.kind = "orphan" /\ op'.pc = "idle" /\ StagedPaths = {}
        /\ UNCHANGED <<edited, table, staging, disturbed>>
        /\ files' = [p \in Paths |-> IF p \in Kept(TreeAt(op.from)) THEN None ELSE files[p]]
    BY <1>0, <1>15 DEF OrphanRemove, UnderWay, StepsOf, Idle, Ops
  <2>2. table = EmptyTree /\ KnownBut(EmptyTree, Kept(TreeAt(op.from))) /\ (disturbed => edited = Paths)
    BY <2>1 DEF TableKnown, FilesKnown
  <2>3. KnownBut(table, {})'
    <3> SUFFICES ASSUME NEW p \in Paths, files'[p] # None PROVE p \in edited
      BY <2>1, <2>2 DEF KnownBut, EmptyTree
    <3>1. p \notin Kept(TreeAt(op.from)) /\ files[p] # None
      BY <2>1
    <3>2. QED BY <2>2, <3>1 DEF KnownBut, EmptyTree
  <2>4. StagedPaths' = {}
    BY <2>1 DEF StagedPaths
  <2>5. QED BY <2>1, <2>2, <2>3, <2>4 DEF FilesKnown
<1>16. ASSUME NEW b \in Branches, Receive(b) PROVE FilesKnown'
  <2>1. /\ UNCHANGED <<files, table, staging, current, op>> /\ disturbed' = (disturbed \/ b = current)
        /\ edited' = IF b \in {current, op.branch, op.from} THEN Paths ELSE edited
        /\ Grown(b)
    BY <1>16, BranchForwarded DEF Receive
  <2>2. CASE b \in {current, op.branch, op.from}
    BY <2>1, <2>2, AllEdited
  <2>3. CASE b \notin {current, op.branch, op.from}
    <3>1. disturbed' = disturbed /\ edited' = edited /\ StagedPaths' = StagedPaths /\ Overlay' = Overlay
      BY <2>1, <2>3 DEF StagedPaths, Overlay, Types
    <3>2. ASSUME NEW d \in Branches, d # b PROVE TreeAt(d)' = TreeAt(d) /\ branches'[d] = branches[d]
      BY <2>1, <3>2, TreesKept DEF Grown
    <3>3. ~IsIdle => op.branch \in Branches
      BY DEF UnderWay
    <3>4. op.kind \in {"checkout", "orphan"} => op.from \in Branches
      BY DEF UnderWay
    <3>5. ~IsIdle => TreeAt(op.branch)' = TreeAt(op.branch) /\ NewOrphan' = NewOrphan
      <4>1. ASSUME ~IsIdle PROVE TreeAt(op.branch)' = TreeAt(op.branch) /\ NewOrphan' = NewOrphan
        <5>1. PICK d \in Branches : d = op.branch /\ d # b
          BY <2>3, <3>3, <4>1
        <5>2. QED BY <2>1, <3>2, <5>1 DEF TreeAt, NewOrphan
      <4>2. QED BY <4>1
    <3>6. op.pc \in {"set", "remove"} => TreeAt(op.from)' = TreeAt(op.from)
      <4>1. ASSUME op.pc \in {"set", "remove"} PROVE TreeAt(op.from)' = TreeAt(op.from)
        <5>1. op.from \in Branches
          BY <1>0, <3>4, <4>1 DEF UnderWay, StepsOf, Ops
        <5>2. PICK d \in Branches : d = op.from /\ d # b
          BY <2>3, <5>1
        <5>3. QED BY <2>1, <3>2, <5>2 DEF TreeAt
      <4>2. QED BY <4>1
    <3>7. EmptyTree' = EmptyTree
      BY DEF EmptyTree
    <3>8. QED BY <2>1, <3>1, <3>5, <3>6, <3>7 DEF FilesKnown, KnownBut, Kept, IsIdle
  <2>4. QED BY <2>2, <2>3
<1>17. CASE Crash
  BY <1>17, AllEdited DEF Crash
<1>18. CASE UNCHANGED vars
  BY <1>18 DEF vars, FilesKnown, KnownBut, StagedPaths, Overlay, NewOrphan, TreeAt, EmptyTree, Kept
<1>19. QED
  BY <1>1, <1>2, <1>3, <1>4, <1>5, <1>6, <1>7, <1>8, <1>9, <1>10, <1>11, <1>12, <1>13, <1>14, <1>15, <1>16,
     <1>17, <1>18 DEF Next

-----------------------------------------------------------------------------
(* The theorems.                                                           *)

\* A fresh clone satisfies the invariant.
LEMMA InitInv == Init => IInv
<1> SUFFICES ASSUME Init PROVE IInv
  OBVIOUS
<1>1. Types
  BY InitTypes
<1>2. /\ table = TreeAt(current) /\ files = table /\ op = Idle /\ disturbed = FALSE
      /\ staging = [p \in Paths |-> None]
  BY DEF Init
<1>3. UnderWay
  BY <1>2 DEF UnderWay, Idle, StepsOf, IsIdle
<1>4. TableKnown
  BY <1>2 DEF TableKnown, Idle
<1>5. FilesKnown
  BY <1>2 DEF FilesKnown, KnownBut, StagedPaths, Idle
<1>6. QED BY <1>1, <1>3, <1>4, <1>5 DEF IInv

\* Every reachable state satisfies the invariant.
THEOREM InvHolds == Spec => []IInv
<1>1. IInv /\ [Next]_vars => IInv'
  BY TypeStays, UnderWayStays, TableKnownStays, FilesKnownStays DEF IInv
<1>2. QED BY <1>1, InitInv, PTL DEF Spec

\* The variables keep their types: a branch names a commit that is there,
\* and the parents of a commit were made before it, whatever is pushed meanwhile.
THEOREM WorkingCopyTyped == Spec => []TypeOK
<1>1. IInv => TypeOK
  BY DEF IInv, Types, Ops, TypeOK
<1>2. QED BY <1>1, InvHolds, PTL

\* Between commands the working_copy table is the tree of the current
\* branch's tip (checkout.rs, commit.rs, merge.rs, pull.rs), unless a command
\* was cut off, another clone pushed to the branch, a pull stopped after it
\* moved it, or an orphan branch was made of an existing one.
THEOREM TableStaysCurrent == Spec => []TableCurrent
<1>1. IInv => TableCurrent
  BY DEF IInv, UnderWay, TableKnown, Behind, Idle, IsIdle, TableCurrent
<1>2. QED BY <1>1, InvHolds, PTL

\* A file that is not what the table has is one the user touched, status reports
\* every edit, and diff every edit of a file of the tip in which the XML diff
\* sees a change, whatever that diff sees: no export of a checkout, orphan
\* branch, merge or pull leaves a file of another tree unnoticed.
THEOREM CopyTellsTruth == Spec => []CopyIsTold
<1>1. ASSUME IInv PROVE FilesMatchTable
  BY <1>1 DEF IInv, FilesKnown, KnownBut, FilesMatchTable, IsIdle
<1>2. ASSUME IInv PROVE StatusTellsEdits
  <2> SUFFICES ASSUME IsIdle, ~disturbed
               PROVE  /\ Modified \union Untracked =
                           {p \in Paths \ StagedPaths : files[p] # None /\ files[p] # TreeAt(current)[p]}
                      /\ Differing =
                           {p \in Paths : /\ files[p] # None /\ TreeAt(current)[p] # None
                                          /\ files[p] # TreeAt(current)[p]
                                          /\ ~Alike(TreeAt(current)[p], files[p])}
    BY DEF StatusTellsEdits
  <2>1. table = TreeAt(current)
    BY <1>2 DEF IInv, UnderWay, TableKnown, Behind, Idle, IsIdle
  <2>2. Modified \union Untracked =
          {p \in Paths \ StagedPaths : files[p] # None /\ files[p] # TreeAt(current)[p]}
    BY <2>1 DEF Modified, Untracked
  <2>3. Differing =
          {p \in Paths : /\ files[p] # None /\ TreeAt(current)[p] # None
                         /\ files[p] # TreeAt(current)[p] /\ ~Alike(TreeAt(current)[p], files[p])}
    BY <2>1 DEF Differing, Kept
  <2>4. QED BY <2>2, <2>3
<1>3. IInv => CopyIsTold
  BY <1>1, <1>2 DEF CopyIsTold
<1>4. QED BY <1>3, InvHolds, PTL

\* Only CommitPut leads from reading the staging table to the new commit.
LEMMA OnlyPutRecords ==
  ASSUME IInv, [Next]_vars, At("commit", "put"), op'.pc = "table"
  PROVE  CommitPut
<1>1. op.pc = "put" /\ op.kind = "commit" /\ ~IsIdle
  BY DEF At, IsIdle
<1>2. ~UNCHANGED op /\ op' # Idle
  BY <1>1 DEF Idle
<1>3. QED
  BY <1>1, <1>2 DEF Next, Ready, Edit, Add, Rm, Unstage, Revert, CommitRead, CommitTable, CreateBranch,
     DeleteBranch, Orphan, Checkout, Merge, Receive, PullRef, Export, Switch, Refresh, OrphanClear, OrphanSwitch,
     OrphanRemove, Pull, PullFails, PullDone, Crash, At, vars

\* Only CommitTable takes rows from the staging table within a command.
LEMMA OnlyTableUnstages ==
  ASSUME IInv, [Next]_vars, ~IsIdle, staging' # staging
  PROVE  CommitTable
  BY DEF Next, Ready, Edit, Add, Rm, Unstage, Revert, CommitRead, CommitPut, CreateBranch,
     DeleteBranch, Orphan, Checkout, Merge, Receive, PullRef, Export, Switch, Refresh, OrphanClear, OrphanSwitch,
     OrphanRemove, Pull, PullFails, PullDone, Crash, vars

\* A commit takes what is staged and nothing else, and what is staged is lost
\* to no crash, pull or push: a row of the staging table goes when the user
\* takes it back, or when a commit of the branch's history has it.
THEOREM StagingStaysExact == Spec => StagingIsExact
<1>1. ASSUME IInv, [Next]_vars, At("commit", "put"), op'.pc = "table", ~disturbed, NEW p \in Paths \ StagedPaths
      PROVE  commits'[Len(commits')].tree[p] = TreeAt(op.branch)[p]
  <2>1. CommitPut
    BY <1>1, OnlyPutRecords
  <2>2. commits'[Len(commits')].tree = op.tree
    BY <1>1, <2>1, BranchCommitted DEF IInv
  <2>3. op.tree = Overlay /\ op.branch = current /\ ~op.moved
    BY <1>1 DEF IInv, UnderWay, TableKnown, At
  <2>4. table = TreeAt(current)
    BY <1>1, <2>3 DEF IInv, TableKnown, Behind, At
  <2>5. Overlay[p] = table[p]
    BY <1>1 DEF Overlay, StagedPaths
  <2>6. QED BY <2>2, <2>3, <2>4, <2>5
<1>2. ASSUME IInv, [Next]_vars, NEW p \in StagedPaths, staging'[p] = None, ~IsIdle
      PROVE  \E c \in DOMAIN commits' :
               /\ branches'[op.branch] # None /\ c \in Ancestors(Parents', branches'[op.branch])
               /\ commits'[c].tree[p] = IF staging[p] = Deleted THEN None ELSE staging[p]
  <2>1. CommitTable
    BY <1>2, OnlyTableUnstages DEF StagedPaths
  <2>2. op.pc = "table" /\ UNCHANGED <<commits, branches>>
    BY <2>1 DEF CommitTable, At, repo
  <2>3. PICK c \in DOMAIN commits : Recorded(c)
    BY <1>2, <2>2 DEF IInv, TableKnown
  <2>4. op.tree = Overlay
    BY <1>2, <2>2 DEF IInv, TableKnown
  <2>5. commits[c].tree[p] = IF staging[p] = Deleted THEN None ELSE staging[p]
    BY <2>3, <2>4 DEF Recorded, Overlay, StagedPaths
  <2>6. Parents' = Parents
    BY <2>2 DEF Parents
  <2>7. QED BY <2>2, <2>3, <2>5, <2>6 DEF Recorded
<1>3. IInv /\ [Next]_vars =>
        (At("commit", "put") /\ op'.pc = "table" /\ ~disturbed =>
           \A p \in Paths \ StagedPaths : commits'[Len(commits')].tree[p] = TreeAt(op.branch)[p])
  BY <1>1
<1>4. IInv /\ [Next]_vars =>
        \A p \in StagedPaths :
          staging'[p] = None /\ ~IsIdle =>
            \E c \in DOMAIN commits' :
              /\ branches'[op.branch] # None /\ c \in Ancestors(Parents', branches'[op.branch])
              /\ commits'[c].tree[p] = IF staging[p] = Deleted THEN None ELSE staging[p]
  BY <1>2
<1>5. Spec => CommitTouchesStaged
  BY <1>3, InvHolds, PTL DEF Spec, CommitTouchesStaged
<1>6. Spec => StagingLastsUntilCommit
  BY <1>4, InvHolds, PTL DEF Spec, StagingLastsUntilCommit
<1>7. QED BY <1>5, <1>6 DEF StagingIsExact
=============================================================================
