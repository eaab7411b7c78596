---------------------------- MODULE WorkingCopy ----------------------------
(***************************************************************************)
(* The working copy of the command line (crates/clayers/src/repo).  Four    *)
(* things must agree: the files on disk, the working_copy table (what the   *)
(* files were when they were last written), the staging table and the       *)
(* current branch's tip.  A command changes them one statement at a time    *)
(* and through several connections; it may be cut off between any two, and  *)
(* another clone may push to the same database meanwhile.                   *)
(*                                                                          *)
(* A tree is a function from paths to documents, None where it has no such  *)
(* path.  Only one command runs at a time in a working copy.                *)
(***************************************************************************)
EXTENDS CommitGraph

CONSTANTS Paths, Docs, Branches,
          Main,         \* the branch a new repository is on
          Deleted,      \* a staged deletion
          Alike(_, _),  \* do two documents look the same to the XML diff?
          MaxCommits,   \* bound: commits ever made
          Histories,    \* what a new repository or clone starts with
          MaxOps,       \* bound: edits and commands of a session
          Incoming,     \* the trees of commits that other clones make
          MaxIncidents, \* bound: commands cut off, and pushes of other clones
          MergeStrategies, FileMergedBy(_, _, _, _, _)  \* what a merge makes of one file (merge.rs)

VARIABLES files, table, staging, current,
          branches,     \* refs/heads/*: the index of a commit, None if there is none
          commits,      \* every commit: its parents and its tree
          op,           \* the command under way
          edited,       \* history: paths whose file the commands may not know
          disturbed,    \* history: the table may be behind the current branch
          ops, incidents

vars == <<files, table, staging, current, branches, commits, op, edited, disturbed, ops, incidents>>
disk == <<files, edited, ops, incidents>>
repo == <<branches, commits>>

Trees == [Paths -> Docs \union {None}]

CommitObjects == [parents : Seq(Nat), tree : Trees]

\* Commits are numbered as they are made; a parent is older.
IsRepository(cs, bs) ==
  /\ cs \in Seq(CommitObjects)
  /\ \A c \in DOMAIN cs : \A i \in DOMAIN cs[c].parents : cs[c].parents[i] \in 1 .. (c - 1)
  /\ bs \in [Branches -> DOMAIN cs \union {None}]

ASSUME SessionsStart == Main \in Branches /\ \A h \in Histories : IsRepository(h.commits, h.branches)
ASSUME IncomingAreTrees == Incoming \subseteq Trees
ASSUME NoneIsNothing == None \notin Nat /\ None \notin Branches /\ None \notin Docs \union {Deleted} /\ Deleted \notin Docs
ASSUME BoundsAreNatural == MaxOps \in Nat /\ MaxIncidents \in Nat

EmptyTree == [p \in Paths |-> None]
Kept(tree) == {p \in Paths : tree[p] # None}

Parents == [c \in DOMAIN commits |-> commits[c].parents]
TreeAt(b) == IF branches[b] = None THEN EmptyTree ELSE commits[branches[b]].tree
Descends(c, from) == from = None \/ from \in Ancestors(Parents, c)

Idle == [kind |-> "none", pc |-> "idle", branch |-> None, from |-> None,
         tree |-> EmptyTree, todo |-> {}, moved |-> FALSE]
IsIdle == op.pc = "idle"
At(kind, pc) == op.kind = kind /\ op.pc = pc
StagedPaths == {p \in Paths : staging[p] # None}

\* Mutant of Overlay: the commit takes the files on disk, not the staged ones.
OverlayFiles == [p \in Paths |-> IF staging[p] = Deleted THEN None ELSE files[p]]

\* The tree of the next commit: the table, overlaid with what is staged.
Overlay == [p \in Paths |-> IF staging[p] = None THEN table[p]
                            ELSE IF staging[p] = Deleted THEN None ELSE staging[p]]

TypeOK ==
  /\ files \in Trees /\ table \in Trees
  /\ staging \in [Paths -> Docs \union {Deleted, None}]
  /\ current \in Branches
  /\ IsRepository(commits, branches)
  /\ op.branch \in Branches \union {None} /\ op.from \in Branches \union {None}
  /\ op.tree \in Trees /\ op.todo \subseteq Branches /\ op.moved \in BOOLEAN
  /\ edited \subseteq Paths /\ disturbed \in BOOLEAN /\ ops \in 0 .. MaxOps /\ incidents \in 0 .. MaxIncidents

\* init makes an empty repository; clone brings the branches, checks the
\* default one out and refreshes the table.
Init ==
  \E h \in Histories :
    /\ commits = h.commits /\ branches = h.branches
    /\ current = Main
    /\ files = TreeAt(Main) /\ table = TreeAt(Main)
    /\ staging = [p \in Paths |-> None]
    /\ op = Idle /\ edited = {} /\ disturbed = FALSE /\ ops = 0 /\ incidents = 0
-----------------------------------------------------------------------------
\* A session: the user starts nothing before the last command has ended.
Ready == IsIdle /\ ops < MaxOps /\ ops' = ops + 1

Incident == incidents < MaxIncidents /\ incidents' = incidents + 1

\* The user edits, creates or deletes a file.
Edit(p) ==
  /\ Ready
  /\ \E d \in (Docs \union {None}) \ {files[p]} : files' = [files EXCEPT ![p] = d]
  /\ edited' = edited \union {p}
  /\ UNCHANGED <<incidents, table, staging, current, repo, op, disturbed>>

Add(p) ==
  /\ Ready /\ files[p] # None
  /\ staging' = [staging EXCEPT ![p] = files[p]]
  /\ UNCHANGED <<files, edited, incidents, table, current, repo, op, disturbed>>

\* rm stages the deletion first, then removes the file, which may fail.
Rm(p) ==
  /\ Ready
  /\ staging' = [staging EXCEPT ![p] = Deleted]
  /\ \/ files' = [files EXCEPT ![p] = None] /\ UNCHANGED incidents
     \/ Incident /\ UNCHANGED files
  /\ edited' = edited \union {p}
  /\ UNCHANGED <<table, current, repo, op, disturbed>>

\* rm --cached
Unstage(p) ==
  /\ Ready /\ staging[p] # None
  /\ staging' = [staging EXCEPT ![p] = None]
  /\ UNCHANGED <<files, edited, incidents, table, current, repo, op, disturbed>>

\* The committed version comes from the branch's tip, not from the table.
Revert(p) ==
  /\ Ready /\ TreeAt(current)[p] # None
  /\ files' = [files EXCEPT ![p] = TreeAt(current)[p]]
  /\ staging' = [staging EXCEPT ![p] = None]
  /\ edited' = IF disturbed THEN edited \union {p} ELSE edited \ {p}
  /\ UNCHANGED <<incidents, table, current, repo, op, disturbed>>
-----------------------------------------------------------------------------
NewCommit(parents, tree) == [parents |-> parents, tree |-> tree]

CommitRead ==
  /\ Ready /\ StagedPaths # {} /\ Len(commits) < MaxCommits
  /\ op' = [Idle EXCEPT !.kind = "commit", !.pc = "put", !.branch = current, !.tree = Overlay]
  /\ UNCHANGED <<files, edited, incidents, table, staging, current, repo, disturbed>>

\* Repo::commit: the parent is the tip at this moment.
CommitPut ==
  /\ At("commit", "put") /\ Len(commits) < MaxCommits
  /\ LET tip == branches[op.branch]
     IN  commits' = Append(commits, NewCommit(IF tip = None THEN <<>> ELSE <<tip>>, op.tree))
  /\ branches' = [branches EXCEPT ![op.branch] = Len(commits')]
  /\ op' = [op EXCEPT !.pc = "table"]
  /\ disturbed' = FALSE
  /\ UNCHANGED <<disk, table, staging, current>>

\* update_working_copy_from_tree; the statements before the last one show
\* only in a crash.
CommitTable ==
  /\ At("commit", "table")
  /\ table' = op.tree /\ staging' = [p \in Paths |-> None]
  /\ op' = Idle
  /\ UNCHANGED <<disk, current, repo, disturbed>>
-----------------------------------------------------------------------------
\* branch <name>, also the first step of checkout -b: an existing branch is moved.
PointBranch(b) ==
  /\ branches[current] # None
  /\ branches' = [branches EXCEPT ![b] = branches[current]]

CreateBranch(b) ==
  /\ Ready /\ PointBranch(b)
  /\ UNCHANGED <<files, edited, incidents, table, staging, current, commits, op, disturbed>>

DeleteBranch(b) ==
  /\ Ready /\ b # current /\ branches[b] # None
  /\ branches' = [branches EXCEPT ![b] = None]
  /\ UNCHANGED <<files, edited, incidents, table, staging, current, commits, op, disturbed>>

Checkout(b, create) ==
  /\ Ready /\ StagedPaths = {} /\ (create \/ b # current)
  /\ IF create THEN PointBranch(b) ELSE branches[b] # None /\ UNCHANGED branches
  /\ op' = [Idle EXCEPT !.kind = "checkout", !.pc = "export", !.branch = b, !.from = current]
  /\ UNCHANGED <<files, edited, incidents, table, staging, current, commits, disturbed>>

Orphan(b) ==
  /\ Ready /\ StagedPaths = {}
  /\ op' = [Idle EXCEPT !.kind = "orphan", !.pc = "export", !.branch = b, !.from = current]
  /\ UNCHANGED <<files, edited, incidents, table, staging, current, repo, disturbed>>

\* Mutant of LeftBehind: a merge exports like a pull.
LeftBehindUntracked ==
  IF op.kind \in {"checkout", "orphan"} THEN Kept(TreeAt(op.from)) ELSE {}

\* The paths an export removes when the new tree has no file there: checkout
\* asks the branch it leaves, merge the table, pull nobody.
LeftBehind ==
  CASE op.kind \in {"checkout", "orphan"} -> Kept(TreeAt(op.from))
    [] op.kind = "merge"                  -> Kept(table)
    [] op.kind = "pull"                   -> {}

\* A branch without a tip exports nothing.
Exported ==
  LET new == TreeAt(op.branch)
  IN  IF branches[op.branch] = None THEN files
      ELSE [p \in Paths |-> IF new[p] # None THEN new[p]
                            ELSE IF p \in LeftBehind THEN None ELSE files[p]]

Export ==
  /\ op.pc = "export"
  /\ files' = Exported
  /\ op' = [op EXCEPT !.pc = CASE op.kind = "checkout" -> "switch"
                               [] op.kind = "orphan"   -> "clear"
                               [] OTHER                -> "refresh"]
  /\ edited' = IF branches[op.branch] = None THEN edited
               ELSE StagedPaths \union (edited \ (Kept(TreeAt(op.branch)) \union LeftBehind))
                      \union (IF op.kind = "pull" THEN Kept(table) \ Kept(TreeAt(op.branch)) ELSE {})
  /\ UNCHANGED <<ops, incidents, table, staging, current, repo, disturbed>>

Switch ==
  /\ op.pc = "switch"
  /\ current' = op.branch /\ op' = [op EXCEPT !.pc = "refresh"]
  /\ UNCHANGED <<disk, table, staging, repo, disturbed>>

\* Mutant of Refresh: it is done by update_working_copy_from_tree.
RefreshClears ==
  /\ op.pc = "refresh"
  /\ table' = TreeAt(op.branch) /\ op' = Idle /\ disturbed' = FALSE
  /\ staging' = [p \in Paths |-> None]
  /\ UNCHANGED <<disk, current, repo>>

Refresh ==
  /\ op.pc = "refresh"
  /\ table' = TreeAt(op.branch) /\ op' = Idle /\ disturbed' = FALSE
  /\ UNCHANGED <<disk, staging, current, repo>>
-----------------------------------------------------------------------------
\* Mutant of OrphanClear: the table keeps the rows of the branch that is left.
OrphanClearKeeps ==
  /\ op.pc = "clear"
  /\ op' = [op EXCEPT !.pc = "set"]
  /\ UNCHANGED <<disk, table, staging, current, repo, disturbed>>

\* checkout --orphan: clear the table, switch, remove the old branch's files.
OrphanClear ==
  /\ op.pc = "clear"
  /\ table' = EmptyTree /\ op' = [op EXCEPT !.pc = "set"]
  /\ UNCHANGED <<disk, staging, current, repo, disturbed>>

\* An orphan branch that exists already keeps its tip: its next commit is no root.
OrphanSwitch ==
  /\ op.pc = "set"
  /\ current' = op.branch /\ op' = [op EXCEPT !.pc = "remove"]
  /\ disturbed' = (branches[op.branch] # None)
  /\ edited' = IF branches[op.branch] # None THEN Paths ELSE edited
  /\ UNCHANGED <<files, ops, incidents, table, staging, repo>>

OrphanRemove ==
  /\ op.pc = "remove"
  /\ files' = [p \in Paths |-> IF p \in Kept(TreeAt(op.from)) THEN None ELSE files[p]]
  /\ op' = Idle
  /\ UNCHANGED <<edited, ops, incidents, table, staging, current, repo, disturbed>>
-----------------------------------------------------------------------------
\* The trees Repo::merge may store: each path merged, by any strategy.
MergedTrees(a, o, t) ==
  {tree \in Trees :
     \E s \in MergeStrategies : \A p \in Paths :
       \E m \in Docs \union {None} : tree[p] = FileMergedBy(s, a[p], o[p], t[p], m)}

\* merge does not look at the staging table or at edited files.
Merge(b) ==
  LET ours == branches[current]
      theirs == branches[b]
      base == CommonAncestor(Parents, ours, theirs)
  IN  /\ Ready /\ b # current /\ ours # None /\ theirs # None
      /\ base # None /\ base # theirs
      /\ IF base = ours THEN branches' = [branches EXCEPT ![current] = theirs] /\ UNCHANGED commits
         ELSE /\ Len(commits) < MaxCommits
              /\ \E tree \in MergedTrees(commits[base].tree, commits[ours].tree, commits[theirs].tree) :
                   commits' = Append(commits, NewCommit(<<ours, theirs>>, tree))
              /\ branches' = [branches EXCEPT ![current] = Len(commits')]
      /\ op' = [Idle EXCEPT !.kind = "merge", !.pc = "export", !.branch = current, !.moved = TRUE]
      /\ UNCHANGED <<files, edited, incidents, table, staging, current, disturbed>>
-----------------------------------------------------------------------------
\* A branch moves to a commit that descends from its tip: one that is here
\* already, or one that came with the push or pull.
FastForward(b) ==
  \/ \E c \in DOMAIN commits :
       /\ c # branches[b] /\ Descends(c, branches[b])
       /\ branches' = [branches EXCEPT ![b] = c] /\ UNCHANGED commits
  \/ /\ Len(commits) < MaxCommits
     /\ \E tree \in Incoming :
          commits' = Append(commits, NewCommit(IF branches[b] = None THEN <<>> ELSE <<branches[b]>>, tree))
     /\ branches' = [branches EXCEPT ![b] = Len(commits')]

\* pull: sync_refs visits the remote's branches, FastForwardOnly.
Pull ==
  /\ Ready
  /\ \E todo \in SUBSET Branches :
       op' = [Idle EXCEPT !.kind = "pull", !.pc = "sync", !.branch = current, !.todo = todo]
  /\ UNCHANGED <<files, edited, incidents, table, staging, current, repo, disturbed>>

PullRef(b) ==
  /\ At("pull", "sync") /\ b \in op.todo
  /\ FastForward(b)
  /\ op' = [op EXCEPT !.todo = @ \ {b}, !.moved = @ \/ b = current]
  /\ UNCHANGED <<disk, table, staging, current, disturbed>>

\* The remote's branch diverged, or the connection broke: `?` leaves the
\* command before the files and the table are brought up to date.
PullFails ==
  /\ At("pull", "sync") /\ op.todo # {}
  /\ op' = Idle /\ disturbed' = (disturbed \/ op.moved)
  /\ edited' = IF op.moved THEN Paths ELSE edited
  /\ UNCHANGED <<files, ops, incidents, table, staging, current, repo>>

PullDone ==
  /\ At("pull", "sync") /\ op.todo = {}
  /\ op' = [op EXCEPT !.pc = "export"]
  /\ UNCHANGED <<disk, table, staging, current, repo, disturbed>>

\* Another clone pushes to this database: nothing here is told.
Receive(b) ==
  /\ Incident /\ FastForward(b)
  /\ disturbed' = (disturbed \/ b = current)
  /\ edited' = IF b \in {current, op.branch, op.from} THEN Paths ELSE edited
  /\ UNCHANGED <<files, ops, table, staging, current, op>>

\* The process dies, or a write fails: a part of an export or of the rows of
\* a table is done.
Crash ==
  /\ Incident /\ ~IsIdle
  /\ op' = Idle /\ edited' = Paths
  /\ disturbed' = (disturbed \/ op.moved \/ op.pc \in {"table", "refresh", "set"})
  /\ \E S \in SUBSET Paths :
       /\ files' = [p \in Paths |-> IF op.pc = "export" /\ p \in S THEN Exported[p] ELSE files[p]]
       /\ table' = CASE op.pc = "table"   -> [p \in Paths |-> IF p \in S THEN op.tree[p] ELSE None]
                     [] op.pc = "refresh" -> [p \in Paths |-> IF p \in S THEN TreeAt(op.branch)[p] ELSE None]
                     [] OTHER             -> table
  /\ UNCHANGED <<ops, staging, current, repo>>

Next ==
  \/ \E p \in Paths : Edit(p) \/ Add(p) \/ Rm(p) \/ Unstage(p) \/ Revert(p)
  \/ CommitRead \/ CommitPut \/ CommitTable
  \/ \E b \in Branches :
       \/ CreateBranch(b) \/ DeleteBranch(b) \/ Orphan(b) \/ Merge(b) \/ Receive(b) \/ PullRef(b)
       \/ \E create \in BOOLEAN : Checkout(b, create)
  \/ Export \/ Switch \/ Refresh
  \/ OrphanClear \/ OrphanSwitch \/ OrphanRemove
  \/ Pull \/ PullFails \/ PullDone
  \/ Crash

Spec == Init /\ [][Next]_vars
-----------------------------------------------------------------------------
(* What status and diff report. *)

\* Mutant of Untracked: staged files are listed as well.
UntrackedStaged == {p \in Paths : files[p] # None /\ table[p] = None}

\* status: an unstaged file on disk is modified when the table has another
\* document for it, untracked when the table has none.
Modified == {p \in Paths \ StagedPaths : files[p] # None /\ table[p] # None /\ files[p] # table[p]}

Untracked == {p \in Paths \ StagedPaths : files[p] # None /\ table[p] = None}

\* Mutant of Differing: a file is listed as soon as its hash is another.
DifferingByHash == {p \in Kept(table) : files[p] # None /\ files[p] # table[p]}

\* diff without arguments: the files on disk whose hash is not the table's, and
\* of these the ones in which the XML diff finds a change, or does not fail.
Differing ==
  {p \in Kept(table) : files[p] # None /\ files[p] # table[p] /\ ~Alike(table[p], files[p])}

-----------------------------------------------------------------------------
(* Properties *)

\* Between commands the working_copy table is the tree of the current
\* branch's tip, however checkouts, commits, merges, pulls and orphan
\* branches followed each other, unless a command was cut off half way,
\* another clone pushed to the current branch, a pull stopped after it moved
\* that branch, or an orphan branch was made of an existing one.
TableCurrent == IsIdle /\ ~disturbed => table = TreeAt(current)

\* A commit differs from its parent only on the paths that were staged: the
\* table it starts from is the parent's tree.
CommitTouchesStaged ==
  [][At("commit", "put") /\ op'.pc = "table" /\ ~disturbed =>
       \A p \in Paths \ StagedPaths : commits'[Len(commits')].tree[p] = TreeAt(op.branch)[p]]_vars

\* The same of every commit, whatever happened before it.  cli.rs promises
\* it: "Record staged changes as a new commit."
CommitRecordsStaged ==
  [][At("commit", "put") /\ op'.pc = "table" =>
       \A p \in Paths \ StagedPaths : commits'[Len(commits')].tree[p] = TreeAt(op.branch)[p]]_vars

\* A file that differs from the table is one the user touched: no command
\* leaves behind a file of another branch, or forgets to write one.
FilesMatchTable ==
  IsIdle => \A p \in Paths : files[p] # table[p] => p \in edited \union StagedPaths

\* What is staged is lost to no commit, crash or pull: a row goes when the
\* user takes it back, or when a commit of the current branch's history has it.
StagingLastsUntilCommit ==
  [][\A p \in StagedPaths :
       staging'[p] = None /\ ~IsIdle =>
         \E c \in DOMAIN commits' :
           /\ branches'[op.branch] # None /\ c \in Ancestors(Parents', branches'[op.branch])
           /\ commits'[c].tree[p] = IF staging[p] = Deleted THEN None ELSE staging[p]]_vars

\* status hides no edit: an unstaged file on disk that is not what the current
\* branch's tip has is reported, and only such a file is. diff, which says it
\* compares with HEAD, names the files the tip has in another form, except
\* those in which the XML diff sees no change: status tells more than diff.
StatusTellsEdits ==
  IsIdle /\ ~disturbed =>
    /\ Modified \union Untracked =
         {p \in Paths \ StagedPaths : files[p] # None /\ files[p] # TreeAt(current)[p]}
    /\ Differing =
         {p \in Paths : /\ files[p] # None /\ TreeAt(current)[p] # None
                        /\ files[p] # TreeAt(current)[p] /\ ~Alike(TreeAt(current)[p], files[p])}

\* What the user sees of the working copy is what it is: a file that differs
\* from the table is the user's doing, status tells every edit, and diff every
\* edit of a file of the tip that it can show.
CopyIsTold == FilesMatchTable /\ StatusTellsEdits

\* A commit takes what is staged and nothing else, and nothing staged is lost
\* before a commit has it.
StagingIsExact == CommitTouchesStaged /\ StagingLastsUntilCommit
=============================================================================
