------------------------------ MODULE RepoSync ------------------------------
(***************************************************************************)
(* Processes that work on repositories at once (repo.rs, sync.rs): each    *)
(* has a local store and pushes to and pulls from the origin.  One action  *)
(* per store call, so that calls of different processes interleave where   *)
(* the code awaits.  A tree stands for the tree and the documents it       *)
(* lists; a failing call and a killed process both end in Abort.           *)
(***************************************************************************)
EXTENDS CommitGraph

CONSTANTS
  Commits,      \* commit hashes, as many as are ever made
  Trees,        \* tree hashes
  Stores, Procs, Branches,
  Local,        \* the store a process works on
  Origin,       \* the store it syncs with
  Calls,        \* the calls a process makes
  Policies,     \* the RefConflict policies in use
  TreesStored   \* callers of Repo::commit pass a tree they have stored

Kinds == {"commit", "merge", "branch", "delete", "push", "pull"}
HEAD == "HEAD"
Refs == Branches \union {HEAD}
Objects == Commits \union Trees

ASSUME LocalIsStore == Local \in [Procs -> Stores] /\ Origin \in Stores
ASSUME CallsKnown == Calls \in [Procs -> SUBSET Kinds]
ASSUME PoliciesKnown == Policies \subseteq {"FastForwardOnly", "Overwrite", "Reject"}
ASSUME HeadIsNoBranch == HEAD \notin Branches
ASSUME NoneIsNoObject == None \notin Objects /\ None \notin Branches
ASSUME CommitsAreNoTrees == Commits \intersect Trees = {}
ASSUME HashesAreFinite == IsFiniteSet(Commits)
ASSUME TreesStoredIsBoolean == TreesStored \in BOOLEAN

VARIABLES
  parents, treeOf,      \* what the commit objects say
  objects,              \* object hashes of each store
  refs,                 \* branches and HEAD of each store
  op                    \* what each process is doing

vars == <<parents, treeOf, objects, refs, op>>

\* kind: the call; pc: its next step; seen: the value read from the ref that
\* it is to move; new: the commit to write there; todo: branches left to sync.
Idle == [kind |-> "none", pc |-> "idle", branch |-> None, seen |-> None,
         new |-> None, tree |-> None, todo |-> {}, policy |-> "none"]

Steps == {"idle", "tip", "put", "theirs", "base", "tree", "move", "head",
          "src", "dst", "transfer", "resolve"}

TypeOK ==
  /\ parents \in [Commits -> Seq(Commits)]
  /\ treeOf \in [Commits -> Trees \union {None}]
  /\ objects \in [Stores -> SUBSET Objects]
  /\ refs \in [Stores -> [Refs -> Commits \union {None}]]
  /\ op \in [Procs ->
       [kind : Kinds \union {"none"}, pc : Steps, branch : Branches \union {None},
        seen : Commits \union {None}, new : Commits \union {None},
        tree : Trees \union {None}, todo : SUBSET Branches,
        policy : Policies \union {"none"}]]

Init ==
  /\ parents = [c \in Commits |-> <<>>]
  /\ treeOf = [c \in Commits |-> None]
  /\ objects = [s \in Stores |-> {}]
  /\ refs = [s \in Stores |-> [r \in Refs |-> None]]
  /\ op = [p \in Procs |-> Idle]

-----------------------------------------------------------------------------
Syncs(p) == op[p].kind \in {"push", "pull"}

\* The store a process reads from and the one it writes to.
Source(p) == IF op[p].kind = "pull" THEN Origin ELSE Local[p]
Target(p) == IF op[p].kind = "push" THEN Origin ELSE Local[p]

\* subtree(): what a walk from a commit visits.
Reach(c) == LET history == Ancestors(parents, c)
            IN  history \union {treeOf[x] : x \in history}

Step(p, o) == op' = [op EXCEPT ![p] = o]
At(p, kinds, step) == op[p].kind \in kinds /\ op[p].pc = step
Goto(p, step) == Step(p, [op[p] EXCEPT !.pc = step])
Fail(p) == Step(p, Idle)

\* The call fails or the process dies: what it wrote stays, the rest is lost.
Abort(p) ==
  /\ op[p].pc # "idle"
  /\ Fail(p)
  /\ UNCHANGED <<parents, treeOf, objects, refs>>

Put(s, os) == objects' = [objects EXCEPT ![s] = @ \union os]
Begins(p, kind) == op[p].pc = "idle" /\ kind \in Calls[p]
SetRef(s, r, c) == refs' = [refs EXCEPT ![s][r] = c]

-----------------------------------------------------------------------------
(* Repo::commit, and the build_tree its caller makes before it.            *)

Unmade == {c \in Commits : \A s \in Stores : c \notin objects[s]}

StartCommit(p, b, t) ==
  /\ Begins(p, "commit")
  /\ IF TreesStored THEN Put(Local[p], {t}) ELSE UNCHANGED objects
  /\ Step(p, [Idle EXCEPT !.kind = "commit", !.pc = "tip", !.branch = b, !.tree = t])
  /\ UNCHANGED <<parents, treeOf, refs>>

ReadTip(p) ==
  /\ At(p, {"commit"}, "tip")
  /\ Step(p, [op[p] EXCEPT !.pc = "put", !.seen = refs[Local[p]][op[p].branch]])
  /\ UNCHANGED <<parents, treeOf, objects, refs>>

\* The parents a commit gets: the tip, and for a merge the other branch's.
NewParents(p) ==
  IF op[p].kind = "merge" THEN <<op[p].seen, op[p].new>>
  ELSE IF op[p].seen = None THEN <<>> ELSE <<op[p].seen>>

\* Mutant of PutCommit: the transaction is never committed.
PutCommitUnstored(p) ==
  /\ At(p, {"commit", "merge"}, "put")
  /\ Unmade # {}
  /\ LET c == CHOOSE x \in Unmade : TRUE IN
       /\ parents' = [parents EXCEPT ![c] = NewParents(p)]
       /\ treeOf' = [treeOf EXCEPT ![c] = op[p].tree]
       /\ Step(p, [op[p] EXCEPT !.pc = "move", !.new = c])
  /\ UNCHANGED <<objects, refs>>

PutCommit(p) ==
  /\ At(p, {"commit", "merge"}, "put")
  /\ Unmade # {}
  /\ LET c == CHOOSE x \in Unmade : TRUE IN
       /\ parents' = [parents EXCEPT ![c] = NewParents(p)]
       /\ treeOf' = [treeOf EXCEPT ![c] = op[p].tree]
       /\ Put(Local[p], {c})
       /\ Step(p, [op[p] EXCEPT !.pc = "move", !.new = c])
  /\ UNCHANGED refs

MoveRef(p) ==
  /\ op[p].pc = "move"
  /\ SetRef(Target(p), op[p].branch, op[p].new)
  /\ IF op[p].kind \in {"commit", "merge"} THEN Goto(p, "head")
     ELSE IF Syncs(p) THEN Goto(p, "src")
     ELSE Step(p, Idle)
  /\ UNCHANGED <<parents, treeOf, objects>>

\* Mutant of MoveHead: HEAD is written as a branch name.
MoveHeadSymbolic(p) ==
  /\ op[p].pc = "head"
  /\ SetRef(Local[p], HEAD, op[p].branch)
  /\ Step(p, Idle)
  /\ UNCHANGED <<parents, treeOf, objects>>

MoveHead(p) ==
  /\ op[p].pc = "head"
  /\ SetRef(Local[p], HEAD, op[p].new)
  /\ Step(p, Idle)
  /\ UNCHANGED <<parents, treeOf, objects>>

-----------------------------------------------------------------------------
(* create_branch at the tip of another branch, delete_branch.              *)

CreateBranch(p, b, current) ==
  /\ Begins(p, "branch")
  /\ refs[Local[p]][current] # None
  /\ Step(p, [Idle EXCEPT !.kind = "branch", !.pc = "move", !.branch = b,
                          !.new = refs[Local[p]][current]])
  /\ UNCHANGED <<parents, treeOf, objects, refs>>

DeleteBranch(p, b) ==
  /\ Begins(p, "delete")
  /\ refs[Local[p]][b] # None
  /\ SetRef(Local[p], b, None)
  /\ UNCHANGED <<parents, treeOf, objects, op>>

-----------------------------------------------------------------------------
(* Repo::merge of a branch into the current one.                           *)

StartMerge(p, b) ==
  /\ Begins(p, "merge")
  /\ refs[Local[p]][b] # None
  /\ Step(p, [Idle EXCEPT !.kind = "merge", !.pc = "theirs", !.branch = b,
                          !.seen = refs[Local[p]][b]])
  /\ UNCHANGED <<parents, treeOf, objects, refs>>

ReadTheirs(p, b) ==
  /\ At(p, {"merge"}, "theirs")
  /\ b # op[p].branch
  /\ IF refs[Local[p]][b] \in {None, op[p].seen} THEN Step(p, Idle)
     ELSE Step(p, [op[p] EXCEPT !.pc = "base", !.new = refs[Local[p]][b]])
  /\ UNCHANGED <<parents, treeOf, objects, refs>>

\* Mutant of FindBase: the two fast-forward tests are swapped.
FindBaseSwapped(p) ==
  /\ At(p, {"merge"}, "base")
  /\ LET base == CommonAncestor(parents, op[p].seen, op[p].new) IN
       IF base \in {None, op[p].seen} THEN Step(p, Idle)
       ELSE IF base = op[p].new THEN Goto(p, "move")
       ELSE Goto(p, "tree")
  /\ UNCHANGED <<parents, treeOf, objects, refs>>

\* common_ancestor decides between nothing to do, no common history, a
\* fast-forward to theirs and a merge commit.
FindBase(p) ==
  /\ At(p, {"merge"}, "base")
  /\ LET base == CommonAncestor(parents, op[p].seen, op[p].new) IN
       IF base \in {None, op[p].new} THEN Step(p, Idle)
       ELSE IF base = op[p].seen THEN Goto(p, "move")
       ELSE Goto(p, "tree")
  /\ UNCHANGED <<parents, treeOf, objects, refs>>

\* merge_trees stores the merged tree; the three trees must be there.
MergeTrees(p, t) ==
  /\ At(p, {"merge"}, "tree")
  /\ LET base == CommonAncestor(parents, op[p].seen, op[p].new) IN
       \A c \in {op[p].seen, op[p].new, base} : treeOf[c] \in objects[Local[p]]
  /\ Put(Local[p], {t})
  /\ Step(p, [op[p] EXCEPT !.pc = "put", !.tree = t])
  /\ UNCHANGED <<parents, treeOf, refs>>

-----------------------------------------------------------------------------
(* sync_refs over the branches, from the source to the destination store.  *)

StartSync(p, kind, policy) ==
  /\ Begins(p, kind)
  /\ Local[p] # Origin
  /\ LET src == IF kind = "pull" THEN Origin ELSE Local[p] IN
       Step(p, [Idle EXCEPT !.kind = kind, !.pc = "src", !.policy = policy,
                            !.todo = {b \in Branches : refs[src][b] # None}])
  /\ UNCHANGED <<parents, treeOf, objects, refs>>

EndSync(p) ==
  /\ Syncs(p) /\ op[p].pc = "src" /\ op[p].todo = {}
  /\ Step(p, Idle)
  /\ UNCHANGED <<parents, treeOf, objects, refs>>

\* The listed value is not used: the ref is read again, and may be gone.
ReadSource(p, b) ==
  /\ Syncs(p) /\ op[p].pc = "src" /\ b \in op[p].todo
  /\ IF refs[Source(p)][b] = None THEN Fail(p)
     ELSE Step(p, [op[p] EXCEPT !.pc = "dst", !.branch = b, !.seen = None,
                                !.new = refs[Source(p)][b], !.todo = @ \ {b}])
  /\ UNCHANGED <<parents, treeOf, objects, refs>>

\* Mutant of ReadTarget: a ref the destination lacks is set without transfer.
ReadTargetSkips(p) ==
  /\ Syncs(p) /\ op[p].pc = "dst"
  /\ LET dst == refs[Target(p)][op[p].branch] IN
       Step(p, [op[p] EXCEPT !.seen = dst,
                             !.pc = IF dst = op[p].new THEN "src"
                                    ELSE IF dst = None THEN "move" ELSE "transfer"])
  /\ UNCHANGED <<parents, treeOf, objects, refs>>

ReadTarget(p) ==
  /\ Syncs(p) /\ op[p].pc = "dst"
  /\ LET dst == refs[Target(p)][op[p].branch] IN
       Step(p, [op[p] EXCEPT !.seen = dst,
                             !.pc = IF dst = op[p].new THEN "src" ELSE "transfer"])
  /\ UNCHANGED <<parents, treeOf, objects, refs>>

\* Mutant of Transfer: only the tip and its tree are copied.
TransferTip(p) ==
  /\ Syncs(p) /\ op[p].pc = "transfer"
  /\ Put(Target(p), {op[p].new, treeOf[op[p].new]})
  /\ Goto(p, IF op[p].seen = None THEN "move" ELSE "resolve")
  /\ UNCHANGED <<parents, treeOf, refs>>

\* transfer_objects: the walk fails on a missing object before anything is
\* written; what is missing goes in with one transaction.
Transfer(p) ==
  /\ Syncs(p) /\ op[p].pc = "transfer"
  /\ IF Reach(op[p].new) \subseteq objects[Source(p)]
     THEN /\ Put(Target(p), Reach(op[p].new))
          /\ Goto(p, IF op[p].seen = None THEN "move" ELSE "resolve")
     ELSE Fail(p) /\ UNCHANGED objects
  /\ UNCHANGED <<parents, treeOf, refs>>

\* Mutant of Allows: any common history is enough.
AllowsRelated(policy, src, dst) ==
  \/ policy = "Overwrite"
  \/ policy = "FastForwardOnly" /\ CommonAncestor(parents, src, dst) # None

\* RefConflict::resolve, on the destination's objects.
Allows(policy, src, dst) ==
  \/ policy = "Overwrite"
  \/ policy = "FastForwardOnly" /\ CommonAncestor(parents, src, dst) = dst

Resolve(p) ==
  /\ Syncs(p) /\ op[p].pc = "resolve"
  /\ IF Allows(op[p].policy, op[p].new, op[p].seen) THEN Goto(p, "move") ELSE Fail(p)
  /\ UNCHANGED <<parents, treeOf, objects, refs>>

-----------------------------------------------------------------------------
ProcNext(p) ==
  \/ \E b \in Branches, t \in Trees : StartCommit(p, b, t)
  \/ ReadTip(p) \/ PutCommit(p) \/ MoveRef(p) \/ MoveHead(p)
  \/ \E b, current \in Branches : CreateBranch(p, b, current)
  \/ \E b \in Branches : DeleteBranch(p, b) \/ StartMerge(p, b) \/ ReadTheirs(p, b)
  \/ FindBase(p)
  \/ \E t \in Trees : MergeTrees(p, t)
  \/ \E kind \in {"push", "pull"}, policy \in Policies : StartSync(p, kind, policy)
  \/ EndSync(p)
  \/ \E b \in Branches : ReadSource(p, b)
  \/ ReadTarget(p) \/ Transfer(p) \/ Resolve(p) \/ Abort(p)

Next == \E p \in Procs : ProcNext(p)

Spec == Init /\ [][Next]_vars

-----------------------------------------------------------------------------
\* Processes in any order, failing anywhere, keep what repositories promise:
\* objects arrive with what they refer to before a ref names them.
R == INSTANCE Repository
ImplementsRepository == R!Spec

\* What makes RefsComplete inductive: every store is complete, refs name stored
\* commits, and what a process remembers between its calls is stored where its
\* next call will use it, as nothing is ever removed from a store.
Records ==
  [kind : Kinds \union {"none"}, pc : Steps, branch : Branches \union {None},
   seen : Commits \union {None}, new : Commits \union {None},
   tree : Trees \union {None}, todo : SUBSET Branches,
   policy : Policies \union {"none"}]

From(p, o) == IF o.kind = "pull" THEN Origin ELSE Local[p]
To(p, o) == IF o.kind = "push" THEN Origin ELSE Local[p]

\* What a process in state o remembers is in the store it will use it on.
Held(stored, p, o) ==
  /\ o.tree # None => o.tree \in stored[Local[p]]
  /\ o.seen # None => o.seen \in stored[To(p, o)]
  /\ o.new # None => o.new \in stored[From(p, o)]
  /\ o.pc \in {"resolve", "move", "head"} => o.new \in stored[To(p, o)]
  /\ o.pc \notin {"idle", "src"} => o.branch # None
  /\ o.pc \in {"tip", "put"} /\ o.kind \in {"commit", "merge"} => o.tree # None
  /\ o.pc \in {"theirs", "base", "tree", "put"} /\ o.kind = "merge" => o.seen # None
  /\ o.pc \in {"base", "tree", "put"} /\ o.kind = "merge" => o.new # None
  /\ o.pc \in {"dst", "transfer"} => o.new # None
  /\ o.pc = "head" => o.kind \in {"commit", "merge"}

RepoInv ==
  /\ TypeOK
  /\ \A s \in Stores : R!Complete(objects[s])
  /\ \A s \in Stores, r \in Refs : refs[s][r] # None => refs[s][r] \in objects[s]
  /\ \A p \in Procs : Held(objects, p, op[p])

\* Whatever a store's branches and HEAD name is in the store with its whole
\* history and every tree: log, merge, export and the next push never meet a
\* missing object, also after a sync that stopped half way.
RefsComplete ==
  \A s \in Stores, r \in Refs :
    refs[s][r] # None => Reach(refs[s][r]) \subseteq objects[s]

\* The process moves its branch in this step.
Moves(p) == op[p].pc = "move" /\ op'[p].pc # "move" /\ refs' # refs
Keeps(s, b) == refs[s][b] # None => refs[s][b] \in Ancestors(parents, refs'[s][b])

\* A commit, a merge or a fast-forward-only sync drops a commit from a
\* branch's history only if somebody moved that branch after it was read.
LossNeedsRace ==
  [][\A p \in Procs :
       (Moves(p) /\ op[p].kind # "branch" /\ op[p].policy # "Overwrite") =>
         \/ Keeps(Target(p), op[p].branch)
         \/ refs[Target(p)][op[p].branch] # op[p].seen]_vars

\* "Update only if dst is an ancestor of src (no history loss)." (sync.rs)
FastForwardKeepsHistory ==
  [][\A p \in Procs :
       (Moves(p) /\ op[p].policy = "FastForwardOnly") =>
         Keeps(Target(p), op[p].branch)]_vars
=============================================================================
