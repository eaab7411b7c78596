-------------------------- MODULE RepoSync_proofs --------------------------
(***************************************************************************)
(* Whatever a ref names can be read to the end, for any number of stores,  *)
(* processes, branches and commits, with calls interleaved and cut off     *)
(* anywhere, if callers of Repo::commit store the tree first.              *)
(***************************************************************************)
EXTENDS RepoSync, SequenceTheorems, TLAPS

-----------------------------------------------------------------------------
\* Complete, in terms of this module's operators.
LEMMA CompleteMeans ==
  ASSUME NEW S
  PROVE  R!Complete(S) <=>
           \A c \in S \intersect Commits : ParentsOf(parents, c) \subseteq S /\ treeOf[c] \in S
BY DEF R!Complete, R!ParentsOf, ParentsOf

\* A complete store holds all that can be reached from its commits.
LEMMA CompleteReaches ==
  ASSUME TypeOK, NEW S \in SUBSET Objects, R!Complete(S), NEW c \in S \intersect Commits
  PROVE  Reach(c) \subseteq S
<1> DEFINE H == S \intersect Commits
<1>1. parents \in [Commits -> Seq(Commits)]
  BY DEF TypeOK
<1>2. H \in SUBSET Commits /\ c \in H
  OBVIOUS
<1>3. IsHistory(parents, H)
  <2>1. ASSUME NEW x \in H PROVE ParentsOf(parents, x) \subseteq H
    BY <1>1, ParentsAreCommits, CompleteMeans
  <2>2. QED BY <2>1 DEF IsHistory
<1>4. Ancestors(parents, c) \subseteq H
  BY <1>1, <1>2, <1>3, AncestorsClosed
<1>5. \A x \in H : treeOf[x] \in S
  BY CompleteMeans
<1>6. QED BY <1>4, <1>5 DEF Reach

\* What can be reached from a commit is complete, if its trees are known.
LEMMA ReachIsComplete ==
  ASSUME TypeOK, NEW c \in Commits
  PROVE  R!Complete(Reach(c)) /\ c \in Reach(c)
<1>1. parents \in [Commits -> Seq(Commits)] /\ treeOf \in [Commits -> Trees \union {None}]
  BY DEF TypeOK
<1>2. /\ c \in Ancestors(parents, c) /\ Ancestors(parents, c) \subseteq Commits
      /\ \A x \in Ancestors(parents, c) :
           ParentsOf(parents, x) \subseteq Ancestors(parents, c)
  BY <1>1, AncestorsClosed
<1>3. ASSUME NEW x \in Reach(c), x \in Commits PROVE x \in Ancestors(parents, c)
  <2>1. SUFFICES ASSUME x \notin Ancestors(parents, c) PROVE FALSE
    OBVIOUS
  <2>2. PICK y \in Ancestors(parents, c) : x = treeOf[y]
    BY <2>1, <1>3 DEF Reach
  <2>3. x \in Trees \union {None}
    BY <2>2, <1>1, <1>2
  <2>4. QED BY <2>3, <1>3, CommitsAreNoTrees, NoneIsNoObject DEF Objects
<1>4. ASSUME NEW x \in Reach(c) \intersect Commits
      PROVE  ParentsOf(parents, x) \subseteq Reach(c) /\ treeOf[x] \in Reach(c)
  <2>1. x \in Ancestors(parents, c)
    BY <1>3
  <2>2. QED BY <2>1, <1>2 DEF Reach
<1>5. c \in Reach(c)
  BY <1>2 DEF Reach
<1>6. QED BY <1>4, <1>5, CompleteMeans

-----------------------------------------------------------------------------
\* A step of p keeps the invariant if stores only grow, stay complete, and
\* what p remembers next is held.
LEMMA StepKeeps ==
  ASSUME RepoInv, NEW p \in Procs, NEW o \in Records, Step(p, o),
         parents' \in [Commits -> Seq(Commits)],
         treeOf' \in [Commits -> Trees \union {None}],
         objects' \in [Stores -> SUBSET Objects],
         refs' \in [Stores -> [Refs -> Commits \union {None}]],
         \A s \in Stores : objects[s] \subseteq objects'[s],
         \A s \in Stores : R!Complete(objects[s])',
         \A s \in Stores, r \in Refs : refs'[s][r] # None => refs'[s][r] \in objects'[s],
         Held(objects', p, o)
  PROVE  RepoInv'
<1>1. op \in [Procs -> Records]
  BY DEF RepoInv, TypeOK, Records
<1>2. op' \in [Procs -> Records] /\ op'[p] = o /\ \A q \in Procs \ {p} : op'[q] = op[q]
  BY <1>1 DEF Step
<1>3. TypeOK'
  BY <1>2 DEF TypeOK, Records
<1>4. ASSUME NEW q \in Procs PROVE Held(objects', q, op'[q])
  <2>1. CASE q = p
    BY <2>1, <1>2 DEF Held, From, To
  <2>2. CASE q # p
    <3>1. Held(objects, q, op[q]) /\ op'[q] = op[q]
      BY <2>2, <1>2 DEF RepoInv
    <3>2. From(q, op[q]) \in Stores /\ To(q, op[q]) \in Stores /\ Local[q] \in Stores
      BY LocalIsStore DEF From, To
    <3>3. QED BY <3>1, <3>2 DEF Held, From, To
  <2>3. QED BY <2>1, <2>2
<1>5. QED BY <1>3, <1>4 DEF RepoInv

\* The same for a step that leaves the stores alone.
LEMMA QuietStepKeeps ==
  ASSUME RepoInv, NEW p \in Procs, NEW o \in Records, Step(p, o),
         UNCHANGED <<parents, treeOf, objects, refs>>, Held(objects, p, o)
  PROVE  RepoInv'
<1>1. Held(objects', p, o)
  BY DEF Held, From, To
<1>2. \A s \in Stores : R!Complete(objects[s])'
  BY DEF RepoInv, R!Complete
<1>3. QED BY <1>1, <1>2, StepKeeps DEF RepoInv, TypeOK

\* No process remembers anything at first.
LEMMA InitInv == Init => RepoInv
<1> SUFFICES ASSUME Init PROVE RepoInv
  OBVIOUS
<1>1. Idle \in Records
  BY DEF Idle, Records, Steps
<1>2. TypeOK
  BY <1>1, EmptySeq DEF Init, TypeOK, Records
<1>3. \A p \in Procs : Held(objects, p, op[p])
  BY DEF Init, Held, Idle
<1>4. QED BY <1>2, <1>3 DEF Init, RepoInv, R!Complete

-----------------------------------------------------------------------------
\* What every case below starts from.
LEMMA Known ==
  ASSUME RepoInv, NEW p \in Procs
  PROVE  /\ op[p] \in Records /\ Held(objects, p, op[p]) /\ Idle \in Records /\ Held(objects, p, Idle)
         /\ Local[p] \in Stores /\ Source(p) \in Stores /\ Target(p) \in Stores
         /\ Source(p) = From(p, op[p]) /\ Target(p) = To(p, op[p])
         /\ \A s \in Stores, b \in Branches :
              refs[s][b] \in Commits \union {None} /\ (refs[s][b] # None => refs[s][b] \in objects[s])
<1>1. op[p] \in Records /\ Held(objects, p, op[p])
  BY DEF RepoInv, TypeOK, Records
<1>2. Idle \in Records /\ Held(objects, p, Idle)
  BY DEF Idle, Records, Steps, Held
<1>3. Local[p] \in Stores /\ Source(p) \in Stores /\ Target(p) \in Stores
  BY LocalIsStore DEF Source, Target
<1>4. \A s \in Stores, b \in Branches :
        refs[s][b] \in Commits \union {None} /\ (refs[s][b] # None => refs[s][b] \in objects[s])
  BY DEF RepoInv, TypeOK, Refs
<1>5. QED BY <1>1, <1>2, <1>3, <1>4 DEF Source, Target, From, To

\* Steps that only read keep the invariant.
LEMMA ReadsKeep ==
  ASSUME RepoInv, NEW p \in Procs,
         \/ Abort(p) \/ ReadTip(p) \/ FindBase(p) \/ EndSync(p) \/ ReadTarget(p) \/ Resolve(p)
         \/ \E b \in Branches : StartMerge(p, b) \/ ReadTheirs(p, b) \/ ReadSource(p, b)
         \/ \E b, current \in Branches : CreateBranch(p, b, current)
         \/ \E kind \in {"push", "pull"}, policy \in Policies : StartSync(p, kind, policy)
  PROVE  RepoInv'
<1> USE RepoInv
<1>k. /\ op[p] \in Records /\ Held(objects, p, op[p]) /\ Idle \in Records /\ Held(objects, p, Idle)
      /\ Local[p] \in Stores /\ Source(p) \in Stores /\ Target(p) \in Stores
      /\ Source(p) = From(p, op[p]) /\ Target(p) = To(p, op[p])
  BY Known
<1>r. ASSUME NEW s \in Stores, NEW b \in Branches
      PROVE  refs[s][b] \in Commits \union {None}
             /\ (refs[s][b] # None => refs[s][b] \in objects[s])
  BY Known
<1> USE <1>k
<1> DEFINE Quiet == UNCHANGED <<parents, treeOf, objects, refs>>
<1>0. ASSUME NEW o \in Records, Step(p, o), Quiet, Held(objects, p, o) PROVE RepoInv'
  BY <1>0, QuietStepKeeps
<1>1. CASE Abort(p)
  BY <1>1, <1>0 DEF Abort, Fail
<1>2. CASE ReadTip(p)
  <2> DEFINE o == [op[p] EXCEPT !.pc = "put", !.seen = refs[Local[p]][op[p].branch]]
  <2>1. op[p].kind = "commit" /\ op[p].pc = "tip" /\ op[p].branch \in Branches
    BY <1>2 DEF ReadTip, At, Held, Records
  <2>2. o \in Records
    BY <2>1, <1>r DEF Records, Steps
  <2>3. refs[Local[p]][op[p].branch] # None =>
          refs[Local[p]][op[p].branch] \in objects[Local[p]]
    BY <2>1, <1>r
  <2>4. Held(objects, p, o)
    BY <2>1, <2>3 DEF Records, Held, From, To
  <2>5. QED BY <1>2, <2>2, <2>4, <1>0 DEF ReadTip
<1>3. CASE FindBase(p)
  <2>1. op[p].kind = "merge" /\ op[p].pc = "base"
    BY <1>3 DEF FindBase, At
  <2>2. /\ [op[p] EXCEPT !.pc = "move"] \in Records /\ Held(objects, p, [op[p] EXCEPT !.pc = "move"])
        /\ [op[p] EXCEPT !.pc = "tree"] \in Records /\ Held(objects, p, [op[p] EXCEPT !.pc = "tree"])
    BY <2>1 DEF Records, Held, Steps, From, To
  <2>3. QED BY <1>3, <2>2, <1>0 DEF FindBase, Goto
<1>4. CASE EndSync(p)
  BY <1>4, <1>0 DEF EndSync
<1>5. CASE ReadTarget(p)
  <2> DEFINE dst == refs[Target(p)][op[p].branch]
             next == IF dst = op[p].new THEN "src" ELSE "transfer"
             o == [op[p] EXCEPT !.seen = dst, !.pc = next]
  <2>1. op[p].kind \in {"push", "pull"} /\ op[p].pc = "dst" /\ op[p].branch \in Branches
    BY <1>5 DEF ReadTarget, Syncs, Held, Records
  <2>2. dst \in Commits \union {None} /\ (dst # None => dst \in objects[Target(p)])
    BY <2>1, <1>r
  <2>3. next \in {"src", "transfer"}
    OBVIOUS
  <2>4. Step(p, o) /\ Quiet
    BY <1>5 DEF ReadTarget
  <2> HIDE DEF dst, next
  <2>5. o \in Records
    BY <2>1, <2>2, <2>3 DEF Records, Steps
  <2>6. /\ o.kind = op[p].kind /\ o.pc = next /\ o.branch = op[p].branch /\ o.seen = dst
        /\ o.new = op[p].new /\ o.tree = op[p].tree
    BY DEF Records
  <2> HIDE DEF o
  <2>7. Held(objects, p, o)
    BY <2>1, <2>2, <2>3, <2>6 DEF Held, From, To
  <2>8. QED BY <2>4, <2>5, <2>7, <1>0
<1>6. CASE Resolve(p)
  <2>1. op[p].kind \in {"push", "pull"} /\ op[p].pc = "resolve"
    BY <1>6 DEF Resolve, Syncs
  <2>2. [op[p] EXCEPT !.pc = "move"] \in Records /\ Held(objects, p, [op[p] EXCEPT !.pc = "move"])
    BY <2>1 DEF Records, Held, Steps, From, To
  <2>3. QED BY <1>6, <2>2, <1>0 DEF Resolve, Goto, Fail
<1>7. ASSUME NEW b \in Branches, StartMerge(p, b) PROVE RepoInv'
  <2> DEFINE o == [Idle EXCEPT !.kind = "merge", !.pc = "theirs", !.branch = b,
                               !.seen = refs[Local[p]][b]]
  <2>1. refs[Local[p]][b] \in Commits /\ refs[Local[p]][b] \in objects[Local[p]] /\ b # None
    BY <1>7, <1>r, NoneIsNoObject DEF StartMerge
  <2>2. o \in Records
    BY <2>1, ZenonT(60) DEF Records, Steps, Kinds, Idle
  <2>3. /\ o.kind = "merge" /\ o.pc = "theirs" /\ o.branch = b
        /\ o.seen = refs[Local[p]][b] /\ o.new = None /\ o.tree = None
    BY DEF Idle
  <2>4. Step(p, o) /\ Quiet
    BY <1>7 DEF StartMerge
  <2> HIDE DEF o
  <2>5. Held(objects, p, o)
    BY <2>1, <2>3, NoneIsNoObject DEF Held, From, To, Objects
  <2>6. QED BY <2>2, <2>4, <2>5, <1>0
<1>8. ASSUME NEW b \in Branches, ReadTheirs(p, b) PROVE RepoInv'
  <2> DEFINE o == [op[p] EXCEPT !.pc = "base", !.new = refs[Local[p]][b]]
  <2>1. op[p].kind = "merge" /\ op[p].pc = "theirs"
    BY <1>8 DEF ReadTheirs, At
  <2>2. CASE refs[Local[p]][b] \in {None, op[p].seen}
    BY <1>8, <2>2, <1>0 DEF ReadTheirs
  <2>3. CASE refs[Local[p]][b] \notin {None, op[p].seen}
    <3>0. refs[Local[p]][b] \in Commits /\ refs[Local[p]][b] \in objects[Local[p]]
      BY <2>3, <1>r
    <3>1. o \in Records
      BY <2>1, <3>0 DEF Records, Steps
    <3>2. /\ o.kind = "merge" /\ o.pc = "base" /\ o.branch = op[p].branch
          /\ o.seen = op[p].seen /\ o.new = refs[Local[p]][b] /\ o.tree = op[p].tree
      BY <2>1 DEF Records
    <3>3. Step(p, o) /\ Quiet
      BY <1>8, <2>3 DEF ReadTheirs
    <3> HIDE DEF o
    <3>4. Held(objects, p, o)
      BY <2>1, <3>0, <3>2, NoneIsNoObject DEF Held, From, To, Objects
    <3>5. QED BY <3>1, <3>3, <3>4, <1>0
  <2>4. QED BY <2>2, <2>3
<1>9. ASSUME NEW b \in Branches, ReadSource(p, b) PROVE RepoInv'
  <2> DEFINE o == [op[p] EXCEPT !.pc = "dst", !.branch = b, !.seen = None,
                                !.new = refs[Source(p)][b], !.todo = @ \ {b}]
  <2>1. op[p].kind \in {"push", "pull"} /\ op[p].pc = "src"
    BY <1>9 DEF ReadSource, Syncs
  <2>2. CASE refs[Source(p)][b] = None
    BY <1>9, <2>2, <1>0 DEF ReadSource, Fail
  <2>3. CASE refs[Source(p)][b] # None
    <3>0. /\ refs[Source(p)][b] \in Commits /\ refs[Source(p)][b] \in objects[Source(p)]
          /\ b # None
      BY <2>3, <1>r, NoneIsNoObject
    <3>1. o \in Records
      BY <2>1, <3>0 DEF Records, Steps
    <3>2. /\ o.kind = op[p].kind /\ o.pc = "dst" /\ o.branch = b
          /\ o.seen = None /\ o.new = refs[Source(p)][b] /\ o.tree = op[p].tree
      BY DEF Records
    <3>3. Step(p, o) /\ Quiet
      BY <1>9, <2>3 DEF ReadSource
    <3> HIDE DEF o
    <3>4. Held(objects, p, o)
      BY <2>1, <2>3, <3>0, <3>2 DEF Held, From, To
    <3>5. QED BY <3>1, <3>3, <3>4, <1>0
  <2>4. QED BY <2>2, <2>3
<1>10. ASSUME NEW b \in Branches, NEW current \in Branches, CreateBranch(p, b, current)
       PROVE  RepoInv'
  <2> DEFINE o == [Idle EXCEPT !.kind = "branch", !.pc = "move", !.branch = b,
                               !.new = refs[Local[p]][current]]
  <2>1. refs[Local[p]][current] \in Commits /\ refs[Local[p]][current] \in objects[Local[p]]
        /\ b # None
    BY <1>10, <1>r, NoneIsNoObject DEF CreateBranch
  <2>2. o \in Records
    BY <2>1, ZenonT(60) DEF Records, Steps, Kinds, Idle
  <2>3. /\ o.kind = "branch" /\ o.pc = "move" /\ o.branch = b
        /\ o.seen = None /\ o.new = refs[Local[p]][current] /\ o.tree = None
    BY DEF Idle
  <2>4. Step(p, o) /\ Quiet
    BY <1>10 DEF CreateBranch
  <2> HIDE DEF o
  <2>5. Held(objects, p, o)
    BY <2>1, <2>3 DEF Held, From, To
  <2>6. QED BY <2>2, <2>4, <2>5, <1>0
<1>11. ASSUME NEW kind \in {"push", "pull"}, NEW policy \in Policies,
              StartSync(p, kind, policy)
       PROVE  RepoInv'
  <2> DEFINE src == IF kind = "pull" THEN Origin ELSE Local[p]
             o == [Idle EXCEPT !.kind = kind, !.pc = "src", !.policy = policy,
                               !.todo = {b \in Branches : refs[src][b] # None}]
  <2>1. o \in Records
    BY <1>11, ZenonT(60) DEF Records, Steps, Kinds, Idle
  <2>2. /\ o.kind = kind /\ o.pc = "src"
        /\ o.seen = None /\ o.new = None /\ o.tree = None
    BY DEF Idle
  <2>3. Step(p, o) /\ Quiet
    BY <1>11 DEF StartSync
  <2> HIDE DEF o
  <2>4. Held(objects, p, o)
    BY <2>2, <1>11 DEF Held, From, To
  <2>5. QED BY <2>1, <2>3, <2>4, <1>0
<1>12. QED
  BY <1>1, <1>2, <1>3, <1>4, <1>5, <1>6, <1>7, <1>8, <1>9, <1>10, <1>11

-----------------------------------------------------------------------------
\* Writing a tree, a commit or a copied history.
LEMMA TreeKeepsComplete ==
  ASSUME RepoInv, NEW s \in Stores, NEW t \in Trees, Put(s, {t}), UNCHANGED <<parents, treeOf>>
  PROVE  /\ objects' \in [Stores -> SUBSET Objects]
         /\ \A x \in Stores : objects[x] \subseteq objects'[x] /\ R!Complete(objects[x])'
         /\ t \in objects'[s]
<1>1. objects \in [Stores -> SUBSET Objects] /\ t \in Objects /\ t \notin Commits
  BY CommitsAreNoTrees DEF RepoInv, TypeOK, Objects
<1>2. \A x \in Stores : objects'[x] = IF x = s THEN objects[x] \union {t} ELSE objects[x]
  BY <1>1 DEF Put
<1>3. ASSUME NEW x \in Stores PROVE R!Complete(objects[x])'
  <2>1. objects'[x] \intersect Commits = objects[x] \intersect Commits
        /\ objects[x] \subseteq objects'[x]
    BY <1>1, <1>2
  <2>2. R!Complete(objects[x])
    BY DEF RepoInv
  <2>3. QED BY <2>1, <2>2 DEF R!Complete, R!ParentsOf
<1>4. QED BY <1>1, <1>2, <1>3 DEF Put

\* StartCommit stores the tree it remembers.
LEMMA StartCommitKeeps ==
  ASSUME TreesStored, RepoInv, NEW p \in Procs, NEW b \in Branches, NEW t \in Trees,
         StartCommit(p, b, t)
  PROVE  RepoInv'
<1> DEFINE o == [Idle EXCEPT !.kind = "commit", !.pc = "tip", !.branch = b, !.tree = t]
<1>1. Put(Local[p], {t}) /\ Step(p, o) /\ UNCHANGED <<parents, treeOf, refs>>
  BY DEF StartCommit
<1>2. o \in Records
  BY Known DEF Records, Steps, Kinds, Idle
<1>3. /\ o.kind = "commit" /\ o.pc = "tip" /\ o.branch = b
      /\ o.seen = None /\ o.new = None /\ o.tree = t
  BY DEF Idle
<1> HIDE DEF o
<1>4. Local[p] \in Stores /\ b # None /\ t # None
  BY Known, NoneIsNoObject DEF Objects
<1>5. /\ objects' \in [Stores -> SUBSET Objects] /\ t \in objects'[Local[p]]
      /\ \A x \in Stores : objects[x] \subseteq objects'[x] /\ R!Complete(objects[x])'
  BY <1>1, <1>4, TreeKeepsComplete
<1>6. Held(objects', p, o)
  BY <1>3, <1>4, <1>5 DEF Held, From, To
<1>7. /\ parents' \in [Commits -> Seq(Commits)] /\ treeOf' \in [Commits -> Trees \union {None}]
      /\ refs' \in [Stores -> [Refs -> Commits \union {None}]]
      /\ \A s \in Stores, r \in Refs : refs'[s][r] # None => refs'[s][r] \in objects'[s]
  BY <1>1, <1>5 DEF RepoInv, TypeOK
<1>8. QED BY <1>1, <1>2, <1>5, <1>6, <1>7, StepKeeps

\* MergeTrees stores the merged tree.
LEMMA MergeTreesKeeps ==
  ASSUME RepoInv, NEW p \in Procs, NEW t \in Trees, MergeTrees(p, t)
  PROVE  RepoInv'
<1> DEFINE o == [op[p] EXCEPT !.pc = "put", !.tree = t]
<1>1. /\ op[p].kind = "merge" /\ op[p].pc = "tree"
      /\ Put(Local[p], {t}) /\ Step(p, o) /\ UNCHANGED <<parents, treeOf, refs>>
  BY DEF MergeTrees, At
<1>2. op[p] \in Records /\ Held(objects, p, op[p]) /\ Local[p] \in Stores /\ t # None
  BY Known, NoneIsNoObject DEF Objects
<1>3. o \in Records
  BY <1>2 DEF Records, Steps
<1>4. /\ o.kind = "merge" /\ o.pc = "put" /\ o.branch = op[p].branch
      /\ o.seen = op[p].seen /\ o.new = op[p].new /\ o.tree = t
  BY <1>1, <1>2 DEF Records
<1> HIDE DEF o
<1>5. /\ objects' \in [Stores -> SUBSET Objects] /\ t \in objects'[Local[p]]
      /\ \A x \in Stores : objects[x] \subseteq objects'[x] /\ R!Complete(objects[x])'
  BY <1>1, <1>2, TreeKeepsComplete
<1>6. Held(objects', p, o)
  BY <1>1, <1>2, <1>4, <1>5 DEF Held, From, To
<1>7. /\ parents' \in [Commits -> Seq(Commits)] /\ treeOf' \in [Commits -> Trees \union {None}]
      /\ refs' \in [Stores -> [Refs -> Commits \union {None}]]
      /\ \A s \in Stores, r \in Refs : refs'[s][r] # None => refs'[s][r] \in objects'[s]
  BY <1>1, <1>5 DEF RepoInv, TypeOK
<1>8. QED BY <1>1, <1>3, <1>5, <1>6, <1>7, StepKeeps

\* The commit PutCommit adds is new to every store, and what it refers to is
\* in its own.
LEMMA PutCommitAdds ==
  ASSUME RepoInv, NEW p \in Procs, PutCommit(p)
  PROVE  \E c \in Commits :
           /\ \A s \in Stores : c \notin objects[s]
           /\ parents' = [parents EXCEPT ![c] = NewParents(p)]
           /\ treeOf' = [treeOf EXCEPT ![c] = op[p].tree]
           /\ Put(Local[p], {c})
           /\ Step(p, [op[p] EXCEPT !.pc = "move", !.new = c])
           /\ NewParents(p) \in Seq(Commits)
           /\ \A i \in DOMAIN NewParents(p) : NewParents(p)[i] \in objects[Local[p]]
           /\ op[p].tree \in Trees /\ op[p].tree \in objects[Local[p]]
<1>1. op[p] \in Records /\ Held(objects, p, op[p])
  BY Known
<1>2. op[p].kind \in {"commit", "merge"} /\ op[p].pc = "put"
  BY DEF PutCommit, At
<1>3. op[p].tree \in Trees /\ op[p].tree \in objects[Local[p]]
  BY <1>1, <1>2 DEF Held, Records
<1>4. /\ op[p].seen # None => op[p].seen \in Commits /\ op[p].seen \in objects[Local[p]]
      /\ op[p].new # None => op[p].new \in Commits /\ op[p].new \in objects[Local[p]]
      /\ op[p].kind = "merge" => op[p].seen # None /\ op[p].new # None
  BY <1>1, <1>2 DEF Held, Records, From, To
<1>5. /\ NewParents(p) \in Seq(Commits)
      /\ \A i \in DOMAIN NewParents(p) : NewParents(p)[i] \in objects[Local[p]]
  <2>1. CASE op[p].kind = "merge"
    <3>1. NewParents(p) = <<op[p].seen, op[p].new>>
      BY <2>1 DEF NewParents
    <3>2. QED BY <2>1, <3>1, <1>4
  <2>2. CASE op[p].kind # "merge" /\ op[p].seen = None
    <3>1. NewParents(p) = <<>>
      BY <2>2 DEF NewParents
    <3>2. QED BY <3>1
  <2>3. CASE op[p].kind # "merge" /\ op[p].seen # None
    <3>1. NewParents(p) = <<op[p].seen>>
      BY <2>3 DEF NewParents
    <3>2. QED BY <2>3, <3>1, <1>4
  <2>4. QED BY <2>1, <2>2, <2>3
<1> DEFINE c == CHOOSE x \in Unmade : TRUE
<1>6. Unmade # {}
  BY DEF PutCommit
<1>7. c \in Unmade
  BY <1>6
<1>8. /\ parents' = [parents EXCEPT ![c] = NewParents(p)]
      /\ treeOf' = [treeOf EXCEPT ![c] = op[p].tree]
      /\ Put(Local[p], {c})
      /\ Step(p, [op[p] EXCEPT !.pc = "move", !.new = c])
  BY DEF PutCommit
<1> HIDE DEF c
<1>9. c \in Commits /\ \A s \in Stores : c \notin objects[s]
  BY <1>7 DEF Unmade
<1>10. QED BY <1>3, <1>5, <1>8, <1>9

\* PutCommit adds a commit to a complete store that has all it refers to.
LEMMA PutCommitKeeps ==
  ASSUME RepoInv, NEW p \in Procs, PutCommit(p)
  PROVE  RepoInv'
<1>1. PICK c \in Commits :
        /\ \A s \in Stores : c \notin objects[s]
        /\ parents' = [parents EXCEPT ![c] = NewParents(p)]
        /\ treeOf' = [treeOf EXCEPT ![c] = op[p].tree]
        /\ Put(Local[p], {c})
        /\ Step(p, [op[p] EXCEPT !.pc = "move", !.new = c])
        /\ NewParents(p) \in Seq(Commits)
        /\ \A i \in DOMAIN NewParents(p) : NewParents(p)[i] \in objects[Local[p]]
        /\ op[p].tree \in Trees /\ op[p].tree \in objects[Local[p]]
  BY PutCommitAdds
<1> DEFINE o == [op[p] EXCEPT !.pc = "move", !.new = c]
<1>2. op[p] \in Records /\ Held(objects, p, op[p]) /\ Local[p] \in Stores
  BY Known
<1>3. op[p].kind \in {"commit", "merge"} /\ op[p].pc = "put" /\ refs' = refs
  BY DEF PutCommit, At
<1>4. /\ parents \in [Commits -> Seq(Commits)] /\ treeOf \in [Commits -> Trees \union {None}]
      /\ objects \in [Stores -> SUBSET Objects] /\ c \in Objects
  BY DEF RepoInv, TypeOK, Objects
<1>5. /\ parents'[c] = NewParents(p) /\ treeOf'[c] = op[p].tree
      /\ \A x \in Commits \ {c} : parents'[x] = parents[x] /\ treeOf'[x] = treeOf[x]
  BY <1>1, <1>4
<1>6. \A s \in Stores :
        objects'[s] = IF s = Local[p] THEN objects[s] \union {c} ELSE objects[s]
  BY <1>1, <1>4 DEF Put
<1>7. ASSUME NEW s \in Stores PROVE R!Complete(objects[s])'
  <2>1. ASSUME NEW x \in objects'[s] \intersect Commits
        PROVE  ParentsOf(parents', x) \subseteq objects'[s] /\ treeOf'[x] \in objects'[s]
    <3>1. CASE x = c
      <4>1. s = Local[p]
        BY <3>1, <1>1, <1>6
      <4>2. /\ \A i \in DOMAIN NewParents(p) : NewParents(p)[i] \in objects'[s]
            /\ op[p].tree \in objects'[s]
        BY <4>1, <1>1, <1>6
      <4>3. parents'[x] = NewParents(p) /\ treeOf'[x] = op[p].tree
        BY <3>1, <1>5
      <4>4. ParentsOf(parents', x) = {NewParents(p)[i] : i \in DOMAIN NewParents(p)}
        BY <4>3 DEF ParentsOf
      <4>5. QED BY <4>2, <4>3, <4>4
    <3>2. CASE x # c
      <4>1. x \in objects[s] /\ parents'[x] = parents[x] /\ treeOf'[x] = treeOf[x]
        BY <3>2, <1>5, <1>6
      <4>2. ParentsOf(parents, x) \subseteq objects[s] /\ treeOf[x] \in objects[s]
        BY <4>1, CompleteMeans DEF RepoInv
      <4>3. objects[s] \subseteq objects'[s]
        BY <1>6
      <4>4. QED BY <4>1, <4>2, <4>3 DEF ParentsOf
    <3>3. QED BY <3>1, <3>2
  <2>2. QED BY <2>1 DEF R!Complete, R!ParentsOf, ParentsOf
<1>8. o \in Records
  BY <1>2 DEF Records, Steps
<1>9. /\ o.kind = op[p].kind /\ o.pc = "move" /\ o.branch = op[p].branch
      /\ o.seen = op[p].seen /\ o.new = c /\ o.tree = op[p].tree
  BY <1>2 DEF Records
<1>10. Step(p, o)
  BY <1>1
<1> HIDE DEF o
<1>11. Held(objects', p, o)
  BY <1>2, <1>3, <1>6, <1>9 DEF Held, From, To
<1>12. parents' \in [Commits -> Seq(Commits)] /\ treeOf' \in [Commits -> Trees \union {None}]
  BY <1>1, <1>4
<1>13. objects' \in [Stores -> SUBSET Objects] /\ \A s \in Stores : objects[s] \subseteq objects'[s]
  BY <1>1, <1>4, <1>6 DEF Put
<1>14. /\ refs' \in [Stores -> [Refs -> Commits \union {None}]]
       /\ \A s \in Stores, r \in Refs : refs'[s][r] # None => refs'[s][r] \in objects'[s]
  BY <1>3, <1>13 DEF RepoInv, TypeOK
<1>15. QED BY <1>7, <1>8, <1>10, <1>11, <1>12, <1>13, <1>14, StepKeeps

\* Transfer copies all that the new commit reaches.
LEMMA TransferKeeps ==
  ASSUME RepoInv, NEW p \in Procs, Transfer(p)
  PROVE  RepoInv'
<1> DEFINE c == op[p].new
           next == IF op[p].seen = None THEN "move" ELSE "resolve"
           o == [op[p] EXCEPT !.pc = next]
<1>1. /\ op[p] \in Records /\ Held(objects, p, op[p]) /\ Idle \in Records /\ Held(objects, p, Idle)
      /\ Source(p) \in Stores /\ Target(p) \in Stores /\ Local[p] \in Stores
      /\ Source(p) = From(p, op[p]) /\ Target(p) = To(p, op[p])
  BY Known
<1>2. op[p].kind \in {"push", "pull"} /\ op[p].pc = "transfer" /\ c \in Commits
  BY <1>1 DEF Transfer, Syncs, Held, Records
<1>3. CASE ~(Reach(c) \subseteq objects[Source(p)])
  <2>1. Step(p, Idle) /\ UNCHANGED <<parents, treeOf, objects, refs>>
    BY <1>3 DEF Transfer, Fail
  <2>2. QED BY <2>1, <1>1, QuietStepKeeps
<1>4. CASE Reach(c) \subseteq objects[Source(p)]
  <2>1. Put(Target(p), Reach(c)) /\ Step(p, o) /\ UNCHANGED <<parents, treeOf, refs>>
    BY <1>4 DEF Transfer, Goto
  <2>2. R!Complete(Reach(c)) /\ c \in Reach(c)
    BY <1>2, ReachIsComplete DEF RepoInv
  <2>3. objects \in [Stores -> SUBSET Objects]
    BY DEF RepoInv, TypeOK
  <2>4. \A s \in Stores :
          objects'[s] = IF s = Target(p) THEN objects[s] \union Reach(c) ELSE objects[s]
    BY <2>1, <2>3, <1>1 DEF Put
  <2>5. ASSUME NEW s \in Stores PROVE R!Complete(objects[s])'
    <3>1. R!Complete(objects[s])
      BY DEF RepoInv
    <3>2. \A x \in objects'[s] \intersect Commits :
             ParentsOf(parents, x) \subseteq objects'[s] /\ treeOf[x] \in objects'[s]
      BY <3>1, <2>2, <2>4, CompleteMeans
    <3>3. parents' = parents /\ treeOf' = treeOf
      BY <2>1
    <3>4. QED BY <3>2, <3>3 DEF R!Complete, R!ParentsOf, ParentsOf
  <2>6. Reach(c) \subseteq Objects
    BY <1>1, <1>4, <2>3
  <2>7. objects' \in [Stores -> SUBSET Objects] /\ \A s \in Stores : objects[s] \subseteq objects'[s]
    BY <2>1, <2>3, <2>4, <2>6 DEF Put
  <2>8. next \in {"move", "resolve"}
    OBVIOUS
  <2> HIDE DEF next
  <2>9. o \in Records
    BY <1>1, <2>8 DEF Records, Steps
  <2>10. /\ o.kind = op[p].kind /\ o.pc = next /\ o.branch = op[p].branch
         /\ o.seen = op[p].seen /\ o.new = c /\ o.tree = op[p].tree
    BY <1>1 DEF Records
  <2>11. c \in objects'[Target(p)]
    BY <1>1, <2>2, <2>4
  <2> HIDE DEF o, c
  <2>12. Held(objects', p, o)
    <3>1. op[p].branch # None /\ op[p].new # None /\ c = op[p].new
      BY <1>1, <1>2 DEF Held, c
    <3>2. From(p, o) = Source(p) /\ To(p, o) = Target(p)
      BY <1>1, <2>10 DEF From, To
    <3>3. /\ o.tree # None => o.tree \in objects[Local[p]]
          /\ o.seen # None => o.seen \in objects[Target(p)]
          /\ c \in objects[Source(p)]
      BY <1>1, <2>10, <3>1 DEF Held
    <3>4. QED BY <1>1, <1>2, <2>7, <2>8, <2>10, <2>11, <3>1, <3>2, <3>3 DEF Held
  <2>13. /\ refs' \in [Stores -> [Refs -> Commits \union {None}]]
         /\ parents' \in [Commits -> Seq(Commits)] /\ treeOf' \in [Commits -> Trees \union {None}]
         /\ \A s \in Stores, r \in Refs : refs'[s][r] # None => refs'[s][r] \in objects'[s]
    BY <2>1, <2>7 DEF RepoInv, TypeOK
  <2>14. QED BY <2>1, <2>5, <2>7, <2>9, <2>12, <2>13, StepKeeps
<1>5. QED BY <1>3, <1>4

\* A ref set to a stored commit, or dropped, leaves refs naming stored commits.
LEMMA RefKeeps ==
  ASSUME RepoInv, NEW s \in Stores, NEW r \in Refs, NEW c \in Commits \union {None},
         c # None => c \in objects[s], SetRef(s, r, c)
  PROVE  /\ refs' \in [Stores -> [Refs -> Commits \union {None}]]
         /\ \A x \in Stores, y \in Refs : refs'[x][y] # None => refs'[x][y] \in objects[x]
<1>1. refs \in [Stores -> [Refs -> Commits \union {None}]]
  BY DEF RepoInv, TypeOK
<1>2. /\ refs' \in [Stores -> [Refs -> Commits \union {None}]]
      /\ \A x \in Stores, y \in Refs :
           refs'[x][y] = IF x = s /\ y = r THEN c ELSE refs[x][y]
  BY <1>1 DEF SetRef
<1>3. QED BY <1>2 DEF RepoInv

\* MoveRef, MoveHead and DeleteBranch write refs only.
LEMMA RefStepKeeps ==
  ASSUME RepoInv, NEW p \in Procs, NEW o \in Records, Step(p, o), Held(objects, p, o),
         NEW s \in Stores, NEW r \in Refs, NEW c \in Commits \union {None},
         c # None => c \in objects[s], SetRef(s, r, c),
         UNCHANGED <<parents, treeOf, objects>>
  PROVE  RepoInv'
<1>1. /\ refs' \in [Stores -> [Refs -> Commits \union {None}]]
      /\ \A x \in Stores, y \in Refs : refs'[x][y] # None => refs'[x][y] \in objects'[x]
  BY RefKeeps
<1>2. \A x \in Stores : R!Complete(objects[x])'
  BY DEF RepoInv, R!Complete, R!ParentsOf
<1>3. QED BY <1>1, <1>2, StepKeeps DEF RepoInv, TypeOK

\* What MoveRef writes is in the store it writes to.
LEMMA MoveRefWrites ==
  ASSUME RepoInv, NEW p \in Procs, MoveRef(p)
  PROVE  /\ op[p].branch \in Refs /\ op[p].new \in Commits
         /\ op[p].new \in objects[Target(p)] /\ Target(p) \in Stores
<1>1. op[p] \in Records /\ Held(objects, p, op[p]) /\ Target(p) = To(p, op[p]) /\ Target(p) \in Stores
  BY Known
<1>2. op[p].pc = "move"
  BY DEF MoveRef
<1>3. op[p].branch # None /\ op[p].new \in objects[Target(p)]
  BY <1>1, <1>2 DEF Held
<1>4. objects[Target(p)] \in SUBSET Objects
  BY <1>1 DEF RepoInv, TypeOK
<1>5. op[p].new # None
  BY <1>3, <1>4, NoneIsNoObject
<1>6. QED BY <1>1, <1>3, <1>5 DEF Records, Refs

\* MoveRef keeps the invariant: it names what its process found or stored.
LEMMA MoveRefKeeps ==
  ASSUME RepoInv, NEW p \in Procs, MoveRef(p)
  PROVE  RepoInv'
<1>1. /\ op[p] \in Records /\ Held(objects, p, op[p])
      /\ Idle \in Records /\ Held(objects, p, Idle) /\ Target(p) = To(p, op[p])
  BY Known
<1>2. /\ op[p].branch \in Refs /\ op[p].new \in Commits
      /\ op[p].new \in objects[Target(p)] /\ Target(p) \in Stores
  BY MoveRefWrites
<1>3. /\ op[p].pc = "move" /\ SetRef(Target(p), op[p].branch, op[p].new)
      /\ UNCHANGED <<parents, treeOf, objects>>
  BY DEF MoveRef
<1>4. ASSUME NEW o \in Records, Step(p, o), Held(objects, p, o) PROVE RepoInv'
  BY <1>2, <1>3, <1>4, RefStepKeeps
<1>5. CASE op[p].kind \in {"commit", "merge"}
  <2> DEFINE o == [op[p] EXCEPT !.pc = "head"]
  <2>1. Step(p, o)
    BY <1>5 DEF MoveRef, Goto
  <2>2. o \in Records
    BY <1>1 DEF Records, Steps
  <2>3. /\ o.kind = op[p].kind /\ o.pc = "head" /\ o.branch = op[p].branch
        /\ o.seen = op[p].seen /\ o.new = op[p].new /\ o.tree = op[p].tree
    BY <1>1 DEF Records
  <2> HIDE DEF o
  <2>4. Held(objects, p, o)
    BY <1>1, <1>2, <1>3, <1>5, <2>3 DEF Held, From, To
  <2>5. QED BY <2>1, <2>2, <2>4, <1>4
<1>6. CASE op[p].kind \notin {"commit", "merge"} /\ Syncs(p)
  <2> DEFINE o == [op[p] EXCEPT !.pc = "src"]
  <2>1. Step(p, o)
    BY <1>6 DEF MoveRef, Goto
  <2>2. o \in Records
    BY <1>1 DEF Records, Steps
  <2>3. /\ o.kind = op[p].kind /\ o.pc = "src" /\ o.branch = op[p].branch
        /\ o.seen = op[p].seen /\ o.new = op[p].new /\ o.tree = op[p].tree
    BY <1>1 DEF Records
  <2> HIDE DEF o
  <2>4. Held(objects, p, o)
    BY <1>1, <1>2, <1>3, <1>6, <2>3 DEF Held, From, To
  <2>5. QED BY <2>1, <2>2, <2>4, <1>4
<1>7. CASE op[p].kind \notin {"commit", "merge"} /\ ~Syncs(p)
  BY <1>1, <1>7, <1>4 DEF MoveRef
<1>8. QED BY <1>5, <1>6, <1>7

\* What MoveHead writes is in the store it writes to.
LEMMA MoveHeadWrites ==
  ASSUME RepoInv, NEW p \in Procs, MoveHead(p)
  PROVE  op[p].new \in Commits /\ op[p].new \in objects[Local[p]] /\ Local[p] \in Stores
<1>1. op[p] \in Records /\ Held(objects, p, op[p]) /\ Local[p] \in Stores
  BY Known
<1>2. op[p].pc = "head" /\ op[p].kind \in {"commit", "merge"}
  BY <1>1 DEF MoveHead, Held
<1>3. op[p].new \in objects[Local[p]]
  BY <1>1, <1>2 DEF Held, To
<1>4. objects[Local[p]] \in SUBSET Objects
  BY <1>1 DEF RepoInv, TypeOK
<1>5. op[p].new # None
  BY <1>3, <1>4, NoneIsNoObject
<1>6. QED BY <1>1, <1>3, <1>5 DEF Records

\* MoveHead keeps the invariant: it names the commit the call just made.
LEMMA MoveHeadKeeps ==
  ASSUME RepoInv, NEW p \in Procs, MoveHead(p)
  PROVE  RepoInv'
<1>1. op[p].new \in Commits /\ op[p].new \in objects[Local[p]] /\ Local[p] \in Stores
  BY MoveHeadWrites
<1>2. /\ SetRef(Local[p], HEAD, op[p].new) /\ Step(p, Idle) /\ HEAD \in Refs
      /\ UNCHANGED <<parents, treeOf, objects>>
  BY DEF MoveHead, Refs
<1>3. Idle \in Records /\ Held(objects, p, Idle)
  BY Known
<1>4. QED BY <1>1, <1>2, <1>3, RefStepKeeps

\* DeleteBranch keeps the invariant: it takes a name away.
LEMMA DeleteBranchKeeps ==
  ASSUME RepoInv, NEW p \in Procs, NEW b \in Branches, DeleteBranch(p, b)
  PROVE  RepoInv'
<1>1. op[p] \in Records /\ Held(objects, p, op[p]) /\ Local[p] \in Stores
  BY Known
<1>2. Step(p, op[p])
  <2>1. op \in [Procs -> Records]
    BY DEF RepoInv, TypeOK, Records
  <2>2. QED BY <2>1 DEF DeleteBranch, Step
<1>3. SetRef(Local[p], b, None) /\ b \in Refs /\ UNCHANGED <<parents, treeOf, objects>>
  BY DEF DeleteBranch, Refs
<1>4. QED BY <1>1, <1>2, <1>3, RefStepKeeps

-----------------------------------------------------------------------------
\* Every step keeps the invariant.
LEMMA NextInv ==
  ASSUME TreesStored, RepoInv, [Next]_vars
  PROVE  RepoInv'
<1>1. ASSUME NEW p \in Procs, ProcNext(p) PROVE RepoInv'
  <2>1. ASSUME NEW b \in Branches, NEW t \in Trees, StartCommit(p, b, t) PROVE RepoInv'
    BY <2>1, StartCommitKeeps
  <2>2. CASE PutCommit(p)
    BY <2>2, PutCommitKeeps
  <2>3. CASE MoveRef(p)
    BY <2>3, MoveRefKeeps
  <2>4. CASE MoveHead(p)
    BY <2>4, MoveHeadKeeps
  <2>5. ASSUME NEW b \in Branches, DeleteBranch(p, b) PROVE RepoInv'
    BY <2>5, DeleteBranchKeeps
  <2>6. ASSUME NEW t \in Trees, MergeTrees(p, t) PROVE RepoInv'
    BY <2>6, MergeTreesKeeps
  <2>7. CASE Transfer(p)
    BY <2>7, TransferKeeps
  <2>8. CASE \/ Abort(p) \/ ReadTip(p) \/ FindBase(p) \/ EndSync(p) \/ ReadTarget(p) \/ Resolve(p)
             \/ \E b \in Branches : StartMerge(p, b) \/ ReadTheirs(p, b) \/ ReadSource(p, b)
             \/ \E b, current \in Branches : CreateBranch(p, b, current)
             \/ \E kind \in {"push", "pull"}, policy \in Policies : StartSync(p, kind, policy)
    BY <2>8, ReadsKeep
  <2>9. QED BY <1>1, <2>1, <2>2, <2>3, <2>4, <2>5, <2>6, <2>7, <2>8 DEF ProcNext
<1>2. CASE UNCHANGED vars
  BY <1>2 DEF vars, RepoInv, TypeOK, Held, From, To, R!Complete, R!ParentsOf
<1>3. QED BY <1>1, <1>2 DEF Next

\* If callers of Repo::commit store the tree first, every store stays complete
\* and what processes remember between their calls is in the stores.
THEOREM InvHolds == ASSUME TreesStored PROVE Spec => []RepoInv
<1>1. TreesStored /\ RepoInv /\ [Next]_vars => RepoInv'
  BY NextInv
<1>2. QED BY <1>1, InitInv, PTL DEF Spec

\* Stores, refs and the state of every call stay in their types.
THEOREM RepoIsTyped == ASSUME TreesStored PROVE Spec => []TypeOK
<1>1. RepoInv => TypeOK
  BY DEF RepoInv
<1>2. QED BY <1>1, InvHolds, PTL

\* Whatever a branch or HEAD names is in its store with all its history,
\* whatever calls interleave and wherever they are cut off.
THEOREM RefsStayComplete == ASSUME TreesStored PROVE Spec => []RefsComplete
<1>1. ASSUME RepoInv PROVE RefsComplete
  <2>1. ASSUME NEW s \in Stores, NEW r \in Refs, refs[s][r] # None
        PROVE  Reach(refs[s][r]) \subseteq objects[s]
    <3>1. TypeOK /\ R!Complete(objects[s]) /\ objects[s] \in SUBSET Objects
      BY <1>1 DEF RepoInv, TypeOK
    <3>2. refs[s][r] \in objects[s] \intersect Commits
      BY <1>1, <2>1 DEF RepoInv, TypeOK
    <3>3. QED BY <3>1, <3>2, CompleteReaches
  <2>2. QED BY <2>1 DEF RefsComplete
<1>2. RepoInv => RefsComplete
  BY <1>1
<1>3. QED BY <1>2, InvHolds, PTL

-----------------------------------------------------------------------------
\* Every step is one the repository contract allows, or leaves stores alone.
LEMMA StepRefines ==
  ASSUME RepoInv, NEW p \in Procs, ProcNext(p)
  PROVE  R!Next \/ UNCHANGED R!vars
<1>k. /\ Local[p] \in Stores /\ Source(p) \in Stores /\ Target(p) \in Stores
  BY Known
<1>1. ASSUME NEW b \in Branches, NEW t \in Trees, StartCommit(p, b, t)
      PROVE  R!Next \/ UNCHANGED R!vars
  <2>1. CASE TreesStored
    <3>1. R!AddTree(Local[p], t)
      BY <1>1, <2>1 DEF StartCommit, Put, R!AddTree
    <3>2. QED BY <1>k, <3>1 DEF R!Next
  <2>2. CASE ~TreesStored
    BY <1>1, <2>2 DEF StartCommit, R!vars
  <2>3. QED BY <2>1, <2>2
<1>2. CASE PutCommit(p)
  <2>1. PICK c \in Commits :
          /\ \A s \in Stores : c \notin objects[s]
          /\ parents' = [parents EXCEPT ![c] = NewParents(p)]
          /\ treeOf' = [treeOf EXCEPT ![c] = op[p].tree]
          /\ Put(Local[p], {c})
          /\ \A i \in DOMAIN NewParents(p) : NewParents(p)[i] \in objects[Local[p]]
          /\ op[p].tree \in Trees /\ op[p].tree \in objects[Local[p]]
    BY <1>2, PutCommitAdds
  <2>2. parents'[c] = NewParents(p)
    BY <2>1 DEF RepoInv, TypeOK
  <2>3. R!ParentsOf(parents', c) \subseteq objects[Local[p]]
    BY <2>1, <2>2 DEF R!ParentsOf
  <2>4. refs' = refs
    BY <1>2 DEF PutCommit
  <2>5. R!AddCommit(Local[p], c)
    BY <2>1, <2>2, <2>3, <2>4 DEF R!AddCommit, Put
  <2>6. QED BY <1>k, <2>5 DEF R!Next
<1>3. CASE MoveRef(p)
  <2>1. /\ op[p].branch \in Refs /\ op[p].new \in objects[Target(p)] \intersect Commits
    BY <1>3, MoveRefWrites
  <2>2. R!Point(Target(p), op[p].branch)
    BY <1>3, <2>1 DEF MoveRef, SetRef, R!Point
  <2>3. QED BY <1>k, <2>1, <2>2 DEF R!Next
<1>4. CASE MoveHead(p)
  <2>1. HEAD \in Refs /\ op[p].new \in objects[Local[p]] \intersect Commits
    BY <1>4, MoveHeadWrites DEF Refs
  <2>2. R!Point(Local[p], HEAD)
    BY <1>4, <2>1 DEF MoveHead, SetRef, R!Point
  <2>3. QED BY <1>k, <2>1, <2>2 DEF R!Next
<1>5. ASSUME NEW b \in Branches, DeleteBranch(p, b) PROVE R!Next
  <2>1. R!Drop(Local[p], b) /\ b \in Refs
    BY <1>5 DEF DeleteBranch, SetRef, R!Drop, Refs
  <2>2. QED BY <1>k, <2>1 DEF R!Next
<1>6. ASSUME NEW t \in Trees, MergeTrees(p, t) PROVE R!Next
  <2>1. R!AddTree(Local[p], t)
    BY <1>6 DEF MergeTrees, Put, R!AddTree
  <2>2. QED BY <1>k, <2>1 DEF R!Next
<1>7. CASE Transfer(p)
  <2>1. CASE Reach(op[p].new) \subseteq objects[Source(p)]
    <3>1. op[p].new \in Commits
      BY <1>7, Known DEF Transfer, Syncs, Held, Records
    <3>2. R!Complete(Reach(op[p].new))
      BY <3>1, ReachIsComplete DEF RepoInv
    <3>3. R!Copy(Source(p), Target(p))
      BY <1>7, <2>1, <3>2 DEF Transfer, Put, R!Copy
    <3>4. QED BY <1>k, <3>3 DEF R!Next
  <2>2. CASE ~(Reach(op[p].new) \subseteq objects[Source(p)])
    BY <1>7, <2>2 DEF Transfer, R!vars
  <2>3. QED BY <2>1, <2>2
<1>8. ASSUME \/ Abort(p) \/ ReadTip(p) \/ FindBase(p) \/ EndSync(p) \/ ReadTarget(p) \/ Resolve(p)
             \/ \E b \in Branches : StartMerge(p, b) \/ ReadTheirs(p, b) \/ ReadSource(p, b)
             \/ \E b, current \in Branches : CreateBranch(p, b, current)
             \/ \E kind \in {"push", "pull"}, policy \in Policies : StartSync(p, kind, policy)
      PROVE  UNCHANGED R!vars
  BY <1>8 DEF R!vars, Abort, ReadTip, FindBase, EndSync, ReadTarget, Resolve, StartMerge,
       ReadTheirs, ReadSource, CreateBranch, StartSync
<1>9. QED BY <1>1, <1>2, <1>3, <1>4, <1>5, <1>6, <1>7, <1>8 DEF ProcNext

\* The processes keep what repositories promise: a store gains an object only
\* after what it refers to, and a ref never names what its store lacks.
THEOREM RepoSyncIsRepository == ASSUME TreesStored PROVE Spec => ImplementsRepository
<1>1. Init => R!Init
  BY DEF Init, R!Init
<1>2. ASSUME RepoInv, [Next]_vars PROVE [R!Next]_R!vars
  <2>1. CASE UNCHANGED vars
    BY <2>1 DEF vars, R!vars
  <2>2. CASE Next
    BY <1>2, <2>2, StepRefines DEF Next
  <2>3. QED BY <1>2, <2>1, <2>2
<1>3. RepoInv /\ [Next]_vars => [R!Next]_R!vars
  BY <1>2
<1>4. QED BY <1>1, <1>3, InvHolds, PTL DEF Spec, ImplementsRepository, R!Spec

-----------------------------------------------------------------------------
\* What a process about to move a branch knows of it: the value it read, if
\* any, is in the history of the commit it is about to name there.
MoveKnown(pars, o) ==
  (o.pc = "move" /\ o.kind # "branch" /\ o.policy # "Overwrite" /\ o.seen # None) =>
    o.seen \in Ancestors(pars, o.new)
MoveInv == RepoInv /\ \A p \in Procs : MoveKnown(parents, op[p])

\* No step takes an ancestor from a stored commit.
LEMMA StoredHistoryStays ==
  ASSUME RepoInv, [Next]_vars, NEW s \in Stores, NEW c \in objects[s] \intersect Commits
  PROVE  Ancestors(parents, c) \subseteq Ancestors(parents', c)
<1>1. CASE parents' = parents
  BY <1>1
<1>2. ASSUME NEW p \in Procs, PutCommit(p)
      PROVE  Ancestors(parents, c) \subseteq Ancestors(parents', c)
  <2>1. PICK x \in Commits :
          /\ \A y \in Stores : x \notin objects[y]
          /\ parents' = [parents EXCEPT ![x] = NewParents(p)]
          /\ NewParents(p) \in Seq(Commits)
    BY <1>2, PutCommitAdds
  <2> DEFINE H == objects[s] \intersect Commits
  <2>2. parents \in [Commits -> Seq(Commits)] /\ parents' \in [Commits -> Seq(Commits)]
    BY <2>1 DEF RepoInv, TypeOK
  <2>3. \A y \in H : parents'[y] = parents[y]
    BY <2>1, <2>2
  <2>4. IsHistory(parents, H)
    <3>1. ASSUME NEW y \in H PROVE ParentsOf(parents, y) \subseteq H
      <4>1. ParentsOf(parents, y) \subseteq objects[s]
        BY CompleteMeans DEF RepoInv
      <4>2. ParentsOf(parents, y) \subseteq Commits
        BY <2>2, ParentsAreCommits
      <4>3. QED BY <4>1, <4>2
    <3>2. QED BY <3>1 DEF IsHistory
  <2>5. c \in H /\ H \in SUBSET Commits
    OBVIOUS
  <2> HIDE DEF H
  <2>6. QED BY <2>2, <2>3, <2>4, <2>5, AncestorsKept
<1>3. CASE \A p \in Procs : ~PutCommit(p)
  <2>1. parents' = parents
    BY <1>3, ZenonT(60) DEF Next, ProcNext, vars, StartCommit, ReadTip, MoveRef, MoveHead, CreateBranch,
         DeleteBranch, StartMerge, ReadTheirs, FindBase, MergeTrees, StartSync, EndSync,
         ReadSource, ReadTarget, Transfer, Resolve, Abort
  <2>2. QED BY <2>1
<1>4. QED BY <1>2, <1>3

\* A process that only waits keeps what it knows.
LEMMA WaitingKnows ==
  ASSUME MoveInv, [Next]_vars, NEW q \in Procs, op'[q] = op[q]
  PROVE  MoveKnown(parents', op'[q])
<1> SUFFICES ASSUME op[q].pc = "move", op[q].kind # "branch", op[q].policy # "Overwrite",
                    op[q].seen # None
             PROVE  op[q].seen \in Ancestors(parents', op[q].new)
  BY DEF MoveKnown
<1>1. op[q].seen \in Ancestors(parents, op[q].new)
  BY DEF MoveInv, MoveKnown
<1>2. op[q] \in Records /\ Held(objects, q, op[q]) /\ Target(q) \in Stores /\ Target(q) = To(q, op[q])
  BY Known DEF MoveInv
<1>3. op[q].new \in objects[Target(q)] /\ objects[Target(q)] \in SUBSET Objects
  BY <1>2 DEF Held, MoveInv, RepoInv, TypeOK
<1>4. op[q].new \in objects[Target(q)] \intersect Commits
  BY <1>2, <1>3, NoneIsNoObject DEF Records
<1>5. RepoInv
  BY DEF MoveInv
<1>6. Ancestors(parents, op[q].new) \subseteq Ancestors(parents', op[q].new)
  BY <1>2, <1>4, <1>5, StoredHistoryStays
<1>7. QED BY <1>1, <1>6

\* What common_ancestor says to a process.
LEMMA BaseIsAncestor ==
  ASSUME TypeOK, NEW x \in Commits, NEW y \in Commits, CommonAncestor(parents, x, y) # None
  PROVE  CommonAncestor(parents, x, y) \in Ancestors(parents, x) \intersect Ancestors(parents, y)
<1>1. None \notin Commits /\ parents \in [Commits -> Seq(Commits)]
  BY NoneIsNoObject DEF TypeOK, Objects
<1>2. QED BY <1>1, HashesAreFinite, CommonAncestorIsCommon DEF CommonAncestors

\* The process that takes a step knows what it must if it is to move a branch.
LEMMA StepperKnows ==
  ASSUME MoveInv, NEW p \in Procs, ProcNext(p), op'[p] # op[p]
  PROVE  MoveKnown(parents', op'[p])
<1> SUFFICES ASSUME op'[p].pc = "move", op'[p].kind # "branch", op'[p].policy # "Overwrite",
                    op'[p].seen # None
             PROVE  op'[p].seen \in Ancestors(parents', op'[p].new)
  BY DEF MoveKnown
<1>0. op[p] \in Records /\ Held(objects, p, op[p]) /\ RepoInv /\ TypeOK /\ p \in DOMAIN op
  BY Known DEF MoveInv, RepoInv, TypeOK
<1>s. ASSUME NEW o, Step(p, o) PROVE op'[p] = o
  BY <1>0, <1>s DEF Step
<1>1. CASE PutCommit(p)
  <2>1. PICK c \in Commits :
          /\ parents' = [parents EXCEPT ![c] = NewParents(p)]
          /\ Step(p, [op[p] EXCEPT !.pc = "move", !.new = c])
          /\ NewParents(p) \in Seq(Commits)
    BY <1>0, <1>1, PutCommitAdds
  <2>2. op'[p].new = c /\ op'[p].seen = op[p].seen /\ op[p].kind \in {"commit", "merge"}
    BY <1>0, <1>1, <1>s, <2>1 DEF Records, PutCommit, At
  <2>3. parents' \in [Commits -> Seq(Commits)] /\ parents'[c] = NewParents(p)
    BY <1>0, <2>1 DEF TypeOK
  <2>4. \E i \in DOMAIN NewParents(p) : NewParents(p)[i] = op[p].seen
    <3>1. CASE op[p].kind = "merge"
      <4>1. NewParents(p) = <<op[p].seen, op[p].new>>
        BY <3>1 DEF NewParents
      <4>2. 1 \in DOMAIN NewParents(p) /\ NewParents(p)[1] = op[p].seen
        BY <4>1
      <4>3. QED BY <4>2
    <3>2. CASE op[p].kind # "merge"
      <4>1. NewParents(p) = <<op[p].seen>>
        BY <2>2, <3>2 DEF NewParents
      <4>2. 1 \in DOMAIN NewParents(p) /\ NewParents(p)[1] = op[p].seen
        BY <4>1
      <4>3. QED BY <4>2
    <3>3. QED BY <3>1, <3>2
  <2>5. op[p].seen \in ParentsOf(parents', c)
    BY <2>3, <2>4 DEF ParentsOf
  <2>6. QED BY <2>2, <2>3, <2>5, AncestorsClosed
<1>2. CASE FindBase(p)
  <2> DEFINE base == CommonAncestor(parents, op[p].seen, op[p].new)
  <2>1. op[p].kind = "merge" /\ op[p].pc = "base"
    BY <1>2 DEF FindBase, At
  <2>2. op[p].seen \in Commits /\ op[p].new \in Commits
    BY <1>0, <2>1 DEF Held, Records
  <2>3. /\ op'[p].seen = op[p].seen /\ op'[p].new = op[p].new /\ parents' = parents
        /\ base = op[p].seen /\ base # None
    <3>1. CASE base \in {None, op[p].new}
      BY <1>2, <3>1, <1>s DEF FindBase, Idle
    <3>2. CASE base \notin {None, op[p].new} /\ base # op[p].seen
      <4>1. Step(p, [op[p] EXCEPT !.pc = "tree"])
        BY <1>2, <3>2 DEF FindBase, Goto
      <4>2. op'[p].pc = "tree"
        BY <4>1, <1>s, <1>0 DEF Records
      <4>3. QED BY <4>2
    <3>3. CASE base \notin {None, op[p].new} /\ base = op[p].seen
      <4>1. Step(p, [op[p] EXCEPT !.pc = "move"]) /\ parents' = parents
        BY <1>2, <3>3 DEF FindBase, Goto
      <4>2. op'[p] = [op[p] EXCEPT !.pc = "move"]
        BY <4>1, <1>s
      <4>3. QED BY <4>1, <4>2, <3>3, <1>0 DEF Records
    <3>4. QED BY <3>1, <3>2, <3>3
  <2> HIDE DEF base
  <2>4. base \in Ancestors(parents, op[p].new)
    BY <1>0, <2>2, <2>3, BaseIsAncestor DEF base
  <2>5. QED BY <2>3, <2>4
<1>3. CASE Resolve(p)
  <2> DEFINE base == CommonAncestor(parents, op[p].new, op[p].seen)
  <2>1. op[p].pc = "resolve" /\ parents' = parents
    BY <1>3 DEF Resolve
  <2>2. /\ Allows(op[p].policy, op[p].new, op[p].seen)
        /\ Step(p, [op[p] EXCEPT !.pc = "move"])
    BY <1>3, <1>s DEF Resolve, Goto, Fail, Idle
  <2>3. op'[p] = [op[p] EXCEPT !.pc = "move"]
    BY <2>2, <1>s
  <2>4. /\ op'[p].seen = op[p].seen /\ op'[p].new = op[p].new /\ op'[p].policy = op[p].policy
    BY <2>3, <1>0 DEF Records
  <2>5. base = op[p].seen /\ op[p].seen # None
    BY <2>2, <2>4 DEF Allows
  <2>6. objects[To(p, op[p])] \in SUBSET Objects /\ op[p].new \in objects[To(p, op[p])]
    BY <1>0, <2>1, LocalIsStore DEF Held, TypeOK, To
  <2>7. op[p].new \in Commits /\ op[p].seen \in Commits
    BY <1>0, <2>5, <2>6, NoneIsNoObject DEF Records
  <2>8. base \in Ancestors(parents, op[p].new)
    BY <1>0, <2>5, <2>7, BaseIsAncestor
  <2>9. QED BY <2>1, <2>4, <2>5, <2>8
<1>4. CASE Transfer(p)
  <2>1. CASE Reach(op[p].new) \subseteq objects[Source(p)]
    <3>1. Step(p, [op[p] EXCEPT !.pc = IF op[p].seen = None THEN "move" ELSE "resolve"])
      BY <1>4, <2>1 DEF Transfer, Goto
    <3>2. op'[p] = [op[p] EXCEPT !.pc = IF op[p].seen = None THEN "move" ELSE "resolve"]
      BY <3>1, <1>s
    <3>3. QED BY <3>2, <1>0 DEF Records
  <2>2. CASE ~(Reach(op[p].new) \subseteq objects[Source(p)])
    BY <1>4, <2>2, <1>s DEF Transfer, Fail, Idle
  <2>3. QED BY <2>1, <2>2
<1>5. CASE MoveRef(p)
  <2>1. CASE op[p].kind \in {"commit", "merge"}
    <3>1. op'[p] = [op[p] EXCEPT !.pc = "head"]
      BY <1>5, <2>1, <1>s DEF MoveRef, Goto
    <3>2. QED BY <3>1, <1>0 DEF Records
  <2>2. CASE op[p].kind \notin {"commit", "merge"} /\ Syncs(p)
    <3>1. op'[p] = [op[p] EXCEPT !.pc = "src"]
      BY <1>5, <2>2, <1>s DEF MoveRef, Goto
    <3>2. QED BY <3>1, <1>0 DEF Records
  <2>3. CASE op[p].kind \notin {"commit", "merge"} /\ ~Syncs(p)
    <3>1. op'[p] = Idle
      BY <1>5, <2>3, <1>s DEF MoveRef
    <3>2. QED BY <3>1 DEF Idle
  <2>4. QED BY <2>1, <2>2, <2>3
<1>6. CASE MoveHead(p) \/ EndSync(p) \/ Abort(p)
  <2>1. op'[p] = Idle
    BY <1>6, <1>s DEF MoveHead, EndSync, Abort, Fail
  <2>2. QED BY <2>1 DEF Idle
<1>7. CASE ReadTip(p)
  <2>1. op'[p] = [op[p] EXCEPT !.pc = "put", !.seen = refs[Local[p]][op[p].branch]]
    BY <1>7, <1>s DEF ReadTip
  <2>2. QED BY <2>1, <1>0 DEF Records
<1>8. CASE ReadTarget(p)
  <2>1. PICK dst : \E step \in {"src", "transfer"} :
                     op'[p] = [op[p] EXCEPT !.seen = dst, !.pc = step]
    BY <1>8, <1>s DEF ReadTarget
  <2>2. QED BY <2>1, <1>0 DEF Records
<1>9. ASSUME NEW b \in Branches, NEW t \in Trees, StartCommit(p, b, t) PROVE FALSE
  <2>1. op'[p].pc = "tip"
    BY <1>9, <1>s DEF StartCommit, Idle
  <2>2. QED BY <2>1
<1>10. ASSUME NEW b \in Branches, NEW current \in Branches, CreateBranch(p, b, current) PROVE FALSE
  <2>1. op'[p].kind = "branch"
    BY <1>10, <1>s DEF CreateBranch, Idle
  <2>2. QED BY <2>1
<1>11. ASSUME NEW b \in Branches, StartMerge(p, b) PROVE FALSE
  <2>1. op'[p].pc = "theirs"
    BY <1>11, <1>s DEF StartMerge, Idle
  <2>2. QED BY <2>1
<1>12. ASSUME NEW b \in Branches, ReadTheirs(p, b) PROVE FALSE
  <2>1. CASE op'[p] = Idle
    BY <2>1 DEF Idle
  <2>2. CASE op'[p] = [op[p] EXCEPT !.pc = "base", !.new = refs[Local[p]][b]]
    BY <2>2, <1>0 DEF Records
  <2>3. QED BY <1>12, <1>s, <2>1, <2>2 DEF ReadTheirs
<1>13. ASSUME NEW b \in Branches, ReadSource(p, b) PROVE FALSE
  <2>1. CASE op'[p] = Idle
    BY <2>1 DEF Idle
  <2>2. CASE op'[p] = [op[p] EXCEPT !.pc = "dst", !.branch = b, !.seen = None,
                                    !.new = refs[Source(p)][b], !.todo = @ \ {b}]
    BY <2>2, <1>0 DEF Records
  <2>3. QED BY <1>13, <1>s, <2>1, <2>2 DEF ReadSource, Fail
<1>14. ASSUME NEW t \in Trees, MergeTrees(p, t) PROVE FALSE
  <2>1. op'[p] = [op[p] EXCEPT !.pc = "put", !.tree = t]
    BY <1>14, <1>s DEF MergeTrees
  <2>2. QED BY <2>1, <1>0 DEF Records
<1>15. ASSUME NEW kind \in {"push", "pull"}, NEW policy \in Policies, StartSync(p, kind, policy)
       PROVE  FALSE
  <2>1. op'[p].pc = "src"
    BY <1>15, <1>s DEF StartSync, Idle
  <2>2. QED BY <2>1
<1>16. CASE \E b \in Branches : DeleteBranch(p, b)
  BY <1>16 DEF DeleteBranch
<1>17. QED
  BY <1>1, <1>2, <1>3, <1>4, <1>5, <1>6, <1>7, <1>8, <1>9, <1>10, <1>11, <1>12, <1>13, <1>14,
     <1>15, <1>16 DEF ProcNext

\* A step is one process's.
LEMMA OneSteps ==
  ASSUME NEW p \in Procs, ProcNext(p)
  PROVE  op' = op \/ \E o : Step(p, o)
<1>1. ASSUME NEW b \in Branches
      PROVE  /\ \A t \in Trees : StartCommit(p, b, t) => \E o : Step(p, o)
             /\ \A current \in Branches : CreateBranch(p, b, current) => \E o : Step(p, o)
             /\ DeleteBranch(p, b) => op' = op
             /\ StartMerge(p, b) \/ ReadTheirs(p, b) \/ ReadSource(p, b) => \E o : Step(p, o)
  BY DEF StartCommit, CreateBranch, DeleteBranch, StartMerge, ReadTheirs, ReadSource, Fail
<1>2. ReadTip(p) \/ PutCommit(p) \/ MoveHead(p) \/ EndSync(p) \/ ReadTarget(p) \/ Abort(p)
        => \E o : Step(p, o)
  BY DEF ReadTip, PutCommit, MoveHead, EndSync, ReadTarget, Abort, Fail
<1>3. MoveRef(p) \/ FindBase(p) \/ Transfer(p) \/ Resolve(p) => \E o : Step(p, o)
  BY DEF MoveRef, FindBase, Transfer, Resolve, Goto, Fail
<1>4. /\ \A t \in Trees : MergeTrees(p, t) => \E o : Step(p, o)
      /\ \A kind \in {"push", "pull"}, policy \in Policies :
           StartSync(p, kind, policy) => \E o : Step(p, o)
  BY DEF MergeTrees, StartSync
<1>5. QED BY <1>1, <1>2, <1>3, <1>4 DEF ProcNext

\* Every step keeps what the processes know.
LEMMA NextMoves ==
  ASSUME TreesStored, MoveInv, [Next]_vars
  PROVE  MoveInv'
<1>1. RepoInv'
  BY NextInv DEF MoveInv
<1>2. ASSUME NEW q \in Procs PROVE MoveKnown(parents', op'[q])
  <2>1. CASE op'[q] = op[q]
    BY <2>1, WaitingKnows
  <2>2. CASE op'[q] # op[q]
    <3>1. PICK p \in Procs : ProcNext(p)
      BY <2>2 DEF Next, vars
    <3>2. \A x \in Procs \ {p} : op'[x] = op[x]
      <4>1. CASE op' = op
        BY <4>1
      <4>2. CASE \E o : Step(p, o)
        BY <4>2 DEF Step, MoveInv, RepoInv, TypeOK
      <4>3. QED BY <3>1, <4>1, <4>2, OneSteps
    <3>3. p = q
      BY <2>2, <3>2
    <3>4. QED BY <2>2, <3>1, <3>3, StepperKnows
  <2>3. QED BY <2>1, <2>2
<1>3. QED BY <1>1, <1>2 DEF MoveInv

\* A process moves a branch only in MoveRef, to the commit it remembers.
LEMMA MovesAreMoveRef ==
  ASSUME RepoInv, Next, NEW p \in Procs, Moves(p)
  PROVE  /\ Target(p) \in Stores /\ op[p].branch \in Branches
         /\ refs'[Target(p)][op[p].branch] = op[p].new
<1>1. PICK q \in Procs : ProcNext(q)
  BY DEF Next
<1>2. op \in [Procs -> Records] /\ op'[p] # op[p] /\ op[p].pc = "move" /\ refs' # refs
  BY DEF Moves, RepoInv, TypeOK, Records
<1>3. q = p
  <2>1. CASE op' = op
    BY <2>1, <1>2
  <2>2. CASE \E o : Step(q, o)
    BY <2>2, <1>2 DEF Step
  <2>3. QED BY <1>1, <2>1, <2>2, OneSteps
<1>4. MoveRef(p)
  <2>1. /\ ~Abort(p) /\ ~ReadTip(p) /\ ~PutCommit(p) /\ ~MoveHead(p) /\ ~FindBase(p) /\ ~EndSync(p)
        /\ ~ReadTarget(p) /\ ~Transfer(p) /\ ~Resolve(p)
    BY <1>2 DEF Abort, ReadTip, PutCommit, MoveHead, FindBase, EndSync, ReadTarget, Transfer,
         Resolve, At
  <2>2. ASSUME NEW b \in Branches
        PROVE  /\ \A t \in Trees : ~StartCommit(p, b, t) /\ ~MergeTrees(p, t)
               /\ \A current \in Branches : ~CreateBranch(p, b, current)
               /\ ~DeleteBranch(p, b) /\ ~StartMerge(p, b) /\ ~ReadTheirs(p, b) /\ ~ReadSource(p, b)
    BY <1>2 DEF StartCommit, MergeTrees, CreateBranch, DeleteBranch, StartMerge, ReadTheirs,
         ReadSource, At, Begins
  <2>3. /\ \A t \in Trees : ~MergeTrees(p, t)
        /\ \A kind \in {"push", "pull"}, policy \in Policies : ~StartSync(p, kind, policy)
    BY <1>2 DEF MergeTrees, StartSync, At
  <2>4. QED BY <1>1, <1>3, <2>1, <2>2, <2>3 DEF ProcNext
<1>5. /\ op[p] \in Records /\ Held(objects, p, op[p]) /\ Target(p) \in Stores
  BY Known
<1>6. op[p].branch \in Branches
  BY <1>2, <1>5 DEF Held, Records
<1>7. /\ SetRef(Target(p), op[p].branch, op[p].new)
      /\ refs \in [Stores -> [Refs -> Commits \union {None}]] /\ op[p].branch \in Refs
  BY <1>4, <1>6 DEF MoveRef, RepoInv, TypeOK, Refs
<1>8. refs'[Target(p)] = [refs[Target(p)] EXCEPT ![op[p].branch] = op[p].new]
  BY <1>5, <1>7 DEF SetRef
<1>9. QED BY <1>5, <1>6, <1>7, <1>8

\* A commit, a merge or a fast-forward-only sync takes a commit from a branch's
\* history only if the branch moved after the call read it.  (FindBase and
\* Resolve compare with the value read; nothing compares it with the ref's
\* value when it is written: Repo::commit, merge and sync use set_ref.)
THEOREM LossIsARace == ASSUME TreesStored PROVE Spec => LossNeedsRace
<1> DEFINE Kept == \A p \in Procs :
             (Moves(p) /\ op[p].kind # "branch" /\ op[p].policy # "Overwrite") =>
               \/ Keeps(Target(p), op[p].branch)
               \/ refs[Target(p)][op[p].branch] # op[p].seen
<1>1. Init => MoveInv
  <2>1. ASSUME Init PROVE \A p \in Procs : MoveKnown(parents, op[p])
    BY <2>1 DEF Init, MoveKnown, Idle
  <2>2. QED BY <2>1, InitInv DEF MoveInv
<1>2. ASSUME MoveInv, [Next]_vars PROVE [Kept]_vars
  <2>1. CASE UNCHANGED vars
    BY <2>1
  <2>2. CASE Next
    <3>1. ASSUME NEW p \in Procs, Moves(p), op[p].kind # "branch", op[p].policy # "Overwrite",
                 refs[Target(p)][op[p].branch] = op[p].seen
          PROVE  Keeps(Target(p), op[p].branch)
      <4>1. refs'[Target(p)][op[p].branch] = op[p].new
        BY <1>2, <2>2, <3>1, MovesAreMoveRef DEF MoveInv
      <4>2. op[p].seen # None => op[p].seen \in Ancestors(parents, op[p].new)
        BY <1>2, <3>1 DEF MoveInv, MoveKnown, Moves
      <4>3. QED BY <3>1, <4>1, <4>2 DEF Keeps
    <3>2. QED BY <3>1
  <2>3. QED BY <1>2, <2>1, <2>2
<1>3. TreesStored /\ MoveInv /\ [Next]_vars => MoveInv'
  BY NextMoves
<1>4. MoveInv /\ [Next]_vars => [Kept]_vars
  BY <1>2
<1>5. TreesStored /\ Spec => [][Kept]_vars
  BY <1>1, <1>3, <1>4, PTL DEF Spec
<1>6. QED BY <1>5 DEF LossNeedsRace
=============================================================================
