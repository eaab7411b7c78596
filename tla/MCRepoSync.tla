----------------------------- MODULE MCRepoSync -----------------------------
EXTENDS RepoSync, TLC

VARIABLE scenario   \* what a behaviour is about

\* Two clones of one origin.
MCClones == [p \in Procs |-> IF p = "ann" THEN "annsrepo" ELSE "bobsrepo"]

\* A clone, and a second process working on the origin itself (the server's
\* machine).
MCServed == [p \in Procs |-> IF p = "ann" THEN "annsrepo" ELSE "origin"]

\* Every process makes every call.
MCAllCalls == [p \in Procs |-> Kinds]

\* Everybody works in a clone and exchanges commits through the origin.
MCCloneCalls == [p \in Procs |-> {"commit", "push", "pull"}]

\* Nothing tells the branches apart.
MCBranchSymmetry == Permutations(Branches)

-----------------------------------------------------------------------------
\* "calls": both processes make every call, on one branch, with up to three
\* commits and fast-forwards only.
OneBranch ==
  /\ \E b \in Branches : /\ \A s \in Stores : refs[s][b] = None
                          /\ \A p \in Procs : op[p].branch # b
  /\ \E c \in Commits : treeOf[c] = None
  /\ \A p \in Procs : op[p].policy \in {"none", "FastForwardOnly"}

\* "branches": one clone makes, merges and pushes branches under every policy;
\* nothing is pulled or deleted, and the last commit is left to a merge.
Merges(p) ==
  /\ ProcNext(p)
  /\ op'[p].kind # "pull" /\ ~\E b \in Branches : DeleteBranch(p, b)
  /\ op'[p].kind = "commit" /\ op[p].kind # "commit" =>
       \E b, c \in Commits : b # c /\ {treeOf[b], treeOf[c]} = {None}

MCInit == Init /\ scenario \in {"calls", "branches"}

MCNext ==
  /\ \/ scenario = "calls" /\ Next /\ OneBranch'
     \/ scenario = "branches" /\ Merges("ann")
  /\ UNCHANGED scenario

MCSpec == MCInit /\ [][MCNext]_<<scenario, vars>>
=============================================================================
