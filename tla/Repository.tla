----------------------------- MODULE Repository -----------------------------
(***************************************************************************)
(* What repositories promise, whoever works on them: a store only gains    *)
(* objects whose references it already holds, and a ref names a commit of  *)
(* its store.  So whatever a ref names can be read to the end.             *)
(***************************************************************************)
EXTENDS CommitGraph

CONSTANTS Commits, Trees, Stores, Refs

VARIABLES parents, treeOf, objects, refs

vars == <<parents, treeOf, objects, refs>>

\* Every commit of S has its tree and its parents in S.
Complete(S) ==
  \A c \in S \intersect Commits : ParentsOf(parents, c) \subseteq S /\ treeOf[c] \in S

Init ==
  /\ parents = [c \in Commits |-> <<>>]
  /\ treeOf = [c \in Commits |-> None]
  /\ objects = [s \in Stores |-> {}]
  /\ refs = [s \in Stores |-> [r \in Refs |-> None]]

AddTree(s, t) ==
  /\ objects' = [objects EXCEPT ![s] = @ \union {t}]
  /\ UNCHANGED <<parents, treeOf, refs>>

\* A new commit, of a tree and parents that the store holds.
AddCommit(s, c) ==
  /\ \A x \in Stores : c \notin objects[x]
  /\ \E t \in objects[s] \intersect Trees : treeOf' = [treeOf EXCEPT ![c] = t]
  /\ parents' = [parents EXCEPT ![c] = parents'[c]]
  /\ ParentsOf(parents', c) \subseteq objects[s]
  /\ objects' = [objects EXCEPT ![s] = @ \union {c}]
  /\ UNCHANGED refs

\* A complete set of another store's objects arrives at once.
Copy(src, dst) ==
  /\ \E S \in SUBSET objects[src] :
       Complete(S) /\ objects' = [objects EXCEPT ![dst] = @ \union S]
  /\ UNCHANGED <<parents, treeOf, refs>>

Point(s, r) ==
  /\ \E c \in objects[s] \intersect Commits : refs' = [refs EXCEPT ![s][r] = c]
  /\ UNCHANGED <<parents, treeOf, objects>>

Drop(s, r) ==
  /\ refs' = [refs EXCEPT ![s][r] = None]
  /\ UNCHANGED <<parents, treeOf, objects>>

Next ==
  \/ \E s \in Stores, t \in Trees : AddTree(s, t)
  \/ \E s \in Stores, c \in Commits : AddCommit(s, c)
  \/ \E src, dst \in Stores : Copy(src, dst)
  \/ \E s \in Stores, r \in Refs : Point(s, r) \/ Drop(s, r)

Spec == Init /\ [][Next]_vars
=============================================================================
