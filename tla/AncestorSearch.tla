--------------------------- MODULE AncestorSearch ---------------------------
(***************************************************************************)
(* common_ancestor (graph.rs) step by step: a breadth-first search from    *)
(* both commits at once, one commit of each side per round.  The loads     *)
(* between the steps read immutable objects, so nothing can change under   *)
(* the search and one search at a time is general.                         *)
(***************************************************************************)
EXTENDS CommitGraph

CONSTANTS
  Commits,      \* commit hashes
  Histories     \* the commit graphs considered, functions from Commits

ASSUME HistoriesAreGraphs == Histories \subseteq [Commits -> Seq(Commits)]
ASSUME NoneIsNoCommit == None \notin Commits
ASSUME HashesAreFinite == IsFiniteSet(Commits)
\* The hash of a commit covers its parents' hashes: no two commits are
\* ancestors of each other.
ASSUME HistoriesAreAcyclic ==
  \A par \in Histories, x, y \in Commits :
    (x \in Ancestors(par, y) /\ y \in Ancestors(par, x)) => x = y

VARIABLES
  parents,      \* the commit graph
  a, b,         \* the two commits asked about
  side,         \* whose turn it is
  anc,          \* ancestors_a and ancestors_b
  queue,        \* queue_a and queue_b
  todo,         \* parents of the popped commit not looked at yet
  result,       \* what the call returns
  pc

vars == <<parents, a, b, side, anc, queue, todo, result, pc>>
inputs == <<parents, a, b>>

TypeOK ==
  /\ parents \in [Commits -> Seq(Commits)]
  /\ a \in Commits /\ b \in Commits
  /\ side \in Sides
  /\ anc \in [Sides -> SUBSET Commits]
  /\ queue \in [Sides -> Seq(Commits)]
  /\ todo \in Seq(Commits)
  /\ result \in Commits \union {None}
  /\ pc \in {"start", "pop", "visit", "done"}

Init ==
  /\ parents \in Histories
  /\ a \in Commits /\ b \in Commits
  /\ side = "A"
  /\ anc = [s \in Sides |-> {}]
  /\ queue = [s \in Sides |-> <<>>]
  /\ todo = <<>>
  /\ result = None
  /\ pc = "start"

Return(c) ==
  /\ result' = c
  /\ pc' = "done"

\* Mutant of Start: the tips are queued but not in the ancestor sets.
StartUnmarked ==
  /\ pc = "start"
  /\ \/ /\ a = b
        /\ Return(a)
        /\ UNCHANGED <<inputs, side, anc, queue, todo>>
     \/ /\ a # b
        /\ queue' = [s \in Sides |-> IF s = "A" THEN <<a>> ELSE <<b>>]
        /\ pc' = "pop"
        /\ UNCHANGED <<inputs, side, anc, todo, result>>

Start ==
  /\ pc = "start"
  /\ \/ /\ a = b
        /\ Return(a)
        /\ UNCHANGED <<inputs, side, anc, queue, todo>>
     \/ /\ a # b
        /\ anc' = [s \in Sides |-> IF s = "A" THEN {a} ELSE {b}]
        /\ queue' = [s \in Sides |-> IF s = "A" THEN <<a>> ELSE <<b>>]
        /\ pc' = "pop"
        /\ UNCHANGED <<inputs, side, todo, result>>

\* Mutant of Exhausted: the search gives up when either side runs dry.
ExhaustedEither ==
  /\ pc = "pop" /\ side = "A"
  /\ queue["A"] = <<>> \/ queue["B"] = <<>>
  /\ Return(None)
  /\ UNCHANGED <<inputs, side, anc, queue, todo>>

\* Tested at the top of the loop only, before side A's turn.
Exhausted ==
  /\ pc = "pop" /\ side = "A"
  /\ queue["A"] = <<>> /\ queue["B"] = <<>>
  /\ Return(None)
  /\ UNCHANGED <<inputs, side, anc, queue, todo>>

\* Mutant of Pass: an empty queue goes back to the top of the loop.
PassContinues ==
  /\ pc = "pop" /\ queue[side] = <<>>
  /\ ~(side = "A" /\ queue["B"] = <<>>)
  /\ side' = "A"
  /\ UNCHANGED <<inputs, anc, queue, todo, result, pc>>

\* An empty queue passes the turn.
Pass ==
  /\ pc = "pop" /\ queue[side] = <<>>
  /\ ~(side = "A" /\ queue["B"] = <<>>)
  /\ side' = Other(side)
  /\ UNCHANGED <<inputs, anc, queue, todo, result, pc>>

Pop ==
  /\ pc = "pop" /\ queue[side] # <<>>
  /\ queue' = [queue EXCEPT ![side] = Tail(@)]
  /\ LET c == Head(queue[side]) IN
       IF c \in anc[Other(side)]
       THEN Return(c) /\ UNCHANGED todo
       ELSE todo' = parents[c] /\ pc' = "visit" /\ UNCHANGED result
  /\ UNCHANGED <<inputs, side, anc>>

\* Mutant of Visit: a parent met again ends the search.
VisitAnySeen ==
  /\ pc = "visit" /\ todo # <<>>
  /\ todo' = Tail(todo)
  /\ LET p == Head(todo) IN
       /\ anc' = [anc EXCEPT ![side] = @ \union {p}]
       /\ IF p \in anc[side] \union anc[Other(side)]
          THEN Return(p) /\ UNCHANGED queue
          ELSE queue' = [queue EXCEPT ![side] = Append(@, p)] /\ UNCHANGED <<result, pc>>
  /\ UNCHANGED <<inputs, side>>

Visit ==
  /\ pc = "visit" /\ todo # <<>>
  /\ todo' = Tail(todo)
  /\ LET p == Head(todo) IN
       /\ anc' = [anc EXCEPT ![side] = @ \union {p}]
       /\ IF p \in anc[Other(side)] \ anc[side]
          THEN Return(p) /\ UNCHANGED queue
          ELSE /\ queue' = IF p \in anc[side] THEN queue
                           ELSE [queue EXCEPT ![side] = Append(@, p)]
               /\ UNCHANGED <<result, pc>>
  /\ UNCHANGED <<inputs, side>>

EndTurn ==
  /\ pc = "visit" /\ todo = <<>>
  /\ pc' = "pop"
  /\ side' = Other(side)
  /\ UNCHANGED <<inputs, anc, queue, todo, result>>

Finished == pc = "done" /\ UNCHANGED vars

Next == Start \/ Exhausted \/ Pass \/ Pop \/ Visit \/ EndTurn \/ Finished

Spec == Init /\ [][Next]_vars /\ WF_vars(Next)

-----------------------------------------------------------------------------
\* What common_ancestor returns is a common ancestor of the two commits, so a
\* fast-forward it grants never drops history (FastForwardOnly::resolve).
ResultIsCommon ==
  (pc = "done" /\ result # None) => result \in CommonAncestors(parents, a, b)

\* None is returned only for disjoint histories: a merge is refused as
\* NoCommonAncestor only when there is none.
NoneMeansDisjoint ==
  (pc = "done" /\ result = None) => CommonAncestors(parents, a, b) = {}

\* What the loop keeps: each side holds ancestors of its own tip, closed under
\* parents up to the queue and the commit being visited, and the sides do not
\* meet before the call returns.
Tip(s) == IF s = "A" THEN a ELSE b
Elems(s) == {s[i] : i \in DOMAIN s}
Unvisited(s) == IF pc = "visit" /\ s = side THEN Elems(todo) ELSE {}
SideInv(s) ==
  /\ Tip(s) \in anc[s]
  /\ anc[s] \union Unvisited(s) \subseteq Ancestors(parents, Tip(s))
  /\ \A c \in anc[s] \ Elems(queue[s]) :
       ParentsOf(parents, c) \subseteq anc[s] \union Unvisited(s)
  /\ Elems(queue[s]) \subseteq anc[s]
SearchInv ==
  /\ TypeOK
  /\ pc \in {"pop", "visit"} =>
       /\ \A s \in Sides : SideInv(s)
       /\ anc["A"] \intersect anc["B"] = {}
  /\ ResultIsCommon /\ NoneMeansDisjoint

\* What the search returns is what the operator CommonAncestor of the other
\* modules says, and among commits with at most one parent it is a lowest
\* common ancestor, as graph.rs promises.  (With merge commits the first common
\* ancestor met need not be lowest.)
ReturnsLowest ==
  pc = "done" =>
    /\ result = CommonAncestor(parents, a, b)
    /\ (result # None /\ \A c \in Commits : Len(parents[c]) <= 1) =>
         result \in LowestCommonAncestors(parents, a, b)

\* The search ends on every finite graph.
Terminates == <>(pc = "done")
=============================================================================
