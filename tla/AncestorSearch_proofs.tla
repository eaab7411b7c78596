----------------------- MODULE AncestorSearch_proofs -----------------------
(***************************************************************************)
(* common_ancestor is sound and complete for reachability on every commit  *)
(* graph: what it returns is a common ancestor, and None means there is    *)
(* none.  Step by step it computes the operator CommonAncestor, and in     *)
(* histories without merges a lowest common ancestor (with merges it need  *)
(* not).                                                                   *)
(***************************************************************************)
EXTENDS AncestorSearch, SequenceTheorems, TLAPS

\* The elements of a sequence are its head and the elements of its tail.
LEMMA ElemsHeadTail ==
  ASSUME NEW S, NEW q \in Seq(S), q # <<>>
  PROVE  /\ Head(q) \in S
         /\ Tail(q) \in Seq(S)
         /\ Elems(q) = {Head(q)} \union Elems(Tail(q))
<1>1. Len(q) \in Nat /\ Len(q) # 0 /\ DOMAIN q = 1 .. Len(q)
  BY EmptySeq, LenProperties
<1>2. /\ Tail(q) \in Seq(S) /\ Head(q) = q[1] /\ Head(q) \in S
      /\ Len(Tail(q)) = Len(q) - 1
      /\ \A i \in 1 .. Len(Tail(q)) : Tail(q)[i] = q[i + 1]
  BY <1>1, HeadTailProperties, ElementOfSeq
<1>3. DOMAIN Tail(q) = 1 .. Len(q) - 1
  BY <1>2, LenProperties
<1>4. ASSUME NEW i \in DOMAIN q PROVE q[i] \in {Head(q)} \union Elems(Tail(q))
  <2>1. CASE i = 1
    BY <2>1, <1>2
  <2>2. CASE i # 1
    <3>1. i - 1 \in DOMAIN Tail(q) /\ Tail(q)[i - 1] = q[i]
      BY <2>2, <1>1, <1>2, <1>3, <1>4
    <3>2. QED BY <3>1 DEF Elems
  <2>3. QED BY <2>1, <2>2
<1>5. ASSUME NEW i \in DOMAIN Tail(q) PROVE Tail(q)[i] \in Elems(q)
  <2>1. i + 1 \in DOMAIN q /\ Tail(q)[i] = q[i + 1]
    BY <1>1, <1>2, <1>3, <1>5
  <2>2. QED BY <2>1 DEF Elems
<1>6. Head(q) \in Elems(q)
  BY <1>1, <1>2 DEF Elems
<1>7. QED BY <1>2, <1>4, <1>5, <1>6 DEF Elems

\* Append adds one element.
LEMMA ElemsAppend ==
  ASSUME NEW S, NEW q \in Seq(S), NEW x \in S
  PROVE  Append(q, x) \in Seq(S) /\ Elems(Append(q, x)) = Elems(q) \union {x}
<1>1. /\ Append(q, x) \in Seq(S) /\ Len(Append(q, x)) = Len(q) + 1
      /\ \A i \in 1 .. Len(q) : Append(q, x)[i] = q[i]
      /\ Append(q, x)[Len(q) + 1] = x
      /\ Len(q) \in Nat
  BY AppendProperties, LenProperties
<1>2. DOMAIN q = 1 .. Len(q) /\ DOMAIN Append(q, x) = 1 .. Len(q) + 1
  BY <1>1, LenProperties
<1>3. QED BY <1>1, <1>2 DEF Elems

\* The parents of a commit are the elements of its parent sequence.
LEMMA ParentsAreElems ==
  ASSUME TypeOK, NEW c \in Commits
  PROVE  parents[c] \in Seq(Commits) /\ ParentsOf(parents, c) = Elems(parents[c])
  BY DEF TypeOK, ParentsOf, Elems

\* The search starts in its invariant.
LEMMA InitSearch == Init => SearchInv
<1>1. ASSUME Init PROVE TypeOK
  BY <1>1, HistoriesAreGraphs, EmptySeq DEF Init, TypeOK, Sides
<1>2. QED BY <1>1 DEF Init, SearchInv, ResultIsCommon, NoneMeansDisjoint

\* Every step keeps the variables in their types.
LEMMA NextType == TypeOK /\ [Next]_vars => TypeOK'
<1> SUFFICES ASSUME TypeOK, [Next]_vars PROVE TypeOK'
  OBVIOUS
<1> USE DEF TypeOK, inputs
<1>1. CASE Start
  <2>1. CASE a = b /\ Return(a) /\ UNCHANGED <<inputs, side, anc, queue, todo>>
    BY <2>1 DEF Return
  <2>2. CASE a # b
    <3>1. <<a>> \in Seq(Commits) /\ <<b>> \in Seq(Commits)
      OBVIOUS
    <3>2. queue' \in [Sides -> Seq(Commits)]
      BY <1>1, <2>2, <3>1 DEF Start
    <3>3. anc' \in [Sides -> SUBSET Commits]
      <4>1. {a} \in SUBSET Commits /\ {b} \in SUBSET Commits
        OBVIOUS
      <4>2. anc' = [s \in Sides |-> IF s = "A" THEN {a} ELSE {b}]
        BY <1>1, <2>2 DEF Start
      <4>3. QED BY <4>1, <4>2
    <3>4. QED BY <1>1, <2>2, <3>2, <3>3 DEF Start
  <2>3. QED BY <1>1, <2>1, <2>2 DEF Start
<1>2. CASE Exhausted
  BY <1>2 DEF Exhausted, Return
<1>3. CASE Pass
  BY <1>3 DEF Pass, Other, Sides
<1>4. CASE Pop
  <2>1. queue[side] \in Seq(Commits) /\ queue[side] # <<>>
    BY <1>4 DEF Pop
  <2>2. Head(queue[side]) \in Commits /\ Tail(queue[side]) \in Seq(Commits)
    BY <2>1, ElemsHeadTail
  <2>3. QED BY <1>4, <2>2 DEF Pop, Return
<1>5. CASE Visit
  <2>1. Head(todo) \in Commits /\ Tail(todo) \in Seq(Commits)
    BY <1>5, ElemsHeadTail DEF Visit
  <2>2. Append(queue[side], Head(todo)) \in Seq(Commits)
    BY <2>1, ElemsAppend
  <2>3. QED BY <1>5, <2>1, <2>2 DEF Visit, Return
<1>6. CASE EndTurn
  BY <1>6 DEF EndTurn, Other, Sides
<1>7. CASE UNCHANGED vars
  BY <1>7 DEF vars
<1>8. QED BY <1>1, <1>2, <1>3, <1>4, <1>5, <1>6, <1>7 DEF Next, Finished

\* Every step keeps the search invariant.
LEMMA NextSearch == SearchInv /\ [Next]_vars => SearchInv'
<1> SUFFICES ASSUME SearchInv, [Next]_vars PROVE SearchInv'
  OBVIOUS
<1> USE DEF SearchInv
<1>0. TypeOK /\ TypeOK'
  BY NextType
<1>1. CASE Start
  <2>1. CASE a = b
    <3>1. pc' = "done" /\ result' = a /\ UNCHANGED inputs
      BY <1>1, <2>1, NoneIsNoCommit, <1>0 DEF Start, Return, TypeOK
    <3>2. a \in CommonAncestors(parents, a, b)
      BY <2>1, <1>0, AncestorsClosed DEF CommonAncestors, TypeOK
    <3>3. a # None
      BY <1>0, NoneIsNoCommit DEF TypeOK
    <3>4. QED
      BY <1>0, <3>1, <3>2, <3>3 DEF ResultIsCommon, NoneMeansDisjoint, inputs
  <2>2. CASE a # b
    <3>1. /\ pc' = "pop" /\ UNCHANGED inputs
          /\ anc' = [s \in Sides |-> IF s = "A" THEN {a} ELSE {b}]
          /\ queue' = [s \in Sides |-> IF s = "A" THEN <<a>> ELSE <<b>>]
      BY <1>1, <2>2 DEF Start
    <3>2. \A c : Elems(<<c>>) = {c}
      BY DEF Elems
    <3>3. ASSUME NEW s \in Sides PROVE SideInv(s)'
      <4>1. Tip(s)' = Tip(s) /\ Unvisited(s)' = {} /\ Tip(s) \in Commits
        BY <3>1, <1>0 DEF Tip, Unvisited, inputs, TypeOK
      <4>2. anc'[s] = {Tip(s)} /\ Elems(queue'[s]) = {Tip(s)}
        BY <3>1, <3>2, <3>3 DEF Tip, Sides
      <4>3. Tip(s) \in Ancestors(parents, Tip(s))
        BY <4>1, <1>0, AncestorsClosed DEF TypeOK
      <4>4. QED BY <3>1, <4>1, <4>2, <4>3 DEF SideInv, inputs
    <3>4. anc'["A"] \intersect anc'["B"] = {}
      BY <3>1, <2>2 DEF Sides
    <3>5. QED BY <1>0, <3>1, <3>3, <3>4 DEF ResultIsCommon, NoneMeansDisjoint
  <2>3. QED BY <2>1, <2>2
<1>2. CASE Exhausted
  <2>1. /\ pc = "pop" /\ queue["A"] = <<>> /\ queue["B"] = <<>>
        /\ result' = None /\ pc' = "done" /\ UNCHANGED inputs
    BY <1>2 DEF Exhausted, Return
  <2>2. ASSUME NEW s \in Sides PROVE Ancestors(parents, Tip(s)) \subseteq anc[s]
    <3>1. SideInv(s) /\ Unvisited(s) = {} /\ Elems(queue[s]) = {}
      BY <2>1, <2>2 DEF Unvisited, Elems, Sides
    <3>2. anc[s] \in SUBSET Commits /\ IsHistory(parents, anc[s]) /\ Tip(s) \in anc[s]
      BY <3>1, <1>0 DEF SideInv, IsHistory, TypeOK
    <3>3. Tip(s) \in Commits /\ parents \in [Commits -> Seq(Commits)]
      BY <1>0 DEF Tip, TypeOK
    <3>4. QED BY <3>2, <3>3, AncestorsClosed
  <2>3. Ancestors(parents, a) \subseteq anc["A"] /\ Ancestors(parents, b) \subseteq anc["B"]
    BY <2>2 DEF Tip, Sides
  <2>4. CommonAncestors(parents, a, b) = {}
    BY <2>1, <2>3 DEF CommonAncestors
  <2>5. QED BY <1>0, <2>1, <2>4 DEF ResultIsCommon, NoneMeansDisjoint, inputs
<1>3. CASE Pass
  <2>1. pc = "pop" /\ pc' = "pop" /\ UNCHANGED <<inputs, anc, queue, result>>
    BY <1>3 DEF Pass
  <2>2. ASSUME NEW s \in Sides PROVE SideInv(s)'
    BY <2>1, SideInv(s) DEF SideInv, Tip, Unvisited, inputs
  <2>3. QED BY <1>0, <2>1, <2>2 DEF ResultIsCommon, NoneMeansDisjoint
<1>4. CASE Pop
  <2> DEFINE c == Head(queue[side])
  <2>1. /\ pc = "pop" /\ side \in Sides /\ UNCHANGED <<inputs, side, anc>>
        /\ queue[side] \in Seq(Commits) /\ queue[side] # <<>>
        /\ queue' = [queue EXCEPT ![side] = Tail(@)]
    BY <1>4, <1>0 DEF Pop, TypeOK
  <2>2. /\ c \in Commits
        /\ Elems(queue[side]) = {c} \union Elems(queue'[side])
        /\ \A s \in Sides \ {side} : queue'[s] = queue[s]
    <3>1. queue'[side] = Tail(queue[side]) /\ \A s \in Sides \ {side} : queue'[s] = queue[s]
      BY <2>1, <1>0 DEF TypeOK
    <3>2. c \in Commits /\ Elems(queue[side]) = {c} \union Elems(Tail(queue[side]))
      BY <2>1, ElemsHeadTail
    <3>3. QED BY <3>1, <3>2
  <2>3. SideInv(side) /\ Unvisited(side) = {} /\ c \in anc[side]
    BY <2>1, <2>2 DEF SideInv, Unvisited
  <2>4. Other(side) \in Sides \ {side} /\ c \notin anc[Other(side)]
    BY <2>1, <2>3 DEF Other, Sides
  <2>5. todo' = parents[c] /\ pc' = "visit" /\ UNCHANGED result
    BY <1>4, <2>4 DEF Pop
  <2>6. Unvisited(side)' = ParentsOf(parents, c) /\ \A s \in Sides \ {side} : Unvisited(s)' = {}
    BY <2>1, <2>2, <2>5, <1>0, ParentsAreElems DEF Unvisited, Elems
  <2>7. \A s : Tip(s)' = Tip(s)
    BY <2>1 DEF Tip, inputs
  <2>8. SideInv(side)'
    <3>1. c \in Ancestors(parents, Tip(side)) /\ Tip(side) \in Commits
      BY <2>3, <1>0 DEF SideInv, Tip, TypeOK
    <3>2. ParentsOf(parents, c) \subseteq Ancestors(parents, Tip(side))
      BY <3>1, <1>0, AncestorsClosed DEF TypeOK
    <3>3. anc' = anc /\ parents' = parents /\ side' = side
      BY <2>1 DEF inputs
    <3>4. \A x \in anc[side] \ Elems(queue'[side]) :
             ParentsOf(parents, x) \subseteq anc[side] \union ParentsOf(parents, c)
      BY <2>2, <2>3 DEF SideInv
    <3>5. QED BY <2>2, <2>3, <2>6, <2>7, <3>2, <3>3, <3>4 DEF SideInv
  <2>9. ASSUME NEW s \in Sides \ {side} PROVE SideInv(s)'
    <3>1. SideInv(s) /\ Unvisited(s) = {}
      BY <2>1, <2>9 DEF Unvisited
    <3>2. QED BY <2>1, <2>2, <2>6, <2>7, <3>1 DEF SideInv, inputs
  <2>10. QED
    BY <1>0, <2>1, <2>5, <2>8, <2>9 DEF ResultIsCommon, NoneMeansDisjoint
<1>5. CASE Visit
  <2> DEFINE p == Head(todo)
  <2>1. /\ pc = "visit" /\ side \in Sides /\ UNCHANGED <<inputs, side>>
        /\ todo \in Seq(Commits) /\ todo # <<>> /\ todo' = Tail(todo)
        /\ anc' = [anc EXCEPT ![side] = @ \union {p}]
    BY <1>5, <1>0 DEF Visit, TypeOK
  <2>2. p \in Commits /\ Elems(todo) = {p} \union Elems(todo')
    BY <2>1, ElemsHeadTail
  <2>3. SideInv(side) /\ Unvisited(side) = Elems(todo)
    BY <2>1 DEF Unvisited
  <2>4. p \in Ancestors(parents, Tip(side))
    BY <2>2, <2>3 DEF SideInv
  <2>5. Other(side) \in Sides \ {side}
    BY <2>1 DEF Other, Sides
  <2>6. CASE p \in anc[Other(side)] \ anc[side]
    <3>1. result' = p /\ pc' = "done"
      BY <1>5, <2>6 DEF Visit, Return
    <3>2. p \in Ancestors(parents, Tip(Other(side)))
      BY <2>1, <2>5, <2>6 DEF SideInv
    <3>3. p \in CommonAncestors(parents, a, b) /\ p # None
      BY <2>1, <2>2, <2>4, <3>2, NoneIsNoCommit DEF CommonAncestors, Tip, Other, Sides
    <3>4. QED
      BY <1>0, <2>1, <3>1, <3>3 DEF ResultIsCommon, NoneMeansDisjoint, inputs
  <2>7. CASE p \notin anc[Other(side)] \ anc[side]
    <3>1. /\ pc' = "visit" /\ UNCHANGED result
          /\ queue' = IF p \in anc[side] THEN queue
                      ELSE [queue EXCEPT ![side] = Append(@, p)]
      BY <1>5, <2>1, <2>7 DEF Visit
    <3>2. /\ anc'[side] = anc[side] \union {p}
          /\ \A s \in Sides \ {side} : anc'[s] = anc[s] /\ queue'[s] = queue[s]
      BY <2>1, <3>1, <1>0 DEF TypeOK
    <3>3. Elems(queue'[side]) = IF p \in anc[side] THEN Elems(queue[side])
                                ELSE Elems(queue[side]) \union {p}
      <4>1. CASE p \in anc[side]
        BY <3>1, <4>1
      <4>2. CASE p \notin anc[side]
        <5>1. queue'[side] = Append(queue[side], p) /\ queue[side] \in Seq(Commits)
          BY <2>1, <3>1, <4>2, <1>0 DEF TypeOK
        <5>2. Elems(Append(queue[side], p)) = Elems(queue[side]) \union {p}
          BY <2>2, <5>1, ElemsAppend
        <5>3. QED BY <4>2, <5>1, <5>2
      <4>3. QED BY <4>1, <4>2
    <3>4. Unvisited(side)' = Elems(todo') /\ \A s \in Sides \ {side} : Unvisited(s)' = {}
      BY <2>1, <3>1 DEF Unvisited, Elems
    <3>5. \A s : Tip(s)' = Tip(s)
      BY <2>1 DEF Tip, inputs
    <3>6. SideInv(side)'
      <4>1. anc'[side] \union Unvisited(side)' = anc[side] \union Unvisited(side)
        BY <2>2, <2>3, <3>2, <3>4
      <4>2. anc'[side] \ Elems(queue'[side]) \subseteq anc[side] \ Elems(queue[side])
        BY <3>2, <3>3
      <4>3. parents' = parents /\ side' = side
        BY <2>1 DEF inputs
      <4>4. QED BY <2>3, <3>2, <3>3, <3>5, <4>1, <4>2, <4>3 DEF SideInv
    <3>7. ASSUME NEW s \in Sides \ {side} PROVE SideInv(s)'
      <4>1. SideInv(s) /\ Unvisited(s) = {}
        BY <2>1, <3>7 DEF Unvisited
      <4>2. QED BY <2>1, <3>2, <3>4, <3>5, <4>1 DEF SideInv, inputs
    <3>8. anc'["A"] \intersect anc'["B"] = {}
      BY <2>1, <2>5, <2>7, <3>2 DEF Sides, Other
    <3>9. QED
      BY <1>0, <2>1, <3>1, <3>6, <3>7, <3>8 DEF ResultIsCommon, NoneMeansDisjoint
  <2>8. QED BY <2>6, <2>7
<1>6. CASE EndTurn
  <2>1. /\ pc = "visit" /\ pc' = "pop" /\ todo = <<>>
        /\ UNCHANGED <<inputs, anc, queue, result>>
    BY <1>6 DEF EndTurn
  <2>2. ASSUME NEW s \in Sides PROVE SideInv(s)'
    <3>1. SideInv(s) /\ Unvisited(s) = {} /\ Unvisited(s)' = {}
      BY <2>1, <2>2 DEF Unvisited, Elems
    <3>2. QED BY <2>1, <3>1 DEF SideInv, Tip, inputs
  <2>3. QED BY <1>0, <2>1, <2>2 DEF ResultIsCommon, NoneMeansDisjoint
<1>7. CASE UNCHANGED vars
  <2>1. \A s \in Sides : SideInv(s) => SideInv(s)'
    BY <1>7 DEF vars, SideInv, Tip, Unvisited
  <2>2. QED
    BY <1>0, <1>7, <2>1 DEF vars, ResultIsCommon, NoneMeansDisjoint
<1>8. QED BY <1>1, <1>2, <1>3, <1>4, <1>5, <1>6, <1>7 DEF Next, Finished

\* common_ancestor never leaves its invariant, on any commit graph.
THEOREM SearchIsInvariant == Spec => []SearchInv
<1>1. Spec => []SearchInv
  BY InitSearch, NextSearch, PTL DEF Spec
<1>2. QED BY <1>1

\* The search's queues hold commits only, whatever the graph.
THEOREM SearchIsTyped == Spec => []TypeOK
<1>1. SearchInv => TypeOK
  BY DEF SearchInv
<1>2. QED BY <1>1, SearchIsInvariant, PTL

\* Whatever common_ancestor returns is an ancestor of both commits: a granted
\* fast-forward keeps all of the destination's history.
THEOREM SearchIsSound == Spec => []ResultIsCommon
<1>1. SearchInv => ResultIsCommon
  BY DEF SearchInv
<1>2. QED BY <1>1, SearchIsInvariant, PTL

\* common_ancestor answers None only for commits with disjoint histories.
THEOREM SearchIsComplete == Spec => []NoneMeansDisjoint
<1>1. SearchInv => NoneMeansDisjoint
  BY DEF SearchInv
<1>2. QED BY <1>1, SearchIsInvariant, PTL

-----------------------------------------------------------------------------
(* Commits with at most one parent.                                        *)

\* An ancestor of a commit is the commit or an ancestor of a parent.
LEMMA AncestorsUnfold ==
  ASSUME NEW C, NEW par \in [C -> Seq(C)], NEW c \in C, NEW x \in Ancestors(par, c), x # c
  PROVE  \E p \in ParentsOf(par, c) : x \in Ancestors(par, p)
<1> DEFINE H == {c} \union {y \in C : \E p \in ParentsOf(par, c) : y \in Ancestors(par, p)}
<1>1. ParentsOf(par, c) \subseteq C
  BY ParentsAreCommits
<1>2. IsHistory(par, H)
  <2>1. ASSUME NEW y \in H PROVE ParentsOf(par, y) \subseteq H
    <3>1. CASE y = c
      <4>1. \A p \in ParentsOf(par, c) : p \in Ancestors(par, p)
        BY <1>1, AncestorsClosed
      <4>2. QED BY <3>1, <4>1, <1>1
    <3>2. CASE y # c
      <4>1. PICK p \in ParentsOf(par, c) : y \in Ancestors(par, p)
        BY <2>1, <3>2
      <4>2. ParentsOf(par, y) \subseteq Ancestors(par, p) /\ Ancestors(par, p) \subseteq C
        BY <4>1, <1>1, AncestorsClosed
      <4>3. QED BY <4>2
    <3>3. QED BY <3>1, <3>2
  <2>2. QED BY <2>1 DEF IsHistory
<1>3. H \in SUBSET C /\ c \in H
  OBVIOUS
<1> HIDE DEF H
<1>4. x \in H
  BY <1>2, <1>3, AncestorsClosed
<1>5. QED BY <1>4 DEF H

Linear(par) == \A c \in DOMAIN par : Len(par[c]) <= 1
Acyclic(par) ==
  \A x, y \in DOMAIN par : (x \in Ancestors(par, y) /\ y \in Ancestors(par, x)) => x = y

\* In a linear history a commit has one parent to speak of.
LEMMA OneParent ==
  ASSUME NEW C, NEW par \in [C -> Seq(C)], Linear(par), NEW c \in C,
         NEW p \in ParentsOf(par, c), NEW q \in ParentsOf(par, c)
  PROVE  p = q
<1>1. par[c] \in Seq(C) /\ Len(par[c]) <= 1 /\ DOMAIN par[c] = 1 .. Len(par[c])
  BY DEF Linear
<1>2. \A i \in DOMAIN par[c] : i = 1
  BY <1>1
<1>3. QED BY <1>2 DEF ParentsOf

\* Of two ancestors of a commit, one is an ancestor of the other.
LEMMA AncestorsInLine ==
  ASSUME NEW C, NEW par \in [C -> Seq(C)], Linear(par), NEW tip \in C,
         NEW c \in Ancestors(par, tip), NEW y \in Ancestors(par, tip)
  PROVE  y \in Ancestors(par, c) \/ c \in Ancestors(par, y)
<1> DEFINE H == {z \in C : z \in Ancestors(par, c) \/ c \in Ancestors(par, z)}
<1>1. c \in C /\ tip \in H
  BY AncestorsClosed
<1>2. IsHistory(par, H)
  <2>1. ASSUME NEW z \in H, NEW p \in ParentsOf(par, z) PROVE p \in H
    <3>1. p \in C
      BY <2>1, ParentsAreCommits
    <3>2. CASE z \in Ancestors(par, c)
      BY <1>1, <2>1, <3>1, <3>2, AncestorsClosed
    <3>3. CASE z \notin Ancestors(par, c)
      <4>1. c \in Ancestors(par, z) /\ c # z
        BY <1>1, <2>1, <3>3, AncestorsClosed
      <4>2. PICK q \in ParentsOf(par, z) : c \in Ancestors(par, q)
        BY <2>1, <4>1, AncestorsUnfold
      <4>3. q = p
        BY <2>1, <4>2, OneParent
      <4>4. QED BY <3>1, <4>2, <4>3
    <3>4. QED BY <3>2, <3>3
  <2>2. QED BY <2>1 DEF IsHistory
<1>3. H \in SUBSET C
  OBVIOUS
<1> HIDE DEF H
<1>4. y \in H
  BY <1>1, <1>2, <1>3, AncestorsClosed
<1>5. QED BY <1>4 DEF H

\* Nothing lies between a commit and its parent.
LEMMA NoneBetween ==
  ASSUME NEW C, NEW par \in [C -> Seq(C)], Linear(par), Acyclic(par), NEW tip \in C,
         NEW c \in Ancestors(par, tip), NEW p \in ParentsOf(par, c),
         NEW y \in Ancestors(par, tip), p \in Ancestors(par, y), y # p
  PROVE  c \in Ancestors(par, y)
<1>1. c \in C /\ y \in C /\ p \in C
  BY AncestorsClosed, ParentsAreCommits
<1>2. SUFFICES ASSUME y \in Ancestors(par, c), y # c PROVE FALSE
  BY <1>1, AncestorsInLine, AncestorsClosed
<1>3. PICK q \in ParentsOf(par, c) : y \in Ancestors(par, q)
  BY <1>1, <1>2, AncestorsUnfold
<1>4. q = p
  BY <1>1, <1>3, OneParent
<1>5. QED BY <1>1, <1>3, <1>4 DEF Acyclic

\* With one parent each, a side has been everywhere between its tip and what it
\* knows, so the first commit both sides know is a lowest common ancestor.
LineInv ==
  (pc \in {"pop", "visit"} /\ Linear(parents)) =>
    \A s \in Sides : \A x \in anc[s] \union Unvisited(s), y \in Ancestors(parents, Tip(s)) :
      (x \in Ancestors(parents, y) /\ y # x) => y \in anc[s]
FoundLowest ==
  (pc = "done" /\ result # None /\ Linear(parents)) =>
    result \in LowestCommonAncestors(parents, a, b)
LowestInv == SearchInv /\ parents \in Histories /\ LineInv /\ FoundLowest

\* Every step keeps what a lowest answer rests on.
LEMMA NextLowest == LowestInv /\ [Next]_vars => LowestInv'
<1> SUFFICES ASSUME LowestInv, [Next]_vars PROVE LowestInv'
  OBVIOUS
<1>0. SearchInv /\ SearchInv' /\ TypeOK /\ TypeOK' /\ parents \in Histories /\ LineInv
  BY NextSearch DEF LowestInv, SearchInv
<1>i. UNCHANGED inputs
  BY DEF Next, Start, Exhausted, Pass, Pop, Visit, EndTurn, Finished, vars, inputs
<1>1. parents' = parents /\ parents' \in Histories /\ \A s : Tip(s)' = Tip(s)
  BY <1>0, <1>i DEF inputs, Tip
<1>2. /\ parents \in [Commits -> Seq(Commits)] /\ DOMAIN parents = Commits /\ Acyclic(parents)
      /\ \A s : Tip(s) \in Commits
  BY <1>0, HistoriesAreAcyclic DEF TypeOK, Acyclic, Tip
<1>3. SUFFICES ASSUME Linear(parents)
               PROVE  /\ pc' \in {"pop", "visit"} =>
                           \A s \in Sides : \A x \in anc'[s] \union Unvisited(s)',
                                             y \in Ancestors(parents, Tip(s)) :
                             (x \in Ancestors(parents, y) /\ y # x) => y \in anc'[s]
                      /\ (pc' = "done" /\ result' # None) =>
                           result' \in LowestCommonAncestors(parents, a, b)
  BY <1>0, <1>1, <1>i DEF LowestInv, LineInv, FoundLowest, inputs
<1>4. pc \in {"pop", "visit"} =>
        \A s \in Sides : \A x \in anc[s] \union Unvisited(s), y \in Ancestors(parents, Tip(s)) :
          (x \in Ancestors(parents, y) /\ y # x) => y \in anc[s]
  BY <1>0, <1>3 DEF LineInv
<1>5. CASE Start
  <2>1. CASE a = b
    <3>1. pc' = "done" /\ result' = a
      BY <1>5, <2>1, <1>0, NoneIsNoCommit DEF Start, Return, TypeOK
    <3>2. a \in CommonAncestors(parents, a, b)
      BY <2>1, <1>0, <1>2, AncestorsClosed DEF CommonAncestors, TypeOK
    <3>3. ASSUME NEW y \in CommonAncestors(parents, a, b), a \in Ancestors(parents, y) PROVE y = a
      <4>1. y \in Ancestors(parents, a) /\ a \in Commits
        BY <3>3, <1>0 DEF CommonAncestors, TypeOK
      <4>2. y \in Commits
        BY <4>1, <1>2, AncestorsClosed
      <4>3. QED BY <3>3, <4>1, <4>2, <1>2 DEF Acyclic
    <3>4. QED BY <3>1, <3>2, <3>3 DEF LowestCommonAncestors
  <2>2. CASE a # b
    <3>1. /\ pc' = "pop" /\ \A s \in Sides : anc'[s] = {Tip(s)} /\ Unvisited(s)' = {}
      BY <1>5, <2>2 DEF Start, Tip, Unvisited, Sides
    <3>2. ASSUME NEW s \in Sides, NEW y \in Ancestors(parents, Tip(s)),
                 Tip(s) \in Ancestors(parents, y)
          PROVE  y = Tip(s)
      <4>1. y \in Commits
        BY <3>2, <1>2, AncestorsClosed
      <4>2. QED BY <3>2, <4>1, <1>2 DEF Acyclic
    <3>3. QED BY <3>1, <3>2
  <2>3. QED BY <2>1, <2>2
<1>6. CASE Exhausted
  BY <1>6 DEF Exhausted, Return
<1>7. CASE Pass
  <2>1. pc = "pop" /\ pc' = "pop" /\ anc' = anc /\ \A s : Unvisited(s)' = {}
    BY <1>7 DEF Pass, Unvisited
  <2>2. QED BY <2>1, <1>4
<1>8. CASE Pop
  <2> DEFINE c == Head(queue[side])
  <2>1. /\ pc = "pop" /\ side \in Sides /\ side' = side /\ anc' = anc
        /\ queue[side] \in Seq(Commits) /\ queue[side] # <<>>
    BY <1>8, <1>0 DEF Pop, TypeOK
  <2>2. SideInv(side) /\ c \in Commits /\ c \in Elems(queue[side])
    BY <2>1, <1>0, ElemsHeadTail DEF SearchInv
  <2>3. c \in anc[side] /\ c \in Ancestors(parents, Tip(side))
    BY <2>2 DEF SideInv
  <2>4. Other(side) \in Sides \ {side} /\ c \notin anc[Other(side)]
    BY <2>1, <2>3, <1>0 DEF Other, Sides, SearchInv
  <2>5. todo' = parents[c] /\ pc' = "visit"
    BY <1>8, <2>4 DEF Pop
  <2>6. Unvisited(side)' = ParentsOf(parents, c) /\ \A s \in Sides \ {side} : Unvisited(s)' = {}
    BY <2>1, <2>2, <2>5, <1>0, ParentsAreElems DEF Unvisited, Elems
  <2> HIDE DEF c
  <2>7. ASSUME NEW p \in ParentsOf(parents, c), NEW y \in Ancestors(parents, Tip(side)),
               p \in Ancestors(parents, y), y # p
        PROVE  y \in anc[side]
    <3>1. c \in Ancestors(parents, y)
      BY <1>2, <1>3, <2>3, <2>7, NoneBetween
    <3>2. QED BY <2>1, <2>3, <3>1, <1>4
  <2>8. QED BY <2>1, <2>5, <2>6, <2>7, <1>4
<1>9. CASE Visit
  <2> DEFINE p == Head(todo)
  <2>1. /\ pc = "visit" /\ side \in Sides /\ side' = side
        /\ todo \in Seq(Commits) /\ todo # <<>> /\ todo' = Tail(todo)
        /\ anc' = [anc EXCEPT ![side] = @ \union {p}] /\ anc \in [Sides -> SUBSET Commits]
    BY <1>9, <1>0 DEF Visit, TypeOK
  <2>2. p \in Commits /\ Elems(todo) = {p} \union Elems(todo')
    BY <2>1, ElemsHeadTail
  <2>3. Other(side) \in Sides \ {side}
    BY <2>1 DEF Other, Sides
  <2>4. Unvisited(side) = Elems(todo) /\ \A s \in Sides \ {side} : Unvisited(s) = {}
    BY <2>1 DEF Unvisited
  <2>5. CASE p \in anc[Other(side)] \ anc[side]
    <3>1. result' = p /\ pc' = "done"
      BY <1>9, <2>5 DEF Visit, Return
    <3>2. p \in CommonAncestors(parents, a, b)
      <4>1. result' # None
        BY <2>2, <3>1, NoneIsNoCommit
      <4>2. QED BY <1>0, <1>i, <3>1, <4>1 DEF SearchInv, ResultIsCommon, inputs
    <3>3. ASSUME NEW y \in CommonAncestors(parents, a, b), p \in Ancestors(parents, y), y # p
          PROVE  FALSE
      <4>1. \A s \in Sides : y \in Ancestors(parents, Tip(s))
        BY <3>3 DEF CommonAncestors, Tip
      <4>2. y \in anc[side] /\ y \in anc[Other(side)]
        BY <1>4, <2>1, <2>2, <2>3, <2>4, <2>5, <3>3, <4>1
      <4>3. QED BY <4>2, <2>1, <1>0 DEF SearchInv, Other, Sides
    <3>4. QED BY <3>1, <3>2, <3>3 DEF LowestCommonAncestors
  <2>6. CASE p \notin anc[Other(side)] \ anc[side]
    <3>1. pc' = "visit" /\ result' = result
      BY <1>9, <2>6 DEF Visit
    <3>2. Unvisited(side)' = Elems(todo') /\ \A s \in Sides \ {side} : Unvisited(s)' = {}
      BY <2>1, <3>1 DEF Unvisited, Elems
    <3>3. /\ anc'[side] \union Unvisited(side)' = anc[side] \union Unvisited(side)
          /\ anc[side] \subseteq anc'[side] /\ \A s \in Sides \ {side} : anc'[s] = anc[s]
      BY <2>1, <2>2, <2>4, <3>2
    <3> HIDE DEF p
    <3>4. ASSUME NEW s \in Sides, NEW x \in anc'[s] \union Unvisited(s)',
                 NEW y \in Ancestors(parents, Tip(s)), x \in Ancestors(parents, y), y # x
          PROVE  y \in anc'[s]
      <4>1. x \in anc[s] \union Unvisited(s)
        <5>1. CASE s = side
          BY <2>1, <3>3, <3>4, <5>1
        <5>2. CASE s # side
          BY <3>2, <3>3, <3>4, <5>2
        <5>3. QED BY <5>1, <5>2
      <4>2. y \in anc[s]
        BY <1>4, <2>1, <3>4, <4>1
      <4>3. QED BY <3>3, <4>2
    <3>5. QED BY <3>1, <3>4
  <2>7. QED BY <2>5, <2>6
<1>10. CASE EndTurn
  <2>1. pc = "visit" /\ pc' = "pop" /\ anc' = anc /\ \A s : Unvisited(s)' = {}
    BY <1>10 DEF EndTurn, Unvisited
  <2>2. QED BY <2>1, <1>4
<1>11. CASE UNCHANGED vars
  <2>1. pc' = pc /\ anc' = anc /\ result' = result /\ \A s : Unvisited(s)' = Unvisited(s)
    BY <1>11 DEF vars, Unvisited
  <2>2. FoundLowest
    BY DEF LowestInv
  <2>3. QED BY <2>1, <2>2, <1>3, <1>4 DEF FoundLowest
<1>12. QED BY <1>5, <1>6, <1>7, <1>8, <1>9, <1>10, <1>11 DEF Next, Finished

-----------------------------------------------------------------------------
(* The search, step by step, computes the operator CommonAncestor.         *)

\* A search that has found something or has nothing left to pop stays as it is.
Final(s) == s.result # None \/ (s.queue["A"] = <<>> /\ s.queue["B"] = <<>>)

\* A turn does nothing once there is a result, or with an empty queue.
LEMMA TurnStays ==
  ASSUME NEW par, NEW s, NEW x \in Sides, s.result # None \/ s.queue[x] = <<>>
  PROVE  Turn(par, s, x) = s
BY DEF Turn

\* Rounds after a final one change nothing, so its result is the answer.
LEMMA RoundsEnd ==
  ASSUME NEW C, IsFiniteSet(C), NEW par \in [C -> Seq(C)], NEW x, NEW y, x # y,
         NEW r, Rounds(r, par, x, y), NEW n \in 0 .. Cardinality(C), Final(r[n])
  PROVE  CommonAncestor(par, x, y) = r[n].result
<1> DEFINE N == Cardinality(C)
           X == {k \in Nat : n + k <= N => r[n + k] = r[n]}
<1>1. N \in Nat /\ DOMAIN par = C
  BY FS_CardinalityType
<1>2. /\ \A k \in 1 .. N : r[k] = Turn(par, Turn(par, r[k - 1], "A"), "B")
      /\ CommonAncestor(par, x, y) = r[N].result
  BY <1>1 DEF Rounds
<1> HIDE DEF N
<1>3. Turn(par, Turn(par, r[n], "A"), "B") = r[n]
  BY TurnStays DEF Final, Sides
<1>4. 0 \in X
  BY <1>1
<1>5. ASSUME NEW k \in Nat, k \in X PROVE k + 1 \in X
  <2>1. SUFFICES ASSUME n + (k + 1) <= N PROVE r[n + (k + 1)] = r[n]
    OBVIOUS
  <2>2. n + (k + 1) \in 1 .. N /\ (n + (k + 1)) - 1 = n + k /\ n + k <= N
    BY <1>1, <2>1 DEF N
  <2>3. r[n + (k + 1)] = Turn(par, Turn(par, r[n + k], "A"), "B")
    BY <1>2, <2>2
  <2>4. r[n + k] = r[n]
    BY <1>5, <2>2
  <2>5. QED BY <1>3, <2>3, <2>4
<1>6. N - n \in X
  <2> HIDE DEF X
  <2>1. N - n \in Nat
    BY <1>1 DEF N
  <2>2. QED BY <1>4, <1>5, <2>1, NatSetInduction
<1>7. n + (N - n) = N
  BY <1>1 DEF N
<1>8. QED BY <1>1, <1>2, <1>6, <1>7

\* Visits after a result change nothing.
LEMMA VisitsEnd ==
  ASSUME NEW C, NEW ps \in Seq(C), NEW v, NEW s, NEW x, Visits(v, s, x, ps),
         NEW i \in 0 .. Len(ps), v[i].result # None
  PROVE  VisitParents(s, x, ps) = v[i]
<1> DEFINE N == Len(ps)
           X == {k \in Nat : i + k <= N => v[i + k] = v[i]}
<1>1. N \in Nat
  OBVIOUS
<1>2. /\ \A k \in 1 .. N : v[k] = VisitParent(v[k - 1], x, ps[k])
      /\ VisitParents(s, x, ps) = v[N]
  BY DEF Visits
<1>3. \A p : VisitParent(v[i], x, p) = v[i]
  BY DEF VisitParent
<1>4. 0 \in X
  BY <1>1
<1>5. ASSUME NEW k \in Nat, k \in X PROVE k + 1 \in X
  <2>1. SUFFICES ASSUME i + (k + 1) <= N PROVE v[i + (k + 1)] = v[i]
    OBVIOUS
  <2>2. i + (k + 1) \in 1 .. N /\ (i + (k + 1)) - 1 = i + k /\ i + k <= N
    BY <1>1, <2>1
  <2>3. v[i + (k + 1)] = VisitParent(v[i + k], x, ps[i + (k + 1)])
    BY <1>2, <2>2
  <2>4. v[i + k] = v[i]
    BY <1>5, <2>2
  <2>5. QED BY <1>3, <2>3, <2>4
<1>6. N - i \in X
  <2>0. N - i \in Nat
    BY <1>1
  <2> HIDE DEF X, N
  <2>2. QED BY <1>4, <1>5, <2>0, NatSetInduction
<1>7. i + (N - i) = N
  BY <1>1
<1>8. QED BY <1>1, <1>2, <1>6, <1>7

\* The variables hold the search state s.
Is(s) ==
  /\ s \in Searches(Commits)
  /\ s.anc = anc /\ s.queue = queue /\ s.result = None

\* What the two sides have popped; each commit only once.
Popped == UNION {anc[s] \ Elems(queue[s]) : s \in Sides}
NoDuplicates ==
  \A s \in Sides : \A i, j \in DOMAIN queue[s] : queue[s][i] = queue[s][j] => i = j

\* Between turns: n rounds are over, side A's turn of the next one perhaps too.
Between(r, n) ==
  \E s : /\ Is(s)
         /\ n <= Cardinality(Popped)
         /\ \/ side = "A" /\ s = r[n]
            \/ /\ side = "B" /\ s = Turn(parents, r[n], "A")
               /\ queue["B"] = <<>> => n + 1 <= Cardinality(Popped)

\* Within a turn: i of the parents ps have been visited.
Within(r, n, ps, i) ==
  /\ n + 1 <= Cardinality(Popped)
  /\ \E s, popped, v :
       /\ s = IF side = "A" THEN r[n] ELSE Turn(parents, r[n], "A")
       /\ Turn(parents, s, side) = VisitParents(popped, side, ps)
       /\ Visits(v, popped, side, ps)
       /\ Is(v[i])
  /\ Len(todo) = Len(ps) - i
  /\ \A j \in 1 .. Len(todo) : todo[j] = ps[i + j]

Tracks(r) ==
  /\ pc = "pop" => \E n \in Nat : Between(r, n)
  /\ pc = "visit" => \E n \in Nat : \E ps \in Seq(Commits) : \E i \in 0 .. Len(ps) :
                      Within(r, n, ps, i)

FollowInv ==
  /\ SearchInv /\ NoDuplicates
  /\ pc \in {"pop", "visit"} => a # b
  /\ pc = "start" => side = "A"
  /\ \E r : Rounds(r, parents, a, b) /\ Tracks(r)
  /\ IF pc = "done" THEN result = CommonAncestor(parents, a, b) ELSE result = None

\* No more commits are popped than there are.
LEMMA PoppedBounded ==
  ASSUME SearchInv
  PROVE  /\ Popped \in SUBSET Commits /\ IsFiniteSet(Popped)
         /\ Cardinality(Popped) \in Nat /\ Cardinality(Commits) \in Nat
         /\ Cardinality(Popped) <= Cardinality(Commits)
<1>1. Popped \in SUBSET Commits
  BY DEF Popped, SearchInv, TypeOK
<1>2. QED BY <1>1, HashesAreFinite, FS_Subset, FS_CardinalityType

\* A search starts as Started says.
LEMMA StartFollows ==
  ASSUME FollowInv, SearchInv', Start
  PROVE  FollowInv'
<1>1. PICK r : Rounds(r, parents, a, b)
  BY DEF FollowInv
<1>2. UNCHANGED inputs /\ a \in Commits /\ b \in Commits /\ pc = "start" /\ result = None
  BY DEF Start, FollowInv, SearchInv, TypeOK
<1>3. CASE a = b
  <2>1. pc' = "done" /\ result' = a /\ queue' = queue
    BY <1>2, <1>3 DEF Start, Return
  <2>2. CommonAncestor(parents', a', b') = a
    BY <1>2, <1>3 DEF CommonAncestor, inputs
  <2>3. Rounds(r, parents', a', b') /\ Tracks(r)'
    BY <1>1, <1>2, <2>1 DEF Tracks, inputs
  <2>4. NoDuplicates'
    BY <2>1 DEF FollowInv, NoDuplicates
  <2>5. QED BY <2>1, <2>2, <2>3, <2>4 DEF FollowInv
<1>4. CASE a # b
  <2>1. /\ pc' = "pop" /\ result' = None /\ side' = side
        /\ anc' = [s \in Sides |-> IF s = "A" THEN {a} ELSE {b}]
        /\ queue' = [s \in Sides |-> IF s = "A" THEN <<a>> ELSE <<b>>]
    BY <1>2, <1>4 DEF Start
  <2>2. Started(a, b) \in Searches(Commits)
    BY <1>2 DEF Started, Searches, Sides
  <2>3. Is(Started(a, b))'
    BY <2>1, <2>2, <1>2 DEF Is, Started, inputs
  <2>4. NoDuplicates'
    BY <2>1 DEF NoDuplicates, Sides
  <2>5. side = "A"
    BY <1>2 DEF FollowInv
  <2>6. r[0] = Started(a, b)
    BY <1>1 DEF Rounds
  <2>7. Between(r, 0)'
    <3>1. \A s \in Sides : anc'[s] \ Elems(queue'[s]) = {}
      BY <2>1 DEF Elems, Sides
    <3>2. Popped' = {}
      BY <3>1 DEF Popped
    <3>3. Cardinality(Popped') = 0
      BY <3>2, FS_EmptySet
    <3>4. a' = a /\ b' = b
      BY <1>2 DEF inputs
    <3>5. QED BY <2>1, <2>3, <2>5, <2>6, <3>3, <3>4 DEF Between
  <2>8. Rounds(r, parents', a', b') /\ Tracks(r)'
    BY <1>1, <1>2, <2>1, <2>7 DEF Tracks, inputs
  <2>9. a' # b'
    BY <1>2, <1>4 DEF inputs
  <2>10. QED BY <2>1, <2>4, <2>8, <2>9 DEF FollowInv
<1>5. QED BY <1>3, <1>4

\* When both queues are empty all further rounds are idle.
LEMMA ExhaustedFollows ==
  ASSUME FollowInv, SearchInv', Exhausted
  PROVE  FollowInv'
<1>1. PICK r : Rounds(r, parents, a, b) /\ Tracks(r)
  BY DEF FollowInv
<1>2. /\ UNCHANGED inputs /\ UNCHANGED queue /\ pc = "pop" /\ side = "A" /\ a # b
      /\ queue["A"] = <<>> /\ queue["B"] = <<>> /\ result' = None /\ pc' = "done"
      /\ SearchInv /\ parents \in [Commits -> Seq(Commits)]
  BY DEF Exhausted, Return, FollowInv, SearchInv, TypeOK
<1>3. PICK n \in Nat : Is(r[n]) /\ n <= Cardinality(Popped)
  BY <1>1, <1>2 DEF Tracks, Between
<1>4. n \in 0 .. Cardinality(Commits)
  BY <1>2, <1>3, PoppedBounded
<1>5. Final(r[n]) /\ r[n].result = None
  BY <1>2, <1>3 DEF Final, Is
<1>6. CommonAncestor(parents, a, b) = None
  BY <1>1, <1>2, <1>4, <1>5, HashesAreFinite, RoundsEnd
<1>7. Rounds(r, parents', a', b') /\ Tracks(r)' /\ NoDuplicates'
  BY <1>1, <1>2 DEF Tracks, inputs, FollowInv, NoDuplicates
<1>8. QED BY <1>2, <1>6, <1>7 DEF FollowInv, inputs

\* A side with an empty queue leaves its turn to the other.
LEMMA PassFollows ==
  ASSUME FollowInv, SearchInv', Pass
  PROVE  FollowInv'
<1>1. PICK r : Rounds(r, parents, a, b) /\ Tracks(r)
  BY DEF FollowInv
<1>2. /\ UNCHANGED <<inputs, anc, queue, todo, result, pc>> /\ pc = "pop" /\ a # b
      /\ queue[side] = <<>> /\ side' = Other(side) /\ side \in Sides
      /\ (side = "A" => queue["B"] # <<>>)
      /\ SearchInv /\ parents \in [Commits -> Seq(Commits)]
  BY DEF Pass, FollowInv, SearchInv, TypeOK
<1>3. PICK n \in Nat : Between(r, n)
  BY <1>1, <1>2 DEF Tracks
<1>4. PICK s : /\ Is(s)
               /\ n <= Cardinality(Popped)
               /\ \/ side = "A" /\ s = r[n]
                  \/ /\ side = "B" /\ s = Turn(parents, r[n], "A")
                     /\ queue["B"] = <<>> => n + 1 <= Cardinality(Popped)
  BY <1>3 DEF Between
<1>5. Is(s)' /\ Popped' = Popped /\ parents' = parents
  BY <1>2, <1>4 DEF Is, Popped, inputs
<1>6. Turn(parents, s, side) = s
  BY <1>2, <1>4, TurnStays DEF Is
<1>7. \E m \in Nat : Between(r, m)'
  <2>1. CASE side = "A"
    <3>1. side' = "B" /\ queue'["B"] # <<>> /\ s = Turn(parents', r[n], "A")
      BY <2>1, <1>2, <1>4, <1>5, <1>6 DEF Other
    <3>2. QED BY <3>1, <1>4, <1>5 DEF Between
  <2>2. CASE side = "B"
    <3>1. side' = "A" /\ n + 1 <= Cardinality(Popped)
      BY <2>2, <1>2, <1>4 DEF Other
    <3>2. n + 1 \in 1 .. Cardinality(Commits) /\ (n + 1) - 1 = n
      BY <3>1, <1>2, PoppedBounded
    <3>3. r[n + 1] = Turn(parents, Turn(parents, r[n], "A"), "B")
      BY <3>2, <1>1, <1>2 DEF Rounds
    <3>4. s = r[n + 1]
      BY <2>2, <3>3, <1>4, <1>6
    <3>5. Between(r, n + 1)'
      BY <3>1, <3>4, <1>4, <1>5 DEF Between
    <3>6. QED BY <3>5
  <2>3. QED BY <2>1, <2>2, <1>2 DEF Sides
<1>8. Rounds(r, parents', a', b') /\ Tracks(r)' /\ NoDuplicates' /\ a' # b' /\ result' = None
  BY <1>1, <1>2, <1>7 DEF Tracks, inputs, FollowInv, NoDuplicates
<1>9. QED BY <1>2, <1>8 DEF FollowInv

\* At the end of a turn all parents have been visited.
LEMMA EndTurnFollows ==
  ASSUME FollowInv, SearchInv', EndTurn
  PROVE  FollowInv'
<1>1. PICK r : Rounds(r, parents, a, b) /\ Tracks(r)
  BY DEF FollowInv
<1>2. /\ UNCHANGED <<inputs, anc, queue, todo, result>> /\ pc = "visit" /\ pc' = "pop" /\ a # b
      /\ todo = <<>> /\ side' = Other(side) /\ side \in Sides
      /\ SearchInv /\ parents \in [Commits -> Seq(Commits)]
  BY DEF EndTurn, FollowInv, SearchInv, TypeOK
<1>n. PICK n \in Nat, ps \in Seq(Commits) : \E i \in 0 .. Len(ps) : Within(r, n, ps, i)
  BY <1>1, <1>2 DEF Tracks
<1>3. PICK i \in 0 .. Len(ps) : Within(r, n, ps, i)
  BY <1>n
<1>4. PICK s, popped, v :
        /\ s = IF side = "A" THEN r[n] ELSE Turn(parents, r[n], "A")
        /\ Turn(parents, s, side) = VisitParents(popped, side, ps)
        /\ Visits(v, popped, side, ps)
        /\ Is(v[i])
  BY <1>3 DEF Within
<1>5. i = Len(ps) /\ n + 1 <= Cardinality(Popped)
  BY <1>2, <1>3 DEF Within
<1>6. Is(v[i])' /\ Popped' = Popped /\ parents' = parents
  BY <1>2, <1>4 DEF Is, Popped, inputs
<1>7. v[i] = Turn(parents, s, side)
  BY <1>4, <1>5 DEF Visits
<1>8. n + 1 \in 1 .. Cardinality(Commits) /\ (n + 1) - 1 = n /\ n <= Cardinality(Popped)
  BY <1>2, <1>5, PoppedBounded
<1>9. \E m \in Nat : Between(r, m)'
  <2>1. CASE side = "A"
    <3>1. side' = "B" /\ v[i] = Turn(parents', r[n], "A")
      BY <2>1, <1>2, <1>4, <1>6, <1>7 DEF Other
    <3>2. QED BY <3>1, <1>5, <1>6, <1>8 DEF Between
  <2>2. CASE side = "B"
    <3>1. r[n + 1] = Turn(parents, Turn(parents, r[n], "A"), "B")
      BY <1>8, <1>1, <1>2 DEF Rounds
    <3>2. side' = "A" /\ v[i] = r[n + 1]
      BY <2>2, <3>1, <1>2, <1>4, <1>7 DEF Other
    <3>3. Between(r, n + 1)'
      BY <3>2, <1>5, <1>6 DEF Between
    <3>4. QED BY <3>3
  <2>3. QED BY <2>1, <2>2, <1>2 DEF Sides
<1>10. Rounds(r, parents', a', b') /\ Tracks(r)' /\ NoDuplicates' /\ a' # b' /\ result' = None
  BY <1>1, <1>2, <1>9 DEF Tracks, inputs, FollowInv, NoDuplicates
<1>11. QED BY <1>2, <1>10 DEF FollowInv

\* What is popped was not popped before.
LEMMA PopCounts ==
  ASSUME FollowInv, SearchInv', Pop
  PROVE  Cardinality(Popped') \in Nat /\ Cardinality(Popped) + 1 <= Cardinality(Popped')
<1> DEFINE c == Head(queue[side])
<1>1. /\ pc = "pop" /\ side \in Sides /\ anc' = anc /\ SearchInv
      /\ queue[side] \in Seq(Commits) /\ queue[side] # <<>>
      /\ queue' = [queue EXCEPT ![side] = Tail(@)] /\ queue \in [Sides -> Seq(Commits)]
  BY DEF Pop, FollowInv, SearchInv, TypeOK
<1>2. /\ queue'[side] = Tail(queue[side]) /\ \A s \in Sides \ {side} : queue'[s] = queue[s]
      /\ Elems(queue[side]) = {c} \union Elems(Tail(queue[side])) /\ c \in Commits
  BY <1>1, ElemsHeadTail
<1>3. c \notin Elems(Tail(queue[side]))
  <2>1. /\ DOMAIN queue[side] = 1 .. Len(queue[side]) /\ c = queue[side][1]
        /\ DOMAIN Tail(queue[side]) = 1 .. Len(queue[side]) - 1
        /\ \A i \in 1 .. Len(queue[side]) - 1 : Tail(queue[side])[i] = queue[side][i + 1]
    BY <1>1
  <2>2. \A i, j \in DOMAIN queue[side] : queue[side][i] = queue[side][j] => i = j
    BY <1>1 DEF FollowInv, NoDuplicates
  <2>3. Len(queue[side]) \in Nat \ {0}
    BY <1>1
  <2>4. ASSUME NEW i \in 1 .. Len(queue[side]) - 1, queue[side][i + 1] = queue[side][1] PROVE FALSE
    <3>1. /\ i + 1 \in DOMAIN queue[side] /\ 1 \in DOMAIN queue[side] /\ i + 1 # 1
      BY ONLY <2>1, <2>3, i \in 1 .. Len(queue[side]) - 1
    <3>2. QED BY ONLY <2>2, <2>4, <3>1
  <2>5. QED BY <2>1, <2>4 DEF Elems
<1>4. SideInv(side) /\ Other(side) \in Sides \ {side} /\ Sides = {side, Other(side)}
  BY <1>1 DEF SearchInv, Other, Sides
<1>5. c \in anc[side] /\ c \notin anc[Other(side)]
  <2>1. c \in anc[side]
    BY <1>2, <1>4 DEF SideInv
  <2>2. QED BY <2>1, <1>1, <1>4 DEF SearchInv, Other, Sides
<1> HIDE DEF c
<1>6. c \notin Popped
  BY <1>2, <1>4, <1>5 DEF Popped
<1>7. Popped \union {c} \subseteq Popped'
  <2>1. ASSUME NEW s \in Sides PROVE anc[s] \ Elems(queue[s]) \subseteq anc'[s] \ Elems(queue'[s])
    <3>1. CASE s = side
      BY <3>1, <1>1, <1>2
    <3>2. CASE s # side
      BY <3>2, <1>1, <1>2
    <3>3. QED BY <3>1, <3>2
  <2>2. c \in anc'[side] \ Elems(queue'[side])
    BY <1>1, <1>2, <1>3, <1>5
  <2>3. QED BY <2>1, <2>2, <1>1 DEF Popped
<1>8. IsFiniteSet(Popped) /\ Cardinality(Popped) \in Nat
  BY <1>1, PoppedBounded
<1>9. IsFiniteSet(Popped') /\ Cardinality(Popped') \in Nat
  <2>1. Popped' \in SUBSET Commits
    BY DEF Popped, SearchInv, TypeOK
  <2>2. QED BY <2>1, HashesAreFinite, FS_Subset, FS_CardinalityType
<1>10. Cardinality(Popped \union {c}) = Cardinality(Popped) + 1
  BY <1>6, <1>8, FS_AddElement
<1>11. Cardinality(Popped \union {c}) <= Cardinality(Popped')
  BY <1>7, <1>9, FS_Subset
<1>12. QED BY <1>9, <1>10, <1>11

\* A pop begins the visit of the popped commit's parents.
LEMMA PopFollows ==
  ASSUME FollowInv, SearchInv', Pop
  PROVE  FollowInv'
<1> DEFINE c == Head(queue[side])
<1>1. PICK r : Rounds(r, parents, a, b) /\ Tracks(r)
  BY DEF FollowInv
<1>2. /\ UNCHANGED <<inputs, side, anc>> /\ pc = "pop" /\ a # b /\ side \in Sides
      /\ queue[side] \in Seq(Commits) /\ queue[side] # <<>> /\ result = None
      /\ queue' = [queue EXCEPT ![side] = Tail(@)] /\ queue \in [Sides -> Seq(Commits)]
      /\ SearchInv /\ parents \in [Commits -> Seq(Commits)]
  BY DEF Pop, FollowInv, SearchInv, TypeOK
<1>3. c \in Commits /\ c \in anc[side] /\ Tail(queue[side]) \in Seq(Commits)
  <2>1. SideInv(side) /\ c \in Elems(queue[side]) /\ c \in Commits /\ Tail(queue[side]) \in Seq(Commits)
    BY <1>2, ElemsHeadTail DEF SearchInv
  <2>2. QED BY <2>1 DEF SideInv
<1>4. c \notin anc[Other(side)]
  BY <1>2, <1>3 DEF SearchInv, Other, Sides
<1>p. PICK ps \in Seq(Commits) : ps = parents[c]
  BY <1>2, <1>3
<1>5. todo' = ps /\ pc' = "visit" /\ result' = None /\ Len(ps) \in Nat
  BY <1>2, <1>3, <1>4, <1>p DEF Pop
<1>6. PICK n \in Nat : Between(r, n)
  BY <1>1, <1>2 DEF Tracks
<1>7. PICK s : /\ Is(s)
               /\ n <= Cardinality(Popped)
               /\ \/ side = "A" /\ s = r[n]
                  \/ side = "B" /\ s = Turn(parents, r[n], "A")
  BY <1>6 DEF Between
<1> DEFINE popped == [s EXCEPT !.queue[side] = Tail(@)]
<1>8. s \in Searches(Commits) /\ s.anc = anc /\ s.queue = queue /\ s.result = None
  BY <1>7 DEF Is
<1>9. Turn(parents, s, side) = VisitParents(popped, side, ps)
  BY <1>2, <1>4, <1>8, <1>p DEF Turn
<1>10. /\ popped \in Searches(Commits) /\ popped.anc = anc /\ popped.queue = queue'
       /\ popped.result = None
  BY <1>2, <1>3, <1>8 DEF Searches
<1> HIDE DEF popped, c
<1>11. PICK v : Visits(v, popped, side, ps)
  BY VisitsExist
<1>12. v[0] = popped
  BY <1>11 DEF Visits
<1>13. Is(v[0])'
  BY <1>2, <1>10, <1>12 DEF Is
<1>14. n + 1 <= Cardinality(Popped')
  BY <1>2, <1>7, PopCounts, PoppedBounded
<1>15. Within(r, n, ps, 0)'
  <2>1. /\ s = IF side' = "A" THEN r[n] ELSE Turn(parents', r[n], "A")
        /\ Turn(parents', s, side') = VisitParents(popped, side', ps)
        /\ Visits(v, popped, side', ps)
    BY <1>2, <1>7, <1>9, <1>11 DEF inputs
  <2>2. Len(todo') = Len(ps) - 0 /\ \A j \in 1 .. Len(todo') : todo'[j] = ps[0 + j]
    BY <1>5
  <2>3. QED BY <1>13, <1>14, <2>1, <2>2 DEF Within
<1>16. Tracks(r)'
  <2>1. 0 \in 0 .. Len(ps)
    BY <1>5
  <2>2. QED BY <1>5, <1>15, <2>1 DEF Tracks
<1>17. NoDuplicates'
  <2>1. ASSUME NEW x \in Sides, NEW i \in DOMAIN queue'[x], NEW j \in DOMAIN queue'[x],
               queue'[x][i] = queue'[x][j]
        PROVE  i = j
    <3>1. CASE x = side
      <4>1. /\ queue'[side] = Tail(queue[side])
            /\ DOMAIN queue[side] = 1 .. Len(queue[side])
            /\ DOMAIN Tail(queue[side]) = 1 .. Len(queue[side]) - 1
            /\ \A k \in 1 .. Len(queue[side]) - 1 : Tail(queue[side])[k] = queue[side][k + 1]
        BY <1>2
      <4>2. i + 1 \in DOMAIN queue[side] /\ j + 1 \in DOMAIN queue[side]
            /\ queue[side][i + 1] = queue[side][j + 1]
        <5>1. i \in DOMAIN Tail(queue[side]) /\ j \in DOMAIN Tail(queue[side])
              /\ Tail(queue[side])[i] = Tail(queue[side])[j]
          BY ONLY <2>1, <3>1, <4>1, i \in DOMAIN queue'[x], j \in DOMAIN queue'[x]
        <5>2. Len(queue[side]) \in Nat
          BY <1>2
        <5>3. QED BY ONLY <4>1, <5>1, <5>2
      <4>n. \A k, l \in DOMAIN queue[side] : queue[side][k] = queue[side][l] => k = l
        BY <1>2 DEF FollowInv, NoDuplicates
      <4>3. PICK k, l \in DOMAIN queue[side] : k = i + 1 /\ l = j + 1
        BY <4>2
      <4>4. k = l
        BY <4>2, <4>3, <4>n
      <4>5. i + 1 = j + 1
        BY ONLY <4>3, <4>4
      <4>6. DOMAIN queue'[x] = 1 .. Len(queue[side]) - 1
        BY ONLY <3>1, <4>1
      <4>7. i \in 1 .. Len(queue[side]) - 1 /\ j \in 1 .. Len(queue[side]) - 1
        BY ONLY <4>6, i \in DOMAIN queue'[x], j \in DOMAIN queue'[x]
      <4>8. i \in Int /\ j \in Int
        BY ONLY <4>7
      <4>9. QED BY ONLY <4>5, <4>8
    <3>2. CASE x # side
      BY <2>1, <3>2, <1>2 DEF FollowInv, NoDuplicates
    <3>3. QED BY <3>1, <3>2
  <2>2. QED BY <2>1 DEF NoDuplicates
<1>18. Rounds(r, parents', a', b') /\ a' # b'
  BY <1>1, <1>2 DEF inputs
<1>19. QED BY <1>5, <1>16, <1>17, <1>18 DEF FollowInv

\* The fields of a search that visits a parent neither side knows, or its own does.
LEMMA VisitFields ==
  ASSUME NEW s \in Searches(Commits), s.result = None, NEW x \in Sides, NEW p \in Commits
  PROVE  /\ p \in s.anc[x] => VisitParent(s, x, p) = s
         /\ (p \notin s.anc[x] /\ p \in s.anc[Other(x)]) => VisitParent(s, x, p).result = p
         /\ (p \notin s.anc[x] /\ p \notin s.anc[Other(x)]) =>
              /\ VisitParent(s, x, p) \in Searches(Commits)
              /\ VisitParent(s, x, p).anc = [s.anc EXCEPT ![x] = @ \union {p}]
              /\ VisitParent(s, x, p).queue = [s.queue EXCEPT ![x] = Append(@, p)]
              /\ VisitParent(s, x, p).result = None
<1>1. CASE p \in s.anc[x]
  BY <1>1 DEF VisitParent
<1>2. CASE p \notin s.anc[x] /\ p \in s.anc[Other(x)]
  <2>1. VisitParent(s, x, p) = [s EXCEPT !.result = p]
    BY <1>2 DEF VisitParent
  <2>2. QED BY <1>2, <2>1 DEF Searches
<1>3. CASE p \notin s.anc[x] /\ p \notin s.anc[Other(x)]
  <2> DEFINE t == [s EXCEPT !.anc[x] = @ \union {p}, !.queue[x] = Append(@, p)]
  <2>1. VisitParent(s, x, p) = t
    BY <1>3 DEF VisitParent
  <2>2. s.queue[x] \in Seq(Commits) /\ Append(s.queue[x], p) \in Seq(Commits)
    BY DEF Searches
  <2>3. t \in Searches(Commits)
    BY <2>2 DEF Searches
  <2>4. /\ t.anc = [s.anc EXCEPT ![x] = @ \union {p}]
        /\ t.queue = [s.queue EXCEPT ![x] = Append(@, p)]
        /\ t.result = s.result
    BY DEF Searches
  <2>5. QED BY <1>3, <2>1, <2>3, <2>4
<1>4. QED BY <1>1, <1>2, <1>3

\* A visit is one step of the fold over the parents.
LEMMA VisitFollows ==
  ASSUME FollowInv, SearchInv', Visit
  PROVE  FollowInv'
<1> DEFINE p == Head(todo)
<1>1. PICK r : Rounds(r, parents, a, b) /\ Tracks(r)
  BY DEF FollowInv
<1>2. /\ UNCHANGED <<inputs, side>> /\ pc = "visit" /\ a # b /\ side \in Sides /\ result = None
      /\ todo \in Seq(Commits) /\ todo # <<>> /\ todo' = Tail(todo) /\ Tail(todo) \in Seq(Commits)
      /\ anc' = [anc EXCEPT ![side] = @ \union {p}] /\ anc \in [Sides -> SUBSET Commits]
      /\ queue \in [Sides -> Seq(Commits)]
      /\ SearchInv /\ parents \in [Commits -> Seq(Commits)]
  BY DEF Visit, FollowInv, SearchInv, TypeOK
<1>3. /\ p \in Commits /\ Len(todo) \in Nat /\ Len(todo) >= 1 /\ p = todo[1]
      /\ Len(Tail(todo)) = Len(todo) - 1
      /\ \A j \in 1 .. Len(todo) - 1 : Tail(todo)[j] = todo[j + 1]
  BY <1>2
<1> HIDE DEF p
<1>n. PICK n \in Nat, ps \in Seq(Commits) : \E i \in 0 .. Len(ps) : Within(r, n, ps, i)
  BY <1>1, <1>2 DEF Tracks
<1>4. PICK i \in 0 .. Len(ps) : Within(r, n, ps, i)
  BY <1>n
<1>5. PICK s, popped, v :
        /\ s = IF side = "A" THEN r[n] ELSE Turn(parents, r[n], "A")
        /\ Turn(parents, s, side) = VisitParents(popped, side, ps)
        /\ Visits(v, popped, side, ps)
        /\ Is(v[i])
  BY <1>4 DEF Within
<1>6. /\ Len(todo) = Len(ps) - i /\ \A j \in 1 .. Len(todo) : todo[j] = ps[i + j]
      /\ n + 1 <= Cardinality(Popped) /\ Len(ps) \in Nat
  BY <1>4 DEF Within
<1>7. i + 1 \in 1 .. Len(ps) /\ (i + 1) - 1 = i /\ p = ps[i + 1]
  BY <1>3, <1>6
<1>8. v[i + 1] = VisitParent(v[i], side, p)
  BY <1>5, <1>7 DEF Visits
<1>9. v[i] \in Searches(Commits) /\ v[i].anc = anc /\ v[i].queue = queue /\ v[i].result = None
  BY <1>5 DEF Is
<1>10. p # None
  BY <1>3, NoneIsNoCommit
<1>f. /\ p \in anc[side] => v[i + 1] = v[i]
      /\ (p \notin anc[side] /\ p \in anc[Other(side)]) => v[i + 1].result = p
      /\ (p \notin anc[side] /\ p \notin anc[Other(side)]) =>
           /\ v[i + 1] \in Searches(Commits)
           /\ v[i + 1].anc = [anc EXCEPT ![side] = @ \union {p}]
           /\ v[i + 1].queue = [queue EXCEPT ![side] = Append(@, p)]
           /\ v[i + 1].result = None
  <2>1. PICK w \in Searches(Commits) :
          w = v[i] /\ w.anc = anc /\ w.queue = queue /\ w.result = None
    BY <1>9
  <2>2. v[i + 1] = VisitParent(w, side, p)
    BY <1>8, <2>1
  <2>3. p \in Commits /\ side \in Sides
    BY <1>2, <1>3
  <2>4. /\ p \in w.anc[side] => VisitParent(w, side, p) = w
        /\ (p \notin w.anc[side] /\ p \in w.anc[Other(side)]) => VisitParent(w, side, p).result = p
        /\ (p \notin w.anc[side] /\ p \notin w.anc[Other(side)]) =>
             /\ VisitParent(w, side, p) \in Searches(Commits)
             /\ VisitParent(w, side, p).anc = [w.anc EXCEPT ![side] = @ \union {p}]
             /\ VisitParent(w, side, p).queue = [w.queue EXCEPT ![side] = Append(@, p)]
             /\ VisitParent(w, side, p).result = None
    BY ONLY <2>1, <2>3, VisitFields
  <2>5. QED BY <2>1, <2>2, <2>4
<1>11. CASE p \in anc[Other(side)] \ anc[side]
  <2>1. result' = p /\ pc' = "done" /\ queue' = queue
    BY <1>11 DEF Visit, Return, p
  <2>2. v[i + 1].result = p
    BY <1>11, <1>f
  <2>3. VisitParents(popped, side, ps) = v[i + 1]
    <3>1. i + 1 \in 0 .. Len(ps) /\ v[i + 1].result # None
      BY <1>7, <1>10, <2>2
    <3>2. QED BY <1>5, <3>1, VisitsEnd
  <2>4. Turn(parents, s, side).result = p
    BY <1>5, <2>2, <2>3
  <2>5. Turn(parents, Turn(parents, r[n], "A"), "B").result = p
    <3>1. CASE side = "A"
      <4>1. Turn(parents, r[n], "A").result = p
        BY <1>5, <2>4, <3>1
      <4>2. QED BY <1>10, <4>1, TurnStays DEF Sides
    <3>2. CASE side = "B"
      BY <1>5, <2>4, <3>2
    <3>3. QED BY <1>2, <3>1, <3>2 DEF Sides
  <2>6. n + 1 \in 1 .. Cardinality(Commits) /\ n + 1 \in 0 .. Cardinality(Commits)
        /\ (n + 1) - 1 = n
    BY <1>2, <1>6, PoppedBounded
  <2>7. r[n + 1].result = p
    BY <1>1, <1>2, <2>5, <2>6 DEF Rounds
  <2>8. CommonAncestor(parents, a, b) = p
    <3>1. Final(r[n + 1])
      BY <1>10, <2>7 DEF Final
    <3>2. PICK m \in 0 .. Cardinality(Commits) : m = n + 1
      BY <2>6
    <3>3. Final(r[m]) /\ r[m].result = p
      BY <2>7, <3>1, <3>2
    <3>4. CommonAncestor(parents, a, b) = r[m].result
      <4>1. Rounds(r, parents, a, b) /\ a # b /\ parents \in [Commits -> Seq(Commits)]
        BY <1>1, <1>2
      <4>2. QED BY ONLY <4>1, <3>3, HashesAreFinite, RoundsEnd
    <3>5. QED BY <3>3, <3>4
  <2>9. Rounds(r, parents', a', b') /\ Tracks(r)' /\ NoDuplicates'
    BY <1>1, <1>2, <2>1 DEF Tracks, inputs, FollowInv, NoDuplicates
  <2>10. QED BY <1>2, <2>1, <2>8, <2>9 DEF FollowInv, inputs
<1>12. CASE p \notin anc[Other(side)] \ anc[side]
  <2>1. /\ pc' = "visit" /\ result' = None
        /\ queue' = IF p \in anc[side] THEN queue ELSE [queue EXCEPT ![side] = Append(@, p)]
    BY <1>2, <1>12 DEF Visit, p
  <2>2. Is(v[i + 1])'
    <3>1. CASE p \in anc[side]
      <4>1. v[i + 1] = v[i]
        BY <3>1, <1>f
      <4>2. anc' = anc /\ queue' = queue
        BY <1>2, <2>1, <3>1
      <4>3. QED BY <1>9, <4>1, <4>2 DEF Is
    <3>2. CASE p \notin anc[side]
      <4>1. p \notin anc[Other(side)]
        BY <1>12, <3>2
      <4>2. /\ v[i + 1] \in Searches(Commits)
            /\ v[i + 1].anc = [anc EXCEPT ![side] = @ \union {p}]
            /\ v[i + 1].queue = [queue EXCEPT ![side] = Append(@, p)]
            /\ v[i + 1].result = None
        BY <3>2, <4>1, <1>f
      <4>3. QED BY <1>2, <2>1, <3>2, <4>2 DEF Is
    <3>3. QED BY <3>1, <3>2
  <2>3. Popped' = Popped
    <3>1. ASSUME NEW x \in Sides PROVE anc'[x] \ Elems(queue'[x]) = anc[x] \ Elems(queue[x])
      <4>1. CASE x # side \/ p \in anc[side]
        BY <3>1, <4>1, <1>2, <2>1
      <4>2. CASE x = side /\ p \notin anc[side]
        <5>1. Elems(Append(queue[side], p)) = Elems(queue[side]) \union {p}
          BY <1>2, <1>3, ElemsAppend
        <5>2. anc'[x] = anc[side] \union {p} /\ queue'[x] = Append(queue[side], p)
          BY <4>2, <1>2, <2>1
        <5>3. QED BY <4>2, <5>1, <5>2
      <4>3. QED BY <4>1, <4>2
    <3>2. QED BY <3>1 DEF Popped
  <2>4. Within(r, n, ps, i + 1)'
    <3>1. /\ s = IF side' = "A" THEN r[n] ELSE Turn(parents', r[n], "A")
          /\ Turn(parents', s, side') = VisitParents(popped, side', ps)
          /\ Visits(v, popped, side', ps)
      BY <1>2, <1>5 DEF inputs
    <3>2. Len(todo') = Len(ps) - (i + 1)
      BY <1>2, <1>3, <1>6
    <3>3. ASSUME NEW j \in 1 .. Len(todo') PROVE todo'[j] = ps[(i + 1) + j]
      <4>1. j + 1 \in 1 .. Len(todo) /\ todo'[j] = todo[j + 1] /\ i + (j + 1) = (i + 1) + j
        BY <1>2, <1>3, <3>3
      <4>2. todo[j + 1] = ps[i + (j + 1)]
        BY <1>6, <4>1
      <4>3. QED BY <4>1, <4>2
    <3>4. QED BY <1>6, <2>2, <2>3, <3>1, <3>2, <3>3 DEF Within
  <2>5. Tracks(r)'
    <3>1. i + 1 \in 0 .. Len(ps)
      BY <1>7
    <3>2. QED BY <2>1, <2>4, <3>1 DEF Tracks
  <2>6. NoDuplicates'
    <3>1. ASSUME NEW x \in Sides, NEW k \in DOMAIN queue'[x], NEW l \in DOMAIN queue'[x],
                 queue'[x][k] = queue'[x][l]
          PROVE  k = l
      <4>0. \A y \in Sides : \A k2, l2 \in DOMAIN queue[y] : queue[y][k2] = queue[y][l2] => k2 = l2
        BY DEF FollowInv, NoDuplicates
      <4>1. CASE x # side \/ p \in anc[side]
        <5>1. queue'[x] = queue[x]
          BY <4>1, <1>2, <2>1
        <5>2. QED BY <3>1, <4>0, <5>1
      <4>2. CASE x = side /\ p \notin anc[side]
        <5> DEFINE q == queue[side]
        <5>1. /\ queue'[x] = Append(q, p) /\ q \in Seq(Commits) /\ Len(q) \in Nat
          BY <4>2, <1>2, <2>1
        <5>2. /\ DOMAIN q = 1 .. Len(q) /\ DOMAIN Append(q, p) = 1 .. Len(q) + 1
              /\ \A m \in 1 .. Len(q) : Append(q, p)[m] = q[m]
              /\ Append(q, p)[Len(q) + 1] = p
          BY <5>1
        <5>3. \A m \in DOMAIN q : q[m] # p
          <6>1. SideInv(side)
            BY <1>2 DEF SearchInv
          <6>2. QED BY <4>2, <6>1 DEF SideInv, Elems
        <5>4. \A k2, l2 \in DOMAIN q : q[k2] = q[l2] => k2 = l2
          BY <4>0, <1>2
        <5> HIDE DEF q
        <5>5. QED BY <3>1, <5>1, <5>2, <5>3, <5>4
      <4>3. QED BY <4>1, <4>2
    <3>2. QED BY <3>1 DEF NoDuplicates
  <2>7. Rounds(r, parents', a', b') /\ a' # b'
    BY <1>1, <1>2 DEF inputs
  <2>8. QED BY <2>1, <2>5, <2>6, <2>7 DEF FollowInv
<1>13. QED BY <1>11, <1>12

\* The search computes CommonAncestor, whatever it has done so far.
LEMMA NextFollows == FollowInv /\ [Next]_vars => FollowInv'
<1> SUFFICES ASSUME FollowInv, [Next]_vars PROVE FollowInv'
  OBVIOUS
<1>1. SearchInv'
  BY NextSearch DEF FollowInv
<1>2. CASE UNCHANGED vars
  <2>1. /\ UNCHANGED <<parents, a, b, side, anc, queue, todo, result, pc>>
        /\ Popped' = Popped /\ NoDuplicates' = NoDuplicates /\ \A s : Is(s)' = Is(s)
    BY <1>2 DEF vars, Popped, NoDuplicates, Is
  <2>2. PICK r : Rounds(r, parents, a, b) /\ Tracks(r)
    BY DEF FollowInv
  <2>3. \A n : Between(r, n) => Between(r, n)'
    BY <2>1 DEF Between
  <2>4. \A n, ps, i : Within(r, n, ps, i) => Within(r, n, ps, i)'
    BY <2>1 DEF Within
  <2>5. Rounds(r, parents', a', b') /\ Tracks(r)'
    BY <2>1, <2>2, <2>3, <2>4 DEF Tracks
  <2>6. QED BY <1>1, <2>1, <2>5 DEF FollowInv
<1>3. QED
  BY <1>1, <1>2, StartFollows, ExhaustedFollows, PassFollows, PopFollows, VisitFollows,
     EndTurnFollows DEF Next, Finished

\* The initial state follows the rounds.
LEMMA InitFollows == Init => FollowInv
<1> SUFFICES ASSUME Init PROVE FollowInv
  OBVIOUS
<1>1. SearchInv /\ parents \in [Commits -> Seq(Commits)]
  BY InitSearch DEF SearchInv, TypeOK
<1>2. PICK r : Rounds(r, parents, a, b)
  BY <1>1, HashesAreFinite, RoundsExist
<1>3. Tracks(r)
  BY DEF Init, Tracks
<1>4. QED BY <1>1, <1>2, <1>3 DEF Init, FollowInv, NoDuplicates

\* The answer is the one the other modules take from the operator
\* CommonAncestor, and in a history without merges no common ancestor of the
\* two commits descends from it.
THEOREM SearchFindsLowest == Spec => []ReturnsLowest
<1>1. Init => LowestInv
  BY InitSearch DEF Init, LowestInv, LineInv, FoundLowest
<1>2. Spec => []LowestInv
  BY <1>1, NextLowest, PTL DEF Spec
<1>3. Spec => []FollowInv
  BY InitFollows, NextFollows, PTL DEF Spec
<1>4. LowestInv /\ FollowInv => ReturnsLowest
  <2> SUFFICES ASSUME LowestInv, FollowInv PROVE ReturnsLowest
    OBVIOUS
  <2>1. DOMAIN parents = Commits
    BY DEF LowestInv, SearchInv, TypeOK
  <2>2. pc = "done" => result = CommonAncestor(parents, a, b)
    BY DEF FollowInv
  <2>3. (pc = "done" /\ result # None /\ \A c \in Commits : Len(parents[c]) <= 1) =>
          result \in LowestCommonAncestors(parents, a, b)
    BY <2>1 DEF LowestInv, FoundLowest, Linear
  <2>4. QED BY <2>2, <2>3 DEF ReturnsLowest
<1>5. QED BY <1>2, <1>3, <1>4, PTL
=============================================================================
