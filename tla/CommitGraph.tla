---------------------------- MODULE CommitGraph ----------------------------
(***************************************************************************)
(* The commit graph of clayers-repo (graph.rs).  `par` maps a commit to    *)
(* the sequence of its parents, in the order the commit object lists them: *)
(* a merge commit lists the current branch's tip first.                    *)
(***************************************************************************)
EXTENDS Integers, Sequences, FiniteSets, FiniteSetTheorems, TLAPS

CONSTANT None           \* "no common ancestor"

ParentsOf(par, c) == {par[c][i] : i \in DOMAIN par[c]}

\* A set of commits that contains the parents of its members.
IsHistory(par, S) == \A c \in S : ParentsOf(par, c) \subseteq S

\* The commits reachable from c: what every history with c in it contains.
Ancestors(par, c) ==
  {x \in DOMAIN par :
     \A S \in SUBSET DOMAIN par : (c \in S /\ IsHistory(par, S)) => x \in S}

CommonAncestors(par, a, b) == Ancestors(par, a) \intersect Ancestors(par, b)

\* Common ancestors that no other common ancestor descends from.
LowestCommonAncestors(par, a, b) ==
  {x \in CommonAncestors(par, a, b) :
     \A y \in CommonAncestors(par, a, b) \ {x} : x \notin Ancestors(par, y)}

-----------------------------------------------------------------------------
\* The two sides of the search, and the one opposite.
Sides == {"A", "B"}
Other(side) == IF side = "A" THEN "B" ELSE "A"

\* for p in parents { if ancestors.insert(p) { ... } }
VisitParent(s, side, p) ==
  IF s.result # None \/ p \in s.anc[side] THEN s
  ELSE IF p \in s.anc[Other(side)] THEN [s EXCEPT !.result = p]
  ELSE [s EXCEPT !.anc[side] = @ \union {p}, !.queue[side] = Append(@, p)]

\* One side's turn: pop a commit and visit its parents, in their order.
VisitParents(s, side, ps) ==
  LET visit[i \in 0 .. Len(ps)] ==
        IF i = 0 THEN s ELSE VisitParent(visit[i - 1], side, ps[i])
  IN  visit[Len(ps)]

Turn(par, s, side) ==
  IF s.result # None \/ s.queue[side] = <<>> THEN s
  ELSE LET c == Head(s.queue[side])
           popped == [s EXCEPT !.queue[side] = Tail(@)]
       IN  IF c \in s.anc[Other(side)] THEN [popped EXCEPT !.result = c]
           ELSE VisitParents(popped, side, par[c])

Started(a, b) ==
  [anc |-> [side \in Sides |-> IF side = "A" THEN {a} ELSE {b}],
   queue |-> [side \in Sides |-> IF side = "A" THEN <<a>> ELSE <<b>>],
   result |-> None]

\* common_ancestor: turns alternate until a side meets the other, or both
\* queues are empty.  A side pops a commit at most once, so as many rounds as
\* there are commits are enough.
CommonAncestor(par, a, b) ==
  LET rounds == Cardinality(DOMAIN par)
      round[n \in 0 .. rounds] ==
        IF n = 0 THEN Started(a, b) ELSE Turn(par, Turn(par, round[n - 1], "A"), "B")
  IN  IF a = b THEN a ELSE round[rounds].result

-----------------------------------------------------------------------------
(* What the proofs about searches and repositories need of commit graphs.  *)

\* The parents of a commit are commits.
LEMMA ParentsAreCommits ==
  ASSUME NEW C, NEW par \in [C -> Seq(C)], NEW x \in C
  PROVE  ParentsOf(par, x) \subseteq C
<1>1. par[x] \in Seq(C)
  OBVIOUS
<1>2. QED BY <1>1 DEF ParentsOf

\* A commit is its own ancestor, the ancestors contain their parents, and
\* every history with the commit in it contains them.
LEMMA AncestorsClosed ==
  ASSUME NEW C, NEW par \in [C -> Seq(C)], NEW c \in C
  PROVE  /\ c \in Ancestors(par, c)
         /\ Ancestors(par, c) \subseteq C
         /\ \A x \in Ancestors(par, c) : ParentsOf(par, x) \subseteq Ancestors(par, c)
         /\ \A S \in SUBSET C :
              (c \in S /\ IsHistory(par, S)) => Ancestors(par, c) \subseteq S
<1>1. DOMAIN par = C
  OBVIOUS
<1>2. \A x \in C : ParentsOf(par, x) \subseteq C
  BY ParentsAreCommits
<1>3. \A x \in Ancestors(par, c) : ParentsOf(par, x) \subseteq Ancestors(par, c)
  BY <1>1, <1>2 DEF Ancestors, IsHistory
<1>4. QED BY <1>1, <1>3 DEF Ancestors

\* The ancestors of an ancestor are ancestors.
LEMMA AncestorsTransitive ==
  ASSUME NEW C, NEW par \in [C -> Seq(C)], NEW c \in C, NEW x \in Ancestors(par, c)
  PROVE  x \in C /\ Ancestors(par, x) \subseteq Ancestors(par, c)
<1>1. /\ Ancestors(par, c) \in SUBSET C /\ x \in C
      /\ IsHistory(par, Ancestors(par, c))
  BY AncestorsClosed DEF IsHistory
<1>2. \A S \in SUBSET C : (x \in S /\ IsHistory(par, S)) => Ancestors(par, x) \subseteq S
  BY <1>1, AncestorsClosed
<1>3. QED BY <1>1, <1>2

\* New commits take no ancestor from an old one.
LEMMA AncestorsGrow ==
  ASSUME NEW C, NEW par \in [C -> Seq(C)], NEW D, C \subseteq D, NEW more \in [D -> Seq(D)],
         \A x \in C : more[x] = par[x], NEW c \in C
  PROVE  Ancestors(par, c) \subseteq Ancestors(more, c)
<1> SUFFICES ASSUME NEW x \in Ancestors(par, c),
                    NEW S \in SUBSET D, c \in S, IsHistory(more, S)
             PROVE  x \in S
  BY AncestorsClosed DEF Ancestors
<1>1. S \intersect C \in SUBSET C /\ c \in S \intersect C
  OBVIOUS
<1>2. IsHistory(par, S \intersect C)
  <2>1. ASSUME NEW y \in S \intersect C PROVE ParentsOf(par, y) \subseteq S \intersect C
    <3>1. ParentsOf(par, y) = ParentsOf(more, y)
      BY DEF ParentsOf
    <3>2. ParentsOf(more, y) \subseteq S
      BY DEF IsHistory
    <3>3. ParentsOf(par, y) \subseteq C
      BY ParentsAreCommits
    <3>4. QED BY <3>1, <3>2, <3>3
  <2>2. QED BY <2>1 DEF IsHistory
<1>3. \A T \in SUBSET C : (c \in T /\ IsHistory(par, T)) => Ancestors(par, c) \subseteq T
  BY AncestorsClosed
<1>4. Ancestors(par, c) \subseteq S \intersect C
  BY <1>1, <1>2, <1>3
<1>5. QED BY <1>4

\* Nor do commits that change outside a history.
LEMMA AncestorsKept ==
  ASSUME NEW C, NEW par \in [C -> Seq(C)], NEW more \in [C -> Seq(C)],
         NEW H \in SUBSET C, IsHistory(par, H), \A x \in H : more[x] = par[x], NEW c \in H
  PROVE  Ancestors(par, c) \subseteq Ancestors(more, c)
<1> SUFFICES ASSUME NEW x \in Ancestors(par, c),
                    NEW S \in SUBSET C, c \in S, IsHistory(more, S)
             PROVE  x \in S
  BY AncestorsClosed DEF Ancestors
<1>1. S \intersect H \in SUBSET C /\ c \in S \intersect H
  OBVIOUS
<1>2. IsHistory(par, S \intersect H)
  <2>1. ASSUME NEW y \in S \intersect H PROVE ParentsOf(par, y) \subseteq S \intersect H
    <3>1. ParentsOf(par, y) = ParentsOf(more, y)
      BY DEF ParentsOf
    <3>2. ParentsOf(more, y) \subseteq S /\ ParentsOf(par, y) \subseteq H
      BY DEF IsHistory
    <3>3. QED BY <3>1, <3>2
  <2>2. QED BY <2>1 DEF IsHistory
<1>3. Ancestors(par, c) \subseteq S \intersect H
  BY <1>1, <1>2, AncestorsClosed
<1>4. QED BY <1>3

-----------------------------------------------------------------------------
(* What the search of common_ancestor computes.                            *)

\* Induction over the natural numbers, for a set of them.
LEMMA NatSetInduction ==
  ASSUME NEW X, 0 \in X, \A n \in Nat : n \in X => n + 1 \in X
  PROVE  Nat \subseteq X
<1> SUFFICES ASSUME NEW n \in Nat, n \notin X PROVE FALSE
  OBVIOUS
<1> DEFINE T == {0 .. k : k \in (0 .. n) \ X}
<1>1. ASSUME NEW k \in 0 .. n PROVE 0 .. k \in FiniteSubsetsOf(0 .. n)
  <2>1. IsFiniteSet(0 .. k)
    BY FS_Interval
  <2>2. 0 .. k \in SUBSET (0 .. n)
    OBVIOUS
  <2>3. QED BY <2>1, <2>2 DEF FiniteSubsetsOf
<1>2. T \subseteq FiniteSubsetsOf(0 .. n) /\ T # {}
  <2>1. 0 .. n \in T
    OBVIOUS
  <2>2. QED BY <2>1, <1>1
<1>3. PICK A \in T : \A B \in T : <<B, A>> \notin StrictSubsetOrdering(0 .. n)
  <2> HIDE DEF T
  <2> QED BY ONLY <1>2, WFMin, FS_StrictSubsetOrderingWellFounded
<1>4. PICK m \in (0 .. n) \ X : A = 0 .. m
  OBVIOUS
<1>5. m # 0 /\ m - 1 \in (0 .. n) \ X
  <2>1. m - 1 \in Nat => (m - 1 \in X => m \in X)
    BY <1>4
  <2>2. QED BY <1>4, <2>1
<1>6. 0 .. m - 1 \in T /\ m \notin 0 .. m - 1 /\ 0 .. m - 1 \subseteq 0 .. m
  BY <1>5
<1>7. <<0 .. m - 1, A>> \in StrictSubsetOrdering(0 .. n)
  BY <1>4, <1>5, <1>6 DEF StrictSubsetOrdering
<1>8. QED BY <1>3, <1>6, <1>7

\* VisitParents is the last of a sequence of searches, one per parent.
Visits(v, s, side, ps) ==
  /\ v[0] = s
  /\ \A i \in 1 .. Len(ps) : v[i] = VisitParent(v[i - 1], side, ps[i])
  /\ VisitParents(s, side, ps) = v[Len(ps)]

\* So are the visits of one turn.
LEMMA VisitsExist ==
  ASSUME NEW C, NEW ps \in Seq(C), NEW s, NEW side
  PROVE  \E v : Visits(v, s, side, ps)
<1> DEFINE Is(v, n) ==
             v = [i \in 0 .. n |-> IF i = 0 THEN s ELSE VisitParent(v[i - 1], side, ps[i])]
           X == {n \in Nat : \E v : Is(v, n)}
           visit[i \in 0 .. Len(ps)] ==
             IF i = 0 THEN s ELSE VisitParent(visit[i - 1], side, ps[i])
<1>0. Len(ps) \in Nat
  OBVIOUS
<1>1. 0 \in X
  <2>1. Is([i \in 0 .. 0 |-> s], 0)
    OBVIOUS
  <2>2. QED BY <2>1
<1>2. ASSUME NEW n \in Nat, n \in X PROVE n + 1 \in X
  <2>1. PICK v : Is(v, n)
    BY <1>2
  <2> DEFINE w == [i \in 0 .. n + 1 |->
                     IF i = n + 1 THEN VisitParent(v[n], side, ps[n + 1]) ELSE v[i]]
  <2>2. ASSUME NEW i \in 0 .. n + 1
        PROVE  w[i] = IF i = 0 THEN s ELSE VisitParent(w[i - 1], side, ps[i])
    <3>1. CASE i = n + 1
      BY <3>1
    <3>2. CASE i \in 0 .. n
      BY <3>2, <2>1
    <3>3. QED BY <3>1, <3>2
  <2>3. Is(w, n + 1)
    BY <2>2
  <2> HIDE DEF w, Is
  <2>4. QED BY <2>3
<1>3. PICK v : Is(v, Len(ps))
  <2> HIDE DEF X
  <2>1. Len(ps) \in X
    BY <1>0, <1>1, <1>2, NatSetInduction
  <2>2. QED BY <2>1 DEF X
<1>4. visit = CHOOSE u : Is(u, Len(ps))
  OBVIOUS
<1>5. VisitParents(s, side, ps) = visit[Len(ps)]
  BY DEF VisitParents
<1>6. Is(visit, Len(ps))
  <2> HIDE DEF visit
  <2>1. QED BY <1>3, <1>4
<1> HIDE DEF visit
<1>7. visit[0] = s /\ \A i \in 1 .. Len(ps) : visit[i] = VisitParent(visit[i - 1], side, ps[i])
  BY <1>6, <1>0
<1>8. QED BY <1>5, <1>7 DEF Visits

\* CommonAncestor is what the last of a sequence of rounds has found.
Rounds(r, par, a, b) ==
  /\ r[0] = Started(a, b)
  /\ \A n \in 1 .. Cardinality(DOMAIN par) :
       r[n] = Turn(par, Turn(par, r[n - 1], "A"), "B")
  /\ a # b => CommonAncestor(par, a, b) = r[Cardinality(DOMAIN par)].result

\* The rounds that the recursive definition unfolds to are there.
LEMMA RoundsExist ==
  ASSUME NEW C, IsFiniteSet(C), NEW par \in [C -> Seq(C)], NEW a, NEW b
  PROVE  \E r : Rounds(r, par, a, b)
<1> DEFINE Round(s) == Turn(par, Turn(par, s, "A"), "B")
           most == Cardinality(DOMAIN par)
           Is(v, n) ==
             v = [i \in 0 .. n |-> IF i = 0 THEN Started(a, b) ELSE Round(v[i - 1])]
           X == {n \in Nat : \E v : Is(v, n)}
           round[n \in 0 .. most] ==
             IF n = 0 THEN Started(a, b) ELSE Turn(par, Turn(par, round[n - 1], "A"), "B")
<1>0. most \in Nat /\ DOMAIN par = C
  BY FS_CardinalityType
<1>1. 0 \in X
  <2>1. Is([i \in 0 .. 0 |-> Started(a, b)], 0)
    OBVIOUS
  <2>2. QED BY <2>1
<1>2. ASSUME NEW n \in Nat, n \in X PROVE n + 1 \in X
  <2>1. PICK v : Is(v, n)
    BY <1>2
  <2> DEFINE w == [i \in 0 .. n + 1 |-> IF i = n + 1 THEN Round(v[n]) ELSE v[i]]
  <2>2. ASSUME NEW i \in 0 .. n + 1
        PROVE  w[i] = IF i = 0 THEN Started(a, b) ELSE Round(w[i - 1])
    <3>1. CASE i = n + 1
      BY <3>1
    <3>2. CASE i \in 0 .. n
      BY <3>2, <2>1
    <3>3. QED BY <3>1, <3>2
  <2>3. Is(w, n + 1)
    BY <2>2
  <2> HIDE DEF w, Is
  <2>4. QED BY <2>3
<1>3. PICK v : Is(v, most)
  <2> HIDE DEF X, most
  <2>1. most \in X
    BY <1>0, <1>1, <1>2, NatSetInduction
  <2>2. QED BY <2>1 DEF X
<1>4. round = CHOOSE u : Is(u, most)
  OBVIOUS
<1>5. a # b => CommonAncestor(par, a, b) = round[most].result
  BY DEF CommonAncestor
<1>6. Is(round, most)
  <2> HIDE DEF round
  <2>1. QED BY <1>3, <1>4
<1> HIDE DEF round
<1>7. /\ round[0] = Started(a, b)
      /\ \A n \in 1 .. most : round[n] = Turn(par, Turn(par, round[n - 1], "A"), "B")
  BY <1>6, <1>0
<1>8. QED BY <1>5, <1>7 DEF Rounds

\* What a search in state s knows: each side holds ancestors of its own tip,
\* and what was found is an ancestor of both.
TipOf(a, b, side) == IF side = "A" THEN a ELSE b
Searches(C) ==
  [anc : [Sides -> SUBSET C], queue : [Sides -> Seq(C)], result : C \union {None}]
SearchKnows(par, a, b, s) ==
  /\ s \in Searches(DOMAIN par)
  /\ \A side \in Sides :
       /\ s.anc[side] \subseteq Ancestors(par, TipOf(a, b, side))
       /\ \A i \in DOMAIN s.queue[side] : s.queue[side][i] \in s.anc[side]
  /\ s.result # None => s.result \in CommonAncestors(par, a, b)

\* Visiting an ancestor of a side's tip.
LEMMA VisitKnows ==
  ASSUME NEW C, NEW par \in [C -> Seq(C)], NEW a \in C, NEW b \in C,
         NEW s, SearchKnows(par, a, b, s),
         NEW side \in Sides, NEW p \in Ancestors(par, TipOf(a, b, side))
  PROVE  SearchKnows(par, a, b, VisitParent(s, side, p))
<1>1. /\ DOMAIN par = C /\ s \in Searches(C) /\ TipOf(a, b, side) \in C
      /\ Other(side) \in Sides /\ Other(side) # side
  BY DEF SearchKnows, TipOf, Other, Sides
<1>2. p \in C
  BY <1>1, AncestorsClosed
<1>3. CASE s.result # None \/ p \in s.anc[side]
  BY <1>3 DEF VisitParent
<1>4. CASE s.result = None /\ p \in s.anc[Other(side)]
  <2> DEFINE t == [s EXCEPT !.result = p]
  <2>1. CASE p \in s.anc[side]
    BY <2>1, <1>3
  <2>2. CASE p \notin s.anc[side]
    <3>1. VisitParent(s, side, p) = t
      BY <2>2, <1>4 DEF VisitParent
    <3>2. t \in Searches(C) /\ t.anc = s.anc /\ t.queue = s.queue /\ t.result = p
      BY <1>1, <1>2 DEF Searches
    <3>3. p \in Ancestors(par, TipOf(a, b, Other(side)))
      BY <1>1, <1>4 DEF SearchKnows
    <3>4. p \in CommonAncestors(par, a, b)
      BY <3>3 DEF CommonAncestors, TipOf, Other, Sides
    <3> HIDE DEF t
    <3>5. SearchKnows(par, a, b, t)
      BY <1>1, <3>2, <3>4 DEF SearchKnows
    <3>6. QED BY <3>1, <3>5
  <2>3. QED BY <2>1, <2>2
<1>5. CASE s.result = None /\ p \notin s.anc[side] /\ p \notin s.anc[Other(side)]
  <2> DEFINE q == s.queue[side]
             t == [s EXCEPT !.anc[side] = @ \union {p}, !.queue[side] = Append(@, p)]
  <2>1. VisitParent(s, side, p) = t
    BY <1>5 DEF VisitParent
  <2>2. q \in Seq(C) /\ Append(q, p) \in Seq(C)
    BY <1>1, <1>2 DEF Searches
  <2>3. /\ t.anc = [s.anc EXCEPT ![side] = @ \union {p}]
        /\ t.queue = [s.queue EXCEPT ![side] = Append(q, p)]
        /\ t.result = s.result
        /\ s.anc \in [Sides -> SUBSET C] /\ s.queue \in [Sides -> Seq(C)]
    BY <1>1 DEF Searches
  <2>4. /\ t.anc \in [Sides -> SUBSET C] /\ t.queue \in [Sides -> Seq(C)]
        /\ t.anc[side] = s.anc[side] \union {p} /\ t.queue[side] = Append(q, p)
        /\ \A x \in Sides \ {side} : t.anc[x] = s.anc[x] /\ t.queue[x] = s.queue[x]
    BY <2>2, <2>3, <1>2
  <2>5. t \in Searches(C)
    BY <1>1, <1>2, <2>2 DEF Searches
  <2>6. \A i \in DOMAIN Append(q, p) : Append(q, p)[i] \in s.anc[side] \union {p}
    <3>1. /\ DOMAIN q = 1 .. Len(q) /\ DOMAIN Append(q, p) = 1 .. Len(q) + 1
          /\ \A i \in 1 .. Len(q) : Append(q, p)[i] = q[i]
          /\ Append(q, p)[Len(q) + 1] = p
      BY <2>2
    <3>2. \A i \in DOMAIN q : q[i] \in s.anc[side]
      BY DEF SearchKnows
    <3>3. QED BY <3>1, <3>2
  <2> HIDE DEF t, q
  <2>7. SearchKnows(par, a, b, t)
    <3>1. ASSUME NEW x \in Sides
          PROVE  /\ t.anc[x] \subseteq Ancestors(par, TipOf(a, b, x))
                 /\ \A i \in DOMAIN t.queue[x] : t.queue[x][i] \in t.anc[x]
      <4>1. CASE x = side
        BY <4>1, <2>4, <2>6 DEF SearchKnows
      <4>2. CASE x # side
        BY <4>2, <2>4 DEF SearchKnows
      <4>3. QED BY <4>1, <4>2
    <3>2. QED BY <1>1, <1>5, <2>3, <2>5, <3>1 DEF SearchKnows
  <2>8. QED BY <2>1, <2>7
<1>6. QED BY <1>3, <1>4, <1>5

\* Visiting the parents of an ancestor of a side's tip.
LEMMA VisitsKnow ==
  ASSUME NEW C, NEW par \in [C -> Seq(C)], NEW a \in C, NEW b \in C,
         NEW s, SearchKnows(par, a, b, s),
         NEW side \in Sides, NEW c \in Ancestors(par, TipOf(a, b, side))
  PROVE  SearchKnows(par, a, b, VisitParents(s, side, par[c]))
<1> DEFINE ps == par[c]
<1>1. TipOf(a, b, side) \in C
  BY DEF TipOf
<1>2. c \in C /\ ps \in Seq(C) /\ Len(ps) \in Nat /\ DOMAIN ps = 1 .. Len(ps)
  <2>1. c \in C
    BY <1>1, AncestorsClosed
  <2>2. QED BY <2>1
<1>3. \A i \in 1 .. Len(ps) : ps[i] \in Ancestors(par, TipOf(a, b, side))
  <2>1. ParentsOf(par, c) \subseteq Ancestors(par, TipOf(a, b, side))
    BY <1>1, AncestorsClosed
  <2>2. QED BY <1>2, <2>1 DEF ParentsOf
<1> HIDE DEF ps
<1>4. PICK v : Visits(v, s, side, ps)
  BY <1>2, VisitsExist
<1> DEFINE X == {i \in Nat : i <= Len(ps) => SearchKnows(par, a, b, v[i])}
<1>5. 0 \in X
  BY <1>4 DEF Visits
<1>6. ASSUME NEW i \in Nat, i \in X PROVE i + 1 \in X
  <2>1. SUFFICES ASSUME i + 1 <= Len(ps) PROVE SearchKnows(par, a, b, v[i + 1])
    OBVIOUS
  <2>2. /\ SearchKnows(par, a, b, v[i])
        /\ v[i + 1] = VisitParent(v[i], side, ps[i + 1])
        /\ ps[i + 1] \in Ancestors(par, TipOf(a, b, side))
    <3>1. i + 1 \in 1 .. Len(ps) /\ (i + 1) - 1 = i /\ i <= Len(ps)
      BY <1>2, <2>1
    <3>2. v[i + 1] = VisitParent(v[(i + 1) - 1], side, ps[i + 1])
      BY <1>4, <3>1 DEF Visits
    <3>3. QED BY <1>3, <1>6, <3>1, <3>2
  <2>3. QED BY <2>2, VisitKnows
<1>7. Len(ps) \in X
  <2> HIDE DEF X
  <2>1. QED BY <1>2, <1>5, <1>6, NatSetInduction
<1>8. QED BY <1>2, <1>4, <1>7 DEF ps, Visits

\* One side's turn.
LEMMA TurnKnows ==
  ASSUME NEW C, NEW par \in [C -> Seq(C)], NEW a \in C, NEW b \in C,
         NEW s, SearchKnows(par, a, b, s), NEW side \in Sides
  PROVE  SearchKnows(par, a, b, Turn(par, s, side))
<1> DEFINE q == s.queue[side]
           c == Head(q)
           popped == [s EXCEPT !.queue[side] = Tail(@)]
<1>1. /\ DOMAIN par = C /\ s \in Searches(C) /\ q \in Seq(C)
      /\ \A i \in DOMAIN q : q[i] \in s.anc[side]
      /\ s.anc[side] \subseteq Ancestors(par, TipOf(a, b, side))
  BY DEF SearchKnows, Searches
<1>2. CASE s.result # None \/ q = <<>>
  BY <1>2 DEF Turn
<1>3. CASE s.result = None /\ q # <<>>
  <2>1. /\ Tail(q) \in Seq(C) /\ 1 \in DOMAIN q /\ c = q[1]
        /\ \A i \in DOMAIN Tail(q) : i + 1 \in DOMAIN q /\ Tail(q)[i] = q[i + 1]
    BY <1>1, <1>3
  <2>2. c \in s.anc[side] /\ c \in Ancestors(par, TipOf(a, b, side)) /\ c \in C
    <3>1. s.anc[side] \in SUBSET C
      BY <1>1 DEF Searches
    <3>2. QED BY <1>1, <2>1, <3>1
  <2>3. /\ popped.anc = s.anc /\ popped.result = None
        /\ popped.queue = [s.queue EXCEPT ![side] = Tail(q)]
        /\ s.queue \in [Sides -> Seq(C)]
    BY <1>1, <1>3 DEF Searches
  <2>4. popped \in Searches(C)
    BY <1>1, <2>1 DEF Searches
  <2> HIDE DEF q, c
  <2>5. /\ popped.queue[side] = Tail(q)
        /\ \A x \in Sides \ {side} : popped.queue[x] = s.queue[x]
    BY <2>3
  <2> HIDE DEF popped
  <2>6. SearchKnows(par, a, b, popped)
    <3>1. ASSUME NEW x \in Sides
          PROVE  /\ popped.anc[x] \subseteq Ancestors(par, TipOf(a, b, x))
                 /\ \A i \in DOMAIN popped.queue[x] : popped.queue[x][i] \in popped.anc[x]
      <4>1. CASE x = side
        <5>1. \A i \in DOMAIN Tail(q) : Tail(q)[i] \in s.anc[side]
          BY <1>1, <2>1
        <5>2. QED BY <4>1, <2>3, <2>5, <5>1, <1>1
      <4>2. CASE x # side
        BY <4>2, <2>3, <2>5 DEF SearchKnows
      <4>3. QED BY <4>1, <4>2
    <3>2. QED BY <1>1, <2>3, <2>4, <3>1 DEF SearchKnows
  <2>7. CASE c \in s.anc[Other(side)]
    <3> DEFINE t == [popped EXCEPT !.result = c]
    <3>1. Turn(par, s, side) = t
      BY <1>3, <2>7 DEF Turn, popped, q, c
    <3>2. t \in Searches(C) /\ t.anc = popped.anc /\ t.queue = popped.queue /\ t.result = c
      BY <2>2, <2>4 DEF Searches
    <3>3. c \in Ancestors(par, TipOf(a, b, Other(side)))
      BY <2>7 DEF SearchKnows, Other, Sides
    <3>4. c \in CommonAncestors(par, a, b)
      BY <2>2, <3>3 DEF CommonAncestors, TipOf, Other, Sides
    <3> HIDE DEF t
    <3>5. SearchKnows(par, a, b, t)
      BY <1>1, <2>6, <3>2, <3>4 DEF SearchKnows
    <3>6. QED BY <3>1, <3>5
  <2>8. CASE c \notin s.anc[Other(side)]
    <3>1. Turn(par, s, side) = VisitParents(popped, side, par[c])
      BY <1>3, <2>8 DEF Turn, popped, q, c
    <3>2. QED BY <2>2, <2>6, <3>1, VisitsKnow
  <2>9. QED BY <2>7, <2>8
<1>4. QED BY <1>2, <1>3

\* What common_ancestor finds is an ancestor of both commits.
LEMMA CommonAncestorIsCommon ==
  ASSUME NEW C, IsFiniteSet(C), None \notin C, NEW par \in [C -> Seq(C)],
         NEW a \in C, NEW b \in C, CommonAncestor(par, a, b) # None
  PROVE  CommonAncestor(par, a, b) \in CommonAncestors(par, a, b)
<1>1. CASE a = b
  <2>1. CommonAncestor(par, a, b) = a
    BY <1>1 DEF CommonAncestor
  <2>2. QED BY <1>1, <2>1, AncestorsClosed DEF CommonAncestors
<1>2. CASE a # b
  <2> DEFINE most == Cardinality(DOMAIN par)
  <2>0. most \in Nat
    BY FS_CardinalityType
  <2>r. PICK r : Rounds(r, par, a, b)
    BY RoundsExist
  <2>1. /\ r[0] = Started(a, b)
        /\ \A n \in 1 .. most : r[n] = Turn(par, Turn(par, r[n - 1], "A"), "B")
        /\ a # b => CommonAncestor(par, a, b) = r[most].result
    BY <2>r DEF Rounds
  <2> HIDE DEF most
  <2>2. SearchKnows(par, a, b, r[0])
    <3>1. /\ Started(a, b) \in Searches(C) /\ Started(a, b).result = None
          /\ \A side \in Sides : /\ Started(a, b).anc[side] = {TipOf(a, b, side)}
                                 /\ Started(a, b).queue[side] = <<TipOf(a, b, side)>>
      BY DEF Started, Searches, TipOf, Sides
    <3>2. \A side \in Sides : TipOf(a, b, side) \in Ancestors(par, TipOf(a, b, side))
      BY AncestorsClosed DEF TipOf
    <3>3. QED BY <2>1, <3>1, <3>2 DEF SearchKnows
  <2> DEFINE X == {n \in Nat : n <= most => SearchKnows(par, a, b, r[n])}
  <2>3. 0 \in X
    BY <2>2
  <2>4. ASSUME NEW n \in Nat, n \in X PROVE n + 1 \in X
    <3>1. SUFFICES ASSUME n + 1 <= most PROVE SearchKnows(par, a, b, r[n + 1])
      OBVIOUS
    <3>2. n + 1 \in 1 .. most /\ (n + 1) - 1 = n /\ n <= most
      BY <2>0, <3>1
    <3>3. r[n + 1] = Turn(par, Turn(par, r[n], "A"), "B")
      BY <2>1, <3>2
    <3>4. SearchKnows(par, a, b, Turn(par, r[n], "A"))
      BY <2>4, <3>2, TurnKnows DEF Sides
    <3>5. SearchKnows(par, a, b, Turn(par, Turn(par, r[n], "A"), "B"))
      BY <3>4, TurnKnows DEF Sides
    <3>6. QED BY <3>3, <3>5
  <2>5. most \in X
    <3> HIDE DEF X
    <3>1. QED BY <2>0, <2>3, <2>4, NatSetInduction
  <2>6. QED BY <1>2, <2>0, <2>1, <2>5 DEF SearchKnows
<1>3. QED BY <1>1, <1>2
=============================================================================
