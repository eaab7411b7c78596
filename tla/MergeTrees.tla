----------------------------- MODULE MergeTrees -----------------------------
(***************************************************************************)
(* The three-way merge (merge.rs).  merge_trees visits the union of the    *)
(* paths of three trees in the order of a hash set; each path is agreed on *)
(* or given to the strategy the policy has for it, and reported in at most *)
(* one list.  The automatic strategy merges the elements of the documents. *)
(* With it go the structural diff of two nodes (diff.rs) and the           *)
(* divergence markers (conflict.rs).  A node stands for its own content    *)
(* hash: equal nodes are nodes with equal hashes.                          *)
(***************************************************************************)
EXTENDS Integers, SequencesExt

CONSTANTS None, Paths,
          Workloads,    \* the merges looked at: sets of trees and of policies
          Conflict,     \* the merge of nodes that cannot be merged
          Divergence,   \* the name repo:divergence
          IdAttr        \* the attribute `id` (or xml:id)

-----------------------------------------------------------------------------
(* The file table: what becomes of one path that holds document a in the   *)
(* common ancestor, o on our side and t on theirs.  None stands for "the   *)
(* tree has no such path".                                                 *)

Strategies == {"Ours", "Theirs", "Manual", "AutoMerge"}

\* Mutant of Conflicting: only two contents conflict, a deletion never does.
ConflictingContents(a, o, t) == None \notin {o, t} /\ o # t /\ t # a /\ o # a

\* Both sides changed the path, and not to the same content.
Conflicting(a, o, t) == o # t /\ t # a /\ o # a

\* A path on which the sides do not conflict follows the side that changed it.
Agreed(a, o, t) == IF t = a THEN o ELSE IF o = a THEN t ELSE o

OneSideDeleted(a, o, t) == a # None /\ (o = None \/ t = None)

\* Mutant of Version: the deleted side is handed over as it is.
VersionDeleted(a, side) == side

\* A deleted side is handed to the strategy as the ancestor's document.
Version(a, side) == IF side = None THEN a ELSE side

\* MergeStrategy::resolve: the document to use, None for a divergence.
\* `merged` is what the element-level merge makes of the three documents.
Resolve(strategy, a, o, t, merged) ==
  IF OneSideDeleted(a, o, t) THEN None
  ELSE CASE strategy = "Ours"      -> o
         [] strategy = "Theirs"    -> t
         [] strategy = "Manual"    -> None
         [] strategy = "AutoMerge" -> IF a = None THEN None ELSE merged

\* The document at the path in the merged tree; ours stays where it is when
\* the two sides diverge.
MergedFile(strategy, a, o, t, merged) ==
  IF ~Conflicting(a, o, t) THEN Agreed(a, o, t)
  ELSE IF Resolve(strategy, a, o, t, merged) # None THEN Resolve(strategy, a, o, t, merged)
  ELSE Version(a, o)

-----------------------------------------------------------------------------
\* An element has a name, attributes (None: not there) and children; any
\* other node is its text.
Element(name, attrs, children) ==
  [kind |-> "element", name |-> name, attrs |-> attrs, children |-> children]
Text(value) == [kind |-> "text", value |-> value]
IsElement(n) == n.kind = "element"

-----------------------------------------------------------------------------
\* key_children: an element with an id is known by it, any other node by its
\* occurrence among the like.
HasId(n) == IsElement(n) /\ n.attrs[IdAttr] # None
Like(m, n) == /\ m.kind = n.kind /\ ~HasId(m)
              /\ IsElement(n) => m.name = n.name

\* Mutant of ChildKey: ids are not looked at.
ChildKeyByPosition(children, i) ==
  LET n == children[i]
  IN  <<n.kind, IF IsElement(n) THEN n.name ELSE None,
        Cardinality({j \in 1 .. (i - 1) : Like(children[j], n)})>>

ChildKey(children, i) ==
  LET n == children[i]
  IN  IF HasId(n) THEN <<"id", n.name, n.attrs[IdAttr]>>
      ELSE <<n.kind, IF IsElement(n) THEN n.name ELSE None,
             Cardinality({j \in 1 .. (i - 1) : Like(children[j], n)})>>

Keys(children) == {ChildKey(children, i) : i \in DOMAIN children}

\* The map a key list is collected into keeps the last child of a key.
ChildAt(children, key) ==
  IF key \notin Keys(children) THEN None
  ELSE children[CHOOSE i \in DOMAIN children :
                  /\ ChildKey(children, i) = key
                  /\ \A j \in DOMAIN children : ChildKey(children, j) = key => j <= i]

-----------------------------------------------------------------------------
\* merge_attributes, one attribute: the three-way rule on values.
MergeAttribute(a, o, t) ==
  IF o = t \/ t = a THEN o ELSE IF o = a THEN t ELSE Conflict

MergeAttributes(a, o, t) == [n \in DOMAIN o |-> MergeAttribute(a[n], o[n], t[n])]

\* What the merge makes of one child key, as a sequence of at most one node.
RECURSIVE MergeNodes(_, _, _)
\* Mutant of MergeChild: what theirs deleted goes, changed or not.
MergeChildDeletes(a, o, t) ==
  CASE o = t                                  -> <<o>>
    [] o # t /\ t = None /\ a # None          -> <<>>
    [] o # t /\ t = a                         -> IF o = None THEN <<>> ELSE <<o>>
    [] o # t /\ o = a                         -> IF t = None THEN <<>> ELSE <<t>>
    [] o # t /\ t # a /\ o # a /\ None \in {a, o, t} /\ t # None -> <<Conflict>>
    [] OTHER                                  -> <<MergeNodes(a, o, t)>>

MergeChild(a, o, t) ==
  CASE o = t                                  -> <<o>>
    [] o # t /\ t = a                         -> IF o = None THEN <<>> ELSE <<o>>
    [] o # t /\ o = a                         -> IF t = None THEN <<>> ELSE <<t>>
    [] o # t /\ t # a /\ o # a /\ None \in {a, o, t} -> <<Conflict>>
    [] OTHER                                  -> <<MergeNodes(a, o, t)>>

\* Ours' order, then the keys only theirs has.
MergeChildren(a, o, t) ==
  LET oursPart == [i \in DOMAIN o |->
        LET k == ChildKey(o, i) IN MergeChild(ChildAt(a, k), ChildAt(o, k), ChildAt(t, k))]
      theirsPart == [i \in DOMAIN t |->
        LET k == ChildKey(t, i)
        IN  IF k \in Keys(o) THEN <<>> ELSE MergeChild(ChildAt(a, k), None, ChildAt(t, k))]
  IN  FlattenSeq(oursPart \o theirsPart)

\* merge_elements: the merged node, or Conflict.
MergeNodes(a, o, t) ==
  IF o = t THEN o
  ELSE IF o = a THEN t
  ELSE IF t = a THEN o
  ELSE IF ~(IsElement(a) /\ IsElement(o) /\ IsElement(t)) \/ o.name # a.name \/ t.name # a.name
  THEN Conflict
  ELSE LET attrs    == MergeAttributes(a.attrs, o.attrs, t.attrs)
           children == MergeChildren(a.children, o.children, t.children)
       IN  IF Conflict \in {attrs[n] : n \in DOMAIN attrs} \union ToSet(children) THEN Conflict
           ELSE Element(o.name, attrs, children)

\* merge_documents: None asks for a divergence.
MergeDocuments(a, o, t) ==
  LET merged == MergeNodes(a, o, t) IN IF merged = Conflict THEN None ELSE merged

-----------------------------------------------------------------------------
\* diff: attributes by name, children by position, equal hashes skipped.
AttributeChanges(a, b) ==
  {[node |-> b, attr |-> n, old |-> a.attrs[n], new |-> b.attrs[n]] :
     n \in {m \in DOMAIN a.attrs : a.attrs[m] # b.attrs[m]}}

RECURSIVE Diff(_, _)
\* Mutant of ChildChanges: the longer list's tail is not looked at.
ChildChangesCommon(a, b) ==
  {[before |-> a.children[i], after |-> b.children[i], at |-> i] :
     i \in {j \in DOMAIN a.children \intersect DOMAIN b.children : a.children[j] # b.children[j]}}

ChildChanges(a, b) ==
  LET ca == a.children
      cb == b.children
      both == DOMAIN ca \intersect DOMAIN cb
  IN  {[before |-> ca[i], after |-> cb[i], at |-> i, inner |-> Diff(ca[i], cb[i])] :
         i \in {j \in both : ca[j] # cb[j]}}
      \union {[removed |-> ca[i], at |-> i] : i \in DOMAIN ca \ both}
      \union {[added |-> cb[i], at |-> i] : i \in DOMAIN cb \ both}

Diff(a, b) ==
  IF a = b THEN {}
  ELSE IF IsElement(a) /\ IsElement(b) THEN AttributeChanges(a, b) \union ChildChanges(a, b)
  ELSE IF ~IsElement(a) /\ ~IsElement(b) THEN {[oldText |-> a, newText |-> b]}
  ELSE {[removed |-> a, at |-> 0], [added |-> b, at |-> 0]}

-----------------------------------------------------------------------------
\* generate_divergence_xml (conflict.rs), and the scan that finds such elements again.
DivergenceDocument(path, a, o, t) ==
  Element(Divergence, [n \in {IdAttr, "path"} |-> IF n = "path" THEN path ELSE None],
          <<Element("ancestor", [n \in {IdAttr} |-> None], <<a>>),
            Element("side", [n \in {IdAttr} |-> None], <<o>>),
            Element("side", [n \in {IdAttr} |-> None], <<t>>)>>)

RECURSIVE ListConflicts(_)
ListConflicts(n) ==
  IF ~IsElement(n) THEN {}
  ELSE (IF n.name = Divergence THEN {n} ELSE {})
       \union UNION {ListConflicts(n.children[i]) : i \in DOMAIN n.children}

HasConflicts(n) == ListConflicts(n) # {}
-----------------------------------------------------------------------------
VARIABLES input, todo,
          entries,       \* the merged tree
          sidecars,      \* the divergence documents beside it
          autoMerged, conflicts, oursOnly, theirsOnly

vars == <<input, todo, entries, sidecars, autoMerged, conflicts, oursOnly, theirsOnly>>
lists == <<autoMerged, conflicts, oursOnly, theirsOnly>>

A(p) == input.base[p]
O(p) == input.ours[p]
T(p) == input.theirs[p]

\* strategy_for: the first override that matches, else the default.
StrategyFor(p) ==
  LET matches == SelectSeq(input.policy.overrides, LAMBDA o : p \in o.paths)
  IN  IF matches = <<>> THEN input.policy.default ELSE Head(matches).strategy

Init ==
  /\ \E w \in Workloads :
       input \in [base : w.trees, ours : w.trees, theirs : w.trees, policy : w.policies]
  /\ todo = {p \in Paths : {A(p), O(p), T(p)} # {None}}
  /\ entries = [p \in Paths |-> None]
  /\ sidecars = {} /\ autoMerged = {} /\ conflicts = {} /\ oursOnly = {} /\ theirsOnly = {}

\* Mutant of Agree: a path both sides changed alike is reported as ours.
AgreeOurs(p) ==
  /\ p \in todo /\ ~Conflicting(A(p), O(p), T(p))
  /\ todo' = todo \ {p}
  /\ entries' = [entries EXCEPT ![p] = Agreed(A(p), O(p), T(p))]
  /\ oursOnly' = IF O(p) # A(p) THEN oursOnly \union {p} ELSE oursOnly
  /\ theirsOnly' = IF T(p) # A(p) THEN theirsOnly \union {p} ELSE theirsOnly
  /\ UNCHANGED <<input, sidecars, autoMerged, conflicts>>

\* No conflict: the side that changed wins and is reported.
Agree(p) ==
  /\ p \in todo /\ ~Conflicting(A(p), O(p), T(p))
  /\ todo' = todo \ {p}
  /\ entries' = [entries EXCEPT ![p] = Agreed(A(p), O(p), T(p))]
  /\ oursOnly' = IF O(p) # T(p) /\ T(p) = A(p) THEN oursOnly \union {p} ELSE oursOnly
  /\ theirsOnly' = IF O(p) # T(p) /\ O(p) = A(p) THEN theirsOnly \union {p} ELSE theirsOnly
  /\ autoMerged' = IF A(p) = None /\ O(p) = T(p) THEN autoMerged \union {p} ELSE autoMerged
  /\ UNCHANGED <<input, sidecars, conflicts>>

\* Mutant of Settle: without an ancestor there is no divergence document.
SettleKnownOnly(p) ==
  LET o == Version(A(p), O(p))
      t == Version(A(p), T(p))
      resolved == Resolve(StrategyFor(p), A(p), O(p), T(p), MergeDocuments(A(p), o, t))
  IN  /\ p \in todo /\ Conflicting(A(p), O(p), T(p))
      /\ todo' = todo \ {p}
      /\ IF resolved # None
         THEN /\ entries' = [entries EXCEPT ![p] = resolved]
              /\ autoMerged' = autoMerged \union {p}
              /\ UNCHANGED <<sidecars, conflicts>>
         ELSE /\ entries' = [entries EXCEPT ![p] = o]
              /\ sidecars' = IF A(p) = None THEN sidecars ELSE
                   sidecars \union {[path |-> p, ancestor |-> A(p), ours |-> o, theirs |-> t]}
              /\ conflicts' = conflicts \union {p}
              /\ UNCHANGED autoMerged
      /\ UNCHANGED <<input, oursOnly, theirsOnly>>

\* resolve_file_conflict: the strategy's document, or ours with a sidecar.
Settle(p) ==
  LET o == Version(A(p), O(p))
      t == Version(A(p), T(p))
      resolved == Resolve(StrategyFor(p), A(p), O(p), T(p), MergeDocuments(A(p), o, t))
  IN  /\ p \in todo /\ Conflicting(A(p), O(p), T(p))
      /\ todo' = todo \ {p}
      /\ IF resolved # None
         THEN /\ entries' = [entries EXCEPT ![p] = resolved]
              /\ autoMerged' = autoMerged \union {p}
              /\ UNCHANGED <<sidecars, conflicts>>
         ELSE /\ entries' = [entries EXCEPT ![p] = o]
              /\ sidecars' = sidecars \union {[path |-> p, ancestor |-> A(p), ours |-> o, theirs |-> t]}
              /\ conflicts' = conflicts \union {p}
              /\ UNCHANGED autoMerged
      /\ UNCHANGED <<input, oursOnly, theirsOnly>>

Next == \E p \in Paths : Agree(p) \/ Settle(p)

Spec == Init /\ [][Next]_vars
-----------------------------------------------------------------------------
(* Properties *)

Done == todo = {}

TypeOK ==
  /\ todo \subseteq Paths
  /\ \A p \in Paths : p \in todo => entries[p] = None
  /\ \A s \in sidecars : s.path \in conflicts /\ None \notin {s.ours, s.theirs}

\* A version that a side changed is not lost without a trace: it is the
\* merged file, or in a divergence document, or a strategy merged it or was
\* told to drop it.
NoSilentLoss ==
  \A p \in Paths \ todo : \A v \in {O(p), T(p)} \ {A(p), None} :
    \/ entries[p] = v
    \/ \E s \in sidecars : s.path = p /\ v \in {s.ours, s.theirs}
    \/ p \in autoMerged /\ StrategyFor(p) # "Manual"
                        /\ (StrategyFor(p) = "Ours" => v = T(p))
                        /\ (StrategyFor(p) = "Theirs" => v = O(p))

\* A path leaves the tree only if a side deleted it and the other did not
\* change it: a strategy decides about contents, never about a deletion.
DeletionNeedsAgreement ==
  \A p \in Paths \ todo :
    entries[p] = None => O(p) \in {A(p), None} /\ T(p) \in {A(p), None}

\* The report: a path is in at most one of the four lists, and it is in none
\* only when both sides left it alone, or did to it the same thing.
ReportedOnce ==
  /\ \A p \in Paths : Cardinality({i \in 1 .. 4 : p \in lists[i]}) <= 1
  /\ \A p \in Paths \ todo :
       (p \notin UNION {lists[i] : i \in 1 .. 4}) <=> (O(p) = T(p) /\ (A(p) = None => O(p) = None))

\* A merge neither conflicts nor succeeds because of the side one is on.
ConflictsAreMutual ==
  \A p \in Paths \ todo :
    p \in conflicts <=>
      /\ Conflicting(A(p), T(p), O(p))
      /\ Resolve(StrategyFor(p), A(p), T(p), O(p),
                 MergeDocuments(A(p), Version(A(p), T(p)), Version(A(p), O(p)))) = None

WithId(n, id) == {i \in DOMAIN n.children : IsElement(n.children[i]) /\ n.children[i].attrs.id = id}
IdsOf(n) == {id \in {"x", "y"} : WithId(n, id) # {}}
IdsUnique(n) == \A id \in IdsOf(n) : Cardinality(WithId(n, id)) = 1
ChildWithId(n, id) == {n.children[i] : i \in WithId(n, id)}

AutoMerged(p) == p \in autoMerged /\ StrategyFor(p) = "AutoMerge" /\ A(p) # None

\* Where ids are unique, an element-level merge changes, adds or deletes an
\* element with an id exactly as the one side that touched it did, wherever
\* the other side moved it or what it inserted before it.
OneSidedChangeWins ==
  \A p \in Paths :
    AutoMerged(p) /\ (\A n \in {A(p), O(p), T(p)} : IdsUnique(n)) =>
      \A id \in UNION {IdsOf(n) : n \in {A(p), O(p), T(p)}} :
        LET at(n) == ChildWithId(n, id)
        IN  /\ at(O(p)) = at(A(p)) => at(entries[p]) = at(T(p))
            /\ at(T(p)) = at(A(p)) => at(entries[p]) = at(O(p))

\* Every divergence can be found again in its document, with its path, and no
\* merged document contains one; diff is empty exactly between equal nodes.
DivergencesFound ==
  /\ \A s \in sidecars :
       LET d == DivergenceDocument(s.path, s.ancestor, s.ours, s.theirs)
       IN  s.ancestor # None => ListConflicts(d) = {d}
  /\ \A p \in Paths \ todo : entries[p] # None => ~HasConflicts(entries[p])
  /\ \A p \in Paths : O(p) # None /\ T(p) # None => (Diff(O(p), T(p)) = {} <=> O(p) = T(p))
=============================================================================
