------------------------------ MODULE XmlDiff -------------------------------
(***************************************************************************)
(* diff_xml of clayers-xml/src/diff.rs, the comparison behind the diff     *)
(* command: two documents are walked together, children matched by key,    *)
(* and the changes listed in document order with the path of each. A       *)
(* matched child is descended into, so the walk's recursion is a stack of  *)
(* what is still to be compared. Names of elements and attributes, texts   *)
(* and ids are values; what an added or removed element contains is not    *)
(* written out.                                                            *)
(***************************************************************************)
EXTENDS Naturals, Sequences, SequencesExt, FiniteSets

CONSTANTS
  None,
  Blank,         \* a text that is empty once trimmed
  IdAttr,        \* the attribute "id"
  Pairs          \* the pairs of root elements to compare

VARIABLES
  old, new,      \* the root elements
  todo,          \* a stack of comparisons, the next one first
  changes        \* the changes so far

vars == <<old, new, todo, changes>>

Element(name, attrs, children) ==
  [kind |-> "element", name |-> name, attrs |-> attrs, children |-> children]
Leaf(kind, value) == [kind |-> kind, value |-> value]
IsElement(n) == n.kind = "element"
HasId(n) == IdAttr \in DOMAIN n.attrs

-----------------------------------------------------------------------------
(* Keys and paths. A segment of a path is a name, with an id or a position   *)
(* among the siblings of that name where there are several.                  *)

\* Of the children of a node before the i-th, those that share its counter.
Counted(children, i) ==
  {j \in 1 .. i - 1 :
     /\ children[j].kind = children[i].kind
     /\ IsElement(children[i]) => ~HasId(children[j]) /\ children[j].name = children[i].name}

Key(children, i) ==
  LET n == children[i]
  IN  IF IsElement(n)
      THEN IF HasId(n) THEN <<n.name, "id", n.attrs[IdAttr]>>
           ELSE <<n.name, "position", Cardinality(Counted(children, i))>>
      ELSE <<n.kind, "position", Cardinality(Counted(children, i))>>

Keys(children) == {Key(children, i) : i \in DOMAIN children}

\* The node a key finds: the last one that has it.
Find(children, key) ==
  children[CHOOSE i \in DOMAIN children :
             Key(children, i) = key /\ \A j \in i + 1 .. Len(children) : Key(children, j) # key]

ElementSegment(n) == IF HasId(n) THEN <<n.name, "id", n.attrs[IdAttr]>> ELSE <<n.name>>

\* Mutant of ChildSegment: only siblings without an id are counted.
SegmentOfIdless(children, i) ==
  LET n    == children[i]
      same == {j \in DOMAIN children : IsElement(children[j]) /\ children[j].name = n.name /\ ~HasId(children[j])}
  IN  IF HasId(n) \/ Cardinality(same) = 1 THEN ElementSegment(n)
      ELSE <<n.name, "position", Cardinality({j \in same : j <= i})>>

ChildSegment(children, i) ==
  LET n    == children[i]
      same == {j \in DOMAIN children : IsElement(children[j]) /\ children[j].name = n.name}
  IN  IF HasId(n) \/ Cardinality(same) = 1 THEN ElementSegment(n)
      ELSE <<n.name, "position", Cardinality({j \in same : j <= i})>>

-----------------------------------------------------------------------------
(* Changes.                                                                  *)

Change(kind, path, before, after) == [kind |-> kind, path |-> path, old |-> before, new |-> after]
Added(path)   == Change("added", path, None, None)
Removed(path) == Change("removed", path, None, None)

DiffAttributes(o, n, path) ==
  LET value(e, a) == IF a \in DOMAIN e.attrs THEN e.attrs[a] ELSE None
      differ == {a \in DOMAIN o.attrs \cup DOMAIN n.attrs : value(o, a) # value(n, a)}
  IN  {[Change("attribute", path, value(o, a), value(n, a)) EXCEPT !.kind = <<@, a>>] : a \in differ}

\* A child that has no counterpart: an element, or a text that is not blank.
Unmatched(children, i, path, isNew) ==
  LET n == children[i]
  IN  IF IsElement(n)
      THEN LET at == Append(path, ChildSegment(children, i))
           IN  <<IF isNew THEN Added(at) ELSE Removed(at)>>
      ELSE IF n.kind = "text" /\ n.value # Blank
      THEN <<IF isNew THEN Change("text", path, Blank, n.value) ELSE Change("text", path, n.value, Blank)>>
      ELSE <<>>

\* What diff_elements has to compare, child by child.
Compare(o, n, path) == [kind |-> "compare", old |-> o, new |-> n, path |-> path]
Report(c) == [kind |-> "report", changes |-> c]

\* Two children with one key, of which new has the i-th of its parent.
MatchedPair(o, children, i, path) ==
  LET n == children[i]
  IN  IF IsElement(n) THEN Compare(o, n, Append(path, ChildSegment(children, i)))
      ELSE IF n.kind \in {"text", "comment"} /\ o.value # n.value
      THEN Report(<<Change(n.kind, path, o.value, n.value)>>)
      ELSE Report(<<>>)

\* Mutant of DiffChildren: what is gone is not reported.
DiffChildrenAdded(o, n, path) ==
  [i \in DOMAIN n.children |->
     IF Key(n.children, i) \in Keys(o.children)
     THEN MatchedPair(Find(o.children, Key(n.children, i)), n.children, i, path)
     ELSE Report(Unmatched(n.children, i, path, TRUE))]

DiffChildren(o, n, path) ==
  LET inNew == [i \in DOMAIN n.children |->
                  IF Key(n.children, i) \in Keys(o.children)
                  THEN MatchedPair(Find(o.children, Key(n.children, i)), n.children, i, path)
                  ELSE Report(Unmatched(n.children, i, path, TRUE))]
      inOld == [i \in DOMAIN o.children |->
                  IF Key(o.children, i) \in Keys(n.children) THEN Report(<<>>)
                  ELSE Report(Unmatched(o.children, i, path, FALSE))]
  IN  inNew \o inOld

-----------------------------------------------------------------------------
Init ==
  /\ \E pair \in Pairs : old = pair[1] /\ new = pair[2]
  /\ LET path == <<ElementSegment(new)>>
     IN  IF old.name = new.name THEN todo = <<Compare(old, new, path)>> /\ changes = <<>>
         ELSE todo = <<>> /\ changes = <<Removed(path), Added(path)>>

\* diff_elements: attributes at once, children from the stack.
DiffElements ==
  /\ todo # <<>> /\ Head(todo).kind = "compare"
  /\ LET t == Head(todo)
     IN  /\ changes' = changes \o SetToSeq(DiffAttributes(t.old, t.new, t.path))
         /\ todo' = DiffChildren(t.old, t.new, t.path) \o Tail(todo)
  /\ UNCHANGED <<old, new>>

ReportChild ==
  /\ todo # <<>> /\ Head(todo).kind = "report"
  /\ changes' = changes \o Head(todo).changes
  /\ todo' = Tail(todo)
  /\ UNCHANGED <<old, new>>

Next == DiffElements \/ ReportChild

Spec == Init /\ [][Next]_vars

-----------------------------------------------------------------------------
(* Properties. The documents compared are three levels deep at most.         *)

\* The nodes of a document: each with the keys that lead to it and what it
\* says itself.
Says(n) == IF IsElement(n) THEN n.attrs ELSE n.value
Below(n, at) ==
  {[at |-> Append(at, Key(n.children, i)), node |-> n.children[i]] : i \in DOMAIN n.children}
Inner(n, at) ==
  Below(n, at) \cup UNION {Below(c.node, c.at) : c \in {d \in Below(n, at) : IsElement(d.node)}}

\* What a diff can tell of it: no instructions, no blank texts, and of
\* comments only those that both documents have in the same place.
Told(root, other) ==
  LET at(r) == {d.at : d \in Inner(r, <<>>)}
      shown(d) == \/ IsElement(d.node)
                  \/ d.node.kind = "text" /\ (d.node.value # Blank \/ d.at \in at(other))
                  \/ d.node.kind = "comment" /\ d.at \in at(other)
  IN  {<<d.at, Says(d.node)>> : d \in {e \in Inner(root, <<>>) : shown(e)}}
        \cup {<<<<>>, root.attrs>>}

\* No two children with one id and one name.
Keyed(root) ==
  \A n \in {root} \cup {d.node : d \in Inner(root, <<>>)} :
    IsElement(n) => Cardinality(Keys(n.children)) = Len(n.children)

\* The diff is empty exactly where the two documents say the same: nothing an
\* edit adds, takes away or changes is passed over, wherever it stands among
\* its siblings. Out of its sight are the order of siblings with different
\* keys, instructions, and comments and blank texts that come or go.
EmptyMeansSame ==
  todo = <<>> /\ Keyed(old) /\ Keyed(new) =>
    (changes = <<>> <=> old.name = new.name /\ Told(old, new) = Told(new, old))

\* The children of n a segment names, read as XPath reads it.
Named(n, segment) ==
  LET named == {i \in DOMAIN n.children : IsElement(n.children[i]) /\ n.children[i].name = segment[1]}
  IN  IF Len(segment) = 1 THEN named
      ELSE IF segment[2] = "id"
      THEN {i \in named : HasId(n.children[i]) /\ n.children[i].attrs[IdAttr] = segment[3]}
      ELSE {i \in named : Cardinality({j \in named : j <= i}) = segment[3]}
Step(nodes, segment) == UNION {{n.children[i] : i \in Named(n, segment)} : n \in nodes}
Resolved(path) == FoldLeft(Step, {new}, Tail(path))

\* Every path leads to one element of the new document, and a path that ends
\* in a removed child to its parent there: a reader of the diff finds the
\* place, whatever was inserted before it.
PathsLeadThere ==
  Keyed(old) /\ Keyed(new) =>
    \A i \in DOMAIN changes :
      LET c == changes[i]
      IN  IF c.kind = "removed" THEN Len(c.path) = 1 \/ Cardinality(Resolved(Front(c.path))) = 1
          ELSE Cardinality(Resolved(c.path)) = 1

DiffReport == EmptyMeansSame /\ PathsLeadThere
=============================================================================
