----------------------------- MODULE Neighbors ------------------------------
(* The neighbourhood of a node of a specification (neighbors.rs): relations, *)
(* term references and artifact mappings at the node become candidates, one  *)
(* for each neighbour, and a hub keeps a few of each kind.                   *)
EXTENDS Integers, Sequences, FiniteSets, SequencesExt, Functions

CONSTANTS
  Ids,           \* numbers stand for ids in their order
  Documents,     \* what the walk collects: [relations, refs, mappings], sequences
  HubThreshold, TopPerBucket

VARIABLES
  doc, landing,
  raw,           \* candidates that are still to be merged
  best           \* by_id: the candidate kept for each neighbour

vars == <<doc, landing, raw, best>>

\* The types in their priority; any other type has none.
TypePriority ==
  [type \in {"implements", "depends-on", "refines", "precedes", "constrains", "references"} |->
     CASE type = "implements" -> 6 [] type = "depends-on" -> 5 [] type = "refines" -> 4
       [] type = "precedes" -> 3 [] type = "constrains" -> 2 [] type = "references" -> 1]

Score(c) ==
  CASE c.kind = "relation" ->
         100 + (IF c.type \in DOMAIN TypePriority THEN TypePriority[c.type] ELSE 0)
    [] c.kind = "artifact-map" -> 90
    [] c.kind = "term-ref" -> 10

Candidate(id, kind, type) == [id |-> id, kind |-> kind, type |-> type]

\* Both ends of a link, if the other end is a neighbour.
Ends(from, to, kind, type) ==
  (IF from = landing THEN <<Candidate(to, kind, type)>> ELSE <<>>)
    \o (IF to = landing THEN <<Candidate(from, kind, type)>> ELSE <<>>)

\* collect_raw_candidates: no relation of the node to itself and no reference
\* of a term to itself, but a mapping that maps its own element (once).
Raw ==
  LET apart(from, to, kind, type) == IF from = to THEN <<>> ELSE Ends(from, to, kind, type)
      relation(r) == apart(r.from, r.to, "relation", r.type)
      ref(t) == apart(t.source, t.term, "term-ref", "")
      mapping(m) == IF m.id = m.node /\ m.id = landing
                    THEN <<Candidate(landing, "artifact-map", "")>>
                    ELSE Ends(m.id, m.node, "artifact-map", "")
  IN  FlattenSeq([i \in DOMAIN doc.relations |-> relation(doc.relations[i])])
        \o FlattenSeq([i \in DOMAIN doc.refs |-> ref(doc.refs[i])])
        \o FlattenSeq([i \in DOMAIN doc.mappings |-> mapping(doc.mappings[i])])

Init ==
  /\ doc \in Documents /\ landing \in Ids
  /\ raw = Raw /\ best = <<>>

\* Mutant of Better: the last candidate of a neighbour is kept.
Latest(old, c) == TRUE

Better(old, c) == Score(c) > Score(old)

\* dedupe_by_id: a neighbour keeps its best candidate, the first of equals.
Merge ==
  /\ raw # <<>>
  /\ raw' = Tail(raw)
  /\ LET c == Head(raw)
     IN  best' = IF c.id \in DOMAIN best /\ ~Better(best[c.id], c) THEN best
                 ELSE [id \in DOMAIN best \cup {c.id} |-> IF id = c.id THEN c ELSE best[id]]
  /\ UNCHANGED <<doc, landing>>

Next == Merge

Spec == Init /\ [][Next]_vars

-----------------------------------------------------------------------------
(* build_bundle.                                                             *)

Deduped ==
  SetToSortSeq(Range(best), LAMBDA a, b : Score(a) > Score(b) \/ (Score(a) = Score(b) /\ a.id < b.id))

DegreeObserved == Len(Deduped)
HubEngaged == DegreeObserved > HubThreshold

OfKind(kind) == SelectSeq(Deduped, LAMBDA c : c.kind = kind)
Top(bucket) == SubSeq(bucket, 1, IF Len(bucket) < TopPerBucket THEN Len(bucket) ELSE TopPerBucket)

\* Mutant of BucketDiversity: the hub keeps its best neighbours, whatever their kind.
BestOfAll == SubSeq(Deduped, 1, IF DegreeObserved < 3 * TopPerBucket THEN DegreeObserved ELSE 3 * TopPerBucket)

BucketDiversity ==
  FlattenSeq([i \in 1 .. 3 |-> Top(OfKind(<<"artifact-map", "relation", "term-ref">>[i]))])

Candidates == IF HubEngaged THEN BucketDiversity ELSE Deduped

-----------------------------------------------------------------------------
(* Property.                                                                 *)

Linked(a, b) ==
  \/ \E i \in DOMAIN doc.relations : {doc.relations[i].from, doc.relations[i].to} = {a, b}
  \/ \E i \in DOMAIN doc.refs : {doc.refs[i].source, doc.refs[i].term} = {a, b}
  \/ \E i \in DOMAIN doc.mappings : {doc.mappings[i].id, doc.mappings[i].node} = {a, b}

HasKind(id, kind) ==
  CASE kind = "relation" ->
         \E i \in DOMAIN doc.relations : {doc.relations[i].from, doc.relations[i].to} = {id, landing}
    [] kind = "artifact-map" ->
         \E i \in DOMAIN doc.mappings : {doc.mappings[i].id, doc.mappings[i].node} = {id, landing}
    [] kind = "term-ref" ->
         \E i \in DOMAIN doc.refs : {doc.refs[i].source, doc.refs[i].term} = {id, landing}

\* The bundle of a node names each neighbour at most once, under the closest
\* tie the two have; the degree counts every other node that is linked to it
\* in either direction; and a hub drops no neighbour for one of the same kind
\* that counts less, and never the last neighbour of a kind.
NeighborhoodReport ==
  raw = <<>> =>
    LET shown == Range(Candidates)
        all == {id \in Ids \ {landing} : Linked(id, landing)}
        ranks(c) == {Score(Candidate(c.id, "relation", doc.relations[i].type)) :
                       i \in {j \in DOMAIN doc.relations :
                                {doc.relations[j].from, doc.relations[j].to} = {c.id, landing}}}
    IN  /\ Len(Candidates) = Cardinality({c.id : c \in shown})
        /\ DOMAIN best \ {landing} = all
        /\ \A c \in shown : c.id # landing =>
             /\ HasKind(c.id, c.kind)
             /\ c.kind # "relation" => ~HasKind(c.id, "relation")
             /\ c.kind = "term-ref" => ~HasKind(c.id, "artifact-map")
             /\ c.kind = "relation" => \A s \in ranks(c) : s <= Score(c)
        /\ \A d \in Range(best) \ shown :
             /\ Cardinality({c \in shown : c.kind = d.kind}) = TopPerBucket
             /\ \A c \in shown : c.kind = d.kind => Score(c) >= Score(d)
=============================================================================
