----------------------------- MODULE SpecGraph ------------------------------
(* Connectivity of a specification (connectivity.rs): the graph of its nodes *)
(* and relations, its components, found with a stack, the nodes that lie on  *)
(* shortest paths of others, and its cycles.                                 *)
EXTENDS Integers, Sequences, FiniteSets, SequencesExt, FiniteSetsExt

CONSTANTS
  Enumerations,  \* the values of the schema of relations, each with the marks below it
  Specs,         \* specifications: the files their indexes list, in order
  None

VARIABLES
  listed,        \* the files; one that two indexes list is there twice
  at,            \* the file to collect from
  nodes,         \* ids of the specification
  relations,     \* its relations
  rest,          \* nodes the outer loop has still to visit
  visited, stack, component,
  components

graph == <<listed, nodes, relations>>
vars == <<graph, at, rest, visited, stack, component, components>>

\* An element: its id, its xml:id, and if it is a relation what it relates.
Element(kind, id, xmlId) ==
  [kind |-> kind, id |-> id, xmlId |-> xmlId, type |-> None, from |-> None, to |-> None, elsewhere |-> FALSE]
Relation(type, from, to, elsewhere) ==
  [Element("relation", None, None) EXCEPT !.type = type, !.from = from, !.to = to, !.elsewhere = elsewhere]

\* discover_acyclic_types: a mark relation:acyclic may stand at any depth.
Acyclic == {e.value : e \in {x \in Enumerations : "true" \in x.marks}}

Init ==
  /\ listed \in Specs
  /\ at = 1 /\ nodes = {} /\ relations = <<>>
  /\ rest = <<>> /\ visited = {} /\ stack = <<>> /\ component = {}
  /\ components = {}

-----------------------------------------------------------------------------
(* The graph.                                                                *)

\* Mappings and revisions have ids and are no nodes; a relation may have one.
IdsOf(file) == UNION {{e.id, e.xmlId} : e \in {x \in ToSet(file) : x.kind \notin {"mapping", "revision"}}} \ {None}

\* collect_nodes_and_relations, of one file.
Collect ==
  /\ at <= Len(listed)
  /\ nodes' = nodes \cup IdsOf(listed[at])
  /\ relations' = relations \o SelectSeq(listed[at], LAMBDA e : e.kind = "relation")
  /\ at' = at + 1
  /\ UNCHANGED <<listed, rest, visited, stack, component, components>>

\* The end of the collection: the components are looked for.
BuildGraph ==
  /\ at = Len(listed) + 1
  /\ rest' = SetToSeq(nodes)
  /\ at' = at + 1
  /\ UNCHANGED <<graph, visited, stack, component, components>>

Built == at = Len(listed) + 2

\* build_graph: relations into other specifications and to ids that are not
\* there are no edges; two relations make two edges.
Edges ==
  SelectSeq(relations, LAMBDA r : ~r.elsewhere /\ r.from \in nodes /\ r.to \in nodes)

Outgoing(n) == {Edges[i].to : i \in {j \in DOMAIN Edges : Edges[j].from = n}}
Incoming(n) == {Edges[i].from : i \in {j \in DOMAIN Edges : Edges[j].to = n}}

-----------------------------------------------------------------------------
(* weakly_connected_components.                                              *)

\* The next node that was not visited starts a component.
StartComponent ==
  /\ Built /\ stack = <<>> /\ component = {} /\ rest # <<>>
  /\ rest' = Tail(rest)
  /\ stack' = IF Head(rest) \in visited THEN <<>> ELSE <<Head(rest)>>
  /\ UNCHANGED <<graph, at, visited, component, components>>

\* Mutant of Follow: only outgoing edges are followed.
FollowOutgoing(n, seen) == SetToSeq(Outgoing(n) \ seen)

\* Neighbours in both directions that were not visited, some of them twice.
Follow(n, seen) == SetToSeq(Outgoing(n) \ seen) \o SetToSeq(Incoming(n) \ seen)

Visit ==
  /\ stack # <<>>
  /\ LET n == Last(stack)
     IN  IF n \in visited
         THEN stack' = Front(stack) /\ UNCHANGED <<visited, component>>
         ELSE /\ visited' = visited \cup {n}
              /\ component' = component \cup {n}
              /\ stack' = Front(stack) \o Follow(n, visited')
  /\ UNCHANGED <<graph, at, rest, components>>

EndComponent ==
  /\ stack = <<>> /\ component # {}
  /\ components' = components \cup {component}
  /\ component' = {}
  /\ UNCHANGED <<graph, at, rest, visited, stack>>

Next == Collect \/ BuildGraph \/ StartComponent \/ Visit \/ EndComponent

Spec == Init /\ [][Next]_vars

Done == Built /\ rest = <<>> /\ stack = <<>> /\ component = {}

-----------------------------------------------------------------------------
(* Isolated nodes, bridges and cycles.                                       *)

Isolated == {n \in nodes : Outgoing(n) = {} /\ Incoming(n) = {}}

\* The layers of the breadth-first search of find_bridge_nodes.
Layers(source) ==
  LET layer[d \in 0 .. Cardinality(nodes)] ==
        IF d = 0 THEN {source}
        ELSE UNION {Outgoing(n) : n \in layer[d - 1]} \ UNION {layer[e] : e \in 0 .. d - 1}
  IN  layer

\* The nodes whose dependency is above zero for some other source: they
\* precede a node of the next layer.
Bridges ==
  {n \in nodes : \E source \in nodes \ {n} :
     \E d \in 1 .. Cardinality(nodes) - 1 :
       n \in Layers(source)[d] /\ Outgoing(n) \cap Layers(source)[d + 1] # {}}

\* nodes reached by at least one edge.
Reached(n) == UNION {Layers(m)[d] : m \in Outgoing(n), d \in 0 .. Cardinality(nodes)}

StronglyConnected == {{n} \cup {m \in nodes : m \in Reached(n) /\ n \in Reached(m)} : n \in nodes}
Inside(scc) == {i \in DOMAIN Edges : {Edges[i].from, Edges[i].to} \subseteq scc}

\* Mutant of HasCycle: a component of one node is no cycle, whatever its edges.
HasCycleOfMany(scc) == Cardinality(scc) > 1

HasCycle(scc) == Cardinality(scc) > 1 \/ Inside(scc) # {}

\* find_cycles: a strongly connected component and the types of its edges;
\* it violates the schemas if one of them is acyclic.
Cycles ==
  {[nodes |-> scc, types |-> {Edges[i].type : i \in Inside(scc)},
    violates |-> \E i \in Inside(scc) : Edges[i].type \in Acyclic]
     : scc \in {c \in StronglyConnected : HasCycle(c)}}

-----------------------------------------------------------------------------
(* Properties.                                                               *)

\* A walk along edges, in the direction of the relations or in any.
Walks(length) == [1 .. length -> DOMAIN Edges]
Directed(w) == \A i \in 1 .. Len(w) - 1 : Edges[w[i]].to = Edges[w[i + 1]].from
JoinedBy(a, b) ==
  a = b \/ \E k \in 1 .. Len(Edges) : \E w \in Walks(k) :
             /\ a \in {Edges[w[1]].from, Edges[w[1]].to}
             /\ b \in {Edges[w[k]].from, Edges[w[k]].to}
             /\ \A i \in 1 .. k - 1 : {Edges[w[i]].from, Edges[w[i]].to}
                                        \cap {Edges[w[i + 1]].from, Edges[w[i + 1]].to} # {}

\* When the walk ends, each node is in one component, with exactly the nodes
\* that relations join it to; a component of one node is isolated or only
\* related to itself.
ComponentsAreRight ==
  Done => /\ components = {{b \in nodes : JoinedBy(a, b)} : a \in nodes}
          /\ \A n \in Isolated : {n} \in components

\* Cycles hold exactly the relations that lie on a closed walk; one that must
\* not run in circles is a violation there and only there.
CyclesAreRight ==
  Done =>
    \A i \in DOMAIN Edges :
      LET circular == \E k \in 1 .. Len(Edges) : \E w \in Walks(k) :
                        w[1] = i /\ Directed(w) /\ Edges[w[k]].to = Edges[i].from
          of(c) == {Edges[i].from, Edges[i].to} \subseteq c.nodes
      IN  /\ circular <=> \E c \in Cycles : of(c) /\ Edges[i].type \in c.types
          /\ circular /\ Edges[i].type \in Acyclic => \E c \in Cycles : of(c) /\ c.violates

\* A bridge is a node inside a shortest walk between two others.
BridgesAreRight ==
  Done =>
    \A n \in nodes :
      n \in Bridges <=>
        \E k \in 2 .. Len(Edges) : \E w \in Walks(k) :
          LET source == Edges[w[1]].from
              target == Edges[w[k]].to
          IN  /\ Directed(w) /\ n \notin {source, target} /\ n \in {Edges[w[i]].to : i \in 1 .. k}
              /\ source # target
              /\ ~\E j \in 1 .. k - 1 : \E v \in Walks(j) :
                    Directed(v) /\ Edges[v[1]].from = source /\ Edges[v[j]].to = target

\* The graph has the ids and the relations of every listed file.
GraphIsSpec ==
  Built => /\ \A f \in ToSet(listed) : \A e \in ToSet(f) : e.kind = "node" /\ e.id # None => e.id \in nodes
           /\ \A n \in nodes : \E f \in ToSet(listed) : \E e \in ToSet(f) : n \in {e.id, e.xmlId} /\ e.kind # "mapping"
           /\ Len(relations) = Len(SelectSeq(FlattenSeq(listed), LAMBDA e : e.kind = "relation"))

\* The connectivity report of a specification is what its relations say.
GraphReport == GraphIsSpec /\ ComponentsAreRight /\ CyclesAreRight /\ BridgesAreRight
=============================================================================
