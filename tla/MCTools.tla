------------------------------- MODULE MCTools -------------------------------
(***************************************************************************)
(* The commands that read a specification, the search index and the XML    *)
(* library, each by itself, on small inputs.                               *)
(***************************************************************************)
EXTENDS Workbench, SequencesExt, FiniteSetsExt, TLC

CONSTANTS Tools, None, Placeholder, BlankText,
          a, b, n1, n2, x1, x2, m1, m2, p1, p2

-----------------------------------------------------------------------------
(* drift, --fix-node-hash and --fix-artifact-hash.                         *)
CONSTANT TraceShapes
Trace == INSTANCE Traceability WITH
  Texts <- {a, b}, MaxLines <- 3, Shapes <- TraceShapes, MaxEdits <- 1, node <- r1,
  file <- r2, nodeHash <- r3, ranges <- r4, edits <- r5, fixed <- r6, drifted <- r7,
  exit <- r8

\* <<>> is a range without lines, the whole file.
MCTraceShapes ==
  {<<<<>>>>, <<<<1, 1>>>>, <<<<1, 2>>, <<2, 3>>>>, <<<<1, 1>>, <<1, 2>>>>,
   <<<<2, 2>>, <<>>>>, <<<<>>, <<1, 2>>>>, <<<<3, 1>>>>, <<<<0, 1>>, <<2, 1>>>>,
   <<<<2, 2>>, <<3, 1>>>>}

-----------------------------------------------------------------------------
(* coverage.                                                               *)
CONSTANTS CoverageSpecs, CoverageTrees
Coverage == INSTANCE CodeCoverage WITH
  Specs <- CoverageSpecs, Trees <- CoverageTrees, Filters <- {{"f", "g"}}, spec <- r1,
  tree <- r2, repo <- r3, filter <- r4, index <- r5, file <- r6, all <- r7, mapped <- r8,
  exempt <- r9, artifacts <- r10, paths <- r11, path <- r12, blank <- r13, covered <- r14,
  entry <- r15, line <- r16, open <- r17, uncovered <- r18, reports <- r19, pc <- r20

Entry(kind, ids) ==
  [kind |-> kind, id |-> None, ids |-> ids, node |-> None, path |-> None, ranges |-> <<>>]
Content(ids) == Entry("content", ids)
Exempt(node) == [Entry("exempt", {}) EXCEPT !.node = node]
Mapping(id, node, path, ranges) ==
  [Entry("mapping", {id}) EXCEPT !.id = id, !.node = node, !.path = path, !.ranges = ranges]
Shared(ranges) == <<Content({"a", "A"}), Mapping("m1", "a", "f", ranges)>>
Other(node, path, ranges) ==
  <<Content({"b"}), Exempt(node), Content({"c"}), Mapping("m2", "c", path, ranges)>>
MappedRanges ==
  {<<>>, <<<<>>>>, <<<<1, 2>>, <<2, 4>>>>, <<<<4, 4>>, <<>>>>}
    \cup {<<<<s, e>>>> : s \in {1, 3}, e \in 3 .. 5}
    \cup {<<<<0, 1>>>>, <<<<2, 1>>>>, <<<<3, 1>>>>, <<<<1, 2>>, <<4, 0>>>>, <<<<6, 5>>>>, <<<<9, 4>>>>}

MCCoverageSpecs ==
  {<<<<Shared(r) \o Other(n, p, s)>>>> :
     r \in MappedRanges, s \in {<<>>, <<<<2, 4>>>>}, n \in {"b", "c"}, p \in {"f", "g"}}
  \cup {<<<<Shared(r), Other(n, p, <<<<1, 1>>>>)>>>> :
          r \in MappedRanges, n \in {"a", "b"}, p \in {"f", "g", None}}
  \cup {<<<<Shared(r)>>, <<Shared(r), Other("gone", "f", <<<<5, 5>>>>)>>>> : r \in MappedRanges}

\* A file is the sequence of its lines: is the line blank?
CodeFiles == {None, <<>>, <<FALSE>>} \cup {<<n = 1, n = 2, FALSE, n = 4>> : n \in {0, 1, 2, 4}}
MCCoverageTrees ==
  {<<[f |-> f, g |-> <<FALSE, TRUE>>], [f |-> <<FALSE, FALSE, FALSE>>, g |-> None]>> : f \in CodeFiles}
  \cup {<<[f |-> None, g |-> None], [f |-> None, g |-> <<FALSE>>]>>}

-----------------------------------------------------------------------------
(* connectivity.                                                           *)
CONSTANT GraphSpecs
Graph == INSTANCE SpecGraph WITH
  Enumerations <- {[value |-> "refines", marks |-> {"true"}], [value |-> "uses", marks |-> {"false"}]},
  Specs <- GraphSpecs, listed <- r1, at <- r2, nodes <- r3, relations <- r4, rest <- r5,
  visited <- r6, stack <- r7, component <- r8, components <- r9

GraphNodes ==
  LET node(id) == Graph!Element("node", id, None) IN
  <<node("a"), Graph!Element("node", None, "b"), Graph!Element("mapping", "m", None), node("c"),
    Graph!Element("node", "d", "d")>>
MCGraphSpecs ==
  LET pairs == {"a", "b", "c", "d"} \X {"a", "b", "c", "d"}
      inner == {SetToSeq(s) : s \in kSubset(1, pairs) \cup kSubset(2, pairs)}
                 \cup {SetToSeq({<<"a", "b">>} \cup s) : s \in kSubset(2, pairs)}
      typed(s, i) == [j \in DOMAIN s |->
                        Graph!Relation(IF i = j THEN "refines" ELSE "uses", s[j][1], s[j][2], FALSE)]
      loose(p) == <<Graph!Relation("uses", p[1], p[2], FALSE), Graph!Relation("uses", "b", "m", FALSE),
                    Graph!Relation("uses", "c", "d", TRUE)>>
  IN  {<<typed(s, i), GraphNodes>> : s \in inner, i \in 1 .. 3}
        \cup {<<loose(p), GraphNodes, <<Graph!Relation("refines", p[1], p[2], FALSE)>>, loose(p)>> :
                p \in pairs}

-----------------------------------------------------------------------------
(* The neighbours a query shows.                                           *)
CONSTANT NearDocuments
Near == INSTANCE Neighbors WITH
  Ids <- 1 .. 4, Documents <- NearDocuments, HubThreshold <- 2, TopPerBucket <- 1,
  doc <- r1, landing <- r2, raw <- r3, best <- r4

Link(type, from, to) == [type |-> type, from |-> from, to |-> to]
MCNearDocuments ==
  [relations :
     {<<>>} \cup {<<Link(t, f, i)>> : t \in {"implements", "other"}, f \in {1, 2}, i \in 1 .. 4}
       \cup {<<Link("other", 1, i), Link("references", j, 1)>> : i, j \in 1 .. 4}
       \cup {<<Link("other", 1, 2), Link("implements", 1, 3), Link("refines", i, 1)>> : i \in 1 .. 4},
   refs :
     {<<>>} \cup {<<[source |-> i, term |-> 1]>> : i \in {2, 3}}
       \cup {<<[source |-> 1, term |-> 2], [source |-> 4, term |-> 1]>>},
   mappings :
     {<<>>, <<[id |-> 4, node |-> 1]>>, <<[id |-> 1, node |-> 1], [id |-> 1, node |-> 3]>>,
      <<[id |-> 2, node |-> 1], [id |-> 3, node |-> 1]>>}]

-----------------------------------------------------------------------------
(* validate.                                                               *)
CONSTANT ValidSpecs
Valid == INSTANCE Validation WITH
  Specs <- ValidSpecs, TypeIds <- {"type-a"}, files <- r1, phase <- r2, at <- r3,
  seen <- r4, ids <- r5, errors <- r6

\* What a specification is written in: the same module without specifications.
Xml == INSTANCE Validation WITH
  Specs <- {}, TypeIds <- {}, files <- r1, phase <- r2, at <- r3, seen <- r4, ids <- r5, errors <- r6

ValidElements ==
  {Xml!Plain(i) : i \in {"x", "y"}} \cup {Xml!Artifact(i) : i \in {"x", "y", "type-a"}}
    \cup {Xml!Relation(i, j, None) : i, j \in {"x", "y", "type-a"}}
    \cup {Xml!Relation("x", "elsewhere", "other-spec")}
ValidFiles ==
  {<<e>> : e \in ValidElements} \cup {<<Xml!Plain(i), Xml!Plain(j)>> : i, j \in {"x", "y"}}
    \cup {Xml!Malformed}
MCValidSpecs == {<<>>} \cup [1 .. 1 -> ValidFiles] \cup [1 .. 2 -> ValidFiles]

-----------------------------------------------------------------------------
(* The XML diff.                                                           *)
CONSTANT DiffPairs
Diff == INSTANCE XmlDiff WITH
  Blank <- BlankText, IdAttr <- "id", Pairs <- DiffPairs, old <- r1, new <- r2, todo <- r3,
  changes <- r4

DiffLeaves ==
  {Diff!Leaf("text", "t"), Diff!Leaf("text", BlankText), Diff!Leaf("comment", "t"),
   Diff!Leaf("comment", "u"), Diff!Leaf("pi", "t")}
DiffItems ==
  {Diff!Element("a", i, <<>>) : i \in {<<>>, [id |-> "x"], [id |-> "y"], [id |-> "x", k |-> 1]}}
    \cup {Diff!Element("b", <<>>, <<>>)}
    \cup {Diff!Element("a", <<>>, <<Diff!Leaf("text", v)>>) : v \in {"t", "u"}}
DiffRoots(children) == {Diff!Element("r", <<>>, c) : c \in children}
MCDiffPairs ==
  LET plain == {Diff!Element(n, <<>>, <<>>) : n \in {"a", "b"}}
      mixed == DiffRoots(BoundedSeq(DiffLeaves \cup plain, 2)) \cup {Diff!Element("s", [k |-> 1], <<>>)}
      items == DiffRoots(BoundedSeq(DiffItems, 2) \cup {<<Diff!Element("a", <<>>, <<>>)>> \o c : c \in BoundedSeq(DiffItems, 2)})
  IN  mixed \X mixed \cup items \X items

-----------------------------------------------------------------------------
(* adopt, and what the user does to its files.                             *)
Adopted == INSTANCE Adopt WITH
  Xsds <- {"a.xsd"}, Skills <- {"skill"}, MaxVersion <- 2, MaxEdits <- 1,
  MaxCommands <- 3, version <- r1, planted <- r2, spec <- r3, text <- r4, todo <- r5,
  command <- r6, theirs <- r7, edits <- r8, commands <- r9

-----------------------------------------------------------------------------
(* The files of a specification, and what is extracted from them.          *)
CONSTANT FileContents(_)
Files == INSTANCE SpecFiles WITH
  Paths <- <<"a.xml", "b.xml", "index.xml">>, Contents <- FileContents, MaxEdits <- 1,
  disk <- r1, edits <- r2, use <- r3, step <- r4, files <- r5, at <- r6, spans <- r7,
  combined <- r8, chunks <- r9, seen <- r10

X(depth) == Files!Node("term", depth, "x")
Y(depth) == Files!Node("term", depth, "y")
Prose(id) == Files!Node("prose", 1, id)
MCFileContents(path) ==
  CASE path = "index.xml" ->
         {Files!File(<<Files!FileRef(1, "a.xml"), Files!FileRef(1, "b.xml")>>),
          Files!File(<<Prose("z"), Files!FileRef(2, "a.xml")>>),
          Files!File(<<Files!FileRef(1, "a.xml"), Files!FileRef(1, "a.xml"), Prose("z")>>)}
    [] path = "a.xml" ->
         {Files!Part("index.xml", <<Prose("v"), X(1), Y(2)>>),
          Files!File(<<X(1), Files!Relation("refines", "x", "y")>>),
          Files!Part("index.xml", <<Prose(None), X(2), X(1), Y(1)>>), Files!Malformed}
    [] path = "b.xml" ->
         {Files!File(<<Y(1), Files!Relation("refines", "y", "x"), Files!Relation("uses", "x", "y")>>),
          Files!Part("a.xml", <<X(1)>>), Files!File(<<Files!FileRef(1, "a.xml"), Prose("w")>>)}

-----------------------------------------------------------------------------
(* The compact grammar printed from schemas.                               *)
CONSTANT SchemaDirs
Schema == INSTANCE XsdToRnc WITH
  Schemas <- SchemaDirs, MaxDepth <- 4, layers <- r1, phase <- r2, at <- r3, usage <- r4,
  rnc <- r5

\* What a schema is written in.
Xsd == INSTANCE XsdToRnc WITH
  Schemas <- {}, MaxDepth <- 0, layers <- r1, phase <- r2, at <- r3, usage <- r4, rnc <- r5

Type(content, base, attrs, parts) == Xsd!Type(content, base, attrs, parts)
TypeName(n) == <<None, n>>
El(name, type) == Xsd!Part("element", name, type)
Many(p) == [p EXCEPT !.min = 0, !.max = "unbounded"]
Attr(name) == [name |-> name, group |-> None]
Group(ref) == [name |-> None, group |-> ref]
Inline(name, t) == [El(name, None) EXCEPT !.inline = t]
RefTo(ref) == [El(None, None) EXCEPT !.ref = ref]
With(kind, parts) == [Xsd!Part(kind, None, None) EXCEPT !.parts = parts]

PartsOfA ==
  {<<>>, <<El("b", TypeName("B"))>>, <<Many(El("b", TypeName("B"))), El("s", <<"xs", "string">>)>>,
   <<With("choice", <<El("b", TypeName("B")), El("a", TypeName("A"))>>)>>,
   <<With("sequence", <<El("b", TypeName("B")), El("c", <<"p", "C">>)>>), Xsd!Part("any", None, None)>>,
   <<RefTo(<<"q", "r">>), Inline("i", Type("plain", None, <<Attr("m")>>, <<El("b", TypeName("B"))>>))>>,
   <<El("o", <<"q", "S">>)>>, <<El("o", <<"q", "S">>), El("u", <<"q", "S">>), El("b", TypeName("B"))>>}
TypesA ==
  {Type("plain", None, <<Attr("m")>>, ps) : ps \in PartsOfA}
    \cup {[Type("extension", TypeName("B"), <<Group(<<"q", "G">>)>>, ps) EXCEPT !.mixed = TRUE] :
            ps \in {<<>>, <<El("c", TypeName("C"))>>}}
TypesB ==
  {Type("plain", None, <<Attr("n")>>, <<>>), Type("simple", None, <<Attr("n")>>, <<>>),
   Type("plain", None, <<>>, <<El("a", TypeName("A"))>>), Type("plain", None, <<>>, <<El("c", TypeName("C"))>>),
   [Type("plain", None, <<>>, <<El("b", TypeName("B")), RefTo(<<"q", "r">>)>>)
      EXCEPT !.mixed = TRUE, !.desc = "b"]}
TypesC ==
  {Type("plain", None, <<Attr("k")>>, <<>>), Type("plain", None, <<>>, <<El("a", TypeName("A"))>>),
   Type("restriction", None, <<>>, <<>>)}
OtherLayer ==
  [Xsd!Layer("q", [R |-> Type("plain", None, <<Group(TypeName("G"))>>, <<El("x", TypeName("R"))>>),
                   S |-> Type("plain", None, <<Group(TypeName("G"))>>, <<El("y", <<"xs", "string">>)>>)],
                <<El("r", TypeName("R"))>>) EXCEPT !.groups = [n \in {"G"} |-> <<"g">>], !.desc = "layer"]
\* It may have a type with the name of one of the first layer.
OtherLayers ==
  {OtherLayer, [OtherLayer EXCEPT !.types = [C |-> Type("plain", None, <<>>, <<El("z", TypeName("C"))>>)] @@ @,
                                  !.elements = Append(@, El("c", TypeName("C")))]}
MCSchemaDirs ==
  {<<[Xsd!Layer("p", [A |-> x, B |-> y, C |-> z],
                   <<El("a", TypeName("A")), [El("d", <<"p", "B">>) EXCEPT !.desc = d]>>) EXCEPT !.typesFirst = f],
     other>> : x \in TypesA, y \in TypesB, z \in TypesC, f \in BOOLEAN, d \in {"d", None}, other \in OtherLayers}

-----------------------------------------------------------------------------
(* search.                                                                 *)
Search == INSTANCE SearchIndex WITH
  Ids <- {n1, n2}, Texts <- {x1, x2}, Models <- {m1, m2}, Procs <- {p1, p2},
  MaxEdits <- 1, MaxBuilds <- 2, MaxIncidents <- 1, spec <- r1, meta <- r2, index <- r3,
  config <- r4, lock <- r5, stale <- r6, procs <- r7, edits <- r8, builds <- r9,
  incidents <- r10, disturbed <- r11

Symmetry ==
  Permutations({n1, n2}) \cup Permutations({x1, x2}) \cup Permutations({m1, m2})
    \cup Permutations({p1, p2})

-----------------------------------------------------------------------------
MCInit ==
  /\ tool \in Tools
  /\ \/ tool = "trace"     /\ Trace!Init    /\ Unused(8)
     \/ tool = "coverage"  /\ Coverage!Init
     \/ tool = "graph"     /\ Graph!Init    /\ Unused(9)
     \/ tool = "neighbors" /\ Near!Init     /\ Unused(4)
     \/ tool = "validate"  /\ Valid!Init    /\ Unused(6)
     \/ tool = "diff"      /\ Diff!Init     /\ Unused(4)
     \/ tool = "adopt"     /\ Adopted!Init  /\ Unused(9)
     \/ tool = "files"     /\ Files!Init    /\ Unused(10)
     \/ tool = "schema"    /\ Schema!Init   /\ Unused(5)
     \/ tool = "search"    /\ Search!Init   /\ Unused(11)

MCNext ==
  /\ \/ tool = "trace"     /\ Trace!Next    /\ StillUnused(8)
     \/ tool = "coverage"  /\ Coverage!Next
     \/ tool = "graph"     /\ Graph!Next    /\ StillUnused(9)
     \/ tool = "neighbors" /\ Near!Next     /\ StillUnused(4)
     \/ tool = "validate"  /\ Valid!Next    /\ StillUnused(6)
     \/ tool = "diff"      /\ Diff!Next     /\ StillUnused(4)
     \/ tool = "adopt"     /\ Adopted!Next  /\ StillUnused(9)
     \/ tool = "files"     /\ Files!Next    /\ StillUnused(10)
     \/ tool = "schema"    /\ Schema!Next   /\ StillUnused(5)
     \/ tool = "search"    /\ Search!Next   /\ StillUnused(11)
  /\ UNCHANGED tool

MCSpec == MCInit /\ [][MCNext]_<<tool, registers>>

\* What a command reports is what a reader of the same inputs would: coverage
\* (coverage.rs), connectivity (connectivity.rs), the neighbours of a hit
\* (neighbors.rs), validation (validate.rs) and the diff of two documents
\* (diff.rs); each module states it without the algorithm.
ReportsAreTrue ==
  /\ tool = "coverage"  => Coverage!ReportAccounts
  /\ tool = "graph"     => Graph!GraphReport
  /\ tool = "neighbors" => Near!NeighborhoodReport
  /\ tool = "validate"  => Valid!ReportIsComplete
  /\ tool = "diff"      => Diff!DiffReport

\* What a command writes loses nothing: a fix of hashes leaves no drift of the
\* kind it fixes (fix.rs), adopt keeps the user's text and ends up current
\* (adopt.rs), chunks and the combined document hold the elements of the files
\* (chunker.rs, discovery.rs), the compact grammar allows what the schema does
\* (convert.rs).
WritersAreFaithful ==
  /\ tool = "trace"  => Trace!FixSettles
  /\ tool = "adopt"  => Adopted!AdoptReport
  /\ tool = "files"  => Files!ExtractionIsFaithful
  /\ tool = "schema" => Schema!ConversionIsFaithful

\* Rows and vectors agree at rest, and a hit names the node it was scored for
\* (index.rs, query.rs).
SearchIsSound == tool = "search" => Search!RowsHaveVectors /\ Search!HitsNameTheirNode

\* A build that ends leaves what it read in the rows, and a forced one repairs
\* what earlier builds left behind (index.rs).
BuildsRepair ==
  [][tool = "search" => Search!RowsComplete /\ Search!ForcedRepairs]_<<tool, registers>>
=============================================================================
