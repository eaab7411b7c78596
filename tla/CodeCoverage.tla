---------------------------- MODULE CodeCoverage ----------------------------
(***************************************************************************)
(* The coverage report of `clayers artifact --coverage` (coverage.rs): the  *)
(* nodes of a specification that no mapping and no exemption names, and the *)
(* lines of the mapped files that no range reaches.  The mappings are       *)
(* collected by artifact.rs.                                                *)
(*                                                                         *)
(* A specification is a sequence of indexes, an index a sequence of files,  *)
(* a file its elements in document order; a source file says which of its   *)
(* lines are blank.                                                         *)
(***************************************************************************)
EXTENDS Integers, Sequences, FiniteSets, SequencesExt

CONSTANTS
  Specs,         \* the specifications
  Trees,         \* the directories around one, from the top to its own: path -> file
  Filters,       \* the paths a --code-path may select
  None           \* no node, no path, no file

VARIABLES
  spec, tree,
  repo,          \* the directory that holds .git, or 0: find_repo_root
  filter,
  index, file,   \* the cursor over the specification
  all, mapped, exempt,   \* the node ids found
  artifacts,     \* the mappings collected: [id, node, path, ranges]
  paths,         \* the mapped paths that are still to be walked
  path,          \* the path being walked
  blank,         \* its lines
  covered,       \* the lines that are marked, while the entries are walked
  entry,         \* the next entry
  line,          \* the next line of find_uncovered_ranges
  open,          \* the first line of the range being collected, or 0
  uncovered,     \* the ranges found: [start, end, count]
  reports,       \* the FileCoverage of every path that was read
  pc

given == <<spec, tree, repo, filter>>
nodes == <<index, file, all, mapped, exempt, artifacts>>
walk == <<path, blank, covered, entry, line, open, uncovered>>
vars == <<given, nodes, paths, walk, reports, pc>>

Init ==
  /\ spec \in Specs /\ tree \in Trees /\ repo \in 0 .. Len(tree) /\ filter \in Filters
  /\ index = 1 /\ file = 1 /\ all = {} /\ mapped = {} /\ exempt = {} /\ artifacts = <<>>
  /\ paths = {} /\ reports = {} /\ pc = "collect"
  /\ path = None /\ blank = <<>> /\ covered = {} /\ entry = 1 /\ line = 1 /\ open = 0 /\ uncovered = <<>>

-----------------------------------------------------------------------------
(* The nodes (analyze_coverage).                                           *)

\* Mutant of IdsOf: the elements of the artifact layer are nodes too.
IdsOfEvery(e) == e.ids

\* collect_node_ids: what belongs to the artifact layer is no content.
IdsOf(e) == IF e.kind = "content" THEN e.ids ELSE {}

ReadFile ==
  /\ pc = "collect" /\ index <= Len(spec) /\ file <= Len(spec[index])
  /\ LET elements == ToSet(spec[index][file])
     IN  /\ all' = all \cup UNION {IdsOf(e) : e \in elements}
         /\ exempt' = exempt \cup {e.node : e \in {x \in elements : x.kind = "exempt"}}
  /\ file' = file + 1
  /\ UNCHANGED <<given, index, mapped, artifacts, paths, walk, reports, pc>>

\* The mappings of an index, file by file and in document order. A file that
\* two indexes list is collected twice.
CollectMappings ==
  /\ pc = "collect" /\ index <= Len(spec) /\ file > Len(spec[index])
  /\ LET found == SelectSeq(FlattenSeq(spec[index]), LAMBDA e : e.kind = "mapping")
     IN  /\ artifacts' = artifacts \o found
         /\ mapped' = mapped \cup ({m.node : m \in ToSet(found)} \ {None})
  /\ index' = index + 1 /\ file' = 1
  /\ UNCHANGED <<given, all, exempt, paths, walk, reports, pc>>

Unmapped == all \ (mapped \cup exempt)

Ranged(m) == SelectSeq(m.ranges, LAMBDA r : r # <<>>)

-----------------------------------------------------------------------------
(* The files (compute_file_coverages).                                     *)

Selected == SelectSeq(artifacts, LAMBDA m : m.path # None /\ m.path \in filter)

Analyze ==
  /\ pc = "collect" /\ index > Len(spec)
  /\ paths' = {m.path : m \in ToSet(Selected)} /\ pc' = "paths"
  /\ UNCHANGED <<given, nodes, walk, reports>>

MappingsOf(p) == SelectSeq(Selected, LAMBDA m : m.path = p)

\* build_coverage_maps: the ranges of all mappings, in order; a mapping
\* without ranges is of the whole file, unless another has ranges.
Entries(p) == FlattenSeq([i \in DOMAIN MappingsOf(p) |-> Ranged(MappingsOf(p)[i])])

\* resolve_artifact_path: the root of the repository, or else the closest of
\* the directories around the specification.
Resolved(p) ==
  LET has(d) == tree[d][p] # None
      around == {d \in DOMAIN tree : has(d)}
  IN  IF repo # 0 /\ has(repo) THEN tree[repo][p]
      ELSE IF around = {} THEN None ELSE tree[CHOOSE d \in around : \A e \in around : e <= d][p]

\* A file that cannot be read, or has no lines, is left out of the report.
OpenFile ==
  /\ pc = "paths"
  /\ \E p \in paths :
       /\ paths' = paths \ {p}
       /\ IF Resolved(p) \in {None, <<>>} THEN UNCHANGED <<walk, reports, pc>>
          ELSE IF Entries(p) = <<>>
          THEN /\ reports' = reports \cup {[path |-> p, covered |-> Len(Resolved(p)), uncovered |-> <<>>]}
               /\ UNCHANGED <<walk, pc>>
          ELSE /\ path' = p /\ blank' = Resolved(p) /\ pc' = "mark"
               /\ covered' = {} /\ entry' = 1 /\ line' = 1 /\ open' = 0 /\ uncovered' = <<>>
               /\ UNCHANGED reports
  /\ UNCHANGED <<given, nodes>>

AtMost(n) == IF n < Len(blank) THEN n ELSE Len(blank)

\* Mutant of SliceStart: a range past the end of the file is not cut off.
SliceStartUncut(r) == IF r[1] = 0 THEN 0 ELSE r[1] - 1

\* Mutant of SliceEnd: the last line of an entry is left out.
SliceEndHalfOpen(r) == IF r[2] = 0 THEN 0 ELSE AtMost(r[2] - 1)

\* The slice of an entry: what stands before it and its last line, both cut
\* off at the end of the file (compute_single_file_coverage). Line 0 is line 1.
SliceStart(r) == IF r[1] = 0 THEN 0 ELSE AtMost(r[1] - 1)
SliceEnd(r) == AtMost(r[2])

\* A slice that ends before it starts panics: the command prints no report.
Mark ==
  /\ pc = "mark" /\ entry <= Len(Entries(path))
  /\ LET r == Entries(path)[entry]
     IN  IF SliceStart(r) > SliceEnd(r)
         THEN pc' = "panicked" /\ UNCHANGED <<covered, entry>>
         ELSE /\ covered' = covered \cup (SliceStart(r) + 1 .. SliceEnd(r))
              /\ entry' = entry + 1 /\ UNCHANGED pc
  /\ UNCHANGED <<given, nodes, paths, path, blank, line, open, uncovered, reports>>

Marked ==
  /\ pc = "mark" /\ entry > Len(Entries(path))
  /\ pc' = "scan"
  /\ UNCHANGED <<given, nodes, paths, walk, reports>>

Uncovered(first, last) == [start |-> first, end |-> last, count |-> last + 1 - first]

\* A line that is neither blank nor covered opens a range; any other closes it.
Scan ==
  /\ pc = "scan" /\ line <= Len(blank)
  /\ line' = line + 1
  /\ IF line \notin covered /\ ~blank[line]
     THEN open' = (IF open = 0 THEN line ELSE open) /\ UNCHANGED uncovered
     ELSE /\ open' = 0
          /\ uncovered' = IF open = 0 THEN uncovered ELSE Append(uncovered, Uncovered(open, line - 1))
  /\ UNCHANGED <<given, nodes, paths, path, blank, covered, entry, reports, pc>>

\* compute_single_file_coverage: blank lines count on neither side.
End ==
  /\ pc = "scan" /\ line > Len(blank)
  /\ LET rest == IF open = 0 THEN <<>> ELSE <<Uncovered(open, Len(blank))>>
     IN  reports' = reports \cup {[path |-> path, uncovered |-> uncovered \o rest,
                                   covered |-> Cardinality({n \in covered : ~blank[n]})]}
  /\ path' = None /\ blank' = <<>> /\ covered' = {} /\ entry' = 1 /\ line' = 1 /\ open' = 0 /\ uncovered' = <<>>
  /\ pc' = "paths"
  /\ UNCHANGED <<given, nodes, paths>>

Next == ReadFile \/ CollectMappings \/ Analyze \/ OpenFile \/ Mark \/ Marked \/ Scan \/ End

Spec == Init /\ [][Next]_vars

-----------------------------------------------------------------------------
(* Properties.                                                               *)

Done == pc = "paths" /\ paths = {}

\* What is written in the specification, whatever file and index it is in.
Written == UNION {ToSet(FlattenSeq(spec[i])) : i \in DOMAIN spec}
Reached(p, n) ==
  \E m \in Written : m.kind = "mapping" /\ m.path = p
    /\ \E i \in DOMAIN m.ranges : m.ranges[i] # <<>> /\ m.ranges[i][1] <= n /\ n <= m.ranges[i][2]
Lines(p) == {n \in DOMAIN Resolved(p) : ~Resolved(p)[n]}

\* A node of the content is unmapped exactly if no mapping and no exemption
\* anywhere in the specification names it, and no mapping is itself a node.
NodesAreSorted ==
  pc # "collect" =>
    /\ \A id \in UNION {e.ids : e \in {x \in Written : x.kind = "content"}} :
         id \in Unmapped <=> \A e \in Written : e.kind # "content" => e.node # id
    /\ Unmapped \cap {m.id : m \in ToSet(artifacts)} = {}
    /\ \A m \in Written : m.kind = "mapping" => m \in ToSet(artifacts)

\* The report of a file that a range maps accounts for every line that is not
\* blank exactly once: it is counted as covered if a range maps it, and otherwise
\* lies in one uncovered range; these are in order, as long as they can be, and
\* counted right. A file that is only mapped as a whole is covered by all its
\* lines, the blank ones included.
LinesAreAccounted ==
  \A r \in reports :
    IF Entries(r.path) = <<>> THEN r.covered = Len(Resolved(r.path)) /\ r.uncovered = <<>>
    ELSE
    /\ r.covered = Cardinality({n \in Lines(r.path) : Reached(r.path, n)})
    /\ r.covered + FoldLeft(LAMBDA sum, u : sum + u.count, 0, r.uncovered) = Cardinality(Lines(r.path))
    /\ \A n \in DOMAIN Resolved(r.path) :
         (n \in Lines(r.path) /\ ~Reached(r.path, n)) <=>
           \E i \in DOMAIN r.uncovered : r.uncovered[i].start <= n /\ n <= r.uncovered[i].end
    /\ \A i \in 1 .. Len(r.uncovered) - 1 : r.uncovered[i].end + 1 < r.uncovered[i + 1].start

\* At the end, a selected path is missing only if its file is, or is empty.
PathsAreReported ==
  Done => {r.path : r \in reports} =
            {m.path : m \in {x \in Written : x.kind = "mapping" /\ x.path \in filter
                                              /\ Resolved(x.path) \notin {None, <<>>}}}

\* A report comes unless a range of a selected file ends more than one line
\* before it starts and above the file's last line: an empty range, or one that
\* lies past the end, is no obstacle.
OnlyInvertedPanics ==
  /\ pc = "panicked" =>
       \E m \in Written : m.kind = "mapping" /\ m.path = path
         /\ \E i \in DOMAIN m.ranges :
              m.ranges[i] # <<>> /\ m.ranges[i][2] + 1 < m.ranges[i][1] /\ m.ranges[i][2] < Len(blank)
  /\ Done => \A m \in ToSet(Selected) : \A i \in DOMAIN m.ranges :
       m.ranges[i] # <<>> /\ Resolved(m.path) \notin {None, <<>>} =>
         m.ranges[i][1] <= m.ranges[i][2] + 1 \/ m.ranges[i][2] >= Len(Resolved(m.path))

ReportAccounts == NodesAreSorted /\ LinesAreAccounted /\ PathsAreReported /\ OnlyInvertedPanics
=============================================================================
