---------------------------- MODULE Traceability ----------------------------
(* The artifact mappings of a specification (artifact.rs), drift detection   *)
(* (drift.rs) and the commands that recompute the stored hashes (fix.rs).    *)
(* A mapping relates a node of the specification to ranges of a file. Hashes *)
(* are taken as injective: a hash is what was hashed. `clayers artifact`     *)
(* (cli.rs) chooses what is run, and its exit status tells the outcome.      *)
EXTENDS Integers, Sequences, SequencesExt

CONSTANTS
  None,          \* an attribute that is absent, a node or a file that is
  Placeholder,   \* sha256:placeholder
  Texts, MaxLines,
  Shapes,        \* the ranges a mapping may have: sequences of line ranges
  MaxEdits

VARIABLES
  node,          \* the text of the mapped node, or None
  file,          \* the lines of the artifact, or None
  nodeHash,      \* the node-hash attribute of the mapping
  ranges,        \* its art:range elements: [lines, hash]
  edits,
  fixed,         \* the sides that were fixed since the last edit
  drifted,       \* what the last command was asked, if it looked for drift
  exit           \* its exit status

told == <<drifted, exit>>
vars == <<node, file, nodeHash, ranges, edits, fixed, told>>

\* An art:range with start-line and end-line, or neither.
Whole == <<>>

Init ==
  /\ node \in Texts /\ nodeHash \in {None, Placeholder}
  /\ file \in UNION {[1 .. n -> Texts] : n \in 1 .. MaxLines}
  /\ \E shape \in Shapes, hash \in {None, Placeholder} :
       ranges = [i \in DOMAIN shape |-> [lines |-> shape[i], hash |-> hash]]
  /\ edits = 0 /\ fixed = {} /\ drifted = FALSE /\ exit = 0

-----------------------------------------------------------------------------
(* Hashes (artifact.rs).                                                     *)

AtMost(n, lines) == IF n < Len(lines) THEN n ELSE Len(lines)

\* extract_line_range: a range may end, and start, behind the last line; line 0
\* is line 1.
Extract(lines, first, last) ==
  SubSeq(lines, IF first = 0 THEN 1 ELSE first, AtMost(last, lines))

\* Mutant of Panics: every range that is written backwards panics.
PanicsBackwards(r, lines) == r.lines # Whole /\ r.lines[2] < r.lines[1]

\* The slice of a range that starts in the file and ends before its start
\* panics, and takes the command with it.
Panics(r, lines) ==
  /\ r.lines # Whole
  /\ r.lines[1] <= Len(lines) /\ AtMost(r.lines[2], lines) < r.lines[1] - 1

HashOf(r, lines) ==
  IF r.lines = Whole THEN <<"file", lines>>
  ELSE <<"lines", Extract(lines, r.lines[1], r.lines[2])>>

Recorded(hash) == hash \notin {None, Placeholder}

-----------------------------------------------------------------------------
(* check_drift: the node first, then the ranges in order; the first          *)
(* difference is reported, and what is not recorded is passed over.          *)

\* collect_current_node_hashes: a node that is gone has no hash, and no drift.
CurrentHashes == {node} \ {None}

SpecDrifted == Recorded(nodeHash) /\ \E hash \in CurrentHashes : hash # nodeHash

Checked == {i \in DOMAIN ranges : Recorded(ranges[i].hash)}

\* The first range that says more than "no difference".
FirstDifference ==
  LET differs == {i \in Checked : Panics(ranges[i], file) \/ HashOf(ranges[i], file) # ranges[i].hash}
  IN  CHOOSE i \in differs : \A j \in differs : i <= j

DriftStatus ==
  IF SpecDrifted THEN "SpecDrifted"
  ELSE IF Checked # {} /\ file = None THEN "Unavailable"
  ELSE IF \A i \in Checked : ~Panics(ranges[i], file) /\ HashOf(ranges[i], file) = ranges[i].hash
  THEN "Clean"
  ELSE IF Panics(ranges[FirstDifference], file) THEN "Panicked"
  ELSE "ArtifactDrifted"

-----------------------------------------------------------------------------
(* Edits by the people who write the specification and the code.             *)

EditNode ==
  /\ edits < MaxEdits /\ edits' = edits + 1 /\ fixed' = {} /\ drifted' = FALSE /\ exit' = 0
  /\ node' \in (Texts \cup {None}) \ {node}
  /\ UNCHANGED <<file, nodeHash, ranges>>

EditFile ==
  /\ edits < MaxEdits /\ edits' = edits + 1 /\ fixed' = {} /\ drifted' = FALSE /\ exit' = 0
  /\ file' \in UNION {[1 .. n -> Texts] : n \in 1 .. MaxLines} \cup {None}
  /\ file' # file
  /\ UNCHANGED <<node, nodeHash, ranges>>

-----------------------------------------------------------------------------
(* fix.rs rewrites the text of the file that holds the mapping.              *)

\* The first element of the block with this start line, whatever its end.
AnchoredAt(rs, start) ==
  SelectInSeq(rs, LAMBDA r : r.lines # Whole /\ r.lines[1] = start)

\* Mutant of Replace: the first range of the mapping is rewritten, whatever its lines.
ReplaceFirst(rs, change) ==
  LET at == SelectInSeq(rs, LAMBDA r : r.hash = change.old)
  IN  IF at = 0 THEN rs ELSE [rs EXCEPT ![at].hash = change.new]

\* replace_hash_in_mapping: the old value must stand in the anchored element,
\* or, without lines, anywhere in the mapping. An absent attribute is looked
\* for as an empty one and not found.
Replace(rs, change) ==
  LET at == IF change.lines = Whole
            THEN SelectInSeq(rs, LAMBDA r : r.hash = change.old)
            ELSE AnchoredAt(rs, change.lines[1])
  IN  IF at = 0 \/ change.old = None \/ rs[at].hash # change.old THEN rs
      ELSE [rs EXCEPT ![at].hash = change.new]

\* What --fix-artifact-hash reports as fixed, in document order.
RangeChanges ==
  IF file = None THEN <<>>
  ELSE LET change(r) == [lines |-> r.lines, old |-> r.hash, new |-> HashOf(r, file)]
       IN  SelectSeq([i \in DOMAIN ranges |-> change(ranges[i])], LAMBDA c : c.old # c.new)

FixPanics == file # None /\ \E i \in DOMAIN ranges : Panics(ranges[i], file)

\* fix_artifact_hashes
RangesFixed == FoldLeft(Replace, ranges, RangeChanges)

\* Mutant of NodeHashFixed: only what drifted is fixed, so a placeholder stays.
NodeHashFixedRecorded == IF SpecDrifted THEN node ELSE nodeHash

\* fix_node_hashes: a node-hash that is absent stays absent.
NodeHashFixed == IF nodeHash = None \/ node = None THEN nodeHash ELSE node

-----------------------------------------------------------------------------
(* clayers artifact [--fix-node-hash] [--fix-artifact-hash] [--drift].       *)

\* The node's side is fixed first; a panic comes before the artifact's side
\* writes anything.
Fix(sides) ==
  LET killed == "artifact" \in sides /\ FixPanics
      done   == IF killed THEN sides \ {"artifact"} ELSE sides
  IN
  /\ sides # {}
  /\ nodeHash' = IF "node" \in done THEN NodeHashFixed ELSE nodeHash
  /\ ranges' = IF "artifact" \in done THEN RangesFixed ELSE ranges
  /\ fixed' = fixed \cup done /\ drifted' = FALSE /\ exit' = IF killed THEN 101 ELSE 0

\* A file that is not there is reported, and is no drift.
Drift ==
  /\ drifted' = TRUE
  /\ exit' = CASE DriftStatus = "Panicked" -> 101
               [] DriftStatus \in {"SpecDrifted", "ArtifactDrifted"} -> 1
               [] OTHER -> 0
  /\ UNCHANGED <<nodeHash, ranges, fixed>>

\* With a fix among the flags, --drift is not looked at.
CmdArtifact ==
  /\ Drift \/ \E sides \in SUBSET {"node", "artifact"} : Fix(sides)
  /\ UNCHANGED <<node, file, edits>>

Next == EditNode \/ EditFile \/ CmdArtifact

Spec == Init /\ [][Next]_vars

-----------------------------------------------------------------------------
(* Properties.                                                               *)

\* The anchor tells the ranges of the mapping apart.
DistinctStarts ==
  \A i, j \in DOMAIN ranges :
    i # j /\ ranges[i].lines # Whole /\ ranges[j].lines # Whole =>
      ranges[i].lines[1] # ranges[j].lines[1]

\* Once both sides were fixed and nothing was edited, no hash is left to fix
\* and no drift is reported, if every range has a hash attribute and the
\* ranges start on different lines; a --drift that exits 0 found every
\* recorded hash to be that of what is there; and a command is killed only where
\* a range of two lines or more is written backwards and its end lies in the
\* file, whatever is past the end.
FixSettles ==
  /\ DistinctStarts /\ (\A i \in DOMAIN ranges : ranges[i].hash # None) /\ fixed = {"node", "artifact"}
     => /\ RangeChanges = <<>> /\ exit = 0
        /\ DriftStatus = (IF file = None /\ Checked # {} THEN "Unavailable" ELSE "Clean")
        /\ node # None /\ nodeHash # None => nodeHash = node
  /\ drifted /\ exit = 0 /\ file # None
     => /\ \A i \in DOMAIN ranges : Recorded(ranges[i].hash) => ranges[i].hash = HashOf(ranges[i], file)
        /\ node # None /\ Recorded(nodeHash) => nodeHash = node
  /\ exit = 101
     => \E i \in DOMAIN ranges :
          ranges[i].lines # Whole /\ ranges[i].lines[2] + 1 < ranges[i].lines[1]
            /\ file # None /\ ranges[i].lines[2] < Len(file)
=============================================================================
