------------------------------ MODULE Validation ------------------------------
(***************************************************************************)
(* The structural checks of `clayers validate` (validate.rs): ids unique    *)
(* over the files of a specification, relations and artifacts that refer to *)
(* ids it has.  The checks walk the files in order and report as they go.   *)
(*                                                                         *)
(* A file is a sequence of the elements that carry an id or a reference, or *)
(* Malformed: text no XML parser accepts.                                   *)
(***************************************************************************)
EXTENDS SequencesExt, FiniteSets, Naturals

CONSTANTS
  Specs,         \* the specifications to validate: sequences of files
  TypeIds,       \* ids that start with "type-": they name types, not elements
  None           \* an attribute that is absent

VARIABLES
  files,         \* the specification
  phase,         \* the check that runs
  at,            \* the file it is at
  seen,          \* id -> the file it was first found in
  ids,           \* the ids of all files
  errors         \* what was reported, in order

vars == <<files, phase, at, seen, ids, errors>>

Malformed == <<[kind |-> "malformed"]>>

\* An element: its id and xml:id, and what it refers to.
Plain(id) == [kind |-> "node", id |-> id, xmlId |-> None]
Relation(from, to, toSpec) ==
  [kind |-> "relation", id |-> None, xmlId |-> None, from |-> from, to |-> to, toSpec |-> toSpec]
Artifact(repo) == [kind |-> "artifact", id |-> None, xmlId |-> None, repo |-> repo]

Ids(e) == SelectSeq(<<e.id, e.xmlId>>, LAMBDA i : i # None)
AllIds(file) == UNION {ToSet(Ids(file[i])) : i \in DOMAIN file}

Init ==
  /\ files \in Specs
  /\ phase = IF files = <<>> THEN "no index" ELSE "well-formed"
  /\ at = 1
  /\ seen = [i \in {} |-> 0]
  /\ ids = {}
  /\ errors = <<>>

NextFile(after) ==
  IF at < Len(files) THEN at' = at + 1 /\ phase' = phase ELSE at' = 1 /\ phase' = after

CheckWellFormed ==
  /\ phase = "well-formed"
  /\ errors' = IF files[at] = Malformed THEN Append(errors, <<"malformed", at>>) ELSE errors
  /\ NextFile("ids")
  /\ UNCHANGED <<files, seen, ids>>

\* collect_ids: an id seen before is reported and stays with its first file.
CollectId(s, id) ==
  IF id \in DOMAIN s.seen
  THEN [s EXCEPT !.errors = Append(@, <<"duplicate", id, s.seen[id], at>>)]
  ELSE [s EXCEPT !.seen = [i \in DOMAIN @ \cup {id} |-> IF i = id THEN at ELSE @[i]]]

\* The variant a bug would be: a file starts with no ids seen.
CheckIdUniquenessPerFile ==
  LET found == FlattenSeq([i \in DOMAIN files[at] |-> Ids(files[at][i])])
      s == FoldLeft(CollectId, [seen |-> [i \in {} |-> 0], errors |-> errors], found)
  IN
  /\ phase = "ids"
  /\ files[at] # Malformed
  /\ seen' = s.seen
  /\ errors' = s.errors
  /\ NextFile("collect")
  /\ UNCHANGED <<files, ids>>

CheckIdUniqueness ==
  LET found == FlattenSeq([i \in DOMAIN files[at] |-> Ids(files[at][i])])
      s == FoldLeft(CollectId, [seen |-> seen, errors |-> errors], found)
  IN
  /\ phase = "ids"
  /\ files[at] # Malformed
  /\ seen' = s.seen
  /\ errors' = s.errors
  /\ NextFile("collect")
  /\ UNCHANGED <<files, ids>>

\* A file that does not parse ends the validation with an error of its own: the
\* list of findings, in which it is named, is not returned.
Fail ==
  /\ phase = "ids"
  /\ files[at] = Malformed
  /\ phase' = "failed"
  /\ UNCHANGED <<files, at, seen, ids, errors>>

CollectAllIds ==
  /\ phase = "collect"
  /\ ids' = ids \cup AllIds(files[at])
  /\ NextFile("references")
  /\ UNCHANGED <<files, seen, errors>>

Dangling(id) == id # None /\ id \notin ids

\* check_relation_refs and check_artifact_repo_refs.
BadReferences(e) ==
  CASE e.kind = "relation" ->
         IF e.toSpec # None THEN <<>>
         ELSE SelectSeq(<<<<"from", e.from>>, <<"to", e.to>>>>,
                        LAMBDA r : Dangling(r[2]) /\ r[2] \notin TypeIds)
    [] e.kind = "artifact" -> SelectSeq(<<<<"repo", e.repo>>>>, LAMBDA r : Dangling(r[2]))
    [] OTHER -> <<>>

CheckReferences ==
  LET is(kind, e) == e.kind = kind
      bad(kind) == FlattenSeq([i \in DOMAIN files[at] |->
                     IF is(kind, files[at][i]) THEN BadReferences(files[at][i]) ELSE <<>>])
  IN
  /\ phase = "references"
  /\ errors' = errors \o bad("relation") \o bad("artifact")
  /\ NextFile("done")
  /\ UNCHANGED <<files, seen, ids>>

Next ==
  \/ CheckWellFormed
  \/ CheckIdUniqueness
  \/ Fail
  \/ CollectAllIds
  \/ CheckReferences

Spec == Init /\ [][Next]_vars

-------------------------------------------------------------------------------
(***************************************************************************)
(* Properties                                                              *)
(***************************************************************************)
Occurrences == {<<f, i>> : f \in DOMAIN files, i \in 1..3}
Elements == {o \in Occurrences : o[2] \in DOMAIN files[o[1]]}
ElementAt(o) == files[o[1]][o[2]]
Uses(id) == {o \in Elements : id \in ToSet(Ids(ElementAt(o)))}

\* A specification that passes has, over all its files and in whatever order
\* they are read, no id twice, and every local reference finds its element; one
\* that does not pass is told every id that is there more than once and every
\* reference that finds nothing, in each file it occurs.
ReportIsComplete ==
  phase = "done" =>
    LET known == UNION {AllIds(files[f]) : f \in DOMAIN files}
        local == {o \in Elements : ElementAt(o).kind = "relation" /\ ElementAt(o).toSpec = None}
    IN
    /\ \A id \in known :
         Cardinality(Uses(id)) - 1
           = Cardinality({k \in DOMAIN errors : errors[k][1] = "duplicate" /\ errors[k][2] = id})
    /\ \A o \in local :
         LET e == ElementAt(o) IN
         /\ e.from \notin known \cup TypeIds \cup {None} <=> <<"from", e.from>> \in ToSet(errors)
         /\ e.to \notin known \cup TypeIds \cup {None} <=> <<"to", e.to>> \in ToSet(errors)
    /\ \A o \in Elements : ElementAt(o).kind = "artifact" =>
         (ElementAt(o).repo \notin known \cup {None}
            <=> <<"repo", ElementAt(o).repo>> \in ToSet(errors))
    /\ \A k \in DOMAIN errors : errors[k][1] = "duplicate" => errors[k][3] <= errors[k][4]

===============================================================================
