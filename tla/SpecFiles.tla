------------------------------ MODULE SpecFiles -------------------------------
(***************************************************************************)
(* From a directory to a specification (discovery.rs, assembly.rs), and     *)
(* from a specification to the chunks of the search index (chunker.rs) or   *)
(* the combined document of a KnowledgeModel (knowledge_model.rs).  Every   *)
(* file is read several times, and may change between two readings.         *)
(*                                                                         *)
(* A file is the elements below its root in document order, each with its   *)
(* depth; the element at position i stands on line i + 1.                   *)
(***************************************************************************)
EXTENDS SequencesExt, FiniteSets, Naturals

CONSTANTS
  Paths,          \* the paths of the directory, in order
  Contents(_),    \* what may be written at a path
  MaxEdits,       \* bound on the changes made while a command reads
  None

VARIABLES
  disk,           \* path -> its content, or None
  edits,
  use,            \* "chunks" or "model"
  step,           \* what is read next
  files,          \* the files of the specification, as discovered
  at,             \* the file being read
  spans,          \* id -> <<file, first line, last line>>, from the first pass
  combined,       \* the elements of the combined document
  chunks,         \* the chunks extracted
  seen            \* path -> every content it had since the command started

vars == <<disk, edits, use, step, files, at, spans, combined, chunks, seen>>

\* A file: does it parse, has it the root spec:clayers, its spec:index, its elements.
File(items) == [parses |-> TRUE, clayers |-> TRUE, index |-> None, items |-> items]
Part(index, items) == [File(items) EXCEPT !.index = index]
Malformed == [File(<<>>) EXCEPT !.parses = FALSE]

Node(kind, depth, id) ==
  [kind |-> kind, depth |-> depth, id |-> id, type |-> None, from |-> None, to |-> None, href |-> None]
FileRef(depth, href) == [Node("file", depth, None) EXCEPT !.href = href]
Relation(type, from, to) ==
  [Node("relation", 1, None) EXCEPT !.type = type, !.from = from, !.to = to]

Exists(p) == p \in DOMAIN disk /\ disk[p] # None

-----------------------------------------------------------------------------
(* Discovery.                                                              *)

IsIndexFile(p) ==
  /\ disk[p].parses /\ disk[p].clayers
  /\ \E i \in DOMAIN disk[p].items : disk[p].items[i].kind = "file" /\ disk[p].items[i].depth = 1

\* resolve_index: any other file may point at an index, whatever that file is.
IndexOf(p) ==
  IF IsIndexFile(p) THEN {p}
  ELSE IF disk[p].parses /\ Exists(disk[p].index) THEN {disk[p].index} ELSE {}

FindIndexFiles ==
  LET found == UNION {IndexOf(p) : p \in {q \in ToSet(Paths) : Exists(q)}}
  IN  SelectSeq(Paths, LAMBDA p : p \in found)

\* Mutant of FileRefs: only the root's own children are looked at.
FileRefsOfRoot(items) ==
  LET refs == SelectSeq(items, LAMBDA e : e.kind = "file" /\ e.depth = 1 /\ Exists(e.href))
  IN  [i \in DOMAIN refs |-> refs[i].href]

FileRefs(items) ==
  LET refs == SelectSeq(items, LAMBDA e : e.kind = "file" /\ Exists(e.href))
  IN  [i \in DOMAIN refs |-> refs[i].href]

\* A file that does not exist is skipped, one listed twice is there twice.
DiscoverSpecFiles(index) ==
  LET refs == FileRefs(disk[index].items)
  IN  IF index \in ToSet(refs) THEN refs ELSE Append(refs, index)

\* The chunker takes the first index, a KnowledgeModel all of them.
Indexes == IF use = "chunks" /\ FindIndexFiles # <<>> THEN <<Head(FindIndexFiles)>> ELSE FindIndexFiles

Fail == step' = "failed" /\ UNCHANGED <<files, at, spans, combined, chunks>>

DiscoverFrom(indexes, next) ==
  /\ IF \E i \in DOMAIN indexes : ~disk[indexes[i]].parses THEN Fail
     ELSE /\ files' = FlattenSeq([i \in DOMAIN indexes |-> DiscoverSpecFiles(indexes[i])])
          /\ step' = IF files' = <<>> THEN "done" ELSE next
          /\ at' = 1
          /\ UNCHANGED <<spans, combined, chunks>>
  /\ UNCHANGED <<disk, edits, use, seen>>

\* extract_chunks, and the constructor of KnowledgeModel: both need an index.
Discover ==
  /\ step = "discover"
  /\ \/ Indexes # <<>> /\ DiscoverFrom(Indexes, IF use = "chunks" THEN "spans" ELSE "open")
     \/ Indexes = <<>> /\ Fail /\ UNCHANGED <<disk, edits, use, seen>>

\* KnowledgeModel.combined_xml looks for the files again.
CombinedXml ==
  /\ step = "open"
  /\ DiscoverFrom(Indexes, "assemble")

\* read_to_string and parse, of a file that may be gone by now.
Reads(p) == Exists(p) /\ disk[p].parses

-----------------------------------------------------------------------------
(* The chunker's first pass: where each id stands.                         *)

\* The last element of the subtree of items[i], and the ancestors of it.
LastUnder(items, i) == CHOOSE j \in i .. Len(items) :
  /\ \A k \in i + 1 .. j : items[k].depth > items[i].depth
  /\ j = Len(items) \/ items[j + 1].depth <= items[i].depth

Under(items, i, j) == i < j /\ j <= LastUnder(items, i)

WithId(items, id) == {i \in DOMAIN items : items[i].id = id}

\* The scan takes the children from the last to the first: of the elements with
\* one id it records the one it visits last.
SpanOf(p, items, id) ==
  LET i == CHOOSE x \in WithId(items, id) : \A y \in WithId(items, id) \ {x} :
             Under(items, y, x) \/ (y > x /\ ~Under(items, x, y))
  IN  <<p, i + 1, LastUnder(items, i) + 1>>

IdsOf(items) == {items[i].id : i \in DOMAIN items} \ {None}

SpanFile ==
  /\ step = "spans"
  /\ IF ~Reads(files[at]) THEN Fail
     ELSE LET items == disk[files[at]].items IN
          /\ spans' = [i \in IdsOf(items) |-> SpanOf(files[at], items, i)] @@ spans
          /\ IF at < Len(files) THEN at' = at + 1 /\ step' = step ELSE at' = 1 /\ step' = "assemble"
          /\ UNCHANGED <<files, combined, chunks>>
  /\ UNCHANGED <<disk, edits, use, seen>>

-----------------------------------------------------------------------------
(* The combined document, and the second pass over it.                     *)

\* The root of the combined document, cmb:spec; it has no id.
CombinedRoot == "spec"

\* Roots are dropped, their children moved below the one new root.
AssembleFile ==
  /\ step = "assemble"
  /\ IF ~Reads(files[at]) THEN Fail
     ELSE /\ combined' = combined \o disk[files[at]].items
          /\ IF at < Len(files) THEN at' = at + 1 /\ step' = step
             ELSE at' = at /\ step' = IF use = "chunks" THEN "walk" ELSE "done"
          /\ UNCHANGED <<files, spans, chunks>>
  /\ UNCHANGED <<disk, edits, use, seen>>

\* Mutant of Ancestors: an element is not taken off the stack when it ends.
AncestorsLeft(items, i) ==
  SelectSeq([j \in 1 .. i - 1 |-> j], LAMBDA j : items[j].depth < items[i].depth)

\* The elements items[i] stands under below the root, outermost first.
Ancestors(items, i) ==
  SelectSeq([j \in 1 .. i - 1 |-> j], LAMBDA j : Under(items, j, i))

\* collect_relations: the types of the relations from, or to, an id; the order
\* is that of the scan.
Types(items, side, id) ==
  LET ends == SelectSeq(items, LAMBDA e : e.kind = "relation" /\ e.type # None /\ e[side] = id)
  IN  [i \in DOMAIN ends |-> ends[Len(ends) + 1 - i].type]

Chunk(items, i) ==
  LET above == Ancestors(items, i) IN
  [id |-> items[i].id, span |-> spans[items[i].id], element |-> items[i].kind,
   content |-> SubSeq(items, i, LastUnder(items, i)),
   path |-> <<CombinedRoot>> \o [a \in DOMAIN above |-> items[above[a]].kind],
   ancestors |-> SelectSeq([a \in DOMAIN above |-> items[above[a]].id], LAMBDA id : id # None),
   outgoing |-> Types(items, "from", items[i].id),
   incoming |-> Types(items, "to", items[i].id)]

\* walk_chunks: an id that the first pass did not see has no chunk.
WalkChunks ==
  /\ step = "walk"
  /\ LET own == SelectSeq([i \in DOMAIN combined |-> i],
                          LAMBDA i : combined[i].id \in DOMAIN spans)
     IN  chunks' = [k \in DOMAIN own |-> Chunk(combined, own[k])]
  /\ step' = "done"
  /\ UNCHANGED <<disk, edits, use, files, at, spans, combined, seen>>

-----------------------------------------------------------------------------
Init ==
  /\ disk \in [ToSet(Paths) -> UNION {Contents(p) : p \in ToSet(Paths)} \cup {None}]
  /\ \A p \in ToSet(Paths) : disk[p] \in Contents(p) \cup {None}
  /\ edits = 0
  /\ use \in {"chunks", "model"}
  /\ step = "discover"
  /\ files = <<>> /\ at = 1
  /\ spans = [i \in {} |-> <<>>]
  /\ combined = <<>> /\ chunks = <<>>
  /\ seen = [p \in ToSet(Paths) |-> {disk[p]}]

\* An editor writes or deletes a file while the command reads.
Edit(p) ==
  /\ edits < MaxEdits /\ step \in {"open", "spans", "assemble"}
  /\ \E c \in (Contents(p) \cup {None}) \ {disk[p]} :
       /\ disk' = [disk EXCEPT ![p] = c]
       /\ seen' = [seen EXCEPT ![p] = @ \cup {c}]
  /\ edits' = edits + 1
  /\ UNCHANGED <<use, step, files, at, spans, combined, chunks>>

Next ==
  \/ Discover \/ CombinedXml \/ SpanFile \/ AssembleFile \/ WalkChunks
  \/ \E p \in ToSet(Paths) : Edit(p)

Spec == Init /\ [][Next]_vars

-----------------------------------------------------------------------------
Done == step = "done"
AtRest == Done /\ edits = 0
Elements == UNION {{<<p, i>> : i \in DOMAIN disk[p].items} : p \in ToSet(files)}
Item(x) == disk[x[1]].items[x[2]]
Once == /\ Len(files) = Cardinality(ToSet(files))
        /\ \A x, y \in Elements : Item(x).id = Item(y).id /\ Item(x).id # None => x = y

\* The specification of a directory at rest is what its index files list and
\* the index files themselves: no element of them is missing, and no other is in.
SpecIsListed ==
  LET Lists(i, p) == i = p \/ \E k \in DOMAIN disk[i].items : disk[i].items[k].href = p
      listed == {p \in ToSet(Paths) : Exists(p) /\ \E i \in ToSet(Indexes) : Lists(i, p)}
  IN  AtRest => ToSet(combined) = UNION {ToSet(disk[p].items) : p \in listed}

\* Of a directory at rest whose ids are unique, every element with an id
\* has one chunk: it names the element's file and lines, the elements it stands
\* under from the combined root down, with their ids, and the types of the
\* relations at both of its ends.
ChunksAreElements ==
  AtRest /\ use = "chunks" /\ Once =>
    /\ Len(chunks) = Cardinality({x \in Elements : Item(x).id # None})
    /\ \A k \in DOMAIN chunks : \E x \in Elements :
         LET items == disk[x[1]].items
             below == {j \in DOMAIN items : j > x[2] /\ \A m \in x[2] + 1 .. j :
                                              items[m].depth > Item(x).depth}
             above(d) == items[CHOOSE j \in 1 .. x[2] - 1 : /\ items[j].depth = d
                                 /\ \A m \in j + 1 .. x[2] - 1 : items[m].depth # d]
             parents == [d \in 1 .. Item(x).depth - 1 |-> above(d)]
             related(side) == {y \in Elements : Item(y).kind = "relation" /\ Item(y)[side] = Item(x).id}
             TypesOf(side, types) == /\ Len(types) = Cardinality(related(side))
                                     /\ ToSet(types) = {Item(y).type : y \in related(side)}
         IN  /\ chunks[k].id = Item(x).id
             /\ chunks[k].span = <<x[1], x[2] + 1, x[2] + 1 + Cardinality(below)>>
             /\ chunks[k].element = Item(x).kind
             /\ chunks[k].path = <<"spec">> \o [d \in DOMAIN parents |-> parents[d].kind]
             /\ chunks[k].ancestors = SelectSeq([d \in DOMAIN parents |-> parents[d].id], LAMBDA id : id # None)
             /\ TypesOf("from", chunks[k].outgoing) /\ TypesOf("to", chunks[k].incoming)

\* Whatever is edited meanwhile, a chunk's text was that of an element with its
\* id, and its lines were the lines of an element with its id.
ChunksWereElements ==
  Done => \A k \in DOMAIN chunks :
    /\ chunks[k].content[1].id = chunks[k].id
    /\ \E c \in seen[chunks[k].span[1]] \ {None} :
         /\ chunks[k].span[2] - 1 \in DOMAIN c.items
         /\ c.items[chunks[k].span[2] - 1].id = chunks[k].id

ExtractionIsFaithful == SpecIsListed /\ ChunksAreElements /\ ChunksWereElements
=============================================================================
