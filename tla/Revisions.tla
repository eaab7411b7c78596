------------------------------ MODULE Revisions ------------------------------
(***************************************************************************)
(* Trees, commits, tags and refs (repo.rs, refs.rs, object.rs) and what is  *)
(* read of them: revision names and queries (query/mod.rs), the history of  *)
(* a commit (graph.rs) and the files two trees differ in (diff.rs).         *)
(*                                                                         *)
(* An object is known by its place in `objects` (its hash), so objects with *)
(* the same content have the same one.  A commit and a tag carry a time, so *)
(* two made at different times differ.                                      *)
(***************************************************************************)
EXTENDS SequencesExt, FiniteSetsExt, Naturals

CONSTANTS
  Docs,          \* documents in the store
  Matches(_),    \* doc -> what an expression finds in it: a number, or Unknown
  Unknown,       \*   when the document lacks a prefix of the expression
  Paths,         \* file paths, sorted, without repetition
  Branches,
  TagNames,
  Repositories,  \* what is there at first: new ones, and clones: [objects, refs]
  MaxObjects     \* bound on the number of trees, commits and tags

VARIABLES
  objects,       \* the trees, commits and tags, by hash
  refs           \* ref name -> hash

vars == <<objects, refs>>

Nothing == 0
Hashes == 1..Len(objects)

HeadRef == <<"HEAD">>
BranchRef(b) == <<"heads", b>>
TagRef(t) == <<"tags", t>>
SetRef(r, h) == [q \in DOMAIN refs \cup {r} |-> IF q = r THEN h ELSE refs[q]]
MoveBranch(b, h) ==
  [q \in DOMAIN refs \cup {BranchRef(b), HeadRef} |->
     IF q \in {BranchRef(b), HeadRef} THEN h ELSE refs[q]]
GetRef(r) == IF r \in DOMAIN refs THEN refs[r] ELSE Nothing

Is(h, kind) == h \in Hashes /\ objects[h].kind = kind

(***************************************************************************)
(* Repo: build_tree, commit, create_branch, delete_branch, create_tag.      *)
(***************************************************************************)
\* TreeObject::new sorts the entries by path.
Tree(files) ==
  [kind |-> "tree",
   entries |-> LET paths == SelectSeq(Paths, LAMBDA p : p \in DOMAIN files)
               IN [i \in DOMAIN paths |-> [path |-> paths[i], doc |-> files[paths[i]]]]]

BuildTree(files) ==
  /\ Len(objects) < MaxObjects
  /\ Tree(files) \notin Range(objects)
  /\ objects' = Append(objects, Tree(files))
  /\ UNCHANGED refs

Commit(branch, tree) ==
  LET tip == GetRef(BranchRef(branch))
      hash == Len(objects) + 1
  IN
  /\ hash <= MaxObjects
  /\ objects' = Append(objects, [kind |-> "commit", tree |-> tree,
                                 parents |-> IF tip = Nothing THEN <<>> ELSE <<tip>>])
  /\ refs' = MoveBranch(branch, hash)

Parents(h) == IF objects[h].kind = "commit" THEN ToSet(objects[h].parents) ELSE {}
Ancestors(from) ==
  LET reach[n \in 0..Len(objects)] ==
        IF n = 0 THEN {from}
        ELSE reach[n - 1] \cup UNION {Parents(h) : h \in reach[n - 1]}
  IN reach[Len(objects)]

\* Repo::merge (RepoSync has its steps): histories that have nothing in common
\* are refused, a branch that has the other is up to date, one that the other has
\* moves to it; else a commit with both parents is made.
Merge(branch, other, tree) ==
  LET hash == Len(objects) + 1
      ours == refs[BranchRef(branch)]
      theirs == refs[BranchRef(other)]
  IN
  /\ Ancestors(ours) \cap Ancestors(theirs) # {}
  /\ theirs \notin Ancestors(ours)
  /\ IF ours \in Ancestors(theirs) THEN refs' = MoveBranch(branch, theirs) /\ UNCHANGED objects
     ELSE /\ hash <= MaxObjects
          /\ objects' = Append(objects, [kind |-> "commit", tree |-> tree, parents |-> <<ours, theirs>>])
          /\ refs' = MoveBranch(branch, hash)

CreateBranch(branch, target) ==
  /\ refs' = SetRef(BranchRef(branch), target)
  /\ UNCHANGED objects

DeleteBranch(branch) ==
  /\ refs' = [r \in DOMAIN refs \ {BranchRef(branch)} |-> refs[r]]
  /\ UNCHANGED objects

CreateTag(tag, target) ==
  LET hash == Len(objects) + 1 IN
  /\ hash <= MaxObjects
  /\ objects' = Append(objects, [kind |-> "tag", target |-> target])
  /\ refs' = SetRef(TagRef(tag), hash)

Init == \E r \in Repositories : objects = r.objects /\ refs = r.refs

Next ==
  \/ \E D \in SUBSET Range(Paths) : \E files \in [D -> Docs] : BuildTree(files)
  \/ \E b \in Branches, h \in Hashes : Is(h, "tree") /\ Commit(b, h)
  \/ \E b, c \in Branches, h \in Hashes :
       /\ b # c /\ {BranchRef(b), BranchRef(c)} \subseteq DOMAIN refs
       /\ Is(h, "tree")
       /\ Merge(b, c, h)
  \/ \E b \in Branches, h \in Hashes : Is(h, "commit") /\ CreateBranch(b, h)
  \/ \E b \in Branches : DeleteBranch(b)
  \/ \E t \in TagNames, h \in Hashes : CreateTag(t, h)

Spec == Init /\ [][Next]_vars

(***************************************************************************)
(* Revision names: a full ref, HEAD, or a short name, branches first.       *)
(***************************************************************************)
ResolveRevspec(spec) ==
  IF Len(spec) = 2 \/ spec = HeadRef THEN GetRef(spec)
  ELSE IF GetRef(BranchRef(spec[1])) # Nothing THEN GetRef(BranchRef(spec[1]))
  ELSE GetRef(TagRef(spec[1]))

\* A tag points at an older object, a commit holds its tree.
FollowToTree(hash) ==
  LET follow[h \in Hashes] ==
        CASE objects[h].kind = "tree"   -> h
          [] objects[h].kind = "commit" -> objects[h].tree
          [] objects[h].kind = "tag"    -> follow[objects[h].target]
  IN follow[hash]

Entries(h) == objects[FollowToTree(h)].entries

\* follow_to_document: the first document of the tree, an error if it is empty.
FollowToDocument(h) == IF Entries(h) = <<>> THEN Unknown ELSE Entries(h)[1].doc

(***************************************************************************)
(* Queries.  A document that lacks a prefix of the expression is skipped,   *)
(* and one with no match is not listed.                                     *)
(***************************************************************************)
Answers(entry) == Matches(entry.doc) # Unknown
Lists(entry, files) ==
  /\ files = {} \/ entry.path \in files
  /\ Answers(entry)
  /\ Matches(entry.doc) > 0

QueryByDocument(spec, files) ==
  SelectSeq(Entries(ResolveRevspec(spec)), LAMBDA e : Lists(e, files))

AggregateResults(entries) == FoldLeft(LAMBDA n, e : n + Matches(e.doc), 0, entries)

Query(spec) == AggregateResults(QueryByDocument(spec, {}))

\* The variant a bug would be: refs are told apart by the object they name.
QueryRefsByTarget(order) ==
  FoldLeft(LAMBDA found, r :
    LET tree == FollowToTree(refs[r]) IN
    IF \E f \in ToSet(found) : refs[f.ref] = refs[r] THEN found
    ELSE Append(found, [ref |-> r, tree |-> tree, doc |-> FollowToDocument(refs[r]),
                        count |-> AggregateResults(SelectSeq(Entries(refs[r]), Answers))]),
    <<>>, order)

\* query_refs over the refs of one kind in the order list_refs gave them: a tree
\* that an earlier ref led to is not queried again.
QueryRefs(order) ==
  FoldLeft(LAMBDA found, r :
    LET tree == FollowToTree(refs[r]) IN
    IF tree \in {f.tree : f \in ToSet(found)} THEN found
    ELSE Append(found, [ref |-> r, tree |-> tree, doc |-> FollowToDocument(refs[r]),
                        count |-> AggregateResults(SelectSeq(Entries(refs[r]), Answers))]),
    <<>>, order)

(***************************************************************************)
(* walk_history: breadth first from a commit, each commit once.             *)
(***************************************************************************)
\* Mutant of Unvisited: only the commits already listed are left out.
UnvisitedListed(w, parents) == SelectSeq(parents, LAMBDA p : p \notin ToSet(w.result))

\* The parents that no commit before them had.
Unvisited(w, parents) == SelectSeq(parents, LAMBDA p : p \notin w.visited)

WalkHistory(from, limit) ==
  LET step(w) ==
        IF w.queue = <<>> \/ Len(w.result) >= limit THEN w
        ELSE LET h == w.queue[1]
                 new == IF objects[h].kind = "commit"
                        THEN Unvisited(w, objects[h].parents)
                        ELSE <<>>
             IN [queue |-> Tail(w.queue) \o new,
                 visited |-> w.visited \cup ToSet(new),
                 result |-> IF objects[h].kind = "commit"
                            THEN Append(w.result, h) ELSE w.result]
      walk[n \in 0..Len(objects)] ==
        IF n = 0 THEN [queue |-> <<from>>, visited |-> {from}, result |-> <<>>]
        ELSE step(walk[n - 1])
  IN walk[Len(objects)].result

(***************************************************************************)
(* diff_trees, and what its changes say to do to the first tree.            *)
(***************************************************************************)
PathsOf(tree) == {e.path : e \in ToSet(tree.entries)}
DocAt(tree, path) == (CHOOSE e \in ToSet(tree.entries) : e.path = path).doc

DiffTrees(a, b) ==
  {[type |-> "modified", path |-> p, old |-> DocAt(a, p), new |-> DocAt(b, p)] :
     p \in {q \in PathsOf(a) \cap PathsOf(b) : DocAt(a, q) # DocAt(b, q)}}
  \cup {[type |-> "removed", path |-> p, old |-> DocAt(a, p)] : p \in PathsOf(a) \ PathsOf(b)}
  \cup {[type |-> "added", path |-> p, new |-> DocAt(b, p)] : p \in PathsOf(b) \ PathsOf(a)}

Apply(a, changes) ==
  LET at(p) == {c \in changes : c.path = p}
      kept == {p \in PathsOf(a) \cup {c.path : c \in changes} :
                 \A c \in at(p) : c.type # "removed"}
  IN Tree([p \in kept |-> IF at(p) = {} THEN DocAt(a, p) ELSE (CHOOSE c \in at(p) : TRUE).new])

-------------------------------------------------------------------------------
(***************************************************************************)
(* Properties                                                              *)
(***************************************************************************)
RefsOf(kind) == {r \in DOMAIN refs : r[1] = kind}
Trees == {FollowToTree(refs[r]) : r \in DOMAIN refs}

\* A query over all branches or tags counts every file of every revision, and
\* the files of a revision that several refs lead to, through whatever tags and
\* commits, only once; a query by one name gives what that revision holds.
QueriesCountOnce ==
  \A kind \in {"heads", "tags"} : \A order \in SetToSeqs(RefsOf(kind)) :
    LET found == QueryRefs(order) IN
    /\ {f.tree : f \in ToSet(found)} = {FollowToTree(refs[r]) : r \in RefsOf(kind)}
    /\ FoldLeft(LAMBDA n, f : n + f.count, 0, found)
         = FoldSet(LAMBDA t, n : n + AggregateResults(SelectSeq(objects[t].entries, Answers)),
                   0, {FollowToTree(refs[r]) : r \in RefsOf(kind)})
    /\ \A f \in ToSet(found) : Query(f.ref) = f.count

\* A history lists the commit and its ancestors, each once though several paths
\* of merges lead to it, each other one after a child of it, and, whatever the
\* limit, the first of the same list.
HistoryIsComplete ==
  \A h \in Hashes : objects[h].kind = "commit" =>
    LET full == WalkHistory(h, MaxObjects) IN
    /\ ToSet(full) = Ancestors(h)
    /\ IsInjective(full)
    /\ full[1] = h
    /\ \A i \in 2..Len(full) : \E j \in 1..(i - 1) : full[i] \in Parents(full[j])
    /\ \A n \in 0..MaxObjects : WalkHistory(h, n) = SubSeq(full, 1, IF n < Len(full) THEN n ELSE Len(full))

\* The changes between any two trees turn the one into the other.
DiffIsPatch ==
  \A a, b \in Hashes : Is(a, "tree") /\ Is(b, "tree") =>
    Apply(objects[a], DiffTrees(objects[a], objects[b])) = objects[b]

\* The three readers of a repository give what it holds, after every sequence
\* of commits, merges, branches and tags.
RevisionsAnswer == QueriesCountOnce /\ HistoryIsComplete /\ DiffIsPatch

===============================================================================
