----------------------------- MODULE MCWorkspace -----------------------------
(***************************************************************************)
(* The command line's working copy, and beside it what the repository does *)
(* with documents: merge, import and export, revisions, and its setup.     *)
(***************************************************************************)
EXTENDS WorkingCopy, Workbench, SequencesExt, TLC

CONSTANTS Tools, d1, d2, d3, p1, p2

\* d2 and d3 differ in blank text, say, that the XML diff does not look at.
MCAlike(d, e) == {d, e} \subseteq {d2, d3}

MCIncoming == {[p \in Paths |-> d1], [p \in Paths |-> IF p = p1 THEN None ELSE d1]}

\* A new repository, and a clone of one whose branches differ.
MCHistories ==
  LET tree(S) == [p \in Paths |-> IF p \in S THEN d1 ELSE None]
  IN  { [commits |-> <<>>, branches |-> [b \in Branches |-> None]],
        [commits |-> <<NewCommit(<<>>, tree({p1})), NewCommit(<<1>>, tree({p2}))>>,
         branches |-> [b \in Branches |-> IF b = Main THEN 2 ELSE 1]] }

-----------------------------------------------------------------------------
(* The three-way merge.                                                    *)
CONSTANTS Workloads, Divergent, Conflict
TreeMerge == INSTANCE MergeTrees WITH
  IdAttr <- "id", Divergence <- Divergent,
  input <- r1, todo <- r2, entries <- r3, sidecars <- r4, autoMerged <- r5,
  conflicts <- r6, oursOnly <- r7, theirsOnly <- r8

\* What a merge makes of a file of the working copy.
MCStrategies == TreeMerge!Strategies
MCMergedFile(strategy, a, o, t, merged) == TreeMerge!MergedFile(strategy, a, o, t, merged)

\* A leaf has an optional id and up to two further attributes.
MergeLeaf(id, k, j) == TreeMerge!Element("item", [id |-> id, k |-> k, j |-> j], <<>>)
MergeDoc(children) == TreeMerge!Element("root", [id |-> None], children)
MergeLeaves ==
  {MergeLeaf(None, None, None), MergeLeaf(None, 1, None), MergeLeaf(None, 1, 1),
   MergeLeaf("x", 1, None), MergeLeaf("x", 2, None), TreeMerge!Text("text")}

\* One path, every triple of documents of up to two children, merged
\* automatically; two paths that are there or not, with a few contents, under
\* every policy.
MCWorkloads ==
  LET tree(d, e) == [p \in Paths |-> IF p = p1 THEN d ELSE e]
      contents == {None, MergeDoc(<<>>), MergeDoc(<<MergeLeaf("x", 1, None)>>),
                   MergeDoc(<<MergeLeaf("y", 1, None)>>)}
      overrides == <<[paths |-> {p1}, strategy |-> "Ours"], [paths |-> {p1, p2}, strategy |-> "Manual"]>>
      under(defaults, lists) == [default : defaults, overrides : lists]
  IN  { [trees |-> {tree(MergeDoc(c), None) : c \in BoundedSeq(MergeLeaves, 2)},
         policies |-> under({"AutoMerge"}, {<<>>})],
        [trees |-> {tree(d, e) : d \in contents, e \in contents \ {MergeDoc(<<>>)}},
         policies |-> under(TreeMerge!Strategies, {<<>>, overrides})] }

-----------------------------------------------------------------------------
(* Import and export.                                                      *)
CONSTANTS Imported, Comments
Objects == INSTANCE ObjectTree WITH
  Documents <- Imported, Markup <- {}, MaxImports <- 2, store <- r1, imported <- r2

\* What a document is written in: the same module without documents.
Xml == INSTANCE ObjectTree WITH
  Documents <- {}, Markup <- {}, MaxImports <- 0, store <- r1, imported <- r2

\* The comment <<"a">> is spelled like the text.
ImportLeaves == {Xml!Text(<<"a">>), Xml!PI(<<"c">>)} \cup {Xml!Comment(<<c>>) : c \in Comments}
ImportInner == {Xml!Element("e", <<>>)} \cup {Xml!Element("e", <<l>>) : l \in ImportLeaves}

\* A parser leaves no two texts side by side.
Parsed(children) ==
  \A i \in 1 .. Len(children) - 1 : ~(children[i].kind = "text" /\ children[i + 1].kind = "text")
MCImported ==
  [prologue : {<<>>, <<Xml!Comment(<<"a">>)>>, <<Xml!PI(<<"c">>)>>},
   root : {Xml!Element("r", s) :
             s \in {c \in BoundedSeq(ImportLeaves \cup ImportInner, 2) :
                      Parsed(c)}}]

-----------------------------------------------------------------------------
(* Trees, commits, tags, refs and queries.                                 *)
CONSTANT Unknown
NumberIn(doc) == CASE doc = "d0" -> Unknown [] doc = "d1" -> 0 [] doc = "d2" -> 2
NewRepository == [objects |-> <<>>, refs |-> [r \in {} |-> 0]]
Revs == INSTANCE Revisions WITH
  Docs <- {"d0", "d2"}, Matches <- NumberIn, Paths <- <<"x", "y">>, Branches <- {"main", "b"},
  TagNames <- {"main"}, Repositories <- {NewRepository}, MaxObjects <- 4, objects <- r1, refs <- r2

\* A clone whose two branches split and met again, and one whose branches have
\* nothing in common.
RevCommit(parents, tree) == [kind |-> "commit", tree |-> tree, parents |-> parents]
RevTree(d, e) ==
  [kind |-> "tree", entries |-> <<[path |-> "x", doc |-> d], [path |-> "y", doc |-> e]>>]
RevRefs(main, b) == (<<"heads", "main">> :> main) @@ (<<"heads", "b">> :> b) @@ (<<"HEAD">> :> main)
MCClones ==
  { [objects |-> <<RevTree("d2", "d0"), RevTree("d2", "d1"), RevCommit(<<>>, 1),
                   RevCommit(<<3>>, 1), RevCommit(<<3>>, 2)>>,
     refs |-> RevRefs(4, 5)],
    [objects |-> <<RevTree("d2", "d0"), RevTree("d2", "d1"), RevCommit(<<>>, 1), RevCommit(<<>>, 2)>>,
     refs |-> RevRefs(3, 4)] }
Clones == INSTANCE Revisions WITH
  Docs <- {"d2"}, Matches <- NumberIn, Paths <- <<"x", "y">>, Branches <- {"main", "b"},
  TagNames <- {"main"}, Repositories <- MCClones, MaxObjects <- 6, objects <- r1, refs <- r2

-----------------------------------------------------------------------------
(* init and clone, and the migration of the database.                      *)
Setup == INSTANCE RepoSetup WITH
  Procs <- {"p", "q"}, SourceRefs <- <<"dev", "main">>, MaxCommands <- 4, MaxCrashes <- 2,
  dir <- r1, db <- r2, tables <- r3, token <- r4, meta <- r5, refs <- r6, origin <- r7,
  files <- r8, tracked <- r9, kind <- r10, pc <- r11, commands <- r12, crashes <- r13

-----------------------------------------------------------------------------
\* A working copy no command has touched, for the behaviours of the others.
AtRest ==
  /\ files = EmptyTree /\ table = EmptyTree /\ staging = [p \in Paths |-> None] /\ current = Main
  /\ branches = [b \in Branches |-> None] /\ commits = <<>> /\ op = Idle
  /\ edited = {} /\ disturbed = FALSE /\ ops = 0 /\ incidents = 0

MCInit ==
  /\ tool \in Tools
  /\ IF tool = "working copy" THEN Init ELSE AtRest
  /\ \/ tool = "working copy" /\ Unused(0)
     \/ tool = "merge"     /\ TreeMerge!Init /\ Unused(8)
     \/ tool = "objects"   /\ Objects!Init   /\ Unused(2)
     \/ tool = "revisions" /\ Revs!Init      /\ Unused(2)
     \/ tool = "clones"    /\ Clones!Init    /\ Unused(2)
     \/ tool = "setup"     /\ Setup!Init     /\ Unused(13)

MCNext ==
  /\ \/ tool = "working copy" /\ Next /\ UNCHANGED registers
     \/ tool # "working copy" /\ UNCHANGED vars
          /\ \/ tool = "merge"     /\ TreeMerge!Next /\ StillUnused(8)
             \/ tool = "objects"   /\ Objects!Next   /\ StillUnused(2)
             \/ tool = "revisions" /\ Revs!Next      /\ StillUnused(2)
             \/ tool = "clones"    /\ Clones!Next    /\ StillUnused(2)
             \/ tool = "setup"     /\ Setup!Next     /\ StillUnused(13)
  /\ UNCHANGED tool

MCSpec == MCInit /\ [][MCNext]_<<tool, registers, vars>>

-----------------------------------------------------------------------------
\* A merge of two trees loses no version without a trace, deletes only what
\* both sides agree on, reports each path once, is the same from either side,
\* takes a change that one side made, and keeps every divergence findable
\* (merge.rs, conflict.rs).
MergeLosesNothing ==
  tool = "merge" =>
    /\ TreeMerge!TypeOK /\ TreeMerge!NoSilentLoss /\ TreeMerge!DeletionNeedsAgreement
    /\ TreeMerge!ReportedOnce /\ TreeMerge!ConflictsAreMutual
    /\ TreeMerge!OneSidedChangeWins /\ TreeMerge!DivergencesFound

\* What was imported is exported (import.rs, export.rs), revision names and
\* queries answer for the objects they name (query/mod.rs, diff.rs), and a
\* command of init, clone or migrate that succeeded left a whole repository
\* (init.rs, schema.rs).
RepositoryIsWhole ==
  /\ tool = "objects"   => Objects!ExportIsImport
  /\ tool = "revisions" => Revs!RevisionsAnswer
  /\ tool = "clones"    => Clones!RevisionsAnswer
  /\ tool = "setup"     => Setup!SetupIsWhole
=============================================================================
