# A verification of Clayers

Clayers keeps XML specifications in a content-addressed, git-like repository:
objects named by the hash of their canonical form, commits with parents, named
refs, and push and pull between stores that may be in memory, in a SQLite file
or behind a WebSocket. Around it are a command line with a working copy, a
server, tools that read a specification (drift, coverage, validation, search,
diff), a bridge for stores written in Python, and an orchestrator that runs all
of this as jobs. This directory holds TLA+ models of these parts, the TLC runs
that check them, and proofs for TLAPS. Paths below are relative to the
repository; `repo/` stands for `clayers-core/crates/clayers-repo/src/`, `cli/`
for `clayers-core/crates/clayers/src/`, `spec/` for
`clayers-core/crates/clayers-spec/src/`.

Run one check with `tlc -config MCRepoSync.cfg MCRepoSync.tla`, one proof with
`tlapm RepoSync_proofs.tla`.

## Inventory

| Part | State | Operations | How it interacts |
|---|---|---|---|
| storage traits (`repo/store/mod.rs`) | objects, refs | `get`, `put` in a transaction, `commit`, `rollback`, refs with `cas_ref`, `subtree` | what every other part is written against |
| in-memory store (`repo/store/memory.rs`) | three maps, each behind its own `RwLock`; pending puts | the traits | any number of tasks on one store |
| SQLite store (`repo/store/sqlite.rs`) | tables `objects` and `refs`; pending puts; a mutex round the connection | the traits | server, command line and pushing peers open the same file |
| commit graph (`repo/graph.rs`) | none | `common_ancestor`, `walk_history` | asked by merge and by `FastForwardOnly` |
| repository (`repo/repo.rs`, `refs.rs`) | none of its own | `build_tree`, `commit`, branches, tags, `merge`, `log`, `diff_trees` | a sequence of store calls, an await between any two |
| sync (`repo/sync.rs`) | none | `transfer_objects`, `sync_ref`, `sync_refs`, conflict policies | between two stores, each with other users |
| three-way merge (`repo/merge.rs`, `conflict.rs`, `diff.rs`) | none | file table, strategies, element merge, divergence documents | called by `Repo::merge` |
| objects, import, export (`repo/object.rs`, `hash.rs`, `import.rs`, `export.rs`) | the objects of a store | collect a document's objects, write them, rebuild it | every command that reads or writes files |
| queries (`repo/query/mod.rs`) | none | resolve a revision, query trees, refs, all commits | command line and server |
| remote server (`repo/store/remote/server.rs`) | connections, subscribers, open transactions | one handler per message, broadcast, disconnect | one reader loop per connection |
| remote client (`repo/store/remote/client.rs`) | `pending` and `streams` maps, notification queue, transaction handles | every store call as a request; subtree streams | a reader task dispatches by message id |
| transport (`websocket.rs`) | queues of the writer and reader tasks, tokens | send, receive, close | joins client and server, may be lost |
| working copy (`cli/repo/*.rs`) | tables `staging` and `working_copy`, `current_branch`, files | add, rm, status, diff, commit, checkout, merge, push, pull, revert | the repository calls above, then its own tables through a second connection |
| setup (`cli/repo/init.rs`, `schema.rs`) | directory, database, tables, schema version | init, clone, migrate | two processes may do it at once |
| serve (`cli/serve.rs`) | repositories, a validator with its tokens, or none | hot reload | replaces what the server resolves |
| adopt (`cli/adopt.rs`, `gitignore.rs`) | planted files, marked blocks in files of the user | adopt, `--update`, `--check` | the user edits the same files |
| traceability (`spec/drift.rs`, `fix.rs`, `artifact.rs`) | hashes recorded in a specification | drift, `--fix-node-hash`, `--fix-artifact-hash` | specification and source files change independently |
| reports (`spec/coverage.rs`, `connectivity.rs`, `neighbors.rs`, `validate.rs`) | none | one report each | read a specification |
| files (`spec/discovery.rs`, `assembly.rs`, `chunker.rs`) | none | list files, combine, chunk | several passes over files on disk |
| schema conversion, XML diff (`clayers-xml/src/rnc/`, `diff.rs`) | none | print a compact grammar; compare two documents | pure, recursive |
| search index (`clayers-search/src/`) | rows, vectors, configuration and a lock file | build, query | processes share the directory |
| Python bridge (`clayers-py/src/repo/py_store.rs`) | none; the state is the Python object's | the traits | callers of the Rust library |
| orchestrator jobs (`orchestrator/src/job-store.ts`, `runner.ts`, `server.ts`) | jobs, events, listeners, child processes | submit, run, stream, query, review | HTTP clients, child processes |
| orchestrator watcher (`watcher.ts`) | snapshots of a directory | poll, debounce, run | the jobs it starts write into the directory |

Hard behaviours: several processes on one store, with every await a place to
interleave; calls that fail or are killed half way; locks taken in more than
one order; statements that fail inside a transaction and the retry after it;
connections that are lost with calls in flight; files read twice while somebody
edits them; events that arrive after the end. `PROJECT.json` lists each as a
hazard at its line, with the properties on it.

What makes each part correct:

- a store: a commit is one step, an acknowledged commit is stored and indexed,
  nobody blocks for ever; a store in Python gives back what it was given, and
  is as good a store as its Python object;
- the commit graph: the answer is a common ancestor, `None` means there is
  none, the search ends;
- repository and sync: what a ref names is there with its whole history, and a
  branch loses a commit only where the policy or a race explains it;
- merge: no version disappears without a trace, a deletion needs both sides, the
  sides are symmetric, a change of one side is taken;
- import, export, queries: what went in comes out; an answer is about the
  objects a revision names;
- server: only the owner uses a transaction and none outlives its connection;
  a reader hears of every later change, and of nothing else;
- client: a call gets its own, complete answer, and it ends; a transaction has
  stored what its caller was told;
- working copy: the table is the tree of the current branch, files and status
  tell the truth, a commit takes what is staged and nothing else;
- tools: a report is what a reader of the same inputs would say; a writer
  changes what it should and keeps the rest;
- search: rows and vectors belong together, also after a build was cut off;
- jobs: a stream misses no event and ends; a job lives by its life cycle;
- watcher and serve: what a job writes causes no run, and a change arrives.

## Modules

| Module | Models |
|---|---|
| `StoreObjects` | constants of the stores; `Flush`, what a commit does to the object table |
| `StoreContract` | the abstract store of the traits |
| `MemoryStore` | `memory.rs` lock by lock, its theorems and a lemma on `Flush` |
| `SqliteStore` | `sqlite.rs` statement by statement, several connections |
| `PyStore` | `py_store.rs`: calls and conversions across the bridge |
| `CommitGraph` | ancestors, `common_ancestor` as an operator, and lemmas on both |
| `AncestorSearch` | `common_ancestor` step by step |
| `Repository` | the abstract repository: references before referrers |
| `RepoSync` | `repo.rs` and `sync.rs`, one action per store call, any number of processes and stores |
| `MergeTrees` | the file table, `merge_trees` path by path, the element merge, the divergence documents |
| `ObjectTree` | `import.rs`, `export.rs`: documents, objects and hashes |
| `Revisions` | trees, commits, tags, revision names, queries, `log`, `diff_trees` |
| `RemoteServer` | the server's handlers, broadcast, transactions and disconnect |
| `RemoteCalls` | one client: calls, reader task, connection, answers |
| `RemoteTransaction` | a transaction handle, its client, the wire and the server's table |
| `RemoteStore` | a store behind a server: what its callers are answered |
| `WorkingCopy` | the commands of the working copy, statement by statement |
| `RepoSetup` | init, clone and migrate, statement by statement |
| `Serve` | the reload thread and its tasks |
| `Adopt` | adopt, update and check over planted files and marked blocks |
| `Traceability`, `CodeCoverage`, `SpecGraph`, `Neighbors`, `Validation`, `SpecFiles` | the tools over a specification |
| `XmlDiff`, `XsdToRnc` | the algorithms of `clayers-xml` |
| `SearchIndex` | builds and queries of several processes on one index |
| `JobLife` | the abstract life of a job |
| `Orchestrator` | runner, job store, event streams |
| `Watcher` | snapshots, debounce, runs |
| `Workbench` | registers by which one run looks at several components (see Runs) |
| `*_proofs` | theorems and lemmas about the module named |
| `MC*` | instances for TLC |

`MemoryStore`, `SqliteStore` and `PyStore` extend `StoreObjects`; `MemoryStore` and
`PyStore` instantiate `StoreContract` with their pending puts as the staged ones.
`RepoSync` extends `CommitGraph` and instantiates `Repository` under the identity
mapping of their common variables. `WorkingCopy` extends `CommitGraph` and takes
what a merge makes of one file from its constants `MergeStrategies` and
`FileMergedBy`, which `MCWorkspace` gives the file table of `MergeTrees`.
`MCServer` puts the server and the database file under it side by side.
`Orchestrator` instantiates `JobLife`, and `Watcher` starts jobs of
`JobLife`: what is checked of the watcher holds for whatever implements it. `Workbench`
serves only the MC modules. Operators commented "Mutant of" are changed forms of
the definition named: each is a bug that the properties have to notice.

### Correspondence

**Objects and forms.** An element has an identity (exclusive canonical form)
and an inclusive hash that depends on the namespaces around it. A *form* is an
inclusive hash; `IdentityOf` maps it to its identity. Objects that are not
elements have no inclusive hash; they behave like a form nobody looks up.

**MemoryStore.** `CommitLockObjects`, `CommitLockIndex` and `CommitFlush` are
the three parts of `commit()` between its awaits, `CommitCancelled` a future
dropped at the second await, the `Lookup*` actions `get_by_inclusive_hash`. The
operations under a single guard are single actions. `pending` keeps its puts
after the code has cleared them, when the transaction can no longer be used.

**SqliteStore.** A connection's mutex is `busy[c]`. `CommitStart` includes the
`drain(..)`, which empties `pending` before the statements run: `rest` is what
the drain has yet to yield. `CommitErr` may strike at any statement; rusqlite
rolls back when the transaction is dropped. SQLite itself is modelled from its
use: a statement outside a transaction commits by itself, and from the first
write of a transaction to its end no other connection writes (`MayWrite`).
`Crash` ends the process behind a connection.

**PyStore.** A trait method takes the GIL, calls Python, converts the result and
lets the GIL go: one step. `From*` and `To*` are the conversions of
`py_objects.rs`, kind by kind; the `walk` is the subtree stream. The handle of a
transaction only passes calls on, so nothing in the bridge refuses a call after
`commit` or `rollback`: `Put`, `Commit` and `Rollback` are there for finished
transactions too, and a commit may raise, or write only a first part of what was
put. `pyTx` is history: what the calls have come to. What the traits ask of the
Python object is the step predicate `PythonObeys`; it is an assumption about code
outside the repository and no action has it as a guard. Refs and `get` of the
Python object are taken to do what they are asked.

**AncestorSearch.** A round of the loop is two turns; `Pop`, `Visit` (one per
parent) and `EndTurn` make up a turn, `Pass` is a turn with an empty queue and
`Exhausted` the test at the top. Objects are immutable, so the loads between the
steps read nothing that can change.

**RepoSync.** `op[p]` is the stack frame of the call a process is in: the ref
value it read (`seen`), the commit it will write (`new`), the branches left to
sync. `commit` is `StartCommit` (the caller's `build_tree`), `ReadTip`,
`PutCommit`, `MoveRef`, `MoveHead`; `merge` is `StartMerge`, `ReadTheirs`,
`FindBase`, then a fast-forward or `MergeTrees` and `PutCommit`, then `MoveRef`
and `MoveHead`; `sync_refs` is `StartSync`, per branch `ReadSource`,
`ReadTarget`, `Transfer`, `Resolve`, `MoveRef`, and `EndSync`. `Abort` is an
error or a killed process at any point. A tree stands for the tree object and
the documents under it. Which tree a merge produces is left open here
(`MergeTrees` has it). In `Transfer` the reads of both stores and the one
transaction are one step: source objects are immutable and never removed, and
writing an object twice changes nothing.

**MergeTrees.** One action per path that `merge_trees` takes from its hash set,
in any order. `Agreed`, `Resolve` and `MergedFile` are the table of present and
absent versions. The
element merge is a recursive function over small documents: children keyed by
id, or by their occurrence among the like, as `key_children` does.

**ObjectTree.** A hash is the sequence of bytes it is taken of, so that two
objects share one exactly when the code would hash the same bytes; this is how
the shared hash of a comment and a text is in the model. Comments and texts of
the inputs are spelled alike; `Spoiled` says which documents that changes.

**Revisions.** An object is its place in `objects`. Trees, commits and tags are
made by the actions; names, queries, the history and the diff of two trees are
operators over what is there. `Merge` does what `Repo::merge` does with two tips:
it refuses histories that have nothing in common, does nothing, moves the branch,
or makes a commit.

**RemoteServer.** A handler is the sequence `Resolve`, `ReadOld`, `WriteRef`,
`Snapshot`, `Send` of one connection; between two of them other connections'
handlers run. `TxPut`, `TxCommit` and `TxRollback` hold the transaction table's
mutex and are one step. The reader loop ends between two messages only
(`EndLoop`), and `disconnect` is `EndLoop`, `Unsubscribe` and `RollBack`, each
under its own lock. `log` and `since` are history variables.

**RemoteCalls.** `Register` precedes `SendMessage` as in `request()`; `Dispatch`
is the body of the reader's loop and `ReaderStops` its `break`. `outgoing` and
`incoming` stand for the channel, the socket and the network of each direction;
`LoseConnection` drops any part of what is under way.

**RemoteTransaction.** One handle is one caller: a call is a request put on the
wire and the wait for its reply, and the caller may stop waiting
(`GiveUp`) or drop the handle, after which the detached task sends a rollback
when it gets to run. The server's side is its transaction table alone.

**RemoteStore.** A call is sent (`Call`), taken by the connection's reader loop
(`Take`, `Refuse`), handled (`Read`, `Write`, or one `Walk` per object of a
subtree) and its reply read (`Dispatch`), which as the client's `match` accepts
some replies and makes an error of all others.

**WorkingCopy.** One command at a time; each is a chain of statements through
`op.pc`, with a step wherever another connection or a file is touched. `Crash`
ends a command between any two steps and `Receive` is another clone pushing to
the database. `edited` and `disturbed` are history: which files the user changed
since the table was written, and whether the table may be behind the branch.
`diff` is `Differing`: the files with another hash in which the XML diff sees a
change; the constant `Alike` says in which pairs of documents it sees none.

**RepoSetup.** Every durable step of init, clone and migrate (directory, file,
table by table, meta row by meta row) is an action; two processes interleave
and may be killed between any two.

**Serve.** `Thread` is the debounce loop of the watcher thread, each reload a
task with two steps (repositories, then tokens). `validator` is set once, by
`Start`, from the tokens of the file as it is then. `Watch` may fail, which the
command takes as a warning: `unwatched` is a server that reads its file no more.

**Adopt.** A command computes the list of its writes when it starts and does
them one by one (`todo`). A file is a sequence of lines with markers, and the user
adds and removes any of them, markers too. `Amend` is the agent file's way to
find a block, `Splice` that of `.gitignore`; they differ when markers are no pair.
`theirs` is history: which lines were the user's after the last edit, all those
outside the block if the markers were a pair (or none), else those above the first.

**The tools over a specification.** `Traceability` runs one command per action,
as nothing else runs meanwhile but the user's editor between commands;
`SpecFiles` reads a file per action, with edits in between. A range written
backwards can end drift, `--fix-artifact-hash` and coverage with a panic, in `Traceability` as exit
status 101 and in `CodeCoverage` as the step `"panicked"`. `CodeCoverage`,
`SpecGraph`, `Neighbors`, `Validation`, `XmlDiff` and `XsdToRnc` go through
their input in the order of the code's loops, and their properties state what
the result must be without those loops.

**SearchIndex.** Rows of `meta.sqlite` are written one by one, the vectors and
the configuration whole; the lock file is taken, goes stale and is reclaimed in
steps of their own.

**Orchestrator.** One action per callback of the event loop with the promise jobs
that follow it, which is the unit that nothing can interrupt there. What a command
does is a choice of its exit code. An event carries `last`, whether the status was
terminal when listeners were told of it, as that decides whether `streamEvents`
ends the response. The `mkdir` at `runner.ts:192`, which ends the job like a step
that fails but leaves no step behind, is taken to succeed. The review of a job is
kept as the places of the events `sendJobReview` reads it from.

**Watcher.** Reading a directory is a list and then a stat per file, so files
change between the two. The job it starts is one of `JobLife`.

## Runs

| Run | Instance | Shows |
|---|---|---|
| `MCMemoryStore` | 2 transactions of up to 2 puts, 3 forms of 2 identities, 1 reader | the contract is implemented; what was committed stays findable by every form and no look-up dangles; look-ups and commits finish |
| `MCAncestorSearch` | every graph of 5 commits with at most 2 parents | the invariant of the proof, soundness, completeness, the lowest ancestor where nothing is merged, agreement with the operator, termination |
| `MCRepoSync` | a clone and a process on the origin: all calls of both, 1 branch, 3 commits, fast-forwards only; or what the clone makes, merges and pushes alone: 2 branches, 3 policies, 4 commits of which the last is a merge's | contract, complete refs, loss needs a race, the invariant of the proof; with merge commits, partial and forced pushes |
| `MCRepoRace` *violation* | 2 clones of an origin | a fast-forward-only push drops another |
| `MCServer` | 2 connections changing and reading a ref twice; 2 connections with 2 transactions; 2 processes on one file with 2 transactions | no missed update, no leak, owner only, no orphans; commits are whole and, at the first attempt, stored |
| `MCSqliteRetry` *violation* | the file of `MCServer` alone | a retried commit says Ok and stores nothing |
| `MCWorkspace` | working copy of 2 paths, 2 branches and 3 documents, of which two look alike to the XML diff; every triple of small documents to merge; every small document to import, with comments spelled like texts; revisions of a new repository, of two branches that split and meet again, and of two with nothing in common; 2 processes setting up | table, files, staging and status agree; merges lose nothing; exports are imports; setups are whole |
| `MCWorkingCopyPull` *violation* | the working copy of `MCWorkspace`, without incidents | a pull that fails half way makes the next commit take back what it pulled |
| `MCTools` | every small specification with ranges of all sorts, pair of documents, schema; sessions of adopt with every edit of the user, and of the search index | reports are true, writers are faithful, search is sound, builds repair |
| `MCClients` | 1 job with 1 viewer; a call and two streams; 1 transaction of up to 5 calls; 2 clients of a store; a store in Python that does what it likes with its transactions; the watcher with 2 jobs; serve with 2 writes | callers are told what happened, whatever is lost; jobs implement the abstract one; Python gives back what it was given, and keeps the contract in the steps in which it does what the traits ask; no job causes another; what is served is the last good configuration |
| `MCServeTokens` *violation* | serve of `MCClients` alone | a server that was started without tokens admits everyone, whatever tokens the file has later |
| `MCProcesses` | 1 job, the watcher with 2 jobs, a call and a stream, 1 transaction, 2 connections, serve with 2 writes | streams end, gone clients are let go, changes arrive |

**One run, several components.** `Workbench`, which `MCTools`, `MCWorkspace` and
`MCClients` extend, declares a variable `tool` and registers `r1`, `r2`, ...;
`tool` is chosen in the initial state and says which component the behaviour is
about, and that component is instantiated with the registers as its variables. The
state space of such a run is the sum, not the product, of the components' and each
of its properties asks the same question of every component (`ReportsAreTrue`:
does a report say what a reader of the same inputs would?). The constant `Tools`
narrows a run to some of them. The variable `scenario` of `MCRepoSync` does the
same for two sets of calls: its next-state relation takes steps of `RepoSync`
only, and `"calls"` and `"branches"` each leave some out. The components that
interact are not put together this way but by `INSTANCE` and a common state:
`RepoSync` over stores and processes, `Watcher` over `JobLife`,
`RemoteTransaction` and `RemoteStore` with both ends of the wire.

### Bounds

`MaxPuts`: two puts are needed for one form to replace another and for a commit to
be half written. Five commits are the fewest for a merge whose sides meet at two
depths. In `RepoSync` the set `Commits` bounds the commits ever made: two are
enough for a race on a branch, three for a race and a push, four for a merge
commit (root, two sides, merge). `MaxObjects` of `Revisions` is counted from an
empty repository (four) or from a clone (six): the diamond in which a commit could
be listed twice takes four commits and two trees. `MaxWrites` bounds the ref
changes of a repository: two make an order that can be reversed. `MaxTx` bounds
transactions: two, so that one can be another's. `MaxItems`: two, so that a stream
can be cut between items.

`WorkingCopy`: three documents, so that an edit is seen by `diff` or is not;
three commits (`MaxCommits`: the two of a clone and a new one),
four commands or edits (`MaxOps`: enough for edit, add, commit and a command on
top, or a checkout in between) and one incident (`MaxIncidents`: a command cut
off or a foreign push; the properties that exempt disturbed states need one, and
`disturbed` stays set from then on). `MaxEdits`, `MaxBuilds`, `MaxCommands` and
`MaxCrashes` bound what users and crashes do in the tools, search, setup and
adopt; two of a kind are what a race takes. Documents have up to two children,
two texts apart: enough for a pair of like children to be shifted by one.
`MaxDepth` is how deep two grammars are compared, one level deeper than any cycle
of the schemas offered. `Debounce` of two polls has a change seen, seen again and
settled. `MaxCalls` of a transaction: five are begin, put, commit, its retry and a
rollback.

`SYMMETRY` is used for branches, connections, transactions, processes and the
values of the search index, in runs without liveness properties. A merge racing
with a commit is not in these bounds: one scenario of `MCRepoSync` races commits,
pushes and pulls on one branch, the other merges two branches in one process;
both end in the same `MoveRef`. The theorems about `RepoSync` cover it.

Deadlock checking is off where the environment may run out of moves:
connection ids are given out once, calls and commands are bounded, and a tool
that has reported is done. In `MCMemoryStore`, `MCAncestorSearch` and `MCRepoSync`
it is on. That nobody waits for ever is in the other runs
what the liveness properties say.

### Fairness

tokio polls every task that can run, so a step that stays enabled is taken
(`WF`) once a request is being handled. Waiting for a tokio `RwLock` gets strong
fairness, as its waiters are queued in order. The event loop of Node runs every
callback that is due, and a child process ends (`WF` of `Resume` and `Exit`);
the watcher goes on polling (`WF` of `WatcherStep`); the thread and the tasks of
serve run. In the run `MCProcesses` a behaviour is about one component, so `WF` of
`Turn(i)`, the i-th fair action of whichever component it is, is that
component's own fairness. Users, clients, editors, crashes and lost connections
are under no fairness: nobody has to call, to leave or to fail. `RepoSync`,
`WorkingCopy` and `RepoSetup` have no liveness property, as any call may be cut
off anywhere.

## Disagreements found

Four have a run in which TLC shows the behaviour:

1. **A retried SQLite commit stores nothing.** `commit()` drains `pending`
   before the statements can fail (`sqlite.rs:361`); `store/mod.rs:159` promises
   that the caller may retry. Run `MCSqliteRetry`.
2. **Fast-forward-only is checked, then set** (`sync.rs:206`): a push between
   the check and `set_ref` is lost. Run `MCRepoRace`.
3. **A pull that fails on one branch leaves the table of the other stale**
   (`remote.rs:216`): the next commit starts from that table on top of the moved
   branch, and so takes back what was pulled. Run `MCWorkingCopyPull`.
4. **Tokens that come later have no effect** (`serve.rs:243`): without tokens at
   the start the server gets no validator and stays open to everyone, though
   `clayers-core/clayers/clayers/remote-store.xml:512` says that the token set can
   be updated at runtime. (With a validator, a configuration without tokens admits
   nobody.) Run `MCServeTokens`.

The reader of the models should know of the following too. The properties are
stated so that they hold beside them, with the exemption said at the property,
and no run claims the contrary.

Stores and repository:
- `cas_ref` of SQLite is two statements (`sqlite.rs:284-302`), which the
  connection mutex orders within a process but not between two.
- SQLite keeps one inclusive hash per identity (`sqlite.rs:357`), the in-memory
  store all of them: only `MemoryStore` is asked to find every form.
- `common_ancestor` stops at the first commit both searches have seen
  (`graph.rs:50-64`). With merge commits that need not be a *lowest* common
  ancestor, as `graph.rs:14` has it; `ReturnsLowest` is stated for histories
  without merges. The fast-forward test is safe all the same: the answer is
  always a common ancestor, so it can only refuse, or give merge an older base.
- `Repo::commit` takes any tree hash, though `repo.rs:87` speaks of an error. The
  command line always builds the tree first, which is what the constant
  `TreesStored` says.
- A comment and a text with the same characters have the same hash
  (`hash.rs:42-44`), and so are one object; `prop_strategies.rs:699-701` says
  that no two distinct objects share a hash. The one that is put last replaces the
  other: every document that holds either may come back changed, and so may one
  that shares an element with a document in which that element has the comment.
  `ExportIsImport` claims nothing of these.
- Children without an id are matched by occurrence (`merge.rs:290-346`,
  `500-585`): one inserted in front shifts the ones behind it, and the merge pairs
  them wrongly.
- `query_refs` skips a ref whose *tree* another ref already had, where its comment
  speaks of the document (`query/mod.rs:288`). In JSON, one match that reads as
  a number is printed as a count, whatever was asked for (`cli.rs:1102`).

Remote protocol:
- Calls in flight hang when the connection is lost (`client.rs:54`), as their
  senders stay in the maps. The same fact is why a cut-off stream is never
  taken for a complete one: `ReaderClears`, the obvious repair for requests,
  breaks `OutcomeIsAnswer` for streams.
- A ref change and its broadcast are two steps (`server.rs:433`), so that the
  notifications of two connections can arrive in the other order.
  `NoMissedUpdate` is about arrival only. A subtree is buffered whole before it is sent.
- A `BeginTransaction` that the caller stopped waiting for stays open on the
  server until the connection ends. A commit that is asked for again after the
  caller stopped waiting for it is answered "transaction not found", though
  its objects are stored.

Working copy and setup:
- `diff` drops a file whose hash has changed when the XML diff finds no change in
  it or cannot parse it (`diff.rs:145-154`), which `status` still lists.
- Status does not list deleted files. A pull does not remove files that were
  deleted upstream.
- `checkout -b` of a branch that exists moves it; `checkout --orphan` of one that
  exists keeps its tip.
- The migration's `ALTER` and its version row are two statements
  (`schema.rs:122-125`): killed between them, every later command fails at the
  `ALTER`. Init and clone killed half way leave a directory or a file that the
  next attempt refuses (`init.rs:32`, `init.rs:105`).

Tools:
- Drift: the end line of a range is not compared when a fix replaces its hash;
  artifacts that cannot be read do not change the exit status; `--drift` beside a
  fix flag is ignored. Validation ends at a malformed file instead of listing it.
- A range that ends more than a line before it starts, above the end of its file,
  panics: in `coverage` (`coverage.rs:317`), and in drift and `--fix-artifact-hash`
  (`artifact.rs:235`), where the mappings behind it are not reached.
- `adopt --update` plants skills the user had declined.
- `adopt` and markers that are no pair: if the user removed the closing one, an
  update appends a block, the agent file is still out of date, and the next
  update cuts everything from the first opening marker to the new closing one,
  the user's lines with it (`adopt.rs:396-421`, `gitignore.rs:90-98`). A closing
  marker above the opening one makes the update of the agent file repeat the lines
  between them (`adopt.rs:398`). `UserTextKept` claims of such a file the lines
  above its first marker, and `UpdateSettles` all but the instructions in it.
- Chunks come from the first index of a directory only, and of nodes with the
  same id all get the lines of the first.
- The XML diff does not see reordered children nor what is inside an added
  element, and the command drops a file whose list of changes is empty.
- The compact grammar: the occurrence of a reference becomes an element
  (`convert.rs:259-270`); a choice drops nested sequences and wildcards; content
  given by restriction is dropped; recursion through three or more types is cut
  to nothing; a type of another layer that is expanded in place gets the prefix of
  the layer that refers to it (`convert.rs:338`, `466`), so that the grammar may allow
  what no schema does; patterns of two layers may get one name.
  `ConversionIsFaithful` excludes each of these in its formula (`Regular`,
  `InLongCycle`, `LayersMeetInPatterns`, `PatternsAreOwn`), and the inputs have the last two.
- A build of the search index that is cut off between the rows and the save
  (`index.rs:183-200`) leaves rows without vectors until somebody passes
  `--rebuild`; a query says it rebuilds when needed (`query.rs:57`). Two
  processes that meet a stale lock may both take it, and a build of more than
  ten minutes makes its own lock stale.
- Serve: the tasks of two reloads may overlap (`serve.rs:347`) and end with the
  older configuration. If the file cannot be watched, serve says so and goes on
  without reloads (`serve.rs:258-262`).
- Python: `PyTransaction` passes every call on (`py_store.rs:325-368`); that calls
  after commit or rollback MUST return Err (`store/mod.rs:140-142`, `163-165`) is
  left to the Python object.
- Watcher: with `--no-stream` the baseline is taken while the job still runs, so
  that its output starts the next one, against `watcher.ts:66-69`.

## Proofs

Eight modules hold theorems; each proof below is for every value of the constants
that the named assumptions admit. No proof is about a bound: `MaxOps`, `MaxTx` and
the like are any natural numbers.

| Theorem | Module | Property of a run |
|---|---|---|
| `IndexStaysSound`, `MemoryStoreIsStore` | `MemoryStore` | `IndexIsSound`, `ImplementsContract` |
| `AcknowledgedIsStored`, `CommitsAreWhole` | `MCServer_proofs` | `StoredUnlessRetried`, `CommitIsWhole` |
| `ServerTellsReaders`, `ServerKeepsApart`, `ServerLeavesNoTransaction`, `OnlyOwnersDecide` | `MCServer_proofs` | `NoMissedUpdate`, `NoLeak`, `NoOrphan`, `OwnerDecides` |
| `SearchIsInvariant`, `SearchIsSound`, `SearchIsComplete`, `SearchFindsLowest` | `AncestorSearch_proofs` | `SearchInv`, `ResultIsCommon`, `NoneMeansDisjoint`, `ReturnsLowest` |
| `InvHolds`, `RefsStayComplete`, `RepoSyncIsRepository`, `LossIsARace` | `RepoSync_proofs` | `RepoInv`, `RefsComplete`, `ImplementsRepository`, `LossNeedsRace` |
| `TableStaysCurrent`, `CopyTellsTruth`, `StagingStaysExact` | `WorkingCopy_proofs` | `TableCurrent`, `CopyIsTold`, `StagingIsExact` |
| `JobsAreTold`, `JobsLiveOnce` | `Orchestrator_proofs` | `JobIsTold`, `ImplementsJobLife` |
| `CallsGetTheirAnswers`, `TransactionsHold`, `RemoteAnswersAsTheStore` | `MCClients_proofs` | `OutcomeIsAnswer`, `TransactionsAreExact`, `RemoteIsStore` |
| `PythonIsFaithful`, `PythonKeepsTheContract` | `MCClients_proofs` | `BridgeIsFaithful`, `PythonIsStore` |
| `LastGoodIsServed`, `NoJobTriggers` | `MCClients_proofs` | `ServesLastGood`, `NoSelfTrigger` |

**`MemoryStore`.** The index is read under one lock and the objects under
another, so `IndexIsSound` alone is not inductive. `IInv` has the locks
(`LocksExclude`: a commit that writes has both maps to itself; `CommitsAreOpen`),
that every row holds a form of its own identity (`Addressed`), that the index
never has a key whose identity has no row (`IndexLeads`), and what a look-up
remembers between its two locks (`SoughtIsKey`, `FoundIsSought`). A commit writes
the last of several puts of an identity (`FlushStores`); that there is a last one
is `FiniteMax`, from the finiteness of the positions. For
`MemoryStoreIsStore` a commit of the contract is `CommitFlush`, and every other
step of a commit or a look-up changes nothing of it.

**`MCServer_proofs`, the file.** A behaviour of `SqliteStore` under any number of
processes. `FileInv` adds to `StoredUnlessRetried` that what a commit has drained
and what it has written are together what was put (`QueueIsWhole`) and that a
commit under way is of an open transaction of its own connection
(`CommitsAreOpen`); what a commit writes is `FileFlush`. `FileConstants` says that
`None` is none of the values.

**`MCServer_proofs`, the server**, assuming that `None` is no value and no
connection (`NoneIsNothing`), that `Ops` are operations of the protocol
(`OpsKnown`) and that the bounds are numbers (`BoundsAreNatural`).
`NoMissedUpdate` says that a change made since a connection read a ref is in its
notifications or still with a handler; it does not say why the handler will get
there. `IInv` adds that: a handler under way belongs to an open connection and a
repository it has resolved (`Working`), a reader is subscribed
(`ReadersSubscribe`), the change a handler tells of is in the log under its own
name, and the list it has taken includes whoever read before that change
(`Telling`). A connection that has not been made is in no list (`Fresh`), or a new
one would find old notifications; ids not yet given out name no transaction
(`Numbered`), without which `NoOrphan` fails at `BeginTransaction`; the log is no
longer than its bound (`LogBounded`), which types the index into it. Most actions
are quiet for most of `IInv`, which the lemma `QuietStep` says once.

**`CommitGraph`** has the lemmas on parents and ancestors, and
`CommonAncestorIsCommon`: what the recursive function answers is an ancestor of
both commits. Induction is not available as a theorem with an operator parameter;
`NatSetInduction` is the same for a set of numbers, from the well-foundedness of
finite subsets, and `Visits` and `Rounds` unfold the recursive functions into
sequences of states by hand.

**`AncestorSearch_proofs`.** The results alone are not inductive: that the search
answers `None` rightly depends on what it has visited. `SearchInv` says, while the
loop runs, that each side's set has its tip, holds ancestors of it only, and is
closed under parents except for the commits still queued or being visited, and
that the two sets are disjoint. When both queues are empty both sets are closed,
so each holds all ancestors of its tip, and disjoint sets mean no common ancestor
(`SearchIsComplete`); a result is always in both sets, or a popped commit of one
in the other (`SearchIsSound`). For these the graph need not be acyclic or finite.
`SearchFindsLowest` needs both (`HashesAreFinite`, `HistoriesAreAcyclic`: a commit
is hashed after its parents) and two more invariants: `LineInv`, that where nobody
has two parents a side has been everywhere between its tip and what it knows, so
that the first commit both know is lowest; and `FollowInv`, that the state between
two turns is the next of the rounds of the operator `CommonAncestor`, which is why
the result is its value.

**`RepoSync_proofs`** assumes `TreesStored` and what the module assumes of its
constants (commits, trees, branches and `None` are different things; commits are
finitely many). `RefsComplete` is not inductive: a process carries hashes between
its store calls. `RepoInv` adds that every store is complete (`R!Complete`), that
refs name stored commits, and `Held`: what a call remembers at each step is in
the store where the next step needs it. As nothing is ever removed from a store,
other processes cannot invalidate it. From it follow `RefsStayComplete`, through
the lemma that a complete store holds all that can be reached from its commits,
and `RepoSyncIsRepository`: each step is a step of `Repository` or changes none of
its variables. `LossIsARace` needs `MoveInv`: at the step that moves a ref, the
commit the call has read there is an ancestor of the one it will write, unless
the policy was to overwrite. It comes from the parents of the commit that was
made, from the answer of `CommonAncestor` (`CommonAncestorIsCommon`), and from
commits never losing an ancestor; a ref that then takes a commit out of a history
must have changed after it was read.

**`WorkingCopy_proofs`** assumes that a session starts from a repository with the
branch it is on (`SessionsStart`), that what others push are trees
(`IncomingAreTrees`) and that `None` and `Deleted` are no documents. The properties
speak of the time between commands, and a command may be cut off anywhere, so
the invariant follows the command: `UnderWay` (which branch it is about and
whether that branch has moved), `TableKnown` (at which steps the table is behind,
and what it then holds; a commit that was recorded stays in the history of its
branch) and `FilesKnown` (against which tree the files are right, up to what the
user edited, at each step). What `diff` shows follows for any `Alike`, as the table is
the tip's tree. `StagingStaysExact` is an action property that uses
them: a commit's tree is the table with what is staged.

**`Orchestrator_proofs`** assumes of the inputs their type (`InputsAreJobs`) and
that `None` is none of the values (`NoneIsNothing`). A step of a job is a chain of
small updates, so the lemmas go update by update: `Keeps` is what the
uninteresting ones preserve, `Reached` says that a chain is still under way and
`Stepped` that it has arrived. A job either runs, and `Stage` says what its events
have told so far by what it waits for (no specification looked for; found, with
no check; the first *k* checks), or it has ended, and `EndsAt` says that the event
of its status is the first that was told after the end and that no later one is a
status. `IssuesAreExplained` is `Stage` at its end; a late "close" of a command
that failed to start counts as an issue only in a job that failed, which is why
`HasEnded` lets `late` be non-empty there alone. `ViewerInv` says that a stream is
a prefix of the events, all of them while it is open, and reaches the end once
it is ended; with `EndsAt` the status its client reports is the job's.

**`MCClients_proofs`** has one section for each component of `MCClients`; the
constants of every component are those of `MCClients`, so that the theorems are
about any number of calls, handles, clients, objects and jobs. A section gives
the registers the names its component has for them, states the inductive
invariant, proves one lemma for each action and ends with the theorem.

- *Calls*, assuming that streams are calls (`StreamsAreCalls`). `CallsInv` says
  what a message under way tells of its call: a call whose answer is not there has
  its id in the map or what it waits for in its channel (`Waited`), and an "end"
  comes behind exactly the items that its reader has not had (`Whole`). `Whole` is
  why a connection that breaks cannot make part of a subtree look like all of it:
  a loss leaves a prefix of what was under way, and a prefix has no "end"
  without its items.
- *Transactions*, assuming that `None` is no message and no set of objects
  (`NoneIsNoTransaction`). A request goes out once under a number of its own
  (`Sending`), before its "begin" is taken the server knows nothing of the handle
  (`TxBegins`), what was put is in the server's table as far as its answers say,
  whether or not they have come (`Holds`, by `Accepted`), and an answer under way
  says what will still be so when it arrives (`Answers`). The caller may have
  left, so that an answer can meet a handle that no longer waits for it; `Asked`
  and `Retries` bound what such a request may have done: nothing is stored that
  the caller neither was told of nor was left unsure of.
- *The storage traits over the protocol*, assuming that requests are those of the
  protocol (`RequestsAreAsked`: what they name is an object or a ref, and objects
  point to objects). `RpcInv` relates the calls to the history of the refs
  (`Logged`). An answer that was right for a moment between the call and its
  sending stays right while the history goes on, because the history only
  grows (`RightStays`): `Right` says this of a reply on the wire as it does of one
  that was read. A request nobody has acted on has changed nothing (`Open`), a walk
  has lost nothing of what its root reaches (`WalksIn`), and the items of a
  subtree that were read and those still on the wire are together all of it
  (`Rest`). A client's notifications, read or not, are no more than the changes
  (`Noted`).
- *The store in Python*, assuming that every object has what its kind has and is
  hashed with its links (`FormsAreObjects`). The lemma `ComesBack` is about the
  conversions: every kind of object that goes to Python comes back as it was,
  field by field. With it `PyInv` says that the table in Python is the image of
  objects under their own hashes, whatever Python makes of its transactions; so
  `PythonIsFaithful` assumes nothing of it. `PythonKeepsTheContract` is about one
  step after any history: if Python does in it what the traits ask
  (`PythonObeys`), it is a step of the contract on the objects as the Rust side
  sees them. That Python does so is not claimed. A walk has visited what its stack
  and its visited set account for (`WalksOn`), also where children are shared or
  repeated.
- *Serve*: `SvInv` says that while reloads have not overlapped, at most one is
  under way, and it brings what was read last. Who is admitted follows from the
  tokens if the server has a validator; that it has one only if it was started
  with tokens is in the theorem, and what is promised beyond that is refuted by
  `MCServeTokens`.
- *The watcher*, assuming that `None` is no signature (`NoneIsNoSignature`): until
  the user edits something, every walk sees the files as they are and the
  baseline is the files (`WaInv`), since jobs write only while the watcher waits
  for one, and the baseline is read after that.

`RemoteStore` and `PyStore` write the few sequence operators they need with
`SubSeq`: each module they would extend becomes part of every proof about an
instance of them.

What is out of the prover's reach stays with TLC:
- everything under fairness: `Terminates`, `CallsFinish`, `BuildsRepair`,
  `StreamsEnd`, `ClientsAreLetGo`, `ChangesArrive`;
- what the recursive operators over documents and grammars compute, where the
  induction is over data: `MergeLosesNothing` and `RepositoryIsWhole` of
  `MCWorkspace`, `ReportsAreTrue`, `WritersAreFaithful` and `SearchIsSound` of
  `MCTools`. These modules instantiate the element merge, the documents and the
  grammars, and TLAPS has no arithmetic where a recursive operator is in reach.

Every other property of a passing run is stated by a theorem.

## Not modelled

Canonical XML, SHA-256, catalog look-up and XSLT (text to text; the models take
hashes as given, distinct for distinct content, save where the code itself makes
them equal); validation against XSD, which a library does; what an XPath matches
within a document; the handshake and the JSON encoding of the transport and the
HTTP routing of serve and the orchestrator; the Python bindings that only
delegate; the model generator and the local query, which keep no state; printing
and the wording of reports; embeddings and distances in search.

## Plan

Done, in this order: stores, commit graph, repository and sync with their
proofs, remote server with its proofs, remote client, merge, working copy and
setup, objects and revisions, orchestrator and watcher, serve, the tools, search,
the Python bridge.

Since then: the in-memory store as an implementation of the contract, the database
file, the loss of history, the lowest ancestor, the working copy, the job server,
the remote calls, transactions and store, the Python bridge, serve and the watcher
were proved.

Next, most important first:

1. The part of `MergeLosesNothing` that is about the file table, for any set of
   paths, from the lemma on one path; the element merge, which is recursive, would
   have to be a constant of that module, as it is of `WorkingCopy`.
2. The lock of `SearchIndex` and the statements of `RepoSetup`, in an MC module
   without recursive operators, so that `SearchIsSound` and the part of
   `RepositoryIsWhole` about set-up can be proved for any number of processes.
3. `WorkingCopy` with two clones of one origin, instead of an environment that
   pushes.
4. `RemoteServer` under `RemoteStore`: the tables of the server and what its callers
   are answered in one state.
