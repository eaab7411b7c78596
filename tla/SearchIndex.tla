---------------------------- MODULE SearchIndex -----------------------------
(* The semantic search index of a specification: build_or_update (index.rs)  *)
(* brings the three files of the sidecar up to date under a lock file, and a *)
(* query (query.rs) builds first and then reads them without the lock.       *)
(*                                                                           *)
(* meta.sqlite is written row by row; index.usearch and config.json are      *)
(* written whole at the end. A node is its text, which its hash stands for.  *)
EXTENDS Integers, FiniteSets, FiniteSetsExt

CONSTANTS
  None,
  Ids, Texts,
  Models,        \* embedding models
  Procs,         \* processes that run clayers search
  MaxEdits, MaxBuilds, MaxIncidents

VARIABLES
  spec,          \* the text of each node of the specification, or None
  meta,          \* rows by id: [text, key] or None
  index,         \* vectors by key: [id, text, model]
  config,        \* the model of the last build that ended, or None
  lock,          \* the process that made the lock file, or None
  stale,         \* the lock file is older than STALE_LOCK_SECS
  procs,         \* what each process does
  edits, builds, incidents,
  disturbed      \* a build was cut off, or ran beside another one

vars == <<spec, meta, index, config, lock, stale, procs, edits, builds, incidents, disturbed>>

NoRows == [id \in Ids |-> None]
Idle == [pc |-> "idle"]
At(p, pc) == procs[p].pc = pc
Goto(p, pc) == procs' = [procs EXCEPT ![p].pc = pc]
Building(p) == procs[p].pc \in {"open", "clean", "insert", "save", "config", "release"}

Init ==
  /\ spec \in [Ids -> Texts \cup {None}]
  /\ meta = NoRows
  /\ index = <<>>
  /\ config = None /\ lock = None /\ stale = FALSE
  /\ procs = [p \in Procs |-> Idle]
  /\ edits = 0 /\ builds = 0 /\ incidents = 0 /\ disturbed = FALSE

Edit(id) ==
  /\ edits < MaxEdits
  /\ \E text \in Texts \cup {None} : text # spec[id] /\ spec' = [spec EXCEPT ![id] = text]
  /\ edits' = edits + 1
  /\ UNCHANGED <<meta, index, config, lock, stale, procs, builds, incidents, disturbed>>

-----------------------------------------------------------------------------
(* The lock.                                                                 *)

\* clayers search index, with or without --rebuild, or a query.
Call(p, model, force, asks) ==
  /\ At(p, "idle") /\ builds < MaxBuilds
  /\ ~(force /\ asks)
  /\ builds' = builds + 1
  /\ procs' = [procs EXCEPT ![p] = [pc |-> "lock", model |-> model, force |-> force, asks |-> asks,
                                    chunks |-> NoRows, vectors |-> <<>>, todo |-> <<>>, raced |-> FALSE]]
  /\ UNCHANGED <<spec, meta, index, config, lock, stale, edits, incidents, disturbed>>

Others(p) == {q \in Procs \ {p} : Building(q)}

\* create_new succeeds.
Acquire(p) ==
  /\ At(p, "lock") /\ lock = None
  /\ lock' = p /\ stale' = FALSE
  /\ procs' = [q \in Procs |->
                 IF q = p THEN [procs[p] EXCEPT !.pc = "open", !.raced = Others(p) # {}]
                 ELSE IF At(q, "idle") THEN Idle
                 ELSE [procs[q] EXCEPT !.raced = TRUE]]
  /\ disturbed' = (disturbed \/ Others(p) # {})
  /\ UNCHANGED <<spec, meta, index, config, edits, builds, incidents>>

\* Another build is in progress.
Refused(p) ==
  /\ At(p, "lock") /\ lock # None /\ ~stale
  /\ procs' = [procs EXCEPT ![p] = Idle]
  /\ UNCHANGED <<spec, meta, index, config, lock, stale, edits, builds, incidents, disturbed>>

SeesStale(p) ==
  /\ At(p, "lock") /\ lock # None /\ stale
  /\ Goto(p, "reclaim")
  /\ UNCHANGED <<spec, meta, index, config, lock, stale, edits, builds, incidents, disturbed>>

\* The file is removed, whoever made it, and creating it is tried again.
Reclaim(p) ==
  /\ At(p, "reclaim")
  /\ lock' = None /\ stale' = FALSE
  /\ Goto(p, "lock")
  /\ UNCHANGED <<spec, meta, index, config, edits, builds, incidents, disturbed>>

\* Ten minutes pass, after a crash or during a long build.
Expire ==
  /\ lock # None /\ ~stale /\ incidents < MaxIncidents
  /\ stale' = TRUE /\ incidents' = incidents + 1
  /\ UNCHANGED <<spec, meta, index, config, lock, procs, edits, builds, disturbed>>

-----------------------------------------------------------------------------
(* build_or_update.                                                          *)

Without(vectors, keys) == [k \in DOMAIN vectors \ keys |-> vectors[k]]
With(vectors, key, v) == [k \in DOMAIN vectors \cup {key} |-> IF k = key THEN v ELSE vectors[k]]
\* No build gives a larger key (MaxEdits keeps this finite).
MaxKey == 2 * Cardinality(Ids)

Rows == {id \in Ids : meta[id] # None}

\* Mutant of Open: --rebuild alone does not discard the old files.
OpenUnforced(p) ==
  /\ At(p, "open")
  /\ LET discard == config \notin {None, procs[p].model}
     IN  /\ meta' = IF discard THEN NoRows ELSE meta
         /\ index' = IF discard THEN <<>> ELSE index
  /\ procs' = [procs EXCEPT ![p].pc = "clean", ![p].chunks = spec, ![p].vectors = index']
  /\ UNCHANGED <<spec, config, lock, stale, edits, builds, incidents, disturbed>>

\* Mutant of Open: another model does not discard the old files.
OpenAnyModel(p) ==
  /\ At(p, "open")
  /\ meta' = IF procs[p].force THEN NoRows ELSE meta
  /\ index' = IF procs[p].force THEN <<>> ELSE index
  /\ procs' = [procs EXCEPT ![p].pc = "clean", ![p].chunks = spec, ![p].vectors = index']
  /\ UNCHANGED <<spec, config, lock, stale, edits, builds, incidents, disturbed>>

\* The old files go if they were built otherwise; the nodes and the index
\* are read.
Open(p) ==
  /\ At(p, "open")
  /\ LET discard == procs[p].force \/ config \notin {None, procs[p].model}
     IN  /\ meta' = IF discard THEN NoRows ELSE meta
         /\ index' = IF discard THEN <<>> ELSE index
  /\ procs' = [procs EXCEPT ![p].pc = "clean", ![p].chunks = spec, ![p].vectors = index']
  /\ UNCHANGED <<spec, config, lock, stale, edits, builds, incidents, disturbed>>

\* Mutant of Outdated: a row keeps its vector whatever its hash says.
OutdatedByAbsence(chunks, rows) == {id \in Ids : chunks[id] # None /\ rows[id] = None}

\* The nodes that are new or have another hash than their row.
Outdated(chunks, rows) ==
  {id \in Ids : chunks[id] # None /\ (rows[id] = None \/ rows[id].text # chunks[id])}

\* Keys for the nodes to embed: a changed node keeps its own, new nodes count
\* on, in some order, from the largest key left. The key of a node that is
\* gone may be given again.
MayAssign(keys, rows, ids) ==
  LET new == {id \in ids : rows[id] = None}
      last == Max({0} \cup {rows[id].key : id \in {i \in Ids : rows[i] # None}})
  IN  /\ \A id \in ids \ new : keys[id] = rows[id].key
      /\ {keys[id] : id \in new} = last + 1 .. last + Cardinality(new)

\* Rows of nodes that are gone are deleted; what needs a vector gets a key.
Clean(p) ==
  /\ At(p, "clean")
  /\ LET gone == {id \in Rows : procs[p].chunks[id] = None}
         rows == [id \in Ids |-> IF id \in gone THEN None ELSE meta[id]]
         ids == Outdated(procs[p].chunks, rows)
     IN  /\ meta' = rows
         /\ \E keys \in [ids -> 1 .. MaxKey] :
              /\ MayAssign(keys, rows, ids)
              /\ procs' = [procs EXCEPT ![p].pc = "insert", ![p].todo = keys,
                             ![p].vectors = Without(@, {meta[id].key : id \in gone})]
  /\ UNCHANGED <<spec, index, config, lock, stale, edits, builds, incidents, disturbed>>

\* Another row has the key: the UNIQUE constraint fails.
KeyTaken(id, key) == \E i \in Rows \ {id} : meta[i].key = key

\* A vector goes to the index in memory, then its row to the database.
Insert(p, id) ==
  /\ At(p, "insert") /\ id \in DOMAIN procs[p].todo
  /\ LET text == procs[p].chunks[id]
         key == procs[p].todo[id]
     IN  /\ ~KeyTaken(id, key)
         /\ meta' = [meta EXCEPT ![id] = [text |-> text, key |-> key]]
         /\ procs' = [procs EXCEPT ![p].todo = Without(@, {id}),
                        ![p].vectors = With(@, key, [id |-> id, text |-> text, model |-> procs[p].model])]
  /\ UNCHANGED <<spec, index, config, lock, stale, edits, builds, incidents, disturbed>>

InsertFails(p, id) ==
  /\ At(p, "insert") /\ id \in DOMAIN procs[p].todo
  /\ KeyTaken(id, procs[p].todo[id])
  /\ lock' = None /\ stale' = FALSE
  /\ procs' = [procs EXCEPT ![p] = Idle]
  /\ UNCHANGED <<spec, meta, index, config, edits, builds, incidents, disturbed>>

\* Mutant of Save: an index file that is there is not written again.
SaveOnce(p) ==
  /\ At(p, "insert") /\ procs[p].todo = <<>>
  /\ index' = IF index = <<>> THEN procs[p].vectors ELSE index
  /\ Goto(p, "config")
  /\ UNCHANGED <<spec, meta, config, lock, stale, edits, builds, incidents, disturbed>>

Save(p) ==
  /\ At(p, "insert") /\ procs[p].todo = <<>>
  /\ index' = procs[p].vectors
  /\ Goto(p, "config")
  /\ UNCHANGED <<spec, meta, config, lock, stale, edits, builds, incidents, disturbed>>

WriteConfig(p) ==
  /\ At(p, "config")
  /\ config' = procs[p].model
  /\ Goto(p, "release")
  /\ UNCHANGED <<spec, meta, index, lock, stale, edits, builds, incidents, disturbed>>

\* The guard is dropped: the lock file is removed, whoever made it.
Release(p) ==
  /\ At(p, "release")
  /\ lock' = None /\ stale' = FALSE
  /\ IF procs[p].asks THEN Goto(p, "load") ELSE procs' = [procs EXCEPT ![p] = Idle]
  /\ UNCHANGED <<spec, meta, index, config, edits, builds, incidents, disturbed>>

\* A step returns an error (the model cannot be loaded, the disk is full) or
\* the process dies, which leaves its lock file.
CutOff(p, dies) ==
  /\ Building(p) /\ incidents < MaxIncidents
  /\ IF dies THEN UNCHANGED <<lock, stale>> ELSE lock' = None /\ stale' = FALSE
  /\ disturbed' = TRUE /\ incidents' = incidents + 1
  /\ procs' = [procs EXCEPT ![p] = Idle]
  /\ UNCHANGED <<spec, meta, index, config, edits, builds>>

-----------------------------------------------------------------------------
(* The query.                                                                *)

Load(p) ==
  /\ At(p, "load")
  /\ procs' = [procs EXCEPT ![p].pc = "ask", ![p].vectors = index]
  /\ UNCHANGED <<spec, meta, index, config, lock, stale, edits, builds, incidents, disturbed>>

\* The keys that match are looked up in the rows of now.
Hits(p) == {[row |-> id, vector |-> procs[p].vectors[k]] :
              <<id, k>> \in {x \in Rows \X DOMAIN procs[p].vectors : meta[x[1]].key = x[2]}}

Ask(p) ==
  /\ At(p, "ask")
  /\ procs' = [procs EXCEPT ![p] = Idle]
  /\ UNCHANGED <<spec, meta, index, config, lock, stale, edits, builds, incidents, disturbed>>

Next ==
  \/ \E id \in Ids : Edit(id)
  \/ \E p \in Procs :
       \/ \E model \in Models, force, asks \in BOOLEAN : Call(p, model, force, asks)
       \/ Acquire(p) \/ Refused(p) \/ SeesStale(p) \/ Reclaim(p)
       \/ Open(p) \/ Clean(p) \/ (\E id \in Ids : Insert(p, id) \/ InsertFails(p, id))
       \/ Save(p) \/ WriteConfig(p) \/ Release(p)
       \/ \E dies \in BOOLEAN : CutOff(p, dies)
       \/ Load(p) \/ Ask(p)
  \/ Expire

Spec == Init /\ [][Next]_vars

-----------------------------------------------------------------------------
(* Properties.                                                               *)

\* Every row has the vector of its own node and text, made with the model of
\* config.json.
Agreed ==
  \A id \in Rows :
    /\ meta[id].key \in DOMAIN index
    /\ index[meta[id].key] = [id |-> id, text |-> meta[id].text, model |-> config]

Quiet == \A p \in Procs : ~Building(p)

\* Rows and vectors, which are kept in two files and written at different
\* moments, agree whenever no build is under way, if none was ever cut off or
\* ran beside another.
RowsHaveVectors == Quiet /\ ~disturbed => Agreed

\* A build that runs to its end under a lock of its own leaves exactly the
\* nodes it read, with their texts, in the rows.
EndOfBuild(p) == At(p, "release") /\ ~At(p, "release")' /\ ~procs[p].raced
RowsComplete ==
  \A p \in Procs : EndOfBuild(p) =>
    \A id \in Ids :
      IF procs[p].chunks[id] = None THEN meta'[id] = None
      ELSE meta'[id] # None /\ meta'[id].text = procs[p].chunks[id]

\* A forced build that nobody disturbs repairs whatever earlier builds that
\* were cut off or overlapped left behind.
ForcedRepairs == \A p \in Procs : EndOfBuild(p) /\ procs[p].force => Agreed'

\* A hit shows the node its score was computed for, unless another build ran
\* between the query's build and its end.
HitsNameTheirNode ==
  \A p \in Procs : At(p, "ask") /\ ~procs[p].raced /\ ~disturbed =>
    \A hit \in Hits(p) : hit.row = hit.vector.id /\ hit.vector.text = meta[hit.row].text
=============================================================================
