----------------------------- MODULE RepoSetup ------------------------------
(***************************************************************************)
(* How a repository of the command line comes to be (repo/init.rs,         *)
(* repo/schema.rs, repo/mod.rs): init and clone create it in many small    *)
(* steps, each durable when it returns, and every other command opens it   *)
(* through the same check and migration.  Processes interleave, and each   *)
(* may be killed between two steps.                                        *)
(***************************************************************************)
EXTENDS Naturals, Sequences

CONSTANTS
  Procs,
  SourceRefs,   \* branches of the source of a clone, in alphabetical order
  None,
  MaxCommands,  \* bound on the commands ever run
  MaxCrashes

VARIABLES
  dir, db,          \* the directory, and .clayers.db in it
  tables,           \* tables of the database
  token,            \* whether remotes has the column of version 2
  meta,             \* rows of cli_meta
  refs, origin,     \* branches, and the row of remotes that clone adds
  files, tracked,   \* the branch whose tree is on disk, and in working_copy
  kind, pc,         \* each process: its command and its next step
  commands, crashes

database == <<tables, token, meta, refs, origin>>
disk == <<dir, db, files, tracked>>
vars == <<database, disk, kind, pc, commands, crashes>>

\* In the order of the batch.
CliTables == <<"cli_meta", "working_copy", "staging", "remotes">>
Tables == {"store"} \union {CliTables[i] : i \in DOMAIN CliTables}

NoMeta == [version |-> None, bare |-> None, branch |-> None]

\* No repository, or one that an older version of the program made.
Init ==
  /\ \E old \in BOOLEAN :
       /\ dir = old /\ db = old
       /\ tables = IF old THEN Tables ELSE {}
       /\ meta = IF old THEN [version |-> "1", bare |-> "0", branch |-> "main"] ELSE NoMeta
  /\ token = FALSE
  /\ refs = {} /\ origin = None /\ files = None /\ tracked = None
  /\ kind = [p \in Procs |-> None] /\ pc = [p \in Procs |-> "idle"]
  /\ commands = 0 /\ crashes = 0

Goto(p, step) == pc' = [pc EXCEPT ![p] = step]
At(p, step) == pc[p] = step

-----------------------------------------------------------------------------
Start(p, command) ==
  /\ pc[p] = "idle" /\ commands < MaxCommands
  /\ commands' = commands + 1
  /\ kind' = [kind EXCEPT ![p] = command]
  /\ UNCHANGED <<database, db, files, tracked, crashes>>

\* init and init --bare refuse a database that exists.
StartInit(p, command) ==
  /\ ~db /\ Start(p, command)
  /\ dir' = TRUE
  /\ Goto(p, "store")

\* clone refuses a directory that exists, and then makes it if it does not.
StartClone(p) ==
  /\ ~dir /\ Start(p, "clone")
  /\ UNCHANGED dir
  /\ Goto(p, "mkdir")

MakeDir(p) ==
  /\ At(p, "mkdir")
  /\ dir' = TRUE
  /\ Goto(p, "store")
  /\ UNCHANGED <<database, db, files, tracked, kind, commands, crashes>>

\* Any other command: discover_repo finds the database.
StartCommand(p) ==
  /\ db /\ Start(p, "command")
  /\ UNCHANGED dir
  /\ Goto(p, "check")

\* SqliteStore::open creates the file and its tables.
OpenStore(p) ==
  /\ At(p, "store")
  /\ db' = TRUE
  /\ tables' = tables \union {"store"}
  /\ Goto(p, IF kind[p] = "clone" THEN "sync" ELSE "check")
  /\ UNCHANGED <<token, meta, refs, origin, dir, files, tracked, kind, commands, crashes>>

\* sync_refs copies the branches one after the other; the source may fail.
SyncRefs(p) ==
  /\ At(p, "sync")
  /\ LET missing == {i \in DOMAIN SourceRefs : SourceRefs[i] \notin refs} IN
       IF missing = {} THEN Goto(p, "check") /\ UNCHANGED refs
       ELSE \/ \E i \in missing : refs' = refs \union {SourceRefs[i]} /\ UNCHANGED pc
            \/ Goto(p, "failed") /\ UNCHANGED refs
  /\ UNCHANGED <<tables, token, meta, origin, disk, kind, commands, crashes>>

Opened(p) == Goto(p, IF kind[p] = "command" THEN "run" ELSE "tables")

\* migrate_schema: nothing to do without cli_meta; a database without a
\* version is of version 1.
CheckVersion(p) ==
  /\ At(p, "check")
  /\ IF "cli_meta" \in tables /\ meta.version \in {"1", None} THEN Goto(p, "alter") ELSE Opened(p)
  /\ UNCHANGED <<database, disk, kind, commands, crashes>>

\* ALTER TABLE remotes ADD COLUMN token
Alter(p) ==
  /\ At(p, "alter")
  /\ IF "remotes" \in tables /\ ~token THEN token' = TRUE /\ Goto(p, "migrated")
     ELSE Goto(p, "failed") /\ UNCHANGED token
  /\ UNCHANGED <<tables, meta, refs, origin, disk, kind, commands, crashes>>

SetVersion(p) ==
  /\ At(p, "migrated")
  /\ meta' = [meta EXCEPT !.version = "2"]
  /\ Opened(p)
  /\ UNCHANGED <<tables, token, refs, origin, disk, kind, commands, crashes>>

-----------------------------------------------------------------------------
(* init_cli_schema: a batch of CREATE TABLE IF NOT EXISTS, and three        *)
(* INSERT OR IGNORE, without a transaction around them.                    *)

Missing == {i \in DOMAIN CliTables : CliTables[i] \notin tables}

\* Mutant of CreateTable: the batch creates remotes as version 1 had it.
CreateTableOld(p) ==
  /\ At(p, "tables")
  /\ IF Missing = {} THEN Goto(p, "version") /\ UNCHANGED <<tables, token>>
     ELSE /\ tables' = tables \union {CliTables[CHOOSE i \in Missing : \A j \in Missing : i <= j]}
          /\ UNCHANGED <<token, pc>>
  /\ UNCHANGED <<meta, refs, origin, disk, kind, commands, crashes>>

CreateTable(p) ==
  /\ At(p, "tables")
  /\ IF Missing = {} THEN Goto(p, "version") /\ UNCHANGED <<tables, token>>
     ELSE LET next == CliTables[CHOOSE i \in Missing : \A j \in Missing : i <= j] IN
            /\ tables' = tables \union {next}
            /\ token' = (token \/ next = "remotes")
            /\ UNCHANGED pc
  /\ UNCHANGED <<meta, refs, origin, disk, kind, commands, crashes>>

InsertOrIgnore(p, step, key, value, next) ==
  /\ At(p, step)
  /\ meta' = IF meta[key] = None THEN [meta EXCEPT ![key] = value] ELSE meta
  /\ Goto(p, next)
  /\ UNCHANGED <<tables, token, refs, origin, disk, kind, commands, crashes>>

InsertDefaults(p) ==
  \/ InsertOrIgnore(p, "version", "version", "2", "bare")
  \/ InsertOrIgnore(p, "bare", "bare", IF kind[p] = "bare" THEN "1" ELSE "0", "branch")
  \/ InsertOrIgnore(p, "branch", "branch", "main", IF kind[p] = "clone" THEN "origin" ELSE "done")

-----------------------------------------------------------------------------
(* The rest of a clone.                                                    *)

AddOrigin(p) ==
  /\ At(p, "origin")
  /\ origin' = "source"
  /\ Goto(p, IF refs = {} THEN "done" ELSE "switch")
  /\ UNCHANGED <<tables, token, meta, refs, disk, kind, commands, crashes>>

\* find_default_branch: main, or else the first one.
DefaultBranch ==
  IF "main" \in refs THEN "main"
  ELSE SourceRefs[CHOOSE i \in DOMAIN SourceRefs :
                    /\ SourceRefs[i] \in refs
                    /\ \A j \in 1 .. i - 1 : SourceRefs[j] \notin refs]

SwitchBranch(p) ==
  /\ At(p, "switch")
  /\ meta' = [meta EXCEPT !.branch = DefaultBranch]
  /\ Goto(p, "export")
  /\ UNCHANGED <<tables, token, refs, origin, disk, kind, commands, crashes>>

ExportWorkingCopy(p) ==
  /\ At(p, "export")
  /\ files' = DefaultBranch
  /\ Goto(p, "refresh")
  /\ UNCHANGED <<database, dir, db, tracked, kind, commands, crashes>>

RefreshTable(p) ==
  /\ At(p, "refresh")
  /\ tracked' = DefaultBranch
  /\ Goto(p, "done")
  /\ UNCHANGED <<database, dir, db, files, kind, commands, crashes>>

-----------------------------------------------------------------------------
\* A command works on the tables it needs, and fails without them.
RunCommand(p) ==
  /\ At(p, "run")
  /\ Goto(p, IF Tables \ {"store"} \subseteq tables THEN "done" ELSE "failed")
  /\ tables' = tables \union {"store"}
  /\ UNCHANGED <<token, meta, refs, origin, disk, kind, commands, crashes>>

Ended == {"idle", "done", "failed", "killed"}

Kill(p) ==
  /\ pc[p] \notin Ended /\ crashes < MaxCrashes
  /\ crashes' = crashes + 1
  /\ Goto(p, "killed")
  /\ UNCHANGED <<database, disk, kind, commands>>

\* The next command of the same user.
Return(p) ==
  /\ pc[p] \in Ended \ {"idle"}
  /\ Goto(p, "idle")
  /\ UNCHANGED <<database, disk, kind, commands, crashes>>

Next == \E p \in Procs :
  \/ StartInit(p, "init") \/ StartInit(p, "bare") \/ StartClone(p) \/ StartCommand(p)
  \/ MakeDir(p) \/ OpenStore(p) \/ SyncRefs(p) \/ CheckVersion(p) \/ Alter(p) \/ SetVersion(p)
  \/ CreateTable(p) \/ InsertDefaults(p)
  \/ AddOrigin(p) \/ SwitchBranch(p) \/ ExportWorkingCopy(p) \/ RefreshTable(p)
  \/ RunCommand(p) \/ Kill(p) \/ Return(p)

Spec == Init /\ [][Next]_vars

-----------------------------------------------------------------------------
Whole == db /\ tables = Tables /\ token

\* A command that reports success found, or left, a repository with every
\* table and column of the current version, whichever other commands were
\* creating or migrating it at the same time or were killed half-way.
SuccessIsWhole ==
  \A p \in Procs : pc[p] = "done" => Whole /\ (kind[p] # "command" => meta.version = "2")

\* A clone that reports success has every branch of its source, stands on the
\* default one, and has that branch's files on disk and in its table.
CloneIsWhole ==
  \A p \in Procs : pc[p] = "done" /\ kind[p] = "clone" =>
    /\ origin # None
    /\ \A i \in DOMAIN SourceRefs : SourceRefs[i] \in refs
    /\ SourceRefs # <<>> => files = DefaultBranch /\ tracked = files /\ meta.branch = files

SetupIsWhole == SuccessIsWhole /\ CloneIsWhole
=============================================================================
