------------------------------ MODULE MCServer ------------------------------
(***************************************************************************)
(* A machine that serves a repository: the server of the remote protocol,  *)
(* in sessions that change refs and in sessions of transactions, and the   *)
(* database file that the server and the command line have open.           *)
(***************************************************************************)
EXTENDS RemoteServer, TLC

CONSTANTS
  Tools,        \* what a behaviour is about: "refs", "transactions" or "file"
  Procs,        \* the processes that have the file open
  Hashes, Forms, IdentityOf, Refs, Txs, MaxPuts

VARIABLES tool, rows, fileRefs, txState, txConn, pending, accepted, retried, busy

file == <<rows, fileRefs, txState, txConn, pending, accepted, retried, busy>>

File == INSTANCE SqliteStore WITH Conns <- Procs, refs <- fileRefs

ASSUME FileConstants ==
  /\ IdentityOf \in [Forms -> Hashes] /\ MaxPuts \in Nat
  /\ None \notin Hashes \union Forms
  /\ None \notin Procs \union File!CommitOp \union File!CasOp

Asking == [refs |-> RefWrites \cup {"GetRef"}, transactions |-> TxOps \cup {"BeginTransaction"}]

MCInit == tool \in Tools /\ Init /\ File!Init
MCNext ==
  /\ \/ tool = "file" /\ File!Next /\ UNCHANGED vars
     \/ /\ tool \in DOMAIN Asking
        /\ \E c \in Conns : Connect(c) \/ Leave(c) \/ Serve(c) \/ Receive(c, Asking[tool])
        /\ UNCHANGED file
  /\ UNCHANGED tool

MCSpec == MCInit /\ [][MCNext]_<<tool, file, vars>>

-----------------------------------------------------------------------------
(* The instance: two elements, each in one form.                           *)
CONSTANTS h1, h2, f1, f2, k1, k2, t1, t2, p1, p2

MCIdentityOf == f1 :> h1 @@ f2 :> h2
Symmetry == Permutations(Conns) \cup Permutations(Txs) \cup Permutations(Procs)

-----------------------------------------------------------------------------
\* What commit() acknowledged at its first attempt is in the file, whatever
\* other transactions, connections and crashes do (sqlite.rs).
StoredUnlessRetried == File!StoredUnlessRetried

\* A commit shows nothing of itself or all of it, to any connection, also
\* when a statement of it fails or its process dies (sqlite.rs).
CommitIsWhole == [][File!RowsMoveWhole]_file

\* What commit() acknowledged is stored, also at a retry: store/mod.rs says
\* "On `Err`, the transaction is NOT consumed: the caller may retry".
CommittedMeansStored == File!CommittedMeansStored
=============================================================================
