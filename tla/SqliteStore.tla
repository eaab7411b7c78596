---------------------------- MODULE SqliteStore ----------------------------
(***************************************************************************)
(* The SQLite store (store/sqlite.rs).  A SqliteStore wraps one connection *)
(* in a mutex that an operation holds from start to end; the server, the   *)
(* CLI and a pushing peer may each have a connection to the same file, and *)
(* between connections only SQLite's own locks count: a statement outside  *)
(* a transaction commits by itself, and a transaction that has written     *)
(* keeps every other connection from writing until it ends.                *)
(***************************************************************************)
EXTENDS StoreObjects

CONSTANT Conns          \* connections to the database file

VARIABLES
  rows,         \* the objects table: identity -> form (its inclusive_hash column)
  refs,         \* the refs table
  txState,      \* the `consumed` flag of each SqliteTransaction, and why
  txConn,       \* the connection a transaction belongs to
  pending,      \* SqliteTransaction.pending
  accepted,     \* history: every form put() has accepted
  retried,      \* history: commit() has returned Err after it took the pending
  busy          \* the operation that holds a connection's mutex

vars == <<rows, refs, txState, txConn, pending, accepted, retried, busy>>

\* `rest` is what commit()'s drain has yet to yield, `done` what it has written.
CommitOp == [op : {"commit"}, tx : Txs, done : Seq(Forms), rest : Seq(Forms)]
CasOp == [op : {"cas"}, ref : Refs, expected : Hashes \union {None}, new : Hashes]

TypeOK ==
  /\ rows \in [Hashes -> Forms \union {None}]
  /\ refs \in [Refs -> Hashes \union {None}]
  /\ txState \in [Txs -> TxStates]
  /\ txConn \in [Txs -> Conns \union {None}]
  /\ pending \in [Txs -> Seq(Forms)]
  /\ accepted \in [Txs -> Seq(Forms)]
  /\ retried \in [Txs -> BOOLEAN]
  /\ busy \in [Conns -> CommitOp \union CasOp \union {None}]

Init ==
  /\ rows = [h \in Hashes |-> None]
  /\ refs = [r \in Refs |-> None]
  /\ txState = [t \in Txs |-> "unused"]
  /\ txConn = [t \in Txs |-> None]
  /\ pending = [t \in Txs |-> <<>>]
  /\ accepted = [t \in Txs |-> <<>>]
  /\ retried = [t \in Txs |-> FALSE]
  /\ busy = [c \in Conns |-> None]

Committing(c) == busy[c] # None /\ busy[c].op = "commit"
Swapping(c) == busy[c] # None /\ busy[c].op = "cas"

\* commit() borrows the handle mutably: nothing else can use it meanwhile.
Usable(t) ==
  /\ txState[t] = "open"
  /\ \A c \in Conns : Committing(c) => busy[c].tx # t

\* No other connection is inside a transaction that has written.
MayWrite(c) == \A d \in Conns \ {c} : Committing(d) => busy[d].done = <<>>

txVars == <<txState, txConn, pending, accepted, retried>>

Begin(t, c) ==
  /\ txState[t] = "unused"
  /\ txState' = [txState EXCEPT ![t] = "open"]
  /\ txConn' = [txConn EXCEPT ![t] = c]
  /\ UNCHANGED <<rows, refs, pending, accepted, retried, busy>>

\* Mutant of Put: the caller's last form is not queued.
PutForgets(t, f) ==
  /\ Usable(t) /\ Len(accepted[t]) < MaxPuts
  /\ pending' = [pending EXCEPT ![t] = <<f>>]
  /\ accepted' = [accepted EXCEPT ![t] = Append(@, f)]
  /\ UNCHANGED <<rows, refs, txState, txConn, retried, busy>>

Put(t, f) ==
  /\ Usable(t) /\ Len(accepted[t]) < MaxPuts
  /\ pending' = [pending EXCEPT ![t] = Append(@, f)]
  /\ accepted' = [accepted EXCEPT ![t] = Append(@, f)]
  /\ UNCHANGED <<rows, refs, txState, txConn, retried, busy>>

\* The mutex is taken, BEGIN DEFERRED succeeds, and drain(..) empties
\* `pending`.  An Err before the drain changes nothing and is no step here.
CommitStart(t) ==
  LET c == txConn[t] IN
    /\ Usable(t) /\ busy[c] = None
    /\ busy' = [busy EXCEPT ![c] = [op |-> "commit", tx |-> t, done |-> <<>>, rest |-> pending[t]]]
    /\ pending' = [pending EXCEPT ![t] = <<>>]
    /\ UNCHANGED <<rows, refs, txState, txConn, accepted, retried>>

\* Mutant of CommitInsert: the INSERT runs outside the transaction.
CommitInsertAutocommit(c) ==
  /\ Committing(c) /\ busy[c].rest # <<>> /\ MayWrite(c)
  /\ busy' = [busy EXCEPT ![c].done = Append(@, Head(busy[c].rest)), ![c].rest = Tail(@)]
  /\ rows' = Flush(rows, <<Head(busy[c].rest)>>)
  /\ UNCHANGED <<refs, txVars>>

\* INSERT OR REPLACE of the next entry; not visible to others yet.
CommitInsert(c) ==
  /\ Committing(c) /\ busy[c].rest # <<>> /\ MayWrite(c)
  /\ busy' = [busy EXCEPT ![c].done = Append(@, Head(busy[c].rest)), ![c].rest = Tail(@)]
  /\ UNCHANGED <<rows, refs, txVars>>

CommitEnd(c) ==
  /\ Committing(c) /\ busy[c].rest = <<>>
  /\ rows' = Flush(rows, busy[c].done)
  /\ txState' = [txState EXCEPT ![busy[c].tx] = "committed"]
  /\ busy' = [busy EXCEPT ![c] = None]
  /\ UNCHANGED <<refs, txConn, pending, accepted, retried>>

\* An INSERT or the COMMIT fails (I/O, disk full, another connection's lock):
\* SQLite rolls back, `?` returns Err, and the handle is not consumed.
CommitErr(c) ==
  /\ Committing(c)
  /\ retried' = [retried EXCEPT ![busy[c].tx] = TRUE]
  /\ busy' = [busy EXCEPT ![c] = None]
  /\ UNCHANGED <<rows, refs, txState, txConn, pending, accepted>>

Rollback(t) ==
  /\ Usable(t)
  /\ txState' = [txState EXCEPT ![t] = "discarded"]
  /\ pending' = [pending EXCEPT ![t] = <<>>]
  /\ UNCHANGED <<rows, refs, txConn, accepted, retried, busy>>

\* The process behind a connection dies and another one opens the file.
Crash(c) ==
  /\ busy' = [busy EXCEPT ![c] = None]
  /\ txState' = [t \in Txs |->
       IF txConn[t] = c /\ txState[t] = "open" THEN "discarded" ELSE txState[t]]
  /\ pending' = [t \in Txs |-> IF txConn[t] = c THEN <<>> ELSE pending[t]]
  /\ UNCHANGED <<rows, refs, txConn, accepted, retried>>

\* set_ref and delete_ref (h = None): one statement that commits by itself.
SetRef(c, r, h) ==
  /\ busy[c] = None /\ MayWrite(c)
  /\ refs' = [refs EXCEPT ![r] = h]
  /\ UNCHANGED <<rows, txVars, busy>>

\* cas_ref: the SELECT.  A mismatch returns false and changes nothing.
CasRead(c, r, expected, new) ==
  /\ busy[c] = None
  /\ refs[r] = expected
  /\ busy' = [busy EXCEPT ![c] = [op |-> "cas", ref |-> r, expected |-> expected, new |-> new]]
  /\ UNCHANGED <<rows, refs, txVars>>

\* cas_ref: the INSERT OR REPLACE, a statement of its own.
CasWrite(c) ==
  /\ Swapping(c) /\ MayWrite(c)
  /\ refs' = [refs EXCEPT ![busy[c].ref] = busy[c].new]
  /\ busy' = [busy EXCEPT ![c] = None]
  /\ UNCHANGED <<rows, txVars>>

CasErr(c) ==
  /\ Swapping(c)
  /\ busy' = [busy EXCEPT ![c] = None]
  /\ UNCHANGED <<rows, refs, txVars>>

Next ==
  \/ \E t \in Txs : CommitStart(t) \/ Rollback(t)
  \/ \E t \in Txs, c \in Conns : Begin(t, c)
  \/ \E t \in Txs, f \in Forms : Put(t, f)
  \/ \E c \in Conns :
       \/ CommitInsert(c) \/ CommitEnd(c) \/ CommitErr(c)
       \/ Crash(c) \/ CasWrite(c) \/ CasErr(c)
  \/ \E c \in Conns, r \in Refs, h \in Hashes \union {None} : SetRef(c, r, h)
  \/ \E c \in Conns, r \in Refs, old \in Hashes \union {None}, new \in Hashes :
       CasRead(c, r, old, new)

Spec == Init /\ [][Next]_vars

-----------------------------------------------------------------------------
\* The object table changes only when a transaction commits, and then by all
\* it was given: no crash, failing statement or other connection makes a part
\* of a transaction visible (the rusqlite transaction inside commit()).
RowsMoveWhole ==
  rows' # rows =>
    \E t \in Txs :
      /\ txState[t] = "open" /\ txState'[t] = "committed"
      /\ retried[t] \/ rows' = Flush(rows, accepted[t])

\* Every form of a committed transaction is stored, as long as its commit
\* never had to be retried; no later write removes an identity.
StoredUnlessRetried ==
  \A t \in Txs : (txState[t] = "committed" /\ ~retried[t]) =>
    \A f \in FormsIn(accepted[t]) : rows[IdentityOf[f]] # None

\* The Transaction contract: after Err the caller may retry commit(), so an
\* Ok always means that every accepted put is stored.
CommittedMeansStored ==
  \A t \in Txs : txState[t] = "committed" =>
    \A f \in FormsIn(accepted[t]) : rows[IdentityOf[f]] # None
=============================================================================
