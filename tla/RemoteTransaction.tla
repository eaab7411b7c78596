------------------------- MODULE RemoteTransaction --------------------------
(***************************************************************************)
(* The client's side of a remote transaction (client.rs) over one           *)
(* connection, with the server's table of transactions at the other end.   *)
(* A handle makes one call at a time and waits for its reply; the caller   *)
(* may drop the future of a call, or the handle, at any point, and the     *)
(* handle then rolls back from a task of its own.                          *)
(***************************************************************************)
EXTENDS Naturals, Sequences

CONSTANTS
  Handles, Objects, None,
  MaxCalls,     \* bound on the calls of a handle
  MayLose       \* whether the connection may be lost

VARIABLES
  handle,       \* where each RemoteTransaction is
  finished,     \* handles whose flag `finished` is set
  waiting,      \* the request a handle waits for
  calls,        \* requests a handle has made, its message ids
  detached,     \* dropped handles whose rollback task has not sent yet
  outgoing, incoming, up,
  txs,          \* the server's open transactions, by the handle they are for
  stored,       \* what each transaction has committed
  acked, sent,  \* history: objects put and answered Ok, objects put at all
  told,         \* history: what a handle was told of its end
  unsure        \* history: the begins and ends a caller stopped waiting for

client == <<handle, finished, waiting, calls, detached>>
wire == <<outgoing, incoming, up>>
server == <<txs, stored>>
history == <<acked, sent, told, unsure>>
vars == <<client, wire, server, history>>

Op(h, op, o) == [by |-> h, n |-> calls[h] + 1, op |-> op, object |-> o]

Init ==
  /\ handle = [h \in Handles |-> "none"]
  /\ finished = {} /\ detached = {}
  /\ waiting = [h \in Handles |-> None]
  /\ calls = [h \in Handles |-> 0]
  /\ outgoing = <<>> /\ incoming = <<>> /\ up = TRUE
  /\ txs = [h \in Handles |-> None]
  /\ stored = [h \in Handles |-> {}]
  /\ acked = [h \in Handles |-> {}] /\ sent = [h \in Handles |-> {}]
  /\ told = [h \in Handles |-> "none"]
  /\ unsure = {}

-----------------------------------------------------------------------------
(* The client.                                                             *)

\* What is sent into a connection that is gone has no answer.
Transmit(m) == outgoing' = IF up THEN Append(outgoing, m) ELSE outgoing

Request(h, op, o) ==
  /\ calls[h] < MaxCalls /\ waiting[h] = None
  /\ calls' = [calls EXCEPT ![h] = @ + 1]
  /\ waiting' = [waiting EXCEPT ![h] = Op(h, op, o)]
  /\ Transmit(Op(h, op, o))
  /\ sent' = IF op = "put" THEN [sent EXCEPT ![h] = @ \union {o}] ELSE sent
  /\ UNCHANGED <<finished, detached, incoming, up, server, acked, told, unsure>>

Transaction(h) ==
  /\ handle[h] = "none"
  /\ handle' = [handle EXCEPT ![h] = "begun"]
  /\ Request(h, "begin", None)

\* A finished handle refuses every call: "transaction already consumed".
Usable(h) == handle[h] = "open" /\ h \notin finished

Put(h, o) == Usable(h) /\ Request(h, "put", o) /\ UNCHANGED handle
Commit(h) == Usable(h) /\ Request(h, "commit", None) /\ UNCHANGED handle
Rollback(h) == Usable(h) /\ Request(h, "rollback", None) /\ UNCHANGED handle

\* The future of a call is dropped.  Without transaction()'s answer there is
\* no handle, and nobody to roll back.
GiveUp(h) ==
  /\ waiting[h] # None
  /\ waiting' = [waiting EXCEPT ![h] = None]
  /\ unsure' = IF waiting[h].op = "put" THEN unsure ELSE unsure \union {<<h, waiting[h].op>>}
  /\ handle' = IF waiting[h].op = "begin" THEN [handle EXCEPT ![h] = "lost"] ELSE handle
  /\ UNCHANGED <<finished, calls, detached, wire, server, acked, sent, told>>

\* Mutant of Drop: the rollback is left to the server.
DropQuietly(h) ==
  /\ handle[h] = "open" /\ waiting[h] = None
  /\ handle' = [handle EXCEPT ![h] = "dropped"]
  /\ UNCHANGED <<finished, waiting, calls, detached, wire, server, history>>

Drop(h) ==
  /\ handle[h] = "open" /\ waiting[h] = None
  /\ handle' = [handle EXCEPT ![h] = "dropped"]
  /\ detached' = IF h \in finished THEN detached ELSE detached \union {h}
  /\ UNCHANGED <<finished, waiting, calls, wire, server, history>>

\* The spawned task; nobody waits for the reply to its message.
SendRollback(h) ==
  /\ h \in detached
  /\ detached' = detached \ {h}
  /\ Transmit(Op(h, "rollback", None))
  /\ UNCHANGED <<handle, finished, waiting, calls, incoming, up, server, history>>

\* Mutant of Finishes: a commit consumes the handle however it ends.
FinishesAlways(op, ok) == op \in {"commit", "rollback"}

\* Only a successful commit consumes the transaction; a rollback always does.
Finishes(op, ok) == op = "rollback" \/ (op = "commit" /\ ok)

\* The reader task hands the reply to the call that waits for its id; any
\* other reply is dropped.
Deliver ==
  /\ incoming # <<>>
  /\ incoming' = Tail(incoming)
  /\ LET m == Head(incoming).to
         ok == Head(incoming).ok
         h == m.by
     IN  IF waiting[h] # m THEN UNCHANGED <<handle, finished, waiting, acked, told>>
         ELSE /\ waiting' = [waiting EXCEPT ![h] = None]
              /\ handle' = IF m.op = "begin" THEN [handle EXCEPT ![h] = IF ok THEN "open" ELSE "refused"]
                           ELSE handle
              /\ finished' = IF Finishes(m.op, ok) THEN finished \union {h} ELSE finished
              /\ acked' = IF m.op = "put" /\ ok THEN [acked EXCEPT ![h] = @ \union {m.object}] ELSE acked
              /\ told' = IF m.op \in {"commit", "rollback"} /\ ok THEN [told EXCEPT ![h] = m.op] ELSE told
  /\ UNCHANGED <<calls, detached, outgoing, up, server, sent, unsure>>

-----------------------------------------------------------------------------
(* The connection and the server.                                          *)

\* A request is either handled or refused with an error: by the backend, or
\* because the transaction is not (or no longer) in the table.
Effect(m) ==
  LET h == m.by IN
    \/ m.op = "begin" /\ txs' = [txs EXCEPT ![h] = {}] /\ UNCHANGED stored
    \/ /\ txs[h] # None
       /\ CASE m.op = "put" -> /\ txs' = [txs EXCEPT ![h] = @ \union {m.object}]
                               /\ UNCHANGED stored
            [] m.op = "commit" -> /\ stored' = [stored EXCEPT ![h] = txs[h]]
                                  /\ txs' = [txs EXCEPT ![h] = None]
            [] m.op = "rollback" -> /\ txs' = [txs EXCEPT ![h] = None]
                                    /\ UNCHANGED stored

\* A rollback that fails has taken the transaction out of the table first.
Failure(m) ==
  /\ txs' = IF m.op = "rollback" THEN [txs EXCEPT ![m.by] = None] ELSE txs
  /\ UNCHANGED stored

\* Requests of a connection are handled in the order they were sent.
Answer ==
  /\ outgoing # <<>>
  /\ outgoing' = Tail(outgoing)
  /\ \E ok \in BOOLEAN :
       /\ IF ok THEN Effect(Head(outgoing)) ELSE Failure(Head(outgoing))
       /\ incoming' = IF up THEN Append(incoming, [to |-> Head(outgoing), ok |-> ok]) ELSE incoming
  /\ UNCHANGED <<client, up, history>>

\* The network fails, or the RemoteStore is dropped and closes the transport
\* under its transactions.  The server handles what has reached it.
Lose ==
  /\ MayLose /\ up
  /\ up' = FALSE
  /\ \E n \in 0 .. Len(outgoing) : outgoing' = SubSeq(outgoing, 1, n)
  /\ \E n \in 0 .. Len(incoming) : incoming' = SubSeq(incoming, 1, n)
  /\ UNCHANGED <<client, server, history>>

\* Server::disconnect, after the last message.
Disconnect ==
  /\ ~up /\ outgoing = <<>>
  /\ txs' = [h \in Handles |-> None]
  /\ UNCHANGED <<client, wire, stored, history>>

-----------------------------------------------------------------------------
Call(h) == Transaction(h) \/ Commit(h) \/ Rollback(h) \/ \E o \in Objects : Put(h, o)

Next ==
  \/ \E h \in Handles : Call(h) \/ GiveUp(h) \/ Drop(h) \/ SendRollback(h)
  \/ Deliver \/ Answer \/ Lose \/ Disconnect

Spec == Init /\ [][Next]_vars

\* tokio polls every task that can run, on both sides.
Fairness ==
  /\ \A h \in Handles : WF_vars(SendRollback(h))
  /\ WF_vars(Answer) /\ WF_vars(Disconnect)

FairSpec == Spec /\ Fairness

-----------------------------------------------------------------------------
\* "Atomically commit all staged objects": a transaction told that it is
\* committed has stored everything its puts were told Ok for, and one told that
\* it is rolled back has stored nothing, whatever calls were given up before.
ToldIsTrue ==
  \A h \in Handles :
    /\ told[h] = "commit" => acked[h] \subseteq stored[h] /\ stored[h] \subseteq sent[h]
    /\ told[h] = "rollback" => stored[h] = {}

\* Nothing is stored behind the caller's back: it was told, or its commit has
\* not been answered, or it stopped waiting for that answer.
StoredIsAsked ==
  \A h \in Handles :
    stored[h] # {} => \/ told[h] = "commit" \/ <<h, "commit">> \in unsure
                      \/ waiting[h] # None /\ waiting[h].op = "commit"

\* "On Err, the transaction is NOT consumed: the caller may retry commit() or
\* call rollback()": while the connection is up an open handle that has not
\* finished, and whose caller stayed for every answer, has its transaction.
RetryIsPossible ==
  \A h \in Handles :
    handle[h] = "open" /\ h \notin finished /\ up /\ (\A g \in unsure : g[1] # h) =>
      \/ txs[h] # None
      \/ waiting[h] # None /\ waiting[h].op \in {"commit", "rollback"}

\* ... and one that finished has none, so a late rollback finds nothing.
FinishedIsGone == \A h \in finished : txs[h] = None

TransactionsAreExact == ToldIsTrue /\ StoredIsAsked /\ RetryIsPossible /\ FinishedIsGone

\* A handle that goes away takes its transaction with it, also when no call
\* follows: the server does not hold staged objects for nobody.
Dropped(h) == handle[h] = "dropped"
=============================================================================
