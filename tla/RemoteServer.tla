---------------------------- MODULE RemoteServer ----------------------------
(***************************************************************************)
(* The server of the remote store protocol (server.rs, websocket.rs).  Each *)
(* connection has one reader loop that handles its messages one after the  *)
(* other; the loops of different connections interleave at every await.    *)
(* One ref per repository is modelled; object reads change nothing and are *)
(* left out.                                                               *)
(***************************************************************************)
EXTENDS Naturals, Sequences, FiniteSets

CONSTANTS
  Conns,        \* connection ids, given out once each
  Repos, Values, Objects,
  None,
  Ops,          \* the requests clients send
  MaxWrites,    \* bound on the ref changes of a repository
  MaxTx         \* bound on the transactions ever begun

TxIds == 1 .. MaxTx
RefWrites == {"SetRef", "DeleteRef", "CasRef"}
TxOps == {"TxPut", "TxCommit", "TxRollback"}

ASSUME NoneIsNothing == None \notin Values \union Conns
ASSUME OpsKnown == Ops \subseteq RefWrites \union TxOps \union {"GetRef", "BeginTransaction"}
ASSUME BoundsAreNatural == MaxWrites \in Nat /\ MaxTx \in Nat

VARIABLES
  phase,        \* of a connection's task
  gone,         \* connections whose client is no longer there
  connections,  \* the server's table of connections
  subscribers,  \* connections per repository
  handler,      \* the request a reader loop is working on, and its next step
  refs,
  stored,       \* objects in the repositories
  txs,          \* open transactions: owner, repository, objects put so far
  nextTx,
  notified,     \* RefUpdated notifications sent to a connection
  log,          \* history: the ref changes of a repository, in order
  since         \* history: length of the log when a connection read the ref

tables == <<connections, subscribers>>
data == <<refs, stored>>
transactions == <<txs, nextTx>>
history == <<log, since>>
vars == <<phase, gone, tables, handler, data, transactions, notified, history>>

Phases == {"unused", "open", "unsubscribe", "rollback", "closed"}
Free == [op |-> "none", pc |-> "free", repo |-> None, expected |-> None,
         new |-> None, old |-> None, tx |-> 0, object |-> None, to |-> {}, at |-> 0]

Open == {t \in TxIds : txs[t] # None}

TypeOK ==
  /\ phase \in [Conns -> Phases]
  /\ gone \subseteq Conns /\ connections \subseteq Conns
  /\ subscribers \in [Repos -> SUBSET Conns]
  /\ \A c \in Conns :
       /\ handler[c].op \in Ops \union {"none"}
       /\ handler[c].pc \in {"free", "resolve", "read", "old", "write", "snapshot", "send", "begin", "tx"}
       /\ handler[c].to \subseteq Conns
       /\ handler[c].pc # "free" => phase[c] = "open" /\ c \in connections
  /\ refs \in [Repos -> Values \union {None}]
  /\ stored \in [Repos -> SUBSET Objects]
  /\ \A t \in Open : txs[t] \in [conn : Conns, repo : Repos, staged : SUBSET Objects]
  /\ nextTx \in 1 .. MaxTx + 1
  /\ \A r \in Repos : Len(log[r]) <= MaxWrites

Init ==
  /\ phase = [c \in Conns |-> "unused"]
  /\ gone = {} /\ connections = {}
  /\ subscribers = [r \in Repos |-> {}]
  /\ handler = [c \in Conns |-> Free]
  /\ refs = [r \in Repos |-> None]
  /\ stored = [r \in Repos |-> {}]
  /\ txs = [t \in TxIds |-> None]
  /\ nextTx = 1
  /\ notified = [c \in Conns |-> <<>>]
  /\ log = [r \in Repos |-> <<>>]
  /\ since = [c \in Conns |-> [r \in Repos |-> None]]

-----------------------------------------------------------------------------
(* Connections.                                                            *)

Connect(c) ==
  /\ phase[c] = "unused"
  /\ phase' = [phase EXCEPT ![c] = "open"]
  /\ connections' = connections \union {c}
  /\ UNCHANGED <<gone, subscribers, handler, data, transactions, notified, history>>

\* The client closes or the network fails; the server does not know yet.
Leave(c) ==
  /\ phase[c] = "open" /\ c \notin gone
  /\ gone' = gone \union {c}
  /\ UNCHANGED <<phase, tables, handler, data, transactions, notified, history>>

\* The reader loop ends between two messages, never inside a handler.
EndLoop(c) ==
  /\ phase[c] = "open" /\ c \in gone /\ handler[c].pc = "free"
  /\ phase' = [phase EXCEPT ![c] = "unsubscribe"]
  /\ connections' = connections \ {c}
  /\ UNCHANGED <<gone, subscribers, handler, data, transactions, notified, history>>

Unsubscribe(c) ==
  /\ phase[c] = "unsubscribe"
  /\ phase' = [phase EXCEPT ![c] = "rollback"]
  /\ subscribers' = [r \in Repos |-> subscribers[r] \ {c}]
  /\ UNCHANGED <<gone, connections, handler, data, transactions, notified, history>>

\* Mutant of RollBack: one transaction is rolled back, the rest are kept.
RollBackFirst(c) ==
  /\ phase[c] = "rollback"
  /\ phase' = [phase EXCEPT ![c] = "closed"]
  /\ txs' = [t \in TxIds |->
       IF t \in Open /\ txs[t].conn = c /\ \A u \in Open : txs[u].conn = c => t <= u
       THEN None ELSE txs[t]]
  /\ UNCHANGED <<gone, tables, handler, data, nextTx, notified, history>>

RollBack(c) ==
  /\ phase[c] = "rollback"
  /\ phase' = [phase EXCEPT ![c] = "closed"]
  /\ txs' = [t \in TxIds |-> IF t \in Open /\ txs[t].conn = c THEN None ELSE txs[t]]
  /\ UNCHANGED <<gone, tables, handler, data, nextTx, notified, history>>

-----------------------------------------------------------------------------
(* Requests.                                                               *)

Handle(c, h) == handler' = [handler EXCEPT ![c] = h]
Goto(c, step) == Handle(c, [handler[c] EXCEPT !.pc = step])
Reply(c) == Handle(c, Free)
AtStep(c, step) == phase[c] = "open" /\ handler[c].pc = step

\* A request that names a repository is resolved first; one on a transaction
\* names any transaction id, the client's own or not.
Ask(c, op) ==
  \/ /\ op \in TxOps
     /\ \E t \in TxIds, o \in Objects \union {None} :
          /\ op = "TxPut" <=> o \in Objects
          /\ Handle(c, [Free EXCEPT !.op = op, !.pc = "tx", !.tx = t, !.object = o])
  \/ /\ op \notin TxOps
     /\ \E r \in Repos, x \in Values \union {None}, v \in Values \union {None} :
          /\ op # "CasRef" => x = None
          /\ op \in {"SetRef", "CasRef"} <=> v \in Values
          /\ Handle(c, [Free EXCEPT !.op = op, !.pc = "resolve", !.repo = r, !.expected = x, !.new = v])

Receive(c, ops) ==
  /\ AtStep(c, "free") /\ c \notin gone
  /\ \E op \in ops : Ask(c, op)
  /\ UNCHANGED <<phase, gone, tables, data, transactions, notified, history>>

\* Mutant of Resolve: only connections that write are subscribed.
ResolveWriters(c) ==
  /\ AtStep(c, "resolve")
  /\ \/ /\ IF handler[c].op = "GetRef" THEN UNCHANGED subscribers
           ELSE subscribers' = [subscribers EXCEPT ![handler[c].repo] = @ \union {c}]
        /\ Goto(c, CASE handler[c].op = "GetRef" -> "read"
                      [] handler[c].op = "BeginTransaction" -> "begin"
                      [] OTHER -> "old")
     \/ Reply(c) /\ UNCHANGED subscribers
  /\ UNCHANGED <<phase, gone, connections, data, transactions, notified, history>>

\* resolve_store subscribes the connection before the store is touched; an
\* unknown repository is an error and subscribes nobody.
Resolve(c) ==
  /\ AtStep(c, "resolve")
  /\ \/ /\ subscribers' = [subscribers EXCEPT ![handler[c].repo] = @ \union {c}]
        /\ Goto(c, CASE handler[c].op = "GetRef" -> "read"
                      [] handler[c].op = "BeginTransaction" -> "begin"
                      [] OTHER -> "old")
     \/ Reply(c) /\ UNCHANGED subscribers
  /\ UNCHANGED <<phase, gone, connections, data, transactions, notified, history>>

ReadRef(c) ==
  /\ AtStep(c, "read")
  /\ since' = [since EXCEPT ![c][handler[c].repo] = Len(log[handler[c].repo])]
  /\ Reply(c)
  /\ UNCHANGED <<phase, gone, tables, data, transactions, notified, log>>

\* The value the notification will call old is read before the change; it is
\* None, too, if that read fails.
ReadOld(c) ==
  /\ AtStep(c, "old")
  /\ \E old \in {refs[handler[c].repo], None} :
       Handle(c, [handler[c] EXCEPT !.pc = "write", !.old = old])
  /\ UNCHANGED <<phase, gone, tables, data, transactions, notified, history>>

\* A failed or refused change is answered without a notification.
WriteRef(c) ==
  /\ AtStep(c, "write")
  /\ LET h == handler[c] IN
       \/ /\ Reply(c)
          /\ UNCHANGED <<refs, log>>
       \/ /\ h.op = "CasRef" => refs[h.repo] = h.expected
          /\ Len(log[h.repo]) < MaxWrites
          /\ refs' = [refs EXCEPT ![h.repo] = h.new]
          /\ log' = [log EXCEPT ![h.repo] = Append(@, [by |-> c, new |-> h.new])]
          /\ Handle(c, [h EXCEPT !.pc = "snapshot", !.at = Len(log[h.repo]) + 1])
  /\ UNCHANGED <<phase, gone, tables, stored, transactions, notified, since>>

\* Mutant of Snapshot: every connection is told.
SnapshotAll(c) ==
  /\ AtStep(c, "snapshot")
  /\ Handle(c, [handler[c] EXCEPT !.pc = "send", !.to = connections \ {c}])
  /\ UNCHANGED <<phase, gone, tables, data, transactions, notified, history>>

\* broadcast_ref_updated: the subscribers first, under their own lock, ...
Snapshot(c) ==
  /\ AtStep(c, "snapshot")
  /\ Handle(c, [handler[c] EXCEPT !.pc = "send", !.to = subscribers[handler[c].repo] \ {c}])
  /\ UNCHANGED <<phase, gone, tables, data, transactions, notified, history>>

\* ... then those of them that are still connected.
Send(c) ==
  /\ AtStep(c, "send")
  /\ LET h == handler[c]
         update == [repo |-> h.repo, old |-> h.old, new |-> h.new, at |-> h.at]
     IN  notified' = [d \in Conns |-> IF d \in h.to \intersect connections
                                      THEN Append(notified[d], update) ELSE notified[d]]
  /\ Reply(c)
  /\ UNCHANGED <<phase, gone, tables, data, transactions, history>>

BeginTransaction(c) ==
  /\ AtStep(c, "begin")
  /\ \/ /\ nextTx <= MaxTx
        /\ txs' = [txs EXCEPT ![nextTx] = [conn |-> c, repo |-> handler[c].repo, staged |-> {}]]
        /\ nextTx' = nextTx + 1
     \/ UNCHANGED transactions
  /\ Reply(c)
  /\ UNCHANGED <<phase, gone, tables, data, notified, history>>

\* Mutant of Owns: a known transaction id is enough.
OwnsAny(c, t) == t \in Open

Owns(c, t) == t \in Open /\ txs[t].conn = c

\* "transaction not found", for somebody else's transaction too.
TxRefused(c) ==
  /\ AtStep(c, "tx")
  /\ ~Owns(c, handler[c].tx)
  /\ Reply(c)
  /\ UNCHANGED <<phase, gone, tables, data, transactions, notified, history>>

TxPut(c) ==
  /\ AtStep(c, "tx") /\ handler[c].op = "TxPut"
  /\ Owns(c, handler[c].tx)
  /\ txs' = [txs EXCEPT ![handler[c].tx].staged = @ \union {handler[c].object}]
  /\ Reply(c)
  /\ UNCHANGED <<phase, gone, tables, data, nextTx, notified, history>>

\* A commit that fails keeps the transaction for a retry.
TxCommit(c) ==
  /\ AtStep(c, "tx") /\ handler[c].op = "TxCommit"
  /\ Owns(c, handler[c].tx)
  /\ LET t == txs[handler[c].tx] IN
       \/ /\ stored' = [stored EXCEPT ![t.repo] = @ \union t.staged]
          /\ txs' = [txs EXCEPT ![handler[c].tx] = None]
       \/ UNCHANGED <<stored, txs>>
  /\ Reply(c)
  /\ UNCHANGED <<phase, gone, tables, refs, nextTx, notified, history>>

TxRollback(c) ==
  /\ AtStep(c, "tx") /\ handler[c].op = "TxRollback"
  /\ Owns(c, handler[c].tx)
  /\ txs' = [txs EXCEPT ![handler[c].tx] = None]
  /\ Reply(c)
  /\ UNCHANGED <<phase, gone, tables, data, nextTx, notified, history>>

-----------------------------------------------------------------------------
Request(c) == Receive(c, Ops)

\* What the server does with a request it has, and with a client that left.
Serve(c) ==
  \/ Resolve(c) \/ ReadRef(c) \/ ReadOld(c) \/ WriteRef(c) \/ Snapshot(c) \/ Send(c)
  \/ BeginTransaction(c) \/ TxRefused(c) \/ TxPut(c) \/ TxCommit(c) \/ TxRollback(c)
  \/ EndLoop(c) \/ Unsubscribe(c) \/ RollBack(c)

Next == \E c \in Conns : Connect(c) \/ Leave(c) \/ Request(c) \/ Serve(c)

Spec == Init /\ [][Next]_vars

\* tokio polls every task that can run.
FairSpec == Spec /\ \A c \in Conns : WF_vars(Serve(c))

-----------------------------------------------------------------------------
\* A connection that has read a ref is told of every later change by others:
\* it is subscribed before it reads, and the broadcast comes after the change.
NoMissedUpdate ==
  \A c \in connections, r \in Repos :
    since[c][r] # None =>
      \A i \in since[c][r] + 1 .. Len(log[r]) :
        \/ log[r][i].by = c
        \/ \E d \in Conns : handler[d].repo = r /\ handler[d].at = i
        \/ \E k \in DOMAIN notified[c] : notified[c][k].repo = r /\ notified[c][k].at = i

\* "... without leaking repository activity to unrelated connections": a
\* connection hears only of repositories it has resolved.
NoLeak ==
  \A c \in connections : \A k \in DOMAIN notified[c] : c \in subscribers[notified[c][k].repo]

\* "Only the owning connection may use the TxId": nobody else's request fills,
\* commits or ends a transaction, at any point of its life.
OwnerDecides ==
  [][\A t \in Open : txs'[t] # txs[t] =>
       LET c == txs[t].conn IN handler'[c] # handler[c] \/ phase'[c] # phase[c]]_vars

\* "On disconnect, the server rolls back all transactions belonging to that
\* connection": none outlives it, also one begun as the client left.
NoOrphan == \A t \in Open : phase[txs[t].conn] # "closed"
=============================================================================
