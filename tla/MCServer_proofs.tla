--------------------------- MODULE MCServer_proofs ---------------------------
(***************************************************************************)
(* What the server of the remote protocol keeps, for every number of       *)
(* connections, repositories, values, objects and transactions: a client   *)
(* that read a ref is told of every later change, hears of no repository   *)
(* it has not resolved, and leaves no transaction behind.  And what the    *)
(* database file keeps, for every number of objects, transactions and      *)
(* processes: a commit is whole, and what it acknowledged is stored.       *)
(***************************************************************************)
EXTENDS MCServer, FiniteSetTheorems, WellFoundedInduction, TLAPS

Pcs == {"free", "resolve", "read", "old", "write", "snapshot", "send", "begin", "tx"}
Handlers ==
  [op : Ops \union {"none"}, pc : Pcs, repo : Repos \union {None},
   expected : Values \union {None}, new : Values \union {None}, old : Values \union {None},
   tx : Nat, object : Objects \union {None}, to : SUBSET Conns, at : Nat]
Updates == [repo : Repos, old : Values \union {None}, new : Values \union {None}, at : Nat]
Changes == [by : Conns, new : Values \union {None}]
Transactions == [conn : Conns, repo : Repos, staged : SUBSET Objects]

\* The type of every variable, the ones TypeOK leaves out included.
Types ==
  /\ phase \in [Conns -> Phases]
  /\ gone \in SUBSET Conns /\ connections \in SUBSET Conns
  /\ subscribers \in [Repos -> SUBSET Conns]
  /\ handler \in [Conns -> Handlers]
  /\ refs \in [Repos -> Values \union {None}]
  /\ stored \in [Repos -> SUBSET Objects]
  /\ txs \in [TxIds -> Transactions \union {None}]
  /\ nextTx \in 1 .. MaxTx + 1
  /\ notified \in [Conns -> Seq(Updates)]
  /\ log \in [Repos -> Seq(Changes)]
  /\ since \in [Conns -> [Repos -> Nat \union {None}]]

\* A handler works for an open connection, on a repository it has resolved.
Working ==
  \A c \in Conns :
    /\ c \in connections <=> phase[c] = "open"
    /\ handler[c].pc # "free" => phase[c] = "open"
    /\ handler[c].pc \notin {"free", "tx"} => handler[c].repo \in Repos
    /\ handler[c].at # 0 => handler[c].pc \in {"snapshot", "send"}
    /\ handler[c].pc = "read" => c \in subscribers[handler[c].repo]
    /\ handler[c].op = "TxPut" => handler[c].object \in Objects

\* Nothing is known of a connection before it is made.
Fresh ==
  \A c \in Conns :
    phase[c] = "unused" =>
      /\ notified[c] = <<>>
      /\ \A r \in Repos : since[c][r] = None /\ c \notin subscribers[r]
      /\ \A d \in Conns : c \notin handler[d].to

\* Who has read the ref of a repository is subscribed to it.
ReadersSubscribe ==
  \A c \in connections, r \in Repos : since[c][r] # None => c \in subscribers[r]

\* A change being told of is in the log, and everybody who read before it and
\* is still there is on the list.
InLog(d) ==
  handler[d].pc \in {"snapshot", "send"} =>
    /\ handler[d].at \in 1 .. Len(log[handler[d].repo])
    /\ log[handler[d].repo][handler[d].at].by = d

Tells(d, c) ==
  LET r == handler[d].repo IN
  handler[d].pc = "send" =>
    /\ c \in handler[d].to => c \in subscribers[r]
    /\ since[c][r] # None /\ since[c][r] < handler[d].at /\ c # d => c \in handler[d].to

Telling == \A d \in Conns : InLog(d) /\ \A c \in connections : Tells(d, c)

\* The ids not yet given out name no transaction.
Numbered == \A t \in TxIds : t >= nextTx => txs[t] = None

\* What one connection still hears of one repository (NoMissedUpdate).
Hears(c, r) ==
  since[c][r] # None =>
    \A i \in since[c][r] + 1 .. Len(log[r]) :
      \/ log[r][i].by = c
      \/ \E d \in Conns : handler[d].repo = r /\ handler[d].at = i
      \/ \E k \in DOMAIN notified[c] : notified[c][k].repo = r /\ notified[c][k].at = i

LogBounded == \A r \in Repos : Len(log[r]) <= MaxWrites

IInv ==
  /\ Types /\ Working /\ Fresh /\ ReadersSubscribe /\ Telling /\ Numbered /\ LogBounded
  /\ NoMissedUpdate /\ NoLeak /\ NoOrphan
-----------------------------------------------------------------------------
\* A sequence and one element more.
LEMMA Appended ==
  ASSUME NEW S, NEW s \in Seq(S), NEW e \in S
  PROVE  /\ Append(s, e) \in Seq(S) /\ Len(s) \in Nat /\ Len(Append(s, e)) = Len(s) + 1
         /\ DOMAIN Append(s, e) = DOMAIN s \union {Len(s) + 1} /\ DOMAIN s = 1 .. Len(s)
         /\ \A i \in 1 .. Len(s) : Append(s, e)[i] = s[i]
         /\ Append(s, e)[Len(s) + 1] = e
OBVIOUS

\* A connection without a request has a handler too.
LEMMA FreeIsHandler == Free \in Handlers
BY DEF Free, Handlers, Pcs

\* NoMissedUpdate, connection by connection.
LEMMA HearsIsNoMissedUpdate ==
  NoMissedUpdate <=> \A c \in connections, r \in Repos : Hears(c, r)
BY DEF NoMissedUpdate, Hears

\* A step that changes no log, tells nobody, begins no telling, ends no
\* subscription of a connection and lets connections read the whole log.
LEMMA QuietStep ==
  ASSUME IInv, Types', UNCHANGED <<log, notified>>, connections' \subseteq connections,
         \A d \in Conns : {handler[d].pc, handler'[d].pc} \intersect {"snapshot", "send"} # {}
                           => handler'[d] = handler[d],
         \A x \in connections', r \in Repos :
           /\ x \in subscribers[r] => x \in subscribers'[r]
           /\ \/ since'[x][r] = since[x][r]
              \/ since'[x][r] = Len(log[r]) /\ x \in subscribers'[r]
  PROVE  ReadersSubscribe' /\ Telling' /\ LogBounded' /\ NoMissedUpdate' /\ NoLeak'
<1> USE DEF IInv
<1>1. ReadersSubscribe' /\ LogBounded'
  BY DEF ReadersSubscribe, LogBounded
<1>2. ASSUME NEW d \in Conns PROVE InLog(d)'
  BY DEF Telling, InLog
<1>3. ASSUME NEW d \in Conns, NEW x \in connections' PROVE Tells(d, x)'
  <2>1. CASE handler'[d].pc # "send"
    BY <2>1 DEF Tells
  <2>2. CASE handler'[d].pc = "send"
    <3> DEFINE r == handler[d].repo
    <3>1. handler'[d] = handler[d] /\ r \in Repos /\ handler[d].at \in 1 .. Len(log[r])
      BY <2>2 DEF Working, Telling, InLog
    <3>2. Tells(d, x)
      BY DEF Telling
    <3>3. x \in Conns /\ log[r] \in Seq(Changes) /\ Len(log[r]) \in Nat
      BY <3>1 DEF Types
    <3> QED BY <2>2, <3>1, <3>2, <3>3 DEF Tells
  <2> QED BY <2>1, <2>2
<1>4. Telling'
  BY <1>2, <1>3 DEF Telling
<1>5. ASSUME NEW x \in connections', NEW r \in Repos PROVE Hears(x, r)'
  <2>1. Hears(x, r)
    BY HearsIsNoMissedUpdate
  <2>2. \A d \in Conns : handler[d].at # 0 => handler'[d] = handler[d]
    BY DEF Working
  <2>3. CASE since'[x][r] = Len(log[r])
    BY <2>3 DEF Hears, Types
  <2>4. CASE since'[x][r] = since[x][r] /\ since[x][r] # None
    <3>1. since[x][r] \in Nat /\ Len(log[r]) \in Nat
      BY <2>4 DEF Types
    <3>2. ASSUME NEW i \in since[x][r] + 1 .. Len(log[r])
          PROVE  \/ log[r][i].by = x
                 \/ \E d \in Conns : handler'[d].repo = r /\ handler'[d].at = i
                 \/ \E k \in DOMAIN notified[x] : notified[x][k].repo = r /\ notified[x][k].at = i
      <4>1. i # 0
        BY <3>1
      <4> QED BY <2>1, <2>2, <2>4, <4>1 DEF Hears
    <3> QED BY <2>4, <3>2 DEF Hears
  <2>5. CASE since'[x][r] = None
    BY <2>5 DEF Hears
  <2> QED BY <2>3, <2>4, <2>5
<1>6. NoMissedUpdate'
  <2>1. NoMissedUpdate' <=> \A x \in connections', r \in Repos : Hears(x, r)'
    BY DEF NoMissedUpdate, Hears
  <2> QED BY <1>5, <2>1
<1>7. NoLeak'
  <2>1. ASSUME NEW x \in connections, NEW k \in DOMAIN notified[x] PROVE notified[x][k].repo \in Repos
    <3>1. x \in Conns /\ notified[x] \in Seq(Updates)
      BY DEF Types
    <3>2. notified[x][k] \in Updates
      BY <3>1
    <3> QED BY <3>2 DEF Updates
  <2> QED BY <2>1 DEF NoLeak
<1> QED BY <1>1, <1>4, <1>6, <1>7

\* A connection is made.
LEMMA ConnectKeeps ==
  ASSUME IInv, NEW c \in Conns, Connect(c)
  PROVE  IInv'
<1> USE DEF IInv
<1>1. /\ phase' = [phase EXCEPT ![c] = "open"] /\ connections' = connections \union {c}
      /\ phase[c] = "unused"
      /\ UNCHANGED <<gone, subscribers, handler, refs, stored, txs, nextTx, notified, log, since>>
  BY DEF Connect, data, transactions, history
<1>2. Types'
  BY <1>1 DEF Types, Phases
<1>3. Working'
  BY <1>1 DEF Types, Working
<1>4. Fresh'
  BY <1>1 DEF Types, Fresh
<1>5. ReadersSubscribe'
  BY <1>1 DEF Types, ReadersSubscribe, Fresh
<1>6. Telling'
  <2>1. ASSUME NEW d \in Conns PROVE InLog(d)'
    BY <1>1 DEF Telling, InLog
  <2>2. ASSUME NEW d \in Conns, NEW x \in connections PROVE Tells(d, x)'
    BY <1>1, <2>2 DEF Telling, Tells
  <2>3. ASSUME NEW d \in Conns PROVE Tells(d, c)'
    <3>1. handler[d].pc = "send" => handler[d].repo \in Repos
      BY DEF Working
    <3>2. c \notin handler[d].to /\ \A r \in Repos : since[c][r] = None
      BY <1>1 DEF Fresh
    <3> QED BY <1>1, <3>1, <3>2 DEF Tells
  <2> QED BY <1>1, <2>1, <2>2, <2>3 DEF Telling
<1>7. Numbered' /\ LogBounded'
  BY <1>1 DEF Numbered, LogBounded
<1>8. NoMissedUpdate'
  <2>1. ASSUME NEW x \in connections, NEW r \in Repos PROVE Hears(x, r)'
    BY <1>1, HearsIsNoMissedUpdate DEF Hears
  <2>2. ASSUME NEW r \in Repos PROVE Hears(c, r)'
    BY <1>1 DEF Hears, Fresh
  <2>3. NoMissedUpdate' <=> \A x \in connections', r \in Repos : Hears(x, r)'
    BY DEF NoMissedUpdate, Hears
  <2> QED BY <1>1, <2>1, <2>2, <2>3
<1>9. NoLeak'
  BY <1>1 DEF Types, NoLeak, Fresh
<1>10. NoOrphan'
  BY <1>1 DEF Types, NoOrphan, Open, Transactions
<1> QED BY <1>2, <1>3, <1>4, <1>5, <1>6, <1>7, <1>8, <1>9, <1>10

\* Leave, EndLoop, Unsubscribe and RollBack: a connection goes away.
LEMMA LeavingKeeps ==
  ASSUME IInv, NEW c \in Conns, Leave(c) \/ EndLoop(c) \/ Unsubscribe(c) \/ RollBack(c)
  PROVE  IInv'
<1> USE DEF IInv
<1>1. UNCHANGED <<handler, refs, stored, nextTx, notified, log, since>>
  BY DEF Leave, EndLoop, Unsubscribe, RollBack, data, transactions, history
<1>2. Types'
  <2>1. phase' \in [Conns -> Phases] /\ gone' \in SUBSET Conns /\ connections' \in SUBSET Conns
    BY DEF Types, Phases, Leave, EndLoop, Unsubscribe, RollBack, tables
  <2>2. subscribers' \in [Repos -> SUBSET Conns]
    BY DEF Types, Leave, EndLoop, Unsubscribe, RollBack, tables
  <2>3. txs' \in [TxIds -> Transactions \union {None}]
    BY DEF Types, Leave, EndLoop, Unsubscribe, RollBack, transactions
  <2> QED BY <1>1, <2>1, <2>2, <2>3 DEF Types
<1>3. Working'
  <2>1. \A d \in Conns : d \in connections' <=> phase'[d] = "open"
    BY DEF Types, Working, Leave, EndLoop, Unsubscribe, RollBack, tables
  <2>2. \A d \in Conns : handler[d].pc # "free" => phase'[d] = "open"
    BY DEF Types, Working, Leave, EndLoop, Unsubscribe, RollBack, tables
  <2>3. ASSUME NEW d \in Conns, handler[d].pc = "read" PROVE d \in subscribers'[handler[d].repo]
    <3>1. handler[d].repo \in Repos /\ d \in subscribers[handler[d].repo] /\ phase[d] = "open"
      BY <2>3 DEF Working
    <3> QED BY <3>1 DEF Leave, EndLoop, Unsubscribe, RollBack, tables
  <2> QED BY <1>1, <2>1, <2>2, <2>3 DEF Working
<1>4. Fresh'
  BY <1>1 DEF Types, Fresh, Leave, EndLoop, Unsubscribe, RollBack, tables
<1>5. Numbered'
  BY <1>1 DEF Types, Numbered, Leave, EndLoop, Unsubscribe, RollBack, transactions
<1>6. NoOrphan'
  BY <1>1 DEF Types, NoOrphan, Open, Transactions, Leave, EndLoop, Unsubscribe, RollBack, transactions
<1>7. /\ connections' \subseteq connections
      /\ \A x \in connections', r \in Repos : x \in subscribers[r] => x \in subscribers'[r]
  BY <1>1 DEF Types, Working, Leave, EndLoop, Unsubscribe, RollBack, tables
<1> QED BY <1>1, <1>2, <1>3, <1>4, <1>5, <1>6, <1>7, QuietStep

\* A step of one handler that tells nobody and is not told of: what is left
\* to show of such a step.
HandlerStep(c, h) ==
  /\ h \in Handlers /\ h.at = 0 /\ h.to \subseteq handler[c].to
  /\ h.pc \notin {"snapshot", "send"} /\ handler[c].pc \notin {"snapshot", "send"}
  /\ h.pc \notin {"free", "tx"} => h.repo \in Repos
  /\ h.op = "TxPut" => h.object \in Objects
  /\ handler' = [handler EXCEPT ![c] = h]

\* A handler goes on to its next step and tells nobody anything.
LEMMA HandlerStepKeeps ==
  ASSUME IInv, NEW c \in Conns, NEW h, HandlerStep(c, h), phase[c] = "open",
         UNCHANGED <<phase, gone, connections, log, notified>>,
         Types', Numbered', NoOrphan',
         h.pc = "read" => c \in subscribers'[h.repo],
         \A x \in Conns, r \in Repos :
           /\ x \in subscribers[r] => x \in subscribers'[r]
           /\ x \in subscribers'[r] => x \in subscribers[r] \/ x = c
           /\ \/ since'[x][r] = since[x][r]
              \/ since'[x][r] = Len(log[r]) /\ x = c /\ c \in subscribers'[r]
  PROVE  IInv'
<1> USE DEF IInv
<1>1. \A d \in Conns : handler'[d] = IF d = c THEN h ELSE handler[d]
  BY DEF HandlerStep, Types
<1>2. Working'
  BY <1>1 DEF Working, HandlerStep, Types
<1>3. Fresh'
  BY <1>1 DEF Fresh, HandlerStep
<1>4. \A d \in Conns : {handler[d].pc, handler'[d].pc} \intersect {"snapshot", "send"} # {}
                        => handler'[d] = handler[d]
  BY <1>1 DEF HandlerStep
<1>5. connections' \subseteq connections /\ connections' \subseteq Conns
  BY DEF Types
<1>6. ReadersSubscribe' /\ Telling' /\ LogBounded' /\ NoMissedUpdate' /\ NoLeak'
  BY <1>4, <1>5, QuietStep
<1> QED BY <1>2, <1>3, <1>6

\* A handler begins, goes on or answers, and nothing else changes.
LEMMA HandlingKeeps ==
  ASSUME IInv, NEW c \in Conns, Request(c) \/ ReadOld(c) \/ TxRefused(c)
  PROVE  IInv'
<1> USE DEF IInv
<1>1. /\ UNCHANGED <<phase, gone, connections, subscribers, refs, stored, txs, nextTx, notified, log, since>>
      /\ phase[c] = "open"
  BY DEF Request, Receive, ReadOld, TxRefused, AtStep, tables, data, transactions, history
<1>2. \E h : HandlerStep(c, h) /\ h.pc # "read"
  <2>1. ASSUME Request(c) PROVE \E h : HandlerStep(c, h) /\ h.pc # "read"
    <3>1. PICK op \in Ops : Ask(c, op)
      BY <2>1 DEF Request, Receive
    <3>2. PICK h : /\ h \in Handlers /\ h.at = 0 /\ h.to = {} /\ h.pc \in {"tx", "resolve"}
                   /\ h.pc = "resolve" => h.repo \in Repos
                   /\ h.op = "TxPut" => h.object \in Objects
                   /\ handler' = [handler EXCEPT ![c] = h]
      <4>1. CASE op \in TxOps
        <5>1. PICK t \in TxIds, o \in Objects \union {None} :
                /\ op = "TxPut" <=> o \in Objects
                /\ Handle(c, [Free EXCEPT !.op = op, !.pc = "tx", !.tx = t, !.object = o])
          BY <3>1, <4>1 DEF Ask
        <5> DEFINE h == [Free EXCEPT !.op = op, !.pc = "tx", !.tx = t, !.object = o]
        <5>2. t \in Nat
          BY BoundsAreNatural DEF TxIds
        <5>3. /\ h \in Handlers /\ h.at = 0 /\ h.to = {} /\ h.pc = "tx"
              /\ h.op = op /\ h.object = o
          BY <5>2 DEF Handlers, Pcs, Free
        <5> QED BY <5>1, <5>3 DEF Handle
      <4>2. CASE op \notin TxOps
        <5>1. PICK r \in Repos, x \in Values \union {None}, v \in Values \union {None} :
                Handle(c, [Free EXCEPT !.op = op, !.pc = "resolve", !.repo = r, !.expected = x, !.new = v])
          BY <3>1, <4>2 DEF Ask
        <5> DEFINE h == [Free EXCEPT !.op = op, !.pc = "resolve", !.repo = r, !.expected = x, !.new = v]
        <5>2. h \in Handlers /\ h.at = 0 /\ h.to = {} /\ h.pc = "resolve" /\ h.op = op /\ h.repo = r
          BY DEF Handlers, Pcs, Free
        <5> QED BY <4>2, <5>1, <5>2 DEF Handle, TxOps
      <4> QED BY <4>1, <4>2
    <3> QED BY <2>1, <3>2 DEF HandlerStep, Request, Receive, AtStep
  <2>2. ASSUME ReadOld(c) PROVE \E h : HandlerStep(c, h) /\ h.pc # "read"
    <3>1. handler[c] \in Handlers /\ handler[c].pc = "old" /\ handler[c].repo \in Repos
      BY <2>2 DEF ReadOld, AtStep, Types, Working
    <3>2. PICK old \in Values \union {None} :
            handler' = [handler EXCEPT ![c] = [handler[c] EXCEPT !.pc = "write", !.old = old]]
      BY <2>2, <3>1 DEF ReadOld, Handle, Types
    <3> DEFINE h == [handler[c] EXCEPT !.pc = "write", !.old = old]
    <3>3. h \in Handlers /\ h.at = handler[c].at /\ h.to = handler[c].to /\ h.pc = "write"
          /\ h.repo \in Repos /\ handler[c].at = 0 /\ (h.op = "TxPut" => h.object \in Objects)
      BY <3>1 DEF Handlers, Pcs, Working
    <3>4. HandlerStep(c, h)
      BY <3>1, <3>2, <3>3 DEF HandlerStep
    <3> QED BY <3>3, <3>4
  <2>3. ASSUME TxRefused(c) PROVE \E h : HandlerStep(c, h) /\ h.pc # "read"
    <3>1. HandlerStep(c, Free)
      BY <2>3, FreeIsHandler DEF TxRefused, AtStep, Reply, Handle, HandlerStep, Free
    <3> QED BY <3>1 DEF Free
  <2> QED BY <2>1, <2>2, <2>3
<1>3. PICK h : HandlerStep(c, h) /\ h.pc # "read"
  BY <1>2
<1>4. Types'
  BY <1>1, <1>3 DEF Types, HandlerStep
<1>5. Numbered' /\ NoOrphan'
  BY <1>1 DEF Numbered, NoOrphan, Open
<1> QED BY <1>1, <1>3, <1>4, <1>5, HandlerStepKeeps

\* Resolving a repository subscribes the connection.
LEMMA ResolveKeeps ==
  ASSUME IInv, NEW c \in Conns, Resolve(c)
  PROVE  IInv'
<1> USE DEF IInv
<1>1. /\ UNCHANGED <<phase, gone, connections, refs, stored, txs, nextTx, notified, log, since>>
      /\ phase[c] = "open" /\ handler[c].pc = "resolve"
  BY DEF Resolve, AtStep, data, transactions, history
<1>2. /\ handler[c] \in Handlers /\ handler[c].repo \in Repos /\ handler[c].at = 0
      /\ handler[c].op = "TxPut" => handler[c].object \in Objects
  BY <1>1 DEF Types, Working
<1>3. \E h : /\ HandlerStep(c, h) /\ (h.pc = "read" => h.repo = handler[c].repo)
             /\ \/ subscribers' = [subscribers EXCEPT ![handler[c].repo] = @ \union {c}]
                \/ subscribers' = subscribers /\ h = Free
  <2>1. CASE Reply(c) /\ UNCHANGED subscribers
    BY <1>1, <2>1, FreeIsHandler DEF Reply, Handle, HandlerStep, Free
  <2>2. ASSUME NEW pc \in {"read", "begin", "old"}, Goto(c, pc)
        PROVE  HandlerStep(c, [handler[c] EXCEPT !.pc = pc])
    <3> DEFINE h == [handler[c] EXCEPT !.pc = pc]
    <3>1. h \in Handlers /\ h.at = 0 /\ h.to = handler[c].to /\ h.pc = pc /\ h.repo \in Repos
          /\ (h.op = "TxPut" => h.object \in Objects)
      BY <1>2 DEF Handlers, Pcs
    <3> QED BY <1>1, <2>2, <3>1 DEF Goto, Handle, HandlerStep
  <2>3. CASE ~(Reply(c) /\ UNCHANGED subscribers)
    <3>1. PICK pc \in {"read", "begin", "old"} : Goto(c, pc)
      BY <2>3 DEF Resolve
    <3>2. subscribers' = [subscribers EXCEPT ![handler[c].repo] = @ \union {c}]
      BY <2>3 DEF Resolve
    <3>3. [handler[c] EXCEPT !.pc = pc].repo = handler[c].repo
      BY <1>2 DEF Handlers
    <3> QED BY <2>2, <3>1, <3>2, <3>3
  <2> QED BY <2>1, <2>3
<1>4. PICK h : /\ HandlerStep(c, h) /\ (h.pc = "read" => h.repo = handler[c].repo)
               /\ \/ subscribers' = [subscribers EXCEPT ![handler[c].repo] = @ \union {c}]
                  \/ subscribers' = subscribers /\ h = Free
  BY <1>3
<1> DEFINE grown == [subscribers EXCEPT ![handler[c].repo] = @ \union {c}]
<1>g. /\ grown \in [Repos -> SUBSET Conns]
      /\ \A r \in Repos : grown[r] = IF r = handler[c].repo THEN subscribers[r] \union {c} ELSE subscribers[r]
  BY <1>2 DEF Types
<1>5. Types'
  <2>1. subscribers' \in [Repos -> SUBSET Conns]
    BY <1>4, <1>g DEF Types
  <2> QED BY <1>1, <1>4, <2>1 DEF Types, HandlerStep
<1>6. Numbered' /\ NoOrphan'
  BY <1>1 DEF Numbered, NoOrphan, Open
<1>7. h.pc = "read" => c \in subscribers'[h.repo]
  BY <1>2, <1>4 DEF Free, Types
<1>8. \A x \in Conns, r \in Repos :
        /\ x \in subscribers[r] => x \in subscribers'[r]
        /\ x \in subscribers'[r] => x \in subscribers[r] \/ x = c
  BY <1>4, <1>g
<1>9. UNCHANGED <<phase, gone, connections, log, notified>> /\ since' = since
  BY <1>1
<1> QED BY <1>1, <1>4, <1>5, <1>6, <1>7, <1>8, <1>9, HandlerStepKeeps

\* A read of a ref: from now on the connection is to hear of changes.
LEMMA ReadRefKeeps ==
  ASSUME IInv, NEW c \in Conns, ReadRef(c)
  PROVE  IInv'
<1> USE DEF IInv
<1> DEFINE r == handler[c].repo
<1>1. /\ UNCHANGED <<phase, gone, connections, subscribers, refs, stored, txs, nextTx, notified, log>>
      /\ phase[c] = "open" /\ handler[c].pc = "read"
      /\ since' = [since EXCEPT ![c][r] = Len(log[r])]
  BY DEF ReadRef, AtStep, tables, data, transactions
<1>2. r \in Repos /\ c \in subscribers[r]
  BY <1>1 DEF Working
<1>3. HandlerStep(c, Free)
  BY <1>1, FreeIsHandler DEF ReadRef, Reply, Handle, HandlerStep, Free
<1>4. Types'
  BY <1>1, <1>2, <1>3 DEF Types, HandlerStep
<1>5. Numbered' /\ NoOrphan'
  BY <1>1 DEF Numbered, NoOrphan, Open
<1>6. \A x \in Conns, q \in Repos :
        since'[x][q] = since[x][q] \/ (since'[x][q] = Len(log[q]) /\ x = c /\ q = r)
  BY <1>1, <1>2 DEF Types
<1> HIDE DEF r
<1> QED BY <1>1, <1>2, <1>3, <1>4, <1>5, <1>6, HandlerStepKeeps DEF Free

\* Transactions are begun, filled and ended.
LEMMA TransactionKeeps ==
  ASSUME IInv, NEW c \in Conns,
         BeginTransaction(c) \/ TxPut(c) \/ TxCommit(c) \/ TxRollback(c)
  PROVE  IInv'
<1> USE DEF IInv
<1>1. /\ UNCHANGED <<phase, gone, connections, subscribers, refs, notified, log, since>>
      /\ phase[c] = "open" /\ handler[c].pc \in {"begin", "tx"} /\ Reply(c)
  BY DEF BeginTransaction, TxPut, TxCommit, TxRollback, AtStep, tables, data, history
<1>2. HandlerStep(c, Free)
  BY <1>1, FreeIsHandler DEF Reply, Handle, HandlerStep, Free
<1>3. Types' /\ Numbered' /\ NoOrphan'
  <2>1. CASE BeginTransaction(c)
    <3>1. handler[c].repo \in Repos
      BY <2>1 DEF Working, BeginTransaction, AtStep
    <3>2. stored' = stored
      BY <2>1 DEF BeginTransaction, data
    <3>3. CASE UNCHANGED transactions
      BY <1>1, <1>2, <3>2, <3>3 DEF transactions, Types, Numbered, NoOrphan, Open, HandlerStep
    <3>4. CASE nextTx <= MaxTx /\ nextTx' = nextTx + 1
               /\ txs' = [txs EXCEPT ![nextTx] = [conn |-> c, repo |-> handler[c].repo, staged |-> {}]]
      <4>1. nextTx \in TxIds /\ [conn |-> c, repo |-> handler[c].repo, staged |-> {}] \in Transactions
        BY <3>1, <3>4, BoundsAreNatural DEF Types, TxIds, Transactions
      <4>2. Types'
        BY <1>1, <1>2, <3>2, <3>4, <4>1, BoundsAreNatural DEF Types, HandlerStep, TxIds
      <4>3. Numbered'
        BY <3>4, <4>1, BoundsAreNatural DEF Numbered, Types, TxIds
      <4>4. NoOrphan'
        BY <1>1, <3>4, <4>1 DEF NoOrphan, Open, Types
      <4> QED BY <4>2, <4>3, <4>4
    <3> QED BY <2>1, <3>3, <3>4 DEF BeginTransaction
  <2>2. CASE TxPut(c) \/ TxCommit(c) \/ TxRollback(c)
    <3> DEFINE t == handler[c].tx
    <3>1. t \in TxIds /\ txs[t] # None /\ txs[t] \in Transactions /\ txs[t].conn = c /\ nextTx' = nextTx
      BY <2>2 DEF TxPut, TxCommit, TxRollback, Owns, Open, Types, transactions
    <3>2. stored' \in [Repos -> SUBSET Objects]
      <4>1. CASE TxPut(c) \/ TxRollback(c)
        BY <4>1 DEF TxPut, TxRollback, Types, data
      <4>2. CASE TxCommit(c)
        <5>1. txs[t].staged \in SUBSET Objects /\ stored \in [Repos -> SUBSET Objects]
          BY <3>1 DEF Transactions, Types
        <5>2. stored' = stored \/ stored' = [stored EXCEPT ![txs[t].repo] = @ \union txs[t].staged]
          BY <4>2 DEF TxCommit
        <5> QED BY <5>1, <5>2
      <4> QED BY <2>2, <4>1, <4>2
    <3>3. \/ txs' = txs
          \/ txs' = [txs EXCEPT ![t] = None]
          \/ /\ txs' = [txs EXCEPT ![t].staged = @ \union {handler[c].object}]
             /\ handler[c].object \in Objects
      <4>1. CASE TxPut(c)
        BY <4>1 DEF TxPut, Working
      <4>2. CASE TxCommit(c)
        BY <4>2 DEF TxCommit
      <4>3. CASE TxRollback(c)
        BY <4>3 DEF TxRollback
      <4> QED BY <2>2, <4>1, <4>2, <4>3
    <3> HIDE DEF t
    <3>4. txs' \in [TxIds -> Transactions \union {None}]
      <4>1. CASE txs' = txs \/ txs' = [txs EXCEPT ![t] = None]
        BY <4>1 DEF Types
      <4>2. CASE /\ txs' = [txs EXCEPT ![t].staged = @ \union {handler[c].object}]
                 /\ handler[c].object \in Objects
        <5> DEFINE filled == [txs[t] EXCEPT !.staged = @ \union {handler[c].object}]
        <5>1. filled \in Transactions
          BY <3>1, <4>2 DEF Transactions
        <5>2. txs' = [txs EXCEPT ![t] = filled]
          BY <4>2
        <5> HIDE DEF filled
        <5> QED BY <5>1, <5>2 DEF Types
      <4> QED BY <3>3, <4>1, <4>2
    <3>5. Types'
      BY <1>1, <1>2, <3>1, <3>2, <3>4 DEF Types, HandlerStep
    <3>6. \A u \in TxIds : /\ txs[u] = None => txs'[u] = None \/ u = t
                           /\ txs'[u] # None => txs[u] # None \/ u = t
                           /\ txs'[u] # None => txs'[u].conn = txs[u].conn
      BY <3>1, <3>3 DEF Types, Transactions
    <3>7. NoOrphan'
      BY <1>1, <3>1, <3>6 DEF NoOrphan, Open
    <3>8. Numbered'
      BY <3>1, <3>6 DEF Numbered
    <3> QED BY <3>5, <3>7, <3>8
  <2> QED BY <2>1, <2>2
<1> QED BY <1>1, <1>2, <1>3, HandlerStepKeeps DEF Free

\* A change is made, or refused.
LEMMA WriteRefKeeps ==
  ASSUME IInv, NEW c \in Conns, WriteRef(c)
  PROVE  IInv'
<1> USE DEF IInv
<1> DEFINE r == handler[c].repo
           n == Len(log[r]) + 1
           h == [handler[c] EXCEPT !.pc = "snapshot", !.at = n]
<1>1. /\ UNCHANGED <<phase, gone, connections, subscribers, stored, txs, nextTx, notified, since>>
      /\ phase[c] = "open" /\ handler[c].pc = "write"
  BY DEF WriteRef, AtStep, tables, transactions
<1>2. Numbered' /\ NoOrphan'
  BY <1>1 DEF Numbered, NoOrphan, Open
<1>3. CASE Reply(c) /\ UNCHANGED <<refs, log>>
  <2>1. HandlerStep(c, Free)
    BY <1>1, <1>3, FreeIsHandler DEF Reply, Handle, HandlerStep, Free
  <2>2. Types'
    BY <1>1, <1>3, <2>1 DEF Types, HandlerStep
  <2> QED BY <1>1, <1>2, <1>3, <2>1, <2>2, HandlerStepKeeps DEF Free
<1>4. CASE /\ Len(log[r]) < MaxWrites
           /\ refs' = [refs EXCEPT ![r] = handler[c].new]
           /\ log' = [log EXCEPT ![r] = Append(@, [by |-> c, new |-> handler[c].new])]
           /\ handler' = [handler EXCEPT ![c] = h]
  <2> DEFINE change == [by |-> c, new |-> handler[c].new]
  <2>1. /\ r \in Repos /\ handler[c] \in Handlers /\ handler[c].at = 0
        /\ log[r] \in Seq(Changes) /\ Len(log[r]) \in Nat
        /\ change \in Changes /\ change.by = c /\ handler[c].new \in Values \union {None}
    <3>1. r \in Repos /\ handler[c] \in Handlers /\ handler[c].at = 0
      BY <1>1 DEF Working, Types
    <3>2. log[r] \in Seq(Changes) /\ Len(log[r]) \in Nat
      BY <3>1 DEF Types
    <3>3. handler[c].new \in Values \union {None}
      BY <3>1 DEF Handlers
    <3>4. change \in Changes /\ change.by = c
      BY <3>3 DEF Changes
    <3> QED BY <3>1, <3>2, <3>3, <3>4
  <2> HIDE DEF change
  <2>2. /\ h \in Handlers /\ h.pc = "snapshot" /\ h.at = n /\ h.to = handler[c].to /\ h.repo = r
        /\ h.op = handler[c].op /\ h.object = handler[c].object
    <3>1. n \in Nat
      BY <2>1
    <3> HIDE DEF n
    <3> QED BY <2>1, <3>1 DEF Handlers, Pcs
  <2> HIDE DEF h
  <2>3. \A d \in Conns : handler'[d] = IF d = c THEN h ELSE handler[d]
    BY <1>4 DEF Types
  <2>4. \A q \in Repos : log'[q] = IF q = r THEN Append(log[q], change) ELSE log[q]
    BY <1>4, <2>1 DEF Types, change
  <2>g. /\ Append(log[r], change) \in Seq(Changes) /\ Len(Append(log[r], change)) = n /\ n \in 1 .. n
        /\ \A i \in 1 .. Len(log[r]) : Append(log[r], change)[i] = log[r][i]
        /\ Append(log[r], change)[n] = change
    <3> DEFINE s == log[r]
    <3>1. s \in Seq(Changes) /\ change \in Changes
      BY <2>1
    <3> HIDE DEF s
    <3>2. /\ Append(s, change) \in Seq(Changes) /\ Len(Append(s, change)) = Len(s) + 1
          /\ \A i \in 1 .. Len(s) : Append(s, change)[i] = s[i]
          /\ Append(s, change)[Len(s) + 1] = change /\ Len(s) + 1 \in 1 .. Len(s) + 1
      BY <3>1, Appended
    <3> QED BY <3>2 DEF s
  <2>5. ASSUME NEW q \in Repos
        PROVE            /\ log'[q] \in Seq(Changes)
                         /\ Len(log'[q]) = IF q = r THEN n ELSE Len(log[q])
                         /\ \A i \in 1 .. Len(log[q]) : log'[q][i] = log[q][i]
    <3>1. CASE q = r
      BY <2>4, <2>g, <3>1
    <3>2. CASE q # r
      BY <2>4, <3>2 DEF Types
    <3> QED BY <3>1, <3>2
  <2>6. n \in 1 .. n /\ log'[r][n].by = c
    BY <2>1, <2>4, <2>g
  <2>7. Types'
    <3>1. handler' \in [Conns -> Handlers]
      BY <1>4, <2>2 DEF Types
    <3>2. log' \in [Repos -> Seq(Changes)] /\ refs' \in [Repos -> Values \union {None}]
      BY <1>4, <2>1, <2>5 DEF Types
    <3> QED BY <1>1, <3>1, <3>2 DEF Types
  <2>8. Working' /\ Fresh' /\ ReadersSubscribe'
    <3>1. Working'
      BY <1>1, <2>1, <2>2, <2>3 DEF Working
    <3>2. Fresh' /\ ReadersSubscribe'
      BY <1>1, <2>2, <2>3 DEF Fresh, ReadersSubscribe
    <3> QED BY <3>1, <3>2
  <2>9. LogBounded'
    BY <1>4, <2>1, <2>5, BoundsAreNatural DEF LogBounded
  <2>10. Telling'
    <3>1. ASSUME NEW d \in Conns PROVE InLog(d)'
      <4>1. CASE d = c
        <5>1. handler'[d] = h /\ Len(log'[r]) = n
          BY <2>1, <2>3, <2>5, <4>1
        <5> QED BY <2>2, <2>6, <4>1, <5>1 DEF InLog
      <4>2. CASE d # c /\ handler[d].pc \in {"snapshot", "send"}
        <5> DEFINE q == handler[d].repo
        <5>1. InLog(d) /\ q \in Repos
          BY <4>2 DEF Telling, Working
        <5>2. /\ Len(log[q]) \in Nat /\ handler[d].at \in 1 .. Len(log[q]) /\ log[q][handler[d].at].by = d
              /\ handler'[d] = handler[d]
          BY <2>3, <4>2, <5>1 DEF InLog, Types
        <5> HIDE DEF q
        <5>3. handler[d].at \in 1 .. Len(log'[q]) /\ log'[q][handler[d].at].by = d
          BY <2>1, <2>5, <5>1, <5>2, SMTT(30)
        <5> QED BY <5>2, <5>3 DEF InLog, q
      <4> QED BY <2>3, <4>1, <4>2 DEF InLog
    <3>2. ASSUME NEW d \in Conns, NEW x \in connections PROVE Tells(d, x)'
      BY <1>1, <2>2, <2>3 DEF Tells, Telling
    <3> QED BY <1>1, <3>1, <3>2 DEF Telling
  <2>11. NoMissedUpdate'
    <3>1. ASSUME NEW x \in connections, NEW q \in Repos, since[x][q] # None,
                 NEW i \in since[x][q] + 1 .. Len(log'[q])
          PROVE  \/ log'[q][i].by = x
                 \/ \E d \in Conns : handler'[d].repo = q /\ handler'[d].at = i
                 \/ \E k \in DOMAIN notified[x] : notified[x][k].repo = q /\ notified[x][k].at = i
      <4>1. since[x][q] \in Nat /\ Len(log[q]) \in Nat
        BY <3>1 DEF Types
      <4>2. CASE i \in since[x][q] + 1 .. Len(log[q])
        <5>1. Hears(x, q) /\ i # 0 /\ log'[q][i] = log[q][i]
          BY <2>5, <4>1, <4>2, HearsIsNoMissedUpdate
        <5> QED BY <2>1, <2>3, <3>1, <4>2, <5>1 DEF Hears
      <4>3. CASE i \notin since[x][q] + 1 .. Len(log[q])
        <5>1. q = r /\ i = n
          BY <2>1, <2>5, <4>1, <4>3
        <5> QED BY <2>2, <2>3, <5>1
      <4> QED BY <4>2, <4>3
    <3> QED BY <1>1, <3>1 DEF NoMissedUpdate
  <2>12. NoLeak'
    BY <1>1 DEF NoLeak
  <2> QED BY <1>2, <2>7, <2>8, <2>9, <2>10, <2>11, <2>12
<1> QED BY <1>3, <1>4 DEF WriteRef, Handle

\* The subscribers are listed: everybody who has read the ref is one.
LEMMA SnapshotKeeps ==
  ASSUME IInv, NEW c \in Conns, Snapshot(c)
  PROVE  IInv'
<1> USE DEF IInv
<1> DEFINE r == handler[c].repo
           h == [handler[c] EXCEPT !.pc = "send", !.to = subscribers[r] \ {c}]
<1>1. /\ UNCHANGED <<phase, gone, connections, subscribers, refs, stored, txs, nextTx, notified, log, since>>
      /\ phase[c] = "open" /\ handler[c].pc = "snapshot" /\ handler' = [handler EXCEPT ![c] = h]
  BY DEF Snapshot, AtStep, Handle, tables, data, transactions, history
<1>2. r \in Repos /\ handler[c] \in Handlers /\ subscribers[r] \in SUBSET Conns
  BY <1>1 DEF Working, Types
<1>3. /\ h \in Handlers /\ h.pc = "send" /\ h.at = handler[c].at /\ h.to = subscribers[r] \ {c}
      /\ h.repo = r /\ h.op = handler[c].op /\ h.object = handler[c].object
  BY <1>2 DEF Handlers, Pcs
<1> HIDE DEF h
<1>4. \A d \in Conns : handler'[d] = IF d = c THEN h ELSE handler[d]
  BY <1>1 DEF Types
<1>5. Types'
  BY <1>1, <1>3 DEF Types
<1>6. Working'
  BY <1>1, <1>2, <1>3, <1>4 DEF Working
<1>7. Fresh' /\ ReadersSubscribe' /\ Numbered' /\ LogBounded' /\ NoOrphan' /\ NoLeak'
  BY <1>1, <1>2, <1>3, <1>4 DEF Fresh, ReadersSubscribe, Numbered, LogBounded, NoOrphan, Open, NoLeak
<1>8. Telling'
  <2>1. ASSUME NEW d \in Conns PROVE InLog(d)'
    BY <1>1, <1>3, <1>4 DEF Telling, InLog
  <2>2. ASSUME NEW d \in Conns, NEW x \in connections PROVE Tells(d, x)'
    <3>1. CASE d = c
      BY <1>1, <1>2, <1>3, <1>4, <3>1 DEF Tells, ReadersSubscribe
    <3>2. CASE d # c
      BY <1>1, <1>4, <3>2 DEF Tells, Telling
    <3> QED BY <3>1, <3>2
  <2> QED BY <1>1, <2>1, <2>2 DEF Telling
<1>9. NoMissedUpdate'
  BY <1>1, <1>3, <1>4 DEF NoMissedUpdate
<1> QED BY <1>5, <1>6, <1>7, <1>8, <1>9

\* The listed ones that are still there are told.
LEMMA SendKeeps ==
  ASSUME IInv, NEW c \in Conns, Send(c)
  PROVE  IInv'
<1> USE DEF IInv
<1> DEFINE r == handler[c].repo
           told == handler[c].to \intersect connections
           update == [repo |-> r, old |-> handler[c].old, new |-> handler[c].new, at |-> handler[c].at]
<1>1. /\ UNCHANGED <<phase, gone, connections, subscribers, refs, stored, txs, nextTx, log, since>>
      /\ phase[c] = "open" /\ handler[c].pc = "send" /\ handler' = [handler EXCEPT ![c] = Free]
      /\ notified' = [d \in Conns |-> IF d \in told THEN Append(notified[d], update) ELSE notified[d]]
  BY DEF Send, AtStep, Reply, Handle, tables, data, transactions, history
<1>2. /\ r \in Repos /\ update \in Updates /\ update.repo = r /\ update.at = handler[c].at
      /\ InLog(c) /\ \A x \in connections : Tells(c, x)
  BY <1>1 DEF Working, Types, Handlers, Updates, Telling
<1> HIDE DEF update
<1>3. \A d \in Conns : handler'[d] = IF d = c THEN Free ELSE handler[d]
  BY <1>1 DEF Types
<1>4. ASSUME NEW x \in Conns
      PROVE  /\ notified[x] \in Seq(Updates) /\ notified'[x] \in Seq(Updates)
             /\ \A k \in DOMAIN notified[x] :
                  k \in DOMAIN notified'[x] /\ notified'[x][k] = notified[x][k]
             /\ x \notin told => notified'[x] = notified[x]
             /\ x \in told =>
                  /\ DOMAIN notified'[x] = DOMAIN notified[x] \union {Len(notified[x]) + 1}
                  /\ notified'[x][Len(notified[x]) + 1] = update
  <2>1. notified[x] \in Seq(Updates) /\ DOMAIN notified[x] = 1 .. Len(notified[x])
    BY DEF Types
  <2>2. CASE x \in told
    <3> DEFINE s == notified[x]
    <3>1. s \in Seq(Updates) /\ update \in Updates
      BY <1>2, <2>1
    <3>2. notified'[x] = Append(s, update)
      BY <1>1, <2>2
    <3> HIDE DEF s
    <3>3. /\ Append(s, update) \in Seq(Updates)
          /\ DOMAIN Append(s, update) = DOMAIN s \union {Len(s) + 1} /\ DOMAIN s = 1 .. Len(s)
          /\ \A k \in 1 .. Len(s) : Append(s, update)[k] = s[k]
          /\ Append(s, update)[Len(s) + 1] = update
      BY <3>1, Appended
    <3> QED BY <2>1, <2>2, <3>2, <3>3 DEF s
  <2>3. CASE x \notin told
    BY <1>1, <2>1, <2>3
  <2> QED BY <2>2, <2>3
<1> HIDE DEF told
<1>5. Types'
  <2>1. notified' \in [Conns -> Seq(Updates)]
    BY <1>1, <1>4
  <2>2. handler' \in [Conns -> Handlers]
    BY <1>1, FreeIsHandler DEF Types
  <2> QED BY <1>1, <2>1, <2>2 DEF Types
<1>6. Working'
  BY <1>1, <1>3 DEF Working, Free
<1>7. Fresh'
  <2>1. \A x \in Conns : phase[x] = "unused" => x \notin told
    BY DEF Working, told
  <2> QED BY <1>1, <1>3, <1>4, <2>1 DEF Fresh, Free
<1>8. ReadersSubscribe' /\ Numbered' /\ LogBounded' /\ NoOrphan'
  BY <1>1 DEF ReadersSubscribe, Numbered, LogBounded, NoOrphan, Open
<1>9. Telling'
  BY <1>1, <1>3 DEF Telling, InLog, Tells, Free
<1>10. NoMissedUpdate'
  <2>1. ASSUME NEW x \in connections, NEW q \in Repos, since[x][q] # None,
               NEW i \in since[x][q] + 1 .. Len(log[q])
        PROVE  \/ log[q][i].by = x
               \/ \E d \in Conns : handler'[d].repo = q /\ handler'[d].at = i
               \/ \E k \in DOMAIN notified'[x] : notified'[x][k].repo = q /\ notified'[x][k].at = i
    <3>1. x \in Conns /\ since[x][q] \in Nat /\ Len(log[q]) \in Nat /\ Hears(x, q)
      BY <2>1, HearsIsNoMissedUpdate DEF Types
    <3>2. CASE q = r /\ i = handler[c].at /\ x # c
      <4>1. x \in told
        BY <1>1, <1>2, <2>1, <3>1, <3>2 DEF Tells, told
      <4>2. Len(notified[x]) + 1 \in DOMAIN notified'[x] /\ notified'[x][Len(notified[x]) + 1] = update
        BY <1>4, <3>1, <4>1
      <4> QED BY <1>2, <3>2, <4>2
    <3>3. CASE q = r /\ i = handler[c].at /\ x = c
      BY <1>1, <1>2, <3>3 DEF InLog
    <3>4. CASE ~(q = r /\ i = handler[c].at)
      <4>1. CASE log[q][i].by = x
        BY <4>1
      <4>2. CASE \E d \in Conns : handler[d].repo = q /\ handler[d].at = i
        BY <1>3, <3>4, <4>2
      <4>3. CASE \E k \in DOMAIN notified[x] : notified[x][k].repo = q /\ notified[x][k].at = i
        BY <1>4, <3>1, <4>3
      <4> QED BY <2>1, <3>1, <4>1, <4>2, <4>3 DEF Hears
    <3> QED BY <3>2, <3>3, <3>4
  <2>2. ASSUME NEW x \in connections, NEW q \in Repos PROVE Hears(x, q)'
    <3>1. CASE since[x][q] = None
      BY <1>1, <3>1 DEF Hears
    <3>2. CASE since[x][q] # None
      <4>1. \A i \in since[x][q] + 1 .. Len(log[q]) :
              \/ log[q][i].by = x
              \/ \E d \in Conns : handler'[d].repo = q /\ handler'[d].at = i
              \/ \E k \in DOMAIN notified'[x] : notified'[x][k].repo = q /\ notified'[x][k].at = i
        BY <2>1, <3>2
      <4>2. since' = since /\ log' = log
        BY <1>1
      <4> QED BY <4>1, <4>2 DEF Hears
    <3> QED BY <3>1, <3>2
  <2>3. NoMissedUpdate' <=> \A x \in connections', q \in Repos : Hears(x, q)'
    BY DEF NoMissedUpdate, Hears
  <2> QED BY <1>1, <2>2, <2>3
<1>11. NoLeak'
  <2>1. \A x \in told : x \in subscribers[r]
    BY <1>1, <1>2 DEF Tells, told
  <2>2. connections \subseteq Conns
    BY DEF Types
  <2> QED BY <1>1, <1>2, <1>4, <2>1, <2>2 DEF NoLeak
<1> QED BY <1>5, <1>6, <1>7, <1>8, <1>9, <1>10, <1>11
-----------------------------------------------------------------------------
\* A server without connections satisfies the invariant.
LEMMA InitIInv == Init => IInv
<1> SUFFICES ASSUME Init PROVE IInv
  OBVIOUS
<1>1. Types
  BY FreeIsHandler, BoundsAreNatural DEF Init, Types, Phases
<1>2. Working /\ Fresh /\ ReadersSubscribe /\ Telling
  BY DEF Init, Working, Fresh, ReadersSubscribe, Telling, InLog, Tells, Free
<1>3. Numbered /\ LogBounded /\ NoMissedUpdate /\ NoLeak /\ NoOrphan
  BY BoundsAreNatural DEF Init, Numbered, LogBounded, NoMissedUpdate, NoLeak, NoOrphan, Open
<1> QED BY <1>1, <1>2, <1>3 DEF IInv

\* Every step of the server keeps the invariant.
LEMMA NextIInv == IInv /\ [Next]_vars => IInv'
<1> SUFFICES ASSUME IInv, [Next]_vars PROVE IInv'
  OBVIOUS
<1>1. CASE UNCHANGED vars
  <2>1. UNCHANGED <<phase, gone, connections, subscribers, handler, refs, stored, txs, nextTx,
                    notified, log, since>>
    BY <1>1 DEF vars, tables, data, transactions, history
  <2>2. Types' /\ Working' /\ Fresh' /\ ReadersSubscribe' /\ Telling'
    BY <2>1 DEF IInv, Types, Working, Fresh, ReadersSubscribe, Telling, InLog, Tells
  <2>3. Numbered' /\ LogBounded' /\ NoMissedUpdate' /\ NoLeak' /\ NoOrphan'
    BY <2>1 DEF IInv, Numbered, LogBounded, NoMissedUpdate, NoLeak, NoOrphan, Open
  <2> QED BY <2>2, <2>3 DEF IInv
<1>2. ASSUME NEW c \in Conns, Connect(c) \/ Leave(c) \/ Request(c) \/ Serve(c) PROVE IInv'
  BY <1>2, ConnectKeeps, LeavingKeeps, HandlingKeeps, ResolveKeeps, ReadRefKeeps, TransactionKeeps,
     WriteRefKeeps, SnapshotKeeps, SendKeeps DEF Serve
<1> QED BY <1>1, <1>2 DEF Next

\* The tables, the handlers and the transactions of the server are well
\* formed, and a handler works only for a connection that is there.
THEOREM ServerTypeOK == Spec => []TypeOK
<1>1. IInv => TypeOK
  BY DEF IInv, Types, Working, LogBounded, TypeOK, Handlers, Pcs, Transactions, Open
<1> QED BY <1>1, InitIInv, NextIInv, PTL DEF Spec

\* A connection that has read a ref is told of every later change by others.
THEOREM ServerTellsReaders == Spec => []NoMissedUpdate
<1>1. IInv => NoMissedUpdate
  BY DEF IInv
<1> QED BY <1>1, InitIInv, NextIInv, PTL DEF Spec

\* A connection hears only of repositories it has resolved.
THEOREM ServerKeepsApart == Spec => []NoLeak
<1>1. IInv => NoLeak
  BY DEF IInv
<1> QED BY <1>1, InitIInv, NextIInv, PTL DEF Spec

\* No transaction outlives its connection.
THEOREM ServerLeavesNoTransaction == Spec => []NoOrphan
<1>1. IInv => NoOrphan
  BY DEF IInv
<1> QED BY <1>1, InitIInv, NextIInv, PTL DEF Spec

\* A step that changes a transaction is a step of the connection that began it.
LEMMA OwnerActs ==
  ASSUME IInv, Next, NEW t \in Open, txs'[t] # txs[t]
  PROVE  LET c == txs[t].conn IN handler'[c] # handler[c] \/ phase'[c] # phase[c]
<1>1. /\ handler \in [Conns -> Handlers] /\ phase \in [Conns -> Phases]
      /\ txs \in [TxIds -> Transactions \union {None}] /\ t \in TxIds
  BY DEF IInv, Types, Open
<1>2. PICK c \in Conns : Connect(c) \/ Leave(c) \/ Request(c) \/ Serve(c)
  BY DEF Next
<1>3. txs' # txs
  OBVIOUS
<1>4. RollBack(c) \/ BeginTransaction(c) \/ TxPut(c) \/ TxCommit(c) \/ TxRollback(c)
  BY <1>2, <1>3 DEF Connect, Leave, Request, Receive, Serve, Resolve, ReadRef, ReadOld, WriteRef, Snapshot,
     Send, TxRefused, EndLoop, Unsubscribe, transactions
<1>5. CASE RollBack(c)
  <2>1. txs[t].conn = c
    BY <1>1, <1>5 DEF RollBack
  <2>2. phase'[c] # phase[c]
    BY <1>1, <1>5 DEF RollBack
  <2> QED BY <2>1, <2>2
<1>6. CASE BeginTransaction(c)
  <2>1. t = nextTx /\ nextTx \in Nat
    BY <1>1, <1>3, <1>6 DEF BeginTransaction, transactions, IInv, Types
  <2>2. txs[t] = None
    BY <1>1, <2>1 DEF IInv, Numbered
  <2> QED BY <2>2 DEF Open
<1>7. CASE TxPut(c) \/ TxCommit(c) \/ TxRollback(c)
  <2>1. Owns(c, handler[c].tx) /\ handler[c].pc = "tx" /\ handler' = [handler EXCEPT ![c] = Free]
    BY <1>7 DEF TxPut, TxCommit, TxRollback, AtStep, Reply, Handle
  <2>2. t = handler[c].tx
    BY <1>1, <1>7 DEF TxPut, TxCommit, TxRollback
  <2>3. txs[t].conn = c
    BY <2>1, <2>2 DEF Owns
  <2>4. handler'[c] # handler[c]
    BY <1>1, <2>1 DEF Free
  <2> QED BY <2>3, <2>4
<1> QED BY <1>4, <1>5, <1>6, <1>7

\* Nobody's request but the owner's fills, commits or ends a transaction.
THEOREM OnlyOwnersDecide == Spec => OwnerDecides
<1> DEFINE Decides == \A t \in Open : txs'[t] # txs[t] =>
             LET c == txs[t].conn IN handler'[c] # handler[c] \/ phase'[c] # phase[c]
<1>1. IInv /\ [Next]_vars => [Decides]_vars
  BY OwnerActs
<1>2. Spec => [][Decides]_vars
  BY <1>1, InitIInv, NextIInv, PTL DEF Spec
<1> QED BY <1>2 DEF OwnerDecides

-----------------------------------------------------------------------------
(* The database file.                                                      *)

\* The forms of a transaction are in its commit, if one runs, else in its
\* queue: none is lost as long as no commit of it had to be retried.
Queued(t) ==
  ~retried[t] =>
    /\ txState[t] = "unused" => pending[t] = <<>> /\ accepted[t] = <<>>
    /\ txState[t] = "open" /\ (\A c \in Procs : File!Committing(c) => busy[c].tx # t)
         => pending[t] = accepted[t]
    /\ \A c \in Procs : File!Committing(c) /\ busy[c].tx = t
         => pending[t] = <<>> /\ busy[c].done \o busy[c].rest = accepted[t]
QueueIsWhole == \A t \in Txs : Queued(t)

\* A commit runs on the connection that its transaction began on, and ends
\* before the transaction does.
CommitsAreOpen ==
  /\ \A c \in Procs : File!Committing(c) => txState[busy[c].tx] = "open" /\ txConn[busy[c].tx] = c
  /\ \A t \in Txs : txState[t] # "unused" => txConn[t] \in Procs

FileInv ==
  /\ File!TypeOK /\ File!Addressed(rows) /\ QueueIsWhole /\ CommitsAreOpen /\ StoredUnlessRetried

\* Several puts of one object have a last one: a finite set of positions
\* has a greatest element.
LEMMA LastOf ==
  ASSUME NEW S, S \subseteq Int, IsFiniteSet(S), S # {}
  PROVE  File!Max(S) \in S
<1> DEFINE Above(k) == {y \in S : y > k}
           T == {Above(k) : k \in S}
<1>1. ASSUME NEW k \in S PROVE Above(k) \in FiniteSubsetsOf(S)
  BY FS_Subset, Above(k) \in SUBSET S DEF FiniteSubsetsOf
<1>2. T \subseteq FiniteSubsetsOf(S) /\ T # {}
  BY <1>1
<1>3. PICK A \in T : \A B \in T : <<B, A>> \notin StrictSubsetOrdering(S)
  <2> HIDE DEF T
  <2> QED BY ONLY <1>2, WFMin, FS_StrictSubsetOrderingWellFounded
<1>4. PICK m \in S : A = Above(m)
  OBVIOUS
<1>5. ASSUME NEW y \in S, y > m PROVE FALSE
  <2>1. Above(y) \in T
    OBVIOUS
  <2>2. ~(y > y) /\ \A k \in S : k > y => k > m
    BY <1>5
  <2>3. y \in Above(m) /\ y \notin Above(y) /\ Above(y) \subseteq Above(m)
    BY <1>5, <2>2
  <2>4. <<Above(y), A>> \in StrictSubsetOrdering(S)
    BY <1>4, <2>3 DEF StrictSubsetOrdering
  <2> QED BY <1>3, <2>1, <2>4
<1>6. m \in S /\ \A y \in S : m >= y
  BY <1>5
<1> QED BY <1>6 DEF File!Max

\* What a commit writes, for the file.
LEMMA FileFlush ==
  ASSUME NEW table \in [Hashes -> Forms \union {None}], NEW forms \in Seq(Forms)
  PROVE  /\ File!Flush(table, forms) \in [Hashes -> Forms \union {None}]
         /\ \A h \in Hashes : table[h] # None => File!Flush(table, forms)[h] # None
         /\ \A i \in DOMAIN forms : File!Flush(table, forms)[IdentityOf[forms[i]]] # None
         /\ File!Addressed(table) => File!Addressed(File!Flush(table, forms))
<1> DEFINE Hits(h) == {i \in DOMAIN forms : IdentityOf[forms[i]] = h}
<1>1. ASSUME NEW h \in Hashes, Hits(h) # {} PROVE File!Max(Hits(h)) \in Hits(h)
  <2>1. Hits(h) \in SUBSET (1 .. Len(forms)) /\ Len(forms) \in Nat
    OBVIOUS
  <2> HIDE DEF Hits
  <2>2. IsFiniteSet(1 .. Len(forms))
    BY <2>1, FS_Interval
  <2>3. IsFiniteSet(Hits(h)) /\ Hits(h) \subseteq Int
    BY <2>1, <2>2, FS_Subset
  <2> QED BY <1>1, <2>3, LastOf
<1>2. ASSUME NEW h \in Hashes, Hits(h) # {}
      PROVE  /\ File!Flush(table, forms)[h] = forms[File!Max(Hits(h))]
             /\ forms[File!Max(Hits(h))] \in Forms
             /\ IdentityOf[forms[File!Max(Hits(h))]] = h
  BY <1>1, <1>2 DEF File!Flush
<1>3. ASSUME NEW h \in Hashes, Hits(h) = {} PROVE File!Flush(table, forms)[h] = table[h]
  BY <1>3 DEF File!Flush
<1>4. File!Flush(table, forms) = [h \in Hashes |-> File!Flush(table, forms)[h]]
  BY DEF File!Flush
<1>5. \A i \in DOMAIN forms : IdentityOf[forms[i]] \in Hashes /\ i \in Hits(IdentityOf[forms[i]])
  BY FileConstants
<1> HIDE DEF Hits
<1> QED BY <1>2, <1>3, <1>4, <1>5, FileConstants DEF File!Addressed

\* A connection that runs a commit has the fields of one.
LEMMA CommitFields ==
  ASSUME File!TypeOK, NEW c \in Procs, File!Committing(c)
  PROVE  /\ busy[c] \in File!CommitOp
         /\ busy[c].tx \in Txs /\ busy[c].done \in Seq(Forms) /\ busy[c].rest \in Seq(Forms)
         /\ busy[c] # None
BY DEF File!TypeOK, File!Committing, File!CommitOp, File!CasOp

\* A new operation is none of the others.
LEMMA NewCommit ==
  ASSUME NEW t \in Txs, NEW d \in Seq(Forms), NEW r \in Seq(Forms)
  PROVE  LET op == [op |-> "commit", tx |-> t, done |-> d, rest |-> r]
         IN  op \in File!CommitOp /\ op # None /\ op.op = "commit"
BY FileConstants DEF File!CommitOp

\* A new file satisfies its invariant.
LEMMA FileInitInv == File!Init => FileInv
<1> SUFFICES ASSUME File!Init PROVE FileInv
  OBVIOUS
<1>1. File!TypeOK
  BY DEF File!Init, File!TypeOK, File!TxStates
<1>2. File!Addressed(rows) /\ QueueIsWhole /\ CommitsAreOpen /\ StoredUnlessRetried
  BY DEF File!Init, File!Addressed, QueueIsWhole, Queued, CommitsAreOpen, StoredUnlessRetried,
         File!StoredUnlessRetried, File!Committing
<1> QED BY <1>1, <1>2 DEF FileInv

\* What a step on one connection is to a transaction that has no commit there.
LEMMA OthersQueued ==
  ASSUME NEW c \in Procs, NEW u \in Txs, Queued(u), UNCHANGED <<pending[u], accepted[u], retried[u]>>,
         txState'[u] = txState[u] \/ txState'[u] \in {"committed", "discarded"},
         \A e \in Procs \ {c} : busy'[e] = busy[e],
         File!Committing(c) => busy[c].tx # u, File!Committing(c)' => busy'[c].tx # u
  PROVE  Queued(u)'
<1>1. \A e \in Procs \ {c} : File!Committing(e)' <=> File!Committing(e)
  BY DEF File!Committing
<1> QED BY <1>1 DEF Queued

\* A step of the owner of a handle, while no commit of it runs.
LEMMA OwnerStep ==
  ASSUME FileInv, File!TypeOK', NEW t \in Txs, UNCHANGED <<rows, retried, busy>>,
         \A u \in Txs \ {t} : /\ txState'[u] = txState[u] /\ txConn'[u] = txConn[u]
                              /\ pending'[u] = pending[u] /\ accepted'[u] = accepted[u],
         \A c \in Procs : File!Committing(c) => busy[c].tx # t,
         txState'[t] \in {"open", "discarded"}, txConn'[t] \in Procs,
         txState'[t] = "open" /\ ~retried[t] => pending'[t] = accepted'[t]
  PROVE  FileInv'
<1> USE DEF FileInv
<1>1. \A c \in Procs : File!Committing(c)' <=> File!Committing(c)
  BY DEF File!Committing
<1>2. QueueIsWhole'
  BY <1>1, ZenonT(60) DEF QueueIsWhole, Queued
<1>3. CommitsAreOpen'
  BY <1>1, CommitFields DEF CommitsAreOpen
<1>4. File!Addressed(rows)' /\ StoredUnlessRetried'
  BY DEF File!Addressed, StoredUnlessRetried, File!StoredUnlessRetried, File!FormsIn
<1> QED BY <1>2, <1>3, <1>4

\* begin() keeps the invariant of the file.
LEMMA BeginKeeps ==
  ASSUME FileInv, NEW t \in Txs, NEW c \in Procs, File!Begin(t, c)
  PROVE  FileInv'
<1> USE DEF FileInv, File!TypeOK, File!TxStates
<1>1. File!TypeOK'
  BY DEF File!Begin
<1>2. \A d \in Procs : File!Committing(d) => busy[d].tx # t
  BY DEF File!Begin, CommitsAreOpen
<1>3. /\ UNCHANGED <<rows, pending, accepted, retried, busy>>
      /\ \A u \in Txs \ {t} : txState'[u] = txState[u] /\ txConn'[u] = txConn[u]
      /\ txState'[t] = "open" /\ txConn'[t] \in Procs
  BY DEF File!Begin
<1>4. ~retried[t] => pending'[t] = accepted'[t]
  BY <1>3 DEF File!Begin, QueueIsWhole, Queued
<1> QED BY <1>1, <1>2, <1>3, <1>4, OwnerStep

\* put() keeps the invariant of the file.
LEMMA PutKeeps ==
  ASSUME FileInv, NEW t \in Txs, NEW f \in Forms, File!Put(t, f)
  PROVE  FileInv'
<1> USE DEF FileInv, File!TypeOK, File!TxStates
<1>1. File!TypeOK'
  BY DEF File!Put
<1>2. /\ UNCHANGED <<rows, txState, txConn, retried, busy>> /\ txState[t] = "open"
      /\ \A d \in Procs : File!Committing(d) => busy[d].tx # t
      /\ pending' = [pending EXCEPT ![t] = Append(@, f)]
      /\ accepted' = [accepted EXCEPT ![t] = Append(@, f)]
  BY DEF File!Put, File!Usable
<1>3. txConn'[t] \in Procs /\ (~retried[t] => pending'[t] = accepted'[t])
  BY <1>2 DEF QueueIsWhole, Queued, Queued, CommitsAreOpen
<1> QED BY <1>1, <1>2, <1>3, OwnerStep

\* rollback() keeps the invariant of the file.
LEMMA RollbackKeeps ==
  ASSUME FileInv, NEW t \in Txs, File!Rollback(t)
  PROVE  FileInv'
<1> USE DEF FileInv, File!TypeOK, File!TxStates
<1>1. File!TypeOK'
  BY DEF File!Rollback
<1>2. /\ UNCHANGED <<rows, txConn, accepted, retried, busy>> /\ txState[t] = "open"
      /\ \A d \in Procs : File!Committing(d) => busy[d].tx # t
      /\ txState' = [txState EXCEPT ![t] = "discarded"]
      /\ pending' = [pending EXCEPT ![t] = <<>>]
  BY DEF File!Rollback, File!Usable
<1>3. txConn'[t] \in Procs
  BY <1>2 DEF CommitsAreOpen
<1> QED BY <1>1, <1>2, <1>3, OwnerStep

\* commit() moves the queue into its drain.
LEMMA CommitStartKeeps ==
  ASSUME FileInv, NEW t \in Txs, File!CommitStart(t)
  PROVE  FileInv'
<1>0. PICK c \in Procs : c = txConn[t]
  BY DEF FileInv, File!CommitStart, File!Usable, CommitsAreOpen
<1> DEFINE op == [op |-> "commit", tx |-> t, done |-> <<>>, rest |-> pending[t]]
<1> USE DEF FileInv
<1>1. /\ txConn[t] = c /\ busy[c] = None /\ txState[t] = "open"
      /\ \A d \in Procs : File!Committing(d) => busy[d].tx # t
      /\ UNCHANGED <<rows, fileRefs, txState, txConn, accepted, retried>>
      /\ busy' = [busy EXCEPT ![c] = op] /\ pending' = [pending EXCEPT ![t] = <<>>]
  BY <1>0 DEF File!CommitStart, File!Usable, CommitsAreOpen
<1>2. pending[t] \in Seq(Forms) /\ <<>> \in Seq(Forms)
  BY DEF File!TypeOK
<1>3. op \in File!CommitOp /\ op # None /\ op.op = "commit"
  BY <1>2, NewCommit
<1>4. File!TypeOK'
  BY <1>1, <1>2, <1>3 DEF File!TypeOK
<1>5. /\ busy'[c] = op /\ File!Committing(c)' /\ ~File!Committing(c)
      /\ \A d \in Procs \ {c} : busy'[d] = busy[d] /\ (File!Committing(d)' <=> File!Committing(d))
  BY <1>1, <1>3 DEF File!Committing, File!TypeOK
<1>6. CommitsAreOpen'
  BY <1>1, <1>5 DEF CommitsAreOpen
<1>7. Queued(t)'
  <2>1. ~retried[t] => pending[t] = accepted[t] /\ pending'[t] = <<>>
    BY <1>1 DEF QueueIsWhole, Queued, File!TypeOK
  <2>2. op.tx = t /\ (~retried[t] => op.done \o op.rest = accepted'[t])
    BY <1>1, <1>2, <2>1
  <2>3. txState'[t] = "open" /\ \A d \in Procs \ {c} : File!Committing(d)' => busy'[d].tx # t
    BY <1>1, <1>5
  <2> HIDE DEF op
  <2> QED BY <1>1, <1>5, <2>1, <2>2, <2>3 DEF Queued
<1>8. QueueIsWhole'
  <2>1. ASSUME NEW u \in Txs \ {t} PROVE Queued(u)'
    <3>1. /\ Queued(u) /\ UNCHANGED <<pending[u], accepted[u], retried[u], txState>>
          /\ ~File!Committing(c) /\ busy'[c].tx # u
      BY <1>1, <1>5 DEF QueueIsWhole, File!TypeOK
    <3> QED BY <1>5, <3>1, OthersQueued
  <2> QED BY <1>7, <2>1 DEF QueueIsWhole
<1>9. File!Addressed(rows)' /\ StoredUnlessRetried'
  BY <1>1 DEF File!Addressed, StoredUnlessRetried, File!StoredUnlessRetried, File!FormsIn
<1> QED BY <1>4, <1>6, <1>8, <1>9

\* cas_ref, set_ref and delete_ref touch no transaction.
LEMMA RefsKeep ==
  ASSUME FileInv, NEW c \in Procs,
         \/ \E r \in Refs, h \in Hashes \union {None} : File!SetRef(c, r, h)
         \/ \E r \in Refs, old \in Hashes \union {None}, new \in Hashes : File!CasRead(c, r, old, new)
         \/ File!CasWrite(c) \/ File!CasErr(c)
  PROVE  FileInv'
<1> USE DEF FileInv
<1>1. File!TypeOK'
  <2>1. CASE \E r \in Refs, h \in Hashes \union {None} : File!SetRef(c, r, h)
    BY <2>1 DEF File!TypeOK, File!SetRef, File!txVars
  <2>2. CASE \E r \in Refs, old \in Hashes \union {None}, new \in Hashes : File!CasRead(c, r, old, new)
    BY <2>2 DEF File!TypeOK, File!CasRead, File!CasOp, File!txVars
  <2>3. CASE File!CasErr(c)
    BY <2>3 DEF File!TypeOK, File!CasErr, File!txVars
  <2>4. CASE File!CasWrite(c)
    <3>1. busy[c] \in File!CasOp
      BY <2>4 DEF File!TypeOK, File!CasWrite, File!Swapping, File!CommitOp, File!CasOp
    <3>2. busy[c].ref \in Refs /\ busy[c].new \in Hashes
      BY <3>1 DEF File!CasOp
    <3> QED BY <2>4, <3>2 DEF File!TypeOK, File!CasWrite, File!txVars
  <2> QED BY <2>1, <2>2, <2>3, <2>4
<1>2. /\ UNCHANGED <<rows, txState, txConn, pending, accepted, retried>>
      /\ \A d \in Procs \ {c} : busy'[d] = busy[d]
  BY DEF File!TypeOK, File!SetRef, File!CasRead, File!CasWrite, File!CasErr, File!txVars
<1>3. ~File!Committing(c)' /\ ~File!Committing(c)
  BY DEF File!TypeOK, File!SetRef, File!CasRead, File!CasWrite, File!CasErr, File!Committing,
         File!Swapping
<1>4. \A d \in Procs : /\ File!Committing(d)' <=> File!Committing(d)
                       /\ File!Committing(d) => busy'[d] = busy[d]
  BY <1>2, <1>3 DEF File!Committing
<1>5. CommitsAreOpen'
  BY <1>2, <1>4 DEF CommitsAreOpen
<1>6. QueueIsWhole'
  BY <1>2, <1>4, ZenonT(60) DEF QueueIsWhole, Queued
<1>7. File!Addressed(rows)' /\ StoredUnlessRetried'
  BY <1>2 DEF File!Addressed, StoredUnlessRetried, File!StoredUnlessRetried, File!FormsIn
<1> QED BY <1>1, <1>5, <1>6, <1>7

\* The first of what is left goes to the end of what is done.
LEMMA HeadMoves ==
  ASSUME NEW S, NEW d \in Seq(S), NEW r \in Seq(S), r # <<>>
  PROVE  /\ Append(d, Head(r)) \in Seq(S) /\ Tail(r) \in Seq(S)
         /\ Append(d, Head(r)) \o Tail(r) = d \o r
OBVIOUS

\* The drain yields the next form, and the statement writes it.
LEMMA CommitInsertKeeps ==
  ASSUME FileInv, NEW c \in Procs, File!CommitInsert(c)
  PROVE  FileInv'
<1>0. PICK t \in Txs : t = busy[c].tx
  BY CommitFields DEF FileInv, File!CommitInsert
<1> DEFINE d == Append(busy[c].done, Head(busy[c].rest))
           r == Tail(busy[c].rest)
           op == [busy[c] EXCEPT !.done = d, !.rest = r]
<1> USE DEF FileInv
<1>1. /\ File!Committing(c) /\ busy[c].rest # <<>>
      /\ UNCHANGED <<rows, fileRefs, txState, txConn, pending, accepted, retried>>
      /\ busy' = [busy EXCEPT ![c] = op]
  <2>1. File!Committing(c) /\ busy[c].rest # <<>>
    BY DEF File!CommitInsert
  <2>2. [busy EXCEPT ![c].done = d, ![c].rest = r] = [busy EXCEPT ![c] = op]
    BY DEF File!TypeOK
  <2> QED BY <2>1, <2>2 DEF File!CommitInsert, File!txVars
<1>2. /\ d \in Seq(Forms) /\ r \in Seq(Forms)
      /\ d \o r = busy[c].done \o busy[c].rest
  BY <1>1, CommitFields, HeadMoves
<1>3. op \in File!CommitOp /\ op # None /\ op.op = "commit" /\ op.tx = t /\ op.done = d /\ op.rest = r
  <2>1. busy[c] \in File!CommitOp
    BY <1>1, CommitFields
  <2> HIDE DEF d, r
  <2>2. op \in File!CommitOp /\ op.op = "commit" /\ op.tx = t /\ op.done = d /\ op.rest = r
    BY <1>0, <1>2, <2>1 DEF File!CommitOp
  <2> QED BY <2>2, FileConstants
<1>4. File!TypeOK'
  <2> HIDE DEF op
  <2> QED BY <1>1, <1>3 DEF File!TypeOK
<1>5. /\ \A e \in Procs : File!Committing(e)' <=> File!Committing(e)
      /\ \A e \in Procs : busy'[e].tx = busy[e].tx \/ ~File!Committing(e)
      /\ \A e \in Procs \ {c} : busy'[e] = busy[e]
      /\ busy'[c] = op
  <2>1. busy'[c] = op /\ op.tx = busy[c].tx
    BY <1>0, <1>1, <1>3 DEF File!TypeOK
  <2>2. \A e \in Procs \ {c} : busy'[e] = busy[e]
    BY <1>1 DEF File!TypeOK
  <2> HIDE DEF op
  <2> QED BY <1>1, <1>3, <2>1, <2>2 DEF File!Committing
<1>6. CommitsAreOpen'
  BY <1>1, <1>5 DEF CommitsAreOpen
<1>7. op.done \o op.rest = busy[c].done \o busy[c].rest
  BY <1>2, <1>3
<1>8. QueueIsWhole'
  <2>1. ASSUME NEW u \in Txs \ {t} PROVE Queued(u)'
    BY <1>0, <1>1, <1>3, <1>5, OthersQueued DEF QueueIsWhole
  <2>2. Queued(t)'
    <3>1. Queued(t) /\ \A e \in Procs \ {c} : busy'[e] = busy[e]
      BY <1>5 DEF QueueIsWhole
    <3> HIDE DEF op
    <3> QED BY <1>0, <1>1, <1>3, <1>5, <1>7, <3>1 DEF Queued
  <2> QED BY <2>1, <2>2 DEF QueueIsWhole
<1>9. File!Addressed(rows)' /\ StoredUnlessRetried'
  BY <1>1 DEF File!Addressed, StoredUnlessRetried, File!StoredUnlessRetried, File!FormsIn
<1> QED BY <1>4, <1>6, <1>8, <1>9

\* A commit that fails leaves its transaction open, and its forms nowhere.
LEMMA CommitErrKeeps ==
  ASSUME FileInv, NEW c \in Procs, File!CommitErr(c)
  PROVE  FileInv'
<1> USE DEF FileInv
<1>1. PICK t \in Txs : t = busy[c].tx
  BY CommitFields DEF File!CommitErr
<1>2. /\ UNCHANGED <<rows, fileRefs, txState, txConn, pending, accepted>>
      /\ retried' = [retried EXCEPT ![t] = TRUE] /\ busy' = [busy EXCEPT ![c] = None]
  BY <1>1 DEF File!CommitErr
<1>3. File!TypeOK'
  BY <1>2 DEF File!TypeOK
<1>4. /\ busy'[c] = None /\ ~File!Committing(c)'
      /\ \A e \in Procs \ {c} : busy'[e] = busy[e] /\ (File!Committing(e)' <=> File!Committing(e))
  BY <1>2 DEF File!Committing, File!TypeOK
<1>5. retried'[t] /\ \A u \in Txs \ {t} : retried'[u] = retried[u]
  BY <1>2 DEF File!TypeOK
<1>6. CommitsAreOpen'
  BY <1>2, <1>4 DEF CommitsAreOpen
<1>7. QueueIsWhole'
  <2>1. ASSUME NEW u \in Txs \ {t} PROVE Queued(u)'
    BY <1>1, <1>2, <1>4, <1>5, OthersQueued DEF QueueIsWhole
  <2> QED BY <1>5, <2>1 DEF QueueIsWhole, Queued
<1>8. File!Addressed(rows)' /\ StoredUnlessRetried'
  BY <1>2, <1>5 DEF File!Addressed, StoredUnlessRetried, File!StoredUnlessRetried, File!FormsIn
<1> QED BY <1>3, <1>6, <1>7, <1>8

\* COMMIT makes the whole transaction visible, and consumes the handle.
LEMMA CommitEndKeeps ==
  ASSUME FileInv, NEW c \in Procs, File!CommitEnd(c)
  PROVE  /\ FileInv'
         /\ \E t \in Txs : /\ txState[t] = "open" /\ txState'[t] = "committed"
                           /\ retried[t] \/ rows' = File!Flush(rows, accepted[t])
<1> USE DEF FileInv
<1>0. PICK t \in Txs : t = busy[c].tx
  BY CommitFields DEF File!CommitEnd
<1>1. /\ File!Committing(c) /\ busy[c].rest = <<>>
      /\ rows' = File!Flush(rows, busy[c].done)
      /\ txState' = [txState EXCEPT ![t] = "committed"] /\ busy' = [busy EXCEPT ![c] = None]
      /\ UNCHANGED <<fileRefs, txConn, pending, accepted, retried>>
  BY <1>0 DEF File!CommitEnd
<1>2. busy[c].done \in Seq(Forms) /\ rows \in [Hashes -> Forms \union {None}]
  BY <1>1, CommitFields DEF File!TypeOK
<1>3. /\ rows' \in [Hashes -> Forms \union {None}] /\ File!Addressed(rows')
      /\ \A h \in Hashes : rows[h] # None => rows'[h] # None
      /\ \A i \in DOMAIN busy[c].done : rows'[IdentityOf[busy[c].done[i]]] # None
  BY <1>1, <1>2, FileFlush
<1>4. File!TypeOK'
  BY <1>1, <1>3 DEF File!TypeOK, File!TxStates
<1>5. /\ busy'[c] = None /\ ~File!Committing(c)'
      /\ \A e \in Procs \ {c} : busy'[e] = busy[e] /\ (File!Committing(e)' <=> File!Committing(e))
  BY <1>1 DEF File!Committing, File!TypeOK
<1>6. /\ txState[t] = "open" /\ txState'[t] = "committed" /\ txConn[t] = c
      /\ \A u \in Txs \ {t} : txState'[u] = txState[u]
  BY <1>0, <1>1 DEF CommitsAreOpen, File!TypeOK
<1>7. \A e \in Procs \ {c} : File!Committing(e) => busy[e].tx # t
  BY <1>6 DEF CommitsAreOpen
<1>8. CommitsAreOpen'
  BY <1>1, <1>5, <1>6, <1>7, CommitFields DEF CommitsAreOpen
<1>9. QueueIsWhole'
  <2>1. ASSUME NEW u \in Txs \ {t} PROVE Queued(u)'
    BY <1>0, <1>1, <1>5, <1>6, OthersQueued DEF QueueIsWhole
  <2>2. Queued(t)'
    BY <1>5, <1>6, <1>7 DEF Queued
  <2> QED BY <2>1, <2>2 DEF QueueIsWhole
<1>10. retried[t] \/ busy[c].done = accepted[t]
  <2>1. retried[t] \/ busy[c].done \o busy[c].rest = accepted[t]
    BY <1>0, <1>1 DEF QueueIsWhole, Queued
  <2> QED BY <1>1, <1>2, <2>1
<1>11. StoredUnlessRetried'
  <2>1. ASSUME NEW u \in Txs, txState'[u] = "committed", ~retried'[u], NEW f \in File!FormsIn(accepted'[u])
        PROVE  rows'[IdentityOf[f]] # None
    <3>1. accepted[u] \in Seq(Forms) /\ f \in File!FormsIn(accepted[u]) /\ ~retried[u]
      BY <1>1, <2>1 DEF File!TypeOK
    <3>2. f \in Forms /\ IdentityOf[f] \in Hashes
      BY <3>1, FileConstants DEF File!FormsIn
    <3>3. CASE u = t
      BY <1>3, <1>10, <3>1, <3>3 DEF File!FormsIn
    <3>4. CASE u # t
      BY <1>3, <1>6, <2>1, <3>1, <3>2, <3>4 DEF StoredUnlessRetried, File!StoredUnlessRetried
    <3> QED BY <3>3, <3>4
  <2> QED BY <2>1 DEF StoredUnlessRetried, File!StoredUnlessRetried
<1> QED BY <1>1, <1>3, <1>4, <1>6, <1>8, <1>9, <1>10, <1>11

\* A process that dies takes its open transactions with it, whole.
LEMMA CrashKeeps ==
  ASSUME FileInv, NEW c \in Procs, File!Crash(c)
  PROVE  FileInv'
<1> USE DEF FileInv
<1>1. /\ UNCHANGED <<rows, fileRefs, txConn, accepted, retried>> /\ busy' = [busy EXCEPT ![c] = None]
      /\ \A u \in Txs :
           /\ txState'[u] = IF txConn[u] = c /\ txState[u] = "open" THEN "discarded" ELSE txState[u]
           /\ pending'[u] = IF txConn[u] = c THEN <<>> ELSE pending[u]
  BY DEF File!Crash
<1>2. File!TypeOK'
  <2>1. txState' \in [Txs -> File!TxStates]
    BY DEF File!Crash, File!TypeOK, File!TxStates
  <2>2. pending' \in [Txs -> Seq(Forms)]
    BY DEF File!Crash, File!TypeOK
  <2> QED BY <1>1, <2>1, <2>2 DEF File!TypeOK
<1>3. /\ busy'[c] = None /\ ~File!Committing(c)'
      /\ \A e \in Procs \ {c} : busy'[e] = busy[e] /\ (File!Committing(e)' <=> File!Committing(e))
  BY <1>1 DEF File!Committing, File!TypeOK
<1>4. CommitsAreOpen'
  BY <1>1, <1>3, CommitFields DEF CommitsAreOpen
<1>5. ASSUME NEW u \in Txs PROVE Queued(u)'
  <2>1. Queued(u) /\ (File!Committing(c) /\ busy[c].tx = u => txConn[u] = c)
    BY DEF QueueIsWhole, CommitsAreOpen
  <2>2. CASE txConn[u] # c
    BY <1>1, <1>3, <2>1, <2>2, OthersQueued
  <2>3. CASE txConn[u] = c
    <3>1. txState'[u] # "open" /\ pending'[u] = <<>>
      BY <1>1, <2>3
    <3>2. txState'[u] = "unused" => txState[u] = "unused"
      BY <1>1
    <3>3. \A e \in Procs : ~(File!Committing(e)' /\ busy'[e].tx = u)
      BY <1>3, <2>3 DEF CommitsAreOpen
    <3> QED BY <1>1, <2>1, <3>1, <3>2, <3>3 DEF Queued
  <2> QED BY <2>2, <2>3
<1>6. File!Addressed(rows)' /\ StoredUnlessRetried'
  BY <1>1 DEF File!Addressed, StoredUnlessRetried, File!StoredUnlessRetried, File!FormsIn
<1> QED BY <1>2, <1>4, <1>5, <1>6 DEF QueueIsWhole

\* Every step keeps the invariant, and only the end of a commit writes rows.
LEMMA FileStep ==
  ASSUME FileInv, File!Next \/ UNCHANGED file
  PROVE  FileInv' /\ File!RowsMoveWhole
<1>1. CASE UNCHANGED file
  <2>1. UNCHANGED <<rows, fileRefs, txState, txConn, pending, accepted, retried, busy>>
    BY <1>1 DEF file
  <2>2. \A c \in Procs : File!Committing(c)' <=> File!Committing(c)
    BY <2>1 DEF File!Committing
  <2>3. QueueIsWhole' /\ CommitsAreOpen'
    BY <2>1, <2>2 DEF FileInv, QueueIsWhole, Queued, CommitsAreOpen
  <2>4. File!TypeOK' /\ File!Addressed(rows)' /\ StoredUnlessRetried'
    BY <2>1 DEF FileInv, File!TypeOK, File!Addressed, StoredUnlessRetried, File!StoredUnlessRetried,
                File!FormsIn
  <2> QED BY <2>1, <2>3, <2>4 DEF FileInv, File!RowsMoveWhole
<1>2. ASSUME NEW t \in Txs, File!CommitStart(t) \/ File!Rollback(t) PROVE FileInv' /\ rows' = rows
  BY <1>2, CommitStartKeeps, RollbackKeeps DEF File!CommitStart, File!Rollback
<1>3. ASSUME NEW t \in Txs, NEW c \in Procs, File!Begin(t, c) PROVE FileInv' /\ rows' = rows
  BY <1>3, BeginKeeps DEF File!Begin
<1>4. ASSUME NEW t \in Txs, NEW f \in Forms, File!Put(t, f) PROVE FileInv' /\ rows' = rows
  BY <1>4, PutKeeps DEF File!Put
<1>5. ASSUME NEW c \in Procs, File!CommitInsert(c) \/ File!CommitErr(c) \/ File!Crash(c)
      PROVE  FileInv' /\ rows' = rows
  BY <1>5, CommitInsertKeeps, CommitErrKeeps, CrashKeeps DEF File!CommitInsert, File!CommitErr, File!Crash
<1>6. ASSUME NEW c \in Procs,
             \/ \E r \in Refs, h \in Hashes \union {None} : File!SetRef(c, r, h)
             \/ \E r \in Refs, old \in Hashes \union {None}, new \in Hashes : File!CasRead(c, r, old, new)
             \/ File!CasWrite(c) \/ File!CasErr(c)
      PROVE  FileInv' /\ rows' = rows
  BY <1>6, RefsKeep DEF File!SetRef, File!CasRead, File!CasWrite, File!CasErr
<1>7. ASSUME NEW c \in Procs, File!CommitEnd(c) PROVE FileInv' /\ File!RowsMoveWhole
  BY <1>7, CommitEndKeeps DEF File!RowsMoveWhole
<1>8. CASE File!Next
  <2>1. CASE \E c \in Procs : File!CommitEnd(c)
    BY <1>7, <2>1
  <2>2. CASE FileInv' /\ rows' = rows
    BY <2>2 DEF File!RowsMoveWhole
  <2> QED BY <1>2, <1>3, <1>4, <1>5, <1>6, <1>8, <2>1, <2>2 DEF File!Next
<1> QED BY <1>1, <1>8

\* Every reachable state satisfies the invariant of the file.
LEMMA FileInvHolds == MCSpec => []FileInv
<1>1. MCInit => FileInv
  BY FileInitInv DEF MCInit
<1>2. FileInv /\ [MCNext]_<<tool, file, vars>> => FileInv'
  BY FileStep DEF MCNext
<1> QED BY <1>1, <1>2, PTL DEF MCSpec

\* What commit() acknowledged at its first attempt is in the file, and no
\* later transaction, failing statement or crash takes it out (sqlite.rs).
THEOREM AcknowledgedIsStored == MCSpec => []StoredUnlessRetried
BY FileInvHolds, PTL DEF FileInv

\* The rows change only as a transaction ends, and then by the whole of it,
\* whatever fails, crashes or writes beside it (sqlite.rs).
THEOREM CommitsAreWhole == MCSpec => CommitIsWhole
<1>1. FileInv /\ [MCNext]_<<tool, file, vars>> => [File!RowsMoveWhole]_file
  BY FileStep DEF MCNext
<1> QED BY <1>1, FileInvHolds, PTL DEF MCSpec, CommitIsWhole
=============================================================================
