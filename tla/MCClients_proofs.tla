------------------------- MODULE MCClients_proofs -------------------------
(***************************************************************************)
(* What the callers of MCClients are told is so, for any number of calls,  *)
(* transactions, clients, objects, jobs and files.  One section for each   *)
(* component, in the order of MCClients: the names its module gives to the *)
(* registers, the inductive invariant, a lemma for each action, and the    *)
(* theorem.                                                                *)
(***************************************************************************)
EXTENDS MCClients, FiniteSetTheorems, SequenceTheorems, WellFoundedInduction, TLAPS

-----------------------------------------------------------------------------
(* Sequences as channels.                                                  *)
Among(s) == {s[i] : i \in DOMAIN s}
NoRepeats(s) == \A i, j \in DOMAIN s : s[i] = s[j] => i = j

\* What a sequence has with one element more.
LEMMA AmongAppend ==
  ASSUME NEW S, NEW s \in Seq(S), NEW x \in S
  PROVE  /\ Append(s, x) \in Seq(S)
         /\ Among(Append(s, x)) = Among(s) \union {x}
         /\ NoRepeats(s) /\ x \notin Among(s) => NoRepeats(Append(s, x))
<1> DEFINE t == Append(s, x)
<1>1. t \in Seq(S) /\ Len(t) = Len(s) + 1 /\ t[Len(s) + 1] = x /\ \A i \in 1 .. Len(s) : t[i] = s[i]
  BY AppendProperties
<1>2. DOMAIN s = 1 .. Len(s) /\ DOMAIN t = 1 .. Len(s) + 1 /\ Len(s) \in Nat
  BY <1>1
<1>3. DOMAIN t = DOMAIN s \union {Len(s) + 1} /\ Len(s) + 1 \notin DOMAIN s
  BY <1>2
<1>4. \A i \in DOMAIN s : t[i] = s[i]
  BY <1>1, <1>2
<1> HIDE DEF t
<1>5. Among(t) = Among(s) \union {x}
  BY <1>1, <1>3, <1>4 DEF Among
<1>6. ASSUME NoRepeats(s), x \notin Among(s) PROVE NoRepeats(t)
  BY <1>1, <1>3, <1>4, <1>6 DEF Among, NoRepeats
<1> QED BY <1>1, <1>5, <1>6 DEF t

\* What a sequence has without its first element.
LEMMA AmongTail ==
  ASSUME NEW S, NEW s \in Seq(S), s # <<>>
  PROVE  /\ Tail(s) \in Seq(S) /\ Head(s) \in S
         /\ Among(s) = {Head(s)} \union Among(Tail(s))
         /\ NoRepeats(s) => NoRepeats(Tail(s)) /\ Head(s) \notin Among(Tail(s))
<1> DEFINE t == Tail(s)
<1>1. /\ t \in Seq(S) /\ Head(s) \in S /\ Head(s) = s[1] /\ Len(t) = Len(s) - 1
      /\ \A i \in 1 .. Len(t) : t[i] = s[i + 1]
  BY HeadTailProperties
<1>2. DOMAIN s = 1 .. Len(s) /\ DOMAIN t = 1 .. Len(s) - 1 /\ Len(s) \in Nat \ {0}
  BY <1>1, EmptySeq
<1>3. /\ \A i \in DOMAIN t : i + 1 \in DOMAIN s /\ i + 1 # 1 /\ t[i] = s[i + 1] /\ i \in Nat
      /\ \A i \in DOMAIN s : i = 1 \/ (i - 1 \in DOMAIN t /\ t[i - 1] = s[i])
      /\ 1 \in DOMAIN s
  BY <1>1, <1>2
<1> HIDE DEF t
<1>4. Among(s) = {Head(s)} \union Among(t)
  <2>1. ASSUME NEW i \in DOMAIN s PROVE s[i] \in {Head(s)} \union Among(t)
    <3>1. i = 1 \/ (i - 1 \in DOMAIN t /\ t[i - 1] = s[i])
      BY <1>3
    <3> QED BY <3>1, <1>1 DEF Among
  <2>2. ASSUME NEW i \in DOMAIN t PROVE t[i] \in Among(s)
    BY <1>3 DEF Among
  <2>3. Head(s) \in Among(s)
    BY <1>1, <1>3 DEF Among
  <2> QED BY <2>1, <2>2, <2>3 DEF Among
<1>5. ASSUME NoRepeats(s) PROVE NoRepeats(t) /\ Head(s) \notin Among(t)
  <2>1. ASSUME NEW i \in DOMAIN t, NEW j \in DOMAIN t, t[i] = t[j] PROVE i = j
    <3>1. s[i + 1] = s[j + 1] /\ i + 1 \in DOMAIN s /\ j + 1 \in DOMAIN s /\ i \in Nat /\ j \in Nat
      BY <1>3, <2>1
    <3>2. i + 1 = j + 1
      BY <1>5, <3>1 DEF NoRepeats
    <3> QED BY <3>1, <3>2
  <2>2. NoRepeats(t)
    BY <2>1 DEF NoRepeats
  <2>3. ASSUME NEW i \in DOMAIN t, t[i] = Head(s) PROVE FALSE
    <3>1. s[i + 1] = s[1] /\ i + 1 \in DOMAIN s /\ 1 \in DOMAIN s /\ i + 1 # 1
      BY <1>1, <1>3, <2>3
    <3> QED BY <1>5, <3>1 DEF NoRepeats
  <2> QED BY <2>2, <2>3 DEF Among
<1> QED BY <1>1, <1>4, <1>5 DEF t

\* What the first n of a sequence are.
LEMMA AmongPrefix ==
  ASSUME NEW S, NEW s \in Seq(S), NEW n \in 0 .. Len(s)
  PROVE  /\ SubSeq(s, 1, n) \in Seq(S)
         /\ Among(SubSeq(s, 1, n)) \subseteq Among(s)
         /\ NoRepeats(s) => NoRepeats(SubSeq(s, 1, n))
<1> DEFINE t == SubSeq(s, 1, n)
<1>1. Len(s) \in Nat /\ DOMAIN s = 1 .. Len(s) /\ \A i \in 1 .. n : s[i] \in S
  BY ElementOfSeq
<1>2. t \in Seq(S) /\ Len(t) = n /\ \A i \in 1 .. n : t[i] = s[i]
  BY <1>1, SubSeqProperties
<1>3. DOMAIN t \subseteq DOMAIN s /\ \A i \in DOMAIN t : t[i] = s[i]
  BY <1>1, <1>2
<1> HIDE DEF t
<1>4. Among(t) \subseteq Among(s) /\ (NoRepeats(s) => NoRepeats(t))
  BY <1>3 DEF Among, NoRepeats
<1> QED BY <1>2, <1>4 DEF t

\* What is among a sequence of elements of S is in S.
LEMMA AmongTyped ==
  ASSUME NEW S, NEW s \in Seq(S)
  PROVE  Among(s) \subseteq S
BY ElementOfSeq DEF Among

\* What two sequences have together.
LEMMA AmongConcat ==
  ASSUME NEW S, NEW s \in Seq(S), NEW t \in Seq(S)
  PROVE  s \o t \in Seq(S) /\ Among(s \o t) = Among(s) \union Among(t)
<1> DEFINE u == s \o t
<1>1. /\ u \in Seq(S) /\ Len(u) = Len(s) + Len(t)
      /\ \A i \in 1 .. Len(s) + Len(t) : u[i] = IF i <= Len(s) THEN s[i] ELSE t[i - Len(s)]
  BY ConcatProperties
<1>2. /\ DOMAIN s = 1 .. Len(s) /\ DOMAIN t = 1 .. Len(t) /\ DOMAIN u = 1 .. Len(s) + Len(t)
      /\ Len(s) \in Nat /\ Len(t) \in Nat
  BY <1>1
<1> HIDE DEF u
<1>3. \A i \in DOMAIN s : i \in DOMAIN u /\ u[i] = s[i]
  BY <1>1, <1>2
<1>4. \A i \in DOMAIN t : i + Len(s) \in DOMAIN u /\ u[i + Len(s)] = t[i]
  BY <1>1, <1>2
<1>5. \A i \in DOMAIN u : (i \in DOMAIN s /\ u[i] = s[i]) \/ (i - Len(s) \in DOMAIN t /\ u[i] = t[i - Len(s)])
  BY <1>1, <1>2
<1>6. Among(u) \subseteq Among(s) \union Among(t)
  BY <1>5 DEF Among
<1>7. Among(s) \subseteq Among(u)
  BY <1>3 DEF Among
<1>8. Among(t) \subseteq Among(u)
  BY <1>4 DEF Among
<1> QED BY <1>1, <1>6, <1>7, <1>8 DEF u

\* A stack is its top and what is below.
LEMMA FrontAndLast ==
  ASSUME NEW S, NEW s \in Seq(S), s # <<>>
  PROVE  /\ SubSeq(s, 1, Len(s) - 1) \in Seq(S) /\ s[Len(s)] \in S
         /\ Among(s) = Among(SubSeq(s, 1, Len(s) - 1)) \union {s[Len(s)]}
<1>1. Len(s) \in Nat \ {0} /\ DOMAIN s = 1 .. Len(s) /\ \A i \in 1 .. Len(s) : s[i] \in S
  BY EmptySeq, ElementOfSeq
<1> DEFINE n == Len(s)
           f == SubSeq(s, 1, n - 1)
<1>2. f \in Seq(S) /\ Len(f) = n - 1 /\ \A i \in 1 .. n - 1 : f[i] = s[i]
  <2>1. 1 \in Int /\ n - 1 \in Int /\ \A i \in 1 .. n - 1 : s[i] \in S
    BY <1>1
  <2>2. /\ f \in Seq(S) /\ Len(f) = (IF 1 <= n - 1 THEN n - 1 - 1 + 1 ELSE 0)
        /\ \A i \in 1 .. n - 1 - 1 + 1 : f[i] = s[1 + i - 1]
    BY <2>1, SubSeqProperties
  <2>3. n - 1 - 1 + 1 = n - 1 /\ (IF 1 <= n - 1 THEN n - 1 - 1 + 1 ELSE 0) = n - 1
    BY <1>1
  <2>4. \A i \in 1 .. n - 1 : 1 + i - 1 = i
    OBVIOUS
  <2> HIDE DEF f, n
  <2> QED BY <2>2, <2>3, <2>4
<1>3. DOMAIN f = 1 .. n - 1 /\ DOMAIN s = DOMAIN f \union {n} /\ \A i \in DOMAIN f : f[i] = s[i]
  BY <1>1, <1>2
<1> HIDE DEF f, n
<1>4. Among(s) = Among(f) \union {s[n]}
  BY <1>3 DEF Among
<1>5. s[n] \in S
  BY <1>1 DEF n
<1> QED BY <1>2, <1>4, <1>5 DEF f, n

\* When the first element is taken, the others move up by one.
LEMMA MovesUp ==
  ASSUME NEW S, NEW s \in Seq(S), s # <<>>
  PROVE  \E l \in Nat :
           /\ l = Len(s) /\ l # 0 /\ DOMAIN s = 1 .. l /\ DOMAIN Tail(s) = 1 .. l - 1 /\ Len(Tail(s)) = l - 1
           /\ Head(s) = s[1] /\ Head(s) \in S /\ Tail(s) \in Seq(S)
           /\ \A k \in 1 .. l - 1 : Tail(s)[k] = s[k + 1]
<1>1. /\ Tail(s) \in Seq(S) /\ Head(s) \in S /\ Head(s) = s[1] /\ Len(Tail(s)) = Len(s) - 1
      /\ \A i \in 1 .. Len(Tail(s)) : Tail(s)[i] = s[i + 1]
  BY HeadTailProperties
<1>2. Len(s) \in Nat \ {0} /\ DOMAIN s = 1 .. Len(s)
  BY EmptySeq
<1>3. DOMAIN Tail(s) = 1 .. Len(s) - 1
  BY <1>1
<1> QED BY ONLY <1>1, <1>2, <1>3
-----------------------------------------------------------------------------
(* Transactions.  The variables of RemoteTransaction, by their names.      *)
handle == r1
finished == r2
waiting == r3
calls == r4
detached == r5
outgoing == r6
incoming == r7
up == r8
txs == r9
stored == r10
acked == r11
sent == r12
told == r13
unsure == r14

TxTypes ==
  /\ handle \in [Handles -> {"none", "begun", "open", "refused", "lost", "dropped"}]
  /\ finished \in SUBSET Handles /\ detached \in SUBSET Handles
  /\ waiting \in [Handles -> TxMessages \union {None}]
  /\ calls \in [Handles -> Nat]
  /\ outgoing \in Seq(TxMessages) /\ incoming \in Seq([to : TxMessages, ok : BOOLEAN])
  /\ up \in BOOLEAN
  /\ txs \in [Handles -> (SUBSET Objects) \union {None}]
  /\ stored \in [Handles -> SUBSET Objects]
  /\ acked \in [Handles -> SUBSET Objects] /\ sent \in [Handles -> SUBSET Objects]
  /\ told \in [Handles -> {"none", "commit", "rollback"}]
  /\ unsure \in SUBSET (Handles \X {"begin", "commit", "rollback"})

\* A handle waits for what its stage allows, and is finished only by an answer.
Stages ==
  \A h \in Handles :
    /\ waiting[h] # None => waiting[h].by = h
    /\ handle[h] = "begun" <=> waiting[h] # None /\ waiting[h].op = "begin"
    /\ waiting[h] # None /\ waiting[h].op # "begin" => handle[h] = "open" /\ h \notin finished
    /\ h \in finished => handle[h] \in {"open", "dropped"}
    /\ h \in detached => handle[h] = "dropped"
    /\ handle[h] \in {"none", "begun", "lost"} => acked[h] = {}
    /\ <<h, "begin">> \in unsure => handle[h] = "lost"
    /\ told[h] # "none" => h \in finished

\* What is on its way, in either direction.
OnTheWire == Among(outgoing) \union {r.to : r \in Among(incoming)}

\* A message goes out once, under a number of its own, and is waited for
\* unless its caller left.
Sending ==
  /\ NoRepeats(outgoing)
  /\ \A r \in Among(incoming) : r.to \notin Among(outgoing)
  /\ \A m \in OnTheWire :
       /\ m.n <= calls[m.by] \/ (handle[m.by] = "dropped" /\ m.by \notin detached)
       /\ handle[m.by] # "none"
       /\ handle[m.by] \in {"begun", "lost"} => m.op = "begin"
       /\ m.op = "put" => m.object \in sent[m.by]
  /\ \A m \in Among(outgoing) : m.op # "put" =>
       \/ waiting[m.by] = m \/ <<m.by, m.op>> \in unsure
       \/ m.op = "rollback" /\ handle[m.by] = "dropped"

\* Until the server takes a "begin", it knows nothing of the handle.
Unknown(h) == txs[h] = None /\ stored[h] = {}
TxBegins ==
  /\ \A h \in Handles : handle[h] = "none" => Unknown(h)
  /\ \A m \in Among(outgoing) : m.op = "begin" =>
       /\ Unknown(m.by)
       /\ \A x \in OnTheWire : x.by = m.by => x = m

\* The objects whose put was answered, whether or not the answer has come.
Accepted(h) ==
  acked[h] \union {r.to.object : r \in {x \in Among(incoming) : x.to.by = h /\ x.to.op = "put" /\ x.ok}}

Holds == \A h \in Handles : txs[h] # None =>
  stored[h] = {} /\ Accepted(h) \subseteq txs[h] /\ txs[h] \subseteq sent[h]

Committed(h) == txs[h] = None /\ Accepted(h) \subseteq stored[h] /\ stored[h] \subseteq sent[h]

\* What an answer says is so when it arrives.
Answers ==
  \A r \in Among(incoming) :
    /\ r.to.op = "rollback" => txs[r.to.by] = None
    /\ r.to.op = "rollback" /\ r.ok => Unknown(r.to.by)
    /\ r.to.op = "commit" /\ r.ok => Committed(r.to.by)
    /\ r.to.op = "begin" /\ r.ok /\ up /\ waiting[r.to.by] = r.to => txs[r.to.by] # None

TxEnds ==
  \A h \in Handles :
    /\ told[h] = "commit" => Committed(h)
    /\ told[h] = "rollback" => Unknown(h)
    /\ h \in finished => txs[h] = None

\* The server has dealt with what the handle waits for, and only an answer
\* that finishes the handle can come.
WillFinish(h) ==
  /\ waiting[h] # None /\ waiting[h].op \in {"commit", "rollback"}
  /\ waiting[h] \notin Among(outgoing)
  /\ \A r \in Among(incoming) : r.to = waiting[h] => Tx!Finishes(r.to.op, r.ok)

Asked ==
  \A h \in Handles : stored[h] # {} =>
    \/ told[h] = "commit" \/ <<h, "commit">> \in unsure
    \/ WillFinish(h) /\ waiting[h].op = "commit"

Retries ==
  \A h \in Handles :
    handle[h] = "open" /\ h \notin finished /\ up /\ (\A g \in unsure : g[1] # h) =>
      txs[h] # None \/ WillFinish(h)

TxInv ==
  TxTypes /\ Stages /\ Sending /\ TxBegins /\ Holds /\ Answers /\ TxEnds /\ Asked /\ Retries

-----------------------------------------------------------------------------
USE DEF handle, finished, waiting, calls, detached, outgoing, incoming, up, txs, stored,
        acked, sent, told, unsure

\* What is on the wire are messages of the transactions.
LEMMA TxTyped ==
  ASSUME TxInv
  PROVE  /\ Among(outgoing) \subseteq TxMessages
         /\ Among(incoming) \subseteq [to : TxMessages, ok : BOOLEAN]
         /\ OnTheWire \subseteq TxMessages
         /\ \A m \in TxMessages : m.by \in Handles /\ m.n \in Nat
<1>1. Among(outgoing) \subseteq TxMessages
  BY AmongTyped DEF TxInv, TxTypes
<1>2. Among(incoming) \subseteq [to : TxMessages, ok : BOOLEAN]
  BY AmongTyped DEF TxInv, TxTypes
<1>3. \A r \in Among(incoming) : r.to \in TxMessages
  BY <1>2
<1>4. OnTheWire \subseteq TxMessages
  BY <1>1, <1>3 DEF OnTheWire
<1>5. \A m \in TxMessages : m.by \in Handles /\ m.n \in Nat
  BY DEF TxMessages
<1> QED BY <1>1, <1>2, <1>4, <1>5

\* Before any handle there is nothing on the wire.
LEMMA TxInit == Tx!Init => TxInv
<1> SUFFICES ASSUME Tx!Init PROVE TxInv OBVIOUS
<1> USE DEF Tx!Init
<1>1. outgoing = <<>> /\ incoming = <<>>
  OBVIOUS
<1>2. Among(<<>>) = {} /\ NoRepeats(<<>>)
  BY DEF Among, NoRepeats
<1>3. Among(outgoing) = {} /\ Among(incoming) = {} /\ NoRepeats(outgoing) /\ OnTheWire = {}
  BY <1>1, <1>2 DEF OnTheWire
<1>4. TxTypes
  BY DEF TxTypes
<1>5. Stages /\ TxEnds /\ Holds /\ Asked /\ Retries
  BY NoneIsNoTransaction DEF Stages, TxEnds, Holds, Asked, Retries
<1>6. Sending /\ TxBegins /\ Answers
  BY <1>3 DEF Sending, TxBegins, Answers, Unknown
<1> QED BY <1>4, <1>5, <1>6 DEF TxInv

\* A handle asks.
LEMMA RequestKeeps ==
  ASSUME TxInv, NEW h \in Handles, NEW op \in {"begin", "put", "commit", "rollback"},
         NEW o \in Objects \union {None}, op = "put" => o \in Objects,
         Tx!Request(h, op, o),
         \/ op = "begin" /\ handle[h] = "none" /\ handle' = [handle EXCEPT ![h] = "begun"]
         \/ op # "begin" /\ Tx!Usable(h) /\ handle' = handle
  PROVE  TxInv'
<1> DEFINE m == Tx!Op(h, op, o)
<1>types. TxTypes /\ Stages /\ Sending /\ TxBegins /\ Holds /\ Answers /\ TxEnds /\ Asked /\ Retries
  BY DEF TxInv
<1>typed. /\ Among(outgoing) \subseteq TxMessages
          /\ Among(incoming) \subseteq [to : TxMessages, ok : BOOLEAN]
          /\ OnTheWire \subseteq TxMessages
          /\ \A x \in TxMessages : x.by \in Handles /\ x.n \in Nat
  BY TxTyped
<1>1. m \in TxMessages /\ m.by = h /\ m.n = calls[h] + 1 /\ m.op = op /\ m.object = o /\ m # None
  BY <1>types, NoneIsNoTransaction DEF Tx!Op, TxMessages, TxTypes
<1>2. /\ waiting[h] = None
      /\ calls' = [calls EXCEPT ![h] = @ + 1]
      /\ waiting' = [waiting EXCEPT ![h] = m]
      /\ outgoing' = IF up THEN Append(outgoing, m) ELSE outgoing
      /\ sent' = IF op = "put" THEN [sent EXCEPT ![h] = @ \union {o}] ELSE sent
      /\ UNCHANGED <<finished, detached, incoming, up, txs, stored, acked, told, unsure>>
  BY DEF Tx!Request, Tx!Transmit, Tx!server
<1> HIDE DEF m
<1>3. /\ outgoing' \in Seq(TxMessages) /\ Among(outgoing)' \subseteq Among(outgoing) \union {m}
      /\ m \notin Among(outgoing) => NoRepeats(outgoing)'
  <2>1. outgoing \in Seq(TxMessages) /\ NoRepeats(outgoing) BY <1>types DEF TxTypes, Sending
  <2>2. /\ Append(outgoing, m) \in Seq(TxMessages)
        /\ Among(Append(outgoing, m)) = Among(outgoing) \union {m}
        /\ m \notin Among(outgoing) => NoRepeats(Append(outgoing, m))
    BY <2>1, <1>1, AmongAppend
  <2>3. CASE up
    <3>1. outgoing' = Append(outgoing, m) BY <2>3, <1>2
    <3> QED BY <3>1, <2>2 DEF Among, NoRepeats
  <2>4. CASE ~up
    <3>1. outgoing' = outgoing BY <2>4, <1>2
    <3> QED BY <3>1, <2>1 DEF Among, NoRepeats
  <2> QED BY <2>3, <2>4
<1>4. handle[h] \in {"none", "open"} /\ calls[h] \in Nat /\ h \notin detached
  BY <1>types DEF Tx!Usable, TxTypes, Stages
<1>5. m \notin OnTheWire
  BY <1>1, <1>4, <1>types DEF Sending
<1>6. Among(incoming)' = Among(incoming) /\ OnTheWire' \subseteq OnTheWire \union {m}
  BY <1>2, <1>3 DEF Among, OnTheWire
<1>7. TxTypes'
  <2>1. handle' \in [Handles -> {"none", "begun", "open", "refused", "lost", "dropped"}]
    BY <1>types DEF TxTypes
  <2>2. waiting' \in [Handles -> TxMessages \union {None}] /\ calls' \in [Handles -> Nat]
    BY <1>types, <1>1, <1>2 DEF TxTypes
  <2>3. sent' \in [Handles -> SUBSET Objects]
    <3>1. op = "put" => sent[h] \union {o} \in SUBSET Objects
      BY <1>types DEF TxTypes
    <3>2. sent \in [Handles -> SUBSET Objects]
      BY <1>types DEF TxTypes
    <3> QED BY <3>1, <3>2, <1>2
  <2>4. /\ finished' \in SUBSET Handles /\ detached' \in SUBSET Handles /\ up' \in BOOLEAN
        /\ incoming' \in Seq([to : TxMessages, ok : BOOLEAN])
        /\ txs' \in [Handles -> (SUBSET Objects) \union {None}]
        /\ stored' \in [Handles -> SUBSET Objects] /\ acked' \in [Handles -> SUBSET Objects]
        /\ told' \in [Handles -> {"none", "commit", "rollback"}]
        /\ unsure' \in SUBSET (Handles \X {"begin", "commit", "rollback"})
    BY <1>types, <1>2 DEF TxTypes
  <2> QED BY <1>3, <2>1, <2>2, <2>3, <2>4 DEF TxTypes
<1>8. Stages'
  <2>1. ASSUME NEW g \in Handles, g # h
        PROVE  waiting'[g] = waiting[g] /\ handle'[g] = handle[g]
    BY <2>1, <1>2, <1>types DEF TxTypes
  <2>2. waiting'[h] = m /\ (op = "begin" => handle'[h] = "begun") /\ (op # "begin" => handle'[h] = "open")
    BY <1>2, <1>types DEF TxTypes, Tx!Usable
  <2>3. h \in finished => handle[h] = "open" /\ op = "begin"
    BY <1>4, <1>types DEF Stages, Tx!Usable
  <2>4. <<h, "begin">> \notin unsure /\ h \notin finished
    BY <2>3, <1>4, <1>types DEF Stages
  <2>5. told[h] = "none" /\ (op = "begin" => acked[h] = {})
    BY <2>4, <1>types DEF Stages
  <2>6. finished' = finished /\ detached' = detached /\ acked' = acked /\ unsure' = unsure /\ told' = told
    BY <1>2
  <2>7. ASSUME NEW g \in Handles
        PROVE  /\ waiting'[g] # None => waiting'[g].by = g
               /\ handle'[g] = "begun" <=> waiting'[g] # None /\ waiting'[g].op = "begin"
               /\ waiting'[g] # None /\ waiting'[g].op # "begin" => handle'[g] = "open" /\ g \notin finished'
               /\ g \in finished' => handle'[g] \in {"open", "dropped"}
               /\ g \in detached' => handle'[g] = "dropped"
               /\ handle'[g] \in {"none", "begun", "lost"} => acked'[g] = {}
               /\ <<g, "begin">> \in unsure' => handle'[g] = "lost"
               /\ told'[g] # "none" => g \in finished'
    <3>1. CASE g = h
      BY ONLY <3>1, <2>2, <2>4, <2>5, <2>6, <1>1, <1>4, op \in {"begin", "put", "commit", "rollback"}
    <3>2. CASE g # h
      BY <3>2, <2>1, <2>6, <1>types DEF Stages
    <3> QED BY <3>1, <3>2
  <2> QED BY <2>7 DEF Stages
<1>9. Sending'
  <2>1. NoRepeats(outgoing)'
    BY <1>3, <1>5 DEF OnTheWire
  <2>2. \A r \in Among(incoming)' : r.to \notin Among(outgoing)'
    BY <1>3, <1>5, <1>6, <1>types DEF OnTheWire, Sending
  <2>3. ASSUME NEW x \in OnTheWire'
        PROVE  /\ x.n <= calls'[x.by] \/ (handle'[x.by] = "dropped" /\ x.by \notin detached')
               /\ handle'[x.by] # "none"
               /\ handle'[x.by] \in {"begun", "lost"} => x.op = "begin"
               /\ x.op = "put" => x.object \in sent'[x.by]
    <3>1. CASE x = m
      BY <3>1, <1>1, <1>2, <1>4, <1>types DEF TxTypes, Tx!Usable
    <3>2. CASE x # m
      <4>1. x \in OnTheWire /\ x.by \in Handles /\ x.n \in Nat
        BY <3>2, <1>6, <1>typed
      <4>2. x.by = h => handle[h] = "open"
        BY <4>1, <1>4, <1>types DEF Sending
      <4> QED BY <4>1, <4>2, <1>2, <1>4, <1>types DEF Sending, TxTypes
    <3> QED BY <3>1, <3>2
  <2>4. ASSUME NEW x \in Among(outgoing)', x.op # "put"
        PROVE  \/ waiting'[x.by] = x \/ <<x.by, x.op>> \in unsure'
               \/ x.op = "rollback" /\ handle'[x.by] = "dropped"
    <3>1. CASE x = m
      BY <3>1, <1>1, <1>2, <1>types DEF TxTypes
    <3>2. CASE x # m
      <4>1. x \in Among(outgoing) /\ x.by \in Handles /\ x # None
        BY <3>2, <1>3, <1>typed, NoneIsNoTransaction
      <4>2. waiting[x.by] = x \/ <<x.by, x.op>> \in unsure \/ (x.op = "rollback" /\ handle[x.by] = "dropped")
        BY <4>1, <2>4, <1>types DEF Sending
      <4> QED BY <4>1, <4>2, <1>2, <1>4, <1>types DEF TxTypes
    <3> QED BY <3>1, <3>2
  <2> QED BY <2>1, <2>2, <2>3, <2>4 DEF Sending
<1>10. TxBegins'
  <2>1. \A g \in Handles : handle'[g] = "none" => Unknown(g)'
    BY <1>2, <1>types DEF TxBegins, Unknown, TxTypes
  <2>2. ASSUME NEW x \in Among(outgoing)', x.op = "begin"
        PROVE  Unknown(x.by)' /\ \A y \in OnTheWire' : y.by = x.by => y = x
    <3>1. CASE x = m
      <4>1. handle[h] = "none"
        BY <3>1, <2>2, <1>1
      <4>2. \A y \in OnTheWire : y.by # h
        BY <4>1, <1>types DEF Sending
      <4>3. Unknown(h)
        BY <4>1, <1>types DEF TxBegins
      <4> QED BY <3>1, <4>2, <4>3, <1>1, <1>2, <1>6 DEF Unknown
    <3>2. CASE x # m
      <4>1. x \in Among(outgoing) /\ x \in OnTheWire
        BY <3>2, <1>3 DEF OnTheWire
      <4>2. x.by # h
        <5>1. x.by = h => handle[h] = "open"
          BY <4>1, <1>4, <1>types DEF Sending
        <5>2. waiting[x.by] = x \/ <<x.by, "begin">> \in unsure
          BY <4>1, <2>2, <1>types DEF Sending
        <5>3. x # None BY <4>1, <1>typed, NoneIsNoTransaction
        <5> QED BY <5>1, <5>2, <5>3, <1>2, <1>types DEF Stages
      <4> QED BY <4>1, <4>2, <2>2, <1>1, <1>2, <1>6, <1>types DEF TxBegins, Unknown
    <3> QED BY <3>1, <3>2
  <2> QED BY <2>1, <2>2 DEF TxBegins
<1>11. \A g \in Handles : Accepted(g)' = Accepted(g) /\ sent[g] \subseteq sent'[g]
  BY <1>2, <1>6, <1>types DEF Accepted, TxTypes
<1>12. Holds' /\ TxEnds'
  BY <1>2, <1>11, <1>types DEF Holds, TxEnds, Committed, Unknown
<1>13. Answers'
  <2>1. ASSUME NEW r \in Among(incoming)' 
        PROVE  /\ r.to.op = "rollback" => txs'[r.to.by] = None
               /\ r.to.op = "rollback" /\ r.ok => Unknown(r.to.by)'
               /\ r.to.op = "commit" /\ r.ok => Committed(r.to.by)'
               /\ r.to.op = "begin" /\ r.ok /\ up' /\ waiting'[r.to.by] = r.to => txs'[r.to.by] # None
    <3>1. r \in Among(incoming) /\ r.to.by \in Handles /\ r.to # m
      BY <1>5, <1>6, <1>typed DEF OnTheWire
    <3>2. waiting'[r.to.by] = r.to => waiting[r.to.by] = r.to
      BY <3>1, <1>2, <1>types DEF TxTypes
    <3> QED BY <3>1, <3>2, <1>2, <1>11, <1>types DEF Answers, Unknown, Committed
  <2> QED BY <2>1 DEF Answers
<1>14. \A g \in Handles : WillFinish(g) => g # h /\ WillFinish(g)'
  <2>1. ASSUME NEW g \in Handles, WillFinish(g) PROVE g # h /\ WillFinish(g)'
    <3>1. g # h /\ waiting[g].by = g /\ waiting'[g] = waiting[g] /\ waiting[g] # m
      BY <2>1, <1>1, <1>2, <1>types DEF WillFinish, Stages, TxTypes
    <3> QED BY <3>1, <2>1, <1>3, <1>6 DEF WillFinish
  <2> QED BY <2>1
<1>15. Asked'
  <2>1. ASSUME NEW g \in Handles, stored'[g] # {}
        PROVE  \/ told'[g] = "commit" \/ <<g, "commit">> \in unsure'
               \/ WillFinish(g)' /\ waiting'[g].op = "commit"
    BY <2>1, <1>2, <1>14, <1>types DEF Asked, TxTypes
  <2> QED BY <2>1 DEF Asked
<1>16. Retries'
  BY <1>2, <1>14, <1>types DEF Retries, TxTypes
<1> QED BY <1>7, <1>8, <1>9, <1>10, <1>12, <1>13, <1>15, <1>16 DEF TxInv

\* A handle no longer waits for its answer.
LEMMA GiveUpKeeps ==
  ASSUME TxInv, NEW h \in Handles, Tx!GiveUp(h)
  PROVE  TxInv'
<1> DEFINE op == waiting[h].op
<1>types. TxTypes /\ Stages /\ Sending /\ TxBegins /\ Holds /\ Answers /\ TxEnds /\ Asked /\ Retries
  BY DEF TxInv
<1>typed. /\ Among(outgoing) \subseteq TxMessages
          /\ Among(incoming) \subseteq [to : TxMessages, ok : BOOLEAN]
          /\ OnTheWire \subseteq TxMessages
          /\ \A x \in TxMessages : x.by \in Handles /\ x.n \in Nat
  BY TxTyped
<1>1. /\ waiting[h] # None
      /\ waiting' = [waiting EXCEPT ![h] = None]
      /\ unsure' = IF op = "put" THEN unsure ELSE unsure \union {<<h, op>>}
      /\ handle' = IF op = "begin" THEN [handle EXCEPT ![h] = "lost"] ELSE handle
      /\ UNCHANGED <<finished, calls, detached, outgoing, incoming, up, txs, stored, acked, sent, told>>
  BY DEF Tx!GiveUp, Tx!wire, Tx!server
<1>2. waiting[h] \in TxMessages /\ waiting[h].by = h /\ op \in {"begin", "put", "commit", "rollback"}
  <2>1. waiting[h] \in TxMessages
    BY <1>1, <1>types DEF TxTypes
  <2>2. waiting[h].by = h
    BY <1>1, <1>types DEF Stages
  <2> QED BY ONLY <2>1, <2>2 DEF TxMessages
<1> HIDE DEF op
<1>3. /\ op = "begin" => handle[h] = "begun" /\ handle'[h] = "lost"
      /\ op # "begin" => handle[h] = "open" /\ handle' = handle
      /\ \A g \in Handles : g # h => handle'[g] = handle[g] /\ waiting'[g] = waiting[g]
      /\ \A g \in Handles : handle'[g] = "none" => handle[g] = "none"
      /\ waiting'[h] = None
  BY <1>1, <1>types DEF TxTypes, Stages, op
<1>4. TxTypes'
  BY <1>types, <1>1, <1>2 DEF TxTypes
<1>5. \A g \in Handles, k \in {"begin", "commit", "rollback"} :
        <<g, k>> \in unsure' <=> (<<g, k>> \in unsure \/ (g = h /\ k = op))
  BY <1>1, <1>2
<1>6. Stages'
  <2>1. ASSUME NEW g \in Handles
        PROVE  /\ waiting'[g] # None => waiting'[g].by = g
               /\ handle'[g] = "begun" <=> waiting'[g] # None /\ waiting'[g].op = "begin"
               /\ waiting'[g] # None /\ waiting'[g].op # "begin" => handle'[g] = "open" /\ g \notin finished'
               /\ g \in finished' => handle'[g] \in {"open", "dropped"}
               /\ g \in detached' => handle'[g] = "dropped"
               /\ handle'[g] \in {"none", "begun", "lost"} => acked'[g] = {}
               /\ <<g, "begin">> \in unsure' => handle'[g] = "lost"
               /\ told'[g] # "none" => g \in finished'
    <3>1. CASE g = h
      BY <3>1, <1>1, <1>2, <1>3, <1>5, <1>types DEF Stages
    <3>2. CASE g # h
      BY <3>2, <1>1, <1>3, <1>5, <1>types DEF Stages
    <3> QED BY <3>1, <3>2
  <2> QED BY <2>1 DEF Stages
<1>7. /\ Among(outgoing)' = Among(outgoing) /\ Among(incoming)' = Among(incoming)
      /\ OnTheWire' = OnTheWire /\ (NoRepeats(outgoing) => NoRepeats(outgoing)')
  BY <1>1 DEF Among, OnTheWire, NoRepeats
<1>8. Sending'
  <2>1. ASSUME NEW x \in OnTheWire'
        PROVE  /\ x.n <= calls'[x.by] \/ (handle'[x.by] = "dropped" /\ x.by \notin detached')
               /\ handle'[x.by] # "none"
               /\ handle'[x.by] \in {"begun", "lost"} => x.op = "begin"
               /\ x.op = "put" => x.object \in sent'[x.by]
    <3>1. x \in OnTheWire /\ x.by \in Handles
      BY <1>7, <1>typed
    <3>2. handle'[x.by] # handle[x.by] => handle[x.by] = "begun" /\ handle'[x.by] = "lost"
      BY <3>1, <1>3
    <3> QED BY <3>1, <3>2, <1>1, <1>types DEF Sending
  <2>2. ASSUME NEW x \in Among(outgoing)', x.op # "put"
        PROVE  \/ waiting'[x.by] = x \/ <<x.by, x.op>> \in unsure'
               \/ x.op = "rollback" /\ handle'[x.by] = "dropped"
    <3>1. x \in Among(outgoing) /\ x.by \in Handles /\ x \in TxMessages
      BY <1>7, <1>typed
    <3>2. waiting[x.by] = x \/ <<x.by, x.op>> \in unsure \/ (x.op = "rollback" /\ handle[x.by] = "dropped")
      BY <3>1, <2>2, <1>types DEF Sending
    <3>3. x.op \in {"begin", "commit", "rollback"}
      BY <3>1, <2>2 DEF TxMessages
    <3>4. handle[x.by] = "dropped" => handle'[x.by] = "dropped"
      BY <3>1, <1>3
    <3>5. waiting[x.by] = x => waiting'[x.by] = x \/ <<x.by, x.op>> \in unsure'
      BY <3>1, <3>3, <1>3, <1>5 DEF op
    <3> QED BY <3>1, <3>2, <3>3, <3>4, <3>5, <1>5
  <2> QED BY <2>1, <2>2, <1>1, <1>7, <1>types DEF Sending
<1>9. TxBegins'
  BY <1>1, <1>3, <1>7, <1>types DEF TxBegins, Unknown
<1>10. Holds' /\ TxEnds'
  BY <1>1, <1>7, <1>types DEF Holds, TxEnds, Committed, Unknown, Accepted
<1>11. Answers'
  <2>1. ASSUME NEW r \in Among(incoming)'
        PROVE  /\ r.to.op = "rollback" => txs'[r.to.by] = None
               /\ r.to.op = "rollback" /\ r.ok => Unknown(r.to.by)'
               /\ r.to.op = "commit" /\ r.ok => Committed(r.to.by)'
               /\ r.to.op = "begin" /\ r.ok /\ up' /\ waiting'[r.to.by] = r.to => txs'[r.to.by] # None
    <3>1. r \in Among(incoming) /\ r.to.by \in Handles /\ r.to # None
      BY <1>7, <1>typed, NoneIsNoTransaction
    <3>2. waiting'[r.to.by] = r.to => waiting[r.to.by] = r.to
      BY <3>1, <1>3
    <3>3. Committed(r.to.by)' = Committed(r.to.by)
      BY <1>1, <1>7 DEF Committed, Accepted
    <3> QED BY <3>1, <3>2, <3>3, <1>1, <1>types DEF Answers, Unknown
  <2> QED BY <2>1 DEF Answers
<1>12. \A g \in Handles : WillFinish(g) /\ g # h => WillFinish(g)'
  BY <1>3, <1>7 DEF WillFinish
<1>13. Asked'
  <2>1. ASSUME NEW g \in Handles, stored'[g] # {}
        PROVE  \/ told'[g] = "commit" \/ <<g, "commit">> \in unsure'
               \/ WillFinish(g)' /\ waiting'[g].op = "commit"
    <3>1. told[g] = "commit" \/ <<g, "commit">> \in unsure \/ (WillFinish(g) /\ waiting[g].op = "commit")
      BY <2>1, <1>1, <1>types DEF Asked
    <3>2. g = h /\ waiting[g].op = "commit" => <<g, "commit">> \in unsure'
      BY <1>5 DEF op
    <3> QED BY <3>1, <3>2, <1>1, <1>3, <1>5, <1>12
  <2> QED BY <2>1 DEF Asked
<1>14. Retries'
  <2>1. ASSUME NEW g \in Handles, handle'[g] = "open", g \notin finished', up',
               \A x \in unsure' : x[1] # g
        PROVE  txs'[g] # None \/ WillFinish(g)'
    <3>1. unsure \subseteq unsure' /\ (g = h => op = "put")
      <4>1. op # "put" => <<h, op>> \in unsure'
        BY <1>1
      <4>2. <<h, op>>[1] = h
        OBVIOUS
      <4> QED BY <4>1, <4>2, <1>1, <2>1
    <3>2. handle[g] = "open" /\ g \notin finished /\ up
      BY <2>1, <3>1, <1>1, <1>3
    <3>3. txs[g] # None \/ WillFinish(g)
      BY <3>1, <3>2, <2>1, <1>types DEF Retries
    <3>4. g = h => ~WillFinish(g)
      BY <3>1 DEF WillFinish, op
    <3> QED BY <3>3, <3>4, <1>1, <1>12
  <2> QED BY <2>1 DEF Retries
<1> QED BY <1>4, <1>6, <1>8, <1>9, <1>10, <1>11, <1>13, <1>14 DEF TxInv

\* A handle is dropped before it is finished.
LEMMA DropKeeps ==
  ASSUME TxInv, NEW h \in Handles, Tx!Drop(h)
  PROVE  TxInv'
<1>types. TxTypes /\ Stages /\ Sending /\ TxBegins /\ Holds /\ Answers /\ TxEnds /\ Asked /\ Retries
  BY DEF TxInv
<1>typed. OnTheWire \subseteq TxMessages /\ Among(outgoing) \subseteq TxMessages
          /\ \A x \in TxMessages : x.by \in Handles /\ x.n \in Nat
  BY TxTyped
<1>1. /\ handle[h] = "open" /\ waiting[h] = None
      /\ handle' = [handle EXCEPT ![h] = "dropped"]
      /\ detached' = IF h \in finished THEN detached ELSE detached \union {h}
      /\ UNCHANGED <<finished, waiting, calls, outgoing, incoming, up, txs, stored, acked, sent, told, unsure>>
  BY DEF Tx!Drop, Tx!wire, Tx!server, Tx!history
<1>2. /\ handle'[h] = "dropped" /\ \A g \in Handles : g # h => handle'[g] = handle[g]
      /\ \A g \in Handles : g # h => (g \in detached' <=> g \in detached)
  BY <1>1, <1>types DEF TxTypes
<1>3. TxTypes'
  BY <1>types, <1>1 DEF TxTypes
<1>4. Stages'
  <2>1. ASSUME NEW g \in Handles
        PROVE  /\ waiting'[g] # None => waiting'[g].by = g
               /\ handle'[g] = "begun" <=> waiting'[g] # None /\ waiting'[g].op = "begin"
               /\ waiting'[g] # None /\ waiting'[g].op # "begin" => handle'[g] = "open" /\ g \notin finished'
               /\ g \in finished' => handle'[g] \in {"open", "dropped"}
               /\ g \in detached' => handle'[g] = "dropped"
               /\ handle'[g] \in {"none", "begun", "lost"} => acked'[g] = {}
               /\ <<g, "begin">> \in unsure' => handle'[g] = "lost"
               /\ told'[g] # "none" => g \in finished'
    <3>1. CASE g = h
      BY <3>1, <1>1, <1>2, <1>types DEF Stages
    <3>2. CASE g # h
      BY <3>2, <1>1, <1>2, <1>types DEF Stages
    <3> QED BY <3>1, <3>2
  <2> QED BY <2>1 DEF Stages
<1>5. /\ Among(outgoing)' = Among(outgoing) /\ Among(incoming)' = Among(incoming)
      /\ OnTheWire' = OnTheWire /\ (NoRepeats(outgoing) => NoRepeats(outgoing)')
  BY <1>1 DEF Among, OnTheWire, NoRepeats
<1>6. Sending'
  <2>1. ASSUME NEW x \in OnTheWire'
        PROVE  /\ x.n <= calls'[x.by] \/ (handle'[x.by] = "dropped" /\ x.by \notin detached')
               /\ handle'[x.by] # "none"
               /\ handle'[x.by] \in {"begun", "lost"} => x.op = "begin"
               /\ x.op = "put" => x.object \in sent'[x.by]
    <3>1. x \in OnTheWire /\ x.by \in Handles
      BY <1>5, <1>typed
    <3>2. CASE x.by = h
      BY <3>1, <3>2, <1>1, <1>2, <1>types DEF Sending
    <3>3. CASE x.by # h
      BY <3>1, <3>3, <1>1, <1>2, <1>types DEF Sending
    <3> QED BY <3>2, <3>3
  <2>2. ASSUME NEW x \in Among(outgoing)', x.op # "put"
        PROVE  \/ waiting'[x.by] = x \/ <<x.by, x.op>> \in unsure'
               \/ x.op = "rollback" /\ handle'[x.by] = "dropped"
    <3>1. x \in Among(outgoing) /\ x.by \in Handles
      BY <1>5, <1>typed
    <3> QED BY <3>1, <2>2, <1>1, <1>2, <1>types DEF Sending
  <2> QED BY <2>1, <2>2, <1>1, <1>5, <1>types DEF Sending
<1>7. TxBegins'
  <2>1. \A g \in Handles : handle'[g] = "none" => handle[g] = "none"
    BY <1>2
  <2> QED BY <2>1, <1>1, <1>5, <1>types DEF TxBegins, Unknown
<1>8. Holds' /\ TxEnds' /\ Answers'
  BY <1>1, <1>5, <1>types DEF Holds, TxEnds, Committed, Unknown, Accepted, Answers
<1>9. \A g \in Handles : WillFinish(g) => WillFinish(g)'
  BY <1>1, <1>5 DEF WillFinish
<1>10. Asked'
  BY <1>1, <1>9, <1>types DEF Asked
<1>11. Retries'
  <2>1. \A g \in Handles : handle'[g] = "open" => handle[g] = "open"
    BY <1>2
  <2> QED BY <2>1, <1>1, <1>9, <1>types DEF Retries
<1> QED BY <1>3, <1>4, <1>6, <1>7, <1>8, <1>10, <1>11 DEF TxInv

\* The detached rollback of a dropped handle is sent.
LEMMA SendRollbackKeeps ==
  ASSUME TxInv, NEW h \in Handles, Tx!SendRollback(h)
  PROVE  TxInv'
<1> DEFINE m == Tx!Op(h, "rollback", None)
<1>types. TxTypes /\ Stages /\ Sending /\ TxBegins /\ Holds /\ Answers /\ TxEnds /\ Asked /\ Retries
  BY DEF TxInv
<1>typed. /\ Among(outgoing) \subseteq TxMessages
          /\ Among(incoming) \subseteq [to : TxMessages, ok : BOOLEAN]
          /\ OnTheWire \subseteq TxMessages
          /\ \A x \in TxMessages : x.by \in Handles /\ x.n \in Nat
  BY TxTyped
<1>1. m \in TxMessages /\ m.by = h /\ m.n = calls[h] + 1 /\ m.op = "rollback"
  BY <1>types DEF Tx!Op, TxMessages, TxTypes
<1>2. /\ h \in detached /\ detached' = detached \ {h}
      /\ outgoing' = IF up THEN Append(outgoing, m) ELSE outgoing
      /\ UNCHANGED <<handle, finished, waiting, calls, incoming, up, txs, stored, acked, sent, told, unsure>>
  BY DEF Tx!SendRollback, Tx!Transmit, Tx!server, Tx!history
<1> HIDE DEF m
<1>3. /\ outgoing' \in Seq(TxMessages) /\ Among(outgoing)' \subseteq Among(outgoing) \union {m}
      /\ m \notin Among(outgoing) => NoRepeats(outgoing)'
  <2>1. outgoing \in Seq(TxMessages) /\ NoRepeats(outgoing) BY <1>types DEF TxTypes, Sending
  <2>2. /\ Append(outgoing, m) \in Seq(TxMessages)
        /\ Among(Append(outgoing, m)) = Among(outgoing) \union {m}
        /\ m \notin Among(outgoing) => NoRepeats(Append(outgoing, m))
    BY <2>1, <1>1, AmongAppend
  <2>3. CASE up
    <3>1. outgoing' = Append(outgoing, m) BY <2>3, <1>2
    <3> QED BY <3>1, <2>2 DEF Among, NoRepeats
  <2>4. CASE ~up
    <3>1. outgoing' = outgoing BY <2>4, <1>2
    <3> QED BY <3>1, <2>1 DEF Among, NoRepeats
  <2> QED BY <2>3, <2>4
<1>4. handle[h] = "dropped" /\ calls[h] \in Nat /\ waiting[h] = None
  BY <1>2, <1>types DEF TxTypes, Stages
<1>5. m \notin OnTheWire
  BY <1>1, <1>2, <1>4, <1>types DEF Sending
<1>6. Among(incoming)' = Among(incoming) /\ OnTheWire' \subseteq OnTheWire \union {m}
  BY <1>2, <1>3 DEF Among, OnTheWire
<1>7. TxTypes'
  BY <1>types, <1>2, <1>3 DEF TxTypes
<1>8. Stages'
  BY <1>types, <1>2 DEF Stages
<1>9. Sending'
  <2>1. NoRepeats(outgoing)'
    BY <1>3, <1>5 DEF OnTheWire
  <2>2. \A r \in Among(incoming)' : r.to \notin Among(outgoing)'
    BY <1>3, <1>5, <1>6, <1>types DEF OnTheWire, Sending
  <2>3. ASSUME NEW x \in OnTheWire'
        PROVE  /\ x.n <= calls'[x.by] \/ (handle'[x.by] = "dropped" /\ x.by \notin detached')
               /\ handle'[x.by] # "none"
               /\ handle'[x.by] \in {"begun", "lost"} => x.op = "begin"
               /\ x.op = "put" => x.object \in sent'[x.by]
    <3>1. CASE x = m
      BY <3>1, <1>1, <1>2, <1>4
    <3>2. CASE x # m
      BY <3>2, <1>2, <1>6, <1>types DEF Sending
    <3> QED BY <3>1, <3>2
  <2>4. ASSUME NEW x \in Among(outgoing)', x.op # "put"
        PROVE  \/ waiting'[x.by] = x \/ <<x.by, x.op>> \in unsure'
               \/ x.op = "rollback" /\ handle'[x.by] = "dropped"
    BY <2>4, <1>1, <1>2, <1>3, <1>4, <1>types DEF Sending
  <2> QED BY <2>1, <2>2, <2>3, <2>4 DEF Sending
<1>10. TxBegins'
  <2>1. \A g \in Handles : handle'[g] = "none" => Unknown(g)'
    BY <1>2, <1>types DEF TxBegins, Unknown
  <2>2. ASSUME NEW x \in Among(outgoing)', x.op = "begin"
        PROVE  Unknown(x.by)' /\ \A y \in OnTheWire' : y.by = x.by => y = x
    <3>1. x \in Among(outgoing) /\ x \in OnTheWire /\ x # None
      BY <2>2, <1>1, <1>3, <1>typed, NoneIsNoTransaction DEF OnTheWire
    <3>2. waiting[x.by] = x \/ <<x.by, "begin">> \in unsure
      BY <3>1, <2>2, <1>types DEF Sending
    <3>3. x.by # h
      BY <3>1, <3>2, <1>4, <1>types DEF Stages
    <3> QED BY <3>1, <3>3, <2>2, <1>1, <1>2, <1>6, <1>types DEF TxBegins, Unknown
  <2> QED BY <2>1, <2>2 DEF TxBegins
<1>11. Holds' /\ TxEnds' /\ Answers'
  BY <1>2, <1>6, <1>types DEF Holds, TxEnds, Committed, Unknown, Accepted, Answers
<1>12. \A g \in Handles : WillFinish(g) => WillFinish(g)'
  <2>1. ASSUME NEW g \in Handles, WillFinish(g) PROVE WillFinish(g)'
    <3>1. waiting[g].by = g /\ waiting[g] # None /\ g # h
      BY <2>1, <1>4, <1>types DEF WillFinish, Stages
    <3> QED BY <3>1, <2>1, <1>1, <1>2, <1>3, <1>6 DEF WillFinish
  <2> QED BY <2>1
<1>13. Asked' /\ Retries'
  BY <1>2, <1>12, <1>types DEF Asked, Retries
<1> QED BY <1>7, <1>8, <1>9, <1>10, <1>11, <1>13 DEF TxInv

\* An answer arrives.
LEMMA DeliverKeeps ==
  ASSUME TxInv, Tx!Deliver
  PROVE  TxInv'
<1> DEFINE m == Head(incoming).to
           ok == Head(incoming).ok
           h == m.by
<1>types. TxTypes /\ Stages /\ Sending /\ TxBegins /\ Holds /\ Answers /\ TxEnds /\ Asked /\ Retries
  BY DEF TxInv
<1>typed. /\ Among(outgoing) \subseteq TxMessages
          /\ Among(incoming) \subseteq [to : TxMessages, ok : BOOLEAN]
          /\ OnTheWire \subseteq TxMessages
          /\ \A x \in TxMessages : x.by \in Handles /\ x.n \in Nat
  BY TxTyped
<1>1. /\ incoming # <<>> /\ incoming' = Tail(incoming)
      /\ UNCHANGED <<calls, detached, outgoing, up, txs, stored, sent, unsure>>
  BY DEF Tx!Deliver, Tx!server
<1>2. /\ waiting[h] # m => UNCHANGED <<handle, finished, waiting, acked, told>>
      /\ waiting[h] = m =>
           /\ waiting' = [waiting EXCEPT ![h] = None]
           /\ handle' = IF m.op = "begin" THEN [handle EXCEPT ![h] = IF ok THEN "open" ELSE "refused"]
                        ELSE handle
           /\ finished' = IF Tx!Finishes(m.op, ok) THEN finished \union {h} ELSE finished
           /\ acked' = IF m.op = "put" /\ ok THEN [acked EXCEPT ![h] = @ \union {m.object}] ELSE acked
           /\ told' = IF m.op \in {"commit", "rollback"} /\ ok THEN [told EXCEPT ![h] = m.op] ELSE told
  BY DEF Tx!Deliver
<1>3. /\ incoming' \in Seq([to : TxMessages, ok : BOOLEAN])
      /\ Head(incoming) \in [to : TxMessages, ok : BOOLEAN]
      /\ Among(incoming) = {Head(incoming)} \union Among(incoming')
  <2>1. incoming \in Seq([to : TxMessages, ok : BOOLEAN])
    BY <1>types DEF TxTypes
  <2>2. /\ Tail(incoming) \in Seq([to : TxMessages, ok : BOOLEAN])
        /\ Head(incoming) \in [to : TxMessages, ok : BOOLEAN]
        /\ Among(incoming) = {Head(incoming)} \union Among(Tail(incoming))
    BY ONLY <2>1, <1>1, AmongTail
  <2> QED BY <2>2, <1>1
<1>4. Among(incoming)' = Among(incoming')
  BY DEF Among
<1>5. /\ Head(incoming) \in Among(incoming) /\ m \in OnTheWire /\ m \notin Among(outgoing)
      /\ m \in TxMessages /\ m # None /\ ok \in BOOLEAN /\ h \in Handles
      /\ m.op \in {"begin", "put", "commit", "rollback"} /\ m.object \in Objects \union {None}
      /\ Among(incoming)' \subseteq Among(incoming) /\ Among(outgoing)' = Among(outgoing)
      /\ NoRepeats(outgoing)'
  <2>1. m \in TxMessages /\ ok \in BOOLEAN
    BY <1>3
  <2>2. m.by \in Handles /\ m.op \in {"begin", "put", "commit", "rollback"} /\ m.object \in Objects \union {None}
    BY <2>1 DEF TxMessages
  <2>3. Head(incoming) \in Among(incoming) /\ m \in OnTheWire /\ m \notin Among(outgoing)
    BY <1>3, <1>types DEF OnTheWire, Sending
  <2>4. Among(incoming)' \subseteq Among(incoming)
    BY <1>3, <1>4
  <2>5. Among(outgoing)' = Among(outgoing) /\ NoRepeats(outgoing)'
    BY <1>1, <1>types DEF Among, NoRepeats, Sending
  <2> QED BY <2>1, <2>2, <2>3, <2>4, <2>5, NoneIsNoTransaction
<1>6. OnTheWire' \subseteq OnTheWire
  BY <1>5 DEF OnTheWire
<1>head. [to |-> m, ok |-> ok] = Head(incoming) /\ Head(incoming).to = m /\ Head(incoming).ok = ok
  BY <1>3
<1> HIDE DEF m, ok
<1>7. m.op = "put" => m.object \in sent[h] /\ sent[h] \subseteq Objects
  BY <1>5, <1>types DEF Sending, TxTypes
<1>8. /\ \A g \in Handles : g # h => /\ waiting'[g] = waiting[g] /\ handle'[g] = handle[g]
                                    /\ told'[g] = told[g] /\ acked'[g] = acked[g]
                                    /\ (g \in finished' <=> g \in finished)
      /\ waiting[h] = m =>
           /\ waiting'[h] = None
           /\ handle'[h] = IF m.op = "begin" THEN IF ok THEN "open" ELSE "refused" ELSE handle[h]
           /\ h \in finished' <=> h \in finished \/ Tx!Finishes(m.op, ok)
           /\ acked'[h] = IF m.op = "put" /\ ok THEN acked[h] \union {m.object} ELSE acked[h]
           /\ told'[h] = IF m.op \in {"commit", "rollback"} /\ ok THEN m.op ELSE told[h]
      /\ waiting[h] # m => /\ waiting'[h] = waiting[h] /\ handle'[h] = handle[h]
                           /\ told'[h] = told[h] /\ acked'[h] = acked[h]
                           /\ (h \in finished' <=> h \in finished)
  <2>1. DOMAIN waiting = Handles /\ DOMAIN handle = Handles /\ DOMAIN acked = Handles /\ DOMAIN told = Handles
    BY <1>types DEF TxTypes
  <2>2. CASE waiting[h] = m
    <3> HIDE DEF handle, waiting, acked, told, finished
    <3> QED BY ONLY <1>2, <1>5, <2>1, <2>2
  <2>3. CASE waiting[h] # m
    BY ONLY <1>2, <2>3
  <2> QED BY ONLY <2>2, <2>3
<1>9. TxTypes'
  <2>1. CASE waiting[h] # m
    BY <2>1, <1>1, <1>2, <1>3, <1>types DEF TxTypes
  <2>2. CASE waiting[h] = m
    <3>1. waiting' \in [Handles -> TxMessages \union {None}]
      BY <2>2, <1>2, <1>types DEF TxTypes
    <3>2. handle' \in [Handles -> {"none", "begun", "open", "refused", "lost", "dropped"}]
      BY <2>2, <1>2, <1>types DEF TxTypes
    <3>3. finished' \in SUBSET Handles
      BY <2>2, <1>2, <1>5, <1>types DEF TxTypes
    <3>4. acked' \in [Handles -> SUBSET Objects]
      <4>1. m.op = "put" => acked[h] \union {m.object} \in SUBSET Objects
        BY <1>5, <1>7, <1>types DEF TxTypes
      <4>2. acked \in [Handles -> SUBSET Objects]
        BY <1>types DEF TxTypes
      <4> QED BY <4>1, <4>2, <2>2, <1>2
    <3>5. told' \in [Handles -> {"none", "commit", "rollback"}]
      BY <2>2, <1>2, <1>types DEF TxTypes
    <3> QED BY <3>1, <3>2, <3>3, <3>4, <3>5, <1>1, <1>3, <1>types DEF TxTypes
  <2> QED BY <2>1, <2>2
<1>10. waiting[h] = m => /\ m.op = "begin" => handle[h] = "begun" /\ h \notin finished /\ h \notin detached
                                              /\ <<h, "begin">> \notin unsure
                         /\ m.op # "begin" => handle[h] = "open" /\ h \notin finished /\ h \notin detached
                         /\ <<h, "begin">> \notin unsure /\ told[h] = "none"
  BY <1>5, <1>types DEF Stages, TxTypes
<1>11. Stages'
  <2>1. ASSUME NEW g \in Handles
        PROVE  /\ waiting'[g] # None => waiting'[g].by = g
               /\ handle'[g] = "begun" <=> waiting'[g] # None /\ waiting'[g].op = "begin"
               /\ waiting'[g] # None /\ waiting'[g].op # "begin" => handle'[g] = "open" /\ g \notin finished'
               /\ g \in finished' => handle'[g] \in {"open", "dropped"}
               /\ g \in detached' => handle'[g] = "dropped"
               /\ handle'[g] \in {"none", "begun", "lost"} => acked'[g] = {}
               /\ <<g, "begin">> \in unsure' => handle'[g] = "lost"
               /\ told'[g] # "none" => g \in finished'
    <3>1. CASE g = h /\ waiting[h] = m
      <4>1. Tx!Finishes(m.op, ok) => m.op # "begin"
        BY DEF Tx!Finishes
      <4>2. m.op \in {"commit", "rollback"} /\ ok => Tx!Finishes(m.op, ok)
        BY DEF Tx!Finishes
      <4> QED BY <3>1, <4>1, <4>2, <1>1, <1>5, <1>8, <1>10
    <3>2. CASE ~(g = h /\ waiting[h] = m)
      <4>1. /\ waiting'[g] = waiting[g] /\ handle'[g] = handle[g]
            /\ told'[g] = told[g] /\ acked'[g] = acked[g]
            /\ (g \in finished' <=> g \in finished)
        BY <3>2, <1>8
      <4> QED BY <4>1, <1>1, <1>types DEF Stages
    <3> QED BY <3>1, <3>2
  <2> QED BY <2>1 DEF Stages
<1>12. Sending'
  <2>1. ASSUME NEW x \in OnTheWire'
        PROVE  /\ x.n <= calls'[x.by] \/ (handle'[x.by] = "dropped" /\ x.by \notin detached')
               /\ handle'[x.by] # "none"
               /\ handle'[x.by] \in {"begun", "lost"} => x.op = "begin"
               /\ x.op = "put" => x.object \in sent'[x.by]
    <3>1. x \in OnTheWire /\ x.by \in Handles
      BY <1>6, <1>typed
    <3>2. handle'[x.by] = handle[x.by] \/ (handle[x.by] = "begun" /\ handle'[x.by] \in {"open", "refused"})
      BY <3>1, <1>8, <1>10
    <3> QED BY <3>1, <3>2, <1>1, <1>types DEF Sending
  <2>2. ASSUME NEW x \in Among(outgoing)', x.op # "put"
        PROVE  \/ waiting'[x.by] = x \/ <<x.by, x.op>> \in unsure'
               \/ x.op = "rollback" /\ handle'[x.by] = "dropped"
    <3>1. x \in Among(outgoing) /\ x.by \in Handles /\ x # m
      BY <1>5, <1>typed
    <3>2. waiting[x.by] = x => waiting'[x.by] = x
      BY <3>1, <1>8
    <3>3. handle[x.by] = "dropped" => handle'[x.by] = "dropped"
      BY <3>1, <1>8, <1>10
    <3> QED BY <3>1, <3>2, <3>3, <2>2, <1>1, <1>types DEF Sending
  <2> QED BY <2>1, <2>2, <1>5, <1>types DEF Sending
<1>13. TxBegins'
  <2>1. \A g \in Handles : handle'[g] = "none" => handle[g] = "none"
    BY <1>8, <1>10
  <2> QED BY <2>1, <1>1, <1>5, <1>6, <1>types DEF TxBegins, Unknown
<1>14. \A g \in Handles : Accepted(g)' \subseteq Accepted(g)
  <2>1. ASSUME NEW g \in Handles PROVE acked'[g] \subseteq Accepted(g)
    <3>1. CASE g = h /\ waiting[h] = m /\ m.op = "put" /\ ok
      <4>1. acked'[g] = acked[g] \union {m.object}
        BY <3>1, <1>8
      <4>2. m.object \in Accepted(g)
        BY <3>1, <1>5, <1>head DEF Accepted
      <4> QED BY <4>1, <4>2 DEF Accepted
    <3>2. CASE ~(g = h /\ waiting[h] = m /\ m.op = "put" /\ ok)
      <4>1. acked'[g] = acked[g]
        BY <3>2, <1>8
      <4> QED BY <4>1 DEF Accepted
    <3> QED BY <3>1, <3>2
  <2> QED BY <2>1, <1>5 DEF Accepted
<1>15. Holds'
  BY <1>1, <1>14, <1>types DEF Holds
<1>16. \A g \in Handles : (Committed(g) => Committed(g)') /\ (Unknown(g) => Unknown(g)')
  BY <1>1, <1>14 DEF Committed, Unknown
<1>17. TxEnds'
  <2>1. ASSUME NEW g \in Handles
        PROVE  /\ told'[g] = "commit" => Committed(g)'
               /\ told'[g] = "rollback" => Unknown(g)'
               /\ g \in finished' => txs'[g] = None
    <3>1. CASE g = h /\ waiting[h] = m
      <4>1. /\ m.op = "rollback" => txs[h] = None
            /\ m.op = "rollback" /\ ok => Unknown(h)
            /\ m.op = "commit" /\ ok => Committed(h)
        BY <1>5, <1>head, <1>types DEF Answers
      <4>2. h \in finished' => txs[h] = None
        BY <3>1, <4>1, <1>8, <1>types DEF Tx!Finishes, TxEnds, Committed
      <4> QED BY <3>1, <4>1, <4>2, <1>1, <1>8, <1>10, <1>16
    <3>2. CASE ~(g = h /\ waiting[h] = m)
      <4>1. told'[g] = told[g] /\ (g \in finished' <=> g \in finished)
        BY <3>2, <1>8
      <4> QED BY <4>1, <1>1, <1>16, <1>types DEF TxEnds
    <3> QED BY <3>1, <3>2
  <2> QED BY <2>1 DEF TxEnds
<1>18. Answers'
  <2>1. ASSUME NEW r \in Among(incoming)'
        PROVE  /\ r.to.op = "rollback" => txs'[r.to.by] = None
               /\ r.to.op = "rollback" /\ r.ok => Unknown(r.to.by)'
               /\ r.to.op = "commit" /\ r.ok => Committed(r.to.by)'
               /\ r.to.op = "begin" /\ r.ok /\ up' /\ waiting'[r.to.by] = r.to => txs'[r.to.by] # None
    <3>1. r \in Among(incoming) /\ r.to.by \in Handles /\ r.to # None
      BY <1>5, <1>typed, NoneIsNoTransaction
    <3>2. waiting'[r.to.by] = r.to => waiting[r.to.by] = r.to
      BY <3>1, <1>8
    <3> QED BY <3>1, <3>2, <1>1, <1>16, <1>types DEF Answers
  <2> QED BY <2>1 DEF Answers
<1>19. \A g \in Handles : WillFinish(g) /\ ~(g = h /\ waiting[h] = m) => WillFinish(g)' /\ waiting'[g] = waiting[g]
  BY <1>5, <1>8 DEF WillFinish
<1>20. WillFinish(h) /\ waiting[h] = m => Tx!Finishes(m.op, ok)
  BY <1>5, <1>head DEF WillFinish
<1>21. Asked'
  <2>1. ASSUME NEW g \in Handles, stored'[g] # {}
        PROVE  \/ told'[g] = "commit" \/ <<g, "commit">> \in unsure'
               \/ WillFinish(g)' /\ waiting'[g].op = "commit"
    <3>1. told[g] = "commit" \/ <<g, "commit">> \in unsure \/ (WillFinish(g) /\ waiting[g].op = "commit")
      BY <2>1, <1>1, <1>types DEF Asked
    <3>2. CASE g = h /\ waiting[h] = m
      <4>1. told[g] # "commit"
        BY <3>2, <1>10
      <4>2. CASE WillFinish(g) /\ waiting[g].op = "commit"
        <5>1. ok
          BY <4>2, <3>2, <1>20 DEF Tx!Finishes
        <5> QED BY <5>1, <4>2, <3>2, <1>8
      <4> QED BY <3>1, <4>1, <4>2, <1>1
    <3>3. CASE ~(g = h /\ waiting[h] = m)
      <4>1. told'[g] = told[g]
        BY <3>3, <1>8
      <4> QED BY <3>1, <3>3, <4>1, <1>1, <1>19
    <3> QED BY <3>2, <3>3
  <2> QED BY <2>1 DEF Asked
<1>22. Retries'
  <2>1. ASSUME NEW g \in Handles, handle'[g] = "open", g \notin finished', up',
               \A x \in unsure' : x[1] # g
        PROVE  txs'[g] # None \/ WillFinish(g)'
    <3>1. CASE g = h /\ waiting[h] = m
      <4>1. CASE m.op = "begin"
        <5>1. ok BY <3>1, <4>1, <2>1, <1>8
        <5>2. txs[h] # None
          BY <5>1, <3>1, <4>1, <2>1, <1>1, <1>5, <1>head, <1>types DEF Answers
        <5> QED BY <5>2, <3>1, <1>1
      <4>2. CASE m.op # "begin"
        <5>1. handle[g] = "open" /\ g \notin finished /\ ~Tx!Finishes(m.op, ok)
          BY <3>1, <4>2, <2>1, <1>8
        <5>2. ~WillFinish(g)
          BY <5>1, <3>1, <1>20
        <5> QED BY <5>1, <5>2, <2>1, <1>1, <1>types DEF Retries
      <4> QED BY <4>1, <4>2
    <3>2. CASE ~(g = h /\ waiting[h] = m)
      <4>1. handle[g] = "open" /\ g \notin finished
        BY <3>2, <2>1, <1>8
      <4> QED BY <4>1, <3>2, <2>1, <1>1, <1>19, <1>types DEF Retries
    <3> QED BY <3>1, <3>2
  <2> QED BY <2>1 DEF Retries
<1> QED BY <1>9, <1>11, <1>12, <1>13, <1>15, <1>17, <1>18, <1>21, <1>22 DEF TxInv

\* The connection is lost, and some of what is under way with it.
LEMMA LoseKeeps ==
  ASSUME TxInv, Tx!Lose
  PROVE  TxInv'
<1>types. TxTypes /\ Stages /\ Sending /\ TxBegins /\ Holds /\ Answers /\ TxEnds /\ Asked /\ Retries
  BY DEF TxInv
<1>1. /\ up' = FALSE
      /\ \E n \in 0 .. Len(outgoing) : outgoing' = SubSeq(outgoing, 1, n)
      /\ \E n \in 0 .. Len(incoming) : incoming' = SubSeq(incoming, 1, n)
      /\ UNCHANGED <<handle, finished, waiting, calls, detached, txs, stored, acked, sent, told, unsure>>
  BY DEF Tx!Lose, Tx!client, Tx!server, Tx!history
<1>2. outgoing \in Seq(TxMessages) /\ incoming \in Seq([to : TxMessages, ok : BOOLEAN]) /\ NoRepeats(outgoing)
  BY <1>types DEF TxTypes, Sending
<1>3. outgoing' \in Seq(TxMessages) /\ Among(outgoing') \subseteq Among(outgoing) /\ NoRepeats(outgoing')
  <2>1. PICK n \in 0 .. Len(outgoing) : outgoing' = SubSeq(outgoing, 1, n)
    BY <1>1
  <2> QED BY <2>1, <1>2, AmongPrefix
<1>4. incoming' \in Seq([to : TxMessages, ok : BOOLEAN]) /\ Among(incoming') \subseteq Among(incoming)
  <2>1. PICK n \in 0 .. Len(incoming) : incoming' = SubSeq(incoming, 1, n)
    BY <1>1
  <2> QED BY <2>1, <1>2, AmongPrefix
<1>5. /\ Among(outgoing)' \subseteq Among(outgoing) /\ NoRepeats(outgoing)'
      /\ Among(incoming)' \subseteq Among(incoming)
  BY <1>3, <1>4 DEF Among, NoRepeats
<1>6. OnTheWire' \subseteq OnTheWire
  BY <1>5 DEF OnTheWire
<1>7. TxTypes' /\ Stages'
  BY <1>1, <1>3, <1>4, <1>types DEF TxTypes, Stages
<1>8. Sending' /\ TxBegins'
  BY <1>1, <1>5, <1>6, <1>types DEF Sending, TxBegins, Unknown
<1>9. \A g : Accepted(g)' \subseteq Accepted(g)
  BY <1>1, <1>5 DEF Accepted
<1>10. Holds'
  BY <1>1, <1>9, <1>types DEF Holds
<1>11. TxEnds' /\ Answers'
  BY <1>1, <1>5, <1>9, <1>types DEF TxEnds, Answers, Committed, Unknown
<1>12. \A g \in Handles : WillFinish(g) => WillFinish(g)'
  BY <1>1, <1>5 DEF WillFinish
<1>13. Asked' /\ Retries'
  BY <1>1, <1>12, <1>types DEF Asked, Retries
<1> QED BY <1>7, <1>8, <1>10, <1>11, <1>13 DEF TxInv

\* The server forgets the transactions of a connection that ended.
LEMMA DisconnectKeepsTx ==
  ASSUME TxInv, Tx!Disconnect
  PROVE  TxInv'
<1>types. TxTypes /\ Stages /\ Sending /\ TxBegins /\ Holds /\ Answers /\ TxEnds /\ Asked /\ Retries
  BY DEF TxInv
<1>typed. /\ OnTheWire \subseteq TxMessages
          /\ Among(incoming) \subseteq [to : TxMessages, ok : BOOLEAN]
          /\ Among(outgoing) \subseteq TxMessages
          /\ \A x \in TxMessages : x.by \in Handles /\ x.n \in Nat
  BY TxTyped
<1>1. /\ ~up /\ outgoing = <<>> /\ txs' = [h \in Handles |-> None]
      /\ UNCHANGED <<handle, finished, waiting, calls, detached, outgoing, incoming, up, stored,
                     acked, sent, told, unsure>>
  BY DEF Tx!Disconnect, Tx!client, Tx!wire, Tx!history
<1>2. \A g \in Handles : txs'[g] = None
  BY <1>1
<1>3. /\ Among(outgoing)' = Among(outgoing) /\ NoRepeats(outgoing)'
      /\ Among(incoming)' = Among(incoming) /\ OnTheWire' = OnTheWire
      /\ \A g \in Handles : Accepted(g)' = Accepted(g)
  BY <1>1, <1>types DEF Among, NoRepeats, OnTheWire, Accepted, Sending
<1>4. TxTypes'
  BY <1>1, <1>types DEF TxTypes
<1>5. Stages' /\ Sending'
  BY <1>1, <1>3, <1>types DEF Stages, Sending
<1>6. \A m \in Among(incoming) : m.to.by \in Handles
  BY <1>typed
<1>7. TxBegins' /\ Holds' /\ TxEnds' 
  BY <1>1, <1>2, <1>3, <1>typed, <1>types DEF TxBegins, Holds, TxEnds, Committed, Unknown
<1>8. Answers'
  BY <1>1, <1>2, <1>3, <1>6, <1>types DEF Answers, Committed, Unknown
<1>9. \A g \in Handles : WillFinish(g) => WillFinish(g)'
  BY <1>1, <1>3 DEF WillFinish
<1>10. Asked' /\ Retries'
  BY <1>1, <1>9, <1>types DEF Asked, Retries
<1> QED BY <1>4, <1>5, <1>7, <1>8, <1>10 DEF TxInv

\* What the server does with a request that it handles.
LEMMA EffectCases ==
  ASSUME TxInv, NEW m \in Among(outgoing), Tx!Effect(m)
  PROVE  \/ m.op = "begin" /\ txs' = [txs EXCEPT ![m.by] = {}] /\ stored' = stored
         \/ /\ txs[m.by] # None /\ m.op = "put"
            /\ txs' = [txs EXCEPT ![m.by] = @ \union {m.object}] /\ stored' = stored
         \/ /\ txs[m.by] # None /\ m.op = "commit"
            /\ stored' = [stored EXCEPT ![m.by] = txs[m.by]]
            /\ txs' = [txs EXCEPT ![m.by] = None]
         \/ /\ txs[m.by] # None /\ m.op = "rollback"
            /\ txs' = [txs EXCEPT ![m.by] = None] /\ stored' = stored
<1>1. m \in TxMessages
  BY TxTyped
<1>2. m.op \in {"begin", "put", "commit", "rollback"}
  BY <1>1 DEF TxMessages
<1>3. m.op = "begin" => txs[m.by] = None
  BY DEF TxInv, TxBegins, Unknown
<1>4. CASE m.op = "begin"
  BY <1>3, <1>4 DEF Tx!Effect
<1>5. CASE m.op = "put"
  BY <1>5 DEF Tx!Effect
<1>6. CASE m.op = "commit"
  BY <1>6 DEF Tx!Effect
<1>7. CASE m.op = "rollback"
  BY <1>7 DEF Tx!Effect
<1> QED BY <1>2, <1>4, <1>5, <1>6, <1>7

\* The server does what it is asked and answers.
LEMMA TxAnswerKeeps ==
  ASSUME TxInv, NEW m \in TxMessages, m = Head(outgoing), Tx!Answer
  PROVE  TxInv'
<1> DEFINE h == m.by
<1>types. TxTypes /\ Stages /\ Sending /\ TxBegins /\ Holds /\ Answers /\ TxEnds /\ Asked /\ Retries
  BY DEF TxInv
<1>typed. /\ Among(outgoing) \subseteq TxMessages
          /\ Among(incoming) \subseteq [to : TxMessages, ok : BOOLEAN]
          /\ OnTheWire \subseteq TxMessages
          /\ \A x \in TxMessages : x.by \in Handles /\ x.n \in Nat
  BY TxTyped
<1>1. PICK ok \in BOOLEAN :
        /\ IF ok THEN Tx!Effect(m) ELSE Tx!Failure(m)
        /\ incoming' = IF up THEN Append(incoming, [to |-> m, ok |-> ok]) ELSE incoming
  BY DEF Tx!Answer
<1>2. /\ outgoing # <<>> /\ outgoing' = Tail(outgoing)
      /\ UNCHANGED <<handle, finished, waiting, calls, detached, up, acked, sent, told, unsure>>
  BY DEF Tx!Answer, Tx!client, Tx!history
<1>3. /\ outgoing' \in Seq(TxMessages) /\ m \in TxMessages
      /\ Among(outgoing) = {m} \union Among(outgoing')
      /\ NoRepeats(outgoing') /\ m \notin Among(outgoing')
  <2>1. outgoing \in Seq(TxMessages) /\ NoRepeats(outgoing)
    BY <1>types DEF TxTypes, Sending
  <2>2. /\ Tail(outgoing) \in Seq(TxMessages) /\ m \in TxMessages
        /\ Among(outgoing) = {m} \union Among(Tail(outgoing))
        /\ NoRepeats(Tail(outgoing)) /\ m \notin Among(Tail(outgoing))
    <3>1. /\ Tail(outgoing) \in Seq(TxMessages)
          /\ Among(outgoing) = {Head(outgoing)} \union Among(Tail(outgoing))
          /\ NoRepeats(Tail(outgoing)) /\ Head(outgoing) \notin Among(Tail(outgoing))
      BY ONLY <2>1, <1>2, AmongTail
    <3> QED BY <3>1
  <2> QED BY <2>2, <1>2
<1>pick. PICK a \in [to : TxMessages, ok : BOOLEAN] : a = [to |-> m, ok |-> ok]
  BY <1>3
<1>4. a \in [to : TxMessages, ok : BOOLEAN] /\ a.to = m /\ a.ok = ok
  BY <1>pick
<1>eff. m \in Among(outgoing)
  BY <1>3
<1>cases. ok =>
         \/ m.op = "begin" /\ txs' = [txs EXCEPT ![h] = {}] /\ stored' = stored
         \/ /\ txs[h] # None /\ m.op = "put"
            /\ txs' = [txs EXCEPT ![h] = @ \union {m.object}] /\ stored' = stored
         \/ /\ txs[h] # None /\ m.op = "commit"
            /\ stored' = [stored EXCEPT ![h] = txs[h]]
            /\ txs' = [txs EXCEPT ![h] = None]
         \/ /\ txs[h] # None /\ m.op = "rollback"
            /\ txs' = [txs EXCEPT ![h] = None] /\ stored' = stored
  <2> SUFFICES ASSUME ok PROVE
         \/ m.op = "begin" /\ txs' = [txs EXCEPT ![h] = {}] /\ stored' = stored
         \/ /\ txs[h] # None /\ m.op = "put"
            /\ txs' = [txs EXCEPT ![h] = @ \union {m.object}] /\ stored' = stored
         \/ /\ txs[h] # None /\ m.op = "commit"
            /\ stored' = [stored EXCEPT ![h] = txs[h]]
            /\ txs' = [txs EXCEPT ![h] = None]
         \/ /\ txs[h] # None /\ m.op = "rollback"
            /\ txs' = [txs EXCEPT ![h] = None] /\ stored' = stored
    OBVIOUS
  <2>1. Tx!Effect(m) BY <1>1
  <2> QED BY <2>1, <1>eff, EffectCases DEF h
<1>fail. ~ok => /\ txs' = IF m.op = "rollback" THEN [txs EXCEPT ![h] = None] ELSE txs
                /\ stored' = stored
  BY <1>1 DEF Tx!Failure
<1>5. /\ m.by \in Handles /\ m.op \in {"begin", "put", "commit", "rollback"}
      /\ m.object \in Objects \union {None} /\ m # None /\ m \in OnTheWire
  BY <1>3, <1>eff, NoneIsNoTransaction DEF TxMessages, OnTheWire
<1>6. /\ incoming' \in Seq([to : TxMessages, ok : BOOLEAN])
      /\ Among(incoming)' = IF up THEN Among(incoming) \union {a} ELSE Among(incoming)
  <2>1. incoming \in Seq([to : TxMessages, ok : BOOLEAN])
    BY <1>types DEF TxTypes
  <2>2. /\ Append(incoming, a) \in Seq([to : TxMessages, ok : BOOLEAN])
        /\ Among(Append(incoming, a)) = Among(incoming) \union {a}
    <3> DEFINE S == [to : TxMessages, ok : BOOLEAN]
    <3>1. incoming \in Seq(S) /\ a \in S
      BY <2>1, <1>4
    <3> HIDE DEF S
    <3>2. Append(incoming, a) \in Seq(S) /\ Among(Append(incoming, a)) = Among(incoming) \union {a}
      BY ONLY <3>1, AmongAppend
    <3> QED BY <3>2 DEF S
  <2>3. incoming' = IF up THEN Append(incoming, a) ELSE incoming
    BY <1>1, <1>pick
  <2>4. CASE up
    <3>1. incoming' = Append(incoming, a) BY <2>3, <2>4
    <3> QED BY <3>1, <2>2, <2>4 DEF Among
  <2>5. CASE ~up
    <3>1. incoming' = incoming BY <2>3, <2>5
    <3> QED BY <3>1, <2>1, <2>5 DEF Among
  <2> QED BY <2>4, <2>5
<1>7. /\ Among(outgoing)' \subseteq Among(outgoing) /\ m \notin Among(outgoing)'
      /\ NoRepeats(outgoing)' /\ Among(outgoing) = {m} \union Among(outgoing)'
  BY <1>3 DEF Among, NoRepeats
<1>8. OnTheWire' \subseteq OnTheWire
  <2>1. \A r \in Among(incoming)' : r \in Among(incoming) \/ r.to = m
    BY <1>4, <1>6
  <2> QED BY <2>1, <1>5, <1>7 DEF OnTheWire
<1>9. \A g \in Handles : g # h => txs'[g] = txs[g] /\ stored'[g] = stored[g]
  BY <1>cases, <1>fail, <1>types DEF TxTypes
<1>10. /\ ok => \/ m.op = "begin" /\ txs'[h] = {} /\ stored'[h] = stored[h]
                \/ txs[h] # None /\ m.op = "put" /\ txs'[h] = txs[h] \union {m.object} /\ stored'[h] = stored[h]
                \/ txs[h] # None /\ m.op = "commit" /\ txs'[h] = None /\ stored'[h] = txs[h]
                \/ txs[h] # None /\ m.op = "rollback" /\ txs'[h] = None /\ stored'[h] = stored[h]
       /\ ~ok => /\ txs'[h] = IF m.op = "rollback" THEN None ELSE txs[h]
                 /\ stored'[h] = stored[h]
  <2>1. stored \in [Handles -> SUBSET Objects] /\ txs \in [Handles -> (SUBSET Objects) \union {None}]
    BY <1>types DEF TxTypes
  <2> QED BY <2>1, <1>cases, <1>fail, <1>5
<1>11. /\ m.op = "put" => m.object \in sent[h] /\ m.object \in Objects
       /\ sent[h] \subseteq Objects /\ txs[h] \in (SUBSET Objects) \union {None}
       /\ stored[h] \in SUBSET Objects
  BY <1>5, <1>types DEF Sending, TxTypes
<1>12. TxTypes'
  <2>1. /\ txs[h] # None => txs[h] \in SUBSET Objects
        /\ m.op = "put" /\ txs[h] # None => txs[h] \union {m.object} \in SUBSET Objects
    BY <1>11
  <2>2. txs' \in [Handles -> (SUBSET Objects) \union {None}] /\ stored' \in [Handles -> SUBSET Objects]
    <3>1. stored \in [Handles -> SUBSET Objects] /\ txs \in [Handles -> (SUBSET Objects) \union {None}]
      BY <1>types DEF TxTypes
    <3>2. CASE ok BY <3>1, <3>2, <2>1, <1>cases
    <3>3. CASE ~ok BY <3>1, <3>3, <1>fail
    <3> QED BY <3>2, <3>3
  <2> QED BY <2>2, <1>2, <1>3, <1>6, <1>types DEF TxTypes
<1>13. Stages'
  BY <1>2, <1>types DEF Stages
<1>14. Sending'
  <2>1. \A r \in Among(incoming)' : r.to \notin Among(outgoing)'
    <3>1. \A r \in Among(incoming)' : r \in Among(incoming) \/ r.to = m
      BY <1>4, <1>6
    <3> QED BY <3>1, <1>7, <1>types DEF Sending
  <2> QED BY <2>1, <1>2, <1>7, <1>8, <1>types DEF Sending
<1>15. m.op = "begin" =>
         /\ Unknown(h) /\ acked[h] = {} /\ h \notin finished /\ told[h] = "none" /\ handle[h] \in {"begun", "lost"}
         /\ \A r \in Among(incoming) : r.to.by # h
  <2> SUFFICES ASSUME m.op = "begin"
               PROVE  /\ Unknown(h) /\ acked[h] = {} /\ h \notin finished /\ told[h] = "none"
                      /\ handle[h] \in {"begun", "lost"}
                      /\ \A r \in Among(incoming) : r.to.by # h
    OBVIOUS
  <2>1. waiting[h] = m \/ <<h, "begin">> \in unsure
    BY <1>5, <1>eff, <1>types DEF Sending
  <2>2. handle[h] \in {"begun", "lost"}
    BY <2>1, <1>5, <1>types DEF Stages
  <2>3. acked[h] = {} /\ h \notin finished /\ told[h] = "none"
    BY <2>2, <1>5, <1>types DEF Stages, TxTypes
  <2>4. Unknown(h)
    BY <1>eff, <1>types DEF TxBegins
  <2>5. ASSUME NEW r \in Among(incoming), r.to.by = h PROVE FALSE
    <3>1. r.to \in OnTheWire /\ r.to \notin Among(outgoing)
      BY <1>types DEF OnTheWire, Sending
    <3>2. r.to = m
      BY <3>1, <2>5, <1>eff, <1>types DEF TxBegins
    <3> QED BY <3>1, <3>2, <1>eff
  <2> QED BY <2>2, <2>3, <2>4, <2>5
<1>16. TxBegins'
  <2>1. ASSUME NEW g \in Handles, handle'[g] = "none" PROVE Unknown(g)'
    <3>1. handle[g] = "none" /\ g # h
      BY <2>1, <1>2, <1>5, <1>types DEF Sending
    <3> QED BY <3>1, <1>9, <1>types DEF TxBegins, Unknown
  <2>2. ASSUME NEW x \in Among(outgoing)', x.op = "begin"
        PROVE  Unknown(x.by)' /\ \A y \in OnTheWire' : y.by = x.by => y = x
    <3>1. x \in Among(outgoing) /\ x.by \in Handles /\ x # m
      BY <1>7, <1>typed
    <3>2. Unknown(x.by) /\ \A y \in OnTheWire : y.by = x.by => y = x
      BY <3>1, <2>2, <1>types DEF TxBegins
    <3>3. x.by # h
      BY <3>1, <3>2, <1>5
    <3> QED BY <3>1, <3>2, <3>3, <1>8, <1>9 DEF Unknown
  <2> QED BY <2>1, <2>2 DEF TxBegins
<1>17. \A g \in Handles : g # h => Accepted(g)' = Accepted(g)
  BY <1>2, <1>4, <1>6 DEF Accepted
<1>18. /\ Accepted(h)' \subseteq Accepted(h) \union {m.object}
       /\ ~(ok /\ m.op = "put") => Accepted(h)' = Accepted(h)
  BY <1>2, <1>4, <1>6 DEF Accepted
<1>19. \A g \in Handles : txs[g] # None => stored[g] = {} /\ Accepted(g) \subseteq txs[g] /\ txs[g] \subseteq sent[g]
  BY <1>types DEF Holds
<1>20. m.op = "begin" => Accepted(h) = {}
  BY <1>15 DEF Accepted
<1>21. txs'[h] # None => stored'[h] = {} /\ Accepted(h)' \subseteq txs'[h] /\ txs'[h] \subseteq sent[h]
  <2>1. CASE ok /\ m.op = "begin"
    BY <2>1, <1>10, <1>15, <1>18, <1>20 DEF Unknown
  <2>2. CASE ok /\ m.op = "put"
    BY <2>2, <1>5, <1>10, <1>11, <1>18, <1>19
  <2>3. CASE ok /\ m.op \in {"commit", "rollback"}
    BY <2>3, <1>10
  <2>4. CASE ~ok
    BY <2>4, <1>5, <1>10, <1>18, <1>19
  <2> QED BY <2>1, <2>2, <2>3, <2>4, <1>5
<1>22. Holds'
  <2>1. ASSUME NEW g \in Handles, txs'[g] # None
        PROVE  stored'[g] = {} /\ Accepted(g)' \subseteq txs'[g] /\ txs'[g] \subseteq sent'[g]
    <3>1. CASE g = h
      BY <3>1, <2>1, <1>2, <1>21
    <3>2. CASE g # h
      BY <3>2, <2>1, <1>2, <1>9, <1>17, <1>19
    <3> QED BY <3>1, <3>2
  <2> QED BY <2>1 DEF Holds
<1>23. m.op # "begin" => /\ Committed(h) => Committed(h)'
                         /\ Unknown(h) => Unknown(h)'
  <2>1. m.op # "begin" /\ txs[h] = None => txs'[h] = None /\ stored'[h] = stored[h] /\ ~(ok /\ m.op = "put")
    BY <1>5, <1>10
  <2> QED BY <2>1, <1>2, <1>18 DEF Committed, Unknown
<1>24. \A g \in Handles : g # h => (Committed(g) => Committed(g)') /\ (Unknown(g) => Unknown(g)')
  BY <1>2, <1>9, <1>17 DEF Committed, Unknown
<1>25. TxEnds'
  <2>1. ASSUME NEW g \in Handles
        PROVE  /\ told'[g] = "commit" => Committed(g)'
               /\ told'[g] = "rollback" => Unknown(g)'
               /\ g \in finished' => txs'[g] = None
    <3>1. CASE g # h
      BY <3>1, <1>2, <1>9, <1>24, <1>types DEF TxEnds
    <3>2. CASE g = h /\ m.op = "begin"
      BY <3>2, <1>2, <1>15
    <3>3. CASE g = h /\ m.op # "begin"
      BY <3>3, <1>2, <1>5, <1>10, <1>23, <1>types DEF TxEnds
    <3> QED BY <3>1, <3>2, <3>3
  <2> QED BY <2>1 DEF TxEnds
<1>26. Answers'
  <2>1. ASSUME NEW r \in Among(incoming)'
        PROVE  /\ r.to.op = "rollback" => txs'[r.to.by] = None
               /\ r.to.op = "rollback" /\ r.ok => Unknown(r.to.by)'
               /\ r.to.op = "commit" /\ r.ok => Committed(r.to.by)'
               /\ r.to.op = "begin" /\ r.ok /\ up' /\ waiting'[r.to.by] = r.to => txs'[r.to.by] # None
    <3>1. CASE r = a
      <4>1. m.op = "rollback" => txs'[h] = None
        BY <1>5, <1>10
      <4>2. m.op = "rollback" /\ ok => Unknown(h)'
        BY <1>5, <1>10, <1>19 DEF Unknown
      <4>3. m.op = "commit" /\ ok => Committed(h)'
        BY <1>2, <1>5, <1>10, <1>18, <1>19 DEF Committed
      <4>4. m.op = "begin" /\ ok => txs'[h] # None
        BY <1>5, <1>10, NoneIsNoTransaction
      <4> QED BY <3>1, <4>1, <4>2, <4>3, <4>4, <1>4
    <3>2. CASE r # a
      <4>1. r \in Among(incoming) /\ r.to.by \in Handles /\ r.to # None /\ r.to \in OnTheWire
        BY <3>2, <1>6, <1>typed, NoneIsNoTransaction DEF OnTheWire
      <4>2. CASE r.to.by # h
        BY <4>1, <4>2, <1>2, <1>9, <1>24, <1>types DEF Answers
      <4>3. CASE r.to.by = h
        <5>1. m.op # "begin"
          BY <4>1, <4>3, <1>15
        <5>2. r.to.op = "begin" /\ waiting[h] = r.to => FALSE
          <6>1. r.to.op = "begin" /\ waiting[h] = r.to => handle[h] = "begun"
            <7>1. h \in Handles /\ (waiting[h] = r.to => waiting[h] # None)
              BY <4>1, <4>3
            <7>2. waiting[h] # None /\ waiting[h].op = "begin" => handle[h] = "begun"
              BY <7>1, <1>types DEF Stages
            <7> QED BY <7>1, <7>2
          <6>2. handle[h] = "begun" => m.op = "begin"
            BY <1>5, <1>types DEF Sending
          <6> QED BY <6>1, <6>2, <5>1
        <5>3. txs[h] = None => txs'[h] = None
          BY <5>1, <1>5, <1>10
        <5> QED BY <4>1, <4>3, <5>1, <5>2, <5>3, <1>2, <1>23, <1>types DEF Answers
      <4> QED BY <4>2, <4>3
    <3> QED BY <3>1, <3>2
  <2> QED BY <2>1 DEF Answers
<1>27. \A g \in Handles : WillFinish(g) => WillFinish(g)'
  <2>1. ASSUME NEW g \in Handles, WillFinish(g) PROVE WillFinish(g)'
    <3>1. waiting[g] # m /\ waiting[g] \notin Among(outgoing)'
      BY <2>1, <1>7, <1>eff DEF WillFinish
    <3>2. \A r \in Among(incoming)' : r.to = waiting[g] => r \in Among(incoming)
      BY <3>1, <1>4, <1>6
    <3> QED BY <2>1, <3>1, <3>2, <1>2 DEF WillFinish
  <2> QED BY <2>1
<1>28. /\ waiting[h] = m /\ (m.op = "rollback" \/ (m.op = "commit" /\ ok)) => WillFinish(h)'
  <2>1. \A r \in Among(incoming)' : r.to = m => r = a
    BY <1>6, <1>eff, <1>types DEF Sending
  <2> QED BY <2>1, <1>2, <1>4, <1>5, <1>7 DEF WillFinish, Tx!Finishes
<1>29. Asked'
  <2>1. ASSUME NEW g \in Handles, stored'[g] # {}
        PROVE  \/ told'[g] = "commit" \/ <<g, "commit">> \in unsure'
               \/ WillFinish(g)' /\ waiting'[g].op = "commit"
    <3>1. CASE stored[g] # {}
      BY <3>1, <1>2, <1>27, <1>types DEF Asked
    <3>2. CASE stored[g] = {}
      <4>1. g = h /\ ok /\ m.op = "commit"
        BY <3>2, <2>1, <1>5, <1>9, <1>10
      <4>2. waiting[h] = m \/ <<h, "commit">> \in unsure
        BY <4>1, <1>eff, <1>types DEF Sending
      <4> QED BY <4>1, <4>2, <1>2, <1>28
    <3> QED BY <3>1, <3>2
  <2> QED BY <2>1 DEF Asked
<1>30. Retries'
  <2>1. ASSUME NEW g \in Handles, handle'[g] = "open", g \notin finished', up',
               \A x \in unsure' : x[1] # g
        PROVE  txs'[g] # None \/ WillFinish(g)'
    <3>1. txs[g] # None \/ WillFinish(g)
      BY <2>1, <1>2, <1>types DEF Retries
    <3>2. CASE txs[g] # None /\ txs'[g] = None
      <4>1. g = h /\ (m.op = "rollback" \/ (m.op = "commit" /\ ok))
        <5>1. g = h BY <3>2, <1>9
        <5>2. txs[h] # None => txs[h] \union {m.object} # None \/ m.op # "put"
          BY <1>11, NoneIsNoTransaction
        <5>3. {} # None
          BY NoneIsNoTransaction
        <5> QED BY <3>2, <5>1, <5>2, <5>3, <1>5, <1>10
      <4>2. waiting[h] = m \/ <<h, m.op>> \in unsure \/ handle[h] = "dropped"
        BY <4>1, <1>eff, <1>types DEF Sending
      <4>3. <<h, m.op>> \notin unsure
        <5>1. <<h, m.op>>[1] = h OBVIOUS
        <5> QED BY <5>1, <4>1, <2>1, <1>2
      <4>4. handle[h] = "open"
        BY <4>1, <2>1, <1>2
      <4> QED BY <4>1, <4>2, <4>3, <4>4, <1>28
    <3>3. CASE ~(txs[g] # None /\ txs'[g] = None)
      BY <3>1, <3>3, <1>27
    <3> QED BY <3>2, <3>3
  <2> QED BY <2>1 DEF Retries
<1> QED BY <1>12, <1>13, <1>14, <1>16, <1>22, <1>25, <1>26, <1>29, <1>30 DEF TxInv

\* Every step of the transactions keeps the invariant.
LEMMA TxNext ==
  ASSUME TxInv, Tx!Next
  PROVE  TxInv'
<1>1. ASSUME NEW h \in Handles, Tx!Call(h) PROVE TxInv'
  <2>1. CASE Tx!Transaction(h)
    BY <2>1, RequestKeeps DEF Tx!Transaction
  <2>2. CASE Tx!Commit(h)
    BY <2>2, RequestKeeps DEF Tx!Commit
  <2>3. CASE Tx!Rollback(h)
    BY <2>3, RequestKeeps DEF Tx!Rollback
  <2>4. ASSUME NEW o \in Objects, Tx!Put(h, o) PROVE TxInv'
    BY <2>4, RequestKeeps DEF Tx!Put
  <2> QED BY <1>1, <2>1, <2>2, <2>3, <2>4 DEF Tx!Call
<1>2. ASSUME Tx!Answer PROVE TxInv'
  <2>1. outgoing \in Seq(TxMessages) /\ outgoing # <<>>
    BY <1>2 DEF Tx!Answer, TxInv, TxTypes
  <2>2. Head(outgoing) \in TxMessages
    BY ONLY <2>1, AmongTail
  <2>3. PICK m \in TxMessages : m = Head(outgoing)
    BY <2>2
  <2> QED BY <1>2, <2>3, TxAnswerKeeps
<1> QED BY <1>1, <1>2, GiveUpKeeps, DropKeeps, SendRollbackKeeps, DeliverKeeps, LoseKeeps,
           DisconnectKeepsTx DEF Tx!Next

\* ... and so does a step of nothing.
LEMMA TxStutters ==
  ASSUME TxInv, UNCHANGED registers
  PROVE  TxInv'
<1> USE DEF registers
<1>1. /\ Among(outgoing)' = Among(outgoing) /\ Among(incoming)' = Among(incoming)
      /\ OnTheWire' = OnTheWire /\ NoRepeats(outgoing)' = NoRepeats(outgoing)
  BY DEF Among, OnTheWire, NoRepeats
<1>2. \A g : Accepted(g)' = Accepted(g) /\ Unknown(g)' = Unknown(g)
  BY <1>1 DEF Accepted, Unknown
<1>3. \A g : Committed(g)' = Committed(g) /\ WillFinish(g)' = WillFinish(g)
  BY <1>1, <1>2 DEF Committed, WillFinish
<1>4. TxTypes' = TxTypes /\ Stages' = Stages
  BY DEF TxTypes, Stages
<1>5. Sending' = Sending /\ TxBegins' = TxBegins
  BY <1>1, <1>2 DEF Sending, TxBegins
<1>6. Holds' = Holds /\ Answers' = Answers
  BY <1>1, <1>2, <1>3 DEF Holds, Answers
<1>7. TxEnds' = TxEnds /\ Asked' = Asked /\ Retries' = Retries
  BY <1>2, <1>3 DEF TxEnds, Asked, Retries
<1> QED BY <1>4, <1>5, <1>6, <1>7 DEF TxInv

\* The invariant says what TransactionsAreExact does.
LEMMA TxExact == TxInv => Tx!TransactionsAreExact
<1> SUFFICES ASSUME TxInv PROVE Tx!TransactionsAreExact OBVIOUS
<1>types. TxTypes /\ Stages /\ TxEnds /\ Asked /\ Retries
  BY DEF TxInv
<1>1. Tx!ToldIsTrue
  BY <1>types DEF Tx!ToldIsTrue, TxEnds, Committed, Unknown, Accepted
<1>2. Tx!StoredIsAsked
  BY <1>types DEF Tx!StoredIsAsked, Asked, WillFinish
<1>3. Tx!RetryIsPossible
  BY <1>types DEF Tx!RetryIsPossible, Retries, WillFinish
<1>4. Tx!FinishedIsGone
  BY <1>types DEF Tx!FinishedIsGone, TxEnds, TxTypes
<1> QED BY <1>1, <1>2, <1>3, <1>4 DEF Tx!TransactionsAreExact

\* Whatever the numbers of handles, objects and calls, and wherever the
\* connection is lost: a transaction has stored what its caller was told, and
\* a caller that was told of a failure can try again (client.rs).
THEOREM TransactionsHold == MCSpec => []TransactionsAreExact
<1> DEFINE Inv0 == tool = "transaction" => TxInv
<1>1. MCInit => Inv0
  BY TxInit DEF MCInit
<1>2. Inv0 /\ [MCNext]_<<tool, registers, vars>> => Inv0'
  <2> SUFFICES ASSUME Inv0, [MCNext]_<<tool, registers, vars>>, tool' = "transaction"
               PROVE  TxInv'
    OBVIOUS
  <2>1. CASE MCNext
    <3>1. tool = "transaction" /\ Tx!Next
      BY <2>1 DEF MCNext, Others
    <3> QED BY <3>1, TxNext
  <2>2. CASE UNCHANGED <<tool, registers, vars>>
    BY <2>2, TxStutters
  <2> QED BY <2>1, <2>2
<1>3. Inv0 => TransactionsAreExact
  BY TxExact DEF TransactionsAreExact
<1> QED BY <1>1, <1>2, <1>3, PTL DEF MCSpec

-----------------------------------------------------------------------------
(* Calls over a connection.  The variables of RemoteCalls, by their names. *)
call == r1
pending == r2
streams == r3
chan == r4
got == r5
writer == r9
reader == r10
answer == r11

\* The kinds of message that an answer to c is made of.
KindsOf(c) ==
  CASE answer[c] = "reply" -> {"reply"}
    [] answer[c] = "end" -> {"item", "end"}
    [] answer[c] = "error" -> IF c \in StreamIds THEN {"item", "error"} ELSE {"error"}
    [] OTHER -> {}

\* The message at k ends a run of n items of c, and nothing of c is before them.
EndsRun(s, c, k, n) ==
  /\ n \in 0 .. k - 1
  /\ \A i \in 1 .. k - 1 : s[i].id = c <=> i >= k - n
  /\ \A i \in k - n .. k - 1 : s[i].kind = "item"

CallTypes ==
  /\ call \in [CallIds -> {"new", "registered", "waiting"} \union Calls!Ended]
  /\ pending \subseteq CallIds \ StreamIds /\ streams \subseteq StreamIds
  /\ chan \in [CallIds -> Seq(Calls!Messages)]
  /\ got \in [StreamIds -> Nat]
  /\ outgoing \in Seq(CallIds) /\ incoming \in Seq(Calls!Messages)
  /\ answer \in [CallIds -> {"none", "reply", "error", "end"}]
  /\ \A c \in CallIds : answer[c] # IF c \in StreamIds THEN "reply" ELSE "end"

\* What the server has not answered is in its map and has brought nothing.
Unanswered ==
  /\ NoRepeats(outgoing)
  /\ \A c \in Among(outgoing) : answer[c] = "none" /\ call[c] \notin {"new", "registered"}
  /\ \A c \in CallIds :
       /\ call[c] \in {"new", "registered"} => answer[c] = "none"
       /\ answer[c] = "none" =>
            /\ chan[c] = <<>> /\ (c \in StreamIds => got[c] = 0)
            /\ call[c] # "new" => c \in pending \union streams

\* What is under way belongs to the answer of its call.
Answering ==
  /\ \A m \in Among(incoming) : m.kind \in KindsOf(m.id)
  /\ \A c \in CallIds : \A m \in Among(chan[c]) : m.kind \in KindsOf(c) \ {"end"}

\* Whoever waits has its id in the map or what it waits for in its channel.
Waited ==
  \A c \in CallIds : call[c] = "waiting" =>
    IF c \notin StreamIds THEN c \in pending \/ chan[c] # <<>>
    ELSE \/ c \in streams
         \/ \E m \in Among(chan[c]) : m.kind = "error"
         \/ answer[c] = "end" /\ got[c] + Len(chan[c]) = MaxItems

\* The end of a subtree follows the items that its reader has not had.
Whole ==
  \A k \in DOMAIN incoming : incoming[k].kind = "end" =>
    LET c == incoming[k].id IN
    c \in streams /\ EndsRun(incoming, c, k, MaxItems - got[c] - Len(chan[c]))

CallsInv ==
  CallTypes /\ Unanswered /\ Answering /\ Waited /\ Whole /\ (~writer => ~up) /\ Calls!OutcomeIsAnswer

USE DEF call, pending, streams, chan, got, outgoing, incoming, up, writer, reader, answer

\* Nothing is among the empty sequence.
LEMMA AmongNone == Among(<<>>) = {} /\ NoRepeats(<<>>) /\ Len(<<>>) = 0
<1>1. DOMAIN <<>> = {} /\ Len(<<>>) = 0
  OBVIOUS
<1> QED BY <1>1 DEF Among, NoRepeats

\* No calls: the invariant holds.
LEMMA CallsInit == Calls!Init => CallsInv
<1> SUFFICES ASSUME Calls!Init PROVE CallsInv
  OBVIOUS
<1>1. CallTypes
  BY StreamsAreCalls DEF Calls!Init, CallTypes
<1>2. Among(<<>>) = {} /\ NoRepeats(<<>>)
  BY AmongNone
<1>3. /\ outgoing = <<>> /\ incoming = <<>> /\ writer = TRUE
      /\ \A c \in CallIds : call[c] = "new" /\ answer[c] = "none" /\ chan[c] = <<>>
      /\ \A c \in StreamIds : got[c] = 0
  BY DEF Calls!Init
<1>4. Unanswered
  BY <1>2, <1>3 DEF Unanswered
<1>5. Answering
  BY <1>2, <1>3 DEF Answering
<1>6. Waited
  BY <1>3 DEF Waited
<1>7. Whole
  BY <1>3 DEF Whole
<1>8. Calls!OutcomeIsAnswer
  BY <1>3 DEF Calls!OutcomeIsAnswer
<1> QED BY <1>1, <1>3, <1>4, <1>5, <1>6, <1>7, <1>8 DEF CallsInv

\* The steps of a caller.
LEMMA RegisterKeeps ==
  ASSUME CallsInv, NEW c \in CallIds, Calls!Register(c)
  PROVE  CallsInv'
<1>1. /\ call[c] = "new" /\ call' = [call EXCEPT ![c] = "registered"]
      /\ c \in StreamIds => streams' = streams \union {c} /\ pending' = pending
      /\ c \notin StreamIds => pending' = pending \union {c} /\ streams' = streams
      /\ UNCHANGED <<chan, got, outgoing, incoming, up, writer, answer>>
  BY DEF Calls!Register, Calls!queues, Calls!tasks
<1>2. CallTypes'
  BY <1>1 DEF CallsInv, CallTypes
<1>3. \A d \in CallIds : call'[d] = IF d = c THEN "registered" ELSE call[d]
  BY <1>1 DEF CallsInv, CallTypes
<1>4. c \in pending' \union streams' /\ pending \subseteq pending' /\ streams \subseteq streams'
  BY <1>1
<1>5. Unanswered'
  <2>1. c \notin Among(outgoing)
    BY <1>1 DEF CallsInv, Unanswered
  <2>2. Among(outgoing) \subseteq CallIds
    BY AmongTyped DEF CallsInv, CallTypes
  <2>3. \A d \in Among(outgoing) : answer[d] = "none" /\ call'[d] \notin {"new", "registered"}
    BY <1>3, <2>1, <2>2 DEF CallsInv, Unanswered
  <2>4. NoRepeats(outgoing)
    BY DEF CallsInv, Unanswered
  <2>5. ASSUME NEW d \in CallIds
        PROVE  /\ call'[d] \in {"new", "registered"} => answer[d] = "none"
               /\ answer[d] = "none" =>
                    /\ chan[d] = <<>> /\ (d \in StreamIds => got[d] = 0)
                    /\ call'[d] # "new" => d \in pending' \union streams'
    BY <1>1, <1>3, <1>4 DEF CallsInv, Unanswered
  <2> QED BY <1>1, <2>3, <2>4, <2>5 DEF Unanswered
<1>6. Answering'
  BY <1>1 DEF CallsInv, Answering, KindsOf
<1>7. Waited'
  BY <1>1, <1>3, <1>4 DEF CallsInv, Waited
<1>8. Whole'
  BY <1>1, <1>4 DEF CallsInv, Whole
<1>9. Calls!OutcomeIsAnswer'
  BY <1>1, <1>3 DEF CallsInv, Calls!OutcomeIsAnswer
<1> QED BY <1>1, <1>2, <1>5, <1>6, <1>7, <1>8, <1>9 DEF CallsInv

\* A call hands its message to the writer.
LEMMA SendKeeps ==
  ASSUME CallsInv, NEW c \in CallIds, Calls!SendMessage(c)
  PROVE  CallsInv'
<1>1. /\ call[c] = "registered"
      /\ writer => call' = [call EXCEPT ![c] = "waiting"] /\ outgoing' = Append(outgoing, c)
      /\ ~writer => call' = [call EXCEPT ![c] = "failed"] /\ outgoing' = outgoing
      /\ UNCHANGED <<pending, streams, chan, got, incoming, up, writer, answer>>
  BY DEF Calls!SendMessage, Calls!maps, Calls!tasks
<1>2. /\ c \notin Among(outgoing) /\ answer[c] = "none" /\ c \in pending \union streams
      /\ outgoing \in Seq(CallIds) /\ NoRepeats(outgoing)
  BY <1>1 DEF CallsInv, CallTypes, Unanswered
<1>3. /\ outgoing' \in Seq(CallIds) /\ NoRepeats(outgoing')
      /\ Among(outgoing') \subseteq Among(outgoing) \union {c}
  <2>1. /\ Append(outgoing, c) \in Seq(CallIds) /\ NoRepeats(Append(outgoing, c))
        /\ Among(Append(outgoing, c)) = Among(outgoing) \union {c}
    BY <1>2, AmongAppend
  <2>2. CASE writer
    BY <1>1, <2>1, <2>2
  <2>3. CASE ~writer
    BY <1>1, <1>2, <2>3
  <2> QED BY <2>2, <2>3
<1>4. CallTypes'
  BY <1>1, <1>3 DEF CallsInv, CallTypes, Calls!Ended
<1>5. /\ call'[c] = IF writer THEN "waiting" ELSE "failed"
      /\ \A d \in CallIds \ {c} : call'[d] = call[d]
  BY <1>1 DEF CallsInv, CallTypes
<1>6. Unanswered'
  <2>1. Among(outgoing) \subseteq CallIds
    BY <1>2, AmongTyped
  <2>2. \A d \in Among(outgoing') : answer[d] = "none" /\ call'[d] \notin {"new", "registered"}
    BY <1>2, <1>3, <1>5, <2>1 DEF CallsInv, Unanswered
  <2>3. ASSUME NEW d \in CallIds
        PROVE  /\ call'[d] \in {"new", "registered"} => answer[d] = "none"
               /\ answer[d] = "none" =>
                    /\ chan[d] = <<>> /\ (d \in StreamIds => got[d] = 0)
                    /\ call'[d] # "new" => d \in pending \union streams
    BY <1>2, <1>5 DEF CallsInv, Unanswered
  <2> QED BY <1>1, <1>3, <2>2, <2>3 DEF Unanswered
<1>7. Answering'
  BY <1>1 DEF CallsInv, Answering, KindsOf
<1>8. Waited'
  <2>1. IF c \notin StreamIds THEN c \in pending ELSE c \in streams
    BY <1>2 DEF CallsInv, CallTypes
  <2> QED BY <1>1, <1>5, <2>1 DEF CallsInv, Waited
<1>9. Whole'
  BY <1>1 DEF CallsInv, Whole
<1>10. Calls!OutcomeIsAnswer'
  BY <1>1, <1>5 DEF CallsInv, Calls!OutcomeIsAnswer
<1> QED BY <1>1, <1>4, <1>6, <1>7, <1>8, <1>9, <1>10 DEF CallsInv

\* A call sees the connection closed, or is given up.
LEMMA SeeKeeps ==
  ASSUME CallsInv, NEW c \in CallIds, Calls!SeeClosed(c) \/ Calls!GiveUp(c)
  PROVE  CallsInv'
<1>1. /\ call[c] \in {"registered", "waiting"}
      /\ UNCHANGED <<pending, streams, chan, got, outgoing, incoming, up, writer, answer>>
  BY DEF Calls!SeeClosed, Calls!GiveUp, Calls!maps, Calls!queues, Calls!tasks
<1>2. PICK end \in {"ok", "failed", "given up"} :
        /\ call' = [call EXCEPT ![c] = end]
        /\ end # "given up" => /\ call[c] = "waiting" /\ chan[c] = <<>> /\ c \notin pending \union streams
                              /\ end = IF c \in StreamIds THEN "ok" ELSE "failed"
  BY DEF Calls!SeeClosed, Calls!GiveUp
<1>3. call'[c] = end /\ \A d \in CallIds \ {c} : call'[d] = call[d]
  BY <1>2 DEF CallsInv, CallTypes
<1>4. CallTypes'
  BY <1>1, <1>2 DEF CallsInv, CallTypes, Calls!Ended
<1>5. Unanswered'
  <2>1. Among(outgoing) \subseteq CallIds
    BY AmongTyped DEF CallsInv, CallTypes
  <2>2. \A d \in Among(outgoing) : answer[d] = "none" /\ call'[d] \notin {"new", "registered"}
    BY <1>3, <2>1 DEF CallsInv, Unanswered
  <2>3. ASSUME NEW d \in CallIds
        PROVE  /\ call'[d] \in {"new", "registered"} => answer[d] = "none"
               /\ answer[d] = "none" =>
                    /\ chan[d] = <<>> /\ (d \in StreamIds => got[d] = 0)
                    /\ call'[d] # "new" => d \in pending \union streams
    BY <1>1, <1>3 DEF CallsInv, Unanswered
  <2> QED BY <1>1, <2>2, <2>3 DEF CallsInv, Unanswered
<1>6. Answering'
  BY <1>1 DEF CallsInv, Answering, KindsOf
<1>7. Waited'
  BY <1>1, <1>3 DEF CallsInv, Waited
<1>8. Whole'
  BY <1>1 DEF CallsInv, Whole
<1>9. Calls!OutcomeIsAnswer'
  <2>1. ASSUME end # "given up" PROVE end = "ok" /\ c \in StreamIds /\ answer[c] = "end" /\ got[c] = MaxItems
    <3>1. call[c] = "waiting" /\ chan[c] = <<>> /\ c \notin pending /\ c \notin streams
      BY <1>2, <2>1
    <3>2. Among(chan[c]) = {} /\ Len(chan[c]) = 0
      BY <3>1, AmongNone
    <3>3. c \in StreamIds
      BY <3>1 DEF CallsInv, Waited
    <3>4. answer[c] = "end" /\ got[c] + Len(chan[c]) = MaxItems
      BY <3>1, <3>2, <3>3 DEF CallsInv, Waited
    <3>5. got[c] \in Nat
      BY <3>3 DEF CallsInv, CallTypes
    <3> QED BY <1>2, <2>1, <3>2, <3>3, <3>4, <3>5
  <2> QED BY <1>1, <1>2, <1>3, <2>1 DEF CallsInv, Calls!OutcomeIsAnswer
<1> QED BY <1>1, <1>4, <1>5, <1>6, <1>7, <1>8, <1>9 DEF CallsInv

\* A call takes what its channel holds.
LEMMA TakeKeeps ==
  ASSUME CallsInv, NEW c \in CallIds, Calls!TakeMessage(c)
  PROVE  CallsInv'
<1>1. /\ call[c] = "waiting" /\ chan[c] # <<>> /\ chan' = [chan EXCEPT ![c] = Tail(@)]
      /\ UNCHANGED <<pending, streams, outgoing, incoming, up, writer, answer>>
  BY DEF Calls!TakeMessage, Calls!maps, Calls!queues, Calls!tasks
<1>2. chan[c] \in Seq(Calls!Messages)
  BY DEF CallsInv, CallTypes
<1>3. /\ Tail(chan[c]) \in Seq(Calls!Messages) /\ Head(chan[c]) \in Calls!Messages
      /\ Among(chan[c]) = {Head(chan[c])} \union Among(Tail(chan[c]))
  BY <1>1, <1>2, AmongTail
<1>4. Len(chan[c]) \in Nat \ {0} /\ Len(Tail(chan[c])) = Len(chan[c]) - 1
  BY <1>1, <1>2, EmptySeq, HeadTailProperties
<1>5. PICK m \in Calls!Messages : m = Head(chan[c])
  BY <1>3
<1>6. m.kind \in KindsOf(c) \ {"end"}
  BY <1>3, <1>5 DEF CallsInv, Answering
<1>7. /\ m.kind = "item" => call' = call /\ got' = [got EXCEPT ![c] = @ + 1]
      /\ m.kind = "error" => call' = [call EXCEPT ![c] = "failed"] /\ got' = got
      /\ m.kind = "reply" => call' = [call EXCEPT ![c] = "ok"] /\ got' = got
  BY <1>5 DEF Calls!TakeMessage
<1>8. /\ m.kind = "item" => c \in StreamIds /\ answer[c] \in {"end", "error"}
      /\ m.kind = "error" => answer[c] = "error"
      /\ m.kind = "reply" => answer[c] = "reply" /\ c \notin StreamIds
      /\ m.kind \in {"item", "error", "reply"} /\ answer[c] # "none"
  BY <1>6, StreamsAreCalls DEF KindsOf, CallsInv, CallTypes
<1>9. /\ \A d \in CallIds \ {c} : call'[d] = call[d] /\ chan'[d] = chan[d]
      /\ \A d \in StreamIds \ {c} : got'[d] = got[d]
      /\ chan'[c] = Tail(chan[c])
      /\ m.kind = "item" => call'[c] = "waiting" /\ got'[c] = got[c] + 1
      /\ m.kind = "error" => call'[c] = "failed"
      /\ m.kind = "reply" => call'[c] = "ok"
  BY <1>1, <1>7, <1>8 DEF CallsInv, CallTypes
<1>10. CallTypes'
  <2>1. /\ call' \in [CallIds -> {"new", "registered", "waiting"} \union Calls!Ended]
        /\ got' \in [StreamIds -> Nat]
    <3>1. /\ call \in [CallIds -> {"new", "registered", "waiting"} \union Calls!Ended]
          /\ got \in [StreamIds -> Nat]
      BY DEF CallsInv, CallTypes
    <3>2. CASE m.kind = "item"
      BY <1>7, <3>1, <3>2
    <3>3. CASE m.kind = "error"
      BY <1>7, <3>1, <3>3 DEF Calls!Ended
    <3>4. CASE m.kind = "reply"
      BY <1>7, <3>1, <3>4 DEF Calls!Ended
    <3> QED BY <1>8, <3>2, <3>3, <3>4
  <2>2. chan' \in [CallIds -> Seq(Calls!Messages)]
    BY <1>1, <1>3 DEF CallsInv, CallTypes
  <2> QED BY <1>1, <2>1, <2>2 DEF CallsInv, CallTypes
<1>11. Unanswered'
  <2>1. Among(outgoing) \subseteq CallIds \ {c}
    <3>1. Among(outgoing) \subseteq CallIds
      BY AmongTyped DEF CallsInv, CallTypes
    <3> QED BY <1>8, <3>1 DEF CallsInv, Unanswered
  <2>2. \A d \in Among(outgoing) : answer[d] = "none" /\ call'[d] \notin {"new", "registered"}
    BY <1>9, <2>1 DEF CallsInv, Unanswered
  <2>3. ASSUME NEW d \in CallIds
        PROVE  /\ call'[d] \in {"new", "registered"} => answer[d] = "none"
               /\ answer[d] = "none" =>
                    /\ chan'[d] = <<>> /\ (d \in StreamIds => got'[d] = 0)
                    /\ call'[d] # "new" => d \in pending \union streams
    BY <1>8, <1>9 DEF CallsInv, Unanswered
  <2> QED BY <1>1, <2>2, <2>3 DEF CallsInv, Unanswered
<1>12. \A d : KindsOf(d)' = KindsOf(d)
  BY <1>1 DEF KindsOf
<1>13. Answering'
  <2>1. \A d \in CallIds : Among(chan'[d]) \subseteq Among(chan[d])
    BY <1>3, <1>9
  <2> QED BY <1>1, <1>12, <2>1 DEF CallsInv, Answering
<1>14. Waited'
  <2>1. ASSUME call'[c] = "waiting"
        PROVE  /\ c \in StreamIds
               /\ \/ c \in streams
                  \/ \E n \in Among(chan'[c]) : n.kind = "error"
                  \/ answer[c] = "end" /\ got'[c] + Len(chan'[c]) = MaxItems
    <3>1. m.kind = "item" /\ c \in StreamIds
      BY <1>8, <1>9, <2>1
    <3>2. \/ c \in streams
          \/ \E n \in Among(chan[c]) : n.kind = "error"
          \/ answer[c] = "end" /\ got[c] + Len(chan[c]) = MaxItems
      BY <1>1, <3>1 DEF CallsInv, Waited
    <3>3. got[c] \in Nat
      BY <3>1 DEF CallsInv, CallTypes
    <3>4. got'[c] + Len(chan'[c]) = got[c] + Len(chan[c])
      BY <1>4, <1>9, <3>1, <3>3
    <3>5. ASSUME NEW n \in Among(chan[c]), n.kind = "error" PROVE n \in Among(chan'[c])
      BY <1>3, <1>5, <1>9, <3>1, <3>5
    <3> QED BY <3>1, <3>2, <3>4, <3>5
  <2>2. \A d \in CallIds \ {c} : call'[d] = call[d] /\ chan'[d] = chan[d]
    BY <1>9
  <2>3. \A d \in StreamIds \ {c} : got'[d] = got[d]
    BY <1>9
  <2> QED BY <1>1, <2>1, <2>2, <2>3 DEF CallsInv, Waited
<1>15. Whole'
  <2> SUFFICES ASSUME NEW k \in DOMAIN incoming, incoming[k].kind = "end", NEW d, d = incoming[k].id
               PROVE  d \in streams /\ EndsRun(incoming, d, k, MaxItems - got'[d] - Len(chan'[d]))
    BY <1>1 DEF Whole
  <2>1. d \in streams /\ EndsRun(incoming, d, k, MaxItems - got[d] - Len(chan[d]))
    BY DEF CallsInv, Whole
  <2>2. d \in StreamIds /\ d \in CallIds
    BY <2>1, StreamsAreCalls DEF CallsInv, CallTypes
  <2>3. CASE d # c
    BY <1>9, <2>1, <2>2, <2>3
  <2>4. CASE d = c
    <3>1. incoming[k] \in Among(incoming)
      BY DEF Among
    <3>2. "end" \in KindsOf(c)
      BY <2>4, <3>1 DEF CallsInv, Answering
    <3>3. answer[c] = "end"
      BY <3>2 DEF KindsOf
    <3>4. m.kind = "item"
      BY <1>8, <3>3
    <3>5. got[c] \in Nat
      BY <2>2, <2>4 DEF CallsInv, CallTypes
    <3>6. MaxItems - got'[c] - Len(chan'[c]) = MaxItems - got[c] - Len(chan[c])
      <4>1. PICK g \in Nat, l \in Nat : g = got[c] /\ l = Len(chan[c])
        BY <1>4, <3>5
      <4>2. got'[c] = g + 1 /\ Len(chan'[c]) = l - 1
        BY <1>4, <1>9, <3>4, <4>1
      <4>3. MaxItems - (g + 1) - (l - 1) = MaxItems - g - l
        BY StreamsAreCalls
      <4> QED BY ONLY <4>1, <4>2, <4>3
    <3> QED BY <2>1, <2>4, <3>6
  <2> QED BY <2>3, <2>4
<1>16. Calls!OutcomeIsAnswer'
  <2>1. /\ call'[c] = "ok" => c \notin StreamIds /\ answer[c] = "reply"
        /\ call'[c] = "failed" => answer[c] = "error"
    BY <1>8, <1>9
  <2> QED BY <1>1, <1>9, <2>1 DEF CallsInv, Calls!OutcomeIsAnswer
<1> QED BY <1>1, <1>10, <1>11, <1>13, <1>14, <1>15, <1>16 DEF CallsInv

\* What is taken off the front of a channel leaves the rest one place on.
LEMMA RunMovesUp ==
  ASSUME NEW S, NEW s \in Seq(S), s # <<>>, NEW c, NEW k \in 2 .. Len(s), NEW n, EndsRun(s, c, k, n)
  PROVE  /\ Head(s).id # c => EndsRun(Tail(s), c, k - 1, n)
         /\ Head(s).id = c => EndsRun(Tail(s), c, k - 1, n - 1) /\ Head(s).kind = "item"
<1> DEFINE t == Tail(s)
<1>1. /\ Head(s) = s[1] /\ t \in Seq(S) /\ Len(t) = Len(s) - 1 /\ Len(s) \in Nat
      /\ \A i \in 1 .. Len(t) : t[i] = s[i + 1]
  BY HeadTailProperties
<1>2. /\ n \in 0 .. k - 1 /\ \A i \in 1 .. k - 1 : s[i].id = c <=> i >= k - n
      /\ \A i \in k - n .. k - 1 : s[i].kind = "item"
  BY DEF EndsRun
<1> HIDE DEF t
<1>3. \A i \in 1 .. k - 2 : t[i] = s[i + 1] /\ i + 1 \in 1 .. k - 1
  BY <1>1
<1>4. 1 \in 1 .. k - 1
  OBVIOUS
<1>5. CASE s[1].id # c
  <2>1. ~(1 >= k - n)
    BY <1>2, <1>4, <1>5
  <2>2. n \in 0 .. k - 2
    BY <1>2, <2>1
  <2>3. ASSUME NEW i \in 1 .. k - 2 PROVE t[i].id = c <=> i >= k - 1 - n
    <3>1. s[i + 1].id = c <=> i + 1 >= k - n
      BY <1>2, <1>3
    <3> QED BY <1>2, <1>3, <3>1
  <2>4. ASSUME NEW i \in k - 1 - n .. k - 2 PROVE t[i].kind = "item"
    <3>1. i \in 1 .. k - 2 /\ i + 1 \in k - n .. k - 1
      BY <2>1, <2>2
    <3> QED BY <1>2, <1>3, <3>1
  <2>5. EndsRun(t, c, k - 1, n)
    BY <2>2, <2>3, <2>4 DEF EndsRun
  <2> QED BY <1>1, <1>5, <2>5 DEF t
<1>6. CASE s[1].id = c
  <2>1. 1 >= k - n
    BY <1>2, <1>4, <1>6
  <2>2. n = k - 1
    BY <1>2, <2>1
  <2>3. ASSUME NEW i \in 1 .. k - 2 PROVE t[i].id = c /\ t[i].kind = "item"
    <3>1. i + 1 \in k - n .. k - 1 /\ i + 1 >= k - n
      BY <2>2
    <3> QED BY <1>2, <1>3, <3>1
  <2>4. EndsRun(t, c, k - 1, n - 1)
    BY <2>2, <2>3 DEF EndsRun
  <2>5. s[1].kind = "item"
    BY <1>2, <2>2
  <2> QED BY <1>1, <1>6, <2>4, <2>5 DEF t
<1> QED BY <1>5, <1>6

\* The reader task hands a message to whom it is for.
LEMMA DispatchKeeps ==
  ASSUME CallsInv, Calls!Dispatch
  PROVE  CallsInv'
<1>1. /\ incoming # <<>> /\ incoming' = Tail(incoming)
      /\ UNCHANGED <<call, got, outgoing, up, writer, answer>>
  BY DEF Calls!Dispatch, Calls!tasks
<1>2. incoming \in Seq(Calls!Messages)
  BY DEF CallsInv, CallTypes
<1>3. /\ Tail(incoming) \in Seq(Calls!Messages) /\ Head(incoming) \in Calls!Messages
      /\ Among(incoming) = {Head(incoming)} \union Among(Tail(incoming))
  BY <1>1, <1>2, AmongTail
<1>4. PICK m \in Calls!Messages : m = Head(incoming)
  BY <1>3
<1>5. PICK c \in CallIds : c = m.id
  BY DEF Calls!Messages
<1>6. m.kind \in KindsOf(c) /\ m \in Among(incoming)
  BY <1>3, <1>4, <1>5 DEF CallsInv, Answering
<1>7. /\ answer[c] # "none"
      /\ m.kind = "end" => answer[c] = "end" /\ c \in StreamIds
      /\ m.kind = "error" => answer[c] = "error"
  BY <1>6 DEF KindsOf, CallsInv, CallTypes
<1> DEFINE handed == (c \in streams /\ m.kind \in {"item", "error"}) \/ c \in pending
<1>8. /\ streams' = IF c \in streams /\ m.kind \in {"end", "error"} THEN streams \ {c} ELSE streams
      /\ pending' = IF c \in streams THEN pending ELSE pending \ {c}
      /\ chan' = IF handed THEN [chan EXCEPT ![c] = Append(@, m)] ELSE chan
  <2>0. c \in streams => c \notin pending
    BY DEF CallsInv, CallTypes
  <2>1. CASE c \in streams
    BY <1>4, <1>5, <2>0, <2>1 DEF Calls!Dispatch, Calls!HandTo
  <2>2. CASE c \notin streams
    BY <1>4, <1>5, <2>2 DEF Calls!Dispatch, Calls!HandTo
  <2> QED BY <2>1, <2>2
<1>9. chan[c] \in Seq(Calls!Messages) /\ chan \in [CallIds -> Seq(Calls!Messages)]
  BY DEF CallsInv, CallTypes
<1>10. /\ Append(chan[c], m) \in Seq(Calls!Messages)
       /\ Among(Append(chan[c], m)) = Among(chan[c]) \union {m}
  BY <1>9, AmongAppend
<1>11. /\ Append(chan[c], m) # <<>> /\ Len(Append(chan[c], m)) = Len(chan[c]) + 1
       /\ Len(chan[c]) \in Nat
  BY <1>9
<1>12. /\ chan' \in [CallIds -> Seq(Calls!Messages)] /\ \A d \in CallIds \ {c} : chan'[d] = chan[d]
       /\ handed => chan'[c] = Append(chan[c], m)
       /\ ~handed => chan'[c] = chan[c]
  BY <1>8, <1>9, <1>10
<1>13. c \in pending => c \notin StreamIds
  BY DEF CallsInv, CallTypes
<1>14. CallTypes'
  BY <1>1, <1>3, <1>8, <1>12 DEF CallsInv, CallTypes
<1>15. \A d \in CallIds \ {c} : /\ d \in streams' <=> d \in streams
                                /\ d \in pending' <=> d \in pending
  BY <1>8
<1> HIDE DEF handed
<1>16. Unanswered'
  <2>1. ASSUME NEW d \in CallIds
        PROVE  answer[d] = "none" =>
                    /\ chan'[d] = <<>> /\ (d \in StreamIds => got[d] = 0)
                    /\ call[d] # "new" => d \in pending' \union streams'
    BY <1>7, <1>12, <1>15 DEF CallsInv, Unanswered
  <2> QED BY <1>1, <2>1 DEF CallsInv, Unanswered
<1>17. \A d : KindsOf(d)' = KindsOf(d)
  BY <1>1 DEF KindsOf
<1>18. Answering'
  <2>1. \A n \in Among(incoming') : n.kind \in KindsOf(n.id)
    BY <1>1, <1>3 DEF CallsInv, Answering
  <2>2. ASSUME NEW d \in CallIds, NEW n \in Among(chan'[d]) PROVE n.kind \in KindsOf(d) \ {"end"}
    <3>1. CASE n \in Among(chan[d])
      BY <3>1 DEF CallsInv, Answering
    <3>2. CASE n \notin Among(chan[d])
      <4>1. d = c /\ n = m /\ handed
        BY <1>10, <1>12, <2>2, <3>2
      <4>2. m.kind # "end"
        BY <1>7, <1>13, <4>1 DEF handed
      <4> QED BY <1>6, <4>1, <4>2
    <3> QED BY <3>1, <3>2
  <2> QED BY <1>17, <2>1, <2>2 DEF Answering
\* Whoever reads the end of its subtree has had all its items.
<1>19. ASSUME m.kind = "end"
       PROVE  c \in streams /\ c \in StreamIds /\ got[c] + Len(chan[c]) = MaxItems
              /\ \A k \in DOMAIN incoming : incoming[k].kind = "end" /\ incoming[k].id = c => k = 1
  <2>1. incoming[1] = m /\ DOMAIN incoming = 1 .. Len(incoming) /\ 1 \in DOMAIN incoming /\ Len(incoming) \in Nat
    BY <1>1, <1>2, <1>4, EmptySeq, HeadTailProperties
  <2>2. c \in streams /\ EndsRun(incoming, c, 1, MaxItems - got[c] - Len(chan[c]))
    BY <1>5, <1>19, <2>1 DEF CallsInv, Whole
  <2>3. c \in StreamIds
    BY <2>2 DEF CallsInv, CallTypes
  <2>4. PICK g \in Nat, l \in Nat : g = got[c] /\ l = Len(chan[c])
    BY <1>11, <2>3 DEF CallsInv, CallTypes
  <2>5. MaxItems - g - l \in 0 .. 1 - 1
    BY <2>2, <2>4 DEF EndsRun
  <2>6. g + l = MaxItems
    BY <2>5, StreamsAreCalls
  <2>7. ASSUME NEW k \in DOMAIN incoming, incoming[k].kind = "end", incoming[k].id = c, k # 1 PROVE FALSE
    <3>1. EndsRun(incoming, c, k, MaxItems - got[c] - Len(chan[c]))
      BY <2>7 DEF CallsInv, Whole
    <3>2. MaxItems - got[c] - Len(chan[c]) = 0
      BY <2>4, <2>6, StreamsAreCalls
    <3>3. k \in Nat /\ 1 \in 1 .. k - 1 /\ ~(1 >= k - 0)
      BY <2>1, <2>7
    <3> QED BY <1>5, <2>1, <3>1, <3>2, <3>3 DEF EndsRun
  <2> QED BY <2>2, <2>3, <2>4, <2>6, <2>7
<1>20. Waited'
  <2> SUFFICES ASSUME NEW d \in CallIds, call[d] = "waiting"
               PROVE  IF d \notin StreamIds THEN d \in pending' \/ chan'[d] # <<>>
                      ELSE \/ d \in streams'
                           \/ \E n \in Among(chan'[d]) : n.kind = "error"
                           \/ answer[d] = "end" /\ got[d] + Len(chan'[d]) = MaxItems
    BY <1>1 DEF Waited
  <2>1. IF d \notin StreamIds THEN d \in pending \/ chan[d] # <<>>
        ELSE \/ d \in streams
             \/ \E n \in Among(chan[d]) : n.kind = "error"
             \/ answer[d] = "end" /\ got[d] + Len(chan[d]) = MaxItems
    BY DEF CallsInv, Waited
  <2>2. CASE d # c
    BY <1>12, <1>15, <2>1, <2>2
  <2>3. CASE d = c /\ c \notin StreamIds
    <3>1. c \notin streams
      BY <2>3 DEF CallsInv, CallTypes
    <3>2. CASE handed
      BY <1>11, <1>12, <2>3, <3>2
    <3>3. CASE ~handed
      BY <1>12, <2>1, <2>3, <3>1, <3>3 DEF handed
    <3> QED BY <3>2, <3>3
  <2>4. CASE d = c /\ c \in StreamIds
    <3>1. CASE c \in streams'
      BY <2>4, <3>1
    <3>2. CASE c \notin streams' /\ c \in streams /\ m.kind = "error"
      <4>1. handed
        BY <3>2 DEF handed
      <4> QED BY <1>10, <1>12, <2>4, <3>2, <4>1
    <3>3. CASE c \notin streams' /\ c \in streams /\ m.kind # "error"
      <4>1. m.kind = "end"
        BY <1>8, <3>3
      <4>2. ~handed
        BY <1>13, <2>4, <4>1 DEF handed
      <4> QED BY <1>7, <1>12, <1>19, <2>4, <4>1, <4>2
    <3>4. CASE c \notin streams
      <4>1. ~handed
        BY <1>13, <2>4, <3>4 DEF handed
      <4> QED BY <1>12, <2>1, <2>4, <3>4, <4>1
    <3> QED BY <3>1, <3>2, <3>3, <3>4
  <2> QED BY <2>2, <2>3, <2>4
<1>21. Whole'
  <2> SUFFICES ASSUME NEW i \in DOMAIN incoming', incoming'[i].kind = "end", NEW d, d = incoming'[i].id
               PROVE  d \in streams' /\ EndsRun(incoming', d, i, MaxItems - got[d] - Len(chan'[d]))
    BY <1>1 DEF Whole
  <2>1. /\ i \in Nat /\ i + 1 \in 2 .. Len(incoming) /\ i + 1 \in DOMAIN incoming
        /\ incoming[i + 1] = incoming'[i] /\ Len(incoming) \in Nat
    BY <1>1, <1>2, HeadTailProperties, EmptySeq
  <2>2. PICK k \in 2 .. Len(incoming) : k = i + 1
    BY <2>1
  <2>3. k - 1 = i /\ incoming[k].kind = "end" /\ incoming[k].id = d /\ k \in DOMAIN incoming /\ k # 1
    BY <2>1, <2>2
  <2>4. PICK n : n = MaxItems - got[d] - Len(chan[d])
    OBVIOUS
  <2>5. d \in streams /\ EndsRun(incoming, d, k, n)
    BY <2>3, <2>4 DEF CallsInv, Whole
  <2>6. /\ m.id # d => EndsRun(incoming', d, k - 1, n)
        /\ m.id = d => EndsRun(incoming', d, k - 1, n - 1) /\ m.kind = "item"
    BY <1>1, <1>2, <1>4, <2>5, RunMovesUp
  <2>7. d \in StreamIds /\ d \in CallIds
    BY <2>5, StreamsAreCalls DEF CallsInv, CallTypes
  <2>8. CASE d # c
    BY <1>5, <1>12, <1>15, <2>3, <2>4, <2>5, <2>6, <2>7, <2>8
  <2>9. CASE d = c
    <3>1. m.kind = "item" /\ EndsRun(incoming', d, i, n - 1)
      BY <1>5, <2>3, <2>6, <2>9
    <3>2. handed /\ c \in streams'
      BY <1>8, <2>5, <2>9, <3>1 DEF handed
    <3>3. PICK g \in Nat, l \in Nat : g = got[d] /\ l = Len(chan[d])
      BY <1>11, <2>7, <2>9 DEF CallsInv, CallTypes
    <3>4. Len(chan'[d]) = l + 1
      BY <1>11, <1>12, <2>9, <3>2, <3>3
    <3>5. MaxItems - g - (l + 1) = MaxItems - g - l - 1
      BY StreamsAreCalls
    <3>6. MaxItems - got[d] - Len(chan'[d]) = n - 1
      BY ONLY <2>4, <3>3, <3>4, <3>5
    <3> QED BY <2>9, <3>1, <3>2, <3>6
  <2> QED BY <2>8, <2>9
<1>22. Calls!OutcomeIsAnswer'
  BY <1>1 DEF CallsInv, Calls!OutcomeIsAnswer
<1> QED BY <1>1, <1>14, <1>16, <1>18, <1>20, <1>21, <1>22 DEF CallsInv

\* What is left of a sequence after its first n.
LEMMA AmongSuffix ==
  ASSUME NEW S, NEW s \in Seq(S), NEW n \in 0 .. Len(s)
  PROVE  /\ SubSeq(s, n + 1, Len(s)) \in Seq(S)
         /\ Among(SubSeq(s, n + 1, Len(s))) \subseteq Among(s)
         /\ NoRepeats(s) => NoRepeats(SubSeq(s, n + 1, Len(s)))
<1> DEFINE t == SubSeq(s, n + 1, Len(s))
<1>1. Len(s) \in Nat /\ DOMAIN s = 1 .. Len(s) /\ \A i \in n + 1 .. Len(s) : s[i] \in S
  BY ElementOfSeq
<1>2. /\ t \in Seq(S) /\ Len(t) = (IF n + 1 <= Len(s) THEN Len(s) - (n + 1) + 1 ELSE 0)
      /\ \A i \in 1 .. Len(s) - (n + 1) + 1 : t[i] = s[n + 1 + i - 1]
  BY <1>1, SubSeqProperties
<1> HIDE DEF t
<1>3. DOMAIN t = 1 .. Len(s) - n /\ \A i \in DOMAIN t : i \in Int /\ i + n \in DOMAIN s /\ t[i] = s[i + n]
  <2> DEFINE l == Len(s)
  <2>1. l \in Nat /\ n \in 0 .. l /\ Len(t) = IF n + 1 <= l THEN l - (n + 1) + 1 ELSE 0
    BY <1>1, <1>2
  <2> HIDE DEF l
  <2>2. (IF n + 1 <= l THEN l - (n + 1) + 1 ELSE 0) = l - n /\ l - (n + 1) + 1 = l - n
    BY ONLY <2>1
  <2>3. Len(t) = Len(s) - n /\ Len(s) - (n + 1) + 1 = Len(s) - n
    BY <2>1, <2>2 DEF l
  <2>4. \A i \in 1 .. Len(s) - n : n + 1 + i - 1 = i + n /\ i + n \in DOMAIN s
    BY <1>1
  <2>5. DOMAIN t = 1 .. Len(t)
    BY <1>2
  <2> QED BY <1>2, <2>3, <2>4, <2>5
<1>4. Among(t) \subseteq Among(s)
  BY <1>3 DEF Among
<1>5. ASSUME NoRepeats(s) PROVE NoRepeats(t)
  <2>1. ASSUME NEW i \in DOMAIN t, NEW j \in DOMAIN t, t[i] = t[j] PROVE i = j
    <3>1. i + n = j + n
      BY <1>3, <1>5, <2>1 DEF NoRepeats
    <3> QED BY <1>3, <3>1
  <2> QED BY <2>1 DEF NoRepeats
<1> QED BY <1>2, <1>4, <1>5 DEF t

\* Less is under way, and what ends a subtree still follows it.
LEMMA LossKeeps ==
  ASSUME CallsInv, Calls!LoseConnection \/ Calls!WriteAfterLoss \/ Calls!ReaderStops
  PROVE  CallsInv'
<1>1. /\ UNCHANGED <<call, pending, streams, chan, got, answer>>
      /\ up' => up /\ (~writer' => ~up')
  BY DEF CallsInv, Calls!LoseConnection, Calls!WriteAfterLoss, Calls!ReaderStops, Calls!maps, Calls!queues
<1>2. /\ outgoing' \in Seq(CallIds) /\ Among(outgoing') \subseteq Among(outgoing) /\ NoRepeats(outgoing')
  <2>1. outgoing \in Seq(CallIds) /\ NoRepeats(outgoing)
    BY DEF CallsInv, CallTypes, Unanswered
  <2>2. CASE Calls!LoseConnection
    <3>1. PICK n \in 0 .. Len(outgoing) : outgoing' = SubSeq(outgoing, n + 1, Len(outgoing))
      BY <2>2 DEF Calls!LoseConnection
    <3> QED BY <2>1, <3>1, AmongSuffix
  <2>3. CASE outgoing # <<>> /\ outgoing' = Tail(outgoing)
    <3>1. Tail(outgoing) \in Seq(CallIds) /\ Among(outgoing) = {Head(outgoing)} \union Among(Tail(outgoing))
          /\ NoRepeats(Tail(outgoing))
      BY <2>1, <2>3, AmongTail
    <3> QED BY <2>3, <3>1
  <2>4. CASE outgoing' = <<>>
    BY <2>4, AmongNone
  <2>5. CASE outgoing' = outgoing
    BY <2>1, <2>5
  <2> QED BY <2>2, <2>3, <2>4, <2>5 DEF Calls!WriteAfterLoss, Calls!ReaderStops, Calls!queues
<1>3. PICK n \in 0 .. Len(incoming) :
        /\ incoming' \in Seq(Calls!Messages) /\ Len(incoming') = n
        /\ \A i \in 1 .. n : incoming'[i] = incoming[i]
  <2>1. incoming \in Seq(Calls!Messages)
    BY DEF CallsInv, CallTypes
  <2>2. CASE Calls!LoseConnection
    <3>1. PICK n \in 0 .. Len(incoming) : incoming' = SubSeq(incoming, 1, n)
      BY <2>2 DEF Calls!LoseConnection
    <3>2. 1 \in Int /\ n \in Int /\ \A i \in 1 .. n : incoming[i] \in Calls!Messages
      BY <2>1, ElementOfSeq
    <3>3. /\ SubSeq(incoming, 1, n) \in Seq(Calls!Messages)
          /\ Len(SubSeq(incoming, 1, n)) = (IF 1 <= n THEN n - 1 + 1 ELSE 0)
          /\ \A i \in 1 .. n - 1 + 1 : SubSeq(incoming, 1, n)[i] = incoming[1 + i - 1]
      BY <3>2, SubSeqProperties
    <3>4. n - 1 + 1 = n /\ (IF 1 <= n THEN n - 1 + 1 ELSE 0) = n /\ \A i \in 1 .. n : 1 + i - 1 = i
      OBVIOUS
    <3> QED BY <3>1, <3>3, <3>4
  <2>3. CASE incoming' = incoming
    BY <2>1, <2>3
  <2> QED BY <2>2, <2>3 DEF Calls!WriteAfterLoss, Calls!ReaderStops, Calls!queues
<1>4. DOMAIN incoming' = 1 .. n /\ DOMAIN incoming = 1 .. Len(incoming) /\ Len(incoming) \in Nat
  BY <1>3 DEF CallsInv, CallTypes
<1>5. CallTypes'
  BY <1>1, <1>2, <1>3 DEF CallsInv, CallTypes
<1>6. Unanswered'
  BY <1>1, <1>2 DEF CallsInv, Unanswered
<1>7. Answering'
  <2>1. Among(incoming') \subseteq Among(incoming)
    BY <1>3, <1>4 DEF Among
  <2>2. \A d : KindsOf(d)' = KindsOf(d)
    BY <1>1 DEF KindsOf
  <2> QED BY <1>1, <2>1, <2>2 DEF CallsInv, Answering
<1>8. Waited'
  BY <1>1 DEF CallsInv, Waited
<1>9. Whole'
  <2> SUFFICES ASSUME NEW k \in DOMAIN incoming', incoming'[k].kind = "end", NEW c, c = incoming'[k].id
               PROVE  c \in streams /\ EndsRun(incoming', c, k, MaxItems - got[c] - Len(chan[c]))
    BY <1>1 DEF Whole
  <2>1. k \in 1 .. n /\ k \in DOMAIN incoming /\ incoming[k] = incoming'[k]
    BY <1>3, <1>4
  <2>2. c \in streams /\ EndsRun(incoming, c, k, MaxItems - got[c] - Len(chan[c]))
    BY <2>1 DEF CallsInv, Whole
  <2>3. ASSUME NEW x, EndsRun(incoming, c, k, x) PROVE EndsRun(incoming', c, k, x)
    <3>1. \A i \in 1 .. k - 1 : incoming'[i] = incoming[i]
      BY <1>3, <2>1
    <3>2. x \in 0 .. k - 1 /\ \A i \in k - x .. k - 1 : i \in 1 .. k - 1
      BY <2>1, <2>3 DEF EndsRun
    <3> QED BY <2>3, <3>1, <3>2 DEF EndsRun
  <2> QED BY <2>2, <2>3
<1>10. Calls!OutcomeIsAnswer'
  BY <1>1 DEF CallsInv, Calls!OutcomeIsAnswer
<1> QED BY <1>1, <1>5, <1>6, <1>7, <1>8, <1>9, <1>10 DEF CallsInv

\* The items of a subtree are as many as they should be, all of one call.
LEMMA ItemsAre ==
  ASSUME NEW c \in CallIds, NEW n \in Nat
  PROVE  /\ Calls!Items(c, n) \in Seq(Calls!Messages) /\ Len(Calls!Items(c, n)) = n
         /\ \A i \in 1 .. n : Calls!Items(c, n)[i] = Calls!Message(c, "item")
<1>1. Calls!Message(c, "item") \in Calls!Messages
  BY DEF Calls!Message, Calls!Messages
<1> QED BY <1>1 DEF Calls!Items

\* The server answers what it read.
LEMMA AnswerKeeps ==
  ASSUME CallsInv, Calls!ServerAnswers
  PROVE  CallsInv'
<1>1. /\ outgoing # <<>> /\ outgoing' = Tail(outgoing)
      /\ UNCHANGED <<call, pending, streams, chan, got, up, writer>>
  BY DEF Calls!ServerAnswers, Calls!maps, Calls!tasks
<1>2. outgoing \in Seq(CallIds) /\ NoRepeats(outgoing) /\ incoming \in Seq(Calls!Messages)
  BY DEF CallsInv, CallTypes, Unanswered
<1>3. PICK c \in CallIds : c = Head(outgoing)
  BY <1>1, <1>2, AmongTail
<1>4. /\ outgoing' \in Seq(CallIds) /\ NoRepeats(outgoing') /\ c \notin Among(outgoing')
      /\ Among(outgoing) = {c} \union Among(outgoing')
  BY <1>1, <1>2, <1>3, AmongTail
<1>5. /\ answer[c] = "none" /\ call[c] \notin {"new", "registered"} /\ chan[c] = <<>>
      /\ c \in StreamIds => got[c] = 0 /\ c \in streams
  BY <1>4 DEF CallsInv, CallTypes, Unanswered
<1>6. PICK said \in {"reply", "end", "error"}, n \in Nat, last \in Calls!Messages :
        /\ last = Calls!Message(c, said)
        /\ incoming' = incoming \o Append(Calls!Items(c, n), last)
        /\ answer' = [answer EXCEPT ![c] = said]
        /\ said = "end" => c \in StreamIds /\ n = MaxItems
        /\ said = "reply" => c \notin StreamIds
        /\ c \notin StreamIds => n = 0
  <2>0. \A kind \in {"reply", "end", "error"} : Calls!Message(c, kind) \in Calls!Messages
    BY DEF Calls!Message, Calls!Messages
  <2>1. \/ /\ incoming' = incoming \o (IF c \in StreamIds
                                       THEN Append(Calls!Items(c, MaxItems), Calls!Message(c, "end"))
                                       ELSE <<Calls!Message(c, "reply")>>)
           /\ answer' = [answer EXCEPT ![c] = IF c \in StreamIds THEN "end" ELSE "reply"]
        \/ /\ \E n \in 0 .. (IF c \in StreamIds THEN MaxItems ELSE 0) :
                incoming' = incoming \o Append(Calls!Items(c, n), Calls!Message(c, "error"))
           /\ answer' = [answer EXCEPT ![c] = "error"]
    BY <1>3 DEF Calls!ServerAnswers
  <2>2. CASE c \in StreamIds
    <3>1. CASE /\ incoming' = incoming \o Append(Calls!Items(c, MaxItems), Calls!Message(c, "end"))
               /\ answer' = [answer EXCEPT ![c] = "end"]
      BY <2>0, <2>2, <3>1, StreamsAreCalls
    <3>2. CASE /\ \E n \in 0 .. MaxItems :
                    incoming' = incoming \o Append(Calls!Items(c, n), Calls!Message(c, "error"))
               /\ answer' = [answer EXCEPT ![c] = "error"]
      <4>1. PICK n \in Nat : incoming' = incoming \o Append(Calls!Items(c, n), Calls!Message(c, "error"))
        BY <3>2, StreamsAreCalls
      <4> QED BY <2>0, <2>2, <3>2, <4>1
    <3> QED BY <2>1, <2>2, <3>1, <3>2
  <2>3. CASE c \notin StreamIds
    <3>1. Calls!Items(c, 0) = <<>>
      BY DEF Calls!Items
    <3>2. <<Calls!Message(c, "reply")>> = Append(Calls!Items(c, 0), Calls!Message(c, "reply"))
      BY <3>1
    <3> QED BY <2>0, <2>1, <2>3, <3>2
  <2> QED BY <2>2, <2>3
<1> DEFINE back == Append(Calls!Items(c, n), last)
<1>7. /\ back \in Seq(Calls!Messages) /\ Len(back) = n + 1 /\ back[n + 1] = last
      /\ \A i \in 1 .. n : back[i] = Calls!Message(c, "item")
  <2> DEFINE items == Calls!Items(c, n)
  <2>1. /\ items \in Seq(Calls!Messages) /\ Len(items) = n
        /\ \A i \in 1 .. n : items[i] = Calls!Message(c, "item")
    BY ItemsAre
  <2> HIDE DEF items
  <2>2. /\ Append(items, last) \in Seq(Calls!Messages) /\ Len(Append(items, last)) = Len(items) + 1
        /\ \A i \in 1 .. Len(items) : Append(items, last)[i] = items[i]
        /\ Append(items, last)[Len(items) + 1] = last
    BY <2>1, AppendProperties
  <2> QED BY <2>1, <2>2 DEF items
<1>8. \A i \in 1 .. n + 1 : back[i].id = c /\ back[i].kind = IF i = n + 1 THEN said ELSE "item"
  BY <1>6, <1>7 DEF Calls!Message
<1> HIDE DEF back
<1>9. PICK l \in Nat : l = Len(incoming)
  BY <1>2
<1>10. /\ incoming' \in Seq(Calls!Messages) /\ Len(incoming') = l + n + 1
       /\ \A i \in 1 .. l : incoming'[i] = incoming[i]
       /\ \A i \in l + 1 .. l + n + 1 : /\ incoming'[i].id = c
                                        /\ incoming'[i].kind = IF i = l + n + 1 THEN said ELSE "item"
  <2>1. incoming' = incoming \o back
    BY <1>6 DEF back
  <2>2. /\ incoming' \in Seq(Calls!Messages) /\ Len(incoming') = Len(incoming) + Len(back)
        /\ \A i \in 1 .. Len(incoming) + Len(back) :
             incoming'[i] = IF i <= Len(incoming) THEN incoming[i] ELSE back[i - Len(incoming)]
    BY <1>2, <1>7, <2>1, ConcatProperties
  <2>3. \A i \in 1 .. l : incoming'[i] = incoming[i]
    BY <1>7, <1>9, <2>2
  <2>4. ASSUME NEW i \in l + 1 .. l + n + 1
        PROVE  /\ incoming'[i].id = c
               /\ incoming'[i].kind = IF i = l + n + 1 THEN said ELSE "item"
    <3>1. incoming'[i] = back[i - l] /\ i - l \in 1 .. n + 1 /\ (i - l = n + 1 <=> i = l + n + 1)
      BY <1>7, <1>9, <2>2
    <3> QED BY <1>8, <3>1
  <2> QED BY <1>7, <1>9, <2>2, <2>3, <2>4
<1>11. DOMAIN incoming = 1 .. l /\ DOMAIN incoming' = 1 .. l + n + 1
  BY <1>2, <1>9, <1>10
<1>12. answer'[c] = said /\ \A d \in CallIds \ {c} : answer'[d] = answer[d]
  BY <1>6 DEF CallsInv, CallTypes
<1>13. CallTypes'
  <2>1. answer' \in [CallIds -> {"none", "reply", "error", "end"}]
    BY <1>6 DEF CallsInv, CallTypes
  <2>2. \A d \in CallIds : answer'[d] # IF d \in StreamIds THEN "reply" ELSE "end"
    BY <1>6, <1>12 DEF CallsInv, CallTypes
  <2> QED BY <1>1, <1>4, <1>10, <2>1, <2>2 DEF CallsInv, CallTypes
<1>14. Unanswered'
  <2>1. ASSUME NEW d \in Among(outgoing')
        PROVE  answer'[d] = "none" /\ call[d] \notin {"new", "registered"}
    <3>1. d \in Among(outgoing) /\ d # c
      BY <1>4
    <3>2. Among(outgoing) \subseteq CallIds
      BY <1>2, AmongTyped
    <3> QED BY <1>12, <3>1, <3>2 DEF CallsInv, Unanswered
  <2>2. ASSUME NEW d \in CallIds
        PROVE  /\ call[d] \in {"new", "registered"} => answer'[d] = "none"
               /\ answer'[d] = "none" =>
                    /\ chan[d] = <<>> /\ (d \in StreamIds => got[d] = 0)
                    /\ call[d] # "new" => d \in pending \union streams
    BY <1>5, <1>6, <1>12 DEF CallsInv, Unanswered
  <2> QED BY <1>1, <1>4, <2>1, <2>2 DEF Unanswered
<1>15. KindsOf(c) = {} /\ \A d \in CallIds \ {c} : KindsOf(d)' = KindsOf(d)
  BY <1>5, <1>12 DEF KindsOf
\* Nothing of the call was under way before.
<1>16. \A i \in 1 .. l : incoming[i].id # c /\ incoming[i].id \in CallIds
  <2>1. ASSUME NEW i \in 1 .. l PROVE incoming[i].id # c /\ incoming[i].id \in CallIds
    <3>1. incoming[i] \in Among(incoming) /\ incoming[i] \in Calls!Messages
      BY <1>2, <1>9, <1>11, ElementOfSeq DEF Among
    <3>2. incoming[i].kind \in KindsOf(incoming[i].id)
      BY <3>1 DEF CallsInv, Answering
    <3> QED BY <1>15, <3>1, <3>2 DEF Calls!Messages
  <2> QED BY <2>1
<1>17. Answering'
  <2>1. ASSUME NEW m \in Among(incoming') PROVE m.kind \in KindsOf(m.id)'
    <3>1. PICK i \in 1 .. l + n + 1 : m = incoming'[i]
      BY <1>11 DEF Among
    <3>2. CASE i \in 1 .. l
      <4>1. m = incoming[i] /\ m \in Among(incoming)
        BY <1>10, <1>11, <3>1, <3>2 DEF Among
      <4>2. m.kind \in KindsOf(m.id)
        BY <4>1 DEF CallsInv, Answering
      <4> QED BY <1>15, <1>16, <3>2, <4>1, <4>2
    <3>3. CASE i \notin 1 .. l
      <4>1. i \in l + 1 .. l + n + 1
        BY <3>3
      <4>2. m.id = c /\ m.kind = IF i = l + n + 1 THEN said ELSE "item"
        BY <1>10, <3>1, <4>1
      <4>3. c \notin StreamIds => i = l + n + 1
        BY <1>6, <4>1
      <4>4. KindsOf(c)' = CASE said = "reply" -> {"reply"}
                            [] said = "end" -> {"item", "end"}
                            [] said = "error" -> IF c \in StreamIds THEN {"item", "error"} ELSE {"error"}
                            [] OTHER -> {}
        BY <1>12 DEF KindsOf
      <4> QED BY <1>6, <4>2, <4>3, <4>4
    <3> QED BY <3>2, <3>3
  <2>2. ASSUME NEW d \in CallIds, NEW m \in Among(chan[d]) PROVE m.kind \in KindsOf(d)' \ {"end"}
    <3>1. m.kind \in KindsOf(d) \ {"end"}
      BY DEF CallsInv, Answering
    <3> QED BY <1>15, <3>1
  <2> QED BY <1>1, <2>1, <2>2 DEF Answering
<1>18. Waited'
  <2>1. \A d \in CallIds : answer[d] = "end" => answer'[d] = "end"
    BY <1>5, <1>12
  <2> QED BY <1>1, <2>1 DEF CallsInv, Waited
<1>19. Whole'
  <2> SUFFICES ASSUME NEW k \in 1 .. l + n + 1, incoming'[k].kind = "end", NEW d, d = incoming'[k].id
               PROVE  d \in streams /\ EndsRun(incoming', d, k, MaxItems - got[d] - Len(chan[d]))
    BY <1>1, <1>11 DEF Whole
  <2>1. CASE k \in 1 .. l
    <3>1. incoming[k] = incoming'[k] /\ k \in DOMAIN incoming
      BY <1>10, <1>11, <2>1
    <3>2. d \in streams /\ EndsRun(incoming, d, k, MaxItems - got[d] - Len(chan[d]))
      BY <3>1 DEF CallsInv, Whole
    <3>3. ASSUME NEW x, EndsRun(incoming, d, k, x) PROVE EndsRun(incoming', d, k, x)
      <4>1. \A i \in 1 .. k - 1 : incoming'[i] = incoming[i]
        BY <1>10, <2>1
      <4>2. x \in 0 .. k - 1 /\ \A i \in k - x .. k - 1 : i \in 1 .. k - 1
        BY <2>1, <3>3 DEF EndsRun
      <4> QED BY <3>3, <4>1, <4>2 DEF EndsRun
    <3> QED BY <3>2, <3>3
  <2>2. CASE k \notin 1 .. l
    <3>1. k \in l + 1 .. l + n + 1
      BY <2>2
    <3>2. k = l + n + 1 /\ said = "end" /\ d = c
      BY <1>10, <3>1
    <3>3. c \in StreamIds /\ n = MaxItems /\ c \in streams /\ got[c] = 0 /\ Len(chan[c]) = 0
      BY <1>5, <1>6, <3>2, AmongNone
    <3>4. MaxItems - got[c] - Len(chan[c]) = n
      BY <3>3
    <3>5. n \in 0 .. k - 1 /\ k - n = l + 1 /\ k - 1 = l + n
      BY <3>2
    <3>6. ASSUME NEW i \in 1 .. k - 1 PROVE incoming'[i].id = c <=> i >= k - n
      <4>1. CASE i \in 1 .. l
        BY <1>10, <1>16, <3>5, <4>1
      <4>2. CASE i \notin 1 .. l
        <5>1. i \in l + 1 .. l + n + 1 /\ i >= k - n
          BY <3>5, <4>2
        <5> QED BY <1>10, <5>1
      <4> QED BY <4>1, <4>2
    <3>7. ASSUME NEW i \in k - n .. k - 1 PROVE incoming'[i].kind = "item"
      <4>1. i \in l + 1 .. l + n + 1 /\ i # l + n + 1
        BY <3>5
      <4> QED BY <1>10, <4>1
    <3>8. EndsRun(incoming', c, k, n)
      BY <3>5, <3>6, <3>7 DEF EndsRun
    <3> QED BY <3>2, <3>3, <3>4, <3>8
  <2> QED BY <2>1, <2>2
<1>20. Calls!OutcomeIsAnswer'
  <2>1. \A d \in CallIds : answer[d] # "none" => answer'[d] = answer[d]
    BY <1>5, <1>12
  <2> QED BY <1>1, <2>1 DEF CallsInv, Calls!OutcomeIsAnswer
<1> QED BY <1>1, <1>13, <1>14, <1>17, <1>18, <1>19, <1>20 DEF CallsInv

\* Every step of the calls keeps the invariant.
LEMMA CallSteps ==
  ASSUME CallsInv, Calls!Next
  PROVE  CallsInv'
BY RegisterKeeps, SendKeeps, SeeKeeps, TakeKeeps, DispatchKeeps, LossKeeps, AnswerKeeps
   DEF Calls!Next, Calls!Run

\* Whatever other calls do, and whenever the connection is lost: a call that
\* ends well ends with its own answer, a subtree that ends without an error
\* was received completely, and a call fails only because the server said so
\* or the connection is lost (client.rs).
THEOREM CallsGetTheirAnswers == MCSpec => []OutcomeIsAnswer
<1> DEFINE Inv0 == tool = "calls" => CallsInv
<1>1. MCInit => Inv0
  BY CallsInit DEF MCInit
<1>2. Inv0 /\ [MCNext]_<<tool, registers, vars>> => Inv0'
  <2> SUFFICES ASSUME Inv0, [MCNext]_<<tool, registers, vars>>, tool' = "calls"
               PROVE  CallsInv'
    OBVIOUS
  <2>1. CASE MCNext
    BY <2>1, CallSteps DEF MCNext, Others
  <2>2. CASE UNCHANGED <<tool, registers, vars>>
    <3>1. CallsInv /\ UNCHANGED <<call, pending, streams, chan, got, outgoing, incoming, up, writer, answer>>
      BY <2>2 DEF registers
    <3>2. CallTypes' /\ Unanswered' /\ Waited' /\ Whole' /\ Calls!OutcomeIsAnswer'
      BY <3>1 DEF CallsInv, CallTypes, Unanswered, Waited, Whole, Calls!OutcomeIsAnswer
    <3>3. Answering'
      BY <3>1 DEF CallsInv, Answering, KindsOf
    <3> QED BY <3>1, <3>2, <3>3 DEF CallsInv
  <2> QED BY <2>1, <2>2
<1>3. Inv0 => OutcomeIsAnswer
  BY DEF OutcomeIsAnswer, CallsInv
<1> QED BY <1>1, <1>2, <1>3, PTL DEF MCSpec

-----------------------------------------------------------------------------
(* The reload of serve.  The variables of Serve, by their names.           *)
file == r1
writes == r2
svPc == r3
loaded == r4
tasks == r6
repos == r7
tokens == r8
current == r9
overlapped == r11
validator == r12

Reloads == [conf : Serving!Good, at : {"repos", "tokens"}, age : Nat]

\* While reloads have never overlapped, the one under way brings in what was
\* read last, and without one that is what is served.
SvInv ==
  /\ writes \in Nat /\ file \in Serving!Good \union {Broken}
  /\ svPc \in {"start", "bound", "over", "unwatched", "wait", "debounce", "spawn"}
  /\ svPc = "spawn" => loaded \in Serving!Good \union {Broken}
  /\ tasks \subseteq Reloads
  /\ svPc = "start" => tasks = {} /\ current = None
  /\ ~overlapped =>
       /\ \A t, u \in tasks : t = u
       /\ \A t \in tasks : t.conf = current /\ (t.at = "tokens" => repos = current.repos)
       /\ tasks = {} /\ current # None => repos = current.repos /\ tokens = current.tokens

USE DEF file, writes, svPc, loaded, tasks, repos, tokens, current, overlapped, validator

\* serve starts without anything loaded.
LEMMA SvInit == Serving!Init => SvInv
BY DEF Serving!Init, SvInv

\* A write of the file and a step of the thread that reads it leave what is
\* served alone.
LEMMA ReadsKeep ==
  ASSUME SvInv,
         Serving!Write \/ Serving!Watch \/ Serving!Event \/ Serving!Drain \/ Serving!Load
  PROVE  SvInv'
<1>1. CASE Serving!Write
  BY <1>1 DEF SvInv, Serving!Write
<1>2. CASE Serving!Watch
  BY <1>2 DEF SvInv, Serving!Watch
<1>3. CASE Serving!Event
  BY <1>3 DEF SvInv, Serving!Event
<1>4. CASE Serving!Drain
  BY <1>4 DEF SvInv, Serving!Drain
<1>5. CASE Serving!Load
  BY <1>5 DEF SvInv, Serving!Load
<1> QED BY <1>1, <1>2, <1>3, <1>4, <1>5

\* serve opens what its file says before it is bound, or is over.
LEMMA StartKeeps ==
  ASSUME SvInv, Serving!Start
  PROVE  SvInv'
BY DEF SvInv, Serving!Start

\* What could be opened is brought in by a task of its own.
LEMMA SpawnKeeps ==
  ASSUME SvInv, Serving!Spawn
  PROVE  SvInv'
<1>1. CASE loaded = Broken
  BY <1>1 DEF SvInv, Serving!Spawn
<1>2. CASE loaded # Broken
  <2>1. /\ svPc = "spawn" /\ svPc' = "wait" /\ current' = loaded
        /\ tasks' = tasks \union {[conf |-> loaded, at |-> "repos", age |-> writes]}
        /\ overlapped' = (overlapped \/ tasks # {})
        /\ UNCHANGED <<file, writes, loaded, repos, tokens, validator>>
    BY <1>2 DEF Serving!Spawn
  <2>2. PICK t \in Reloads : t = [conf |-> loaded, at |-> "repos", age |-> writes]
    BY <1>2, <2>1 DEF SvInv, Reloads
  <2>3. t.conf = loaded /\ t.at = "repos" /\ tasks' = tasks \union {t}
    BY <2>1, <2>2
  <2> QED BY <2>1, <2>2, <2>3 DEF SvInv
<1> QED BY <1>1, <1>2

\* The task replaces the repositories, then the tokens.
LEMMA ReloadKeeps ==
  ASSUME SvInv, NEW t \in tasks, Serving!ReloadRepos(t) \/ Serving!UpdateTokens(t)
  PROVE  SvInv'
<1>1. t \in Reloads /\ t.conf \in Serving!Good
  BY DEF SvInv, Reloads
<1>2. CASE Serving!ReloadRepos(t)
  <2>1. /\ repos' = t.conf.repos
        /\ tasks' = (tasks \ {t}) \union {[t EXCEPT !.at = "tokens"]}
        /\ UNCHANGED <<file, writes, svPc, loaded, tokens, current, overlapped>>
    BY <1>2 DEF Serving!ReloadRepos
  <2>2. PICK u \in Reloads : u = [t EXCEPT !.at = "tokens"]
    BY <1>1 DEF Reloads
  <2>3. u.conf = t.conf /\ u.at = "tokens" /\ tasks' = (tasks \ {t}) \union {u}
    BY <1>1, <2>1, <2>2 DEF Reloads
  <2> QED BY <1>1, <2>1, <2>2, <2>3 DEF SvInv
<1>3. CASE Serving!UpdateTokens(t)
  <2>1. /\ t.at = "tokens" /\ tokens' = t.conf.tokens /\ tasks' = tasks \ {t}
        /\ UNCHANGED <<file, writes, svPc, loaded, repos, current, overlapped>>
    BY <1>3 DEF Serving!UpdateTokens
  <2> QED BY <2>1 DEF SvInv
<1> QED BY <1>2, <1>3

\* Whatever is written to the file, and when: at rest, what serve serves is
\* the last configuration that could be opened, to the holders of its tokens if
\* serve was started with some and to everyone if not, unless reloads
\* overlapped (serve.rs).
THEOREM LastGoodIsServed == MCSpec => []ServesLastGood
<1> DEFINE Inv0 == tool = "serve" => SvInv
<1>1. MCInit => Inv0
  BY SvInit DEF MCInit
<1>2. Inv0 /\ [MCNext]_<<tool, registers, vars>> => Inv0'
  <2> SUFFICES ASSUME Inv0, [MCNext]_<<tool, registers, vars>>, tool' = "serve"
               PROVE  SvInv'
    OBVIOUS
  <2>1. CASE MCNext
    <3>1. tool = "serve" /\ Serving!Next
      BY <2>1 DEF MCNext, Others
    <3> QED BY <3>1, ReadsKeep, StartKeeps, SpawnKeeps, ReloadKeeps
            DEF Serving!Next, Serving!Thread, Serving!Reload
  <2>2. CASE UNCHANGED <<tool, registers, vars>>
    BY <2>2 DEF SvInv, registers
  <2> QED BY <2>1, <2>2
<1>3. Inv0 => ServesLastGood
  BY DEF ServesLastGood, Serving!ServesLastGood, Serving!AtRest, Serving!Admitted, SvInv
<1> QED BY <1>1, <1>2, <1>3, PTL DEF MCSpec

-----------------------------------------------------------------------------
(* The watcher.  The variables of Watcher, by their names.                 *)
status == r1
busy == r2
files == r3
wrote == r5
pc == r6
goal == r7
listed == r8
shot == r9
baseline == r10
run == r13
edited == r14

Files == Watch!Files
NotRunning(j) == status[j] # "running"

\* A snapshot, whole or in the making, of the files as they are.
Shows(s) == s = <<>> \/ s = [f \in DOMAIN s |-> files[f]]

\* Jobs run only while the watcher waits for one, or has left.  Until the
\* user edits something, a walk sees the files as they are, and the baseline
\* is the files.
WaInv ==
  /\ files = [f \in Files |-> files[f]] /\ status = [j \in WatchJobs |-> status[j]]
  /\ busy \subseteq WatchJobs
  /\ pc \in {"walk", "wait", "submit", "run", "over"} /\ goal \in {"start", "poll", "baseline"}
  /\ \A j \in busy : status[j] = "running"
  /\ pc \notin {"run", "over"} => \A j \in WatchJobs : NotRunning(j)
  /\ pc = "run" => \A j \in WatchJobs : j # run => NotRunning(j)
  /\ pc = "walk" => shot = <<>> \/ DOMAIN shot \subseteq Files
  /\ ~edited /\ pc = "walk" => listed = {f \in Files : files[f] # None} /\ Shows(shot)
  /\ ~edited /\ (pc \in {"wait", "submit"} \/ (pc = "walk" /\ goal = "poll")) => baseline = files
  /\ pc = "submit" /\ goal = "poll" => edited

USE DEF status, busy, files, wrote, pc, goal, listed, shot, baseline, run, edited

\* A snapshot of all files is the files.
LEMMA WholeShot ==
  ASSUME WaInv, ~edited, pc = "walk", DOMAIN shot = Files
  PROVE  shot = files
<1>1. shot # <<>>
  <2>1. DOMAIN <<>> = {}
    OBVIOUS
  <2>2. Files # {}
    BY DEF Files, Watch!Files
  <2> QED BY <2>1, <2>2
<1>2. shot = [f \in DOMAIN shot |-> files[f]] /\ files = [f \in Files |-> files[f]]
  BY <1>1 DEF WaInv, Shows
<1> QED BY <1>2

\* The watcher begins with a walk and no job.
LEMMA WaInit == Watch!WatchInit => WaInv
<1> SUFFICES ASSUME Watch!WatchInit PROVE WaInv OBVIOUS
<1>1. /\ status = [j \in WatchJobs |-> "none"] /\ busy = {}
      /\ files = [f \in Files |-> IF f = "source" THEN 0 ELSE None]
      /\ pc = "walk" /\ goal = "start" /\ listed = {"source"} /\ shot = <<>> /\ edited = FALSE
  BY DEF Watch!WatchInit, Watch!Init, Files
<1>2. \A j \in WatchJobs : NotRunning(j)
  BY <1>1 DEF NotRunning
<1>3. files["source"] # None /\ files["model"] = None
  BY <1>1, NoneIsNoSignature DEF Files, Watch!Files
<1>4. listed = {f \in Files : files[f] # None}
  BY <1>1, <1>3 DEF Files, Watch!Files
<1> QED BY <1>1, <1>2, <1>4 DEF WaInv, Shows

\* One more file of a walk, or one that is gone.
LEMMA SnapshotGoesOn ==
  ASSUME WaInv, NEW f \in Files, Watch!ReadFile(f) \/ Watch!StatFails(f)
  PROVE  WaInv'
<1>1. CASE Watch!ReadFile(f)
  <2>1. /\ pc = "walk" /\ f \notin DOMAIN shot
        /\ shot' = [g \in DOMAIN shot \union {f} |->
                      IF g # f THEN shot[g] ELSE IF f \in listed THEN files[f] ELSE None]
        /\ UNCHANGED <<pc, goal, listed, baseline, run, edited, status, busy, files>>
    BY <1>1 DEF Watch!ReadFile, Watch!Unchanged, Watch!jobVars
  <2>2. DOMAIN shot \subseteq Files
    BY <2>1 DEF WaInv
  <2>3. DOMAIN shot' \subseteq Files
    BY <2>1, <2>2
  <2>4. ASSUME ~edited PROVE Shows(shot)'
    <3>1. \A g \in DOMAIN shot : shot[g] = files[g]
      <4>1. Shows(shot)
        BY <2>1, <2>4 DEF WaInv
      <4>2. shot = <<>> => DOMAIN shot = {}
        OBVIOUS
      <4> QED BY ONLY <4>1, <4>2 DEF Shows
    <3>2. (IF f \in listed THEN files[f] ELSE None) = files[f]
      BY <2>1, <2>4 DEF WaInv
    <3>3. shot' = [g \in DOMAIN shot' |-> files[g]]
      BY <2>1, <3>1, <3>2
    <3> QED BY <2>1, <3>3 DEF Shows
  <2> QED BY <2>1, <2>3, <2>4 DEF WaInv, NotRunning
<1>2. CASE Watch!StatFails(f)
  BY <1>2 DEF Watch!StatFails, Watch!Unchanged, Watch!jobVars, WaInv, NotRunning
<1> QED BY <1>1, <1>2

\* The next poll lists the files.
LEMMA PollKeeps ==
  ASSUME WaInv, Watch!Poll
  PROVE  WaInv'
<1>1. /\ pc = "wait" /\ pc' = "walk" /\ goal' = "poll"
      /\ listed' = {f \in Files : files[f] # None} /\ shot' = <<>>
      /\ UNCHANGED <<baseline, run, edited, status, busy, files>>
  BY DEF Watch!Poll, Watch!Walk, Watch!Unchanged, Watch!jobVars, Files
<1> QED BY <1>1 DEF WaInv, Shows, NotRunning

\* A poll compares its snapshot with the baseline.
LEMMA PolledKeeps ==
  ASSUME WaInv,
         \/ Watch!Started \/ Watch!SeenNoChange \/ Watch!SeenChange \/ Watch!NotSettled
         \/ Watch!Settled \/ Watch!TakeBaseline
  PROVE  WaInv'
<1>1. /\ pc = "walk" /\ DOMAIN shot = Files /\ pc' \in {"wait", "submit", "over"}
      /\ UNCHANGED <<goal, listed, shot, run, edited, status, busy, files>>
      /\ \/ goal # "poll" /\ baseline' = shot
         \/ goal = "poll" /\ baseline' = baseline /\ (pc' = "submit" => shot # baseline)
  BY DEF Watch!Started, Watch!SeenNoChange, Watch!SeenChange, Watch!NotSettled, Watch!Settled,
         Watch!TakeBaseline, Watch!Polled, Watch!Unchanged, Watch!jobVars, Files
<1>2. ~edited => shot = files
  BY <1>1, WholeShot
<1> QED BY <1>1, <1>2 DEF WaInv, NotRunning

\* A job is handed in.
LEMMA SubmitKeeps ==
  ASSUME WaInv, NEW j \in WatchJobs, Watch!SubmitRun(j)
  PROVE  WaInv'
<1>1. /\ pc = "submit" /\ pc' = "run" /\ run' = j
      /\ status' = [status EXCEPT ![j] = "running"]
      /\ UNCHANGED <<busy, files, goal>>
  BY DEF Watch!SubmitRun, Watch!Submit
<1>2. \A i \in WatchJobs : NotRunning(i)
  BY <1>1 DEF WaInv
<1>3. \A i \in WatchJobs : i # j => NotRunning(i)'
  BY <1>1, <1>2 DEF WaInv, NotRunning
<1>4. busy = {}
  BY <1>2 DEF WaInv, NotRunning
<1> QED BY <1>1, <1>3, <1>4 DEF WaInv

\* The watcher sees its job end and takes a new baseline.
LEMMA RunEndsKeeps ==
  ASSUME WaInv, Watch!RunEnds
  PROVE  WaInv'
<1>1. /\ pc = "run" /\ status[run] \in Watch!Ended /\ pc' = "walk" /\ goal' = "baseline"
      /\ listed' = {f \in Files : files[f] # None} /\ shot' = <<>>
      /\ UNCHANGED <<baseline, run, edited, status, busy, files>>
  BY DEF Watch!RunEnds, Watch!Walk, Watch!Unchanged, Watch!jobVars, Files
<1>2. \A j \in WatchJobs : NotRunning(j)
  BY <1>1 DEF WaInv, NotRunning, Watch!Ended
<1> QED BY <1>1, <1>2 DEF WaInv, Shows, NotRunning

\* What the user and the jobs do.
LEMMA OthersKeep ==
  ASSUME WaInv,
         \/ Watch!Stop \/ Watch!Edit
         \/ \E j \in WatchJobs : Watch!WriteModel(j) \/ Watch!JobRuns(j)
  PROVE  WaInv'
<1>1. CASE Watch!Stop
  BY <1>1 DEF Watch!Stop, Watch!Unchanged, Watch!jobVars, WaInv, NotRunning
<1>2. CASE Watch!Edit
  <2>1. /\ edited' = TRUE
        /\ UNCHANGED <<pc, goal, listed, shot, baseline, run, status, busy>>
        /\ \E s : files' = [files EXCEPT !["source"] = s]
    BY <1>2 DEF Watch!Edit, Watch!jobVars, Watch!watchVars
  <2>2. files' = [f \in Files |-> files'[f]]
    BY <2>1 DEF WaInv
  <2> QED BY <2>1, <2>2 DEF WaInv, NotRunning
<1>3. ASSUME NEW j \in WatchJobs, Watch!WriteModel(j) PROVE WaInv'
  <2>1. /\ j \in busy
        /\ UNCHANGED <<pc, goal, listed, shot, baseline, run, status, busy, edited>>
        /\ \E s : files' = [files EXCEPT !["model"] = s]
    BY <1>3 DEF Watch!WriteModel, Watch!jobVars, Watch!watchVars
  <2>2. files' = [f \in Files |-> files'[f]]
    BY <2>1 DEF WaInv
  <2>3. pc \in {"run", "over"}
    BY <2>1 DEF WaInv, NotRunning
  <2> QED BY <2>1, <2>2, <2>3 DEF WaInv, NotRunning
<1>4. ASSUME NEW j \in WatchJobs, Watch!JobRuns(j) PROVE WaInv'
  <2>1. /\ status[j] = "running"
        /\ UNCHANGED <<pc, goal, listed, shot, baseline, run, files, edited>>
        /\ \/ UNCHANGED status /\ busy' \subseteq busy \union {j}
           \/ /\ busy' = busy \ {j}
              /\ \E s \in Watch!Ended : status' = [status EXCEPT ![j] = s]
    BY <1>4 DEF Watch!JobRuns, Watch!Work, Watch!End, Watch!watchVars
  <2>2. /\ \A i \in WatchJobs : NotRunning(i) => NotRunning(i)'
        /\ \A i \in busy' : status'[i] = "running"
        /\ busy' \subseteq WatchJobs
        /\ status' = [i \in WatchJobs |-> status'[i]]
    BY <2>1 DEF WaInv, NotRunning, Watch!Ended
  <2> QED BY <2>1, <2>2 DEF WaInv, Shows
<1> QED BY <1>1, <1>2, <1>3, <1>4

\* Whatever the jobs write, and however long a change has to settle: a run
\* for a change is asked for by an edit of the user (watcher.ts).
THEOREM NoJobTriggers == MCSpec => NoSelfTrigger
<1> DEFINE Inv0 == tool = "watch" => WaInv
<1>1. MCInit => Inv0
  BY WaInit DEF MCInit
<1>2. Inv0 /\ [MCNext]_<<tool, registers, vars>> => Inv0'
  <2> SUFFICES ASSUME Inv0, [MCNext]_<<tool, registers, vars>>, tool' = "watch"
               PROVE  WaInv'
    OBVIOUS
  <2>1. CASE MCNext
    <3>1. tool = "watch" /\ Watch!WatchNext
      BY <2>1 DEF MCNext, Others
    <3> QED BY <3>1, SnapshotGoesOn, PollKeeps, PolledKeeps, SubmitKeeps, RunEndsKeeps, OthersKeep
            DEF Watch!WatchNext, Watch!WatcherStep, Files
  <2>2. CASE UNCHANGED <<tool, registers, vars>>
    BY <2>2 DEF WaInv, Shows, NotRunning, registers
  <2> QED BY <2>1, <2>2
<1>3. Inv0 /\ [MCNext]_<<tool, registers, vars>>
        => [tool = "watch" => Watch!RunIsAsked]_<<tool, registers, vars>>
  BY DEF WaInv, Watch!RunIsAsked, Watch!SubmitRun
<1> QED BY <1>1, <1>2, <1>3, PTL DEF MCSpec, NoSelfTrigger

-----------------------------------------------------------------------------
(* A store written in Python.  The variables of PyStore, by their names.   *)
pyObjects == r1
pyRefs == r2
pyTx == r3
pyStaged == r4
walk == r5

\* What Python keeps under a hash crossed from an object of that hash.
Crossed(p, h) == \E o \in Forms : p = Py!FromRust(o) /\ IdentityOf[o] = h

Puts == {[hash |-> IdentityOf[o], object |-> Py!FromRust(o)] : o \in Forms}

TxLives == {"unused", "open", "committed", "discarded"}

Bridged ==
  /\ \A h \in Hashes : pyObjects[h] # None => Crossed(pyObjects[h], h)
  /\ pyStaged \in [Txs -> Seq(Puts)] /\ pyTx \in [Txs -> TxLives]

Walks == [root : Hashes, stack : Seq(Hashes), visited : SUBSET Hashes, yielded : Seq(Hashes),
          end : {"running", "done", "not found"}]

\* What a walk has seen is stored, and what that points to has been seen or
\* will be.
WalksOn ==
  walk.end # "idle" =>
    /\ walk \in Walks
    /\ \A h \in walk.visited : pyObjects[h] # None
    /\ NoRepeats(walk.yielded) /\ Among(walk.yielded) \subseteq walk.visited
    /\ walk.visited \union Among(walk.stack)
         = {walk.root} \union UNION {Py!LinksOf(h) : h \in walk.visited}
    /\ walk.end = "done" => walk.stack = <<>>

PyInv == Bridged /\ WalksOn

\* A sequence is its first element and the others.
LEMMA HeadAndTail ==
  ASSUME NEW S, NEW s \in Seq(S), s # <<>>
  PROVE  <<Head(s)>> \o Tail(s) = s
<1>1. /\ Head(s) \in S /\ Head(s) = s[1] /\ Tail(s) \in Seq(S) /\ Len(Tail(s)) = Len(s) - 1
      /\ \A i \in 1 .. Len(Tail(s)) : Tail(s)[i] = s[i + 1]
  BY HeadTailProperties
<1>2. Len(s) \in Nat \ {0}
  BY EmptySeq
<1>3. <<Head(s)>> \in Seq(S) /\ Len(<<Head(s)>>) = 1 /\ <<Head(s)>>[1] = s[1]
  BY <1>1
<1> DEFINE h == <<Head(s)>>
           t == Tail(s)
<1> HIDE DEF h, t
<1>4. h \in Seq(S) /\ Len(h) = 1 /\ h[1] = s[1]
  BY <1>3 DEF h
<1>5. t \in Seq(S) /\ Len(t) = Len(s) - 1 /\ \A i \in 1 .. Len(t) : t[i] = s[i + 1]
  BY <1>1 DEF t
<1>6. /\ h \o t \in Seq(S) /\ Len(h \o t) = Len(h) + Len(t)
      /\ \A i \in 1 .. Len(h) + Len(t) : (h \o t)[i] = IF i <= Len(h) THEN h[i] ELSE t[i - Len(h)]
  <2>1. h \in Seq(S) /\ t \in Seq(S)
    BY <1>4, <1>5
  <2> QED BY ONLY <2>1, ConcatProperties
<1>7. ASSUME NEW i \in 1 .. Len(h \o t) PROVE (h \o t)[i] = s[i]
  <2>1. CASE i = 1
    BY <2>1, <1>4, <1>6
  <2>2. CASE i # 1
    <3>1. i - 1 \in 1 .. Len(t) /\ (h \o t)[i] = t[i - 1]
      BY <2>2, <1>2, <1>4, <1>5, <1>6
    <3>2. t[i - 1] = s[i - 1 + 1]
      BY <3>1, <1>5
    <3> QED BY <3>1, <3>2
  <2> QED BY <2>1, <2>2
<1>8. h \o t = s
  BY <1>2, <1>4, <1>5, <1>6, <1>7, SeqEqual
<1> QED BY <1>8 DEF h, t

\* An object comes back from Python as it went (py_objects.rs).
LEMMA ComesBack ==
  ASSUME NEW o \in Forms
  PROVE  Py!ToRust(Py!FromRust(o)) = o
<1> DEFINE p == Py!FromRust(o)
           q == Py!ToRust(p)
<1>1. /\ HasShape(o) /\ o.links \in Seq(Hashes)
      /\ o = PyObject(o.kind, o.data, o.links, o.at, o.inclusive)
  BY FormsAreObjects DEF HasShape
<1>2. p.kind = o.kind
  BY DEF Py!FromRust
<1>3. q.kind = o.kind
  BY <1>2 DEF Py!ToRust
<1>4. q = PyObject(q.kind, q.data, q.links, q.at, q.inclusive)
  <2>1. \E a, b, c, d, e : q = PyObject(a, b, c, d, e)
    BY Zenon DEF Py!ToRust, PyObject
  <2> HIDE DEF p, q
  <2> QED BY <2>1 DEF PyObject
<1> SUFFICES q.data = o.data /\ q.links = o.links /\ q.at = o.at /\ q.inclusive = o.inclusive
  BY <1>1, <1>3, <1>4
<1>5. CASE o.kind \in Py!Leaf
  <2>1. o.links = <<>> /\ o.at = None /\ o.inclusive = None
    BY <1>1, <1>5 DEF HasShape, Py!Leaf
  <2>2. p.inner = Py!FromLeaf(o)
    BY <1>5 DEF Py!FromRust, Py!Leaf
  <2>3. /\ q.data = Py!ToLeaf(p.inner).data /\ q.links = Py!ToLeaf(p.inner).links
        /\ q.at = Py!ToLeaf(p.inner).at /\ q.inclusive = Py!ToLeaf(p.inner).inclusive
    BY <1>2, <1>5 DEF Py!ToRust, Py!Leaf
  <2> HIDE DEF p, q
  <2> QED BY <2>1, <2>2, <2>3 DEF Py!FromLeaf, Py!ToLeaf
<1>6. CASE o.kind = "element"
  <2>1. o.at = None
    BY <1>1, <1>6 DEF HasShape
  <2>2. p.inner = Py!FromElement(o)
    BY <1>6 DEF Py!FromRust, Py!Leaf
  <2>3. /\ q.data = Py!ToElement(p.inner).data /\ q.links = Py!ToElement(p.inner).links
        /\ q.at = Py!ToElement(p.inner).at /\ q.inclusive = Py!ToElement(p.inner).inclusive
    BY <1>2, <1>6 DEF Py!ToRust, Py!Leaf
  <2> HIDE DEF p, q
  <2> QED BY <2>1, <2>2, <2>3 DEF Py!FromElement, Py!ToElement
<1>7. CASE o.kind = "document"
  <2>1. o.links # <<>> /\ o.data = None /\ o.at = None /\ o.inclusive = None
    BY <1>1, <1>7 DEF HasShape
  <2>2. p.inner = Py!FromDocument(o)
    BY <1>7 DEF Py!FromRust, Py!Leaf
  <2>3. /\ q.data = Py!ToDocument(p.inner).data /\ q.links = Py!ToDocument(p.inner).links
        /\ q.at = Py!ToDocument(p.inner).at /\ q.inclusive = Py!ToDocument(p.inner).inclusive
    BY <1>2, <1>7 DEF Py!ToRust, Py!Leaf
  <2>4. <<Head(o.links)>> \o Tail(o.links) = o.links
    BY <2>1, <1>1, HeadAndTail
  <2> HIDE DEF p, q
  <2> QED BY <2>1, <2>2, <2>3, <2>4 DEF Py!FromDocument, Py!ToDocument
<1>8. CASE o.kind = "tree"
  <2>1. o.data = [i \in DOMAIN o.links |-> o.data[i]] /\ o.at = None /\ o.inclusive = None
    BY <1>1, <1>8 DEF HasShape
  <2>2. p.inner = Py!FromTree(o)
    BY <1>8 DEF Py!FromRust, Py!Leaf
  <2>3. /\ q.data = Py!ToTree(p.inner).data /\ q.links = Py!ToTree(p.inner).links
        /\ q.at = Py!ToTree(p.inner).at /\ q.inclusive = Py!ToTree(p.inner).inclusive
    BY <1>2, <1>8 DEF Py!ToRust, Py!Leaf
  <2>4. o.links = [i \in DOMAIN o.links |-> o.links[i]]
    BY <1>1
  <2> DEFINE w == p.inner
  <2>5. /\ DOMAIN w.entries = DOMAIN o.links
        /\ \A i \in DOMAIN o.links : w.entries[i].path = o.data[i] /\ w.entries[i].document = o.links[i]
    BY <2>2 DEF Py!FromTree
  <2>6. /\ q.data = [i \in DOMAIN w.entries |-> w.entries[i].path]
        /\ q.links = [i \in DOMAIN w.entries |-> w.entries[i].document]
        /\ q.at = None /\ q.inclusive = None
    BY <2>3 DEF Py!ToTree
  <2> HIDE DEF p, q, w
  <2> QED BY <2>1, <2>4, <2>5, <2>6
<1>9. CASE o.kind = "commit"
  <2>1. o.links # <<>> /\ o.at \in Int /\ o.inclusive = None
    BY <1>1, <1>9 DEF HasShape
  <2>2. p.inner = Py!FromCommit(o)
    BY <1>9 DEF Py!FromRust, Py!Leaf
  <2>3. /\ q.data = Py!ToCommit(p.inner).data /\ q.links = Py!ToCommit(p.inner).links
        /\ q.at = Py!ToCommit(p.inner).at /\ q.inclusive = Py!ToCommit(p.inner).inclusive
    BY <1>2, <1>9 DEF Py!ToRust, Py!Leaf
  <2>4. <<Head(o.links)>> \o Tail(o.links) = o.links
    BY <2>1, <1>1, HeadAndTail
  <2>5. Py!ParseRfc3339(Py!ToRfc3339(o.at)) = o.at
    BY <2>1 DEF Py!ParseRfc3339, Py!ToRfc3339
  <2> HIDE DEF p, q
  <2> QED BY <2>1, <2>2, <2>3, <2>4, <2>5 DEF Py!FromCommit, Py!ToCommit
<1>10. CASE o.kind = "tag"
  <2>1. Len(o.links) = 1 /\ o.at \in Int /\ o.inclusive = None
    BY <1>1, <1>10 DEF HasShape
  <2>2. p.inner = Py!FromTag(o)
    BY <1>10 DEF Py!FromRust, Py!Leaf
  <2>3. /\ q.data = Py!ToTag(p.inner).data /\ q.links = Py!ToTag(p.inner).links
        /\ q.at = Py!ToTag(p.inner).at /\ q.inclusive = Py!ToTag(p.inner).inclusive
    BY <1>2, <1>10 DEF Py!ToRust, Py!Leaf
  <2>4. <<o.links[1]>> = o.links
    BY <2>1, <1>1
  <2>5. Py!ParseRfc3339(Py!ToRfc3339(o.at)) = o.at
    BY <2>1 DEF Py!ParseRfc3339, Py!ToRfc3339
  <2> HIDE DEF p, q
  <2> QED BY <2>1, <2>2, <2>3, <2>4, <2>5 DEF Py!FromTag, Py!ToTag
<1> QED BY <1>1, <1>5, <1>6, <1>7, <1>8, <1>9, <1>10 DEF HasShape, Py!Leaf

\* What Python holds of an object is that object again in Rust.
LEMMA CrossedBack ==
  ASSUME NEW h, NEW p, Crossed(p, h)
  PROVE  /\ Py!ToRust(p) \in Forms /\ IdentityOf[Py!ToRust(p)] = h
         /\ p = Py!FromRust(Py!ToRust(p)) /\ p # None /\ Py!ToRust(p) # None
<1>1. PICK o \in Forms : p = Py!FromRust(o) /\ IdentityOf[o] = h
  BY DEF Crossed
<1>2. Py!ToRust(p) = o
  BY <1>1, ComesBack
<1> QED BY <1>1, <1>2, FormsAreObjects

-----------------------------------------------------------------------------
(* The table and the transactions, as the contract sees them.              *)
Shown(table) == [h \in Hashes |-> IF table[h] = None THEN None ELSE Py!ToRust(table[h])]
Taken(s) == [i \in DOMAIN s |-> Py!ToRust(s[i].object)]

\* So is what a transaction staged.
LEMMA PutCrosses ==
  ASSUME NEW x \in Puts
  PROVE  /\ Crossed(x.object, x.hash) /\ x.hash \in Hashes
         /\ Py!ToRust(x.object) \in Forms /\ IdentityOf[Py!ToRust(x.object)] = x.hash
<1>1. PICK o \in Forms : x = [hash |-> IdentityOf[o], object |-> Py!FromRust(o)]
  BY DEF Puts
<1>2. x.hash = IdentityOf[o] /\ x.object = Py!FromRust(o)
  BY <1>1
<1>3. Crossed(x.object, x.hash) /\ x.hash \in Hashes
  BY <1>2, FormsAreObjects DEF Crossed
<1> QED BY <1>3, CrossedBack

\* One put more.
LEMMA TakenAppends ==
  ASSUME NEW s \in Seq(Puts), NEW o \in Forms
  PROVE  LET x == [hash |-> IdentityOf[o], object |-> Py!FromRust(o)] IN
         /\ Append(s, x) \in Seq(Puts)
         /\ Taken(s) \in Seq(Forms) /\ Len(Taken(s)) = Len(s)
         /\ Taken(Append(s, x)) = Append(Taken(s), o)
<1>0. PICK x \in Puts : x = [hash |-> IdentityOf[o], object |-> Py!FromRust(o)]
  BY DEF Puts
<1>1. x.object = Py!FromRust(o) /\ Py!ToRust(x.object) = o
  BY <1>0, ComesBack
<1>2. \A u \in Seq(Puts) : /\ Taken(u) \in Seq(Forms) /\ Len(Taken(u)) = Len(u)
                          /\ \A i \in 1 .. Len(u) : Taken(u)[i] = Py!ToRust(u[i].object)
  <2>1. ASSUME NEW u \in Seq(Puts)
        PROVE  /\ Taken(u) \in Seq(Forms) /\ Len(Taken(u)) = Len(u)
               /\ \A i \in 1 .. Len(u) : Taken(u)[i] = Py!ToRust(u[i].object)
    <3>1. DOMAIN u = 1 .. Len(u) /\ Len(u) \in Nat
      OBVIOUS
    <3>2. \A i \in 1 .. Len(u) : Py!ToRust(u[i].object) \in Forms
      <4>1. \A i \in 1 .. Len(u) : u[i] \in Puts
        BY ElementOfSeq
      <4> QED BY <4>1, PutCrosses
    <3>3. Taken(u) = [i \in 1 .. Len(u) |-> Py!ToRust(u[i].object)]
      BY <3>1 DEF Taken
    <3> QED BY <3>1, <3>2, <3>3
  <2> QED BY <2>1
<1>3. /\ Append(s, x) \in Seq(Puts) /\ Len(Append(s, x)) = Len(s) + 1
      /\ \A i \in 1 .. Len(s) : Append(s, x)[i] = s[i]
      /\ Append(s, x)[Len(s) + 1] = x
  BY AppendProperties
<1> DEFINE a == Taken(Append(s, x))
           b == Append(Taken(s), o)
<1>4. /\ a \in Seq(Forms) /\ Len(a) = Len(s) + 1
      /\ \A i \in 1 .. Len(s) + 1 : a[i] = Py!ToRust(Append(s, x)[i].object)
  BY <1>2, <1>3
<1>5. /\ Taken(s) \in Seq(Forms) /\ Len(Taken(s)) = Len(s)
      /\ \A i \in 1 .. Len(s) : Taken(s)[i] = Py!ToRust(s[i].object)
  BY <1>2
<1>6. /\ b \in Seq(Forms) /\ Len(b) = Len(s) + 1
      /\ \A i \in 1 .. Len(s) : b[i] = Taken(s)[i]
      /\ b[Len(s) + 1] = o
  <2>1. /\ Append(Taken(s), o) \in Seq(Forms) /\ Len(Append(Taken(s), o)) = Len(Taken(s)) + 1
        /\ \A i \in 1 .. Len(Taken(s)) : Append(Taken(s), o)[i] = Taken(s)[i]
        /\ Append(Taken(s), o)[Len(Taken(s)) + 1] = o
    <3>1. Taken(s) \in Seq(Forms)
      BY <1>5
    <3> QED BY ONLY <3>1, o \in Forms, AppendProperties
  <2> QED BY <2>1, <1>5
<1> HIDE DEF a, b
<1>7. ASSUME NEW i \in 1 .. Len(a) PROVE a[i] = b[i]
  <2>0. Len(s) \in Nat
    OBVIOUS
  <2>1. CASE i = Len(s) + 1
    BY <2>1, <1>1, <1>3, <1>4, <1>6
  <2>2. CASE i # Len(s) + 1
    <3>1. i \in 1 .. Len(s)
      BY <2>0, <2>2, <1>4
    <3> QED BY <3>1, <1>3, <1>4, <1>5, <1>6
  <2> QED BY <2>1, <2>2
<1>8. a = b
  BY <1>4, <1>6, <1>7, SeqEqual
<1> QED BY <1>0, <1>3, <1>5, <1>8 DEF a, b

\* A finite set of numbers has a greatest element.
LEMMA GreatestIn ==
  ASSUME NEW S, S \subseteq Int, IsFiniteSet(S), S # {}
  PROVE  Py!Max(S) \in S
<1> DEFINE Above(k) == {y \in S : y > k}
           T == {Above(k) : k \in S}
<1>1. ASSUME NEW k \in S PROVE Above(k) \in FiniteSubsetsOf(S)
  BY FS_Subset, Above(k) \in SUBSET S DEF FiniteSubsetsOf
<1>2. T \subseteq FiniteSubsetsOf(S) /\ T # {}
  BY <1>1
<1>3. PICK A \in T : \A B \in T : <<B, A>> \notin StrictSubsetOrdering(S)
  <2> HIDE DEF T
  <2> QED BY ONLY <1>2, WFMin, FS_StrictSubsetOrderingWellFounded
<1>4. PICK m \in S : A = Above(m)
  OBVIOUS
<1>5. ASSUME NEW y \in S, y > m PROVE FALSE
  <2>1. Above(y) \in T
    OBVIOUS
  <2>2. ~(y > y) /\ \A k \in S : k > y => k > m
    BY <1>5
  <2>3. y \in Above(m) /\ y \notin Above(y) /\ Above(y) \subseteq Above(m)
    BY <1>5, <2>2
  <2>4. <<Above(y), A>> \in StrictSubsetOrdering(S)
    BY <1>4, <2>3 DEF StrictSubsetOrdering
  <2> QED BY <1>3, <2>1, <2>4
<1>6. m \in S /\ \A y \in S : m >= y
  BY <1>5
<1> QED BY <1>6 DEF Py!Max

\* A commit of what Python staged is the commit of the objects.
LEMMA FlushCrosses ==
  ASSUME NEW table, NEW s \in Seq(Puts),
         \A h \in Hashes : table[h] # None => Crossed(table[h], h)
  PROVE  LET new == Py!PyFlush(table, s) IN
         /\ \A h \in Hashes : table[h] # None => new[h] # None
         /\ \A h \in Hashes : new[h] # None => Crossed(new[h], h)
         /\ Shown(new) = Py!C!Flush(Shown(table), Taken(s))
<1> DEFINE new == Py!PyFlush(table, s)
           Hits(h) == {i \in DOMAIN s : s[i].hash = h}
<1>1. \A i \in DOMAIN s : s[i] \in Puts
  BY ElementOfSeq
<1>2. ASSUME NEW h \in Hashes, Hits(h) # {} PROVE Py!Max(Hits(h)) \in Hits(h)
  <2>1. Hits(h) \in SUBSET (1 .. Len(s)) /\ Len(s) \in Nat
    OBVIOUS
  <2> HIDE DEF Hits
  <2>2. IsFiniteSet(1 .. Len(s))
    BY <2>1, FS_Interval
  <2>3. IsFiniteSet(Hits(h)) /\ Hits(h) \subseteq Int
    BY <2>1, <2>2, FS_Subset
  <2> QED BY <1>2, <2>3, GreatestIn
<1>3. ASSUME NEW h \in Hashes
      PROVE  new[h] = IF Hits(h) = {} THEN table[h] ELSE s[Py!Max(Hits(h))].object
  BY DEF Py!PyFlush
<1>4. ASSUME NEW h \in Hashes, Hits(h) # {}
      PROVE  Crossed(new[h], h) /\ new[h] # None
  <2>1. PICK i \in DOMAIN s : i = Py!Max(Hits(h)) /\ s[i].hash = h
    BY <1>2, <1>4
  <2>2. new[h] = s[i].object
    BY <1>3, <1>4, <2>1
  <2>3. Crossed(s[i].object, h)
    BY <1>1, <2>1, PutCrosses
  <2> QED BY <2>2, <2>3, CrossedBack
<1>5. \A h \in Hashes : {i \in DOMAIN Taken(s) : IdentityOf[Taken(s)[i]] = h} = Hits(h)
  <2>1. DOMAIN Taken(s) = DOMAIN s /\ \A i \in DOMAIN s : Taken(s)[i] = Py!ToRust(s[i].object)
    BY DEF Taken
  <2>2. \A i \in DOMAIN s : IdentityOf[Taken(s)[i]] = s[i].hash
    BY <1>1, <2>1, PutCrosses
  <2> QED BY <2>1, <2>2
<1>6. ASSUME NEW h \in Hashes
      PROVE  (IF new[h] = None THEN None ELSE Py!ToRust(new[h]))
               = IF Hits(h) = {} THEN Shown(table)[h] ELSE Taken(s)[Py!Max(Hits(h))]
  <2>1. CASE Hits(h) = {}
    BY <2>1, <1>3 DEF Shown
  <2>2. CASE Hits(h) # {}
    <3>1. PICK i \in DOMAIN s : i = Py!Max(Hits(h))
      BY <1>2, <2>2
    <3>2. new[h] = s[i].object /\ new[h] # None
      BY <1>3, <1>4, <2>2, <3>1
    <3>3. Taken(s)[i] = Py!ToRust(s[i].object)
      BY DEF Taken
    <3> QED BY <2>2, <3>1, <3>2, <3>3
  <2> QED BY <2>1, <2>2
<1>7. Py!C!Flush(Shown(table), Taken(s))
        = [h \in Hashes |-> IF Hits(h) = {} THEN Shown(table)[h] ELSE Taken(s)[Py!Max(Hits(h))]]
  <2>1. \A S : Py!C!Max(S) = Py!Max(S)
    BY DEF Py!C!Max, Py!Max
  <2> HIDE DEF Hits
  <2> QED BY <1>5, <2>1 DEF Py!C!Flush
<1>8. Shown(new) = Py!C!Flush(Shown(table), Taken(s))
  <2> HIDE DEF Hits, new
  <2> QED BY <1>6, <1>7 DEF Shown
<1>9. \A h \in Hashes : table[h] # None => new[h] # None
  BY <1>3, <1>4
<1>10. \A h \in Hashes : new[h] # None => Crossed(new[h], h)
  BY <1>3, <1>4
<1> QED BY <1>8, <1>9, <1>10

USE DEF pyObjects, pyRefs, pyTx, pyStaged, walk

\* An empty Python store.
LEMMA PyInit == Py!Init => PyInv
<1> SUFFICES ASSUME Py!Init PROVE PyInv
  OBVIOUS
<1>1. \A h \in Hashes : pyObjects[h] = None
  BY DEF Py!Init
<1>2. pyStaged \in [Txs -> Seq(Puts)] /\ pyTx \in [Txs -> TxLives]
  BY DEF Py!Init, TxLives
<1>3. walk.end = "idle"
  BY DEF Py!Init, Py!Idle
<1> QED BY <1>1, <1>2, <1>3 DEF PyInv, Bridged, WalksOn

\* What a get returns.
LEMMA GotBack ==
  ASSUME PyInv, NEW h \in Hashes, pyObjects[h] # None
  PROVE  /\ Py!Get(h) = Py!ToRust(pyObjects[h]) /\ Py!Get(h) \in Forms /\ Py!Get(h) # None
         /\ IdentityOf[Py!Get(h)] = h /\ pyObjects[h] = Py!FromRust(Py!Get(h))
         /\ Py!Get(h).links \in Seq(Hashes) /\ Py!LinksOf(h) = Among(Py!Get(h).links)
<1>1. Crossed(pyObjects[h], h)
  BY DEF PyInv, Bridged
<1>2. Py!Get(h) = Py!ToRust(pyObjects[h])
  BY DEF Py!Get
<1>3. /\ Py!Get(h) \in Forms /\ IdentityOf[Py!Get(h)] = h /\ Py!Get(h) # None
      /\ pyObjects[h] = Py!FromRust(Py!Get(h))
  BY <1>1, <1>2, CrossedBack
<1>4. Py!Get(h).links \in Seq(Hashes)
  BY <1>3, FormsAreObjects DEF HasShape
<1>5. Py!LinksOf(h) = Among(Py!Get(h).links)
  BY DEF Py!LinksOf, Among
<1> QED BY <1>2, <1>3, <1>4, <1>5

\* The invariant says what BridgeIsFaithful does.
LEMMA BridgeHolds == PyInv => Py!BridgeIsFaithful
<1> SUFFICES ASSUME PyInv PROVE Py!BridgeIsFaithful
  OBVIOUS
<1>1. \A h \in Hashes : pyObjects[h] # None => Py!Get(h) \in Forms /\ IdentityOf[Py!Get(h)] = h
  BY GotBack
<1>2. ASSUME NEW o \in Forms, o.kind = "element", Py!Get(IdentityOf[o]) = o
      PROVE  <<IdentityOf[o], o>> \in Py!GetByInclusiveHash(o.inclusive)
  <2> DEFINE h == IdentityOf[o]
  <2>1. h \in Hashes /\ o # None
    BY FormsAreObjects
  <2>2. pyObjects[h] # None
    BY <1>2, <2>1 DEF Py!Get
  <2>3. pyObjects[h] = Py!FromRust(o)
    BY <1>2, <2>1, <2>2, GotBack
  <2>4. Py!FromRust(o).kind = "element" /\ Py!FromRust(o).inner = Py!FromElement(o)
    BY <1>2 DEF Py!FromRust, Py!Leaf
  <2>5. Py!FromElement(o).inclusive_hash = o.inclusive
    BY DEF Py!FromElement
  <2>6. pyObjects[h].kind = "element" /\ pyObjects[h].inner.inclusive_hash = o.inclusive
    BY <2>3, <2>4, <2>5
  <2> HIDE DEF h
  <2>7. <<h, Py!Get(h)>> \in Py!GetByInclusiveHash(o.inclusive)
    BY <2>1, <2>2, <2>6 DEF Py!GetByInclusiveHash
  <2> QED BY <1>2, <2>7 DEF h
<1>3. ASSUME walk.end = "done"
      PROVE  /\ \A i, j \in DOMAIN walk.yielded : walk.yielded[i] = walk.yielded[j] => i = j
             /\ walk.visited = {walk.root} \union UNION {Py!LinksOf(h) : h \in walk.visited}
  <2>1. NoRepeats(walk.yielded)
    BY <1>3 DEF PyInv, WalksOn
  <2>2. walk.visited \union Among(walk.stack)
          = {walk.root} \union UNION {Py!LinksOf(h) : h \in walk.visited}
    BY <1>3 DEF PyInv, WalksOn
  <2>3. Among(walk.stack) = {}
    BY <1>3 DEF PyInv, WalksOn, Among
  <2> QED BY <2>1, <2>2, <2>3 DEF NoRepeats
<1> QED BY <1>1, <1>2, <1>3 DEF Py!BridgeIsFaithful, Py!GetReturnsWhatWasPut, Py!SubtreeIsClosure

\* A walk goes on over a store that keeps what it has.
LEMMA WalkKept ==
  ASSUME PyInv, Bridged', UNCHANGED walk,
         \A h \in Hashes : pyObjects[h] # None => pyObjects'[h] # None
  PROVE  PyInv'
<1>1. CASE walk.end = "idle"
  BY <1>1 DEF PyInv, WalksOn
<1>2. CASE walk.end # "idle"
  <2>1. /\ walk \in Walks /\ \A h \in walk.visited : pyObjects[h] # None
        /\ NoRepeats(walk.yielded) /\ Among(walk.yielded) \subseteq walk.visited
        /\ walk.visited \union Among(walk.stack)
             = {walk.root} \union UNION {Py!LinksOf(h) : h \in walk.visited}
        /\ walk.end = "done" => walk.stack = <<>>
    BY <1>2 DEF PyInv, WalksOn
  <2>2. walk.visited \subseteq Hashes
    BY <2>1 DEF Walks
  <2>3. ASSUME NEW h \in walk.visited PROVE Py!LinksOf(h)' = Py!LinksOf(h) /\ pyObjects'[h] # None
    <3>1. h \in Hashes /\ pyObjects[h] # None /\ pyObjects'[h] # None
      BY <2>1, <2>2
    <3>2. Crossed(pyObjects[h], h) /\ Crossed(pyObjects'[h], h)
      BY <3>1 DEF PyInv, Bridged
    <3>3. /\ Py!ToRust(pyObjects[h]) \in Forms /\ IdentityOf[Py!ToRust(pyObjects[h])] = h
          /\ Py!ToRust(pyObjects'[h]) \in Forms /\ IdentityOf[Py!ToRust(pyObjects'[h])] = h
      BY <3>2, CrossedBack
    <3>4. Py!ToRust(pyObjects'[h]).links = Py!ToRust(pyObjects[h]).links
      BY <3>3, FormsAreObjects
    <3>5. Py!Get(h) = Py!ToRust(pyObjects[h]) /\ Py!Get(h)' = Py!ToRust(pyObjects'[h])
      BY <3>1 DEF Py!Get
    <3> HIDE DEF pyObjects
    <3> QED BY <3>1, <3>4, <3>5 DEF Py!LinksOf
  <2>4. {Py!LinksOf(h)' : h \in walk.visited} = {Py!LinksOf(h) : h \in walk.visited}
    BY <2>3
  <2>5. walk' = walk
    OBVIOUS
  <2> HIDE DEF walk
  <2>6. WalksOn'
    BY <2>1, <2>3, <2>4, <2>5 DEF WalksOn
  <2> QED BY <2>6 DEF PyInv
<1> QED BY <1>1, <1>2

\* The union of one set more.
LEMMA UnionAdds ==
  ASSUME NEW A, NEW B
  PROVE  UNION (A \union {B}) = (UNION A) \union B
<1> DEFINE T == A \union {B}
<1>1. A \subseteq T /\ B \in T /\ \A S \in T : S \in A \/ S = B
  OBVIOUS
<1> HIDE DEF T
<1>2. ASSUME NEW x, x \in UNION T PROVE x \in (UNION A) \union B
  <2>1. PICK S \in T : x \in S
    BY <1>2
  <2> QED BY <1>1, <2>1
<1>3. ASSUME NEW x, x \in UNION A PROVE x \in UNION T
  <2>1. PICK S \in A : x \in S
    BY <1>3
  <2> QED BY <1>1, <2>1
<1>4. \A x \in B : x \in UNION T
  BY <1>1
<1>5. UNION T = (UNION A) \union B
  BY <1>2, <1>3, <1>4
<1> QED BY <1>5 DEF T

\* A walk starts, goes on and ends.
LEMMA WalkGoesOn ==
  ASSUME PyInv, (\E h \in Hashes : Py!StartWalk(h)) \/ Py!Visit \/ Py!EndWalk
  PROVE  PyInv' /\ UNCHANGED Py!store
<1>0. UNCHANGED <<pyObjects, pyRefs, pyTx, pyStaged>>
  BY DEF Py!StartWalk, Py!Visit, Py!EndWalk, Py!store
<1>1. Bridged'
  BY <1>0 DEF PyInv, Bridged
<1>2. \A h : Py!LinksOf(h)' = Py!LinksOf(h)
  BY <1>0 DEF Py!LinksOf, Py!Get
<1>3. ASSUME NEW h \in Hashes, Py!StartWalk(h) PROVE WalksOn'
  <2>1. walk' = [root |-> h, stack |-> <<h>>, visited |-> {}, yielded |-> <<>>, end |-> "running"]
    BY <1>3 DEF Py!StartWalk, Py!Idle
  <2>2. Among(<<h>>) = {h} /\ NoRepeats(<<>>) /\ Among(<<>>) = {}
    BY DEF Among, NoRepeats
  <2>3. walk' \in Walks
    BY <2>1 DEF Walks
  <2>4. /\ walk'.root = h /\ walk'.stack = <<h>> /\ walk'.visited = {} /\ walk'.yielded = <<>>
        /\ walk'.end = "running"
    BY <2>1
  <2>5. UNION {Py!LinksOf(g)' : g \in walk'.visited} = {}
    BY <2>4
  <2> HIDE DEF walk, pyObjects
  <2> QED BY <2>2, <2>3, <2>4, <2>5 DEF WalksOn
<1>4. ASSUME walk.end = "running"
      PROVE  /\ walk \in Walks /\ \A h \in walk.visited : pyObjects[h] # None
             /\ NoRepeats(walk.yielded) /\ Among(walk.yielded) \subseteq walk.visited
             /\ walk.visited \union Among(walk.stack)
                  = {walk.root} \union UNION {Py!LinksOf(h) : h \in walk.visited}
  BY <1>4 DEF PyInv, WalksOn
<1>5. ASSUME Py!EndWalk PROVE WalksOn'
  <2>1. walk.end = "running" /\ walk.stack = <<>> /\ walk' = [walk EXCEPT !.end = "done"]
    BY <1>5 DEF Py!EndWalk
  <2>2. walk \in Walks
    BY <1>4, <2>1
  <2>3. /\ walk' \in Walks /\ walk'.root = walk.root /\ walk'.stack = walk.stack
        /\ walk'.visited = walk.visited /\ walk'.yielded = walk.yielded
    BY <2>1, <2>2 DEF Walks
  <2>4. {Py!LinksOf(h)' : h \in walk'.visited} = {Py!LinksOf(h) : h \in walk.visited}
    BY <1>2, <2>3
  <2>5. pyObjects' = pyObjects
    BY <1>0
  <2>6. walk'.visited \union Among(walk'.stack)
          = {walk'.root} \union UNION {Py!LinksOf(h)' : h \in walk'.visited}
    BY <1>4, <2>1, <2>3, <2>4
  <2> HIDE DEF walk, pyObjects
  <2> QED BY <1>4, <2>1, <2>3, <2>5, <2>6 DEF WalksOn
<1>6. ASSUME Py!Visit PROVE WalksOn'
  <2>1. walk.end = "running" /\ walk.stack # <<>>
    BY <1>6 DEF Py!Visit
  <2> DEFINE f == SubSeq(walk.stack, 1, Len(walk.stack) - 1)
             top == walk.stack[Len(walk.stack)]
  <2>2. /\ walk \in Walks /\ \A h \in walk.visited : pyObjects[h] # None
        /\ NoRepeats(walk.yielded) /\ Among(walk.yielded) \subseteq walk.visited
        /\ walk.visited \union Among(walk.stack)
             = {walk.root} \union UNION {Py!LinksOf(h) : h \in walk.visited}
    BY <1>4, <2>1
  <2>3. /\ walk.root \in Hashes /\ walk.stack \in Seq(Hashes) /\ walk.visited \subseteq Hashes
        /\ walk.yielded \in Seq(Hashes)
    BY <2>2 DEF Walks
  <2>4. f \in Seq(Hashes) /\ top \in Hashes /\ Among(walk.stack) = Among(f) \union {top}
    BY <2>1, <2>3, FrontAndLast
  <2>5. walk' = IF top \in walk.visited THEN [walk EXCEPT !.stack = f]
                ELSE IF Py!Get(top) = None THEN [walk EXCEPT !.end = "not found"]
                ELSE [walk EXCEPT !.visited = @ \union {top},
                                  !.stack = f \o Py!Get(top).links,
                                  !.yielded = Append(@, top)]
    BY <1>6 DEF Py!Visit, Py!Top, Py!Below
  <2> HIDE DEF f, top
  <2>6. pyObjects' = pyObjects
    BY <1>0
  <2>7. CASE top \in walk.visited
    <3>1. /\ walk' \in Walks /\ walk'.root = walk.root /\ walk'.stack = f /\ walk'.end = "running"
          /\ walk'.visited = walk.visited /\ walk'.yielded = walk.yielded
      BY <2>1, <2>2, <2>4, <2>5, <2>7 DEF Walks
    <3>2. {Py!LinksOf(h)' : h \in walk'.visited} = {Py!LinksOf(h) : h \in walk.visited}
      BY <1>2, <3>1
    <3>3. walk'.visited \union Among(walk'.stack)
            = {walk'.root} \union UNION {Py!LinksOf(h)' : h \in walk'.visited}
      BY <2>2, <2>4, <2>7, <3>1, <3>2
    <3> HIDE DEF walk, pyObjects
    <3> QED BY <2>2, <2>6, <3>1, <3>3 DEF WalksOn
  <2>8. CASE top \notin walk.visited /\ Py!Get(top) = None
    <3>1. /\ walk' \in Walks /\ walk'.root = walk.root /\ walk'.stack = walk.stack
          /\ walk'.visited = walk.visited /\ walk'.yielded = walk.yielded /\ walk'.end = "not found"
      BY <2>2, <2>5, <2>8 DEF Walks
    <3>2. {Py!LinksOf(h)' : h \in walk'.visited} = {Py!LinksOf(h) : h \in walk.visited}
      BY <1>2, <3>1
    <3>3. walk'.visited \union Among(walk'.stack)
            = {walk'.root} \union UNION {Py!LinksOf(h)' : h \in walk'.visited}
      BY <2>2, <3>1, <3>2
    <3> HIDE DEF walk, pyObjects
    <3> QED BY <2>2, <2>6, <3>1, <3>3 DEF WalksOn
  <2>9. CASE top \notin walk.visited /\ Py!Get(top) # None
    <3>0. pyObjects[top] # None
      BY <2>9 DEF Py!Get
    <3>1. Py!Get(top).links \in Seq(Hashes) /\ Py!LinksOf(top) = Among(Py!Get(top).links)
      BY <2>4, <3>0, GotBack
    <3> DEFINE links == Py!Get(top).links
    <3> HIDE DEF links
    <3>2. f \o links \in Seq(Hashes) /\ Among(f \o links) = Among(f) \union Py!LinksOf(top)
      BY <2>4, <3>1, AmongConcat DEF links
    <3>3. /\ Append(walk.yielded, top) \in Seq(Hashes)
          /\ Among(Append(walk.yielded, top)) = Among(walk.yielded) \union {top}
          /\ NoRepeats(Append(walk.yielded, top))
      BY <2>2, <2>3, <2>4, <2>9, AmongAppend
    <3>4. /\ walk' \in Walks /\ walk'.root = walk.root /\ walk'.stack = f \o links
          /\ walk'.visited = walk.visited \union {top} /\ walk'.yielded = Append(walk.yielded, top)
          /\ walk'.end = "running"
      <4>1. walk' = [walk EXCEPT !.visited = @ \union {top}, !.stack = f \o links,
                                 !.yielded = Append(@, top)]
        BY <2>5, <2>9 DEF links
      <4>2. walk.visited \union {top} \in SUBSET Hashes
        BY <2>3, <2>4
      <4> QED BY <2>1, <2>2, <3>2, <3>3, <4>1, <4>2 DEF Walks
    <3>5. UNION {Py!LinksOf(h)' : h \in walk'.visited}
            = (UNION {Py!LinksOf(h) : h \in walk.visited}) \union Py!LinksOf(top)
      <4>1. {Py!LinksOf(h)' : h \in walk'.visited}
              = {Py!LinksOf(h) : h \in walk.visited} \union {Py!LinksOf(top)}
        BY <1>2, <3>4
      <4> QED BY <4>1, UnionAdds
    <3>6. walk'.visited \union Among(walk'.stack)
            = {walk'.root} \union UNION {Py!LinksOf(h)' : h \in walk'.visited}
      <4> DEFINE was == UNION {Py!LinksOf(h) : h \in walk.visited}
                 now == UNION {Py!LinksOf(h)' : h \in walk'.visited}
                 new == Py!LinksOf(top)
      <4>0. now = was \union new
        BY ONLY <3>5
      <4>1. walk.visited \union Among(walk.stack) = {walk.root} \union was
        BY ONLY <2>2
      <4>2. Among(walk.stack) = Among(f) \union {top} /\ Among(walk'.stack) = Among(f) \union new
            /\ walk'.visited = walk.visited \union {top} /\ walk'.root = walk.root
        BY <2>4, <3>2, <3>4
      <4> HIDE DEF was, now, new
      <4>3. walk'.visited \union Among(walk'.stack) = {walk'.root} \union now
        BY <4>0, <4>1, <4>2
      <4> QED BY <4>3 DEF now
    <3>7. Among(walk'.yielded) \subseteq walk'.visited /\ NoRepeats(walk'.yielded)
      BY <2>2, <3>3, <3>4
    <3>8. \A h \in walk'.visited : pyObjects'[h] # None
      BY <2>2, <2>6, <3>0, <3>4
    <3> HIDE DEF walk, pyObjects
    <3> QED BY <3>4, <3>6, <3>7, <3>8 DEF WalksOn
  <2> QED BY <2>7, <2>8, <2>9
<1>7. WalksOn'
  BY <1>3, <1>5, <1>6
<1> QED BY <1>0, <1>1, <1>7 DEF PyInv, Py!store

-----------------------------------------------------------------------------
(* The steps of a store written in Python are those of the contract.       *)

\* What the contract sees.
LEMMA Seen ==
  /\ [h \in Hashes |-> Py!Get(h)] = Shown(pyObjects)
  /\ [t \in Txs |-> [i \in DOMAIN pyStaged[t] |-> Py!ToRust(pyStaged[t][i].object)]]
       = [t \in Txs |-> Taken(pyStaged[t])]
BY DEF Shown, Taken, Py!Get

\* A walk leaves the table as it is.
LEMMA WalkStutters ==
  ASSUME UNCHANGED Py!store
  PROVE  UNCHANGED Py!C!vars
BY DEF Py!store, Py!C!vars, Py!Get

\* A step that leaves the table and what is staged alone.
LEMMA OthersImplement ==
  ASSUME PyInv,
         \/ \E t \in Txs : Py!Transaction(t) \/ Py!Rollback(t)
         \/ \E r \in Refs : Py!DeleteRef(r) \/ \E h \in Hashes : Py!SetRef(r, h)
         \/ \E r \in Refs, x \in Hashes \union {None}, h \in Hashes : Py!CasRef(r, x, h)
  PROVE  PyInv' /\ (Py!C!Next \/ UNCHANGED Py!C!vars)
<1>0. pyTx \in [Txs -> TxLives]
  BY DEF PyInv, Bridged
<1>1. UNCHANGED <<pyObjects, pyStaged, walk>>
  BY DEF Py!Transaction, Py!Rollback, Py!DeleteRef, Py!SetRef, Py!CasRef
<1>2. PyInv'
  <2>1. pyTx' \in [Txs -> TxLives]
    BY <1>0 DEF Py!Transaction, Py!Rollback, Py!DeleteRef, Py!SetRef, Py!CasRef, TxLives
  <2>2. Bridged'
    BY <1>1, <2>1 DEF PyInv, Bridged
  <2> QED BY <1>1, <2>2, WalkKept
<1>3. UNCHANGED <<[h \in Hashes |-> Py!Get(h)],
                  [t \in Txs |-> [i \in DOMAIN pyStaged[t] |-> Py!ToRust(pyStaged[t][i].object)]]>>
  BY <1>1 DEF Py!Get
<1>4. ASSUME NEW t \in Txs, Py!Transaction(t) PROVE Py!C!Begin(t)
  BY <1>3, <1>4 DEF Py!Transaction, Py!C!Begin
<1>5. ASSUME NEW t \in Txs, Py!Rollback(t) PROVE Py!C!Discard(t) \/ UNCHANGED Py!C!vars
  <2>1. CASE pyTx[t] = "open"
    <3>1. pyTx' = [pyTx EXCEPT ![t] = "discarded"] /\ UNCHANGED pyRefs
      BY <1>5, <2>1 DEF Py!Rollback
    <3> QED BY <1>3, <2>1, <3>1 DEF Py!C!Discard
  <2>2. CASE pyTx[t] # "open"
    <3>1. pyTx' = pyTx /\ UNCHANGED pyRefs
      BY <1>0, <1>5, <2>2 DEF Py!Rollback
    <3> QED BY <1>3, <3>1 DEF Py!C!vars
  <2> QED BY <2>1, <2>2
<1>6. ASSUME NEW r \in Refs, Py!DeleteRef(r) PROVE Py!C!WriteRef(r, None)
  BY <1>3, <1>6 DEF Py!DeleteRef, Py!C!WriteRef
<1>7. ASSUME NEW r \in Refs, NEW h \in Hashes, Py!SetRef(r, h) PROVE Py!C!WriteRef(r, h)
  BY <1>3, <1>7 DEF Py!SetRef, Py!C!WriteRef
<1>8. ASSUME NEW r \in Refs, NEW x \in Hashes \union {None}, NEW h \in Hashes, Py!CasRef(r, x, h)
      PROVE  Py!C!WriteRef(r, h)
  BY <1>3, <1>8 DEF Py!CasRef, Py!C!WriteRef
<1> QED BY <1>2, <1>4, <1>5, <1>6, <1>7, <1>8 DEF Py!C!Next

\* A put that Python may take is a put of the contract, ...
LEMMA PutImplements ==
  ASSUME PyInv, NEW t \in Txs, NEW o \in Forms, Py!Put(t, o)
  PROVE  PyInv' /\ (Py!PythonObeys => Py!C!Next)
<1> DEFINE x == [hash |-> IdentityOf[o], object |-> Py!FromRust(o)]
<1>1. /\ pyTx[t] # "unused" /\ Len(pyStaged[t]) < MaxPuts
      /\ pyStaged' = [pyStaged EXCEPT ![t] = Append(@, x)]
      /\ UNCHANGED <<pyObjects, pyRefs, pyTx, walk>>
  BY DEF Py!Put
<1>2. pyStaged \in [Txs -> Seq(Puts)]
  BY DEF PyInv, Bridged
<1>3. pyStaged[t] \in Seq(Puts)
  BY <1>2
<1>4. /\ Append(pyStaged[t], x) \in Seq(Puts)
      /\ Len(Taken(pyStaged[t])) = Len(pyStaged[t])
      /\ Taken(Append(pyStaged[t], x)) = Append(Taken(pyStaged[t]), o)
  BY <1>3, TakenAppends
<1> HIDE DEF x
<1>5. pyStaged' \in [Txs -> Seq(Puts)]
  BY <1>1, <1>2, <1>4
<1>6. PyInv'
  <2>1. Bridged'
    BY <1>1, <1>5 DEF PyInv, Bridged
  <2> QED BY <1>1, <2>1, WalkKept
<1> DEFINE seen == [u \in Txs |-> Taken(pyStaged[u])]
<1>7. [u \in Txs |-> Taken(pyStaged'[u])] = [seen EXCEPT ![t] = Append(@, o)]
  BY <1>1, <1>2, <1>4
<1>8. [u \in Txs |-> [i \in DOMAIN pyStaged[u] |-> Py!ToRust(pyStaged[u][i].object)]] = seen
  BY Seen
<1>9. [u \in Txs |-> [i \in DOMAIN pyStaged'[u] |-> Py!ToRust(pyStaged'[u][i].object)]]
        = [u \in Txs |-> Taken(pyStaged'[u])]
  BY DEF Taken
<1>10. UNCHANGED [h \in Hashes |-> Py!Get(h)]
  BY <1>1 DEF Py!Get
<1>11. Len(seen[t]) < MaxPuts
  BY <1>1, <1>4
<1> HIDE DEF seen
<1>12. ASSUME Py!PythonObeys PROVE pyTx[t] = "open"
  <2>1. pyTx[t] \in TxLives
    BY DEF PyInv, Bridged
  <2>2. pyStaged'[t] = Append(pyStaged[t], x)
    BY <1>1, <1>2
  <2>3. Len(Append(pyStaged[t], x)) # Len(pyStaged[t])
    BY <1>3
  <2>4. pyTx[t] \notin {"committed", "discarded"}
    BY <1>12, <2>2, <2>3 DEF Py!PythonObeys
  <2> QED BY <1>1, <2>1, <2>4 DEF TxLives
<1>13. ASSUME Py!PythonObeys PROVE Py!C!Put(t, o)
  BY <1>1, <1>7, <1>8, <1>9, <1>10, <1>11, <1>12, <1>13 DEF Py!C!Put
<1> QED BY <1>6, <1>13 DEF Py!C!Next

\* ... and a commit that returns a commit, if Python then has written it all.
LEMMA CommitImplements ==
  ASSUME PyInv, NEW t \in Txs, Py!Commit(t)
  PROVE  PyInv' /\ (Py!PythonObeys => Py!C!Next \/ UNCHANGED Py!C!vars)
<1>0. pyTx \in [Txs -> TxLives]
  BY DEF PyInv, Bridged
<1>1. /\ pyTx' \in {pyTx, [pyTx EXCEPT ![t] = IF @ = "open" THEN "committed" ELSE @]}
      /\ UNCHANGED <<pyRefs, pyStaged, walk>>
  BY DEF Py!Commit
<1>2. pyStaged[t] \in Seq(Puts) /\ \A h \in Hashes : pyObjects[h] # None => Crossed(pyObjects[h], h)
  BY DEF PyInv, Bridged
<1>3. PyInv'
  <2>1. PICK n \in 0 .. Len(pyStaged[t]) : pyObjects' = Py!PyFlush(pyObjects, SubSeq(pyStaged[t], 1, n))
    BY DEF Py!Commit
  <2>2. SubSeq(pyStaged[t], 1, n) \in Seq(Puts)
    BY <1>2, <2>1
  <2>3. /\ \A h \in Hashes : pyObjects[h] # None => pyObjects'[h] # None
        /\ \A h \in Hashes : pyObjects'[h] # None => Crossed(pyObjects'[h], h)
    BY <1>2, <2>1, <2>2, FlushCrosses
  <2>4. pyTx' \in [Txs -> TxLives]
    BY <1>0, <1>1 DEF TxLives
  <2>5. Bridged'
    BY <1>1, <2>3, <2>4 DEF PyInv, Bridged
  <2> QED BY <1>1, <2>3, <2>5, WalkKept
<1> DEFINE staged == [u \in Txs |-> [i \in DOMAIN pyStaged[u] |-> Py!ToRust(pyStaged[u][i].object)]]
<1>4. staged[t] = Taken(pyStaged[t]) /\ UNCHANGED staged
  BY <1>1 DEF Taken
<1>5. ASSUME Py!PythonObeys, pyTx' = pyTx PROVE UNCHANGED Py!C!vars
  <2>1. pyObjects' = pyObjects
    BY <1>5 DEF Py!PythonObeys
  <2> QED BY <1>1, <1>5, <2>1 DEF Py!C!vars, Py!Get
<1>6. ASSUME Py!PythonObeys, pyTx' # pyTx PROVE Py!C!Commit(t)
  <2>1. pyTx[t] = "open" /\ pyTx' = [pyTx EXCEPT ![t] = "committed"]
    BY <1>0, <1>1, <1>6
  <2>2. pyTx'[t] = "committed"
    BY <1>0, <2>1
  <2>3. pyObjects' = Py!PyFlush(pyObjects, pyStaged[t])
    BY <1>6, <2>1, <2>2 DEF Py!PythonObeys
  <2>4. Shown(pyObjects') = Py!C!Flush(Shown(pyObjects), Taken(pyStaged[t]))
    BY <1>2, <2>3, FlushCrosses
  <2>5. [h \in Hashes |-> Py!Get(h)] = Shown(pyObjects)
    BY Seen
  <2>6. [h \in Hashes |-> Py!Get(h)'] = Shown(pyObjects')
    BY DEF Shown, Py!Get
  <2> HIDE DEF staged
  <2> QED BY <1>1, <1>4, <2>1, <2>4, <2>5, <2>6 DEF Py!C!Commit, staged
<1> QED BY <1>3, <1>5, <1>6 DEF Py!C!Next

\* Every step keeps the invariant, and one in which Python obeys is a step of
\* the contract.
LEMMA PySteps ==
  ASSUME PyInv, Py!Next
  PROVE  PyInv' /\ Py!KeepsTheContract
<1>1. CASE (\E h \in Hashes : Py!StartWalk(h)) \/ Py!Visit \/ Py!EndWalk
  BY <1>1, WalkGoesOn, WalkStutters DEF Py!KeepsTheContract
<1>2. CASE \/ \E t \in Txs : Py!Transaction(t) \/ Py!Rollback(t)
           \/ \E r \in Refs : Py!DeleteRef(r) \/ \E h \in Hashes : Py!SetRef(r, h)
           \/ \E r \in Refs, x \in Hashes \union {None}, h \in Hashes : Py!CasRef(r, x, h)
  BY <1>2, OthersImplement DEF Py!KeepsTheContract
<1>3. CASE \E t \in Txs : Py!Commit(t)
  BY <1>3, CommitImplements DEF Py!KeepsTheContract
<1>4. CASE \E t \in Txs, o \in Forms : Py!Put(t, o)
  BY <1>4, PutImplements DEF Py!KeepsTheContract
<1> QED BY <1>1, <1>2, <1>3, <1>4 DEF Py!Next, Py!KeepsTheContract

\* What is put into a store written in Python comes back as it was put, in
\* every field that a hash covers and in the inclusive hash, and a subtree
\* that ends well is whole, whatever is stored while it is walked and whatever
\* Python makes of its transactions (py_store.rs, py_objects.rs).
THEOREM PythonIsFaithful == MCSpec => []BridgeIsFaithful
<1> DEFINE Inv0 == tool = "python" => PyInv
<1>1. MCInit => Inv0
  BY PyInit DEF MCInit
<1>2. Inv0 /\ [MCNext]_<<tool, registers, vars>> => Inv0'
  <2> SUFFICES ASSUME Inv0, [MCNext]_<<tool, registers, vars>>, tool' = "python"
               PROVE  PyInv'
    OBVIOUS
  <2>1. CASE MCNext
    BY <2>1, PySteps DEF MCNext, Others
  <2>2. CASE UNCHANGED <<tool, registers, vars>>
    <3>1. PyInv /\ UNCHANGED <<pyObjects, pyRefs, pyTx, pyStaged, walk>>
      BY <2>2 DEF registers
    <3>2. Bridged'
      BY <3>1 DEF PyInv, Bridged
    <3> QED BY <3>1, <3>2, WalkKept
  <2> QED BY <2>1, <2>2
<1>3. Inv0 => BridgeIsFaithful
  BY BridgeHolds DEF BridgeIsFaithful
<1> QED BY <1>1, <1>2, <1>3, PTL DEF MCSpec

\* Every step in which the Python object does what the storage traits ask of it
\* is one that their contract allows, or leaves what the contract speaks of
\* alone, with the objects as they come back to Rust; also after steps in
\* which it did not (store/mod.rs, py_store.rs).
THEOREM PythonKeepsTheContract == MCSpec => PythonIsStore
<1> DEFINE Inv0 == tool = "python" => PyInv
<1>1. MCInit => Inv0
  BY PyInit DEF MCInit
<1>2. Inv0 /\ [MCNext]_<<tool, registers, vars>>
        => Inv0' /\ [tool = "python" => Py!KeepsTheContract]_<<tool, registers, vars>>
  <2> SUFFICES ASSUME Inv0, [MCNext]_<<tool, registers, vars>>
               PROVE  Inv0' /\ [tool = "python" => Py!KeepsTheContract]_<<tool, registers, vars>>
    OBVIOUS
  <2>1. CASE MCNext
    BY <2>1, PySteps DEF MCNext, Others
  <2>2. CASE UNCHANGED <<tool, registers, vars>>
    <3>1. UNCHANGED <<tool, pyObjects, pyRefs, pyTx, pyStaged, walk>>
      BY <2>2 DEF registers
    <3>2. ASSUME PyInv PROVE PyInv'
      <4>1. Bridged'
        BY <3>1, <3>2 DEF PyInv, Bridged
      <4> QED BY <3>1, <3>2, <4>1, WalkKept
    <3> QED BY <2>2, <3>1, <3>2
  <2> QED BY <2>1, <2>2
<1> QED BY <1>1, <1>2, PTL DEF MCSpec, PythonIsStore

-----------------------------------------------------------------------------
(* The storage traits over the protocol.  The variables of RemoteStore, by *)
(* their names.                                                            *)
rpcStored == r1
rpcRefs == r2
rpcCalls == r3
inbox == r4
serving == r5
subscribed == r6
outbox == r7
notes == r8
log == r9

Held == Nodes \union {None}
Values == Held \union BOOLEAN \union [Refs -> Held]
AnswerKinds ==
  {"RepositoryList", "Object", "Contains", "ObjectWithHash", "SubtreeEnd", "Ref", "RefSet",
   "RefDeleted", "RefList", "CasResult"}
Updates == [kind : {"RefUpdated"}, ref : Refs, old : Held, new : Held, by : Clients]
Items == [id : Nat, kind : {"SubtreeItem"}, value : Nodes]
Endings == [id : Nat, kind : AnswerKinds \union {"Error"}, value : Values]
Made ==
  [client : Clients, msg : Requests, status : {"waiting", "ok", "failed"}, value : Values,
   items : Seq(Nodes), known : SUBSET Nodes, from : Nat, till : Nat]
Works ==
  [id : Nat, msg : Requests, visited : SUBSET Nodes, items : Seq(Items), old : Held, stack : Seq(Nodes)]

RpcTypes ==
  /\ rpcStored \subseteq Nodes /\ rpcRefs \in [Refs -> Held] /\ rpcCalls \in Seq(Made)
  /\ inbox \in [Clients -> Seq([id : Nat, msg : Requests])]
  /\ serving \in [Clients -> Works \union {None}] /\ subscribed \subseteq Clients
  /\ outbox \in [Clients -> Seq(Updates \union Items \union Endings)]
  /\ notes \in [Clients -> Seq(Updates)]
  /\ log \in Seq([id : Nat, ref : Refs, new : Held])

\* The log is the history of the refs.
Logged ==
  /\ \A r \in Refs : rpcRefs[r] = Rpc!ValueAfter(r, Len(log))
  /\ \A k \in DOMAIN log : log[k].id \in DOMAIN rpcCalls
  /\ \A i \in DOMAIN rpcCalls :
       /\ rpcCalls[i].from <= Len(log) /\ rpcCalls[i].till <= Len(log)
       /\ rpcCalls[i].known \subseteq rpcStored

\* The value answers the i-th call, made when the log was rpcCalls[i].from
\* long, once it is `till` long.
Right(i, value, till) ==
  LET m == rpcCalls[i].msg
      from == rpcCalls[i].from
  IN  /\ m.kind = "GetRef" => \E k \in from .. till : value = Rpc!ValueAfter(m.arg, k)
      /\ m.kind = "ListRefs" =>
           \E k \in from .. till : \A r \in Refs : value[r] = Rpc!ValueAfter(r, k)
      /\ m.kind \in {"Get", "GetByInclusiveHash"} =>
           IF value = None THEN m.arg \notin rpcCalls[i].known ELSE value = m.arg /\ value \in rpcStored
      /\ m.kind = "Contains" =>
           IF value THEN m.arg \in rpcStored ELSE m.arg \notin rpcCalls[i].known
      /\ m.kind \in Rpc!RefWrites =>
           IF m.kind = "CasRef" /\ ~value
           THEN Rpc!ChangesBy(i) = {} /\ \E k \in from .. till : Rpc!ValueAfter(m.arg, k) # m.expected
           ELSE \E k \in (from .. till) \ {from} :
                  /\ Rpc!ChangesBy(i) = {k} /\ log[k].new = m.new
                  /\ m.kind = "CasRef" => Rpc!ValueAfter(m.arg, k - 1) = m.expected

Finished ==
  \A i \in DOMAIN rpcCalls :
    /\ rpcCalls[i].status = "failed" => Rpc!ChangesBy(i) = {}
    /\ rpcCalls[i].status = "ok" =>
         /\ Right(i, rpcCalls[i].value, rpcCalls[i].till)
         /\ rpcCalls[i].msg.kind = "Subtree" =>
              /\ NoRepeats(rpcCalls[i].items)
              /\ Among(rpcCalls[i].items) = Rpc!Reachable(rpcCalls[i].msg.arg)

\* The i-th call is of this client and waits.
Outstanding(i, c) == i \in DOMAIN rpcCalls /\ rpcCalls[i].client = c /\ rpcCalls[i].status = "waiting"

Says(m, i) == m.kind # "RefUpdated" /\ m.id = i

\* The server has not acted on the message yet.
Open(i, c, m) ==
  /\ Outstanding(i, c) /\ rpcCalls[i].msg = m /\ rpcCalls[i].items = <<>> /\ Rpc!ChangesBy(i) = {}
  /\ \A k \in DOMAIN outbox[c] : ~Says(outbox[c][k], i)

Asking(c) ==
  /\ \A j \in DOMAIN inbox[c] :
       /\ Open(inbox[c][j].id, c, inbox[c][j].msg)
       /\ \A k \in DOMAIN inbox[c] : inbox[c][k].id = inbox[c][j].id => k = j
       /\ serving[c] # None => inbox[c][j].id # serving[c].id

\* A walk is among what its root reaches, and has not lost any of it.
WalksIn(s) ==
  IF s.msg.kind # "Subtree" THEN s.items = <<>>
  ELSE /\ \A j \in DOMAIN s.items : s.items[j].id = s.id
       /\ \A j, k \in DOMAIN s.items : s.items[j].value = s.items[k].value => j = k
       /\ s.visited = {s.items[j].value : j \in DOMAIN s.items}
       /\ s.msg.arg \in s.visited \union Among(s.stack)
       /\ s.visited \union Among(s.stack) \subseteq Rpc!Reachable(s.msg.arg)
       /\ \A h \in s.visited : Among(Children[h]) \subseteq s.visited \union Among(s.stack)

Served(c) ==
  serving[c] # None => Open(serving[c].id, c, serving[c].msg) /\ WalksIn(serving[c])

\* The k-th message of c ends the subtree of i: `full` is all of it, of which
\* the call has had its items and the rest is in the n messages before.
Rest(c, k, i, full, n) ==
  LET had == Len(rpcCalls[i].items) IN
  /\ n \in 0 .. k - 1 /\ Len(full) = had + n
  /\ NoRepeats(full) /\ Among(full) = Rpc!Reachable(rpcCalls[i].msg.arg)
  /\ \A j \in 1 .. had : rpcCalls[i].items[j] = full[j]
  /\ \A j \in 1 .. k - 1 : Says(outbox[c][j], i) <=> j >= k - n
  /\ \A j \in k - n .. k - 1 : outbox[c][j].kind = "SubtreeItem" /\ outbox[c][j].value = full[had + j - (k - n) + 1]

\* What is sent but not read is right.
SentAt(c, k) ==
  LET m == outbox[c][k] IN
  /\ m.kind = "RefUpdated" => m.by # c
  /\ m.kind # "RefUpdated" => Outstanding(m.id, c)
  /\ m.kind \notin {"RefUpdated", "SubtreeItem"} =>
       /\ \A j \in k + 1 .. Len(outbox[c]) : ~Says(outbox[c][j], m.id)
       /\ m.kind = "Error" => Rpc!ChangesBy(m.id) = {}
       /\ m.kind # "Error" =>
            m.kind = Rpc!Accepts[rpcCalls[m.id].msg.kind] /\ Right(m.id, m.value, Len(log))
       /\ m.kind = "SubtreeEnd" =>
            \E full \in Seq(Nodes), n \in 0 .. k - 1 : Rest(c, k, m.id, full, n)

Sent(c) == \A k \in DOMAIN outbox[c] : SentAt(c, k)

UpdatesIn(s) == {k \in DOMAIN s : s[k].kind = "RefUpdated"}

Noted(c) ==
  /\ \A k \in DOMAIN notes[c] : notes[c][k].by # c
  /\ Cardinality(UpdatesIn(outbox[c])) + Len(notes[c]) <= Len(log)

RpcInv == RpcTypes /\ Logged /\ Finished /\ \A c \in Clients : Asking(c) /\ Served(c) /\ Sent(c) /\ Noted(c)

USE DEF rpcStored, rpcRefs, rpcCalls, inbox, serving, subscribed, outbox, notes, log

\* What a step does to the history, and what it leaves of a call.
Grows ==
  /\ rpcStored \subseteq rpcStored' /\ Len(log) <= Len(log')
  /\ \A k \in DOMAIN log : log'[k] = log[k]
SameChanges(i) == Rpc!ChangesBy(i)' = Rpc!ChangesBy(i)
SameCall(i) == i \in DOMAIN rpcCalls' /\ rpcCalls'[i] = rpcCalls[i] /\ SameChanges(i)

\* A finite set of integers has a greatest element.
LEMMA HasGreatest ==
  ASSUME NEW S, S \subseteq Int, IsFiniteSet(S), S # {}
  PROVE  \E m \in S : \A y \in S : m >= y
<1> DEFINE Above(k) == {y \in S : y > k}
           T == {Above(k) : k \in S}
<1>1. ASSUME NEW k \in S PROVE Above(k) \in FiniteSubsetsOf(S)
  BY FS_Subset, Above(k) \in SUBSET S DEF FiniteSubsetsOf
<1>2. T \subseteq FiniteSubsetsOf(S) /\ T # {}
  BY <1>1
<1>3. PICK A \in T : \A B \in T : <<B, A>> \notin StrictSubsetOrdering(S)
  <2> HIDE DEF T
  <2> QED BY ONLY <1>2, WFMin, FS_StrictSubsetOrderingWellFounded
<1>4. PICK m \in S : A = Above(m)
  OBVIOUS
<1>5. ASSUME NEW y \in S, y > m PROVE FALSE
  <2>1. Above(y) \in T
    OBVIOUS
  <2>2. ~(y > y) /\ \A k \in S : k > y => k > m
    BY <1>5
  <2>3. y \in Above(m) /\ y \notin Above(y) /\ Above(y) \subseteq Above(m)
    BY <1>5, <2>2
  <2>4. <<Above(y), A>> \in StrictSubsetOrdering(S)
    BY <1>4, <2>3 DEF StrictSubsetOrdering
  <2> QED BY <1>3, <2>1, <2>4
<1> QED BY <1>5

\* The last of some of the first n changes.
LEMMA LastChange ==
  ASSUME NEW n \in Nat, NEW S, S \subseteq 1 .. n, S # {}
  PROVE  /\ (CHOOSE j \in S : \A x \in S : x <= j) \in S
         /\ \A x \in S : x <= (CHOOSE j \in S : \A y \in S : y <= j)
<1>1. S \subseteq Int
  OBVIOUS
<1>2. IsFiniteSet(1 .. n)
  BY ONLY n \in Nat, FS_Interval
<1>3. IsFiniteSet(S)
  BY <1>2, FS_Subset
<1>4. \E j \in S : \A x \in S : j >= x
  BY <1>1, <1>3, HasGreatest
<1>5. \E j \in S : \A x \in S : x <= j
  BY <1>1, <1>4
<1> QED BY ONLY <1>5

\* What is in the history does not change, ...
LEMMA PastStays ==
  ASSUME Grows, NEW r, NEW k \in Nat, k <= Len(log), DOMAIN log = 1 .. Len(log), Len(log) \in Nat
  PROVE  Rpc!ValueAfter(r, k)' = Rpc!ValueAfter(r, k)
<1>1. \A j \in 1 .. k : log'[j] = log[j]
  BY DEF Grows
<1>2. PICK S : S = {j \in 1 .. k : log[j].ref = r}
  OBVIOUS
<1>3. S = {j \in 1 .. k : log'[j].ref = r}
  BY <1>1, <1>2
<1>4. S \subseteq 1 .. k
  BY <1>2
<1>5. PICK last : last = CHOOSE j \in S : \A x \in S : x <= j
  OBVIOUS
<1>6. S # {} => last \in 1 .. k
  BY <1>4, <1>5, LastChange
<1>7. Rpc!ValueAfter(r, k) = IF S = {} THEN None ELSE log[last].new
  BY <1>2, <1>5 DEF Rpc!ValueAfter
<1>8. Rpc!ValueAfter(r, k)' = IF S = {} THEN None ELSE log'[last].new
  BY <1>3, <1>5 DEF Rpc!ValueAfter
<1> HIDE DEF log
<1> QED BY <1>1, <1>6, <1>7, <1>8

\* Change n of the history is e, call id making ref new.
Changed(n, e, id, ref, new) ==
  /\ Grows /\ Len(log') = n /\ log'[n] = e
  /\ \A r : Rpc!ValueAfter(r, n)' = IF r = ref THEN new ELSE Rpc!ValueAfter(r, n - 1)
  /\ \A i : i # id => SameChanges(i)
  /\ Rpc!ChangesBy(id)' = Rpc!ChangesBy(id) \union {n}

\* ... and a change is what its ref has from then on.
LEMMA HistoryGrows ==
  ASSUME NEW C, log \in Seq(C), NEW e \in C, NEW id, NEW ref, NEW new,
         id = e.id, ref = e.ref, new = e.new, log' = Append(log, e), rpcStored \subseteq rpcStored',
         NEW n \in Nat, n = Len(log) + 1
  PROVE  Changed(n, e, id, ref, new)
<1>1. /\ n - 1 = Len(log) /\ n - 1 \in Nat /\ DOMAIN log = 1 .. n - 1 /\ DOMAIN log' = 1 .. n /\ Len(log') = n
      /\ log'[n] = e /\ \A k \in 1 .. n - 1 : log'[k] = log[k]
  <2>1. /\ Append(log, e) \in Seq(C) /\ Len(Append(log, e)) = Len(log) + 1
        /\ \A i \in 1 .. Len(log) : Append(log, e)[i] = log[i]
        /\ Append(log, e)[Len(log) + 1] = e
    BY AppendProperties
  <2>2. Len(log) = n - 1 /\ Len(log) \in Nat
    OBVIOUS
  <2> QED BY <2>1, <2>2
<1>2. Grows
  BY <1>1 DEF Grows
<1>3. 1 .. n = (1 .. n - 1) \union {n} /\ n \notin 1 .. n - 1
  BY <1>1
<1>4. ASSUME NEW r, r # ref PROVE Rpc!ValueAfter(r, n)' = Rpc!ValueAfter(r, n - 1)
  <2>1. PICK S : S = {j \in 1 .. n - 1 : log[j].ref = r}
    OBVIOUS
  <2>2. S = {j \in 1 .. n : log'[j].ref = r}
    BY <1>1, <1>3, <1>4, <2>1
  <2>3. PICK last : last = CHOOSE j \in S : \A x \in S : x <= j
    OBVIOUS
  <2>4. S # {} => last \in 1 .. n - 1
    <3>1. S \subseteq 1 .. n - 1
      BY <2>1
    <3> QED BY <1>1, <2>3, <3>1, LastChange
  <2>5. Rpc!ValueAfter(r, n - 1) = IF S = {} THEN None ELSE log[last].new
    BY <2>1, <2>3 DEF Rpc!ValueAfter
  <2>6. Rpc!ValueAfter(r, n)' = IF S = {} THEN None ELSE log'[last].new
    BY <2>2, <2>3 DEF Rpc!ValueAfter
  <2> HIDE DEF log
  <2> QED BY <1>1, <2>4, <2>5, <2>6
<1>5. Rpc!ValueAfter(ref, n)' = new
  <2>1. PICK S : S = {j \in 1 .. n : log'[j].ref = ref}
    OBVIOUS
  <2>2. n \in S /\ S \subseteq 1 .. n
    BY <1>1, <1>3, <2>1
  <2>3. PICK last : last = CHOOSE j \in S : \A x \in S : x <= j
    OBVIOUS
  <2>4. last \in S /\ \A x \in S : x <= last
    BY <2>2, <2>3, LastChange
  <2>5. last = n
    BY <2>2, <2>4
  <2>6. Rpc!ValueAfter(ref, n)' = IF S = {} THEN None ELSE log'[last].new
    BY <2>1, <2>3 DEF Rpc!ValueAfter
  <2> HIDE DEF log
  <2> QED BY <1>1, <2>2, <2>5, <2>6
<1>6. \A i : i # id => SameChanges(i)
  BY <1>1, <1>3 DEF SameChanges, Rpc!ChangesBy
<1>7. Rpc!ChangesBy(id)' = Rpc!ChangesBy(id) \union {n}
  BY <1>1, <1>3 DEF Rpc!ChangesBy
<1>8. \A r : Rpc!ValueAfter(r, n)' = IF r = ref THEN new ELSE Rpc!ValueAfter(r, n - 1)
  BY <1>4, <1>5
<1> HIDE DEF log
<1> QED BY <1>1, <1>2, <1>6, <1>7, <1>8 DEF Changed

\* What was right when it was sent is right when it is read.
LEMMA RightStays ==
  ASSUME RpcTypes, Grows, NEW i \in DOMAIN rpcCalls, SameChanges(i),
         rpcCalls'[i].msg = rpcCalls[i].msg, rpcCalls'[i].from = rpcCalls[i].from,
         rpcCalls'[i].known = rpcCalls[i].known,
         NEW v, NEW t \in Nat, NEW u \in Nat, t <= u, t <= Len(log), Right(i, v, t)
  PROVE  Right(i, v, u)'
<1>1. PICK f \in Nat, m \in Requests : f = rpcCalls[i].from /\ m = rpcCalls[i].msg
  <2>1. rpcCalls[i] \in Made
    BY ElementOfSeq DEF RpcTypes
  <2> QED BY <2>1 DEF Made
<1>2. DOMAIN log = 1 .. Len(log) /\ Len(log) \in Nat
  BY DEF RpcTypes
<1>3. ASSUME NEW k \in f .. t
      PROVE  /\ k \in f .. u /\ k \in Nat
             /\ \A r : Rpc!ValueAfter(r, k)' = Rpc!ValueAfter(r, k)
             /\ k # f => /\ log'[k] = log[k]
                        /\ \A r : Rpc!ValueAfter(r, k - 1)' = Rpc!ValueAfter(r, k - 1)
  <2>1. k \in f .. u /\ k \in Nat /\ k <= Len(log)
    BY <1>2
  <2>2. \A r : Rpc!ValueAfter(r, k)' = Rpc!ValueAfter(r, k)
    BY <1>2, <2>1, PastStays
  <2>3. ASSUME k # f PROVE k - 1 \in Nat /\ k - 1 <= Len(log) /\ k \in DOMAIN log
    BY <1>2, <2>1, <2>3
  <2>4. ASSUME k # f PROVE \A r : Rpc!ValueAfter(r, k - 1)' = Rpc!ValueAfter(r, k - 1)
    <3>1. PICK q \in Nat : q = k - 1
      BY <2>3, <2>4
    <3>2. q <= Len(log)
      BY <2>3, <2>4, <3>1
    <3>3. \A r : Rpc!ValueAfter(r, q)' = Rpc!ValueAfter(r, q)
      BY <1>2, <3>2, PastStays
    <3> QED BY <3>1, <3>3
  <2> QED BY <2>1, <2>2, <2>3, <2>4 DEF Grows
<1> DEFINE Is(r, k) == v = Rpc!ValueAfter(r, k)
<1>4. rpcCalls'[i].from = f /\ rpcCalls'[i].msg = m /\ rpcStored \subseteq rpcStored'
  BY <1>1 DEF Grows
<1>5. Rpc!ChangesBy(i)' = Rpc!ChangesBy(i)
  BY DEF SameChanges
<1> HIDE DEF log, rpcCalls, rpcStored
<1>6. m.kind = "GetRef" => \E k \in f .. u : v = Rpc!ValueAfter(m.arg, k)'
  <2> SUFFICES ASSUME m.kind = "GetRef" PROVE \E k \in f .. u : v = Rpc!ValueAfter(m.arg, k)'
    OBVIOUS
  <2>1. PICK k \in f .. t : v = Rpc!ValueAfter(m.arg, k)
    BY <1>1 DEF Right
  <2> QED BY <1>3, <2>1
<1>7. m.kind = "ListRefs" => \E k \in f .. u : \A r \in Refs : v[r] = Rpc!ValueAfter(r, k)'
  <2> SUFFICES ASSUME m.kind = "ListRefs"
               PROVE  \E k \in f .. u : \A r \in Refs : v[r] = Rpc!ValueAfter(r, k)'
    OBVIOUS
  <2>1. PICK k \in f .. t : \A r \in Refs : v[r] = Rpc!ValueAfter(r, k)
    BY <1>1 DEF Right
  <2> QED BY <1>3, <2>1
<1>8. m.kind \in {"Get", "GetByInclusiveHash"} =>
        IF v = None THEN m.arg \notin rpcCalls'[i].known ELSE v = m.arg /\ v \in rpcStored'
  BY <1>1, <1>4 DEF Right
<1>9. m.kind = "Contains" => IF v THEN m.arg \in rpcStored' ELSE m.arg \notin rpcCalls'[i].known
  BY <1>1, <1>4 DEF Right
<1>10. m.kind \in Rpc!RefWrites =>
         IF m.kind = "CasRef" /\ ~v
         THEN Rpc!ChangesBy(i)' = {} /\ \E k \in f .. u : Rpc!ValueAfter(m.arg, k)' # m.expected
         ELSE \E k \in (f .. u) \ {f} :
                /\ Rpc!ChangesBy(i)' = {k} /\ log'[k].new = m.new
                /\ m.kind = "CasRef" => Rpc!ValueAfter(m.arg, k - 1)' = m.expected
  <2> SUFFICES ASSUME m.kind \in Rpc!RefWrites
               PROVE  IF m.kind = "CasRef" /\ ~v
                      THEN Rpc!ChangesBy(i)' = {} /\ \E k \in f .. u : Rpc!ValueAfter(m.arg, k)' # m.expected
                      ELSE \E k \in (f .. u) \ {f} :
                             /\ Rpc!ChangesBy(i)' = {k} /\ log'[k].new = m.new
                             /\ m.kind = "CasRef" => Rpc!ValueAfter(m.arg, k - 1)' = m.expected
    OBVIOUS
  <2>1. IF m.kind = "CasRef" /\ ~v
        THEN Rpc!ChangesBy(i) = {} /\ \E k \in f .. t : Rpc!ValueAfter(m.arg, k) # m.expected
        ELSE \E k \in (f .. t) \ {f} :
               /\ Rpc!ChangesBy(i) = {k} /\ log[k].new = m.new
               /\ m.kind = "CasRef" => Rpc!ValueAfter(m.arg, k - 1) = m.expected
    BY <1>1 DEF Right
  <2>2. CASE m.kind = "CasRef" /\ ~v
    <3>1. PICK k \in f .. t : Rpc!ValueAfter(m.arg, k) # m.expected
      BY <2>1, <2>2
    <3> QED BY <1>3, <1>5, <2>1, <2>2, <3>1
  <2>3. CASE ~(m.kind = "CasRef" /\ ~v)
    <3>1. PICK k \in (f .. t) \ {f} :
            /\ Rpc!ChangesBy(i) = {k} /\ log[k].new = m.new
            /\ m.kind = "CasRef" => Rpc!ValueAfter(m.arg, k - 1) = m.expected
      BY <2>1, <2>3
    <3>2. k \in (f .. u) \ {f} /\ log'[k] = log[k] /\ Rpc!ValueAfter(m.arg, k - 1)' = Rpc!ValueAfter(m.arg, k - 1)
      BY <1>3, <3>1
    <3> QED BY <1>5, <2>3, <3>1, <3>2
  <2> QED BY <2>2, <2>3
<1> QED BY <1>4, <1>6, <1>7, <1>8, <1>9, <1>10 DEF Right

\* A call that has ended stays as it ended.
LEMMA FinishedStays ==
  ASSUME RpcTypes, Logged, Grows, NEW i \in DOMAIN rpcCalls, SameCall(i),
         /\ rpcCalls[i].status = "failed" => Rpc!ChangesBy(i) = {}
         /\ rpcCalls[i].status = "ok" =>
              /\ Right(i, rpcCalls[i].value, rpcCalls[i].till)
              /\ rpcCalls[i].msg.kind = "Subtree" =>
                   /\ NoRepeats(rpcCalls[i].items)
                   /\ Among(rpcCalls[i].items) = Rpc!Reachable(rpcCalls[i].msg.arg)
  PROVE  /\ rpcCalls'[i].status = "failed" => Rpc!ChangesBy(i)' = {}
         /\ rpcCalls'[i].status = "ok" =>
              /\ Right(i, rpcCalls[i].value, rpcCalls[i].till)'
              /\ rpcCalls'[i].msg.kind = "Subtree" =>
                   /\ NoRepeats(rpcCalls'[i].items)
                   /\ Among(rpcCalls'[i].items) = Rpc!Reachable(rpcCalls'[i].msg.arg)
<1>1. rpcCalls'[i] = rpcCalls[i] /\ SameChanges(i)
  BY DEF SameCall
<1>2. rpcCalls[i] \in Made
  BY ElementOfSeq DEF RpcTypes
<1>3. PICK v, t : t \in Nat /\ v = rpcCalls[i].value /\ t = rpcCalls[i].till
  BY <1>2 DEF Made
<1>4. t <= Len(log)
  BY <1>3 DEF Logged
<1>5. ASSUME Right(i, v, t) PROVE Right(i, v, t)'
  <2>1. /\ rpcCalls'[i].msg = rpcCalls[i].msg /\ rpcCalls'[i].from = rpcCalls[i].from
        /\ rpcCalls'[i].known = rpcCalls[i].known
    BY <1>1
  <2> QED BY <1>1, <1>3, <1>4, <1>5, <2>1, RightStays
<1> QED BY <1>1, <1>3, <1>5 DEF SameChanges

\* A call that nobody answers stays open.
LEMMA OpenStays ==
  ASSUME NEW i, NEW c, NEW m, Open(i, c, m), SameCall(i),
         \A k \in DOMAIN outbox'[c] : ~Says(outbox'[c][k], i)
  PROVE  Open(i, c, m)'
BY DEF Open, Outstanding, SameCall, SameChanges, Says

\* What was sent is right while more is sent behind it.
LEMMA SentStays ==
  ASSUME RpcTypes, RpcTypes', Grows, NEW c \in Clients, Sent(c),
         Len(outbox[c]) <= Len(outbox'[c]), \A k \in 1 .. Len(outbox[c]) : outbox'[c][k] = outbox[c][k],
         \A k \in DOMAIN outbox[c] : outbox[c][k].kind # "RefUpdated" =>
           /\ SameCall(outbox[c][k].id)
           /\ \A j \in Len(outbox[c]) + 1 .. Len(outbox'[c]) : ~Says(outbox'[c][j], outbox[c][k].id)
  PROVE  \A k \in 1 .. Len(outbox[c]) : SentAt(c, k)'
<1> SUFFICES ASSUME NEW k \in 1 .. Len(outbox[c]) PROVE SentAt(c, k)'
  OBVIOUS
<1>0. PICK l \in Nat, l1 \in Nat : l = Len(outbox[c]) /\ l1 = Len(outbox'[c])
  <2>1. /\ outbox[c] \in Seq(Updates \union Items \union Endings)
        /\ outbox'[c] \in Seq(Updates \union Items \union Endings)
    BY DEF RpcTypes
  <2> QED BY <2>1
<1>1. DOMAIN outbox[c] = 1 .. l /\ k \in 1 .. l /\ l <= l1
  BY <1>0 DEF RpcTypes
<1>2. PICK m : m = outbox[c][k]
  OBVIOUS
<1>3. m = outbox'[c][k] /\ SentAt(c, k)
  BY <1>0, <1>1, <1>2 DEF Sent
<1>4. m.kind = "RefUpdated" => m.by # c
  BY <1>2, <1>3 DEF SentAt
<1>5. ASSUME m.kind # "RefUpdated" PROVE SameCall(m.id) /\ Outstanding(m.id, c) /\ Outstanding(m.id, c)'
  BY <1>1, <1>2, <1>3, <1>5 DEF SentAt, SameCall, Outstanding
<1>6. ASSUME m.kind \notin {"RefUpdated", "SubtreeItem"}
      PROVE  /\ \A j \in k + 1 .. l1 : ~Says(outbox'[c][j], m.id)
             /\ m.kind = "Error" => Rpc!ChangesBy(m.id)' = {}
             /\ m.kind # "Error" =>
                  m.kind = Rpc!Accepts[rpcCalls'[m.id].msg.kind] /\ Right(m.id, m.value, Len(log))'
             /\ m.kind = "SubtreeEnd" => \E full \in Seq(Nodes), n \in 0 .. k - 1 : Rest(c, k, m.id, full, n)'
  <2>0. PICK i, v : i = m.id /\ v = m.value
    OBVIOUS
  <2>1. /\ \A j \in k + 1 .. l : ~Says(outbox[c][j], i)
        /\ m.kind = "Error" => Rpc!ChangesBy(i) = {}
        /\ m.kind # "Error" => m.kind = Rpc!Accepts[rpcCalls[i].msg.kind] /\ Right(i, v, Len(log))
        /\ m.kind = "SubtreeEnd" => \E full \in Seq(Nodes), n \in 0 .. k - 1 : Rest(c, k, i, full, n)
    BY <1>0, <1>2, <1>3, <1>6, <2>0 DEF SentAt
  <2>2. i \in DOMAIN rpcCalls /\ rpcCalls'[i] = rpcCalls[i] /\ SameChanges(i)
    BY <1>5, <1>6, <2>0 DEF SameCall, Outstanding
  <2>3. ASSUME NEW j \in k + 1 .. l1 PROVE ~Says(outbox'[c][j], i)
    <3>1. CASE j \in 1 .. l
      <4>1. outbox'[c][j] = outbox[c][j] /\ j \in k + 1 .. l
        BY <1>0, <3>1
      <4> QED BY <2>1, <4>1
    <3>2. CASE j \notin 1 .. l
      <4>1. j \in l + 1 .. l1
        BY <1>0, <3>2
      <4> QED BY <1>0, <1>1, <1>2, <1>6, <2>0, <4>1
    <3> QED BY <3>1, <3>2
  <2>4. ASSUME m.kind # "Error" PROVE Right(i, v, Len(log))'
    <3>1. PICK t \in Nat, u \in Nat : t = Len(log) /\ u = Len(log')
      BY DEF RpcTypes
    <3>2. t <= u /\ t <= Len(log) /\ Right(i, v, t)
      BY <2>1, <2>4, <3>1 DEF Grows
    <3>3. Right(i, v, u)'
      BY <2>2, <3>2, RightStays
    <3> QED BY <3>1, <3>3
  <2>5. ASSUME m.kind = "SubtreeEnd"
        PROVE  \E full \in Seq(Nodes), n \in 0 .. k - 1 : Rest(c, k, i, full, n)'
    <3>1. PICK full \in Seq(Nodes), n \in 0 .. k - 1 : Rest(c, k, i, full, n)
      BY <2>1, <2>5
    <3>2. \A j \in 1 .. k - 1 : outbox'[c][j] = outbox[c][j]
      BY <1>0, <1>1
    <3>3. k - n .. k - 1 \subseteq 1 .. k - 1
      BY <3>1
    <3>4. Rest(c, k, i, full, n)'
      BY <2>2, <3>1, <3>2, <3>3 DEF Rest, Says
    <3> QED BY <3>4
  <2>6. m.kind = "Error" => Rpc!ChangesBy(i)' = {}
    BY <2>1, <2>2 DEF SameChanges
  <2> QED BY <2>0, <2>1, <2>2, <2>3, <2>4, <2>5, <2>6
<1> QED BY <1>0, <1>3, <1>4, <1>5, <1>6 DEF SentAt

\* A client with no more messages than before, or one update of another's.
LEMMA NotedStays ==
  ASSUME RpcTypes, RpcTypes', Grows, NEW c \in Clients, Noted(c), notes'[c] = notes[c],
         Len(outbox[c]) <= Len(outbox'[c]), \A k \in 1 .. Len(outbox[c]) : outbox'[c][k] = outbox[c][k],
         \/ \A k \in Len(outbox[c]) + 1 .. Len(outbox'[c]) : outbox'[c][k].kind # "RefUpdated"
         \/ Len(outbox'[c]) = Len(outbox[c]) + 1 /\ Len(log') = Len(log) + 1
  PROVE  Noted(c)'
<1>0. PICK l \in Nat, l1 \in Nat, g \in Nat, g1 \in Nat, q \in Nat :
        l = Len(outbox[c]) /\ l1 = Len(outbox'[c]) /\ g = Len(log) /\ g1 = Len(log') /\ q = Len(notes[c])
  <2>1. outbox[c] \in Seq(Updates \union Items \union Endings) /\ notes[c] \in Seq(Updates)
    BY DEF RpcTypes
  <2>2. outbox'[c] \in Seq(Updates \union Items \union Endings)
    BY DEF RpcTypes
  <2>3. Len(log) \in Nat /\ Len(log') \in Nat
    BY DEF RpcTypes
  <2>4. Len(outbox[c]) \in Nat /\ Len(outbox'[c]) \in Nat /\ Len(notes[c]) \in Nat
    BY <2>1, <2>2
  <2> QED BY <2>3, <2>4
<1>1. DOMAIN outbox[c] = 1 .. l /\ DOMAIN outbox'[c] = 1 .. l1 /\ g <= g1 /\ l <= l1
  BY <1>0 DEF RpcTypes, Grows
<1>2. PICK U, V : U = UpdatesIn(outbox[c]) /\ V = UpdatesIn(outbox'[c])
  OBVIOUS
<1>3. Cardinality(U) + q <= g /\ \A k \in DOMAIN notes[c] : notes[c][k].by # c
  BY <1>0, <1>2 DEF Noted
<1>4. U \subseteq 1 .. l /\ IsFiniteSet(U) /\ Cardinality(U) \in Nat
  <2>1. U \subseteq 1 .. l
    <3>1. UpdatesIn(outbox[c]) \subseteq DOMAIN outbox[c]
      BY ONLY TRUE DEF UpdatesIn
    <3> QED BY ONLY <1>1, <1>2, <3>1
  <2>2. IsFiniteSet(1 .. l)
    BY ONLY l \in Nat, FS_Interval
  <2>3. IsFiniteSet(U)
    BY <2>1, <2>2, FS_Subset
  <2> QED BY <2>1, <2>3, FS_CardinalityType
<1>5. Cardinality(V) + q <= g1
  <2>1. CASE \A k \in l + 1 .. l1 : outbox'[c][k].kind # "RefUpdated"
    <3>1. V = U
      <4>1. \A k \in 1 .. l1 : k \in 1 .. l \/ k \in l + 1 .. l1
        OBVIOUS
      <4>2. 1 .. l \subseteq 1 .. l1 /\ \A k \in 1 .. l : outbox'[c][k] = outbox[c][k]
        BY <1>0, <1>1
      <4> QED BY <1>1, <1>2, <2>1, <4>1, <4>2 DEF UpdatesIn
    <3> QED BY <1>1, <1>3, <1>4, <3>1
  <2>2. CASE l1 = l + 1 /\ g1 = g + 1
    <3>1. V \subseteq U \union {l + 1}
      <4>1. \A k \in 1 .. l + 1 : k \in 1 .. l \/ k = l + 1
        OBVIOUS
      <4>2. \A k \in 1 .. l : outbox'[c][k] = outbox[c][k]
        BY <1>0
      <4> QED BY <1>1, <1>2, <2>2, <4>1, <4>2 DEF UpdatesIn
    <3>2. PICK W, x : W = U \union {x} /\ x = l + 1
      OBVIOUS
    <3>3. x \notin U
      BY <1>4, <3>2
    <3>4. IsFiniteSet(W) /\ Cardinality(W) = Cardinality(U) + 1
      BY <1>4, <3>2, <3>3, FS_AddElement
    <3>5. V \subseteq W
      BY <3>1, <3>2
    <3>6. Cardinality(V) <= Cardinality(W) /\ Cardinality(V) \in Nat
      <4>1. IsFiniteSet(V)
        BY ONLY <3>4, <3>5, FS_Subset
      <4> QED BY ONLY <3>4, <3>5, <4>1, FS_Subset, FS_CardinalityType
    <3> QED BY <1>3, <1>4, <2>2, <3>4, <3>6
  <2> QED BY <1>0, <2>1, <2>2
<1> QED BY <1>0, <1>2, <1>3, <1>5 DEF Noted

DistinctItems(items) == \A j, k \in DOMAIN items : items[j].value = items[k].value => j = k
ValuesOf(items) == {items[j].value : j \in DOMAIN items}

\* A reply, after the items of a subtree, ends the call whose turn it was.
Sends(s, t, items, e) ==
  /\ Len(t) = Len(s) + Len(items) + 1
  /\ \A k \in 1 .. Len(s) : t[k] = s[k]
  /\ \A j \in 1 .. Len(items) : t[Len(s) + j] = items[j]
  /\ t[Len(t)] = e

Replying(c, i, m, items, e) ==
  /\ Open(i, c, m) /\ \A j : j # i => SameChanges(j)
  /\ rpcCalls' = rpcCalls /\ notes'[c] = notes[c] /\ Sends(outbox[c], outbox'[c], items, e)
  /\ items \in Seq(Items) /\ \A j \in DOMAIN items : items[j].id = i
  /\ e \in Endings /\ e.id = i
  /\ e.kind = "Error" => Rpc!ChangesBy(i)' = {}
  /\ e.kind # "Error" => e.kind = Rpc!Accepts[m.kind] /\ Right(i, e.value, Len(log))'
  /\ e.kind = "SubtreeEnd" => DistinctItems(items) /\ ValuesOf(items) = Rpc!Reachable(m.arg)

\* The turn of a connection puts its answer behind what is on the wire.
LEMMA Replies ==
  ASSUME RpcTypes, RpcTypes', Grows, NEW c \in Clients, Sent(c), Noted(c),
         NEW i, NEW m, NEW items, NEW e, Replying(c, i, m, items, e)
  PROVE  /\ Sent(c)' /\ Noted(c)'
         /\ \A j : j # i => \A k \in Len(outbox[c]) + 1 .. Len(outbox'[c]) : ~Says(outbox'[c][k], j)
<1> USE DEF Replying, Sends
<1>0. PICK l \in Nat, l1 \in Nat, n \in Nat : l = Len(outbox[c]) /\ l1 = Len(outbox'[c]) /\ n = Len(items)
  BY DEF RpcTypes
<1>1. /\ DOMAIN outbox[c] = 1 .. l /\ DOMAIN outbox'[c] = 1 .. l1 /\ l1 = l + n + 1 /\ DOMAIN items = 1 .. n
      /\ \A j \in 1 .. n : items[j] \in Items
  BY <1>0 DEF RpcTypes
<1>2. ASSUME NEW k \in l + 1 .. l1
      PROVE  \/ k = l1 /\ outbox'[c][k] = e
             \/ k # l1 /\ k - l \in 1 .. n /\ outbox'[c][k] = items[k - l]
  <2>1. CASE k = l1
    BY <1>0, <2>1
  <2>2. CASE k # l1
    <3>1. PICK j \in 1 .. n : k = l + j /\ j = k - l
      <4>1. k - l \in 1 .. n /\ k = l + (k - l)
        BY <1>1, <2>2
      <4> QED BY <4>1
    <3> QED BY <1>0, <2>2, <3>1
  <2> QED BY <2>1, <2>2
<1>3. ASSUME NEW k \in l + 1 .. l1
      PROVE  /\ Says(outbox'[c][k], i) /\ \A j : j # i => ~Says(outbox'[c][k], j)
             /\ outbox'[c][k].kind # "RefUpdated"
             /\ k # l1 => outbox'[c][k].kind = "SubtreeItem"
  <2>1. e.kind \notin {"RefUpdated", "SubtreeItem"} /\ e.id = i
    BY DEF Endings, AnswerKinds
  <2>2. \A j \in 1 .. n : items[j].kind = "SubtreeItem" /\ items[j].id = i
    BY <1>1 DEF Items
  <2> QED BY <1>2, <2>1, <2>2 DEF Says
<1>4. \A k \in 1 .. l : SentAt(c, k)'
  <2>1. ASSUME NEW k \in DOMAIN outbox[c], outbox[c][k].kind # "RefUpdated"
        PROVE  /\ SameCall(outbox[c][k].id)
               /\ \A j \in Len(outbox[c]) + 1 .. Len(outbox'[c]) : ~Says(outbox'[c][j], outbox[c][k].id)
    <3>1. PICK x : x = outbox[c][k].id
      OBVIOUS
    <3>2. x \in DOMAIN rpcCalls /\ x # i
      BY <2>1, <3>1 DEF Sent, SentAt, Open, Outstanding, Says
    <3>3. SameCall(x)
      BY <3>2 DEF SameCall
    <3>4. \A j \in Len(outbox[c]) + 1 .. Len(outbox'[c]) : ~Says(outbox'[c][j], x)
      BY <1>0, <1>3, <3>2
    <3> QED BY <3>1, <3>3, <3>4
  <2>2. Len(outbox[c]) <= Len(outbox'[c])
    BY <1>0, <1>1
  <2> HIDE DEF rpcCalls, outbox, log
  <2> QED BY <1>0, <2>1, <2>2, SentStays
<1>5. Outstanding(i, c)' /\ rpcCalls'[i] = rpcCalls[i] /\ rpcCalls[i].msg = m /\ rpcCalls[i].items = <<>>
  BY DEF Open, Outstanding
<1>6. ASSUME NEW k \in l + 1 .. l1 PROVE SentAt(c, k)'
  <2>0. PICK x : x = outbox'[c][k]
    OBVIOUS
  <2>1. x.kind # "RefUpdated" /\ x.id = i
    BY <1>3, <2>0 DEF Says
  <2>2. CASE k # l1
    BY <1>3, <1>5, <2>0, <2>1, <2>2 DEF SentAt
  <2>3. CASE k = l1
    <3>1. x = e /\ e.kind \notin {"RefUpdated", "SubtreeItem"}
      BY <1>0, <2>0, <2>3 DEF Endings, AnswerKinds
    <3>2. \A j \in k + 1 .. l1 : ~Says(outbox'[c][j], i)
      BY <2>3
    <3>3. ASSUME e.kind = "SubtreeEnd"
          PROVE  \E full \in Seq(Nodes), p \in 0 .. k - 1 : Rest(c, k, i, full, p)'
      <4>1. PICK full : full = [j \in 1 .. n |-> items[j].value]
        OBVIOUS
      <4>2. full \in Seq(Nodes) /\ Len(full) = n /\ DOMAIN full = 1 .. n
        <5>1. \A j \in 1 .. n : items[j].value \in Nodes
          BY <1>1 DEF Items
        <5> QED BY <4>1, <5>1
      <4>3. NoRepeats(full) /\ Among(full) = Rpc!Reachable(m.arg)
        BY <1>1, <3>3, <4>1, <4>2 DEF NoRepeats, Among, DistinctItems, ValuesOf
      <4>4. n \in 0 .. k - 1 /\ k - n = l + 1
        BY <1>1, <2>3
      <4>5. Len(rpcCalls'[i].items) = 0
        BY <1>5
      <4>6. \A j \in 1 .. k - 1 : Says(outbox'[c][j], i) <=> j >= k - n
        <5> SUFFICES ASSUME NEW j \in 1 .. k - 1 PROVE Says(outbox'[c][j], i) <=> j >= k - n
          OBVIOUS
        <5>1. CASE j >= k - n
          <6>1. j \in l + 1 .. l1
            BY <2>3, <4>4, <5>1
          <6> QED BY <1>3, <5>1, <6>1
        <5>2. CASE ~(j >= k - n)
          <6>1. j \in 1 .. l
            BY <4>4, <5>2
          <6>2. ~Says(outbox[c][j], i) /\ outbox'[c][j] = outbox[c][j]
            BY <1>0, <1>1, <6>1 DEF Open
          <6> QED BY <5>2, <6>2
        <5> QED BY <5>1, <5>2
      <4>7. ASSUME NEW j \in k - n .. k - 1
            PROVE  outbox'[c][j].kind = "SubtreeItem" /\ outbox'[c][j].value = full[0 + j - (k - n) + 1]
        <5>0. l1 = l + n + 1 /\ k = l1 /\ k - n = l + 1
          BY <1>1, <2>3, <4>4
        <5>1. j \in l + 1 .. l1 /\ j # l1 /\ 0 + j - (k - n) + 1 = j - l /\ j - l \in 1 .. n
          BY ONLY <5>0
        <5> QED BY <1>2, <1>3, <4>1, <5>1
      <4>8. Rest(c, k, i, full, n)'
        <5> HIDE DEF outbox, rpcCalls
        <5>1. PICK z : z = Len(rpcCalls'[i].items) /\ z = 0
          BY <4>5
        <5>2. Len(full) = z + n /\ \A j \in 1 .. z : rpcCalls'[i].items[j] = full[j]
          BY <4>2, <5>1
        <5>3. rpcCalls'[i].msg = m
          BY <1>5
        <5>4. \A j \in k - n .. k - 1 :
                outbox'[c][j].kind = "SubtreeItem" /\ outbox'[c][j].value = full[z + j - (k - n) + 1]
          BY <4>7, <5>1
        <5>5. Rpc!Reachable(rpcCalls'[i].msg.arg) = Rpc!Reachable(m.arg)
          BY <5>3
        <5>6. \A j \in 1 .. k - 1 : Says(outbox'[c][j], i) <=> j >= k - n
          BY <4>6
        <5> QED BY ONLY <4>3, <4>4, <5>1, <5>2, <5>4, <5>5, <5>6 DEF Rest, Says
      <4> QED BY <4>2, <4>4, <4>8
    <3>4. e.kind # "Error" => e.kind = Rpc!Accepts[rpcCalls'[i].msg.kind] /\ Right(i, e.value, Len(log))'
      BY <1>5
    <3> QED BY <1>0, <1>5, <2>0, <2>1, <3>1, <3>2, <3>3, <3>4 DEF SentAt
  <2> QED BY <2>2, <2>3
<1>7. Sent(c)'
  <2>1. \A k \in 1 .. l1 : k \in 1 .. l \/ k \in l + 1 .. l1
    OBVIOUS
  <2> QED BY <1>1, <1>4, <1>6, <2>1 DEF Sent
<1>8. Noted(c)'
  <2>1. Len(outbox[c]) <= Len(outbox'[c])
    BY <1>0, <1>1
  <2>2. \A k \in Len(outbox[c]) + 1 .. Len(outbox'[c]) : outbox'[c][k].kind # "RefUpdated"
    BY <1>0, <1>3
  <2> QED BY <2>1, <2>2, NotedStays
<1>9. \A j : j # i => \A k \in Len(outbox[c]) + 1 .. Len(outbox'[c]) : ~Says(outbox'[c][k], j)
  BY <1>0, <1>3
<1> QED BY <1>7, <1>8, <1>9

\* The ways to put an answer behind what is on the wire.
LEMMA SendsAre ==
  ASSUME NEW S, NEW s \in Seq(S), NEW items \in Seq(S), NEW e \in S
  PROVE  /\ Sends(s, s \o Append(items, e), items, e) /\ s \o Append(items, e) \in Seq(S)
         /\ Sends(s, s \o (items \o <<e>>), items, e) /\ s \o (items \o <<e>>) \in Seq(S)
         /\ Sends(s, s \o <<e>>, <<>>, e) /\ s \o <<e>> \in Seq(S)
         /\ Sends(s, Append(s, e), <<>>, e) /\ Append(s, e) \in Seq(S)
<1>0. PICK l \in Nat, n \in Nat : l = Len(s) /\ n = Len(items)
  OBVIOUS
<1>1. ASSUME NEW x \in Seq(S), Len(x) = n + 1, \A j \in 1 .. n : x[j] = items[j], x[n + 1] = e
      PROVE  Sends(s, s \o x, items, e) /\ s \o x \in Seq(S)
  <2>1. PICK t \in Seq(S) :
          /\ t = s \o x /\ Len(t) = l + (n + 1)
          /\ \A k \in 1 .. l + (n + 1) : t[k] = IF k <= l THEN s[k] ELSE x[k - l]
    <3>1. /\ s \o x \in Seq(S) /\ Len(s \o x) = Len(s) + Len(x)
          /\ \A k \in 1 .. Len(s) + Len(x) : (s \o x)[k] = IF k <= Len(s) THEN s[k] ELSE x[k - Len(s)]
      BY ONLY s \in Seq(S), x \in Seq(S), ConcatProperties
    <3>2. Len(s) = l /\ Len(x) = n + 1
      BY <1>0, <1>1
    <3> QED BY ONLY <3>1, <3>2
  <2>2. \A k \in 1 .. l : k \in 1 .. l + (n + 1) /\ k <= l
    OBVIOUS
  <2>3. \A j \in 1 .. n : l + j \in 1 .. l + (n + 1) /\ ~(l + j <= l) /\ (l + j) - l = j
    OBVIOUS
  <2>4. l + (n + 1) \in 1 .. l + (n + 1) /\ ~(l + (n + 1) <= l) /\ (l + (n + 1)) - l = n + 1
    OBVIOUS
  <2>5. \A k \in 1 .. l : t[k] = s[k]
    BY <2>1, <2>2
  <2>6. \A j \in 1 .. n : t[l + j] = items[j]
    <3> SUFFICES ASSUME NEW j \in 1 .. n PROVE t[l + j] = items[j]
      OBVIOUS
    <3>1. t[l + j] = x[(l + j) - l]
      BY ONLY <2>1, <2>3
    <3> QED BY ONLY <1>1, <2>3, <3>1
  <2>7. t[l + (n + 1)] = e
    <3>1. t[l + (n + 1)] = x[(l + (n + 1)) - l]
      BY ONLY <2>1, <2>4
    <3> QED BY ONLY <1>1, <2>4, <3>1
  <2>8. l + (n + 1) = l + n + 1
    OBVIOUS
  <2> QED BY <1>0, <2>1, <2>5, <2>6, <2>7, <2>8 DEF Sends
<1>2. /\ Append(items, e) \in Seq(S) /\ Len(Append(items, e)) = n + 1
      /\ \A j \in 1 .. n : Append(items, e)[j] = items[j]
      /\ Append(items, e)[n + 1] = e
  BY <1>0, AppendProperties
<1>3. items \o <<e>> = Append(items, e)
  <2>1. /\ <<e>> \in Seq(S) /\ Len(<<e>>) = 1 /\ <<e>>[1] = e
    OBVIOUS
  <2>2. /\ items \o <<e>> \in Seq(S) /\ Len(items \o <<e>>) = n + 1
        /\ \A k \in 1 .. n + 1 : (items \o <<e>>)[k] = IF k <= n THEN items[k] ELSE <<e>>[k - n]
    BY <1>0, <2>1, ConcatProperties
  <2>3. ASSUME NEW k \in 1 .. n + 1 PROVE (items \o <<e>>)[k] = Append(items, e)[k]
    <3>1. CASE k <= n
      BY <1>2, <2>2, <3>1
    <3>2. CASE ~(k <= n)
      <4>1. k = n + 1 /\ k - n = 1
        BY <3>2
      <4> QED BY <1>2, <2>1, <2>2, <3>2, <4>1
    <3> QED BY <3>1, <3>2
  <2> QED BY <1>2, <2>2, <2>3, SeqEqual
<1>4. Sends(s, s \o Append(items, e), items, e) /\ s \o Append(items, e) \in Seq(S)
  BY <1>1, <1>2
<1>5. /\ Append(s, e) \in Seq(S) /\ Len(Append(s, e)) = l + 1
      /\ \A j \in 1 .. l : Append(s, e)[j] = s[j]
      /\ Append(s, e)[l + 1] = e
  BY <1>0, AppendProperties
<1>6. Sends(s, Append(s, e), <<>>, e)
  <2>1. l + Len(<<>>) + 1 = l + 1 /\ \A j \in 1 .. Len(<<>>) : FALSE
    OBVIOUS
  <2> QED BY <1>0, <1>5, <2>1 DEF Sends
<1>7. s \o <<e>> = Append(s, e)
  <2>1. /\ <<e>> \in Seq(S) /\ Len(<<e>>) = 1 /\ <<e>>[1] = e
    OBVIOUS
  <2>2. /\ s \o <<e>> \in Seq(S) /\ Len(s \o <<e>>) = l + 1
        /\ \A k \in 1 .. l + 1 : (s \o <<e>>)[k] = IF k <= l THEN s[k] ELSE <<e>>[k - l]
    BY <1>0, <2>1, ConcatProperties
  <2>3. ASSUME NEW k \in 1 .. l + 1 PROVE (s \o <<e>>)[k] = Append(s, e)[k]
    <3>1. CASE k <= l
      BY <1>5, <2>2, <3>1
    <3>2. CASE ~(k <= l)
      <4>1. k = l + 1 /\ k - l = 1
        BY <3>2
      <4> QED BY <1>5, <2>1, <2>2, <3>2, <4>1
    <3> QED BY <3>1, <3>2
  <2> QED BY <1>5, <2>2, <2>3, SeqEqual
<1> QED BY <1>3, <1>4, <1>5, <1>6, <1>7

\* A call of which nothing new is said has no answer yet.
LEMMA NotSaid ==
  ASSUME RpcTypes, RpcTypes', NEW i, NEW c \in Clients, NEW m, Open(i, c, m),
         Len(outbox[c]) <= Len(outbox'[c]), \A k \in 1 .. Len(outbox[c]) : outbox'[c][k] = outbox[c][k],
         \A k \in Len(outbox[c]) + 1 .. Len(outbox'[c]) : ~Says(outbox'[c][k], i)
  PROVE  \A k \in DOMAIN outbox'[c] : ~Says(outbox'[c][k], i)
<1>1. PICK l \in Nat, l1 \in Nat :
        /\ l = Len(outbox[c]) /\ l1 = Len(outbox'[c])
        /\ DOMAIN outbox[c] = 1 .. l /\ DOMAIN outbox'[c] = 1 .. l1
  BY DEF RpcTypes
<1>2. \A k \in 1 .. l1 : k \in 1 .. l \/ k \in l + 1 .. l1
  OBVIOUS
<1>3. \A k \in 1 .. l : ~Says(outbox'[c][k], i)
  BY <1>1 DEF Open
<1>4. \A k \in l + 1 .. l1 : ~Says(outbox'[c][k], i)
  BY <1>1
<1> QED BY <1>1, <1>2, <1>3, <1>4

\* The messages of a client that are not read yet wait for their turn.
LEMMA AskingStays ==
  ASSUME RpcTypes, NEW c \in Clients, Asking(c), inbox'[c] = inbox[c],
         serving'[c] # None => serving[c] # None /\ serving'[c].id = serving[c].id,
         \A j \in DOMAIN inbox[c] :
           /\ SameCall(inbox[c][j].id)
           /\ \A k \in DOMAIN outbox'[c] : ~Says(outbox'[c][k], inbox[c][j].id)
  PROVE  Asking(c)'
<1>1. ASSUME NEW j \in DOMAIN inbox[c]
      PROVE  Open(inbox[c][j].id, c, inbox[c][j].msg)'
  <2>1. PICK i, m : i = inbox[c][j].id /\ m = inbox[c][j].msg
    OBVIOUS
  <2>2. Open(i, c, m)
    BY <2>1 DEF Asking
  <2>3. SameCall(i) /\ \A k \in DOMAIN outbox'[c] : ~Says(outbox'[c][k], i)
    BY <2>1
  <2>4. Open(i, c, m)'
    BY <2>2, <2>3, OpenStays
  <2> QED BY <2>1, <2>4 DEF Open, Outstanding, Says
<1> QED BY <1>1 DEF Asking

\* The clients that a turn does not answer hear at most of a change.
LEMMA OthersStay ==
  ASSUME RpcTypes, RpcTypes', Grows, NEW c \in Clients, Asking(c), Served(c), Sent(c), Noted(c),
         serving'[c] = serving[c], notes'[c] = notes[c],
         \A i : Outstanding(i, c) => SameCall(i),
         \/ outbox'[c] = outbox[c]
         \/ /\ Len(log') = Len(log) + 1
            /\ \E u \in Updates : u.by # c /\ outbox'[c] = Append(outbox[c], u)
  PROVE  Served(c)' /\ Sent(c)' /\ Noted(c)' /\ (inbox'[c] = inbox[c] => Asking(c)')
<1>0. PICK l \in Nat, l1 \in Nat :
        /\ l = Len(outbox[c]) /\ l1 = Len(outbox'[c])
        /\ DOMAIN outbox[c] = 1 .. l /\ DOMAIN outbox'[c] = 1 .. l1
  BY DEF RpcTypes
<1>1. /\ l <= l1 /\ \A k \in 1 .. l : outbox'[c][k] = outbox[c][k]
      /\ \A k \in l + 1 .. l1 : outbox'[c][k].kind = "RefUpdated" /\ outbox'[c][k].by # c
      /\ \/ l1 = l
         \/ l1 = l + 1 /\ Len(log') = Len(log) + 1
  <2>1. CASE outbox'[c] = outbox[c]
    BY <1>0, <2>1
  <2>2. ASSUME Len(log') = Len(log) + 1, NEW u \in Updates, u.by # c, outbox'[c] = Append(outbox[c], u)
        PROVE  <1>1!:
    <3>1. outbox[c] \in Seq(Updates \union Items \union Endings) /\ u \in Updates \union Items \union Endings
      BY DEF RpcTypes
    <3>2. PICK s, t, T : s = outbox[c] /\ t = outbox'[c] /\ T = Updates \union Items \union Endings
      OBVIOUS
    <3>3. s \in Seq(T) /\ u \in T /\ t = Append(s, u)
      BY <2>2, <3>1, <3>2
    <3>4. Len(t) = Len(s) + 1 /\ (\A k \in 1 .. Len(s) : t[k] = s[k]) /\ t[Len(s) + 1] = u
      BY ONLY <3>3, AppendProperties
    <3>5. l1 = l + 1 /\ \A k \in l + 1 .. l1 : k = l + 1
      BY <1>0, <3>2, <3>4
    <3>6. u.kind = "RefUpdated"
      BY DEF Updates
    <3> QED BY ONLY <1>0, <2>2, <3>2, <3>4, <3>5, <3>6
  <2> QED BY <2>1, <2>2
<1>2. \A i : \A k \in l + 1 .. l1 : ~Says(outbox'[c][k], i)
  BY <1>1 DEF Says
<1>3. Sent(c)'
  <2>1. \A k \in DOMAIN outbox[c] : outbox[c][k].kind # "RefUpdated" =>
          /\ SameCall(outbox[c][k].id)
          /\ \A j \in Len(outbox[c]) + 1 .. Len(outbox'[c]) : ~Says(outbox'[c][j], outbox[c][k].id)
    BY <1>0, <1>2 DEF Sent, SentAt
  <2>2. \A k \in 1 .. l : SentAt(c, k)'
    <3> HIDE DEF outbox, log, rpcCalls
    <3> QED BY <1>0, <1>1, <2>1, SentStays
  <2>3. \A k \in l + 1 .. l1 : SentAt(c, k)'
    BY <1>1 DEF SentAt
  <2>4. \A k \in 1 .. l1 : k \in 1 .. l \/ k \in l + 1 .. l1
    OBVIOUS
  <2> QED BY <1>0, <2>2, <2>3, <2>4 DEF Sent
<1>4. Noted(c)'
  <2>1. \/ \A k \in Len(outbox[c]) + 1 .. Len(outbox'[c]) : outbox'[c][k].kind # "RefUpdated"
        \/ Len(outbox'[c]) = Len(outbox[c]) + 1 /\ Len(log') = Len(log) + 1
    BY <1>0, <1>1
  <2>2. Len(outbox[c]) <= Len(outbox'[c]) /\ \A k \in 1 .. Len(outbox[c]) : outbox'[c][k] = outbox[c][k]
    BY <1>0, <1>1
  <2> QED BY <2>1, <2>2, NotedStays
<1>5. ASSUME NEW i, NEW m, Open(i, c, m)
      PROVE  SameCall(i) /\ \A k \in DOMAIN outbox'[c] : ~Says(outbox'[c][k], i)
  <2>1. SameCall(i)
    BY <1>5 DEF Open
  <2>2. /\ Len(outbox[c]) <= Len(outbox'[c]) /\ \A k \in 1 .. Len(outbox[c]) : outbox'[c][k] = outbox[c][k]
        /\ \A k \in Len(outbox[c]) + 1 .. Len(outbox'[c]) : ~Says(outbox'[c][k], i)
    BY <1>0, <1>1, <1>2
  <2> QED BY <1>5, <2>1, <2>2, NotSaid
<1>6. ASSUME inbox'[c] = inbox[c] PROVE Asking(c)'
  <2>1. \A j \in DOMAIN inbox[c] :
          /\ SameCall(inbox[c][j].id)
          /\ \A k \in DOMAIN outbox'[c] : ~Says(outbox'[c][k], inbox[c][j].id)
    BY <1>5 DEF Asking
  <2> QED BY <1>6, <2>1, AskingStays
<1>7. Served(c)'
  <2>1. PICK s : s = serving[c] /\ s = serving'[c]
    OBVIOUS
  <2>2. ASSUME s # None PROVE Open(s.id, c, s.msg)' /\ WalksIn(s)
    <3>1. PICK i, m : i = s.id /\ m = s.msg
      OBVIOUS
    <3>2. Open(i, c, m) /\ WalksIn(s)
      BY <2>1, <2>2, <3>1 DEF Served
    <3>3. Open(i, c, m)'
      BY <1>5, <3>2, OpenStays
    <3> QED BY <3>1, <3>2, <3>3
  <2> HIDE DEF outbox, rpcCalls, log
  <2> QED BY <2>1, <2>2 DEF Served
<1> QED BY <1>3, <1>4, <1>6, <1>7

\* The same of the client whose turn ends with a reply.
LEMMA Answered ==
  ASSUME RpcTypes, RpcTypes', Grows, NEW c \in Clients, Asking(c), Served(c), Sent(c), Noted(c),
         inbox'[c] = inbox[c], NEW s \in Works, s = serving[c], s # None, serving'[c] = None,
         NEW items, NEW e, Replying(c, s.id, s.msg, items, e)
  PROVE  Asking(c)' /\ Served(c)' /\ Sent(c)' /\ Noted(c)'
<1>0. s # None /\ Open(s.id, c, s.msg)
  BY DEF Served
<1>1. PICK i, m : i = s.id /\ m = s.msg
  OBVIOUS
<1>2. /\ Sent(c)' /\ Noted(c)'
      /\ \A j : j # i => \A k \in Len(outbox[c]) + 1 .. Len(outbox'[c]) : ~Says(outbox'[c][k], j)
  <2>1. Replying(c, i, m, items, e)
    BY <1>1
  <2> QED BY <2>1, Replies
<1>3. PICK l \in Nat, l1 \in Nat : l = Len(outbox[c]) /\ l1 = Len(outbox'[c])
  <2>1. Len(outbox[c]) \in Nat /\ Len(outbox'[c]) \in Nat
    BY DEF RpcTypes
  <2> QED BY <2>1
<1>4. Len(outbox[c]) <= Len(outbox'[c]) /\ \A k \in 1 .. Len(outbox[c]) : outbox'[c][k] = outbox[c][k]
  BY <1>3 DEF Sends, Replying
<1>5. Asking(c)'
  <2>1. ASSUME NEW j \in DOMAIN inbox[c]
        PROVE  /\ SameCall(inbox[c][j].id)
               /\ \A k \in DOMAIN outbox'[c] : ~Says(outbox'[c][k], inbox[c][j].id)
    <3>1. PICK x, y : x = inbox[c][j].id /\ y = inbox[c][j].msg
      OBVIOUS
    <3>2. Open(x, c, y) /\ x # i
      BY <1>0, <1>1, <3>1 DEF Asking
    <3>3. SameCall(x)
      <4>1. SameChanges(x) /\ rpcCalls' = rpcCalls
        BY <1>1, <3>2 DEF Replying
      <4> QED BY <3>2, <4>1 DEF SameCall, Open, Outstanding
    <3>4. \A k \in DOMAIN outbox'[c] : ~Says(outbox'[c][k], x)
      BY <1>2, <1>4, <3>2, NotSaid
    <3> QED BY <3>1, <3>3, <3>4
  <2> QED BY <1>0, <2>1, AskingStays
<1>6. Served(c)'
  BY DEF Served
<1> QED BY <1>2, <1>5, <1>6

\* A step that writes no ref and ends no call.
Quiet == log' = log /\ rpcRefs' = rpcRefs /\ rpcStored \subseteq rpcStored' /\ rpcCalls' = rpcCalls
Apart(d) ==
  inbox'[d] = inbox[d] /\ serving'[d] = serving[d] /\ notes'[d] = notes[d] /\ outbox'[d] = outbox[d]
Conversing(c) == Asking(c) /\ Served(c) /\ Sent(c) /\ Noted(c)

\* A step that changes no ref keeps what calls and history have in common.
LEMMA QuietKeeps ==
  ASSUME RpcTypes, RpcTypes', Logged, Finished, Quiet
  PROVE  /\ Grows /\ Logged' /\ Finished'
         /\ \A i : SameChanges(i) /\ (i \in DOMAIN rpcCalls => SameCall(i))
<1>1. Grows /\ \A i : SameChanges(i)
  <2>1. Len(log) \in Nat
    BY DEF RpcTypes
  <2> QED BY <2>1 DEF Grows, SameChanges, Rpc!ChangesBy, Quiet
<1>2. \A i \in DOMAIN rpcCalls : SameCall(i)
  BY <1>1 DEF SameCall, Quiet
<1>3. Logged'
  <2>1. PICK g : g = Len(log) /\ g = Len(log')
    BY DEF Quiet
  <2>2. \A r : Rpc!ValueAfter(r, g)' = Rpc!ValueAfter(r, g)
    BY DEF Quiet, Rpc!ValueAfter
  <2>3. \A r \in Refs : rpcRefs'[r] = Rpc!ValueAfter(r, g)'
    BY <2>1, <2>2 DEF Logged, Quiet
  <2>4. /\ \A k \in DOMAIN log' : log'[k].id \in DOMAIN rpcCalls'
        /\ \A i \in DOMAIN rpcCalls' :
             /\ rpcCalls'[i].from <= g /\ rpcCalls'[i].till <= g
             /\ rpcCalls'[i].known \subseteq rpcStored'
    BY <2>1 DEF Logged, Quiet
  <2> HIDE DEF log, rpcCalls, rpcRefs, rpcStored
  <2> QED BY <2>1, <2>3, <2>4 DEF Logged
<1>4. Finished'
  <2> SUFFICES ASSUME NEW i \in DOMAIN rpcCalls
               PROVE  (/\ rpcCalls[i].status = "failed" => Rpc!ChangesBy(i) = {}
                       /\ rpcCalls[i].status = "ok" =>
                            /\ Right(i, rpcCalls[i].value, rpcCalls[i].till)
                            /\ rpcCalls[i].msg.kind = "Subtree" =>
                                 /\ NoRepeats(rpcCalls[i].items)
                                 /\ Among(rpcCalls[i].items) = Rpc!Reachable(rpcCalls[i].msg.arg))'
    BY DEF Finished, Quiet
  <2>1. /\ rpcCalls[i].status = "failed" => Rpc!ChangesBy(i) = {}
        /\ rpcCalls[i].status = "ok" =>
             /\ Right(i, rpcCalls[i].value, rpcCalls[i].till)
             /\ rpcCalls[i].msg.kind = "Subtree" =>
                  /\ NoRepeats(rpcCalls[i].items)
                  /\ Among(rpcCalls[i].items) = Rpc!Reachable(rpcCalls[i].msg.arg)
    BY DEF Finished
  <2>2. SameCall(i)
    BY <1>2
  <2> HIDE DEF rpcCalls, log, rpcStored, outbox, serving, inbox
  <2> QED BY <1>1, <2>1, <2>2, FinishedStays
<1> QED BY <1>1, <1>2, <1>3, <1>4

\* Such a step keeps the invariant when the conversations it is in do.
LEMMA QuietOthers ==
  ASSUME RpcInv, RpcTypes', Quiet, NEW S, \A d \in Clients \ S : Apart(d),
         \A c \in S \intersect Clients : Conversing(c)'
  PROVE  RpcInv'
<1>1. /\ Grows /\ Logged' /\ Finished'
      /\ \A i : SameChanges(i) /\ (i \in DOMAIN rpcCalls => SameCall(i))
  BY QuietKeeps DEF RpcInv
<1>2. ASSUME NEW d \in Clients \ S PROVE Conversing(d)'
  <2>1. /\ RpcTypes /\ Asking(d) /\ Served(d) /\ Sent(d) /\ Noted(d)
        /\ inbox'[d] = inbox[d] /\ serving'[d] = serving[d] /\ notes'[d] = notes[d] /\ outbox'[d] = outbox[d]
    BY <1>2 DEF RpcInv, Apart
  <2>2. \A i : Outstanding(i, d) => SameCall(i)
    BY <1>1 DEF Outstanding
  <2>3. Asking(d)' /\ Served(d)' /\ Sent(d)' /\ Noted(d)'
    <3> HIDE DEF inbox, serving, notes, outbox, log
    <3> QED BY <1>1, <2>1, <2>2, OthersStay
  <2> QED BY <2>3 DEF Conversing
<1>3. \A c \in Clients : Conversing(c)'
  BY <1>2
<1> QED BY <1>1, <1>3 DEF RpcInv, Conversing

\* An object more in the repository.
LEMMA StoreKeeps ==
  ASSUME RpcInv, NEW h \in Nodes, Rpc!Store(h)
  PROVE  RpcInv'
<1>1. RpcTypes'
  BY DEF RpcInv, RpcTypes, Rpc!Store, Rpc!wire
<1>2. Quiet /\ \A d \in Clients : Apart(d)
  BY DEF Rpc!Store, Rpc!wire, Quiet, Apart
<1>3. \A d \in Clients \ {} : Apart(d)
  BY <1>2
<1>4. \A c \in {} \intersect Clients : Conversing(c)'
  OBVIOUS
<1> QED BY <1>1, <1>2, <1>3, <1>4, QuietOthers

\* A turn of a client that ends with a reply.
TurnEnds(c, s, items, e) ==
  /\ \A d \in Clients \ {c} : Apart(d)
  /\ inbox'[c] = inbox[c] /\ s = serving[c] /\ s # None /\ serving'[c] = None /\ notes'[c] = notes[c]
  /\ Sends(outbox[c], outbox'[c], items, e)
  /\ items \in Seq(Items) /\ \A j \in DOMAIN items : items[j].id = s.id
  /\ e \in Endings /\ e.id = s.id
  /\ e.kind \notin {"Error", "SubtreeEnd"} =>
       e.kind = Rpc!Accepts[s.msg.kind] /\ Right(s.id, e.value, Len(log))'
  /\ e.kind = "SubtreeEnd" =>
       s.msg.kind = "Subtree" /\ DistinctItems(items) /\ ValuesOf(items) = Rpc!Reachable(s.msg.arg)

\* A turn that reads ends with its answer.
LEMMA QuietReply ==
  ASSUME RpcInv, RpcTypes', Quiet, NEW c \in Clients, NEW s, NEW items, NEW e, TurnEnds(c, s, items, e)
  PROVE  RpcInv'
<1> USE DEF TurnEnds
<1>1. s \in Works
  BY DEF RpcInv, RpcTypes
<1>2. /\ Grows /\ Logged' /\ Finished'
      /\ \A i : SameChanges(i) /\ (i \in DOMAIN rpcCalls => SameCall(i))
  BY QuietKeeps DEF RpcInv
<1>3. RpcTypes /\ Asking(c) /\ Served(c) /\ Sent(c) /\ Noted(c)
  BY DEF RpcInv
<1>4. Open(s.id, c, s.msg)
  BY <1>1, <1>3 DEF Served
<1>5. Replying(c, s.id, s.msg, items, e)
  <2>1. e.kind = "Error" => Rpc!ChangesBy(s.id)' = {}
    BY <1>2, <1>4 DEF SameChanges, Open
  <2>2. ASSUME e.kind = "SubtreeEnd"
        PROVE e.kind = Rpc!Accepts[s.msg.kind] /\ Right(s.id, e.value, Len(log))'
    <3>1. s.msg.kind = "Subtree"
      BY <1>1, <2>2
    <3>2. Rpc!Accepts[s.msg.kind] = "SubtreeEnd"
      BY <3>1 DEF Rpc!Accepts
    <3>3. rpcCalls'[s.id].msg.kind = "Subtree"
      BY <1>4, <3>1 DEF Open, Quiet
    <3>4. Right(s.id, e.value, Len(log))'
      BY <3>3 DEF Right, Rpc!RefWrites
    <3> QED BY <2>2, <3>2, <3>4
  <2>3. ASSUME e.kind \notin {"Error", "SubtreeEnd"}
        PROVE e.kind = Rpc!Accepts[s.msg.kind] /\ Right(s.id, e.value, Len(log))'
    BY <1>1, <2>3
  <2>4. rpcCalls' = rpcCalls /\ notes'[c] = notes[c] /\ \A j : SameChanges(j)
    BY <1>2 DEF Quiet
  <2> QED BY <1>1, <1>4, <2>1, <2>2, <2>3, <2>4 DEF Replying
<1>6. Asking(c)' /\ Served(c)' /\ Sent(c)' /\ Noted(c)'
  BY <1>1, <1>2, <1>3, <1>5, Answered
<1>7. \A d \in {c} \intersect Clients : Conversing(d)'
  BY <1>6 DEF Conversing
<1> QED BY <1>7, QuietOthers

Messages == Updates \union Items \union Endings

\* Appending answers to what is on the wire keeps its type.
LEMMA RpcSendKeeps ==
  ASSUME RpcTypes, NEW c \in Clients, NEW items \in Seq(Items), NEW e \in Endings,
         \/ Rpc!Send(c, Append(items, e)) \/ Rpc!Send(c, items \o <<e>>)
         \/ items = <<>> /\ Rpc!Send(c, <<e>>)
  PROVE  /\ outbox' \in [Clients -> Seq(Updates \union Items \union Endings)]
         /\ Sends(outbox[c], outbox'[c], items, e)
         /\ \A d \in Clients \ {c} : outbox'[d] = outbox[d]
<1>1. outbox[c] \in Seq(Messages) /\ items \in Seq(Messages) /\ e \in Messages
  BY DEF RpcTypes, Messages
<1>2. PICK s, t : s = outbox[c] /\ t = outbox'[c]
  OBVIOUS
<1>3. /\ \/ t \in {s \o Append(items, e), s \o (items \o <<e>>)}
         \/ items = <<>> /\ t = s \o <<e>>
      /\ outbox' = [outbox EXCEPT ![c] = t]
  <2>1. outbox \in [Clients -> Seq(Messages)]
    BY DEF RpcTypes, Messages
  <2>2. ASSUME NEW x, Rpc!Send(c, x) PROVE t = s \o x /\ outbox' = [outbox EXCEPT ![c] = t]
    <3>1. outbox' = [outbox EXCEPT ![c] = outbox[c] \o x]
      BY <2>2 DEF Rpc!Send
    <3> QED BY <1>2, <2>1, <3>1
  <2>3. CASE Rpc!Send(c, Append(items, e))
    <3>1. PICK x : x = Append(items, e)
      OBVIOUS
    <3>2. Rpc!Send(c, x)
      BY <2>3, <3>1, Zenon
    <3>3. t = s \o x /\ outbox' = [outbox EXCEPT ![c] = t]
      BY <2>2, <3>2
    <3> QED BY ONLY <3>1, <3>3
  <2>4. CASE Rpc!Send(c, items \o <<e>>)
    <3>1. PICK x : x = items \o <<e>>
      OBVIOUS
    <3>2. Rpc!Send(c, x)
      BY <2>4, <3>1, Zenon
    <3>3. t = s \o x /\ outbox' = [outbox EXCEPT ![c] = t]
      BY <2>2, <3>2
    <3> QED BY ONLY <3>1, <3>3
  <2>5. CASE items = <<>> /\ Rpc!Send(c, <<e>>)
    <3>1. t = s \o <<e>> /\ outbox' = [outbox EXCEPT ![c] = t]
      BY <2>2, <2>5
    <3> QED BY ONLY <2>5, <3>1
  <2> QED BY <2>3, <2>4, <2>5
<1>4. /\ Sends(s, s \o Append(items, e), items, e) /\ s \o Append(items, e) \in Seq(Messages)
      /\ Sends(s, s \o (items \o <<e>>), items, e) /\ s \o (items \o <<e>>) \in Seq(Messages)
      /\ Sends(s, s \o <<e>>, <<>>, e) /\ s \o <<e>> \in Seq(Messages)
  <2>1. s \in Seq(Messages)
    BY <1>1, <1>2
  <2> QED BY ONLY <1>1, <2>1, SendsAre
<1>5. Sends(s, t, items, e) /\ t \in Seq(Messages)
  BY ONLY <1>3, <1>4
<1>6. outbox \in [Clients -> Seq(Messages)]
  BY DEF RpcTypes, Messages
<1>7. outbox' \in [Clients -> Seq(Messages)] /\ \A d \in Clients \ {c} : outbox'[d] = outbox[d]
  BY <1>3, <1>5, <1>6
<1> QED BY <1>2, <1>5, <1>7 DEF Messages

\* The first of the requests is taken.
LEMMA AskedLess ==
  ASSUME RpcTypes, NEW c \in Clients, Asking(c), inbox[c] # <<>>, inbox'[c] = Tail(inbox[c]),
         NEW h, h = Head(inbox[c]), serving'[c] # None => serving'[c].id = h.id,
         \A i, m : Open(i, c, m) /\ i # h.id =>
           SameCall(i) /\ \A k \in DOMAIN outbox'[c] : ~Says(outbox'[c][k], i)
  PROVE  Asking(c)'
<1>1. PICK S, q, t : S = [id : Nat, msg : Requests] /\ q = inbox[c] /\ t = inbox'[c] /\ q \in Seq(S)
  BY DEF RpcTypes
<1>2. /\ t \in Seq(S) /\ h = q[1] /\ Len(t) = Len(q) - 1
      /\ \A i \in 1 .. Len(t) : t[i] = q[i + 1]
  <2>1. t = Tail(q) /\ h = Head(q) /\ q # <<>>
    BY <1>1
  <2>2. q \in Seq(S)
    BY <1>1
  <2> QED BY ONLY <2>1, <2>2, HeadTailProperties
<1>3. DOMAIN q = 1 .. Len(q) /\ DOMAIN t = 1 .. Len(q) - 1 /\ Len(q) \in Nat \ {0}
  BY <1>1, <1>2, EmptySeq
<1>4. /\ \A j \in DOMAIN t : j \in Nat /\ j + 1 \in DOMAIN q /\ j + 1 # 1 /\ t[j] = q[j + 1]
      /\ 1 \in DOMAIN q
  BY ONLY <1>2, <1>3
<1>5. ASSUME NEW j \in DOMAIN t
      PROVE  /\ Open(t[j].id, c, t[j].msg)' /\ t[j].id # h.id
             /\ \A k \in DOMAIN t : t[k].id = t[j].id => k = j
  <2>1. PICK x, m, n : x = t[j].id /\ m = t[j].msg /\ n = j + 1
    OBVIOUS
  <2>2. n \in DOMAIN q /\ n # 1 /\ q[n].id = x /\ q[n].msg = m
    BY <1>4, <2>1
  <2>3. Open(x, c, m) /\ \A k \in DOMAIN q : q[k].id = x => k = n
    BY <1>1, <2>2 DEF Asking
  <2>4. x # h.id
    BY <1>2, <1>4, <2>2, <2>3
  <2>5. Open(x, c, m)'
    BY <2>3, <2>4, OpenStays
  <2>6. ASSUME NEW k \in DOMAIN t, t[k].id = x PROVE k = j
    <3>1. k + 1 \in DOMAIN q /\ q[k + 1].id = x /\ k \in Nat /\ j \in Nat
      BY <1>4, <2>6
    <3>2. k + 1 = j + 1
      BY <2>1, <2>3, <3>1
    <3> QED BY <3>1, <3>2
  <2> QED BY <2>1, <2>4, <2>5, <2>6 DEF Open, Outstanding, Says
<1> QED BY <1>1, <1>5 DEF Asking

\* A connection takes its next request.
LEMMA RpcTakeKeeps ==
  ASSUME RpcInv, NEW c \in Clients, Rpc!Take(c)
  PROVE  RpcInv'
<1>1. RpcTypes /\ Asking(c) /\ Served(c) /\ Sent(c) /\ Noted(c) /\ serving[c] = None /\ inbox[c] # <<>>
  BY DEF RpcInv, Rpc!Take
<1>2. PICK S, q, h : S = [id : Nat, msg : Requests] /\ q = inbox[c] /\ h = Head(q) /\ q \in Seq(S)
  BY <1>1 DEF RpcTypes
<1>3. /\ h = q[1] /\ h \in S /\ Tail(q) \in Seq(S) /\ 1 \in DOMAIN q
  <2>1. q # <<>> /\ q \in Seq(S) /\ h = Head(q)
    BY <1>1, <1>2
  <2>2. h = q[1] /\ h \in S /\ Tail(q) \in Seq(S)
    BY ONLY <2>1, HeadTailProperties
  <2> QED BY <2>1, <2>2, EmptySeq
<1>4. Open(h.id, c, h.msg)
  BY <1>1, <1>2, <1>3 DEF Asking
<1>5. /\ inbox' = [inbox EXCEPT ![c] = Tail(q)] /\ Quiet /\ notes' = notes
      /\ rpcCalls' = rpcCalls /\ log' = log /\ rpcStored' = rpcStored /\ rpcRefs' = rpcRefs
  BY <1>2 DEF Rpc!Take, Rpc!repository, Quiet
<1>6. inbox' \in [Clients -> Seq(S)] /\ inbox'[c] = Tail(q) /\ \A d \in Clients \ {c} : inbox'[d] = inbox[d]
  BY <1>1, <1>2, <1>3, <1>5 DEF RpcTypes
<1>7. CASE /\ Rpc!Send(c, <<Rpc!Message(h.id, "Error", None)>>)
           /\ UNCHANGED <<serving, subscribed>>
  <2>1. PICK e : e = Rpc!Message(h.id, "Error", None)
    OBVIOUS
  <2>2. e \in Endings /\ e.id = h.id /\ e.kind = "Error"
    BY <1>2, <1>3, <2>1 DEF Endings, Rpc!Message, Values, Held
  <2>3. PICK none \in Seq(Items) : none = <<>>
    <3>1. <<>> \in Seq(Items)
      OBVIOUS
    <3> QED BY <3>1
  <2>4. /\ outbox' \in [Clients -> Seq(Updates \union Items \union Endings)]
        /\ Sends(outbox[c], outbox'[c], none, e)
        /\ \A d \in Clients \ {c} : outbox'[d] = outbox[d]
    <3>1. none = <<>> /\ Rpc!Send(c, <<e>>)
      BY <1>7, <2>1, <2>3
    <3> QED BY <1>1, <2>2, <3>1, RpcSendKeeps
  <2>5. RpcTypes'
    BY <1>1, <1>2, <1>5, <1>6, <1>7, <2>4 DEF RpcTypes
  <2>6. /\ Grows /\ \A i : SameChanges(i) /\ (i \in DOMAIN rpcCalls => SameCall(i))
    BY <1>1, <1>5, <2>5, QuietKeeps DEF RpcInv
  <2>7. Replying(c, h.id, h.msg, none, e)
    <3>1. Rpc!ChangesBy(h.id)' = {}
      BY <1>4, <2>6 DEF SameChanges, Open
    <3> QED BY <1>4, <1>5, <2>2, <2>3, <2>4, <2>6, <3>1 DEF Replying
  <2>8. /\ Sent(c)' /\ Noted(c)'
        /\ \A j : j # h.id => \A k \in Len(outbox[c]) + 1 .. Len(outbox'[c]) : ~Says(outbox'[c][k], j)
    BY <1>1, <2>5, <2>6, <2>7, Replies
  <2>9. Asking(c)'
    <3>1. ASSUME NEW i, NEW m, Open(i, c, m), i # h.id
          PROVE  SameCall(i) /\ \A k \in DOMAIN outbox'[c] : ~Says(outbox'[c][k], i)
      <4>1. PICK l \in Nat : l = Len(outbox[c])
        <5>1. outbox[c] \in Seq(Updates \union Items \union Endings)
          BY <1>1 DEF RpcTypes
        <5> QED BY <5>1
      <4>2. Len(outbox[c]) <= Len(outbox'[c]) /\ \A k \in 1 .. Len(outbox[c]) : outbox'[c][k] = outbox[c][k]
        BY <2>3, <2>4, <4>1 DEF Sends
      <4>3. SameCall(i)
        BY <2>6, <3>1 DEF Open, Outstanding
      <4> QED BY <1>1, <2>5, <2>8, <3>1, <4>2, <4>3, NotSaid
    <3>2. inbox'[c] = Tail(inbox[c]) /\ h = Head(inbox[c]) /\ serving'[c] = None
      BY <1>1, <1>2, <1>6, <1>7
    <3> QED BY <1>1, <3>1, <3>2, AskedLess
  <2>10. Served(c)'
    BY <1>1, <1>7 DEF Served
  <2>11. \A d \in {c} \intersect Clients : Conversing(d)'
    BY <2>8, <2>9, <2>10 DEF Conversing
  <2>12. \A d \in Clients \ {c} : Apart(d)
    BY <1>5, <1>6, <1>7, <2>4 DEF Apart
  <2> QED BY <1>5, <2>5, <2>11, <2>12, QuietOthers
<1>8. CASE ~(/\ Rpc!Send(c, <<Rpc!Message(h.id, "Error", None)>>)
             /\ UNCHANGED <<serving, subscribed>>)
  <2>00. PICK old, stack :
           /\ old = IF h.msg.kind \in Rpc!RefWrites THEN rpcRefs[h.msg.arg] ELSE None
           /\ stack = IF h.msg.kind = "Subtree" THEN <<h.msg.arg>> ELSE <<>>
    OBVIOUS
  <2>0. /\ old = IF h.msg.kind \in Rpc!RefWrites THEN rpcRefs[h.msg.arg] ELSE None
        /\ stack = IF h.msg.kind = "Subtree" THEN <<h.msg.arg>> ELSE <<>>
        /\ serving' = [serving EXCEPT ![c] =
             [id |-> h.id, msg |-> h.msg, visited |-> {}, items |-> <<>>, old |-> old, stack |-> stack]]
        /\ subscribed' \in {subscribed, subscribed \union {c}} /\ outbox' = outbox
    <3>1. /\ serving' = [serving EXCEPT ![c] =
                  [id |-> h.id, msg |-> h.msg, visited |-> {}, items |-> <<>>,
                   old |-> IF h.msg.kind \in Rpc!RefWrites THEN rpcRefs[h.msg.arg] ELSE None,
                   stack |-> IF h.msg.kind = "Subtree" THEN <<h.msg.arg>> ELSE <<>>]]
          /\ subscribed' = IF h.msg.kind # "ListRepositories" THEN subscribed \union {c} ELSE subscribed
          /\ outbox' = outbox
      BY <1>2, <1>8, Zenon DEF Rpc!Take
    <3>2. serving' = [serving EXCEPT ![c] =
            [id |-> h.id, msg |-> h.msg, visited |-> {}, items |-> <<>>, old |-> old, stack |-> stack]]
      BY <2>00, <3>1, Zenon
    <3>3. subscribed' \in {subscribed, subscribed \union {c}}
      BY <3>1
    <3> QED BY <2>00, <3>1, <3>2, <3>3, Zenon
  <2>1. PICK w : w = [id |-> h.id, msg |-> h.msg, visited |-> {}, items |-> <<>>, old |-> old, stack |-> stack]
    OBVIOUS
  <2>2. h.id \in Nat /\ h.msg \in Requests
    BY <1>2, <1>3
  <2>3. /\ h.msg.kind = "Subtree" => h.msg.arg \in Nodes
        /\ h.msg.kind \in Rpc!RefWrites => h.msg.arg \in Refs
    BY <2>2, RequestsAreAsked
  <2>4. w \in Works /\ w.id = h.id /\ w.msg = h.msg /\ w.items = <<>> /\ w.visited = {} /\ w.stack = stack
    <3>1. old \in Held
      BY <1>1, <2>0, <2>3 DEF RpcTypes, Held
    <3>2. stack \in Seq(Nodes)
      BY <2>0, <2>3
    <3> QED BY <2>1, <2>2, <3>1, <3>2 DEF Works
  <2>5. /\ serving' \in [Clients -> Works \union {None}] /\ serving'[c] = w
        /\ \A d \in Clients \ {c} : serving'[d] = serving[d]
    BY <1>1, <2>0, <2>1, <2>4 DEF RpcTypes
  <2>6. RpcTypes'
    BY <1>1, <1>2, <1>5, <1>6, <2>0, <2>5 DEF RpcTypes
  <2>7. /\ Grows /\ \A i : SameChanges(i) /\ (i \in DOMAIN rpcCalls => SameCall(i))
    BY <1>1, <1>5, <2>6, QuietKeeps DEF RpcInv
  <2>8. ASSUME NEW i, NEW m, Open(i, c, m)
        PROVE  SameCall(i) /\ \A k \in DOMAIN outbox'[c] : ~Says(outbox'[c][k], i)
    BY <2>0, <2>7, <2>8 DEF Open, Outstanding
  <2>9. Asking(c)'
    <3>1. inbox'[c] = Tail(inbox[c]) /\ h = Head(inbox[c]) /\ (serving'[c] # None => serving'[c].id = h.id)
      BY <1>2, <1>6, <2>4, <2>5
    <3> QED BY <1>1, <2>8, <3>1, AskedLess
  <2>10. WalksIn(w)
    <3>1. CASE h.msg.kind # "Subtree"
      BY <2>4, <3>1 DEF WalksIn
    <3>2. CASE h.msg.kind = "Subtree"
      <4>1. PICK x \in Nodes : x = h.msg.arg
        BY <2>3, <3>2
      <4>2. Among(stack) = {x}
        BY <2>0, <3>2, <4>1 DEF Among
      <4>3. x \in Rpc!Reachable(x)
        BY DEF Rpc!Reachable
      <4> QED BY <2>4, <4>1, <4>2, <4>3 DEF WalksIn
    <3> QED BY <3>1, <3>2
  <2>11. Served(c)'
    <3>1. PICK i, m : i = h.id /\ m = h.msg
      OBVIOUS
    <3>2. Open(i, c, m)'
      BY <1>4, <2>8, <3>1, OpenStays
    <3>3. w.id = i /\ w.msg = m
      BY <2>4, <3>1
    <3> HIDE DEF outbox, rpcCalls, log, serving
    <3> QED BY <2>5, <2>10, <3>2, <3>3 DEF Served
  <2>12. \A d \in Clients \ {c} : Apart(d)
    BY <1>5, <1>6, <2>0, <2>5 DEF Apart
  <2>13. Sent(c)' /\ Noted(c)'
    <3>1. Len(outbox'[c]) = Len(outbox[c]) /\ outbox'[c] = outbox[c] /\ notes'[c] = notes[c]
      BY <1>5, <2>0
    <3>2. PICK l \in Nat : l = Len(outbox[c]) /\ DOMAIN outbox[c] = 1 .. l
      <4>1. outbox[c] \in Seq(Updates \union Items \union Endings)
        BY <1>1 DEF RpcTypes
      <4> QED BY <4>1
    <3>3. \A k \in DOMAIN outbox[c] : outbox[c][k].kind # "RefUpdated" =>
            /\ SameCall(outbox[c][k].id)
            /\ \A j \in Len(outbox[c]) + 1 .. Len(outbox'[c]) : ~Says(outbox'[c][j], outbox[c][k].id)
      <4>1. \A j \in Len(outbox[c]) + 1 .. Len(outbox'[c]) : FALSE
        BY <3>1, <3>2
      <4> QED BY <1>1, <2>7, <4>1 DEF Sent, SentAt, Outstanding
    <3>4. /\ Len(outbox[c]) <= Len(outbox'[c]) /\ \A k \in 1 .. Len(outbox[c]) : outbox'[c][k] = outbox[c][k]
          /\ \A k \in Len(outbox[c]) + 1 .. Len(outbox'[c]) : outbox'[c][k].kind # "RefUpdated"
      BY <3>1, <3>2
    <3>5. \A k \in 1 .. Len(outbox[c]) : SentAt(c, k)'
      <4> HIDE DEF outbox, rpcCalls, log
      <4> QED BY <1>1, <2>6, <2>7, <3>3, <3>4, SentStays
    <3>6. Noted(c)'
      BY <1>1, <2>6, <2>7, <3>1, <3>4, NotedStays
    <3> QED BY <3>1, <3>2, <3>5, <3>6 DEF Sent
  <2>14. \A d \in {c} \intersect Clients : Conversing(d)'
    BY <2>9, <2>11, <2>13 DEF Conversing
  <2> QED BY <1>5, <2>6, <2>12, <2>14, QuietOthers
<1> QED BY <1>7, <1>8

\* The step is of a client's turn, which it may end.
LEMMA RefuseKeeps ==
  ASSUME RpcInv, NEW c \in Clients, Rpc!Refuse(c)
  PROVE  RpcInv'
<1>1. RpcTypes /\ Served(c) /\ serving[c] # None /\ serving' = [serving EXCEPT ![c] = None] /\ inbox' = inbox
      /\ notes' = notes /\ subscribed' = subscribed
      /\ rpcCalls' = rpcCalls /\ log' = log /\ rpcStored' = rpcStored /\ rpcRefs' = rpcRefs
  BY DEF RpcInv, Rpc!Refuse, Rpc!repository
<1>2. PICK s \in Works : s = serving[c]
  BY <1>1 DEF RpcTypes
<1>3. PICK e : e = Rpc!Message(s.id, "Error", None)
  OBVIOUS
<1>4. s.items \in Seq(Items) /\ s.id \in Nat
  BY <1>2 DEF Works
<1>5. e \in Endings /\ e.id = s.id /\ e.kind = "Error"
  BY <1>3, <1>4 DEF Endings, Rpc!Message, Values, Held
<1>6. /\ outbox' \in [Clients -> Seq(Updates \union Items \union Endings)]
      /\ Sends(outbox[c], outbox'[c], s.items, e)
      /\ \A d \in Clients \ {c} : outbox'[d] = outbox[d]
  <2>1. Rpc!Send(c, s.items \o <<e>>)
    BY <1>2, <1>3, Zenon DEF Rpc!Refuse
  <2> QED BY <1>1, <1>4, <1>5, <2>1, RpcSendKeeps
<1>7. /\ serving' \in [Clients -> Works \union {None}] /\ serving'[c] = None
      /\ \A d \in Clients \ {c} : serving'[d] = serving[d]
  BY <1>1 DEF RpcTypes
<1>8. RpcTypes'
  BY <1>1, <1>6, <1>7 DEF RpcTypes
<1>9. \A j \in DOMAIN s.items : s.items[j].id = s.id
  <2>1. WalksIn(s)
    BY <1>1, <1>2 DEF Served
  <2>2. CASE s.msg.kind # "Subtree"
    BY <2>1, <2>2 DEF WalksIn
  <2>3. CASE s.msg.kind = "Subtree"
    BY <2>1, <2>3 DEF WalksIn
  <2> QED BY <2>2, <2>3
<1>10. Quiet /\ \A d \in Clients \ {c} : Apart(d)
  BY <1>1, <1>6, <1>7 DEF Quiet, Apart
<1>11. inbox'[c] = inbox[c] /\ notes'[c] = notes[c] /\ s # None
  BY <1>1, <1>2
<1>12. TurnEnds(c, s, s.items, e)
  BY <1>2, <1>4, <1>5, <1>6, <1>7, <1>9, <1>10, <1>11 DEF TurnEnds
<1> QED BY <1>8, <1>10, <1>12, QuietReply

\* What only reads is answered with what there is.
LEMMA ReadKeeps ==
  ASSUME RpcInv, NEW c \in Clients, Rpc!Read(c)
  PROVE  RpcInv'
<1> DEFINE Kinds == {"ListRepositories", "Get", "Contains", "GetByInclusiveHash", "GetRef", "ListRefs"}
<1>1. /\ RpcTypes /\ Logged /\ Served(c) /\ serving[c] # None /\ serving[c].msg.kind \in Kinds
      /\ serving' = [serving EXCEPT ![c] = None] /\ inbox' = inbox
      /\ notes' = notes /\ subscribed' = subscribed
      /\ rpcCalls' = rpcCalls /\ log' = log /\ rpcStored' = rpcStored /\ rpcRefs' = rpcRefs
  BY DEF RpcInv, Rpc!Read, Rpc!Serves, Rpc!repository
<1>2. PICK s \in Works : s = serving[c]
  BY <1>1 DEF RpcTypes
<1>3. PICK i \in Nat, m \in Requests : i = s.id /\ m = s.msg
  BY <1>2 DEF Works
<1>4. PICK value, e : value = Rpc!Answer(m).value /\ e = [Rpc!Answer(m) EXCEPT !.id = i]
  OBVIOUS
<1>5. m.kind \in Kinds
  BY <1>1, <1>2, <1>3
<1> HIDE DEF Kinds
<1>6. /\ m.kind \in {"Get", "Contains", "GetByInclusiveHash"} => m.arg \in Nodes
      /\ m.kind = "GetRef" => m.arg \in Refs
      /\ None \notin Nodes
  BY RequestsAreAsked
<1>7. /\ e.id = i /\ e.kind = Rpc!Accepts[m.kind] /\ e.value = value /\ e \in Endings
      /\ m.kind \in {"Get", "GetByInclusiveHash"} => value = Rpc!Found(m.arg)
      /\ m.kind = "Contains" => value = (m.arg \in rpcStored)
      /\ m.kind = "GetRef" => value = rpcRefs[m.arg]
      /\ m.kind = "ListRefs" => value = rpcRefs
  <2>1. rpcRefs \in [Refs -> Held]
    BY <1>1 DEF RpcTypes
  <2>2. ASSUME NEW k \in AnswerKinds, NEW v \in Values, Rpc!Answer(m) = Rpc!Message(0, k, v)
        PROVE  e.id = i /\ e.kind = k /\ e.value = v /\ value = v /\ e \in Endings
    BY <1>4, <2>2 DEF Rpc!Message, Endings
  <2>3. CASE m.kind = "ListRepositories"
    <3>1. Rpc!Answer(m) = Rpc!Message(0, "RepositoryList", None) /\ None \in Values /\ "RepositoryList" \in AnswerKinds
      BY <2>3 DEF Rpc!Answer, Values, Held, AnswerKinds
    <3> QED BY <2>2, <2>3, <3>1 DEF Rpc!Accepts
  <2>4. CASE m.kind = "Get"
    <3>1. /\ Rpc!Answer(m) = Rpc!Message(0, "Object", Rpc!Found(m.arg))
          /\ Rpc!Found(m.arg) \in Values /\ "Object" \in AnswerKinds
      BY <1>6, <2>4 DEF Rpc!Answer, Values, Held, AnswerKinds, Rpc!Found
    <3> QED BY <2>2, <2>4, <3>1 DEF Rpc!Accepts
  <2>5. CASE m.kind = "Contains"
    <3>1. /\ Rpc!Answer(m) = Rpc!Message(0, "Contains", m.arg \in rpcStored)
          /\ (m.arg \in rpcStored) \in Values /\ "Contains" \in AnswerKinds
      BY <2>5 DEF Rpc!Answer, Values, AnswerKinds
    <3> QED BY <2>2, <2>5, <3>1 DEF Rpc!Accepts
  <2>6. CASE m.kind = "GetByInclusiveHash"
    <3>1. /\ Rpc!Answer(m) = Rpc!Message(0, "ObjectWithHash", Rpc!Found(m.arg))
          /\ Rpc!Found(m.arg) \in Values /\ "ObjectWithHash" \in AnswerKinds
      BY <1>6, <2>6 DEF Rpc!Answer, Values, Held, AnswerKinds, Rpc!Found
    <3> QED BY <2>2, <2>6, <3>1 DEF Rpc!Accepts
  <2>7. CASE m.kind = "GetRef"
    <3>1. Rpc!Answer(m) = Rpc!Message(0, "Ref", rpcRefs[m.arg]) /\ rpcRefs[m.arg] \in Values /\ "Ref" \in AnswerKinds
      BY <1>6, <2>1, <2>7 DEF Rpc!Answer, Values, AnswerKinds
    <3> QED BY <2>2, <2>7, <3>1 DEF Rpc!Accepts
  <2>8. CASE m.kind = "ListRefs"
    <3>1. Rpc!Answer(m) = Rpc!Message(0, "RefList", rpcRefs) /\ rpcRefs \in Values /\ "RefList" \in AnswerKinds
      BY <2>1, <2>8 DEF Rpc!Answer, Values, AnswerKinds
    <3> QED BY <2>2, <2>8, <3>1 DEF Rpc!Accepts
  <2> QED BY <1>5, <2>3, <2>4, <2>5, <2>6, <2>7, <2>8 DEF Kinds
<1>8. /\ outbox' \in [Clients -> Seq(Updates \union Items \union Endings)]
      /\ Sends(outbox[c], outbox'[c], <<>>, e)
      /\ \A d \in Clients \ {c} : outbox'[d] = outbox[d]
  <2>1. Rpc!Send(c, <<e>>)
    BY <1>2, <1>3, <1>4, Zenon DEF Rpc!Read
  <2>2. PICK none \in Seq(Items) : none = <<>>
    <3>1. <<>> \in Seq(Items)
      OBVIOUS
    <3> QED BY <3>1
  <2>3. /\ outbox' \in [Clients -> Seq(Updates \union Items \union Endings)]
        /\ Sends(outbox[c], outbox'[c], none, e)
        /\ \A d \in Clients \ {c} : outbox'[d] = outbox[d]
    BY <1>1, <1>7, <2>1, <2>2, RpcSendKeeps
  <2> QED BY <2>2, <2>3
<1>9. /\ serving' \in [Clients -> Works \union {None}] /\ serving'[c] = None
      /\ \A d \in Clients \ {c} : serving'[d] = serving[d]
  BY <1>1 DEF RpcTypes
<1>10. RpcTypes'
  BY <1>1, <1>8, <1>9 DEF RpcTypes
<1>11. Quiet /\ \A d \in Clients \ {c} : Apart(d)
  BY <1>1, <1>8, <1>9 DEF Quiet, Apart
<1>12. Right(i, value, Len(log))'
  <2>1. Open(i, c, m)
    BY <1>1, <1>2, <1>3 DEF Served
  <2>2. PICK g \in Nat, f \in Nat :
          /\ g = Len(log) /\ g = Len(log') /\ f = rpcCalls[i].from /\ f = rpcCalls'[i].from /\ f <= g
    <3>1. rpcCalls[i] \in Made /\ rpcCalls[i].from <= Len(log)
      BY <1>1, <2>1, ElementOfSeq DEF RpcTypes, Open, Outstanding, Logged
    <3>2. Len(log) \in Nat /\ rpcCalls[i].from \in Nat
      BY <1>1, <3>1 DEF RpcTypes, Made
    <3> QED BY <1>1, <3>1, <3>2
  <2>3. rpcCalls'[i].msg = m /\ rpcCalls'[i].known \subseteq rpcStored
    BY <1>1, <2>1 DEF Open, Outstanding, Logged
  <2>4. \A r \in Refs : rpcRefs[r] = Rpc!ValueAfter(r, g)'
    <3>1. \A r \in Refs : rpcRefs[r] = Rpc!ValueAfter(r, g)
      BY <1>1, <2>2 DEF Logged
    <3>2. \A r : Rpc!ValueAfter(r, g)' = Rpc!ValueAfter(r, g)
      BY <1>1 DEF Rpc!ValueAfter
    <3> QED BY <3>1, <3>2
  <2>5. g \in f .. g
    BY <2>2
  <2>6. m.kind = "GetRef" => \E k \in f .. g : value = Rpc!ValueAfter(m.arg, k)'
    BY <1>6, <1>7, <2>4, <2>5
  <2>7. m.kind = "ListRefs" => \E k \in f .. g : \A r \in Refs : value[r] = Rpc!ValueAfter(r, k)'
    BY <1>7, <2>4, <2>5
  <2>8. m.kind \in {"Get", "GetByInclusiveHash"} =>
          IF value = None THEN m.arg \notin rpcCalls'[i].known ELSE value = m.arg /\ value \in rpcStored'
    BY <1>1, <1>6, <1>7, <2>3 DEF Rpc!Found
  <2>9. m.kind = "Contains" => IF value THEN m.arg \in rpcStored' ELSE m.arg \notin rpcCalls'[i].known
    BY <1>1, <1>7, <2>3
  <2>10. m.kind \notin Rpc!RefWrites
    BY <1>5 DEF Kinds, Rpc!RefWrites
  <2> HIDE DEF log, rpcCalls, rpcStored
  <2> QED BY <2>2, <2>3, <2>6, <2>7, <2>8, <2>9, <2>10 DEF Right
<1>13. TurnEnds(c, s, <<>>, e)
  <2>1. inbox'[c] = inbox[c] /\ notes'[c] = notes[c] /\ s # None
    BY <1>1, <1>2
  <2>2. <<>> \in Seq(Items) /\ \A j \in DOMAIN <<>> : FALSE
    OBVIOUS
  <2>3. e.kind # "SubtreeEnd"
    BY <1>5, <1>7 DEF Kinds, Rpc!Accepts
  <2>4. Right(s.id, e.value, Len(log))'
    BY <1>3, <1>7, <1>12
  <2> QED BY <1>2, <1>3, <1>7, <1>8, <1>9, <1>11, <2>1, <2>2, <2>3, <2>4 DEF TurnEnds
<1> QED BY <1>10, <1>11, <1>13, QuietReply

\* A turn that goes on: the walk of a subtree.
LEMMA TurnGoesOn ==
  ASSUME RpcInv, NEW c \in Clients, NEW s \in Works, s = serving[c], s # None,
         NEW w \in Works, serving' = [serving EXCEPT ![c] = w], w.id = s.id, w.msg = s.msg, WalksIn(w),
         inbox' = inbox, outbox' = outbox, notes' = notes, subscribed' = subscribed,
         rpcCalls' = rpcCalls, log' = log, rpcStored' = rpcStored, rpcRefs' = rpcRefs
  PROVE  RpcInv'
<1>1. RpcTypes /\ Asking(c) /\ Served(c) /\ Sent(c) /\ Noted(c)
  BY DEF RpcInv
<1>2. /\ serving' \in [Clients -> Works \union {None}] /\ serving'[c] = w
      /\ \A d \in Clients \ {c} : serving'[d] = serving[d]
  BY <1>1 DEF RpcTypes
<1>3. RpcTypes'
  BY <1>1, <1>2 DEF RpcTypes
<1>4. Quiet /\ \A d \in Clients \ {c} : Apart(d)
  BY <1>2 DEF Quiet, Apart
<1>5. /\ Grows /\ \A i : SameChanges(i) /\ (i \in DOMAIN rpcCalls => SameCall(i))
  BY <1>1, <1>3, <1>4, QuietKeeps DEF RpcInv
<1>6. ASSUME NEW i, NEW m, Open(i, c, m)
      PROVE  SameCall(i) /\ \A k \in DOMAIN outbox'[c] : ~Says(outbox'[c][k], i)
  BY <1>5, <1>6 DEF Open, Outstanding
<1>7. Asking(c)'
  <2>1. \A j \in DOMAIN inbox[c] :
          /\ SameCall(inbox[c][j].id)
          /\ \A k \in DOMAIN outbox'[c] : ~Says(outbox'[c][k], inbox[c][j].id)
    BY <1>1, <1>6 DEF Asking
  <2>2. inbox'[c] = inbox[c] /\ (serving'[c] # None => serving[c] # None /\ serving'[c].id = serving[c].id)
    BY <1>2
  <2> QED BY <1>1, <2>1, <2>2, AskingStays
<1>8. Served(c)'
  <2>1. PICK i, m : i = s.id /\ m = s.msg
    OBVIOUS
  <2>2. Open(i, c, m)
    BY <1>1, <2>1 DEF Served
  <2>3. Open(i, c, m)'
    BY <1>6, <2>2, OpenStays
  <2>4. w.id = i /\ w.msg = m
    BY <2>1
  <2> HIDE DEF outbox, rpcCalls, log, serving
  <2> QED BY <1>2, <2>3, <2>4 DEF Served
<1>9. PICK l \in Nat : l = Len(outbox[c]) /\ DOMAIN outbox[c] = 1 .. l
  <2>1. outbox[c] \in Seq(Updates \union Items \union Endings)
    BY <1>1 DEF RpcTypes
  <2> QED BY <2>1
<1>10. /\ Len(outbox[c]) <= Len(outbox'[c]) /\ \A k \in 1 .. Len(outbox[c]) : outbox'[c][k] = outbox[c][k]
       /\ \A k \in Len(outbox[c]) + 1 .. Len(outbox'[c]) : FALSE
  BY <1>9
<1>11. Sent(c)'
  <2>1. \A k \in DOMAIN outbox[c] : outbox[c][k].kind # "RefUpdated" =>
          /\ SameCall(outbox[c][k].id)
          /\ \A j \in Len(outbox[c]) + 1 .. Len(outbox'[c]) : ~Says(outbox'[c][j], outbox[c][k].id)
    BY <1>1, <1>5, <1>10 DEF Sent, SentAt, Outstanding
  <2>2. \A k \in 1 .. Len(outbox[c]) : SentAt(c, k)'
    <3> HIDE DEF outbox, rpcCalls, log
    <3> QED BY <1>1, <1>3, <1>5, <1>10, <2>1, SentStays
  <2>3. DOMAIN outbox'[c] = 1 .. Len(outbox[c])
    BY <1>9
  <2> QED BY <2>2, <2>3 DEF Sent
<1>12. Noted(c)'
  <2>1. notes'[c] = notes[c]
    OBVIOUS
  <2> QED BY <1>1, <1>3, <1>5, <1>10, <2>1, NotedStays
<1>13. \A d \in {c} \intersect Clients : Conversing(d)'
  BY <1>7, <1>8, <1>11, <1>12 DEF Conversing
<1> QED BY <1>3, <1>4, <1>13, QuietOthers

\* A set that has the root and is closed has all that the root reaches.
LEMMA ReachedIsClosed ==
  ASSUME NEW root \in Nodes, NEW V \in SUBSET Nodes, root \in V,
         \A h \in V : Among(Children[h]) \subseteq V
  PROVE  Rpc!Reachable(root) \subseteq V
<1>1. Rpc!Closed(V)
  BY DEF Rpc!Closed, Among
<1> QED BY <1>1 DEF Rpc!Reachable

\* What a subtree reaches has its children in it.
LEMMA ReachedHasChildren ==
  ASSUME NEW root \in Nodes, NEW h \in Rpc!Reachable(root)
  PROVE  Among(Children[h]) \subseteq Rpc!Reachable(root)
<1> SUFFICES ASSUME NEW x \in Among(Children[h]) PROVE x \in Rpc!Reachable(root)
  OBVIOUS
<1>1. h \in Nodes /\ Among(Children[h]) \subseteq Nodes
  <2>1. h \in Nodes
    BY DEF Rpc!Reachable
  <2>2. Children[h] \in Seq(Nodes)
    BY <2>1, RequestsAreAsked
  <2> QED BY <2>1, <2>2, AmongTyped
<1>2. ASSUME NEW V \in SUBSET Nodes, root \in V, Rpc!Closed(V) PROVE x \in V
  <2>1. h \in V
    BY <1>2 DEF Rpc!Reachable
  <2>2. Among(Children[h]) \subseteq V
    BY <1>2, <2>1 DEF Rpc!Closed, Among
  <2> QED BY <2>2
<1> QED BY <1>1, <1>2 DEF Rpc!Reachable

\* The walk of a subtree takes the top of its stack.
LEMMA WalkKeeps ==
  ASSUME RpcInv, NEW c \in Clients, Rpc!Walk(c)
  PROVE  RpcInv'
<1>1. /\ RpcTypes /\ Served(c) /\ serving[c] # None /\ serving[c].msg.kind = "Subtree"
      /\ inbox' = inbox /\ notes' = notes /\ subscribed' = subscribed
      /\ rpcCalls' = rpcCalls /\ log' = log /\ rpcStored' = rpcStored /\ rpcRefs' = rpcRefs
  BY DEF RpcInv, Rpc!Walk, Rpc!Serves, Rpc!repository
<1>2. PICK s \in Works : s = serving[c]
  BY <1>1 DEF RpcTypes
<1>3. PICK i \in Nat, root \in Nodes, stack \in Seq(Nodes), visited \in SUBSET Nodes, items \in Seq(Items) :
        i = s.id /\ root = s.msg.arg /\ stack = s.stack /\ visited = s.visited /\ items = s.items
  <2>1. /\ s.id \in Nat /\ s.msg \in Requests /\ s.stack \in Seq(Nodes) /\ s.visited \in SUBSET Nodes
        /\ s.items \in Seq(Items)
    BY <1>2 DEF Works
  <2>2. s.msg.arg \in Nodes
    BY <1>1, <1>2, <2>1, RequestsAreAsked
  <2> QED BY <2>1, <2>2
<1>4. /\ \A j \in DOMAIN items : items[j].id = i
      /\ DistinctItems(items) /\ visited = ValuesOf(items)
      /\ root \in visited \union Among(stack)
      /\ visited \union Among(stack) \subseteq Rpc!Reachable(root)
      /\ \A h \in visited : Among(Children[h]) \subseteq visited \union Among(stack)
  <2>1. WalksIn(s) /\ s.msg.kind = "Subtree"
    BY <1>1, <1>2 DEF Served
  <2> QED BY <1>3, <2>1 DEF WalksIn, DistinctItems, ValuesOf
<1>5. ASSUME NEW kind \in {"SubtreeEnd", "Error"},
             Rpc!Send(c, Append(s.items, Rpc!Message(s.id, kind, None))),
             serving' = [serving EXCEPT ![c] = None], kind = "SubtreeEnd" => stack = <<>>
      PROVE  RpcInv'
  <2>1. PICK e : e = Rpc!Message(i, kind, None)
    OBVIOUS
  <2>2. e \in Endings /\ e.id = i /\ e.kind = kind
    BY <2>1 DEF Endings, AnswerKinds, Rpc!Message, Values, Held
  <2>3. /\ outbox' \in [Clients -> Seq(Updates \union Items \union Endings)]
        /\ Sends(outbox[c], outbox'[c], items, e)
        /\ \A d \in Clients \ {c} : outbox'[d] = outbox[d]
    <3>1. Rpc!Send(c, Append(items, e))
      BY <1>3, <1>5, <2>1, Zenon
    <3> QED BY <1>1, <2>2, <3>1, RpcSendKeeps
  <2>4. /\ serving' \in [Clients -> Works \union {None}] /\ serving'[c] = None
        /\ \A d \in Clients \ {c} : serving'[d] = serving[d]
    BY <1>1, <1>5 DEF RpcTypes
  <2>5. RpcTypes'
    BY <1>1, <2>3, <2>4 DEF RpcTypes
  <2>6. Quiet /\ \A d \in Clients \ {c} : Apart(d)
    BY <1>1, <2>3, <2>4 DEF Quiet, Apart
  <2>7. ASSUME kind = "SubtreeEnd" PROVE ValuesOf(items) = Rpc!Reachable(root)
    <3>1. Among(stack) = {}
      BY <1>5, <2>7 DEF Among
    <3>2. root \in visited /\ \A h \in visited : Among(Children[h]) \subseteq visited
      BY <1>4, <3>1
    <3>3. Rpc!Reachable(root) \subseteq visited
      BY <3>2, ReachedIsClosed
    <3> QED BY <1>4, <3>3
  <2>8. TurnEnds(c, s, items, e)
    <3>1. inbox'[c] = inbox[c] /\ notes'[c] = notes[c] /\ s # None /\ s.msg.kind = "Subtree"
      BY <1>1, <1>2
    <3>2. e.kind \in {"Error", "SubtreeEnd"}
      BY <2>2
    <3> QED BY <1>2, <1>3, <1>4, <2>2, <2>3, <2>4, <2>6, <2>7, <3>1, <3>2 DEF TurnEnds
  <2> QED BY <2>5, <2>6, <2>8, QuietReply
<1>6. CASE stack = <<>>
  <2>1. Rpc!Send(c, Append(s.items, Rpc!Message(s.id, "SubtreeEnd", None))) /\ serving' = [serving EXCEPT ![c] = None]
    <3>1. serving[c].stack = <<>> /\ s = serving[c]
      BY <1>2, <1>3, <1>6
    <3> QED BY <1>2, <3>1, Zenon DEF Rpc!Walk
  <2> QED BY <1>5, <1>6, <2>1
<1>7. CASE stack # <<>>
  <2>1. PICK front \in Seq(Nodes), top \in Nodes :
          /\ front = SubSeq(stack, 1, Len(stack) - 1) /\ top = stack[Len(stack)]
          /\ Among(stack) = Among(front) \union {top}
    <3>1. /\ SubSeq(stack, 1, Len(stack) - 1) \in Seq(Nodes) /\ stack[Len(stack)] \in Nodes
          /\ Among(stack) = Among(SubSeq(stack, 1, Len(stack) - 1)) \union {stack[Len(stack)]}
      BY ONLY stack \in Seq(Nodes), <1>7, FrontAndLast
    <3> QED BY ONLY <3>1
  <2>2. CASE top \in visited
    <3>1. PICK w : w = [s EXCEPT !.stack = front]
      OBVIOUS
    <3>2. w \in Works /\ w.id = s.id /\ w.msg = s.msg /\ w.items = items /\ w.visited = visited /\ w.stack = front
      BY <1>3, <2>1, <3>1 DEF Works
    <3>3. serving' = [serving EXCEPT ![c] = w] /\ outbox' = outbox
      <4>1. serving' = [serving EXCEPT ![c].stack = front] /\ outbox' = outbox
        BY <1>2, <1>3, <1>7, <2>1, <2>2, Zenon DEF Rpc!Walk
      <4> QED BY <1>1, <1>2, <1>3, <2>1, <3>1, <4>1 DEF RpcTypes
    <3>4. WalksIn(w)
      <4>1. visited \union Among(front) = visited \union Among(stack)
        BY <2>1, <2>2
      <4> QED BY <1>1, <1>2, <1>3, <1>4, <3>2, <4>1 DEF WalksIn, DistinctItems, ValuesOf
    <3>5. s # None
      BY <1>1, <1>2
    <3> QED BY <1>1, <1>2, <3>2, <3>3, <3>4, <3>5, TurnGoesOn
  <2>3. CASE top \notin visited /\ top \notin rpcStored
    <3>1. Rpc!Send(c, Append(s.items, Rpc!Message(s.id, "Error", None))) /\ serving' = [serving EXCEPT ![c] = None]
      BY <1>2, <1>3, <1>7, <2>1, <2>3, Zenon DEF Rpc!Walk
    <3> QED BY <1>5, <3>1
  <2>4. CASE top \notin visited /\ top \in rpcStored
    <3>1. PICK item, more : item = Rpc!Message(i, "SubtreeItem", top) /\ more = Append(items, item)
      OBVIOUS
    <3>2. PICK next, seen : next = front \o Children[top] /\ seen = visited \union {top}
      OBVIOUS
    <3>3. item \in Items /\ item.id = i /\ item.value = top
      BY <3>1 DEF Items, Rpc!Message
    <3>4. next \in Seq(Nodes) /\ Among(next) = Among(front) \union Among(Children[top])
      <4>1. Children[top] \in Seq(Nodes)
        BY RequestsAreAsked
      <4> QED BY <3>2, <4>1, AmongConcat
    <3>5. more \in Seq(Items) /\ DistinctItems(more) /\ ValuesOf(more) = seen /\ \A j \in DOMAIN more : more[j].id = i
      <4>1. PICK n \in Nat : n = Len(items) /\ DOMAIN items = 1 .. n
        OBVIOUS
      <4>2. /\ more \in Seq(Items) /\ Len(more) = n + 1 /\ more[n + 1] = item
            /\ \A j \in 1 .. n : more[j] = items[j]
        BY <3>1, <3>3, <4>1, AppendProperties
      <4>3. DOMAIN more = 1 .. n + 1 /\ 1 .. n + 1 = (1 .. n) \union {n + 1} /\ n + 1 \notin 1 .. n
        BY <4>2
      <4>4. ValuesOf(more) = seen
        <5>1. \A j \in 1 .. n : more[j].value = items[j].value
          BY <4>2
        <5>2. more[n + 1].value = top /\ visited = {items[j].value : j \in 1 .. n}
          BY <1>4, <3>3, <4>1, <4>2 DEF ValuesOf
        <5>3. ValuesOf(more) = {more[j].value : j \in (1 .. n) \union {n + 1}}
          BY <4>3 DEF ValuesOf
        <5>4. {more[j].value : j \in (1 .. n) \union {n + 1}} = {items[j].value : j \in 1 .. n} \union {top}
          BY ONLY <5>1, <5>2
        <5> QED BY <3>2, <5>2, <5>3, <5>4
      <4>5. \A j \in 1 .. n : items[j].value # top
        BY <1>4, <2>4, <4>1 DEF ValuesOf
      <4>6. DistinctItems(more)
        BY <1>4, <3>3, <4>1, <4>2, <4>3, <4>5 DEF DistinctItems
      <4> QED BY <1>4, <3>3, <4>1, <4>2, <4>3, <4>4, <4>6
    <3>6. PICK w : w = [s EXCEPT !.stack = next, !.visited = seen, !.items = more]
      OBVIOUS
    <3>7. w \in Works /\ w.id = s.id /\ w.msg = s.msg /\ w.items = more /\ w.visited = seen /\ w.stack = next
      <4>1. seen \in SUBSET Nodes
        BY <3>2
      <4> QED BY <3>4, <3>5, <3>6, <4>1 DEF Works
    <3>8. serving' = [serving EXCEPT ![c] = w] /\ outbox' = outbox
      <4>1. /\ serving' = [serving EXCEPT ![c].stack = front \o Children[top],
                                          ![c].visited = @ \union {top},
                                          ![c].items = Append(@, Rpc!Message(i, "SubtreeItem", top))]
            /\ outbox' = outbox
        BY <1>2, <1>3, <1>7, <2>1, <2>4, Zenon DEF Rpc!Walk
      <4> QED BY <1>1, <1>2, <1>3, <2>1, <3>1, <3>2, <3>6, <4>1 DEF RpcTypes
    <3>9. WalksIn(w)
      <4>1. root \in seen \union Among(next)
        BY <1>4, <2>1, <3>2, <3>4
      <4>2. seen \union Among(next) \subseteq Rpc!Reachable(root)
        <5>1. top \in Rpc!Reachable(root)
          BY <1>4, <2>1
        <5>2. Among(Children[top]) \subseteq Rpc!Reachable(root)
          BY <5>1, ReachedHasChildren
        <5> QED BY <1>4, <2>1, <3>2, <3>4, <5>1, <5>2
      <4>3. \A h \in seen : Among(Children[h]) \subseteq seen \union Among(next)
        BY <1>4, <2>1, <3>2, <3>4
      <4>4. w.msg.kind = "Subtree" /\ w.msg.arg = root /\ w.id = i
        BY <1>1, <1>2, <1>3, <3>7
      <4> QED BY <3>5, <3>7, <4>1, <4>2, <4>3, <4>4 DEF WalksIn, DistinctItems, ValuesOf
    <3>10. s # None
      BY <1>1, <1>2
    <3> QED BY <1>1, <1>2, <3>7, <3>8, <3>9, <3>10, TurnGoesOn
  <2> QED BY <2>2, <2>3, <2>4
<1> QED BY <1>6, <1>7

\* A ref is written, its change recorded and told to those that subscribed.
LEMMA WriteKeeps ==
  ASSUME RpcInv, NEW c \in Clients, Rpc!Write(c)
  PROVE  RpcInv'
<1>1. /\ RpcTypes /\ Logged /\ Finished /\ Asking(c) /\ Served(c) /\ Sent(c) /\ Noted(c)
      /\ serving[c] # None /\ serving[c].msg.kind \in Rpc!RefWrites
      /\ serving' = [serving EXCEPT ![c] = None]
      /\ inbox' = inbox /\ notes' = notes /\ subscribed' = subscribed
      /\ rpcCalls' = rpcCalls /\ rpcStored' = rpcStored
  BY DEF RpcInv, Rpc!Write, Rpc!Serves
<1>2. PICK s \in Works : s = serving[c]
  BY <1>1 DEF RpcTypes
<1>3. PICK i \in Nat, m \in Requests, arg \in Refs, new \in Held, old \in Held :
        i = s.id /\ m = s.msg /\ arg = m.arg /\ new = m.new /\ old = s.old
  <2>1. s.id \in Nat /\ s.msg \in Requests /\ s.old \in Held
    BY <1>2 DEF Works
  <2>2. s.msg.arg \in Refs /\ s.msg.new \in Held
    BY <1>1, <1>2, <2>1, RequestsAreAsked DEF Held
  <2> QED BY <2>1, <2>2
<1>4. /\ serving' \in [Clients -> Works \union {None}] /\ serving'[c] = None
      /\ \A d \in Clients \ {c} : serving'[d] = serving[d]
  BY <1>1 DEF RpcTypes
<1>5. m.kind \in Rpc!RefWrites /\ Open(i, c, m)
  BY <1>1, <1>2, <1>3 DEF Served
<1>6. PICK value, reply :
        /\ value = IF m.kind = "CasRef" THEN Rpc!Swaps(c) ELSE None
        /\ reply = Rpc!Message(i, Rpc!Accepts[m.kind], value)
  OBVIOUS
<1>7. /\ reply \in Endings /\ reply.id = i /\ reply.kind = Rpc!Accepts[m.kind] /\ reply.value = value
      /\ reply.kind \notin {"Error", "SubtreeEnd"}
  <2>1. value \in Values
    <3>1. (m.kind = "CasRef" => value \in BOOLEAN) /\ (m.kind # "CasRef" => value = None)
      BY <1>6 DEF Rpc!Swaps
    <3> QED BY <3>1 DEF Values, Held
  <2>2. Rpc!Accepts[m.kind] \in {"RefSet", "RefDeleted", "CasResult"}
    BY <1>5 DEF Rpc!Accepts, Rpc!RefWrites
  <2>3. Rpc!Accepts[m.kind] \in AnswerKinds
    BY <2>2 DEF AnswerKinds
  <2> QED BY <1>6, <2>1, <2>2, <2>3 DEF Endings, Rpc!Message
<1>8. PICK none \in Seq(Items) : none = <<>>
  <2>1. <<>> \in Seq(Items)
    OBVIOUS
  <2> QED BY <2>1
<1>9. PICK g \in Nat, f \in Nat : g = Len(log) /\ f = rpcCalls[i].from /\ f <= g
  <2>1. rpcCalls[i] \in Made /\ rpcCalls[i].from <= Len(log)
    BY <1>1, <1>5, ElementOfSeq DEF RpcTypes, Open, Outstanding, Logged
  <2>2. Len(log) \in Nat /\ rpcCalls[i].from \in Nat
    BY <1>1, <2>1 DEF RpcTypes, Made
  <2> QED BY <2>1, <2>2
<1>10. rpcRefs[arg] = Rpc!ValueAfter(arg, g) /\ rpcCalls'[i].msg = m /\ rpcCalls'[i].from = f
  BY <1>1, <1>5, <1>9 DEF Logged, Open, Outstanding
<1>11. (Rpc!Swaps(c) <=> m.kind # "CasRef" \/ rpcRefs[arg] = m.expected)
  BY <1>2, <1>3 DEF Rpc!Swaps
<1>12. CASE ~Rpc!Swaps(c)
  <2>1. Rpc!Send(c, <<reply>>) /\ rpcRefs' = rpcRefs /\ log' = log
    <3>1. Rpc!Send(c, <<Rpc!Message(s.id, Rpc!Accepts[s.msg.kind],
                                    IF s.msg.kind = "CasRef" THEN Rpc!Swaps(c) ELSE None)>>)
          /\ rpcRefs' = rpcRefs /\ log' = log
      BY <1>2, <1>12, Zenon DEF Rpc!Write
    <3> QED BY <1>3, <1>6, <3>1, Zenon
  <2>2. /\ outbox' \in [Clients -> Seq(Updates \union Items \union Endings)]
        /\ Sends(outbox[c], outbox'[c], none, reply)
        /\ \A d \in Clients \ {c} : outbox'[d] = outbox[d]
    BY <1>1, <1>7, <1>8, <2>1, RpcSendKeeps
  <2>3. RpcTypes'
    BY <1>1, <1>4, <2>1, <2>2 DEF RpcTypes
  <2>4. Quiet /\ \A d \in Clients \ {c} : Apart(d)
    BY <1>1, <1>4, <2>1, <2>2 DEF Quiet, Apart
  <2>5. Right(i, value, Len(log))'
    <3>1. m.kind = "CasRef" /\ value = FALSE /\ rpcRefs[arg] # m.expected
      BY <1>6, <1>11, <1>12 DEF Rpc!Swaps
    <3>2. Rpc!ChangesBy(i)' = {} /\ Rpc!ValueAfter(arg, g)' = rpcRefs[arg]
      <4>1. Rpc!ChangesBy(i)' = Rpc!ChangesBy(i)
        BY <2>1 DEF Rpc!ChangesBy
      <4>2. Rpc!ValueAfter(arg, g)' = Rpc!ValueAfter(arg, g)
        BY <2>1 DEF Rpc!ValueAfter
      <4> QED BY <1>5, <1>10, <4>1, <4>2 DEF Open
    <3>3. g \in f .. g /\ g = Len(log')
      BY <1>9, <2>1
    <3>4. \E k \in f .. g : Rpc!ValueAfter(arg, k)' # m.expected
      BY <3>1, <3>2, <3>3
    <3>5. m.kind \notin {"GetRef", "ListRefs", "Get", "GetByInclusiveHash", "Contains"}
      BY <3>1
    <3> HIDE DEF log, rpcCalls, rpcStored
    <3> QED BY <1>3, <1>10, <3>1, <3>2, <3>3, <3>4, <3>5 DEF Right
  <2>6. TurnEnds(c, s, none, reply)
    <3>1. inbox'[c] = inbox[c] /\ notes'[c] = notes[c] /\ s # None
      BY <1>1, <1>2
    <3>2. \A j \in DOMAIN none : FALSE
      BY <1>8
    <3>3. Right(s.id, reply.value, Len(log))'
      BY <1>3, <1>7, <2>5
    <3> QED BY <1>2, <1>3, <1>4, <1>7, <1>8, <2>2, <2>4, <3>1, <3>2, <3>3 DEF TurnEnds
  <2> QED BY <2>3, <2>4, <2>6, QuietReply
<1>13. CASE Rpc!Swaps(c)
  <2>1. PICK update, entry, n :
          /\ update = [kind |-> "RefUpdated", ref |-> arg, old |-> old, new |-> new, by |-> c]
          /\ entry = [id |-> i, ref |-> arg, new |-> new] /\ n = g + 1 /\ n \in Nat
    <3>1. g + 1 \in Nat
      OBVIOUS
    <3> QED BY <3>1
  <2>2. /\ rpcRefs' = [rpcRefs EXCEPT ![arg] = new] /\ log' = Append(log, entry)
        /\ outbox' = [d \in Clients |->
             IF d = c THEN Append(outbox[d], reply)
             ELSE IF d \in subscribed THEN Append(outbox[d], update) ELSE outbox[d]]
    <3>1. /\ rpcRefs' = [rpcRefs EXCEPT ![s.msg.arg] = s.msg.new]
          /\ log' = Append(log, [id |-> s.id, ref |-> s.msg.arg, new |-> s.msg.new])
          /\ outbox' = [d \in Clients |->
               IF d = c
               THEN Append(outbox[d], Rpc!Message(s.id, Rpc!Accepts[s.msg.kind],
                                        IF s.msg.kind = "CasRef" THEN Rpc!Swaps(c) ELSE None))
               ELSE IF d \in subscribed
               THEN Append(outbox[d], [kind |-> "RefUpdated", ref |-> s.msg.arg, old |-> s.old,
                                       new |-> s.msg.new, by |-> c])
               ELSE outbox[d]]
      BY <1>2, <1>13, Zenon DEF Rpc!Write
    <3>2. reply = Rpc!Message(s.id, Rpc!Accepts[s.msg.kind], IF s.msg.kind = "CasRef" THEN Rpc!Swaps(c) ELSE None)
      BY <1>3, <1>6, Zenon
    <3>3. update = [kind |-> "RefUpdated", ref |-> s.msg.arg, old |-> s.old, new |-> s.msg.new, by |-> c]
      BY <1>3, <2>1, Zenon
    <3>4. entry = [id |-> s.id, ref |-> s.msg.arg, new |-> s.msg.new]
      BY <1>3, <2>1, Zenon
    <3> QED BY <1>3, <3>1, <3>2, <3>3, <3>4, Zenon
  <2>3. entry \in [id : Nat, ref : Refs, new : Held] /\ entry.id = i /\ entry.ref = arg /\ entry.new = new
    BY <2>1
  <2>4. update \in Updates /\ update.by = c
    BY <2>1 DEF Updates
  <2>5. /\ Grows /\ Len(log') = n /\ log'[n] = entry /\ Rpc!ValueAfter(arg, n)' = new
        /\ \A r : r # arg => Rpc!ValueAfter(r, n)' = Rpc!ValueAfter(r, n - 1)
        /\ \A j : j # i => SameChanges(j)
        /\ Rpc!ChangesBy(i)' = Rpc!ChangesBy(i) \union {n}
    <3>1. log \in Seq([id : Nat, ref : Refs, new : Held]) /\ n = Len(log) + 1 /\ rpcStored \subseteq rpcStored'
      BY <1>1, <1>9, <2>1 DEF RpcTypes
    <3>2. PICK C : C = [id : Nat, ref : Refs, new : Held]
      OBVIOUS
    <3>3. log \in Seq(C) /\ entry \in C
      BY <2>3, <3>1, <3>2
    <3>4. log' = Append(log, entry) /\ i = entry.id /\ arg = entry.ref /\ new = entry.new /\ n \in Nat
      BY <2>1, <2>2, <2>3
    <3> HIDE DEF rpcStored, log
    <3>5. Changed(n, entry, i, arg, new)
      BY ONLY <3>1, <3>3, <3>4, HistoryGrows
    <3>6. /\ Grows /\ Len(log') = n /\ log'[n] = entry
          /\ \A r : Rpc!ValueAfter(r, n)' = IF r = arg THEN new ELSE Rpc!ValueAfter(r, n - 1)
          /\ \A j : j # i => SameChanges(j)
          /\ Rpc!ChangesBy(i)' = Rpc!ChangesBy(i) \union {n}
      BY ONLY <3>5 DEF Changed
    <3>7. /\ Rpc!ValueAfter(arg, n)' = new
          /\ \A r : r # arg => Rpc!ValueAfter(r, n)' = Rpc!ValueAfter(r, n - 1)
      BY ONLY <3>6
    <3> QED BY ONLY <3>6, <3>7
  <2>6. /\ outbox' \in [Clients -> Seq(Updates \union Items \union Endings)]
        /\ Sends(outbox[c], outbox'[c], none, reply)
        /\ \A d \in Clients \ {c} : outbox'[d] = outbox[d] \/ outbox'[d] = Append(outbox[d], update)
    <3>1. outbox \in [Clients -> Seq(Messages)] /\ reply \in Messages /\ update \in Messages /\ none \in Seq(Messages)
      BY <1>1, <1>7, <1>8, <2>4 DEF RpcTypes, Messages
    <3>2. \A d \in Clients : /\ outbox[d] \in Seq(Messages) /\ Append(outbox[d], reply) \in Seq(Messages)
                             /\ Append(outbox[d], update) \in Seq(Messages)
      BY <3>1
    <3>3. outbox' \in [Clients -> Seq(Messages)] /\ outbox'[c] = Append(outbox[c], reply)
      BY <2>2, <3>2
    <3>4. PICK q, t : q = outbox[c] /\ t = outbox'[c]
      OBVIOUS
    <3>5. q \in Seq(Messages) /\ t = Append(q, reply)
      BY <3>2, <3>3, <3>4
    <3>6. Sends(q, t, <<>>, reply)
      BY ONLY <3>1, <3>5, SendsAre
    <3> QED BY <1>8, <2>2, <3>3, <3>4, <3>6 DEF Messages
  <2>7. RpcTypes'
    <3>1. log' \in Seq([id : Nat, ref : Refs, new : Held])
      BY <1>1, <2>2, <2>3 DEF RpcTypes
    <3>2. rpcRefs' \in [Refs -> Held]
      BY <1>1, <2>2 DEF RpcTypes
    <3> QED BY <1>1, <1>4, <2>6, <3>1, <3>2 DEF RpcTypes
  <2>8. n - 1 = g /\ n \in f .. n /\ n # f /\ g <= n
    BY <1>9, <2>1
  <2>9. Logged'
    <3>1. \A r \in Refs : rpcRefs'[r] = Rpc!ValueAfter(r, n)'
      <4>1. \A r \in Refs : r # arg => rpcRefs'[r] = rpcRefs[r] /\ rpcRefs[r] = Rpc!ValueAfter(r, g)
        BY <1>1, <1>9, <2>2 DEF RpcTypes, Logged
      <4>2. rpcRefs'[arg] = new
        BY <1>1, <2>2 DEF RpcTypes
      <4>3. \A r : r # arg => Rpc!ValueAfter(r, n)' = Rpc!ValueAfter(r, g)
        BY <2>5, <2>8
      <4> QED BY <2>5, <4>1, <4>2, <4>3
    <3>2. \A k \in DOMAIN log' : log'[k].id \in DOMAIN rpcCalls
      <4>1. DOMAIN log' = 1 .. n /\ DOMAIN log = 1 .. g
        BY <1>1, <1>9, <2>5, <2>7 DEF RpcTypes
      <4>2. \A k \in 1 .. n : k \in 1 .. g \/ k = n
        BY <2>8
      <4>3. \A k \in 1 .. g : log'[k] = log[k]
        BY <2>5, <4>1 DEF Grows
      <4>4. i \in DOMAIN rpcCalls
        BY <1>5 DEF Open, Outstanding
      <4> QED BY <1>1, <2>3, <2>5, <4>1, <4>2, <4>3, <4>4 DEF Logged
    <3>3. \A j \in DOMAIN rpcCalls :
            rpcCalls[j].from <= n /\ rpcCalls[j].till <= n /\ rpcCalls[j].known \subseteq rpcStored
      <4> SUFFICES ASSUME NEW j \in DOMAIN rpcCalls
                   PROVE  rpcCalls[j].from <= n /\ rpcCalls[j].till <= n /\ rpcCalls[j].known \subseteq rpcStored
        OBVIOUS
      <4>1. rpcCalls[j] \in Made
        BY <1>1, ElementOfSeq DEF RpcTypes
      <4>2. PICK a \in Nat, b \in Nat : a = rpcCalls[j].from /\ b = rpcCalls[j].till
        BY <4>1 DEF Made
      <4>3. a <= g /\ b <= g /\ rpcCalls[j].known \subseteq rpcStored
        BY <1>1, <1>9, <4>2 DEF Logged
      <4> QED BY <2>8, <4>2, <4>3
    <3> HIDE DEF log, rpcRefs, rpcStored
    <3> QED BY <1>1, <2>5, <3>1, <3>2, <3>3 DEF Logged
  <2>10. \A j \in DOMAIN rpcCalls : j # i => SameCall(j)
    BY <1>1, <2>5 DEF SameCall
  <2>11. Finished'
    <3> SUFFICES ASSUME NEW j \in DOMAIN rpcCalls
                 PROVE  (/\ rpcCalls[j].status = "failed" => Rpc!ChangesBy(j) = {}
                         /\ rpcCalls[j].status = "ok" =>
                              /\ Right(j, rpcCalls[j].value, rpcCalls[j].till)
                              /\ rpcCalls[j].msg.kind = "Subtree" =>
                                   /\ NoRepeats(rpcCalls[j].items)
                                   /\ Among(rpcCalls[j].items) = Rpc!Reachable(rpcCalls[j].msg.arg))'
      BY <1>1 DEF Finished
    <3>1. CASE j = i
      BY <1>1, <1>5, <3>1 DEF Open, Outstanding
    <3>2. CASE j # i
      <4>1. SameCall(j)
        BY <2>10, <3>2
      <4>2. /\ rpcCalls[j].status = "failed" => Rpc!ChangesBy(j) = {}
            /\ rpcCalls[j].status = "ok" =>
                 /\ Right(j, rpcCalls[j].value, rpcCalls[j].till)
                 /\ rpcCalls[j].msg.kind = "Subtree" =>
                      /\ NoRepeats(rpcCalls[j].items)
                      /\ Among(rpcCalls[j].items) = Rpc!Reachable(rpcCalls[j].msg.arg)
        BY <1>1 DEF Finished
      <4> HIDE DEF rpcCalls, log, rpcStored, outbox, serving, inbox
      <4> QED BY <1>1, <2>5, <4>1, <4>2, FinishedStays
    <3> QED BY <3>1, <3>2
  <2>12. Right(i, value, Len(log))'
    <3>1. m.kind = "CasRef" => value = TRUE /\ rpcRefs[arg] = m.expected
      BY <1>6, <1>11, <1>13
    <3>2. Rpc!ValueAfter(arg, n - 1)' = rpcRefs[arg]
      <4>1. g <= Len(log) /\ DOMAIN log = 1 .. Len(log) /\ Len(log) \in Nat
        BY <1>1, <1>9 DEF RpcTypes
      <4>2. Rpc!ValueAfter(arg, g)' = Rpc!ValueAfter(arg, g)
        BY <2>5, <4>1, PastStays
      <4> QED BY <1>10, <2>8, <4>2
    <3>3. Rpc!ChangesBy(i)' = {n}
      BY <1>5, <2>5 DEF Open
    <3>4. n \in (f .. n) \ {f} /\ log'[n].new = m.new
      BY <1>3, <2>3, <2>5, <2>8
    <3>5. m.kind \notin {"GetRef", "ListRefs", "Get", "GetByInclusiveHash", "Contains"}
      BY <1>5 DEF Rpc!RefWrites
    <3>6. \E k \in (f .. n) \ {f} :
            /\ Rpc!ChangesBy(i)' = {k} /\ log'[k].new = m.new
            /\ m.kind = "CasRef" => Rpc!ValueAfter(m.arg, k - 1)' = m.expected
      BY <1>3, <3>1, <3>2, <3>3, <3>4
    <3> HIDE DEF log, rpcCalls, rpcStored
    <3> QED BY <1>10, <2>5, <3>1, <3>5, <3>6 DEF Right
  <2>13. Replying(c, i, m, none, reply)
    <3>1. notes'[c] = notes[c] /\ \A j \in DOMAIN none : FALSE
      BY <1>1, <1>8
    <3>2. Right(i, reply.value, Len(log))'
      BY <1>7, <2>12
    <3> QED BY <1>1, <1>5, <1>7, <1>8, <2>5, <2>6, <3>1, <3>2 DEF Replying
  <2>14. Conversing(c)'
    <3>1. inbox'[c] = inbox[c] /\ s # None /\ Replying(c, s.id, s.msg, none, reply)
      BY <1>1, <1>2, <1>3, <2>13
    <3>2. Asking(c)' /\ Served(c)' /\ Sent(c)' /\ Noted(c)'
      BY <1>1, <1>2, <1>4, <2>5, <2>7, <3>1, Answered
    <3> QED BY <3>2 DEF Conversing
  <2>15. ASSUME NEW d \in Clients \ {c} PROVE Conversing(d)'
    <3>1. /\ Asking(d) /\ Served(d) /\ Sent(d) /\ Noted(d)
          /\ inbox'[d] = inbox[d] /\ serving'[d] = serving[d] /\ notes'[d] = notes[d]
      BY <1>1, <1>4 DEF RpcInv
    <3>2. \A j : Outstanding(j, d) => SameCall(j)
      BY <1>5, <2>10 DEF Outstanding, Open
    <3>3. Len(log') = Len(log) + 1
      BY <1>9, <2>1, <2>5
    <3>4. \/ outbox'[d] = outbox[d]
          \/ /\ Len(log') = Len(log) + 1
             /\ \E u \in Updates : u.by # d /\ outbox'[d] = Append(outbox[d], u)
      BY <2>4, <2>6, <3>3
    <3>5. Asking(d)' /\ Served(d)' /\ Sent(d)' /\ Noted(d)'
      <4> HIDE DEF inbox, serving, notes, outbox, log
      <4> QED BY <1>1, <2>5, <2>7, <3>1, <3>2, <3>4, OthersStay
    <3> QED BY <3>5 DEF Conversing
  <2>16. \A d \in Clients : Conversing(d)'
    BY <2>14, <2>15
  <2> QED BY <2>7, <2>9, <2>11, <2>16 DEF RpcInv, Conversing
<1> QED BY <1>12, <1>13

\* A client calls.
LEMMA CallKeeps ==
  ASSUME RpcInv, NEW c \in Clients, NEW m \in Requests, Rpc!Call(c, m)
  PROVE  RpcInv'
<1>1. /\ RpcTypes /\ Logged /\ Finished
      /\ serving' = serving /\ notes' = notes /\ subscribed' = subscribed /\ outbox' = outbox
      /\ log' = log /\ rpcStored' = rpcStored /\ rpcRefs' = rpcRefs
  BY DEF RpcInv, Rpc!Call, Rpc!repository
<1>2. PICK l \in Nat, g \in Nat : l = Len(rpcCalls) /\ g = Len(log) /\ DOMAIN rpcCalls = 1 .. l
  BY <1>1 DEF RpcTypes
<1>3. PICK made, id, ask :
        /\ made = [client |-> c, msg |-> m, status |-> "waiting", value |-> None,
                   items |-> <<>>, known |-> rpcStored, from |-> g, till |-> 0]
        /\ id = l + 1 /\ ask = [id |-> id, msg |-> m]
  OBVIOUS
<1>4. rpcCalls' = Append(rpcCalls, made) /\ inbox' = [inbox EXCEPT ![c] = Append(inbox[c], ask)]
  BY <1>2, <1>3, Zenon DEF Rpc!Call
<1>5. /\ made \in Made /\ made.client = c /\ made.msg = m /\ made.status = "waiting" /\ made.items = <<>>
      /\ made.known = rpcStored /\ made.from = g /\ made.till = 0
  <2>1. rpcStored \subseteq Nodes /\ None \in Values /\ <<>> \in Seq(Nodes) /\ 0 \in Nat
    BY <1>1 DEF RpcTypes, Values, Held
  <2> QED BY <1>3, <2>1 DEF Made
<1>6. /\ rpcCalls' \in Seq(Made) /\ Len(rpcCalls') = id /\ rpcCalls'[id] = made
      /\ \A i \in 1 .. l : rpcCalls'[i] = rpcCalls[i]
  <2>1. rpcCalls \in Seq(Made)
    BY <1>1 DEF RpcTypes
  <2> HIDE DEF rpcCalls
  <2> QED BY <1>2, <1>3, <1>4, <1>5, <2>1, AppendProperties
<1>7. DOMAIN rpcCalls' = 1 .. id /\ 1 .. id = (1 .. l) \union {id} /\ id \notin 1 .. l /\ id \in Nat
  BY <1>2, <1>3, <1>6
<1>8. PICK S, q, t : S = [id : Nat, msg : Requests] /\ q = inbox[c] /\ t = inbox'[c] /\ q \in Seq(S)
  BY <1>1 DEF RpcTypes
<1>9. ask \in S /\ ask.id = id /\ ask.msg = m
  BY <1>3, <1>7, <1>8
<1>10. /\ inbox' \in [Clients -> Seq([id : Nat, msg : Requests])] /\ t = Append(q, ask)
       /\ \A d \in Clients \ {c} : inbox'[d] = inbox[d]
  <2>1. inbox \in [Clients -> Seq(S)]
    BY <1>1, <1>8 DEF RpcTypes
  <2>2. PICK box : box = Append(q, ask)
    OBVIOUS
  <2>3. box \in Seq(S)
    BY ONLY <1>8, <1>9, <2>2, AppendProperties
  <2>4. inbox' = [inbox EXCEPT ![c] = box]
    BY <1>4, <1>8, <2>2
  <2>5. inbox' \in [Clients -> Seq(S)] /\ inbox'[c] = box /\ \A d \in Clients \ {c} : inbox'[d] = inbox[d]
    BY <2>1, <2>3, <2>4
  <2> QED BY <1>8, <2>2, <2>5
<1>11. RpcTypes'
  BY <1>1, <1>6, <1>10 DEF RpcTypes
<1>12. Grows /\ \A i : SameChanges(i)
  BY <1>1, <1>2 DEF Grows, SameChanges, Rpc!ChangesBy
<1>13. \A i \in 1 .. l : SameCall(i)
  BY <1>6, <1>7, <1>12 DEF SameCall
<1>14. Logged'
  <2>1. \A r : Rpc!ValueAfter(r, g)' = Rpc!ValueAfter(r, g)
    BY <1>1 DEF Rpc!ValueAfter
  <2>2. \A r \in Refs : rpcRefs'[r] = Rpc!ValueAfter(r, g)'
    BY <1>1, <1>2, <2>1 DEF Logged
  <2>3. \A k \in DOMAIN log : log[k].id \in DOMAIN rpcCalls'
    BY <1>1, <1>2, <1>7 DEF Logged
  <2>4. \A i \in 1 .. id :
          rpcCalls'[i].from <= g /\ rpcCalls'[i].till <= g /\ rpcCalls'[i].known \subseteq rpcStored
    <3>1. \A i \in 1 .. l :
            rpcCalls[i].from <= g /\ rpcCalls[i].till <= g /\ rpcCalls[i].known \subseteq rpcStored
      BY <1>1, <1>2 DEF Logged
    <3>2. made.from <= g /\ made.till <= g /\ made.known \subseteq rpcStored
      BY <1>2, <1>5
    <3> QED BY <1>6, <1>7, <3>1, <3>2
  <2> HIDE DEF log, rpcRefs, rpcStored, rpcCalls
  <2> QED BY <1>1, <1>2, <1>7, <2>2, <2>3, <2>4 DEF Logged
<1>15. Finished'
  <2> SUFFICES ASSUME NEW j \in 1 .. id
               PROVE  (/\ rpcCalls[j].status = "failed" => Rpc!ChangesBy(j) = {}
                       /\ rpcCalls[j].status = "ok" =>
                            /\ Right(j, rpcCalls[j].value, rpcCalls[j].till)
                            /\ rpcCalls[j].msg.kind = "Subtree" =>
                                 /\ NoRepeats(rpcCalls[j].items)
                                 /\ Among(rpcCalls[j].items) = Rpc!Reachable(rpcCalls[j].msg.arg))'
    BY <1>7 DEF Finished
  <2>1. CASE j = id
    BY <1>5, <1>6, <2>1
  <2>2. CASE j \in 1 .. l
    <3>1. SameCall(j) /\ j \in DOMAIN rpcCalls
      BY <1>2, <1>13, <2>2
    <3>2. /\ rpcCalls[j].status = "failed" => Rpc!ChangesBy(j) = {}
          /\ rpcCalls[j].status = "ok" =>
               /\ Right(j, rpcCalls[j].value, rpcCalls[j].till)
               /\ rpcCalls[j].msg.kind = "Subtree" =>
                    /\ NoRepeats(rpcCalls[j].items)
                    /\ Among(rpcCalls[j].items) = Rpc!Reachable(rpcCalls[j].msg.arg)
      BY <1>1, <3>1 DEF Finished
    <3> HIDE DEF rpcCalls, log, rpcStored, outbox, serving, inbox
    <3> QED BY <1>1, <1>12, <3>1, <3>2, FinishedStays
  <2> QED BY <1>7, <2>1, <2>2
<1>16. ASSUME NEW d \in Clients
       PROVE  Served(d)' /\ Sent(d)' /\ Noted(d)' /\ (inbox'[d] = inbox[d] => Asking(d)')
  <2>1. /\ Asking(d) /\ Served(d) /\ Sent(d) /\ Noted(d)
        /\ serving'[d] = serving[d] /\ notes'[d] = notes[d] /\ outbox'[d] = outbox[d]
    BY <1>1 DEF RpcInv
  <2>2. \A i : Outstanding(i, d) => SameCall(i)
    BY <1>2, <1>13 DEF Outstanding
  <2> HIDE DEF inbox, serving, notes, outbox, log
  <2> QED BY <1>1, <1>11, <1>12, <2>1, <2>2, OthersStay
<1>17. Asking(c)'
  <2>1. Asking(c) /\ Served(c) /\ Sent(c)
    BY DEF RpcInv
  <2>2. PICK n \in Nat : n = Len(q)
    BY <1>8
  <2>3. /\ t \in Seq(S) /\ DOMAIN q = 1 .. n /\ DOMAIN t = 1 .. n + 1 /\ t[n + 1] = ask
        /\ \A j \in 1 .. n : t[j] = q[j]
    BY <1>8, <1>9, <1>10, <2>2, AppendProperties
  <2>4. \A j \in 1 .. n + 1 : j \in 1 .. n \/ j = n + 1
    OBVIOUS
  <2>5. Open(id, c, m)'
    <3>1. Rpc!ChangesBy(id)' = {}
      <4>1. \A k \in DOMAIN log : log[k].id # id
        BY <1>1, <1>2, <1>7 DEF Logged
      <4> QED BY <1>1, <4>1 DEF Rpc!ChangesBy
    <3>2. \A k \in DOMAIN outbox[c] : ~Says(outbox[c][k], id)
      BY <1>2, <1>7, <2>1 DEF Sent, SentAt, Says, Outstanding
    <3>3. id \in DOMAIN rpcCalls'
      BY <1>7
    <3> QED BY <1>1, <1>5, <1>6, <3>1, <3>2, <3>3 DEF Open, Outstanding, Says
  <2>6. ASSUME NEW j \in 1 .. n
        PROVE  /\ Open(q[j].id, c, q[j].msg)' /\ q[j].id # id
               /\ serving[c] # None => q[j].id # serving[c].id
               /\ \A k \in 1 .. n : q[k].id = q[j].id => k = j
    <3>1. PICK x, y : x = q[j].id /\ y = q[j].msg
      OBVIOUS
    <3>2. /\ Open(x, c, y) /\ (serving[c] # None => x # serving[c].id)
          /\ \A k \in 1 .. n : q[k].id = x => k = j
      BY <1>8, <2>1, <2>3, <3>1 DEF Asking
    <3>3. x \in 1 .. l /\ SameCall(x)
      BY <1>2, <1>13, <3>2 DEF Open, Outstanding
    <3>4. \A k \in DOMAIN outbox'[c] : ~Says(outbox'[c][k], x)
      BY <1>1, <3>2 DEF Open
    <3>5. Open(x, c, y)'
      BY <3>2, <3>3, <3>4, OpenStays
    <3> QED BY <1>7, <3>1, <3>2, <3>3, <3>5 DEF Open, Outstanding, Says
  <2>7. serving[c] # None => serving[c].id # id
    BY <1>2, <1>7, <2>1 DEF Served, Open, Outstanding
  <2>8. \A j \in 1 .. n + 1 :
          /\ Open(t[j].id, c, t[j].msg)'
          /\ \A k \in 1 .. n + 1 : t[k].id = t[j].id => k = j
          /\ serving'[c] # None => t[j].id # serving'[c].id
    <3> SUFFICES ASSUME NEW j \in 1 .. n + 1
                 PROVE  /\ Open(t[j].id, c, t[j].msg)'
                        /\ \A k \in 1 .. n + 1 : t[k].id = t[j].id => k = j
                        /\ serving'[c] # None => t[j].id # serving'[c].id
      OBVIOUS
    <3>1. CASE j = n + 1
      <4>1. t[j].id = id /\ t[j].msg = m
        BY <1>9, <2>3, <3>1
      <4>2. Open(t[j].id, c, t[j].msg)'
        BY <2>5, <4>1, Zenon
      <4> QED BY <1>1, <2>3, <2>4, <2>6, <2>7, <3>1, <4>1, <4>2
    <3>2. CASE j \in 1 .. n
      <4>1. t[j] = q[j]
        BY <2>3, <3>2
      <4>2. Open(t[j].id, c, t[j].msg)'
        BY <2>6, <3>2, <4>1, Zenon
      <4> QED BY <1>1, <1>9, <2>3, <2>4, <2>6, <3>2, <4>1, <4>2
    <3> QED BY <2>4, <3>1, <3>2
  <2>9. \A j \in DOMAIN t : Open(t[j].id, c, t[j].msg)'
    BY <2>3, <2>8
  <2> QED BY <1>8, <2>3, <2>8, <2>9 DEF Asking
<1>18. \A d \in Clients : Asking(d)'
  <2>1. ASSUME NEW d \in Clients \ {c} PROVE Asking(d)'
    BY <1>10, <1>16
  <2> QED BY <1>17, <2>1
<1> QED BY <1>11, <1>14, <1>15, <1>16, <1>18 DEF RpcInv

\* What the call i is after its item came.
Receives(i, value) ==
  /\ i \in DOMAIN rpcCalls /\ i \in DOMAIN rpcCalls' /\ SameChanges(i)
  /\ rpcCalls'[i].msg = rpcCalls[i].msg /\ rpcCalls'[i].from = rpcCalls[i].from
  /\ rpcCalls'[i].known = rpcCalls[i].known /\ rpcCalls'[i].client = rpcCalls[i].client
  /\ rpcCalls'[i].status = rpcCalls[i].status
  /\ rpcCalls'[i].items = Append(rpcCalls[i].items, value)

\* What is on the wire moves up when the first message is read.
LEMMA SentMovesUp ==
  ASSUME RpcTypes, RpcTypes', Grows, log' = log, NEW c \in Clients, Sent(c),
         outbox[c] # <<>>, outbox'[c] = Tail(outbox[c]), NEW h, h = Head(outbox[c]),
         \A j \in DOMAIN rpcCalls : ~Says(h, j) => SameCall(j),
         h.kind = "SubtreeItem" => Receives(h.id, h.value)
  PROVE  Sent(c)'
<1>1. PICK l \in Nat :
        /\ l # 0 /\ DOMAIN outbox[c] = 1 .. l /\ DOMAIN outbox'[c] = 1 .. l - 1 /\ h = outbox[c][1]
        /\ Len(outbox[c]) = l /\ Len(outbox'[c]) = l - 1
        /\ \A k \in 1 .. l - 1 : outbox'[c][k] = outbox[c][k + 1]
  <2>1. PICK q : q = outbox[c] /\ q \in Seq(Messages)
    BY DEF RpcTypes, Messages
  <2>2. \E l \in Nat :
          /\ l = Len(q) /\ l # 0 /\ DOMAIN q = 1 .. l /\ DOMAIN Tail(q) = 1 .. l - 1 /\ Len(Tail(q)) = l - 1
          /\ Head(q) = q[1] /\ Head(q) \in Messages /\ Tail(q) \in Seq(Messages)
          /\ \A k \in 1 .. l - 1 : Tail(q)[k] = q[k + 1]
    BY <2>1, MovesUp
  <2> QED BY <2>1, <2>2
<1>2. SUFFICES ASSUME NEW k \in 1 .. l - 1 PROVE SentAt(c, k)'
  BY <1>1 DEF Sent
<1>3. PICK m : m = outbox[c][k + 1] /\ m = outbox'[c][k]
  BY <1>1
<1>4. k + 1 \in 1 .. l /\ k \in Nat /\ 1 \in 1 .. l /\ k # 0 /\ (k + 1) - 1 = k
  BY <1>1
<1>5. SentAt(c, k + 1) /\ SentAt(c, 1)
  BY <1>1, <1>4 DEF Sent
<1>6. CASE m.kind = "RefUpdated"
  BY <1>3, <1>5, <1>6 DEF SentAt
<1>7. CASE m.kind # "RefUpdated"
  <2>1. PICK i, v : i = m.id /\ v = m.value
    OBVIOUS
  <2>2. Outstanding(i, c)
    BY <1>3, <1>5, <1>7, <2>1 DEF SentAt
  <2>3. CASE m.kind = "SubtreeItem"
    <3>1. Outstanding(i, c)'
      <4>1. CASE Says(h, i)
        <5>1. h.kind \in {"RefUpdated", "SubtreeItem"}
          <6>1. ASSUME h.kind \notin {"RefUpdated", "SubtreeItem"} PROVE FALSE
            <7>1. \A j \in 1 + 1 .. Len(outbox[c]) : ~Says(outbox[c][j], h.id)
              BY <1>1, <1>5, <6>1 DEF SentAt
            <7>2. k + 1 \in 1 + 1 .. Len(outbox[c])
              BY <1>1, <1>4
            <7> QED BY <1>3, <1>7, <2>1, <4>1, <7>1, <7>2 DEF Says
          <6> QED BY <6>1
        <5>2. Receives(i, h.value)
          BY <4>1, <5>1 DEF Says
        <5> QED BY <2>2, <5>2 DEF Receives, Outstanding
      <4>2. CASE ~Says(h, i)
        <5>1. SameCall(i)
          BY <2>2, <4>2 DEF Outstanding
        <5> QED BY <2>2, <5>1 DEF SameCall, Outstanding
      <4> QED BY <4>1, <4>2
    <3> QED BY <1>3, <1>7, <2>1, <2>3, <3>1 DEF SentAt
  <2>4. CASE m.kind # "SubtreeItem"
    <3>1. /\ \A j \in (k + 1) + 1 .. l : ~Says(outbox[c][j], i)
          /\ m.kind = "Error" => Rpc!ChangesBy(i) = {}
          /\ m.kind # "Error" => m.kind = Rpc!Accepts[rpcCalls[i].msg.kind] /\ Right(i, v, Len(log))
          /\ m.kind = "SubtreeEnd" =>
               \E full \in Seq(Nodes), n \in 0 .. k : Rest(c, k + 1, i, full, n)
      BY <1>1, <1>3, <1>4, <1>5, <1>7, <2>1, <2>4 DEF SentAt
    <3>2. Says(h, i) => Receives(i, h.value)
      <4> SUFFICES ASSUME Says(h, i) PROVE Receives(i, h.value)
        OBVIOUS
      <4>1. h.kind # "RefUpdated" /\ h.id = i
        BY DEF Says
      <4>2. ASSUME h.kind # "SubtreeItem" PROVE FALSE
        <5>1. \A j \in 1 + 1 .. Len(outbox[c]) : ~Says(outbox[c][j], h.id)
          BY <1>1, <1>5, <4>1, <4>2 DEF SentAt
        <5>2. k + 1 \in 1 + 1 .. Len(outbox[c])
          BY <1>1, <1>4
        <5> QED BY <1>3, <1>7, <2>1, <4>1, <5>1, <5>2 DEF Says
      <4> QED BY <4>1, <4>2
    <3>3. ~Says(h, i) => SameCall(i)
      BY <2>2 DEF Outstanding
    <3>4. /\ i \in DOMAIN rpcCalls /\ i \in DOMAIN rpcCalls' /\ SameChanges(i)
          /\ rpcCalls'[i].msg = rpcCalls[i].msg /\ rpcCalls'[i].from = rpcCalls[i].from
          /\ rpcCalls'[i].known = rpcCalls[i].known /\ rpcCalls'[i].client = rpcCalls[i].client
          /\ rpcCalls'[i].status = rpcCalls[i].status
      BY <2>2, <3>2, <3>3 DEF Receives, SameCall, Outstanding
    <3>5. Outstanding(i, c)'
      BY <2>2, <3>4 DEF Outstanding
    <3>6. \A j \in k + 1 .. l - 1 : ~Says(outbox'[c][j], i)
      <4>1. \A j \in k + 1 .. l - 1 : j \in 1 .. l - 1 /\ j + 1 \in (k + 1) + 1 .. l
        OBVIOUS
      <4> QED BY <1>1, <3>1, <4>1
    <3>7. ASSUME m.kind # "Error" PROVE Right(i, v, Len(log))'
      <4>1. PICK g \in Nat : g = Len(log) /\ g = Len(log')
        BY DEF RpcTypes
      <4>2. Right(i, v, g) /\ g <= g /\ g <= Len(log)
        BY <3>1, <3>7, <4>1
      <4>3. Right(i, v, g)'
        BY <3>4, <4>2, RightStays
      <4> QED BY <4>1, <4>3
    <3>8. ASSUME m.kind = "SubtreeEnd"
          PROVE  \E full \in Seq(Nodes), n \in 0 .. k - 1 : Rest(c, k, i, full, n)'
      <4>1. PICK full \in Seq(Nodes), n \in 0 .. k : Rest(c, k + 1, i, full, n)
        BY <3>1, <3>8
      <4>2. PICK had \in Nat : had = Len(rpcCalls[i].items) /\ rpcCalls[i].items \in Seq(Nodes)
        <5>1. rpcCalls[i].items \in Seq(Nodes)
          <6>1. rpcCalls[i] \in Made
            BY <3>4, ElementOfSeq DEF RpcTypes
          <6> QED BY <6>1 DEF Made
        <5> QED BY <5>1
      <4>3. /\ Len(full) = had + n
            /\ NoRepeats(full) /\ Among(full) = Rpc!Reachable(rpcCalls[i].msg.arg)
            /\ \A j \in 1 .. had : rpcCalls[i].items[j] = full[j]
            /\ \A j \in 1 .. k : Says(outbox[c][j], i) <=> j >= k + 1 - n
            /\ \A j \in k + 1 - n .. k :
                 outbox[c][j].kind = "SubtreeItem" /\ outbox[c][j].value = full[had + j - (k + 1 - n) + 1]
        <5>1. PICK q \in Nat : q = k + 1 /\ q - 1 = k
          BY <1>4
        <5>2. Rest(c, q, i, full, n)
          BY <4>1, <5>1
        <5>3. /\ Len(full) = had + n
              /\ NoRepeats(full) /\ Among(full) = Rpc!Reachable(rpcCalls[i].msg.arg)
              /\ \A j \in 1 .. had : rpcCalls[i].items[j] = full[j]
              /\ \A j \in 1 .. q - 1 : Says(outbox[c][j], i) <=> j >= q - n
              /\ \A j \in q - n .. q - 1 :
                   outbox[c][j].kind = "SubtreeItem" /\ outbox[c][j].value = full[had + j - (q - n) + 1]
          BY ONLY <4>2, <5>2 DEF Rest
        <5> QED BY ONLY <5>1, <5>3, k \in 1 .. l - 1
      <4>4. ASSUME NEW now \in Nat, NEW p \in 0 .. k - 1, now = Len(rpcCalls'[i].items),
                   \A j \in 1 .. now : rpcCalls'[i].items[j] = full[j],
                   now + p = had + n, p = n \/ (p = n - 1 /\ n = k)
            PROVE  Rest(c, k, i, full, p)'
        <5>1. ASSUME NEW j \in 1 .. k - 1
              PROVE  j + 1 \in 1 .. k /\ j \in 1 .. l - 1 /\ ((j + 1 >= k + 1 - n) <=> (j >= k - p))
          <6>1. n \in Nat /\ p \in Nat /\ k \in Nat /\ l \in Nat /\ k <= l - 1 /\ j \in Nat /\ 1 <= j /\ j <= k - 1
            BY ONLY <1>1, k \in 1 .. l - 1, l \in Nat, n \in 0 .. k, p \in 0 .. k - 1, j \in 1 .. k - 1
          <6>2. CASE p = n
            BY ONLY <6>1, <6>2
          <6>3. CASE p = n - 1 /\ n = k
            BY ONLY <6>1, <6>3
          <6> QED BY ONLY <4>4, <6>2, <6>3
        <5>2. \A j \in 1 .. k - 1 : Says(outbox'[c][j], i) <=> j >= k - p
          <6> TAKE j \in 1 .. k - 1
          <6>1. j + 1 \in 1 .. k /\ j \in 1 .. l - 1 /\ ((j + 1 >= k + 1 - n) <=> (j >= k - p))
            BY ONLY <5>1
          <6>2. Says(outbox[c][j + 1], i) <=> j + 1 >= k + 1 - n
            BY <4>3, <6>1
          <6>3. outbox'[c][j] = outbox[c][j + 1]
            BY <1>1, <6>1
          <6> QED BY ONLY <6>1, <6>2, <6>3
        <5>3. ASSUME NEW j \in k - p .. k - 1
              PROVE  /\ j \in 1 .. l - 1 /\ j + 1 \in k + 1 - n .. k
                     /\ had + (j + 1) - (k + 1 - n) + 1 = now + j - (k - p) + 1
          <6>1. /\ n \in Nat /\ p \in Nat /\ k \in Nat /\ l \in Nat /\ k <= l - 1 /\ p <= k - 1
                /\ j \in Int /\ k - p <= j /\ j <= k - 1 /\ had \in Nat /\ now \in Nat /\ now + p = had + n
            BY ONLY <4>2, <4>4, k \in 1 .. l - 1, l \in Nat, n \in 0 .. k, p \in 0 .. k - 1, j \in k - p .. k - 1
          <6>2. CASE p = n
            BY ONLY <6>1, <6>2
          <6>3. CASE p = n - 1 /\ n = k
            BY ONLY <6>1, <6>3
          <6> QED BY ONLY <4>4, <6>2, <6>3
        <5>4. \A j \in k - p .. k - 1 :
                outbox'[c][j].kind = "SubtreeItem" /\ outbox'[c][j].value = full[now + j - (k - p) + 1]
          <6> SUFFICES ASSUME NEW j \in k - p .. k - 1
                       PROVE  outbox'[c][j].kind = "SubtreeItem" /\ outbox'[c][j].value = full[now + j - (k - p) + 1]
            OBVIOUS
          <6>1. outbox'[c][j] = outbox[c][j + 1]
            BY <1>1, <5>3
          <6>2. outbox[c][j + 1].kind = "SubtreeItem" /\ outbox[c][j + 1].value = full[had + (j + 1) - (k + 1 - n) + 1]
            BY <4>3, <5>3
          <6>3. had + (j + 1) - (k + 1 - n) + 1 = now + j - (k - p) + 1
            BY <5>3
          <6> QED BY ONLY <6>1, <6>2, <6>3
        <5>5. Len(full) = now + p /\ Rpc!Reachable(rpcCalls'[i].msg.arg) = Among(full)
          BY <3>4, <4>3, <4>4
        <5> HIDE DEF outbox, rpcCalls
        <5>6. /\ now = Len(rpcCalls'[i].items) /\ p \in 0 .. k - 1
              /\ \A j \in 1 .. now : rpcCalls'[i].items[j] = full[j]
          BY <4>4
        <5> QED BY ONLY <4>3, <5>2, <5>4, <5>5, <5>6 DEF Rest, Says
      <4>5. CASE ~Says(h, i)
        <5>1. n \in 0 .. k - 1
          <6>1. ~(1 >= k + 1 - n)
            <7>1. 1 \in 1 .. k
              BY ONLY <1>4, k \in 1 .. l - 1
            <7>2. ~Says(outbox[c][1], i)
              BY <1>1, <4>5
            <7> QED BY ONLY <4>3, <7>1, <7>2
          <6> QED BY <1>4, <6>1
        <5>2. rpcCalls'[i] = rpcCalls[i]
          BY <3>3, <4>5 DEF SameCall
        <5>3. had = Len(rpcCalls'[i].items) /\ \A j \in 1 .. had : rpcCalls'[i].items[j] = full[j]
          BY <4>2, <4>3, <5>2
        <5>4. Rest(c, k, i, full, n)'
          BY <4>4, <5>1, <5>3
        <5> QED BY <5>1, <5>4
      <4>6. CASE Says(h, i)
        <5>1. n = k
          <6>1. 1 >= k + 1 - n
            <7>1. 1 \in 1 .. k
              BY ONLY <1>4, k \in 1 .. l - 1
            <7>2. Says(outbox[c][1], i)
              BY <1>1, <4>6
            <7> QED BY ONLY <4>3, <7>1, <7>2
          <6> QED BY <1>4, <6>1
        <5>2. PICK value \in Nodes : value = h.value /\ value = full[had + 1]
          <6>1. 1 \in k + 1 - n .. k /\ had + 1 - (k + 1 - n) + 1 = had + 1 /\ had + 1 \in 1 .. Len(full)
            <7>1. k \in Nat /\ k >= 1 /\ had \in Nat /\ n = k /\ Len(full) = had + k
              BY ONLY <1>4, k \in 1 .. l - 1, l \in Nat, <4>2, <4>3, <5>1
            <7> QED BY ONLY <7>1
          <6>2. outbox[c][1].value = full[had + 1 - (k + 1 - n) + 1]
            BY <4>3, <6>1
          <6>3. h.value = full[had + 1]
            BY <1>1, <6>1, <6>2
          <6>4. full[had + 1] \in Nodes
            BY <6>1, ElementOfSeq
          <6> QED BY <6>3, <6>4
        <5>3. PICK old, new : old = rpcCalls[i].items /\ new = rpcCalls'[i].items
          OBVIOUS
        <5>4. new = Append(old, value) /\ old \in Seq(Nodes) /\ Len(old) = had
          BY <3>2, <4>2, <4>6, <5>2, <5>3 DEF Receives
        <5>5. Len(new) = had + 1 /\ new[had + 1] = value /\ \A j \in 1 .. had : new[j] = old[j]
          BY ONLY <5>2, <5>4, AppendProperties
        <5>6. \A j \in 1 .. had + 1 : j \in 1 .. had \/ j = had + 1
          OBVIOUS
        <5>7. \A j \in 1 .. had + 1 : new[j] = full[j]
          BY <4>3, <5>2, <5>3, <5>5, <5>6
        <5>8. k - 1 \in 0 .. k - 1 /\ had + 1 \in Nat /\ (had + 1) + (k - 1) = had + n
          BY <1>4, <5>1
        <5>9. Rest(c, k, i, full, k - 1)'
          <6>1. PICK now \in Nat, p \in 0 .. k - 1 : now = had + 1 /\ p = k - 1
            BY <5>8
          <6>2. /\ now = Len(rpcCalls'[i].items) /\ \A j \in 1 .. now : rpcCalls'[i].items[j] = full[j]
                /\ p = n - 1 /\ n = k /\ now + p = had + n
            BY <5>1, <5>3, <5>5, <5>7, <5>8, <6>1
          <6>3. Rest(c, k, i, full, p)'
            BY <4>4, <6>2
          <6> QED BY <6>1, <6>3
        <5> QED BY <5>8, <5>9
      <4> QED BY <4>5, <4>6
    <3>9. m.kind = "Error" => Rpc!ChangesBy(i)' = {}
      BY <3>1, <3>4 DEF SameChanges
    <3>10. m.kind # "Error" => m.kind = Rpc!Accepts[rpcCalls'[i].msg.kind]
      BY <3>1, <3>4
    <3> QED BY <1>1, <1>3, <1>7, <2>1, <2>4, <3>5, <3>6, <3>7, <3>8, <3>9, <3>10 DEF SentAt
  <2> QED BY <2>3, <2>4
<1> QED BY <1>6, <1>7

\* ... with one change less if that was one.
LEMMA UpdatesMoveUp ==
  ASSUME NEW s \in Seq(Messages), s # <<>>
  PROVE  \E u, v \in Nat :
           /\ u = Cardinality(UpdatesIn(s)) /\ v = Cardinality(UpdatesIn(Tail(s))) /\ v <= u
           /\ Head(s).kind = "RefUpdated" => v + 1 <= u
<1>1. PICK l \in Nat :
        /\ l # 0 /\ DOMAIN s = 1 .. l /\ DOMAIN Tail(s) = 1 .. l - 1 /\ Head(s) = s[1]
        /\ \A k \in 1 .. l - 1 : Tail(s)[k] = s[k + 1]
  BY MovesUp
<1>2. PICK U, V, W : U = UpdatesIn(s) /\ V = UpdatesIn(Tail(s)) /\ W = U \ {1}
  OBVIOUS
<1>3. IsFiniteSet(U)
  <2>1. IsFiniteSet(1 .. l)
    BY ONLY l \in Nat, FS_Interval
  <2>2. U \subseteq 1 .. l
    BY <1>1, <1>2 DEF UpdatesIn
  <2> QED BY <2>1, <2>2, FS_Subset
<1>4. IsFiniteSet(W) /\ Cardinality(U) \in Nat
      /\ Cardinality(W) = IF 1 \in U THEN Cardinality(U) - 1 ELSE Cardinality(U)
  BY <1>2, <1>3, FS_RemoveElement, FS_CardinalityType
<1>5. PICK f : f = [k \in W |-> k - 1]
  OBVIOUS
<1>6. f \in Surjection(W, V)
  <2>1. ASSUME NEW k \in W PROVE k - 1 \in V
    <3>1. k \in 1 .. l /\ k # 1 /\ s[k].kind = "RefUpdated"
      BY <1>1, <1>2 DEF UpdatesIn
    <3>2. k - 1 \in 1 .. l - 1 /\ (k - 1) + 1 = k
      BY <3>1
    <3>3. Tail(s)[k - 1] = s[k]
      BY <1>1, <3>2
    <3> QED BY <1>1, <1>2, <3>1, <3>2, <3>3 DEF UpdatesIn
  <2>2. ASSUME NEW k \in V PROVE k + 1 \in W /\ (k + 1) - 1 = k
    <3>1. k \in 1 .. l - 1 /\ Tail(s)[k].kind = "RefUpdated"
      BY <1>1, <1>2 DEF UpdatesIn
    <3>2. s[k + 1].kind = "RefUpdated" /\ k + 1 \in 1 .. l /\ k + 1 # 1 /\ (k + 1) - 1 = k
      BY <1>1, <3>1
    <3> QED BY <1>1, <1>2, <3>2 DEF UpdatesIn
  <2>3. f \in [W -> V]
    BY <1>5, <2>1
  <2>4. \A k \in V : \E j \in W : f[j] = k
    BY <1>5, <2>2
  <2> QED BY <2>3, <2>4 DEF Surjection
<1>7. IsFiniteSet(V) /\ Cardinality(V) <= Cardinality(W)
  BY <1>4, <1>6, FS_Surjection
<1>8. PICK u, v, w \in Nat : u = Cardinality(U) /\ v = Cardinality(V) /\ w = Cardinality(W)
  BY <1>4, <1>7, FS_CardinalityType
<1>9. v <= w /\ w <= u /\ (1 \in U => w + 1 <= u)
  BY ONLY <1>4, <1>7, <1>8
<1>10. Head(s).kind = "RefUpdated" => 1 \in U
  BY <1>1, <1>2 DEF UpdatesIn
<1> QED BY <1>2, <1>8, <1>9, <1>10

\* The reader task of c takes the message h.
Delivers(c, h) ==
  /\ log' = log /\ rpcRefs' = rpcRefs /\ rpcStored' = rpcStored /\ inbox' = inbox /\ serving' = serving
  /\ outbox[c] # <<>> /\ h = Head(outbox[c]) /\ outbox'[c] = Tail(outbox[c])
  /\ \A d \in Clients \ {c} : notes'[d] = notes[d] /\ outbox'[d] = outbox[d]
  /\ DOMAIN rpcCalls' = DOMAIN rpcCalls
  /\ \A j \in DOMAIN rpcCalls : ~Says(h, j) => rpcCalls'[j] = rpcCalls[j]
  /\ h.kind = "SubtreeItem" => Receives(h.id, h.value)
  /\ \/ h.kind = "RefUpdated" /\ notes'[c] = Append(notes[c], h)
     \/ notes'[c] = notes[c]

\* A client was told of at most as many changes as there were.
LEMMA NotedMovesUp ==
  ASSUME RpcTypes, RpcTypes', NEW c \in Clients, Sent(c), Noted(c), NEW h, Delivers(c, h)
  PROVE  Noted(c)'
<1>1. PICK s : s = outbox[c] /\ s \in Seq(Messages) /\ s # <<>> /\ h = Head(s) /\ outbox'[c] = Tail(s)
  BY DEF RpcTypes, Messages, Delivers
<1>2. PICK u, v \in Nat :
        /\ u = Cardinality(UpdatesIn(s)) /\ v = Cardinality(UpdatesIn(Tail(s))) /\ v <= u
        /\ h.kind = "RefUpdated" => v + 1 <= u
  BY <1>1, UpdatesMoveUp
<1>3. v = Cardinality(UpdatesIn(outbox[c]))' /\ log' = log
  BY <1>1, <1>2 DEF UpdatesIn, Delivers
<1>4. PICK n, g \in Nat : n = Len(notes[c]) /\ g = Len(log) /\ notes[c] \in Seq(Updates)
  BY DEF RpcTypes
<1>5. u + n <= g /\ \A k \in DOMAIN notes[c] : notes[c][k].by # c
  BY <1>1, <1>2, <1>4 DEF Noted
<1>6. CASE h.kind = "RefUpdated" /\ notes'[c] = Append(notes[c], h)
  <2>1. h.by # c /\ h \in Updates
    <3>1. DOMAIN s # {} /\ 1 \in DOMAIN s /\ h = s[1] /\ h \in Messages
      BY <1>1, MovesUp
    <3>2. SentAt(c, 1)
      BY <1>1, <3>1 DEF Sent
    <3>3. h.by # c
      BY <1>1, <1>6, <3>1, <3>2 DEF SentAt
    <3>4. h \in Updates
      BY <1>6, <3>1 DEF Messages, Items, Endings, AnswerKinds
    <3> QED BY <3>3, <3>4
  <2>2. PICK x, y : x = notes[c] /\ y = notes'[c] /\ y = Append(x, h) /\ x \in Seq(Updates) /\ Len(x) = n
    BY <1>4, <1>6
  <2>3. Len(y) = n + 1 /\ DOMAIN y = 1 .. n + 1 /\ y[n + 1] = h /\ \A k \in 1 .. n : y[k] = x[k]
    BY ONLY <1>4, <2>1, <2>2, AppendProperties
  <2>4. \A k \in 1 .. n + 1 : k \in 1 .. n \/ k = n + 1
    OBVIOUS
  <2>5. DOMAIN x = 1 .. n
    BY <1>4, <2>2
  <2>6. \A k \in DOMAIN y : y[k].by # c
    BY <1>5, <2>1, <2>2, <2>3, <2>4, <2>5
  <2>7. v + Len(y) <= g
    BY ONLY <1>2, <1>4, <1>5, <1>6, <2>3, v \in Nat, u \in Nat, n \in Nat, g \in Nat
  <2> QED BY <1>3, <1>4, <2>2, <2>6, <2>7 DEF Noted
<1>7. CASE notes'[c] = notes[c]
  <2>1. v + n <= g
    BY ONLY <1>2, <1>5, v \in Nat, u \in Nat, n \in Nat, g \in Nat
  <2> QED BY <1>3, <1>4, <1>5, <1>7, <2>1 DEF Noted
<1> QED BY <1>6, <1>7 DEF Delivers

\* What Finished and Logged say of the call i.
Ended(i) ==
  /\ rpcCalls[i].status = "failed" => Rpc!ChangesBy(i) = {}
  /\ rpcCalls[i].status = "ok" =>
       /\ Right(i, rpcCalls[i].value, rpcCalls[i].till)
       /\ rpcCalls[i].msg.kind = "Subtree" =>
            /\ NoRepeats(rpcCalls[i].items)
            /\ Among(rpcCalls[i].items) = Rpc!Reachable(rpcCalls[i].msg.arg)
Bounded(i) ==
  rpcCalls[i].from <= Len(log) /\ rpcCalls[i].till <= Len(log) /\ rpcCalls[i].known \subseteq rpcStored

\* A message is read by its client, whatever it says.
LEMMA DeliveryKeeps ==
  ASSUME RpcInv, RpcTypes', NEW c \in Clients, NEW h, Delivers(c, h),
         \A i \in DOMAIN rpcCalls : Says(h, i) => Ended(i)' /\ Bounded(i)'
  PROVE  RpcInv'
<1>1. /\ RpcTypes /\ Logged /\ Finished /\ Asking(c) /\ Served(c) /\ Sent(c) /\ Noted(c)
      /\ log' = log /\ rpcRefs' = rpcRefs /\ rpcStored' = rpcStored /\ inbox' = inbox /\ serving' = serving
      /\ outbox[c] # <<>> /\ h = Head(outbox[c]) /\ outbox'[c] = Tail(outbox[c])
      /\ DOMAIN rpcCalls' = DOMAIN rpcCalls
  BY DEF RpcInv, Delivers
<1>2. Grows /\ \A i : SameChanges(i)
  <2>1. PICK g \in Nat : g = Len(log)
    BY <1>1 DEF RpcTypes
  <2> QED BY <1>1, <2>1 DEF Grows, SameChanges, Rpc!ChangesBy
<1>3. \A i \in DOMAIN rpcCalls : ~Says(h, i) => SameCall(i)
  BY <1>1, <1>2 DEF SameCall, Delivers
<1>4. PICK s, l : /\ s = outbox[c] /\ l \in Nat /\ l # 0 /\ DOMAIN s = 1 .. l /\ DOMAIN Tail(s) = 1 .. l - 1
                  /\ h = s[1] /\ \A k \in 1 .. l - 1 : Tail(s)[k] = s[k + 1]
  <2>1. PICK s : s = outbox[c] /\ s \in Seq(Messages) /\ s # <<>>
    BY <1>1 DEF RpcTypes, Messages
  <2>2. \E l \in Nat :
           /\ l # 0 /\ DOMAIN s = 1 .. l /\ DOMAIN Tail(s) = 1 .. l - 1
           /\ Head(s) = s[1] /\ \A k \in 1 .. l - 1 : Tail(s)[k] = s[k + 1]
    BY <2>1, MovesUp
  <2> QED BY <1>1, <2>1, <2>2
<1>5. SentAt(c, 1) /\ 1 \in 1 .. l
  BY <1>1, <1>4 DEF Sent
<1>6. Logged'
  <2>1. PICK g : g = Len(log) /\ g = Len(log')
    BY <1>1
  <2>2. \A r : Rpc!ValueAfter(r, g)' = Rpc!ValueAfter(r, g)
    BY <1>1 DEF Rpc!ValueAfter
  <2>3. \A r \in Refs : rpcRefs'[r] = Rpc!ValueAfter(r, g)'
    BY <1>1, <2>1, <2>2 DEF Logged
  <2>4. \A i \in DOMAIN rpcCalls : Bounded(i)'
    <3>1. ASSUME NEW i \in DOMAIN rpcCalls, ~Says(h, i) PROVE Bounded(i)'
      <4>1. rpcCalls'[i] = rpcCalls[i] /\ Bounded(i)
        BY <1>1, <1>3, <3>1 DEF SameCall, Logged, Bounded
      <4> QED BY <1>1, <4>1 DEF Bounded
    <3> QED BY <3>1
  <2>5. \A k \in DOMAIN log : log[k].id \in DOMAIN rpcCalls
    BY <1>1 DEF Logged
  <2>6. \A i \in DOMAIN rpcCalls :
          rpcCalls'[i].from <= g /\ rpcCalls'[i].till <= g /\ rpcCalls'[i].known \subseteq rpcStored
    BY <1>1, <2>1, <2>4 DEF Bounded
  <2> HIDE DEF log, rpcRefs, rpcStored, rpcCalls
  <2> QED BY <1>1, <2>1, <2>3, <2>5, <2>6 DEF Logged
<1>7. Finished'
  <2> SUFFICES ASSUME NEW j \in DOMAIN rpcCalls PROVE Ended(j)'
    BY <1>1 DEF Finished, Ended
  <2>1. CASE ~Says(h, j)
    <3>1. SameCall(j)
      BY <1>3, <2>1
    <3>2. Ended(j)
      BY <1>1 DEF Finished, Ended
    <3>3. /\ rpcCalls[j].status = "failed" => Rpc!ChangesBy(j) = {}
          /\ rpcCalls[j].status = "ok" =>
               /\ Right(j, rpcCalls[j].value, rpcCalls[j].till)
               /\ rpcCalls[j].msg.kind = "Subtree" =>
                    /\ NoRepeats(rpcCalls[j].items)
                    /\ Among(rpcCalls[j].items) = Rpc!Reachable(rpcCalls[j].msg.arg)
      BY <3>2 DEF Ended
    <3> HIDE DEF rpcCalls, log, rpcStored, outbox, serving, inbox
    <3>4. /\ rpcCalls'[j].status = "failed" => Rpc!ChangesBy(j)' = {}
          /\ rpcCalls'[j].status = "ok" =>
               /\ Right(j, rpcCalls[j].value, rpcCalls[j].till)'
               /\ rpcCalls'[j].msg.kind = "Subtree" =>
                    /\ NoRepeats(rpcCalls'[j].items)
                    /\ Among(rpcCalls'[j].items) = Rpc!Reachable(rpcCalls'[j].msg.arg)
      BY ONLY <1>1, <1>2, <3>1, <3>3, FinishedStays, j \in DOMAIN rpcCalls
    <3> QED BY <3>4 DEF Ended, Right, NoRepeats, Among, Rpc!Reachable, Rpc!ChangesBy
  <2> QED BY <2>1
<1>8. ASSUME NEW i, NEW m, Open(i, c, m)
      PROVE  SameCall(i) /\ \A k \in DOMAIN outbox'[c] : ~Says(outbox'[c][k], i)
  <2>1. ~Says(h, i) /\ i \in DOMAIN rpcCalls
    BY <1>4, <1>5, <1>8 DEF Open, Outstanding
  <2>2. ASSUME NEW k \in DOMAIN outbox'[c] PROVE ~Says(outbox'[c][k], i)
    <3>1. k \in 1 .. l - 1 /\ k + 1 \in 1 .. l
      BY <1>1, <1>4
    <3>2. outbox'[c][k] = outbox[c][k + 1]
      BY <1>1, <1>4, <3>1
    <3>3. ~Says(outbox[c][k + 1], i)
      BY <1>4, <1>8, <3>1 DEF Open
    <3> QED BY <3>2, <3>3
  <2> QED BY <1>3, <2>1, <2>2
<1>9. Asking(c)'
  <2>1. ASSUME NEW j \in DOMAIN inbox[c]
        PROVE  /\ SameCall(inbox[c][j].id)
               /\ \A k \in DOMAIN outbox'[c] : ~Says(outbox'[c][k], inbox[c][j].id)
    <3>1. PICK i, m : i = inbox[c][j].id /\ m = inbox[c][j].msg
      OBVIOUS
    <3>2. Open(i, c, m)
      BY <1>1, <3>1 DEF Asking
    <3> QED BY <1>8, <3>1, <3>2
  <2>2. inbox'[c] = inbox[c] /\ (serving'[c] # None => serving[c] # None /\ serving'[c].id = serving[c].id)
    BY <1>1
  <2> HIDE DEF inbox, serving, outbox
  <2> QED BY <1>1, <2>1, <2>2, AskingStays
<1>10. Served(c)'
  <2>1. SUFFICES ASSUME serving[c] # None PROVE Open(serving[c].id, c, serving[c].msg)' /\ WalksIn(serving[c])'
    BY <1>1 DEF Served
  <2>2. PICK w, i, m : w = serving[c] /\ w = serving'[c] /\ i = w.id /\ m = w.msg
    BY <1>1
  <2>3. Open(i, c, m) /\ WalksIn(w)
    BY <1>1, <2>1, <2>2 DEF Served
  <2>4. Open(i, c, m)'
    BY <1>8, <2>3, OpenStays
  <2>5. WalksIn(w)'
    BY <2>3 DEF WalksIn, Rpc!Reachable
  <2> QED BY <1>1, <2>2, <2>4, <2>5 DEF Open, Outstanding, Says, WalksIn
<1>11. Sent(c)'
  <2>1. h.kind = "SubtreeItem" => Receives(h.id, h.value)
    BY DEF Delivers
  <2> HIDE DEF outbox, rpcCalls, log
  <2> QED BY ONLY <1>1, <1>2, <1>3, <2>1, SentMovesUp, RpcTypes', c \in Clients
<1>12. Noted(c)'
  BY <1>1, NotedMovesUp
<1>13. ASSUME NEW d \in Clients \ {c} PROVE Asking(d)' /\ Served(d)' /\ Sent(d)' /\ Noted(d)'
  <2>1. /\ Asking(d) /\ Served(d) /\ Sent(d) /\ Noted(d)
        /\ serving'[d] = serving[d] /\ notes'[d] = notes[d] /\ outbox'[d] = outbox[d] /\ inbox'[d] = inbox[d]
    BY <1>1 DEF RpcInv, Delivers
  <2>2. ASSUME NEW i, Outstanding(i, d) PROVE SameCall(i)
    <3>1. i \in DOMAIN rpcCalls /\ rpcCalls[i].client # c
      BY <2>2 DEF Outstanding
    <3>2. ~Says(h, i)
      BY <1>4, <1>5, <3>1 DEF Says, SentAt, Outstanding
    <3> QED BY <1>3, <3>1, <3>2
  <2> HIDE DEF inbox, serving, notes, outbox, log
  <2> QED BY <1>1, <1>2, <2>1, <2>2, OthersStay
<1> QED
  <2>1. \A d \in Clients : Asking(d)' /\ Served(d)' /\ Sent(d)' /\ Noted(d)'
    <3>1. ASSUME NEW d \in Clients PROVE Asking(d)' /\ Served(d)' /\ Sent(d)' /\ Noted(d)'
      <4>1. CASE d = c
        BY <1>9, <1>10, <1>11, <1>12, <4>1
      <4>2. CASE d # c
        BY <1>13, <4>2
      <4> QED BY <4>1, <4>2
    <3> QED BY <3>1
  <2> QED BY <1>6, <1>7, <2>1 DEF RpcInv

\* The client hands an answer to the call it names.
LEMMA RpcDispatchKeeps ==
  ASSUME RpcInv, NEW c \in Clients, Rpc!Dispatch(c)
  PROVE  RpcInv'
<1>1. /\ RpcTypes /\ Finished /\ Logged /\ Sent(c) /\ Noted(c)
      /\ log' = log /\ rpcRefs' = rpcRefs /\ rpcStored' = rpcStored /\ inbox' = inbox /\ serving' = serving
      /\ subscribed' = subscribed /\ outbox[c] # <<>>
  BY DEF RpcInv, Rpc!Dispatch, Rpc!repository
<1>2. PICK s, h, g : /\ s = outbox[c] /\ s \in Seq(Messages) /\ s # <<>> /\ h = Head(s) /\ h \in Messages
                     /\ Tail(s) \in Seq(Messages) /\ SentAt(c, 1) /\ h = outbox[c][1]
                     /\ g = Len(log) /\ g \in Nat
  <2>1. PICK s : s = outbox[c] /\ s \in Seq(Messages) /\ s # <<>>
    BY <1>1 DEF RpcTypes, Messages
  <2>2. 1 \in DOMAIN s /\ Head(s) = s[1] /\ Head(s) \in Messages /\ Tail(s) \in Seq(Messages)
    BY <2>1, MovesUp
  <2>3. Len(log) \in Nat
    BY <1>1 DEF RpcTypes
  <2> QED BY <1>1, <2>1, <2>2, <2>3 DEF Sent
<1>3. /\ outbox' = [outbox EXCEPT ![c] = Tail(s)]
      /\ h.kind = "RefUpdated" => notes' = [notes EXCEPT ![c] = Append(notes[c], h)] /\ rpcCalls' = rpcCalls
      /\ h.kind # "RefUpdated" => notes' = notes
      /\ h.kind = "SubtreeItem" =>
           rpcCalls' = [rpcCalls EXCEPT ![h.id].items = Append(rpcCalls[h.id].items, h.value)]
      /\ h.kind \notin {"RefUpdated", "SubtreeItem"} =>
           Rpc!Finish(h.id, IF h.kind = "Error" THEN "failed"
                            ELSE IF h.kind = Rpc!Accepts[rpcCalls[h.id].msg.kind] THEN "ok"
                            ELSE "unexpected response", h.value)
  BY <1>1, <1>2 DEF Rpc!Dispatch
<1>4. /\ outbox' \in [Clients -> Seq(Messages)] /\ outbox'[c] = Tail(outbox[c])
      /\ \A d \in Clients \ {c} : outbox'[d] = outbox[d]
  <2>1. outbox \in [Clients -> Seq(Messages)]
    BY <1>1 DEF RpcTypes, Messages
  <2> QED BY <1>2, <1>3, <2>1
<1>5. PICK l \in Nat : l = Len(rpcCalls) /\ DOMAIN rpcCalls = 1 .. l /\ rpcCalls \in [1 .. l -> Made]
  <2>1. rpcCalls \in Seq(Made)
    BY <1>1 DEF RpcTypes
  <2> QED BY <2>1, ElementOfSeq
<1>6. ASSUME rpcCalls' \in [1 .. l -> Made], notes' \in [Clients -> Seq(Updates)] PROVE RpcTypes'
  <2>1. rpcCalls' \in Seq(Made)
    BY <1>5, <1>6
  <2> QED BY <1>1, <1>4, <1>6, <2>1 DEF RpcTypes, Messages
<1>7. \A i : SameChanges(i)
  BY <1>1, <1>2 DEF SameChanges, Rpc!ChangesBy
<1>8. CASE h.kind = "RefUpdated"
  <2>1. h \in Updates
    BY <1>2, <1>8 DEF Messages, Items, Endings, AnswerKinds
  <2>2. PICK x : x = Append(notes[c], h) /\ x \in Seq(Updates)
    <3>1. notes[c] \in Seq(Updates)
      BY <1>1 DEF RpcTypes
    <3> QED BY <2>1, <3>1, AppendProperties
  <2>3. notes' \in [Clients -> Seq(Updates)] /\ notes'[c] = Append(notes[c], h)
        /\ \A d \in Clients \ {c} : notes'[d] = notes[d]
    <3>1. notes \in [Clients -> Seq(Updates)] /\ notes' = [notes EXCEPT ![c] = x]
      BY <1>1, <1>3, <1>8, <2>2 DEF RpcTypes
    <3> QED BY <2>2, <3>1
  <2>4. RpcTypes'
    BY <1>3, <1>5, <1>6, <1>8, <2>3
  <2>5. Delivers(c, h)
    BY <1>1, <1>2, <1>3, <1>4, <1>8, <2>3 DEF Delivers
  <2>6. \A i \in DOMAIN rpcCalls : ~Says(h, i)
    BY <1>8 DEF Says
  <2> HIDE DEF outbox, rpcCalls, log, notes, inbox, serving
  <2> QED BY <2>4, <2>5, <2>6, DeliveryKeeps
<1>9. CASE h.kind # "RefUpdated"
  <2>1. PICK i, m : i = h.id /\ Outstanding(i, c) /\ i \in 1 .. l /\ m = rpcCalls[i].msg /\ rpcCalls[i] \in Made
    BY <1>2, <1>5, <1>9 DEF SentAt, Outstanding
  <2>2. h \in Items \union Endings
    BY <1>2, <1>9 DEF Messages, Updates
  <2>3. PICK old, new : old = rpcCalls[i] /\ new = rpcCalls'[i]
    OBVIOUS
  <2>4. CASE h.kind = "SubtreeItem"
    <3>1. PICK items : items = Append(old.items, h.value) /\ items \in Seq(Nodes)
      <4>1. h.value \in Nodes
        BY <2>2, <2>4 DEF Items, Endings, AnswerKinds
      <4>2. old.items \in Seq(Nodes)
        BY <2>1, <2>3 DEF Made
      <4> QED BY <4>1, <4>2, AppendProperties
    <3>2. rpcCalls' = [rpcCalls EXCEPT ![i] = [old EXCEPT !.items = items]]
      BY <1>3, <2>1, <2>3, <2>4, <3>1
    <3>3. PICK put : put = [old EXCEPT !.items = items]
      OBVIOUS
    <3>4. /\ put \in Made /\ put.items = items /\ put.msg = old.msg /\ put.from = old.from
          /\ put.known = old.known /\ put.client = old.client /\ put.status = old.status /\ put.till = old.till
      BY <2>1, <2>3, <3>1, <3>3 DEF Made
    <3>5. rpcCalls' \in [1 .. l -> Made] /\ new = put /\ \A j \in 1 .. l : j # i => rpcCalls'[j] = rpcCalls[j]
      <4>1. rpcCalls' = [rpcCalls EXCEPT ![i] = put]
        BY <3>2, <3>3
      <4> QED BY <1>5, <2>1, <2>3, <3>4, <4>1
    <3>6. notes' = notes /\ notes \in [Clients -> Seq(Updates)]
      BY <1>1, <1>3, <1>9 DEF RpcTypes
    <3>7. RpcTypes'
      BY <1>6, <3>5, <3>6
    <3>8. DOMAIN rpcCalls' = DOMAIN rpcCalls
      BY <1>5, <3>5
    <3>9. Receives(h.id, h.value)
      BY <1>5, <1>7, <2>1, <2>3, <3>1, <3>4, <3>5, <3>8 DEF Receives
    <3>10. \A j \in DOMAIN rpcCalls : ~Says(h, j) => rpcCalls'[j] = rpcCalls[j]
      BY <1>5, <1>9, <2>1, <3>5 DEF Says
    <3>11. Delivers(c, h)
      BY <1>1, <1>2, <1>4, <3>6, <3>8, <3>9, <3>10 DEF Delivers
    <3>12. Ended(i)' /\ Bounded(i)'
      <4>1. Bounded(i) /\ old.status = "waiting"
        BY <1>1, <2>1, <2>3 DEF Logged, Bounded, Outstanding
      <4> QED BY <1>1, <2>3, <3>4, <3>5, <4>1 DEF Ended, Bounded
    <3>13. \A j \in DOMAIN rpcCalls : Says(h, j) => j = i
      BY <2>1 DEF Says
    <3>14. \A j \in DOMAIN rpcCalls : Says(h, j) => Ended(j)' /\ Bounded(j)'
      <4>1. ASSUME NEW j \in DOMAIN rpcCalls, Says(h, j) PROVE Ended(j)' /\ Bounded(j)'
        <5>1. j = i
          BY <3>13, <4>1
        <5> QED BY <3>12, <5>1
      <4> QED BY <4>1
    <3> HIDE DEF outbox, rpcCalls, log, notes, inbox, serving
    <3> QED BY <3>7, <3>11, <3>14, DeliveryKeeps
  <2>5. CASE h.kind # "SubtreeItem"
    <3>1. h \in Endings
      BY <2>2, <2>5 DEF Items
    <3>2. PICK outcome, value, k : /\ outcome = (IF h.kind = "Error" THEN "failed" ELSE "ok")
                                  /\ value = h.value /\ k = h.kind /\ value \in Values
      BY <3>1 DEF Endings
    <3>3. /\ k = "Error" => Rpc!ChangesBy(i) = {}
          /\ k # "Error" => k = Rpc!Accepts[m.kind] /\ Right(i, value, g)
          /\ k = "SubtreeEnd" => \E full \in Seq(Nodes), n \in 0 .. 1 - 1 : Rest(c, 1, i, full, n)
      BY <1>2, <1>9, <2>1, <2>5, <3>2 DEF SentAt
    <3>4. rpcCalls' = [rpcCalls EXCEPT ![i].status = outcome, ![i].value = value, ![i].till = g]
      <4>1. Rpc!Finish(i, outcome, value)
        BY <1>3, <1>9, <2>1, <2>5, <3>2, <3>3
      <4> QED BY <1>2, <4>1, Zenon DEF Rpc!Finish
    <3>5. PICK put : put = [old EXCEPT !.status = outcome, !.value = value, !.till = g]
      OBVIOUS
    <3>6. /\ put \in Made /\ put.items = old.items /\ put.msg = m /\ put.from = old.from
          /\ put.known = old.known /\ put.client = old.client
          /\ put.status = outcome /\ put.value = value /\ put.till = g
      BY <1>2, <2>1, <2>3, <3>2, <3>5 DEF Made
    <3>7. rpcCalls' \in [1 .. l -> Made] /\ new = put /\ \A j \in 1 .. l : j # i => rpcCalls'[j] = rpcCalls[j]
      <4>1. rpcCalls' = [rpcCalls EXCEPT ![i] = put]
        BY <1>5, <2>1, <2>3, <3>4, <3>5
      <4> QED BY <1>5, <2>1, <2>3, <3>6, <4>1
    <3>8. notes' = notes /\ notes \in [Clients -> Seq(Updates)]
      BY <1>1, <1>3, <1>9 DEF RpcTypes
    <3>9. RpcTypes'
      BY <1>6, <3>7, <3>8
    <3>10. DOMAIN rpcCalls' = DOMAIN rpcCalls
      BY <1>5, <3>7
    <3>11. \A j \in DOMAIN rpcCalls : ~Says(h, j) => rpcCalls'[j] = rpcCalls[j]
      BY <1>5, <1>9, <2>1, <3>7 DEF Says
    <3>12. Delivers(c, h)
      BY <1>1, <1>2, <1>4, <2>5, <3>8, <3>10, <3>11 DEF Delivers
    <3>13. Bounded(i)'
      <4>1. Bounded(i)
        BY <1>1, <2>1 DEF Logged, Bounded, Outstanding
      <4>2. g <= g /\ old.from <= g /\ old.known \subseteq rpcStored
        BY <1>2, <2>3, <4>1 DEF Bounded
      <4> QED BY <1>1, <1>2, <2>3, <3>6, <3>7, <4>2 DEF Bounded
    <3>14. Ended(i)'
      <4>1. ASSUME k = "Error" PROVE Ended(i)'
        <5>1. outcome = "failed" /\ Rpc!ChangesBy(i)' = {}
          BY <1>7, <3>2, <3>3, <4>1 DEF SameChanges
        <5> QED BY <2>3, <3>6, <3>7, <5>1 DEF Ended
      <4>2. ASSUME k # "Error" PROVE Ended(i)'
        <5>1. Right(i, value, g)'
          <6>1. Grows
            BY <1>1, <1>2 DEF Grows
          <6>2. /\ i \in DOMAIN rpcCalls /\ SameChanges(i) /\ rpcCalls'[i].msg = rpcCalls[i].msg
                /\ rpcCalls'[i].from = rpcCalls[i].from /\ rpcCalls'[i].known = rpcCalls[i].known
                /\ g <= g /\ g <= Len(log) /\ g \in Nat /\ Right(i, value, g)
            <7>1. i \in DOMAIN rpcCalls /\ SameChanges(i) /\ Right(i, value, g)
              BY <1>5, <1>7, <2>1, <3>3, <4>2
            <7>2. g <= g /\ g <= Len(log) /\ g \in Nat
              BY <1>2
            <7>3. /\ rpcCalls'[i].msg = rpcCalls[i].msg /\ rpcCalls'[i].from = rpcCalls[i].from
                  /\ rpcCalls'[i].known = rpcCalls[i].known
              BY <2>1, <2>3, <3>6, <3>7
            <7> QED BY ONLY <7>1, <7>2, <7>3
          <6> HIDE DEF rpcCalls, log
          <6> QED BY ONLY <1>1, <6>1, <6>2, RightStays
        <5>2. ASSUME m.kind = "Subtree"
              PROVE  NoRepeats(old.items) /\ Among(old.items) = Rpc!Reachable(m.arg)
          <6>1. k = "SubtreeEnd"
            BY <3>3, <4>2, <5>2 DEF Rpc!Accepts
          <6>2. PICK full \in Seq(Nodes), n \in 0 .. 1 - 1 : Rest(c, 1, i, full, n)
            BY <3>3, <6>1
          <6>3. PICK had \in Nat : had = Len(old.items) /\ old.items \in Seq(Nodes)
            <7>1. old.items \in Seq(Nodes)
              BY <2>1, <2>3 DEF Made
            <7> QED BY <7>1
          <6>4. /\ Len(full) = had + n /\ n = 0
                /\ NoRepeats(full) /\ Among(full) = Rpc!Reachable(m.arg)
                /\ \A j \in 1 .. had : old.items[j] = full[j]
            BY <2>1, <2>3, <6>2, <6>3 DEF Rest
          <6>5. old.items = full
            <7>1. Len(full) = Len(old.items) /\ \A j \in 1 .. Len(old.items) : old.items[j] = full[j]
              BY <6>3, <6>4
            <7> QED BY ONLY <6>2, <6>3, <7>1, SeqEqual
          <6> QED BY <6>4, <6>5
        <5>3. outcome = "ok"
          BY <3>2, <4>2
        <5>4. rpcCalls'[i].status = "ok" /\ rpcCalls'[i].value = value /\ rpcCalls'[i].till = g
              /\ rpcCalls'[i].msg = m /\ rpcCalls'[i].items = old.items
          BY <2>3, <3>6, <3>7, <5>3
        <5>5. Right(i, rpcCalls[i].value, rpcCalls[i].till)'
          BY <5>1, <5>4 DEF Right
        <5>6. rpcCalls'[i].msg.kind = "Subtree" =>
                NoRepeats(rpcCalls'[i].items) /\ Among(rpcCalls'[i].items) = Rpc!Reachable(rpcCalls'[i].msg.arg)
          BY <5>2, <5>4
        <5>7. NoRepeats(rpcCalls[i].items)' = NoRepeats(rpcCalls'[i].items)
              /\ Among(rpcCalls[i].items)' = Among(rpcCalls'[i].items)
              /\ Rpc!Reachable(rpcCalls[i].msg.arg)' = Rpc!Reachable(rpcCalls'[i].msg.arg)
          BY DEF NoRepeats, Among, Rpc!Reachable
        <5> QED BY <5>4, <5>5, <5>6, <5>7 DEF Ended
      <4> QED BY <4>1, <4>2
    <3>15. \A j \in DOMAIN rpcCalls : Says(h, j) => Ended(j)' /\ Bounded(j)'
      <4>1. ASSUME NEW j \in DOMAIN rpcCalls, Says(h, j) PROVE Ended(j)' /\ Bounded(j)'
        <5>1. j = i
          BY <2>1, <4>1 DEF Says
        <5> QED BY <3>13, <3>14, <5>1
      <4> QED BY <4>1
    <3> HIDE DEF outbox, rpcCalls, log, notes, inbox, serving
    <3> QED BY <3>9, <3>12, <3>15, DeliveryKeeps
  <2> QED BY <2>4, <2>5
<1> QED BY <1>8, <1>9

\* No calls and an empty repository.
LEMMA RpcBegins ==
  ASSUME Rpc!Init
  PROVE  RpcInv
<1>1. /\ rpcStored = {} /\ rpcRefs = [r \in Refs |-> None] /\ rpcCalls = <<>>
      /\ inbox = [c \in Clients |-> <<>>] /\ outbox = [c \in Clients |-> <<>>]
      /\ serving = [c \in Clients |-> None] /\ subscribed = {}
      /\ notes = [c \in Clients |-> <<>>] /\ log = <<>>
  BY DEF Rpc!Init
<1>2. RpcTypes
  BY <1>1 DEF RpcTypes, Held
<1>3. Logged
  <2>1. \A r \in Refs : Rpc!ValueAfter(r, Len(log)) = None
    BY <1>1 DEF Rpc!ValueAfter
  <2> QED BY <1>1, <2>1 DEF Logged
<1>4. Finished
  BY <1>1 DEF Finished
<1>5. ASSUME NEW c \in Clients PROVE Asking(c) /\ Served(c) /\ Sent(c) /\ Noted(c)
  <2>1. Asking(c) /\ Served(c) /\ Sent(c)
    BY <1>1 DEF Asking, Served, Sent
  <2>2. UpdatesIn(outbox[c]) = {}
    BY <1>1 DEF UpdatesIn
  <2>3. Noted(c)
    BY <1>1, <2>2, FS_EmptySet DEF Noted
  <2> QED BY <2>1, <2>3
<1> QED BY <1>2, <1>3, <1>4, <1>5 DEF RpcInv

\* The invariant says what RemoteIsStore does.
LEMMA RpcIsStore ==
  ASSUME RpcInv
  PROVE  Rpc!RemoteIsStore
<1>1. RpcTypes /\ Logged /\ Finished /\ \A c \in Clients : Noted(c)
  BY DEF RpcInv
<1>2. \A i \in DOMAIN rpcCalls : rpcCalls[i] \in Made
  <2>1. rpcCalls \in Seq(Made)
    BY <1>1 DEF RpcTypes
  <2> QED BY <2>1, ElementOfSeq
<1>3. Rpc!Done("unexpected response") = {}
  BY <1>2 DEF Rpc!Done, Made
<1>4. ASSUME NEW i \in Rpc!Done("failed") PROVE Rpc!ChangesBy(i) = {}
  BY <1>1, <1>4 DEF Rpc!Done, Finished
<1>5. ASSUME NEW i \in Rpc!Done("ok")
      PROVE  /\ i \in DOMAIN rpcCalls
             /\ Right(i, rpcCalls[i].value, rpcCalls[i].till)
             /\ rpcCalls[i].msg.kind = "Subtree" =>
                  /\ NoRepeats(rpcCalls[i].items)
                  /\ Among(rpcCalls[i].items) = Rpc!Reachable(rpcCalls[i].msg.arg)
  BY <1>1, <1>5 DEF Rpc!Done, Finished
<1>6. Rpc!CallsAreAtomic
  <2>1. ASSUME NEW i \in Rpc!Done("ok")
        PROVE  LET m == rpcCalls[i].msg
                   value == rpcCalls[i].value
               IN  /\ m.kind = "GetRef" => \E k \in Rpc!During(i) : value = Rpc!ValueAfter(m.arg, k)
                   /\ m.kind = "ListRefs" =>
                        \E k \in Rpc!During(i) : \A r \in Refs : value[r] = Rpc!ValueAfter(r, k)
                   /\ m.kind \in {"Get", "GetByInclusiveHash"} =>
                        IF value = None THEN m.arg \notin rpcCalls[i].known
                        ELSE value = m.arg /\ value \in rpcStored
                   /\ m.kind = "Contains" =>
                        IF value THEN m.arg \in rpcStored ELSE m.arg \notin rpcCalls[i].known
                   /\ m.kind \in Rpc!RefWrites =>
                        IF m.kind = "CasRef" /\ ~value
                        THEN Rpc!ChangesBy(i) = {}
                             /\ \E k \in Rpc!During(i) : Rpc!ValueAfter(m.arg, k) # m.expected
                        ELSE \E k \in Rpc!During(i) \ {rpcCalls[i].from} :
                               /\ Rpc!ChangesBy(i) = {k} /\ log[k].new = m.new
                               /\ m.kind = "CasRef" => Rpc!ValueAfter(m.arg, k - 1) = m.expected
    BY <1>5 DEF Right, Rpc!During
  <2> QED BY <1>3, <1>4, <2>1, Zenon DEF Rpc!CallsAreAtomic, rpcCalls, rpcStored, log
<1>7. Rpc!SubtreesAreWhole
  <2> SUFFICES ASSUME NEW i \in Rpc!Done("ok"), rpcCalls[i].msg.kind = "Subtree"
               PROVE  LET items == rpcCalls[i].items
                      IN  /\ {items[k] : k \in DOMAIN items} = Rpc!Reachable(rpcCalls[i].msg.arg)
                          /\ \A j, k \in DOMAIN items : items[j] = items[k] => j = k
    BY DEF Rpc!SubtreesAreWhole
  <2>1. PICK s : /\ s = rpcCalls[i].items
                 /\ NoRepeats(s) /\ Among(s) = Rpc!Reachable(rpcCalls[i].msg.arg)
    BY <1>5
  <2> QED BY <2>1 DEF Among, NoRepeats
<1>8. Rpc!NotesAreOthers
  <2> SUFFICES ASSUME NEW c \in Clients
               PROVE  (\A k \in DOMAIN notes[c] : notes[c][k].by # c) /\ Len(notes[c]) <= Len(log)
    BY DEF Rpc!NotesAreOthers
  <2>1. PICK s, u : s = outbox[c] /\ s \in Seq(Messages) /\ u = Cardinality(UpdatesIn(s)) /\ u \in Nat
    <3>1. PICK s : s = outbox[c] /\ s \in Seq(Messages)
      BY <1>1 DEF RpcTypes, Messages
    <3>2. IsFiniteSet(UpdatesIn(s))
      <4>1. PICK l \in Nat : DOMAIN s = 1 .. l
        BY <3>1
      <4>2. IsFiniteSet(1 .. l)
        BY ONLY l \in Nat, FS_Interval
      <4>3. UpdatesIn(s) \subseteq 1 .. l
        BY <4>1 DEF UpdatesIn
      <4> QED BY <4>2, <4>3, FS_Subset
    <3> QED BY <3>1, <3>2, FS_CardinalityType
  <2>2. PICK n, g \in Nat : n = Len(notes[c]) /\ g = Len(log)
    BY <1>1 DEF RpcTypes
  <2>3. u + n <= g /\ \A k \in DOMAIN notes[c] : notes[c][k].by # c
    BY <1>1, <2>1, <2>2 DEF Noted
  <2>4. n <= g
    BY ONLY <2>1, <2>3, n \in Nat, g \in Nat
  <2> QED BY <2>2, <2>3, <2>4
<1> QED BY <1>6, <1>7, <1>8 DEF Rpc!RemoteIsStore

\* Every step keeps the invariant.
LEMMA RpcSteps ==
  ASSUME RpcInv, Rpc!Next
  PROVE  RpcInv'
BY StoreKeeps, RpcDispatchKeeps, RpcTakeKeeps, RefuseKeeps, ReadKeeps, WriteKeeps, WalkKeeps, CallKeeps, Zenon
   DEF Rpc!Next

\* Whatever the other clients do and whichever calls fail: a client is answered
\* by the repository as it was at one moment of its call, a compare-and-swap
\* that says so changed the value it names, a subtree that ends well is whole,
\* and a notification is of a change somebody else made (client.rs, server.rs).
THEOREM RemoteAnswersAsTheStore == MCSpec => []RemoteIsStore
<1> DEFINE Inv0 == tool = "store" => RpcInv
<1>1. MCInit => Inv0
  BY RpcBegins DEF MCInit
<1>2. Inv0 /\ [MCNext]_<<tool, registers, vars>> => Inv0'
  <2> SUFFICES ASSUME Inv0, [MCNext]_<<tool, registers, vars>>, tool' = "store"
               PROVE  RpcInv'
    OBVIOUS
  <2>1. CASE MCNext
    BY <2>1, RpcSteps DEF MCNext, Others
  <2>2. CASE UNCHANGED <<tool, registers, vars>>
    <3>1. RpcInv /\ UNCHANGED <<rpcStored, rpcRefs, rpcCalls, inbox, serving, subscribed, outbox, notes, log>>
      BY <2>2 DEF registers
    <3> HIDE DEF rpcStored, rpcRefs, rpcCalls, inbox, serving, subscribed, outbox, notes, log
    <3>2. RpcTypes' /\ \A c \in Clients : Apart(c)
      BY <3>1 DEF RpcInv, RpcTypes, Apart
    <3>3. Quiet
      BY <3>1 DEF Quiet
    <3>4. \A d \in Clients \ {} : Apart(d)
      BY <3>2
    <3>5. \A c \in {} \intersect Clients : Conversing(c)'
      OBVIOUS
    <3> QED BY <3>1, <3>2, <3>3, <3>4, <3>5, QuietOthers
  <2> QED BY <2>1, <2>2
<1>3. Inv0 => RemoteIsStore
  BY RpcIsStore DEF RemoteIsStore
<1> QED BY <1>1, <1>2, <1>3, PTL DEF MCSpec
=============================================================================
