----------------------------- MODULE RemoteStore -----------------------------
(***************************************************************************)
(* The storage traits over the remote protocol (client.rs, mod.rs,         *)
(* server.rs): several clients read and write one repository, each call is *)
(* a message to the server and its reply a message back.  RemoteServer has *)
(* the tables of the server and RemoteCalls a connection that fails; here  *)
(* it is what the calls answer.                                            *)
(***************************************************************************)
EXTENDS Naturals, Sequences

CONSTANTS
  Clients, Hashes, Refs, None,
  Children,     \* Hashes -> the hashes an object points to
  Requests,     \* what clients ask: [kind, arg, expected, new]
  MaxCalls      \* bound on the calls made

Ids == 1 .. MaxCalls

VARIABLES
  stored, refs,   \* the repository
  calls,          \* the calls made, in order
  inbox,          \* per client: messages the server has not read
  serving,        \* per client: the message its reader loop works on
  subscribed,     \* clients whose repository was resolved
  outbox,         \* per client: replies and notifications it has not read
  notes,          \* per client: the notifications it has read
  log             \* history: the ref changes, in order

repository == <<stored, refs>>
wire == <<inbox, outbox>>
vars == <<repository, calls, wire, serving, subscribed, notes, log>>

Init ==
  /\ stored = {} /\ refs = [r \in Refs |-> None]
  /\ calls = <<>>
  /\ inbox = [c \in Clients |-> <<>>] /\ outbox = [c \in Clients |-> <<>>]
  /\ serving = [c \in Clients |-> None] /\ subscribed = {}
  /\ notes = [c \in Clients |-> <<>>] /\ log = <<>>

\* Another connection commits a transaction.
Store(h) ==
  /\ h \notin stored /\ stored' = stored \union {h}
  /\ UNCHANGED <<refs, calls, wire, serving, subscribed, notes, log>>

-----------------------------------------------------------------------------
(* The client.                                                             *)

\* The reply each method takes for an answer.  An Error is one to all.
Accepts ==
  [ListRepositories |-> "RepositoryList", Get |-> "Object", Contains |-> "Contains",
   GetByInclusiveHash |-> "ObjectWithHash", Subtree |-> "SubtreeEnd",
   GetRef |-> "Ref", SetRef |-> "RefSet", DeleteRef |-> "RefDeleted",
   ListRefs |-> "RefList", CasRef |-> "CasResult"]

\* request, subtree: `known` and `from` remember the repository of that moment.
Call(c, m) ==
  /\ Len(calls) < MaxCalls
  /\ LET id == Len(calls) + 1 IN
       /\ calls' = Append(calls, [client |-> c, msg |-> m, status |-> "waiting", value |-> None,
                                  items |-> <<>>, known |-> stored, from |-> Len(log), till |-> 0])
       /\ inbox' = [inbox EXCEPT ![c] = Append(@, [id |-> id, msg |-> m])]
  /\ UNCHANGED <<repository, outbox, serving, subscribed, notes, log>>

Finish(i, status, value) ==
  calls' = [calls EXCEPT ![i].status = status, ![i].value = value, ![i].till = Len(log)]

\* The reader task: a notification has no id; a message for a stream goes to
\* its consumer; any other reply ends the call it names.
Dispatch(c) ==
  /\ outbox[c] # <<>>
  /\ outbox' = [outbox EXCEPT ![c] = Tail(@)]
  /\ LET m == Head(outbox[c]) IN
       IF m.kind = "RefUpdated" THEN notes' = [notes EXCEPT ![c] = Append(@, m)] /\ UNCHANGED calls
       ELSE /\ UNCHANGED notes
            /\ IF m.kind = "SubtreeItem"
               THEN calls' = [calls EXCEPT ![m.id].items = Append(@, m.value)]
               ELSE Finish(m.id, IF m.kind = "Error" THEN "failed"
                                 ELSE IF m.kind = Accepts[calls[m.id].msg.kind] THEN "ok"
                                 ELSE "unexpected response", m.value)
  /\ UNCHANGED <<repository, inbox, serving, subscribed, log>>

-----------------------------------------------------------------------------
(* The server: one message of a connection after the other.                *)

RefWrites == {"SetRef", "DeleteRef", "CasRef"}

Send(c, messages) == outbox' = [outbox EXCEPT ![c] = @ \o messages]
Message(id, kind, value) == [id |-> id, kind |-> kind, value |-> value]

\* handle, resolve_store: a repository that cannot be had is an error; one that
\* can subscribes the connection, and the ref is read for the notification
\* before it is changed.
Take(c) ==
  /\ serving[c] = None /\ inbox[c] # <<>>
  /\ inbox' = [inbox EXCEPT ![c] = Tail(@)]
  /\ LET h == Head(inbox[c])
         resolves == h.msg.kind # "ListRepositories"
     IN  \/ /\ Send(c, <<Message(h.id, "Error", None)>>)
            /\ UNCHANGED <<serving, subscribed>>
         \/ /\ serving' = [serving EXCEPT ![c] =
                   [id |-> h.id, msg |-> h.msg, visited |-> {}, items |-> <<>>,
                    old |-> IF h.msg.kind \in RefWrites THEN refs[h.msg.arg] ELSE None,
                    stack |-> IF h.msg.kind = "Subtree" THEN <<h.msg.arg>> ELSE <<>>]]
            /\ subscribed' = IF resolves THEN subscribed \union {c} ELSE subscribed
            /\ UNCHANGED outbox
  /\ UNCHANGED <<repository, calls, notes, log>>

Serves(c, kinds) == serving[c] # None /\ serving[c].msg.kind \in kinds

\* The store behind the server fails, and stays as it was.
Refuse(c) ==
  /\ serving[c] # None
  /\ Send(c, serving[c].items \o <<Message(serving[c].id, "Error", None)>>)
  /\ serving' = [serving EXCEPT ![c] = None]
  /\ UNCHANGED <<repository, calls, inbox, subscribed, notes, log>>

Found(h) == IF h \in stored THEN h ELSE None

Answer(m) ==
  CASE m.kind = "ListRepositories"   -> Message(0, "RepositoryList", None)
    [] m.kind = "Get"                -> Message(0, "Object", Found(m.arg))
    [] m.kind = "Contains"           -> Message(0, "Contains", m.arg \in stored)
    [] m.kind = "GetByInclusiveHash" -> Message(0, "ObjectWithHash", Found(m.arg))
    [] m.kind = "GetRef"             -> Message(0, "Ref", refs[m.arg])
    [] m.kind = "ListRefs"           -> Message(0, "RefList", refs)

\* with_store
Read(c) ==
  /\ Serves(c, {"ListRepositories", "Get", "Contains", "GetByInclusiveHash", "GetRef", "ListRefs"})
  /\ Send(c, <<[Answer(serving[c].msg) EXCEPT !.id = serving[c].id]>>)
  /\ serving' = [serving EXCEPT ![c] = None]
  /\ UNCHANGED <<repository, calls, inbox, subscribed, notes, log>>

\* Mutant of Swaps: the value that was read before decides.
SwapsOld(c) == serving[c].msg.kind # "CasRef" \/ serving[c].old = serving[c].msg.expected

\* cas_ref compares in the store.
Swaps(c) == serving[c].msg.kind # "CasRef" \/ refs[serving[c].msg.arg] = serving[c].msg.expected

\* handle_set_ref, handle_delete_ref, handle_cas_ref: a change is broadcast to
\* the others before it is answered.
Write(c) ==
  /\ Serves(c, RefWrites)
  /\ LET s == serving[c]
         m == s.msg
         value == IF m.kind = "CasRef" THEN Swaps(c) ELSE None
         reply == Message(s.id, Accepts[m.kind], value)
         update == [kind |-> "RefUpdated", ref |-> m.arg, old |-> s.old, new |-> m.new, by |-> c]
     IN  IF Swaps(c)
         THEN /\ refs' = [refs EXCEPT ![m.arg] = m.new]
              /\ log' = Append(log, [id |-> s.id, ref |-> m.arg, new |-> m.new])
              /\ outbox' = [d \in Clients |->
                   IF d = c THEN Append(outbox[d], reply)
                   ELSE IF d \in subscribed THEN Append(outbox[d], update) ELSE outbox[d]]
         ELSE Send(c, <<reply>>) /\ UNCHANGED <<refs, log>>
  /\ serving' = [serving EXCEPT ![c] = None]
  /\ UNCHANGED <<stored, calls, inbox, subscribed, notes>>

\* handle_subtree over subtree_walk: the objects are got one by one while others
\* are stored, and sent together at the end.
Walk(c) ==
  /\ Serves(c, {"Subtree"})
  /\ LET s == serving[c]
         top == s.stack[Len(s.stack)]
         below == SubSeq(s.stack, 1, Len(s.stack) - 1)
         end(kind) == /\ Send(c, Append(s.items, Message(s.id, kind, None)))
                      /\ serving' = [serving EXCEPT ![c] = None]
     IN  IF s.stack = <<>> THEN end("SubtreeEnd")
         ELSE IF top \in s.visited
         THEN serving' = [serving EXCEPT ![c].stack = below] /\ UNCHANGED outbox
         ELSE IF top \notin stored THEN end("Error")
         ELSE /\ serving' = [serving EXCEPT ![c].stack = below \o Children[top],
                                            ![c].visited = @ \union {top},
                                            ![c].items = Append(@, Message(s.id, "SubtreeItem", top))]
              /\ UNCHANGED outbox
  /\ UNCHANGED <<repository, calls, inbox, subscribed, notes, log>>

Next ==
  \/ \E h \in Hashes : Store(h)
  \/ \E c \in Clients :
       Dispatch(c) \/ Take(c) \/ Refuse(c) \/ Read(c) \/ Write(c) \/ Walk(c)
       \/ \E m \in Requests : Call(c, m)

Spec == Init /\ [][Next]_vars

-----------------------------------------------------------------------------
Done(status) == {i \in DOMAIN calls : calls[i].status = status}
ChangesBy(i) == {k \in DOMAIN log : log[k].id = i}
During(i) == calls[i].from .. calls[i].till

\* The value of a ref after the first k changes.
ValueAfter(r, k) ==
  LET of == {j \in 1 .. k : log[j].ref = r}
  IN  IF of = {} THEN None ELSE log[CHOOSE j \in of : \A x \in of : x <= j].new

\* What every set that has the root and what its members point to has.
Closed(S) == \A h \in S : \A k \in DOMAIN Children[h] : Children[h][k] \in S
Reachable(root) == {h \in Hashes : \A S \in SUBSET Hashes : root \in S /\ Closed(S) => h \in S}

\* A call that answers gives what the repository held at some moment between
\* the call and its answer; the change it reports is in the repository once,
\* and a compare-and-swap changed the very value it names.  A call that fails
\* changed nothing.  No reply is of a kind the client does not know.
CallsAreAtomic ==
  /\ Done("unexpected response") = {}
  /\ \A i \in Done("failed") : ChangesBy(i) = {}
  /\ \A i \in Done("ok") :
       LET m == calls[i].msg
           value == calls[i].value
       IN  /\ m.kind = "GetRef" => \E k \in During(i) : value = ValueAfter(m.arg, k)
           /\ m.kind = "ListRefs" => \E k \in During(i) : \A r \in Refs : value[r] = ValueAfter(r, k)
           /\ m.kind \in {"Get", "GetByInclusiveHash"} =>
                IF value = None THEN m.arg \notin calls[i].known ELSE value = m.arg /\ value \in stored
           /\ m.kind = "Contains" =>
                IF value THEN m.arg \in stored ELSE m.arg \notin calls[i].known
           /\ m.kind \in RefWrites =>
                IF m.kind = "CasRef" /\ ~value
                THEN ChangesBy(i) = {} /\ \E k \in During(i) : ValueAfter(m.arg, k) # m.expected
                ELSE \E k \in During(i) \ {calls[i].from} :
                       /\ ChangesBy(i) = {k} /\ log[k].new = m.new
                       /\ m.kind = "CasRef" => ValueAfter(m.arg, k - 1) = m.expected

\* A subtree that ends well is all that its root reaches, each object once.
SubtreesAreWhole ==
  \A i \in Done("ok") : calls[i].msg.kind = "Subtree" =>
    LET items == calls[i].items
    IN  /\ {items[k] : k \in DOMAIN items} = Reachable(calls[i].msg.arg)
        /\ \A j, k \in DOMAIN items : items[j] = items[k] => j = k

\* A client is not told of its own changes, and of no change twice.
NotesAreOthers ==
  \A c \in Clients : /\ \A k \in DOMAIN notes[c] : notes[c][k].by # c
                     /\ Len(notes[c]) <= Len(log)

RemoteIsStore == CallsAreAtomic /\ SubtreesAreWhole /\ NotesAreOthers
=============================================================================
