---------------------------- MODULE RemoteCalls -----------------------------
(***************************************************************************)
(* One client of a remote store (client.rs over websocket.rs): concurrent  *)
(* calls share a connection, a reader task hands each message to the call  *)
(* whose id it carries.  A call waits for one reply, or reads the items of *)
(* a subtree until the stream ends.                                        *)
(***************************************************************************)
EXTENDS Naturals, Sequences

CONSTANTS
  Calls,        \* calls, each with the message id it allocates
  Streams,      \* the subtree calls among them
  MaxItems,     \* objects of the subtree
  MayLose       \* whether the connection may be lost


VARIABLES
  call,         \* where each call is
  pending,      \* ids with a oneshot sender
  streams,      \* ids with a channel sender
  chan,         \* messages handed to a call, not yet read by it
  got,          \* items a stream's consumer has read
  outgoing, incoming,
  up,           \* the connection
  writer, reader,   \* the transport's writer task, the store's reader task
  answer        \* history: how the server answered

maps == <<pending, streams>>
tasks == <<up, writer, reader>>
queues == <<outgoing, incoming>>
vars == <<call, maps, chan, got, queues, tasks, answer>>

Message(c, kind) == [id |-> c, kind |-> kind]
Messages == [id : Calls, kind : {"reply", "error", "item", "end"}]
Ended == {"ok", "failed", "given up"}

TypeOK ==
  /\ call \in [Calls -> {"new", "registered", "waiting"} \union Ended]
  /\ pending \subseteq Calls \ Streams
  /\ streams \subseteq Streams
  /\ chan \in [Calls -> Seq(Messages)]
  /\ got \in [Streams -> 0 .. MaxItems]
  /\ outgoing \in Seq(Calls)
  /\ incoming \in Seq(Messages)
  /\ up \in BOOLEAN /\ writer \in BOOLEAN /\ reader \in BOOLEAN
  /\ answer \in [Calls -> {"none", "reply", "error", "end"}]

Init ==
  /\ call = [c \in Calls |-> "new"]
  /\ pending = {} /\ streams = {}
  /\ chan = [c \in Calls |-> <<>>]
  /\ got = [c \in Streams |-> 0]
  /\ outgoing = <<>> /\ incoming = <<>>
  /\ up = TRUE /\ writer = TRUE /\ reader = TRUE
  /\ answer = [c \in Calls |-> "none"]

-----------------------------------------------------------------------------
(* The calls.                                                              *)

\* The id is in its map before the message leaves, so no answer is early.
Register(c) ==
  /\ call[c] = "new"
  /\ call' = [call EXCEPT ![c] = "registered"]
  /\ IF c \in Streams THEN streams' = streams \union {c} /\ UNCHANGED pending
     ELSE pending' = pending \union {c} /\ UNCHANGED streams
  /\ UNCHANGED <<chan, got, queues, tasks, answer>>

\* Sending fails only once the writer task has ended; the entry stays.
SendMessage(c) ==
  /\ call[c] = "registered"
  /\ IF writer THEN /\ call' = [call EXCEPT ![c] = "waiting"]
                    /\ outgoing' = Append(outgoing, c)
     ELSE call' = [call EXCEPT ![c] = "failed"] /\ UNCHANGED outgoing
  /\ UNCHANGED <<maps, chan, got, incoming, tasks, answer>>

\* The caller takes what its channel holds.
TakeMessage(c) ==
  /\ call[c] = "waiting" /\ chan[c] # <<>>
  /\ chan' = [chan EXCEPT ![c] = Tail(@)]
  /\ LET kind == Head(chan[c]).kind IN
       /\ call' = CASE kind = "error" -> [call EXCEPT ![c] = "failed"]
                    [] kind = "reply" -> [call EXCEPT ![c] = "ok"]
                    [] OTHER -> call
       /\ got' = IF kind = "item" THEN [got EXCEPT ![c] = @ + 1] ELSE got
  /\ UNCHANGED <<maps, queues, tasks, answer>>

\* An empty channel without a sender: the end of a stream, or "connection
\* closed" to a request.
SeeClosed(c) ==
  /\ call[c] = "waiting" /\ chan[c] = <<>> /\ c \notin pending \union streams
  /\ call' = [call EXCEPT ![c] = IF c \in Streams THEN "ok" ELSE "failed"]
  /\ UNCHANGED <<maps, chan, got, queues, tasks, answer>>

\* The caller drops the future or the stream.
GiveUp(c) ==
  /\ call[c] \in {"registered", "waiting"}
  /\ call' = [call EXCEPT ![c] = "given up"]
  /\ UNCHANGED <<maps, chan, got, queues, tasks, answer>>

-----------------------------------------------------------------------------
(* The reader task.                                                        *)

HandTo(c, m) == chan' = [chan EXCEPT ![c] = Append(@, m)]

\* Mutant of Dispatch: the end of a stream leaves its channel open.
DispatchKeepsStream ==
  /\ reader /\ incoming # <<>>
  /\ incoming' = Tail(incoming)
  /\ LET m == Head(incoming) IN
       IF m.id \in streams
       THEN /\ streams' = IF m.kind = "error" THEN streams \ {m.id} ELSE streams
            /\ IF m.kind \in {"item", "error"} THEN HandTo(m.id, m) ELSE UNCHANGED chan
            /\ UNCHANGED pending
       ELSE /\ pending' = pending \ {m.id}
            /\ IF m.id \in pending THEN HandTo(m.id, m) ELSE UNCHANGED chan
            /\ UNCHANGED streams
  /\ UNCHANGED <<call, got, outgoing, tasks, answer>>

\* A message is for a stream if its id is in the map, else for a request; one
\* that nobody waits for is dropped.
Dispatch ==
  /\ reader /\ incoming # <<>>
  /\ incoming' = Tail(incoming)
  /\ LET m == Head(incoming) IN
       IF m.id \in streams
       THEN /\ streams' = IF m.kind \in {"end", "error"} THEN streams \ {m.id} ELSE streams
            /\ IF m.kind \in {"item", "error"} THEN HandTo(m.id, m) ELSE UNCHANGED chan
            /\ UNCHANGED pending
       ELSE /\ pending' = pending \ {m.id}
            /\ IF m.id \in pending THEN HandTo(m.id, m) ELSE UNCHANGED chan
            /\ UNCHANGED streams
  /\ UNCHANGED <<call, got, outgoing, tasks, answer>>

\* Mutant of ReaderStops: the maps are emptied to wake the callers.
ReaderClears ==
  /\ reader /\ ~up /\ incoming = <<>>
  /\ reader' = FALSE
  /\ pending' = {} /\ streams' = {}
  /\ UNCHANGED <<call, chan, got, queues, up, writer, answer>>

\* recv() fails and the loop is left; the maps keep their senders.
ReaderStops ==
  /\ reader /\ ~up /\ incoming = <<>>
  /\ reader' = FALSE
  /\ UNCHANGED <<call, maps, chan, got, queues, up, writer, answer>>

-----------------------------------------------------------------------------
(* The connection and the server at its other end.                         *)

\* What was on its way may be lost, in both directions.
LoseConnection ==
  /\ MayLose /\ up
  /\ up' = FALSE
  /\ \E n \in 0 .. Len(incoming) : incoming' = SubSeq(incoming, 1, n)
  /\ \E n \in 0 .. Len(outgoing) : outgoing' = SubSeq(outgoing, n + 1, Len(outgoing))
  /\ UNCHANGED <<call, maps, chan, got, writer, reader, answer>>

\* The writer notices when a write fails; the network may still swallow one.
WriteAfterLoss ==
  /\ writer /\ ~up /\ outgoing # <<>>
  /\ \/ writer' = FALSE /\ outgoing' = <<>>
     \/ outgoing' = Tail(outgoing) /\ UNCHANGED writer
  /\ UNCHANGED <<call, maps, chan, got, incoming, up, reader, answer>>

Items(c, n) == [i \in 1 .. n |-> Message(c, "item")]

\* handle() returns all messages of an answer at once: items and SubtreeEnd,
\* or the items found before an error and the error.
ServerAnswers ==
  /\ up /\ outgoing # <<>>
  /\ outgoing' = Tail(outgoing)
  /\ LET c == Head(outgoing) IN
       \/ /\ incoming' = incoming \o (IF c \in Streams
                                      THEN Append(Items(c, MaxItems), Message(c, "end"))
                                      ELSE <<Message(c, "reply")>>)
          /\ answer' = [answer EXCEPT ![c] = IF c \in Streams THEN "end" ELSE "reply"]
       \/ /\ \E n \in 0 .. (IF c \in Streams THEN MaxItems ELSE 0) :
               incoming' = incoming \o Append(Items(c, n), Message(c, "error"))
          /\ answer' = [answer EXCEPT ![c] = "error"]
  /\ UNCHANGED <<call, maps, chan, got, tasks>>

-----------------------------------------------------------------------------
Run(c) == SendMessage(c) \/ TakeMessage(c) \/ SeeClosed(c)

Next ==
  \/ \E c \in Calls : Register(c) \/ Run(c) \/ GiveUp(c)
  \/ Dispatch \/ ReaderStops \/ WriteAfterLoss \/ ServerAnswers \/ LoseConnection

Spec == Init /\ [][Next]_vars

\* tokio polls every task that can run; the server and the transport serve
\* what reaches them while the connection is up.
FairSpec ==
  /\ Spec
  /\ \A c \in Calls : WF_vars(Run(c))
  /\ WF_vars(Dispatch) /\ WF_vars(ReaderStops) /\ WF_vars(WriteAfterLoss) /\ WF_vars(ServerAnswers)

-----------------------------------------------------------------------------
\* A call ends with its own answer.  A subtree that ends without an error was
\* received completely, so a sync never copies part of a history and moves a
\* ref to it; an error was the server's, or the connection is lost.
OutcomeIsAnswer ==
  \A c \in Calls :
    /\ call[c] = "ok" =>
         IF c \in Streams THEN answer[c] = "end" /\ got[c] = MaxItems ELSE answer[c] = "reply"
    /\ call[c] = "failed" => answer[c] = "error" \/ ~up

\* Every call ends while the connection is up, whatever other calls do.
Waiting(c) == call[c] = "waiting"
EndedOrLost(c) == call[c] \in Ended \/ ~up
=============================================================================
