------------------------------ MODULE MCClients ------------------------------
(***************************************************************************)
(* What those who call are told: the viewers of a job and the watcher that *)
(* submits jobs, the callers of a remote store and of its transactions,    *)
(* the users of a store in Python, and those whom `serve` serves; and that *)
(* what they wait for comes, with the fairness each module states.         *)
(***************************************************************************)
EXTENDS Orchestrator, Workbench, Integers, TLC

CONSTANTS Tools, hText, hElement, hDocument, hTree, hCommit

MCInputs ==
  {[mode |-> "sync", source |-> "path"], [mode |-> "review", source |-> "repoUrl"],
   [mode |-> "adopt", source |-> "path"]}

\* One kind of job is enough to tell whether jobs end.
FairInputs == {[mode |-> "review", source |-> "repoUrl"]}

-----------------------------------------------------------------------------
(* Calls over a connection that may be lost, some of them subtree streams. *)
CONSTANTS CallIds, StreamIds, MaxItems
Calls == INSTANCE RemoteCalls WITH
  Calls <- CallIds, Streams <- StreamIds, MayLose <- TRUE,
  call <- r1, pending <- r2, streams <- r3, chan <- r4, got <- r5, outgoing <- r6,
  incoming <- r7, up <- r8, writer <- r9, reader <- r10, answer <- r11

ASSUME StreamsAreCalls == StreamIds \subseteq CallIds /\ MaxItems \in Nat

-----------------------------------------------------------------------------
(* Transactions over such a connection.                                    *)
CONSTANTS Handles, Objects, MaxTxCalls
Tx == INSTANCE RemoteTransaction WITH
  MaxCalls <- MaxTxCalls, MayLose <- TRUE, handle <- r1,
  finished <- r2, waiting <- r3, calls <- r4, detached <- r5, outgoing <- r6, incoming <- r7,
  up <- r8, txs <- r9, stored <- r10, acked <- r11, sent <- r12, told <- r13, unsure <- r14

TxMessages ==
  [by : Handles, n : Nat, op : {"begin", "put", "commit", "rollback"}, object : Objects \union {None}]

ASSUME NoneIsNoTransaction == None \notin TxMessages /\ \A s \in SUBSET Objects : s # None

-----------------------------------------------------------------------------
(* The storage traits over the protocol.                                   *)
CONSTANTS Clients, Nodes, Refs, Children, Requests, MaxRequests
Rpc == INSTANCE RemoteStore WITH
  Hashes <- Nodes, MaxCalls <- MaxRequests,
  stored <- r1, refs <- r2, calls <- r3, inbox <- r4, serving <- r5, subscribed <- r6,
  outbox <- r7, notes <- r8, log <- r9

\* A request names an object or a ref, as its kind has it.
ASSUME RequestsAreAsked ==
  /\ Children \in [Nodes -> Seq(Nodes)] /\ None \notin Nodes
  /\ \A m \in Requests :
       /\ m.kind \in DOMAIN Rpc!Accepts
       /\ m.kind \in {"Get", "Contains", "GetByInclusiveHash", "Subtree"} => m.arg \in Nodes
       /\ m.kind \in {"GetRef"} \union Rpc!RefWrites => m.arg \in Refs
       /\ m.kind \in Rpc!RefWrites => m.new \in Nodes \union {None}

MCChildren == [p |-> <<"q", "q">>, q |-> <<>>]
Ask(kind, arg) == [kind |-> kind, arg |-> arg, expected |-> None, new |-> None]
MCRequests ==
  {Ask("Subtree", "p"), Ask("Get", "p"), Ask("Contains", "q"), Ask("GetRef", "main"),
   Ask("DeleteRef", "main"), Ask("ListRefs", None), Ask("ListRepositories", None),
   [Ask("SetRef", "main") EXCEPT !.new = "p"]}
  \cup {[Ask("CasRef", "main") EXCEPT !.expected = x, !.new = "q"] : x \in {"p", None}}

-----------------------------------------------------------------------------
(* The storage traits over Python: one object of each kind, the element in *)
(* two forms.                                                              *)
CONSTANTS Hashes, Forms, IdentityOf, Txs, MaxPuts
Py == INSTANCE PyStore WITH
  pyObjects <- r1, pyRefs <- r2, pyTx <- r3, pyStaged <- r4, walk <- r5

PyObject(kind, content, links, at, inclusive) ==
  [kind |-> kind, data |-> content, links |-> links, at |-> at, inclusive |-> inclusive]
PyElement(x) == PyObject("element", "e", <<hText, hText>>, None, x)
MCIdentityOf ==
  PyObject("text", "t", <<>>, None, None) :> hText
    @@ PyElement("i1") :> hElement @@ PyElement("i2") :> hElement
    @@ PyObject("document", None, <<hElement, hText>>, None, None) :> hDocument
    @@ PyObject("tree", <<"p", "q">>, <<hElement, hElement>>, None, None) :> hTree
    @@ PyObject("commit", "m", <<hTree>>, 1, None) :> hCommit
MCForms == DOMAIN MCIdentityOf

\* An object has what its kind has.
HasShape(o) ==
  /\ o = PyObject(o.kind, o.data, o.links, o.at, o.inclusive) /\ o.links \in Seq(Hashes)
  /\ o.kind # "element" => o.inclusive = None
  /\ o.kind \in {"commit", "tag"} => o.at \in Int
  /\ o.kind \notin {"commit", "tag"} => o.at = None
  /\ \/ o.kind \in {"text", "comment", "pi"} /\ o.links = <<>>
     \/ o.kind = "element"
     \/ o.kind = "document" /\ o.links # <<>> /\ o.data = None
     \/ o.kind = "tree" /\ o.data = [i \in DOMAIN o.links |-> o.data[i]]
     \/ o.kind = "commit" /\ o.links # <<>>
     \/ o.kind = "tag" /\ Len(o.links) = 1

\* The hash of an object covers what it points to.
ASSUME FormsAreObjects ==
  /\ IdentityOf \in [Forms -> Hashes] /\ MaxPuts \in Nat /\ None \notin Hashes \union Forms
  /\ \A o \in Forms : HasShape(o)
  /\ \A o \in Forms : Py!FromRust(o) # None
  /\ \A o, p \in Forms : IdentityOf[o] = IdentityOf[p] => o.links = p.links

-----------------------------------------------------------------------------
(* A watcher that waits for the jobs it submits.                           *)
CONSTANTS WatchJobs, RunInitial, Once, Debounce, MaxEdits
Watch == INSTANCE Watcher WITH
  Jobs <- WatchJobs, Stream <- TRUE, status <- r1, busy <- r2, files <- r3, edits <- r4,
  wrote <- r5, pc <- r6, goal <- r7, listed <- r8, shot <- r9, baseline <- r10,
  candidate <- r11, age <- r12, run <- r13, edited <- r14

ASSUME NoneIsNoSignature == None \notin Nat

-----------------------------------------------------------------------------
(* The server of the remote protocol, with clients that leave.             *)
Server == INSTANCE RemoteServer WITH
  Conns <- {"k1", "k2"}, Repos <- {"r"}, Values <- {"v"}, Objects <- {"o"}, MaxWrites <- 1,
  MaxTx <- 1, Ops <- {"BeginTransaction", "TxPut", "TxCommit"}, phase <- r1,
  gone <- r2, connections <- r3, subscribers <- r4, handler <- r5, refs <- r6, stored <- r7,
  txs <- r8, nextTx <- r9, notified <- r10, log <- r11, since <- r12

-----------------------------------------------------------------------------
(* The reload of serve.                                                    *)
CONSTANTS Broken, Names, Tokens, MaxWrites
Serving == INSTANCE Serve WITH
  file <- r1, writes <- r2, pc <- r3, loaded <- r4, events <- r5, tasks <- r6, repos <- r7,
  tokens <- r8, current <- r9, missed <- r10, overlapped <- r11,
  validator <- r12

-----------------------------------------------------------------------------
\* How many registers the variables of a component take.
Width == [jobs |-> 0, calls |-> 11, transaction |-> 14, store |-> 9, python |-> 5,
          watch |-> 14, server |-> 12, serve |-> 12]

MCInit ==
  /\ tool \in Tools /\ Init /\ Unused(Width[tool])
  /\ \/ tool = "jobs"
     \/ tool = "calls"       /\ Calls!Init
     \/ tool = "transaction" /\ Tx!Init
     \/ tool = "store"       /\ Rpc!Init
     \/ tool = "python"      /\ Py!Init
     \/ tool = "watch"       /\ Watch!WatchInit
     \/ tool = "server"      /\ Server!Init
     \/ tool = "serve"       /\ Serving!Init

\* A step is one of its component.
Others ==
  /\ UNCHANGED tool /\ StillUnused(Width[tool])
  /\ IF tool = "jobs" THEN TRUE ELSE UNCHANGED vars

MCNext ==
  /\ \/ tool = "jobs"        /\ Next
     \/ tool = "calls"       /\ Calls!Next
     \/ tool = "transaction" /\ Tx!Next
     \/ tool = "store"       /\ Rpc!Next
     \/ tool = "python"      /\ Py!Next
     \/ tool = "watch"       /\ Watch!WatchNext
     \/ tool = "server"      /\ Server!Next
     \/ tool = "serve"       /\ Serving!Next
  /\ Others

MCSpec == MCInit /\ [][MCNext]_<<tool, registers, vars>>

\* The actions each module is fair to, one after the other.  A behaviour has
\* one component, so that fairness to Turn(i) is fairness to its i-th action.
Turn(i) ==
  /\ \/ tool = "jobs" /\ \E j \in Jobs :
          \/ i = 1 /\ Resume(j)
          \/ i = 2 /\ \E code \in {0, 1} : Exit(j, code)
     \/ tool = "watch" /\ i = 1 /\ Watch!WatcherStep
     \/ tool = "calls" /\
          \/ i = 1 /\ Calls!Run("get")
          \/ i = 2 /\ Calls!Run("tree")
          \/ i = 3 /\ Calls!Dispatch
          \/ i = 4 /\ Calls!ReaderStops
          \/ i = 5 /\ Calls!WriteAfterLoss
          \/ i = 6 /\ Calls!ServerAnswers
     \/ tool = "transaction" /\
          \/ i = 1 /\ Tx!SendRollback("t1")
          \/ i = 2 /\ Tx!Answer
          \/ i = 3 /\ Tx!Disconnect
     \/ tool = "server" /\
          \/ i = 1 /\ Server!Serve("k1")
          \/ i = 2 /\ Server!Serve("k2")
     \/ tool = "serve" /\
          \/ i = 1 /\ Serving!Start
          \/ i = 2 /\ Serving!Watch
          \/ i = 3 /\ Serving!Thread
          \/ i = 4 /\ Serving!Reload
  /\ Others

\* The processes get their turns.
ProcessSpec == MCSpec /\ \A i \in 1 .. 6 : WF_<<tool, registers, vars>>(Turn(i))

-----------------------------------------------------------------------------
\* A call ends with its own answer, and a subtree that ends well is whole
\* (client.rs).
OutcomeIsAnswer == tool = "calls" => Calls!OutcomeIsAnswer

\* A transaction has stored what its caller was told, and a caller that was
\* told of a failure can try again (client.rs).
TransactionsAreExact == tool = "transaction" => Tx!TransactionsAreExact

\* A client is answered by the repository as it is at one moment of its call,
\* a subtree comes whole, and a notification is of somebody else's change
\* (client.rs, server.rs).
RemoteIsStore == tool = "store" => Rpc!RemoteIsStore

\* A store written in Python gives back the objects it was given, and walks a
\* subtree as the other backends do, whatever its transactions do (py_store.rs,
\* py_objects.rs).
BridgeIsFaithful == tool = "python" => Py!BridgeIsFaithful

\* A step in which the Python object obeys the storage traits is one of their
\* contract, with the objects as Rust sees them (store/mod.rs, py_store.rs).
PythonIsStore ==
  [][tool = "python" => Py!KeepsTheContract]_<<tool, registers, vars>>

\* A run for a change is asked for by an edit of the user, never by what a
\* job wrote (watcher.ts).
NoSelfTrigger == [][tool = "watch" => Watch!RunIsAsked]_<<tool, registers, vars>>

\* What serve serves at rest is the last configuration that could be opened,
\* to the holders of its tokens if it was started with some (serve.rs).
ServesLastGood == tool = "serve" => Serving!ServesLastGood

\* The tokens of a reloaded configuration decide who may connect (serve.rs).
TokensAreReloaded == tool = "serve" => Serving!TokensAreReloaded

\* Every call ends while the connection is up, whatever other calls do
\* (client.rs); a transaction whose handle went away is gone in the end, also
\* when no call follows (client.rs), and so is a client that left (server.rs).
ClientsAreLetGo ==
  /\ \A c \in {"get", "tree"} :
       (tool = "calls" /\ Calls!Waiting(c)) ~> (tool = "calls" /\ Calls!EndedOrLost(c))
  /\ (tool = "transaction" /\ Tx!Dropped("t1")) ~> (tool = "transaction" /\ r9["t1"] = None)
  /\ \A c \in {"k1", "k2"} :
       (tool = "server" /\ c \in r2) ~> (tool = "server" /\ r1[c] = "closed")

\* Debouncing loses no change: one the waiting watcher can see is followed by
\* a run (watcher.ts), and one of the served configuration is loaded
\* (serve.rs), once the edits have stopped.
ChangesArrive ==
  /\ (tool = "watch" /\ Watch!ChangeIsVisible) ~> (tool = "watch" /\ Watch!ChangeIsRun)
  /\ <>[](tool = "serve" => Serving!UpToDate)
=============================================================================
