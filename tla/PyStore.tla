------------------------------ MODULE PyStore -------------------------------
(***************************************************************************)
(* The storage traits over a store written in Python (clayers-py,          *)
(* py_store.rs).  Every trait method takes the GIL, calls the method of    *)
(* the Python object, converts what it returns and lets the GIL go, so it   *)
(* is one step; an exception becomes an error.  Objects cross as           *)
(* StoreObject values (py_objects.rs): Python can neither make nor change  *)
(* one, and what it has stored it keeps.                                   *)
(*                                                                         *)
(* A transaction handle holds the Python object and nothing else: it does  *)
(* not know whether it is finished.  What put, commit and rollback do is   *)
(* up to the Python object, which may take puts and commits of a           *)
(* transaction that is over, or raise from a commit that has written.      *)
(*                                                                         *)
(* A form is a Rust object: its kind, its own data, the hashes it points   *)
(* to, the instant of a commit or tag, the inclusive hash of an element.   *)
(***************************************************************************)
EXTENDS StoreObjects

VARIABLES
  pyObjects,    \* the Python store's table: hash -> StoreObject
  pyRefs,
  pyTx,         \* what the calls made on each transaction have come to, ...
  pyStaged,     \* ... and the StoreObjects they put into it
  walk          \* a subtree stream: root, stack, visited, yielded, how it ended

store == <<pyObjects, pyRefs, pyTx, pyStaged>>
vars == <<store, walk>>

-----------------------------------------------------------------------------
(* Crossing.  A wrapper has the fields of its kind and no others.          *)

Leaf == {"text", "comment", "pi"}

\* chrono prints an instant in UTC, and reads it back from any offset.
ToRfc3339(at) == [offset |-> 0, clock |-> at]
ParseRfc3339(text) == text.clock - text.offset

FromLeaf(o) == [data |-> o.data]
ToLeaf(w) == [data |-> w.data, links |-> <<>>, at |-> None, inclusive |-> None]

\* Mutant of FromElement: the inclusive hash is taken from the identity.
FromElementIdentity(o) == [data |-> o.data, children |-> o.links, inclusive_hash |-> IdentityOf[o]]

FromElement(o) == [data |-> o.data, children |-> o.links, inclusive_hash |-> o.inclusive]
ToElement(w) == [data |-> w.data, links |-> w.children, at |-> None, inclusive |-> w.inclusive_hash]

FromDocument(o) == [root |-> Head(o.links), prologue |-> Tail(o.links)]
ToDocument(w) == [data |-> None, links |-> <<w.root>> \o w.prologue, at |-> None, inclusive |-> None]

\* A tree's entries: paths and documents, side by side.
FromTree(o) == [entries |-> [i \in DOMAIN o.links |-> [path |-> o.data[i], document |-> o.links[i]]]]
ToTree(w) == [data |-> [i \in DOMAIN w.entries |-> w.entries[i].path],
              links |-> [i \in DOMAIN w.entries |-> w.entries[i].document],
              at |-> None, inclusive |-> None]

FromCommit(o) ==
  [data |-> o.data, tree |-> Head(o.links), parents |-> Tail(o.links), timestamp |-> ToRfc3339(o.at)]
ToCommit(w) ==
  [data |-> w.data, links |-> <<w.tree>> \o w.parents, at |-> ParseRfc3339(w.timestamp), inclusive |-> None]

FromTag(o) == [data |-> o.data, target |-> o.links[1], timestamp |-> ToRfc3339(o.at)]
ToTag(w) == [data |-> w.data, links |-> <<w.target>>, at |-> ParseRfc3339(w.timestamp), inclusive |-> None]

\* StoreObject::from, and back.
FromRust(o) ==
  [kind |-> o.kind,
   inner |-> CASE o.kind \in Leaf -> FromLeaf(o)
               [] o.kind = "element" -> FromElement(o)
               [] o.kind = "document" -> FromDocument(o)
               [] o.kind = "tree" -> FromTree(o)
               [] o.kind = "commit" -> FromCommit(o)
               [] o.kind = "tag" -> FromTag(o)]

ToRust(p) ==
  LET o == CASE p.kind \in Leaf -> ToLeaf(p.inner)
             [] p.kind = "element" -> ToElement(p.inner)
             [] p.kind = "document" -> ToDocument(p.inner)
             [] p.kind = "tree" -> ToTree(p.inner)
             [] p.kind = "commit" -> ToCommit(p.inner)
             [] p.kind = "tag" -> ToTag(p.inner)
  IN  [kind |-> p.kind, data |-> o.data, links |-> o.links, at |-> o.at, inclusive |-> o.inclusive]

-----------------------------------------------------------------------------
Idle == [root |-> None, stack |-> <<>>, visited |-> {}, yielded |-> <<>>, end |-> "idle"]

Init ==
  /\ pyObjects = [h \in Hashes |-> None]
  /\ pyRefs = [r \in Refs |-> None]
  /\ pyTx = [t \in Txs |-> "unused"]
  /\ pyStaged = [t \in Txs |-> <<>>]
  /\ walk = Idle

\* What get() returns: None, or the object, converted.
Get(h) == IF pyObjects[h] = None THEN None ELSE ToRust(pyObjects[h])

\* The Python store looks an element up by its inclusive hash and answers
\* with the pair of its identity and the object.
GetByInclusiveHash(x) ==
  {<<h, Get(h)>> : h \in {g \in Hashes : /\ pyObjects[g] # None
                                        /\ pyObjects[g].kind = "element"
                                        /\ pyObjects[g].inner.inclusive_hash = x}}

Transaction(t) ==
  /\ pyTx[t] = "unused"
  /\ pyTx' = [pyTx EXCEPT ![t] = "open"]
  /\ UNCHANGED <<pyObjects, pyRefs, pyStaged, walk>>

Put(t, o) ==
  /\ pyTx[t] # "unused" /\ Len(pyStaged[t]) < MaxPuts
  /\ pyStaged' = [pyStaged EXCEPT ![t] = Append(@, [hash |-> IdentityOf[o], object |-> FromRust(o)])]
  /\ UNCHANGED <<pyObjects, pyRefs, pyTx, walk>>

\* The Python store writes what was put in order.
PyFlush(table, staged) ==
  [h \in Hashes |->
     LET hits == {i \in DOMAIN staged : staged[i].hash = h}
     IN  IF hits = {} THEN table[h] ELSE staged[Max(hits)].object]

\* commit() returns or raises, whatever came before it, and Python has then
\* written a first part of what was put, or all of it, or nothing.
Commit(t) ==
  /\ pyTx[t] # "unused"
  /\ pyTx' \in {pyTx, [pyTx EXCEPT ![t] = IF @ = "open" THEN "committed" ELSE @]}
  /\ \E n \in 0 .. Len(pyStaged[t]) : pyObjects' = PyFlush(pyObjects, SubSeq(pyStaged[t], 1, n))
  /\ UNCHANGED <<pyRefs, pyStaged, walk>>

\* rollback(), which consumes the transaction whether or not it raises, or a
\* handle that is dropped: PyTransaction has no Drop of its own and lets the
\* Python object go.
Rollback(t) ==
  /\ pyTx[t] # "unused"
  /\ pyTx' = [pyTx EXCEPT ![t] = IF @ = "open" THEN "discarded" ELSE @]
  /\ UNCHANGED <<pyObjects, pyRefs, pyStaged, walk>>

SetRef(r, h) ==
  /\ pyRefs' = [pyRefs EXCEPT ![r] = h]
  /\ UNCHANGED <<pyObjects, pyTx, pyStaged, walk>>

DeleteRef(r) ==
  /\ pyRefs' = [pyRefs EXCEPT ![r] = None]
  /\ UNCHANGED <<pyObjects, pyTx, pyStaged, walk>>

CasRef(r, expected, new) ==
  /\ pyRefs[r] = expected
  /\ pyRefs' = [pyRefs EXCEPT ![r] = new]
  /\ UNCHANGED <<pyObjects, pyTx, pyStaged, walk>>

-----------------------------------------------------------------------------
(* subtree(): a stream over get(), with other calls between two items.      *)

StartWalk(h) ==
  /\ walk.end = "idle"
  /\ walk' = [Idle EXCEPT !.root = h, !.stack = <<h>>, !.end = "running"]
  /\ UNCHANGED store

Top == walk.stack[Len(walk.stack)]
Below == SubSeq(walk.stack, 1, Len(walk.stack) - 1)

\* Mutant of Visit: an object that was seen is yielded again.
VisitAgain ==
  /\ walk.end = "running" /\ walk.stack # <<>>
  /\ LET o == Get(Top) IN
       walk' = IF o = None THEN [walk EXCEPT !.end = "not found"]
               ELSE [walk EXCEPT !.visited = @ \union {Top},
                                 !.stack = Below \o o.links,
                                 !.yielded = Append(@, Top)]
  /\ UNCHANGED store

\* An object that is not there, or a call that raises, ends the stream with
\* an error.
Visit ==
  /\ walk.end = "running" /\ walk.stack # <<>>
  /\ LET o == Get(Top) IN
       walk' = IF Top \in walk.visited THEN [walk EXCEPT !.stack = Below]
               ELSE IF o = None THEN [walk EXCEPT !.end = "not found"]
               ELSE [walk EXCEPT !.visited = @ \union {Top},
                                 !.stack = Below \o o.links,
                                 !.yielded = Append(@, Top)]
  /\ UNCHANGED store

EndWalk ==
  /\ walk.end = "running" /\ walk.stack = <<>>
  /\ walk' = [walk EXCEPT !.end = "done"]
  /\ UNCHANGED store

Next ==
  \/ \E h \in Hashes : StartWalk(h)
  \/ \E t \in Txs : Transaction(t) \/ Commit(t) \/ Rollback(t) \/ \E o \in Forms : Put(t, o)
  \/ \E r \in Refs : DeleteRef(r) \/ \E h \in Hashes : SetRef(r, h)
  \/ \E r \in Refs, x \in Hashes \union {None}, h \in Hashes : CasRef(r, x, h)
  \/ Visit \/ EndWalk

Spec == Init /\ [][Next]_vars

-----------------------------------------------------------------------------
C == INSTANCE StoreContract WITH
       objects <- [h \in Hashes |-> Get(h)], refs <- pyRefs, txState <- pyTx,
       staged <- [t \in Txs |-> [i \in DOMAIN pyStaged[t] |-> ToRust(pyStaged[t][i].object)]]

\* What the traits ask of the Python object in this step, in its own objects:
\* a consumed transaction takes nothing more, and what is written is all that
\* was put, by the commit that returns.
PythonObeys ==
  /\ \A t \in Txs : pyTx[t] \in {"committed", "discarded"} => pyStaged'[t] = pyStaged[t]
  /\ IF \E t \in Txs : pyTx[t] = "open" /\ pyTx'[t] = "committed"
     THEN \A t \in Txs : pyTx'[t] # pyTx[t] => pyObjects' = PyFlush(pyObjects, pyStaged[t])
     ELSE pyObjects' = pyObjects

\* A step in which the Python object does what the traits ask of it is, once
\* its objects have crossed the bridge, a step of the contract or leaves what
\* the contract speaks of alone: an object is put as it came, under its hash.
KeepsTheContract == PythonObeys => C!Next \/ UNCHANGED C!vars

\* What a get returns has the identity it was asked for, in a form that was
\* put: nothing that its hashes cover is lost on the way through Python.  A
\* lookup by inclusive hash finds the element that is stored in that form.
GetReturnsWhatWasPut ==
  /\ \A h \in Hashes : pyObjects[h] # None => Get(h) \in Forms /\ IdentityOf[Get(h)] = h
  /\ \A o \in Forms : o.kind = "element" /\ Get(IdentityOf[o]) = o =>
       <<IdentityOf[o], o>> \in GetByInclusiveHash(o.inclusive)

LinksOf(h) == {Get(h).links[i] : i \in DOMAIN Get(h).links}

\* "yielding each object exactly once": a subtree that ends well has yielded
\* all that its root reaches, and nothing twice, whatever was stored meanwhile.
SubtreeIsClosure ==
  walk.end = "done" =>
    /\ \A i, j \in DOMAIN walk.yielded : walk.yielded[i] = walk.yielded[j] => i = j
    /\ walk.visited = {walk.root} \union UNION {LinksOf(h) : h \in walk.visited}

BridgeIsFaithful == GetReturnsWhatWasPut /\ SubtreeIsClosure
=============================================================================
