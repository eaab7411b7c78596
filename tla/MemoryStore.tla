---------------------------- MODULE MemoryStore ----------------------------
(***************************************************************************)
(* The in-memory store (store/memory.rs): three maps, each behind its own  *)
(* RwLock, shared by any number of tasks.  A commit holds the objects lock *)
(* and the index lock together, in that order; a lookup by inclusive hash  *)
(* reads the index, releases it, and then reads the objects.  A future may *)
(* be dropped at an await, that is, while it waits for a lock.             *)
(***************************************************************************)
EXTENDS StoreObjects, FiniteSetTheorems, TLAPS

CONSTANT Readers        \* tasks that call get_by_inclusive_hash

VARIABLES
  objects,      \* MemoryStoreInner.objects
  index,        \* MemoryStoreInner.inclusive_index: the forms it has a key for
  refs,         \* MemoryStoreInner.refs
  txState,      \* the `consumed` flag of each MemoryTransaction, and why
  pending,      \* what put() queued in MemoryTransaction.pending; the code clears
                \* it when the transaction is consumed and cannot be asked again
  commitPc,     \* where a running commit() is
  readPc,       \* where a running get_by_inclusive_hash() is
  sought,       \* the form it looks for
  found         \* what it returned

vars == <<objects, index, refs, txState, pending, commitPc, readPc, sought, found>>

C == INSTANCE StoreContract WITH staged <- pending

CommitPcs == {"idle", "objects", "both"}            \* locks held
ReadPcs == {"idle", "start", "index", "between", "objects"}

TypeOK ==
  /\ C!TypeOK
  /\ index \in SUBSET Forms
  /\ commitPc \in [Txs -> CommitPcs]
  /\ readPc \in [Readers -> ReadPcs]
  /\ sought \in [Readers -> Forms \union {None}]
  /\ found \in [Readers -> Forms \union {None}]

Init ==
  /\ C!Init
  /\ index = {}
  /\ commitPc = [t \in Txs |-> "idle"]
  /\ readPc = [p \in Readers |-> "idle"]
  /\ sought = [p \in Readers |-> None]
  /\ found = [p \in Readers |-> None]

\* Who holds what.
ObjectsWriteHeld == \E t \in Txs : commitPc[t] \in {"objects", "both"}
IndexWriteHeld == \E t \in Txs : commitPc[t] = "both"
ObjectsReadHeld == \E p \in Readers : readPc[p] = "objects"

\* Mutant of IndexReadHeld: the lookup keeps its index guard while it waits.
IndexReadHeldTooLong == \E p \in Readers : readPc[p] \in {"index", "between"}

IndexReadHeld == \E p \in Readers : readPc[p] = "index"

readVars == <<readPc, sought, found>>
storeVars == <<objects, index, refs>>

Begin(t) ==
  /\ txState[t] = "unused"
  /\ txState' = [txState EXCEPT ![t] = "open"]
  /\ UNCHANGED <<storeVars, pending, commitPc, readVars>>

Put(t, f) ==
  /\ txState[t] = "open" /\ commitPc[t] = "idle"
  /\ Len(pending[t]) < MaxPuts
  /\ pending' = [pending EXCEPT ![t] = Append(@, f)]
  /\ UNCHANGED <<storeVars, txState, commitPc, readVars>>

\* objects.write().await
CommitLockObjects(t) ==
  /\ txState[t] = "open" /\ commitPc[t] = "idle"
  /\ ~ObjectsWriteHeld /\ ~ObjectsReadHeld
  /\ commitPc' = [commitPc EXCEPT ![t] = "objects"]
  /\ UNCHANGED <<storeVars, txState, pending, readVars>>

\* inclusive_index.write().await
CommitLockIndex(t) ==
  /\ commitPc[t] = "objects"
  /\ ~IndexWriteHeld /\ ~IndexReadHeld
  /\ commitPc' = [commitPc EXCEPT ![t] = "both"]
  /\ UNCHANGED <<storeVars, txState, pending, readVars>>

\* Mutant of CommitFlush: the index is derived from the rows that remain.
CommitFlushReindexes(t) ==
  /\ commitPc[t] = "both"
  /\ objects' = Flush(objects, pending[t])
  /\ index' = {objects'[h] : h \in Hashes} \ {None}
  /\ txState' = [txState EXCEPT ![t] = "committed"]
  /\ commitPc' = [commitPc EXCEPT ![t] = "idle"]
  /\ UNCHANGED <<refs, pending, readVars>>

\* Mutant of CommitFlush: the transaction is not consumed.
CommitFlushStaysOpen(t) ==
  /\ commitPc[t] = "both"
  /\ objects' = Flush(objects, pending[t])
  /\ index' = index \union FormsIn(pending[t])
  /\ commitPc' = [commitPc EXCEPT ![t] = "idle"]
  /\ UNCHANGED <<refs, txState, pending, readVars>>

\* The drain loop runs without an await; both guards drop at the end.
CommitFlush(t) ==
  /\ commitPc[t] = "both"
  /\ objects' = Flush(objects, pending[t])
  /\ index' = index \union FormsIn(pending[t])
  /\ txState' = [txState EXCEPT ![t] = "committed"]
  /\ commitPc' = [commitPc EXCEPT ![t] = "idle"]
  /\ UNCHANGED <<refs, pending, readVars>>

\* The commit future is dropped while it waits for the index lock.
CommitCancelled(t) ==
  /\ commitPc[t] = "objects"
  /\ commitPc' = [commitPc EXCEPT ![t] = "idle"]
  /\ UNCHANGED <<storeVars, txState, pending, readVars>>

\* rollback(), or the handle is dropped.
Rollback(t) ==
  /\ txState[t] = "open" /\ commitPc[t] = "idle"
  /\ txState' = [txState EXCEPT ![t] = "discarded"]
  /\ UNCHANGED <<storeVars, pending, commitPc, readVars>>

\* set_ref and delete_ref (h = None): one write under the refs lock.
SetRef(r, h) ==
  /\ refs' = [refs EXCEPT ![r] = h]
  /\ UNCHANGED <<objects, index, txState, pending, commitPc, readVars>>

\* cas_ref compares and inserts under one write guard.
CasRef(r, expected, new) ==
  /\ refs[r] = expected
  /\ refs' = [refs EXCEPT ![r] = new]
  /\ UNCHANGED <<objects, index, txState, pending, commitPc, readVars>>

LookupStart(p, f) ==
  /\ readPc[p] = "idle"
  /\ readPc' = [readPc EXCEPT ![p] = "start"]
  /\ sought' = [sought EXCEPT ![p] = f]
  /\ found' = [found EXCEPT ![p] = None]
  /\ UNCHANGED <<storeVars, txState, pending, commitPc>>

LookupLockIndex(p) ==
  /\ readPc[p] = "start" /\ ~IndexWriteHeld
  /\ readPc' = [readPc EXCEPT ![p] = "index"]
  /\ UNCHANGED <<storeVars, txState, pending, commitPc, sought, found>>

\* A miss returns; a hit drops the index guard before taking the next lock.
LookupReadIndex(p) ==
  /\ readPc[p] = "index"
  /\ readPc' = [readPc EXCEPT ![p] = IF sought[p] \in index THEN "between" ELSE "idle"]
  /\ UNCHANGED <<storeVars, txState, pending, commitPc, sought, found>>

LookupLockObjects(p) ==
  /\ readPc[p] = "between" /\ ~ObjectsWriteHeld
  /\ readPc' = [readPc EXCEPT ![p] = "objects"]
  /\ UNCHANGED <<storeVars, txState, pending, commitPc, sought, found>>

LookupReadObjects(p) ==
  /\ readPc[p] = "objects"
  /\ found' = [found EXCEPT ![p] = objects[IdentityOf[sought[p]]]]
  /\ readPc' = [readPc EXCEPT ![p] = "idle"]
  /\ UNCHANGED <<storeVars, txState, pending, commitPc, sought>>

CommitStep(t) == CommitLockIndex(t) \/ CommitFlush(t)
LookupStep(p) ==
  \/ LookupLockIndex(p) \/ LookupReadIndex(p)
  \/ LookupLockObjects(p) \/ LookupReadObjects(p)

Next ==
  \/ \E t \in Txs :
       \/ Begin(t) \/ CommitLockObjects(t) \/ CommitStep(t)
       \/ CommitCancelled(t) \/ Rollback(t)
  \/ \E t \in Txs, f \in Forms : Put(t, f)
  \/ \E r \in Refs, h \in Hashes \union {None} : SetRef(r, h)
  \/ \E r \in Refs, old \in Hashes \union {None}, new \in Hashes : CasRef(r, old, new)
  \/ \E p \in Readers, f \in Forms : LookupStart(p, f)
  \/ \E p \in Readers : LookupStep(p)

(***************************************************************************)
(* The runtime polls every task that can make progress, and tokio's        *)
(* RwLock queues waiters in order, so a lock that keeps becoming free is   *)
(* obtained.                                                               *)
(***************************************************************************)
Fairness ==
  /\ \A t \in Txs : SF_vars(CommitLockIndex(t)) /\ WF_vars(CommitFlush(t))
  /\ \A p \in Readers :
       /\ SF_vars(LookupLockIndex(p)) /\ WF_vars(LookupReadIndex(p))
       /\ SF_vars(LookupLockObjects(p)) /\ WF_vars(LookupReadObjects(p))

Spec == Init /\ [][Next]_vars /\ Fairness

-----------------------------------------------------------------------------
\* A committed element can be found by every inclusive hash it was ever
\* committed under, also after another form of the same element replaced it,
\* and a lookup never pairs an index entry with a missing object, although it
\* reads the two maps (inclusive_index, objects) under separate locks.
IndexIsSound ==
  /\ \A t \in Txs : txState[t] = "committed" =>
       \A i \in DOMAIN pending[t] :
         /\ pending[t][i] \in index
         /\ objects[IdentityOf[pending[t][i]]] # None
  /\ \A p \in Readers : readPc[p] \in {"between", "objects"} =>
       objects[IdentityOf[sought[p]]] # None

\* The store as a whole behaves as the storage traits promise: a commit takes
\* effect as one step, whatever locks it takes on the way.
ImplementsContract == C!Spec

\* Every lookup returns, and every commit that has its first lock gets the
\* second or is cancelled: commit takes objects before index, and a lookup lets
\* go of the index before it asks for the objects.
CallsFinish ==
  /\ \A p \in Readers : readPc[p] # "idle" ~> readPc[p] = "idle"
  /\ \A t \in Txs : commitPc[t] # "idle" ~> commitPc[t] = "idle"
-----------------------------------------------------------------------------
(* What holds of the in-memory store for every number of tasks, objects and  *)
(* puts: its locks exclude each other, its two maps agree at every moment    *)
(* although a lookup reads them one after the other, and it is the store of  *)
(* the storage traits.                                                       *)

\* One commit at a time has the objects lock, and a map that is written is not
\* read (the RwLocks of MemoryStoreInner).
LocksExclude ==
  /\ \A t, u \in Txs : commitPc[t] # "idle" /\ commitPc[u] # "idle" => t = u
  /\ ~(ObjectsWriteHeld /\ ObjectsReadHeld)
  /\ ~(IndexWriteHeld /\ IndexReadHeld)

\* What a lookup by inclusive hash returns has the identity it was asked for.
FoundIsSought ==
  \A p \in Readers : found[p] # None => IdentityOf[found[p]] = IdentityOf[sought[p]]

\* A handle is open for as long as its commit runs.
CommitsAreOpen == \A t \in Txs : commitPc[t] # "idle" => txState[t] = "open"

\* Every key of the index leads to an object, and every form that a finished
\* commit wrote is a key.
IndexLeads == \A f \in index : objects[IdentityOf[f]] # None
CommittedIsKey ==
  \A t \in Txs : txState[t] = "committed" => \A i \in DOMAIN pending[t] : pending[t][i] \in index

\* A lookup looks for a form; past the index it looks for a key.
SoughtIsKey ==
  \A p \in Readers :
    /\ readPc[p] # "idle" => sought[p] \in Forms
    /\ found[p] # None => sought[p] \in Forms
    /\ readPc[p] \in {"between", "objects"} => sought[p] \in index

\* TypeOK, with the contract's part of it written out.
Types ==
  /\ objects \in [Hashes -> Forms \union {None}] /\ refs \in [Refs -> Hashes \union {None}]
  /\ txState \in [Txs -> TxStates] /\ pending \in [Txs -> Seq(Forms)]
  /\ index \in SUBSET Forms /\ commitPc \in [Txs -> CommitPcs] /\ readPc \in [Readers -> ReadPcs]
  /\ sought \in [Readers -> Forms \union {None}] /\ found \in [Readers -> Forms \union {None}]

IInv ==
  /\ Types /\ LocksExclude /\ CommitsAreOpen
  /\ Addressed(objects) /\ IndexLeads /\ CommittedIsKey /\ SoughtIsKey /\ FoundIsSought

-----------------------------------------------------------------------------
(* What `Flush` does, for every table and every sequence of puts.  The      *)
(* library states induction with an operator as parameter; the order of the *)
(* finite sets by inclusion, which it also has, serves as well.             *)

\* A finite set of integers has a greatest element: no set {y \in S : y > k}
\* is smaller than the one of the greatest k.
LEMMA FiniteMax ==
  ASSUME NEW S, S \subseteq Int, IsFiniteSet(S), S # {}
  PROVE  Max(S) \in S /\ \A y \in S : Max(S) >= y
<1> DEFINE Above(k) == {y \in S : y > k}
           T == {Above(k) : k \in S}
<1>1. ASSUME NEW k \in S PROVE Above(k) \in FiniteSubsetsOf(S)
  BY FS_Subset, Above(k) \in SUBSET S DEF FiniteSubsetsOf
<1>2. T \subseteq FiniteSubsetsOf(S) /\ T # {}
  BY <1>1
<1>3. PICK A \in T : \A B \in T : <<B, A>> \notin StrictSubsetOrdering(S)
  <2> HIDE DEF T
  <2> QED BY ONLY <1>2, WFMin, FS_StrictSubsetOrderingWellFounded
<1>4. PICK m \in S : A = Above(m)
  OBVIOUS
<1>5. ASSUME NEW y \in S, y > m PROVE FALSE
  <2>1. Above(y) \in T
    OBVIOUS
  <2>2. ~(y > y) /\ \A k \in S : k > y => k > m
    BY <1>5
  <2>3. y \in Above(m) /\ y \notin Above(y) /\ Above(y) \subseteq Above(m)
    BY <1>5, <2>2
  <2>4. <<Above(y), A>> \in StrictSubsetOrdering(S)
    BY <1>4, <2>3 DEF StrictSubsetOrdering
  <2> QED BY <1>3, <2>1, <2>4
<1>6. m \in Int /\ \A y \in S : y \in Int /\ m >= y
  BY <1>5
<1> QED BY <1>6 DEF Max

\* A commit leaves a table of the objects, keeps every identity that had a row
\* and gives one to everything that was put (store/mod.rs, Transaction); each
\* row holds a form of its own identity.
LEMMA FlushStores ==
  ASSUME NEW table \in [Hashes -> Forms \union {None}], NEW forms \in Seq(Forms)
  PROVE  /\ Flush(table, forms) \in [Hashes -> Forms \union {None}]
         /\ \A h \in Hashes : table[h] # None => Flush(table, forms)[h] # None
         /\ \A i \in DOMAIN forms : Flush(table, forms)[IdentityOf[forms[i]]] # None
         /\ Addressed(table) => Addressed(Flush(table, forms))
<1> DEFINE Hits(h) == {i \in DOMAIN forms : IdentityOf[forms[i]] = h}
<1>1. ASSUME NEW h \in Hashes, Hits(h) # {} PROVE Max(Hits(h)) \in Hits(h)
  <2>1. Hits(h) \in SUBSET (1 .. Len(forms)) /\ Len(forms) \in Nat
    OBVIOUS
  <2> HIDE DEF Hits
  <2>2. IsFiniteSet(1 .. Len(forms))
    BY <2>1, FS_Interval
  <2>3. IsFiniteSet(Hits(h)) /\ Hits(h) \subseteq Int
    BY <2>1, <2>2, FS_Subset
  <2> QED BY <1>1, <2>3, FiniteMax
<1>2. ASSUME NEW h \in Hashes, Hits(h) # {}
      PROVE  /\ Flush(table, forms)[h] = forms[Max(Hits(h))]
             /\ forms[Max(Hits(h))] \in Forms
             /\ IdentityOf[forms[Max(Hits(h))]] = h
  BY <1>1, <1>2 DEF Flush
<1>3. ASSUME NEW h \in Hashes, Hits(h) = {} PROVE Flush(table, forms)[h] = table[h]
  BY <1>3 DEF Flush
<1>4. Flush(table, forms) = [h \in Hashes |-> Flush(table, forms)[h]]
  BY DEF Flush
<1>5. \A i \in DOMAIN forms : IdentityOf[forms[i]] \in Hashes /\ i \in Hits(IdentityOf[forms[i]])
  BY IdentityType
<1> HIDE DEF Hits
<1> QED BY <1>2, <1>3, <1>4, <1>5, NoneIsNew DEF Addressed

-----------------------------------------------------------------------------
\* The contract's type invariant is part of these types.
LEMMA TypesAreTypeOK == Types <=> TypeOK
BY DEF Types, TypeOK, C!TypeOK, TxStates, C!TxStates

\* An empty store satisfies the invariant.
LEMMA InitInv == Init => IInv
<1> SUFFICES ASSUME Init PROVE IInv
  OBVIOUS
<1>1. Types
  BY DEF Types, Init, C!Init, CommitPcs, ReadPcs, TxStates
<1>2. LocksExclude /\ CommitsAreOpen
  BY DEF Init, LocksExclude, CommitsAreOpen, ObjectsWriteHeld, ObjectsReadHeld, IndexWriteHeld,
         IndexReadHeld
<1>3. Addressed(objects) /\ IndexLeads /\ CommittedIsKey /\ SoughtIsKey /\ FoundIsSought
  BY DEF Init, C!Init, Addressed, IndexLeads, CommittedIsKey, SoughtIsKey, FoundIsSought
<1> QED BY <1>1, <1>2, <1>3 DEF IInv

\* What depends on the locks alone.
LEMMA LocksStay ==
  ASSUME IInv, Types', [Next]_vars
  PROVE  LocksExclude' /\ CommitsAreOpen'
<1> USE DEF IInv, Types, CommitPcs, ReadPcs, TxStates
<1>1. CASE UNCHANGED <<commitPc, readPc, txState>>
  BY <1>1 DEF LocksExclude, CommitsAreOpen, ObjectsWriteHeld, ObjectsReadHeld, IndexWriteHeld,
              IndexReadHeld
<1>2. ASSUME NEW t \in Txs,
             Begin(t) \/ CommitLockObjects(t) \/ CommitLockIndex(t) \/ CommitFlush(t)
               \/ CommitCancelled(t) \/ Rollback(t)
      PROVE  LocksExclude' /\ CommitsAreOpen'
  <2>1. UNCHANGED readPc
    BY <1>2 DEF Begin, CommitLockObjects, CommitLockIndex, CommitFlush, CommitCancelled, Rollback,
                readVars
  <2>2. CASE Begin(t) \/ Rollback(t)
    BY <2>1, <2>2 DEF Begin, Rollback, LocksExclude, CommitsAreOpen, ObjectsWriteHeld,
                      ObjectsReadHeld, IndexWriteHeld, IndexReadHeld
  <2>3. CASE CommitLockObjects(t)
    BY <2>1, <2>3 DEF CommitLockObjects, LocksExclude, CommitsAreOpen, ObjectsWriteHeld,
                      ObjectsReadHeld, IndexWriteHeld, IndexReadHeld
  <2>4. CASE CommitLockIndex(t)
    BY <2>1, <2>4 DEF CommitLockIndex, LocksExclude, CommitsAreOpen, ObjectsWriteHeld,
                      ObjectsReadHeld, IndexWriteHeld, IndexReadHeld
  <2>5. CASE CommitFlush(t) \/ CommitCancelled(t)
    <3>1. /\ commitPc[t] # "idle" /\ commitPc' = [commitPc EXCEPT ![t] = "idle"]
          /\ \A u \in Txs \ {t} : txState'[u] = txState[u]
      BY <2>5 DEF CommitFlush, CommitCancelled
    <3> QED
      BY <2>1, <3>1 DEF LocksExclude, CommitsAreOpen, ObjectsWriteHeld,
                      ObjectsReadHeld, IndexWriteHeld, IndexReadHeld
  <2> QED BY <1>2, <2>2, <2>3, <2>4, <2>5
<1>3. ASSUME NEW p \in Readers, LookupStep(p) \/ \E f \in Forms : LookupStart(p, f)
      PROVE  LocksExclude' /\ CommitsAreOpen'
  <2>1. UNCHANGED <<commitPc, txState>>
    BY <1>3 DEF LookupStep, LookupStart, LookupLockIndex, LookupReadIndex, LookupLockObjects,
                LookupReadObjects
  <2>2. /\ readPc'[p] = "index" => ~IndexWriteHeld
        /\ readPc'[p] = "objects" => ~ObjectsWriteHeld
        /\ \A q \in Readers \ {p} : readPc'[q] = readPc[q]
    BY <1>3 DEF LookupStep, LookupStart, LookupLockIndex, LookupReadIndex, LookupLockObjects,
                LookupReadObjects
  <2> QED
    BY <2>1, <2>2 DEF LocksExclude, CommitsAreOpen, ObjectsWriteHeld, ObjectsReadHeld,
                      IndexWriteHeld, IndexReadHeld
<1> QED
  BY <1>1, <1>2, <1>3 DEF Next, vars, CommitStep, Put, SetRef, CasRef, readVars

\* Every step keeps the types; a commit writes a table of the objects.
LEMMA TypeStays ==
  ASSUME IInv, [Next]_vars
  PROVE  Types'
<1>0. Types /\ SoughtIsKey
  BY DEF IInv
<1> USE DEF Types, CommitPcs, ReadPcs, TxStates, storeVars, readVars
<1>1. CASE UNCHANGED vars
  BY <1>0, <1>1 DEF vars
<1>2. ASSUME NEW t \in Txs,
             Begin(t) \/ CommitLockObjects(t) \/ CommitLockIndex(t) \/ CommitCancelled(t)
               \/ Rollback(t)
      PROVE  Types'
  BY <1>0, <1>2 DEF Begin, CommitLockObjects, CommitLockIndex, CommitCancelled, Rollback
<1>3. ASSUME NEW t \in Txs, CommitFlush(t) PROVE Types'
  <2>1. objects \in [Hashes -> Forms \union {None}] /\ pending[t] \in Seq(Forms)
    BY <1>0
  <2>2. Flush(objects, pending[t]) \in [Hashes -> Forms \union {None}]
        /\ FormsIn(pending[t]) \subseteq Forms
    BY <2>1, FlushStores DEF FormsIn
  <2> QED BY <1>0, <1>3, <2>2 DEF CommitFlush, readVars
<1>4. ASSUME NEW t \in Txs, NEW f \in Forms, Put(t, f) PROVE Types'
  BY <1>0, <1>4 DEF Put
<1>5. ASSUME NEW r \in Refs, NEW h \in Hashes \union {None},
             SetRef(r, h) \/ \E old \in Hashes \union {None} : CasRef(r, old, h)
      PROVE  Types'
  BY <1>0, <1>5 DEF SetRef, CasRef
<1>6. ASSUME NEW p \in Readers, NEW f \in Forms, LookupStart(p, f) PROVE Types'
  BY <1>0, <1>6 DEF LookupStart
<1>7. ASSUME NEW p \in Readers, LookupStep(p) PROVE Types'
  <2>1. CASE LookupLockIndex(p) \/ LookupReadIndex(p) \/ LookupLockObjects(p)
    BY <1>0, <2>1 DEF LookupLockIndex, LookupReadIndex, LookupLockObjects
  <2>2. CASE LookupReadObjects(p)
    <3>1. sought[p] \in Forms /\ objects[IdentityOf[sought[p]]] \in Forms \union {None}
      BY <1>0, <2>2, IdentityType DEF LookupReadObjects, SoughtIsKey
    <3> QED BY <1>0, <2>2, <3>1 DEF LookupReadObjects
  <2> QED BY <1>7, <2>1, <2>2 DEF LookupStep
<1> QED
  BY <1>1, <1>2, <1>3, <1>4, <1>5, <1>6, <1>7 DEF Next, CommitStep

\* The two maps change in one step, when a commit has both locks; a row is
\* replaced by another form of the same identity and never removed.
LEMMA MapsStay ==
  ASSUME IInv, Types', [Next]_vars
  PROVE  Addressed(objects)' /\ IndexLeads' /\ CommittedIsKey' /\ SoughtIsKey' /\ FoundIsSought'
<1>0. Types /\ Addressed(objects) /\ IndexLeads /\ CommittedIsKey /\ SoughtIsKey /\ FoundIsSought
  BY DEF IInv
<1> USE DEF Types
<1>1. ASSUME NEW t \in Txs, CommitFlush(t)
      PROVE  Addressed(objects)' /\ IndexLeads' /\ CommittedIsKey' /\ SoughtIsKey' /\ FoundIsSought'
  <2>1. /\ objects \in [Hashes -> Forms \union {None}] /\ pending[t] \in Seq(Forms)
        /\ objects' = Flush(objects, pending[t])
    BY <1>0, <1>1 DEF CommitFlush
  <2>2. /\ Addressed(objects')
        /\ \A h \in Hashes : objects[h] # None => objects'[h] # None
        /\ \A i \in DOMAIN pending[t] : objects'[IdentityOf[pending[t][i]]] # None
    BY <1>0, <2>1, FlushStores
  <2>3. /\ index \subseteq index' /\ UNCHANGED <<pending, readPc, sought, found>>
        /\ \A f \in index' : f \in index \/ \E i \in DOMAIN pending[t] : f = pending[t][i]
        /\ \A i \in DOMAIN pending[t] : pending[t][i] \in index'
        /\ \A u \in Txs \ {t} : txState'[u] = txState[u]
    BY <1>0, <1>1 DEF CommitFlush, FormsIn, readVars
  <2>4. IndexLeads'
    BY <1>0, <2>2, <2>3, IdentityType DEF IndexLeads
  <2>5. CommittedIsKey'
    BY <1>0, <2>3 DEF CommittedIsKey
  <2>6. SoughtIsKey' /\ FoundIsSought'
    BY <1>0, <2>3 DEF SoughtIsKey, FoundIsSought
  <2> QED BY <2>2, <2>4, <2>5, <2>6
<1>2. CASE /\ UNCHANGED <<objects, index, readVars>>
           /\ \A t \in Txs : txState'[t] = "committed" =>
                txState[t] = "committed" /\ pending'[t] = pending[t]
  BY <1>0, <1>2 DEF Addressed, IndexLeads, CommittedIsKey, SoughtIsKey, FoundIsSought, readVars
<1>3. ASSUME NEW p \in Readers, LookupStep(p) \/ \E f \in Forms : LookupStart(p, f)
      PROVE  Addressed(objects)' /\ IndexLeads' /\ CommittedIsKey' /\ SoughtIsKey' /\ FoundIsSought'
  <2>1. UNCHANGED <<objects, index, txState, pending>>
    BY <1>3 DEF LookupStep, LookupStart, LookupLockIndex, LookupReadIndex, LookupLockObjects,
                LookupReadObjects, storeVars
  <2>2. Addressed(objects)' /\ IndexLeads' /\ CommittedIsKey'
    BY <1>0, <2>1 DEF Addressed, IndexLeads, CommittedIsKey
  <2>3. ASSUME NEW q \in Readers \ {p}
        PROVE  readPc'[q] = readPc[q] /\ sought'[q] = sought[q] /\ found'[q] = found[q]
    BY <1>0, <1>3 DEF LookupStep, LookupStart, LookupLockIndex, LookupReadIndex, LookupLockObjects,
                LookupReadObjects
  <2>4. CASE \E f \in Forms : LookupStart(p, f)
    BY <1>0, <2>1, <2>2, <2>3, <2>4, NoneIsNew DEF LookupStart, SoughtIsKey, FoundIsSought
  <2>5. CASE LookupLockIndex(p) \/ LookupReadIndex(p) \/ LookupLockObjects(p)
    BY <1>0, <2>1, <2>2, <2>3, <2>5
       DEF LookupLockIndex, LookupReadIndex, LookupLockObjects, SoughtIsKey, FoundIsSought
  <2>6. CASE LookupReadObjects(p)
    <3>1. /\ found'[p] = objects[IdentityOf[sought[p]]] /\ readPc'[p] = "idle" /\ sought' = sought
          /\ sought[p] \in Forms /\ IdentityOf[sought[p]] \in Hashes
      BY <1>0, <2>6, IdentityType DEF LookupReadObjects, SoughtIsKey
    <3>2. found'[p] # None => IdentityOf[found'[p]] = IdentityOf[sought'[p]]
      BY <1>0, <3>1 DEF Addressed
    <3>3. SoughtIsKey'
      BY <1>0, <2>1, <2>3, <3>1 DEF SoughtIsKey
    <3>4. FoundIsSought'
      BY <1>0, <2>3, <3>1, <3>2 DEF FoundIsSought
    <3> QED BY <2>2, <3>3, <3>4
  <2> QED BY <1>3, <2>4, <2>5, <2>6 DEF LookupStep
<1>4. ASSUME NEW t \in Txs,
             Begin(t) \/ CommitLockObjects(t) \/ CommitLockIndex(t) \/ CommitCancelled(t)
               \/ Rollback(t) \/ \E f \in Forms : Put(t, f)
      PROVE  /\ UNCHANGED <<objects, index, readVars>>
             /\ \A u \in Txs : txState'[u] = "committed" =>
                  txState[u] = "committed" /\ pending'[u] = pending[u]
  BY <1>0, <1>4 DEF Begin, CommitLockObjects, CommitLockIndex, CommitCancelled, Rollback, Put,
                    storeVars
<1>5. ASSUME NEW r \in Refs, NEW h \in Hashes \union {None},
             SetRef(r, h) \/ \E old \in Hashes \union {None} : CasRef(r, old, h)
      PROVE  /\ UNCHANGED <<objects, index, readVars>>
             /\ \A u \in Txs : txState'[u] = "committed" =>
                  txState[u] = "committed" /\ pending'[u] = pending[u]
  BY <1>5 DEF SetRef, CasRef
<1> QED
  BY <1>1, <1>2, <1>3, <1>4, <1>5 DEF Next, CommitStep, vars, readVars

\* Every reachable state satisfies the invariant.
THEOREM InvHolds == Spec => []IInv
<1>1. IInv /\ [Next]_vars => IInv'
  BY TypeStays, LocksStay, MapsStay DEF IInv
<1> QED BY InitInv, <1>1, PTL DEF Spec

\* Every variable keeps its type, the contract's among them.
THEOREM MemoryStoreTyped == Spec => []TypeOK
BY InvHolds, TypesAreTypeOK, PTL DEF IInv

\* What was committed can be found by every inclusive hash it was committed
\* under, and a lookup never pairs a key with a missing object, although it
\* lets go of the index before it reads the objects (memory.rs).
THEOREM IndexStaysSound == Spec => []IndexIsSound
<1>1. IInv => IndexIsSound
  BY DEF IInv, Types, IndexLeads, CommittedIsKey, SoughtIsKey, IndexIsSound
<1> QED BY InvHolds, <1>1, PTL

\* A commit has the two maps to itself while it changes them, whatever tasks
\* read and whichever commits are cancelled (memory.rs).
THEOREM LocksKeepApart == Spec => []LocksExclude
BY InvHolds, PTL DEF IInv

\* A lookup by inclusive hash returns an object of the identity the hash
\* belongs to, also when another form has replaced the one it saw in the index.
THEOREM LookupsFindTheirOwn == Spec => []FoundIsSought
BY InvHolds, PTL DEF IInv

-----------------------------------------------------------------------------
\* A step of the store is a step of the contract: a commit takes effect when
\* it writes, with both locks; taking and losing locks, and lookups, are
\* nothing to the contract.
LEMMA StepIsContractStep ==
  ASSUME IInv, [Next]_vars
  PROVE  [C!Next]_C!vars
<1>0. Types /\ CommitsAreOpen
  BY DEF IInv
<1> USE DEF C!vars, storeVars, readVars
<1>1. ASSUME NEW t \in Txs, Begin(t) PROVE C!Next
  BY <1>1 DEF Begin, C!Begin, C!Next
<1>2. ASSUME NEW t \in Txs, CommitFlush(t) PROVE C!Next
  <2>1. txState[t] = "open"
    BY <1>0, <1>2 DEF CommitFlush, CommitsAreOpen
  <2>2. Flush(objects, pending[t]) = C!Flush(objects, pending[t])
    BY DEF Flush, C!Flush, Max, C!Max
  <2>3. C!Commit(t)
    BY <1>2, <2>1, <2>2 DEF CommitFlush, C!Commit
  <2> QED BY <2>3 DEF C!Next
<1>3. ASSUME NEW t \in Txs, Rollback(t) PROVE C!Next
  BY <1>3 DEF Rollback, C!Discard, C!Next
<1>4. ASSUME NEW t \in Txs, NEW f \in Forms, Put(t, f) PROVE C!Next
  BY <1>4 DEF Put, C!Put, C!Next
<1>5. ASSUME NEW r \in Refs, NEW h \in Hashes \union {None},
             SetRef(r, h) \/ \E old \in Hashes \union {None} : CasRef(r, old, h)
      PROVE  C!Next
  BY <1>5 DEF SetRef, CasRef, C!WriteRef, C!Next
<1>6. ASSUME NEW t \in Txs, CommitLockObjects(t) \/ CommitLockIndex(t) \/ CommitCancelled(t)
      PROVE  UNCHANGED C!vars
  BY <1>6 DEF CommitLockObjects, CommitLockIndex, CommitCancelled
<1>7. ASSUME NEW p \in Readers, LookupStep(p) \/ \E f \in Forms : LookupStart(p, f)
      PROVE  UNCHANGED C!vars
  BY <1>7 DEF LookupStep, LookupStart, LookupLockIndex, LookupReadIndex, LookupLockObjects,
              LookupReadObjects
<1> QED
  BY <1>1, <1>2, <1>3, <1>4, <1>5, <1>6, <1>7 DEF Next, CommitStep, vars

\* The in-memory store, with its locks, cancelled commits and concurrent
\* lookups, is the store that the storage traits promise: a commit takes
\* effect as a whole in one step, and nothing else changes an object.
THEOREM MemoryStoreIsStore == Spec => ImplementsContract
<1>1. Init => C!Init
  BY DEF Init
<1>2. IInv /\ [Next]_vars => [C!Next]_C!vars
  BY StepIsContractStep
<1> QED BY InvHolds, <1>1, <1>2, PTL DEF Spec, ImplementsContract, C!Spec
=============================================================================
