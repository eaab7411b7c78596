--------------------------- MODULE StoreContract ---------------------------
(***************************************************************************)
(* What the storage traits of clayers-repo promise (store/mod.rs): a table *)
(* of content-addressed objects, a table of named refs, and write          *)
(* transactions that are staged and then committed as a whole or not at    *)
(* all.  MemoryStore is shown to implement this module.                    *)
(***************************************************************************)
EXTENDS StoreObjects

VARIABLES
  objects,      \* identity -> the form stored under it
  refs,         \* ref name -> hash
  txState,      \* life cycle of each transaction handle
  staged        \* forms put so far, oldest first

vars == <<objects, refs, txState, staged>>

TypeOK ==
  /\ objects \in [Hashes -> Forms \union {None}]
  /\ refs \in [Refs -> Hashes \union {None}]
  /\ txState \in [Txs -> TxStates]
  /\ staged \in [Txs -> Seq(Forms)]

Init ==
  /\ objects = [h \in Hashes |-> None]
  /\ refs = [r \in Refs |-> None]
  /\ txState = [t \in Txs |-> "unused"]
  /\ staged = [t \in Txs |-> <<>>]

Begin(t) ==
  /\ txState[t] = "unused"
  /\ txState' = [txState EXCEPT ![t] = "open"]
  /\ UNCHANGED <<objects, refs, staged>>

Put(t, f) ==
  /\ txState[t] = "open"
  /\ Len(staged[t]) < MaxPuts
  /\ staged' = [staged EXCEPT ![t] = Append(@, f)]
  /\ UNCHANGED <<objects, refs, txState>>

\* A commit that returns Ok.  One that returns Err changes nothing.
Commit(t) ==
  /\ txState[t] = "open"
  /\ objects' = Flush(objects, staged[t])
  /\ txState' = [txState EXCEPT ![t] = "committed"]
  /\ UNCHANGED <<refs, staged>>

\* Rollback, or a handle that goes away without a commit.
Discard(t) ==
  /\ txState[t] = "open"
  /\ txState' = [txState EXCEPT ![t] = "discarded"]
  /\ UNCHANGED <<objects, refs, staged>>

\* set_ref, delete_ref and a successful cas_ref.
WriteRef(r, h) ==
  /\ refs' = [refs EXCEPT ![r] = h]
  /\ UNCHANGED <<objects, txState, staged>>

Next ==
  \/ \E t \in Txs : Begin(t) \/ Commit(t) \/ Discard(t)
  \/ \E t \in Txs, f \in Forms : Put(t, f)
  \/ \E r \in Refs, h \in Hashes \union {None} : WriteRef(r, h)

Spec == Init /\ [][Next]_vars
=============================================================================
