---------------------------- MODULE StoreObjects ----------------------------
(***************************************************************************)
(* What every backend of the storage traits stores (store/mod.rs).         *)
(*                                                                         *)
(* An object is identified by its exclusive-C14N hash.  An element also    *)
(* has an inclusive-C14N hash that depends on the namespaces in scope      *)
(* where it was imported, so one identity may be stored in several forms;  *)
(* a form determines its identity.                                         *)
(***************************************************************************)
EXTENDS Integers, Sequences, FiniteSetsExt

CONSTANTS
  Hashes,       \* identity hashes
  Forms,        \* inclusive hashes: an object as a caller puts it
  IdentityOf,   \* the identity hash of a form
  Refs,         \* ref names
  Txs,          \* transaction handles
  MaxPuts,      \* bound: puts per transaction
  None          \* "absent"

ASSUME IdentityType == IdentityOf \in [Forms -> Hashes]
ASSUME MaxPutsType == MaxPuts \in Nat
ASSUME NoneIsNew == None \notin Hashes \union Forms

\* `consumed` is TRUE in the last two; they differ in how the caller ended it.
TxStates == {"unused", "open", "committed", "discarded"}

\* Mutant of Flush: the drain starts one entry late.
FlushSkipsFirst(table, forms) ==
  [h \in Hashes |->
     LET hits == {i \in DOMAIN forms \ {1} : IdentityOf[forms[i]] = h}
     IN  IF hits = {} THEN table[h] ELSE forms[Max(hits)]]

\* Staged forms are written in order: the last form of an identity stays.
Flush(table, forms) ==
  [h \in Hashes |->
     LET hits == {i \in DOMAIN forms : IdentityOf[forms[i]] = h}
     IN  IF hits = {} THEN table[h] ELSE forms[Max(hits)]]

FormsIn(forms) == {forms[i] : i \in DOMAIN forms}

\* What a table holds under a hash is an object with that hash.
Addressed(table) == \A h \in Hashes : table[h] # None => IdentityOf[table[h]] = h
=============================================================================
