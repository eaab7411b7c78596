------------------------------ MODULE ObjectTree ------------------------------
(***************************************************************************)
(* Content-addressed documents (import.rs, export.rs, object.rs, hash.rs).  *)
(* import_xml stores a document as one object per node, each under a hash   *)
(* of its canonical form; export_xml puts the document together again from *)
(* what the store holds under those hashes.                                 *)
(*                                                                         *)
(* A hash is written as the bytes it is taken of: a sequence of characters, *)
(* where a tag is one character.  SHA-256 is taken to tell any two apart.   *)
(* An element's name stands for its expanded name with its prefix, its      *)
(* attributes and its namespace declarations.                               *)
(***************************************************************************)
EXTENDS SequencesExt, Naturals

CONSTANTS
  Documents,     \* documents a user may import: [prologue, root]
  Markup,        \* the characters a text may hold that canonical XML escapes
  MaxImports     \* bound on the number of documents imported

VARIABLES
  store,         \* hash -> object
  imported       \* the documents imported: a set of [document, hash]

vars == <<store, imported>>

(***************************************************************************)
(* The nodes of a document, as xot parses them.                            *)
(***************************************************************************)
Text(chars) == [kind |-> "text", chars |-> chars]
Comment(chars) == [kind |-> "comment", chars |-> chars]
PI(chars) == [kind |-> "pi", chars |-> chars]
Element(name, children) == [kind |-> "element", name |-> name, children |-> children]

Open(name) == "<" \o name \o ">"
Close(name) == "</" \o name \o ">"
Each(f(_), s) == [i \in DOMAIN s |-> f(s[i])]

\* hash_pi: the instruction as it is written.
Written(pi) == <<"<?">> \o pi.chars \o <<"?>">>

\* In canonical XML the characters of a text that could be markup are escaped ...
Escaped(c) == IF c \in Markup THEN "&" \o c ELSE c

\* ... and comments are left out (CanonicalizationMode::Exclusive).
RECURSIVE Canonical(_)
Canonical(n) ==
  CASE n.kind = "text"    -> Each(Escaped, n.chars)
    [] n.kind = "comment" -> <<>>
    [] n.kind = "pi"      -> Written(n)
    [] n.kind = "element" ->
         <<Open(n.name)>> \o FlattenSeq(Each(Canonical, n.children)) \o <<Close(n.name)>>

\* hash_text takes the characters of a text or a comment as they are.
Hash(n) ==
  CASE n.kind \in {"text", "comment"} -> n.chars
    [] n.kind = "pi"                  -> Written(n)
    [] n.kind = "element"             -> Canonical(n)

\* DocumentObject::to_xml names the parts by their hashes, in this order.
DocumentHash(root, prologue) ==
  <<"<document>">> \o root
    \o FlattenSeq(Each(LAMBDA h : <<"<prologue>">> \o h \o <<"</prologue>">>, prologue))
    \o <<"</document>">>

HashOf(d) == DocumentHash(Hash(d.root), Each(Hash, d.prologue))

(***************************************************************************)
(* import_xml                                                              *)
(***************************************************************************)
Entry(hash, object) == [hash |-> hash, object |-> object]

ObjectOf(n) ==
  IF n.kind = "element" THEN [n EXCEPT !.children = Each(Hash, n.children)] ELSE n

\* The children of a node come before it.
RECURSIVE Collect(_)
Collect(n) ==
  (IF n.kind = "element" THEN FlattenSeq(Each(Collect, n.children)) ELSE <<>>)
    \o <<Entry(Hash(n), ObjectOf(n))>>

\* Mutant of Collected: the prologue is stored, the document forgets it.
CollectedWithoutPrologue(d) ==
  FlattenSeq(Each(Collect, d.prologue)) \o Collect(d.root)
    \o <<Entry(HashOf(d), [kind |-> "document", root |-> Hash(d.root), prologue |-> <<>>])>>

Collected(d) ==
  FlattenSeq(Each(Collect, d.prologue)) \o Collect(d.root)
    \o <<Entry(HashOf(d), [kind |-> "document", root |-> Hash(d.root),
                           prologue |-> Each(Hash, d.prologue)])>>

\* A transaction's commit puts its objects in order; a later one replaces.
Put(objects, entries) ==
  FoldLeft(LAMBDA s, e : [h \in DOMAIN s \cup {e.hash} |->
                            IF h = e.hash THEN e.object ELSE s[h]], objects, entries)

Import(d) ==
  /\ Cardinality(imported) < MaxImports
  /\ store' = Put(store, Collected(d))
  /\ imported' = imported \cup {[document |-> d, hash |-> HashOf(d)]}

(***************************************************************************)
(* export_xml: what a reader of the exported text parses, so texts that     *)
(* came to stand side by side are one.                                      *)
(***************************************************************************)
Joined(nodes) ==
  FoldLeft(LAMBDA s, n :
    IF n.kind = "text" /\ s # <<>> /\ Last(s).kind = "text"
    THEN [s EXCEPT ![Len(s)].chars = @ \o n.chars]
    ELSE Append(s, n), <<>>, nodes)

RECURSIVE Build(_, _)
Build(objects, h) ==
  LET object == objects[h] IN
  IF object.kind = "element"
  THEN [object EXCEPT !.children = Joined(Each(LAMBDA c : Build(objects, c), @))]
  ELSE object

Export(objects, h) ==
  [root |-> Build(objects, objects[h].root),
   prologue |-> SelectSeq(Each(LAMBDA p : objects[p], objects[h].prologue),
                          LAMBDA n : n.kind \in {"comment", "pi"})]

\* The objects an export needs (subtree): NotFound if one is missing.
Names(object) ==
  CASE object.kind = "element"  -> ToSet(object.children)
    [] object.kind = "document" -> {object.root} \cup ToSet(object.prologue)
    [] OTHER                    -> {}

Init ==
  /\ store = [h \in {} |-> {}]
  /\ imported = {}

Next == \E d \in Documents : Import(d)

Spec == Init /\ [][Next]_vars

-------------------------------------------------------------------------------
(***************************************************************************)
(* Properties                                                              *)
(***************************************************************************)
\* The document without its comments.
RECURSIVE Plain(_)
Plain(n) ==
  IF n.kind # "element" THEN n
  ELSE [n EXCEPT !.children =
          Joined(Each(Plain, SelectSeq(@, LAMBDA c : c.kind # "comment")))]

RECURSIVE HasComment(_)
HasComment(n) ==
  n.kind = "element" /\ \E i \in DOMAIN n.children :
    n.children[i].kind = "comment" \/ HasComment(n.children[i])

\* Every object a stored object names is stored, so no export can fail.
Closed == \A h \in DOMAIN store : Names(store[h]) \subseteq DOMAIN store

\* Texts, comments and instructions with one hash, of which the store has only
\* the one that was put last: a comment that is spelled like a text.
RECURSIVE Leaves(_)
Leaves(n) == IF n.kind = "element" THEN UNION {Leaves(c) : c \in ToSet(n.children)} ELSE {n}
LeavesOf(d) == Leaves(d.root) \cup ToSet(d.prologue)
Clashing ==
  LET all == UNION {LeavesOf(i.document) : i \in imported}
  IN  {l \in all : \E m \in all : m # l /\ Hash(m) = Hash(l)}

\* A clash spoils the documents that hold such a leaf. A comment inside an element
\* spoils others too: its element has the hash of the same one without it.
Spoiled(d) ==
  \/ LeavesOf(d) \cap Clashing # {}
  \/ \E j \in imported : \E l \in Leaves(j.document.root) \cap Clashing : l.kind = "comment"

\* An imported document is exported with the elements, texts and instructions
\* it was imported with, whatever else was imported since and shares nodes with
\* it, and importing the export gives the same hash; comments too are the same
\* as long as no document with comments inside elements was imported.  This is
\* claimed of the documents that no clash of hashes spoils; an export always
\* finds its objects.
ExportIsImport ==
  /\ Closed
  /\ \A i \in imported :
       LET e == Export(store, i.hash) IN
       ~Spoiled(i.document) =>
         /\ e.prologue = i.document.prologue
         /\ Plain(e.root) = Plain(i.document.root)
         /\ HashOf(e) = i.hash
         /\ (\A j \in imported : ~HasComment(j.document.root)) => e = i.document
===============================================================================
