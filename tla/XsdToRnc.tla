------------------------------ MODULE XsdToRnc -------------------------------
(***************************************************************************)
(* The grammar printed for the schemas of the layers (clayers-xml           *)
(* rnc/convert.rs): types used often, or recursive, become named patterns,  *)
(* every other type is expanded where it is used; and the descriptions put  *)
(* on it (clayers-spec rnc.rs).  Text and layout are left out.              *)
(***************************************************************************)
EXTENDS SequencesExt, FiniteSets, Naturals

CONSTANTS
  Schemas,     \* the directories to convert: sequences of layers
  MaxDepth,    \* how deep the properties compare the two grammars
  None

VARIABLES
  layers,      \* the schema files
  phase, at,   \* the step, and the layer it is at
  usage,       \* type -> how often it is used
  rnc          \* the layers emitted

vars == <<layers, phase, at, usage, rnc>>

\* A reference is <<prefix or None, name>>; a layer has a prefix, types and
\* groups of attributes by name, and its global elements in order.
Layer(pfx, types, elements) ==
  [pfx |-> pfx, types |-> types, groups |-> [g \in {} |-> <<>>], elements |-> elements,
   typesFirst |-> FALSE, desc |-> None]
Type(content, base, attrs, parts) ==
  [content |-> content, mixed |-> FALSE, base |-> base, attrs |-> attrs, parts |-> parts, desc |-> None]
Part(kind, name, type) ==
  [kind |-> kind, name |-> name, type |-> type, inline |-> None, ref |-> None,
   min |-> 1, max |-> "1", parts |-> <<>>, desc |-> None]

Key(ref, pfx) == <<IF ref[1] = None THEN pfx ELSE ref[1], ref[2]>>

\* build_registries: the types of all layers.
Types == UNION {{<<layers[l].pfx, n>> : n \in DOMAIN layers[l].types} : l \in DOMAIN layers}
LayerOf(pfx) == layers[CHOOSE l \in DOMAIN layers : layers[l].pfx = pfx]
TypeOf(key) == LayerOf(key[1]).types[key[2]]

\* resolve_type: the type referred to, or one of that name in the layer itself.
Resolve(ref, pfx) ==
  IF Key(ref, pfx) \in Types THEN Key(ref, pfx)
  ELSE IF <<pfx, ref[2]>> \in Types THEN <<pfx, ref[2]>> ELSE None

-----------------------------------------------------------------------------
(* Which types get a name.                                                 *)

RECURSIVE Refs(_), Bases(_)
\* The types of the elements below, and the bases of the extensions below.
Refs(parts) == FlattenSeq([i \in DOMAIN parts |->
  (IF parts[i].kind = "element" /\ parts[i].type # None THEN <<parts[i].type>> ELSE <<>>)
  \o (IF parts[i].inline # None THEN Refs(parts[i].inline.parts) ELSE Refs(parts[i].parts))])
Bases(t) == (IF t.base # None THEN <<t.base>> ELSE <<>>)
  \o FlattenSeq([i \in DOMAIN t.parts |->
       IF t.parts[i].inline # None THEN Bases(t.parts[i].inline)
       ELSE Bases([t EXCEPT !.base = None, !.parts = t.parts[i].parts])])

Uses(refs, pfx, key) == Len(SelectSeq(refs, LAMBDA r : Key(r, pfx) = key))

\* count_type_refs_recursive: a global element's own type is not counted.
CountIn(layer, key) ==
  LET inlined == FlattenSeq([e \in DOMAIN layer.elements |->
                   IF layer.elements[e].inline = None THEN <<>> ELSE Refs(layer.elements[e].inline.parts)])
  IN  Uses(inlined, layer.pfx, key)
      + FoldSet(LAMBDA n, sum : sum + Uses(Refs(layer.types[n].parts), layer.pfx, key), 0, DOMAIN layer.types)

AddUsage(more(_)) == usage' = [k \in Types |-> usage[k] + more(k)]

CountRefs ==
  /\ phase = "refs"
  /\ AddUsage(LAMBDA k : CountIn(layers[at], k))
  /\ IF at < Len(layers) THEN at' = at + 1 /\ phase' = phase ELSE at' = 1 /\ phase' = "bases"
  /\ UNCHANGED <<layers, rnc>>

CountBases ==
  /\ phase = "bases"
  /\ AddUsage(LAMBDA k : FoldSet(LAMBDA t, sum : sum + Uses(Bases(TypeOf(t)), t[1], k), 0, Types))
  /\ phase' = "recursion"
  /\ UNCHANGED <<layers, at, rnc>>

\* has_self_reference looks at the name alone.
RefersToItself(t) == \E r \in ToSet(Refs(TypeOf(t).parts)) : r[2] = t[2]

Mentions(t, u) ==
  \E r \in ToSet(Refs(TypeOf(t).parts)) \cup ToSet(Bases(TypeOf(t))) : Key(r, t[1]) = u

\* Mutant of DetectRecursion: two types that refer to each other are not seen.
DetectSelfReference ==
  /\ phase = "recursion"
  /\ AddUsage(LAMBDA k : IF RefersToItself(k) THEN 2 ELSE 0)
  /\ phase' = "emit"
  /\ UNCHANGED <<layers, at, rnc>>

DetectRecursion ==
  /\ phase = "recursion"
  /\ AddUsage(LAMBDA k : (IF RefersToItself(k) THEN 2 ELSE 0)
       + 4 * Cardinality({u \in Types \ {k} : Mentions(k, u) /\ Mentions(u, k)}))
  /\ phase' = "emit"
  /\ UNCHANGED <<layers, at, rnc>>

Named == {k \in Types : usage[k] >= 2}

-----------------------------------------------------------------------------
(* The grammar of a type.                                                  *)

Quantifier(p) ==
  CASE p.max = "unbounded" -> IF p.min = 0 THEN "*" ELSE "+"
    [] OTHER -> IF p.min = 0 THEN "?" ELSE ""
Leaf(kind) == [kind |-> kind]
Ref(name) == [kind |-> "pattern", name |-> name]
RefTo(element) == [kind |-> "global", name |-> element]
Attribute(name) == [kind |-> "attribute", name |-> name]
Element(pfx, name, body, q) ==
  [kind |-> "element", name |-> <<pfx, name>>, body |-> body, quantifier |-> q]

\* emit_attrs: an attribute, or a group of them in this layer or another.
Attributes(attrs, pfx) == FlattenSeq([i \in DOMAIN attrs |->
  IF attrs[i].group = None THEN <<Attribute(attrs[i].name)>>
  ELSE LET key == Key(attrs[i].group, pfx) IN
       IF \E l \in DOMAIN layers : layers[l].pfx = key[1] /\ key[2] \in DOMAIN layers[l].groups
       THEN LET g == LayerOf(key[1]).groups[key[2]] IN [a \in DOMAIN g |-> Attribute(g[a])]
       ELSE <<>>])

WrapMixed(items, mixed) ==
  IF ~mixed THEN items
  ELSE IF items = <<>> THEN <<Leaf("text")>> ELSE <<[kind |-> "mixed", items |-> items]>>

RECURSIVE Body(_, _, _), Children(_, _, _), Child(_, _, _)
\* What an element of type t holds; expanding: the types expanded around it.
Body(t, pfx, expanding) ==
  LET key == Key(t.base, pfx)
      inherited == IF Resolve(t.base, pfx) = None THEN <<>>
                   ELSE IF key \in Named THEN <<Ref(key[2])>>
                   ELSE IF key \in expanding THEN <<>>
                   ELSE Body(TypeOf(Resolve(t.base, pfx)), pfx, expanding \cup {key})
      own == Attributes(t.attrs, pfx) \o Children(t.parts, pfx, expanding)
  IN  CASE t.content = "simple" -> Append(Attributes(t.attrs, pfx), Leaf("text"))
        [] t.content = "restriction" -> IF t.mixed THEN <<Leaf("text")>> ELSE <<>>
        [] t.content = "extension" -> WrapMixed(inherited \o own, t.mixed)
        [] t.content = "plain" -> WrapMixed(own, t.mixed)

\* A choice keeps its elements, and nothing else it may hold.
Children(parts, pfx, expanding) == FlattenSeq([i \in DOMAIN parts |->
  LET p == parts[i] IN
  CASE p.kind = "element"  -> <<Child(p, pfx, expanding)>>
    [] p.kind = "sequence" -> Children(p.parts, pfx, expanding)
    [] p.kind = "choice"   ->
         LET options == SelectSeq(p.parts, LAMBDA o : o.kind = "element")
         IN  <<[kind |-> "choice", options |-> [o \in DOMAIN options |-> Child(options[o], pfx, expanding)],
                quantifier |-> IF p.max = "unbounded" THEN "*" ELSE Quantifier(p)]>>
    [] p.kind = "any"      -> <<Leaf("any")>>])

\* emit_child and emit_typed_child.
Child(p, pfx, expanding) ==
  LET q == Quantifier(p)
      key == Key(p.type, pfx)
      typed == Resolve(p.type, pfx)
  IN  CASE p.ref # None ->
             IF q = "" THEN RefTo(p.ref) ELSE Element(p.ref[1], p.ref[2], <<RefTo(p.ref)>>, q)
        [] p.ref = None /\ p.type # None ->
             Element(pfx, p.name,
                     IF typed = None THEN <<Leaf("text")>>
                     ELSE IF key \in Named THEN <<Ref(key[2])>>
                     ELSE IF key \in expanding THEN <<Leaf("empty")>>
                     ELSE Body(TypeOf(typed), pfx, expanding \cup {key}), q)
        [] p.ref = None /\ p.type = None /\ p.inline # None ->
             Element(pfx, p.name, Body(p.inline, pfx, expanding), q)
        [] OTHER -> Element(pfx, p.name, <<Leaf("text")>>, q)

GlobalBody(e, pfx) ==
  IF e.type # None
  THEN LET typed == Resolve(e.type, pfx)
           key == <<pfx, e.type[2]>>
       IN  IF typed = None THEN <<Leaf("text")>>
           ELSE IF key \in Named THEN <<Ref(key[2])>> ELSE Body(TypeOf(typed), pfx, {key})
  ELSE IF e.inline # None THEN Body(e.inline, pfx, {}) ELSE <<Leaf("text")>>

EmitLayer ==
  /\ phase = "emit"
  /\ LET layer == layers[at]
         patterns == {k \in Named : k[1] = layer.pfx}
     IN  rnc' = Append(rnc,
           [patterns |-> [n \in {k[2] : k \in patterns} |->
              [body |-> Body(TypeOf(<<layer.pfx, n>>), layer.pfx, {<<layer.pfx, n>>}), desc |-> None]],
            elements |-> [e \in DOMAIN layer.elements |->
              [name |-> <<layer.pfx, layer.elements[e].name>>,
               body |-> GlobalBody(layer.elements[e], layer.pfx), desc |-> None]],
            desc |-> None])
  /\ IF at < Len(layers) THEN at' = at + 1 /\ phase' = phase ELSE at' = 1 /\ phase' = "describe"
  /\ UNCHANGED <<layers, usage>>

\* fuse_descriptions: an element without a description of its own takes that of
\* its type, if the type stands above it.
Described(layer, e) ==
  IF e.desc # None \/ e.type = None \/ ~layer.typesFirst \/ e.type[2] \notin DOMAIN layer.types
  THEN e.desc ELSE layer.types[e.type[2]].desc

FuseDescriptions ==
  /\ phase = "describe"
  /\ rnc' = [l \in DOMAIN rnc |->
       [patterns |-> [n \in DOMAIN rnc[l].patterns |->
                        [rnc[l].patterns[n] EXCEPT !.desc = layers[l].types[n].desc]],
        elements |-> [e \in DOMAIN rnc[l].elements |->
                        [rnc[l].elements[e] EXCEPT !.desc = Described(layers[l], layers[l].elements[e])]],
        desc |-> layers[l].desc]]
  /\ phase' = "done"
  /\ UNCHANGED <<layers, at, usage>>

Init ==
  /\ layers \in Schemas
  /\ phase = "refs" /\ at = 1
  /\ usage = [k \in Types |-> 0]
  /\ rnc = <<>>

Next == CountRefs \/ CountBases \/ DetectRecursion \/ EmitLayer \/ FuseDescriptions
Spec == Init /\ [][Next]_vars

-----------------------------------------------------------------------------
(* What the schemas allow, read off the types themselves: the sequences of  *)
(* nested elements, of at most some length, that end in an attribute or an  *)
(* element.                                                                 *)

At(name, below) == {<<>>} \cup {<<name>> \o path : path \in below}
GlobalOf(name) ==
  LET layer == LayerOf(name[1])
  IN  layer.elements[CHOOSE e \in DOMAIN layer.elements : layer.elements[e].name = name[2]]

RECURSIVE Allowed(_, _, _), AllowedIn(_, _, _), AllowedBy(_, _, _)
AllowedBy(e, pfx, depth) ==
  IF e.type # None THEN IF Resolve(e.type, pfx) = None THEN {<<>>}
                        ELSE Allowed(TypeOf(Resolve(e.type, pfx)), Resolve(e.type, pfx)[1], depth)
  ELSE IF e.inline # None THEN Allowed(e.inline, pfx, depth) ELSE {<<>>}
AllowedIn(parts, pfx, depth) == UNION {
  IF p.kind # "element" THEN AllowedIn(p.parts, pfx, depth)
  ELSE IF p.ref # None THEN At(p.ref, AllowedBy(GlobalOf(p.ref), p.ref[1], depth - 1))
  ELSE At(<<pfx, p.name>>, AllowedBy(p, pfx, depth - 1)) : p \in ToSet(parts)}
Allowed(t, pfx, depth) ==
  IF depth = 0 THEN {<<>>}
  ELSE {<<>>} \cup {<<<<"@", a.name>>>> : a \in {b \in ToSet(t.attrs) : b.group = None}}
       \cup UNION {{<<<<"@", n>>>> : n \in ToSet(LayerOf(Key(a.group, pfx)[1]).groups[a.group[2]])} :
                     a \in {b \in ToSet(t.attrs) : b.group # None}}
       \cup AllowedIn(t.parts, pfx, depth)
       \cup (IF t.content = "extension" THEN Allowed(TypeOf(Key(t.base, pfx)), Key(t.base, pfx)[1], depth) ELSE {})

Printed(name) == CHOOSE e \in UNION {ToSet(rnc[l].elements) : l \in DOMAIN rnc} : e.name = name
PatternNamed(name) == rnc[CHOOSE l \in DOMAIN rnc : name \in DOMAIN rnc[l].patterns].patterns[name]
RECURSIVE Grammar(_, _)
Grammar(items, depth) ==
  IF depth = 0 THEN {<<>>}
  ELSE {<<>>} \cup UNION {
    CASE i.kind = "attribute" -> {<<<<"@", i.name>>>>}
      [] i.kind = "element"   -> At(i.name, Grammar(i.body, depth - 1))
      [] i.kind = "choice"    -> Grammar(i.options, depth)
      [] i.kind = "mixed"     -> Grammar(i.items, depth)
      [] i.kind = "pattern"   -> Grammar(PatternNamed(i.name).body, depth)
      [] i.kind = "global"    -> At(i.name, Grammar(Printed(i.name).body, depth - 1))
      [] OTHER -> {<<>>} : i \in ToSet(items)}

Done == phase = "done"

\* What the converter is known to lose: an occurrence of a referred element that
\* is not single, what a choice holds besides elements, a complex type that
\* restricts another, and the inside of a cycle of three types or more.
RECURSIVE Simple(_)
Simple(parts) == \A p \in ToSet(parts) :
  /\ p.ref # None => Quantifier(p) = ""
  /\ p.kind = "choice" => \A o \in ToSet(p.parts) : o.kind = "element"
  /\ p.inline # None => p.inline.content # "restriction" /\ Simple(p.inline.parts)
  /\ Simple(p.parts)
InLongCycle(t) == \E u, v \in Types : Cardinality({t, u, v}) = 3 /\ Mentions(t, u) /\ Mentions(u, v) /\ Mentions(v, t)
Regular == \A t \in Types : TypeOf(t).content # "restriction" /\ Simple(TypeOf(t).parts)

\* A pattern is referred to by its local name. A type of another layer that has
\* no pattern is expanded with the prefix of the layer that refers to it: its
\* elements are printed, and its own references read, as if they were of that
\* layer. A global element looks for a pattern in its own layer alone.
PatternsAreOwn == \A k, m \in Named : k[2] = m[2] => k = m
Referred(pfx, t) == {Key(r, pfx) : r \in ToSet(Refs(t.parts)) \cup ToSet(Bases(t))}
LayersMeetInPatterns ==
  LET apart(pfx, keys) == {k \in keys \cap Types : k[1] # pfx}
  IN  /\ \A t \in Types : apart(t[1], Referred(t[1], TypeOf(t))) \subseteq Named
      /\ \A l \in DOMAIN layers : \A e \in ToSet(layers[l].elements) :
           /\ e.inline # None => apart(layers[l].pfx, Referred(layers[l].pfx, e.inline)) \subseteq Named
           /\ e.type # None => apart(layers[l].pfx, {Key(e.type, layers[l].pfx)}) = {}

\* The grammar allows under each global element what the schemas allow, to the
\* last nested element and attribute, whichever types were given names and
\* whichever were expanded in place; it never allows more. This is claimed where
\* patterns have names of their own and a type of another layer has a pattern.
GrammarIsSchema ==
  Done /\ Regular /\ PatternsAreOwn /\ LayersMeetInPatterns => \A l \in DOMAIN layers : \A e \in DOMAIN layers[l].elements :
    LET printed == Grammar(rnc[l].elements[e].body, MaxDepth)
        allowed == AllowedBy(layers[l].elements[e], layers[l].pfx, MaxDepth)
    IN  /\ printed \subseteq allowed
        /\ (\A t \in Types : ~InLongCycle(t)) => printed = allowed

\* An element or a pattern carries a description of its own type or none.
DescriptionsAreOwn ==
  Done => \A l \in DOMAIN layers :
    /\ rnc[l].desc = layers[l].desc
    /\ \A e \in DOMAIN layers[l].elements :
         LET source == layers[l].elements[e] IN
           rnc[l].elements[e].desc \in {source.desc} \cup
             (IF source.type = None THEN {} ELSE {layers[l].types[n].desc : n \in DOMAIN layers[l].types \cap {source.type[2]}})

ConversionIsFaithful == GrammarIsSchema /\ DescriptionsAreOwn
=============================================================================
