---------------------------- MODULE OntologyEdit ----------------------------
(***************************************************************************)
(* Stage 4 of the ontology build: the merged ontology is pruned to what    *)
(* the corpus uses and extended by what the LLM proposed, then repaired in *)
(* layers: stem relations (E), landforms re-homed under the geography      *)
(* ontology (F), orphans grouped under concepts (G), suspicious classes    *)
(* moved or turned into instances (H).  Every layer edits the same four    *)
(* dicts in place, and a reference to a class is its IRI: a layer that     *)
(* moves or drops a class must leave no reference behind.                  *)
(*                                                                         *)
(* An IRI is a namespace and a local name; no two classes share a name.    *)
(* What a proposal, a group or a verdict says is any choice.               *)
(***************************************************************************)
EXTENDS Naturals, FiniteSets, FiniteSetsExt, Functions

CONSTANTS
  Name,     \* names of classes and concepts
  Individual, \* names of individuals
  Merged,   \* merged ontologies: sets of [name, ns, parent (a name or "none")]
  Landform, \* Landform[n]: the keyword in a name, for the names with one
  GeoRoot,  \* the generic geographic root
  Within,   \* <<short, long>>: the words of short are some of those of long
  Stem,     \* those where long begins with short
  MaxNew,   \* bound: classes proposed
  MaxMoves  \* bound: decisions of the layers G and H

ASSUME EditAssumption ==
  /\ DOMAIN Landform \subseteq Name
  /\ \A n \in DOMAIN Landform : Landform[n] \in DOMAIN Landform /\ Landform[Landform[n]] = Landform[n]
  /\ GeoRoot \in Name \ DOMAIN Landform /\ Stem \subseteq Within /\ Within \subseteq Name \X Name
  /\ {MaxNew, MaxMoves} \subseteq Nat

Namespace == {"base", "geo", "upper", "bucket"}
Iri == Namespace \X (Name \cup Individual)
OwlThing == <<"owl", "Thing">>
NoParent == <<"owl", "none">>

\* A merged ontology refers to no superclass it does not hold.
ASSUME MergedAssumption ==
  /\ IsFiniteSet(Name) /\ "none" \notin Name
  /\ \A m \in Merged : \A r \in m :
       r.name \in Name /\ r.ns \in Namespace /\ r.parent \in {q.name : q \in m} \cup {"none"}

VARIABLES
  classes, \* classes_dict: name -> [ns, parent, fresh]
  insts,   \* instances_dict: <<iri, iri of the type>>
  props,   \* object properties: the set of the classes at their ends
  layer,    \* the layer of Stage 4 that is next
  pending, \* proposals not placed yet: <<label, parent label>>
  moves,   \* decisions of G and H taken
  marked   \* in G the concepts it minted, in H the classes still to review

editVars == <<classes, insts, props, layer, pending, moves, marked>>

IriOf(n) == <<classes[n].ns, n>>
Here(i)  == i[2] \in DOMAIN classes /\ IriOf(i[2]) = i
Root(n)  == classes[n].parent \in {OwlThing, NoParent}

EditTypeOK ==
  /\ DOMAIN classes \subseteq Name
  /\ \A n \in DOMAIN classes : classes[n].ns \in Namespace /\ classes[n].parent \in Iri \cup {OwlThing, NoParent}
  /\ insts \subseteq Iri \X (Iri \cup {OwlThing}) /\ props \subseteq SUBSET Iri
  /\ moves \in 0..MaxMoves

\* A merged ontology with one relation, an instance of its domain, and what the LLM has
\* found in the corpus: proposals for classes it does not have.
EditInit ==
  /\ \E m \in Merged :
       LET rec(n) == CHOOSE r \in m : r.name = n
           iri(n) == IF n = "none" THEN NoParent ELSE <<rec(n).ns, n>>
           ns == {r.name : r \in m}
       IN /\ classes = [n \in ns |-> [ns |-> rec(n).ns, parent |-> iri(rec(n).parent), fresh |-> FALSE]]
          /\ \E d, r \in ns, i \in Individual :
               props = {{iri(d), iri(r)}} /\ insts = {<<<<"base", i>>, iri(d)>>}
  /\ layer = "prune"
  /\ \E k \in 0..MaxNew : \E labels \in kSubset(k, Name) : \E p \in [labels -> Name \cup {"none"}] :
       pending = {<<n, p[n]>> : n \in labels}
  /\ moves = 0 /\ marked = {}

-----------------------------------------------------------------------------
(* Prune.                                                                  *)

Parents(s)  == {classes[n].parent[2] : n \in s} \cap DOMAIN classes
Children(s) == {n \in DOMAIN classes : classes[n].parent[2] \in s}

\* collect_full_class_hierarchy: up and down apart, so no siblings.
Hierarchy(seeds) ==
  LET N == Cardinality(DOMAIN classes)
      up[k \in 0..N]   == IF k = 0 THEN seeds ELSE up[k-1] \cup Parents(up[k-1])
      down[k \in 0..N] == IF k = 0 THEN seeds ELSE down[k-1] \cup Children(down[k-1])
  IN up[N] \cup down[N]

\* The other ends of the relations that touch what is kept, one step out.
Names(iris) == {i[2] : i \in iris}
Partners(keep) == keep \cup UNION {Names(p) : p \in {q \in props : Names(q) \cap keep # {}}}

PrunedClasses(keep) ==
  [n \in keep |-> IF classes[n].parent[2] \in keep THEN classes[n]
                  ELSE [classes[n] EXCEPT !.parent = NoParent]]
PrunedProps(keep) == {{i \in p : i[2] \in keep} : p \in props} \ {{}}
PrunedInsts(keep) == {i \in insts : i[2][2] \in keep}

\* prune ends here, prune-expand and build go on, expand prunes nothing: that is
\* also what a prune does with nothing detected and nothing protected.
Prune(detected, shielded) ==
  LET keep == IF detected \cup shielded = {} THEN DOMAIN classes
              ELSE Partners(Hierarchy(detected)) \cup shielded
  IN
  /\ layer = "prune"
  /\ classes' = PrunedClasses(keep)
  /\ props' = PrunedProps(keep)
  /\ insts' = PrunedInsts(keep)
  /\ layer' \in {"classes", "written"}
  /\ UNCHANGED <<pending, moves, marked>>

-----------------------------------------------------------------------------
(* Expand.                                                                 *)

\* _fuzzy_lookup_class: by label, else words within words under one parent.
Found(n, parent) ==
  IF n \in DOMAIN classes THEN {n}
  ELSE {c \in DOMAIN classes : {<<c, n>>, <<n, c>>} \cap Within # {} /\ classes[c].parent = parent}

\* A geography class is a parent of landforms, or a landform word itself.
SafeParent(n, parent) ==
  IF parent[1] # "geo" \/ n \in DOMAIN Landform \/ parent[2] \in Range(Landform)
  THEN parent ELSE OwlThing

\* Never minted into an upper ontology.
NamespaceOf(parent) == IF parent[1] \in {"owl", "upper"} THEN "base" ELSE parent[1]

\* The dict with a class under that parent, if it has none of the name.
With(dict, n, parent) ==
  IF n \in DOMAIN dict THEN dict
  ELSE [x \in DOMAIN dict \cup {n} |->
          IF x = n THEN [ns |-> NamespaceOf(parent), parent |-> parent, fresh |-> TRUE] ELSE dict[x]]

\* A proposal waits until its parent is there, proposed or not; when no other can
\* be placed, the rest go under owl:Thing.
AddClass(n, p) ==
  LET placed(q) == q[2] = "none" \/ q[2] \in DOMAIN classes
      parent == SafeParent(n, IF p \in DOMAIN classes THEN IriOf(p) ELSE OwlThing)
  IN
  /\ layer = "classes" /\ <<n, p>> \in pending
  /\ placed(<<n, p>>) \/ \A q \in pending : ~placed(q)
  /\ classes' = IF Found(n, parent) # {} THEN classes ELSE With(classes, n, parent)
  /\ pending' = pending \ {<<n, p>>}
  /\ UNCHANGED <<insts, props, layer, moves, marked>>

\* Individuals: typed by a class of the label or, without a parent to compare, by
\* one that contains it; minted into the namespace of the type.
AddInstance(n, t) ==
  /\ layer = "classes" /\ pending = {}
  /\ \E type \in IF Found(t, NoParent) = {} THEN {OwlThing} ELSE {IriOf(c) : c \in Found(t, NoParent)} :
       LET iri == <<NamespaceOf(type), n>> IN
       insts' = IF \E i \in insts : i[1] = iri THEN insts ELSE insts \cup {<<iri, type>>}
  /\ layer' = "relations"
  /\ UNCHANGED <<classes, props, pending, moves, marked>>

\* An end of a relation that names no class becomes one, beside the other end.
Automint(dict, n, other) ==
  LET parent == IF other \notin DOMAIN dict \/ dict[other].parent = NoParent
                THEN OwlThing ELSE dict[other].parent
  IN With(dict, n, SafeParent(n, parent))

Ends(n) == IF Found(n, NoParent) = {} THEN {n} ELSE Found(n, NoParent)

\* A predicate that is there takes the ends that resolve.
ReuseRelation(d, r) ==
  /\ layer = "relations"
  /\ \E p \in props, dc \in Ends(d), rc \in Ends(r) :
       props' = (props \ {p}) \cup {p \cup {IriOf(c) : c \in {dc, rc} \cap DOMAIN classes}}
  /\ layer' = "stems"
  /\ UNCHANGED <<classes, insts, pending, moves, marked>>

\* A new one: ends that do not resolve are minted; when the range is no name the
\* relation is skipped, its domain minted or not.
AddRelation(d, r) ==
  /\ layer = "relations"
  /\ \E dc \in Ends(d), rc \in Ends(r) \cup {"garbage"} :
       LET first == Automint(classes, dc, rc)
           both  == Automint(first, rc, dc)
       IN IF rc = "garbage"
          THEN classes' = first /\ UNCHANGED props
          ELSE /\ classes' = both
               /\ props' = props \cup {{<<both[c].ns, c>> : c \in {dc, rc}}}
  /\ layer' = "stems"
  /\ UNCHANGED <<insts, pending, moves, marked>>

\* Layer E: helium has_market helium_market.
StemRelations ==
  /\ layer = "stems"
  /\ props' = props \cup {{IriOf(p[1]), IriOf(p[2])} :
       p \in {q \in Stem : {q[1], q[2]} \subseteq DOMAIN classes /\ classes[q[1]].ns = classes[q[2]].ns}}
  /\ layer' = "geography"
  /\ UNCHANGED <<classes, insts, pending, moves, marked>>

\* Where F takes a class: to the class that is the keyword, else the generic root.
Target(n) ==
  IF Landform[n] \in DOMAIN classes THEN {IriOf(Landform[n])}
  ELSE IF GeoRoot \in DOMAIN classes THEN {IriOf(GeoRoot)} ELSE {}

ReHomed == {n \in DOMAIN classes \cap DOMAIN Landform :
              classes[n].ns # "geo" /\ Root(n) /\ Target(n) # {}}
NewNs(n) == (CHOOSE t \in Target(n) : TRUE)[1]

\* _rewrite_iri_references.
Rewritten(i) == IF Here(i) /\ i[2] \in ReHomed THEN <<NewNs(i[2]), i[2]>> ELSE i

Orphans(dict) == {n \in DOMAIN dict : dict[n].ns = "base" /\ dict[n].parent \in {OwlThing, NoParent}}

\* Mutant: F leaves the types of the instances as they are.
RewritesNoTypes ==
  /\ layer = "geography"
  /\ classes' = [n \in DOMAIN classes |->
       IF n \in ReHomed
       THEN [ns |-> NewNs(n), parent |-> CHOOSE t \in Target(n) : TRUE, fresh |-> classes[n].fresh]
       ELSE [classes[n] EXCEPT !.parent = Rewritten(@)]]
  /\ props' = {{Rewritten(i) : i \in p} : p \in props}
  /\ layer' = IF Orphans(classes') = {} THEN "review" ELSE "grouping"
  /\ UNCHANGED <<insts, pending, moves, marked>>

\* Layer F.  A class named by its own keyword becomes its own parent.
Geography ==
  /\ layer = "geography"
  /\ classes' = [n \in DOMAIN classes |->
       IF n \in ReHomed
       THEN [ns |-> NewNs(n), parent |-> CHOOSE t \in Target(n) : TRUE, fresh |-> classes[n].fresh]
       ELSE [classes[n] EXCEPT !.parent = Rewritten(@)]]
  /\ props' = {{Rewritten(i) : i \in p} : p \in props}
  /\ insts' = {<<i[1], Rewritten(i[2])>> : i \in insts}
  /\ layer' = IF Orphans(classes') = {} THEN "review" ELSE "grouping"
  /\ UNCHANGED <<pending, moves, marked>>

Decides == moves < MaxMoves /\ moves' = moves + 1

\* A batch of orphans is answered: a failed batch proposes nothing.
Proposes == layer = "grouping" /\ Decides

\* Layer G: a concept, under its root if that resolves.
MintConcept(k, root) ==
  /\ Proposes
  /\ k \notin DOMAIN classes
  /\ classes' = [With(classes, k, OwlThing) EXCEPT ![k].parent =
                   IF root \in DOMAIN classes THEN IriOf(root) ELSE OwlThing]
  /\ marked' = marked \cup {k}
  /\ UNCHANGED <<insts, props, layer, pending>>

\* The labels the LLM answers with may name any two classes.
Assign(c, k) ==
  /\ Proposes
  /\ {c, k} \subseteq DOMAIN classes /\ c # k
  /\ Root(c) /\ c \notin marked
  /\ classes' = [classes EXCEPT ![c].parent = IriOf(k)]
  /\ UNCHANGED <<insts, props, layer, pending, marked>>

StartReview ==
  /\ layer \in {"grouping", "review"}
  /\ layer' = "audit"
  /\ marked' = {n \in DOMAIN classes : classes[n].fresh}
  /\ UNCHANGED <<classes, insts, props, pending, moves>>

\* _find_or_synthesize_parent_iri: a bucket class if there is none of the label.
Anchored(p) ==
  IF p \in DOMAIN classes THEN classes
  ELSE [With(classes, p, OwlThing) EXCEPT ![p].ns = "bucket"]

\* A verdict, by label, on a class of the list, and each only once.
Reviewed(c) == layer = "audit" /\ Decides /\ c \in marked

\* Layer H.
ReHome(c, p) ==
  /\ Reviewed(c)
  /\ LET dict == Anchored(p) IN
     classes' = [dict EXCEPT ![c].parent = <<dict[p].ns, p>>]
  /\ marked' = marked \ {c}
  /\ UNCHANGED <<insts, props, layer, pending>>

\* The instance keeps the IRI "so that any existing relations pointing at this
\* entity still resolve".
Convert(c, p) ==
  /\ Reviewed(c)
  /\ LET dict == Anchored(p) IN
     /\ insts' = {i \in insts : i[1] # IriOf(c)} \cup {<<IriOf(c), <<dict[p].ns, p>>>>}
     /\ classes' = [n \in DOMAIN dict \ {c} |-> dict[n]]
  /\ marked' = marked \ {c}
  /\ UNCHANGED <<props, layer, pending>>

WriteOntology ==
  /\ layer = "audit"
  /\ layer' = "written"
  /\ UNCHANGED <<classes, insts, props, pending, moves, marked>>

EditNext ==
  \/ \E detected, shielded \in SUBSET DOMAIN classes : Prune(detected, shielded)
  \/ \E i \in Individual, n \in Name : AddInstance(i, n)
  \/ \E n, m \in Name : ReuseRelation(n, m) \/ AddRelation(n, m)
                        \/ MintConcept(n, m) \/ Assign(n, m) \/ ReHome(n, m) \/ Convert(n, m)
  \/ \E p \in pending : AddClass(p[1], p[2])
  \/ StemRelations \/ Geography \/ StartReview \/ WriteOntology

-----------------------------------------------------------------------------
\* Whatever the layers prune, mint, move, group and turn into instances, a
\* superclass, a type and the end of a relation is a class, an individual or
\* owl:Thing: no layer holds an IRI that an earlier one has changed.
RefsResolve ==
  LET known == {IriOf(n) : n \in DOMAIN classes} \cup {i[1] : i \in insts} \cup {OwlThing, NoParent} IN
  /\ {classes[n].parent : n \in DOMAIN classes} \subseteq known
  /\ {i[2] : i \in insts} \subseteq known
  /\ UNION props \subseteq known

=============================================================================
