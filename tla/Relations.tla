------------------------------ MODULE Relations ------------------------------
(***************************************************************************)
(* The relationships extract_entities finds between the entities of a      *)
(* chunk: claims of an LLM pass a type gate, a gap pass, an orphan check,  *)
(* a rescue of what the gate refused and a verifier; the claims of all     *)
(* chunks of one batch are reconciled and written as edges.  Each batch of *)
(* extract_entities_streamed is such a run of its own.  Chunks share       *)
(* nothing before the write, so they are taken one after the other.        *)
(***************************************************************************)
EXTENDS Naturals, FiniteSets

CONSTANTS
  NRelChunks, \* chunks, in the order their results have
  Linked,     \* entities, under the names left by _apply_merged_names
  RelPred,    \* predicates of the ontology
  Shape,      \* [RelPred -> [dom, rng]], the classes on an IS-A line with the declared ones
  ClassIn,    \* for each chunk, the class it gives each entity it holds
  MaxPerPass  \* bound: claims in one reply

ASSUME RelationsAssumption ==
  /\ NRelChunks \in Nat /\ IsFiniteSet(Linked) /\ IsFiniteSet(RelPred)

VARIABLES
  chunkAt, relStep,  \* the chunk being read, and the step it is at
  claims,     \* of that chunk
  rejects,    \* pairs whose claim the type gate refused
  checked,    \* verified claims of the batch, with their chunk
  edges       \* entity -> entity rows of graph_relationships

relationVars == <<chunkAt, relStep, claims, rejects, checked, edges>>

RelatedTo == "relatedTo"
Triple == [s : Linked, p : RelPred \cup {RelatedTo}, o : Linked]
Claim == {[t |-> t, relaxed |-> b] : t \in Triple, b \in BOOLEAN}

RelationsInit ==
  chunkAt = 0 /\ relStep = "between" /\ claims = {} /\ rejects = {} /\ checked = {} /\ edges = {}

-----------------------------------------------------------------------------
Held == DOMAIN ClassIn[chunkAt]
ClassesHeld == {ClassIn[chunkAt][e] : e \in Held}

\* Both ends match some class of the chunk; relatedTo is always offered.
Menu == {p \in RelPred : Shape[p].dom \cap ClassesHeld # {} /\ Shape[p].rng \cap ClassesHeld # {}}
          \cup {RelatedTo}
WideMenu == {p \in RelPred : (Shape[p].dom \cup Shape[p].rng) \cap ClassesHeld # {}}

\* _types_fit
Fits(c, t) ==
  \/ t.p = RelatedTo
  \/ ClassIn[c][t.s] \in Shape[t.p].dom /\ ClassIn[c][t.o] \in Shape[t.p].rng

RelationsTypeOK ==
  /\ chunkAt \in 0..NRelChunks
  /\ relStep \in {"between", "pass1", "gap", "orphan", "rescue", "verify"}
  /\ claims \subseteq Claim /\ rejects \subseteq Linked \X Linked
  /\ \A c \in checked : c.chunk \in 1..chunkAt /\ c.claim \in Claim
  \* A row has a predicate and ends, and is one per triple.
  /\ \A e \in edges : /\ e.t \in Triple /\ e.t.s # e.t.o /\ e.chunks # {}
                      /\ \A f \in edges : f.t = e.t => f = e
  \* Not "relaxed", it fits the declared types in a chunk that supports it, whoever
  \* turned it round.
  /\ \A e \in edges : e.relaxed \/ \E c \in e.chunks : Fits(c, e.t)

Flip(t) == [t EXCEPT !.s = t.o, !.o = t.s]

\* What a reply may claim: ends that resolve, in a quote that names both, no loop.
Said(menu) == {t \in Triple : {t.s, t.o} \subseteq Held /\ t.s # t.o /\ t.p \in menu}
Reply(menu) == {r \in SUBSET Said(menu) : Cardinality(r) <= MaxPerPass}

\* Next chunk; with fewer than two entities there is nothing to ask.
StartChunk ==
  /\ relStep = "between" /\ chunkAt < NRelChunks
  /\ chunkAt' = chunkAt + 1
  /\ relStep' = IF Cardinality(DOMAIN ClassIn[chunkAt + 1]) < 2 THEN "between" ELSE "pass1"
  /\ UNCHANGED <<claims, rejects, checked, edges>>

\* _gate: a claim that fits only the other way round is turned.
Gated(said) ==
  {t \in said : Fits(chunkAt, t)} \cup {Flip(t) : t \in {u \in said : ~Fits(chunkAt, u) /\ Fits(chunkAt, Flip(u))}}
Refused(said) == {<<t.s, t.o>> : t \in {u \in said : ~Fits(chunkAt, u) /\ ~Fits(chunkAt, Flip(u))}}

\* _add: an earlier claim, or its mirror, is a duplicate.  Of two mirrored claims
\* in one reply the first stays: one of the two is picked here.
Added(new) ==
  {kept \in SUBSET new :
     /\ \A t \in kept : \A c \in claims : c.t \notin {t, Flip(t)}
     /\ \A t \in kept : Flip(t) \notin kept
     /\ \A t \in new : {t, Flip(t)} \cap (kept \cup {c.t : c \in claims}) # {}}

Take(said, next) ==
  /\ \E kept \in Added(Gated(said)) :
       claims' = claims \cup {[t |-> t, relaxed |-> FALSE] : t \in kept}
  /\ rejects' = rejects \cup Refused(said)
  /\ relStep' = next
  /\ UNCHANGED <<chunkAt, checked, edges>>

Pass1(said) == relStep = "pass1" /\ Take(said, "gap")

\* The first call fails: nothing else is asked of this chunk.
Pass1Fails ==
  /\ relStep = "pass1" /\ relStep' = "between"
  /\ UNCHANGED <<chunkAt, claims, rejects, checked, edges>>

\* A pass that is off or fails finds nothing.
GapPass(said) == relStep = "gap" /\ Take(said, "orphan")

Unlinked == Held \ UNION {{c.t.s, c.t.o} : c \in claims}

OrphanCheck(said) ==
  relStep = "orphan" /\ (Unlinked = {} => said = {}) /\ Take(said, "rescue")

\* _rescue_relationships: any predicate of the wide menu for what was refused,
\* though nothing keeps the reply to those pairs.  Not checked for duplicates.
Rescue(said) ==
  /\ relStep = "rescue" /\ (rejects = {} => said = {})
  /\ claims' = claims \cup {[t |-> t, relaxed |-> TRUE] : t \in said}
  /\ relStep' = "verify"
  /\ UNCHANGED <<chunkAt, rejects, checked, edges>>

\* Mutant: the swapped claim is not checked against the types.
SwapAlways(c, verdict) ==
  CASE verdict = "supported" -> {c}
    [] verdict = "reversed" /\ c.t.p # RelatedTo /\ c.t.p \in Menu -> {[c EXCEPT !.t = Flip(c.t)]}
    [] OTHER -> {}

\* A verdict on one claim: kept, turned if that fits a predicate of the menu, or dropped.
Judged(c, verdict) ==
  CASE verdict = "supported" -> {c}
    [] verdict = "reversed" /\ c.t.p # RelatedTo /\ c.t.p \in Menu /\ Fits(chunkAt, Flip(c.t)) ->
         {[c EXCEPT !.t = Flip(c.t)]}
    [] OTHER -> {}

\* A missing verdict is "unsupported"; a verifier that fails, or is off, keeps all.
Verify(verdict) ==
  /\ relStep = "verify"
  /\ checked' = checked \cup {[chunk |-> chunkAt, claim |-> c] :
                                c \in UNION {Judged(c, verdict[c]) : c \in claims}}
  /\ claims' = {} /\ rejects' = {} /\ relStep' = "between"
  /\ UNCHANGED <<chunkAt, edges>>

-----------------------------------------------------------------------------
Triples(found) == {c.claim.t : c \in found}
Support(t, found) == Cardinality({c \in found : c.claim.t = t})

\* Mutant: a tie is left standing.
OutweighedOnly(found) ==
  {t \in Triples(found) : /\ t.p # RelatedTo /\ Flip(t) \in Triples(found)
                          /\ Support(Flip(t), found) > Support(t, found)}

\* The opposite direction with at least as much support kills a claim, a tie both.
Contradicted(found) ==
  {t \in Triples(found) : /\ t.p # RelatedTo /\ Flip(t) \in Triples(found)
                          /\ Support(Flip(t), found) >= Support(t, found)}

\* _build_relationship_payloads: relatedTo gives way to a predicate that stays.
Payloads(found) ==
  LET stay == Triples(found) \ Contradicted(found)
      specific == {{t.s, t.o} : t \in {u \in stay : u.p # RelatedTo}}
  IN {t \in stay : t.p = RelatedTo => {t.s, t.o} \notin specific}

\* The first claim of a triple decides whether it is marked "relaxed".
Row(t, found) ==
  LET of == {c \in found : c.claim.t = t}
      first == {c \in of : \A d \in of : c.chunk <= d.chunk}
  IN [t |-> t, chunks |-> {c.chunk : c \in of}, relaxed |-> \A c \in first : c.claim.relaxed]

\* End of the batch: rows of the same triple get the new chunks, the others are
\* inserted.
WriteRelations ==
  LET new == {Row(t, checked) : t \in Payloads(checked)} IN
  /\ relStep = "between" /\ checked # {}
  /\ edges' = {[e EXCEPT !.chunks = @ \cup UNION {r.chunks : r \in {q \in new : q.t = e.t}}] : e \in edges}
                \cup {r \in new : \A e \in edges : e.t # r.t}
  /\ checked' = {}
  /\ UNCHANGED <<chunkAt, relStep, claims, rejects>>

Verdict == {"supported", "reversed", "unsupported"}

RelationsNext ==
  \/ StartChunk \/ Pass1Fails \/ WriteRelations
  \/ relStep = "pass1" /\ \E said \in Reply(Menu) : Pass1(said)
  \/ relStep = "gap" /\ \E said \in Reply(Menu) : GapPass(said)
  \/ relStep = "orphan" /\ \E said \in Reply(Menu) : OrphanCheck(said)
  \/ relStep = "rescue" /\ \E said \in Reply(WideMenu) : Rescue(said)
  \/ relStep = "verify" /\ \E verdict \in [claims -> Verdict] : Verify(verdict)

-----------------------------------------------------------------------------
\* What one batch writes contradicts itself nowhere, has no relatedTo beside a
\* specific edge of its own, and leaves out no verified claim without such a reason:
\* its mirror was claimed too, or a specific edge that is written links the pair.
ReconciledBatch ==
  [][checked # {} /\ checked' = {} =>
       LET rows == {e.t : e \in edges'} \ {e.t : e \in edges} IN
       /\ \A t \in rows : t.p # RelatedTo => Flip(t) \notin rows
       /\ \A t \in Triples(checked) \ {e.t : e \in edges'} :
            \/ t.p # RelatedTo /\ Flip(t) \in Triples(checked)
            \/ t.p = RelatedTo /\ \E e \in edges' : e.t.p # RelatedTo /\ {e.t.s, e.t.o} = {t.s, t.o}]_relationVars

=============================================================================
