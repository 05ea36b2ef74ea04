----------------------------- MODULE Retrieval ------------------------------
(***************************************************************************)
(* retrieve_and_answer: from a question to the evidence its answer cites.  *)
(* Every step reads the store in a session of its own, with LLM calls in   *)
(* between, while documents are deleted.  What a language model or a       *)
(* distance decides is any outcome; what the SQL joins, filters and leaves *)
(* unfiltered is modelled as it is.                                        *)
(***************************************************************************)
EXTENDS Naturals, FiniteSets, FiniteSetsExt

CONSTANTS
  RDoc,     \* documents
  Entity,   \* entities of the graph
  Concept,  \* the concept entities, at which a walk ends
  Period,   \* time instances
  About,    \* About[d]: what the edges of d's summary chunk and claim lead to
  Arc,      \* entity -> entity edges there may be
  Extra,    \* the verbatim chunks and tables that some documents have
  Hops,     \* max_hops
  TopK,     \* top_k
  DocCap,   \* _resolve_doc_cap(max_chunks_per_document, top_k)
  MaxAsked  \* bound: questions asked

ASSUME RetrievalAssumption ==
  /\ Concept \subseteq Entity
  /\ About \in [RDoc -> SUBSET (Entity \cup Period)]
  /\ Arc \subseteq Entity \X Entity
  /\ Extra \subseteq RDoc \X {"fulltext", "table"}
  /\ {Hops, TopK, DocCap, MaxAsked} \subseteq Nat

Node      == RDoc \X {"summary", "fulltext", "claim", "table"}
ChunkNode == RDoc \X {"summary", "fulltext"}
ArtNode   == Node \ ChunkNode
Mode      == {"simple_qa", "deep_research", "artifact_only"}

VARIABLES
  stored,  \* rows of chunks and intelligence_artifacts
  live,    \* those with status ACTIVE (and an embedding)
  query,   \* the query under way
  asked    \* questions asked

retrievalVars == <<stored, live, query, asked>>

NoQuery ==
  [pc |-> "idle", mode |-> "simple_qa", rounds |-> 1, edges |-> {}, relation |-> {}, seeds |-> {},
   reached |-> {}, stage |-> "off", few |-> FALSE, chunks |-> {}, linked |-> {}, arts |-> {},
   born |-> {}, evidence |-> {}, first |-> {}]

RetrievalTypeOK ==
  /\ live \subseteq stored /\ stored \subseteq Node
  /\ query.relation \subseteq query.edges /\ query.edges \subseteq Arc
  /\ query.mode \in Mode /\ query.rounds \in 0..2
  /\ query.chunks \cup query.linked \subseteq ChunkNode /\ query.arts \subseteq ArtNode

RetrievalInit ==
  /\ stored = RDoc \X {"summary", "claim"} \cup Extra
  /\ live = stored
  /\ query = NoQuery
  /\ asked = 0

Docs(nodes)    == {n[1] : n \in nodes}
Of(kind, docs) == docs \X {kind}
Asking(pc)     == query.pc = pc

-----------------------------------------------------------------------------
(* The walk.                                                               *)

Ends(es) == UNION {{e[1], e[2]} : e \in es}
Touching(es, frontier) == {e \in es : {e[1], e[2]} \cap frontier # {}}

\* A concept is reached and scored, but no hop leaves it.
NewFrontier(found, reached) == found \ (reached \cup Concept)

\* _relationship_walk up to hop n: what is reached, the frontier, the edges
\* taken, which relationship_hop leaves out of the later hops.
Anchored(matching, seeds) ==
  LET walk[n \in 0..Hops] ==
        IF n = 0
        THEN [reached |-> seeds, frontier |-> seeds \ Concept, taken |-> {}]
        ELSE LET w == walk[n - 1]
                 hits == Touching(matching \ w.taken, w.frontier)
             IN  [reached  |-> w.reached \cup Ends(hits),
                  frontier |-> NewFrontier(Ends(hits), w.reached),
                  taken    |-> w.taken \cup hits]
  IN walk[Hops]

\* bfs_expand over entity edges.
BroadWalk(edges, seeds) ==
  LET ball[n \in 0..Hops] ==
        IF n = 0 THEN seeds
        ELSE ball[n - 1] \cup Ends(Touching(edges, ball[n - 1] \ Concept))
  IN ball[Hops]

\* The stages: anchored, unanchored over all edges, and the broad walk when no
\* edge matches; without relations in the question there is only the last.
Walk(edges, matching, seeds) ==
  LET a == Anchored(matching, seeds) IN
  IF a.taken # {} THEN [stage |-> "anchored", reached |-> a.reached]
  ELSE IF matching # {} THEN [stage |-> "unanchored", reached |-> seeds \cup Ends(matching)]
  ELSE [stage |-> "broad_walk", reached |-> BroadWalk(edges, seeds)]

-----------------------------------------------------------------------------
(* The candidate queries.                                                  *)

\* Edges of a row are gone only with the row: no status filter on chunks.
TopicChunks(topics)   == {n \in Of("summary", RDoc) \cap stored : About[n[1]] \cap topics # {}}
SeedChunks(seeds)     == {n \in TopicChunks(seeds) \cap live : Cardinality(About[n[1]] \cap seeds) >= 2}
TopicClaims(topics)   == {n \in Of("claim", RDoc) \cap live : About[n[1]] \cap topics # {}}

\* Mutant: the search over artifacts forgets the status.
EveryArtifact == stored \cap ArtNode

LiveArtifacts == live \cap ArtNode
LiveDocs      == Docs(live \cap ChunkNode)

\* Verbatim chunks if a document has them, else its others.
DocumentChunks(docs) ==
  {n \in live \cap (docs \X {"summary", "fulltext"}) :
     n[2] = "fulltext" \/ <<n[1], "fulltext">> \notin live}
ClaimChunks(arts) == {n \in Of("summary", RDoc) \cap live : <<n[1], "claim">> \in arts}
TablesFor(chunks) == Of("table", Docs(chunks \cap stored)) \cap live
VerbatimFor(chunks) == Of("fulltext", Docs(chunks \cap stored)) \cap live
AnyChunks ==
  LET verbatim == Of("fulltext", RDoc) \cap live IN
  IF verbatim # {} THEN verbatim ELSE live \cap ChunkNode

\* A vector search returns as many as it may, which of them is open.
Nearest(rows) == kSubset(Min({TopK, Cardinality(rows)}), rows)

Orphan(edges, e) == Touching(edges, {e}) = {}

-----------------------------------------------------------------------------
(* The steps.                                                              *)

\* Parsing, aliases, ontology match and the seeding cascade, whose tiers each
\* may find any entities.  The graph has some edges by now (extraction goes on),
\* and the relations of the question match some of them.
BeginRound(q) ==
  \E s \in SUBSET (Entity \cup Period), es \in SUBSET Arc : \E rel \in SUBSET es :
    query' = [q EXCEPT !.pc = "walk", !.seeds = s, !.edges = es, !.relation = rel, !.born = live]

\* The planner gives a question of the longer modes one round, or two: a first
\* one for the bridging question, in mode simple_qa.
Ask(mode, rounds) ==
  /\ Asking("idle") /\ asked < MaxAsked
  /\ rounds = 2 => mode # "simple_qa"
  /\ asked' = asked + 1
  /\ BeginRound([NoQuery EXCEPT !.mode = mode, !.rounds = rounds])
  /\ UNCHANGED <<stored, live>>

RoundMode == IF query.rounds = 2 THEN "simple_qa" ELSE query.mode

ExpandGraph ==
  /\ Asking("walk")
  /\ LET w == Walk(query.edges, query.relation, query.seeds \cap Entity) IN
     query' = [query EXCEPT !.pc = "candidates", !.stage = w.stage,
                            !.reached = w.reached \cup (query.seeds \cap Entity)]
  /\ UNCHANGED <<stored, live, asked>>

FetchCandidates ==
  /\ Asking("candidates")
  /\ LET topics == query.reached \cup (query.seeds \cap Period)
         linked == TopicChunks(topics)
         global == IF RoundMode = "artifact_only" THEN {{}} ELSE Nearest(LiveArtifacts)
     IN \E g \in global :
          query' = [query EXCEPT !.pc = "documents",
                      !.linked = linked,
                      !.stage = "off",
                      !.few = \/ Cardinality(linked) < TopK
                              \/ \E e \in query.seeds \cap Entity : Orphan(query.edges, e),
                      !.seeds = {}, !.reached = {}, !.edges = {}, !.relation = {},
                      !.chunks = linked \cup SeedChunks(query.seeds),
                      !.arts = TopicClaims(topics) \cup g]
  /\ UNCHANGED <<stored, live, asked>>

\* document_arm: conditional (or off).  A seed off the graph, or too few chunks
\* from it.
DocumentArm ==
  /\ Asking("documents")
  /\ IF query.few
     THEN \E ds \in {{}} \cup Nearest(LiveDocs) :
            query' = [query EXCEPT !.pc = "bridge", !.few = FALSE,
                                      !.chunks = @ \cup DocumentChunks(ds)]
     ELSE query' = [query EXCEPT !.pc = "bridge"]
  /\ UNCHANGED <<stored, live, asked>>

\* Artifacts bring the chunks they were made from, chunks the tables of their
\* documents.
BridgeArtifacts ==
  /\ Asking("bridge")
  /\ LET chunks == query.chunks \cup ClaimChunks(query.arts) IN
     query' = [query EXCEPT !.pc = "fulltext", !.chunks = chunks,
                            !.arts = @ \cup TablesFor(chunks)]
  /\ UNCHANGED <<stored, live, asked>>

\* artifact_only: more artifacts, and the chunk arm is off.  Else verbatim
\* chunks join; a question without candidates falls back to all chunks.
FullTextBridge ==
  /\ Asking("fulltext")
  /\ IF RoundMode = "artifact_only"
     THEN \E g \in Nearest(LiveArtifacts) :
            query' = [query EXCEPT !.pc = "pack", !.arts = @ \cup g, !.chunks = {}]
     ELSE query' = [query EXCEPT !.pc = "pack",
            !.chunks = IF @ = {} /\ query.arts = {} THEN AnyChunks ELSE @ \cup VerbatimFor(@)]
  /\ UNCHANGED <<stored, live, asked>>

\* What fusion, the cap per document and top_k may leave of the candidates.
Selections(cands, k, cap) ==
  {s \in SUBSET cands :
     /\ Cardinality(s) <= k
     /\ \A d \in RDoc : Cardinality({n \in s : n[1] = d}) <= cap}

\* Rerank, fusion and the packing of the rows still there, whatever their status.
PackEvidence ==
  /\ Asking("pack")
  /\ LET mode == RoundMode
         cs == IF mode = "artifact_only" THEN {{}}
               ELSE Selections(query.chunks \cap stored, TopK, DocCap)
         k  == IF mode = "artifact_only" THEN TopK ELSE TopK \div 2
     IN \E c \in cs, a \in Selections(query.arts \cap stored, k, k) :
          query' = [query EXCEPT !.pc = "answer", !.evidence = c \cup a,
                                 !.chunks = {}, !.arts = {}]
  /\ UNCHANGED <<stored, live, asked>>

\* The merge of two rounds: artifact_only takes the artifacts of the first.
Folded(mode, first) == IF mode = "artifact_only" THEN first \cap ArtNode ELSE first

\* The answer is written, its citations are validated and the run persisted; a
\* first round leads to the second.
Answer ==
  /\ Asking("answer")
  /\ IF query.rounds = 2
     THEN BeginRound([query EXCEPT !.rounds = 0, !.first = query.evidence,
                        !.evidence = {}, !.linked = {}])
     ELSE query' = [query EXCEPT !.pc = "returned",
                      !.linked = {}, !.born = {}, !.first = {},
                      !.evidence = @ \cup Folded(query.mode, query.first)]
  /\ UNCHANGED <<stored, live, asked>>

Return ==
  /\ Asking("returned")
  /\ query' = NoQuery
  /\ UNCHANGED <<stored, live, asked>>

\* A budget, the guard or the database raises: nothing is returned.
AbandonQuery ==
  /\ query.pc \notin {"idle", "returned"}
  /\ query' = NoQuery
  /\ UNCHANGED <<stored, live, asked>>

\* delete-document: soft marks the rows, hard removes chunks and tables and
\* leaves the claim, STALE.
DeleteDocument(d, hard) ==
  /\ d \in Docs(live)
  /\ live' = {n \in live : n[1] # d}
  /\ stored' = IF hard THEN {n \in stored : n[1] # d \/ n[2] = "claim"} ELSE stored
  /\ UNCHANGED <<query, asked>>

RetrievalNext ==
  \/ \E mode \in Mode, rounds \in 1..2 : Ask(mode, rounds)
  \/ ExpandGraph \/ FetchCandidates \/ DocumentArm \/ BridgeArtifacts
  \/ FullTextBridge \/ PackEvidence \/ Answer \/ Return \/ AbandonQuery
  \/ \E d \in RDoc, hard \in BOOLEAN : DeleteDocument(d, hard)

-----------------------------------------------------------------------------
\* A question answered after a document was deleted is answered without its
\* artifacts ("retrieval excludes them either way"), and its chunks are evidence
\* only by their own edges to what the walk reached, which a delete leaves and
\* which no query filters by status.
EvidenceWasLive ==
  Asking("answer") =>
    \A n \in query.evidence \ query.born :
      n \in query.linked

\* a is joined to b by at most Hops edges of es, none of which leaves a concept.
Connected(es, a, b) ==
  \E n \in 0..Hops : \E path \in [0..n -> Entity] :
    /\ path[0] = a /\ path[n] = b
    /\ \A i \in 0..(n - 1) :
         path[i] \notin Concept /\ {<<path[i], path[i+1]>>, <<path[i+1], path[i]>>} \cap es # {}

\* The walk reaches what chains of matching edges join to a seed, no more (it
\* does not pass through a concept) and no less (edges left out of a later hop
\* lose nothing); the broad walk does so for all edges.
WalkIsReach ==
  Asking("candidates") /\ query.stage \in {"anchored", "broad_walk"} =>
    LET es == IF query.stage = "anchored" THEN query.relation ELSE query.edges IN
    query.reached = {b \in Entity : \E a \in query.seeds \cap Entity : Connected(es, a, b)}

\* The walk finds what is in reach, and the answer cites what was live.
RetrievalInv == EvidenceWasLive /\ WalkIsReach

=============================================================================
