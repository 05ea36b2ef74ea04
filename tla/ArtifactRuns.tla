----------------------------- MODULE ArtifactRuns -----------------------------
(***************************************************************************)
(* generate-artifacts as one command: the batches in which it works        *)
(* through the chunks, stepping past those that give nothing by an offset  *)
(* worked out from counts, and the Insights of each ontology class; and    *)
(* relink-artifact-entities.  One such command runs at a time, while       *)
(* documents come and go and entities are extracted.                       *)
(*                                                                         *)
(* A chunk's artifacts are one claim, known by its chunk.  Rows inserted   *)
(* by a command that dies before it ties them to their chunks are seen by  *)
(* none of the queries here, so the two transactions are one step.         *)
(***************************************************************************)
EXTENDS Integers, FiniteSets

CONSTANTS
  NArtChunks,   \* chunks in the order of created_at, id
  NAtStart,     \* bound: those there before the first command
  ArtBatches,   \* --batch-size: 0 is one call for everything
  ArtLimits,    \* --limit, a large number for none
  AClass,       \* ontology classes
  AClassOf,     \* AClassOf[e]: the class of entity e
  ChunkNames,   \* ChunkNames[c]: the entities of chunk c, which its claim names
  MinClaims,    \* min_claims_per_class
  MaxGens,      \* bound: commands begun
  MaxShifts     \* bound: changes of the corpus and of its entities

ASSUME ArtifactRunsAssumption ==
  /\ NArtChunks \in Nat /\ NAtStart \in 0..NArtChunks
  /\ ArtBatches \subseteq Nat /\ ArtLimits \subseteq Nat

AChunk  == 1..NArtChunks
AEntity == DOMAIN AClassOf

VARIABLES
  active,    \* chunks with status ACTIVE
  arrived,   \* the chunks ingested so far are 1..arrived
  mined,     \* chunks whose entities have been extracted
  claims,    \* chunks an artifact of the requested types rests on
  liveClaims,\* those whose claim is ACTIVE
  claimAbout, \* claimAbout[c]: the entities the claim of c has assertsAbout edges to
  classInsights, \* [class, basis, about, gen] of each Insight
  gen,       \* what the command under way holds
  gens,      \* commands begun
  attempts,  \* history: calls for each chunk since the command began, until its Insights
  shifts     \* changes of the corpus: all (bounded), and added and removed under this command

artRunVars == <<active, arrived, mined, claims, liveClaims, claimAbout, classInsights, gen, gens, attempts, shifts>>

NoGen ==
  [at |-> "idle", then |-> "idle", size |-> 0, limit |-> 0, left |-> 0, offset |-> 0, before |-> 0,
   attempted |-> 0, batch |-> {}, known |-> {}, made |-> {}, over |-> FALSE, had |-> {},
   through |-> FALSE, todo |-> {}, found |-> {}]

ArtRunTypeOK ==
  /\ active \subseteq 1..arrived /\ liveClaims \subseteq claims /\ mined \subseteq 1..arrived
  /\ \A c \in AChunk : claimAbout[c] \subseteq ChunkNames[c] /\ (claimAbout[c] # {} => c \in claims)
  /\ gen.offset \in Nat /\ \A i \in classInsights : i.basis \subseteq claims

ArtRunInit ==
  /\ arrived = NAtStart /\ active = 1..NAtStart /\ mined \in {{}, 1..NAtStart}
  /\ claims = {} /\ liveClaims = {} /\ claimAbout = [c \in AChunk |-> {}] /\ classInsights = {}
  /\ gen = NoGen /\ gens = 0 /\ attempts = [c \in AChunk |-> 0]
  /\ shifts = [added |-> 0, removed |-> 0, all |-> 0]

-----------------------------------------------------------------------------
(* Batches of chunks. *)

\* _unprocessed_chunk_filter, and the place of a chunk in the order of the selection.
Bare     == active \ claims
BarePlace(c) == Cardinality({d \in Bare : d <= c})

Least(a, b) == IF a < b THEN a ELSE b

\* The types asked for: any that are made per chunk, and Insight or not.
BeginGen ==
  /\ gen.at = "idle" /\ gens < MaxGens
  /\ gens' = gens + 1
  /\ \E size \in ArtBatches, limit \in ArtLimits, perChunk, insight \in BOOLEAN :
       /\ perChunk \/ insight
       /\ gen' = [NoGen EXCEPT !.at = IF ~perChunk THEN "clusters" ELSE IF size = 0 THEN "select" ELSE "count",
                               !.then = IF insight THEN "clusters" ELSE "idle", !.size = size,
                               !.limit = limit, !.left = limit, !.had = IF perChunk THEN Bare ELSE {}]
  /\ attempts' = [c \in AChunk |-> 0]
  /\ shifts' = [shifts EXCEPT !.added = 0, !.removed = 0]
  /\ UNCHANGED <<active, arrived, mined, claims, liveClaims, claimAbout, classInsights>>

\* The loop ends with nothing unprocessed past the offset, with the money or the
\* limit used up, and bumps the version.
StartBatch ==
  LET n == Cardinality(Bare) IN
  /\ gen.at = "count"
  /\ gen' = IF n <= gen.offset \/ gen.over \/ gen.left <= 0
            THEN [gen EXCEPT !.at = gen.then, !.through = n <= gen.offset]
            ELSE [gen EXCEPT !.at = "select", !.before = n]
  /\ UNCHANGED <<active, arrived, mined, claims, liveClaims, claimAbout, classInsights, gens, attempts, shifts>>

\* The chunks and the entities known of them are read; without any entity in the
\* database the command raises.
SelectBatch ==
  LET reach  == gen.offset + (IF gen.size = 0 THEN gen.left ELSE Least(gen.size, gen.left))
      picked == {c \in Bare : gen.offset < BarePlace(c) /\ BarePlace(c) <= reach}
  IN
  /\ gen.at = "select"
  /\ gen' = CASE picked = {} -> [gen EXCEPT !.at = gen.then]
              [] picked # {} /\ mined = {} -> NoGen
              [] OTHER -> [gen EXCEPT !.at = "call", !.batch = picked, !.known = picked \cap mined]
  /\ UNCHANGED <<active, arrived, mined, claims, liveClaims, claimAbout, classInsights, gens, attempts, shifts>>

\* Each chunk's call gives artifacts, an answer without any, or fails; an answer
\* that takes the cost over the cap leaves chunks uncalled.
CallChunks ==
  /\ gen.at = "call"
  /\ \E called \in SUBSET gen.batch : \E made \in SUBSET called, failed \in SUBSET called, over \in BOOLEAN :
       /\ made \cap failed = {}
       /\ over => called # failed
       /\ called = gen.batch \/ over
       /\ attempts' = [c \in AChunk |-> attempts[c] + (IF c \in called THEN 1 ELSE 0)]
       /\ gen' = [gen EXCEPT !.at = IF made = {} THEN "after" ELSE "tie", !.made = made, !.over = over,
                             !.attempted = Cardinality(called), !.left = @ - Cardinality(called)]
  /\ UNCHANGED <<active, arrived, mined, claims, liveClaims, claimAbout, classInsights, gens, shifts>>

\* Sources and edges, in one transaction: the entities are those read with the chunk.
TieClaims ==
  /\ gen.at = "tie"
  /\ claims' = claims \cup gen.made /\ liveClaims' = liveClaims \cup gen.made
  /\ claimAbout' = [c \in AChunk |-> claimAbout[c] \cup (IF c \in gen.made \cap gen.known THEN ChunkNames[c] ELSE {})]
  /\ gen' = [gen EXCEPT !.at = "after"]
  /\ UNCHANGED <<active, arrived, mined, classInsights, gens, attempts, shifts>>

\* Mutant: as in extract_entities_streamed, only a batch without any progress is
\* stepped past.
LeftIfStalled(attempted, gone) == IF gone <= 0 THEN attempted ELSE 0

\* The chunks of the batch that are still unprocessed.
LeftBehind(attempted, gone) ==
  LET n == attempted - (IF gone > 0 THEN gone ELSE 0) IN IF n > 0 THEN n ELSE 0

\* One call for everything does not go round.
StepPast ==
  /\ gen.at = "after"
  /\ gen' = [gen EXCEPT !.at = IF gen.size = 0 THEN gen.then ELSE "count",
                         !.batch = {}, !.made = {}, !.known = {}, !.attempted = 0, !.before = 0,
                         !.offset = IF gen.size = 0 THEN 0
                                    ELSE @ + LeftBehind(gen.attempted, gen.before - Cardinality(Bare))]
  /\ UNCHANGED <<active, arrived, mined, claims, liveClaims, claimAbout, classInsights, gens, attempts, shifts>>

-----------------------------------------------------------------------------
(* Insights: generate_insights. *)

EntitiesOf(k) == {e \in AEntity : AClassOf[e] = k}

\* Rows of the joins, one for each edge: a claim about two entities of a class is two.
ClaimRows(k) == {r \in liveClaims \X EntitiesOf(k) : r[2] \in claimAbout[r[1]]}

\* The classes some Insight asserts something about.
Blocked == {k \in AClass : \E i \in classInsights : i.about \cap EntitiesOf(k) # {}}

FindClusters ==
  LET open == {k \in AClass \ Blocked : Cardinality(ClaimRows(k)) >= MinClaims} IN
  /\ gen.at = "clusters"
  /\ \E todo \in SUBSET open :
       /\ Cardinality(todo) = Least(gen.limit, Cardinality(open))
       /\ gen' = IF todo = {} THEN NoGen ELSE [NoGen EXCEPT !.at = "synth", !.todo = todo]
  /\ attempts' = [c \in AChunk |-> 0]
  /\ UNCHANGED <<active, arrived, mined, claims, liveClaims, claimAbout, classInsights, gens, shifts>>

\* The claims of a class are read when its turn comes; fewer than two rows give
\* nothing, nor does a call that fails, has no insights or is over the cap.
Synthesise(k) ==
  LET rows == ClaimRows(k) IN
  /\ gen.at = "synth" /\ k \in gen.todo
  /\ \/ /\ Cardinality(rows) >= 2
        /\ gen' = [gen EXCEPT !.todo = @ \ {k},
                              !.found = @ \cup {[class |-> k, basis |-> {r[1] : r \in rows}]}]
     \/ gen' = [gen EXCEPT !.todo = @ \ {k}]
  /\ UNCHANGED <<active, arrived, mined, claims, liveClaims, claimAbout, classInsights, gens, attempts, shifts>>

\* Each Insight with its sources, insightBasedOn and derivedFromChunk edges: no
\* assertsAbout edge is among them.
WriteInsights ==
  /\ gen.at = "synth" /\ gen.todo = {}
  /\ classInsights' = classInsights \cup {[class |-> f.class, basis |-> f.basis, about |-> {}, gen |-> gens] : f \in gen.found}
  /\ gen' = NoGen
  /\ UNCHANGED <<active, arrived, mined, claims, liveClaims, claimAbout, gens, attempts, shifts>>

\* A kill, or a call of the embedder or the database that raises.
GenDies ==
  /\ gen.at # "idle" /\ gen' = NoGen /\ attempts' = [c \in AChunk |-> 0]
  /\ UNCHANGED <<active, arrived, mined, claims, liveClaims, claimAbout, classInsights, gens, shifts>>

-----------------------------------------------------------------------------
\* relink-artifact-entities: every artifact with a derivedFromChunk edge, Insights
\* among them, and what its text names of the chunk's entities.
Relink ==
  /\ gen.at = "idle"
  /\ claimAbout' = [c \in AChunk |-> IF c \in claims \cap mined THEN ChunkNames[c] ELSE claimAbout[c]]
  /\ \E named \in [classInsights -> SUBSET AEntity] :
       classInsights' = {[i EXCEPT !.about = @ \cup (named[i] \cap UNION {ChunkNames[c] : c \in i.basis \cap mined})] : i \in classInsights}
  /\ <<claimAbout', classInsights'>> # <<claimAbout, classInsights>>
  /\ UNCHANGED <<active, arrived, mined, claims, liveClaims, gen, gens, attempts, shifts>>

\* Meanwhile a document is ingested or deleted, its artifacts with it, or entities
\* are extracted.
Shift(kind) == shifts' = [shifts EXCEPT !.all = @ + 1, ![kind] = @ + 1]

Others ==
  /\ shifts.all < MaxShifts
  /\ \/ /\ arrived < NArtChunks /\ Shift("added")
        /\ arrived' = arrived + 1 /\ active' = active \cup {arrived + 1}
        /\ UNCHANGED <<mined, liveClaims>>
     \/ \E c \in active : /\ Shift("removed") /\ active' = active \ {c}
                          /\ liveClaims' = liveClaims \ {c} /\ UNCHANGED <<arrived, mined>>
     \/ /\ mined # 1..arrived /\ mined' = 1..arrived /\ shifts' = [shifts EXCEPT !.all = @ + 1]
        /\ UNCHANGED <<active, arrived, liveClaims>>
  /\ UNCHANGED <<claims, claimAbout, classInsights, gen, gens, attempts>>

ArtRunNext ==
  \/ BeginGen \/ StartBatch \/ SelectBatch \/ CallChunks \/ TieClaims \/ StepPast
  \/ FindClusters \/ (\E k \in AClass : Synthesise(k)) \/ WriteInsights \/ GenDies
  \/ Relink \/ Others

-----------------------------------------------------------------------------
(* Properties. *)

\* The offset names the same chunks from batch to batch however the corpus moves:
\* a chunk is called for again only for each that others took away, and a loop that
\* went through has missed no more than others added or took away.
BatchesInv ==
  /\ Cardinality({c \in AChunk : attempts[c] > 1}) <= shifts.removed
  /\ gen.through =>
       Cardinality({c \in gen.had \cap Bare : attempts[c] = 0}) <= shifts.added + shifts.removed

\* "Idempotent: skips classes that already have any Insight attached": a class gets
\* its Insights from one run.
InsightsOnce == \A i, j \in classInsights : i.class = j.class => i.gen = j.gen

=============================================================================
