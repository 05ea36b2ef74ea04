------------------------------ MODULE Enrichment ------------------------------
(***************************************************************************)
(* The passes that add edges to a built corpus and read before they write: *)
(* enrich-time (periods named by chunks, their calendar tree, the periods  *)
(* of artifacts), enrich-geo (containment between places, answered by a    *)
(* model) and generate-recommendations.  Each commits in several           *)
(* transactions and may stop between any two.                              *)
(*                                                                         *)
(* The calendar is cut short: a quarter is three months, a year four       *)
(* quarters; days, which have a parent and are never filled in, are left   *)
(* out.                                                                    *)
(***************************************************************************)
EXTENDS Integers, FiniteSets

CONSTANTS
  NDated,     \* chunks, numbered in the order of created_at
  Dates,      \* Dates[c]: the periods the text of chunk c names
  OwnDates,   \* OwnDates[c]: the periods that the text of c's artifact names
  LastMonth,  \* bound: months of the calendar
  Highest,    \* --highest-level, the rank of a level
  GeoPlace,      \* place entities
  GeoLevel,   \* GeoLevel[p]: level of p's class, or of its nearest ancestor with one; 0: none
  NInsights,  \* insights, numbered by confidence
  TopInsights,\* --top-insights
  MaxPasses   \* bound: passes started

\* _GEO_LEVEL ranks a city 1 and a continent 5.
ASSUME EnrichmentAssumption == GeoLevel \in [GeoPlace -> 0..5]

DatedChunk == 1..NDated
Insight == 1..NInsights

\* A period is its rank (2 month, 3 quarter, 4 year) and its number.
ParentOf(p) == IF p[1] = 2 THEN <<3, p[2] \div 3>> ELSE <<4, p[2] \div 4>>
HasParent(p) == p[1] < 4

VARIABLES
  onFile,       \* chunks ingested; the artifact of a chunk is numbered as the chunk
  artifacts,    \* artifacts generated
  minted,       \* time_instances
  parentTime,   \* parent_time_id, as pairs
  hasTime,      \* hasTime edges of chunks
  during,       \* intervalDuring edges
  artTime,      \* hasTime edges of artifacts
  located,      \* locatedInPlace edges of enrich-geo
  insights,     \* ACTIVE insights
  recs,         \* recommendations: [by, basis]
  pass,         \* what the running pass holds
  passes        \* passes started

enrichVars ==
  <<onFile, artifacts, minted, parentTime, hasTime, during, artTime, located, insights, recs, pass, passes>>

timeVars == <<minted, parentTime, hasTime, during, artTime>>

AtRest == [pc |-> "idle", read |-> {}, records |-> {}, pairs |-> {}]

EnrichTypeOK ==
  /\ onFile \subseteq DatedChunk /\ artifacts \subseteq onFile
  /\ {e[2] : e \in hasTime} \cup {e[1] : e \in during} \cup {e[2] : e \in during}
       \cup {e[2] : e \in artTime} \cup {e[1] : e \in parentTime} \subseteq minted
  /\ located \subseteq GeoPlace \X GeoPlace /\ insights \subseteq Insight
  /\ \A r \in recs : r.basis \subseteq Insight

EnrichInit ==
  /\ onFile = {} /\ artifacts = {} /\ insights = {} /\ recs = {} /\ located = {}
  /\ minted = {} /\ parentTime = {} /\ hasTime = {} /\ during = {} /\ artTime = {}
  /\ pass = AtRest /\ passes = 0

-----------------------------------------------------------------------------
\* The rest of the system: a chunk is ingested, an artifact or an insight is made.
Ingest ==
  /\ \E c \in DatedChunk \ onFile : (\A d \in DatedChunk : d < c => d \in onFile) /\ onFile' = onFile \cup {c}
  /\ UNCHANGED <<artifacts, insights, recs, located, timeVars, pass, passes>>

MakeArtifact ==
  /\ \E c \in onFile \ artifacts : artifacts' = artifacts \cup {c}
  /\ UNCHANGED <<onFile, insights, recs, located, timeVars, pass, passes>>

MakeInsight ==
  /\ \E i \in Insight \ insights : insights' = insights \cup {i}
  /\ UNCHANGED <<onFile, artifacts, recs, located, timeVars, pass, passes>>

Begins(held) == pass.pc = "idle" /\ passes < MaxPasses /\ passes' = passes + 1 /\ pass' = held

-----------------------------------------------------------------------------
\* Ranks above Highest are not walked to.
WithParents(S) == S \cup {ParentOf(p) : p \in {q \in S : HasParent(q) /\ q[1] < Highest}}
WithAncestors(S) == WithParents(WithParents(S))

\* Every month between the first and the last one.
WithGaps(S) ==
  LET months == {p[2] : p \in {q \in S : q[1] = 2}}
  IN S \cup {<<2, m>> : m \in {k \in 0..LastMonth : \E a, b \in months : a <= k /\ k <= b}}

\* all_records.
Records(S) == WithAncestors(WithGaps(WithAncestors(S)))

Undated == {c \in onFile : \A e \in hasTime : e[1] # c}

\* The chunks that have no time edge yet, the first --limit of them.
ScanDates(limit) ==
  LET read == {c \in Undated : Cardinality({d \in Undated : d < c}) < limit}
      named == UNION {Dates[c] : c \in read}
  IN /\ Begins([AtRest EXCEPT !.pc = IF named = {} THEN "propagate" ELSE "mint",
                              !.read = read, !.records = Records(named)])
     /\ UNCHANGED <<onFile, artifacts, insights, recs, located, timeVars>>

MintTimes ==
  /\ pass.pc = "mint"
  /\ minted' = minted \cup pass.records
  /\ pass' = [pass EXCEPT !.pc = "parents"]
  /\ UNCHANGED <<onFile, artifacts, insights, recs, located, parentTime, hasTime, during, artTime, passes>>

\* The parents among the records of this run.
ParentPairs == {<<p, ParentOf(p)>> : p \in {q \in pass.records : HasParent(q) /\ ParentOf(q) \in pass.records}}

LinkParents ==
  /\ pass.pc = "parents"
  /\ parentTime' = parentTime \cup ParentPairs
  /\ pass' = [pass EXCEPT !.pc = "edges"]
  /\ UNCHANGED <<onFile, artifacts, insights, recs, located, minted, hasTime, during, artTime, passes>>

\* One transaction, less the edges already there.
WriteTimeEdges ==
  /\ pass.pc = "edges"
  /\ hasTime' = hasTime \cup UNION {{c} \X Dates[c] : c \in pass.read}
  /\ during' = during \cup ParentPairs
  /\ pass' = [pass EXCEPT !.pc = "propagate"]
  /\ UNCHANGED <<onFile, artifacts, insights, recs, located, minted, parentTime, artTime, passes>>

\* propagate_time_to_artifacts: an artifact without a time edge whose chunk has
\* one gets the minted periods of its own text, else those of its chunk.
TimesFor(a) ==
  LET own == OwnDates[a] \cap minted
  IN IF own # {} THEN own ELSE {e[2] : e \in {f \in hasTime : f[1] = a}}

Propagated ==
  LET dated == {a \in artifacts : (\A e \in artTime : e[1] # a) /\ (\E e \in hasTime : e[1] = a)}
  IN artTime' = artTime \cup UNION {{a} \X TimesFor(a) : a \in dated}

Propagate ==
  /\ pass.pc = "propagate" /\ Propagated /\ pass' = AtRest
  /\ UNCHANGED <<onFile, artifacts, insights, recs, located, minted, parentTime, hasTime, during, passes>>

\* generate-artifacts ends with the same call.
PropagateAfterArtifacts ==
  /\ artifacts # {} /\ pass.pc = "idle" /\ Propagated
  /\ UNCHANGED <<onFile, artifacts, insights, recs, located, minted, parentTime, hasTime, during, pass, passes>>

-----------------------------------------------------------------------------
\* levels_are_plausible.  Mutant: an unknown level is let through at either end.
UnknownIsFine(child, parent) ==
  IF child > 0 /\ parent > 0 THEN parent > child ELSE parent >= 3 \/ parent = 0

Plausible(child, parent) ==
  IF child > 0 /\ parent > 0 THEN parent > child ELSE parent >= 3

BeginGeo ==
  /\ Cardinality(GeoPlace) >= 2
  /\ Begins([AtRest EXCEPT !.pc = "geo"])
  /\ UNCHANGED <<onFile, artifacts, insights, recs, located, timeVars>>

\* An item of a batch's answer, which may name any place the corpus has; what is
\* not plausible is dropped, and what is kept waits in memory for the end.
GeoAnswer ==
  /\ pass.pc = "geo"
  /\ \E child, parent \in GeoPlace :
       pass' = [pass EXCEPT !.pairs =
         IF child # parent /\ Plausible(GeoLevel[child], GeoLevel[parent])
         THEN @ \cup {<<child, parent>>} ELSE @]
  /\ UNCHANGED <<onFile, artifacts, insights, recs, located, timeVars, passes>>

EndGeo ==
  /\ pass.pc = "geo"
  /\ located' = located \cup pass.pairs
  /\ pass' = AtRest
  /\ UNCHANGED <<onFile, artifacts, insights, recs, timeVars, passes>>

-----------------------------------------------------------------------------
Supports(i) == \E r \in recs : i \in r.basis

\* The first insights no recommendation rests on; one alone is not enough.
BeginRecommend ==
  LET open == {i \in insights : ~Supports(i)}
      read == {i \in open : Cardinality({j \in open : j < i}) < TopInsights}
  IN /\ Cardinality(read) >= 2
     /\ Begins([AtRest EXCEPT !.pc = "recommend", !.read = read])
     /\ UNCHANGED <<onFile, artifacts, insights, recs, located, timeVars>>

\* The call fails, or has nothing to say, or the rows are inserted without edges.
InsertRecs(some) ==
  /\ pass.pc = "recommend"
  /\ recs' = IF some THEN recs \cup {[by |-> passes, basis |-> {}]} ELSE recs
  /\ pass' = IF some THEN [pass EXCEPT !.pc = "basis"] ELSE AtRest
  /\ UNCHANGED <<onFile, artifacts, insights, located, timeVars, passes>>

InsertBasis ==
  /\ pass.pc = "basis"
  /\ recs' = {IF r.by = passes THEN [r EXCEPT !.basis = pass.read] ELSE r : r \in recs}
  /\ pass' = AtRest
  /\ UNCHANGED <<onFile, artifacts, insights, located, timeVars, passes>>

\* The process ends; what it held is gone.
PassDies ==
  /\ pass.pc # "idle" /\ pass' = AtRest
  /\ UNCHANGED <<onFile, artifacts, insights, recs, located, timeVars, passes>>

EnrichNext ==
  \/ Ingest \/ MakeArtifact \/ MakeInsight \/ PassDies
  \/ \E limit \in 1..NDated : ScanDates(limit)
  \/ MintTimes \/ LinkParents \/ WriteTimeEdges \/ Propagate \/ PropagateAfterArtifacts
  \/ BeginGeo \/ GeoAnswer \/ EndGeo
  \/ BeginRecommend \/ InsertBasis
  \/ \E some \in BOOLEAN : InsertRecs(some)

-----------------------------------------------------------------------------
\* Whatever a chunk is dated with, the walk up the calendar finds every longer
\* period it lies in, in the edges and in parent_time_id alike, whichever run was
\* interrupted where; and a dated chunk is dated with all it names, which is what
\* lets a later run pass it over.
CalendarWhole ==
  /\ \A e \in hasTime :
       /\ \A p \in Dates[e[1]] : <<e[1], p>> \in hasTime
       /\ \A p \in WithAncestors({e[2]}) :
            HasParent(p) /\ p[1] < Highest => <<p, ParentOf(p)>> \in during \cap parentTime
  /\ during \subseteq parentTime

\* "No model judgement can be trusted to be transitive and acyclic; arithmetic can":
\* the places form no cycle, over all runs.
ContainmentAcyclic ==
  ~ \E S \in (SUBSET GeoPlace) \ {{}} : \A p \in S : \E q \in S : <<p, q>> \in located

\* What the passes leave in the graph: dated chunks in a whole calendar, and no place
\* inside itself.
EnrichmentInv == CalendarWhole /\ ContainmentAcyclic

=============================================================================
