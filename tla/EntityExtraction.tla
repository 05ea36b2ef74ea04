-------------------------- MODULE EntityExtraction --------------------------
(***************************************************************************)
(* extract_entities and extract_entities_streamed: batches of chunks are   *)
(* read by an LLM, names become entities, and edges lead from chunks to    *)
(* them.  The assertsAbout edges are the only record of what is done: a    *)
(* later run takes the chunks that have none.  Entities are committed      *)
(* before the edges, in another transaction.                               *)
(*                                                                         *)
(* All mentions are of one name.  What is open is whether a chunk has one  *)
(* and which class it is given, which decides the entity it becomes.       *)
(***************************************************************************)
EXTENDS Naturals, FiniteSets, FiniteSetsExt

CONSTANTS
  NChunks,    \* chunks, numbered as they are created
  OClass,     \* ontology classes a mention may get
  BatchSizes, \* what --batch-size may be
  MaxStreams, \* bound: runs, each a process of its own
  MaxEdits    \* bound: chunks added or deleted in between, and runs started beside another

ASSUME ExtractAssumption == {NChunks, MaxStreams, MaxEdits} \cup BatchSizes \subseteq Nat

Extractor == 1..MaxStreams
XChunk == 1..NChunks

\* An entity: the class in its identifier (of its first mention), and class_id.
XEntity == OClass \X OClass

VARIABLES
  rows,       \* state of each chunk: "none", "ACTIVE", "DELETED"
  entityRows, \* rows of entities
  typed,      \* rdf:type edges, <<entity, class>>
  mentions,   \* assertsAbout edges, <<chunk, entity, number of the run>>
  stream,     \* what each run holds
  attempted,  \* history: chunks each run under way has read
  disturbed,  \* history: runs during which another command changed the chunks
  cut,        \* history: entities whose run died before the edges
  streams,    \* runs started
  edits       \* what MaxEdits counts

extractVars == <<rows, entityRows, typed, mentions, stream, attempted, disturbed, cut, streams, edits>>

NoStream == [pc |-> "idle", size |-> 0, offset |-> 0, before |-> 0, scanned |-> 0,
             found |-> [c \in {} |-> {}], mints |-> {}, use |-> {}, types |-> {}]

ExtractTypeOK ==
  /\ rows \in [XChunk -> {"none", "ACTIVE", "DELETED"}]
  /\ entityRows \subseteq XEntity
  /\ typed \subseteq entityRows \X OClass
  /\ \A m \in mentions : m[1] \in XChunk /\ m[2] \in entityRows /\ m[3] \in 1..streams
  /\ \A x \in Extractor : stream[x].use \subseteq entityRows

ExtractInit ==
  /\ \E n \in 0..NChunks : rows = [c \in XChunk |-> IF c <= n THEN "ACTIVE" ELSE "none"]
  /\ entityRows = {} /\ typed = {} /\ mentions = {} /\ cut = {}
  /\ stream = [x \in Extractor |-> NoStream]
  /\ attempted = [x \in Extractor |-> {}]
  /\ disturbed = {}
  /\ streams = 0 /\ edits = 0

Running == {x \in Extractor : stream[x].pc # "idle"}
Covered == {m[1] : m \in mentions}

Unprocessed == {c \in XChunk : rows[c] = "ACTIVE"} \ Covered

\* ORDER BY created_at OFFSET n LIMIT k.
Place(c, s) == Cardinality({d \in s : d < c})
Slice(s, offset, limit) == {c \in s : offset <= Place(c, s) /\ Place(c, s) < offset + limit}

Becomes(x, record) == stream' = [stream EXCEPT ![x] = record]

-----------------------------------------------------------------------------
StartStream(x) ==
  /\ x = streams + 1
  /\ streams' = x
  /\ \E size \in BatchSizes :
       Becomes(x, [NoStream EXCEPT !.pc = "count", !.size = size])
  /\ \/ Running = {} /\ UNCHANGED <<disturbed, edits>>
     \/ /\ Running # {} /\ edits < MaxEdits
        /\ edits' = edits + 1
        /\ disturbed' = disturbed \cup {x} \cup Running
  /\ UNCHANGED <<rows, entityRows, typed, mentions, attempted, cut>>

\* The loop ends when only chunks that were passed over are left.
CountBefore(x) ==
  LET n == Cardinality(Unprocessed) IN
  /\ stream[x].pc = "count"
  /\ Becomes(x, IF n <= stream[x].offset THEN [NoStream EXCEPT !.pc = "tables"]
                ELSE [stream[x] EXCEPT !.pc = "read", !.before = n])
  /\ UNCHANGED <<rows, entityRows, typed, mentions, attempted, disturbed, cut, streams, edits>>

\* One batch: the LLM calls run side by side; a call may fail, and a chunk may
\* hold no entity.  If all calls failed the run raises (StopStream).
ReadBatch(x) ==
  LET batch == Slice(Unprocessed, stream[x].offset, stream[x].size) IN
  /\ stream[x].pc = "read"
  /\ \E named \in SUBSET batch : \E cls \in [named -> OClass], answered \in 0..Cardinality(batch) :
       /\ Cardinality(named) <= answered /\ (answered > 0 \/ batch = {})
       /\ Becomes(x, [stream[x] EXCEPT !.pc = IF batch = {} THEN "after" ELSE "resolve",
                        !.scanned = answered, !.found = cls])
  /\ attempted' = [attempted EXCEPT ![x] = @ \cup batch]
  /\ UNCHANGED <<rows, entityRows, typed, mentions, disturbed, cut, streams, edits>>

Votes(found, k) == Cardinality({c \in DOMAIN found : found[c] = k})

\* entity_identity = "name": the class most chunks gave the name.
Primaries(found) == {k \in OClass : Votes(found, k) > 0 /\ \A j \in OClass : Votes(found, j) <= Votes(found, k)}

\* A row with the name and the primary class is reused (the fuzzy lookup asks for
\* the class too), else one is minted, named after the class of the first chunk.
\* Only what is minted gets type edges, to every class it was given.
Resolve(x) ==
  LET f == stream[x].found
      first == f[CHOOSE c \in DOMAIN f : \A d \in DOMAIN f : c <= d]
  IN
  /\ stream[x].pc = "resolve"
  /\ IF DOMAIN f = {} THEN Becomes(x, [stream[x] EXCEPT !.pc = "edges"])
     ELSE \E k \in Primaries(f) :
       LET known == {e \in entityRows : e[2] = k} IN
       IF known # {}
       THEN \E e \in known : Becomes(x, [stream[x] EXCEPT !.pc = "edges", !.use = {e}])
       ELSE Becomes(x, [stream[x] EXCEPT !.pc = "insert", !.mints = {<<first, k>>},
                          !.types = {f[c] : c \in DOMAIN f}])
  /\ UNCHANGED <<rows, entityRows, typed, mentions, attempted, disturbed, cut, streams, edits>>

\* ON CONFLICT (entity_identifier) DO NOTHING, and the ids by identifier: a row of
\* that identifier is used whatever its class is.
InsertEntities(x) ==
  /\ stream[x].pc = "insert"
  /\ LET mint == CHOOSE e \in stream[x].mints : TRUE
         held == {e \in entityRows : e[1] = mint[1]}
     IN /\ entityRows' = IF held = {} THEN entityRows \cup {mint} ELSE entityRows
        /\ Becomes(x, [stream[x] EXCEPT !.pc = "edges", !.types = @ \cup {mint[2]},
                         !.use = IF held = {} THEN {mint} ELSE held])
  /\ UNCHANGED <<rows, typed, mentions, attempted, disturbed, cut, streams, edits>>

\* All edges of the batch, in one transaction; source_chunk_id is a foreign key,
\* so a chunk that is gone makes it raise (StopStream).
WriteEdges(x) ==
  LET s == stream[x] IN
  /\ s.pc = "edges"
  /\ \A c \in DOMAIN s.found : rows[c] # "none"
  /\ mentions' = mentions \cup ((DOMAIN s.found) \X s.use \X {x})
  /\ typed' = typed \cup (s.use \X s.types)
  /\ Becomes(x, [s EXCEPT !.pc = "after", !.use = {}, !.mints = {}, !.types = {},
                          !.found = [c \in {} |-> {}]])
  /\ UNCHANGED <<rows, entityRows, attempted, disturbed, cut, streams, edits>>

\* Mutant: the offset moves on after every batch.
AlwaysOffset(x) ==
  LET s == stream[x] IN
  /\ s.pc = "after"
  /\ Becomes(x, [NoStream EXCEPT !.pc = "count", !.size = s.size,
                   !.offset = s.offset + IF s.scanned > 0 THEN s.scanned ELSE s.size])
  /\ UNCHANGED <<rows, entityRows, typed, mentions, attempted, disturbed, cut, streams, edits>>

\* A batch without progress is passed over; else the same place is read again.
CountAfter(x) ==
  LET s == stream[x]
      skip == IF s.scanned > 0 THEN s.scanned ELSE s.size
  IN
  /\ s.pc = "after"
  /\ Becomes(x, [NoStream EXCEPT !.pc = "count", !.size = s.size,
                   !.offset = IF Cardinality(Unprocessed) >= s.before THEN s.offset + skip ELSE s.offset])
  /\ UNCHANGED <<rows, entityRows, typed, mentions, attempted, disturbed, cut, streams, edits>>

\* The table pass and the bump of graph_version.
FinishStream(x) ==
  /\ stream[x].pc = "tables"
  /\ Becomes(x, NoStream)
  /\ attempted' = [attempted EXCEPT ![x] = {}]
  /\ UNCHANGED <<rows, entityRows, typed, mentions, disturbed, cut, streams, edits>>

\* Killed, at the cost cap, or by an exception.
StopStream(x) ==
  LET s == stream[x] IN
  /\ s.pc \notin {"idle", "tables"}
  /\ cut' = IF s.pc = "edges" /\ s.mints # {} THEN cut \cup s.use ELSE cut
  /\ disturbed' = disturbed \cup {x}
  /\ Becomes(x, NoStream)
  /\ attempted' = [attempted EXCEPT ![x] = {}]
  /\ UNCHANGED <<rows, entityRows, typed, mentions, streams, edits>>

\* Documents are ingested, soft-deleted or hard-deleted meanwhile.
EditChunk(c) ==
  /\ edits < MaxEdits
  /\ edits' = edits + 1
  /\ \/ /\ rows[c] = "none" /\ \A d \in XChunk : d > c => rows[d] = "none"
        /\ rows' = [rows EXCEPT ![c] = "ACTIVE"]
        /\ UNCHANGED mentions
     \/ /\ rows[c] = "ACTIVE"
        /\ rows' = [rows EXCEPT ![c] = "DELETED"]
        /\ UNCHANGED mentions
     \/ /\ rows[c] = "ACTIVE"
        /\ rows' = [rows EXCEPT ![c] = "none"]
        /\ mentions' = {m \in mentions : m[1] # c}
  /\ disturbed' = disturbed \cup Running
  /\ UNCHANGED <<entityRows, typed, stream, attempted, cut, streams>>

ExtractNext ==
  \/ \E c \in XChunk : EditChunk(c)
  \/ \E x \in Extractor :
       \/ StartStream(x) \/ CountBefore(x) \/ ReadBatch(x) \/ Resolve(x) \/ InsertEntities(x)
       \/ WriteEdges(x) \/ CountAfter(x) \/ FinishStream(x) \/ StopStream(x)

-----------------------------------------------------------------------------
\* Batches resume where an earlier run stopped: unless two runs are under way at
\* once, no chunk is put to an entity twice, whatever was killed and repeated.
CoveredOnce ==
  \A m, n \in mentions : m[1] = n[1] /\ m # n => {m[3], n[3]} \subseteq disturbed /\ m[3] # n[3]

\* A run that gets to its end has read every chunk that needed it: the offset
\* passes over chunks that were read and gave nothing, and over no other, unless
\* chunks came or went while it ran.
StreamReachesAll ==
  \A x \in Extractor : stream[x].pc = "tables" /\ x \notin disturbed =>
    Unprocessed \subseteq attempted[x]

\* An entity that is mentioned has the type edge it was to get "once, on first
\* mint", unless the run that minted it died between the two transactions: run again,
\* the step finds the chunk without mentions but the entity already there.
TypedUnlessCut ==
  \A m \in mentions : m[2] \notin cut => \/ \E k \in OClass : <<m[2], k>> \in typed
                                         \/ \E x \in Running : stream[x].mints = {m[2]}

\* The loop over batches neither repeats nor skips a chunk, and leaves its entities typed.
StreamInv == CoveredOnce /\ StreamReachesAll /\ TypedUnlessCut

=============================================================================
