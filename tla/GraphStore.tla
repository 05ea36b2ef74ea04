----------------------------- MODULE GraphStore -----------------------------
(***************************************************************************)
(* The rows of the graphrag schema that the document and artifact commands *)
(* share, and the transactions those commands run against them.  A row's   *)
(* content is abstracted to what the commands test: its status, the rows   *)
(* it refers to, and its version number.                                   *)
(*                                                                         *)
(* A document is identified by the hash of its text (_document_iri), so    *)
(* Doc is a set of texts.  All the chunks of one kind of a document are    *)
(* written by one transaction and only ever change together: one           *)
(* representative, <<document, kind>>, stands for them.                    *)
(***************************************************************************)
EXTENDS Naturals, FiniteSets

CONSTANTS
  Doc,        \* document texts (their sha256, hence their IRI)
  NoDoc,      \* the NULL of supersedes_document_id
  TableDocs,  \* the PDFs from which table extraction finds a table
  Art         \* intelligence_artifacts ids (uuid) that may come to exist

ASSUME StoreAssumption ==
  /\ NoDoc \notin Doc
  /\ TableDocs \subseteq Doc

VARIABLES
  docStatus,    \* documents.status, "none" when there is no row
  docVersion,   \* documents.version
  supersedes,   \* documents.supersedes_document_id
  chunkStatus,  \* chunks.status
  chunkLinked,  \* the chunks that have their viao:chunkOf edge
  tableStatus,  \* status of the StructuredTable artifact of a document
  tableLinked,  \* does it have its derivedFromDocument edge
  artStatus,    \* intelligence_artifacts.status of the generated artifacts
  artType,      \* intelligence_artifacts.artifact_type
  artSources,   \* artifact_sources: the chunks an artifact rests on
  version       \* graph_version_state

docVars   == <<docStatus, docVersion, supersedes>>
chunkVars == <<chunkStatus, chunkLinked>>
tableVars == <<tableStatus, tableLinked>>
artVars   == <<artStatus, artType, artSources>>
storeVars == <<docVars, chunkVars, tableVars, artVars, version>>

Kind      == {"summary", "fulltext"}
Chunk     == Doc \X Kind
DocState  == {"none", "ACTIVE", "DELETED"}
ArtState  == {"none", "ACTIVE", "STALE", "DELETED"}
ArtKind   == {"none", "Claim", "Summary", "Insight"}

StoreTypeOK ==
  /\ docStatus \in [Doc -> DocState]
  /\ docVersion \in [Doc -> Nat]
  /\ supersedes \in [Doc -> Doc \cup {NoDoc}]
  /\ chunkStatus \in [Chunk -> DocState]
  /\ chunkLinked \in SUBSET Chunk
  /\ tableStatus \in [Doc -> ArtState]
  /\ tableLinked \in [Doc -> BOOLEAN]
  /\ artStatus \in [Art -> ArtState]
  /\ artType \in [Art -> ArtKind]
  /\ artSources \in [Art -> SUBSET Chunk]
  /\ version \in Nat

StoreInit ==
  /\ docStatus = [d \in Doc |-> "none"]
  /\ docVersion = [d \in Doc |-> 0]
  /\ supersedes = [d \in Doc |-> NoDoc]
  /\ chunkStatus = [c \in Chunk |-> "none"]
  /\ chunkLinked = {}
  /\ tableStatus = [d \in Doc |-> "none"]
  /\ tableLinked = [d \in Doc |-> FALSE]
  /\ artStatus = [a \in Art |-> "none"]
  /\ artType = [a \in Art |-> "none"]
  /\ artSources = [a \in Art |-> {}]
  /\ version = 0

ChunksOf(d) == {d} \X Kind

DocsOf(cs) == {d \in Doc : cs \cap ChunksOf(d) # {}}

SweepsNothing(d) == {}  \* mutant: nothing is swept

DependsInPart(d) == {a \in Art : artSources[a] \cap ChunksOf(d) # {}}  \* mutant: any source

\* The artifacts that have at least one source in d and all of them in d.
Dependents(d) ==
  {a \in Art : artSources[a] # {} /\ artSources[a] \subseteq ChunksOf(d)}

Swept(d) ==
  [a \in Art |-> IF a \in Dependents(d) THEN "STALE" ELSE artStatus[a]]

-----------------------------------------------------------------------------
\* Mutant: the soft delete forgets the document row, only its chunks go.
SoftDeleteKeepsRow(d) ==
  /\ chunkStatus' = [c \in Chunk |-> IF c \in ChunksOf(d) /\ chunkStatus[c] # "none"
                                       THEN "DELETED" ELSE chunkStatus[c]]
  /\ version' = version + 1
  /\ UNCHANGED <<docVars, chunkLinked, tableVars, artVars>>

\* Mutant: it forgets the chunks.
SoftDeleteKeepsChunks(d) ==
  /\ docStatus' = [docStatus EXCEPT ![d] = "DELETED"]
  /\ artStatus' = Swept(d)
  /\ version' = version + 1
  /\ UNCHANGED <<docVersion, supersedes, chunkVars, tableVars, artType, artSources>>

\* Mutant: it gives the document the status that artifacts have.
SoftDeleteMarksStale(d) ==
  /\ docStatus' = [docStatus EXCEPT ![d] = "STALE"]
  /\ artStatus' = Swept(d)
  /\ version' = version + 1
  /\ UNCHANGED <<docVersion, supersedes, chunkVars, tableVars, artType, artSources>>

\* delete_document, soft: one transaction.
SoftDeleteRows(d) ==
  /\ docStatus' = [docStatus EXCEPT ![d] = "DELETED"]
  /\ chunkStatus' = [c \in Chunk |-> IF c \in ChunksOf(d) /\ chunkStatus[c] # "none"
                                       THEN "DELETED" ELSE chunkStatus[c]]
  /\ tableStatus' = [tableStatus EXCEPT ![d] = IF tableLinked[d] THEN "STALE" ELSE @]
  /\ artStatus' = Swept(d)
  /\ version' = version + 1
  /\ UNCHANGED <<docVersion, supersedes, chunkLinked, tableLinked, artType, artSources>>

AlwaysRemovable(d) == TRUE  \* mutant: no foreign key

\* supersedes_document_id is a foreign key with no ON DELETE clause: a row
\* that another row supersedes cannot be removed.
Removable(d) == \A e \in Doc : supersedes[e] # d

\* delete_document, hard: one transaction.  Chunks and artifact_sources go by
\* ON DELETE CASCADE, tables by the edges that lead to them.
HardDeleteRows(d) ==
  /\ docStatus' = [docStatus EXCEPT ![d] = "none"]
  /\ docVersion' = [docVersion EXCEPT ![d] = 0]
  /\ supersedes' = [supersedes EXCEPT ![d] = NoDoc]
  /\ chunkStatus' = [c \in Chunk |-> IF c \in ChunksOf(d) THEN "none" ELSE chunkStatus[c]]
  /\ chunkLinked' = chunkLinked \ ChunksOf(d)
  /\ tableStatus' = [tableStatus EXCEPT ![d] = IF tableLinked[d] THEN "none" ELSE @]
  /\ tableLinked' = [tableLinked EXCEPT ![d] = FALSE]
  /\ artStatus' = Swept(d)
  /\ artSources' = [a \in Art |-> artSources[a] \ ChunksOf(d)]
  /\ version' = version + 1
  /\ UNCHANGED artType

\* wipe_corpus: one transaction; graph_version_state is left alone.
WipeRows ==
  /\ docStatus' = [d \in Doc |-> "none"]
  /\ docVersion' = [d \in Doc |-> 0]
  /\ supersedes' = [d \in Doc |-> NoDoc]
  /\ chunkStatus' = [c \in Chunk |-> "none"]
  /\ chunkLinked' = {}
  /\ tableStatus' = [d \in Doc |-> "none"]
  /\ tableLinked' = [d \in Doc |-> FALSE]
  /\ artStatus' = [a \in Art |-> "none"]
  /\ artType' = [a \in Art |-> "none"]
  /\ artSources' = [a \in Art |-> {}]
  /\ UNCHANGED version

=============================================================================
