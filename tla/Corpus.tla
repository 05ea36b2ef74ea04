------------------------------- MODULE Corpus -------------------------------
(***************************************************************************)
(* The corpus as the commands of DocumentCommands and ArtifactCommands     *)
(* leave it, whatever their interleaving and wherever a process dies.      *)
(***************************************************************************)
EXTENDS ArtifactCommands

Init == StoreInit /\ JobInit

JobStep(p) == IngestStep(p) \/ UpdateStep(p) \/ ArtifactStep(p)

Next ==
  \E p \in Job :
    \/ DocumentCommand(p)
    \/ ArtifactCommand(p)
    \/ JobStep(p)
    \/ Crash(p)

\* A process that has been started keeps running until it returns or dies.
Fairness == \A p \in Job : WF_vars(JobStep(p))

Spec     == Init /\ [][Next]_vars
FairSpec == Spec /\ Fairness

TypeOK == StoreTypeOK /\ JobTypeOK

-----------------------------------------------------------------------------
(***************************************************************************)
(* Safety                                                                  *)
(***************************************************************************)

\* An ingest still has to write, or to link, the summary chunks of d.
BeingWritten(d) ==
  \E p \in Job : /\ job[p].pc \in {"insertSummary", "linkSummary"}
                 /\ d \in job[p].work \cap job[p].held

Searchable(d) ==
  chunkStatus[<<d, "summary">>] = "ACTIVE" /\ <<d, "summary">> \in chunkLinked

\* An ACTIVE document that retrieval cannot reach (no chunk, or a chunk with no
\* chunkOf edge) is one an ingest is still writing, or one whose ingest stopped
\* between its transactions: ingest_documents_folder has no other gap.
ActiveIsSearchable ==
  \A d \in Doc : docStatus[d] = "ACTIVE" => Searchable(d) \/ BeingWritten(d) \/ d \in torn

\* Retrieval filters on chunks.status alone.  A chunk is ACTIVE under a
\* document that is not only when the soft delete overtook the ingest that was
\* still writing the document's chunks.
LiveChunkLiveDoc ==
  \A c \in Chunk : chunkStatus[c] = "ACTIVE" => docStatus[c[1]] = "ACTIVE" \/ c[1] \in raced

\* An artifact made from one document leaves retrieval with its evidence: a
\* Claim or a Summary is ACTIVE over a chunk that is not only when the document
\* was soft-deleted while the generator held it.
LiveArtifactLiveEvidence ==
  \A a \in Art : artStatus[a] = "ACTIVE" /\ artType[a] \in {"Claim", "Summary"} =>
    \A c \in artSources[a] : chunkStatus[c] = "ACTIVE" \/ c[1] \in raced

\* The sweep is all-or-nothing: what it marks STALE has no ACTIVE chunk left,
\* and never comes to rest on one afterwards.
StaleHasNoEvidence ==
  \A a \in Art : artStatus[a] = "STALE" => \A c \in artSources[a] : chunkStatus[c] # "ACTIVE"

\* However often generation is interrupted and run again, and whatever is
\* updated or regenerated in between, a document is summarised once (by
\* commands that do not overlap: two that do may both select it).
OneSummaryPerDocument ==
  \A a, b \in {x \in Art : artType[x] = "Summary"} :
    DocsOf(artSources[a]) \cap DocsOf(artSources[b]) # {} => a = b

\* A document another row supersedes is out of retrieval, and its row is there:
\* no interleaving of updates, deletes and re-registrations brings it back.
SupersededIsDead ==
  \A d \in Doc : supersedes[d] # NoDoc => docStatus[supersedes[d]] = "DELETED"

\* The chunk INSERTs carry no ON CONFLICT clause.  They need none: as long as
\* the document row an ingest has written is still there, nobody else has
\* written a chunk under it.
ChunkInsertNeverCollides ==
  \A p \in Job : \A kind \in Kind :
    /\ job[p].pc = (IF kind = "summary" THEN "insertSummary" ELSE "insertFulltext")
    /\ ~RowsGone(p)
    => \A d \in job[p].work : chunkStatus[<<d, kind>>] = "none"

\* Once an ingest has been interrupted before a document's chunks, no command
\* but a removal changes that: re-registering skips the row by its hash.
TornStaysUnsearchable ==
  [][\A d \in torn : chunkStatus[<<d, "summary">>] = "none" /\ d \in torn'
        => chunkStatus'[<<d, "summary">>] = "none"]_vars

\* No command revives a soft-deleted document row, and an artifact leaves
\* retrieval through STALE: retiring never takes an ACTIVE one.
NothingRevives ==
  [][/\ \A d \in Doc : docStatus[d] = "DELETED" => docStatus'[d] # "ACTIVE"
     /\ \A a \in Art : artStatus[a] = "ACTIVE" => artStatus'[a] # "DELETED"]_vars

-----------------------------------------------------------------------------
(***************************************************************************)
(* What SupersededIsDead needs to be inductive                             *)
(***************************************************************************)

\* From its soft delete to the end of an update, the old row is DELETED, or
\* has been removed and its id is dead.
OldRowIsDead ==
  \A p \in Job :
    /\ job[p].oldRow \subseteq {job[p].upd.old}
    /\ job[p].pc # "updateDelete" => \A d \in job[p].oldRow : docStatus[d] = "DELETED"

SupersessionInv == TypeOK /\ SupersededIsDead /\ OldRowIsDead

-----------------------------------------------------------------------------
(***************************************************************************)
(* Liveness                                                                *)
(***************************************************************************)

\* A document whose row an ingest has inserted becomes searchable, unless that
\* ingest stops early or the row is deleted first.
RegisteredBecomesSearchable ==
  \A d \in Doc : BeingWritten(d) ~> (Searchable(d) \/ d \in torn \/ docStatus[d] # "ACTIVE")

\* A command that has been started comes to an end, whatever it finds.
CommandsEnd == \A p \in Job : job[p].pc # "idle" ~> job[p].pc = "idle"

-----------------------------------------------------------------------------
(***************************************************************************)
(* What the code's comments say and the code does not do                   *)
(***************************************************************************)

\* update_document: "insert a new versioned row that supersedes the old one".
\* When the ingest it calls has returned, the new text's row is ACTIVE.
UpdateLeavesActiveVersion ==
  \A p \in Job : job[p].pc = "supersede" => docStatus[job[p].upd.new] = "ACTIVE"

\* Deleting sweeps artifacts so that none is left ACTIVE with its evidence gone.
NoActiveWithoutEvidence ==
  \A a \in Art : artStatus[a] = "ACTIVE" /\ artSources[a] # {} =>
    \E c \in artSources[a] : chunkStatus[c] = "ACTIVE"

\* A hard delete takes the document's tables along, so that registering the
\* same PDF again does not collide on their artifact_identifier.
TableInsertNeverCollides ==
  \A p \in Job : job[p].pc = "insertTables" =>
    \A d \in TablesOf(p) : tableStatus[d] = "none"

=============================================================================
