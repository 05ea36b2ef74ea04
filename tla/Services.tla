------------------------------ MODULE Services ------------------------------
(***************************************************************************)
(* The services around the corpus, explored one at a time: they meet in    *)
(* the database, and each module models what the others do to the rows it  *)
(* is about as actions of its own (documents deleted, tables wiped,        *)
(* entities added).  part names the service that runs.                     *)
(***************************************************************************)
EXTENDS EmbeddingGuard, OntologyImport, Rollup, Conversation, Retrieval,
        EntityExtraction, Enrichment, ChunkReading, TableLinks, ArtifactRuns

VARIABLE part

servicesVars ==
  <<part, guardVars, importVars, rollupVars, conversationVars, retrievalVars, extractVars,
    enrichVars, readVars, linkVars, artRunVars>>

Part == {"guard", "import", "rollup", "conversation", "retrieval", "extract", "enrich", "read", "links", "artifacts"}

Init ==
  /\ part \in Part
  /\ GuardInit /\ ImportInit /\ RollupInit
  /\ ConversationInit /\ RetrievalInit /\ ExtractInit /\ EnrichInit /\ ReadInit /\ LinkInit /\ ArtRunInit
  \* What two services start with is open only where it matters.
  /\ part # "guard" => vectors = {}
  /\ part # "extract" => \A c \in XChunk : rows[c] = "none"
  /\ part # "read" => within = 0 /\ pinned = {}
  /\ part # "artifacts" => mined = {}

Next ==
  \/ part = "guard" /\ GuardNext
     /\ UNCHANGED <<part, importVars, rollupVars, conversationVars, retrievalVars, extractVars, enrichVars, readVars, linkVars, artRunVars>>
  \/ part = "import" /\ ImportNext
     /\ UNCHANGED <<part, guardVars, rollupVars, conversationVars, retrievalVars, extractVars, enrichVars, readVars, linkVars, artRunVars>>
  \/ part = "rollup" /\ RollupNext
     /\ UNCHANGED <<part, guardVars, importVars, conversationVars, retrievalVars, extractVars, enrichVars, readVars, linkVars, artRunVars>>
  \/ part = "conversation" /\ ConversationNext
     /\ UNCHANGED <<part, guardVars, importVars, rollupVars, retrievalVars, extractVars, enrichVars, readVars, linkVars, artRunVars>>
  \/ part = "retrieval" /\ RetrievalNext
     /\ UNCHANGED <<part, guardVars, importVars, rollupVars, conversationVars, extractVars, enrichVars, readVars, linkVars, artRunVars>>
  \/ part = "extract" /\ ExtractNext
     /\ UNCHANGED <<part, guardVars, importVars, rollupVars, conversationVars, retrievalVars, enrichVars, readVars, linkVars, artRunVars>>
  \/ part = "enrich" /\ EnrichNext
     /\ UNCHANGED <<part, guardVars, importVars, rollupVars, conversationVars, retrievalVars, extractVars, readVars, linkVars, artRunVars>>
  \/ part = "read" /\ ReadNext
     /\ UNCHANGED <<part, guardVars, importVars, rollupVars, conversationVars, retrievalVars, extractVars, enrichVars, linkVars, artRunVars>>
  \/ part = "links" /\ LinkNext
     /\ UNCHANGED <<part, guardVars, importVars, rollupVars, conversationVars, retrievalVars, extractVars, enrichVars, readVars, artRunVars>>
  \/ part = "artifacts" /\ ArtRunNext
     /\ UNCHANGED <<part, guardVars, importVars, rollupVars, conversationVars, retrievalVars, extractVars, enrichVars, readVars, linkVars>>

Spec == Init /\ [][Next]_servicesVars

-----------------------------------------------------------------------------
\* The types, and the foreign keys of each service: a run of retrieval refers to
\* a turn that is there, an edge to an entity that is there.
ServicesTypeOK ==
  /\ part \in Part
  /\ part = "guard" => GuardTypeOK
  /\ part = "import" => ImportTypeOK
  /\ part = "rollup" => RollupTypeOK
  /\ part = "conversation" => ConversationTypeOK
  /\ part = "retrieval" => RetrievalTypeOK
  /\ part = "extract" => ExtractTypeOK
  /\ part = "enrich" => EnrichTypeOK
  /\ part = "read" => ReadTypeOK
  /\ part = "links" => LinkTypeOK
  /\ part = "artifacts" => ArtRunTypeOK

=============================================================================
