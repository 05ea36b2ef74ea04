-------------------------------- MODULE Build --------------------------------
(***************************************************************************)
(* The stages that turn a corpus into an ontology and a graph, and the     *)
(* calls of models under them, explored one at a time: each stage hands    *)
(* over a file or rows that are complete, so what is interleaved is inside *)
(* a stage.  part names the one that runs.                                 *)
(***************************************************************************)
EXTENDS Summaries, ChunkProposals, ClassDedup, OntologyEdit, Relations,
        Tables, TableWorkers, ModelCalls, NameMerges, VersionFolders

VARIABLE part

buildVars ==
  <<part, summaryVars, proposalVars, dedupVars, editVars, relationVars, tableVars,
    driverVars, callVars, nameVars, folderVars>>

Part == {"summaries", "proposals", "dedup", "edit", "relations", "tables", "workers", "embed", "chat", "names", "folders"}

\* What a stage starts with is open only where it runs.
NothingToEdit ==
  classes = <<>> /\ insts = {} /\ props = {} /\ layer = "prune" /\ pending = {} /\ moves = 0 /\ marked = {}

Init ==
  /\ part \in Part
  /\ SummariesInit /\ (part # "summaries" => method = "single")
  /\ ProposalsInit /\ (part # "proposals" => todo = {} /\ paid = 0)
  /\ DedupInit /\ RelationsInit
  /\ TablesInit /\ (part # "tables" => pageKind = CHOOSE f \in Pdfs : TRUE)
  /\ DriverInit /\ (part # "workers" => inCache = [p \in DPdf |-> "none"])
  /\ NamesInit /\ FoldersInit
  /\ CallsInit /\ (part # "embed" => counts = <<>>)
  /\ IF part = "edit" THEN EditInit ELSE NothingToEdit

Next ==
  \/ part = "summaries" /\ SummariesNext
     /\ UNCHANGED <<part, proposalVars, dedupVars, editVars, relationVars, tableVars, driverVars, callVars, nameVars, folderVars>>
  \/ part = "proposals" /\ ProposalsNext
     /\ UNCHANGED <<part, summaryVars, dedupVars, editVars, relationVars, tableVars, driverVars, callVars, nameVars, folderVars>>
  \/ part = "dedup" /\ DedupNext
     /\ UNCHANGED <<part, summaryVars, proposalVars, editVars, relationVars, tableVars, driverVars, callVars, nameVars, folderVars>>
  \/ part = "edit" /\ EditNext
     /\ UNCHANGED <<part, summaryVars, proposalVars, dedupVars, relationVars, tableVars, driverVars, callVars, nameVars, folderVars>>
  \/ part = "relations" /\ RelationsNext
     /\ UNCHANGED <<part, summaryVars, proposalVars, dedupVars, editVars, tableVars, driverVars, callVars, nameVars, folderVars>>
  \/ part = "tables" /\ TablesNext
     /\ UNCHANGED <<part, summaryVars, proposalVars, dedupVars, editVars, relationVars, driverVars, callVars, nameVars, folderVars>>
  \/ part = "workers" /\ DriverNext
     /\ UNCHANGED <<part, summaryVars, proposalVars, dedupVars, editVars, relationVars, tableVars, callVars, nameVars, folderVars>>
  \/ part = "embed" /\ EmbedNext
     /\ UNCHANGED <<part, summaryVars, proposalVars, dedupVars, editVars, relationVars, tableVars, driverVars, nameVars, folderVars>>
  \/ part = "chat" /\ ChatNext
     /\ UNCHANGED <<part, summaryVars, proposalVars, dedupVars, editVars, relationVars, tableVars, driverVars, nameVars, folderVars>>
  \/ part = "names" /\ NamesNext
     /\ UNCHANGED <<part, summaryVars, proposalVars, dedupVars, editVars, relationVars, tableVars, driverVars, callVars, folderVars>>
  \/ part = "folders" /\ FoldersNext
     /\ UNCHANGED <<part, summaryVars, proposalVars, dedupVars, editVars, relationVars, tableVars, driverVars, callVars, nameVars>>

Spec == Init /\ [][Next]_buildVars

-----------------------------------------------------------------------------
\* The types, and what the rows and maps of each stage refer to.
BuildTypeOK ==
  /\ part \in Part
  /\ part = "summaries" => SummariesTypeOK
  /\ part = "proposals" => ProposalsTypeOK
  /\ part = "dedup" => DedupTypeOK
  /\ part = "edit" => EditTypeOK
  /\ part = "relations" => RelationsTypeOK
  /\ part = "tables" => TablesTypeOK
  /\ part = "workers" => DriverTypeOK
  /\ part \in {"embed", "chat"} => CallsTypeOK
  /\ part = "names" => NamesTypeOK
  /\ part = "folders" => FoldersTypeOK

=============================================================================
