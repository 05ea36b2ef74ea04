-------------------------- MODULE DocumentCommands --------------------------
(***************************************************************************)
(* The command-line commands that write documents: register-documents,     *)
(* update-document, delete-document and clear-corpus.  Each runs in a      *)
(* process of its own (a job), nothing excludes two of them, and each is a *)
(* series of separate transactions between which the process may die.      *)
(*                                                                         *)
(* The term_aliases refresh that ends three of them writes none of the     *)
(* variables below.                                                        *)
(***************************************************************************)
EXTENDS GraphStore

CONSTANTS
  Job,          \* processes that may run commands
  MaxCommands   \* bound: how many commands are started in all

VARIABLES
  job,       \* what each process holds in memory
  commands,  \* commands started so far (bounded by MaxCommands)
  torn,      \* history: rows whose writer stopped before its last step
  raced      \* history: rows soft-deleted while another job held their ids

jobVars == <<job, commands, torn, raced>>
vars    == <<storeVars, jobVars>>

Option == {"fulltext"} \cup {o \in {"tables"} : TableDocs # {}}

\* update_document's locals: the row it read, that row's version, and the
\* document the new file contains.
NoUpdate == [old |-> NoDoc, new |-> NoDoc, version |-> 0]

Idle ==
  [pc |-> "idle", ret |-> "idle", work |-> {}, held |-> {}, opts |-> {},
   upd |-> NoUpdate, oldRow |-> {}, mine |-> {}, plan |-> [a \in Art |-> {}], type |-> "none",
   needs |-> {}, uncited |-> {}, scope |-> NoDoc, stale |-> {}, staleTables |-> {}]

IngestPc ==
  {"insertSummary", "linkSummary", "insertFulltext", "linkFulltext",
   "insertTables", "linkTables", "bump"}
ArtifactPc == {"insertArts", "linkArts", "regen", "regenClaims", "regenSummary"}
Pc == {"idle", "check", "insertDocs", "updateDelete", "supersede"}
        \cup IngestPc \cup ArtifactPc

JobRecord ==
  [pc : Pc, ret : {"idle", "supersede", "regen", "regenSummary"},
   work : SUBSET Doc,         \* the batch, then the part of it that is new
   held : SUBSET Doc,         \* rows whose ids the job holds and that still exist
   opts : SUBSET Option,
   upd : [old : Doc \cup {NoDoc}, new : Doc \cup {NoDoc}, version : Nat],
   oldRow : SUBSET Doc,       \* {upd.old} while the id it was read with names a row
   mine : SUBSET Art,         \* artifacts of this call
   plan : [Art -> SUBSET Chunk],  \* and the chunks each will cite
   type : ArtKind,
   needs : SUBSET Doc,        \* the documents the artifacts refer to
   uncited : SUBSET Art,      \* Summaries whose chunks are not read yet
   scope : Doc \cup {NoDoc},  \* the successor being regenerated
   stale : SUBSET Art, staleTables : SUBSET Doc]

JobTypeOK ==
  /\ job \in [Job -> JobRecord]
  /\ commands \in Nat
  /\ torn \in SUBSET Doc
  /\ raced \in SUBSET Doc

JobInit ==
  /\ job = [p \in Job |-> Idle]
  /\ commands = 0
  /\ torn = {}
  /\ raced = {}

Start(p) ==
  /\ job[p].pc = "idle"
  /\ commands < MaxCommands
  /\ commands' = commands + 1

Becomes(p, record) == job' = [job EXCEPT ![p] = record]

Goto(p, pc) == Becomes(p, [job[p] EXCEPT !.pc = pc])

\* The job ends at an exception, or the process dies: what it had in memory
\* is lost, what it had committed stays.
Abandon(p) ==
  /\ Becomes(p, Idle)
  /\ torn' = IF job[p].pc \in IngestPc /\ job[p].mine = {}
               THEN torn \cup job[p].held ELSE torn
  /\ UNCHANGED <<storeVars, commands, raced>>

Crash(p) ==
  /\ job[p].pc # "idle"
  /\ Abandon(p)

\* A call returns to its caller, or the command ends.
Returned(p) ==
  IF job[p].ret = "idle" THEN Idle
  ELSE [job[p] EXCEPT !.pc = job[p].ret, !.ret = "idle", !.held = {}, !.opts = {},
                      !.work = IF job[p].ret = "supersede" THEN {} ELSE @,
                      !.mine = {}, !.plan = [a \in Art |-> {}], !.type = "none",
                      !.needs = {}, !.uncited = {}]

-----------------------------------------------------------------------------
(***************************************************************************)
(* ingest_documents_folder                                                 *)
(***************************************************************************)

\* register-documents on a folder that holds the texts in batch.
Register(p) ==
  /\ Start(p)
  /\ \E batch \in (SUBSET Doc) \ {{}}, opts \in SUBSET Option :
       Becomes(p, [job[p] EXCEPT !.pc = "check", !.work = batch, !.opts = opts])
  /\ UNCHANGED <<storeVars, torn, raced>>

\* The dup check: a row of ANY status makes a text "already loaded".
DupCheck(p) ==
  /\ job[p].pc = "check"
  /\ LET fresh == {d \in job[p].work : docStatus[d] = "none"} IN
       \/ /\ fresh = {}
          /\ Becomes(p, Returned(p))
       \/ /\ fresh # {}
          /\ Becomes(p, [job[p] EXCEPT !.pc = "insertDocs", !.work = fresh])
  /\ UNCHANGED <<storeVars, commands, torn, raced>>

\* Mutant: the INSERT becomes an upsert.
InsertDocsUpserts(p) ==
  LET batch == job[p].work IN
  /\ job[p].pc = "insertDocs"
  /\ docStatus' = [d \in Doc |-> IF d \in batch THEN "ACTIVE" ELSE docStatus[d]]
  /\ docVersion' = [d \in Doc |-> IF d \in batch THEN 1 ELSE docVersion[d]]
  /\ Becomes(p, [job[p] EXCEPT !.pc = "insertSummary", !.held = batch])
  /\ UNCHANGED <<supersedes, chunkVars, tableVars, artVars, version>>
  /\ UNCHANGED <<commands, torn, raced>>

\* Summarising and embedding happen before this step, outside transactions.
\* One INSERT for the batch: document_identifier is unique, so one row that
\* has appeared since the dup check fails all of it.
InsertDocs(p) ==
  LET batch == job[p].work IN
  /\ job[p].pc = "insertDocs"
  /\ \/ /\ \E d \in batch : docStatus[d] # "none"
        /\ Abandon(p)
     \/ /\ \A d \in batch : docStatus[d] = "none"
        /\ docStatus' = [d \in Doc |-> IF d \in batch THEN "ACTIVE" ELSE docStatus[d]]
        /\ docVersion' = [d \in Doc |-> IF d \in batch THEN 1 ELSE docVersion[d]]
        /\ Becomes(p, [job[p] EXCEPT !.pc = "insertSummary", !.held = batch])
        /\ UNCHANGED <<supersedes, chunkVars, tableVars, artVars, version>>
        /\ UNCHANGED <<commands, torn, raced>>

\* Every later INSERT of the call refers to the document ids it got above.
RowsGone(p) == ~(job[p].work \subseteq job[p].held)

Batch(p, kind) == job[p].work \X {kind}

InsertChunks(p, kind, here, next) ==
  /\ job[p].pc = here
  /\ \/ /\ \/ RowsGone(p)
           \/ \E c \in Batch(p, kind) : chunkStatus[c] # "none"
        /\ Abandon(p)
     \/ /\ ~RowsGone(p)
        /\ \A c \in Batch(p, kind) : chunkStatus[c] = "none"
        /\ chunkStatus' = [c \in Chunk |-> IF c \in Batch(p, kind)
                                             THEN "ACTIVE" ELSE chunkStatus[c]]
        /\ Goto(p, next)
        /\ UNCHANGED <<docVars, chunkLinked, tableVars, artVars, version>>
        /\ UNCHANGED <<commands, torn, raced>>

\* Mutant: the chunkOf edges are not written.
LinkChunksSkips(p, kind, here, next) ==
  /\ job[p].pc = here
  /\ Goto(p, next)
  /\ UNCHANGED <<storeVars, commands, torn, raced>>

LinkChunks(p, kind, here, next) ==
  /\ job[p].pc = here
  /\ \/ RowsGone(p) /\ Abandon(p)
     \/ /\ ~RowsGone(p)
        /\ chunkLinked' = chunkLinked \cup Batch(p, kind)
        /\ Goto(p, next)
        /\ UNCHANGED <<docVars, chunkStatus, tableVars, artVars, version>>
        /\ UNCHANGED <<commands, torn, raced>>

TablesOf(p) == job[p].work \cap TableDocs

AfterChunks(p) ==
  IF "tables" \in job[p].opts /\ TablesOf(p) # {} THEN "insertTables" ELSE "bump"

AfterSummary(p) ==
  IF "fulltext" \in job[p].opts THEN "insertFulltext" ELSE AfterChunks(p)

InsertSummaryChunks(p)  == InsertChunks(p, "summary", "insertSummary", "linkSummary")
LinkSummaryChunks(p)    == LinkChunks(p, "summary", "linkSummary", AfterSummary(p))
InsertFulltextChunks(p) == InsertChunks(p, "fulltext", "insertFulltext", "linkFulltext")
LinkFulltextChunks(p)   == LinkChunks(p, "fulltext", "linkFulltext", AfterChunks(p))

\* The table's IRI is a function of the document's hash, and unique.  The
\* artifact row itself refers to no document.
InsertTables(p) ==
  /\ job[p].pc = "insertTables"
  /\ \/ /\ \E d \in TablesOf(p) : tableStatus[d] # "none"
        /\ Abandon(p)
     \/ /\ \A d \in TablesOf(p) : tableStatus[d] = "none"
        /\ tableStatus' = [d \in Doc |-> IF d \in TablesOf(p)
                                           THEN "ACTIVE" ELSE tableStatus[d]]
        /\ Goto(p, "linkTables")
        /\ UNCHANGED <<docVars, chunkVars, tableLinked, artVars, version>>
        /\ UNCHANGED <<commands, torn, raced>>

LinkTables(p) ==
  /\ job[p].pc = "linkTables"
  /\ \/ RowsGone(p) /\ Abandon(p)
     \/ /\ ~RowsGone(p)
        /\ tableLinked' = [d \in Doc |-> tableLinked[d] \/ d \in TablesOf(p)]
        /\ Goto(p, "bump")
        /\ UNCHANGED <<docVars, chunkVars, tableStatus, artVars, version>>
        /\ UNCHANGED <<commands, torn, raced>>

\* The call's last transaction.
Bump(p) ==
  /\ job[p].pc = "bump"
  /\ version' = version + 1
  /\ Becomes(p, Returned(p))
  /\ UNCHANGED <<docVars, chunkVars, tableVars, artVars, commands, torn, raced>>

-----------------------------------------------------------------------------
(***************************************************************************)
(* delete_document, update_document and wipe_corpus                        *)
(***************************************************************************)

\* The ids of d's rows name nothing any more, in whatever process holds them.
Forgotten(q, d) ==
  [job[q] EXCEPT !.held = @ \ {d}, !.staleTables = @ \ {d}, !.oldRow = @ \ {d}]

SoftDelete(p, d) ==
  /\ docStatus[d] # "none"
  /\ SoftDeleteRows(d)
  /\ raced' = IF \E q \in Job \ {p} : d \in job[q].held THEN raced \cup {d} ELSE raced
  /\ UNCHANGED torn

DeleteSoft(p) ==
  /\ Start(p)
  /\ \E d \in Doc : SoftDelete(p, d)
  /\ UNCHANGED job

DeleteHard(p) ==
  /\ Start(p)
  /\ \E d \in Doc :
       /\ docStatus[d] # "none"
       /\ Removable(d)
       /\ HardDeleteRows(d)
       /\ job' = [q \in Job |-> Forgotten(q, d)]
       /\ torn' = torn \ {d}
       /\ raced' = raced \ {d}

\* Mutant: the old row is not soft-deleted first.
UpdateKeepsOld(p) ==
  /\ Start(p)
  /\ \E old \in Doc, batch \in SUBSET Doc : \E new \in batch \ {old} :
       /\ docStatus[old] # "none"
       /\ Becomes(p, [job[p] EXCEPT
            !.pc = "check", !.ret = "supersede", !.work = batch,
            !.upd = [old |-> old, new |-> new, version |-> docVersion[old]],
            !.oldRow = {old}])
  /\ UNCHANGED <<storeVars, torn, raced>>

\* update-document on the row of old, with a file that holds new and lies in
\* a folder that holds batch.  The same text is a no-op.
Update(p) ==
  /\ Start(p)
  /\ \E old \in Doc, batch \in SUBSET Doc : \E new \in batch \ {old} :
       /\ docStatus[old] # "none"
       /\ Becomes(p, [job[p] EXCEPT
            !.pc = "updateDelete",
            !.work = batch,
            !.upd = [old |-> old, new |-> new, version |-> docVersion[old]],
            !.oldRow = {old}])
  /\ UNCHANGED <<storeVars, torn, raced>>

UpdateDelete(p) ==
  LET old == job[p].upd.old IN
  /\ job[p].pc = "updateDelete"
  /\ \/ docStatus[old] = "none" /\ Abandon(p)
     \/ /\ SoftDelete(p, old)
        /\ Becomes(p, [job[p] EXCEPT !.pc = "check", !.ret = "supersede"])
        /\ UNCHANGED commands

\* UPDATE ... WHERE document_identifier = new_iri, whatever that row is.
Supersede(p) ==
  LET upd == job[p].upd IN
  /\ job[p].pc = "supersede"
  /\ \/ /\ docStatus[upd.new] = "none"
        /\ UNCHANGED <<docVersion, supersedes>>
     \/ /\ docStatus[upd.new] # "none" /\ upd.old \in job[p].oldRow
        /\ docVersion' = [docVersion EXCEPT ![upd.new] = upd.version + 1]
        /\ supersedes' = [supersedes EXCEPT ![upd.new] = upd.old]
     \/ /\ docStatus[upd.new] # "none" /\ upd.old \notin job[p].oldRow  \* foreign key
        /\ UNCHANGED <<docVersion, supersedes>>
  /\ Becomes(p, Idle)
  /\ UNCHANGED <<docStatus, chunkVars, tableVars, artVars, version>>
  /\ UNCHANGED <<commands, torn, raced>>

\* clear-corpus --yes, with an ontology present.
Clear(p) ==
  /\ Start(p)
  /\ WipeRows
  /\ job' = [q \in Job |-> [job[q] EXCEPT !.held = {}, !.stale = {}, !.staleTables = {},
                                          !.oldRow = {}]]
  /\ torn' = {}
  /\ raced' = {}

IngestStep(p) ==
  \/ DupCheck(p)
  \/ InsertDocs(p)
  \/ InsertSummaryChunks(p)
  \/ LinkSummaryChunks(p)
  \/ InsertFulltextChunks(p)
  \/ LinkFulltextChunks(p)
  \/ InsertTables(p)
  \/ LinkTables(p)
  \/ Bump(p)

UpdateStep(p) ==
  \/ UpdateDelete(p)
  \/ Supersede(p)

DocumentCommand(p) ==
  \/ Register(p)
  \/ DeleteSoft(p)
  \/ DeleteHard(p)
  \/ Update(p)
  \/ Clear(p)

=============================================================================
