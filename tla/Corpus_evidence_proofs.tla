------------------------ MODULE Corpus_evidence_proofs ------------------------
(***************************************************************************)
(* Proofs about what retrieval finds: that an ACTIVE document has its      *)
(* chunks and an ACTIVE chunk its document; that the chunk INSERTs, which  *)
(* carry no ON CONFLICT clause, never meet a chunk; and that a torn ingest *)
(* stays torn: for any set of documents and artifacts, any number of       *)
(* processes, and wherever one of them dies.                               *)
(***************************************************************************)
EXTENDS Corpus_proofs

\* An ingest that has chunks still to insert.
Writing == {"insertSummary", "linkSummary", "insertFulltext"}

\* The documents it writes for are ACTIVE, or were soft-deleted under its hands.
HeldIsLive ==
  \A p \in Job : job[p].pc \in Writing =>
    \A d \in job[p].held : docStatus[d] = "ACTIVE" \/ (docStatus[d] = "DELETED" /\ d \in raced)

\* Only the steps of a generator hold artifacts: an ingest that stops is torn.
MineIsArtifacts ==
  \A p \in Job : job[p].mine # {} => job[p].pc \in {"insertArts", "linkArts", "bump"}

\* What is linked next has been inserted, and stays as long as its document does.
ChunksBeforeLinks ==
  \A p \in Job : job[p].pc = "linkSummary" =>
    \A d \in job[p].work \cap job[p].held :
      docStatus[d] = "ACTIVE" => chunkStatus[<<d, "summary">>] = "ACTIVE"

EvidenceInv ==
  /\ TypeOK
  /\ LiveChunkLiveDoc
  /\ ActiveIsSearchable
  /\ HeldIsLive
  /\ MineIsArtifacts
  /\ ChunksBeforeLinks

LEMMA ChunkOwner ==
  ASSUME NEW c \in Chunk, NEW d \in Doc
  PROVE  c[1] \in Doc /\ (c \in ChunksOf(d) <=> c[1] = d)
  BY DEF Chunk, ChunksOf

LEMMA SummaryChunk ==
  ASSUME NEW d \in Doc
  PROVE  <<d, "summary">> \in Chunk /\ <<d, "summary">>[1] = d
  BY DEF Chunk, Kind

LEMMA OnlyOne ==
  ASSUME TypeOK, NEW p \in Job, NEW r, Becomes(p, r)
  PROVE  job'[p] = r /\ \A q \in Job \ {p} : job'[q] = job[q]
  BY DEF TypeOK, JobTypeOK, Becomes

-----------------------------------------------------------------------------
(***************************************************************************)
(* A step aside leaves documents and chunks as they are, and its process   *)
(* is not writing any more; if it was, it is torn.                         *)
(***************************************************************************)
Aside(p) ==
  /\ UNCHANGED <<docStatus, chunkStatus, raced>>
  /\ chunkLinked \subseteq chunkLinked' /\ torn \subseteq torn'
  /\ \A q \in Job \ {p} : job'[q] = job[q]
  /\ job'[p].pc \notin Writing
  /\ job'[p].mine # {} => job'[p].pc \in {"insertArts", "linkArts", "bump"}
  /\ job[p].pc \in {"insertSummary", "linkSummary"} => job[p].held \subseteq torn'

LEMMA AsideStep ==
  ASSUME EvidenceInv, TypeOK', NEW p \in Job, Aside(p)
  PROVE  EvidenceInv'
  <1>1. LiveChunkLiveDoc'
    BY DEF EvidenceInv, LiveChunkLiveDoc, Aside
  <1>2. HeldIsLive'
    BY DEF EvidenceInv, HeldIsLive, Aside
  <1>3. MineIsArtifacts'
    BY DEF EvidenceInv, MineIsArtifacts, Aside
  <1>4. ChunksBeforeLinks'
    BY DEF EvidenceInv, ChunksBeforeLinks, Aside, Writing
  <1>5. ActiveIsSearchable'
    <2> SUFFICES ASSUME NEW d \in Doc, docStatus'[d] = "ACTIVE"
                 PROVE  Searchable(d)' \/ BeingWritten(d)' \/ d \in torn'
      BY DEF ActiveIsSearchable
    <2>1. docStatus[d] = "ACTIVE"
      BY DEF Aside
    <2>2. CASE Searchable(d)
      BY <2>2 DEF Searchable, Aside
    <2>3. CASE BeingWritten(d)
      BY <2>3 DEF BeingWritten, Aside
    <2>4. CASE d \in torn
      BY <2>4 DEF Aside
    <2> QED BY <2>1, <2>2, <2>3, <2>4 DEF EvidenceInv, ActiveIsSearchable
  <1> QED BY <1>1, <1>2, <1>3, <1>4, <1>5 DEF EvidenceInv

\* The usual step aside: the rows are left alone, and so is the history.
LEMMA BecomesAside ==
  ASSUME TypeOK, NEW p \in Job, NEW r, Becomes(p, r),
         UNCHANGED <<docStatus, chunkStatus, chunkLinked, torn, raced>>,
         r.pc \notin Writing,
         r.mine # {} => r.pc \in {"insertArts", "linkArts", "bump"},
         job[p].pc \notin {"insertSummary", "linkSummary"}
  PROVE  Aside(p)
  BY OnlyOne DEF Aside

LEMMA GotoAside ==
  ASSUME EvidenceInv, NEW p \in Job, NEW pc, Goto(p, pc), pc \notin Writing,
         UNCHANGED <<docStatus, chunkStatus, chunkLinked, torn, raced>>,
         job[p].mine # {} => pc \in {"insertArts", "linkArts", "bump"},
         job[p].pc \notin {"insertSummary", "linkSummary"}
  PROVE  Aside(p)
  <1>1. TypeOK /\ job[p] \in JobRecord
    BY DEF EvidenceInv, TypeOK, JobTypeOK
  <1> DEFINE r == [job[p] EXCEPT !.pc = pc]
  <1>2. r.pc = pc /\ r.mine = job[p].mine
    BY <1>1 DEF JobRecord
  <1>3. Becomes(p, r)
    BY DEF Goto
  <1> HIDE DEF r
  <1> QED BY <1>1, <1>2, <1>3, BecomesAside

LEMMA ReturnedAside ==
  ASSUME EvidenceInv, NEW p \in Job, Becomes(p, Returned(p)),
         UNCHANGED <<docStatus, chunkStatus, chunkLinked, torn, raced>>,
         job[p].pc \notin {"insertSummary", "linkSummary"}
  PROVE  Aside(p)
  <1>1. TypeOK /\ job[p] \in JobRecord
    BY DEF EvidenceInv, TypeOK, JobTypeOK
  <1>2. Returned(p).mine = {} /\ Returned(p).pc \notin Writing
    <2>1. CASE job[p].ret = "idle"
      BY <2>1 DEF Returned, Idle, Writing
    <2>2. CASE job[p].ret # "idle"
      BY <1>1, <2>2 DEF Returned, JobRecord, Writing
    <2> QED BY <2>1, <2>2
  <1> QED BY <1>1, <1>2, BecomesAside

LEMMA AbandonAside ==
  ASSUME EvidenceInv, NEW p \in Job, Abandon(p)
  PROVE  Aside(p)
  <1>1. TypeOK
    BY DEF EvidenceInv
  <1>2. job'[p] = Idle /\ \A q \in Job \ {p} : job'[q] = job[q]
    BY <1>1, OnlyOne DEF Abandon
  <1>3. Idle.pc \notin Writing /\ Idle.mine = {}
    BY DEF Idle, Writing
  <1>4. job[p].pc \in {"insertSummary", "linkSummary"} => job[p].held \subseteq torn'
    <2>1. job[p].pc \in {"insertSummary", "linkSummary"} => job[p].pc \in IngestPc /\ job[p].mine = {}
      BY DEF IngestPc, EvidenceInv, MineIsArtifacts
    <2> QED BY <2>1 DEF Abandon
  <1>5. UNCHANGED <<docStatus, chunkStatus, chunkLinked, raced>> /\ torn \subseteq torn'
    BY DEF Abandon, storeVars, docVars, chunkVars
  <1> QED BY <1>2, <1>3, <1>4, <1>5 DEF Aside

-----------------------------------------------------------------------------
(***************************************************************************)
(* The steps of an ingest                                                  *)
(***************************************************************************)
LEMMA InsertDocsEvidence ==
  ASSUME EvidenceInv, TypeOK', NEW p \in Job, InsertDocs(p), ~Abandon(p)
  PROVE  EvidenceInv'
  <1> DEFINE batch == job[p].work
  <1>0. TypeOK /\ job[p] \in JobRecord /\ batch \subseteq Doc
    BY DEF EvidenceInv, TypeOK, JobTypeOK, JobRecord
  <1>1. /\ \A d \in batch : docStatus[d] = "none"
        /\ docStatus' = [d \in Doc |-> IF d \in batch THEN "ACTIVE" ELSE docStatus[d]]
        /\ Becomes(p, [job[p] EXCEPT !.pc = "insertSummary", !.held = batch])
        /\ UNCHANGED <<chunkStatus, chunkLinked, torn, raced>> /\ job[p].pc = "insertDocs"
    BY DEF InsertDocs, chunkVars
  <1>2. /\ job'[p].pc = "insertSummary" /\ job'[p].held = batch /\ job'[p].work = batch
        /\ job'[p].mine = job[p].mine
        /\ \A q \in Job \ {p} : job'[q] = job[q]
    <2>1. /\ job'[p] = [job[p] EXCEPT !.pc = "insertSummary", !.held = batch]
          /\ \A q \in Job \ {p} : job'[q] = job[q]
      BY <1>0, <1>1, OnlyOne
    <2> QED BY <1>0, <2>1 DEF JobRecord
  <1>3. \A d \in Doc : docStatus[d] # "none" => docStatus'[d] = docStatus[d]
    BY <1>1
  <1>4. \A q \in Job : job[q].held \subseteq Doc
    BY <1>0 DEF TypeOK, JobTypeOK, JobRecord
  <1>5. LiveChunkLiveDoc'
    BY <1>1, <1>3, ChunkOwner DEF EvidenceInv, LiveChunkLiveDoc, Chunk
  <1>6. HeldIsLive'
    <2>1. ASSUME NEW q \in Job \ {p}, job'[q].pc \in Writing, NEW d \in job'[q].held
          PROVE  docStatus'[d] = "ACTIVE" \/ (docStatus'[d] = "DELETED" /\ d \in raced')
      <3>1. docStatus[d] = "ACTIVE" \/ (docStatus[d] = "DELETED" /\ d \in raced)
        BY <1>2, <2>1 DEF EvidenceInv, HeldIsLive
      <3> QED BY <1>1, <1>2, <1>3, <1>4, <2>1, <3>1
    <2>2. \A d \in job'[p].held : docStatus'[d] = "ACTIVE"
      BY <1>0, <1>1, <1>2
    <2> QED BY <2>1, <2>2 DEF HeldIsLive
  <1>7. MineIsArtifacts'
    BY <1>1, <1>2 DEF EvidenceInv, MineIsArtifacts
  <1>8. ChunksBeforeLinks'
    <2> SUFFICES ASSUME NEW q \in Job, job'[q].pc = "linkSummary",
                        NEW d \in job'[q].work \cap job'[q].held, docStatus'[d] = "ACTIVE"
                 PROVE  chunkStatus'[<<d, "summary">>] = "ACTIVE"
      BY DEF ChunksBeforeLinks
    <2>1. q # p /\ job'[q] = job[q]
      BY <1>2
    <2>2. docStatus[d] # "none"
      BY <2>1 DEF EvidenceInv, HeldIsLive, Writing
    <2>3. docStatus[d] = "ACTIVE"
      BY <1>3, <1>4, <2>1, <2>2
    <2> QED BY <1>1, <2>1, <2>3 DEF EvidenceInv, ChunksBeforeLinks
  <1>9. ActiveIsSearchable'
    <2> SUFFICES ASSUME NEW d \in Doc, docStatus'[d] = "ACTIVE"
                 PROVE  Searchable(d)' \/ BeingWritten(d)' \/ d \in torn'
      BY DEF ActiveIsSearchable
    <2>1. CASE d \in batch
      BY <1>2, <2>1 DEF BeingWritten
    <2>2. CASE d \notin batch
      <3>1. docStatus[d] = "ACTIVE"
        BY <1>1, <2>2
      <3>2. Searchable(d) => Searchable(d)'
        BY <1>1 DEF Searchable
      <3>3. BeingWritten(d) => BeingWritten(d)'
        BY <1>1, <1>2 DEF BeingWritten
      <3> QED BY <1>1, <3>1, <3>2, <3>3 DEF EvidenceInv, ActiveIsSearchable
    <2> QED BY <2>1, <2>2
  <1> QED BY <1>5, <1>6, <1>7, <1>8, <1>9 DEF EvidenceInv

\* Chunks are inserted, or linked, for the batch of one ingest.
LEMMA GotoOnly ==
  ASSUME TypeOK, NEW p \in Job, NEW pc, Goto(p, pc)
  PROVE  /\ job'[p].pc = pc /\ job'[p].work = job[p].work /\ job'[p].held = job[p].held
         /\ job'[p].mine = job[p].mine
         /\ \A q \in Job \ {p} : job'[q] = job[q]
  <1>1. job[p] \in JobRecord
    BY DEF TypeOK, JobTypeOK
  <1>2. job'[p] = [job[p] EXCEPT !.pc = pc] /\ \A q \in Job \ {p} : job'[q] = job[q]
    BY OnlyOne DEF Goto
  <1> QED BY <1>1, <1>2 DEF JobRecord

LEMMA InsertChunksEvidence ==
  ASSUME EvidenceInv, TypeOK', NEW p \in Job, NEW kind \in Kind, ~Abandon(p),
         \/ InsertChunks(p, "summary", "insertSummary", "linkSummary") /\ kind = "summary"
         \/ InsertChunks(p, "fulltext", "insertFulltext", "linkFulltext") /\ kind = "fulltext"
  PROVE  EvidenceInv'
  <1> DEFINE next == IF kind = "summary" THEN "linkSummary" ELSE "linkFulltext"
             here == IF kind = "summary" THEN "insertSummary" ELSE "insertFulltext"
  <1>0. TypeOK /\ job[p].work \subseteq Doc
    BY DEF EvidenceInv, TypeOK, JobTypeOK, JobRecord
  <1>1. /\ job[p].pc = here /\ job[p].work \subseteq job[p].held
        /\ chunkStatus' = [c \in Chunk |-> IF c \in Batch(p, kind) THEN "ACTIVE" ELSE chunkStatus[c]]
        /\ Goto(p, next)
        /\ UNCHANGED <<docStatus, chunkLinked, torn, raced>>
    BY DEF InsertChunks, RowsGone, docVars
  <1>2. /\ job'[p].pc = next /\ job'[p].work = job[p].work /\ job'[p].held = job[p].held
        /\ job'[p].mine = job[p].mine
        /\ \A q \in Job \ {p} : job'[q] = job[q]
    BY <1>0, <1>1, GotoOnly
  <1>3. \A d \in Doc : chunkStatus[<<d, "summary">>] = "ACTIVE" => chunkStatus'[<<d, "summary">>] = "ACTIVE"
    BY <1>1, SummaryChunk
  <1>4. LiveChunkLiveDoc'
    <2> SUFFICES ASSUME NEW c \in Chunk, chunkStatus'[c] = "ACTIVE"
                 PROVE  docStatus'[c[1]] = "ACTIVE" \/ c[1] \in raced'
      BY DEF LiveChunkLiveDoc
    <2>1. CASE c \in Batch(p, kind)
      <3>1. c[1] \in job[p].held /\ job[p].pc \in Writing
        BY <1>1, <2>1 DEF Batch, Writing
      <3> QED BY <1>1, <3>1 DEF EvidenceInv, HeldIsLive
    <2>2. CASE c \notin Batch(p, kind)
      BY <1>1, <2>2 DEF EvidenceInv, LiveChunkLiveDoc
    <2> QED BY <2>1, <2>2
  <1>5. HeldIsLive'
    BY <1>1, <1>2 DEF EvidenceInv, HeldIsLive, Writing
  <1>6. MineIsArtifacts'
    BY <1>1, <1>2 DEF EvidenceInv, MineIsArtifacts
  <1>7. ChunksBeforeLinks'
    <2> SUFFICES ASSUME NEW q \in Job, job'[q].pc = "linkSummary",
                        NEW d \in job'[q].work \cap job'[q].held, docStatus'[d] = "ACTIVE"
                 PROVE  chunkStatus'[<<d, "summary">>] = "ACTIVE"
      BY DEF ChunksBeforeLinks
    <2>0. d \in Doc
      BY DEF TypeOK, JobTypeOK, JobRecord
    <2>1. CASE q = p
      <3>1. kind = "summary" /\ d \in job[p].work
        BY <1>2, <2>1
      <3>2. <<d, "summary">> \in Batch(p, kind)
        BY <3>1 DEF Batch
      <3> QED BY <1>1, <2>0, <3>2, SummaryChunk
    <2>2. CASE q # p
      <3>1. job'[q] = job[q]
        BY <1>2, <2>2
      <3>2. chunkStatus[<<d, "summary">>] = "ACTIVE"
        BY <1>1, <3>1 DEF EvidenceInv, ChunksBeforeLinks
      <3> QED BY <1>3, <2>0, <3>2
    <2> QED BY <2>1, <2>2
  <1>8. ActiveIsSearchable'
    <2> SUFFICES ASSUME NEW d \in Doc, docStatus'[d] = "ACTIVE"
                 PROVE  Searchable(d)' \/ BeingWritten(d)' \/ d \in torn'
      BY DEF ActiveIsSearchable
    <2>1. Searchable(d) => Searchable(d)'
      BY <1>1, <1>3 DEF Searchable
    <2>2. BeingWritten(d) => BeingWritten(d)'
      BY <1>1, <1>2 DEF BeingWritten
    <2> QED BY <1>1, <2>1, <2>2 DEF EvidenceInv, ActiveIsSearchable
  <1> QED BY <1>4, <1>5, <1>6, <1>7, <1>8 DEF EvidenceInv

LEMMA LinkSummaryEvidence ==
  ASSUME EvidenceInv, TypeOK', NEW p \in Job, LinkSummaryChunks(p), ~Abandon(p)
  PROVE  EvidenceInv'
  <1> DEFINE next == AfterSummary(p)
  <1>0. TypeOK /\ job[p].work \subseteq Doc
    BY DEF EvidenceInv, TypeOK, JobTypeOK, JobRecord
  <1>1. /\ job[p].pc = "linkSummary" /\ job[p].work \subseteq job[p].held
        /\ chunkLinked' = chunkLinked \cup Batch(p, "summary")
        /\ Goto(p, next)
        /\ UNCHANGED <<docStatus, chunkStatus, torn, raced>>
    BY DEF LinkSummaryChunks, LinkChunks, RowsGone, docVars
  <1>2. /\ job'[p].pc = next /\ job'[p].work = job[p].work /\ job'[p].held = job[p].held
        /\ job'[p].mine = job[p].mine
        /\ \A q \in Job \ {p} : job'[q] = job[q]
    BY <1>0, <1>1, GotoOnly
  <1>3. next # "linkSummary"
    BY DEF AfterSummary, AfterChunks
  <1>4. LiveChunkLiveDoc'
    BY <1>1 DEF EvidenceInv, LiveChunkLiveDoc
  <1>5. HeldIsLive'
    BY <1>1, <1>2 DEF EvidenceInv, HeldIsLive, Writing
  <1>6. MineIsArtifacts'
    BY <1>1, <1>2 DEF EvidenceInv, MineIsArtifacts
  <1>7. ChunksBeforeLinks'
    BY <1>1, <1>2, <1>3 DEF EvidenceInv, ChunksBeforeLinks
  <1>8. ActiveIsSearchable'
    <2> SUFFICES ASSUME NEW d \in Doc, docStatus'[d] = "ACTIVE"
                 PROVE  Searchable(d)' \/ BeingWritten(d)' \/ d \in torn'
      BY DEF ActiveIsSearchable
    <2>1. Searchable(d) => Searchable(d)'
      BY <1>1 DEF Searchable
    <2>2. ASSUME NEW q \in Job, job[q].pc \in {"insertSummary", "linkSummary"},
                 d \in job[q].work \cap job[q].held
          PROVE  Searchable(d)' \/ BeingWritten(d)'
      <3>1. CASE q = p
        <4>1. chunkStatus[<<d, "summary">>] = "ACTIVE"
          BY <1>1, <2>2, <3>1 DEF EvidenceInv, ChunksBeforeLinks
        <4>2. <<d, "summary">> \in chunkLinked'
          BY <1>1, <2>2, <3>1 DEF Batch
        <4> QED BY <1>1, <4>1, <4>2 DEF Searchable
      <3>2. CASE q # p
        BY <1>2, <2>2, <3>2 DEF BeingWritten
      <3> QED BY <3>1, <3>2
    <2>3. BeingWritten(d) => Searchable(d)' \/ BeingWritten(d)'
      BY <2>2 DEF BeingWritten
    <2> QED BY <1>1, <2>1, <2>3 DEF EvidenceInv, ActiveIsSearchable
  <1> QED BY <1>4, <1>5, <1>6, <1>7, <1>8 DEF EvidenceInv

\* The other steps of an ingest leave documents and chunks alone.
LEMMA IngestAside ==
  ASSUME EvidenceInv, NEW p \in Job,
         \/ DupCheck(p) \/ LinkFulltextChunks(p) \/ InsertTables(p) \/ LinkTables(p) \/ Bump(p)
  PROVE  Aside(p)
  <1>0. TypeOK /\ job[p] \in JobRecord
    BY DEF EvidenceInv, TypeOK, JobTypeOK
  <1>a. CASE Abandon(p)
    BY <1>a, AbandonAside
  <1>b. CASE ~Abandon(p)
    <2>1. CASE DupCheck(p)
      <3>1. UNCHANGED <<docStatus, chunkStatus, chunkLinked, torn, raced>> /\ job[p].pc = "check"
        BY <2>1 DEF DupCheck, storeVars, docVars, chunkVars
      <3>2. PICK fresh :
              \/ Becomes(p, Returned(p))
              \/ Becomes(p, [job[p] EXCEPT !.pc = "insertDocs", !.work = fresh])
        BY <2>1 DEF DupCheck
      <3> DEFINE r == [job[p] EXCEPT !.pc = "insertDocs", !.work = fresh]
      <3>3. r.pc \notin Writing /\ r.mine = {}
        BY <1>0, <3>1 DEF JobRecord, Writing, EvidenceInv, MineIsArtifacts
      <3> HIDE DEF r
      <3>4. CASE Becomes(p, r)
        BY <1>0, <3>1, <3>3, <3>4, BecomesAside
      <3>5. CASE Becomes(p, Returned(p))
        BY <3>1, <3>5, ReturnedAside
      <3> QED BY <3>2, <3>4, <3>5 DEF r
    <2>2. CASE LinkFulltextChunks(p) \/ InsertTables(p) \/ LinkTables(p)
      <3>1. PICK pc \in {"insertTables", "linkTables", "bump"} : Goto(p, pc)
        BY <1>b, <2>2 DEF LinkFulltextChunks, LinkChunks, AfterChunks, InsertTables, LinkTables
      <3>2. /\ UNCHANGED <<docStatus, chunkStatus, torn, raced>> /\ chunkLinked \subseteq chunkLinked'
            /\ job[p].pc \in {"linkFulltext", "insertTables", "linkTables"}
        BY <1>b, <2>2 DEF LinkFulltextChunks, LinkChunks, InsertTables, LinkTables, docVars, chunkVars
      <3>3. /\ job'[p].pc = pc /\ job'[p].mine = job[p].mine
            /\ \A q \in Job \ {p} : job'[q] = job[q]
        BY <1>0, <3>1, GotoOnly
      <3>4. job[p].mine = {}
        BY <3>2 DEF EvidenceInv, MineIsArtifacts
      <3> QED BY <3>1, <3>2, <3>3, <3>4 DEF Aside, Writing
    <2>3. CASE Bump(p)
      <3>1. /\ UNCHANGED <<docStatus, chunkStatus, chunkLinked, torn, raced>>
            /\ Becomes(p, Returned(p)) /\ job[p].pc = "bump"
        BY <2>3 DEF Bump, docVars, chunkVars
      <3> QED BY <3>1, ReturnedAside
    <2> QED BY <2>1, <2>2, <2>3
  <1> QED BY <1>a, <1>b

LEMMA IngestEvidence ==
  ASSUME EvidenceInv, TypeOK', NEW p \in Job, IngestStep(p)
  PROVE  EvidenceInv'
  <1>a. CASE Abandon(p)
    BY <1>a, AbandonAside, AsideStep
  <1>b. CASE ~Abandon(p)
    <2>1. CASE InsertDocs(p)
      BY <1>b, <2>1, InsertDocsEvidence
    <2>2. CASE InsertSummaryChunks(p)
      BY <1>b, <2>2, InsertChunksEvidence DEF InsertSummaryChunks, Kind
    <2>3. CASE LinkSummaryChunks(p)
      BY <1>b, <2>3, LinkSummaryEvidence
    <2>4. CASE InsertFulltextChunks(p)
      BY <1>b, <2>4, InsertChunksEvidence DEF InsertFulltextChunks, Kind
    <2> QED BY <2>1, <2>2, <2>3, <2>4, IngestAside, AsideStep DEF IngestStep
  <1> QED BY <1>a, <1>b

-----------------------------------------------------------------------------
(***************************************************************************)
(* Soft delete, hard delete and wipe                                       *)
(***************************************************************************)
\* A soft delete, by delete-document or by update-document for the old version.
SoftDeletes(p, d) ==
  /\ SoftDelete(p, d)
  /\ \A q \in Job \ {p} : job'[q] = job[q]
  /\ job[p].pc \notin Writing /\ job'[p].pc \notin Writing
  /\ job[p].mine = {} /\ job'[p].mine = {}

LEMMA SoftDeleteEvidence ==
  ASSUME EvidenceInv, TypeOK', NEW p \in Job, NEW d \in Doc, SoftDeletes(p, d)
  PROVE  EvidenceInv'
  <1> USE DEF SoftDeletes
  <1>0. TypeOK
    BY DEF EvidenceInv
  <1>1. /\ docStatus' = [docStatus EXCEPT ![d] = "DELETED"]
        /\ chunkStatus' = [c \in Chunk |-> IF c \in ChunksOf(d) /\ chunkStatus[c] # "none"
                                             THEN "DELETED" ELSE chunkStatus[c]]
        /\ raced' = IF \E q \in Job \ {p} : d \in job[q].held THEN raced \cup {d} ELSE raced
        /\ UNCHANGED <<chunkLinked, torn>>
    BY DEF SoftDelete, SoftDeleteRows
  <1>2. /\ docStatus'[d] = "DELETED"
        /\ \A e \in Doc \ {d} : docStatus'[e] = docStatus[e]
    BY <1>0, <1>1 DEF TypeOK, StoreTypeOK
  <1>3. \A c \in Chunk : chunkStatus'[c] = "ACTIVE" <=> (chunkStatus[c] = "ACTIVE" /\ c[1] # d)
    BY <1>1, ChunkOwner
  <1>4. raced \subseteq raced'
    BY <1>1
  <1>5. LiveChunkLiveDoc'
    BY <1>2, <1>3, <1>4, ChunkOwner DEF EvidenceInv, LiveChunkLiveDoc
  <1>6. HeldIsLive'
    <2> SUFFICES ASSUME NEW q \in Job, job'[q].pc \in Writing, NEW e \in job'[q].held
                 PROVE  docStatus'[e] = "ACTIVE" \/ (docStatus'[e] = "DELETED" /\ e \in raced')
      BY DEF HeldIsLive
    <2>1. q # p /\ job'[q] = job[q]
      OBVIOUS
    <2>2. e \in Doc
      BY <1>0, <2>1 DEF TypeOK, JobTypeOK, JobRecord
    <2>3. CASE e = d
      BY <1>1, <1>2, <2>1, <2>3
    <2>4. CASE e # d
      BY <1>2, <1>4, <2>1, <2>2, <2>4 DEF EvidenceInv, HeldIsLive
    <2> QED BY <2>3, <2>4
  <1>7. MineIsArtifacts'
    BY DEF EvidenceInv, MineIsArtifacts
  <1>8. ChunksBeforeLinks'
    <2> SUFFICES ASSUME NEW q \in Job, job'[q].pc = "linkSummary",
                        NEW e \in job'[q].work \cap job'[q].held, docStatus'[e] = "ACTIVE"
                 PROVE  chunkStatus'[<<e, "summary">>] = "ACTIVE"
      BY DEF ChunksBeforeLinks
    <2>1. q # p /\ job'[q] = job[q]
      BY DEF Writing
    <2>2. e \in Doc /\ e # d
      BY <1>0, <1>2, <2>1 DEF TypeOK, JobTypeOK, JobRecord
    <2> QED BY <1>2, <1>3, <2>1, <2>2, SummaryChunk DEF EvidenceInv, ChunksBeforeLinks
  <1>9. ActiveIsSearchable'
    <2> SUFFICES ASSUME NEW e \in Doc, docStatus'[e] = "ACTIVE"
                 PROVE  Searchable(e)' \/ BeingWritten(e)' \/ e \in torn'
      BY DEF ActiveIsSearchable
    <2>1. e # d /\ docStatus[e] = "ACTIVE"
      BY <1>2
    <2>2. Searchable(e) => Searchable(e)'
      BY <1>1, <1>3, <2>1, SummaryChunk DEF Searchable
    <2>3. BeingWritten(e) => BeingWritten(e)'
      BY DEF BeingWritten, Writing
    <2> QED BY <1>1, <2>1, <2>2, <2>3 DEF EvidenceInv, ActiveIsSearchable
  <1> QED BY <1>5, <1>6, <1>7, <1>8, <1>9 DEF EvidenceInv

LEMMA HardDeleteEvidence ==
  ASSUME EvidenceInv, TypeOK', NEW p \in Job, DeleteHard(p)
  PROVE  EvidenceInv'
  <1>0. TypeOK /\ \A q \in Job : job[q] \in JobRecord
    BY DEF EvidenceInv, TypeOK, JobTypeOK
  <1>1. PICK d \in Doc : /\ HardDeleteRows(d)
                         /\ job' = [q \in Job |-> Forgotten(q, d)]
                         /\ torn' = torn \ {d} /\ raced' = raced \ {d}
    BY DEF DeleteHard
  <1>2. /\ docStatus'[d] = "none"
        /\ \A e \in Doc \ {d} : docStatus'[e] = docStatus[e]
    BY <1>0, <1>1 DEF HardDeleteRows, TypeOK, StoreTypeOK
  <1>3. \A c \in Chunk : chunkStatus'[c] = "ACTIVE" <=> (chunkStatus[c] = "ACTIVE" /\ c[1] # d)
    BY <1>1, ChunkOwner DEF HardDeleteRows
  <1>4. \A q \in Job : /\ job'[q].pc = job[q].pc /\ job'[q].work = job[q].work
                       /\ job'[q].held = job[q].held \ {d} /\ job'[q].mine = job[q].mine
    <2> SUFFICES ASSUME NEW q \in Job
                 PROVE  /\ job'[q].pc = job[q].pc /\ job'[q].work = job[q].work
                        /\ job'[q].held = job[q].held \ {d} /\ job'[q].mine = job[q].mine
      OBVIOUS
    <2> QED BY <1>0, <1>1 DEF Forgotten, JobRecord
  <1>5. LiveChunkLiveDoc'
    BY <1>1, <1>2, <1>3, ChunkOwner DEF EvidenceInv, LiveChunkLiveDoc
  <1>6. HeldIsLive'
    <2> SUFFICES ASSUME NEW q \in Job, job'[q].pc \in Writing, NEW e \in job'[q].held
                 PROVE  docStatus'[e] = "ACTIVE" \/ (docStatus'[e] = "DELETED" /\ e \in raced')
      BY DEF HeldIsLive
    <2>1. e \in job[q].held /\ e # d /\ job[q].pc \in Writing
      BY <1>4
    <2>2. e \in Doc
      BY <1>0, <2>1 DEF JobRecord
    <2> QED BY <1>1, <1>2, <2>1, <2>2 DEF EvidenceInv, HeldIsLive
  <1>7. MineIsArtifacts'
    BY <1>4 DEF EvidenceInv, MineIsArtifacts
  <1>8. ChunksBeforeLinks'
    <2> SUFFICES ASSUME NEW q \in Job, job'[q].pc = "linkSummary",
                        NEW e \in job'[q].work \cap job'[q].held, docStatus'[e] = "ACTIVE"
                 PROVE  chunkStatus'[<<e, "summary">>] = "ACTIVE"
      BY DEF ChunksBeforeLinks
    <2>1. e \in job[q].work \cap job[q].held /\ e # d /\ job[q].pc = "linkSummary"
      BY <1>4
    <2>2. e \in Doc
      BY <1>0, <2>1 DEF JobRecord
    <2> QED BY <1>2, <1>3, <2>1, <2>2, SummaryChunk DEF EvidenceInv, ChunksBeforeLinks
  <1>9. ActiveIsSearchable'
    <2> SUFFICES ASSUME NEW e \in Doc, docStatus'[e] = "ACTIVE"
                 PROVE  Searchable(e)' \/ BeingWritten(e)' \/ e \in torn'
      BY DEF ActiveIsSearchable
    <2>1. e # d /\ docStatus[e] = "ACTIVE"
      BY <1>2
    <2>2. Searchable(e) => Searchable(e)'
      BY <1>1, <1>3, <2>1, SummaryChunk DEF Searchable, HardDeleteRows, ChunksOf
    <2>3. BeingWritten(e) => BeingWritten(e)'
      BY <1>4, <2>1 DEF BeingWritten
    <2> QED BY <1>1, <2>1, <2>2, <2>3 DEF EvidenceInv, ActiveIsSearchable
  <1> QED BY <1>5, <1>6, <1>7, <1>8, <1>9 DEF EvidenceInv

LEMMA ClearEvidence ==
  ASSUME EvidenceInv, TypeOK', NEW p \in Job, Clear(p)
  PROVE  EvidenceInv'
  <1>1. /\ docStatus' = [d \in Doc |-> "none"] /\ chunkStatus' = [c \in Chunk |-> "none"]
        /\ job' = [q \in Job |-> [job[q] EXCEPT !.held = {}, !.stale = {}, !.staleTables = {},
                                                !.oldRow = {}]]
    BY DEF Clear, WipeRows
  <1>2. ASSUME NEW q \in Job
        PROVE  job'[q].held = {} /\ job'[q].pc = job[q].pc /\ job'[q].mine = job[q].mine
    <2>1. job[q] \in JobRecord
      BY DEF EvidenceInv, TypeOK, JobTypeOK
    <2> QED BY <1>1, <2>1 DEF JobRecord
  <1>3. LiveChunkLiveDoc' /\ ActiveIsSearchable'
    BY <1>1 DEF LiveChunkLiveDoc, ActiveIsSearchable
  <1>4. HeldIsLive' /\ ChunksBeforeLinks'
    BY <1>2 DEF HeldIsLive, ChunksBeforeLinks
  <1>5. MineIsArtifacts'
    BY <1>2 DEF EvidenceInv, MineIsArtifacts
  <1> QED BY <1>3, <1>4, <1>5 DEF EvidenceInv

-----------------------------------------------------------------------------
(***************************************************************************)
(* The artifact commands write neither documents nor chunks.               *)
(***************************************************************************)
LEMMA PlanAside ==
  ASSUME EvidenceInv, NEW p \in Job, NEW type, NEW mine, NEW cites, NEW ret,
         Plan(p, type, mine, cites, ret),
         UNCHANGED <<docStatus, chunkStatus, chunkLinked, torn, raced>>,
         job[p].pc \notin {"insertSummary", "linkSummary"}
  PROVE  Aside(p)
  <1>1. TypeOK /\ job[p] \in JobRecord
    BY DEF EvidenceInv, TypeOK, JobTypeOK
  <1>2. PICK plan, held, uncited :
          Becomes(p, [job[p] EXCEPT !.pc = "insertArts", !.ret = ret, !.type = type,
                                    !.mine = mine, !.plan = plan, !.held = held,
                                    !.needs = held, !.uncited = uncited])
    BY DEF Plan
  <1> DEFINE r == [job[p] EXCEPT !.pc = "insertArts", !.ret = ret, !.type = type, !.mine = mine,
                       !.plan = plan, !.held = held, !.needs = held, !.uncited = uncited]
  <1>3. r.pc = "insertArts"
    BY <1>1 DEF JobRecord
  <1> HIDE DEF r
  <1> QED BY <1>1, <1>2, <1>3, BecomesAside DEF Writing, r

LEMMA ArtifactAside ==
  ASSUME EvidenceInv, NEW p \in Job, ArtifactStep(p) \/ ArtifactCommand(p)
  PROVE  Aside(p)
  <1>0. TypeOK /\ job[p] \in JobRecord
    BY DEF EvidenceInv, TypeOK, JobTypeOK
  <1>a. CASE Abandon(p)
    BY <1>a, AbandonAside
  <1>b. CASE ~Abandon(p)
    <2>1. UNCHANGED <<docStatus, chunkStatus, chunkLinked, torn, raced>>
      BY <1>b DEF storeVars, docVars, chunkVars, ArtifactStep, InsertArts, CiteChunks,
         LinkArts, RegenNext, RegenClaims, RegenSummary, Retire, ArtifactCommand, GenerateClaims,
         GenerateSummaries, GenerateInsight, Regenerate
    <2>2. job[p].pc \in {"idle", "insertArts", "linkArts", "regen", "regenClaims", "regenSummary"}
      BY DEF ArtifactStep, InsertArts, CiteChunks, LinkArts, RegenNext, RegenClaims,
         RegenSummary, Retire, ArtifactCommand, GenerateClaims, GenerateSummaries, GenerateInsight,
         Regenerate, Start
    <2>3. CASE InsertArts(p)
      <3>1. Goto(p, "linkArts")
        BY <2>3 DEF InsertArts
      <3> QED BY <2>1, <2>2, <3>1, GotoAside DEF Writing
    <2>4. CASE LinkArts(p)
      <3>1. Becomes(p, Returned(p)) \/ Goto(p, "bump")
        BY <1>b, <2>4 DEF LinkArts
      <3>2. CASE Becomes(p, Returned(p))
        BY <2>1, <2>2, <3>2, ReturnedAside
      <3>3. CASE Goto(p, "bump")
        BY <2>1, <2>2, <3>3, GotoAside DEF Writing
      <3> QED BY <3>1, <3>2, <3>3
    <2>5. CASE CiteChunks(p)
      <3>1. PICK a, active, uncited :
              Becomes(p, [job[p] EXCEPT !.uncited = uncited, !.plan[a] = active])
        BY <2>5 DEF CiteChunks
      <3> DEFINE r == [job[p] EXCEPT !.uncited = uncited, !.plan[a] = active]
      <3>2. r.pc = job[p].pc /\ job[p].pc = "linkArts"
        BY <1>0, <2>5 DEF JobRecord, CiteChunks
      <3> HIDE DEF r
      <3> QED BY <1>0, <2>1, <3>1, <3>2, BecomesAside DEF Writing, r
    <2>6. CASE RegenNext(p)
      <3>1. PICK d, work :
              Becomes(p, [job[p] EXCEPT !.pc = "regenClaims", !.scope = d, !.work = work])
        BY <2>6 DEF RegenNext
      <3> DEFINE r == [job[p] EXCEPT !.pc = "regenClaims", !.scope = d, !.work = work]
      <3>2. job[p].mine = {}
        BY <2>6 DEF RegenNext, EvidenceInv, MineIsArtifacts
      <3>3. r.pc = "regenClaims" /\ r.mine = {}
        BY <1>0, <3>2 DEF JobRecord
      <3> HIDE DEF r
      <3> QED BY <1>0, <2>1, <2>2, <3>1, <3>3, BecomesAside DEF Writing, r
    <2>7. CASE RegenClaims(p)
      <3>1. job[p].mine = {}
        BY <2>7 DEF RegenClaims, EvidenceInv, MineIsArtifacts
      <3>2. CASE Goto(p, "regenSummary")
        BY <2>1, <2>2, <3>1, <3>2, GotoAside DEF Writing
      <3>3. CASE ~Goto(p, "regenSummary")
        BY <1>b, <2>1, <2>2, <2>7, <3>3, PlanAside DEF RegenClaims, PlanClaims
      <3> QED BY <3>2, <3>3
    <2>8. CASE RegenSummary(p)
      <3>1. job[p].mine = {}
        BY <2>8 DEF RegenSummary, EvidenceInv, MineIsArtifacts
      <3>2. CASE Goto(p, "regen")
        BY <2>1, <2>2, <3>1, <3>2, GotoAside DEF Writing
      <3>3. CASE ~Goto(p, "regen")
        BY <2>1, <2>2, <2>8, <3>3, PlanAside DEF RegenSummary, PlanSummaries
      <3> QED BY <3>2, <3>3
    <2>9. CASE Retire(p)
      <3>1. Becomes(p, Idle) /\ Idle.mine = {} /\ Idle.pc \notin Writing
        BY <2>9 DEF Retire, Idle, Writing
      <3> QED BY <1>0, <2>1, <2>2, <3>1, BecomesAside
    <2>10. CASE GenerateClaims(p) \/ GenerateSummaries(p) \/ GenerateInsight(p)
      BY <2>1, <2>2, <2>10, PlanAside
      DEF GenerateClaims, GenerateSummaries, GenerateInsight, PlanClaims, PlanSummaries
    <2>11. CASE Regenerate(p)
      <3>1. PICK work, stale, staleTables :
              Becomes(p, [job[p] EXCEPT !.pc = "regen", !.work = work, !.stale = stale,
                                        !.staleTables = staleTables])
        BY <2>11 DEF Regenerate
      <3> DEFINE r == [job[p] EXCEPT !.pc = "regen", !.work = work, !.stale = stale,
                                     !.staleTables = staleTables]
      <3>2. job[p].mine = {}
        BY <2>11 DEF Regenerate, Start, EvidenceInv, MineIsArtifacts
      <3>3. r.pc = "regen" /\ r.mine = {}
        BY <1>0, <3>2 DEF JobRecord
      <3> HIDE DEF r
      <3> QED BY <1>0, <2>1, <2>2, <3>1, <3>3, BecomesAside DEF Writing, r
    <2>12. \/ InsertArts(p) \/ CiteChunks(p) \/ LinkArts(p) \/ RegenNext(p) \/ RegenClaims(p)
           \/ RegenSummary(p) \/ Retire(p) \/ Regenerate(p)
           \/ GenerateClaims(p) \/ GenerateSummaries(p) \/ GenerateInsight(p)
      BY DEF ArtifactStep, ArtifactCommand
    <2> QED BY <2>3, <2>4, <2>5, <2>6, <2>7, <2>8, <2>9, <2>10, <2>11, <2>12
  <1> QED BY <1>a, <1>b

\* So do the beginnings of register-documents and update-document, and its last step.
LEMMA CommandAside ==
  ASSUME EvidenceInv, NEW p \in Job, Register(p) \/ Update(p) \/ Supersede(p)
  PROVE  Aside(p)
  <1>0. TypeOK /\ job[p] \in JobRecord
    BY DEF EvidenceInv, TypeOK, JobTypeOK
  <1>1. job[p].pc \in {"idle", "supersede"} /\ job[p].mine = {}
    BY DEF Register, Update, Supersede, Start, EvidenceInv, MineIsArtifacts
  <1>2. UNCHANGED <<docStatus, chunkStatus, chunkLinked, torn, raced>>
    BY DEF Register, Update, Supersede, storeVars, docVars, chunkVars
  <1>3. CASE Register(p)
    <2>1. PICK batch, opts :
            Becomes(p, [job[p] EXCEPT !.pc = "check", !.work = batch, !.opts = opts])
      BY <1>3 DEF Register
    <2> DEFINE r == [job[p] EXCEPT !.pc = "check", !.work = batch, !.opts = opts]
    <2>2. r.pc = "check" /\ r.mine = {}
      BY <1>0, <1>1 DEF JobRecord
    <2> HIDE DEF r
    <2> QED BY <1>0, <1>1, <1>2, <2>1, <2>2, BecomesAside DEF Writing, r
  <1>4. CASE Update(p)
    <2>1. PICK batch, upd, old :
            Becomes(p, [job[p] EXCEPT !.pc = "updateDelete", !.work = batch, !.upd = upd,
                                      !.oldRow = {old}])
      BY <1>4 DEF Update
    <2> DEFINE r == [job[p] EXCEPT !.pc = "updateDelete", !.work = batch, !.upd = upd,
                                   !.oldRow = {old}]
    <2>2. r.pc = "updateDelete" /\ r.mine = {}
      BY <1>0, <1>1 DEF JobRecord
    <2> HIDE DEF r
    <2> QED BY <1>0, <1>1, <1>2, <2>1, <2>2, BecomesAside DEF Writing, r
  <1>5. CASE Supersede(p)
    <2>1. Becomes(p, Idle) /\ Idle.mine = {} /\ Idle.pc \notin Writing
      BY <1>5 DEF Supersede, Idle, Writing
    <2> QED BY <1>0, <1>1, <1>2, <2>1, BecomesAside
  <1> QED BY <1>3, <1>4, <1>5

LEMMA DeleteSoftCases ==
  ASSUME EvidenceInv, NEW p \in Job, DeleteSoft(p)
  PROVE  \E d \in Doc : SoftDeletes(p, d)
  BY DEF DeleteSoft, Start, SoftDeletes, Writing, EvidenceInv, MineIsArtifacts

LEMMA UpdateDeleteCases ==
  ASSUME EvidenceInv, NEW p \in Job, UpdateDelete(p)
  PROVE  Aside(p) \/ \E d \in Doc : SoftDeletes(p, d)
  <1>0. TypeOK /\ job[p] \in JobRecord
    BY DEF EvidenceInv, TypeOK, JobTypeOK
  <1> DEFINE old == job[p].upd.old
             r == [job[p] EXCEPT !.pc = "check", !.ret = "supersede"]
  <1>1. CASE Abandon(p)
    BY <1>1, AbandonAside
  <1>2. CASE ~Abandon(p)
    <2>1. SoftDelete(p, old) /\ Becomes(p, r) /\ job[p].pc = "updateDelete"
      BY <1>2 DEF UpdateDelete
    <2>2. job[p].mine = {} /\ r.pc = "check" /\ r.mine = job[p].mine
      BY <1>0, <2>1 DEF JobRecord, EvidenceInv, MineIsArtifacts
    <2> HIDE DEF r, old
    <2>3. job'[p] = r /\ \A q \in Job \ {p} : job'[q] = job[q]
      BY <1>0, <2>1, OnlyOne
    <2>4. CASE old \in Doc
      BY <2>1, <2>2, <2>3, <2>4 DEF SoftDeletes, Writing
    <2>5. CASE old \notin Doc
      <3>1. \A c \in Chunk : c \notin ChunksOf(old)
        BY <2>5 DEF Chunk, ChunksOf
      <3>2. \A q \in Job : old \notin job[q].held
        BY <1>0, <2>5 DEF TypeOK, JobTypeOK, JobRecord
      <3>3. UNCHANGED <<docStatus, chunkStatus, chunkLinked, torn, raced>>
        BY <1>0, <2>1, <2>5, <3>1, <3>2 DEF SoftDelete, SoftDeleteRows, TypeOK, StoreTypeOK
      <3> QED BY <1>0, <2>1, <2>2, <3>3, BecomesAside DEF Writing
    <2> QED BY <2>4, <2>5
  <1> QED BY <1>1, <1>2

LEMMA InitEvidence == Init => EvidenceInv
  <1>1. ASSUME Init PROVE EvidenceInv
    <2>1. TypeOK
      BY <1>1, InitType
    <2>2. \A p \in Job : job[p] = Idle
      BY <1>1 DEF Init, JobInit
    <2>3. Idle.pc \notin Writing /\ Idle.pc # "linkSummary" /\ Idle.mine = {}
      BY DEF Idle, Writing
    <2>4. HeldIsLive /\ MineIsArtifacts /\ ChunksBeforeLinks
      BY <2>2, <2>3 DEF HeldIsLive, MineIsArtifacts, ChunksBeforeLinks
    <2>5. LiveChunkLiveDoc /\ ActiveIsSearchable
      BY <1>1 DEF Init, StoreInit, LiveChunkLiveDoc, ActiveIsSearchable
    <2> QED BY <2>1, <2>4, <2>5 DEF EvidenceInv
  <1> QED BY <1>1

LEMMA NextEvidence ==
  ASSUME EvidenceInv, [Next]_vars
  PROVE  EvidenceInv'
  <1>1. TypeOK'
    BY NextType DEF EvidenceInv
  <1>2. CASE UNCHANGED vars
    BY <1>1, <1>2 DEF vars, storeVars, docVars, chunkVars, jobVars, EvidenceInv, LiveChunkLiveDoc,
       ActiveIsSearchable, Searchable, BeingWritten, HeldIsLive, MineIsArtifacts, ChunksBeforeLinks
  <1>3. CASE Next
    <2>1. PICK p \in Job : DocumentCommand(p) \/ ArtifactCommand(p) \/ JobStep(p) \/ Crash(p)
      BY <1>3 DEF Next
    <2>2. CASE DeleteSoft(p) \/ UpdateDelete(p)
      BY <1>1, <2>2, DeleteSoftCases, UpdateDeleteCases, SoftDeleteEvidence, AsideStep
    <2>3. CASE DeleteHard(p) \/ Clear(p) \/ IngestStep(p)
      BY <1>1, <2>3, HardDeleteEvidence, ClearEvidence, IngestEvidence
    <2>4. CASE Register(p) \/ Update(p) \/ Supersede(p) \/ Abandon(p)
      BY <1>1, <2>4, CommandAside, AbandonAside, AsideStep
    <2>5. CASE ArtifactCommand(p) \/ ArtifactStep(p)
      BY <1>1, <2>5, ArtifactAside, AsideStep
    <2> QED BY <2>1, <2>2, <2>3, <2>4, <2>5 DEF DocumentCommand, JobStep, UpdateStep, Crash
  <1> QED BY <1>2, <1>3

\* An ACTIVE chunk lies under an ACTIVE document, unless the soft delete
\* overtook the ingest that was still writing the document's chunks.
THEOREM ChunksFollowDocuments == Spec => []LiveChunkLiveDoc
  <1>1. EvidenceInv /\ [Next]_vars => EvidenceInv'
    BY NextEvidence
  <1>2. EvidenceInv => LiveChunkLiveDoc
    BY DEF EvidenceInv
  <1> QED BY InitEvidence, <1>1, <1>2, PTL DEF Spec

\* Retrieval reaches every ACTIVE document, but for those an ingest is still
\* writing and those whose ingest stopped between its transactions.
THEOREM Searchability == Spec => []ActiveIsSearchable
  <1>1. EvidenceInv /\ [Next]_vars => EvidenceInv'
    BY NextEvidence
  <1>2. EvidenceInv => ActiveIsSearchable
    BY DEF EvidenceInv
  <1> QED BY InitEvidence, <1>1, <1>2, PTL DEF Spec

-----------------------------------------------------------------------------
(***************************************************************************)
(* Insertions.  An ingest whose document rows are still there finds no     *)
(* chunk of theirs, whoever else ingests, deletes, updates or wipes.       *)
(***************************************************************************)
\* A row is written by one ingest: the INSERT of the documents takes new rows only.
HoldersApart ==
  \A p, q \in Job : p # q /\ job[p].pc \in Writing /\ job[q].pc \in Writing =>
    job[p].held \cap job[q].held = {}

\* No row, no chunk (ON DELETE CASCADE, and the foreign key).
ChunksNeedRows ==
  \A d \in Doc : docStatus[d] = "none" => \A kind \in Kind : chunkStatus[<<d, kind>>] = "none"

\* What an ingest has not come to is not there.
ChunksToCome ==
  \A p \in Job : \A d \in job[p].held :
    /\ job[p].pc \in Writing => chunkStatus[<<d, "fulltext">>] = "none"
    /\ job[p].pc = "insertSummary" => chunkStatus[<<d, "summary">>] = "none"

InsertInv == EvidenceInv /\ HoldersApart /\ ChunksNeedRows /\ ChunksToCome

LEMMA ChunkPairs ==
  ASSUME NEW d \in Doc, NEW kind \in Kind
  PROVE  <<d, kind>> \in Chunk /\ <<d, kind>>[1] = d
  BY DEF Chunk

LEMMA AsideInsert ==
  ASSUME InsertInv, EvidenceInv', NEW p \in Job, Aside(p)
  PROVE  InsertInv'
  <1>1. HoldersApart'
    BY DEF InsertInv, HoldersApart, Aside
  <1>2. ChunksNeedRows'
    BY DEF InsertInv, ChunksNeedRows, Aside
  <1>3. ChunksToCome'
    BY DEF InsertInv, ChunksToCome, Aside, Writing
  <1> QED BY <1>1, <1>2, <1>3 DEF InsertInv

\* Rows and chunks are marked, or go; no process begins to write.
LEMMA DeleteInsert ==
  ASSUME InsertInv, EvidenceInv',
         \A q \in Job : job'[q].pc \in Writing => job'[q].pc = job[q].pc /\ job'[q].held \subseteq job[q].held,
         \A d \in Doc : docStatus'[d] = "none" =>
           docStatus[d] = "none" \/ \A kind \in Kind : chunkStatus'[<<d, kind>>] = "none",
         \A c \in Chunk : chunkStatus[c] = "none" => chunkStatus'[c] = "none"
  PROVE  InsertInv'
  <1>0. \A q \in Job : job[q].held \subseteq Doc
    BY DEF InsertInv, EvidenceInv, TypeOK, JobTypeOK, JobRecord
  <1>1. HoldersApart'
    BY DEF InsertInv, HoldersApart
  <1>2. ChunksNeedRows'
    BY ChunkPairs DEF InsertInv, ChunksNeedRows
  <1>3. ChunksToCome'
    <2> SUFFICES ASSUME NEW q \in Job, NEW d \in job'[q].held, job'[q].pc \in Writing
                 PROVE  /\ chunkStatus'[<<d, "fulltext">>] = "none"
                        /\ job'[q].pc = "insertSummary" => chunkStatus'[<<d, "summary">>] = "none"
      BY DEF ChunksToCome, Writing
    <2>1. d \in Doc /\ d \in job[q].held /\ job[q].pc = job'[q].pc
      BY <1>0
    <2> QED BY <2>1, ChunkPairs DEF InsertInv, ChunksToCome, Kind
  <1> QED BY <1>1, <1>2, <1>3 DEF InsertInv

LEMMA InsertDocsInsert ==
  ASSUME InsertInv, EvidenceInv', NEW p \in Job, InsertDocs(p), ~Abandon(p)
  PROVE  InsertInv'
  <1> DEFINE batch == job[p].work
  <1>0. TypeOK /\ job[p] \in JobRecord /\ batch \subseteq Doc
    BY DEF InsertInv, EvidenceInv, TypeOK, JobTypeOK, JobRecord
  <1>1. /\ \A d \in batch : docStatus[d] = "none"
        /\ docStatus' = [d \in Doc |-> IF d \in batch THEN "ACTIVE" ELSE docStatus[d]]
        /\ Becomes(p, [job[p] EXCEPT !.pc = "insertSummary", !.held = batch])
        /\ UNCHANGED chunkStatus
    BY DEF InsertDocs, chunkVars
  <1>2. /\ job'[p].pc = "insertSummary" /\ job'[p].held = batch
        /\ \A q \in Job \ {p} : job'[q] = job[q]
    <2>1. /\ job'[p] = [job[p] EXCEPT !.pc = "insertSummary", !.held = batch]
          /\ \A q \in Job \ {p} : job'[q] = job[q]
      BY <1>0, <1>1, OnlyOne
    <2> QED BY <1>0, <2>1 DEF JobRecord
  <1>3. \A q \in Job : job[q].pc \in Writing => job[q].held \cap batch = {}
    BY <1>1 DEF InsertInv, EvidenceInv, HeldIsLive
  <1>4. HoldersApart'
    BY <1>2, <1>3 DEF InsertInv, HoldersApart
  <1>5. ChunksNeedRows'
    BY <1>1 DEF InsertInv, ChunksNeedRows
  <1>6. ChunksToCome'
    <2>1. \A d \in batch : \A kind \in Kind : chunkStatus[<<d, kind>>] = "none"
      BY <1>0, <1>1 DEF InsertInv, ChunksNeedRows
    <2> QED BY <1>1, <1>2, <2>1 DEF InsertInv, ChunksToCome, Kind
  <1> QED BY <1>4, <1>5, <1>6 DEF InsertInv

LEMMA InsertChunksInsert ==
  ASSUME InsertInv, EvidenceInv', NEW p \in Job, NEW kind \in Kind, ~Abandon(p),
         \/ InsertChunks(p, "summary", "insertSummary", "linkSummary") /\ kind = "summary"
         \/ InsertChunks(p, "fulltext", "insertFulltext", "linkFulltext") /\ kind = "fulltext"
  PROVE  InsertInv'
  <1> DEFINE next == IF kind = "summary" THEN "linkSummary" ELSE "linkFulltext"
             here == IF kind = "summary" THEN "insertSummary" ELSE "insertFulltext"
  <1>0. TypeOK /\ job[p].work \subseteq Doc /\ \A q \in Job : job[q].held \subseteq Doc
    BY DEF InsertInv, EvidenceInv, TypeOK, JobTypeOK, JobRecord
  <1>1. /\ job[p].pc = here /\ job[p].work \subseteq job[p].held
        /\ chunkStatus' = [c \in Chunk |-> IF c \in Batch(p, kind) THEN "ACTIVE" ELSE chunkStatus[c]]
        /\ Goto(p, next)
        /\ UNCHANGED docStatus
    BY DEF InsertChunks, RowsGone, docVars
  <1>2. /\ job'[p].pc = next /\ job'[p].held = job[p].held
        /\ \A q \in Job \ {p} : job'[q] = job[q]
    BY <1>0, <1>1, GotoOnly
  <1>3. job[p].pc \in Writing
    BY <1>1 DEF Writing
  <1>4. \A d \in Doc, k \in Kind :
          k # kind \/ d \notin job[p].held => chunkStatus'[<<d, k>>] = chunkStatus[<<d, k>>]
    BY <1>1, ChunkPairs DEF Batch
  <1>5. HoldersApart'
    BY <1>2, <1>3 DEF InsertInv, HoldersApart
  <1>6. ChunksNeedRows'
    <2>1. \A d \in job[p].held : docStatus[d] # "none"
      BY <1>3 DEF InsertInv, EvidenceInv, HeldIsLive
    <2> QED BY <1>1, <1>4, <2>1 DEF InsertInv, ChunksNeedRows
  <1>7. ChunksToCome'
    <2>1. ASSUME NEW q \in Job \ {p}, NEW d \in job'[q].held, job'[q].pc \in Writing, NEW k \in Kind
          PROVE  chunkStatus'[<<d, k>>] = chunkStatus[<<d, k>>]
      <3>1. d \in Doc /\ d \notin job[p].held
        BY <1>0, <1>2, <1>3, <2>1 DEF InsertInv, HoldersApart
      <3> QED BY <1>4, <3>1
    <2>2. ASSUME NEW d \in job'[p].held, job'[p].pc \in Writing
          PROVE  chunkStatus'[<<d, "fulltext">>] = "none" /\ job'[p].pc # "insertSummary"
      <3>1. kind = "summary" /\ job'[p].pc = "linkSummary"
        BY <1>2, <2>2 DEF Writing, Kind
      <3>2. chunkStatus[<<d, "fulltext">>] = "none" /\ d \in Doc
        BY <1>0, <1>2, <1>3, <2>2 DEF InsertInv, ChunksToCome
      <3> QED BY <1>4, <3>1, <3>2 DEF Kind
    <2>3. ASSUME NEW q \in Job \ {p}, NEW d \in job'[q].held, job'[q].pc \in Writing
          PROVE  /\ chunkStatus'[<<d, "fulltext">>] = "none"
                 /\ job'[q].pc = "insertSummary" => chunkStatus'[<<d, "summary">>] = "none"
      <3>1. job'[q] = job[q] /\ job[q].pc \in Writing /\ d \in job[q].held
        BY <1>2, <2>3
      <3>2. /\ chunkStatus[<<d, "fulltext">>] = "none"
            /\ job[q].pc = "insertSummary" => chunkStatus[<<d, "summary">>] = "none"
        BY <3>1 DEF InsertInv, ChunksToCome
      <3> QED BY <2>1, <2>3, <3>1, <3>2 DEF Kind
    <2>4. "insertSummary" \in Writing
      BY DEF Writing
    <2> QED BY <2>2, <2>3, <2>4 DEF ChunksToCome
  <1> QED BY <1>5, <1>6, <1>7 DEF InsertInv

LEMMA LinkSummaryInsert ==
  ASSUME InsertInv, EvidenceInv', NEW p \in Job, LinkSummaryChunks(p), ~Abandon(p)
  PROVE  InsertInv'
  <1> DEFINE next == AfterSummary(p)
  <1>0. TypeOK
    BY DEF InsertInv, EvidenceInv
  <1>1. job[p].pc = "linkSummary" /\ Goto(p, next) /\ UNCHANGED <<docStatus, chunkStatus>>
    BY DEF LinkSummaryChunks, LinkChunks, docVars
  <1>2. /\ job'[p].pc = next /\ job'[p].held = job[p].held
        /\ \A q \in Job \ {p} : job'[q] = job[q]
    BY <1>0, <1>1, GotoOnly
  <1>3. next # "insertSummary" /\ job[p].pc \in Writing
    BY <1>1 DEF AfterSummary, AfterChunks, Writing
  <1>4. HoldersApart' /\ ChunksNeedRows'
    BY <1>1, <1>2, <1>3 DEF InsertInv, HoldersApart, ChunksNeedRows
  <1>5. ChunksToCome'
    BY <1>1, <1>2, <1>3 DEF InsertInv, ChunksToCome
  <1> QED BY <1>4, <1>5 DEF InsertInv

LEMMA InitInsert == Init => InsertInv
  <1>1. ASSUME Init PROVE InsertInv
    <2>1. \A p \in Job : job[p].pc \notin Writing
      BY <1>1 DEF Init, JobInit, Idle, Writing
    <2>2. HoldersApart /\ ChunksToCome
      BY <2>1 DEF HoldersApart, ChunksToCome, Writing
    <2>3. ChunksNeedRows
      BY <1>1, ChunkPairs DEF Init, StoreInit, ChunksNeedRows
    <2> QED BY <1>1, <2>2, <2>3, InitEvidence DEF InsertInv
  <1> QED BY <1>1

LEMMA NextInsert ==
  ASSUME InsertInv, [Next]_vars
  PROVE  InsertInv'
  <1>1. EvidenceInv /\ EvidenceInv'
    BY NextEvidence DEF InsertInv
  <1>0. TypeOK /\ \A q \in Job : job[q] \in JobRecord
    BY <1>1 DEF EvidenceInv, TypeOK, JobTypeOK
  <1>2. CASE UNCHANGED vars
    BY <1>1, <1>2 DEF vars, storeVars, docVars, chunkVars, jobVars, InsertInv, HoldersApart,
       ChunksNeedRows, ChunksToCome
  <1>3. CASE Next
    <2>1. PICK p \in Job : DocumentCommand(p) \/ ArtifactCommand(p) \/ JobStep(p) \/ Crash(p)
      BY <1>3 DEF Next
    <2>2. ASSUME NEW d \in Doc, SoftDeletes(p, d) PROVE InsertInv'
      <3>1. /\ docStatus' = [docStatus EXCEPT ![d] = "DELETED"]
            /\ \A c \in Chunk : chunkStatus[c] = "none" => chunkStatus'[c] = "none"
        BY <2>2 DEF SoftDeletes, SoftDelete, SoftDeleteRows
      <3>2. \A e \in Doc : docStatus'[e] = "none" => docStatus[e] = "none"
        BY <1>0, <3>1 DEF TypeOK, StoreTypeOK
      <3> QED BY <1>1, <2>2, <3>1, <3>2, DeleteInsert DEF SoftDeletes
    <2>3. CASE DeleteSoft(p) \/ UpdateDelete(p)
      BY <1>1, <2>2, <2>3, DeleteSoftCases, UpdateDeleteCases, AsideInsert
    <2>4. CASE DeleteHard(p)
      <3>1. PICK d \in Doc : HardDeleteRows(d) /\ job' = [q \in Job |-> Forgotten(q, d)]
        BY <2>4 DEF DeleteHard
      <3>2. \A q \in Job : job'[q].pc = job[q].pc /\ job'[q].held \subseteq job[q].held
        <4> SUFFICES ASSUME NEW q \in Job
                     PROVE  job'[q].pc = job[q].pc /\ job'[q].held \subseteq job[q].held
          OBVIOUS
        <4> QED BY <1>0, <3>1 DEF Forgotten, JobRecord
      <3>3. /\ docStatus' = [docStatus EXCEPT ![d] = "none"]
            /\ chunkStatus' = [c \in Chunk |-> IF c \in ChunksOf(d) THEN "none" ELSE chunkStatus[c]]
        BY <3>1 DEF HardDeleteRows
      <3>4. \A kind \in Kind : chunkStatus'[<<d, kind>>] = "none"
        BY <3>3, ChunkPairs, ChunkOwner
      <3> QED BY <1>0, <1>1, <3>2, <3>3, <3>4, DeleteInsert DEF TypeOK, StoreTypeOK
    <2>5. CASE Clear(p)
      <3>1. \A q \in Job : job'[q].pc = job[q].pc /\ job'[q].held \subseteq job[q].held
        <4> SUFFICES ASSUME NEW q \in Job
                     PROVE  job'[q].pc = job[q].pc /\ job'[q].held \subseteq job[q].held
          OBVIOUS
        <4>1. job'[q] = [job[q] EXCEPT !.held = {}, !.stale = {}, !.staleTables = {}, !.oldRow = {}]
          BY <2>5 DEF Clear
        <4> QED BY <1>0, <4>1 DEF JobRecord
      <3>2. \A c \in Chunk : chunkStatus'[c] = "none"
        BY <2>5 DEF Clear, WipeRows
      <3> QED BY <1>1, <3>1, <3>2, ChunkPairs, DeleteInsert
    <2>6. CASE Register(p) \/ Update(p) \/ Supersede(p) \/ Abandon(p) \/ ArtifactCommand(p) \/ ArtifactStep(p)
      BY <1>1, <2>6, CommandAside, AbandonAside, ArtifactAside, AsideInsert
    <2>7. CASE IngestStep(p) /\ ~Abandon(p)
      <3>1. CASE InsertDocs(p)
        BY <1>1, <2>7, <3>1, InsertDocsInsert
      <3>2. CASE InsertSummaryChunks(p)
        BY <1>1, <2>7, <3>2, InsertChunksInsert DEF InsertSummaryChunks, Kind
      <3>3. CASE LinkSummaryChunks(p)
        BY <1>1, <2>7, <3>3, LinkSummaryInsert
      <3>4. CASE InsertFulltextChunks(p)
        BY <1>1, <2>7, <3>4, InsertChunksInsert DEF InsertFulltextChunks, Kind
      <3> QED BY <1>1, <2>7, <3>1, <3>2, <3>3, <3>4, IngestAside, AsideInsert DEF IngestStep
    <2> QED BY <2>1, <2>3, <2>4, <2>5, <2>6, <2>7 DEF DocumentCommand, JobStep, UpdateStep, Crash
  <1> QED BY <1>2, <1>3

\* The chunk INSERTs meet no chunk of the same document: for any number of
\* processes, wherever they die, the ON CONFLICT clause is not missed.
THEOREM InsertsNeverCollide == Spec => []ChunkInsertNeverCollides
  <1>1. InsertInv /\ [Next]_vars => InsertInv'
    BY NextInsert
  <1>2. InsertInv => ChunkInsertNeverCollides
    BY DEF InsertInv, ChunksToCome, ChunkInsertNeverCollides, RowsGone, Kind, Writing
  <1> QED BY InitInsert, <1>1, <1>2, PTL DEF Spec

-----------------------------------------------------------------------------
(***************************************************************************)
(* A torn document stays unsearchable: the one ingest that could still     *)
(* write its summary chunks is the one that has stopped.                   *)
(***************************************************************************)
Ingesting(p) == job[p].pc \in IngestPc /\ job[p].mine = {}

GeneratorsHaveArts ==
  \A p \in Job : job[p].pc \in {"insertArts", "linkArts"} => job[p].mine # {}

\* As long as an ingest holds the id of a row, the row is there.
IngestRows == \A p \in Job : Ingesting(p) => \A d \in job[p].held : docStatus[d] # "none"

IngestersApart ==
  \A p, q \in Job : p # q /\ Ingesting(p) /\ Ingesting(q) => job[p].held \cap job[q].held = {}

TornRows == \A d \in torn : docStatus[d] # "none"

\* Nobody is about to write the summary chunks of a torn document.
TornNotHeld == \A p \in Job : job[p].pc = "insertSummary" => job[p].held \cap torn = {}

TornInv ==
  /\ InsertInv
  /\ GeneratorsHaveArts /\ IngestRows /\ IngestersApart /\ TornRows /\ TornNotHeld

LEMMA TornSorts ==
  ASSUME InsertInv
  PROVE  /\ TypeOK /\ torn \subseteq Doc
         /\ \A q \in Job : job[q] \in JobRecord /\ job[q].held \subseteq Doc
         /\ \A q \in Job : job[q].pc = "insertSummary" => Ingesting(q)
  BY DEF InsertInv, EvidenceInv, TypeOK, JobTypeOK, JobRecord, MineIsArtifacts, Ingesting, IngestPc

\* A step that inserts and removes no document.
Ordinary(p) ==
  /\ UNCHANGED docStatus
  /\ \A q \in Job \ {p} : job'[q] = job[q]
  /\ torn' \subseteq torn \cup {d \in job[p].held : Ingesting(p)}
  /\ job'[p].pc # "insertSummary"
  /\ Ingesting(p)' => Ingesting(p) /\ job'[p].held = job[p].held
  /\ job'[p].pc \in {"insertArts", "linkArts"} => job'[p].mine # {}

LEMMA OrdinaryStep ==
  ASSUME TornInv, InsertInv', NEW p \in Job, Ordinary(p)
  PROVE  TornInv'
  <1>0. \A q \in Job : job[q].pc = "insertSummary" => Ingesting(q)
    BY TornSorts DEF TornInv
  <1>1. \A q \in Job : Ingesting(q)' => Ingesting(q) /\ job'[q].held = job[q].held
    BY DEF Ordinary, Ingesting
  <1>2. GeneratorsHaveArts'
    BY DEF TornInv, GeneratorsHaveArts, Ordinary
  <1>3. IngestRows' /\ IngestersApart'
    BY <1>1 DEF TornInv, IngestRows, IngestersApart, Ordinary
  <1>4. TornRows'
    BY DEF TornInv, TornRows, IngestRows, Ordinary
  <1>5. TornNotHeld'
    <2> SUFFICES ASSUME NEW q \in Job, job'[q].pc = "insertSummary"
                 PROVE  job'[q].held \cap torn' = {}
      BY DEF TornNotHeld
    <2>1. q # p /\ job'[q] = job[q]
      BY DEF Ordinary
    <2>2. Ingesting(p) => job[q].held \cap job[p].held = {}
      BY <1>0, <2>1 DEF TornInv, IngestersApart
    <2> QED BY <2>1, <2>2 DEF TornInv, TornNotHeld, Ordinary
  <1> QED BY <1>2, <1>3, <1>4, <1>5 DEF TornInv

LEMMA BecomesOrdinary ==
  ASSUME TypeOK, NEW p \in Job, NEW r, Becomes(p, r), UNCHANGED <<docStatus, torn>>,
         r.pc \notin IngestPc, r.pc \in {"insertArts", "linkArts"} => r.mine # {}
  PROVE  Ordinary(p)
  BY OnlyOne DEF Ordinary, Ingesting, IngestPc

LEMMA ReturnedOrdinary ==
  ASSUME TypeOK, NEW p \in Job, Becomes(p, Returned(p)), UNCHANGED <<docStatus, torn>>
  PROVE  Ordinary(p)
  <1>1. Returned(p).pc \notin IngestPc \cup {"insertArts", "linkArts"}
    <2>0. job[p] \in JobRecord
      BY DEF TypeOK, JobTypeOK
    <2>1. CASE job[p].ret = "idle"
      BY <2>1 DEF Returned, Idle, IngestPc
    <2>2. CASE job[p].ret # "idle"
      BY <2>0, <2>2 DEF Returned, JobRecord, IngestPc
    <2> QED BY <2>1, <2>2
  <1> QED BY <1>1, BecomesOrdinary

LEMMA AbandonOrdinary ==
  ASSUME TypeOK, NEW p \in Job, Abandon(p)
  PROVE  Ordinary(p)
  <1>1. job'[p] = Idle /\ \A q \in Job \ {p} : job'[q] = job[q]
    BY OnlyOne DEF Abandon
  <1>2. Idle.pc = "idle" /\ UNCHANGED docStatus
    BY DEF Idle, Abandon, storeVars, docVars
  <1>3. torn' \subseteq torn \cup {d \in job[p].held : Ingesting(p)}
    BY DEF Abandon, Ingesting
  <1> QED BY <1>1, <1>2, <1>3 DEF Ordinary, Ingesting, IngestPc

\* An ingest moves on with the rows it holds; a generator goes to its bump.
LEMMA GotoOrdinary ==
  ASSUME TypeOK, NEW p \in Job, NEW pc, Goto(p, pc), UNCHANGED <<docStatus, torn>>,
         pc # "insertSummary",
         pc \in IngestPc => job[p].pc \in IngestPc \/ job[p].mine # {},
         pc \in {"insertArts", "linkArts"} => job[p].mine # {}
  PROVE  Ordinary(p)
  <1>1. job'[p] = [job[p] EXCEPT !.pc = pc] /\ \A q \in Job \ {p} : job'[q] = job[q]
    BY OnlyOne DEF Goto
  <1>2. job'[p].pc = pc /\ job'[p].held = job[p].held /\ job'[p].mine = job[p].mine
    BY <1>1 DEF TypeOK, JobTypeOK, JobRecord
  <1> QED BY <1>1, <1>2 DEF Ordinary, Ingesting

LEMMA IngestOrdinary ==
  ASSUME TypeOK, NEW p \in Job, IngestStep(p), ~Abandon(p), ~InsertDocs(p)
  PROVE  Ordinary(p)
  <1>0. job[p] \in JobRecord
    BY DEF TypeOK, JobTypeOK
  <1>1. UNCHANGED <<docStatus, torn>>
    BY DEF IngestStep, DupCheck, InsertSummaryChunks, LinkSummaryChunks, InsertFulltextChunks,
       LinkFulltextChunks, InsertChunks, LinkChunks, InsertTables, LinkTables, Bump, storeVars,
       docVars
  <1>2. CASE DupCheck(p)
    <2>1. PICK work : \/ Becomes(p, Returned(p))
                      \/ Becomes(p, [job[p] EXCEPT !.pc = "insertDocs", !.work = work])
      BY <1>2 DEF DupCheck
    <2> DEFINE r == [job[p] EXCEPT !.pc = "insertDocs", !.work = work]
    <2>2. r.pc \notin IngestPc \cup {"insertArts", "linkArts"}
      BY <1>0 DEF JobRecord, IngestPc
    <2>3. Becomes(p, Returned(p)) \/ Becomes(p, r)
      BY <2>1
    <2> HIDE DEF r
    <2> QED BY <1>1, <2>2, <2>3, BecomesOrdinary, ReturnedOrdinary
  <1>3. CASE ~DupCheck(p) /\ ~Bump(p)
    <2>1. PICK pc : Goto(p, pc) /\ pc \notin {"insertSummary", "insertArts", "linkArts"}
      BY <1>3 DEF IngestStep, InsertSummaryChunks, LinkSummaryChunks, InsertFulltextChunks,
         LinkFulltextChunks, InsertChunks, LinkChunks, InsertTables, LinkTables, AfterSummary,
         AfterChunks
    <2>2. job[p].pc \in IngestPc
      BY <1>3 DEF IngestStep, InsertSummaryChunks, LinkSummaryChunks, InsertFulltextChunks,
         LinkFulltextChunks, InsertChunks, LinkChunks, InsertTables, LinkTables, IngestPc
    <2> QED BY <1>1, <2>1, <2>2, GotoOrdinary
  <1>4. CASE Bump(p)
    BY <1>1, <1>4, ReturnedOrdinary DEF Bump
  <1> QED BY <1>2, <1>3, <1>4

LEMMA PlanOrdinary ==
  ASSUME TypeOK, NEW p \in Job, NEW type, NEW mine, NEW cites, NEW ret,
         Plan(p, type, mine, cites, ret), UNCHANGED <<docStatus, torn>>
  PROVE  Ordinary(p)
  <1>0. job[p] \in JobRecord
    BY DEF TypeOK, JobTypeOK
  <1>1. PICK plan, held, uncited :
          Becomes(p, [job[p] EXCEPT !.pc = "insertArts", !.ret = ret, !.type = type,
                                    !.mine = mine, !.plan = plan, !.held = held,
                                    !.needs = held, !.uncited = uncited])
    BY DEF Plan
  <1> DEFINE r == [job[p] EXCEPT !.pc = "insertArts", !.ret = ret, !.type = type, !.mine = mine,
                       !.plan = plan, !.held = held, !.needs = held, !.uncited = uncited]
  <1>2. r.pc = "insertArts" /\ r.mine = mine /\ mine # {}
    BY <1>0 DEF JobRecord, Plan
  <1>3. Becomes(p, r)
    BY <1>1
  <1> HIDE DEF r
  <1> QED BY <1>2, <1>3, BecomesOrdinary DEF IngestPc

LEMMA ArtifactOrdinary ==
  ASSUME TornInv, NEW p \in Job, ArtifactStep(p) \/ ArtifactCommand(p), ~Abandon(p)
  PROVE  Ordinary(p)
  <1>0. TypeOK /\ job[p] \in JobRecord
    BY TornSorts DEF TornInv
  <1>1. UNCHANGED <<docStatus, torn>>
    BY DEF ArtifactStep, InsertArts, CiteChunks, LinkArts, RegenNext, RegenClaims, RegenSummary,
       Retire, ArtifactCommand, GenerateClaims, GenerateSummaries, GenerateInsight, Regenerate,
       storeVars, docVars
  <1>2. CASE InsertArts(p) \/ LinkArts(p)
    <2>1. job[p].mine # {}
      BY <1>2 DEF TornInv, GeneratorsHaveArts, InsertArts, LinkArts
    <2>2. Becomes(p, Returned(p)) \/ Goto(p, "bump") \/ Goto(p, "linkArts")
      BY <1>2 DEF InsertArts, LinkArts
    <2> QED BY <1>0, <1>1, <2>1, <2>2, ReturnedOrdinary, GotoOrdinary
  <1>3. CASE CiteChunks(p)
    <2>1. PICK a, active, uncited :
            Becomes(p, [job[p] EXCEPT !.uncited = uncited, !.plan[a] = active])
      BY <1>3 DEF CiteChunks
    <2> DEFINE r == [job[p] EXCEPT !.uncited = uncited, !.plan[a] = active]
    <2>2. r.pc = "linkArts" /\ r.mine = job[p].mine /\ job[p].mine # {}
      BY <1>0, <1>3 DEF JobRecord, CiteChunks, TornInv, GeneratorsHaveArts
    <2>3. Becomes(p, r)
      BY <2>1
    <2> HIDE DEF r
    <2> QED BY <1>0, <1>1, <2>2, <2>3, BecomesOrdinary DEF IngestPc
  <1>4. CASE RegenNext(p)
    <2>1. PICK d, work :
            Becomes(p, [job[p] EXCEPT !.pc = "regenClaims", !.scope = d, !.work = work])
      BY <1>4 DEF RegenNext
    <2> DEFINE r == [job[p] EXCEPT !.pc = "regenClaims", !.scope = d, !.work = work]
    <2>2. r.pc = "regenClaims" /\ Becomes(p, r)
      BY <1>0, <2>1 DEF JobRecord
    <2> HIDE DEF r
    <2> QED BY <1>0, <1>1, <2>2, BecomesOrdinary DEF IngestPc
  <1>5. CASE Regenerate(p)
    <2>1. PICK work, stale, tables :
            Becomes(p, [job[p] EXCEPT !.pc = "regen", !.work = work, !.stale = stale,
                                      !.staleTables = tables])
      BY <1>5 DEF Regenerate
    <2> DEFINE r == [job[p] EXCEPT !.pc = "regen", !.work = work, !.stale = stale,
                                   !.staleTables = tables]
    <2>2. r.pc = "regen" /\ Becomes(p, r)
      BY <1>0, <2>1 DEF JobRecord
    <2> HIDE DEF r
    <2> QED BY <1>0, <1>1, <2>2, BecomesOrdinary DEF IngestPc
  <1>6. CASE Retire(p)
    BY <1>0, <1>1, <1>6, BecomesOrdinary DEF Retire, Idle, IngestPc
  <1>7. CASE \/ RegenClaims(p) \/ RegenSummary(p)
             \/ GenerateClaims(p) \/ GenerateSummaries(p) \/ GenerateInsight(p)
    <2>1. CASE Goto(p, "regenSummary") \/ Goto(p, "regen")
      BY <1>0, <1>1, <2>1, GotoOrdinary DEF IngestPc
    <2>2. CASE \E type, mine, cites, ret : Plan(p, type, mine, cites, ret)
      BY <1>0, <1>1, <2>2, PlanOrdinary
    <2>3. CASE \/ \E chunks, ret : PlanClaims(p, chunks, ret)
               \/ \E docs, ret : PlanSummaries(p, docs, ret)
      BY <2>2, <2>3 DEF PlanClaims, PlanSummaries
    <2>4. GenerateClaims(p) => \E chunks, ret : PlanClaims(p, chunks, ret)
      BY DEF GenerateClaims
    <2>5. GenerateSummaries(p) => \E docs, ret : PlanSummaries(p, docs, ret)
      BY DEF GenerateSummaries
    <2>6. GenerateInsight(p) => \E type, mine, cites, ret : Plan(p, type, mine, cites, ret)
      BY DEF GenerateInsight
    <2>7. RegenClaims(p) => (\E chunks, ret : PlanClaims(p, chunks, ret)) \/ Goto(p, "regenSummary")
      BY DEF RegenClaims
    <2>8. RegenSummary(p) => (\E docs, ret : PlanSummaries(p, docs, ret)) \/ Goto(p, "regen")
      BY DEF RegenSummary
    <2> QED BY <1>7, <2>1, <2>2, <2>3, <2>4, <2>5, <2>6, <2>7, <2>8
  <1> QED BY <1>2, <1>3, <1>4, <1>5, <1>6, <1>7 DEF ArtifactStep, ArtifactCommand

LEMMA CommandOrdinary ==
  ASSUME TypeOK, NEW p \in Job, Register(p) \/ Update(p) \/ Supersede(p)
  PROVE  Ordinary(p)
  <1>0. job[p] \in JobRecord
    BY DEF TypeOK, JobTypeOK
  <1>1. UNCHANGED <<docStatus, torn>>
    BY DEF Register, Update, Supersede, storeVars, docVars
  <1>2. CASE Register(p)
    <2>1. PICK batch, opts :
            Becomes(p, [job[p] EXCEPT !.pc = "check", !.work = batch, !.opts = opts])
      BY <1>2 DEF Register
    <2> DEFINE r == [job[p] EXCEPT !.pc = "check", !.work = batch, !.opts = opts]
    <2>2. r.pc = "check" /\ Becomes(p, r)
      BY <1>0, <2>1 DEF JobRecord
    <2> HIDE DEF r
    <2> QED BY <1>1, <2>2, BecomesOrdinary DEF IngestPc
  <1>3. CASE Update(p)
    <2>1. PICK batch, upd, old :
            Becomes(p, [job[p] EXCEPT !.pc = "updateDelete", !.work = batch, !.upd = upd,
                                      !.oldRow = {old}])
      BY <1>3 DEF Update
    <2> DEFINE r == [job[p] EXCEPT !.pc = "updateDelete", !.work = batch, !.upd = upd,
                                   !.oldRow = {old}]
    <2>2. r.pc = "updateDelete" /\ Becomes(p, r)
      BY <1>0, <2>1 DEF JobRecord
    <2> HIDE DEF r
    <2> QED BY <1>1, <2>2, BecomesOrdinary DEF IngestPc
  <1>4. CASE Supersede(p)
    BY <1>1, <1>4, BecomesOrdinary DEF Supersede, Idle, IngestPc
  <1> QED BY <1>2, <1>3, <1>4

LEMMA InsertDocsTorn ==
  ASSUME TornInv, InsertInv', NEW p \in Job, InsertDocs(p), ~Abandon(p)
  PROVE  TornInv'
  <1> DEFINE batch == job[p].work
             r == [job[p] EXCEPT !.pc = "insertSummary", !.held = batch]
  <1>0. TypeOK /\ job[p] \in JobRecord /\ torn \subseteq Doc /\ batch \subseteq Doc
    BY TornSorts DEF TornInv, JobRecord
  <1>1. /\ \A d \in batch : docStatus[d] = "none"
        /\ docStatus' = [d \in Doc |-> IF d \in batch THEN "ACTIVE" ELSE docStatus[d]]
        /\ Becomes(p, r) /\ torn' = torn
    BY DEF InsertDocs
  <1>2. r.pc = "insertSummary" /\ r.held = batch
    BY <1>0 DEF JobRecord
  <1> HIDE DEF r
  <1>3. job'[p] = r /\ \A q \in Job \ {p} : job'[q] = job[q]
    BY <1>0, <1>1, OnlyOne
  <1>4. /\ batch \cap torn = {}
        /\ \A q \in Job : Ingesting(q) => job[q].held \cap batch = {}
    BY <1>1 DEF TornInv, TornRows, IngestRows
  <1>5. \A q \in Job \ {p} : Ingesting(q)' = Ingesting(q)
    BY <1>3 DEF Ingesting
  <1>6. GeneratorsHaveArts'
    BY <1>2, <1>3 DEF TornInv, GeneratorsHaveArts
  <1>7. IngestRows'
    <2> SUFFICES ASSUME NEW q \in Job, Ingesting(q)', NEW d \in job'[q].held
                 PROVE  docStatus'[d] # "none"
      BY DEF IngestRows
    <2>1. \A e \in Doc : docStatus[e] # "none" \/ e \in batch => docStatus'[e] # "none"
      BY <1>1
    <2>2. job[q].held \subseteq Doc
      BY TornSorts DEF TornInv
    <2> QED BY <1>0, <1>2, <1>3, <1>5, <2>1, <2>2 DEF TornInv, IngestRows
  <1>8. IngestersApart'
    BY <1>2, <1>3, <1>4, <1>5 DEF TornInv, IngestersApart
  <1>9. TornRows'
    BY <1>0, <1>1 DEF TornInv, TornRows
  <1>10. TornNotHeld'
    BY <1>1, <1>2, <1>3, <1>4 DEF TornInv, TornNotHeld
  <1> QED BY <1>6, <1>7, <1>8, <1>9, <1>10 DEF TornInv

\* A deletion: rows are marked, or go with the ids that name them.
LEMMA DeleteTorn ==
  ASSUME TornInv, InsertInv', torn' \subseteq torn,
         \A q \in Job : /\ job'[q].pc \in IngestPc \cup {"insertArts", "linkArts"} =>
                             job'[q].pc = job[q].pc /\ job'[q].mine = job[q].mine
                        /\ job'[q].held \subseteq job[q].held,
         \A d \in Doc : docStatus'[d] = "none" /\ docStatus[d] # "none" =>
           d \notin torn' /\ \A q \in Job : d \notin job'[q].held
  PROVE  TornInv'
  <1>0. torn \subseteq Doc /\ \A q \in Job : job[q].held \subseteq Doc
    BY TornSorts DEF TornInv
  <1>1. \A q \in Job : Ingesting(q)' => Ingesting(q)
    BY DEF Ingesting
  <1>2. GeneratorsHaveArts' /\ TornNotHeld'
    BY DEF TornInv, GeneratorsHaveArts, TornNotHeld, IngestPc
  <1>3. IngestRows' /\ IngestersApart'
    BY <1>0, <1>1 DEF TornInv, IngestRows, IngestersApart
  <1>4. TornRows'
    BY <1>0 DEF TornInv, TornRows
  <1> QED BY <1>2, <1>3, <1>4 DEF TornInv

LEMMA NextTorn ==
  ASSUME TornInv, [Next]_vars
  PROVE  TornInv'
  <1>0. InsertInv' /\ TypeOK /\ \A q \in Job : job[q] \in JobRecord
    BY NextInsert, TornSorts DEF TornInv
  <1>1. CASE UNCHANGED vars
    BY <1>0, <1>1 DEF vars, storeVars, docVars, jobVars, TornInv, GeneratorsHaveArts, IngestRows,
       IngestersApart, TornRows, TornNotHeld, Ingesting
  <1>2. CASE Next
    <2>1. PICK p \in Job : DocumentCommand(p) \/ ArtifactCommand(p) \/ JobStep(p) \/ Crash(p)
      BY <1>2 DEF Next
    <2>2. CASE Ordinary(p)
      BY <1>0, <2>2, OrdinaryStep
    <2>3. CASE Register(p) \/ Update(p) \/ Supersede(p) \/ Abandon(p) \/ ArtifactCommand(p) \/ ArtifactStep(p)
      BY <1>0, <2>2, <2>3, CommandOrdinary, AbandonOrdinary, ArtifactOrdinary
    <2>4. CASE IngestStep(p) /\ ~Abandon(p)
      BY <1>0, <2>2, <2>4, IngestOrdinary, InsertDocsTorn
    <2>5. CASE DeleteSoft(p)
      <3>1. PICK d \in Doc : SoftDeleteRows(d) /\ docStatus[d] # "none"
        BY <2>5 DEF DeleteSoft, SoftDelete
      <3>2. job' = job /\ torn' = torn
        BY <2>5 DEF DeleteSoft, SoftDelete
      <3>3. \A e \in Doc : docStatus'[e] = "none" => docStatus[e] = "none"
        BY <1>0, <3>1 DEF SoftDeleteRows, TypeOK, StoreTypeOK
      <3> QED BY <1>0, <3>2, <3>3, DeleteTorn
    <2>6. CASE UpdateDelete(p) /\ ~Abandon(p)
      <3> DEFINE old == job[p].upd.old
                 r == [job[p] EXCEPT !.pc = "check", !.ret = "supersede"]
      <3>1. SoftDeleteRows(old) /\ torn' = torn /\ Becomes(p, r)
        BY <2>6 DEF UpdateDelete, SoftDelete
      <3>2. r.pc = "check" /\ r.held = job[p].held
        BY <1>0 DEF JobRecord
      <3> HIDE DEF r
      <3>3. job'[p] = r /\ \A q \in Job \ {p} : job'[q] = job[q]
        BY <1>0, <3>1, OnlyOne
      <3>4. \A e \in Doc : docStatus'[e] = "none" => docStatus[e] = "none"
        BY <1>0, <3>1 DEF SoftDeleteRows, TypeOK, StoreTypeOK
      <3> QED BY <1>0, <3>1, <3>2, <3>3, <3>4, DeleteTorn DEF IngestPc
    <2>7. CASE DeleteHard(p)
      <3>1. PICK d \in Doc : /\ HardDeleteRows(d) /\ job' = [q \in Job |-> Forgotten(q, d)]
                             /\ torn' = torn \ {d}
        BY <2>7 DEF DeleteHard
      <3>2. ASSUME NEW q \in Job
            PROVE  job'[q].pc = job[q].pc /\ job'[q].mine = job[q].mine /\ job'[q].held = job[q].held \ {d}
        BY <1>0, <3>1 DEF Forgotten, JobRecord
      <3>3. \A e \in Doc : e # d => docStatus'[e] = docStatus[e]
        BY <1>0, <3>1 DEF HardDeleteRows, TypeOK, StoreTypeOK
      <3> QED BY <1>0, <3>1, <3>2, <3>3, DeleteTorn
    <2>8. CASE Clear(p)
      <3>1. ASSUME NEW q \in Job
            PROVE  job'[q].pc = job[q].pc /\ job'[q].mine = job[q].mine /\ job'[q].held = {}
        <4>1. job'[q] = [job[q] EXCEPT !.held = {}, !.stale = {}, !.staleTables = {}, !.oldRow = {}]
          BY <2>8 DEF Clear
        <4> QED BY <1>0, <4>1 DEF JobRecord
      <3>2. torn' = {}
        BY <2>8 DEF Clear
      <3> QED BY <1>0, <3>1, <3>2, DeleteTorn
    <2> QED BY <2>1, <2>3, <2>4, <2>5, <2>6, <2>7, <2>8 DEF DocumentCommand, JobStep, UpdateStep, Crash
  <1> QED BY <1>1, <1>2

\* A step that writes summary chunks writes them for documents that are not torn.
LEMMA TornStep ==
  ASSUME TornInv, [Next]_vars, NEW d \in torn, chunkStatus[<<d, "summary">>] = "none"
  PROVE  chunkStatus'[<<d, "summary">>] = "none"
  <1>0. TypeOK /\ d \in Doc /\ <<d, "summary">> \in Chunk
    BY TornSorts, SummaryChunk DEF TornInv
  <1>1. CASE UNCHANGED vars
    BY <1>1 DEF vars, storeVars, chunkVars
  <1>2. CASE Next
    <2>1. PICK p \in Job : DocumentCommand(p) \/ ArtifactCommand(p) \/ JobStep(p) \/ Crash(p)
      BY <1>2 DEF Next
    <2>2. CASE InsertSummaryChunks(p)
      <3>1. CASE Abandon(p)
        BY <3>1 DEF Abandon, storeVars, chunkVars
      <3>2. CASE ~Abandon(p)
        <4>1. /\ job[p].pc = "insertSummary" /\ job[p].work \subseteq job[p].held
              /\ chunkStatus' = [c \in Chunk |-> IF c \in Batch(p, "summary") THEN "ACTIVE" ELSE chunkStatus[c]]
          BY <2>2, <3>2 DEF InsertSummaryChunks, InsertChunks, RowsGone
        <4>2. d \notin job[p].work
          BY <4>1 DEF TornInv, TornNotHeld
        <4> QED BY <1>0, <4>1, <4>2 DEF Batch
      <3> QED BY <3>1, <3>2
    <2>3. CASE InsertFulltextChunks(p)
      BY <1>0, <2>3 DEF InsertFulltextChunks, InsertChunks, Batch, Abandon, storeVars, chunkVars
    <2>4. CASE DeleteSoft(p) \/ DeleteHard(p) \/ Clear(p) \/ UpdateDelete(p)
      BY <1>0, <2>4 DEF DeleteSoft, DeleteHard, Clear, UpdateDelete, SoftDelete, SoftDeleteRows,
         HardDeleteRows, WipeRows, Abandon, storeVars, chunkVars
    <2>5. CASE /\ ~InsertSummaryChunks(p) /\ ~InsertFulltextChunks(p)
               /\ \/ IngestStep(p) \/ ArtifactStep(p) \/ ArtifactCommand(p) \/ Abandon(p)
                  \/ Register(p) \/ Update(p) \/ Supersede(p)
      <3>1. UNCHANGED chunkStatus
        BY <2>5 DEF IngestStep, DupCheck, InsertDocs, LinkSummaryChunks, LinkFulltextChunks,
           LinkChunks, InsertTables, LinkTables, Bump, ArtifactStep, InsertArts, CiteChunks,
           LinkArts, RegenNext, RegenClaims, RegenSummary, Retire, ArtifactCommand,
           GenerateClaims, GenerateSummaries, GenerateInsight, Regenerate, Register, Update,
           Supersede, Abandon, storeVars, chunkVars
      <3> QED BY <3>1
    <2> QED BY <2>1, <2>2, <2>3, <2>4, <2>5 DEF DocumentCommand, JobStep, UpdateStep, Crash
  <1> QED BY <1>1, <1>2

\* No interleaving brings a torn document's summary chunks: whatever is run
\* again afterwards skips the row, and whoever could write them has stopped.
THEOREM TornForGood == Spec => TornStaysUnsearchable
  <1>1. Init => TornInv
    <2>1. Init => torn = {} /\ \A p \in Job : job[p].pc = "idle"
      BY DEF Init, JobInit, Idle
    <2> QED BY <2>1, InitInsert DEF TornInv, GeneratorsHaveArts, IngestRows, IngestersApart,
               TornRows, TornNotHeld, Ingesting, IngestPc
  <1>2. TornInv /\ [Next]_vars => TornInv'
    BY NextTorn
  <1>3. TornInv /\ [Next]_vars =>
          [\A d \in torn : chunkStatus[<<d, "summary">>] = "none" /\ d \in torn'
             => chunkStatus'[<<d, "summary">>] = "none"]_vars
    BY TornStep
  <1> QED BY <1>1, <1>2, <1>3, PTL DEF Spec, TornStaysUnsearchable

=============================================================================
