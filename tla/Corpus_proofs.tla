---------------------------- MODULE Corpus_proofs ----------------------------
(***************************************************************************)
(* Proofs about Corpus, for any set of documents, artifacts and processes. *)
(***************************************************************************)
EXTENDS Corpus, TLAPS

LEMMA IdleType == Idle \in JobRecord
  BY StoreAssumption DEF Idle, JobRecord, NoUpdate, Pc, IngestPc, ArtifactPc, ArtKind

LEMMA BecomesType ==
  ASSUME job \in [Job -> JobRecord], NEW p \in Job, NEW r \in JobRecord, Becomes(p, r)
  PROVE  job' \in [Job -> JobRecord]
  BY DEF Becomes

LEMMA GotoType ==
  ASSUME job \in [Job -> JobRecord], NEW p \in Job, NEW pc \in Pc, Goto(p, pc)
  PROVE  job' \in [Job -> JobRecord]
  <1>1. job[p] \in JobRecord
    OBVIOUS
  <1>2. [job[p] EXCEPT !.pc = pc] \in JobRecord
    BY <1>1 DEF JobRecord
  <1> QED BY <1>2, BecomesType DEF Goto

LEMMA ReturnedType ==
  ASSUME TypeOK, NEW p \in Job
  PROVE  Returned(p) \in JobRecord
  <1>1. job[p] \in JobRecord
    BY DEF TypeOK, JobTypeOK
  <1>2. CASE job[p].ret = "idle"
    BY <1>2, IdleType DEF Returned
  <1>3. CASE job[p].ret # "idle"
    BY <1>1, <1>3 DEF Returned, JobRecord, Pc, ArtifactPc, ArtKind
  <1> QED BY <1>2, <1>3

LEMMA AbandonType ==
  ASSUME TypeOK, NEW p \in Job, Abandon(p)
  PROVE  TypeOK'
  <1>1. storeVars' = storeVars
    BY DEF Abandon
  <1>2. StoreTypeOK'
    BY <1>1 DEF TypeOK, StoreTypeOK, storeVars, docVars, chunkVars, tableVars, artVars
  <1>3. job' \in [Job -> JobRecord]
    BY IdleType, BecomesType DEF TypeOK, JobTypeOK, Abandon
  <1>4. torn' \in SUBSET Doc
    BY DEF TypeOK, JobTypeOK, Abandon, JobRecord
  <1> QED BY <1>2, <1>3, <1>4 DEF TypeOK, JobTypeOK, Abandon

LEMMA StoreUnchanged ==
  ASSUME StoreTypeOK, UNCHANGED storeVars
  PROVE  StoreTypeOK'
  BY DEF StoreTypeOK, storeVars, docVars, chunkVars, tableVars, artVars

LEMMA SoftDeleteType ==
  ASSUME StoreTypeOK, NEW d \in Doc \cup {NoDoc}, SoftDeleteRows(d)
  PROVE  StoreTypeOK'
  <1>1. docStatus' \in [Doc -> DocState] /\ tableStatus' \in [Doc -> ArtState]
    BY StoreAssumption DEF SoftDeleteRows, StoreTypeOK, DocState, ArtState
  <1>2. chunkStatus' \in [Chunk -> DocState]
    BY DEF SoftDeleteRows, StoreTypeOK, DocState
  <1>3. artStatus' \in [Art -> ArtState]
    BY DEF SoftDeleteRows, StoreTypeOK, ArtState, Swept
  <1> QED BY <1>1, <1>2, <1>3 DEF SoftDeleteRows, StoreTypeOK

LEMMA HardDeleteType ==
  ASSUME StoreTypeOK, NEW d \in Doc, HardDeleteRows(d)
  PROVE  StoreTypeOK'
  BY DEF HardDeleteRows, StoreTypeOK, Swept, DocState, ArtState, Chunk

LEMMA WipeType ==
  ASSUME StoreTypeOK, WipeRows
  PROVE  StoreTypeOK'
  BY DEF WipeRows, StoreTypeOK, DocState, ArtState, ArtKind, Chunk

LEMMA IngestType ==
  ASSUME TypeOK, NEW p \in Job, IngestStep(p)
  PROVE  TypeOK'
  <1> USE DEF TypeOK, JobTypeOK
  <1>0. job[p] \in JobRecord
    OBVIOUS
  <1>1. CASE DupCheck(p)
    <2>1. CASE Becomes(p, Returned(p))
      BY <1>1, <2>1, StoreUnchanged, ReturnedType, BecomesType DEF DupCheck
    <2>2. CASE ~Becomes(p, Returned(p))
      <3> DEFINE fresh == {d \in job[p].work : docStatus[d] = "none"}
      <3>1. [job[p] EXCEPT !.pc = "insertDocs", !.work = fresh] \in JobRecord
        BY <1>0 DEF JobRecord, Pc
      <3> QED BY <1>1, <2>2, <3>1, StoreUnchanged, BecomesType DEF DupCheck
    <2> QED BY <2>1, <2>2
  <1>2. CASE InsertDocs(p)
    <2>1. CASE Abandon(p)
      BY <2>1, AbandonType
    <2>2. CASE ~Abandon(p)
      <3>1. StoreTypeOK'
        BY <1>2, <2>2 DEF InsertDocs, StoreTypeOK, DocState, chunkVars, tableVars, artVars
      <3>2. job' \in [Job -> JobRecord]
        <4>1. [job[p] EXCEPT !.pc = "insertSummary", !.held = job[p].work] \in JobRecord
          BY <1>0 DEF JobRecord, Pc, IngestPc
        <4> QED BY <1>2, <2>2, <4>1, BecomesType DEF InsertDocs
      <3> QED BY <1>2, <2>2, <3>1, <3>2 DEF InsertDocs
    <2> QED BY <2>1, <2>2
  <1>3. ASSUME NEW kind \in Kind, NEW here, NEW next \in Pc, InsertChunks(p, kind, here, next)
        PROVE  TypeOK'
    <2>1. CASE Abandon(p)
      BY <2>1, AbandonType
    <2>2. CASE ~Abandon(p)
      <3>1. StoreTypeOK'
        BY <1>3, <2>2 DEF InsertChunks, StoreTypeOK, DocState, docVars, tableVars, artVars
      <3>2. job' \in [Job -> JobRecord]
        BY <1>3, <2>2, GotoType DEF InsertChunks
      <3> QED BY <1>3, <2>2, <3>1, <3>2 DEF InsertChunks
    <2> QED BY <2>1, <2>2
  <1>4. ASSUME NEW kind \in Kind, NEW here, NEW next \in Pc, LinkChunks(p, kind, here, next)
        PROVE  TypeOK'
    <2>1. CASE Abandon(p)
      BY <2>1, AbandonType
    <2>2. CASE ~Abandon(p)
      <3>0. Batch(p, kind) \subseteq Chunk
        BY <1>0 DEF Batch, Chunk, JobRecord
      <3>1. StoreTypeOK'
        BY <1>4, <2>2, <3>0 DEF LinkChunks, StoreTypeOK, docVars, tableVars, artVars
      <3>2. job' \in [Job -> JobRecord]
        BY <1>4, <2>2, GotoType DEF LinkChunks
      <3> QED BY <1>4, <2>2, <3>1, <3>2 DEF LinkChunks
    <2> QED BY <2>1, <2>2
  <1>5. CASE InsertTables(p)
    <2>1. CASE Abandon(p)
      BY <2>1, AbandonType
    <2>2. CASE ~Abandon(p)
      <3>1. StoreTypeOK'
        BY <1>5, <2>2 DEF InsertTables, StoreTypeOK, ArtState, docVars, chunkVars, artVars
      <3>2. job' \in [Job -> JobRecord]
        BY <1>5, <2>2, GotoType DEF InsertTables, Pc, IngestPc
      <3> QED BY <1>5, <2>2, <3>1, <3>2 DEF InsertTables
    <2> QED BY <2>1, <2>2
  <1>6. CASE LinkTables(p)
    <2>1. CASE Abandon(p)
      BY <2>1, AbandonType
    <2>2. CASE ~Abandon(p)
      <3>1. StoreTypeOK'
        BY <1>6, <2>2 DEF LinkTables, StoreTypeOK, docVars, chunkVars, artVars
      <3>2. job' \in [Job -> JobRecord]
        BY <1>6, <2>2, GotoType DEF LinkTables, Pc, IngestPc
      <3> QED BY <1>6, <2>2, <3>1, <3>2 DEF LinkTables
    <2> QED BY <2>1, <2>2
  <1>7. CASE Bump(p)
    <2>1. StoreTypeOK'
      BY <1>7 DEF Bump, StoreTypeOK, docVars, chunkVars, tableVars, artVars
    <2> QED BY <1>7, <2>1, ReturnedType, BecomesType DEF Bump
  <1>8. /\ "summary" \in Kind /\ "fulltext" \in Kind
        /\ "linkSummary" \in Pc /\ "linkFulltext" \in Pc
        /\ AfterSummary(p) \in Pc /\ AfterChunks(p) \in Pc
    BY DEF Kind, Pc, IngestPc, AfterSummary, AfterChunks
  <1> QED
    BY <1>1, <1>2, <1>3, <1>4, <1>5, <1>6, <1>7, <1>8
    DEF IngestStep, InsertSummaryChunks, LinkSummaryChunks, InsertFulltextChunks,
        LinkFulltextChunks

LEMMA ForgottenType ==
  ASSUME job \in [Job -> JobRecord], NEW q \in Job, NEW d \in Doc
  PROVE  Forgotten(q, d) \in JobRecord
  <1>1. job[q] \in JobRecord
    OBVIOUS
  <1>2. /\ job[q].held \ {d} \in SUBSET Doc
        /\ job[q].staleTables \ {d} \in SUBSET Doc
        /\ job[q].oldRow \ {d} \in SUBSET Doc
    BY <1>1 DEF JobRecord
  <1> QED BY <1>1, <1>2 DEF Forgotten, JobRecord

LEMMA DocumentCommandType ==
  ASSUME TypeOK, NEW p \in Job, DocumentCommand(p)
  PROVE  TypeOK'
  <1> USE DEF TypeOK, JobTypeOK
  <1>0. job[p] \in JobRecord
    OBVIOUS
  <1>1. CASE Register(p)
    <2> PICK batch \in (SUBSET Doc) \ {{}}, opts \in SUBSET Option :
          Becomes(p, [job[p] EXCEPT !.pc = "check", !.work = batch, !.opts = opts])
      BY <1>1 DEF Register
    <2>1. [job[p] EXCEPT !.pc = "check", !.work = batch, !.opts = opts] \in JobRecord
      BY <1>0 DEF JobRecord, Pc
    <2>2. job' \in [Job -> JobRecord]
      BY <2>1, BecomesType
    <2> QED BY <1>1, <2>2, StoreUnchanged DEF Register, Start
  <1>2. CASE DeleteSoft(p)
    BY <1>2, SoftDeleteType DEF DeleteSoft, SoftDelete, Start
  <1>3. CASE DeleteHard(p)
    <2> PICK d \in Doc : /\ HardDeleteRows(d)
                         /\ job' = [q \in Job |-> Forgotten(q, d)]
                         /\ torn' = torn \ {d} /\ raced' = raced \ {d}
      BY <1>3 DEF DeleteHard
    <2>1. job' \in [Job -> JobRecord]
      BY ForgottenType
    <2> QED BY <1>3, <2>1, HardDeleteType DEF DeleteHard, Start
  <1>4. CASE Update(p)
    <2> PICK old \in Doc, batch \in SUBSET Doc, new \in Doc :
          Becomes(p, [job[p] EXCEPT
            !.pc = "updateDelete",
            !.work = batch,
            !.upd = [old |-> old, new |-> new, version |-> docVersion[old]],
            !.oldRow = {old}])
      BY <1>4 DEF Update
    <2>1. docVersion[old] \in Nat
      BY DEF StoreTypeOK
    <2>2. [job[p] EXCEPT
            !.pc = "updateDelete",
            !.work = batch,
            !.upd = [old |-> old, new |-> new, version |-> docVersion[old]],
            !.oldRow = {old}]
          \in JobRecord
      BY <1>0, <2>1 DEF JobRecord, Pc
    <2>3. job' \in [Job -> JobRecord]
      BY <2>2, BecomesType
    <2> QED BY <1>4, <2>3, StoreUnchanged DEF Update, Start
  <1>5. CASE Clear(p)
    <2>1. ASSUME NEW q \in Job
          PROVE  [job[q] EXCEPT !.held = {}, !.stale = {}, !.staleTables = {}, !.oldRow = {}]
                   \in JobRecord
      <3>1. job[q] \in JobRecord
        OBVIOUS
      <3> QED BY <3>1 DEF JobRecord
    <2>2. job' \in [Job -> JobRecord]
      BY <1>5, <2>1 DEF Clear
    <2>3. WipeRows /\ Start(p) /\ torn' = {} /\ raced' = {}
      BY <1>5 DEF Clear
    <2> QED BY <2>2, <2>3, WipeType DEF Start
  <1> QED BY <1>1, <1>2, <1>3, <1>4, <1>5 DEF DocumentCommand

LEMMA UpdateStepType ==
  ASSUME TypeOK, NEW p \in Job, UpdateStep(p)
  PROVE  TypeOK'
  <1> USE DEF TypeOK, JobTypeOK
  <1>0. job[p] \in JobRecord
    OBVIOUS
  <1>1. CASE UpdateDelete(p)
    <2>1. CASE Abandon(p)
      BY <2>1, AbandonType
    <2>2. CASE ~Abandon(p)
      <3>1. docStatus[job[p].upd.old] # "none" /\ SoftDeleteRows(job[p].upd.old)
        BY <1>1, <2>2 DEF UpdateDelete, SoftDelete
      <3>2. job[p].upd.old \in Doc \cup {NoDoc}
        BY <1>0 DEF JobRecord
      <3>3. StoreTypeOK'
        BY <3>1, <3>2, SoftDeleteType
      <3>4. job' \in [Job -> JobRecord]
        <4>1. [job[p] EXCEPT !.pc = "check", !.ret = "supersede"] \in JobRecord
          BY <1>0 DEF JobRecord, Pc
        <4> QED BY <1>1, <2>2, <4>1, BecomesType DEF UpdateDelete
      <3>5. raced' \in SUBSET Doc
        <4>1. \A q \in Job : job[q].held \subseteq Doc
          BY DEF JobRecord
        <4> QED BY <1>1, <2>2, <3>2, <4>1 DEF UpdateDelete, SoftDelete
      <3> QED BY <1>1, <2>2, <3>3, <3>4, <3>5 DEF UpdateDelete, SoftDelete
    <2> QED BY <2>1, <2>2
  <1>2. CASE Supersede(p)
    <2>1. job' \in [Job -> JobRecord]
      BY <1>2, IdleType, BecomesType DEF Supersede
    <2>2. job[p].upd.version \in Nat /\ job[p].upd.old \in Doc \cup {NoDoc}
      BY <1>0 DEF JobRecord
    <2>3. docVersion' \in [Doc -> Nat] /\ supersedes' \in [Doc -> Doc \cup {NoDoc}]
      BY <1>2, <2>2 DEF Supersede, StoreTypeOK
    <2>4. StoreTypeOK'
      BY <1>2, <2>3 DEF Supersede, StoreTypeOK, chunkVars, tableVars, artVars
    <2> QED BY <1>2, <2>1, <2>4 DEF Supersede
  <1> QED BY <1>1, <1>2 DEF UpdateStep

LEMMA PlanType ==
  ASSUME TypeOK, NEW p \in Job, NEW type \in ArtKind, NEW mine \in SUBSET Art,
         NEW cites \in [mine -> SUBSET Chunk],
         NEW ret \in {"idle", "regen", "regenSummary"},
         Plan(p, type, mine, cites, ret)
  PROVE  job' \in [Job -> JobRecord]
  <1> DEFINE plan == [a \in Art |-> IF a \in mine THEN cites[a] ELSE {}]
             held == DocsOf(UNION {cites[a] : a \in mine})
             uncited == IF type = "Summary" THEN mine ELSE {}
  <1>1. job[p] \in JobRecord
    BY DEF TypeOK, JobTypeOK
  <1>2. plan \in [Art -> SUBSET Chunk]
    OBVIOUS
  <1>3. held \in SUBSET Doc /\ uncited \in SUBSET Art
    BY DEF DocsOf
  <1>4. Becomes(p, [job[p] EXCEPT !.pc = "insertArts", !.ret = ret, !.type = type,
                                  !.mine = mine, !.plan = plan, !.held = held,
                                  !.needs = held, !.uncited = uncited])
    BY DEF Plan
  <1> HIDE DEF plan, held, uncited
  <1>5. [job[p] EXCEPT !.pc = "insertArts", !.ret = ret, !.type = type,
                       !.mine = mine, !.plan = plan, !.held = held,
                       !.needs = held, !.uncited = uncited] \in JobRecord
    BY <1>1, <1>2, <1>3 DEF JobRecord, Pc, ArtifactPc
  <1> QED BY <1>4, <1>5, BecomesType DEF TypeOK, JobTypeOK

LEMMA PlanClaimsType ==
  ASSUME TypeOK, NEW p \in Job, NEW chunks \in SUBSET Chunk,
         NEW ret \in {"idle", "regen", "regenSummary"},
         PlanClaims(p, chunks, ret)
  PROVE  job' \in [Job -> JobRecord]
  <1>0. PICK mine \in SUBSET FreeArts : \E f \in [mine -> chunks] :
          Plan(p, "Claim", mine, [a \in mine |-> {f[a]}], ret)
    BY DEF PlanClaims
  <1>1. PICK f \in [mine -> chunks] : Plan(p, "Claim", mine, [a \in mine |-> {f[a]}], ret)
    BY <1>0
  <1>2. mine \in SUBSET Art
    BY DEF FreeArts
  <1>3. [a \in mine |-> {f[a]}] \in [mine -> SUBSET Chunk]
    OBVIOUS
  <1> QED BY <1>1, <1>2, <1>3, PlanType DEF ArtKind

LEMMA PlanSummariesType ==
  ASSUME TypeOK, NEW p \in Job, NEW docs \in SUBSET Doc,
         NEW ret \in {"idle", "regen", "regenSummary"},
         PlanSummaries(p, docs, ret)
  PROVE  job' \in [Job -> JobRecord]
  <1>0. PICK mine \in SUBSET FreeArts : \E f \in [mine -> docs] :
          Plan(p, "Summary", mine, [a \in mine |-> ChunksOf(f[a])], ret)
    BY DEF PlanSummaries
  <1>1. PICK f \in [mine -> docs] : Plan(p, "Summary", mine, [a \in mine |-> ChunksOf(f[a])], ret)
    BY <1>0
  <1>2. mine \in SUBSET Art
    BY DEF FreeArts
  <1>3. [a \in mine |-> ChunksOf(f[a])] \in [mine -> SUBSET Chunk]
    BY DEF ChunksOf, Chunk
  <1> QED BY <1>1, <1>2, <1>3, PlanType DEF ArtKind

LEMMA ArtifactCommandType ==
  ASSUME TypeOK, NEW p \in Job, ArtifactCommand(p)
  PROVE  TypeOK'
  <1>1. CASE GenerateClaims(p)
    <2>1. PICK kind \in Kind : PlanClaims(p, Unprocessed(kind), "idle")
      BY <1>1 DEF GenerateClaims
    <2>2. Unprocessed(kind) \in SUBSET Chunk
      BY DEF Unprocessed, Chunk
    <2>3. job' \in [Job -> JobRecord]
      BY <2>1, <2>2, PlanClaimsType
    <2>4. Start(p) /\ UNCHANGED <<storeVars, torn, raced>>
      BY <1>1 DEF GenerateClaims
    <2> QED BY <2>3, <2>4, StoreUnchanged DEF TypeOK, JobTypeOK, Start
  <1>2. CASE GenerateSummaries(p)
    <2>1. NeedSummary \in SUBSET Doc
      BY DEF NeedSummary
    <2>2. job' \in [Job -> JobRecord]
      BY <1>2, <2>1, PlanSummariesType DEF GenerateSummaries
    <2>3. Start(p) /\ UNCHANGED <<storeVars, torn, raced>>
      BY <1>2 DEF GenerateSummaries
    <2> QED BY <2>2, <2>3, StoreUnchanged DEF TypeOK, JobTypeOK, Start
  <1>3. CASE GenerateInsight(p)
    <2>1. PICK claims \in SUBSET Art, a \in FreeArts :
            Plan(p, "Insight", {a}, [b \in {a} |-> UNION {artSources[c] : c \in claims}], "idle")
      BY <1>3 DEF GenerateInsight
    <2>2. UNION {artSources[c] : c \in claims} \in SUBSET Chunk
      BY DEF TypeOK, StoreTypeOK
    <2>3. [b \in {a} |-> UNION {artSources[c] : c \in claims}] \in [{a} -> SUBSET Chunk]
      BY <2>2
    <2>4. {a} \in SUBSET Art
      BY DEF FreeArts
    <2>5. job' \in [Job -> JobRecord]
      BY <2>1, <2>3, <2>4, PlanType DEF ArtKind
    <2>6. Start(p) /\ UNCHANGED <<storeVars, torn, raced>>
      BY <1>3 DEF GenerateInsight
    <2> QED BY <2>5, <2>6, StoreUnchanged DEF TypeOK, JobTypeOK, Start
  <1>4. CASE Regenerate(p)
    <2>1. job[p] \in JobRecord
      BY DEF TypeOK, JobTypeOK
    <2>2. /\ Successors \in SUBSET Doc
          /\ Stale(artStatus) \in SUBSET Art
          /\ Stale(tableStatus) \in SUBSET Doc
      BY DEF Successors, Stale, TypeOK, StoreTypeOK
    <2>3. [job[p] EXCEPT !.pc = "regen", !.work = Successors, !.stale = Stale(artStatus),
                         !.staleTables = Stale(tableStatus)] \in JobRecord
      BY <2>1, <2>2 DEF JobRecord, Pc, ArtifactPc
    <2>4. job' \in [Job -> JobRecord]
      BY <1>4, <2>3, BecomesType DEF Regenerate, TypeOK, JobTypeOK
    <2>5. Start(p) /\ UNCHANGED <<storeVars, torn, raced>>
      BY <1>4 DEF Regenerate
    <2> QED BY <2>4, <2>5, StoreUnchanged DEF TypeOK, JobTypeOK, Start
  <1> QED BY <1>1, <1>2, <1>3, <1>4 DEF ArtifactCommand

LEMMA ArtifactStepType ==
  ASSUME TypeOK, NEW p \in Job, ArtifactStep(p)
  PROVE  TypeOK'
  <1> USE DEF TypeOK, JobTypeOK
  <1>0. job[p] \in JobRecord
    OBVIOUS
  <1>1. CASE InsertArts(p)
    <2>1. job' \in [Job -> JobRecord]
      BY <1>1, GotoType DEF InsertArts, Pc, ArtifactPc
    <2>2. job[p].type \in ArtKind
      BY <1>0 DEF JobRecord
    <2>3. StoreTypeOK'
      BY <1>1, <2>2 DEF InsertArts, StoreTypeOK, ArtState, docVars, chunkVars, tableVars
    <2> QED BY <1>1, <2>1, <2>3 DEF InsertArts
  <1>2. CASE LinkArts(p)
    <2>1. CASE Abandon(p)
      BY <2>1, AbandonType
    <2>2. CASE ~Abandon(p)
      <3>1. job[p].plan \in [Art -> SUBSET Chunk]
        BY <1>0 DEF JobRecord
      <3>2. artSources' \in [Art -> SUBSET Chunk]
        BY <1>2, <2>2, <3>1 DEF LinkArts, StoreTypeOK
      <3>3. version' \in Nat
        BY <1>2, <2>2 DEF LinkArts, StoreTypeOK
      <3>4. job' \in [Job -> JobRecord]
        <4>1. Becomes(p, Returned(p)) \/ Goto(p, "bump")
          BY <1>2, <2>2 DEF LinkArts
        <4> QED BY <4>1, ReturnedType, BecomesType, GotoType DEF Pc, IngestPc
      <3>5. UNCHANGED <<docVars, chunkVars, tableVars, artStatus, artType, commands, torn, raced>>
        BY <1>2, <2>2 DEF LinkArts
      <3> QED BY <3>2, <3>3, <3>4, <3>5 DEF StoreTypeOK, docVars, chunkVars, tableVars
    <2> QED BY <2>1, <2>2
  <1>3. CASE RegenNext(p)
    <2>1. PICK d \in job[p].work :
            Becomes(p, [job[p] EXCEPT !.pc = "regenClaims", !.scope = d, !.work = @ \ {d}])
      BY <1>3 DEF RegenNext
    <2>2. [job[p] EXCEPT !.pc = "regenClaims", !.scope = d, !.work = @ \ {d}] \in JobRecord
      BY <1>0 DEF JobRecord, Pc, ArtifactPc
    <2>3. job' \in [Job -> JobRecord]
      BY <2>1, <2>2, BecomesType
    <2> QED BY <1>3, <2>3, StoreUnchanged DEF RegenNext
  <1>4. CASE RegenClaims(p)
    <2>1. CASE Abandon(p)
      BY <2>1, AbandonType
    <2>2. CASE ~Abandon(p)
      <3>1. Unprocessed("summary") \cap ChunksOf(job[p].scope) \in SUBSET Chunk
        BY DEF Unprocessed, Chunk, Kind
      <3>2. /\ \/ PlanClaims(p, Unprocessed("summary") \cap ChunksOf(job[p].scope), "regenSummary")
               \/ Goto(p, "regenSummary")
            /\ UNCHANGED <<storeVars, commands, torn, raced>>
        BY <1>4, <2>2 DEF RegenClaims
      <3>3. job' \in [Job -> JobRecord]
        BY <3>1, <3>2, PlanClaimsType, GotoType DEF Pc, ArtifactPc
      <3> QED BY <3>2, <3>3, StoreUnchanged
    <2> QED BY <2>1, <2>2
  <1>5. CASE RegenSummary(p)
    <2>1. NeedSummary \cap {job[p].scope} \in SUBSET Doc
      BY DEF NeedSummary
    <2>2. /\ \/ PlanSummaries(p, NeedSummary \cap {job[p].scope}, "regen")
             \/ Goto(p, "regen")
          /\ UNCHANGED <<storeVars, commands, torn, raced>>
      BY <1>5 DEF RegenSummary
    <2>3. job' \in [Job -> JobRecord]
      BY <2>1, <2>2, PlanSummariesType, GotoType DEF Pc, ArtifactPc
    <2> QED BY <2>2, <2>3, StoreUnchanged
  <1>6. CASE Retire(p)
    <2>1. job' \in [Job -> JobRecord]
      BY <1>6, IdleType, BecomesType DEF Retire
    <2>2. artStatus' \in [Art -> ArtState] /\ tableStatus' \in [Doc -> ArtState]
      BY <1>6 DEF Retire, StoreTypeOK, ArtState
    <2>3. UNCHANGED <<docVars, chunkVars, tableLinked, artType, artSources, version,
                      commands, torn, raced>>
      BY <1>6 DEF Retire
    <2> QED BY <2>1, <2>2, <2>3 DEF StoreTypeOK, docVars, chunkVars
  <1>7. CASE CiteChunks(p)
    <2>1. PICK a \in job[p].uncited, active \in SUBSET Chunk :
            Becomes(p, [job[p] EXCEPT !.uncited = @ \ {a}, !.plan[a] = active])
      BY <1>0, <1>7 DEF CiteChunks, JobRecord
    <2>2. [job[p] EXCEPT !.uncited = @ \ {a}, !.plan[a] = active] \in JobRecord
      BY <1>0 DEF JobRecord
    <2>5. job' \in [Job -> JobRecord]
      BY <2>1, <2>2, BecomesType
    <2> QED BY <1>7, <2>5, StoreUnchanged DEF CiteChunks
  <1> QED BY <1>1, <1>2, <1>3, <1>4, <1>5, <1>6, <1>7 DEF ArtifactStep

LEMMA InitType == Init => TypeOK
  <1>1. StoreInit => StoreTypeOK
    BY DEF StoreInit, StoreTypeOK, DocState, ArtState, ArtKind
  <1>2. JobInit => JobTypeOK
    BY IdleType DEF JobInit, JobTypeOK
  <1> QED BY <1>1, <1>2 DEF Init, TypeOK

LEMMA NextType ==
  ASSUME TypeOK, [Next]_vars
  PROVE  TypeOK'
  <1>1. ASSUME NEW p \in Job, Crash(p)
        PROVE  TypeOK'
    BY <1>1, AbandonType DEF Crash
  <1>2. CASE UNCHANGED vars
    BY <1>2, StoreUnchanged DEF vars, jobVars, TypeOK, JobTypeOK
  <1>3. CASE Next
    BY <1>1, <1>3, DocumentCommandType, ArtifactCommandType, IngestType, UpdateStepType,
       ArtifactStepType
    DEF Next, JobStep
  <1> QED BY <1>2, <1>3

\* The rows and the processes' memory keep their types: every command, with
\* any interleaving and any crash, leaves a state the next one can start from.
THEOREM TypeCorrect == Spec => []TypeOK
  <1>1. TypeOK /\ [Next]_vars => TypeOK'
    BY NextType
  <1> QED BY InitType, <1>1, PTL DEF Spec

-----------------------------------------------------------------------------
(***************************************************************************)
(* SupersededIsDead.  Most steps are quiet: they leave supersedes and the  *)
(* rows already DELETED alone, and no process learns of another old row.   *)
(***************************************************************************)
\* What r knows of an update, s knew.
Inherits(r, s) ==
  /\ r.oldRow \subseteq s.oldRow
  /\ r.oldRow # {} => r.upd = s.upd

QuietJobs(p) ==
  /\ \A q \in Job : Inherits(job'[q], job[q])
  /\ \A q \in Job \ {p} : job'[q].pc = job[q].pc
  /\ job'[p].oldRow # {} => job[p].pc # "updateDelete"

QuietRows ==
  /\ supersedes' = supersedes
  /\ \A d \in Doc : docStatus[d] = "DELETED" => docStatus'[d] = "DELETED"

LEMMA QuietStep ==
  ASSUME SupersessionInv, TypeOK', NEW p \in Job, QuietRows, QuietJobs(p)
  PROVE  SupersessionInv'
  <1>1. SupersededIsDead'
    <2> SUFFICES ASSUME NEW d \in Doc, supersedes'[d] # NoDoc
                 PROVE  docStatus'[supersedes'[d]] = "DELETED"
      BY DEF SupersededIsDead
    <2>1. supersedes[d] \in Doc
      BY DEF SupersessionInv, TypeOK, StoreTypeOK, QuietRows
    <2> QED BY <2>1 DEF SupersessionInv, SupersededIsDead, QuietRows
  <1>2. OldRowIsDead'
    <2>0. \A q \in Job : job'[q].oldRow \subseteq {job'[q].upd.old}
      BY DEF QuietJobs, Inherits, SupersessionInv, OldRowIsDead
    <2> SUFFICES ASSUME NEW q \in Job, job'[q].pc # "updateDelete", NEW d \in job'[q].oldRow
                 PROVE  docStatus'[d] = "DELETED"
      BY <2>0 DEF OldRowIsDead
    <2>1. d \in job[q].oldRow
      BY DEF QuietJobs, Inherits
    <2>2. d \in Doc
      BY <2>1 DEF SupersessionInv, TypeOK, JobTypeOK, JobRecord
    <2>3. job[q].pc # "updateDelete"
      BY <2>1 DEF QuietJobs
    <2> QED BY <2>1, <2>2, <2>3 DEF SupersessionInv, OldRowIsDead, QuietRows
  <1> QED BY <1>1, <1>2 DEF SupersessionInv

LEMMA BecomesQuiet ==
  ASSUME TypeOK, NEW p \in Job, NEW r, Becomes(p, r),
         Inherits(r, job[p]),
         r.oldRow # {} => job[p].pc # "updateDelete"
  PROVE  QuietJobs(p)
  BY DEF TypeOK, JobTypeOK, Becomes, QuietJobs, Inherits

LEMMA GotoQuiet ==
  ASSUME TypeOK, NEW p \in Job, NEW pc, Goto(p, pc), job[p].pc # "updateDelete"
  PROVE  QuietJobs(p)
  <1>1. job[p] \in JobRecord
    BY DEF TypeOK, JobTypeOK
  <1>2. Inherits([job[p] EXCEPT !.pc = pc], job[p])
    BY <1>1 DEF JobRecord, Inherits
  <1> QED BY <1>2, BecomesQuiet DEF Goto

LEMMA ReturnedQuiet ==
  ASSUME TypeOK, NEW p \in Job, Becomes(p, Returned(p)), job[p].pc # "updateDelete"
  PROVE  QuietJobs(p)
  <1>1. job[p] \in JobRecord
    BY DEF TypeOK, JobTypeOK
  <1>2. Inherits(Returned(p), job[p])
    <2>1. CASE job[p].ret = "idle"
      BY <2>1 DEF Returned, Idle, Inherits
    <2>2. CASE job[p].ret # "idle"
      BY <1>1, <2>2 DEF Returned, JobRecord, Inherits
    <2> QED BY <2>1, <2>2
  <1> QED BY <1>2, BecomesQuiet

LEMMA AbandonQuiet ==
  ASSUME TypeOK, NEW p \in Job, Abandon(p)
  PROVE  QuietRows /\ QuietJobs(p)
  <1>1. QuietRows
    BY DEF Abandon, QuietRows, storeVars, docVars
  <1>2. Idle.oldRow = {}
    BY DEF Idle
  <1>3. QuietJobs(p)
    BY <1>2, BecomesQuiet DEF Abandon, Inherits
  <1> QED BY <1>1, <1>3

LEMMA PlanQuiet ==
  ASSUME TypeOK, NEW p \in Job, NEW type, NEW mine, NEW cites, NEW ret,
         Plan(p, type, mine, cites, ret), job[p].pc # "updateDelete"
  PROVE  QuietJobs(p)
  <1>1. job[p] \in JobRecord
    BY DEF TypeOK, JobTypeOK
  <1>2. PICK plan, held, uncited :
          Becomes(p, [job[p] EXCEPT !.pc = "insertArts", !.ret = ret, !.type = type,
                                    !.mine = mine, !.plan = plan, !.held = held,
                                    !.needs = held, !.uncited = uncited])
    BY DEF Plan
  <1>3. Inherits([job[p] EXCEPT !.pc = "insertArts", !.ret = ret, !.type = type, !.mine = mine,
                       !.plan = plan, !.held = held, !.needs = held, !.uncited = uncited], job[p])
    BY <1>1 DEF JobRecord, Inherits
  <1> QED BY <1>2, <1>3, BecomesQuiet

LEMMA IngestQuiet ==
  ASSUME TypeOK, NEW p \in Job, IngestStep(p)
  PROVE  QuietRows /\ QuietJobs(p)
  <1>0. job[p] \in JobRecord
    BY DEF TypeOK, JobTypeOK
  <1>a. CASE Abandon(p)
    BY <1>a, AbandonQuiet
  <1>b. CASE ~Abandon(p)
    <2>1. CASE DupCheck(p)
      <3>1. QuietRows
        BY <2>1 DEF DupCheck, QuietRows, storeVars, docVars
      <3>2. PICK fresh :
              \/ Becomes(p, Returned(p))
              \/ Becomes(p, [job[p] EXCEPT !.pc = "insertDocs", !.work = fresh])
        BY <2>1 DEF DupCheck
      <3>3. Inherits([job[p] EXCEPT !.pc = "insertDocs", !.work = fresh], job[p])
        BY <1>0 DEF JobRecord, Inherits
      <3>4. job[p].pc # "updateDelete"
        BY <2>1 DEF DupCheck
      <3> QED BY <3>1, <3>2, <3>3, <3>4, ReturnedQuiet, BecomesQuiet
    <2>2. CASE InsertDocs(p)
      <3>1. QuietRows
        BY <1>b, <2>2 DEF InsertDocs, QuietRows, TypeOK, StoreTypeOK
      <3>2. Inherits([job[p] EXCEPT !.pc = "insertSummary", !.held = job[p].work], job[p])
        BY <1>0 DEF JobRecord, Inherits
      <3>3. QuietJobs(p)
        BY <1>b, <2>2, <3>2, BecomesQuiet DEF InsertDocs
      <3> QED BY <3>1, <3>3
    <2>3. ASSUME NEW kind \in Kind, NEW here \in IngestPc, NEW next,
                 InsertChunks(p, kind, here, next) \/ LinkChunks(p, kind, here, next)
          PROVE  QuietRows /\ QuietJobs(p)
      <3>1. QuietRows
        BY <1>b, <2>3 DEF InsertChunks, LinkChunks, QuietRows, docVars
      <3>2. Goto(p, next) /\ job[p].pc # "updateDelete"
        BY <1>b, <2>3 DEF InsertChunks, LinkChunks, IngestPc
      <3> QED BY <3>1, <3>2, GotoQuiet
    <2>4. CASE InsertTables(p) \/ LinkTables(p)
      <3>1. QuietRows
        BY <1>b, <2>4 DEF InsertTables, LinkTables, QuietRows, docVars
      <3>2. (Goto(p, "linkTables") \/ Goto(p, "bump")) /\ job[p].pc # "updateDelete"
        BY <1>b, <2>4 DEF InsertTables, LinkTables
      <3> QED BY <3>1, <3>2, GotoQuiet
    <2>5. CASE Bump(p)
      <3>1. QuietRows
        BY <2>5 DEF Bump, QuietRows, docVars
      <3> QED BY <2>5, <3>1, ReturnedQuiet DEF Bump
    <2>6. /\ "summary" \in Kind /\ "fulltext" \in Kind
          /\ {"insertSummary", "linkSummary", "insertFulltext", "linkFulltext"} \subseteq IngestPc
      BY DEF Kind, IngestPc
    <2> QED
      BY <2>1, <2>2, <2>3, <2>4, <2>5, <2>6
      DEF IngestStep, InsertSummaryChunks, LinkSummaryChunks, InsertFulltextChunks,
          LinkFulltextChunks
  <1> QED BY <1>a, <1>b

LEMMA ArtifactQuiet ==
  ASSUME TypeOK, NEW p \in Job, ArtifactStep(p) \/ ArtifactCommand(p)
  PROVE  QuietRows /\ QuietJobs(p)
  <1>0. job[p] \in JobRecord
    BY DEF TypeOK, JobTypeOK
  <1>a. CASE Abandon(p)
    BY <1>a, AbandonQuiet
  <1>b. CASE ~Abandon(p)
    <2>1. QuietRows
      BY <1>b DEF QuietRows, storeVars, docVars, ArtifactStep, InsertArts, CiteChunks,
         LinkArts, RegenNext, RegenClaims, RegenSummary, Retire, ArtifactCommand, GenerateClaims,
         GenerateSummaries, GenerateInsight, Regenerate
    <2> SUFFICES QuietJobs(p)
      BY <2>1
    <2>2. job[p].pc # "updateDelete"
      BY DEF ArtifactStep, InsertArts, CiteChunks, LinkArts, RegenNext, RegenClaims,
         RegenSummary, Retire, ArtifactCommand, GenerateClaims, GenerateSummaries, GenerateInsight, Regenerate, Start
    <2>3. CASE InsertArts(p)
      BY <2>2, <2>3, GotoQuiet DEF InsertArts
    <2>4. CASE LinkArts(p)
      <3>1. Becomes(p, Returned(p)) \/ Goto(p, "bump")
        BY <1>b, <2>4 DEF LinkArts
      <3> QED BY <2>2, <3>1, ReturnedQuiet, GotoQuiet
    <2>5. CASE RegenNext(p)
      <3>1. PICK d, work :
              Becomes(p, [job[p] EXCEPT !.pc = "regenClaims", !.scope = d, !.work = work])
        BY <2>5 DEF RegenNext
      <3>2. Inherits([job[p] EXCEPT !.pc = "regenClaims", !.scope = d, !.work = work], job[p])
        BY <1>0 DEF JobRecord, Inherits
      <3> QED BY <2>2, <3>1, <3>2, BecomesQuiet
    <2>6. CASE RegenClaims(p)
      BY <1>b, <2>2, <2>6, PlanQuiet, GotoQuiet DEF RegenClaims, PlanClaims
    <2>7. CASE RegenSummary(p)
      BY <2>2, <2>7, PlanQuiet, GotoQuiet DEF RegenSummary, PlanSummaries
    <2>8. CASE Retire(p)
      <3>1. Idle.oldRow = {}
        BY DEF Idle
      <3>2. Becomes(p, Idle)
        BY <2>8 DEF Retire
      <3> QED BY <3>1, <3>2, BecomesQuiet DEF Inherits
    <2>9. CASE GenerateClaims(p) \/ GenerateSummaries(p) \/ GenerateInsight(p)
      BY <2>2, <2>9, PlanQuiet
      DEF GenerateClaims, GenerateSummaries, GenerateInsight, PlanClaims, PlanSummaries
    <2>10. CASE Regenerate(p)
      <3>1. PICK work, stale, staleTables :
              Becomes(p, [job[p] EXCEPT !.pc = "regen", !.work = work, !.stale = stale,
                                        !.staleTables = staleTables])
        BY <2>10 DEF Regenerate
      <3>2. Inherits([job[p] EXCEPT !.pc = "regen", !.work = work, !.stale = stale,
                           !.staleTables = staleTables], job[p])
        BY <1>0 DEF JobRecord, Inherits
      <3> QED BY <2>2, <3>1, <3>2, BecomesQuiet
    <2>12. CASE CiteChunks(p)
      <3>1. PICK a, active, uncited :
              Becomes(p, [job[p] EXCEPT !.uncited = uncited, !.plan[a] = active])
        BY <2>12 DEF CiteChunks
      <3>2. Inherits([job[p] EXCEPT !.uncited = uncited, !.plan[a] = active], job[p])
        BY <1>0 DEF JobRecord, Inherits
      <3> QED BY <2>2, <3>1, <3>2, BecomesQuiet
    <2>11. \/ InsertArts(p) \/ CiteChunks(p) \/ LinkArts(p) \/ RegenNext(p) \/ RegenClaims(p)
           \/ RegenSummary(p) \/ Retire(p) \/ Regenerate(p)
           \/ GenerateClaims(p) \/ GenerateSummaries(p) \/ GenerateInsight(p)
      BY DEF ArtifactStep, ArtifactCommand
    <2> QED BY <2>3, <2>4, <2>5, <2>6, <2>7, <2>8, <2>9, <2>10, <2>11, <2>12
  <1> QED BY <1>a, <1>b

LEMMA DocumentCommandSupersession ==
  ASSUME SupersessionInv, TypeOK', NEW p \in Job, DocumentCommand(p)
  PROVE  SupersessionInv'
  <1> USE DEF SupersessionInv
  <1>0. job[p] \in JobRecord
    BY DEF TypeOK, JobTypeOK
  <1>1. CASE Register(p)
    <2>1. PICK batch, opts :
            Becomes(p, [job[p] EXCEPT !.pc = "check", !.work = batch, !.opts = opts])
      BY <1>1 DEF Register
    <2>2. Inherits([job[p] EXCEPT !.pc = "check", !.work = batch, !.opts = opts], job[p])
      BY <1>0 DEF JobRecord, Inherits
    <2>3. job[p].pc # "updateDelete"
      BY <1>1 DEF Register, Start
    <2>4. QuietRows
      BY <1>1 DEF Register, QuietRows, storeVars, docVars
    <2> QED BY <2>1, <2>2, <2>3, <2>4, BecomesQuiet, QuietStep
  <1>2. CASE DeleteSoft(p)
    <2>1. QuietRows
      BY <1>2 DEF DeleteSoft, SoftDelete, SoftDeleteRows, QuietRows, TypeOK, StoreTypeOK
    <2>2. job' = job /\ job[p].pc = "idle"
      BY <1>2 DEF DeleteSoft, Start
    <2>3. QuietJobs(p)
      BY <2>2 DEF QuietJobs, Inherits
    <2> QED BY <2>1, <2>3, QuietStep
  <1>3. CASE DeleteHard(p)
    <2>1. PICK d \in Doc : /\ Removable(d)
                           /\ HardDeleteRows(d)
                           /\ job' = [q \in Job |-> Forgotten(q, d)]
      BY <1>3 DEF DeleteHard
    <2>2. /\ docStatus' = [docStatus EXCEPT ![d] = "none"]
          /\ supersedes' = [supersedes EXCEPT ![d] = NoDoc]
      BY <2>1 DEF HardDeleteRows
    <2>3. SupersededIsDead'
      <3> SUFFICES ASSUME NEW e \in Doc, supersedes'[e] # NoDoc
                   PROVE  docStatus'[supersedes'[e]] = "DELETED"
        BY DEF SupersededIsDead
      <3>1. supersedes'[e] = supersedes[e] /\ supersedes[e] \in Doc
        BY <2>2 DEF TypeOK, StoreTypeOK
      <3>2. supersedes[e] # d
        BY <2>1 DEF Removable
      <3> QED BY <2>2, <3>1, <3>2 DEF SupersededIsDead, TypeOK, StoreTypeOK
    <2>4. OldRowIsDead'
      <3>0. ASSUME NEW q \in Job
            PROVE  /\ job'[q].pc = job[q].pc /\ job'[q].upd = job[q].upd
                   /\ job'[q].oldRow = job[q].oldRow \ {d}
        <4>1. job[q] \in JobRecord
          BY DEF TypeOK, JobTypeOK
        <4> QED BY <2>1, <4>1 DEF Forgotten, JobRecord
      <3>a. \A q \in Job : job'[q].oldRow \subseteq {job'[q].upd.old}
        BY <3>0 DEF OldRowIsDead
      <3> SUFFICES ASSUME NEW q \in Job, job'[q].pc # "updateDelete", NEW e \in job'[q].oldRow
                   PROVE  docStatus'[e] = "DELETED"
        BY <3>a DEF OldRowIsDead
      <3>1. job[q] \in JobRecord
        BY DEF TypeOK, JobTypeOK
      <3>2. job'[q].pc = job[q].pc /\ job'[q].oldRow = job[q].oldRow \ {d}
        BY <3>0
      <3>3. e \in Doc /\ e # d /\ docStatus[e] = "DELETED"
        BY <3>1, <3>2 DEF OldRowIsDead, JobRecord
      <3> QED BY <2>2, <3>3 DEF TypeOK, StoreTypeOK
    <2> QED BY <2>3, <2>4
  <1>4. CASE Update(p)
    <2>1. PICK old, new, work :
            Becomes(p, [job[p] EXCEPT
              !.pc = "updateDelete",
              !.work = work,
              !.upd = [old |-> old, new |-> new, version |-> docVersion[old]],
              !.oldRow = {old}])
      BY <1>4 DEF Update
    <2>2. docStatus' = docStatus /\ supersedes' = supersedes
      BY <1>4 DEF Update, storeVars, docVars
    <2>3. SupersededIsDead'
      BY <2>2 DEF SupersededIsDead
    <2>4. OldRowIsDead'
      <3>1. \A q \in Job \ {p} : job'[q] = job[q]
        BY <2>1 DEF Becomes, TypeOK, JobTypeOK
      <3>2. job'[p].pc = "updateDelete" /\ job'[p].oldRow = {job'[p].upd.old}
        BY <1>0, <2>1 DEF Becomes, TypeOK, JobTypeOK, JobRecord
      <3> QED BY <2>2, <3>1, <3>2 DEF OldRowIsDead
    <2> QED BY <2>3, <2>4
  <1>5. CASE Clear(p)
    <2>1. supersedes' = [d \in Doc |-> NoDoc]
      BY <1>5 DEF Clear, WipeRows
    <2>2. SupersededIsDead'
      BY <2>1 DEF SupersededIsDead
    <2>3. ASSUME NEW q \in Job
          PROVE  job'[q].oldRow = {}
      <3>1. job[q] \in JobRecord
        BY DEF TypeOK, JobTypeOK
      <3>2. job'[q] = [job[q] EXCEPT !.held = {}, !.stale = {}, !.staleTables = {}, !.oldRow = {}]
        BY <1>5 DEF Clear
      <3> QED BY <3>1, <3>2 DEF JobRecord
    <2>4. OldRowIsDead'
      BY <2>3 DEF OldRowIsDead
    <2> QED BY <2>2, <2>4
  <1> QED BY <1>1, <1>2, <1>3, <1>4, <1>5 DEF DocumentCommand

LEMMA UpdateStepSupersession ==
  ASSUME SupersessionInv, TypeOK', NEW p \in Job, UpdateStep(p)
  PROVE  SupersessionInv'
  <1> USE DEF SupersessionInv
  <1>0. job[p] \in JobRecord
    BY DEF TypeOK, JobTypeOK
  <1>1. CASE UpdateDelete(p)
    <2>1. CASE Abandon(p)
      BY <2>1, AbandonQuiet, QuietStep
    <2>2. CASE ~Abandon(p)
      <3> DEFINE old == job[p].upd.old
      <3>1. /\ Becomes(p, [job[p] EXCEPT !.pc = "check", !.ret = "supersede"])
            /\ docStatus' = [docStatus EXCEPT ![old] = "DELETED"]
            /\ supersedes' = supersedes
        BY <1>1, <2>2 DEF UpdateDelete, SoftDelete, SoftDeleteRows
      <3>2. \A d \in Doc : d = old \/ docStatus[d] = "DELETED" => docStatus'[d] = "DELETED"
        BY <3>1 DEF TypeOK, StoreTypeOK
      <3>3. SupersededIsDead'
        <4>1. \A d \in Doc : supersedes[d] \in Doc \cup {NoDoc}
          BY DEF TypeOK, StoreTypeOK
        <4> QED BY <3>1, <3>2, <4>1 DEF SupersededIsDead
      <3>4. \A q \in Job \ {p} : job'[q] = job[q]
        BY <3>1 DEF Becomes, TypeOK, JobTypeOK
      <3>5. job'[p].oldRow = job[p].oldRow /\ job'[p].upd = job[p].upd
        BY <1>0, <3>1 DEF Becomes, TypeOK, JobTypeOK, JobRecord
      <3>6. \A q \in Job : job[q].oldRow \subseteq Doc
        BY DEF TypeOK, JobTypeOK, JobRecord
      <3>7. OldRowIsDead'
        BY <3>2, <3>4, <3>5, <3>6 DEF OldRowIsDead
      <3> QED BY <3>3, <3>7
    <2> QED BY <2>1, <2>2
  <1>2. CASE Supersede(p)
    <2>1. docStatus' = docStatus /\ Becomes(p, Idle)
      BY <1>2 DEF Supersede
    <2>2. OldRowIsDead'
      <3>1. Idle.oldRow = {}
        BY DEF Idle
      <3>2. \A q \in Job : job'[q].oldRow = {} \/ job'[q] = job[q]
        BY <2>1, <3>1 DEF Becomes, TypeOK, JobTypeOK
      <3> QED BY <2>1, <3>2 DEF OldRowIsDead
    <2>3. \/ supersedes' = supersedes
          \/ /\ supersedes' = [supersedes EXCEPT ![job[p].upd.new] = job[p].upd.old]
             /\ job[p].upd.old \in job[p].oldRow
      BY <1>2 DEF Supersede
    <2>4. job[p].upd.old \in job[p].oldRow => docStatus[job[p].upd.old] = "DELETED"
      BY <1>2 DEF OldRowIsDead, Supersede
    <2>5. SupersededIsDead'
      BY <2>1, <2>3, <2>4 DEF SupersededIsDead, TypeOK, StoreTypeOK
    <2> QED BY <2>2, <2>5
  <1> QED BY <1>1, <1>2 DEF UpdateStep

LEMMA InitSupersession == Init => SupersessionInv
  <1>1. Init => SupersededIsDead /\ OldRowIsDead
    BY DEF Init, StoreInit, JobInit, Idle, SupersededIsDead, OldRowIsDead
  <1> QED BY <1>1, InitType DEF SupersessionInv

LEMMA NextSupersession ==
  ASSUME SupersessionInv, [Next]_vars
  PROVE  SupersessionInv'
  <1>1. TypeOK /\ TypeOK'
    BY NextType DEF SupersessionInv
  <1>2. CASE UNCHANGED vars
    BY <1>2 DEF vars, storeVars, docVars, jobVars, SupersessionInv, SupersededIsDead,
       OldRowIsDead, TypeOK, StoreTypeOK, JobTypeOK, chunkVars, tableVars, artVars
  <1>3. ASSUME NEW p \in Job, IngestStep(p) \/ ArtifactStep(p) \/ ArtifactCommand(p) \/ Crash(p)
        PROVE  SupersessionInv'
    BY <1>1, <1>3, IngestQuiet, ArtifactQuiet, AbandonQuiet, QuietStep DEF Crash
  <1>4. CASE Next
    BY <1>1, <1>3, <1>4, DocumentCommandSupersession, UpdateStepSupersession DEF Next, JobStep
  <1> QED BY <1>2, <1>4

\* From the soft delete of update_document to its last step, the row it read at
\* its start is DELETED or gone, whatever other processes do in between; with
\* that, what is superseded is DELETED.
THEOREM OldRowStaysDead == Spec => []SupersessionInv
  <1>1. SupersessionInv /\ [Next]_vars => SupersessionInv'
    BY NextSupersession
  <1> QED BY InitSupersession, <1>1, PTL DEF Spec

\* A superseded document stays out of retrieval and its row stays there, so
\* that supersedes_document_id always leads from a version to the one before.
THEOREM Supersession == Spec => []SupersededIsDead
  <1>1. SupersessionInv => SupersededIsDead
    BY DEF SupersessionInv
  <1> QED BY OldRowStaysDead, <1>1, PTL

=============================================================================
