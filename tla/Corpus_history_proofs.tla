------------------------- MODULE Corpus_history_proofs -------------------------
(***************************************************************************)
(* Proofs about what happens to a row over its life: a soft-deleted        *)
(* document is not revived, an artifact leaves retrieval through STALE and *)
(* with its evidence, and a document is summarised once.  All but the last *)
(* hold for any number of processes that ingest, generate, delete and      *)
(* regenerate side by side.                                                *)
(***************************************************************************)
EXTENDS Corpus_proofs

\* artifact_sources refers to the artifact's row.
SourcesNeedRows == \A a \in Art : artStatus[a] = "none" => artSources[a] = {}

\* The ids of a generator are new until it inserts them.
NewUntilInserted ==
  \A p \in Job : job[p].pc = "insertArts" => \A a \in job[p].mine : artStatus[a] = "none"

\* No two generators draw one id.
MineApart == \A p, q \in Job : p # q => job[p].mine \cap job[q].mine = {}

\* What regenerate-stale has read as STALE stays out of retrieval while it works.
StaleIsMarked == \A p \in Job : \A a \in job[p].stale : artStatus[a] \in {"STALE", "DELETED"}

\* Between the answers of the model and the rows that cite the evidence.
Writing == {"insertArts", "linkArts"}

ArtInv == TypeOK /\ SourcesNeedRows /\ NewUntilInserted /\ MineApart /\ StaleIsMarked

LEMMA OnlyThis ==
  ASSUME TypeOK, NEW p \in Job, NEW r, Becomes(p, r)
  PROVE  job'[p] = r /\ \A q \in Job \ {p} : job'[q] = job[q]
  BY DEF TypeOK, JobTypeOK, Becomes

-----------------------------------------------------------------------------
(***************************************************************************)
(* A calm step leaves artifacts as they are and takes no new ids.          *)
(***************************************************************************)
Calm(p) ==
  /\ UNCHANGED <<artStatus, artSources>>
  /\ \A q \in Job \ {p} : job'[q] = job[q]
  /\ job'[p].mine \subseteq job[p].mine
  /\ job'[p].pc \notin Writing
  /\ job'[p].stale \subseteq job[p].stale \cup Stale(artStatus)

LEMMA CalmStep ==
  ASSUME ArtInv, TypeOK', NEW p \in Job, Calm(p)
  PROVE  ArtInv'
  <1>1. SourcesNeedRows'
    BY DEF ArtInv, SourcesNeedRows, Calm
  <1>2. NewUntilInserted'
    BY DEF ArtInv, NewUntilInserted, Calm, Writing
  <1>3. MineApart'
    BY DEF ArtInv, MineApart, Calm
  <1>4. StaleIsMarked'
    BY DEF ArtInv, StaleIsMarked, Calm, Stale
  <1> QED BY <1>1, <1>2, <1>3, <1>4 DEF ArtInv

LEMMA BecomesCalm ==
  ASSUME TypeOK, NEW p \in Job, NEW r, Becomes(p, r), UNCHANGED <<artStatus, artSources>>,
         r.mine \subseteq job[p].mine, r.pc \notin Writing,
         r.stale \subseteq job[p].stale \cup Stale(artStatus)
  PROVE  Calm(p)
  BY OnlyThis DEF Calm

LEMMA GotoCalm ==
  ASSUME TypeOK, NEW p \in Job, NEW pc, Goto(p, pc), UNCHANGED <<artStatus, artSources>>,
         pc \notin Writing
  PROVE  Calm(p)
  <1>1. job[p] \in JobRecord
    BY DEF TypeOK, JobTypeOK
  <1> DEFINE r == [job[p] EXCEPT !.pc = pc]
  <1>2. r.pc = pc /\ r.mine = job[p].mine /\ r.stale = job[p].stale
    BY <1>1 DEF JobRecord
  <1>3. Becomes(p, r)
    BY DEF Goto
  <1> HIDE DEF r
  <1> QED BY <1>2, <1>3, BecomesCalm

LEMMA ReturnedCalm ==
  ASSUME TypeOK, NEW p \in Job, Becomes(p, Returned(p)), UNCHANGED <<artStatus, artSources>>
  PROVE  Calm(p)
  <1>1. job[p] \in JobRecord
    BY DEF TypeOK, JobTypeOK
  <1>2. /\ Returned(p).mine = {} /\ Returned(p).pc \notin Writing
        /\ Returned(p).stale \subseteq job[p].stale
    <2>1. CASE job[p].ret = "idle"
      BY <2>1 DEF Returned, Idle, Writing
    <2>2. CASE job[p].ret # "idle"
      BY <1>1, <2>2 DEF Returned, JobRecord, Writing
    <2> QED BY <2>1, <2>2
  <1> QED BY <1>2, BecomesCalm

LEMMA IdleCalm ==
  ASSUME TypeOK, NEW p \in Job, Becomes(p, Idle), UNCHANGED <<artStatus, artSources>>
  PROVE  Calm(p)
  <1>1. Idle.mine = {} /\ Idle.pc \notin Writing /\ Idle.stale = {}
    BY DEF Idle, Writing
  <1> QED BY <1>1, BecomesCalm

LEMMA AbandonCalm ==
  ASSUME TypeOK, NEW p \in Job, Abandon(p)
  PROVE  Calm(p)
  BY IdleCalm DEF Abandon, storeVars, artVars

LEMMA IngestCalm ==
  ASSUME TypeOK, NEW p \in Job, IngestStep(p)
  PROVE  Calm(p)
  <1>0. job[p] \in JobRecord
    BY DEF TypeOK, JobTypeOK
  <1>a. CASE Abandon(p)
    BY <1>a, AbandonCalm
  <1>b. CASE ~Abandon(p)
    <2>0. UNCHANGED <<artStatus, artSources>>
      BY <1>b DEF storeVars, artVars, IngestStep, DupCheck, InsertDocs, InsertSummaryChunks,
         LinkSummaryChunks, InsertFulltextChunks, LinkFulltextChunks, InsertChunks, LinkChunks,
         InsertTables, LinkTables, Bump
    <2>1. CASE DupCheck(p) \/ InsertDocs(p)
      <3>1. PICK pc, work, held :
              /\ pc \notin Writing
              /\ \/ Becomes(p, Returned(p))
                 \/ Becomes(p, [job[p] EXCEPT !.pc = pc, !.work = work])
                 \/ Becomes(p, [job[p] EXCEPT !.pc = pc, !.held = held])
        BY <1>b, <2>1 DEF DupCheck, InsertDocs, Writing
      <3> DEFINE r == [job[p] EXCEPT !.pc = pc, !.work = work]
                 s == [job[p] EXCEPT !.pc = pc, !.held = held]
      <3>2. /\ r.pc = pc /\ r.mine = job[p].mine /\ r.stale = job[p].stale
            /\ s.pc = pc /\ s.mine = job[p].mine /\ s.stale = job[p].stale
        BY <1>0 DEF JobRecord
      <3>3. Becomes(p, Returned(p)) \/ Becomes(p, r) \/ Becomes(p, s)
        BY <3>1
      <3> HIDE DEF r, s
      <3> QED BY <2>0, <3>1, <3>2, <3>3, ReturnedCalm, BecomesCalm
    <2>2. CASE \/ InsertSummaryChunks(p) \/ LinkSummaryChunks(p) \/ InsertFulltextChunks(p)
               \/ LinkFulltextChunks(p) \/ InsertTables(p) \/ LinkTables(p)
      <3>1. PICK pc : pc \notin Writing /\ Goto(p, pc)
        BY <1>b, <2>2 DEF InsertSummaryChunks, LinkSummaryChunks, InsertFulltextChunks,
           LinkFulltextChunks, InsertChunks, LinkChunks, InsertTables, LinkTables, AfterSummary,
           AfterChunks, Writing
      <3> QED BY <2>0, <3>1, GotoCalm
    <2>3. CASE Bump(p)
      BY <2>0, <2>3, ReturnedCalm DEF Bump
    <2> QED BY <2>1, <2>2, <2>3 DEF IngestStep
  <1> QED BY <1>a, <1>b

LEMMA CommandCalm ==
  ASSUME TypeOK, NEW p \in Job, Register(p) \/ Update(p) \/ Supersede(p)
  PROVE  Calm(p)
  <1>0. job[p] \in JobRecord
    BY DEF TypeOK, JobTypeOK
  <1>1. UNCHANGED <<artStatus, artSources>>
    BY DEF Register, Update, Supersede, storeVars, artVars
  <1>2. CASE Register(p)
    <2>1. PICK batch, opts :
            Becomes(p, [job[p] EXCEPT !.pc = "check", !.work = batch, !.opts = opts])
      BY <1>2 DEF Register
    <2> DEFINE r == [job[p] EXCEPT !.pc = "check", !.work = batch, !.opts = opts]
    <2>2. r.pc = "check" /\ r.mine = job[p].mine /\ r.stale = job[p].stale
      BY <1>0 DEF JobRecord
    <2> HIDE DEF r
    <2> QED BY <1>1, <2>1, <2>2, BecomesCalm DEF r, Writing
  <1>3. CASE Update(p)
    <2>1. PICK batch, upd, old :
            Becomes(p, [job[p] EXCEPT !.pc = "updateDelete", !.work = batch, !.upd = upd,
                                      !.oldRow = {old}])
      BY <1>3 DEF Update
    <2> DEFINE r == [job[p] EXCEPT !.pc = "updateDelete", !.work = batch, !.upd = upd,
                                   !.oldRow = {old}]
    <2>2. r.pc = "updateDelete" /\ r.mine = job[p].mine /\ r.stale = job[p].stale
      BY <1>0 DEF JobRecord
    <2> HIDE DEF r
    <2> QED BY <1>1, <2>1, <2>2, BecomesCalm DEF r, Writing
  <1>4. CASE Supersede(p)
    BY <1>1, <1>4, IdleCalm DEF Supersede
  <1> QED BY <1>2, <1>3, <1>4

-----------------------------------------------------------------------------
(***************************************************************************)
(* Deletion and wipe                                                       *)
(***************************************************************************)

\* What a deletion does to artifacts and to the memory of the processes.
Sweeps(d) ==
  /\ artStatus' = Swept(d)
  /\ \A a \in Art : artSources'[a] \subseteq artSources[a]
  /\ \A q \in Job : /\ job'[q].mine = job[q].mine /\ job'[q].stale = job[q].stale
                    /\ job'[q].pc = "insertArts" => job[q].pc = "insertArts"

LEMMA SweepsStep ==
  ASSUME ArtInv, TypeOK', NEW d, Sweeps(d)
  PROVE  ArtInv'
  <1>1. \A a \in Art : artStatus'[a] = artStatus[a] \/ (artStatus'[a] = "STALE" /\ artStatus[a] # "none")
    BY DEF Sweeps, Swept, Dependents, ArtInv, SourcesNeedRows
  <1>2. \A q \in Job : job[q].mine \subseteq Art /\ job[q].stale \subseteq Art
    BY DEF ArtInv, TypeOK, JobTypeOK, JobRecord
  <1>3. SourcesNeedRows'
    BY <1>1 DEF ArtInv, SourcesNeedRows, Sweeps
  <1>4. NewUntilInserted'
    BY <1>1, <1>2 DEF ArtInv, NewUntilInserted, Sweeps
  <1>5. MineApart'
    BY DEF ArtInv, MineApart, Sweeps
  <1>6. StaleIsMarked'
    BY <1>1, <1>2 DEF ArtInv, StaleIsMarked, Sweeps
  <1> QED BY <1>3, <1>4, <1>5, <1>6 DEF ArtInv

LEMMA DeleteSweeps ==
  ASSUME TypeOK, NEW p \in Job, DeleteSoft(p) \/ DeleteHard(p) \/ (UpdateDelete(p) /\ ~Abandon(p))
  PROVE  \E d : Sweeps(d)
  <1>0. \A q \in Job : job[q] \in JobRecord
    BY DEF TypeOK, JobTypeOK
  <1>1. CASE DeleteSoft(p)
    BY <1>1 DEF DeleteSoft, SoftDelete, SoftDeleteRows, Sweeps
  <1>2. CASE DeleteHard(p)
    <2>1. PICK d \in Doc : HardDeleteRows(d) /\ job' = [q \in Job |-> Forgotten(q, d)]
      BY <1>2 DEF DeleteHard
    <2>2. ASSUME NEW q \in Job
          PROVE  job'[q].mine = job[q].mine /\ job'[q].stale = job[q].stale /\ job'[q].pc = job[q].pc
      BY <1>0, <2>1 DEF Forgotten, JobRecord
    <2>3. \A a \in Art : artSources'[a] \subseteq artSources[a]
      BY <2>1 DEF HardDeleteRows
    <2>4. Sweeps(d)
      BY <2>1, <2>2, <2>3 DEF HardDeleteRows, Sweeps
    <2> QED BY <2>4
  <1>3. CASE UpdateDelete(p) /\ ~Abandon(p)
    <2> DEFINE old == job[p].upd.old
               r == [job[p] EXCEPT !.pc = "check", !.ret = "supersede"]
    <2>1. SoftDeleteRows(old) /\ Becomes(p, r)
      BY <1>3 DEF UpdateDelete, SoftDelete
    <2>2. r.pc = "check" /\ r.mine = job[p].mine /\ r.stale = job[p].stale
      BY <1>0 DEF JobRecord
    <2> HIDE DEF r, old
    <2>3. job'[p] = r /\ \A q \in Job \ {p} : job'[q] = job[q]
      BY <2>1, OnlyThis
    <2>4. Sweeps(old)
      BY <2>1, <2>2, <2>3 DEF SoftDeleteRows, Sweeps
    <2> QED BY <2>4
  <1> QED BY <1>1, <1>2, <1>3

LEMMA ClearStep ==
  ASSUME ArtInv, TypeOK', NEW p \in Job, Clear(p)
  PROVE  ArtInv'
  <1>1. artStatus' = [a \in Art |-> "none"] /\ artSources' = [a \in Art |-> {}]
    BY DEF Clear, WipeRows
  <1>2. ASSUME NEW q \in Job
        PROVE  job'[q].mine = job[q].mine /\ job'[q].stale = {} /\ job'[q].mine \subseteq Art
    <2>1. job[q] \in JobRecord
      BY DEF ArtInv, TypeOK, JobTypeOK
    <2>2. job'[q] = [job[q] EXCEPT !.held = {}, !.stale = {}, !.staleTables = {}, !.oldRow = {}]
      BY DEF Clear
    <2> QED BY <2>1, <2>2 DEF JobRecord
  <1>3. SourcesNeedRows' /\ NewUntilInserted' /\ StaleIsMarked'
    BY <1>1, <1>2 DEF SourcesNeedRows, NewUntilInserted, StaleIsMarked
  <1>4. MineApart'
    BY <1>2 DEF ArtInv, MineApart
  <1> QED BY <1>3, <1>4 DEF ArtInv

-----------------------------------------------------------------------------
(***************************************************************************)
(* Generation and regeneration                                             *)
(***************************************************************************)
LEMMA PlanStep ==
  ASSUME ArtInv, TypeOK', NEW p \in Job, NEW type, NEW mine \in SUBSET FreeArts, NEW cites, NEW ret,
         Plan(p, type, mine, cites, ret), UNCHANGED <<artStatus, artSources>>
  PROVE  ArtInv'
  <1>0. TypeOK /\ job[p] \in JobRecord
    BY DEF ArtInv, TypeOK, JobTypeOK
  <1>1. PICK plan, held, uncited :
          Becomes(p, [job[p] EXCEPT !.pc = "insertArts", !.ret = ret, !.type = type,
                                    !.mine = mine, !.plan = plan, !.held = held,
                                    !.needs = held, !.uncited = uncited])
    BY DEF Plan
  <1> DEFINE r == [job[p] EXCEPT !.pc = "insertArts", !.ret = ret, !.type = type, !.mine = mine,
                       !.plan = plan, !.held = held, !.needs = held, !.uncited = uncited]
  <1>2. r.mine = mine /\ r.stale = job[p].stale
    BY <1>0 DEF JobRecord
  <1>3. job'[p] = r /\ \A q \in Job \ {p} : job'[q] = job[q]
    BY <1>0, <1>1, OnlyThis
  <1> HIDE DEF r
  <1>4. \A a \in mine : artStatus[a] = "none" /\ \A q \in Job : a \notin job[q].mine
    BY DEF FreeArts
  <1>5. SourcesNeedRows' /\ StaleIsMarked'
    BY <1>2, <1>3 DEF ArtInv, SourcesNeedRows, StaleIsMarked
  <1>6. NewUntilInserted'
    BY <1>2, <1>3, <1>4 DEF ArtInv, NewUntilInserted
  <1>7. MineApart'
    BY <1>2, <1>3, <1>4 DEF ArtInv, MineApart
  <1> QED BY <1>5, <1>6, <1>7 DEF ArtInv

LEMMA PlanClaimsStep ==
  ASSUME ArtInv, TypeOK', NEW p \in Job, NEW chunks, NEW ret, PlanClaims(p, chunks, ret),
         UNCHANGED <<artStatus, artSources>>
  PROVE  ArtInv'
  <1>1. PICK mine \in SUBSET FreeArts : \E f \in [mine -> chunks] :
          Plan(p, "Claim", mine, [a \in mine |-> {f[a]}], ret)
    BY DEF PlanClaims
  <1>2. PICK f \in [mine -> chunks] : Plan(p, "Claim", mine, [a \in mine |-> {f[a]}], ret)
    BY <1>1
  <1> QED BY <1>2, PlanStep

LEMMA PlanSummariesStep ==
  ASSUME ArtInv, TypeOK', NEW p \in Job, NEW docs, NEW ret, PlanSummaries(p, docs, ret),
         UNCHANGED <<artStatus, artSources>>
  PROVE  ArtInv'
  <1>1. PICK mine \in SUBSET FreeArts : \E f \in [mine -> docs] :
          Plan(p, "Summary", mine, [a \in mine |-> ChunksOf(f[a])], ret)
    BY DEF PlanSummaries
  <1>2. PICK f \in [mine -> docs] : Plan(p, "Summary", mine, [a \in mine |-> ChunksOf(f[a])], ret)
    BY <1>1
  <1> QED BY <1>2, PlanStep

LEMMA GenerateStep ==
  ASSUME ArtInv, TypeOK', NEW p \in Job,
         GenerateClaims(p) \/ GenerateSummaries(p) \/ GenerateInsight(p)
  PROVE  ArtInv'
  <1>1. UNCHANGED <<artStatus, artSources>>
    BY DEF GenerateClaims, GenerateSummaries, GenerateInsight, storeVars, artVars
  <1>2. CASE GenerateClaims(p)
    <2>1. PICK kind \in Kind : PlanClaims(p, Unprocessed(kind), "idle")
      BY <1>2 DEF GenerateClaims
    <2> QED BY <1>1, <2>1, PlanClaimsStep
  <1>3. CASE GenerateSummaries(p)
    <2>1. PlanSummaries(p, NeedSummary, "idle")
      BY <1>3 DEF GenerateSummaries
    <2> QED BY <1>1, <2>1, PlanSummariesStep
  <1>4. CASE GenerateInsight(p)
    <2>1. PICK claims \in SUBSET Art, a \in FreeArts :
            Plan(p, "Insight", {a}, [b \in {a} |-> UNION {artSources[c] : c \in claims}], "idle")
      BY <1>4 DEF GenerateInsight
    <2>2. {a} \in SUBSET FreeArts
      OBVIOUS
    <2> QED BY <1>1, <2>1, <2>2, PlanStep
  <1> QED BY <1>2, <1>3, <1>4

LEMMA InsertArtsStep ==
  ASSUME ArtInv, TypeOK', NEW p \in Job, InsertArts(p)
  PROVE  ArtInv'
  <1>0. TypeOK
    BY DEF ArtInv
  <1>1. /\ artStatus' = [a \in Art |-> IF a \in job[p].mine THEN "ACTIVE" ELSE artStatus[a]]
        /\ artSources' = artSources /\ job[p].pc = "insertArts"
    BY DEF InsertArts
  <1>2. Goto(p, "linkArts")
    BY DEF InsertArts
  <1>3. /\ job'[p].pc = "linkArts" /\ job'[p].mine = job[p].mine /\ job'[p].stale = job[p].stale
        /\ \A q \in Job \ {p} : job'[q] = job[q]
    <2>1. job[p] \in JobRecord
      BY DEF ArtInv, TypeOK, JobTypeOK
    <2>2. /\ job'[p] = [job[p] EXCEPT !.pc = "linkArts"]
          /\ \A q \in Job \ {p} : job'[q] = job[q]
      BY <1>0, <1>2, OnlyThis DEF Goto
    <2> QED BY <2>1, <2>2 DEF JobRecord
  <1>4. \A q \in Job : job[q].mine \subseteq Art /\ job[q].stale \subseteq Art
    BY DEF ArtInv, TypeOK, JobTypeOK, JobRecord
  <1>5. \A a \in job[p].mine : artStatus[a] = "none"
    BY <1>1 DEF ArtInv, NewUntilInserted
  <1>6. SourcesNeedRows'
    BY <1>1 DEF ArtInv, SourcesNeedRows
  <1>7. NewUntilInserted'
    BY <1>1, <1>3, <1>4 DEF ArtInv, NewUntilInserted, MineApart
  <1>8. MineApart'
    BY <1>3 DEF ArtInv, MineApart
  <1>9. StaleIsMarked'
    BY <1>1, <1>3, <1>4, <1>5 DEF ArtInv, StaleIsMarked
  <1> QED BY <1>6, <1>7, <1>8, <1>9 DEF ArtInv

LEMMA LinkArtsStep ==
  ASSUME ArtInv, TypeOK', NEW p \in Job, LinkArts(p), ~Abandon(p)
  PROVE  ArtInv'
  <1>0. TypeOK /\ job[p] \in JobRecord
    BY DEF ArtInv, TypeOK, JobTypeOK
  <1>1. /\ artSources' = [a \in Art |-> IF a \in job[p].mine THEN job[p].plan[a] ELSE artSources[a]]
        /\ artStatus' = artStatus
        /\ \A a \in job[p].mine : artStatus[a] # "none"
        /\ Becomes(p, Returned(p)) \/ Goto(p, "bump")
    BY DEF LinkArts, EvidenceGone
  <1>2. \E r : /\ Becomes(p, r) /\ r.mine \subseteq job[p].mine /\ r.pc # "insertArts"
               /\ r.stale \subseteq job[p].stale
    <2>1. CASE Goto(p, "bump")
      <3> DEFINE r == [job[p] EXCEPT !.pc = "bump"]
      <3>1. r.pc = "bump" /\ r.mine = job[p].mine /\ r.stale = job[p].stale
        BY <1>0 DEF JobRecord
      <3>2. Becomes(p, r)
        BY <2>1 DEF Goto
      <3> HIDE DEF r
      <3> QED BY <3>1, <3>2
    <2>2. CASE Becomes(p, Returned(p))
      <3>1. /\ Returned(p).mine = {} /\ Returned(p).pc # "insertArts"
            /\ Returned(p).stale \subseteq job[p].stale
        <4>1. CASE job[p].ret = "idle"
          BY <4>1 DEF Returned, Idle
        <4>2. CASE job[p].ret # "idle"
          BY <1>0, <4>2 DEF Returned, JobRecord
        <4> QED BY <4>1, <4>2
      <3> QED BY <2>2, <3>1
    <2> QED BY <1>1, <2>1, <2>2
  <1>3. /\ job'[p].mine \subseteq job[p].mine /\ job'[p].pc # "insertArts"
        /\ job'[p].stale \subseteq job[p].stale
        /\ \A q \in Job \ {p} : job'[q] = job[q]
    BY <1>0, <1>2, OnlyThis
  <1>4. SourcesNeedRows'
    BY <1>1 DEF ArtInv, SourcesNeedRows
  <1>5. NewUntilInserted' /\ StaleIsMarked'
    BY <1>1, <1>3 DEF ArtInv, NewUntilInserted, StaleIsMarked
  <1>6. MineApart'
    BY <1>3 DEF ArtInv, MineApart
  <1> QED BY <1>4, <1>5, <1>6 DEF ArtInv

\* What retiring writes over the status of the artifacts.
LEMMA RetiredStatus ==
  ASSUME TypeOK, NEW p \in Job, Retire(p)
  PROVE  artStatus' = [a \in Art |-> IF a \in job[p].stale /\ artStatus[a] # "none"
                                       THEN "DELETED" ELSE artStatus[a]]
  <1>1. DOMAIN artStatus = Art
    BY DEF TypeOK, StoreTypeOK
  <1> QED BY <1>1 DEF Retire

LEMMA RetireStep ==
  ASSUME ArtInv, TypeOK', NEW p \in Job, Retire(p)
  PROVE  ArtInv'
  <1>0. TypeOK
    BY DEF ArtInv
  <1>1. /\ \A a \in Art : artStatus'[a] = artStatus[a] \/ (artStatus'[a] = "DELETED" /\ artStatus[a] # "none")
        /\ artSources' = artSources
    BY <1>0, RetiredStatus DEF Retire
  <1>2. Idle.mine = {} /\ Idle.pc # "insertArts" /\ Idle.stale = {}
    BY DEF Idle
  <1>3. job'[p] = Idle /\ \A q \in Job \ {p} : job'[q] = job[q]
    BY <1>0, OnlyThis DEF Retire
  <1>4. \A q \in Job : job[q].mine \subseteq Art /\ job[q].stale \subseteq Art
    BY DEF ArtInv, TypeOK, JobTypeOK, JobRecord
  <1>5. SourcesNeedRows'
    BY <1>1 DEF ArtInv, SourcesNeedRows
  <1>6. NewUntilInserted' /\ StaleIsMarked'
    BY <1>1, <1>2, <1>3, <1>4 DEF ArtInv, NewUntilInserted, StaleIsMarked
  <1>7. MineApart'
    BY <1>2, <1>3 DEF ArtInv, MineApart
  <1> QED BY <1>5, <1>6, <1>7 DEF ArtInv

LEMMA ArtifactInv ==
  ASSUME ArtInv, TypeOK', NEW p \in Job, ArtifactStep(p) \/ ArtifactCommand(p)
  PROVE  ArtInv'
  <1>0. TypeOK /\ job[p] \in JobRecord
    BY DEF ArtInv, TypeOK, JobTypeOK
  <1>a. CASE Abandon(p)
    BY <1>0, <1>a, AbandonCalm, CalmStep
  <1>b. CASE ~Abandon(p)
    <2>1. CASE InsertArts(p)
      BY <2>1, InsertArtsStep
    <2>2. CASE LinkArts(p)
      BY <1>b, <2>2, LinkArtsStep
    <2>3. CASE Retire(p)
      BY <2>3, RetireStep
    <2>4. CASE CiteChunks(p)
      <3>1. PICK a, active, uncited :
              Becomes(p, [job[p] EXCEPT !.uncited = uncited, !.plan[a] = active])
        BY <2>4 DEF CiteChunks
      <3> DEFINE r == [job[p] EXCEPT !.uncited = uncited, !.plan[a] = active]
      <3>2. r.pc = "linkArts" /\ r.mine = job[p].mine /\ r.stale = job[p].stale
        BY <1>0, <2>4 DEF JobRecord, CiteChunks
      <3>3. UNCHANGED <<artStatus, artSources>>
        BY <2>4 DEF CiteChunks, storeVars, artVars
      <3>4. job'[p] = r /\ \A q \in Job \ {p} : job'[q] = job[q]
        BY <1>0, <3>1, OnlyThis
      <3> HIDE DEF r
      <3> QED BY <3>2, <3>3, <3>4 DEF ArtInv, SourcesNeedRows, NewUntilInserted, MineApart,
              StaleIsMarked
    <2>5. CASE RegenNext(p)
      <3>1. PICK d, work :
              Becomes(p, [job[p] EXCEPT !.pc = "regenClaims", !.scope = d, !.work = work])
        BY <2>5 DEF RegenNext
      <3> DEFINE r == [job[p] EXCEPT !.pc = "regenClaims", !.scope = d, !.work = work]
      <3>2. r.pc = "regenClaims" /\ r.mine = job[p].mine /\ r.stale = job[p].stale
        BY <1>0 DEF JobRecord
      <3>3. UNCHANGED <<artStatus, artSources>>
        BY <2>5 DEF RegenNext, storeVars, artVars
      <3> HIDE DEF r
      <3> QED BY <1>0, <3>1, <3>2, <3>3, BecomesCalm, CalmStep DEF r, Writing
    <2>6. CASE RegenClaims(p) \/ RegenSummary(p)
      <3>1. UNCHANGED <<artStatus, artSources>>
        BY <1>b, <2>6 DEF RegenClaims, RegenSummary, storeVars, artVars
      <3>2. CASE Goto(p, "regenSummary") \/ Goto(p, "regen")
        BY <1>0, <3>1, <3>2, GotoCalm, CalmStep DEF Writing
      <3>3. CASE \E chunks, ret : PlanClaims(p, chunks, ret)
        <4>1. PICK chunks, ret : PlanClaims(p, chunks, ret)
          BY <3>3
        <4> QED BY <3>1, <4>1, PlanClaimsStep
      <3>4. CASE \E docs, ret : PlanSummaries(p, docs, ret)
        <4>1. PICK docs, ret : PlanSummaries(p, docs, ret)
          BY <3>4
        <4> QED BY <3>1, <4>1, PlanSummariesStep
      <3>5. CASE RegenClaims(p)
        <4>1. \/ PlanClaims(p, Unprocessed("summary") \cap ChunksOf(job[p].scope), "regenSummary")
              \/ Goto(p, "regenSummary")
          BY <1>b, <3>5 DEF RegenClaims
        <4> QED BY <3>2, <3>3, <4>1
      <3>6. CASE RegenSummary(p)
        <4>1. \/ PlanSummaries(p, NeedSummary \cap {job[p].scope}, "regen")
              \/ Goto(p, "regen")
          BY <3>6 DEF RegenSummary
        <4> QED BY <3>2, <3>4, <4>1
      <3> QED BY <2>6, <3>5, <3>6
    <2>7. CASE GenerateClaims(p) \/ GenerateSummaries(p) \/ GenerateInsight(p)
      BY <2>7, GenerateStep
    <2>8. CASE Regenerate(p)
      <3>1. PICK work, staleTables :
              Becomes(p, [job[p] EXCEPT !.pc = "regen", !.work = work, !.stale = Stale(artStatus),
                                        !.staleTables = staleTables])
        BY <2>8 DEF Regenerate
      <3> DEFINE r == [job[p] EXCEPT !.pc = "regen", !.work = work, !.stale = Stale(artStatus),
                                     !.staleTables = staleTables]
      <3>2. r.pc = "regen" /\ r.mine = job[p].mine /\ r.stale = Stale(artStatus)
        BY <1>0 DEF JobRecord
      <3>3. UNCHANGED <<artStatus, artSources>>
        BY <2>8 DEF Regenerate, storeVars, artVars
      <3> HIDE DEF r
      <3> QED BY <1>0, <3>1, <3>2, <3>3, BecomesCalm, CalmStep DEF r, Writing
    <2> QED BY <2>1, <2>2, <2>3, <2>4, <2>5, <2>6, <2>7, <2>8 DEF ArtifactStep, ArtifactCommand
  <1> QED BY <1>a, <1>b

LEMMA InitArt == Init => ArtInv
  <1>1. Init => SourcesNeedRows /\ NewUntilInserted /\ MineApart /\ StaleIsMarked
    BY DEF Init, StoreInit, JobInit, Idle, SourcesNeedRows, NewUntilInserted, MineApart,
       StaleIsMarked
  <1> QED BY <1>1, InitType DEF ArtInv

LEMMA NextArt ==
  ASSUME ArtInv, [Next]_vars
  PROVE  ArtInv'
  <1>1. TypeOK /\ TypeOK'
    BY NextType DEF ArtInv
  <1>2. CASE UNCHANGED vars
    BY <1>1, <1>2 DEF vars, storeVars, artVars, jobVars, ArtInv, SourcesNeedRows,
       NewUntilInserted, MineApart, StaleIsMarked
  <1>3. CASE Next
    <2>1. PICK p \in Job : DocumentCommand(p) \/ ArtifactCommand(p) \/ JobStep(p) \/ Crash(p)
      BY <1>3 DEF Next
    <2>2. CASE IngestStep(p) \/ Register(p) \/ Update(p) \/ Supersede(p) \/ Abandon(p)
      BY <1>1, <2>2, IngestCalm, CommandCalm, AbandonCalm, CalmStep
    <2>3. CASE DeleteSoft(p) \/ DeleteHard(p) \/ (UpdateDelete(p) /\ ~Abandon(p))
      BY <1>1, <2>3, DeleteSweeps, SweepsStep
    <2>4. CASE Clear(p)
      BY <1>1, <2>4, ClearStep
    <2>5. CASE ArtifactCommand(p) \/ ArtifactStep(p)
      BY <1>1, <2>5, ArtifactInv
    <2> QED BY <2>1, <2>2, <2>3, <2>4, <2>5 DEF DocumentCommand, JobStep, UpdateStep, Crash
  <1> QED BY <1>2, <1>3

-----------------------------------------------------------------------------
LEMMA DocumentsStayDeleted ==
  ASSUME TypeOK, [Next]_vars, NEW d \in Doc, docStatus[d] = "DELETED"
  PROVE  docStatus'[d] # "ACTIVE"
  <1>1. CASE UNCHANGED vars
    BY <1>1 DEF vars, storeVars, docVars
  <1>2. CASE Next
    <2>1. PICK p \in Job : DocumentCommand(p) \/ ArtifactCommand(p) \/ JobStep(p) \/ Crash(p)
      BY <1>2 DEF Next
    <2>2. CASE IngestStep(p) \/ ArtifactStep(p) \/ ArtifactCommand(p) \/ Abandon(p)
      BY <2>2, IngestQuiet, ArtifactQuiet, AbandonQuiet DEF QuietRows
    <2>3. CASE \/ DocumentCommand(p) \/ Supersede(p) \/ (UpdateDelete(p) /\ ~Abandon(p))
      BY <2>3 DEF TypeOK, StoreTypeOK, DocumentCommand, Register, Update, DeleteSoft, DeleteHard,
         Clear, Supersede, UpdateDelete, SoftDelete, SoftDeleteRows, HardDeleteRows, WipeRows,
         storeVars, docVars
    <2> QED BY <2>1, <2>2, <2>3 DEF JobStep, UpdateStep, Crash
  <1> QED BY <1>1, <1>2

LEMMA ArtifactsLeaveThroughStale ==
  ASSUME ArtInv, [Next]_vars, NEW a \in Art, artStatus[a] = "ACTIVE"
  PROVE  artStatus'[a] # "DELETED"
  <1>0. TypeOK
    BY DEF ArtInv
  <1>1. CASE UNCHANGED vars
    BY <1>1 DEF vars, storeVars, artVars
  <1>2. CASE Next
    <2>1. PICK p \in Job : DocumentCommand(p) \/ ArtifactCommand(p) \/ JobStep(p) \/ Crash(p)
      BY <1>2 DEF Next
    <2>2. CASE Calm(p)
      BY <2>2 DEF Calm
    <2>3. CASE IngestStep(p) \/ Register(p) \/ Update(p) \/ Supersede(p) \/ Abandon(p)
      BY <1>0, <2>2, <2>3, IngestCalm, CommandCalm, AbandonCalm
    <2>4. CASE DeleteSoft(p) \/ DeleteHard(p) \/ (UpdateDelete(p) /\ ~Abandon(p))
      BY <1>0, <2>4, DeleteSweeps DEF Sweeps, Swept
    <2>5. CASE Clear(p)
      BY <2>5 DEF Clear, WipeRows
    <2>6. CASE Retire(p)
      <3>1. a \notin job[p].stale
        BY DEF ArtInv, StaleIsMarked
      <3> QED BY <1>0, <2>6, <3>1, RetiredStatus
    <2>7. CASE InsertArts(p)
      BY <2>7 DEF InsertArts
    <2>8. CASE /\ ArtifactCommand(p) \/ ArtifactStep(p)
               /\ ~Retire(p) /\ ~InsertArts(p) /\ ~Abandon(p)
      <3>1. UNCHANGED artStatus
        BY <2>8 DEF ArtifactStep, CiteChunks, LinkArts, RegenNext, RegenClaims, RegenSummary,
           ArtifactCommand, GenerateClaims, GenerateSummaries, GenerateInsight, Regenerate,
           storeVars, artVars
      <3> QED BY <3>1
    <2> QED BY <2>1, <2>3, <2>4, <2>5, <2>6, <2>7, <2>8 DEF DocumentCommand, JobStep, UpdateStep, Crash
  <1> QED BY <1>1, <1>2

\* No command revives a soft-deleted document, and regenerate-stale never
\* retires an artifact that is still ACTIVE, however many run side by side.
THEOREM Retirement == Spec => NothingRevives
  <1>1. ArtInv /\ [Next]_vars => ArtInv'
    BY NextArt
  <1>2. ArtInv /\ [Next]_vars =>
          [/\ \A d \in Doc : docStatus[d] = "DELETED" => docStatus'[d] # "ACTIVE"
           /\ \A a \in Art : artStatus[a] = "ACTIVE" => artStatus'[a] # "DELETED"]_vars
    BY DocumentsStayDeleted, ArtifactsLeaveThroughStale DEF ArtInv
  <1> QED BY InitArt, <1>1, <1>2, PTL DEF Spec, NothingRevives

-----------------------------------------------------------------------------
(***************************************************************************)
(* What an artifact rests on.  A generator holds what it will cite for     *)
(* minutes before it writes it, so the invariant speaks of the plans in    *)
(* the memory of the generators as well as of artifact_sources.            *)
(***************************************************************************)
PerDocument == {"Claim", "Summary"}

OneDocument(cs) == \A c, e \in cs : c[1] = e[1]

\* A Claim or a Summary is made from one document.
SourcesOfOne == \A a \in Art : artType[a] \in PerDocument => OneDocument(artSources[a])

PlansOfOne ==
  \A p \in Job : job[p].pc \in Writing /\ job[p].type \in PerDocument =>
    \A a \in job[p].mine : OneDocument(job[p].plan[a])

\* A generator needs the document of every chunk it means to cite.
PlansNeed ==
  \A p \in Job : job[p].pc \in Writing =>
    \A a \in job[p].mine : \A c \in job[p].plan[a] : c[1] \in job[p].needs

\* A chunk it means to cite has been read: it exists as long as its document
\* does, and of one document alone it is ACTIVE unless a delete overtook it.
PlansRead ==
  \A p \in Job : job[p].pc \in Writing =>
    \A a \in job[p].mine \ job[p].uncited : \A c \in job[p].plan[a] :
      c[1] \in job[p].held =>
        /\ chunkStatus[c] # "none"
        /\ job[p].type \in PerDocument => chunkStatus[c] = "ACTIVE" \/ c[1] \in raced

\* Until a generator links them its artifacts cite nothing, so no sweep marks them.
UnlinkedIsBare ==
  \A p \in Job : job[p].pc \in Writing =>
    \A a \in job[p].mine : artSources[a] = {} /\ artStatus[a] \in {"none", "ACTIVE"}

TypeIsKept ==
  \A p \in Job : job[p].pc = "linkArts" =>
    \A a \in job[p].mine : artStatus[a] # "none" => artType[a] = job[p].type

SourcesExist == \A a \in Art : \A c \in artSources[a] : chunkStatus[c] # "none"

CitationInv ==
  /\ ArtInv
  /\ SourcesOfOne /\ PlansOfOne /\ PlansNeed /\ PlansRead
  /\ UnlinkedIsBare /\ TypeIsKept /\ SourcesExist
  /\ LiveArtifactLiveEvidence /\ StaleHasNoEvidence

LEMMA Sorts ==
  ASSUME TypeOK
  PROVE  /\ \A q \in Job : job[q] \in JobRecord
         /\ \A q \in Job : job[q].mine \subseteq Art /\ job[q].uncited \subseteq Art
         /\ \A q \in Job : \A a \in Art : job[q].plan[a] \subseteq Chunk
         /\ \A a \in Art : artSources[a] \subseteq Chunk
         /\ \A c \in Chunk : c[1] \in Doc
  BY DEF TypeOK, StoreTypeOK, JobTypeOK, JobRecord, Chunk

\* A step that plans nothing and links nothing; chunks may appear.
Steady(p) ==
  /\ Calm(p)
  /\ UNCHANGED <<artType, raced>>
  /\ \A c \in Chunk : \/ chunkStatus'[c] = chunkStatus[c]
                      \/ chunkStatus[c] = "none" /\ chunkStatus'[c] = "ACTIVE"

LEMMA SteadyStep ==
  ASSUME CitationInv, TypeOK', NEW p \in Job, Steady(p)
  PROVE  CitationInv'
  <1>0. TypeOK
    BY DEF CitationInv, ArtInv
  <1>1. ArtInv'
    BY CalmStep DEF CitationInv, Steady
  <1>2. /\ artStatus' = artStatus /\ artSources' = artSources /\ artType' = artType /\ raced' = raced
        /\ \A q \in Job : job'[q].pc \in Writing => job'[q] = job[q]
    BY DEF Steady, Calm
  <1>3. \A c \in Chunk : /\ chunkStatus[c] # "none" => chunkStatus'[c] = chunkStatus[c]
                         /\ chunkStatus[c] = "ACTIVE" => chunkStatus'[c] = "ACTIVE"
    BY DEF Steady
  <1>4. SourcesOfOne'
    BY <1>2 DEF CitationInv, SourcesOfOne, OneDocument
  <1>5. PlansOfOne' /\ PlansNeed' /\ UnlinkedIsBare'
    BY <1>2 DEF CitationInv, PlansOfOne, PlansNeed, UnlinkedIsBare, OneDocument
  <1>6. PlansRead'
    <2> SUFFICES ASSUME NEW q \in Job, job'[q].pc \in Writing,
                        NEW a \in job'[q].mine \ job'[q].uncited,
                        NEW c \in job'[q].plan[a], c[1] \in job'[q].held
                 PROVE  /\ chunkStatus'[c] # "none"
                        /\ job'[q].type \in PerDocument => chunkStatus'[c] = "ACTIVE" \/ c[1] \in raced'
      BY DEF PlansRead
    <2>1. job'[q] = job[q] /\ c \in Chunk
      BY <1>0, <1>2, Sorts
    <2>2. /\ chunkStatus[c] # "none"
          /\ job[q].type \in PerDocument => chunkStatus[c] = "ACTIVE" \/ c[1] \in raced
      BY <2>1 DEF CitationInv, PlansRead
    <2> QED BY <1>2, <1>3, <2>1, <2>2
  <1>7. TypeIsKept'
    BY <1>2 DEF CitationInv, TypeIsKept, Writing
  <1>8. SourcesExist' /\ StaleHasNoEvidence' /\ LiveArtifactLiveEvidence'
    BY <1>0, <1>2, <1>3, Sorts DEF CitationInv, SourcesExist, StaleHasNoEvidence,
       LiveArtifactLiveEvidence
  <1> QED BY <1>1, <1>4, <1>5, <1>6, <1>7, <1>8 DEF CitationInv

LEMMA IngestSteady ==
  ASSUME TypeOK, NEW p \in Job,
         IngestStep(p) \/ Register(p) \/ Update(p) \/ Supersede(p) \/ Abandon(p)
  PROVE  Steady(p)
  <1>1. Calm(p)
    BY IngestCalm, CommandCalm, AbandonCalm
  <1>2. UNCHANGED <<artType, raced>>
    BY DEF storeVars, artVars, IngestStep, DupCheck, InsertDocs, InsertSummaryChunks,
       LinkSummaryChunks, InsertFulltextChunks, LinkFulltextChunks, InsertChunks, LinkChunks,
       InsertTables, LinkTables, Bump, Register, Update, Supersede, Abandon
  <1>3. CASE InsertSummaryChunks(p) \/ InsertFulltextChunks(p)
    <2>1. \A c \in Chunk : \/ chunkStatus'[c] = chunkStatus[c]
                           \/ chunkStatus[c] = "none" /\ chunkStatus'[c] = "ACTIVE"
      BY <1>3 DEF InsertSummaryChunks, InsertFulltextChunks, InsertChunks, Abandon, storeVars,
         chunkVars
    <2> QED BY <1>1, <1>2, <2>1 DEF Steady
  <1>4. CASE ~InsertSummaryChunks(p) /\ ~InsertFulltextChunks(p)
    <2>1. UNCHANGED chunkStatus
      BY <1>4 DEF storeVars, chunkVars, IngestStep, DupCheck, InsertDocs, LinkSummaryChunks,
         LinkFulltextChunks, LinkChunks, InsertTables, LinkTables, Bump, Register, Update,
         Supersede, Abandon
    <2> QED BY <1>1, <1>2, <2>1 DEF Steady
  <1> QED BY <1>3, <1>4

\* What a deletion of d does to the evidence.  The ids of d are held by nobody
\* after a hard delete; after a soft one, whoever holds them has been overtaken.
Removes(d) ==
  /\ Sweeps(d)
  /\ UNCHANGED artType
  /\ \A c \in Chunk : /\ c[1] # d => chunkStatus'[c] = chunkStatus[c]
                      /\ c[1] = d => chunkStatus'[c] # "ACTIVE"
  /\ \A e \in Doc \ {d} : e \in raced => e \in raced'
  /\ \A q \in Job :
       job'[q].pc \in Writing =>
         /\ job'[q].pc = job[q].pc
         /\ job'[q].type = job[q].type /\ job'[q].plan = job[q].plan
         /\ job'[q].needs = job[q].needs /\ job'[q].uncited = job[q].uncited
         /\ job'[q].held \subseteq job[q].held
         /\ d \in job'[q].held => d \in raced'
  /\ \/ /\ \A a \in Art : artSources'[a] \cap ChunksOf(d) = {}
        /\ \A q \in Job : job'[q].pc \in Writing => d \notin job'[q].held
     \/ \A c \in Chunk : chunkStatus[c] # "none" => chunkStatus'[c] # "none"

LEMMA RemovesStep ==
  ASSUME CitationInv, TypeOK', NEW d, Removes(d)
  PROVE  CitationInv'
  <1>0. TypeOK
    BY DEF CitationInv, ArtInv
  <1>1. ArtInv'
    BY SweepsStep DEF CitationInv, Removes
  <1>2. /\ \A a \in Art : artSources'[a] \subseteq artSources[a] /\ artType'[a] = artType[a]
        /\ \A a \in Art : \/ artStatus'[a] = artStatus[a] /\ a \notin Dependents(d)
                          \/ artStatus'[a] = "STALE" /\ a \in Dependents(d)
        /\ \A q \in Job : job'[q].mine = job[q].mine
    BY DEF Removes, Sweeps, Swept
  <1>3. \A q \in Job : job'[q].pc \in Writing =>
         /\ job'[q].pc = job[q].pc
         /\ job'[q].type = job[q].type /\ job'[q].plan = job[q].plan
         /\ job'[q].needs = job[q].needs /\ job'[q].uncited = job[q].uncited
         /\ job'[q].held \subseteq job[q].held
         /\ d \in job'[q].held => d \in raced'
    BY DEF Removes
  <1>4. \A c \in Chunk : /\ c[1] # d => chunkStatus'[c] = chunkStatus[c]
                         /\ c[1] = d => chunkStatus'[c] # "ACTIVE"
                         /\ c[1] # d /\ c[1] \in raced => c[1] \in raced'
                         /\ c[1] = d <=> c \in ChunksOf(d)
    BY <1>0, Sorts DEF Removes, ChunksOf, Chunk
  <1>5. SourcesOfOne' /\ PlansOfOne' /\ PlansNeed'
    BY <1>2, <1>3 DEF CitationInv, SourcesOfOne, PlansOfOne, PlansNeed, OneDocument
  <1>6. PlansRead'
    <2> SUFFICES ASSUME NEW q \in Job, job'[q].pc \in Writing,
                        NEW a \in job'[q].mine \ job'[q].uncited,
                        NEW c \in job'[q].plan[a], c[1] \in job'[q].held
                 PROVE  /\ chunkStatus'[c] # "none"
                        /\ job'[q].type \in PerDocument => chunkStatus'[c] = "ACTIVE" \/ c[1] \in raced'
      BY DEF PlansRead
    <2>1. /\ a \in job[q].mine \ job[q].uncited /\ c \in job[q].plan[a] /\ c[1] \in job[q].held
          /\ job[q].pc \in Writing /\ job'[q].type = job[q].type
      BY <1>2, <1>3
    <2>2. c \in Chunk
      BY <1>0, <2>1, Sorts
    <2>3. /\ chunkStatus[c] # "none"
          /\ job[q].type \in PerDocument => chunkStatus[c] = "ACTIVE" \/ c[1] \in raced
      BY <2>1 DEF CitationInv, PlansRead
    <2>4. chunkStatus'[c] # "none"
      BY <1>4, <2>2, <2>3 DEF Removes
    <2>5. c[1] = d => c[1] \in raced'
      BY <1>3
    <2> QED BY <1>4, <2>1, <2>2, <2>3, <2>4, <2>5
  <1>7. UnlinkedIsBare' /\ TypeIsKept'
    <2> SUFFICES ASSUME NEW q \in Job, job'[q].pc \in Writing, NEW a \in job'[q].mine
                 PROVE  /\ artSources'[a] = {} /\ artStatus'[a] \in {"none", "ACTIVE"}
                        /\ job'[q].pc = "linkArts" /\ artStatus'[a] # "none" => artType'[a] = job'[q].type
      BY DEF UnlinkedIsBare, TypeIsKept, Writing
    <2>1. job[q].pc = job'[q].pc /\ a \in job[q].mine /\ a \in Art /\ job'[q].type = job[q].type
      BY <1>0, <1>2, <1>3, Sorts
    <2>2. artSources[a] = {} /\ artStatus[a] \in {"none", "ACTIVE"}
      BY <2>1 DEF CitationInv, UnlinkedIsBare
    <2>3. a \notin Dependents(d)
      BY <2>2 DEF Dependents
    <2> QED BY <1>2, <2>1, <2>2, <2>3 DEF CitationInv, TypeIsKept
  <1>8. SourcesExist'
    <2> SUFFICES ASSUME NEW a \in Art, NEW c \in artSources'[a]
                 PROVE  chunkStatus'[c] # "none"
      BY DEF SourcesExist
    <2>1. c \in artSources[a] /\ c \in Chunk /\ chunkStatus[c] # "none"
      BY <1>0, <1>2, Sorts DEF CitationInv, SourcesExist
    <2> QED BY <1>4, <2>1 DEF Removes
  <1>9. LiveArtifactLiveEvidence' /\ StaleHasNoEvidence'
    <2> SUFFICES ASSUME NEW a \in Art, NEW c \in artSources'[a]
                 PROVE  /\ artStatus'[a] = "STALE" => chunkStatus'[c] # "ACTIVE"
                        /\ artStatus'[a] = "ACTIVE" /\ artType'[a] \in PerDocument =>
                             chunkStatus'[c] = "ACTIVE" \/ c[1] \in raced'
      BY DEF LiveArtifactLiveEvidence, StaleHasNoEvidence, PerDocument
    <2>1. c \in artSources[a] /\ c \in Chunk
      BY <1>0, <1>2, Sorts
    <2>2. CASE a \in Dependents(d)
      <3>1. c[1] = d /\ artStatus'[a] = "STALE"
        BY <1>2, <1>4, <2>1, <2>2 DEF Dependents
      <3> QED BY <1>4, <2>1, <3>1
    <2>3. CASE a \notin Dependents(d)
      <3>1. artStatus'[a] = artStatus[a] /\ artType'[a] = artType[a]
        BY <1>2, <2>3
      <3>2. artStatus[a] = "STALE" => chunkStatus[c] # "ACTIVE"
        BY <2>1 DEF CitationInv, StaleHasNoEvidence
      <3>3. ASSUME artStatus[a] = "ACTIVE", artType[a] \in PerDocument
            PROVE  c[1] # d /\ (chunkStatus[c] = "ACTIVE" \/ c[1] \in raced)
        <4>1. OneDocument(artSources[a])
          BY <3>3 DEF CitationInv, SourcesOfOne
        <4>2. c[1] # d
          <5> SUFFICES ASSUME c[1] = d PROVE FALSE
            OBVIOUS
          <5>1. artSources[a] \subseteq Chunk
            BY <1>0, Sorts
          <5>2. \A e \in artSources[a] : e[1] = d
            BY <2>1, <4>1 DEF OneDocument
          <5> QED BY <1>4, <2>1, <2>3, <5>1, <5>2 DEF Dependents
        <4> QED BY <2>1, <3>3, <4>2 DEF CitationInv, LiveArtifactLiveEvidence, PerDocument
      <3> QED BY <1>4, <2>1, <3>1, <3>2, <3>3
    <2> QED BY <2>2, <2>3
  <1> QED BY <1>1, <1>5, <1>6, <1>7, <1>8, <1>9 DEF CitationInv

LEMMA DeleteRemoves ==
  ASSUME TypeOK, NEW p \in Job, DeleteSoft(p) \/ DeleteHard(p) \/ (UpdateDelete(p) /\ ~Abandon(p))
  PROVE  \E d : Removes(d)
  <1>0. /\ \A q \in Job : job[q] \in JobRecord
        /\ \A c \in Chunk : c[1] \in Doc /\ \A d : c[1] = d <=> c \in ChunksOf(d)
        /\ raced \subseteq Doc
    BY DEF TypeOK, JobTypeOK, Chunk, ChunksOf
  <1>1. ASSUME NEW d, SoftDelete(p, d),
               \A q \in Job \ {p} : job'[q] = job[q],
               job'[p].mine = job[p].mine, job'[p].stale = job[p].stale,
               job'[p].pc \notin Writing
        PROVE  Removes(d)
    <2>1. /\ artStatus' = Swept(d) /\ artSources' = artSources /\ artType' = artType
          /\ \A c \in Chunk : /\ c[1] # d => chunkStatus'[c] = chunkStatus[c]
                              /\ c[1] = d => chunkStatus'[c] # "ACTIVE"
                              /\ chunkStatus[c] # "none" => chunkStatus'[c] # "none"
      BY <1>0, <1>1 DEF SoftDelete, SoftDeleteRows
    <2>2. /\ \A e \in Doc : e \in raced => e \in raced'
          /\ \A q \in Job \ {p} : d \in job[q].held => d \in raced'
      BY <1>1 DEF SoftDelete
    <2>3. Sweeps(d)
      BY <1>1, <2>1 DEF Sweeps, Writing
    <2> QED BY <1>1, <2>1, <2>2, <2>3 DEF Removes
  <1>2. CASE DeleteSoft(p)
    <2>1. PICK d \in Doc : SoftDelete(p, d)
      BY <1>2 DEF DeleteSoft
    <2>2. job' = job /\ job[p].pc = "idle"
      BY <1>2 DEF DeleteSoft, Start
    <2> QED BY <1>1, <2>1, <2>2 DEF Writing
  <1>3. CASE DeleteHard(p)
    <2>1. PICK d \in Doc : /\ HardDeleteRows(d) /\ job' = [q \in Job |-> Forgotten(q, d)]
                           /\ raced' = raced \ {d}
      BY <1>3 DEF DeleteHard
    <2>2. ASSUME NEW q \in Job
          PROVE  /\ job'[q].pc = job[q].pc /\ job'[q].mine = job[q].mine
                 /\ job'[q].stale = job[q].stale
                 /\ job'[q].type = job[q].type /\ job'[q].plan = job[q].plan
                 /\ job'[q].needs = job[q].needs /\ job'[q].uncited = job[q].uncited
                 /\ job'[q].held = job[q].held \ {d}
      BY <1>0, <2>1 DEF Forgotten, JobRecord
    <2>3. /\ artStatus' = Swept(d) /\ artType' = artType
          /\ \A a \in Art : artSources'[a] = artSources[a] \ ChunksOf(d)
          /\ \A c \in Chunk : /\ c[1] # d => chunkStatus'[c] = chunkStatus[c]
                              /\ c[1] = d => chunkStatus'[c] # "ACTIVE"
      BY <1>0, <2>1 DEF HardDeleteRows
    <2>4. Sweeps(d)
      BY <2>2, <2>3 DEF Sweeps
    <2> QED BY <2>1, <2>2, <2>3, <2>4 DEF Removes
  <1>4. CASE UpdateDelete(p) /\ ~Abandon(p)
    <2> DEFINE old == job[p].upd.old
               r == [job[p] EXCEPT !.pc = "check", !.ret = "supersede"]
    <2>1. SoftDelete(p, old) /\ Becomes(p, r)
      BY <1>4 DEF UpdateDelete
    <2>2. r.pc = "check" /\ r.mine = job[p].mine /\ r.stale = job[p].stale
      BY <1>0 DEF JobRecord
    <2> HIDE DEF r
    <2>3. job'[p] = r /\ \A q \in Job \ {p} : job'[q] = job[q]
      BY <2>1, OnlyThis
    <2> QED BY <1>1, <2>1, <2>2, <2>3 DEF Writing
  <1> QED BY <1>2, <1>3, <1>4

LEMMA ClearCites ==
  ASSUME CitationInv, TypeOK', NEW p \in Job, Clear(p)
  PROVE  CitationInv'
  <1>0. TypeOK
    BY DEF CitationInv, ArtInv
  <1>1. ArtInv'
    BY ClearStep DEF CitationInv
  <1>2. /\ \A a \in Art : artStatus'[a] = "none" /\ artSources'[a] = {} /\ artType'[a] = "none"
        /\ artSources' = [a \in Art |-> {}]
    BY DEF Clear, WipeRows
  <1>3. ASSUME NEW q \in Job
        PROVE  /\ job'[q].pc = job[q].pc /\ job'[q].mine = job[q].mine
               /\ job'[q].type = job[q].type /\ job'[q].plan = job[q].plan
               /\ job'[q].needs = job[q].needs /\ job'[q].held = {}
               /\ job'[q].mine \subseteq Art
    <2>1. job[q] \in JobRecord /\ job[q].mine \subseteq Art
      BY <1>0, Sorts
    <2>2. job'[q] = [job[q] EXCEPT !.held = {}, !.stale = {}, !.staleTables = {}, !.oldRow = {}]
      BY DEF Clear
    <2> QED BY <2>1, <2>2 DEF JobRecord
  <1>4. SourcesOfOne' /\ SourcesExist' /\ LiveArtifactLiveEvidence' /\ StaleHasNoEvidence'
    BY <1>2 DEF SourcesOfOne, SourcesExist, LiveArtifactLiveEvidence, StaleHasNoEvidence,
       PerDocument
  <1>5. PlansOfOne' /\ PlansNeed'
    BY <1>3 DEF CitationInv, PlansOfOne, PlansNeed, OneDocument
  <1>6. PlansRead' /\ UnlinkedIsBare' /\ TypeIsKept'
    BY <1>2, <1>3 DEF PlansRead, UnlinkedIsBare, TypeIsKept
  <1> QED BY <1>1, <1>4, <1>5, <1>6 DEF CitationInv

\* A step that leaves the rows alone and changes one generator: what is said of
\* plans has to be shown for that one only.
LEMMA OnePlanStep ==
  ASSUME CitationInv, ArtInv', NEW p \in Job,
         UNCHANGED <<artStatus, artType, artSources, chunkStatus, raced>>,
         \A q \in Job \ {p} : job'[q] = job[q],
         NEW r, job'[p] = r, r.pc \in Writing,
         r.pc = "linkArts" => \A a \in r.mine : artStatus[a] # "none" => artType[a] = r.type,
         \A a \in r.mine :
           /\ artSources[a] = {} /\ artStatus[a] \in {"none", "ACTIVE"}
           /\ r.type \in PerDocument => OneDocument(r.plan[a])
           /\ \A c \in r.plan[a] :
                /\ c[1] \in r.needs
                /\ a \notin r.uncited /\ c[1] \in r.held =>
                     /\ chunkStatus[c] # "none"
                     /\ r.type \in PerDocument => chunkStatus[c] = "ACTIVE" \/ c[1] \in raced
  PROVE  CitationInv'
  <1>1. SourcesOfOne' /\ SourcesExist' /\ LiveArtifactLiveEvidence' /\ StaleHasNoEvidence'
    BY DEF CitationInv, SourcesOfOne, SourcesExist, LiveArtifactLiveEvidence,
       StaleHasNoEvidence, OneDocument
  <1>2. PlansOfOne' /\ PlansNeed'
    BY DEF CitationInv, PlansOfOne, PlansNeed, OneDocument
  <1>3. PlansRead'
    BY DEF CitationInv, PlansRead
  <1>4. UnlinkedIsBare' /\ TypeIsKept'
    BY DEF CitationInv, UnlinkedIsBare, TypeIsKept
  <1> QED BY <1>1, <1>2, <1>3, <1>4 DEF CitationInv

LEMMA DocsOfHolds ==
  ASSUME NEW cs \in SUBSET Chunk, NEW c \in cs
  PROVE  c[1] \in DocsOf(cs)
  <1>1. c[1] \in Doc /\ c \in ChunksOf(c[1])
    BY DEF Chunk, ChunksOf
  <1> QED BY <1>1 DEF DocsOf

LEMMA PlanCites ==
  ASSUME CitationInv, ArtInv', NEW p \in Job, NEW type, NEW mine \in SUBSET FreeArts,
         NEW cites, NEW ret,
         Plan(p, type, mine, cites, ret),
         UNCHANGED <<artStatus, artType, artSources, chunkStatus, raced>>,
         \A a \in mine : cites[a] \subseteq Chunk,
         \A a \in mine : type \in PerDocument => OneDocument(cites[a]),
         type # "Summary" => \A a \in mine : \A c \in cites[a] :
                               /\ chunkStatus[c] # "none"
                               /\ type \in PerDocument => chunkStatus[c] = "ACTIVE"
  PROVE  CitationInv'
  <1>0. TypeOK /\ job[p] \in JobRecord /\ mine \subseteq Art
    BY DEF CitationInv, ArtInv, TypeOK, JobTypeOK, FreeArts
  <1> DEFINE all  == UNION {cites[a] : a \in mine}
             docs == DocsOf(all)
             plan == [a \in Art |-> IF a \in mine THEN cites[a] ELSE {}]
             unc  == IF type = "Summary" THEN mine ELSE {}
             r == [job[p] EXCEPT !.pc = "insertArts", !.ret = ret, !.type = type, !.mine = mine,
                       !.plan = plan, !.held = docs, !.needs = docs, !.uncited = unc]
  <1>1. Becomes(p, r)
    BY DEF Plan
  <1>2. /\ r.pc = "insertArts" /\ r.type = type /\ r.mine = mine /\ r.plan = plan
        /\ r.held = docs /\ r.needs = docs /\ r.uncited = unc
    BY <1>0 DEF JobRecord
  <1> HIDE DEF r
  <1>3. job'[p] = r /\ \A q \in Job \ {p} : job'[q] = job[q]
    BY <1>0, <1>1, OnlyThis
  <1>4. ASSUME NEW a \in mine
        PROVE  /\ artSources[a] = {} /\ artStatus[a] \in {"none", "ACTIVE"}
               /\ r.plan[a] = cites[a]
               /\ type \in PerDocument => OneDocument(cites[a])
               /\ \A c \in cites[a] :
                    /\ c[1] \in docs
                    /\ a \notin unc =>
                         /\ chunkStatus[c] # "none"
                         /\ type \in PerDocument => chunkStatus[c] = "ACTIVE"
    <2>1. artStatus[a] = "none" /\ a \in Art
      BY <1>0 DEF FreeArts
    <2>2. artSources[a] = {}
      BY <2>1 DEF CitationInv, ArtInv, SourcesNeedRows
    <2>3. all \in SUBSET Chunk /\ cites[a] \subseteq all
      OBVIOUS
    <2>4. \A c \in cites[a] : c[1] \in docs
      BY <2>3, DocsOfHolds
    <2> QED BY <1>2, <2>1, <2>2, <2>4
  <1> HIDE DEF docs, plan, unc
  <1> QED BY <1>2, <1>3, <1>4, OnePlanStep DEF Writing

LEMMA PlanClaimsCites ==
  ASSUME CitationInv, ArtInv', NEW p \in Job, NEW chunks \in SUBSET Chunk, NEW ret,
         \A c \in chunks : chunkStatus[c] = "ACTIVE",
         PlanClaims(p, chunks, ret),
         UNCHANGED <<artStatus, artType, artSources, chunkStatus, raced>>
  PROVE  CitationInv'
  <1>1. PICK mine \in SUBSET FreeArts : \E f \in [mine -> chunks] :
          Plan(p, "Claim", mine, [a \in mine |-> {f[a]}], ret)
    BY DEF PlanClaims
  <1>2. PICK f \in [mine -> chunks] : Plan(p, "Claim", mine, [a \in mine |-> {f[a]}], ret)
    BY <1>1
  <1> DEFINE cites == [a \in mine |-> {f[a]}]
  <1>3. \A a \in mine : /\ cites[a] \subseteq Chunk /\ OneDocument(cites[a])
                        /\ \A c \in cites[a] : chunkStatus[c] = "ACTIVE"
    BY DEF OneDocument
  <1>4. Plan(p, "Claim", mine, cites, ret)
    BY <1>2
  <1> HIDE DEF cites
  <1> QED BY <1>3, <1>4, PlanCites

LEMMA PlanSummariesCites ==
  ASSUME CitationInv, ArtInv', NEW p \in Job, NEW docs \in SUBSET Doc, NEW ret,
         PlanSummaries(p, docs, ret),
         UNCHANGED <<artStatus, artType, artSources, chunkStatus, raced>>
  PROVE  CitationInv'
  <1>1. PICK mine \in SUBSET FreeArts : \E f \in [mine -> docs] :
          Plan(p, "Summary", mine, [a \in mine |-> ChunksOf(f[a])], ret)
    BY DEF PlanSummaries
  <1>2. PICK f \in [mine -> docs] : Plan(p, "Summary", mine, [a \in mine |-> ChunksOf(f[a])], ret)
    BY <1>1
  <1> DEFINE cites == [a \in mine |-> ChunksOf(f[a])]
  <1>3. \A a \in mine : cites[a] \subseteq Chunk /\ OneDocument(cites[a])
    BY DEF OneDocument, ChunksOf, Chunk
  <1>4. Plan(p, "Summary", mine, cites, ret)
    BY <1>2
  <1> HIDE DEF cites
  <1> QED BY <1>3, <1>4, PlanCites

LEMMA GenerateCites ==
  ASSUME CitationInv, ArtInv', NEW p \in Job,
         GenerateClaims(p) \/ GenerateSummaries(p) \/ GenerateInsight(p)
  PROVE  CitationInv'
  <1>0. UNCHANGED <<artStatus, artType, artSources, chunkStatus, raced>>
    BY DEF GenerateClaims, GenerateSummaries, GenerateInsight, storeVars, artVars, chunkVars
  <1>1. CASE GenerateClaims(p)
    <2>1. PICK kind \in Kind : PlanClaims(p, Unprocessed(kind), "idle")
      BY <1>1 DEF GenerateClaims
    <2>2. Unprocessed(kind) \subseteq Chunk /\ \A c \in Unprocessed(kind) : chunkStatus[c] = "ACTIVE"
      BY DEF Unprocessed, Chunk
    <2> QED BY <1>0, <2>1, <2>2, PlanClaimsCites
  <1>2. CASE GenerateSummaries(p)
    <2>1. PlanSummaries(p, NeedSummary, "idle") /\ NeedSummary \subseteq Doc
      BY <1>2 DEF GenerateSummaries, NeedSummary
    <2> QED BY <1>0, <2>1, PlanSummariesCites
  <1>3. CASE GenerateInsight(p)
    <2>1. PICK claims \in SUBSET Art, a \in FreeArts :
            Plan(p, "Insight", {a}, [b \in {a} |-> UNION {artSources[c] : c \in claims}], "idle")
      BY <1>3 DEF GenerateInsight
    <2> DEFINE cites == [b \in {a} |-> UNION {artSources[c] : c \in claims}]
    <2>2. TypeOK
      BY DEF CitationInv, ArtInv
    <2>3. \A c \in claims : artSources[c] \subseteq Chunk /\ \A e \in artSources[c] : chunkStatus[e] # "none"
      BY <2>2, Sorts DEF CitationInv, SourcesExist
    <2>4. \A b \in {a} : cites[b] \subseteq Chunk /\ \A e \in cites[b] : chunkStatus[e] # "none"
      BY <2>3
    <2>5. Plan(p, "Insight", {a}, cites, "idle") /\ {a} \in SUBSET FreeArts
      BY <2>1
    <2> HIDE DEF cites
    <2>6. "Insight" \notin PerDocument
      BY DEF PerDocument
    <2> QED BY <1>0, <2>4, <2>5, <2>6, PlanCites
  <1> QED BY <1>1, <1>2, <1>3

LEMMA InsertArtsCites ==
  ASSUME CitationInv, ArtInv', NEW p \in Job, InsertArts(p)
  PROVE  CitationInv'
  <1>0. TypeOK /\ job[p] \in JobRecord
    BY DEF CitationInv, ArtInv, TypeOK, JobTypeOK
  <1>1. /\ artStatus' = [a \in Art |-> IF a \in job[p].mine THEN "ACTIVE" ELSE artStatus[a]]
        /\ artType' = [a \in Art |-> IF a \in job[p].mine THEN job[p].type ELSE artType[a]]
        /\ UNCHANGED <<artSources, chunkStatus, raced>>
        /\ job[p].pc = "insertArts"
    BY DEF InsertArts, chunkVars
  <1>2. /\ job'[p] = [job[p] EXCEPT !.pc = "linkArts"]
        /\ \A q \in Job \ {p} : job'[q] = job[q]
    BY <1>0, OnlyThis DEF InsertArts, Goto
  <1>3. /\ job'[p].pc = "linkArts"
        /\ \A q \in Job : /\ job'[q].mine = job[q].mine /\ job'[q].type = job[q].type
                          /\ job'[q].plan = job[q].plan /\ job'[q].needs = job[q].needs
                          /\ job'[q].held = job[q].held /\ job'[q].uncited = job[q].uncited
                          /\ job'[q].mine \subseteq Art
                          /\ job'[q].pc \in Writing => job[q].pc \in Writing
                          /\ q # p => job'[q].pc = job[q].pc
    BY <1>0, <1>1, <1>2, Sorts DEF JobRecord, Writing
  <1>4. \A a \in job[p].mine : artSources[a] = {} /\ artStatus[a] = "none"
    BY <1>0, <1>1, Sorts DEF CitationInv, ArtInv, NewUntilInserted, SourcesNeedRows
  <1>5. SourcesOfOne' /\ SourcesExist' /\ LiveArtifactLiveEvidence' /\ StaleHasNoEvidence'
    BY <1>1, <1>4 DEF CitationInv, SourcesOfOne, SourcesExist, LiveArtifactLiveEvidence,
       StaleHasNoEvidence, OneDocument
  <1>6. PlansOfOne' /\ PlansNeed' /\ PlansRead'
    BY <1>1, <1>3 DEF CitationInv, PlansOfOne, PlansNeed, PlansRead, OneDocument
  <1>7. UnlinkedIsBare'
    <2> SUFFICES ASSUME NEW q \in Job, job'[q].pc \in Writing, NEW a \in job'[q].mine
                 PROVE  artSources'[a] = {} /\ artStatus'[a] \in {"none", "ACTIVE"}
      BY DEF UnlinkedIsBare
    <2>1. job[q].pc \in Writing /\ a \in job[q].mine /\ a \in Art
      BY <1>3
    <2> QED BY <1>1, <2>1 DEF CitationInv, UnlinkedIsBare
  <1>8. TypeIsKept'
    <2> SUFFICES ASSUME NEW q \in Job, job'[q].pc = "linkArts", NEW a \in job'[q].mine,
                        artStatus'[a] # "none"
                 PROVE  artType'[a] = job'[q].type
      BY DEF TypeIsKept
    <2>1. a \in job[q].mine /\ a \in Art /\ job'[q].type = job[q].type
      BY <1>3
    <2>2. CASE q = p
      BY <1>1, <2>1, <2>2
    <2>3. CASE q # p
      <3>1. a \notin job[p].mine /\ job[q].pc = "linkArts"
        BY <1>3, <2>1, <2>3 DEF CitationInv, ArtInv, MineApart
      <3>2. artStatus[a] # "none" /\ artType'[a] = artType[a]
        BY <1>1, <2>1, <3>1
      <3> QED BY <2>1, <3>1, <3>2 DEF CitationInv, TypeIsKept
    <2> QED BY <2>2, <2>3
  <1> QED BY <1>5, <1>6, <1>7, <1>8 DEF CitationInv

LEMMA CiteChunksCites ==
  ASSUME CitationInv, ArtInv', NEW p \in Job, CiteChunks(p)
  PROVE  CitationInv'
  <1>0. TypeOK /\ job[p] \in JobRecord
    BY DEF CitationInv, ArtInv, TypeOK, JobTypeOK
  <1>1. UNCHANGED <<artStatus, artType, artSources, chunkStatus, raced>> /\ job[p].pc = "linkArts"
    BY DEF CiteChunks, storeVars, artVars, chunkVars
  <1> DEFINE active(a) == {c \in job[p].plan[a] : chunkStatus[c] = "ACTIVE"}
             r(a) == [job[p] EXCEPT !.uncited = @ \ {a}, !.plan[a] = active(a)]
  <1>2. PICK a \in job[p].uncited : Becomes(p, r(a))
    BY DEF CiteChunks
  <1>3. a \in Art /\ job[p].plan \in [Art -> SUBSET Chunk]
    BY <1>0, Sorts DEF JobRecord
  <1>4. /\ r(a).pc = "linkArts" /\ r(a).mine = job[p].mine /\ r(a).type = job[p].type
        /\ r(a).needs = job[p].needs /\ r(a).held = job[p].held
        /\ r(a).uncited = job[p].uncited \ {a}
        /\ r(a).plan = [job[p].plan EXCEPT ![a] = active(a)]
    BY <1>0, <1>1 DEF JobRecord
  <1>5. job'[p] = r(a) /\ \A q \in Job \ {p} : job'[q] = job[q]
    BY <1>0, <1>2, OnlyThis
  <1> HIDE DEF r
  <1>6. ASSUME NEW b \in job[p].mine
        PROVE  /\ artSources[b] = {} /\ artStatus[b] \in {"none", "ACTIVE"}
               /\ artStatus[b] # "none" => artType[b] = job[p].type
               /\ job[p].type \in PerDocument => OneDocument(r(a).plan[b])
               /\ \A c \in r(a).plan[b] :
                    /\ c[1] \in job[p].needs
                    /\ b \notin r(a).uncited /\ c[1] \in job[p].held =>
                         /\ chunkStatus[c] # "none"
                         /\ job[p].type \in PerDocument => chunkStatus[c] = "ACTIVE" \/ c[1] \in raced
    <2>1. /\ r(a).plan[b] \subseteq job[p].plan[b]
          /\ b = a => \A c \in r(a).plan[b] : chunkStatus[c] = "ACTIVE"
          /\ b \in Art
      BY <1>0, <1>3, <1>4, Sorts
    <2>2. artSources[b] = {} /\ artStatus[b] \in {"none", "ACTIVE"}
      BY <1>1 DEF CitationInv, UnlinkedIsBare, Writing
    <2>3. artStatus[b] # "none" => artType[b] = job[p].type
      BY <1>1 DEF CitationInv, TypeIsKept
    <2>4. job[p].type \in PerDocument => OneDocument(r(a).plan[b])
      BY <1>1, <2>1 DEF CitationInv, PlansOfOne, Writing, OneDocument
    <2>5. \A c \in r(a).plan[b] : c[1] \in job[p].needs
      BY <1>1, <2>1 DEF CitationInv, PlansNeed, Writing
    <2>6. ASSUME NEW c \in r(a).plan[b], b \notin r(a).uncited, c[1] \in job[p].held
          PROVE  /\ chunkStatus[c] # "none"
                 /\ job[p].type \in PerDocument => chunkStatus[c] = "ACTIVE" \/ c[1] \in raced
      <3>1. CASE b = a
        BY <2>1, <3>1
      <3>2. CASE b # a
        <4>1. b \in job[p].mine \ job[p].uncited /\ c \in job[p].plan[b]
          BY <1>4, <2>1, <2>6, <3>2
        <4> QED BY <1>1, <2>6, <4>1 DEF CitationInv, PlansRead, Writing
      <3> QED BY <3>1, <3>2
    <2> QED BY <2>2, <2>3, <2>4, <2>5, <2>6
  <1>7. /\ \A b \in r(a).mine : artStatus[b] # "none" => artType[b] = r(a).type
        /\ \A b \in r(a).mine :
             /\ artSources[b] = {} /\ artStatus[b] \in {"none", "ACTIVE"}
             /\ r(a).type \in PerDocument => OneDocument(r(a).plan[b])
             /\ \A c \in r(a).plan[b] :
                  /\ c[1] \in r(a).needs
                  /\ b \notin r(a).uncited /\ c[1] \in r(a).held =>
                       /\ chunkStatus[c] # "none"
                       /\ r(a).type \in PerDocument => chunkStatus[c] = "ACTIVE" \/ c[1] \in raced
    <2>1. r(a).mine = job[p].mine /\ r(a).type = job[p].type /\ r(a).needs = job[p].needs
          /\ r(a).held = job[p].held
      BY <1>4
    <2> QED BY <1>6, <2>1
  <1>8. r(a).pc \in Writing
    BY <1>4 DEF Writing
  <1> HIDE DEF active
  <1> QED BY <1>1, <1>5, <1>7, <1>8, OnePlanStep

LEMMA LinkArtsCites ==
  ASSUME CitationInv, ArtInv', NEW p \in Job, LinkArts(p), ~Abandon(p)
  PROVE  CitationInv'
  <1>0. TypeOK /\ job[p] \in JobRecord
    BY DEF CitationInv, ArtInv, TypeOK, JobTypeOK
  <1>1. /\ artSources' = [a \in Art |-> IF a \in job[p].mine THEN job[p].plan[a] ELSE artSources[a]]
        /\ UNCHANGED <<artStatus, artType, chunkStatus, raced>>
        /\ \A a \in job[p].mine : artStatus[a] # "none"
        /\ job[p].needs \subseteq job[p].held /\ job[p].uncited = {}
        /\ job[p].pc = "linkArts"
        /\ Becomes(p, Returned(p)) \/ Goto(p, "bump")
    BY DEF LinkArts, EvidenceGone, chunkVars
  <1>2. job'[p].pc \notin Writing /\ \A q \in Job \ {p} : job'[q] = job[q]
    <2>1. CASE Goto(p, "bump")
      <3>1. /\ job'[p] = [job[p] EXCEPT !.pc = "bump"]
            /\ \A q \in Job \ {p} : job'[q] = job[q]
        BY <1>0, <2>1, OnlyThis DEF Goto
      <3> QED BY <1>0, <3>1 DEF JobRecord, Writing
    <2>2. CASE Becomes(p, Returned(p))
      <3>1. Returned(p).pc \notin Writing
        <4>1. CASE job[p].ret = "idle"
          BY <4>1 DEF Returned, Idle, Writing
        <4>2. CASE job[p].ret # "idle"
          BY <1>0, <4>2 DEF Returned, JobRecord, Writing
        <4> QED BY <4>1, <4>2
      <3> QED BY <1>0, <2>2, <3>1, OnlyThis
    <2> QED BY <1>1, <2>1, <2>2
  <1>3. \A a \in job[p].mine : /\ a \in Art /\ artSources'[a] = job[p].plan[a]
                               /\ artStatus[a] = "ACTIVE" /\ artType[a] = job[p].type
    BY <1>0, <1>1, Sorts DEF CitationInv, UnlinkedIsBare, TypeIsKept, Writing
  <1>4. \A a \in Art : a \notin job[p].mine => artSources'[a] = artSources[a]
    BY <1>1
  <1>5. \A a \in job[p].mine :
          /\ job[p].type \in PerDocument => OneDocument(job[p].plan[a])
          /\ \A c \in job[p].plan[a] :
               /\ chunkStatus[c] # "none"
               /\ job[p].type \in PerDocument => chunkStatus[c] = "ACTIVE" \/ c[1] \in raced
    <2>1. \A a \in job[p].mine : \A c \in job[p].plan[a] : c[1] \in job[p].held
      BY <1>1 DEF CitationInv, PlansNeed, Writing
    <2>2. job[p].pc \in Writing
      BY <1>1 DEF Writing
    <2>3. \A a \in job[p].mine : a \notin job[p].uncited
      BY <1>1
    <2> QED BY <2>1, <2>2, <2>3 DEF CitationInv, PlansRead, PlansOfOne
  <1>6. SourcesOfOne'
    BY <1>1, <1>3, <1>4, <1>5 DEF CitationInv, SourcesOfOne, OneDocument
  <1>7. SourcesExist'
    BY <1>1, <1>3, <1>4, <1>5 DEF CitationInv, SourcesExist
  <1>8. LiveArtifactLiveEvidence'
    BY <1>1, <1>3, <1>4, <1>5 DEF CitationInv, LiveArtifactLiveEvidence, PerDocument
  <1>9. StaleHasNoEvidence'
    BY <1>1, <1>3, <1>4 DEF CitationInv, StaleHasNoEvidence
  <1>10. PlansOfOne' /\ PlansNeed' /\ PlansRead'
    BY <1>1, <1>2 DEF CitationInv, PlansOfOne, PlansNeed, PlansRead, OneDocument
  <1>11. UnlinkedIsBare' /\ TypeIsKept'
    <2> SUFFICES ASSUME NEW q \in Job, job'[q].pc \in Writing, NEW a \in job'[q].mine
                 PROVE  /\ artSources'[a] = {} /\ artStatus'[a] \in {"none", "ACTIVE"}
                        /\ job'[q].pc = "linkArts" /\ artStatus'[a] # "none" => artType'[a] = job'[q].type
      BY DEF UnlinkedIsBare, TypeIsKept, Writing
    <2>1. q # p /\ job'[q] = job[q]
      BY <1>2
    <2>2. a \in Art /\ a \notin job[p].mine
      BY <1>0, <2>1, Sorts DEF CitationInv, ArtInv, MineApart
    <2> QED BY <1>1, <1>4, <2>1, <2>2 DEF CitationInv, UnlinkedIsBare, TypeIsKept
  <1> QED BY <1>6, <1>7, <1>8, <1>9, <1>10, <1>11 DEF CitationInv

LEMMA RetireCites ==
  ASSUME CitationInv, ArtInv', NEW p \in Job, Retire(p)
  PROVE  CitationInv'
  <1>0. TypeOK
    BY DEF CitationInv, ArtInv
  <1>1. /\ UNCHANGED <<artType, artSources, chunkStatus, raced>>
        /\ \A a \in Art : \/ artStatus'[a] = artStatus[a]
                          \/ artStatus'[a] = "DELETED" /\ a \in job[p].stale
    BY <1>0, RetiredStatus DEF Retire, chunkVars
  <1>2. job'[p] = Idle /\ \A q \in Job \ {p} : job'[q] = job[q]
    BY <1>0, OnlyThis DEF Retire
  <1>3. Idle.pc \notin Writing
    BY DEF Idle, Writing
  <1>4. SourcesOfOne' /\ SourcesExist' /\ LiveArtifactLiveEvidence' /\ StaleHasNoEvidence'
    BY <1>1 DEF CitationInv, SourcesOfOne, SourcesExist, LiveArtifactLiveEvidence,
       StaleHasNoEvidence, OneDocument
  <1>5. PlansOfOne' /\ PlansNeed' /\ PlansRead'
    BY <1>1, <1>2, <1>3 DEF CitationInv, PlansOfOne, PlansNeed, PlansRead, OneDocument
  <1>6. UnlinkedIsBare' /\ TypeIsKept'
    <2> SUFFICES ASSUME NEW q \in Job, job'[q].pc \in Writing, NEW a \in job'[q].mine
                 PROVE  /\ artSources'[a] = {} /\ artStatus'[a] \in {"none", "ACTIVE"}
                        /\ job'[q].pc = "linkArts" /\ artStatus'[a] # "none" => artType'[a] = job'[q].type
      BY DEF UnlinkedIsBare, TypeIsKept, Writing
    <2>1. job'[q] = job[q]
      BY <1>2, <1>3
    <2>2. a \in Art /\ artStatus[a] \in {"none", "ACTIVE"} /\ artSources[a] = {}
      BY <1>0, <2>1, Sorts DEF CitationInv, UnlinkedIsBare
    <2>3. artStatus'[a] = artStatus[a]
      BY <1>1, <2>2 DEF CitationInv, ArtInv, StaleIsMarked
    <2> QED BY <1>1, <2>1, <2>2, <2>3 DEF CitationInv, TypeIsKept
  <1> QED BY <1>4, <1>5, <1>6 DEF CitationInv

LEMMA RegenCalm ==
  ASSUME TypeOK, NEW p \in Job, RegenNext(p) \/ Regenerate(p)
  PROVE  Calm(p)
  <1>0. job[p] \in JobRecord
    BY DEF TypeOK, JobTypeOK
  <1>1. UNCHANGED <<artStatus, artSources>>
    BY DEF RegenNext, Regenerate, storeVars, artVars
  <1>2. CASE RegenNext(p)
    <2>1. PICK d, work :
            Becomes(p, [job[p] EXCEPT !.pc = "regenClaims", !.scope = d, !.work = work])
      BY <1>2 DEF RegenNext
    <2> DEFINE r == [job[p] EXCEPT !.pc = "regenClaims", !.scope = d, !.work = work]
    <2>2. r.pc \notin Writing /\ r.mine = job[p].mine /\ r.stale = job[p].stale
      BY <1>0 DEF JobRecord, Writing
    <2> HIDE DEF r
    <2> QED BY <1>0, <1>1, <2>1, <2>2, BecomesCalm DEF r
  <1>3. CASE Regenerate(p)
    <2>1. PICK work, staleTables :
            Becomes(p, [job[p] EXCEPT !.pc = "regen", !.work = work, !.stale = Stale(artStatus),
                                      !.staleTables = staleTables])
      BY <1>3 DEF Regenerate
    <2> DEFINE r == [job[p] EXCEPT !.pc = "regen", !.work = work, !.stale = Stale(artStatus),
                                   !.staleTables = staleTables]
    <2>2. r.pc \notin Writing /\ r.mine = job[p].mine /\ r.stale = Stale(artStatus)
      BY <1>0 DEF JobRecord, Writing
    <2> HIDE DEF r
    <2> QED BY <1>0, <1>1, <2>1, <2>2, BecomesCalm DEF r
  <1> QED BY <1>2, <1>3

LEMMA RegenerateCites ==
  ASSUME CitationInv, ArtInv', TypeOK', NEW p \in Job,
         RegenNext(p) \/ RegenClaims(p) \/ RegenSummary(p) \/ Regenerate(p)
  PROVE  CitationInv'
  <1>0. TypeOK /\ job[p] \in JobRecord
    BY DEF CitationInv, ArtInv, TypeOK, JobTypeOK
  <1>1. UNCHANGED <<artStatus, artType, artSources, chunkStatus, raced>>
    BY DEF RegenNext, RegenClaims, RegenSummary, Regenerate, Abandon, storeVars, artVars, chunkVars
  <1>2. CASE Calm(p)
    BY <1>1, <1>2, SteadyStep DEF Steady
  <1>3. CASE RegenNext(p) \/ Regenerate(p)
    BY <1>0, <1>2, <1>3, RegenCalm
  <1>4. CASE Abandon(p) \/ Goto(p, "regenSummary") \/ Goto(p, "regen")
    BY <1>0, <1>1, <1>2, <1>4, AbandonCalm, GotoCalm DEF Writing
  <1>5. CASE RegenClaims(p) /\ PlanClaims(p, Unprocessed("summary") \cap ChunksOf(job[p].scope), "regenSummary")
    <2> DEFINE chunks == Unprocessed("summary") \cap ChunksOf(job[p].scope)
    <2>1. chunks \subseteq Chunk /\ \A c \in chunks : chunkStatus[c] = "ACTIVE"
      BY DEF Unprocessed, Chunk, Kind
    <2> HIDE DEF chunks
    <2> QED BY <1>1, <1>5, <2>1, PlanClaimsCites DEF chunks
  <1>6. CASE RegenSummary(p) /\ PlanSummaries(p, NeedSummary \cap {job[p].scope}, "regen")
    <2> DEFINE docs == NeedSummary \cap {job[p].scope}
    <2>1. docs \subseteq Doc
      BY DEF NeedSummary
    <2> HIDE DEF docs
    <2> QED BY <1>1, <1>6, <2>1, PlanSummariesCites DEF docs
  <1>7. RegenClaims(p) => \/ PlanClaims(p, Unprocessed("summary") \cap ChunksOf(job[p].scope), "regenSummary")
                          \/ Goto(p, "regenSummary") \/ Abandon(p)
    BY DEF RegenClaims
  <1>8. RegenSummary(p) => \/ PlanSummaries(p, NeedSummary \cap {job[p].scope}, "regen")
                           \/ Goto(p, "regen")
    BY DEF RegenSummary
  <1> QED BY <1>3, <1>4, <1>5, <1>6, <1>7, <1>8

LEMMA InitCites == Init => CitationInv
  <1>1. ASSUME Init
        PROVE  /\ \A a \in Art : artStatus[a] = "none" /\ artSources[a] = {}
               /\ \A p \in Job : job[p].pc \notin Writing
    BY <1>1 DEF Init, StoreInit, JobInit, Idle, Writing
  <1>2. Init => ArtInv
    BY InitArt
  <1> QED BY <1>1, <1>2 DEF CitationInv, SourcesOfOne, OneDocument, PlansOfOne, PlansNeed,
             PlansRead, UnlinkedIsBare, TypeIsKept, SourcesExist, LiveArtifactLiveEvidence,
             StaleHasNoEvidence, Writing

LEMMA NextCites ==
  ASSUME CitationInv, [Next]_vars
  PROVE  CitationInv'
  <1>1. TypeOK /\ TypeOK' /\ ArtInv'
    BY NextType, NextArt DEF CitationInv, ArtInv
  <1>2. CASE UNCHANGED vars
    <2>1. UNCHANGED <<artStatus, artType, artSources, chunkStatus, raced, job>>
      BY <1>2 DEF vars, storeVars, artVars, chunkVars, jobVars
    <2>2. SourcesOfOne' /\ PlansOfOne' /\ PlansNeed' /\ PlansRead'
      BY <2>1 DEF CitationInv, SourcesOfOne, PlansOfOne, PlansNeed, PlansRead, OneDocument
    <2>3. UnlinkedIsBare' /\ TypeIsKept' /\ SourcesExist'
      BY <2>1 DEF CitationInv, UnlinkedIsBare, TypeIsKept, SourcesExist
    <2>4. LiveArtifactLiveEvidence' /\ StaleHasNoEvidence'
      BY <2>1 DEF CitationInv, LiveArtifactLiveEvidence, StaleHasNoEvidence
    <2> QED BY <1>1, <2>2, <2>3, <2>4 DEF CitationInv
  <1>3. CASE Next
    <2>1. PICK p \in Job : DocumentCommand(p) \/ ArtifactCommand(p) \/ JobStep(p) \/ Crash(p)
      BY <1>3 DEF Next
    <2>2. CASE IngestStep(p) \/ Register(p) \/ Update(p) \/ Supersede(p) \/ Abandon(p)
      BY <1>1, <2>2, IngestSteady, SteadyStep
    <2>3. CASE DeleteSoft(p) \/ DeleteHard(p) \/ (UpdateDelete(p) /\ ~Abandon(p))
      BY <1>1, <2>3, DeleteRemoves, RemovesStep
    <2>4. CASE Clear(p)
      BY <1>1, <2>4, ClearCites
    <2>5. CASE GenerateClaims(p) \/ GenerateSummaries(p) \/ GenerateInsight(p)
      BY <1>1, <2>5, GenerateCites
    <2>6. CASE RegenNext(p) \/ RegenClaims(p) \/ RegenSummary(p) \/ Regenerate(p)
      BY <1>1, <2>6, RegenerateCites
    <2>7. CASE InsertArts(p) \/ CiteChunks(p) \/ (LinkArts(p) /\ ~Abandon(p)) \/ Retire(p)
      BY <1>1, <2>7, InsertArtsCites, CiteChunksCites, LinkArtsCites, RetireCites
    <2> QED BY <2>1, <2>2, <2>3, <2>4, <2>5, <2>6, <2>7
            DEF DocumentCommand, ArtifactCommand, JobStep, UpdateStep, ArtifactStep, Crash
  <1> QED BY <1>2, <1>3

LEMMA CitationsKept == Spec => []CitationInv
  <1>1. CitationInv /\ [Next]_vars => CitationInv'
    BY NextCites
  <1> QED BY InitCites, <1>1, PTL DEF Spec

\* An ACTIVE Claim or Summary rests on ACTIVE chunks, or its document was
\* soft-deleted under a process that held it, for any number of processes.
THEOREM LiveOnLive == Spec => []LiveArtifactLiveEvidence
  <1>1. CitationInv => LiveArtifactLiveEvidence
    BY DEF CitationInv
  <1> QED BY CitationsKept, <1>1, PTL

\* What a sweep has marked STALE rests on no ACTIVE chunk, then or later, for
\* any number of processes.
THEOREM StaleOnNothing == Spec => []StaleHasNoEvidence
  <1>1. CitationInv => StaleHasNoEvidence
    BY DEF CitationInv
  <1> QED BY CitationsKept, <1>1, PTL

-----------------------------------------------------------------------------
(***************************************************************************)
(* One summary per document, for commands that do not overlap: with two    *)
(* processes both may find the document without one.                       *)
(***************************************************************************)
IsSummary(a) == artType[a] = "Summary"

\* The summaries a generator is writing are of documents apart from one another,
\* and no other Summary rests on any of them.
DraftsApart ==
  \A p \in Job : job[p].pc \in Writing /\ job[p].type = "Summary" =>
    \A a \in job[p].mine :
      /\ \A b \in job[p].mine :
           a # b => DocsOf(job[p].plan[a]) \cap DocsOf(job[p].plan[b]) = {}
      /\ \A b \in Art \ job[p].mine :
           IsSummary(b) => DocsOf(job[p].plan[a]) \cap DocsOf(artSources[b]) = {}

SummaryInv == CitationInv /\ DraftsApart /\ OneSummaryPerDocument

Alone == \A p, q \in Job : p = q

LEMMA DocsOfGrows ==
  ASSUME NEW cs, NEW ds, cs \subseteq ds
  PROVE  DocsOf(cs) \subseteq DocsOf(ds)
  BY DEF DocsOf

\* No step but the linking of artifacts gives an artifact a source; none but
\* their insertion makes one a Summary, and it has no source then.
SourcesShrink ==
  \A a \in Art : /\ artSources'[a] \subseteq artSources[a]
                 /\ IsSummary(a)' => IsSummary(a) \/ artSources'[a] = {}

LEMMA ShrinkKeepsOne ==
  ASSUME SummaryInv, SourcesShrink
  PROVE  OneSummaryPerDocument'
  <1> SUFFICES ASSUME NEW a \in Art, NEW b \in Art, IsSummary(a)', IsSummary(b)',
                      (DocsOf(artSources[a]) \cap DocsOf(artSources[b]) # {})'
               PROVE  a = b
    BY DEF OneSummaryPerDocument, IsSummary
  <1>1. /\ DocsOf(artSources'[a]) \subseteq DocsOf(artSources[a])
        /\ DocsOf(artSources'[b]) \subseteq DocsOf(artSources[b])
    BY DocsOfGrows DEF SourcesShrink
  <1>2. DocsOf({}) = {}
    BY DEF DocsOf
  <1>3. DocsOf(artSources'[a]) \cap DocsOf(artSources'[b]) # {}
    BY DEF DocsOf
  <1>4. artSources'[a] # {} /\ artSources'[b] # {}
    BY <1>2, <1>3
  <1>5. IsSummary(a) /\ IsSummary(b)
    BY <1>4 DEF SourcesShrink
  <1>6. DocsOf(artSources[a]) \cap DocsOf(artSources[b]) # {}
    BY <1>1, <1>3
  <1> QED BY <1>5, <1>6 DEF SummaryInv, OneSummaryPerDocument, IsSummary

LEMMA PlanSummary ==
  ASSUME SummaryInv, CitationInv', Alone, NEW p \in Job, NEW docs \in SUBSET NeedSummary, NEW ret,
         PlanSummaries(p, docs, ret), UNCHANGED <<artType, artSources>>
  PROVE  SummaryInv'
  <1>0. TypeOK /\ job[p] \in JobRecord
    BY DEF SummaryInv, CitationInv, ArtInv, TypeOK, JobTypeOK
  <1>1. PICK mine \in SUBSET FreeArts : \E f \in [mine -> docs] :
          /\ \A a, b \in mine : f[a] = f[b] => a = b
          /\ Plan(p, "Summary", mine, [a \in mine |-> ChunksOf(f[a])], ret)
    BY DEF PlanSummaries
  <1>2. PICK f \in [mine -> docs] :
          /\ \A a, b \in mine : f[a] = f[b] => a = b
          /\ Plan(p, "Summary", mine, [a \in mine |-> ChunksOf(f[a])], ret)
    BY <1>1
  <1>3. PICK held, needs, uncited :
          Becomes(p, [job[p] EXCEPT !.pc = "insertArts", !.ret = ret, !.type = "Summary",
                !.mine = mine,
                !.plan = [a \in Art |-> IF a \in mine THEN [b \in mine |-> ChunksOf(f[b])][a] ELSE {}],
                !.held = held, !.needs = needs, !.uncited = uncited])
    BY <1>2 DEF Plan
  <1> DEFINE plan == [a \in Art |-> IF a \in mine THEN [b \in mine |-> ChunksOf(f[b])][a] ELSE {}]
             r == [job[p] EXCEPT !.pc = "insertArts", !.ret = ret, !.type = "Summary",
                       !.mine = mine, !.plan = plan, !.held = held, !.needs = needs,
                       !.uncited = uncited]
  <1>4. r.mine = mine /\ r.plan = plan
    BY <1>0 DEF JobRecord
  <1>5. job'[p] = r
    BY <1>0, <1>3, OnlyThis
  <1> HIDE DEF r
  <1>6. \A a \in mine : plan[a] = ChunksOf(f[a]) /\ f[a] \in NeedSummary
    BY DEF FreeArts
  <1> HIDE DEF plan
  <1>7. ASSUME NEW a \in mine
        PROVE  DocsOf(plan[a]) = {f[a]}
    <2>1. f[a] \in Doc /\ plan[a] = ChunksOf(f[a])
      BY <1>6 DEF NeedSummary
    <2>2. \A d, e \in Doc : ChunksOf(e) \cap ChunksOf(d) # {} <=> d = e
      <3> TAKE d, e \in Doc
      <3>1. <<e, "summary">> \in ChunksOf(e) /\ \A c \in ChunksOf(e) : c[1] = e
        BY DEF ChunksOf, Kind
      <3>2. \A c \in ChunksOf(d) : c[1] = d
        BY DEF ChunksOf
      <3> QED BY <3>1, <3>2
    <2> QED BY <2>1, <2>2 DEF DocsOf
  <1>8. ASSUME NEW a \in mine, NEW b \in Art, IsSummary(b)
        PROVE  f[a] \notin DocsOf(artSources[b])
    BY <1>6, <1>8 DEF NeedSummary, IsSummary, DocsOf
  <1>9. DraftsApart'
    <2> SUFFICES ASSUME NEW a \in mine
                 PROVE  /\ \A b \in mine : a # b => DocsOf(plan[a]) \cap DocsOf(plan[b]) = {}
                        /\ \A b \in Art : IsSummary(b) => DocsOf(plan[a]) \cap DocsOf(artSources[b]) = {}
      BY <1>4, <1>5 DEF DraftsApart, Alone, IsSummary, DocsOf
    <2> QED BY <1>2, <1>7, <1>8
  <1>10. OneSummaryPerDocument'
    BY ShrinkKeepsOne DEF SourcesShrink, IsSummary
  <1> QED BY <1>9, <1>10 DEF SummaryInv

LEMMA NoDraft ==
  ASSUME SummaryInv, CitationInv', SourcesShrink,
         \A q \in Job : job'[q].pc \in Writing => job'[q].type # "Summary"
  PROVE  SummaryInv'
  BY ShrinkKeepsOne DEF SummaryInv, DraftsApart

\* A plan of another kind.
LEMMA PlanOther ==
  ASSUME SummaryInv, CitationInv', Alone, NEW p \in Job, NEW type, type # "Summary", NEW mine,
         NEW cites, NEW ret, Plan(p, type, mine, cites, ret), UNCHANGED <<artType, artSources>>
  PROVE  SummaryInv'
  <1>0. TypeOK /\ job[p] \in JobRecord
    BY DEF SummaryInv, CitationInv, ArtInv, TypeOK, JobTypeOK
  <1>1. PICK plan, held, uncited :
          Becomes(p, [job[p] EXCEPT !.pc = "insertArts", !.ret = ret, !.type = type,
                                    !.mine = mine, !.plan = plan, !.held = held,
                                    !.needs = held, !.uncited = uncited])
    BY DEF Plan
  <1> DEFINE r == [job[p] EXCEPT !.pc = "insertArts", !.ret = ret, !.type = type, !.mine = mine,
                       !.plan = plan, !.held = held, !.needs = held, !.uncited = uncited]
  <1>2. job'[p].type = type
    <2>1. r.type = type
      BY <1>0 DEF JobRecord
    <2>2. Becomes(p, r)
      BY <1>1
    <2> HIDE DEF r
    <2> QED BY <1>0, <2>1, <2>2, OnlyThis
  <1> HIDE DEF r
  <1> QED BY <1>2, NoDraft DEF SourcesShrink, IsSummary, Alone

LEMMA InsertArtsSummary ==
  ASSUME SummaryInv, CitationInv', Alone, NEW p \in Job, InsertArts(p)
  PROVE  SummaryInv'
  <1>0. TypeOK /\ job[p] \in JobRecord
    BY DEF SummaryInv, CitationInv, ArtInv, TypeOK, JobTypeOK
  <1>1. /\ artType' = [a \in Art |-> IF a \in job[p].mine THEN job[p].type ELSE artType[a]]
        /\ artSources' = artSources /\ job[p].pc \in Writing
    BY DEF InsertArts, Writing
  <1>2. job'[p].mine = job[p].mine /\ job'[p].plan = job[p].plan /\ job'[p].type = job[p].type
    BY <1>0, OnlyThis DEF InsertArts, Goto, JobRecord
  <1>3. SourcesShrink
    BY <1>1 DEF SourcesShrink, IsSummary, SummaryInv, CitationInv, UnlinkedIsBare
  <1>4. DraftsApart'
    <2> SUFFICES ASSUME job[p].type = "Summary", NEW a \in job[p].mine
                 PROVE  /\ \A b \in job[p].mine :
                             a # b => DocsOf(job[p].plan[a]) \cap DocsOf(job[p].plan[b]) = {}
                        /\ \A b \in Art \ job[p].mine : IsSummary(b)' =>
                             DocsOf(job[p].plan[a]) \cap DocsOf(artSources[b]) = {}
      BY <1>1, <1>2 DEF DraftsApart, Alone, DocsOf
    <2>1. \A b \in Art \ job[p].mine : IsSummary(b)' => IsSummary(b)
      BY <1>1 DEF IsSummary
    <2> QED BY <1>1, <2>1 DEF SummaryInv, DraftsApart
  <1> QED BY <1>3, <1>4, ShrinkKeepsOne DEF SummaryInv

LEMMA CiteChunksSummary ==
  ASSUME SummaryInv, CitationInv', Alone, NEW p \in Job, CiteChunks(p)
  PROVE  SummaryInv'
  <1>0. TypeOK /\ job[p] \in JobRecord
    BY DEF SummaryInv, CitationInv, ArtInv, TypeOK, JobTypeOK
  <1>1. UNCHANGED <<artType, artSources>> /\ job[p].pc \in Writing
    BY DEF CiteChunks, storeVars, artVars, Writing
  <1> DEFINE active(a) == {c \in job[p].plan[a] : chunkStatus[c] = "ACTIVE"}
             r(a) == [job[p] EXCEPT !.uncited = @ \ {a}, !.plan[a] = active(a)]
  <1>2. PICK a \in job[p].uncited : Becomes(p, r(a))
    BY DEF CiteChunks
  <1>3. /\ r(a).mine = job[p].mine /\ r(a).type = job[p].type
        /\ \A b \in job[p].mine : r(a).plan[b] \subseteq job[p].plan[b]
    <2>1. job[p].plan \in [Art -> SUBSET Chunk] /\ job[p].mine \subseteq Art
      BY <1>0 DEF JobRecord
    <2>2. r(a).mine = job[p].mine /\ r(a).type = job[p].type
          /\ r(a).plan = [job[p].plan EXCEPT ![a] = active(a)]
      BY <1>0 DEF JobRecord
    <2> QED BY <2>1, <2>2
  <1>4. job'[p] = r(a)
    BY <1>0, <1>2, OnlyThis
  <1> HIDE DEF r, active
  <1>5. DraftsApart'
    <2> SUFFICES ASSUME job[p].type = "Summary", NEW b \in job[p].mine
                 PROVE  /\ \A c \in job[p].mine :
                             b # c => DocsOf(r(a).plan[b]) \cap DocsOf(r(a).plan[c]) = {}
                        /\ \A c \in Art \ job[p].mine : IsSummary(c) =>
                             DocsOf(r(a).plan[b]) \cap DocsOf(artSources[c]) = {}
      BY <1>1, <1>3, <1>4 DEF DraftsApart, Alone, DocsOf, IsSummary
    <2>1. \A c \in job[p].mine : DocsOf(r(a).plan[c]) \subseteq DocsOf(job[p].plan[c])
      BY <1>3, DocsOfGrows
    <2>2. /\ \A c \in job[p].mine : b # c => DocsOf(job[p].plan[b]) \cap DocsOf(job[p].plan[c]) = {}
          /\ \A c \in Art \ job[p].mine : IsSummary(c) =>
               DocsOf(job[p].plan[b]) \cap DocsOf(artSources[c]) = {}
      BY <1>1 DEF SummaryInv, DraftsApart
    <2> QED BY <2>1, <2>2
  <1>6. SourcesShrink
    BY <1>1 DEF SourcesShrink, IsSummary
  <1> QED BY <1>5, <1>6, ShrinkKeepsOne DEF SummaryInv

LEMMA LinkArtsSummary ==
  ASSUME SummaryInv, CitationInv', Alone, NEW p \in Job, LinkArts(p), ~Abandon(p)
  PROVE  SummaryInv'
  <1>0. TypeOK /\ job[p] \in JobRecord
    BY DEF SummaryInv, CitationInv, ArtInv, TypeOK, JobTypeOK
  <1>1. /\ artSources' = [a \in Art |-> IF a \in job[p].mine THEN job[p].plan[a] ELSE artSources[a]]
        /\ artType' = artType /\ job[p].pc = "linkArts"
        /\ \A a \in job[p].mine : artStatus[a] # "none"
        /\ Becomes(p, Returned(p)) \/ Goto(p, "bump")
    BY DEF LinkArts, EvidenceGone
  <1>2. job'[p].pc \notin Writing
    <2>1. CASE Goto(p, "bump")
      BY <1>0, <2>1, OnlyThis DEF Goto, JobRecord, Writing
    <2>2. CASE Becomes(p, Returned(p))
      <3>1. Returned(p).pc \notin Writing
        <4>1. CASE job[p].ret = "idle"
          BY <4>1 DEF Returned, Idle, Writing
        <4>2. CASE job[p].ret # "idle"
          BY <1>0, <4>2 DEF Returned, JobRecord, Writing
        <4> QED BY <4>1, <4>2
      <3> QED BY <1>0, <2>2, <3>1, OnlyThis
    <2> QED BY <1>1, <2>1, <2>2
  <1>3. \A a \in job[p].mine : IsSummary(a) => job[p].type = "Summary"
    BY <1>1 DEF SummaryInv, CitationInv, TypeIsKept, IsSummary
  <1>4. OneSummaryPerDocument'
    <2> SUFFICES ASSUME NEW a \in Art, NEW b \in Art, IsSummary(a), IsSummary(b), a # b
                 PROVE  DocsOf(artSources'[a]) \cap DocsOf(artSources'[b]) = {}
      BY <1>1 DEF OneSummaryPerDocument, IsSummary, DocsOf
    <2>1. /\ a \in job[p].mine => artSources'[a] = job[p].plan[a]
          /\ a \notin job[p].mine => artSources'[a] = artSources[a]
          /\ b \in job[p].mine => artSources'[b] = job[p].plan[b]
          /\ b \notin job[p].mine => artSources'[b] = artSources[b]
      BY <1>1
    <2>2. job[p].pc \in Writing
      BY <1>1 DEF Writing
    <2>3. CASE a \in job[p].mine
      BY <1>3, <2>1, <2>2, <2>3 DEF SummaryInv, DraftsApart
    <2>4. CASE b \in job[p].mine
      BY <1>3, <2>1, <2>2, <2>4 DEF SummaryInv, DraftsApart
    <2>5. CASE a \notin job[p].mine /\ b \notin job[p].mine
      BY <2>1, <2>5 DEF SummaryInv, OneSummaryPerDocument, IsSummary
    <2> QED BY <2>3, <2>4, <2>5
  <1>5. DraftsApart'
    BY <1>2 DEF DraftsApart, Alone
  <1> QED BY <1>4, <1>5 DEF SummaryInv

LEMMA NextSummary ==
  ASSUME SummaryInv, Alone, [Next]_vars
  PROVE  SummaryInv'
  <1>1. CitationInv' /\ TypeOK /\ TypeOK'
    BY NextCites DEF SummaryInv, CitationInv, ArtInv
  <1>2. CASE UNCHANGED vars
    <2>1. artType' = artType /\ artSources' = artSources /\ job' = job
      BY <1>2 DEF vars, storeVars, artVars, jobVars
    <2>2. SourcesShrink
      BY <2>1 DEF SourcesShrink, IsSummary
    <2>3. DraftsApart'
      BY <2>1 DEF SummaryInv, DraftsApart, IsSummary, DocsOf
    <2> QED BY <1>1, <2>2, <2>3, ShrinkKeepsOne DEF SummaryInv
  <1>3. CASE Next
    <2>1. PICK p \in Job : DocumentCommand(p) \/ ArtifactCommand(p) \/ JobStep(p) \/ Crash(p)
      BY <1>3 DEF Next
    <2>2. ASSUME Steady(p)
          PROVE  SummaryInv'
      BY <1>1, <2>2, NoDraft DEF Steady, Calm, SourcesShrink, IsSummary, Alone
    <2>3. CASE IngestStep(p) \/ Register(p) \/ Update(p) \/ Supersede(p) \/ Abandon(p)
      BY <1>1, <2>2, <2>3, IngestSteady
    <2>4. CASE DeleteSoft(p) \/ DeleteHard(p) \/ (UpdateDelete(p) /\ ~Abandon(p))
      <3>1. PICK d : Removes(d)
        BY <1>1, <2>4, DeleteRemoves
      <3>2. SourcesShrink
        BY <3>1 DEF Removes, Sweeps, SourcesShrink, IsSummary
      <3>3. job[p].pc \notin Writing
        BY <2>4 DEF DeleteSoft, DeleteHard, UpdateDelete, Start, Writing
      <3>4. job'[p].pc \notin Writing
        BY <3>1, <3>3 DEF Removes
      <3> QED BY <1>1, <3>2, <3>4, NoDraft DEF Alone
    <2>5. CASE Clear(p)
      <3>1. SourcesShrink
        BY <2>5 DEF Clear, WipeRows, SourcesShrink
      <3>2. job'[p].pc = "idle"
        <4>1. job[p] \in JobRecord /\ job[p].pc = "idle"
          BY <1>1, <2>5 DEF TypeOK, JobTypeOK, Clear, Start
        <4>2. job'[p] = [job[p] EXCEPT !.held = {}, !.stale = {}, !.staleTables = {}, !.oldRow = {}]
          BY <2>5 DEF Clear
        <4> QED BY <4>1, <4>2 DEF JobRecord
      <3> QED BY <1>1, <3>1, <3>2, NoDraft DEF Alone, Writing
    <2>6. CASE GenerateClaims(p) \/ GenerateInsight(p) \/ RegenClaims(p)
      <3>1. UNCHANGED <<artType, artSources>>
        BY <2>6 DEF GenerateClaims, GenerateInsight, RegenClaims, Abandon, storeVars, artVars
      <3>2. CASE \E type, mine, cites, ret : type # "Summary" /\ Plan(p, type, mine, cites, ret)
        BY <1>1, <3>1, <3>2, PlanOther
      <3>3. CASE \E chunks, ret : PlanClaims(p, chunks, ret)
        BY <3>2, <3>3 DEF PlanClaims
      <3>4. CASE Abandon(p)
        BY <2>3, <3>4
      <3>5. CASE Goto(p, "regenSummary")
        <4>1. job'[p].pc \notin Writing
          BY <1>1, <3>5, OnlyThis DEF Goto, TypeOK, JobTypeOK, JobRecord, Writing
        <4> QED BY <1>1, <3>1, <4>1, NoDraft DEF SourcesShrink, IsSummary, Alone
      <3>6. \/ \E chunks, ret : PlanClaims(p, chunks, ret)
            \/ \E mine, cites, ret : Plan(p, "Insight", mine, cites, ret)
            \/ Abandon(p) \/ Goto(p, "regenSummary")
        <4>1. GenerateClaims(p) => \E chunks, ret : PlanClaims(p, chunks, ret)
          BY DEF GenerateClaims
        <4>2. GenerateInsight(p) => \E mine, cites, ret : Plan(p, "Insight", mine, cites, ret)
          BY DEF GenerateInsight
        <4>3. RegenClaims(p) => (\E chunks, ret : PlanClaims(p, chunks, ret))
                                  \/ Abandon(p) \/ Goto(p, "regenSummary")
          BY DEF RegenClaims
        <4> QED BY <2>6, <4>1, <4>2, <4>3
      <3> QED BY <3>2, <3>3, <3>4, <3>5, <3>6
    <2>7. CASE GenerateSummaries(p) \/ RegenSummary(p)
      <3>1. UNCHANGED <<artType, artSources>>
        BY <2>7 DEF GenerateSummaries, RegenSummary, storeVars, artVars
      <3>2. CASE Goto(p, "regen")
        <4>1. job'[p].pc \notin Writing
          BY <1>1, <3>2, OnlyThis DEF Goto, TypeOK, JobTypeOK, JobRecord, Writing
        <4> QED BY <1>1, <3>1, <4>1, NoDraft DEF SourcesShrink, IsSummary, Alone
      <3>3. CASE \E docs \in SUBSET NeedSummary : \E ret : PlanSummaries(p, docs, ret)
        BY <1>1, <3>1, <3>3, PlanSummary
      <3>4. GenerateSummaries(p) => \E docs \in SUBSET NeedSummary : \E ret : PlanSummaries(p, docs, ret)
        <4>1. NeedSummary \in SUBSET NeedSummary
          OBVIOUS
        <4> QED BY <4>1 DEF GenerateSummaries
      <3>5. RegenSummary(p) => \/ \E docs \in SUBSET NeedSummary : \E ret : PlanSummaries(p, docs, ret)
                               \/ Goto(p, "regen")
        <4>1. NeedSummary \cap {job[p].scope} \in SUBSET NeedSummary
          OBVIOUS
        <4> QED BY <4>1 DEF RegenSummary
      <3> QED BY <2>7, <3>2, <3>3, <3>4, <3>5
    <2>8. CASE RegenNext(p) \/ Regenerate(p) \/ Retire(p)
      <3>1. UNCHANGED <<artType, artSources>>
        BY <2>8 DEF RegenNext, Regenerate, Retire, storeVars, artVars
      <3>2. job'[p].pc \notin Writing
        <4>1. CASE Retire(p)
          <5>1. job'[p] = Idle
            BY <1>1, <4>1, OnlyThis DEF Retire
          <5> QED BY <5>1 DEF Idle, Writing
        <4>2. CASE RegenNext(p) \/ Regenerate(p)
          BY <1>1, <4>2, RegenCalm DEF Calm
        <4> QED BY <2>8, <4>1, <4>2
      <3> QED BY <1>1, <3>1, <3>2, NoDraft DEF SourcesShrink, IsSummary, Alone
    <2>9. CASE InsertArts(p) \/ CiteChunks(p) \/ (LinkArts(p) /\ ~Abandon(p))
      BY <1>1, <2>9, InsertArtsSummary, CiteChunksSummary, LinkArtsSummary
    <2> QED BY <2>1, <2>3, <2>4, <2>5, <2>6, <2>7, <2>8, <2>9
            DEF DocumentCommand, ArtifactCommand, JobStep, UpdateStep, ArtifactStep, Crash
  <1> QED BY <1>2, <1>3

\* Commands that run one after another, each of them dying wherever it likes,
\* never leave two summaries of one document.
THEOREM OneSummary ==
  ASSUME Alone
  PROVE  Spec => []OneSummaryPerDocument
  <1>1. Init => SummaryInv
    <2>1. Init => \A a \in Art : artType[a] = "none"
      BY DEF Init, StoreInit
    <2>2. Init => \A p \in Job : job[p].pc \notin Writing
      BY DEF Init, JobInit, Idle, Writing
    <2> QED BY <2>1, <2>2, InitCites DEF SummaryInv, DraftsApart, OneSummaryPerDocument
  <1>2. SummaryInv /\ [Next]_vars => SummaryInv'
    BY NextSummary
  <1>3. SummaryInv => OneSummaryPerDocument
    BY DEF SummaryInv
  <1> QED BY <1>1, <1>2, <1>3, PTL DEF Spec

=============================================================================
