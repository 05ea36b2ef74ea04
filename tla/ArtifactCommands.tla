-------------------------- MODULE ArtifactCommands --------------------------
(***************************************************************************)
(* The commands that derive artifacts from chunks and retire them again:   *)
(* generate-artifacts (per chunk, and the document Summary), insight       *)
(* generation, and regenerate-stale.  Every generator reads the evidence   *)
(* first, spends minutes in LLM calls, then inserts the artifact rows in   *)
(* one transaction and the rows that tie them to their evidence in another.*)
(***************************************************************************)
EXTENDS DocumentCommands

\* Uuids nobody has taken: a bound, the artifacts that may come to exist.
FreeArts == {a \in Art : artStatus[a] = "none" /\ \A q \in Job : a \notin job[q].mine}

\* The chunk a per-chunk artifact of any status rests on is not selected again.
Unprocessed(kind) ==
  {c \in Doc \X {kind} : /\ chunkStatus[c] = "ACTIVE"
                         /\ \A a \in Art : artType[a] = "Claim" => c \notin artSources[a]}

SummariseAll == {d \in Doc : docStatus[d] = "ACTIVE"}  \* mutant: no skip

NeedSummary ==
  {d \in Doc : /\ docStatus[d] = "ACTIVE"
               /\ \A a \in Art : artType[a] = "Summary" => artSources[a] \cap ChunksOf(d) = {}}

\* What the calls answered: for each artifact to insert, the chunks to cite.
\* A chunk may give several artifacts, or none (no answer, or an empty one).
Plan(p, type, mine, cites, ret) ==
  LET docs == DocsOf(UNION {cites[a] : a \in mine}) IN
  /\ mine # {}
  /\ Becomes(p, [job[p] EXCEPT
       !.pc = "insertArts", !.ret = ret, !.type = type, !.mine = mine,
       !.plan = [a \in Art |-> IF a \in mine THEN cites[a] ELSE {}],
       !.held = docs, !.needs = docs,
       !.uncited = IF type = "Summary" THEN mine ELSE {}])

PlanClaims(p, chunks, ret) ==
  \E mine \in SUBSET FreeArts : \E f \in [mine -> chunks] :
    Plan(p, "Claim", mine, [a \in mine |-> {f[a]}], ret)

\* A Summary will cite the chunks its document still has when it is inserted.
PlanSummaries(p, docs, ret) ==
  \E mine \in SUBSET FreeArts : \E f \in [mine -> docs] :
    /\ \A a, b \in mine : f[a] = f[b] => a = b
    /\ Plan(p, "Summary", mine, [a \in mine |-> ChunksOf(f[a])], ret)

-----------------------------------------------------------------------------
GenerateClaims(p) ==
  /\ Start(p)
  /\ \E kind \in Kind : PlanClaims(p, Unprocessed(kind), "idle")
  /\ UNCHANGED <<storeVars, torn, raced>>

GenerateSummaries(p) ==
  /\ Start(p)
  /\ PlanSummaries(p, NeedSummary, "idle")
  /\ UNCHANGED <<storeVars, torn, raced>>

\* ACTIVE claims of one ontology class, any of them: two rows are asked for, and a
\* claim about two entities of the class is two rows.
GenerateInsight(p) ==
  /\ Start(p)
  /\ \E claims \in SUBSET {a \in Art : artStatus[a] = "ACTIVE" /\ artType[a] = "Claim"
                                        /\ artSources[a] # {}},
        a \in FreeArts :
       /\ claims # {}
       /\ Plan(p, "Insight", {a}, [b \in {a} |-> UNION {artSources[c] : c \in claims}], "idle")
  /\ UNCHANGED <<storeVars, torn, raced>>

InsertArts(p) ==
  /\ job[p].pc = "insertArts"
  /\ artStatus' = [a \in Art |-> IF a \in job[p].mine THEN "ACTIVE" ELSE artStatus[a]]
  /\ artType' = [a \in Art |-> IF a \in job[p].mine THEN job[p].type ELSE artType[a]]
  /\ Goto(p, "linkArts")
  /\ UNCHANGED <<docVars, chunkVars, tableVars, artSources, version>>
  /\ UNCHANGED <<commands, torn, raced>>

\* Mutant: the Summary stays among those to be read for.
CiteChunksRepeats(p) ==
  /\ job[p].pc = "linkArts"
  /\ \E a \in job[p].uncited : Becomes(p, [job[p] EXCEPT !.plan[a] = {c \in @ : chunkStatus[c] = "ACTIVE"}])
  /\ UNCHANGED <<storeVars, commands, torn, raced>>

\* For each Summary, a transaction selects the chunks that are ACTIVE now; the
\* other artifacts cite the chunks their prompt was made from.
CiteChunks(p) ==
  /\ job[p].pc = "linkArts"
  /\ \E a \in job[p].uncited :
       LET active == {c \in job[p].plan[a] : chunkStatus[c] = "ACTIVE"} IN
       Becomes(p, [job[p] EXCEPT !.uncited = @ \ {a}, !.plan[a] = active])
  /\ UNCHANGED <<storeVars, commands, torn, raced>>

\* artifact_sources and the edges refer to chunk, document and artifact rows.
EvidenceGone(p) ==
  \/ ~(job[p].needs \subseteq job[p].held)
  \/ \E a \in job[p].mine : artStatus[a] = "none"

\* An Insight's last transaction is this one, and bumps; the others bump in
\* a transaction of their own.
LinkArts(p) ==
  /\ job[p].pc = "linkArts"
  /\ job[p].uncited = {}
  /\ \/ EvidenceGone(p) /\ Abandon(p)
     \/ /\ ~EvidenceGone(p)
        /\ artSources' = [a \in Art |-> IF a \in job[p].mine THEN job[p].plan[a]
                                                              ELSE artSources[a]]
        /\ IF job[p].type = "Insight"
             THEN /\ version' = version + 1
                  /\ Becomes(p, Returned(p))
             ELSE /\ UNCHANGED version
                  /\ Goto(p, "bump")
        /\ UNCHANGED <<docVars, chunkVars, tableVars, artStatus, artType>>
        /\ UNCHANGED <<commands, torn, raced>>

-----------------------------------------------------------------------------
(***************************************************************************)
(* regenerate_stale_artifacts                                              *)
(***************************************************************************)
Present(status) == {x \in DOMAIN status : status[x] # "none"}  \* mutant: no filter

Stale(status) == {x \in DOMAIN status : status[x] = "STALE"}

\* The ACTIVE rows that supersede a document some STALE artifact rests on.
Successors ==
  {d \in Doc : /\ docStatus[d] = "ACTIVE"
               /\ \E a \in Stale(artStatus) :
                    supersedes[d] \in DocsOf(artSources[a])}

Regenerate(p) ==
  /\ Start(p)
  /\ Stale(artStatus) # {} \/ Stale(tableStatus) # {}
  /\ Becomes(p, [job[p] EXCEPT !.pc = "regen", !.work = Successors,
                               !.stale = Stale(artStatus),
                               !.staleTables = Stale(tableStatus)])
  /\ UNCHANGED <<storeVars, torn, raced>>

RegenNext(p) ==
  /\ job[p].pc = "regen"
  /\ \E d \in job[p].work :
       Becomes(p, [job[p] EXCEPT !.pc = "regenClaims", !.scope = d, !.work = @ \ {d}])
  /\ UNCHANGED <<storeVars, commands, torn, raced>>

\* The scoped per-chunk call: it raises when the successor's row is gone; it
\* may come back with nothing, and its caller does not look.
RegenClaims(p) ==
  /\ job[p].pc = "regenClaims"
  /\ \/ docStatus[job[p].scope] = "none" /\ Abandon(p)
     \/ /\ docStatus[job[p].scope] # "none"
        /\ \/ PlanClaims(p, Unprocessed("summary") \cap ChunksOf(job[p].scope), "regenSummary")
           \/ Goto(p, "regenSummary")
        /\ UNCHANGED <<storeVars, commands, torn, raced>>

\* The scoped summary call: nothing to do when the successor has a Summary, or
\* no text to copy into one.
RegenSummary(p) ==
  /\ job[p].pc = "regenSummary"
  /\ \/ PlanSummaries(p, NeedSummary \cap {job[p].scope}, "regen")
     \/ Goto(p, "regen")
  /\ UNCHANGED <<storeVars, commands, torn, raced>>

\* Every row found STALE at the start is retired, whatever was regenerated.
Retire(p) ==
  LET retired(ids, status) ==
        [x \in DOMAIN status |-> IF x \in ids /\ status[x] # "none"
                                   THEN "DELETED" ELSE status[x]]
  IN
  /\ job[p].pc = "regen"
  /\ job[p].work = {}
  /\ artStatus' = retired(job[p].stale, artStatus)
  /\ tableStatus' = retired(job[p].staleTables, tableStatus)
  /\ Becomes(p, Idle)
  /\ UNCHANGED <<docVars, chunkVars, tableLinked, artType, artSources, version>>
  /\ UNCHANGED <<commands, torn, raced>>

ArtifactStep(p) ==
  \/ InsertArts(p)
  \/ CiteChunks(p)
  \/ LinkArts(p)
  \/ RegenNext(p)
  \/ RegenClaims(p)
  \/ RegenSummary(p)
  \/ Retire(p)

ArtifactCommand(p) ==
  \/ GenerateClaims(p)
  \/ GenerateSummaries(p)
  \/ GenerateInsight(p)
  \/ Regenerate(p)

=============================================================================
