---------------------------- MODULE AliasRefresh ----------------------------
(***************************************************************************)
(* mine_aliases and judge_mined_pairs: the table term_aliases as a derived *)
(* view of the corpus and of the ontology's annotations.  A refresh is     *)
(* started by hand or at the end of a document command, nothing excludes   *)
(* two of them, and the verdicts it pays an LLM for are cached in          *)
(* term_alias_judgements.  The judge is on, as it is by default.           *)
(*                                                                         *)
(* A pair of terms is one value (make_pair puts the two in order), and a   *)
(* row is a pair with the kind of its evidence.                            *)
(***************************************************************************)
EXTENDS Naturals, FiniteSets

CONSTANTS
  Pair,        \* unordered pairs of terms
  Curated,     \* the pairs an operator may insert by hand
  Minable,     \* the rows the scan can find: pairs with a mined kind
  Proc,        \* processes that may run a refresh
  MaxChanges   \* bound: how often the corpus changes

MinedKind  == {"parenthetical", "phrase", "ontology"}
JudgedKind == {"parenthetical", "phrase"}   \* JUDGED_KINDS
Row        == Pair \X (MinedKind \cup {"manual"})

ASSUME AliasAssumption ==
  /\ Curated \subseteq Pair
  /\ Minable \subseteq Pair \X MinedKind
  /\ MaxChanges \in Nat

VARIABLES
  corpus,    \* the rows the ACTIVE chunks and the annotations give right now
  aliases,   \* the rows of term_aliases
  verdict,   \* term_alias_judgements, for the one judge model and version
  proc,      \* what each refresh holds in memory
  fresh,     \* history: the last refresh to end had scanned all of this corpus
  changes    \* changes of the corpus so far (bounded by MaxChanges)

vars == <<corpus, aliases, verdict, proc, fresh, changes>>

Verdict == {"none", "same", "different"}

AtRest ==
  [pc |-> "idle", mined |-> {}, known |-> [t \in Pair |-> "none"], sample |-> FALSE]

ProcRecord ==
  [pc : {"idle", "annotations", "load", "judge", "write"},
   mined : SUBSET Minable,      \* acc, then kept
   known : [Pair -> Verdict],   \* the verdicts it has read or bought
   sample : BOOLEAN]            \* run with --limit

TypeOK ==
  /\ corpus \in SUBSET Minable
  /\ aliases \in SUBSET Row
  /\ verdict \in [Pair -> Verdict]
  /\ proc \in [Proc -> ProcRecord]
  /\ fresh \in BOOLEAN
  /\ changes \in Nat

Init ==
  /\ corpus = {}
  /\ aliases = {}
  /\ verdict = [t \in Pair |-> "none"]
  /\ proc = [p \in Proc |-> AtRest]
  /\ fresh = FALSE
  /\ changes = 0

Judged(rows)   == {r \in rows : r[2] \in JudgedKind}
Unjudged(p)    == {t \in Pair : /\ \E r \in Judged(proc[p].mined) : r[1] = t
                                /\ proc[p].known[t] = "none"}
FromText(rows) == {r \in rows : r[2] # "ontology"}
Manual         == {r \in Row : r[2] = "manual"}

Becomes(p, record) == proc' = [proc EXCEPT ![p] = record]

-----------------------------------------------------------------------------
\* Documents are registered, deleted, updated; --no-mine-aliases exists, and
\* _refresh_aliases swallows a refresh that fails.
CorpusChanges ==
  /\ changes < MaxChanges
  /\ changes' = changes + 1
  /\ corpus' \in (SUBSET Minable) \ {corpus}
  /\ fresh' = FALSE
  /\ UNCHANGED <<aliases, verdict, proc>>

\* The README's INSERT recipe for a curated pair.
InsertManual ==
  /\ \E t \in Curated : aliases' = aliases \cup {<<t, "manual">>}
  /\ UNCHANGED <<corpus, verdict, proc, fresh, changes>>

\* The chunk pages; with --limit, some of them.
ScanChunks(p) ==
  /\ proc[p].pc = "idle"
  /\ \E sample \in BOOLEAN, found \in SUBSET FromText(corpus) :
       /\ ~sample => found = FromText(corpus)
       /\ Becomes(p, [proc[p] EXCEPT !.pc = "annotations", !.mined = found, !.sample = sample])
  /\ UNCHANGED <<corpus, aliases, verdict, fresh, changes>>

\* The class pages.  A scan that has found no pair at all ends here.
ScanAnnotations(p) ==
  LET mined == proc[p].mined \cup (corpus \ FromText(corpus)) IN
  /\ proc[p].pc = "annotations"
  /\ \/ /\ mined = {}
        /\ Becomes(p, AtRest)
        /\ fresh' = (~proc[p].sample /\ corpus = {})
     \/ /\ mined # {}
        /\ Becomes(p, [proc[p] EXCEPT !.pc = "load", !.mined = mined])
        /\ UNCHANGED fresh
  /\ UNCHANGED <<corpus, aliases, verdict, changes>>

LoadVerdicts(p) ==
  /\ proc[p].pc = "load"
  /\ Becomes(p, [proc[p] EXCEPT !.pc = "judge", !.known = verdict])
  /\ UNCHANGED <<corpus, aliases, verdict, fresh, changes>>

\* Mutant: the verdicts are not stored.
JudgeForgets(p) ==
  /\ proc[p].pc = "judge"
  /\ \E said \in [Unjudged(p) -> {"same", "different"}] :
       Becomes(p, [proc[p] EXCEPT !.pc = "write",
         !.known = [t \in Pair |-> IF t \in Unjudged(p) THEN said[t] ELSE @[t]]])
  /\ UNCHANGED <<corpus, aliases, verdict, fresh, changes>>

\* Mutant: pairs left unanswered do not stop the refresh.
JudgeGoesOn(p) ==
  /\ proc[p].pc = "judge"
  /\ \E answered \in SUBSET Unjudged(p) : \E said \in [answered -> {"same", "different"}] :
       LET with(v) == [t \in Pair |-> IF t \in answered THEN said[t] ELSE v[t]] IN
       /\ verdict' = with(verdict)
       /\ Becomes(p, [proc[p] EXCEPT !.pc = "write", !.known = with(@)])
  /\ UNCHANGED <<corpus, aliases, fresh, changes>>

\* The calls run side by side, and any of them may fail or leave pairs out.
\* What was answered is stored; if a pair is left without a verdict the refresh
\* then raises, before term_aliases is touched.
Judge(p) ==
  /\ proc[p].pc = "judge"
  /\ \E answered \in SUBSET Unjudged(p) : \E said \in [answered -> {"same", "different"}] :
       LET with(v) == [t \in Pair |-> IF t \in answered THEN said[t] ELSE v[t]] IN
       /\ verdict' = with(verdict)
       /\ \/ /\ answered # Unjudged(p)
             /\ Becomes(p, AtRest)
          \/ /\ answered = Unjudged(p)
             /\ Becomes(p, [proc[p] EXCEPT !.pc = "write", !.known = with(@)])
  /\ UNCHANGED <<corpus, aliases, fresh, changes>>

Kept(p) ==
  {r \in proc[p].mined : r[2] \in JudgedKind => proc[p].known[r[1]] = "same"}

PrunesNothing(p) == {}              \* mutant: the DELETE is forgotten
PrunesManual(p)  == Row \ Kept(p)   \* mutant: 'manual' is not exempt

\* The mined rows that are not among this scan's, unless it was a sample.
Pruned(p) == IF proc[p].sample THEN {} ELSE (Row \ Manual) \ Kept(p)

\* Upsert and prune are one transaction.
Write(p) ==
  /\ proc[p].pc = "write"
  /\ aliases' = (aliases \cup Kept(p)) \ Pruned(p)
  /\ fresh' = (~proc[p].sample /\ proc[p].mined = corpus)
  /\ Becomes(p, AtRest)
  /\ UNCHANGED <<corpus, verdict, changes>>

Crash(p) ==
  /\ proc[p].pc # "idle"
  /\ Becomes(p, AtRest)
  /\ UNCHANGED <<corpus, aliases, verdict, fresh, changes>>

Next ==
  \/ CorpusChanges
  \/ InsertManual
  \/ \E p \in Proc :
       \/ ScanChunks(p)
       \/ ScanAnnotations(p)
       \/ LoadVerdicts(p)
       \/ Judge(p)
       \/ Write(p)
       \/ Crash(p)

Spec == Init /\ [][Next]_vars

-----------------------------------------------------------------------------
\* Fail closed: no pair read off the text reaches retrieval without a verdict
\* in the cache, however refreshes overlap and wherever they stop, so the next
\* refresh never pays for a pair that is in use.
AliasHasVerdict ==
  \A r \in aliases : r[2] \in JudgedKind => verdict[r[1]] # "none"

\* The automatic refresh never removes a pair an operator has inserted.
ManualSurvives == [][aliases \cap Manual \subseteq aliases']_vars

Mirrors(rows) ==
  /\ aliases \ Manual \subseteq rows
  /\ rows \ Judged(rows) \subseteq aliases

\* After a full refresh of the present corpus, with no later write by one that
\* had scanned another corpus, the table holds nothing the corpus does not state
\* and every annotation pair it does.
NothingLingers == fresh /\ corpus # {} => Mirrors(corpus)

\* The same without the exception: a full scan replaces the table.
FullScanReplaces == fresh => Mirrors(corpus)

-----------------------------------------------------------------------------
\* What makes AliasHasVerdict inductive: what a refresh knows is in the cache.
VerdictInv ==
  /\ TypeOK
  /\ AliasHasVerdict
  /\ \A p \in Proc : \A t \in Pair : proc[p].known[t] # "none" => verdict[t] # "none"
  /\ \A p \in Proc : proc[p].pc = "write" => Unjudged(p) = {}

=============================================================================
