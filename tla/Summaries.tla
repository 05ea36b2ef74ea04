------------------------------ MODULE Summaries ------------------------------
(***************************************************************************)
(* The summaries of long documents before they are chunked: each source    *)
(* window goes through a chain of LLM calls (the "evaluated" method) or    *)
(* through one (the "single" method), all windows of all documents at once *)
(* behind one semaphore, and the result is cached on disk for later runs.  *)
(* A run may fail in any call and may die anywhere.  Window <<d, 0>> stands *)
(* for the call that asks what document d is about.                        *)
(***************************************************************************)
EXTENDS Naturals, FiniteSets, SequencesExt

CONSTANTS
  LongDoc,    \* documents over threshold_tokens
  WindowsOf,  \* how many windows each has
  EvalRounds, \* eval_rounds
  Slots,      \* concurrency
  CostCap,    \* max_cost_usd, in calls
  MaxSumRuns  \* bound: runs

ASSUME SummariesAssumption ==
  /\ {EvalRounds, Slots, CostCap} \subseteq Nat
  /\ IsFiniteSet(LongDoc) /\ WindowsOf \in [LongDoc -> Nat]

VARIABLES
  method,     \* summarization.method
  runs,
  running,    \* FALSE, or TRUE from the cache lookups to the end of a run
  cache,      \* the windows the cached summary of a document covers, {} without one
  titled,     \* cached summaries that hold a document subject
  step, round, \* where each window's chain is
  text,       \* windows with a non-empty summary
  calling, waiting, \* the semaphore: holders, and waiters first come first served
  spent, costHit,
  result      \* what the run returns for each document

summaryVars ==
  <<method, runs, running, cache, titled, step, round, text, calling, waiting, spent, costHit, result>>

WindowsIn(d) == {d} \X (1..WindowsOf[d])
Window == UNION {WindowsIn(d) : d \in LongDoc}
Task == Window \cup (LongDoc \X {0})
Ended == {"done", "failed", "skipped"}

SummariesTypeOK ==
  /\ \A d \in LongDoc : cache[d] \subseteq WindowsIn(d) /\ (d \in titled => cache[d] # {})
  /\ Cardinality(calling) <= Slots /\ calling \cap ToSet(waiting) = {}
  /\ \A w \in calling \cup ToSet(waiting) : step[w] \notin Ended \cup {"none"}
  /\ spent \in 0..CostCap + 1 /\ \A w \in Task : round[w] \in 0..EvalRounds + 1

\* Each batch of documents is a run of its own, its cost counted from zero.
Fresh ==
  /\ step' = [w \in Task |-> "none"] /\ round' = [w \in Task |-> 0] /\ text' = {}
  /\ calling' = {} /\ waiting' = <<>> /\ spent' = 0 /\ costHit' = FALSE

SummariesInit ==
  /\ method \in {"evaluated", "single"} /\ runs = 0 /\ running = FALSE
  /\ cache = [d \in LongDoc |-> {}] /\ titled = {} /\ result = [d \in LongDoc |-> "none"]
  /\ step = [w \in Task |-> "none"] /\ round = [w \in Task |-> 0] /\ text = {}
  /\ calling = {} /\ waiting = <<>> /\ spent = 0 /\ costHit = FALSE

-----------------------------------------------------------------------------
\* The semaphore admits who has waited longest.
Admit(holders, queue) ==
  LET free == Slots - Cardinality(holders)
      n == IF Len(queue) < free THEN Len(queue) ELSE free
  IN /\ calling' = holders \cup {queue[i] : i \in 1..n}
     /\ waiting' = SubSeq(queue, n + 1, Len(queue))

\* A cached summary without a document subject gets one before it is served.
Served(d) == cache[d] # {} /\ (method = "single" \/ d \in titled)

\* The run looks every document up and makes one task per window of the others.
StartRun ==
  /\ ~running /\ runs < MaxSumRuns
  /\ runs' = runs + 1 /\ running' = TRUE
  /\ result' = [d \in LongDoc |-> IF Served(d) THEN "cached" ELSE "none"]
  /\ Fresh
  /\ UNCHANGED <<method, cache, titled>>

\* The tasks start together, before any call has returned: each looks at cost_hit,
\* then asks the semaphore for its first call.
StartWindows ==
  LET new == {w \in Window : cache[w[1]] = {}} IN
  /\ running /\ \A w \in Window : step[w] = "none"
  /\ new # {}
  /\ step' = [w \in Task |-> IF w \notin new THEN step[w] ELSE IF costHit THEN "skipped" ELSE "summarize"]
  /\ \E order \in {s \in SetToSeqs(new) :
                     \A i, j \in 1..Len(s) : i < j /\ s[i][1] = s[j][1] => s[i][2] < s[j][2]} :
       Admit(calling, waiting \o (IF costHit THEN <<>> ELSE order))
  /\ UNCHANGED <<method, runs, running, cache, titled, round, text, spent, costHit, result>>

\* The call of w is over and its chain goes on at `to`.  Only what was answered is
\* billed; the cap is looked at when a window ends.
Returned(w, to, billed) ==
  /\ step' = [step EXCEPT ![w] = to]
  /\ round' = [round EXCEPT ![w] = IF to = "evaluate" THEN @ + 1 ELSE @]
  /\ spent' = IF billed /\ spent <= CostCap THEN spent + 1 ELSE spent
  /\ costHit' = (costHit \/ (method = "evaluated" /\ w \in Window /\ to \in Ended /\ spent' > CostCap))
  /\ Admit(calling \ {w}, IF to \in Ended THEN waiting ELSE Append(waiting, w))
  /\ UNCHANGED <<method, runs, running, cache, titled, result>>

\* An answer may be empty: a window without text, a revision that is not taken.
Answer(w, hasText) ==
  /\ w \in calling
  /\ \/ /\ step[w] = "summarize"
        /\ text' = IF hasText THEN text \cup {w} ELSE text
        /\ Returned(w, IF method = "evaluated" THEN "questions" ELSE "done", TRUE)
     \/ step[w] = "questions" /\ UNCHANGED text /\ Returned(w, "evaluate", TRUE)
     \* The evaluator passes the summary, or it is revised while the budget lasts.
     \/ /\ step[w] = "evaluate" /\ UNCHANGED text
        /\ Returned(w, IF hasText \/ round[w] > EvalRounds THEN "done" ELSE "revise", TRUE)
     \/ /\ step[w] = "revise"
        /\ text' = IF hasText THEN text \cup {w} ELSE text
        /\ Returned(w, "evaluate", TRUE)
     \/ /\ step[w] = "subject"
        /\ text' = IF hasText THEN text \cup {w} ELSE text
        /\ Returned(w, "done", TRUE)

\* A chain whose first call fails has failed; any later failure ends it with the
\* summary it has, evaluated or not.
CallFails(w) ==
  /\ w \in calling
  /\ UNCHANGED text
  /\ Returned(w, IF step[w] = "summarize" THEN "failed" ELSE "done", FALSE)

WindowsOver(d) == cache[d] # {} \/ \A w \in WindowsIn(d) : step[w] \in Ended
Covered(d) == text \cap {w \in WindowsIn(d) : step[w] = "done"}

\* _document_subject: for a summary just made, and for a cached one without it.
AskSubject(d) ==
  /\ running /\ method = "evaluated" /\ result[d] = "none" /\ step[<<d, 0>>] = "none"
  /\ WindowsOver(d) /\ Covered(d) \cup cache[d] # {}
  /\ step' = [step EXCEPT ![<<d, 0>>] = "subject"]
  /\ Admit(calling, Append(waiting, <<d, 0>>))
  /\ UNCHANGED <<method, runs, running, cache, titled, round, text, spent, costHit, result>>

\* Mutant: what there is of a summary is cached.
AnyText(d) == Covered(d) # {}

\* The single-call method saves what came back: "using partial combined summary".
PartIsEnough(d) == method = "single" /\ Covered(d) # {}

\* "Persist only a COMPLETE doc."
Complete(d) == PartIsEnough(d) \/ (Covered(d) # {} /\ Covered(d) = WindowsIn(d))

\* Without a summary the original text is used, but a document the single-call
\* method split is left empty.
ResultOf(d) ==
  IF Covered(d) \cup cache[d] # {} THEN "summary"
  ELSE IF method = "single" /\ WindowsOf[d] > 1 THEN "empty" ELSE "original"

\* The cache entry is written beside the old one and renamed over it.
Settle(d) ==
  /\ running /\ result[d] = "none" /\ WindowsOver(d)
  /\ \/ method = "single" \/ Covered(d) \cup cache[d] = {} \/ step[<<d, 0>>] = "done"
  /\ LET made == Complete(d) /\ cache[d] = {} IN
     /\ cache' = IF made THEN [cache EXCEPT ![d] = Covered(d)] ELSE cache
     /\ titled' = IF <<d, 0>> \in text /\ (made \/ cache[d] # {}) THEN titled \cup {d} ELSE titled
  /\ result' = [result EXCEPT ![d] = ResultOf(d)]
  /\ UNCHANGED <<method, runs, running, step, round, text, calling, waiting, spent, costHit>>

\* The run returns, or the process dies.
EndRun ==
  /\ running /\ \A d \in LongDoc : result[d] # "none"
  /\ running' = FALSE
  /\ UNCHANGED <<method, runs, cache, titled, step, round, text, calling, waiting, spent, costHit, result>>

SummaryCrash ==
  /\ running /\ running' = FALSE
  /\ result' = [d \in LongDoc |-> "none"] /\ Fresh
  /\ UNCHANGED <<method, runs, cache, titled>>

SummariesNext ==
  \/ StartRun \/ StartWindows \/ EndRun \/ SummaryCrash
  \/ \E w \in calling : (\E hasText \in BOOLEAN : Answer(w, hasText)) \/ CallFails(w)
  \/ \E d \in LongDoc : AskSubject(d) \/ Settle(d)

-----------------------------------------------------------------------------
\* A cached evaluated summary covers its whole document, over any runs, failed
\* calls and crashes: a later run serves it without looking again.
CacheIsWhole ==
  method = "evaluated" => \A d \in LongDoc : cache[d] \in {{}, WindowsIn(d)}

=============================================================================
