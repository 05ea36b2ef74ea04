------------------------------- MODULE Tables -------------------------------
(***************************************************************************)
(* extract_tables_async on one PDF: the page loop takes the pages in order *)
(* and sends a figure-dense page that gave no real table to a vision       *)
(* model, while _PageVisionPrefetch starts such requests ahead of it.      *)
(* Answers are saved per page, results per PDF in two cache tiers.  A run  *)
(* is a worker process that may be killed by its parent's watchdog, and a  *)
(* result with failed pages is made again by a later run.                  *)
(***************************************************************************)
EXTENDS Naturals, FiniteSets

CONSTANTS
  NPages,      \* pages of the PDF, within the page cap
  Pdfs,        \* PDFs looked at, as the kinds of their pages
  MaxVision,   \* page_vision_max_pages_per_doc
  Flights,     \* concurrency.table_page_vision
  Ahead,       \* _PREFETCH_WINDOW times that
  MaxTableRuns \* bound: runs

TPage == 1..NPages
Tier  == {"run", "user"}

(***************************************************************************)
(* "text": not figure-dense.  Figure-dense pages: "figures", without a     *)
(* table; "real", with one that _has_real_table sees; "merged", with one   *)
(* only the loop puts together; "filtered", with one the loop drops;       *)
(* "complex", with one the vision model must read off a crop.              *)
(***************************************************************************)
PageKind == {"text", "figures", "real", "merged", "filtered", "complex"}

ASSUME TablesAssumption ==
  {NPages, MaxVision, Flights, Ahead} \subseteq Nat /\ Pdfs \subseteq [TPage -> PageKind]

VARIABLES
  pageKind,
  loopAt, loopStep,  \* main_pos, and what the loop does: "off", "next", "crop", "send", "await"
  prefetching,       \* whether this run has a prefetcher
  ahead, runner,     \* the prefetcher's page, and "off", "top", "wait"
  scheduled, direct, \* _scheduled, _direct
  held,              \* _tasks: prefetched pages the loop has not come to
  flying,            \* prefetched requests on the wire, which hold the slots
  outcome,           \* outcome[p] of a request of this run: "none", "answer", "failure"
  sent,              \* n_page_vision_pages, as the pages
  kept, failedPages, \* pages with a table that is kept, failed_pages
  answers,           \* pages whose answer is on disk
  entry,             \* the two cache tiers
  tableRuns

tableVars ==
  <<pageKind, loopAt, loopStep, prefetching, ahead, runner, scheduled, direct, held, flying, outcome,
    sent, kept, failedPages, answers, entry, tableRuns>>

Dense(p) == pageKind[p] # "text"
NoEntry == [made |-> FALSE, failed |-> {}, kept |-> {}, sent |-> {}, answered |-> {}]

TablesTypeOK ==
  /\ pageKind \in [TPage -> PageKind] /\ loopAt \in 0..NPages
  /\ held \cup flying \cup sent \cup kept \cup failedPages \cup answers \subseteq TPage
  /\ \A p \in held : p \in flying \/ outcome[p] # "none"
  /\ \A p \in flying : outcome[p] = "none" /\ p \notin answers
  /\ \A t \in Tier : entry[t].failed \subseteq TPage /\ (~entry[t].made => entry[t] = NoEntry)

Off ==
  /\ loopAt' = 0 /\ loopStep' = "off" /\ prefetching' = FALSE /\ ahead' = 1 /\ runner' = "off"
  /\ scheduled' = 0 /\ direct' = 0 /\ held' = {} /\ flying' = {} /\ outcome' = [p \in TPage |-> "none"]
  /\ sent' = {} /\ kept' = {} /\ failedPages' = {}

TablesInit ==
  /\ pageKind \in Pdfs
  /\ loopAt = 0 /\ loopStep = "off" /\ prefetching = FALSE /\ ahead = 1 /\ runner = "off"
  /\ scheduled = 0 /\ direct = 0 /\ held = {} /\ flying = {} /\ outcome = [p \in TPage |-> "none"]
  /\ sent = {} /\ kept = {} /\ failedPages = {}
  /\ answers = {} /\ entry = [t \in Tier |-> NoEntry] /\ tableRuns = 0

-----------------------------------------------------------------------------
\* two_tier_load: the run folder's entry hides the user's.
Hit == IF entry["run"].made THEN entry["run"] ELSE entry["user"]

\* A partial entry is a miss; a whole one is copied to the run folder.
StartExtract(ahd) ==
  /\ loopStep = "off" /\ tableRuns < MaxTableRuns
  /\ tableRuns' = tableRuns + 1
  /\ IF Hit.made /\ Hit.failed = {}
     THEN /\ entry' = [entry EXCEPT !["run"] = IF @.made THEN @ ELSE Hit]
          /\ UNCHANGED <<loopStep, prefetching, runner>>
     ELSE /\ loopStep' = "next" /\ prefetching' = ahd
          /\ runner' = IF ahd THEN "top" ELSE "off"
          /\ UNCHANGED entry
  /\ UNCHANGED <<pageKind, loopAt, ahead, scheduled, direct, held, flying, outcome, sent, kept, failedPages, answers>>

\* _run, at the head of its loop: the cap shared with direct calls.
RunnerTop ==
  /\ runner = "top"
  /\ runner' = IF ahead > NPages \/ scheduled + direct >= MaxVision THEN "off" ELSE "wait"
  /\ UNCHANGED <<pageKind, loopAt, loopStep, prefetching, ahead, scheduled, direct, held, flying, outcome,
                 sent, kept, failedPages, answers, entry, tableRuns>>

\* The wait for the window and then for a slot is over.  A page the loop has
\* reached meanwhile, or one that has a table it seems, is left to the loop.  A
\* saved answer is had at once.
RunnerGoes ==
  /\ runner = "wait"
  /\ ahead <= loopAt + Ahead /\ Cardinality(flying) < Flights
  /\ runner' = "top" /\ ahead' = ahead + 1
  /\ IF ahead > loopAt /\ pageKind[ahead] \in {"figures", "merged", "complex"}
     THEN /\ held' = held \cup {ahead} /\ scheduled' = scheduled + 1
          /\ IF ahead \in answers
             THEN outcome' = [outcome EXCEPT ![ahead] = "answer"] /\ UNCHANGED flying
             ELSE flying' = flying \cup {ahead} /\ UNCHANGED outcome
     ELSE UNCHANGED <<held, scheduled, flying, outcome>>
  /\ UNCHANGED <<pageKind, loopAt, loopStep, prefetching, direct, sent, kept, failedPages, answers, entry, tableRuns>>

\* A prefetched request ends, which frees its slot whether the loop is there or not.
RequestEnds(p, how) ==
  /\ p \in flying
  /\ flying' = flying \ {p}
  /\ outcome' = [outcome EXCEPT ![p] = how]
  /\ answers' = IF how = "answer" THEN answers \cup {p} ELSE answers
  /\ UNCHANGED <<pageKind, loopAt, loopStep, prefetching, ahead, runner, scheduled, direct, held, sent, kept,
                 failedPages, entry, tableRuns>>

-----------------------------------------------------------------------------
\* The next page; a complex table on it is asked for first.
NextPage ==
  /\ loopStep = "next" /\ loopAt < NPages
  /\ loopAt' = loopAt + 1
  /\ kept' = IF pageKind[loopAt'] \in {"real", "merged"} THEN kept \cup {loopAt'} ELSE kept
  /\ loopStep' = IF pageKind[loopAt'] = "complex" THEN "crop" ELSE "send"
  /\ UNCHANGED <<pageKind, prefetching, ahead, runner, scheduled, direct, held, flying, outcome, sent,
                 failedPages, answers, entry, tableRuns>>

\* The crop's answer: a table, none, or a failure, which makes the result partial.
CropEnds(how) ==
  /\ loopStep = "crop" /\ loopStep' = "send"
  /\ kept' = IF how = "table" THEN kept \cup {loopAt} ELSE kept
  /\ failedPages' = IF how = "failure" THEN failedPages \cup {loopAt} ELSE failedPages
  /\ UNCHANGED <<pageKind, loopAt, prefetching, ahead, runner, scheduled, direct, held, flying, outcome, sent,
                 answers, entry, tableRuns>>

\* discard: the request is cancelled, or its answer is wasted.
Discarded == held' = held \ {loopAt} /\ flying' = flying \ (held \cap {loopAt})

\* Mutant: a page that is not sent is not discarded.
SendOrLeave ==
  /\ loopStep = "send"
  /\ IF Dense(loopAt) /\ loopAt \notin kept /\ Cardinality(sent) < MaxVision
     THEN /\ loopStep' = "await" /\ sent' = sent \cup {loopAt}
          /\ held' = held \ {loopAt} /\ UNCHANGED flying
          /\ direct' = IF prefetching /\ loopAt \notin held THEN direct + 1 ELSE direct
     ELSE loopStep' = "next" /\ UNCHANGED <<held, flying, sent, direct>>
  /\ UNCHANGED <<pageKind, loopAt, prefetching, ahead, runner, scheduled, outcome, kept, failedPages, answers, entry, tableRuns>>

\* Whole-page vision for a dense page without a real table; take: the prefetched
\* request or one of its own.
SendPage ==
  /\ loopStep = "send"
  /\ IF Dense(loopAt) /\ loopAt \notin kept /\ Cardinality(sent) < MaxVision
     THEN /\ loopStep' = "await" /\ sent' = sent \cup {loopAt}
          /\ held' = held \ {loopAt} /\ UNCHANGED flying
          /\ direct' = IF prefetching /\ loopAt \notin held THEN direct + 1 ELSE direct
     ELSE loopStep' = "next" /\ Discarded /\ UNCHANGED <<sent, direct>>
  /\ UNCHANGED <<pageKind, loopAt, prefetching, ahead, runner, scheduled, outcome, kept, failedPages, answers, entry, tableRuns>>

\* The answer arrives (a request of the loop's own ends here) or the request failed.
Awaited(how) ==
  /\ loopStep = "await" /\ loopAt \notin flying
  /\ how = (IF outcome[loopAt] # "none" THEN outcome[loopAt]
            ELSE IF loopAt \in answers THEN "answer" ELSE how)
  /\ loopStep' = "next"
  /\ outcome' = [outcome EXCEPT ![loopAt] = how]
  /\ answers' = IF how = "answer" THEN answers \cup {loopAt} ELSE answers
  /\ failedPages' = IF how = "failure" THEN failedPages \cup {loopAt} ELSE failedPages
  /\ UNCHANGED <<pageKind, loopAt, prefetching, ahead, runner, scheduled, direct, held, flying, sent, kept, entry, tableRuns>>

\* close, then the result is saved in each tier; a write that fails is ignored.
EndExtract(tiers) ==
  /\ loopStep = "next" /\ loopAt = NPages
  /\ LET made == [made |-> TRUE, failed |-> failedPages, kept |-> kept, sent |-> sent,
                  answered |-> {p \in sent : outcome[p] = "answer"}]
     IN entry' = [t \in Tier |-> IF t \in tiers THEN made ELSE entry[t]]
  /\ Off
  /\ UNCHANGED <<pageKind, answers, tableRuns>>

\* The worker raises, is killed, or was silent for too long.
ExtractDies ==
  /\ loopStep # "off" /\ Off
  /\ UNCHANGED <<pageKind, answers, entry, tableRuns>>

TablesNext ==
  \/ \E ahd \in BOOLEAN : StartExtract(ahd)
  \/ RunnerTop \/ RunnerGoes \/ NextPage \/ SendPage \/ ExtractDies
  \/ \E p \in flying, how \in {"answer", "failure"} : RequestEnds(p, how)
  \/ \E how \in {"table", "nothing", "failure"} : CropEnds(how)
  \/ \E how \in {"answer", "failure"} : Awaited(how)
  \/ \E tiers \in SUBSET Tier : EndExtract(tiers)

-----------------------------------------------------------------------------
\* "requests, post-processing and numbering are what the one-at-a-time loop
\* produces": a saved result sent the first MaxVision dense pages that gave no table
\* of their own and no others, and one that passes for whole has all the answers.
AsOneAtATime ==
  \A t \in Tier : entry[t].made =>
    LET open == {p \in TPage : Dense(p) /\ p \notin entry[t].kept} IN
    /\ entry[t].sent = {p \in open : Cardinality({q \in open : q < p}) < MaxVision}
    /\ entry[t].failed = {} => entry[t].answered = entry[t].sent

\* What is prefetched is ahead of the loop and within the window, is taken or
\* discarded as the loop passes, and never holds more than the slots.
PrefetchBounded ==
  /\ \A p \in held : p <= loopAt + Ahead /\ (p > loopAt \/ (p = loopAt /\ loopStep \in {"crop", "send"}))
  /\ Cardinality(flying) <= Flights
  /\ \A p \in flying : p \in held \/ (p = loopAt /\ loopStep = "await")

\* Looking ahead changes nothing but the time it takes, and keeps its bounds.
TablesInv == AsOneAtATime /\ PrefetchBounded

=============================================================================
