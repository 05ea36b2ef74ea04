----------------------------- MODULE TableWorkers -----------------------------
(***************************************************************************)
(* _drive_subprocess_workers: one worker process per PDF that is not in    *)
(* the cache, a few at a time.  The parent reads a worker's output with a  *)
(* deadline, looks at the process when it is quiet, kills one that is      *)
(* silent for too long, and takes the result from the cache, whatever the  *)
(* worker's end.  A worker is what Tables models; here it is what its      *)
(* parent can see of it.                                                   *)
(***************************************************************************)
EXTENDS Naturals, FiniteSets

CONSTANTS
  DPdf,      \* PDFs of the folder
  Workers,   \* concurrency.table_extraction
  MaxSilent, \* worker_max_silent_seconds, in polls
  MaxDrives  \* bound: runs of the driver

ASSUME DriverAssumption ==
  /\ IsFiniteSet(DPdf) /\ {Workers, MaxDrives} \subseteq Nat
  /\ MaxSilent \in Nat \ {0}

Extracted == {"none", "partial", "whole"}
Code == {"zero", "failed", "killed", "unknown"}

VARIABLES
  inCache,  \* inCache[p]: the entry of p
  driving,  \* what the driver does with p: "off", "queued", "pump", "status", "report", "done"
  wasCached,\* was_cached
  process,  \* the worker of p: "none", "works", "saved", "exits", "gone"
  eof,      \* its output was closed
  silent,   \* polls without a line
  exitCode, \* its exit code as the driver has it
  manifest, \* what the driver returns for p
  billed,   \* PDFs whose entry's cost is in this run's total
  wrote,    \* history: PDFs whose entry was made by this run
  reused,   \* history: PDFs that had a whole entry as this run came to them
  drives    \* runs started

driverVars ==
  <<inCache, driving, wasCached, process, eof, silent, exitCode, manifest, billed, wrote, reused, drives>>

Manifest == {"none", "spawn-failed", "worker-failed", "cache", "entry", "empty"}

DriverTypeOK ==
  /\ inCache \in [DPdf -> Extracted] /\ silent \in [DPdf -> 0..MaxSilent]
  /\ exitCode \in [DPdf -> Code] /\ manifest \in [DPdf -> Manifest]
  /\ billed \cup wrote \cup reused \subseteq DPdf
  /\ \A p \in DPdf : process[p] \in {"works", "saved", "exits"} => driving[p] \in {"pump", "status", "report", "done"}

DriverInit ==
  /\ inCache \in [DPdf -> Extracted]
  /\ driving = [p \in DPdf |-> "off"] /\ wasCached = [p \in DPdf |-> FALSE]
  /\ process = [p \in DPdf |-> "none"] /\ eof = [p \in DPdf |-> FALSE]
  /\ silent = [p \in DPdf |-> 0] /\ exitCode = [p \in DPdf |-> "zero"]
  /\ manifest = [p \in DPdf |-> "none"]
  /\ billed = {} /\ wrote = {} /\ reused = {} /\ drives = 0

-----------------------------------------------------------------------------
\* The coroutines that hold the semaphore.
InHand == {p \in DPdf : driving[p] \in {"pump", "status", "report"}}

BeginDrive ==
  /\ \A p \in DPdf : driving[p] \in {"off", "done"} /\ drives < MaxDrives
  /\ drives' = drives + 1
  /\ driving' = [p \in DPdf |-> "queued"]
  /\ wasCached' = [p \in DPdf |-> FALSE] /\ process' = [p \in DPdf |-> "none"]
  /\ eof' = [p \in DPdf |-> FALSE] /\ silent' = [p \in DPdf |-> 0]
  /\ exitCode' = [p \in DPdf |-> "zero"] /\ manifest' = [p \in DPdf |-> "none"]
  /\ billed' = {} /\ wrote' = {} /\ reused' = {}
  /\ UNCHANGED inCache

\* The cache is looked at before the worker starts; a partial entry is no hit.
TakePdf(p, spawned) ==
  /\ driving[p] = "queued" /\ Cardinality(InHand) < Workers
  /\ LET hit == inCache[p] = "whole" IN
     /\ wasCached' = [wasCached EXCEPT ![p] = hit]
     /\ reused' = IF hit THEN reused \cup {p} ELSE reused
     /\ driving' = [driving EXCEPT ![p] = IF hit THEN "report" ELSE IF spawned THEN "pump" ELSE "done"]
     /\ process' = [process EXCEPT ![p] = IF ~hit /\ spawned THEN "works" ELSE "none"]
     /\ manifest' = [manifest EXCEPT ![p] = IF ~hit /\ ~spawned THEN "spawn-failed" ELSE "none"]
  /\ UNCHANGED <<inCache, eof, silent, exitCode, billed, wrote, drives>>

-----------------------------------------------------------------------------
\* The worker: it finds a whole entry that another run made meanwhile, or makes
\* one; it fails, is killed by the system, or hangs at any point.
Saves(p, what) ==
  /\ process[p] = "works"
  /\ process' = [process EXCEPT ![p] = "saved"]
  /\ IF inCache[p] = "whole" THEN UNCHANGED <<inCache, wrote>>
     ELSE inCache' = [inCache EXCEPT ![p] = what] /\ wrote' = wrote \cup {p}
  /\ UNCHANGED <<driving, wasCached, eof, silent, exitCode, manifest, billed, reused, drives>>

\* Its output is closed as it ends, or, as was once seen, it is not.
WorkerEnds(p, closed) ==
  /\ process[p] \in {"works", "saved"}
  /\ exitCode' = [exitCode EXCEPT ![p] = IF process[p] = "saved" THEN "zero" ELSE "failed"]
  /\ process' = [process EXCEPT ![p] = "gone"]
  /\ eof' = [eof EXCEPT ![p] = closed]
  /\ UNCHANGED <<inCache, driving, wasCached, silent, manifest, billed, wrote, reused, drives>>

\* A line of a worker that is not hanging.
Prints(p) ==
  /\ driving[p] = "pump" /\ process[p] \in {"works", "saved"} /\ silent[p] > 0
  /\ silent' = [silent EXCEPT ![p] = 0]
  /\ UNCHANGED <<inCache, driving, wasCached, process, eof, exitCode, manifest, billed, wrote, reused, drives>>

\* Another command extracts the same PDF.
OtherExtracts(p) ==
  /\ inCache[p] # "whole" /\ driving[p] \in {"queued", "pump"} /\ p \notin wrote
  /\ inCache' = [inCache EXCEPT ![p] = "whole"]
  /\ UNCHANGED <<driving, wasCached, process, eof, silent, exitCode, manifest, billed, wrote, reused, drives>>

-----------------------------------------------------------------------------
\* A quiet interval: a worker that is gone is not waited for, one that is silent
\* for too long is killed.
Poll(p) ==
  /\ driving[p] = "pump" /\ ~eof[p]
  /\ IF process[p] = "gone"
     THEN driving' = [driving EXCEPT ![p] = "status"] /\ UNCHANGED <<process, exitCode, silent>>
     ELSE IF silent[p] + 1 >= MaxSilent
     THEN /\ driving' = [driving EXCEPT ![p] = "status"]
          /\ process' = [process EXCEPT ![p] = "gone"]
          /\ exitCode' = [exitCode EXCEPT ![p] = "killed"]
          /\ silent' = [silent EXCEPT ![p] = MaxSilent]
     ELSE silent' = [silent EXCEPT ![p] = @ + 1] /\ UNCHANGED <<driving, process, exitCode>>
  /\ UNCHANGED <<inCache, wasCached, eof, manifest, billed, wrote, reused, drives>>

ReadsEnd(p) ==
  /\ driving[p] = "pump" /\ eof[p]
  /\ driving' = [driving EXCEPT ![p] = "status"]
  /\ UNCHANGED <<inCache, wasCached, process, eof, silent, exitCode, manifest, billed, wrote, reused, drives>>

\* The exit status, or the wait for it is over.
Status(p, arrives) ==
  /\ driving[p] = "status"
  /\ driving' = [driving EXCEPT ![p] = "report"]
  /\ exitCode' = [exitCode EXCEPT ![p] = IF arrives THEN @ ELSE "unknown"]
  /\ UNCHANGED <<inCache, wasCached, process, eof, silent, manifest, billed, wrote, reused, drives>>

\* Mutant: a hit is what the cache holds by now.
ReportByCache(p) ==
  /\ driving[p] = "report"
  /\ driving' = [driving EXCEPT ![p] = "done"]
  /\ billed' = IF inCache[p] = "partial" THEN billed \cup {p} ELSE billed
  /\ manifest' = [manifest EXCEPT ![p] =
       IF inCache[p] = "whole" THEN "cache" ELSE IF inCache[p] = "partial" THEN "entry"
       ELSE IF exitCode[p] # "zero" THEN "worker-failed" ELSE "empty"]
  /\ UNCHANGED <<inCache, wasCached, process, eof, silent, exitCode, wrote, reused, drives>>

\* The entry in the cache now is the result and its cost is this run's, unless it
\* was there before; without one the exit code tells.
Report(p) ==
  /\ driving[p] = "report"
  /\ driving' = [driving EXCEPT ![p] = "done"]
  /\ billed' = IF inCache[p] # "none" /\ ~wasCached[p] THEN billed \cup {p} ELSE billed
  /\ manifest' = [manifest EXCEPT ![p] =
       IF inCache[p] # "none" THEN IF wasCached[p] THEN "cache" ELSE "entry"
       ELSE IF exitCode[p] # "zero" THEN "worker-failed" ELSE "empty"]
  /\ UNCHANGED <<inCache, wasCached, process, eof, silent, exitCode, wrote, reused, drives>>

DriverNext ==
  \/ BeginDrive
  \/ \E p \in DPdf :
       \/ \E b \in BOOLEAN : TakePdf(p, b) \/ WorkerEnds(p, b) \/ Status(p, b)
       \/ \E what \in {"partial", "whole"} : Saves(p, what)
       \/ Prints(p) \/ OtherExtracts(p) \/ Poll(p) \/ ReadsEnd(p) \/ Report(p)

-----------------------------------------------------------------------------
\* What a run's workers made is returned and paid for by that run, however the
\* worker ended and whatever its parent saw of it; a whole entry found at the start
\* is returned and not paid for.  No more workers live than there are slots.
WorkerResults ==
  /\ \A p \in DPdf : driving[p] = "done" =>
       /\ p \in wrote => manifest[p] = "entry" /\ p \in billed
       /\ p \in reused => manifest[p] = "cache" /\ p \notin billed
  /\ Cardinality({p \in DPdf : process[p] \in {"works", "saved"}}) <= Workers

=============================================================================
