---------------------------- MODULE Build_proofs ----------------------------
(***************************************************************************)
(* Proofs about the parts of Build that keep files: the workers of the     *)
(* table extractor, the version folders, the proposals of the chunks, the  *)
(* summaries before chunking and the edits of the ontology.  First what    *)
(* they and the parts of Build_stages_proofs need of numbers, finite sets  *)
(* and functions defined by recursion.                                     *)
(***************************************************************************)
EXTENDS Build, FiniteSetTheorems, TLAPS

-----------------------------------------------------------------------------
(***************************************************************************)
(* Least and greatest numbers                                              *)
(***************************************************************************)
LEMMA LeastOf ==
  ASSUME NEW T \in SUBSET Nat, T # {}
  PROVE  \E x \in T : \A y \in T : x <= y
  <1> DEFINE R == OpToRel(<, Nat)
  <1>0. IsWellFoundedOn(R, Nat)
    BY NatLessThanWellFounded
  <1>1. \A x, y \in Nat : y < x => <<y, x>> \in R
    BY DEF OpToRel
  <1> HIDE DEF R
  <1>2. PICK x \in T : \A y \in T : ~(<<y, x>> \in R)
    BY WFMin, <1>0
  <1>3. ASSUME NEW y \in T PROVE x <= y
    <2>1. x \in Nat /\ y \in Nat
      OBVIOUS
    <2>2. ~(y < x)
      BY <1>1, <1>2, <2>1
    <2> QED BY <2>1, <2>2
  <1> QED BY <1>3

LEMMA GreatestOf ==
  ASSUME NEW S \in SUBSET Int, S # {}, NEW bound \in Int, \A x \in S : x <= bound
  PROVE  \E x \in S : \A y \in S : y <= x
  <1> DEFINE T == {n \in Nat : bound - n \in S}
  <1>1. PICK s \in S : TRUE
    OBVIOUS
  <1>2. bound - s \in T
    BY <1>1
  <1>3. PICK n \in T : \A m \in T : n <= m
    BY <1>2, LeastOf
  <1>4. ASSUME NEW y \in S PROVE y <= bound - n
    <2>1. y \in Int /\ bound - y \in Nat /\ bound - (bound - y) = y
      OBVIOUS
    <2>2. bound - y \in T
      BY <2>1
    <2>3. n \in Nat /\ n <= bound - y
      BY <1>3, <2>2
    <2> QED BY <2>1, <2>3
  <1> QED BY <1>3, <1>4

LEMMA MaxOf ==
  ASSUME NEW S \in SUBSET Int, S # {}, NEW bound \in Int, \A x \in S : x <= bound
  PROVE  Max(S) \in S /\ \A y \in S : y <= Max(S)
  BY GreatestOf DEF Max

LEMMA MinOfTwo ==
  ASSUME NEW m \in Int, NEW n \in Int
  PROVE  /\ Min({m, n}) \in {m, n}
         /\ Min({m, n}) <= m /\ Min({m, n}) <= n
  <1>1. \E x \in {m, n} : \A y \in {m, n} : x <= y
    OBVIOUS
  <1> QED BY <1>1 DEF Min

-----------------------------------------------------------------------------
(***************************************************************************)
(* A function of 0..n by its first value and the step from each to the     *)
(* next: there is one, and its values stay in the set the step maps into   *)
(* itself.                                                                 *)
(***************************************************************************)
LEMMA Climb ==
  ASSUME NEW T \in SUBSET Nat, 0 \in T, \A n \in T : n + 1 \in T
  PROVE  \A n \in Nat : n \in T
  <1> SUFFICES ASSUME Nat \ T # {} PROVE FALSE
    OBVIOUS
  <1>1. PICK x \in Nat \ T : \A y \in Nat \ T : x <= y
    <2>1. Nat \ T \in SUBSET Nat
      OBVIOUS
    <2> QED BY <2>1, LeastOf
  <1>2. x - 1 \in Nat /\ x - 1 \in T /\ (x - 1) + 1 = x
    BY <1>1
  <1> QED BY <1>1, <1>2

ClimbsBy(f, G, a, n) == f[0] = a /\ \A k \in 1..n : f[k] = G[f[k - 1]]

LEMMA Iterates ==
  ASSUME NEW A, NEW G \in [A -> A], NEW a \in A, NEW n \in Nat
  PROVE  \E f \in [0..n -> A] : ClimbsBy(f, G, a, n)
  <1> DEFINE Run(f, m) == f[0] = a /\ \A k \in 1..m : f[k] = G[f[k - 1]]
             T == {m \in Nat : \E f \in [0..m -> A] : Run(f, m)}
  <1>1. 0 \in T
    <2>1. [k \in 0..0 |-> a] \in [0..0 -> A] /\ Run([k \in 0..0 |-> a], 0)
      OBVIOUS
    <2> QED BY <2>1
  <1>2. ASSUME NEW m \in T PROVE m + 1 \in T
    <2>1. PICK f \in [0..m -> A] : Run(f, m)
      OBVIOUS
    <2> DEFINE g == [k \in 0..(m + 1) |-> IF k = m + 1 THEN G[f[m]] ELSE f[k]]
    <2>2. m \in Nat /\ f[m] \in A /\ G[f[m]] \in A
      OBVIOUS
    <2>3. g \in [0..(m + 1) -> A] /\ g[m + 1] = G[f[m]] /\ \A k \in 0..m : g[k] = f[k]
      BY <2>2
    <2> HIDE DEF g
    <2>4. g[0] = a
      BY <2>1, <2>2, <2>3
    <2>5. ASSUME NEW k \in 1..(m + 1) PROVE g[k] = G[g[k - 1]]
      <3>1. k - 1 \in 0..m /\ g[k - 1] = f[k - 1]
        BY <2>2, <2>3
      <3>2. CASE k = m + 1
        BY <2>2, <2>3, <3>1, <3>2
      <3>3. CASE k # m + 1
        <4>1. k \in 1..m
          BY <2>2, <3>3
        <4> QED BY <2>1, <2>3, <3>1, <4>1
      <3> QED BY <3>2, <3>3
    <2>6. Run(g, m + 1)
      BY <2>4, <2>5
    <2> QED BY <2>2, <2>3, <2>6
  <1> HIDE DEF T
  <1>3. T \in SUBSET Nat
    BY DEF T
  <1>4. n \in T
    BY <1>1, <1>2, <1>3, Climb
  <1> QED BY <1>4 DEF T, ClimbsBy

-----------------------------------------------------------------------------
(***************************************************************************)
(* A function of 0..n whose step depends on the place as well.             *)
(***************************************************************************)
StepsBy(f, G, a, n) == f[0] = a /\ \A k \in 1..n : f[k] = G[<<k, f[k - 1]>>]

LEMMA StepsExist ==
  ASSUME NEW A, NEW n \in Nat, NEW G \in [(1..n) \X A -> A], NEW a \in A
  PROVE  \E f \in [0..n -> A] : StepsBy(f, G, a, n)
  <1> DEFINE Run(f, m) == f[0] = a /\ \A k \in 1..m : f[k] = G[<<k, f[k - 1]>>]
             T == {m \in Nat : m <= n => \E f \in [0..m -> A] : Run(f, m)}
  <1>1. 0 \in T
    <2>1. [k \in 0..0 |-> a] \in [0..0 -> A] /\ Run([k \in 0..0 |-> a], 0)
      OBVIOUS
    <2> QED BY <2>1
  <1>2. ASSUME NEW m \in T PROVE m + 1 \in T
    <2> SUFFICES ASSUME m + 1 <= n PROVE \E f \in [0..(m + 1) -> A] : Run(f, m + 1)
      OBVIOUS
    <2>1. PICK f \in [0..m -> A] : Run(f, m)
      OBVIOUS
    <2> DEFINE v == G[<<m + 1, f[m]>>]
               g == [k \in 0..(m + 1) |-> IF k = m + 1 THEN v ELSE f[k]]
    <2>2. m \in Nat /\ f[m] \in A /\ v \in A
      <3>1. m \in Nat /\ f[m] \in A /\ m + 1 \in 1..n
        OBVIOUS
      <3>2. <<m + 1, f[m]>> \in (1..n) \X A
        BY <3>1
      <3> QED BY <3>1, <3>2
    <2> HIDE DEF v
    <2>3. g \in [0..(m + 1) -> A] /\ g[m + 1] = v /\ \A k \in 0..m : g[k] = f[k]
      BY <2>2
    <2> HIDE DEF g
    <2>4. g[0] = a
      BY <2>1, <2>2, <2>3
    <2>5. ASSUME NEW k \in 1..(m + 1) PROVE g[k] = G[<<k, g[k - 1]>>]
      <3>1. k - 1 \in 0..m /\ g[k - 1] = f[k - 1]
        BY <2>2, <2>3
      <3>2. CASE k = m + 1
        <4>1. k - 1 = m
          BY <2>2, <3>2
        <4> QED BY <2>2, <2>3, <3>1, <3>2, <4>1 DEF v
      <3>3. CASE k # m + 1
        <4>1. k \in 1..m
          BY <2>2, <3>3
        <4> QED BY <2>1, <2>3, <3>1, <4>1
      <3> QED BY <3>2, <3>3
    <2>6. Run(g, m + 1)
      BY <2>4, <2>5
    <2> QED BY <2>2, <2>3, <2>6
  <1> HIDE DEF T
  <1>3. T \in SUBSET Nat
    BY DEF T
  <1>4. n \in T
    BY <1>1, <1>2, <1>3, Climb
  <1> QED BY <1>4 DEF T, StepsBy

-----------------------------------------------------------------------------
(***************************************************************************)
(* Table workers                                                           *)
(***************************************************************************)
DrivingAt == {"off", "queued", "pump", "status", "report", "done"}

DriverTyped ==
  /\ inCache \in [DPdf -> Extracted] /\ silent \in [DPdf -> 0..MaxSilent]
  /\ exitCode \in [DPdf -> Code] /\ manifest \in [DPdf -> Manifest]
  /\ driving \in [DPdf -> DrivingAt] /\ wasCached \in [DPdf -> BOOLEAN]
  /\ process \in [DPdf -> {"none", "works", "saved", "exits", "gone"}] /\ eof \in [DPdf -> BOOLEAN]
  /\ billed \cup wrote \cup reused \subseteq DPdf

Live == {p \in DPdf : process[p] \in {"works", "saved"}}

\* A worker lives only as long as its parent reads from it.
PumpHasWorker ==
  /\ \A p \in DPdf : process[p] \in {"works", "saved", "exits"} => driving[p] = "pump" /\ ~wasCached[p] /\ ~eof[p]
  /\ \A p \in DPdf : driving[p] = "queued" => ~eof[p]
  /\ Cardinality(InHand) <= Workers

\* Where each entry of this run came from is settled before it is reported.
EntryFrom(p) ==
  /\ p \in wrote => inCache[p] # "none" /\ ~wasCached[p] /\ driving[p] \in {"pump", "status", "report", "done"}
  /\ p \in reused => inCache[p] = "whole" /\ wasCached[p] /\ driving[p] \in {"report", "done"}
  /\ p \in billed => driving[p] = "done" /\ ~wasCached[p]
  /\ driving[p] = "done" => /\ p \in wrote => manifest[p] = "entry" /\ p \in billed
                            /\ p \in reused => manifest[p] = "cache" /\ p \notin billed

DriverInv == DriverTyped /\ PumpHasWorker /\ \A p \in DPdf : EntryFrom(p)

LEMMA InHandFinite ==
  /\ InHand \in SUBSET DPdf /\ IsFiniteSet(InHand) /\ Cardinality(InHand) \in Nat
  /\ Workers \in Nat
  <1>1. InHand \in SUBSET DPdf /\ IsFiniteSet(DPdf)
    BY DriverAssumption DEF InHand
  <1> QED BY <1>1, FS_Subset, FS_CardinalityType, DriverAssumption

LEMMA InHandShrinks ==
  ASSUME PumpHasWorker, InHand' \subseteq InHand
  PROVE  Cardinality(InHand)' <= Workers
  <1>1. Cardinality(InHand') <= Cardinality(InHand) /\ Cardinality(InHand') \in Nat
    BY InHandFinite, FS_Subset, FS_CardinalityType
  <1> QED BY <1>1, InHandFinite DEF PumpHasWorker

LEMMA InitDriver == DriverInit => DriverInv
  <1> SUFFICES ASSUME DriverInit PROVE DriverInv
    OBVIOUS
  <1>1. InHand = {}
    BY DEF DriverInit, InHand
  <1>2. Cardinality(InHand) <= Workers
    BY <1>1, FS_EmptySet, InHandFinite
  <1> QED BY <1>2, DriverAssumption DEF DriverInit, DriverInv, DriverTyped, DrivingAt, Code, Manifest, PumpHasWorker, EntryFrom

LEMMA NextDriver ==
  ASSUME DriverInv, [DriverNext]_driverVars
  PROVE  DriverInv'
  <1> USE DEF DriverInv, DriverTyped, DrivingAt, Code, Manifest, Extracted
  <1>1. CASE BeginDrive
    <2>1. InHand' = {}
      BY <1>1 DEF BeginDrive, InHand
    <2>2. Cardinality(InHand') <= Workers
      BY <2>1, FS_EmptySet, InHandFinite
    <2> QED BY <1>1, <2>2, DriverAssumption DEF BeginDrive, PumpHasWorker, EntryFrom
  <1>2. ASSUME NEW p \in DPdf, NEW b \in BOOLEAN, TakePdf(p, b) PROVE DriverInv'
    <2>1. DriverTyped'
      BY <1>2 DEF TakePdf
    <2>2. Cardinality(InHand') <= Workers
      <3>1. InHand' \subseteq InHand \cup {p}
        BY <1>2 DEF TakePdf, InHand
      <3>2. p \notin InHand /\ Cardinality(InHand) < Workers
        BY <1>2 DEF TakePdf, InHand
      <3>3. IsFiniteSet(InHand \cup {p}) /\ Cardinality(InHand \cup {p}) = Cardinality(InHand) + 1
        BY <3>2, InHandFinite, FS_AddElement
      <3>4. Cardinality(InHand') <= Cardinality(InHand) + 1 /\ Cardinality(InHand') \in Nat
        BY <3>1, <3>3, FS_Subset, FS_CardinalityType
      <3> QED BY <3>2, <3>4, InHandFinite
    <2>3. PumpHasWorker'
      BY <1>2, <2>2 DEF TakePdf, PumpHasWorker, EntryFrom
    <2>4. \A q \in DPdf : EntryFrom(q)'
      BY <1>2 DEF TakePdf, EntryFrom
    <2> QED BY <2>1, <2>3, <2>4
  <1>3. ASSUME NEW p \in DPdf, NEW b \in BOOLEAN, WorkerEnds(p, b) PROVE DriverInv'
    <2>1. InHand' = InHand
      BY <1>3 DEF WorkerEnds, InHand
    <2> QED BY <1>3, <2>1 DEF WorkerEnds, PumpHasWorker, EntryFrom
  <1>4. ASSUME NEW p \in DPdf, NEW b \in BOOLEAN, Status(p, b) PROVE DriverInv'
    <2>1. InHand' = InHand
      BY <1>4 DEF Status, InHand
    <2> QED BY <1>4, <2>1 DEF Status, PumpHasWorker, EntryFrom
  <1>5. ASSUME NEW p \in DPdf, NEW what \in {"partial", "whole"}, Saves(p, what) PROVE DriverInv'
    <2>1. InHand' = InHand
      BY <1>5 DEF Saves, InHand
    <2>2. DriverTyped' /\ PumpHasWorker'
      BY <1>5, <2>1 DEF Saves, PumpHasWorker
    <2>3. \A q \in DPdf : EntryFrom(q)'
      BY <1>5 DEF Saves, EntryFrom, PumpHasWorker
    <2> QED BY <2>2, <2>3
  <1>6. ASSUME NEW p \in DPdf, Prints(p) PROVE DriverInv'
    <2>1. InHand' = InHand /\ 0 \in 0..MaxSilent
      BY <1>6, DriverAssumption DEF Prints, InHand
    <2> QED BY <1>6, <2>1 DEF Prints, PumpHasWorker, EntryFrom
  <1>7. ASSUME NEW p \in DPdf, OtherExtracts(p) PROVE DriverInv'
    <2>1. InHand' = InHand
      BY <1>7 DEF OtherExtracts, InHand
    <2> QED BY <1>7, <2>1 DEF OtherExtracts, PumpHasWorker, EntryFrom
  <1>8. ASSUME NEW p \in DPdf, Poll(p) PROVE DriverInv'
    <2>1. silent' \in [DPdf -> 0..MaxSilent]
      <3>1. silent[p] \in 0..MaxSilent /\ MaxSilent \in Nat
        BY DriverAssumption
      <3>2. CASE silent'[p] = silent[p] + 1 /\ silent[p] + 1 < MaxSilent /\ silent' = [silent EXCEPT ![p] = @ + 1]
        BY <3>1, <3>2
      <3>3. CASE silent' = [silent EXCEPT ![p] = MaxSilent] \/ silent' = silent
        BY <3>1, <3>3
      <3> QED BY <1>8, <3>1, <3>2, <3>3 DEF Poll
    <2>2. DriverTyped'
      BY <1>8, <2>1 DEF Poll
    <2>3. InHand' = InHand
      BY <1>8 DEF Poll, InHand
    <2>4. PumpHasWorker'
      BY <1>8, <2>3 DEF Poll, PumpHasWorker
    <2>5. \A q \in DPdf : EntryFrom(q)'
      BY <1>8 DEF Poll, EntryFrom
    <2> QED BY <2>2, <2>4, <2>5
  <1>9. ASSUME NEW p \in DPdf, ReadsEnd(p) PROVE DriverInv'
    <2>1. InHand' = InHand
      BY <1>9 DEF ReadsEnd, InHand
    <2> QED BY <1>9, <2>1 DEF ReadsEnd, PumpHasWorker, EntryFrom
  <1>10. ASSUME NEW p \in DPdf, Report(p) PROVE DriverInv'
    <2>1. InHand' \subseteq InHand
      BY <1>10 DEF Report, InHand
    <2>2. Cardinality(InHand)' <= Workers
      BY <2>1, InHandShrinks
    <2>3. DriverTyped' /\ PumpHasWorker'
      BY <1>10, <2>2 DEF Report, PumpHasWorker
    <2>4. \A q \in DPdf : EntryFrom(q)'
      BY <1>10 DEF Report, EntryFrom
    <2> QED BY <2>3, <2>4
  <1>11. CASE UNCHANGED driverVars
    BY <1>11 DEF driverVars, PumpHasWorker, EntryFrom, InHand
  <1> QED BY <1>1, <1>2, <1>3, <1>4, <1>5, <1>6, <1>7, <1>8, <1>9, <1>10, <1>11 DEF DriverNext

LEMMA DriverShows ==
  ASSUME DriverInv
  PROVE  WorkerResults /\ DriverTypeOK
  <1>1. Live \subseteq InHand
    BY DEF DriverInv, PumpHasWorker, Live, InHand
  <1>2. Cardinality(Live) <= Workers
    <2>1. Cardinality(Live) <= Cardinality(InHand) /\ Cardinality(Live) \in Nat
      BY <1>1, InHandFinite, FS_Subset, FS_CardinalityType
    <2> QED BY <2>1, InHandFinite DEF DriverInv, PumpHasWorker
  <1> QED BY <1>2 DEF DriverInv, DriverTyped, PumpHasWorker, EntryFrom, WorkerResults, DriverTypeOK, Live

LEMMA DriverAlways == Spec => []DriverInv
  <1>1. Init => DriverInv
    BY InitDriver DEF Init
  <1>2. DriverInv /\ [Next]_buildVars => DriverInv'
    <2>1. [Next]_buildVars => [DriverNext]_driverVars
      BY DEF Next, buildVars
    <2> QED BY <2>1, NextDriver
  <1> QED BY <1>1, <1>2, PTL DEF Spec

\* A run returns and pays for exactly what its own workers put in the cache, and
\* has no more of them alive than it has slots, for any folder, number of slots and
\* patience, however workers end and whoever else extracts the same files.
THEOREM WorkersHold == Spec => []WorkerResults
  BY DriverAlways, DriverShows, PTL

-----------------------------------------------------------------------------
(***************************************************************************)
(* Version folders                                                         *)
(***************************************************************************)
CmdAt ==
  {"idle", "name", "mkdir", "load", "edit", "compact", "json", "streaming json", "owl", "streaming owl",
   "manifest", "report", "select", "tables", "stages", "classify", "propose", "dedup", "apply"}
CmdEnd == {"none", "done", "failed", "stopped", "crashed", "preview"}
CmdRecord ==
  [op : Op, at : CmdAt, end : CmdEnd, src : Dir \cup {0}, dst : Dir \cup {0}, to : Dir \cup {0},
   mem : SUBSET Edit, gain : SUBSET Grown, dry : BOOLEAN, suggest : BOOLEAN, over : BOOLEAN]
JsonCopy == (SUBSET Edit) \cup {Torn, Absent}
OwlCopy  == (SUBSET (Edit \ {"compact"})) \cup {Torn, Absent}
FolderRecord == [json : JsonCopy, owl : OwlCopy, manifest : BOOLEAN, cost : BOOLEAN]

Streaming == {"streaming json", "streaming owl"}
Filing    == {"json", "owl"} \cup Streaming
Closing   == Filing \cup {"manifest", "report"}
\* Where a command has what folders it needs.
Settled == CmdAt \ {"idle", "name", "mkdir"}

FoldersTyped ==
  /\ made \in SUBSET Dir /\ folder \in [Dir -> FolderRecord] /\ cmd \in [Cmd -> CmdRecord]
  /\ begun \in 0..MaxCommands /\ cuts \in [Dir -> Nat]

\* Which folders a command has at which place of its way; r is its record.
Placed(r) ==
  /\ r.at # "idle" => r.end = "none"
  /\ r.at # "idle" /\ r.op \in InPlace => r.dst = 0 /\ r.src # 0 /\ r.at \in {"load", "edit"} \cup Filing
  /\ r.at = "edit" => r.op \in InPlace
  /\ r.at \notin {"idle", "name"} /\ r.op \notin InPlace => r.dst # 0
  /\ r.at # "idle" /\ r.src = 0 => r.op \in {"merge", "build"} /\ r.at \in {"name", "mkdir", "manifest"} \cup Filing
  /\ r.at # "idle" /\ r.op = "merge" => r.src = 0
  /\ r.at \in Filing => r.to # 0 /\ r.to \in {r.src, r.dst}
  /\ r.at \in {"manifest", "report"} => r.to = r.dst /\ r.to # 0
  /\ r.src # 0 => r.src # r.dst
  /\ r.at = "idle" /\ r.end \notin {"done", "failed"} => r.src = 0 /\ r.dst = 0
  /\ r.end = "failed" => r.dst # 0
  /\ r.end = "done" /\ r.op \in Runs => r.src # 0

\* The folders a command is at work on.
Own(r) ==
  {d \in Dir : r.at # "idle" /\ (d = r.src \/ (d = r.dst /\ r.at # "mkdir"))}

\* No two commands are at work on one folder, and none makes the one another reads or has read.
Apart(r, s) == Own(r) \cap Own(s) = {} /\ (s.at \in Settled /\ s.dst # 0 => s.dst # r.src)
Stands(r) == Placed(r) /\ r.src \in made \cup {0} /\ (r.at # "mkdir" => r.dst \in made \cup {0})
OwnsApart ==
  /\ \A c \in Cmd : Stands(cmd[c])
  /\ \A c, e \in Cmd : c # e => Apart(cmd[c], cmd[e])

\* What the place of a command says of the files it is at.
Tears(r, f) ==
  /\ r.at = "streaming json" => f[r.to].json = Torn
  /\ r.at = "streaming owl" => f[r.to].owl = Torn
  /\ r.at \in {"owl", "streaming owl"} => f[r.to].json = r.mem
OwlBelow(r, f) ==
  /\ r.at \in {"json", "streaming json"} => (Whole(f[r.to].owl) => f[r.to].owl \subseteq r.mem)
  /\ r.at \in {"edit", "compact"} => (Whole(f[r.src].owl) => f[r.src].owl \subseteq r.mem)
DstFresh(r, f) ==
  r.at \in Settled /\ r.dst # 0 /\ ~(r.at \in Closing /\ r.to = r.dst) => f[r.dst].owl = Absent
Suggests(r) ==
  r.op \in Growing /\ r.suggest /\ (r.end = "done" \/ (r.src # 0 /\ r.at \in Closing /\ r.to = r.dst)) => "suggested" \in r.mem
Billing(r, f) == r.end = "failed" => f[r.dst].cost
Local(r, f) == Tears(r, f) /\ OwlBelow(r, f) /\ DstFresh(r, f) /\ Suggests(r) /\ Billing(r, f)

\* A prune has nothing its source has not, nor what whoever rewrites that source will leave there.
WritesSrc(r) == r.at \in {"edit", "compact"} \/ (r.at \in Filing /\ r.to = r.src)
Prunes(r)    == r.op = "prune" /\ (r.end = "done" \/ r.at \in Settled \ {"load"})
AddsNothing(r) ==
  Prunes(r) =>
    /\ Whole(folder[r.src].json) => r.mem \cap Grown \subseteq folder[r.src].json
    /\ \A e \in Cmd : WritesSrc(cmd[e]) /\ cmd[e].src = r.src => r.mem \cap Grown \subseteq cmd[e].mem

UnmadeAbsent == \A d \in Dir \ made : folder[d].owl = Absent
OwlBelowJson == \A d \in Dir : Whole(folder[d].json) /\ Whole(folder[d].owl) => folder[d].owl \subseteq folder[d].json

StreamsTo(d) == {c \in Cmd : Streams(c) /\ cmd[c].to = d}
AtWork == {c \in Cmd : Working(c)}
TornCounted == \A d \in Dir : Cardinality(TornCopies(d)) <= cuts[d] + Cardinality(StreamsTo(d))
CutsCounted == \A d \in Dir : cuts[d] + Cardinality(AtWork) <= begun

FoldersHold ==
  /\ FoldersTyped /\ OwnsApart /\ \A c \in Cmd : Local(cmd[c], folder) /\ AddsNothing(cmd[c])
  /\ UnmadeAbsent /\ OwlBelowJson /\ TornCounted /\ CutsCounted

-----------------------------------------------------------------------------
(* Each part of the invariant, for a step of one command. *)
Becoming(c, r) == c \in Cmd /\ r \in CmdRecord /\ Go(c, r)

LEMMA OnlyCmd ==
  ASSUME FoldersTyped, NEW c, NEW r, Becoming(c, r)
  PROVE  /\ cmd' \in [Cmd -> CmdRecord] /\ cmd'[c] = r /\ c \in Cmd /\ r \in CmdRecord /\ cmd[c] \in CmdRecord
         /\ \A e \in Cmd \ {c} : cmd'[e] = cmd[e]
  BY DEF Becoming, FoldersTyped, Go

LEMMA OwnStep ==
  ASSUME FoldersTyped, OwnsApart, NEW c, NEW r, Becoming(c, r), Stands(r)', made \subseteq made',
         \A e \in Cmd \ {c} : Apart(r, cmd[e]) /\ Apart(cmd[e], r)
  PROVE  OwnsApart'
  <1>1. cmd'[c] = r /\ \A e \in Cmd \ {c} : cmd'[e] = cmd[e]
    BY OnlyCmd
  <1>2. \A e \in Cmd \ {c} : Stands(cmd[e])'
    BY <1>1 DEF OwnsApart, Stands
  <1>3. \A e \in Cmd : Stands(cmd[e])'
    BY <1>1, <1>2 DEF Stands
  <1>4. \A e, g \in Cmd : e # g => Apart(cmd[e], cmd[g])'
    <2> SUFFICES ASSUME NEW e \in Cmd, NEW g \in Cmd, e # g PROVE Apart(cmd'[e], cmd'[g])
      BY DEF Apart, Own
    <2>1. CASE e = c
      BY <1>1, <2>1
    <2>2. CASE g = c
      BY <1>1, <2>2
    <2>3. CASE e # c /\ g # c
      BY <1>1, <2>3 DEF OwnsApart
    <2> QED BY <2>1, <2>2, <2>3
  <1> QED BY <1>3, <1>4 DEF OwnsApart

\* A command that goes on takes no folder it had not, but what it has made becomes what it reads.
LEMMA ApartStays ==
  ASSUME OwnsApart, FoldersTyped, NEW c \in Cmd, NEW r \in CmdRecord, NEW e \in Cmd, e # c,
         Own(r) \subseteq Own(cmd[c]),
         r.src \in {cmd[c].src, 0} \/ (r.src = cmd[c].dst /\ cmd[c].at \in Settled),
         r.at \in Settled /\ r.dst # 0 => cmd[c].at \in Settled /\ r.dst = cmd[c].dst
  PROVE  Apart(r, cmd[e]) /\ Apart(cmd[e], r)
  <1>1. cmd[c] \in CmdRecord /\ cmd[e] \in CmdRecord
    BY DEF FoldersTyped
  <1>2. Apart(cmd[c], cmd[e]) /\ Apart(cmd[e], cmd[c])
    BY DEF OwnsApart
  <1>3. Own(r) \cap Own(cmd[e]) = {}
    BY <1>2 DEF Apart
  <1>4. cmd[e].at \in Settled /\ cmd[e].dst # 0 => cmd[e].dst # r.src
    <2> SUFFICES ASSUME cmd[e].at \in Settled, cmd[e].dst # 0 PROVE cmd[e].dst # r.src
      OBVIOUS
    <2>1. CASE r.src = cmd[c].src
      BY <1>2, <2>1 DEF Apart
    <2>2. CASE r.src = cmd[c].dst /\ cmd[c].at \in Settled /\ r.src # 0
      <3>1. cmd[e].dst \in Dir /\ cmd[c].dst \in Dir
        BY <1>1, <2>2 DEF CmdRecord
      <3>2. cmd[e].dst \in Own(cmd[e]) /\ cmd[c].dst \in Own(cmd[c])
        BY <2>2, <3>1 DEF Own, Settled
      <3> QED BY <1>2, <2>2, <3>2 DEF Apart
    <2> QED BY <2>1, <2>2
  <1>5. r.at \in Settled /\ r.dst # 0 => r.dst # cmd[e].src
    BY <1>2 DEF Apart
  <1> QED BY <1>3, <1>4, <1>5 DEF Apart

\* The files of a command stay as they are while another one writes.
SameCopies(d) == folder'[d].json = folder[d].json /\ folder'[d].owl = folder[d].owl
Writes(D) ==
  /\ folder' \in [Dir -> FolderRecord]
  /\ \A d \in Dir \ D : SameCopies(d)
  /\ \A d \in Dir : folder[d].cost => folder'[d].cost

LEMMA OwnFolders ==
  ASSUME FoldersTyped, OwnsApart, NEW c \in Cmd
  PROVE  /\ cmd[c].at \in Settled => /\ cmd[c].src # 0 => cmd[c].src \in Own(cmd[c])
                                     /\ cmd[c].dst # 0 => cmd[c].dst \in Own(cmd[c])
         /\ cmd[c].at \in Filing => cmd[c].to \in Own(cmd[c])
         /\ cmd[c].at \in {"edit", "compact"} => cmd[c].src # 0
         /\ Own(cmd[c]) \subseteq made
  <1>1. cmd[c] \in CmdRecord /\ Stands(cmd[c])
    BY DEF FoldersTyped, OwnsApart
  <1>2. cmd[c].at \in Settled => /\ cmd[c].src # 0 => cmd[c].src \in Own(cmd[c])
                                 /\ cmd[c].dst # 0 => cmd[c].dst \in Own(cmd[c])
    BY <1>1 DEF CmdRecord, Own, Settled
  <1>3. cmd[c].at \in Filing => cmd[c].to \in Own(cmd[c])
    BY <1>1, <1>2 DEF Stands, Placed, Filing, Streaming, Settled, CmdAt
  <1>4. cmd[c].at \in {"edit", "compact"} => cmd[c].src # 0
    BY <1>1 DEF Stands, Placed, Filing, Streaming
  <1>5. 0 \notin Dir
    BY FolderAssumption DEF Dir
  <1>6. Own(cmd[c]) \subseteq made
    BY <1>1, <1>5 DEF Stands, Own
  <1> QED BY <1>2, <1>3, <1>4, <1>6

LEMMA LocalStays ==
  ASSUME FoldersTyped, OwnsApart, NEW e \in Cmd, Local(cmd[e], folder), NEW D, Writes(D), D \cap Own(cmd[e]) = {}
  PROVE  Local(cmd[e], folder')
  <1> DEFINE r == cmd[e]
  <1>1. r \in CmdRecord /\ Stands(r)
    BY DEF FoldersTyped, OwnsApart
  <1>2. \A d \in Own(r) : SameCopies(d)
    BY DEF Writes, Own
  <1>3. Tears(r, folder')
    <2>1. r.at \in {"streaming json", "streaming owl", "owl"} => SameCopies(r.to)
      BY <1>2, OwnFolders DEF Filing, Streaming
    <2> QED BY <2>1 DEF Tears, Local, SameCopies
  <1>4. OwlBelow(r, folder')
    <2>1. r.at \in {"json", "streaming json"} => SameCopies(r.to)
      BY <1>2, OwnFolders DEF Filing, Streaming
    <2>2. r.at \in {"edit", "compact"} => SameCopies(r.src)
      BY <1>2, OwnFolders DEF Settled, CmdAt
    <2> QED BY <2>1, <2>2 DEF OwlBelow, Local, SameCopies
  <1>5. DstFresh(r, folder')
    <2>1. r.at \in Settled /\ r.dst # 0 => SameCopies(r.dst)
      BY <1>2, OwnFolders
    <2> QED BY <2>1 DEF DstFresh, Local, SameCopies
  <1>6. Billing(r, folder')
    <2>1. r.end = "failed" => r.dst \in Dir
      BY <1>1 DEF Stands, Placed, CmdRecord
    <2> QED BY <2>1 DEF Billing, Local, Writes
  <1> QED BY <1>3, <1>4, <1>5, <1>6 DEF Local

\* A step that writes in folders of its own leaves the others what they know.
LEMMA LocalStep ==
  ASSUME FoldersTyped, OwnsApart, \A e \in Cmd : Local(cmd[e], folder), NEW c, NEW r, Becoming(c, r),
         NEW D, Writes(D), D \subseteq Own(cmd[c]), Local(r, folder')
  PROVE  \A e \in Cmd : Local(cmd[e], folder)'
  <1> SUFFICES ASSUME NEW e \in Cmd PROVE Local(cmd'[e], folder')
    BY DEF Local, Tears, OwlBelow, DstFresh, Suggests, Billing, Whole
  <1>1. CASE e = c
    BY <1>1, OnlyCmd
  <1>2. CASE e # c
    <2>1. Own(cmd[c]) \cap Own(cmd[e]) = {} /\ cmd'[e] = cmd[e]
      BY <1>2, OnlyCmd DEF OwnsApart, Apart
    <2>2. D \cap Own(cmd[e]) = {}
      BY <2>1
    <2> QED BY <2>1, <2>2, LocalStays
  <1> QED BY <1>1, <1>2

\* What becomes of the copies of one file in a step of c: they stay, are torn, are
\* those of the command that rewrites its source, or are in what the command made.
Rewrites(c, d) ==
  \/ folder'[d].json = folder[d].json
  \/ ~Whole(folder'[d].json)
  \/ folder'[d].json = cmd[c].mem /\ WritesSrc(cmd[c]) /\ d = cmd[c].src
  \/ d = cmd[c].dst /\ cmd[c].at \in Settled

\* What a command that is to rewrite its source leaves there.
KeepsSource(r, s) ==
  WritesSrc(s) =>
    /\ s.src = r.src /\ r.at \in Settled
    /\ \/ WritesSrc(r) /\ r.mem \cap Grown \subseteq s.mem
       \/ Whole(folder[r.src].json) /\ s.mem = folder[r.src].json

\* What a prune has, it had before or loads.
GainsNothing(r, s) ==
  Prunes(s) =>
    /\ s.src = r.src
    /\ \/ Prunes(r) /\ s.mem \cap Grown \subseteq r.mem
       \/ r.at = "load" /\ folder'[r.src].json = s.mem /\ folder[r.src].json = s.mem /\ s.src # 0

LEMMA AddsNothingStep ==
  ASSUME FoldersTyped, OwnsApart, \A e \in Cmd : AddsNothing(cmd[e]), NEW c, NEW r, Becoming(c, r),
         \A d \in Dir : Rewrites(c, d), KeepsSource(cmd[c], r), GainsNothing(cmd[c], r)
  PROVE  \A e \in Cmd : AddsNothing(cmd[e])'
  <1>1. cmd'[c] = r /\ c \in Cmd /\ \A e \in Cmd \ {c} : cmd'[e] = cmd[e]
    BY OnlyCmd
  <1>2. \A e \in Cmd : cmd[e] \in CmdRecord /\ Stands(cmd[e])
    BY DEF FoldersTyped, OwnsApart
  <1>3. \A e \in Cmd : Prunes(cmd[e]) => cmd[e].src \in Dir
    <2> SUFFICES ASSUME NEW e \in Cmd, Prunes(cmd[e]) PROVE cmd[e].src \in Dir
      OBVIOUS
    <2>1. cmd[e].op = "prune" /\ cmd[e].src \in Dir \cup {0}
      BY <1>2 DEF Prunes, CmdRecord
    <2>2. cmd[e].src # 0
      BY <1>2, <2>1 DEF Prunes, Stands, Placed, Runs, Pruning, Settled, InPlace
    <2> QED BY <2>1, <2>2
  \* The source of a prune, as its file and its writers leave it.
  <1>4. ASSUME NEW e \in Cmd, Prunes(cmd[e])
        PROVE  /\ Whole(folder'[cmd[e].src].json) => cmd[e].mem \cap Grown \subseteq folder'[cmd[e].src].json
               /\ WritesSrc(r) /\ r.src = cmd[e].src => cmd[e].mem \cap Grown \subseteq r.mem
    <2> DEFINE d == cmd[e].src
               G == cmd[e].mem \cap Grown
    <2>1. /\ Whole(folder[d].json) => G \subseteq folder[d].json
          /\ \A g \in Cmd : WritesSrc(cmd[g]) /\ cmd[g].src = d => G \subseteq cmd[g].mem
      BY <1>4 DEF AddsNothing
    <2>2. d \in Dir
      BY <1>3, <1>4
    <2>3. ~(d = cmd[c].dst /\ cmd[c].at \in Settled)
      <3>1. CASE e = c
        BY <1>2, <2>2, <3>1, FolderAssumption DEF Stands, Placed, Dir
      <3>2. CASE e # c
        BY <1>1, <2>2, <3>2, FolderAssumption DEF OwnsApart, Apart, Dir
      <3> QED BY <3>1, <3>2
    <2>4. Whole(folder'[d].json) => G \subseteq folder'[d].json
      BY <1>1, <2>1, <2>2, <2>3 DEF Rewrites
    <2>5. WritesSrc(r) /\ r.src = d => G \subseteq r.mem
      BY <1>1, <2>1 DEF KeepsSource
    <2> QED BY <2>4, <2>5
  <1>5. ASSUME NEW e \in Cmd, e # c PROVE AddsNothing(cmd[e])'
    <2> SUFFICES ASSUME Prunes(cmd[e])
                 PROVE  /\ Whole(folder'[cmd[e].src].json) => cmd[e].mem \cap Grown \subseteq folder'[cmd[e].src].json
                        /\ \A g \in Cmd : WritesSrc(cmd'[g]) /\ cmd'[g].src = cmd[e].src
                                          => cmd[e].mem \cap Grown \subseteq cmd'[g].mem
      BY <1>1, <1>5 DEF AddsNothing, Prunes, WritesSrc, Whole
    <2>1. \A g \in Cmd \ {c} : WritesSrc(cmd[g]) /\ cmd[g].src = cmd[e].src => cmd[e].mem \cap Grown \subseteq cmd[g].mem
      BY <1>5 DEF AddsNothing
    <2> QED BY <1>1, <1>4, <2>1
  <1>6. AddsNothing(cmd[c])'
    <2> SUFFICES ASSUME Prunes(r)
                 PROVE  /\ Whole(folder'[r.src].json) => r.mem \cap Grown \subseteq folder'[r.src].json
                        /\ \A g \in Cmd : WritesSrc(cmd'[g]) /\ cmd'[g].src = r.src
                                          => r.mem \cap Grown \subseteq cmd'[g].mem
      BY <1>1 DEF AddsNothing, Prunes, WritesSrc, Whole
    <2>1. CASE Prunes(cmd[c]) /\ r.src = cmd[c].src /\ r.mem \cap Grown \subseteq cmd[c].mem
      <3>1. /\ Whole(folder'[r.src].json) => r.mem \cap Grown \subseteq folder'[r.src].json
            /\ \A g \in Cmd \ {c} : WritesSrc(cmd[g]) /\ cmd[g].src = r.src => r.mem \cap Grown \subseteq cmd[g].mem
        BY <1>1, <1>4, <2>1 DEF AddsNothing
      <3> QED BY <1>1, <3>1
    <2>2. CASE cmd[c].at = "load" /\ folder'[cmd[c].src].json = r.mem /\ r.src = cmd[c].src /\ r.src # 0
      <3>1. ASSUME NEW g \in Cmd, g # c, WritesSrc(cmd[g]), cmd[g].src = r.src PROVE FALSE
        <4>1. cmd[g].at \in Settled /\ cmd[c].at \in Settled
          BY <2>2, <3>1 DEF WritesSrc, Filing, Streaming, Settled, CmdAt
        <4>2. r.src \in Own(cmd[g]) /\ r.src \in Own(cmd[c])
          BY <1>1, <2>2, <3>1, <4>1, OwnFolders
        <4> QED BY <1>1, <3>1, <4>2 DEF OwnsApart, Apart
      <3> QED BY <1>1, <2>2, <3>1
    <2> QED BY <2>1, <2>2 DEF GainsNothing
  <1> QED BY <1>5, <1>6

-----------------------------------------------------------------------------
(* Interruptions, counted against torn copies and against commands. *)
LEMMA CmdFinite ==
  \A S \in SUBSET Cmd : IsFiniteSet(S) /\ Cardinality(S) \in Nat
  BY FolderAssumption, FS_Subset, FS_CardinalityType

LEMMA AddedOne ==
  ASSUME NEW S \in SUBSET Cmd, NEW c \in Cmd
  PROVE  /\ c \notin S => Cardinality(S \cup {c}) = Cardinality(S) + 1
         /\ c \in S => Cardinality(S \ {c}) = Cardinality(S) - 1
  BY CmdFinite, FS_AddElement, FS_RemoveElement

LEMMA FiniteTurns ==
  ASSUME NEW S, IsFiniteSet(S), NEW x
  PROVE  /\ IsFiniteSet(S \cup {x}) /\ Cardinality(S \cup {x}) \in Nat /\ Cardinality(S \cup {x}) <= Cardinality(S) + 1
         /\ x \in S => Cardinality(S \ {x}) = Cardinality(S) - 1
  <1>1. CASE x \in S
    <2>1. S \cup {x} = S
      BY <1>1
    <2>2. Cardinality(S) \in Nat
      BY FS_CardinalityType
    <2>3. Cardinality(S \ {x}) = Cardinality(S) - 1
      BY <1>1, FS_RemoveElement
    <2> QED BY <2>1, <2>2, <2>3
  <1>2. CASE x \notin S
    <2>1. Cardinality(S) \in Nat
      BY FS_CardinalityType
    <2>2. IsFiniteSet(S \cup {x}) /\ Cardinality(S \cup {x}) = Cardinality(S) + 1
      BY <1>2, FS_AddElement
    <2> QED BY <1>2, <2>1, <2>2
  <1> QED BY <1>1, <1>2

LEMMA CopiesFinite ==
  \A d \in Dir : /\ IsFiniteSet(TornCopies(d)) /\ Cardinality(TornCopies(d)) \in Nat
  <1>1. IsFiniteSet({"json", "owl"})
    <2>1. IsFiniteSet({"json"}) /\ {"json", "owl"} = {"json"} \cup {"owl"}
      BY FS_Singleton
    <2> QED BY <2>1, FS_AddElement
  <1> QED BY <1>1, FS_Subset, FS_CardinalityType DEF TornCopies

\* A step of c that begins no stream and ends none.
LEMMA StillStreams ==
  ASSUME FoldersTyped, TornCounted, NEW c, NEW r, Becoming(c, r), Streams(c) <=> r.at \in Streaming,
         r.to = cmd[c].to \/ ~Streams(c), \A d \in Dir : SameCopies(d), UNCHANGED cuts
  PROVE  TornCounted'
  <1>1. cmd'[c] = r /\ c \in Cmd /\ \A e \in Cmd \ {c} : cmd'[e] = cmd[e]
    BY OnlyCmd
  <1>2. \A d \in Dir : StreamsTo(d)' = StreamsTo(d)
    BY <1>1 DEF StreamsTo, Streams, Streaming
  <1>3. \A d \in Dir : TornCopies(d)' = TornCopies(d)
    BY DEF TornCopies, SameCopies
  <1> QED BY <1>2, <1>3 DEF TornCounted

\* c opens or closes the file f of folder d; the others stay.
LEMMA StreamTurns ==
  ASSUME FoldersTyped, TornCounted, NEW c, NEW r, Becoming(c, r), NEW d \in Dir, NEW f \in {"json", "owl"},
         cmd[c].to = d, r.to = d \/ r.at \notin Streaming, \A e \in Dir \ {d} : SameCopies(e), UNCHANGED cuts,
         \/ ~Streams(c) /\ r.at \in Streaming /\ TornCopies(d)' \subseteq TornCopies(d) \cup {f}
         \/ Streams(c) /\ r.at \notin Streaming /\ f \in TornCopies(d) /\ TornCopies(d)' = TornCopies(d) \ {f}
  PROVE  TornCounted'
  <1>1. cmd'[c] = r /\ c \in Cmd /\ \A e \in Cmd \ {c} : cmd'[e] = cmd[e]
    BY OnlyCmd
  <1>2. ASSUME NEW e \in Dir \ {d} PROVE StreamsTo(e)' = StreamsTo(e) /\ TornCopies(e)' = TornCopies(e)
    <2>1. c \notin StreamsTo(e) /\ c \notin StreamsTo(e)'
      BY <1>1 DEF StreamsTo, Streams, Streaming
    <2>2. \A g \in Cmd \ {c} : g \in StreamsTo(e)' <=> g \in StreamsTo(e)
      BY <1>1 DEF StreamsTo, Streams
    <2>3. StreamsTo(e)' \subseteq Cmd /\ StreamsTo(e) \subseteq Cmd
      BY DEF StreamsTo
    <2>4. TornCopies(e)' = TornCopies(e)
      BY DEF TornCopies, SameCopies
    <2> QED BY <2>1, <2>2, <2>3, <2>4
  <1>3. Cardinality(TornCopies(d)') <= cuts[d] + Cardinality(StreamsTo(d)')
    <2>1. /\ StreamsTo(d) \in SUBSET Cmd /\ StreamsTo(d)' \in SUBSET Cmd /\ cuts[d] \in Nat
          /\ Cardinality(TornCopies(d)) <= cuts[d] + Cardinality(StreamsTo(d))
          /\ Cardinality(StreamsTo(d)) \in Nat /\ Cardinality(TornCopies(d)) \in Nat /\ IsFiniteSet(TornCopies(d))
      BY CmdFinite, CopiesFinite DEF StreamsTo, FoldersTyped, TornCounted
    <2>2. CASE ~Streams(c) /\ r.at \in Streaming /\ TornCopies(d)' \subseteq TornCopies(d) \cup {f}
      <3>1. StreamsTo(d)' = StreamsTo(d) \cup {c} /\ c \notin StreamsTo(d)
        BY <1>1, <2>2 DEF StreamsTo, Streams, Streaming
      <3>2. Cardinality(StreamsTo(d)') = Cardinality(StreamsTo(d)) + 1
        BY <1>1, <2>1, <3>1, AddedOne
      <3>3. /\ IsFiniteSet(TornCopies(d) \cup {f})
            /\ Cardinality(TornCopies(d) \cup {f}) <= Cardinality(TornCopies(d)) + 1
            /\ Cardinality(TornCopies(d) \cup {f}) \in Nat
        BY <2>1, FiniteTurns
      <3>4. Cardinality(TornCopies(d)') <= Cardinality(TornCopies(d) \cup {f}) /\ Cardinality(TornCopies(d)') \in Nat
        BY <2>2, <3>3, FS_Subset, FS_CardinalityType
      <3> QED BY <2>1, <3>2, <3>3, <3>4
    <2>3. CASE Streams(c) /\ r.at \notin Streaming /\ f \in TornCopies(d) /\ TornCopies(d)' = TornCopies(d) \ {f}
      <3>1. StreamsTo(d)' = StreamsTo(d) \ {c} /\ c \in StreamsTo(d)
        BY <1>1, <2>3 DEF StreamsTo, Streams, Streaming
      <3>2. Cardinality(StreamsTo(d)') = Cardinality(StreamsTo(d)) - 1
        BY <1>1, <2>1, <3>1, AddedOne
      <3>3. Cardinality(TornCopies(d)') = Cardinality(TornCopies(d)) - 1
        BY <2>1, <2>3, FiniteTurns
      <3> QED BY <2>1, <3>2, <3>3
    <2> QED BY <2>2, <2>3
  <1>4. ASSUME NEW e \in Dir, e # d PROVE Cardinality(TornCopies(e)') <= cuts[e] + Cardinality(StreamsTo(e)')
    BY <1>2, <1>4 DEF TornCounted
  <1> QED BY <1>3, <1>4 DEF TornCounted

\* A command that is killed while it streams is one cut more and one stream less.
LEMMA StreamDies ==
  ASSUME FoldersTyped, TornCounted, NEW c, NEW r, Becoming(c, r), r.at = "idle", \A d \in Dir : SameCopies(d),
         cmd[c].to \in Dir \/ ~Streams(c),
         cuts' = IF Streams(c) THEN [cuts EXCEPT ![cmd[c].to] = @ + 1] ELSE cuts
  PROVE  TornCounted'
  <1>1. cmd'[c] = r /\ c \in Cmd /\ \A e \in Cmd \ {c} : cmd'[e] = cmd[e]
    BY OnlyCmd
  <1> SUFFICES ASSUME NEW d \in Dir PROVE Cardinality(TornCopies(d)') <= cuts'[d] + Cardinality(StreamsTo(d)')
    BY DEF TornCounted
  <1>2. TornCopies(d)' = TornCopies(d)
    BY DEF TornCopies, SameCopies
  <1>3. /\ StreamsTo(d) \in SUBSET Cmd /\ StreamsTo(d)' \in SUBSET Cmd /\ cuts[d] \in Nat
        /\ Cardinality(TornCopies(d)) <= cuts[d] + Cardinality(StreamsTo(d))
        /\ Cardinality(StreamsTo(d)) \in Nat /\ Cardinality(TornCopies(d)) \in Nat
    BY CmdFinite, CopiesFinite DEF StreamsTo, FoldersTyped, TornCounted
  <1>4. CASE Streams(c) /\ cmd[c].to = d
    <2>1. StreamsTo(d)' = StreamsTo(d) \ {c} /\ c \in StreamsTo(d)
      BY <1>1, <1>4 DEF StreamsTo, Streams
    <2>2. Cardinality(StreamsTo(d)') = Cardinality(StreamsTo(d)) - 1
      BY <1>1, <1>3, <2>1, AddedOne
    <2>3. cuts'[d] = cuts[d] + 1
      BY <1>4 DEF FoldersTyped
    <2> QED BY <1>2, <1>3, <2>2, <2>3
  <1>5. CASE ~(Streams(c) /\ cmd[c].to = d)
    <2>1. StreamsTo(d)' = StreamsTo(d)
      BY <1>1, <1>5 DEF StreamsTo, Streams
    <2>2. cuts'[d] = cuts[d]
      BY <1>5 DEF FoldersTyped
    <2> QED BY <1>2, <1>3, <2>1, <2>2
  <1> QED BY <1>4, <1>5

\* Each command that was begun is at work, was cut once, or has ended.
LEMMA StillAtWork ==
  ASSUME FoldersTyped, CutsCounted, NEW c, NEW r, Becoming(c, r), Working(c) \/ r.at = "idle", UNCHANGED <<cuts, begun>>
  PROVE  CutsCounted'
  <1>1. cmd'[c] = r /\ c \in Cmd /\ \A e \in Cmd \ {c} : cmd'[e] = cmd[e]
    BY OnlyCmd
  <1>2. AtWork \in SUBSET Cmd /\ AtWork' \in SUBSET Cmd /\ AtWork' \subseteq AtWork
    BY <1>1 DEF AtWork, Working
  <1>3. Cardinality(AtWork') <= Cardinality(AtWork) /\ Cardinality(AtWork') \in Nat /\ Cardinality(AtWork) \in Nat
    BY <1>2, CmdFinite, FS_Subset
  <1> SUFFICES ASSUME NEW d \in Dir PROVE cuts[d] + Cardinality(AtWork') <= begun
    BY DEF CutsCounted
  <1>4. cuts[d] \in Nat /\ begun \in Nat /\ cuts[d] + Cardinality(AtWork) <= begun
    BY FolderAssumption DEF FoldersTyped, CutsCounted
  <1> QED BY <1>3, <1>4

LEMMA OneMoreAtWork ==
  ASSUME FoldersTyped, CutsCounted, NEW c, NEW r, Becoming(c, r), ~Working(c), r.at # "idle", begun' = begun + 1, cuts' = cuts
  PROVE  CutsCounted'
  <1>1. cmd'[c] = r /\ c \in Cmd /\ \A e \in Cmd \ {c} : cmd'[e] = cmd[e]
    BY OnlyCmd
  <1>2. AtWork \in SUBSET Cmd /\ AtWork' = AtWork \cup {c} /\ c \notin AtWork
    BY <1>1 DEF AtWork, Working
  <1>3. Cardinality(AtWork') = Cardinality(AtWork) + 1 /\ Cardinality(AtWork) \in Nat
    BY <1>1, <1>2, AddedOne, CmdFinite
  <1> SUFFICES ASSUME NEW d \in Dir PROVE cuts[d] + Cardinality(AtWork') <= begun + 1
    BY DEF CutsCounted
  <1>4. cuts[d] \in Nat /\ begun \in Nat /\ cuts[d] + Cardinality(AtWork) <= begun
    BY FolderAssumption DEF FoldersTyped, CutsCounted
  <1> QED BY <1>3, <1>4

LEMMA OneLessAtWork ==
  ASSUME FoldersTyped, CutsCounted, NEW c, NEW r, Becoming(c, r), Working(c), r.at = "idle", begun' = begun,
         \A d \in Dir : cuts'[d] \in {cuts[d], cuts[d] + 1}
  PROVE  CutsCounted'
  <1>1. cmd'[c] = r /\ c \in Cmd /\ \A e \in Cmd \ {c} : cmd'[e] = cmd[e]
    BY OnlyCmd
  <1>2. AtWork \in SUBSET Cmd /\ AtWork' = AtWork \ {c} /\ c \in AtWork
    BY <1>1 DEF AtWork, Working
  <1>3. Cardinality(AtWork') = Cardinality(AtWork) - 1 /\ Cardinality(AtWork) \in Nat
    BY <1>1, <1>2, AddedOne, CmdFinite
  <1> SUFFICES ASSUME NEW d \in Dir PROVE cuts'[d] + Cardinality(AtWork') <= begun
    BY DEF CutsCounted
  <1>4. cuts[d] \in Nat /\ begun \in Nat /\ cuts[d] + Cardinality(AtWork) <= begun
    BY FolderAssumption DEF FoldersTyped, CutsCounted
  <1> QED BY <1>3, <1>4

-----------------------------------------------------------------------------
(* Steps that write no copy of an ontology. *)
LEMMA FilesStay ==
  ASSUME FoldersHold, Writes({})
  PROVE  OwlBelowJson' /\ (made \subseteq made' => UnmadeAbsent') /\ \A d \in Dir : SameCopies(d)
  BY DEF FoldersHold, Writes, SameCopies, OwlBelowJson, UnmadeAbsent, Whole

LEMMA QuietStep ==
  ASSUME FoldersHold, NEW c, NEW r, Becoming(c, r), Writes({}), UNCHANGED <<made, begun, cuts>>,
         Working(c), ~Streams(c), r.at \notin Streaming, Stands(r),
         Own(r) \subseteq Own(cmd[c]),
         r.src \in {cmd[c].src, 0} \/ (r.src = cmd[c].dst /\ cmd[c].at \in Settled),
         r.at \in Settled /\ r.dst # 0 => cmd[c].at \in Settled /\ r.dst = cmd[c].dst,
         Local(r, folder'), KeepsSource(cmd[c], r), GainsNothing(cmd[c], r)
  PROVE  FoldersHold'
  <1>1. /\ FoldersTyped /\ OwnsApart /\ UnmadeAbsent /\ OwlBelowJson /\ TornCounted /\ CutsCounted
        /\ (\A e \in Cmd : Local(cmd[e], folder)) /\ \A e \in Cmd : AddsNothing(cmd[e])
    BY DEF FoldersHold
  <1>2. c \in Cmd /\ r \in CmdRecord /\ cmd' \in [Cmd -> CmdRecord]
    BY <1>1, OnlyCmd
  <1>3. FoldersTyped'
    BY <1>1, <1>2 DEF FoldersTyped, Writes
  <1>4. OwnsApart'
    <2>1. \A e \in Cmd \ {c} : Apart(r, cmd[e]) /\ Apart(cmd[e], r)
      BY <1>1, <1>2, ApartStays
    <2>2. Stands(r)' /\ made \subseteq made'
      BY DEF Stands
    <2> QED BY <1>1, <2>1, <2>2, OwnStep
  <1>5. \A e \in Cmd : Local(cmd[e], folder)'
    BY <1>1, LocalStep
  <1>6. \A d \in Dir : SameCopies(d)
    BY FilesStay
  <1>7. \A e \in Cmd : AddsNothing(cmd[e])'
    <2>1. \A d \in Dir : Rewrites(c, d)
      BY <1>6 DEF Rewrites, SameCopies
    <2> QED BY <1>1, <2>1, AddsNothingStep
  <1>8. TornCounted'
    <2>1. Streams(c) <=> r.at \in Streaming
      OBVIOUS
    <2> QED BY <1>1, <1>6, <2>1, StillStreams
  <1>9. CutsCounted'
    BY <1>1, StillAtWork
  <1>10. UnmadeAbsent' /\ OwlBelowJson'
    BY FilesStay
  <1> QED BY <1>3, <1>4, <1>5, <1>7, <1>8, <1>9, <1>10 DEF FoldersHold

\* From the choice of a subset to the last stage a command holds what it has and writes nothing.
Inner == {"compact", "select", "tables", "stages", "classify", "propose", "dedup", "apply"}

LEMMA InnerStep ==
  ASSUME FoldersHold, NEW c, NEW r, Becoming(c, r), Writes({}), UNCHANGED <<made, begun, cuts>>,
         cmd[c].at \in Inner, r.at \in Inner \ {"compact"},
         r.op = cmd[c].op, r.src = cmd[c].src, r.dst = cmd[c].dst, r.end = cmd[c].end, r.mem = cmd[c].mem
  PROVE  FoldersHold'
  <1>1. FoldersTyped /\ OwnsApart /\ c \in Cmd /\ r \in CmdRecord /\ Stands(cmd[c]) /\ Local(cmd[c], folder) /\ cmd[c] \in CmdRecord
    BY OnlyCmd DEF FoldersHold, OwnsApart, Becoming
  <1> USE DEF Inner, Filing, Streaming, Closing, Settled, CmdAt
  <1>2. Working(c) /\ ~Streams(c) /\ r.at \notin Streaming /\ cmd[c].at \in Settled /\ r.at \in Settled
    BY DEF Working, Streams
  <1>3. Stands(r)
    BY <1>1 DEF Stands, Placed
  <1>4. Own(r) \subseteq Own(cmd[c])
    BY DEF Own
  <1>5. Local(r, folder')
    <2>1. Tears(r, folder') /\ OwlBelow(r, folder')
      BY DEF Tears, OwlBelow
    <2>2. r.end = "none"
      BY <1>1 DEF Stands, Placed
    <2>3. Suggests(r) /\ Billing(r, folder')
      BY <2>2 DEF Suggests, Billing
    <2>4. DstFresh(r, folder')
      <3>1. r.dst # 0 => folder[r.dst].owl = Absent
        BY <1>1 DEF Local, DstFresh
      <3>2. r.dst # 0 => SameCopies(r.dst)
        BY <1>1 DEF Writes, CmdRecord
      <3> QED BY <3>1, <3>2 DEF DstFresh, SameCopies
    <2> QED BY <2>1, <2>3, <2>4 DEF Local
  <1>6. KeepsSource(cmd[c], r) /\ GainsNothing(cmd[c], r)
    <2>1. r.end = "none" /\ cmd[c].end = "none"
      BY <1>1 DEF Stands, Placed
    <2> QED BY <2>1 DEF KeepsSource, GainsNothing, WritesSrc, Prunes
  <1> QED BY <1>2, <1>3, <1>4, <1>5, <1>6, QuietStep

LEMMA RestIs ==
  /\ Rest \in CmdRecord /\ Rest.op = "merge" /\ Rest.at = "idle" /\ Rest.end = "none" /\ Rest.src = 0 /\ Rest.dst = 0
  /\ Rest.mem = {} /\ Rest.dry = FALSE /\ Rest.suggest = FALSE
  <1>1. Rest \in CmdRecord
    BY DEF Rest, CmdRecord, Op, CmdAt, CmdEnd
  <1> QED BY <1>1 DEF Rest

LEMMA RestAs ==
  ASSUME NEW how \in CmdEnd, NEW r, r = [Rest EXCEPT !.end = how]
  PROVE  r \in CmdRecord /\ r.op = "merge" /\ r.at = "idle" /\ r.end = how /\ r.src = 0 /\ r.dst = 0
  BY RestIs DEF CmdRecord

\* A command that ends, but for a run that comes to its end, is forgotten.
LEMMA StopStep ==
  ASSUME FoldersHold, NEW c \in Cmd, NEW how \in {"stopped", "preview", "done"}, Go(c, EndsAs(c, how)), Writes({}),
         how = "done" => cmd[c].op \notin Runs,
         UNCHANGED <<made, begun, cuts>>, Working(c), ~Streams(c)
  PROVE  FoldersHold'
  <1> DEFINE r == EndsAs(c, how)
  <1>1. r = [Rest EXCEPT !.end = how] /\ how \in CmdEnd
    BY DEF EndsAs, CmdEnd
  <1>2. Becoming(c, r)
    BY <1>1, RestAs DEF Becoming
  <1>3. r.at = "idle" /\ r.src = 0 /\ r.dst = 0 /\ r.op = "merge" /\ r.end = how
    BY <1>1, RestAs
  <1> HIDE DEF r
  <1>4. Stands(r)
    BY <1>3 DEF Stands, Placed, Filing, Streaming, Runs, Pruning, Growing
  <1>5. Own(r) = {} /\ r.at \notin Streaming /\ r.at \notin Settled
    BY <1>3 DEF Own, Streaming, Settled
  <1>6. Local(r, folder')
    BY <1>3, <1>5 DEF Local, Tears, OwlBelow, DstFresh, Suggests, Billing, Growing
  <1>7. KeepsSource(cmd[c], r) /\ GainsNothing(cmd[c], r)
    BY <1>3, <1>5 DEF KeepsSource, GainsNothing, WritesSrc, Prunes, Filing, Streaming
  <1> QED BY <1>2, <1>3, <1>4, <1>5, <1>6, <1>7, QuietStep

\* A run that comes to its end, well or not, keeps its folders in mind.
LEMMA RunEnds ==
  ASSUME FoldersHold, NEW c \in Cmd, NEW how \in {"done", "failed"}, Go(c, EndsAs(c, how)), cmd[c].op \in Runs, Writes({}),
         UNCHANGED <<made, begun, cuts>>, cmd[c].at \in Settled \ {"load"}, ~Streams(c), cmd[c].src # 0, cmd[c].dst # 0,
         how = "done" => cmd[c].at = "report",
         how = "failed" => folder'[cmd[c].dst].cost
  PROVE  FoldersHold'
  <1> DEFINE r == EndsAs(c, how)
  <1>1. FoldersTyped /\ OwnsApart /\ Stands(cmd[c]) /\ Local(cmd[c], folder) /\ cmd[c] \in CmdRecord
    BY DEF FoldersHold, OwnsApart, FoldersTyped
  <1>2. /\ r \in CmdRecord /\ r.at = "idle" /\ r.end = how /\ r.op = cmd[c].op /\ r.src = cmd[c].src
        /\ r.dst = cmd[c].dst /\ r.mem = cmd[c].mem /\ r.suggest = cmd[c].suggest
    BY <1>1 DEF EndsAs, CmdRecord, CmdAt, CmdEnd
  <1>3. Becoming(c, r)
    BY <1>2 DEF Becoming
  <1> HIDE DEF r
  <1>4. Stands(r)
    BY <1>1, <1>2 DEF Stands, Placed, Filing, Streaming, Settled
  <1>5. Own(r) = {} /\ r.at \notin Streaming /\ r.at \notin Settled /\ Working(c)
    BY <1>2 DEF Own, Streaming, Settled, Working
  <1>6. Local(r, folder')
    <2>1. Tears(r, folder') /\ OwlBelow(r, folder') /\ DstFresh(r, folder')
      BY <1>2 DEF Tears, OwlBelow, DstFresh, Settled
    <2>2. Suggests(r)
      BY <1>1, <1>2 DEF Suggests, Local, Stands, Placed, Closing, Filing, Streaming
    <2>3. Billing(r, folder')
      BY <1>2 DEF Billing
    <2> QED BY <2>1, <2>2, <2>3 DEF Local
  <1>7. KeepsSource(cmd[c], r) /\ GainsNothing(cmd[c], r)
    BY <1>2 DEF KeepsSource, GainsNothing, WritesSrc, Prunes, Filing, Streaming
  <1> QED BY <1>1, <1>2, <1>3, <1>4, <1>5, <1>6, <1>7, QuietStep

LEMMA NothingWritten ==
  ASSUME FoldersTyped
  PROVE  /\ folder' = folder => Writes({})
         /\ \A d \in Dir : folder' = [folder EXCEPT ![d].cost = TRUE] => Writes({}) /\ folder'[d].cost
         /\ \A d \in Dir : folder' = [folder EXCEPT ![d].manifest = TRUE] => Writes({})
  <1>1. folder' = folder => Writes({})
    BY DEF FoldersTyped, Writes, SameCopies
  <1>2. ASSUME NEW d \in Dir, NEW g \in FolderRecord,
               g.json = folder[d].json, g.owl = folder[d].owl, folder[d].cost => g.cost, folder' = [folder EXCEPT ![d] = g]
        PROVE  Writes({}) /\ folder'[d] = g
    BY <1>2 DEF FoldersTyped, Writes, SameCopies
  <1>3. ASSUME NEW d \in Dir, folder' = [folder EXCEPT ![d].cost = TRUE] PROVE Writes({}) /\ folder'[d].cost
    <2> DEFINE g == [folder[d] EXCEPT !.cost = TRUE]
    <2>1. g \in FolderRecord /\ g.json = folder[d].json /\ g.owl = folder[d].owl /\ g.cost
      BY DEF FoldersTyped, FolderRecord
    <2>2. folder' = [folder EXCEPT ![d] = g]
      BY <1>3
    <2> HIDE DEF g
    <2> QED BY <1>2, <2>1, <2>2
  <1>4. ASSUME NEW d \in Dir, folder' = [folder EXCEPT ![d].manifest = TRUE] PROVE Writes({})
    <2> DEFINE g == [folder[d] EXCEPT !.manifest = TRUE]
    <2>1. g \in FolderRecord /\ g.json = folder[d].json /\ g.owl = folder[d].owl /\ g.cost = folder[d].cost
      BY DEF FoldersTyped, FolderRecord
    <2>2. folder' = [folder EXCEPT ![d] = g]
      BY <1>4
    <2> HIDE DEF g
    <2> QED BY <1>2, <2>1, <2>2
  <1> QED BY <1>1, <1>3, <1>4

\* What FoldersHold says of one command.
LEMMA OneCmd ==
  ASSUME FoldersHold, NEW c \in Cmd
  PROVE  /\ FoldersTyped /\ cmd[c] \in CmdRecord /\ Stands(cmd[c]) /\ Placed(cmd[c])
         /\ Local(cmd[c], folder) /\ AddsNothing(cmd[c])
  BY DEF FoldersHold, FoldersTyped, OwnsApart, Stands

LEMMA InnerGo ==
  ASSUME FoldersHold, NEW c \in Cmd, cmd[c].at \in Inner, NEW a \in Inner \ {"compact"},
         NEW o \in BOOLEAN, NEW g \in SUBSET Grown, Keep, folder' = folder,
         Go(c, [cmd[c] EXCEPT !.at = a, !.over = o, !.gain = g])
  PROVE  FoldersHold'
  <1> DEFINE r == [cmd[c] EXCEPT !.at = a, !.over = o, !.gain = g]
  <1>1. /\ r \in CmdRecord /\ r.at = a /\ r.op = cmd[c].op /\ r.src = cmd[c].src /\ r.dst = cmd[c].dst
        /\ r.end = cmd[c].end /\ r.mem = cmd[c].mem
    BY OneCmd DEF CmdRecord, Inner, CmdAt
  <1>2. Becoming(c, r)
    BY <1>1 DEF Becoming
  <1> HIDE DEF r
  <1>3. Writes({})
    BY NothingWritten DEF FoldersHold
  <1> QED BY <1>1, <1>2, <1>3, InnerStep DEF Keep

\* The same, when some of the fields stay.
LEMMA InnerGoes ==
  ASSUME FoldersHold, NEW c \in Cmd, cmd[c].at \in Inner, NEW a \in Inner \ {"compact"}, Keep, folder' = folder
  PROVE  /\ GoTo(c, a) => FoldersHold'
         /\ \A o \in BOOLEAN : Go(c, [cmd[c] EXCEPT !.at = a, !.over = o]) => FoldersHold'
         /\ \A o \in BOOLEAN : Go(c, [cmd[c] EXCEPT !.over = o, !.at = a]) => FoldersHold'
         /\ \A g \in SUBSET Grown : Go(c, [cmd[c] EXCEPT !.at = a, !.gain = g]) => FoldersHold'
  <1>1. cmd[c] \in CmdRecord /\ cmd[c].over \in BOOLEAN /\ cmd[c].gain \in SUBSET Grown
    BY OneCmd DEF CmdRecord
  <1>2. /\ [cmd[c] EXCEPT !.at = a] = [cmd[c] EXCEPT !.at = a, !.over = cmd[c].over, !.gain = cmd[c].gain]
        /\ \A o \in BOOLEAN : [cmd[c] EXCEPT !.at = a, !.over = o] = [cmd[c] EXCEPT !.at = a, !.over = o, !.gain = cmd[c].gain]
        /\ \A o \in BOOLEAN : [cmd[c] EXCEPT !.over = o, !.at = a] = [cmd[c] EXCEPT !.at = a, !.over = o, !.gain = cmd[c].gain]
        /\ \A g : [cmd[c] EXCEPT !.at = a, !.gain = g] = [cmd[c] EXCEPT !.at = a, !.over = cmd[c].over, !.gain = g]
    BY <1>1 DEF CmdRecord
  <1>3. ASSUME GoTo(c, a) PROVE FoldersHold'
    <2>1. Go(c, [cmd[c] EXCEPT !.at = a, !.over = cmd[c].over, !.gain = cmd[c].gain])
      BY <1>2, <1>3 DEF GoTo
    <2> QED BY <1>1, <2>1, InnerGo
  <1>4. ASSUME NEW o \in BOOLEAN, Go(c, [cmd[c] EXCEPT !.at = a, !.over = o]) PROVE FoldersHold'
    <2>1. Go(c, [cmd[c] EXCEPT !.at = a, !.over = o, !.gain = cmd[c].gain])
      BY <1>2, <1>4
    <2> QED BY <1>1, <2>1, InnerGo
  <1>5. ASSUME NEW o \in BOOLEAN, Go(c, [cmd[c] EXCEPT !.over = o, !.at = a]) PROVE FoldersHold'
    <2>1. Go(c, [cmd[c] EXCEPT !.at = a, !.over = o, !.gain = cmd[c].gain])
      BY <1>2, <1>5
    <2> QED BY <1>1, <2>1, InnerGo
  <1>6. ASSUME NEW g \in SUBSET Grown, Go(c, [cmd[c] EXCEPT !.at = a, !.gain = g]) PROVE FoldersHold'
    <2>1. Go(c, [cmd[c] EXCEPT !.at = a, !.over = cmd[c].over, !.gain = g])
      BY <1>2, <1>6
    <2> QED BY <1>1, <2>1, InnerGo
  <1> QED BY <1>3, <1>4, <1>5, <1>6

LEMMA InnerPlace ==
  ASSUME FoldersHold, NEW c \in Cmd, cmd[c].at \in Inner
  PROVE  /\ cmd[c].dst \in Dir /\ cmd[c].src \in Dir /\ cmd[c].op \in Runs
         /\ Working(c) /\ ~Streams(c) /\ cmd[c].at \in Settled \ {"load"}
  <1>1. cmd[c] \in CmdRecord /\ Placed(cmd[c])
    BY OneCmd
  <1>2. cmd[c].op \notin InPlace
    BY <1>1 DEF Placed, Inner, Filing, Streaming
  <1>3. cmd[c].dst # 0 /\ cmd[c].src # 0 /\ cmd[c].op # "merge"
    BY <1>1, <1>2 DEF Placed, Inner, Filing, Streaming
  <1> QED BY <1>1, <1>2, <1>3 DEF CmdRecord, Op, Inner, Working, Streams, Settled, CmdAt

LEMMA SelectHolds ==
  ASSUME FoldersHold, NEW c \in Cmd, Select(c)
  PROVE  FoldersHold'
  <1>1. cmd[c].at = "select" /\ Keep /\ UNCHANGED <<made, begun, cuts>>
    BY DEF Select, Keep
  <1>2. /\ cmd[c].dst \in Dir /\ Working(c) /\ ~Streams(c) /\ cmd[c].at \in Inner
    BY <1>1, InnerPlace DEF Inner
  <1>3. CASE GoTo(c, "tables") /\ UNCHANGED folder
    BY <1>1, <1>2, <1>3, InnerGoes DEF Inner
  <1>4. CASE Go(c, EndsAs(c, "stopped")) /\ UNCHANGED folder
    <2>1. Writes({})
      BY <1>4, NothingWritten DEF FoldersHold
    <2> QED BY <1>1, <1>2, <1>4, <2>1, StopStep
  <1>5. CASE Go(c, EndsAs(c, "preview")) /\ folder' = [folder EXCEPT ![cmd[c].dst].cost = TRUE]
    <2>1. Writes({})
      BY <1>2, <1>5, NothingWritten DEF FoldersHold
    <2> QED BY <1>1, <1>2, <1>5, <2>1, StopStep
  <1>6. CASE Go(c, [cmd[c] EXCEPT !.at = "tables", !.over = TRUE]) /\ UNCHANGED folder
    BY <1>1, <1>2, <1>6, InnerGoes DEF Inner
  <1> QED BY <1>3, <1>4, <1>5, <1>6 DEF Select

LEMMA MineTablesHolds ==
  ASSUME FoldersHold, NEW c \in Cmd, MineTables(c)
  PROVE  FoldersHold'
  <1>1. cmd[c].at = "tables" /\ Keep /\ UNCHANGED <<made, begun, cuts>> /\ folder' = folder
    BY DEF MineTables, Keep
  <1>2. Working(c) /\ ~Streams(c) /\ cmd[c].at \in Inner
    BY <1>1, InnerPlace DEF Inner
  <1>3. CASE GoTo(c, "stages")
    BY <1>1, <1>2, <1>3, InnerGoes DEF Inner
  <1>4. CASE Go(c, EndsAs(c, "stopped"))
    <2>1. Writes({})
      BY <1>1, NothingWritten DEF FoldersHold
    <2> QED BY <1>1, <1>2, <1>4, <2>1, StopStep
  <1>5. ASSUME NEW o \in BOOLEAN, Go(c, [cmd[c] EXCEPT !.at = "stages", !.over = o, !.gain = {"proposed"}])
        PROVE  FoldersHold'
    <2>1. {"proposed"} \in SUBSET Grown /\ "stages" \in Inner \ {"compact"}
      BY DEF Grown, Inner
    <2> QED BY <1>1, <1>2, <1>5, <2>1, InnerGo
  <1> QED BY <1>3, <1>4, <1>5 DEF MineTables

LEMMA StagesHold ==
  ASSUME FoldersHold, NEW c \in Cmd, Summarize(c) \/ Classify(c) \/ Dedup(c)
  PROVE  FoldersHold'
  <1>1. cmd[c].at \in Inner /\ Keep /\ folder' = folder
    BY DEF Summarize, Classify, Dedup, Inner
  <1>2. CASE Summarize(c)
    <2>1. PICK o \in BOOLEAN : Go(c, [cmd[c] EXCEPT !.over = o, !.at = IF cmd[c].dry THEN "apply" ELSE "classify"])
      BY <1>2 DEF Summarize
    <2>2. (IF cmd[c].dry THEN "apply" ELSE "classify") \in Inner \ {"compact"}
      BY DEF Inner
    <2> QED BY <1>1, <2>1, <2>2, InnerGoes
  <1>3. CASE Classify(c)
    BY <1>1, <1>3, InnerGoes DEF Classify, GoTo, Inner
  <1>4. CASE Dedup(c)
    BY <1>1, <1>4, InnerGoes DEF Dedup, Inner
  <1> QED BY <1>2, <1>3, <1>4

LEMMA ProposeHolds ==
  ASSUME FoldersHold, NEW c \in Cmd, ProposeStage(c)
  PROVE  FoldersHold'
  <1>1. cmd[c].at \in Inner /\ Keep /\ folder' = folder /\ cmd[c] \in CmdRecord
    BY OneCmd DEF ProposeStage, Inner
  <1>2. PICK g \in {{}, {"proposed"}} : Go(c, [cmd[c] EXCEPT !.at = "dedup", !.gain = @ \cup g])
    BY DEF ProposeStage
  <1> DEFINE h == cmd[c].gain \cup g
  <1>3. h \in SUBSET Grown /\ Go(c, [cmd[c] EXCEPT !.at = "dedup", !.gain = h])
    BY <1>1, <1>2 DEF CmdRecord, Grown
  <1> HIDE DEF h
  <1> QED BY <1>1, <1>3, InnerGoes DEF Inner

LEMMA StagesFailHolds ==
  ASSUME FoldersHold, NEW c \in Cmd, StagesFail(c)
  PROVE  FoldersHold'
  <1>1. /\ cmd[c].at \in Inner /\ Go(c, EndsAs(c, "failed")) /\ UNCHANGED <<made, begun, cuts>>
        /\ folder' = [folder EXCEPT ![cmd[c].dst].cost = TRUE]
    BY DEF StagesFail, Keep, Inner
  <1>2. /\ cmd[c].dst \in Dir /\ cmd[c].src \in Dir /\ cmd[c].op \in Runs
        /\ ~Streams(c) /\ cmd[c].at \in Settled \ {"load"}
    BY <1>1, InnerPlace
  <1>3. Writes({}) /\ folder'[cmd[c].dst].cost
    BY <1>1, <1>2, NothingWritten DEF FoldersHold
  <1>4. cmd[c].src # 0 /\ cmd[c].dst # 0
    BY <1>2, FolderAssumption DEF Dir
  <1> QED BY <1>1, <1>2, <1>3, <1>4, RunEnds

LEMMA BillHolds ==
  ASSUME FoldersHold, NEW c \in Cmd, WriteBill(c)
  PROVE  FoldersHold'
  <1>1. /\ cmd[c].at = "report" /\ Go(c, EndsAs(c, "done")) /\ UNCHANGED <<made, begun, cuts>>
        /\ folder' = [folder EXCEPT ![cmd[c].dst].cost = TRUE]
    BY DEF WriteBill, Keep
  <1>2. cmd[c] \in CmdRecord /\ Placed(cmd[c])
    BY OneCmd
  <1>3. cmd[c].op \notin InPlace /\ cmd[c].dst # 0
    BY <1>1, <1>2 DEF Placed, Filing, Streaming
  <1>4. cmd[c].src # 0 /\ cmd[c].op # "merge"
    BY <1>1, <1>2 DEF Placed, Filing, Streaming
  <1>5. cmd[c].dst \in Dir /\ cmd[c].op \in Runs /\ ~Streams(c) /\ cmd[c].at \in Settled \ {"load"}
    BY <1>1, <1>2, <1>3, <1>4 DEF CmdRecord, Op, Streams, Settled, CmdAt
  <1>6. Writes({})
    BY <1>1, <1>5, NothingWritten DEF FoldersHold
  <1> QED BY <1>1, <1>3, <1>4, <1>5, <1>6, RunEnds

-----------------------------------------------------------------------------
(* A command begins, finds a name, makes its folder and reads. *)
LEMMA BeginHolds ==
  ASSUME FoldersHold, NEW c \in Cmd, NEW op \in Op, NEW d \in Dir \cup {0}, NEW dry \in BOOLEAN, NEW sug \in BOOLEAN,
         Begin(c, op, d, dry, sug)
  PROVE  FoldersHold'
  <1> DEFINE a == IF op \in InPlace THEN "load" ELSE "name"
             r == [Rest EXCEPT !.op = op, !.src = d, !.dry = dry, !.suggest = sug, !.at = a]
  <1>1. /\ ~Working(c) /\ begun < MaxCommands /\ Go(c, r)
        /\ IF op \in {"merge", "build"} THEN d = 0 ELSE d \in made /\ ~Attended(d)
        /\ begun' = begun + 1 /\ UNCHANGED <<made, folder, cuts>>
    BY DEF Begin
  <1>2. a \in CmdAt \ Streaming /\ a \in {"load", "name"} /\ (a = "load" <=> op \in InPlace)
    BY DEF CmdAt, Streaming
  <1> HIDE DEF a
  <1>3. /\ r \in CmdRecord /\ r.op = op /\ r.src = d /\ r.dst = 0 /\ r.at = a /\ r.end = "none" /\ Becoming(c, r)
    <2>1. /\ r \in CmdRecord /\ r.op = op /\ r.src = d /\ r.dst = 0 /\ r.at = a /\ r.end = "none"
      BY <1>2, RestIs DEF CmdRecord
    <2> QED BY <1>1, <2>1 DEF Becoming
  <1> HIDE DEF r
  <1>4. /\ FoldersTyped /\ OwnsApart /\ UnmadeAbsent /\ OwlBelowJson /\ TornCounted /\ CutsCounted
        /\ (\A e \in Cmd : Local(cmd[e], folder)) /\ \A e \in Cmd : AddsNothing(cmd[e])
    BY DEF FoldersHold
  <1>5. Writes({}) /\ cmd' \in [Cmd -> CmdRecord]
    BY <1>1, <1>3, <1>4, OnlyCmd, NothingWritten
  <1>6. FoldersTyped'
    <2>1. begun' \in 0..MaxCommands
      BY <1>1, <1>4, FolderAssumption DEF FoldersTyped
    <2> QED BY <1>1, <1>4, <1>5, <2>1 DEF FoldersTyped
  <1>7. OwnsApart'
    <2>0. d = 0 => op \in {"merge", "build"}
      BY <1>1, <1>4, FolderAssumption DEF FoldersTyped, Dir
    <2>1. Stands(r)' /\ made \subseteq made'
      <3>1. Placed(r)
        BY <1>1, <1>2, <1>3, <2>0 DEF Placed, Filing, Streaming, InPlace
      <3>2. r.src \in made' \cup {0} /\ r.dst = 0
        BY <1>1, <1>3
      <3> QED BY <1>1, <3>1, <3>2 DEF Stands, Placed
    <2>2. ASSUME NEW e \in Cmd \ {c} PROVE Apart(r, cmd[e]) /\ Apart(cmd[e], r)
      <3>1. \A f \in Own(r) : f = d /\ d # 0
        BY <1>3, FolderAssumption DEF Own, Dir
      <3>2. d # 0 => d \notin Own(cmd[e]) /\ (cmd[e].at \in Settled => d # cmd[e].dst)
        BY <1>1 DEF Attended, Working, Own, Settled
      <3>3. Own(r) \cap Own(cmd[e]) = {} /\ (cmd[e].at \in Settled /\ cmd[e].dst # 0 => cmd[e].dst # r.src)
        BY <1>3, <3>1, <3>2
      <3> QED BY <1>3, <3>3 DEF Apart
    <2> QED BY <1>3, <1>4, <2>1, <2>2, OwnStep
  <1>8. Local(r, folder')
    BY <1>2, <1>3 DEF Local, Tears, OwlBelow, DstFresh, Suggests, Billing, Closing, Filing, Streaming
  <1>9. \A e \in Cmd : Local(cmd[e], folder)'
    BY <1>3, <1>4, <1>5, <1>8, LocalStep
  <1>10. \A e \in Cmd : AddsNothing(cmd[e])'
    <2>1. KeepsSource(cmd[c], r) /\ GainsNothing(cmd[c], r)
      BY <1>2, <1>3 DEF KeepsSource, GainsNothing, WritesSrc, Prunes, Filing, Streaming, Settled
    <2>2. \A f \in Dir : Rewrites(c, f)
      BY <1>1 DEF Rewrites
    <2> QED BY <1>3, <1>4, <2>1, <2>2, AddsNothingStep
  <1>11. TornCounted'
    <2>1. ~Streams(c) /\ r.at \notin Streaming /\ \A f \in Dir : SameCopies(f)
      BY <1>1, <1>2, <1>3 DEF Working, Streams, SameCopies
    <2> QED BY <1>1, <1>3, <1>4, <2>1, StillStreams
  <1>12. CutsCounted'
    <2>1. r.at # "idle"
      BY <1>2, <1>3
    <2> QED BY <1>1, <1>3, <1>4, <2>1, OneMoreAtWork
  <1>13. UnmadeAbsent' /\ OwlBelowJson'
    BY <1>1, <1>4 DEF UnmadeAbsent, OwlBelowJson, Whole
  <1> QED BY <1>6, <1>7, <1>9, <1>10, <1>11, <1>12, <1>13 DEF FoldersHold

LEMMA NameDirHolds ==
  ASSUME FoldersHold, NEW c \in Cmd, NameDir(c)
  PROVE  FoldersHold'
  <1> DEFINE new == CHOOSE d \in Dir \ made : \A e \in Dir \ made : d <= e
             r == [cmd[c] EXCEPT !.at = "mkdir", !.dst = new]
  <1>1. cmd[c].at = "name" /\ made # Dir /\ Go(c, r) /\ UNCHANGED <<made, begun, cuts>> /\ folder' = folder
    BY DEF NameDir, Keep
  <1>2. FoldersTyped /\ cmd[c] \in CmdRecord /\ Stands(cmd[c]) /\ Placed(cmd[c])
    BY OneCmd
  <1>3. new \in Dir \ made /\ new # 0
    <2>0. Dir \ made # {}
      BY <1>1, <1>2 DEF FoldersTyped
    <2>1. Dir \ made # {} /\ Dir \ made \subseteq Nat
      BY <2>0 DEF Dir
    <2>2. \E d \in Dir \ made : \A e \in Dir \ made : d <= e
      BY <2>1, LeastOf
    <2> QED BY <2>2, FolderAssumption DEF Dir
  <1> HIDE DEF new
  <1>4. /\ r \in CmdRecord /\ r.at = "mkdir" /\ r.dst = new /\ r.op = cmd[c].op /\ r.src = cmd[c].src /\ r.end = cmd[c].end
    BY <1>2, <1>3 DEF CmdRecord, CmdAt
  <1>5. Becoming(c, r) /\ Writes({})
    BY <1>1, <1>2, <1>4, NothingWritten DEF Becoming
  <1> HIDE DEF r
  <1>6. Working(c) /\ ~Streams(c) /\ r.at \notin Streaming /\ r.at \notin Settled /\ r.end = "none"
    BY <1>1, <1>2, <1>4 DEF Working, Streams, Streaming, Settled, Placed
  <1>7. Stands(r)
    BY <1>1, <1>2, <1>3, <1>4, <1>6 DEF Stands, Placed, Filing, Streaming
  <1>8. Own(r) \subseteq Own(cmd[c])
    BY <1>1, <1>4 DEF Own
  <1>9. Local(r, folder')
    BY <1>4, <1>6 DEF Local, Tears, OwlBelow, DstFresh, Suggests, Billing, Closing, Filing, Streaming
  <1>10. KeepsSource(cmd[c], r) /\ GainsNothing(cmd[c], r)
    BY <1>4, <1>6 DEF KeepsSource, GainsNothing, WritesSrc, Prunes, Filing, Streaming
  <1> QED BY <1>1, <1>4, <1>5, <1>6, <1>7, <1>8, <1>9, <1>10, QuietStep

LEMMA MakeDirHolds ==
  ASSUME FoldersHold, NEW c \in Cmd, MakeDir(c)
  PROVE  FoldersHold'
  <1>1. cmd[c].at = "mkdir" /\ UNCHANGED <<begun, folder, cuts>> /\ Working(c) /\ ~Streams(c)
    BY DEF MakeDir, Working, Streams
  <1>2. /\ FoldersTyped /\ cmd[c] \in CmdRecord /\ Stands(cmd[c]) /\ Placed(cmd[c])
        /\ OwnsApart /\ UnmadeAbsent /\ OwlBelowJson /\ TornCounted /\ CutsCounted
        /\ (\A e \in Cmd : Local(cmd[e], folder)) /\ \A e \in Cmd : AddsNothing(cmd[e])
    BY OneCmd DEF FoldersHold
  <1>3. Writes({})
    BY <1>1, <1>2, NothingWritten
  <1>4. CASE Go(c, EndsAs(c, "stopped")) /\ UNCHANGED made
    BY <1>1, <1>3, <1>4, StopStep
  <1>5. CASE /\ made' = made \cup {cmd[c].dst} /\ cmd[c].dst \notin made
             /\ Go(c, IF cmd[c].src = 0 THEN [cmd[c] EXCEPT !.at = "json", !.to = cmd[c].dst]
                      ELSE [cmd[c] EXCEPT !.at = "load"])
    <2>0. PICK r : r = IF cmd[c].src = 0 THEN [cmd[c] EXCEPT !.at = "json", !.to = cmd[c].dst]
                       ELSE [cmd[c] EXCEPT !.at = "load"]
      OBVIOUS
    <2>1. /\ r \in CmdRecord /\ r.op = cmd[c].op /\ r.src = cmd[c].src /\ r.dst = cmd[c].dst /\ r.end = cmd[c].end
          /\ r.at = IF cmd[c].src = 0 THEN "json" ELSE "load"
          /\ cmd[c].src = 0 => r.to = cmd[c].dst
      BY <1>2, <2>0 DEF CmdRecord, CmdAt
    <2>2. Becoming(c, r)
      BY <1>5, <2>0, <2>1 DEF Becoming
    <2>3. r.end = "none" /\ r.op \notin InPlace /\ r.dst \in Dir /\ r.dst # 0 /\ r.dst \notin made /\ r.src # r.dst
      <3>1. r.op \notin InPlace /\ r.dst # 0 /\ r.end = "none"
        BY <1>1, <1>2, <2>1 DEF Placed, Filing, Streaming
      <3>2. r.src # r.dst /\ r.dst \in Dir
        BY <1>2, <1>5, <2>1, <3>1 DEF Stands, CmdRecord
      <3> QED BY <1>5, <2>1, <3>1, <3>2
    <2>4. FoldersTyped'
      BY <1>1, <1>2, <1>5, <2>1, <2>2, <2>3, OnlyCmd DEF FoldersTyped
    <2>5. OwnsApart'
      <3>1. Stands(r)'
        <4>1. Placed(r)
          BY <1>1, <1>2, <2>1, <2>3 DEF Placed, Filing, Streaming
        <4>2. r.src \in made' \cup {0} /\ r.dst \in made'
          BY <1>2, <1>5, <2>1 DEF Stands
        <4> QED BY <4>1, <4>2 DEF Stands, Placed
      <3>2. ASSUME NEW e \in Cmd \ {c} PROVE Apart(r, cmd[e]) /\ Apart(cmd[e], r)
        <4>1. Apart(cmd[c], cmd[e]) /\ Apart(cmd[e], cmd[c]) /\ Own(cmd[e]) \subseteq made /\ Stands(cmd[e])
          BY <1>2, OwnFolders DEF OwnsApart
        <4>2. Own(r) \subseteq Own(cmd[c]) \cup {r.dst}
          BY <1>1, <2>1 DEF Own
        <4>3. Own(r) \cap Own(cmd[e]) = {}
          BY <2>3, <4>1, <4>2 DEF Apart
        <4>4. r.dst # cmd[e].src
          BY <2>3, <4>1 DEF Stands
        <4> QED BY <2>1, <4>1, <4>3, <4>4 DEF Apart
      <3>3. made \subseteq made'
        BY <1>5
      <3> QED BY <1>2, <2>2, <3>1, <3>2, <3>3, OwnStep
    <2>6. Local(r, folder')
      <3>1. folder'[r.dst].owl = Absent
        BY <1>1, <1>2, <2>3 DEF UnmadeAbsent
      <3>2. Tears(r, folder') /\ Suggests(r) /\ Billing(r, folder')
        BY <2>1, <2>3 DEF Tears, Suggests, Billing, Closing, Filing, Streaming
      <3>3. OwlBelow(r, folder') /\ DstFresh(r, folder')
        BY <2>1, <3>1 DEF OwlBelow, DstFresh, Whole
      <3> QED BY <3>2, <3>3 DEF Local
    <2>7. \A e \in Cmd : Local(cmd[e], folder)'
      BY <1>2, <1>3, <2>2, <2>6, LocalStep
    <2>8. \A e \in Cmd : AddsNothing(cmd[e])'
      <3>1. ~WritesSrc(r)
        BY <2>1, <2>3 DEF WritesSrc, Filing, Streaming
      <3>2. ~Prunes(r)
        BY <1>1, <1>2, <2>1, <2>3 DEF Prunes, Placed
      <3>3. \A f \in Dir : Rewrites(c, f)
        BY <1>1 DEF Rewrites
      <3> QED BY <1>2, <2>2, <3>1, <3>2, <3>3, AddsNothingStep DEF KeepsSource, GainsNothing
    <2>9. TornCounted'
      <3>1. r.at \notin Streaming /\ \A f \in Dir : SameCopies(f)
        BY <1>1, <2>1 DEF Streaming, SameCopies
      <3> QED BY <1>1, <1>2, <2>2, <3>1, StillStreams
    <2>10. CutsCounted'
      BY <1>1, <1>2, <2>2, StillAtWork
    <2>11. UnmadeAbsent' /\ OwlBelowJson'
      BY <1>1, <1>2, <1>5 DEF UnmadeAbsent, OwlBelowJson, Whole
    <2> QED BY <2>4, <2>5, <2>7, <2>8, <2>9, <2>10, <2>11 DEF FoldersHold
  <1> QED BY <1>4, <1>5 DEF MakeDir

LEMMA LoadHolds ==
  ASSUME FoldersHold, NEW c \in Cmd, Load(c)
  PROVE  FoldersHold'
  <1> DEFINE json == folder[cmd[c].src].json
             a == IF cmd[c].op \in InPlace THEN "edit" ELSE "compact"
             r == [cmd[c] EXCEPT !.mem = json, !.at = a]
  <1>1. /\ cmd[c].at = "load" /\ UNCHANGED <<made, begun, cuts>> /\ folder' = folder /\ Working(c) /\ ~Streams(c)
        /\ ~Whole(json) => Go(c, EndsAs(c, "stopped"))
        /\ Whole(json) => Go(c, r)
    BY DEF Load, Keep, Working, Streams
  <1>2. /\ FoldersTyped /\ cmd[c] \in CmdRecord /\ Stands(cmd[c]) /\ Placed(cmd[c]) /\ OwlBelowJson
        /\ Local(cmd[c], folder)
    BY OneCmd DEF FoldersHold
  <1>3. Writes({})
    BY <1>1, <1>2, NothingWritten
  <1>4. CASE ~Whole(json)
    BY <1>1, <1>3, <1>4, StopStep
  <1>5. CASE Whole(json)
    <2>1. cmd[c].src \in Dir /\ cmd[c].src # 0
      BY <1>1, <1>2 DEF Placed, CmdRecord, Filing, Streaming
    <2>2. json \in SUBSET Edit
      <3>1. folder[cmd[c].src] \in FolderRecord
        BY <1>2, <2>1 DEF FoldersTyped
      <3>2. json \in JsonCopy
        BY <3>1 DEF FolderRecord
      <3> QED BY <1>5, <3>2 DEF JsonCopy, Whole
    <2>3. a \in CmdAt /\ a \in {"edit", "compact"} /\ (a = "edit" <=> cmd[c].op \in InPlace)
      BY DEF CmdAt
    <2> DEFINE m == json
    <2>4. Whole(folder[cmd[c].src].owl) => folder[cmd[c].src].owl \subseteq m
      BY <1>2, <1>5, <2>1 DEF OwlBelowJson
    <2>5. m = folder[cmd[c].src].json
      OBVIOUS
    <2> HIDE DEF m, a
    <2>6. /\ r \in CmdRecord /\ r.mem = m /\ r.at = a /\ r.op = cmd[c].op /\ r.src = cmd[c].src
          /\ r.dst = cmd[c].dst /\ r.end = cmd[c].end /\ r.suggest = cmd[c].suggest
      BY <1>2, <2>2, <2>3, <2>5 DEF CmdRecord
    <2>7. Becoming(c, r)
      BY <1>1, <1>5, <2>6 DEF Becoming
    <2> HIDE DEF r
    <2>8. r.at \notin Streaming /\ r.at \in Settled /\ cmd[c].at \in Settled /\ r.end = "none" /\ r.at \notin Filing
      BY <1>1, <1>2, <2>3, <2>6 DEF Streaming, Filing, Settled, CmdAt, Placed
    <2>9. Stands(r)
      BY <1>1, <1>2, <2>1, <2>3, <2>6, <2>8 DEF Stands, Placed, Filing, Streaming
    <2>10. Own(r) \subseteq Own(cmd[c])
      BY <1>1, <2>6 DEF Own
    <2>11. Local(r, folder')
      <3>1. Tears(r, folder') /\ Suggests(r) /\ Billing(r, folder')
        BY <2>3, <2>6, <2>8 DEF Tears, Suggests, Billing, Closing, Filing, Streaming
      <3>2. OwlBelow(r, folder')
        BY <1>1, <2>3, <2>4, <2>6 DEF OwlBelow
      <3>3. DstFresh(r, folder')
        BY <1>1, <1>2, <2>6, <2>8 DEF DstFresh, Local, Closing, Filing, Streaming
      <3> QED BY <3>1, <3>2, <3>3 DEF Local
    <2>12. KeepsSource(cmd[c], r) /\ GainsNothing(cmd[c], r)
      BY <1>1, <1>5, <2>1, <2>5, <2>6, <2>8 DEF KeepsSource, GainsNothing
    <2> QED BY <1>1, <1>3, <2>6, <2>7, <2>8, <2>9, <2>10, <2>11, <2>12, QuietStep
  <1> QED BY <1>4, <1>5

-----------------------------------------------------------------------------
(* What a command makes of what it holds. *)
LEMMA EditInPlaceHolds ==
  ASSUME FoldersHold, NEW c \in Cmd, EditInPlace(c)
  PROVE  FoldersHold'
  <1>1. /\ cmd[c].at = "edit" /\ UNCHANGED <<made, begun, cuts>> /\ folder' = folder /\ Working(c) /\ ~Streams(c)
    BY DEF EditInPlace, Keep, Working, Streams
  <1>2. /\ FoldersTyped /\ cmd[c] \in CmdRecord /\ Stands(cmd[c]) /\ Placed(cmd[c]) /\ Local(cmd[c], folder)
    BY OneCmd
  <1>3. cmd[c].op \in InPlace /\ cmd[c].src # 0 /\ cmd[c].dst = 0 /\ cmd[c].op \notin Growing /\ cmd[c].op # "prune"
    BY <1>1, <1>2 DEF Placed, InPlace, Growing
  <1>4. PICK m \in {cmd[c].mem, cmd[c].mem \cup {"compact"}, cmd[c].mem \cup {"repaired"}} :
               Go(c, [cmd[c] EXCEPT !.mem = m, !.to = cmd[c].src, !.at = "json"])
    BY <1>3 DEF EditInPlace, InPlace, Compacted
  <1> DEFINE r == [cmd[c] EXCEPT !.mem = m, !.to = cmd[c].src, !.at = "json"]
  <1>5. m \in SUBSET Edit /\ cmd[c].mem \subseteq m
    BY <1>2, <1>4 DEF CmdRecord, Edit
  <1>6. /\ r \in CmdRecord /\ r.mem = m /\ r.at = "json" /\ r.to = cmd[c].src /\ r.op = cmd[c].op /\ r.src = cmd[c].src
        /\ r.dst = cmd[c].dst /\ r.end = cmd[c].end
    BY <1>2, <1>5 DEF CmdRecord, CmdAt
  <1>7. Becoming(c, r) /\ Writes({})
    BY <1>1, <1>2, <1>4, <1>6, NothingWritten DEF Becoming
  <1> HIDE DEF r
  <1>8. r.at \notin Streaming /\ r.at \in Settled /\ cmd[c].at \in Settled /\ r.end = "none"
    BY <1>1, <1>2, <1>6 DEF Streaming, Settled, CmdAt, Placed
  <1>9. Stands(r)
    BY <1>1, <1>2, <1>3, <1>6, <1>8 DEF Stands, Placed, Filing
  <1>10. Own(r) \subseteq Own(cmd[c])
    BY <1>1, <1>6 DEF Own
  <1>11. Local(r, folder')
    <2>1. Tears(r, folder') /\ Suggests(r) /\ Billing(r, folder') /\ DstFresh(r, folder')
      BY <1>3, <1>6, <1>8 DEF Tears, Suggests, Billing, DstFresh
    <2>2. Whole(folder[cmd[c].src].owl) => folder[cmd[c].src].owl \subseteq cmd[c].mem
      BY <1>1, <1>2 DEF Local, OwlBelow
    <2>3. OwlBelow(r, folder')
      BY <1>1, <1>5, <1>6, <2>2 DEF OwlBelow
    <2> QED BY <2>1, <2>3 DEF Local
  <1>12. KeepsSource(cmd[c], r) /\ GainsNothing(cmd[c], r)
    BY <1>1, <1>3, <1>5, <1>6, <1>8 DEF KeepsSource, GainsNothing, WritesSrc, Prunes
  <1> QED BY <1>1, <1>6, <1>7, <1>8, <1>9, <1>10, <1>11, <1>12, QuietStep

LEMMA CompactHolds ==
  ASSUME FoldersHold, NEW c \in Cmd, Compact(c)
  PROVE  FoldersHold'
  <1>1. /\ cmd[c].at = "compact" /\ Keep /\ UNCHANGED <<made, begun, cuts>> /\ folder' = folder
        /\ cmd[c].at \in Inner
    BY DEF Compact, Keep, Inner
  <1>2. /\ FoldersTyped /\ cmd[c] \in CmdRecord /\ Stands(cmd[c]) /\ Placed(cmd[c]) /\ Local(cmd[c], folder)
        /\ cmd[c].dst \in Dir /\ cmd[c].src \in Dir /\ cmd[c].op \in Runs /\ Working(c) /\ ~Streams(c)
    BY <1>1, OneCmd, InnerPlace
  <1>3. CASE GoTo(c, "select")
    BY <1>1, <1>3, InnerGoes DEF Inner
  <1>4. ASSUME NEW o \in BOOLEAN, NEW m \in Compacted(cmd[c].mem),
               Go(c, [cmd[c] EXCEPT !.mem = m, !.over = o, !.to = cmd[c].src, !.at = "json"])
        PROVE  FoldersHold'
    <2> DEFINE r == [cmd[c] EXCEPT !.mem = m, !.over = o, !.to = cmd[c].src, !.at = "json"]
    <2>1. m \in SUBSET Edit /\ cmd[c].mem \subseteq m /\ m \cap Grown \subseteq cmd[c].mem
      BY <1>2, <1>4 DEF CmdRecord, Edit, Compacted, Grown
    <2>2. /\ r \in CmdRecord /\ r.mem = m /\ r.at = "json" /\ r.to = cmd[c].src /\ r.op = cmd[c].op /\ r.src = cmd[c].src
          /\ r.dst = cmd[c].dst /\ r.end = cmd[c].end /\ r.suggest = cmd[c].suggest
      BY <1>2, <2>1 DEF CmdRecord, CmdAt
    <2>3. Becoming(c, r) /\ Writes({})
      BY <1>1, <1>2, <1>4, <2>2, NothingWritten DEF Becoming
    <2> HIDE DEF r
    <2>4. /\ r.at \notin Streaming /\ r.at \in Settled /\ cmd[c].at \in Settled \ {"load"} /\ r.end = "none"
          /\ cmd[c].src # 0 /\ cmd[c].dst # 0 /\ cmd[c].src # cmd[c].dst /\ cmd[c].op \notin InPlace
      BY <1>1, <1>2, <2>2, FolderAssumption DEF Streaming, Settled, CmdAt, Placed, Dir, Runs, Pruning, Growing, InPlace
    <2>5. Stands(r)
      BY <1>1, <1>2, <2>2, <2>4 DEF Stands, Placed, Filing
    <2>6. Own(r) \subseteq Own(cmd[c])
      BY <1>1, <2>2 DEF Own
    <2>7. Local(r, folder')
      <3>1. Tears(r, folder') /\ Suggests(r) /\ Billing(r, folder')
        BY <2>2, <2>4 DEF Tears, Suggests, Billing
      <3>2. Whole(folder[cmd[c].src].owl) => folder[cmd[c].src].owl \subseteq cmd[c].mem
        BY <1>1, <1>2 DEF Local, OwlBelow
      <3>3. OwlBelow(r, folder')
        BY <1>1, <2>1, <2>2, <3>2 DEF OwlBelow
      <3>4. DstFresh(r, folder')
        BY <1>1, <1>2, <2>2, <2>4 DEF DstFresh, Local, Closing, Filing, Streaming
      <3> QED BY <3>1, <3>3, <3>4 DEF Local
    <2>8. KeepsSource(cmd[c], r) /\ GainsNothing(cmd[c], r)
      BY <1>1, <2>1, <2>2, <2>4 DEF KeepsSource, GainsNothing, WritesSrc, Prunes
    <2> QED BY <1>1, <1>2, <2>2, <2>3, <2>4, <2>5, <2>6, <2>7, <2>8, QuietStep
  <1> QED BY <1>3, <1>4 DEF Compact

LEMMA ApplyHolds ==
  ASSUME FoldersHold, NEW c \in Cmd, Apply(c)
  PROVE  FoldersHold'
  <1>1. /\ cmd[c].at = "apply" /\ UNCHANGED <<made, begun, cuts>> /\ folder' = folder /\ cmd[c].at \in Inner
    BY DEF Apply, Keep, Inner
  <1>2. /\ FoldersTyped /\ cmd[c] \in CmdRecord /\ Stands(cmd[c]) /\ Placed(cmd[c]) /\ Local(cmd[c], folder)
        /\ cmd[c].dst \in Dir /\ cmd[c].src \in Dir /\ cmd[c].op \in Runs /\ Working(c) /\ ~Streams(c)
    BY <1>1, OneCmd, InnerPlace
  <1>3. PICK m : /\ Go(c, [cmd[c] EXCEPT !.at = "json", !.to = cmd[c].dst, !.mem = m])
                 /\ m \in SUBSET Edit
                 /\ cmd[c].op = "prune" => m \subseteq cmd[c].mem
                 /\ cmd[c].op \in Growing /\ cmd[c].suggest => "suggested" \in m
    <2>1. PICK dropped \in {{}, Grown}, late \in {{}, {"repaired"}} :
            /\ cmd[c].op \notin Growing => late = {}
            /\ Go(c, [cmd[c] EXCEPT !.at = "json", !.to = cmd[c].dst,
                                    !.mem = Pruned(c, dropped) \cup late
                                            \cup IF cmd[c].op \in Growing THEN Suggested(c) ELSE {}])
      BY DEF Apply
    <2> DEFINE m == Pruned(c, dropped) \cup late \cup IF cmd[c].op \in Growing THEN Suggested(c) ELSE {}
    <2>2. Pruned(c, dropped) \subseteq cmd[c].mem /\ cmd[c].mem \in SUBSET Edit /\ cmd[c].gain \in SUBSET Grown
      BY <1>2 DEF Pruned, CmdRecord
    <2>3. Suggested(c) \in SUBSET Edit /\ (cmd[c].suggest => "suggested" \in Suggested(c))
      BY <2>2 DEF Suggested, Grown, Edit
    <2>4. m \in SUBSET Edit
      BY <2>2, <2>3 DEF Edit
    <2>5. cmd[c].op = "prune" => m \subseteq cmd[c].mem
      BY <2>1, <2>2 DEF Growing
    <2>6. cmd[c].op \in Growing /\ cmd[c].suggest => "suggested" \in m
      BY <2>3
    <2> QED BY <2>1, <2>4, <2>5, <2>6
  <1> DEFINE r == [cmd[c] EXCEPT !.at = "json", !.to = cmd[c].dst, !.mem = m]
  <1>4. /\ r \in CmdRecord /\ r.mem = m /\ r.at = "json" /\ r.to = cmd[c].dst /\ r.op = cmd[c].op /\ r.src = cmd[c].src
        /\ r.dst = cmd[c].dst /\ r.end = cmd[c].end /\ r.suggest = cmd[c].suggest
    BY <1>2, <1>3 DEF CmdRecord, CmdAt
  <1>5. Becoming(c, r) /\ Writes({})
    BY <1>1, <1>2, <1>3, <1>4, NothingWritten DEF Becoming
  <1> HIDE DEF r
  <1>6. /\ r.at \notin Streaming /\ r.at \in Settled /\ cmd[c].at \in Settled \ {"load"} /\ r.end = "none"
        /\ cmd[c].src # 0 /\ cmd[c].dst # 0 /\ cmd[c].src # cmd[c].dst /\ cmd[c].op \notin InPlace
    BY <1>1, <1>2, <1>4, FolderAssumption DEF Streaming, Settled, CmdAt, Placed, Dir, Runs, Pruning, Growing, InPlace
  <1>7. Stands(r)
    BY <1>1, <1>2, <1>4, <1>6 DEF Stands, Placed, Filing
  <1>8. Own(r) \subseteq Own(cmd[c])
    BY <1>1, <1>4 DEF Own
  <1>9. Local(r, folder')
    <2>1. Tears(r, folder') /\ Billing(r, folder')
      BY <1>4, <1>6 DEF Tears, Billing
    <2>2. folder[cmd[c].dst].owl = Absent
      BY <1>1, <1>2, <1>6 DEF Local, DstFresh, Closing, Filing, Streaming
    <2>3. OwlBelow(r, folder') /\ DstFresh(r, folder')
      BY <1>1, <1>4, <2>2 DEF OwlBelow, DstFresh, Whole
    <2>4. Suggests(r)
      BY <1>3, <1>4 DEF Suggests
    <2> QED BY <2>1, <2>3, <2>4 DEF Local
  <1>10. KeepsSource(cmd[c], r) /\ GainsNothing(cmd[c], r)
    BY <1>1, <1>3, <1>4, <1>6 DEF KeepsSource, GainsNothing, WritesSrc, Prunes, Filing
  <1> QED BY <1>1, <1>2, <1>4, <1>5, <1>6, <1>7, <1>8, <1>9, <1>10, QuietStep

LEMMA ManifestHolds ==
  ASSUME FoldersHold, NEW c \in Cmd, WriteManifest(c)
  PROVE  FoldersHold'
  <1>1. /\ cmd[c].at = "manifest" /\ UNCHANGED <<made, begun, cuts>> /\ Working(c) /\ ~Streams(c)
        /\ folder' = [folder EXCEPT ![cmd[c].to].manifest = TRUE]
    BY DEF WriteManifest, Keep, Working, Streams
  <1>2. /\ FoldersTyped /\ cmd[c] \in CmdRecord /\ Stands(cmd[c]) /\ Placed(cmd[c]) /\ Local(cmd[c], folder)
    BY OneCmd
  <1>3. /\ cmd[c].to = cmd[c].dst /\ cmd[c].to \in Dir /\ cmd[c].dst # 0 /\ cmd[c].op \notin InPlace
        /\ (cmd[c].src # 0 => cmd[c].src # cmd[c].dst) /\ cmd[c].end = "none"
    BY <1>1, <1>2 DEF Placed, CmdRecord, Filing, Streaming
  <1>4. Writes({})
    BY <1>1, <1>2, <1>3, NothingWritten
  <1>5. CASE Go(c, [cmd[c] EXCEPT !.at = "report"]) /\ cmd[c].src # 0
    <2> DEFINE r == [cmd[c] EXCEPT !.at = "report"]
    <2>1. /\ r \in CmdRecord /\ r.mem = cmd[c].mem /\ r.at = "report" /\ r.to = cmd[c].to /\ r.op = cmd[c].op
          /\ r.src = cmd[c].src /\ r.dst = cmd[c].dst /\ r.end = cmd[c].end /\ r.suggest = cmd[c].suggest
      BY <1>2 DEF CmdRecord, CmdAt
    <2>2. Becoming(c, r)
      BY <1>5, <2>1 DEF Becoming
    <2> HIDE DEF r
    <2>3. r.at \notin Streaming /\ cmd[c].at \in Settled \ {"load"}
      BY <1>1, <2>1 DEF Streaming, Settled, CmdAt
    <2>4. Stands(r)
      BY <1>1, <1>2, <1>3, <1>5, <2>1 DEF Stands, Placed, Filing, Streaming
    <2>5. Own(r) \subseteq Own(cmd[c])
      BY <1>1, <2>1 DEF Own
    <2>6. Local(r, folder')
      <3>1. Tears(r, folder') /\ Billing(r, folder') /\ OwlBelow(r, folder')
        BY <1>3, <2>1 DEF Tears, Billing, OwlBelow
      <3>2. DstFresh(r, folder') /\ Suggests(r)
        BY <1>1, <1>2, <1>3, <1>5, <2>1 DEF DstFresh, Suggests, Local, Closing
      <3> QED BY <3>1, <3>2 DEF Local
    <2>7. KeepsSource(cmd[c], r) /\ GainsNothing(cmd[c], r)
      BY <1>3, <2>1, <2>3 DEF KeepsSource, GainsNothing, WritesSrc, Prunes, Filing, Streaming
    <2> QED BY <1>1, <1>4, <2>1, <2>2, <2>3, <2>4, <2>5, <2>6, <2>7, QuietStep
  <1>6. CASE Go(c, EndsAs(c, "done")) /\ cmd[c].op = "merge"
    <2>1. cmd[c].op \notin Runs
      BY <1>6 DEF Runs, Pruning, Growing
    <2> QED BY <1>1, <1>4, <1>6, <2>1, StopStep
  <1>7. CASE Go(c, [cmd[c] EXCEPT !.at = "name", !.src = cmd[c].dst, !.dst = 0]) /\ cmd[c].src = 0 /\ cmd[c].op # "merge"
    <2> DEFINE r == [cmd[c] EXCEPT !.at = "name", !.src = cmd[c].dst, !.dst = 0]
    <2>1. /\ r \in CmdRecord /\ r.at = "name" /\ r.op = cmd[c].op
          /\ r.src = cmd[c].dst /\ r.dst = 0 /\ r.end = cmd[c].end
      BY <1>2 DEF CmdRecord, CmdAt
    <2>2. Becoming(c, r)
      BY <1>7, <2>1 DEF Becoming
    <2> HIDE DEF r
    <2>3. r.at \notin Streaming /\ cmd[c].at \in Settled \ {"load"} /\ r.at \notin Settled
      BY <1>1, <2>1 DEF Streaming, Settled, CmdAt
    <2>4. Stands(r)
      BY <1>1, <1>2, <1>3, <1>7, <2>1 DEF Stands, Placed, Filing, Streaming
    <2>5. Own(r) \subseteq Own(cmd[c])
      BY <1>1, <1>3, <2>1 DEF Own, Dir
    <2>6. Local(r, folder')
      BY <1>3, <2>1, <2>3 DEF Local, Tears, OwlBelow, DstFresh, Suggests, Billing, Closing, Filing, Streaming
    <2>7. KeepsSource(cmd[c], r) /\ GainsNothing(cmd[c], r)
      BY <1>3, <2>1, <2>3 DEF KeepsSource, GainsNothing, WritesSrc, Prunes, Filing, Streaming
    <2> QED BY <1>1, <1>4, <2>1, <2>2, <2>3, <2>4, <2>5, <2>6, <2>7, QuietStep
  <1> QED BY <1>5, <1>6, <1>7 DEF WriteManifest

-----------------------------------------------------------------------------
(* The files are opened and written where they stand. *)
LEMMA FileStep ==
  ASSUME FoldersHold, NEW c, NEW r, Becoming(c, r), cmd[c].at \in Filing, Writes({cmd[c].to}),
         UNCHANGED <<made, begun, cuts>>, Stands(r), Own(r) \subseteq Own(cmd[c]),
         r.src \in {cmd[c].src, 0},
         r.at \in Settled /\ r.dst # 0 => r.dst = cmd[c].dst,
         Local(r, folder'), Rewrites(c, cmd[c].to), KeepsSource(cmd[c], r), GainsNothing(cmd[c], r), TornCounted',
         LET g == folder'[cmd[c].to] IN Whole(g.json) /\ Whole(g.owl) => g.owl \subseteq g.json
  PROVE  FoldersHold'
  <1> DEFINE t == cmd[c].to
  <1>1. /\ FoldersTyped /\ OwnsApart /\ UnmadeAbsent /\ OwlBelowJson /\ CutsCounted /\ c \in Cmd
        /\ (\A e \in Cmd : Local(cmd[e], folder)) /\ \A e \in Cmd : AddsNothing(cmd[e])
    BY DEF FoldersHold, Becoming
  <1>2. r \in CmdRecord /\ cmd' \in [Cmd -> CmdRecord] /\ cmd[c].at \in Settled /\ Working(c)
    BY <1>1, OnlyCmd DEF Filing, Streaming, Settled, CmdAt, Working
  <1>3. t \in Own(cmd[c]) /\ t \in made /\ \A d \in Dir \ {t} : SameCopies(d)
    BY <1>1, OwnFolders DEF Writes
  <1>4. FoldersTyped'
    BY <1>1, <1>2 DEF FoldersTyped, Writes
  <1>5. OwnsApart'
    <2>1. \A e \in Cmd \ {c} : Apart(r, cmd[e]) /\ Apart(cmd[e], r)
      BY <1>1, <1>2, ApartStays
    <2>2. Stands(r)' /\ made \subseteq made'
      BY DEF Stands
    <2> QED BY <1>1, <2>1, <2>2, OwnStep
  <1>6. \A e \in Cmd : Local(cmd[e], folder)'
    <2>1. {t} \subseteq Own(cmd[c])
      BY <1>3
    <2> QED BY <1>1, <2>1, LocalStep
  <1>7. \A e \in Cmd : AddsNothing(cmd[e])'
    <2>1. \A d \in Dir : Rewrites(c, d)
      BY <1>3 DEF Rewrites, SameCopies
    <2> QED BY <1>1, <2>1, AddsNothingStep
  <1>8. CutsCounted'
    BY <1>1, <1>2, StillAtWork
  <1>9. UnmadeAbsent'
    <2>1. \A d \in Dir \ made : SameCopies(d)
      BY <1>3
    <2> QED BY <1>1, <2>1 DEF UnmadeAbsent, SameCopies
  <1>10. OwlBelowJson'
    <2> SUFFICES ASSUME NEW d \in Dir PROVE Whole(folder'[d].json) /\ Whole(folder'[d].owl) => folder'[d].owl \subseteq folder'[d].json
      BY DEF OwlBelowJson, Whole
    <2>1. CASE d = t
      BY <2>1
    <2>2. CASE d # t
      BY <1>1, <1>3, <2>2 DEF OwlBelowJson, SameCopies
    <2> QED BY <2>1, <2>2
  <1> QED BY <1>4, <1>5, <1>6, <1>7, <1>8, <1>9, <1>10 DEF FoldersHold

\* What stands of a command that is writing a file, and of the folder it writes.
LEMMA AtFile ==
  ASSUME FoldersHold, NEW c \in Cmd, cmd[c].at \in Filing
  PROVE  /\ FoldersTyped /\ TornCounted /\ OwlBelowJson /\ cmd[c] \in CmdRecord /\ Stands(cmd[c]) /\ Placed(cmd[c])
         /\ Local(cmd[c], folder)
         /\ cmd[c].to \in Dir /\ folder[cmd[c].to] \in FolderRecord /\ folder \in [Dir -> FolderRecord]
         /\ cmd[c].mem \in SUBSET Edit /\ cmd[c].mem # Torn /\ cmd[c].mem # Absent
         /\ cmd[c].at \in Settled \ {"load"} /\ cmd[c].end = "none" /\ cmd[c].to \in {cmd[c].src, cmd[c].dst}
         /\ (cmd[c].src # 0 => cmd[c].src # cmd[c].dst)
  <1>1. /\ FoldersTyped /\ TornCounted /\ OwlBelowJson /\ cmd[c] \in CmdRecord /\ Stands(cmd[c]) /\ Placed(cmd[c])
        /\ Local(cmd[c], folder)
    BY OneCmd DEF FoldersHold
  <1>2. cmd[c].to # 0 /\ cmd[c].to \in {cmd[c].src, cmd[c].dst} /\ cmd[c].end = "none" /\ (cmd[c].src # 0 => cmd[c].src # cmd[c].dst)
    BY <1>1 DEF Placed, Filing, Streaming
  <1>3. cmd[c].to \in Dir /\ cmd[c].mem \in SUBSET Edit
    BY <1>1, <1>2 DEF CmdRecord
  <1>4. cmd[c].mem # Torn /\ cmd[c].mem # Absent
    BY <1>3 DEF Torn, Absent, Edit, Grown
  <1>5. folder[cmd[c].to] \in FolderRecord /\ folder \in [Dir -> FolderRecord]
    BY <1>1, <1>3 DEF FoldersTyped
  <1>6. cmd[c].at \in Settled \ {"load"}
    BY DEF Filing, Streaming, Settled, CmdAt
  <1> QED BY <1>1, <1>2, <1>3, <1>4, <1>5, <1>6

\* One file of a folder takes another copy.
LEMMA FileTurns ==
  ASSUME FoldersTyped, NEW d \in Dir, NEW g \in FolderRecord, folder' = [folder EXCEPT ![d] = g],
         g.cost = folder[d].cost
  PROVE  /\ Writes({d}) /\ folder'[d] = g
         /\ \A e \in Dir \ {d} : SameCopies(e)
  BY DEF FoldersTyped, Writes, SameCopies

LEMMA OtherCopies ==
  ASSUME FoldersTyped, NEW d \in Dir, folder' \in [Dir -> FolderRecord]
  PROVE  /\ TornCopies(d)' = {f \in {"json", "owl"} : folder'[d][f] = Torn}
         /\ "json" \in TornCopies(d) <=> folder[d].json = Torn
         /\ "owl" \in TornCopies(d) <=> folder[d].owl = Torn
         /\ "json" \in TornCopies(d)' <=> folder'[d].json = Torn
         /\ "owl" \in TornCopies(d)' <=> folder'[d].owl = Torn
         /\ TornCopies(d) \subseteq {"json", "owl"} /\ TornCopies(d)' \subseteq {"json", "owl"}
  <1>1. TornCopies(d)' = {f \in {"json", "owl"} : folder'[d][f] = Torn}
    BY DEF TornCopies, Torn
  <1> QED BY <1>1 DEF TornCopies

\* Between the files of one folder only the place of a command changes.
LEMMA FileGoes ==
  ASSUME FoldersHold, NEW c \in Cmd, cmd[c].at \in Filing, NEW a \in Filing, GoTo(c, a), Keep,
         NEW t, t = cmd[c].to, NEW g \in FolderRecord, folder' = [folder EXCEPT ![t] = g], g.cost = folder[t].cost,
         a = "streaming json" => g.json = Torn,
         a = "streaming owl" => g.owl = Torn,
         a \in {"owl", "streaming owl"} => g.json = cmd[c].mem,
         a = "streaming json" => cmd[c].at = "json" /\ g.owl = folder[t].owl,
         Rewrites(c, t), TornCounted',
         Whole(g.json) /\ Whole(g.owl) => g.owl \subseteq g.json,
         a # "json"
  PROVE  FoldersHold'
  <1> DEFINE r == [cmd[c] EXCEPT !.at = a]
  <1>1. /\ FoldersTyped /\ cmd[c] \in CmdRecord /\ Placed(cmd[c]) /\ Stands(cmd[c]) /\ Local(cmd[c], folder)
        /\ t \in Dir /\ cmd[c].at \in Settled \ {"load"} /\ cmd[c].end = "none"
        /\ t \in {cmd[c].src, cmd[c].dst} /\ (cmd[c].src # 0 => cmd[c].src # cmd[c].dst)
    BY AtFile
  <1>2. /\ r \in CmdRecord /\ r.mem = cmd[c].mem /\ r.at = a /\ r.to = cmd[c].to /\ r.op = cmd[c].op
        /\ r.src = cmd[c].src /\ r.dst = cmd[c].dst /\ r.end = cmd[c].end /\ r.suggest = cmd[c].suggest
    BY <1>1 DEF CmdRecord, CmdAt, Filing, Streaming
  <1>3. Becoming(c, r) /\ UNCHANGED <<made, begun, cuts>>
    BY <1>2 DEF Becoming, GoTo, Keep
  <1> HIDE DEF r
  <1>4. Writes({t}) /\ folder'[t] = g /\ \A e \in Dir \ {t} : SameCopies(e)
    BY <1>1, FileTurns
  <1>5. Stands(r)
    BY <1>1, <1>2 DEF Stands, Placed, Filing, Streaming
  <1>6. Own(r) \subseteq Own(cmd[c])
    BY <1>1, <1>2 DEF Own, Filing, Streaming
  <1>7. Local(r, folder')
    <2>1. Tears(r, folder') /\ Billing(r, folder')
      BY <1>1, <1>2, <1>4 DEF Tears, Billing
    <2>2. OwlBelow(r, folder')
      BY <1>1, <1>2, <1>4 DEF OwlBelow, Local, Filing, Streaming
    <2>3. r.dst # 0 /\ r.to # r.dst => folder'[r.dst].owl = Absent
      <3>1. r.dst # 0 => r.dst \in Dir
        BY <1>1, <1>2 DEF CmdRecord
      <3>2. r.dst # 0 /\ r.to # r.dst => folder[r.dst].owl = Absent
        BY <1>1, <1>2 DEF DstFresh, Local
      <3> QED BY <1>2, <1>4, <3>1, <3>2 DEF SameCopies
    <2>4. DstFresh(r, folder') /\ Suggests(r)
      BY <1>1, <1>2, <2>3 DEF DstFresh, Suggests, Local, Closing
    <2> QED BY <2>1, <2>2, <2>4 DEF Local
  <1>8. KeepsSource(cmd[c], r) /\ GainsNothing(cmd[c], r)
    BY <1>1, <1>2 DEF KeepsSource, GainsNothing, WritesSrc, Prunes, Filing, Streaming
  <1> QED BY <1>1, <1>2, <1>3, <1>4, <1>5, <1>6, <1>7, <1>8, FileStep

LEMMA OpenJsonHolds ==
  ASSUME FoldersHold, NEW c \in Cmd, OpenJson(c)
  PROVE  FoldersHold'
  <1>0. PICK t : t = cmd[c].to
    OBVIOUS
  <1> DEFINE g == [folder[t] EXCEPT !.json = Torn]
  <1>1. cmd[c].at = "json" /\ cmd[c].at \in Filing /\ folder' = [folder EXCEPT ![t] = g] /\ GoTo(c, "streaming json") /\ Keep
    BY <1>0 DEF OpenJson, Filing
  <1>2. FoldersTyped /\ TornCounted /\ cmd[c] \in CmdRecord /\ t \in Dir /\ folder[t] \in FolderRecord
    BY <1>0, <1>1, AtFile
  <1>3. g \in FolderRecord /\ g.json = Torn /\ g.owl = folder[t].owl /\ g.cost = folder[t].cost
    BY <1>2 DEF FolderRecord, JsonCopy
  <1> HIDE DEF g
  <1>4. Writes({t}) /\ folder'[t] = g /\ \A e \in Dir \ {t} : SameCopies(e)
    BY <1>1, <1>2, <1>3, FileTurns
  <1>5. Rewrites(c, t)
    BY <1>0, <1>3, <1>4 DEF Rewrites, Whole
  <1>6. TornCounted'
    <2> DEFINE r == [cmd[c] EXCEPT !.at = "streaming json"]
    <2>1. r \in CmdRecord /\ r.at \in Streaming /\ r.to = t
      BY <1>0, <1>2 DEF CmdRecord, CmdAt, Streaming
    <2>2. Becoming(c, r) /\ UNCHANGED cuts /\ ~Streams(c)
      BY <1>1, <2>1 DEF Becoming, GoTo, Keep, Streams
    <2> HIDE DEF r
    <2>3. TornCopies(t)' \subseteq TornCopies(t) \cup {"json"}
      BY <1>2, <1>3, <1>4, OtherCopies DEF Writes
    <2> QED BY <1>0, <1>2, <1>4, <2>1, <2>2, <2>3, StreamTurns
  <1>7. ~Whole(g.json)
    BY <1>3 DEF Whole
  <1> DEFINE a == "streaming json"
  <1>8. a \in Filing /\ a # "json"
    BY DEF Filing, Streaming
  <1>9. /\ a = "streaming json" => g.json = Torn /\ cmd[c].at = "json" /\ g.owl = folder[t].owl
        /\ a = "streaming owl" => g.owl = Torn
        /\ a \in {"owl", "streaming owl"} => g.json = cmd[c].mem
        /\ Whole(g.json) /\ Whole(g.owl) => g.owl \subseteq g.json
    BY <1>0, <1>1, <1>3, <1>5, <1>7
  <1>10. GoTo(c, a) /\ Keep /\ folder' = [folder EXCEPT ![t] = g] /\ g.cost = folder[t].cost
    BY <1>1, <1>3
  <1> HIDE DEF a
  <1> QED BY <1>0, <1>1, <1>3, <1>5, <1>6, <1>8, <1>9, <1>10, FileGoes

LEMMA WroteJsonHolds ==
  ASSUME FoldersHold, NEW c \in Cmd, WroteJson(c)
  PROVE  FoldersHold'
  <1>0. PICK t : t = cmd[c].to
    OBVIOUS
  <1> DEFINE m == cmd[c].mem
             g == [folder[t] EXCEPT !.json = m]
  <1>1. cmd[c].at = "streaming json" /\ cmd[c].at \in Filing /\ folder' = [folder EXCEPT ![t] = g] /\ GoTo(c, "owl") /\ Keep
    BY <1>0 DEF WroteJson, Filing, Streaming
  <1>2. /\ FoldersTyped /\ TornCounted /\ cmd[c] \in CmdRecord /\ t \in Dir /\ folder[t] \in FolderRecord
        /\ m \in SUBSET Edit /\ m # Torn /\ Local(cmd[c], folder) /\ t \in {cmd[c].src, cmd[c].dst} /\ cmd[c].at \in Settled
    BY <1>0, <1>1, AtFile
  <1>3. g \in FolderRecord /\ g.json = m /\ g.owl = folder[t].owl /\ g.cost = folder[t].cost
    <2>1. m \in JsonCopy
      BY <1>2 DEF JsonCopy
    <2> QED BY <1>2, <2>1 DEF FolderRecord
  <1> HIDE DEF g
  <1>4. Writes({t}) /\ folder'[t] = g /\ \A e \in Dir \ {t} : SameCopies(e)
    BY <1>1, <1>2, <1>3, FileTurns
  <1>5. Rewrites(c, t)
    BY <1>0, <1>1, <1>2, <1>3, <1>4 DEF Rewrites, WritesSrc
  <1>6. TornCounted'
    <2> DEFINE r == [cmd[c] EXCEPT !.at = "owl"]
    <2>1. r \in CmdRecord /\ r.at \notin Streaming /\ r.to = t
      BY <1>0, <1>2 DEF CmdRecord, CmdAt, Streaming
    <2>2. Becoming(c, r) /\ UNCHANGED cuts /\ Streams(c)
      BY <1>1, <2>1 DEF Becoming, GoTo, Keep, Streams
    <2> HIDE DEF r
    <2>3. folder[t].json = Torn
      BY <1>0, <1>1, <1>2 DEF Local, Tears
    <2>4. "json" \in TornCopies(t) /\ TornCopies(t)' = TornCopies(t) \ {"json"}
      BY <1>2, <1>3, <1>4, <2>3, OtherCopies DEF Writes
    <2> QED BY <1>0, <1>2, <1>4, <2>1, <2>2, <2>4, StreamTurns
  <1>7. Whole(g.owl) => g.owl \subseteq g.json
    BY <1>0, <1>1, <1>2, <1>3 DEF Local, OwlBelow
  <1> DEFINE a == "owl"
  <1>8. a \in Filing /\ a # "json"
    BY DEF Filing, Streaming
  <1>9. /\ a = "streaming json" => g.json = Torn /\ cmd[c].at = "json" /\ g.owl = folder[t].owl
        /\ a = "streaming owl" => g.owl = Torn
        /\ a \in {"owl", "streaming owl"} => g.json = cmd[c].mem
        /\ Whole(g.json) /\ Whole(g.owl) => g.owl \subseteq g.json
    BY <1>0, <1>1, <1>3, <1>5, <1>7
  <1>10. GoTo(c, a) /\ Keep /\ folder' = [folder EXCEPT ![t] = g] /\ g.cost = folder[t].cost
    BY <1>1, <1>3
  <1> HIDE DEF a
  <1> QED BY <1>0, <1>1, <1>3, <1>5, <1>6, <1>8, <1>9, <1>10, FileGoes

LEMMA OpenOwlHolds ==
  ASSUME FoldersHold, NEW c \in Cmd, OpenOwl(c)
  PROVE  FoldersHold'
  <1>0. PICK t : t = cmd[c].to
    OBVIOUS
  <1> DEFINE g == [folder[t] EXCEPT !.owl = Torn]
  <1>1. cmd[c].at = "owl" /\ cmd[c].at \in Filing /\ folder' = [folder EXCEPT ![t] = g] /\ GoTo(c, "streaming owl") /\ Keep
    BY <1>0 DEF OpenOwl, Filing
  <1>2. /\ FoldersTyped /\ TornCounted /\ cmd[c] \in CmdRecord /\ t \in Dir /\ folder[t] \in FolderRecord
        /\ Local(cmd[c], folder)
    BY <1>0, <1>1, AtFile
  <1>3. g \in FolderRecord /\ g.json = folder[t].json /\ g.owl = Torn /\ g.cost = folder[t].cost
    BY <1>2 DEF FolderRecord, OwlCopy
  <1> HIDE DEF g
  <1>4. Writes({t}) /\ folder'[t] = g /\ \A e \in Dir \ {t} : SameCopies(e)
    BY <1>1, <1>2, <1>3, FileTurns
  <1>5. Rewrites(c, t) /\ g.json = cmd[c].mem
    BY <1>0, <1>1, <1>2, <1>3, <1>4 DEF Rewrites, Local, Tears
  <1>6. TornCounted'
    <2> DEFINE r == [cmd[c] EXCEPT !.at = "streaming owl"]
    <2>1. r \in CmdRecord /\ r.at \in Streaming /\ r.to = t
      BY <1>0, <1>2 DEF CmdRecord, CmdAt, Streaming
    <2>2. Becoming(c, r) /\ UNCHANGED cuts /\ ~Streams(c)
      BY <1>1, <2>1 DEF Becoming, GoTo, Keep, Streams
    <2> HIDE DEF r
    <2>3. TornCopies(t)' \subseteq TornCopies(t) \cup {"owl"}
      BY <1>2, <1>3, <1>4, OtherCopies DEF Writes
    <2> QED BY <1>0, <1>2, <1>4, <2>1, <2>2, <2>3, StreamTurns
  <1>7. ~Whole(g.owl)
    BY <1>3 DEF Whole
  <1> DEFINE a == "streaming owl"
  <1>8. a \in Filing /\ a # "json"
    BY DEF Filing, Streaming
  <1>9. /\ a = "streaming json" => g.json = Torn /\ cmd[c].at = "json" /\ g.owl = folder[t].owl
        /\ a = "streaming owl" => g.owl = Torn
        /\ a \in {"owl", "streaming owl"} => g.json = cmd[c].mem
        /\ Whole(g.json) /\ Whole(g.owl) => g.owl \subseteq g.json
    BY <1>0, <1>1, <1>3, <1>5, <1>7
  <1>10. GoTo(c, a) /\ Keep /\ folder' = [folder EXCEPT ![t] = g] /\ g.cost = folder[t].cost
    BY <1>1, <1>3
  <1> HIDE DEF a
  <1> QED BY <1>0, <1>1, <1>3, <1>5, <1>6, <1>8, <1>9, <1>10, FileGoes

LEMMA WroteOwlHolds ==
  ASSUME FoldersHold, NEW c \in Cmd, WroteOwl(c)
  PROVE  FoldersHold'
  <1>0. PICK t : t = cmd[c].to
    OBVIOUS
  <1> DEFINE m == cmd[c].mem \ {"compact"}
             g == [folder[t] EXCEPT !.owl = m]
  <1>1. /\ cmd[c].at = "streaming owl" /\ cmd[c].at \in Filing /\ folder' = [folder EXCEPT ![t] = g]
        /\ UNCHANGED <<made, begun, cuts>> /\ Streams(c)
    BY <1>0 DEF WroteOwl, Filing, Streaming, Keep, Streams
  <1>2. /\ FoldersTyped /\ TornCounted /\ cmd[c] \in CmdRecord /\ Placed(cmd[c]) /\ Stands(cmd[c]) /\ Local(cmd[c], folder)
        /\ t \in Dir /\ folder[t] \in FolderRecord /\ cmd[c].mem \in SUBSET Edit
        /\ cmd[c].at \in Settled \ {"load"} /\ cmd[c].end = "none" /\ t \in {cmd[c].src, cmd[c].dst}
        /\ (cmd[c].src # 0 => cmd[c].src # cmd[c].dst)
    BY <1>0, <1>1, AtFile
  <1>3. g \in FolderRecord /\ g.json = folder[t].json /\ g.owl = m /\ g.cost = folder[t].cost /\ m # Torn
    <2>1. m \in OwlCopy
      BY <1>2 DEF OwlCopy
    <2>2. m # Torn
      BY <1>2 DEF Torn, Edit, Grown
    <2> QED BY <1>2, <2>1, <2>2 DEF FolderRecord
  <1>4. m \subseteq cmd[c].mem
    OBVIOUS
  <1> HIDE DEF g, m
  <1>5. Writes({t}) /\ folder'[t] = g /\ \A e \in Dir \ {t} : SameCopies(e)
    BY <1>1, <1>2, <1>3, FileTurns
  <1>6. Rewrites(c, t) /\ g.json = cmd[c].mem
    BY <1>0, <1>1, <1>2, <1>3, <1>5 DEF Rewrites, Local, Tears
  <1>7. Whole(g.json) /\ Whole(g.owl) => g.owl \subseteq g.json
    BY <1>3, <1>4, <1>6
  <1>8. "owl" \in TornCopies(t) /\ TornCopies(t)' = TornCopies(t) \ {"owl"}
    <2>1. folder[t].owl = Torn
      BY <1>0, <1>1, <1>2 DEF Local, Tears
    <2> QED BY <1>2, <1>3, <1>5, <2>1, OtherCopies DEF Writes
  <1>9. ASSUME NEW r, Becoming(c, r), r.at \notin Streaming PROVE TornCounted'
    BY <1>0, <1>1, <1>2, <1>5, <1>8, <1>9, StreamTurns
  <1>10. Whole(folder'[t].json) /\ Whole(folder'[t].owl) => folder'[t].owl \subseteq folder'[t].json
    BY <1>5, <1>7
  <1>11. ASSUME NEW r, Becoming(c, r), r.at \notin Filing \cup {"edit", "compact", "idle"}, Stands(r), Own(r) \subseteq Own(cmd[c]),
                r.src = cmd[c].src, r.dst = cmd[c].dst, r.op = cmd[c].op, r.mem = cmd[c].mem, r.end = "none", Local(r, folder')
         PROVE  FoldersHold'
    <2>1. KeepsSource(cmd[c], r) /\ GainsNothing(cmd[c], r)
      BY <1>2, <1>11 DEF KeepsSource, GainsNothing, WritesSrc, Prunes
    <2>2. TornCounted'
      BY <1>9, <1>11 DEF Filing
    <2> QED BY <1>0, <1>1, <1>5, <1>6, <1>10, <1>11, <2>1, <2>2, FileStep
  <1>12. CASE t = cmd[c].dst /\ Go(c, [cmd[c] EXCEPT !.at = "manifest"])
    <2> DEFINE r == [cmd[c] EXCEPT !.at = "manifest"]
    <2>1. /\ r \in CmdRecord /\ r.mem = cmd[c].mem /\ r.at = "manifest" /\ r.to = cmd[c].to /\ r.op = cmd[c].op
          /\ r.src = cmd[c].src /\ r.dst = cmd[c].dst /\ r.end = cmd[c].end /\ r.suggest = cmd[c].suggest
      BY <1>2 DEF CmdRecord, CmdAt
    <2>2. Becoming(c, r)
      BY <1>12, <2>1 DEF Becoming
    <2> HIDE DEF r
    <2>3. Stands(r)
      <3>1. cmd[c].dst # 0 /\ cmd[c].op \notin InPlace
        BY <1>0, <1>2, <1>12, FolderAssumption DEF Placed, Dir
      <3> QED BY <1>0, <1>1, <1>2, <1>12, <2>1, <3>1 DEF Stands, Placed, Filing, Streaming
    <2>4. Own(r) \subseteq Own(cmd[c])
      BY <1>1, <2>1 DEF Own
    <2>5. Local(r, folder')
      <3>1. Tears(r, folder') /\ OwlBelow(r, folder') /\ Billing(r, folder')
        BY <1>2, <2>1 DEF Tears, OwlBelow, Billing
      <3>2. DstFresh(r, folder') /\ Suggests(r)
        BY <1>0, <1>1, <1>2, <1>12, <2>1 DEF DstFresh, Suggests, Local, Closing
      <3> QED BY <3>1, <3>2 DEF Local
    <2>6. r.at \notin Filing \cup {"edit", "compact", "idle"} /\ r.end = "none"
      BY <1>2, <2>1 DEF Filing, Streaming
    <2> QED BY <1>11, <2>1, <2>2, <2>3, <2>4, <2>5, <2>6
  <1>13. CASE t # cmd[c].dst /\ cmd[c].op \notin InPlace /\ Go(c, [cmd[c] EXCEPT !.at = "select"])
    <2> DEFINE r == [cmd[c] EXCEPT !.at = "select"]
    <2>1. /\ r \in CmdRecord /\ r.mem = cmd[c].mem /\ r.at = "select" /\ r.to = cmd[c].to /\ r.op = cmd[c].op
          /\ r.src = cmd[c].src /\ r.dst = cmd[c].dst /\ r.end = cmd[c].end /\ r.suggest = cmd[c].suggest
      BY <1>2 DEF CmdRecord, CmdAt
    <2>2. Becoming(c, r)
      BY <1>13, <2>1 DEF Becoming
    <2> HIDE DEF r
    <2>3. t = cmd[c].src /\ cmd[c].src # 0
      BY <1>2, <1>13, FolderAssumption DEF Dir
    <2>4. Stands(r)
      BY <1>1, <1>2, <1>13, <2>1, <2>3 DEF Stands, Placed, Filing, Streaming
    <2>5. Own(r) \subseteq Own(cmd[c])
      BY <1>1, <2>1 DEF Own
    <2>6. Local(r, folder')
      <3>1. Tears(r, folder') /\ OwlBelow(r, folder') /\ Billing(r, folder') /\ Suggests(r)
        BY <1>2, <2>1 DEF Tears, OwlBelow, Billing, Suggests, Closing, Filing, Streaming
      <3>2. r.dst # 0 => folder[r.dst].owl = Absent
        BY <1>0, <1>1, <1>2, <1>13, <2>1 DEF DstFresh, Local
      <3>3. r.dst # 0 => r.dst \in Dir
        BY <2>1 DEF CmdRecord
      <3>4. DstFresh(r, folder')
        BY <1>5, <1>13, <2>1, <3>2, <3>3 DEF DstFresh, SameCopies
      <3> QED BY <3>1, <3>4 DEF Local
    <2>7. r.at \notin Filing \cup {"edit", "compact", "idle"} /\ r.end = "none"
      BY <1>2, <2>1 DEF Filing, Streaming
    <2> QED BY <1>11, <2>1, <2>2, <2>4, <2>5, <2>6, <2>7
  <1>14. CASE cmd[c].op \in InPlace /\ Go(c, EndsAs(c, "done"))
    <2> DEFINE r == EndsAs(c, "done")
    <2>1. r = [Rest EXCEPT !.end = "done"] /\ "done" \in CmdEnd
      BY <1>14 DEF EndsAs, CmdEnd, InPlace, Runs, Pruning, Growing
    <2>2. r \in CmdRecord /\ r.at = "idle" /\ r.src = 0 /\ r.dst = 0 /\ r.op = "merge" /\ r.end = "done"
      BY <2>1, RestAs
    <2>3. Becoming(c, r)
      BY <1>14, <2>2 DEF Becoming
    <2> HIDE DEF r
    <2>4. Stands(r)
      BY <2>2 DEF Stands, Placed, Filing, Streaming, Runs, Pruning, Growing
    <2>5. Own(r) = {} /\ r.at \notin Streaming /\ r.at \notin Settled
      BY <2>2 DEF Own, Streaming, Settled
    <2>6. Local(r, folder')
      BY <2>2, <2>5 DEF Local, Tears, OwlBelow, DstFresh, Suggests, Billing, Growing
    <2>7. KeepsSource(cmd[c], r) /\ GainsNothing(cmd[c], r)
      BY <2>2, <2>5 DEF KeepsSource, GainsNothing, WritesSrc, Prunes, Filing, Streaming
    <2>8. TornCounted'
      BY <1>9, <2>3, <2>5
    <2> QED BY <1>0, <1>1, <1>5, <1>6, <1>10, <2>2, <2>3, <2>4, <2>5, <2>6, <2>7, <2>8, FileStep
  <1> QED BY <1>0, <1>12, <1>13, <1>14 DEF WroteOwl

\* A killed command is forgotten; what it was writing stays torn.
LEMMA CrashHolds ==
  ASSUME FoldersHold, NEW c \in Cmd, Crash(c)
  PROVE  FoldersHold'
  <1>0. PICK r : r = [Rest EXCEPT !.end = "crashed"]
    OBVIOUS
  <1>1. r = EndsAs(c, "crashed") /\ r = [Rest EXCEPT !.end = "crashed"] /\ "crashed" \in CmdEnd
    BY <1>0 DEF EndsAs, CmdEnd
  <1>2. r \in CmdRecord /\ r.at = "idle" /\ r.src = 0 /\ r.dst = 0 /\ r.op = "merge" /\ r.end = "crashed"
    BY <1>1, RestAs
  <1>3. /\ Working(c) /\ Go(c, r) /\ UNCHANGED <<made, begun>> /\ folder' = folder /\ Becoming(c, r)
        /\ cuts' = IF Streams(c) THEN [cuts EXCEPT ![cmd[c].to] = @ + 1] ELSE cuts
    BY <1>1, <1>2 DEF Crash, Becoming
  <1>4. /\ FoldersTyped /\ OwnsApart /\ UnmadeAbsent /\ OwlBelowJson /\ TornCounted /\ CutsCounted
        /\ (\A e \in Cmd : Local(cmd[e], folder)) /\ \A e \in Cmd : AddsNothing(cmd[e])
    BY DEF FoldersHold
  <1>5. Own(r) = {} /\ r.at \notin Streaming /\ r.at \notin Settled
    BY <1>2 DEF Own, Streaming, Settled
  <1>6. Writes({}) /\ \A d \in Dir : SameCopies(d)
    BY <1>3, <1>4, NothingWritten DEF SameCopies
  <1>7. cmd[c].to \in Dir \/ ~Streams(c)
    BY AtFile DEF Streams, Filing, Streaming
  <1>8. cuts' \in [Dir -> Nat] /\ \A d \in Dir : cuts'[d] \in {cuts[d], cuts[d] + 1}
    BY <1>3, <1>4, <1>7 DEF FoldersTyped
  <1>9. FoldersTyped'
    BY <1>3, <1>4, <1>8, OnlyCmd DEF FoldersTyped
  <1>10. OwnsApart'
    <2>1. Stands(r)' /\ made \subseteq made'
      BY <1>2, <1>3 DEF Stands, Placed, Filing, Streaming, Runs, Pruning, Growing
    <2>2. \A e \in Cmd \ {c} : Apart(r, cmd[e]) /\ Apart(cmd[e], r)
      BY <1>2, <1>5 DEF Apart
    <2> QED BY <1>3, <1>4, <2>1, <2>2, OwnStep
  <1>11. Local(r, folder')
    BY <1>2, <1>5 DEF Local, Tears, OwlBelow, DstFresh, Suggests, Billing, Growing
  <1>12. \A e \in Cmd : Local(cmd[e], folder)'
    BY <1>3, <1>4, <1>6, <1>11, LocalStep
  <1>13. \A e \in Cmd : AddsNothing(cmd[e])'
    <2>1. KeepsSource(cmd[c], r) /\ GainsNothing(cmd[c], r)
      BY <1>2, <1>5 DEF KeepsSource, GainsNothing, WritesSrc, Prunes, Filing, Streaming
    <2>2. \A d \in Dir : Rewrites(c, d)
      BY <1>3 DEF Rewrites
    <2> QED BY <1>3, <1>4, <2>1, <2>2, AddsNothingStep
  <1>14. TornCounted'
    BY <1>2, <1>3, <1>4, <1>6, <1>7, StreamDies
  <1>15. CutsCounted'
    BY <1>2, <1>3, <1>4, <1>8, OneLessAtWork
  <1>16. UnmadeAbsent' /\ OwlBelowJson'
    BY <1>3, <1>4 DEF UnmadeAbsent, OwlBelowJson, Whole
  <1> QED BY <1>9, <1>10, <1>12, <1>13, <1>14, <1>15, <1>16 DEF FoldersHold

-----------------------------------------------------------------------------
LEMMA FoldersStart ==
  ASSUME FoldersInit
  PROVE  FoldersHold
  <1> DEFINE whole == [Empty EXCEPT !.json = {}, !.owl = {}, !.manifest = TRUE]
  <1>1. /\ made = {1} /\ begun = 0 /\ cuts = [d \in Dir |-> 0] /\ cmd = [c \in Cmd |-> Rest]
        /\ folder = [d \in Dir |-> IF d = 1 THEN whole ELSE Empty]
    BY DEF FoldersInit
  <1>2. /\ Empty \in FolderRecord /\ Empty.json = Absent /\ Empty.owl = Absent
    BY DEF Empty, FolderRecord, JsonCopy, OwlCopy
  <1>3. whole \in FolderRecord /\ whole.json = {} /\ whole.owl = {}
    <2>1. {} \in JsonCopy /\ {} \in OwlCopy
      BY DEF JsonCopy, OwlCopy
    <2> QED BY <1>2, <2>1 DEF FolderRecord
  <1> HIDE DEF whole
  <1>4. Absent # Torn /\ {} # Torn /\ ~Whole(Absent)
    BY DEF Absent, Torn, Whole
  <1>5. FoldersTyped
    <2>1. made \in SUBSET Dir /\ begun \in 0..MaxCommands
      BY <1>1, FolderAssumption DEF Dir
    <2>2. folder \in [Dir -> FolderRecord] /\ cmd \in [Cmd -> CmdRecord] /\ cuts \in [Dir -> Nat]
      BY <1>1, <1>2, <1>3, RestIs
    <2> QED BY <2>1, <2>2 DEF FoldersTyped
  <1>6. \A c \in Cmd : cmd[c] = Rest
    BY <1>1
  <1>7. OwnsApart
    <2>1. Stands(Rest)
      BY RestIs DEF Stands, Placed, Filing, Streaming
    <2>2. Apart(Rest, Rest)
      BY RestIs DEF Apart, Own, Settled
    <2> QED BY <1>6, <2>1, <2>2 DEF OwnsApart
  <1>8. \A c \in Cmd : Local(cmd[c], folder) /\ AddsNothing(cmd[c])
    <2>1. Local(Rest, folder)
      BY RestIs DEF Local, Tears, OwlBelow, DstFresh, Suggests, Billing, Settled, Growing
    <2>2. ~Prunes(Rest)
      BY RestIs DEF Prunes
    <2> QED BY <1>6, <2>1, <2>2 DEF AddsNothing
  <1>9. UnmadeAbsent /\ OwlBelowJson
    BY <1>1, <1>2, <1>3, <1>4 DEF UnmadeAbsent, OwlBelowJson
  <1>10. TornCounted
    <2> SUFFICES ASSUME NEW d \in Dir PROVE Cardinality(TornCopies(d)) <= cuts[d] + Cardinality(StreamsTo(d))
      BY DEF TornCounted
    <2>1. folder[d].json # Torn /\ folder[d].owl # Torn
      BY <1>1, <1>2, <1>3, <1>4
    <2>2. folder[d] \in FolderRecord
      BY <1>5 DEF FoldersTyped
    <2>3. TornCopies(d) = {}
      BY <2>1, <2>2 DEF TornCopies, FolderRecord
    <2>4. StreamsTo(d) \in SUBSET Cmd /\ cuts[d] = 0
      BY <1>1 DEF StreamsTo
    <2>5. Cardinality(StreamsTo(d)) \in Nat /\ Cardinality(TornCopies(d)) = 0
      BY <2>3, <2>4, CmdFinite, FS_EmptySet
    <2> QED BY <2>4, <2>5
  <1>11. CutsCounted
    <2>1. AtWork = {}
      BY <1>6, RestIs DEF AtWork, Working
    <2> QED BY <1>1, <2>1, FS_EmptySet DEF CutsCounted
  <1> QED BY <1>5, <1>7, <1>8, <1>9, <1>10, <1>11 DEF FoldersHold

LEMMA NextFolders ==
  ASSUME FoldersHold, [FoldersNext]_folderVars
  PROVE  FoldersHold'
  <1>1. CASE FoldersNext
    <2>1. PICK c \in Cmd :
            \/ \E op \in Op, d \in Dir \cup {0}, dry, sug \in BOOLEAN : Begin(c, op, d, dry, sug)
            \/ NameDir(c) \/ MakeDir(c) \/ Load(c) \/ EditInPlace(c) \/ Compact(c)
            \/ OpenJson(c) \/ WroteJson(c) \/ OpenOwl(c) \/ WroteOwl(c) \/ WriteManifest(c) \/ WriteBill(c)
            \/ Select(c) \/ MineTables(c) \/ Summarize(c) \/ Classify(c) \/ ProposeStage(c) \/ Dedup(c)
            \/ StagesFail(c) \/ Apply(c) \/ Crash(c)
      BY <1>1 DEF FoldersNext
    <2>2. CASE NameDir(c) \/ MakeDir(c) \/ Load(c) \/ EditInPlace(c) \/ Compact(c)
      BY <2>2, NameDirHolds, MakeDirHolds, LoadHolds, EditInPlaceHolds, CompactHolds
    <2>3. CASE OpenJson(c) \/ WroteJson(c) \/ OpenOwl(c) \/ WroteOwl(c) \/ WriteManifest(c) \/ WriteBill(c)
      BY <2>3, OpenJsonHolds, WroteJsonHolds, OpenOwlHolds, WroteOwlHolds, ManifestHolds, BillHolds
    <2>4. CASE Select(c) \/ MineTables(c) \/ Summarize(c) \/ Classify(c) \/ ProposeStage(c) \/ Dedup(c)
      BY <2>4, SelectHolds, MineTablesHolds, StagesHold, ProposeHolds
    <2>5. CASE StagesFail(c) \/ Apply(c) \/ Crash(c)
      BY <2>5, StagesFailHolds, ApplyHolds, CrashHolds
    <2>6. CASE \E op \in Op, d \in Dir \cup {0}, dry, sug \in BOOLEAN : Begin(c, op, d, dry, sug)
      BY <2>6, BeginHolds
    <2> QED BY <2>1, <2>2, <2>3, <2>4, <2>5, <2>6
  <1>2. CASE UNCHANGED folderVars
    <2>1. UNCHANGED <<made, folder, cmd, begun, cuts>>
      BY <1>2 DEF folderVars
    <2>2. FoldersTyped' /\ UnmadeAbsent' /\ OwlBelowJson'
      BY <2>1 DEF FoldersHold, FoldersTyped, UnmadeAbsent, OwlBelowJson, Whole
    <2>3. OwnsApart'
      BY <2>1 DEF FoldersHold, OwnsApart, Stands, Apart, Own
    <2>4. \A c \in Cmd : Local(cmd[c], folder)'
      BY <2>1 DEF FoldersHold, Local, Tears, OwlBelow, DstFresh, Suggests, Billing, Whole
    <2>5. \A c \in Cmd : AddsNothing(cmd[c])'
      BY <2>1 DEF FoldersHold, AddsNothing, Prunes, WritesSrc, Whole
    <2>6. TornCounted' /\ CutsCounted'
      BY <2>1 DEF FoldersHold, TornCounted, TornCopies, StreamsTo, Streams, CutsCounted, AtWork, Working
    <2> QED BY <2>2, <2>3, <2>4, <2>5, <2>6 DEF FoldersHold
  <1> QED BY <1>1, <1>2

LEMMA FoldersShow ==
  ASSUME FoldersHold
  PROVE  FoldersInv /\ FoldersTypeOK
  <1>1. FoldersTyped /\ OwnsApart
    BY DEF FoldersHold
  <1>2. CopiesInv
    BY DEF FoldersHold, CopiesInv, TornCounted, StreamsTo, OwlBelowJson
  <1>3. OneOwner
    <2> SUFFICES ASSUME NEW c \in Cmd, NEW d \in Cmd, c # d, Working(c), Working(d), cmd[c].dst = cmd[d].dst,
                        cmd[c].dst # 0, cmd[c].at # "mkdir", cmd[d].at # "mkdir"
                 PROVE  FALSE
      BY DEF OneOwner
    <2>1. cmd[c].dst \in Dir
      BY <1>1 DEF FoldersTyped, CmdRecord
    <2>2. cmd[c].dst \in Own(cmd[c]) \cap Own(cmd[d])
      BY <2>1 DEF Own, Working
    <2> QED BY <1>1, <2>2 DEF OwnsApart, Apart
  <1>4. ASSUME NEW c \in Cmd PROVE RunKept(c)
    <2>1. Local(cmd[c], folder) /\ AddsNothing(cmd[c]) /\ cmd[c].op \in Op
      BY OneCmd DEF CmdRecord
    <2> QED BY <2>1 DEF RunKept, Local, Suggests, Billing, AddsNothing, Prunes
  <1>5. FoldersTypeOK
    <2>1. \A d \in Dir : /\ folder[d].json \in (SUBSET Edit) \cup {Torn, Absent}
                         /\ folder[d].owl \in (SUBSET (Edit \ {"compact"})) \cup {Torn, Absent}
      BY <1>1 DEF FoldersTyped, FolderRecord, JsonCopy, OwlCopy
    <2>2. \A c \in Cmd : cmd[c].mem \subseteq Edit /\ cmd[c].gain \subseteq Grown /\ cmd[c].op \in Op
      BY <1>1 DEF FoldersTyped, CmdRecord
    <2>3. cuts \in [Dir -> 0..MaxCommands]
      <3>1. AtWork \in SUBSET Cmd
        BY DEF AtWork
      <3>2. \A d \in Dir : cuts[d] \in Nat /\ cuts[d] <= MaxCommands
        BY <1>1, <3>1, CmdFinite, FolderAssumption DEF FoldersTyped, FoldersHold, CutsCounted
      <3> QED BY <1>1, <3>2, FolderAssumption DEF FoldersTyped
    <2> QED BY <1>1, <2>1, <2>2, <2>3 DEF FoldersTyped, FoldersTypeOK
  <1> QED BY <1>2, <1>3, <1>4, <1>5 DEF FoldersInv

LEMMA FoldersAlways == Spec => []FoldersHold
  <1>1. Init => FoldersHold
    BY FoldersStart DEF Init
  <1>2. FoldersHold /\ [Next]_buildVars => FoldersHold'
    <2> SUFFICES ASSUME FoldersHold, [Next]_buildVars PROVE FoldersHold'
      OBVIOUS
    <2>1. [FoldersNext]_folderVars
      BY DEF Next, buildVars
    <2> QED BY <2>1, NextFolders
  <1> QED BY <1>1, <1>2, PTL DEF Spec

\* Whoever is killed and whoever begins with whom: at most one copy is torn for each command cut
\* in a folder, no folder has two makers, a bill is left and a prune has added nothing.
THEOREM FoldersStand == Spec => []FoldersInv
  BY FoldersAlways, FoldersShow, PTL

-----------------------------------------------------------------------------
(***************************************************************************)
(* Class proposals                                                         *)
(***************************************************************************)
PStage == {"classified", "propose", "dedup", "coerce", "emitted", "stopped"}
DedupJob == [parts : Seq(SUBSET PLabel), tries : 0..2]
KnownTypes == out \cup matched \cup PEntity \cup {"NONE", "IRI"}

ProposalsTyped ==
  /\ pstage \in PStage /\ todo \in SUBSET PChunk /\ inCall \in SUBSET PChunk /\ skipped \in SUBSET PChunk
  /\ paid \in Nat /\ over \in BOOLEAN /\ failed \in BOOLEAN
  /\ matched \in SUBSET PKnown /\ proposed \in SUBSET PLabel /\ out \in SUBSET PLabel
  /\ DOMAIN typeOf = (proposed \cup out) \cap PEntity /\ \A i \in DOMAIN typeOf : typeOf[i] \in TypeLabel
  /\ batches \in SUBSET DedupJob /\ \A b \in batches : Len(b.parts) \in 1..2

\* What a call under way may cost is set aside when it starts, so that the flag may come late.
BudgetKept ==
  /\ Cardinality(inCall) <= Proposing
  /\ pstage = "classified" => inCall = {} /\ skipped = {} /\ ~over /\ paid <= PCap + 1
  /\ pstage # "classified" => paid + Cardinality(inCall) <= PCap + Proposing
  /\ pstage = "propose" /\ ~over => paid <= PCap
  /\ over => paid > PCap
  /\ skipped # {} => over
  /\ pstage \in {"dedup", "coerce", "emitted"} => paid <= PCap

NothingLost ==
  /\ pstage \in {"classified", "propose"} => out = {}
  /\ pstage = "coerce" =>
       /\ \A c \in proposed \cap PClass : c \in matched \cup out
       /\ \A i \in proposed \cap PEntity : i \in out /\ typeOf[i] \in KnownTypes
  /\ EmittedIsWhole

ProposalsHold == ProposalsTyped /\ BudgetKept /\ NothingLost

LEMMA ChunksFinite ==
  \A S \in SUBSET PChunk : IsFiniteSet(S) /\ Cardinality(S) \in Nat
  BY ProposalsAssumption, FS_Subset, FS_CardinalityType

LEMMA ProposalsStart ==
  ASSUME ProposalsInit
  PROVE  ProposalsHold
  <1>1. Cardinality({}) = 0 /\ DOMAIN <<>> = {}
    BY FS_EmptySet
  <1>2. paid \in Nat /\ paid <= PCap + 1
    BY ProposalsAssumption DEF ProposalsInit
  <1>3. ProposalsTyped
    BY <1>1, <1>2 DEF ProposalsInit, ProposalsTyped, PStage
  <1>4. BudgetKept
    BY <1>1, <1>2, ProposalsAssumption DEF ProposalsInit, BudgetKept
  <1>5. NothingLost
    BY DEF ProposalsInit, NothingLost, EmittedIsWhole
  <1> QED BY <1>3, <1>4, <1>5 DEF ProposalsHold

LEMMA StartStage2Holds ==
  ASSUME ProposalsHold, StartStage2
  PROVE  ProposalsHold'
  <1>1. /\ pstage = "classified" /\ pstage' = (IF paid > PCap THEN "stopped" ELSE "propose")
        /\ UNCHANGED <<todo, inCall, skipped, paid, over, matched, proposed, typeOf, batches, failed, out, stands>>
    BY DEF StartStage2
  <1>2. ProposalsTyped'
    BY <1>1 DEF ProposalsHold, ProposalsTyped, PStage
  <1>3. BudgetKept'
    <2>1. /\ inCall' = {} /\ Cardinality(inCall') = 0 /\ skipped' = {} /\ ~over' /\ paid' = paid /\ paid <= PCap + 1
      BY <1>1, FS_EmptySet DEF ProposalsHold, BudgetKept
    <2>2. paid \in Nat /\ PCap \in Nat /\ Proposing \in Nat \ {0}
      BY ProposalsAssumption DEF ProposalsHold, ProposalsTyped
    <2>3. pstage' \in {"stopped", "propose"} /\ (pstage' = "propose" => paid' <= PCap)
      BY <1>1, <2>1, <2>2
    <2>4. paid' + Cardinality(inCall') <= PCap + Proposing
      BY <2>1, <2>2
    <2> QED BY <2>1, <2>2, <2>3, <2>4 DEF BudgetKept
  <1>4. NothingLost'
    BY <1>1 DEF ProposalsHold, NothingLost, EmittedIsWhole
  <1> QED BY <1>2, <1>3, <1>4 DEF ProposalsHold

LEMMA AskHolds ==
  ASSUME ProposalsHold, NEW c \in todo, Ask(c)
  PROVE  ProposalsHold'
  <1>1. /\ pstage = "propose" /\ Cardinality(inCall) < Proposing /\ todo' = todo \ {c} /\ c \in PChunk
        /\ UNCHANGED <<pstage, paid, over, matched, proposed, typeOf, batches, failed, out, stands>>
    BY DEF Ask, ProposalsHold, ProposalsTyped
  <1>2. CASE over /\ skipped' = skipped \cup {c} /\ UNCHANGED inCall
    <2>1. ProposalsTyped'
      BY <1>1, <1>2 DEF ProposalsHold, ProposalsTyped
    <2>2. BudgetKept'
      BY <1>1, <1>2 DEF ProposalsHold, BudgetKept
    <2>3. NothingLost'
      BY <1>1 DEF ProposalsHold, NothingLost, EmittedIsWhole
    <2> QED BY <2>1, <2>2, <2>3 DEF ProposalsHold
  <1>3. CASE ~over /\ inCall' = inCall \cup {c} /\ UNCHANGED skipped
    <2>1. ProposalsTyped'
      BY <1>1, <1>3 DEF ProposalsHold, ProposalsTyped
    <2>2. /\ Cardinality(inCall') <= Cardinality(inCall) + 1 /\ Cardinality(inCall') \in Nat
          /\ Cardinality(inCall) \in Nat /\ paid \in Nat
      BY <1>1, <1>3, ChunksFinite, FiniteTurns DEF ProposalsHold, ProposalsTyped
    <2>3. BudgetKept'
      BY <1>1, <1>3, <2>2, ProposalsAssumption DEF ProposalsHold, BudgetKept
    <2>4. NothingLost'
      BY <1>1 DEF ProposalsHold, NothingLost, EmittedIsWhole
    <2> QED BY <2>1, <2>3, <2>4 DEF ProposalsHold
  <1> QED BY <1>2, <1>3 DEF Ask

LEMMA ReturnsHolds ==
  ASSUME ProposalsHold, NEW c \in inCall, NEW bill \in {0, 1}, Returns(c, bill)
  PROVE  /\ BudgetKept' /\ pstage = "propose" /\ out = {} /\ inCall' \in SUBSET PChunk /\ paid' \in Nat /\ over' \in BOOLEAN
         /\ UNCHANGED <<pstage, todo, skipped, batches, failed, out, stands>>
  <1>1. /\ pstage = "propose" /\ inCall' = inCall \ {c} /\ paid' = paid + bill /\ over' = (over \/ paid' > PCap)
        /\ UNCHANGED <<pstage, todo, skipped, batches, failed, out, stands>>
    BY DEF Returns
  <1>2. /\ inCall \in SUBSET PChunk /\ paid \in Nat /\ over \in BOOLEAN /\ out = {}
    BY <1>1 DEF ProposalsHold, ProposalsTyped, NothingLost
  <1>3. Cardinality(inCall') = Cardinality(inCall) - 1 /\ Cardinality(inCall) \in Nat
    BY <1>1, <1>2, ChunksFinite, FiniteTurns
  <1>4. BudgetKept'
    <2>1. BudgetKept
      BY DEF ProposalsHold
    <2>2. PCap \in Nat /\ Proposing \in Nat /\ Cardinality(inCall) + paid <= PCap + Proposing
      BY <1>1, <1>2, <1>3, <2>1, ProposalsAssumption DEF BudgetKept
    <2>3. paid' + Cardinality(inCall') <= PCap + Proposing /\ Cardinality(inCall') <= Proposing /\ paid' \in Nat
      BY <1>1, <1>2, <1>3, <2>1, <2>2 DEF BudgetKept
    <2>4. (over' => paid' > PCap) /\ (~over' => paid' <= PCap)
      <3>1. over => paid > PCap
        BY <2>1 DEF BudgetKept
      <3>2. over => paid' > PCap
        BY <1>1, <1>2, <2>2, <3>1
      <3>3. CASE over
        BY <1>1, <3>2, <3>3
      <3>4. CASE ~over
        <4>1. over' <=> paid' > PCap
          BY <1>1, <3>4
        <4>2. paid' > PCap \/ paid' <= PCap
          BY <2>2, <2>3
        <4> QED BY <4>1, <4>2
      <3> QED BY <3>3, <3>4
    <2>5. skipped' # {} => over'
      BY <1>1, <2>1 DEF BudgetKept
    <2> QED BY <1>1, <2>3, <2>4, <2>5 DEF BudgetKept
  <1> QED BY <1>1, <1>2, <1>4

LEMMA TakesHolds ==
  ASSUME ProposalsTyped, out = {}, NEW new \in SUBSET PLabel, NEW types, NEW met \in SUBSET PKnown,
         \A i \in PEntity : types[i] \in TypeLabel, Takes(new, types, met), out' = out
  PROVE  /\ matched' \in SUBSET PKnown /\ proposed' \in SUBSET PLabel /\ DOMAIN typeOf' = (proposed' \cup out') \cap PEntity
         /\ \A i \in DOMAIN typeOf' : typeOf'[i] \in TypeLabel
  BY DEF ProposalsTyped, Takes

LEMMA ReplyHolds ==
  ASSUME ProposalsHold, NEW c \in inCall,
         \/ \E new \in SUBSET PLabel, met \in SUBSET PKnown, t \in TypeLabel : Propose(c, new, [i \in PEntity |-> t], met)
         \/ \E bill \in {0, 1} : ProposeFails(c, bill)
  PROVE  ProposalsHold'
  <1>1. CASE \E new \in SUBSET PLabel, met \in SUBSET PKnown, t \in TypeLabel : Propose(c, new, [i \in PEntity |-> t], met)
    <2>1. PICK new \in SUBSET PLabel, met \in SUBSET PKnown, t \in TypeLabel :
                 Returns(c, 1) /\ Takes(new, [i \in PEntity |-> t], met)
      BY <1>1 DEF Propose
    <2>2. /\ BudgetKept' /\ pstage = "propose" /\ out = {} /\ inCall' \in SUBSET PChunk /\ paid' \in Nat /\ over' \in BOOLEAN
          /\ UNCHANGED <<pstage, todo, skipped, batches, failed, out, stands>>
      BY <2>1, ReturnsHolds
    <2> DEFINE types == [i \in PEntity |-> t]
    <2>3. \A i \in PEntity : types[i] \in TypeLabel
      OBVIOUS
    <2> HIDE DEF types
    <2>4. /\ matched' \in SUBSET PKnown /\ proposed' \in SUBSET PLabel /\ DOMAIN typeOf' = (proposed' \cup out') \cap PEntity
          /\ \A i \in DOMAIN typeOf' : typeOf'[i] \in TypeLabel
      BY <2>1, <2>2, <2>3, TakesHolds DEF types, ProposalsHold
    <2>5. ProposalsTyped'
      BY <2>2, <2>4 DEF ProposalsHold, ProposalsTyped
    <2>6. NothingLost'
      BY <2>2 DEF NothingLost, EmittedIsWhole
    <2> QED BY <2>2, <2>5, <2>6 DEF ProposalsHold
  <1>2. CASE \E bill \in {0, 1} : ProposeFails(c, bill)
    <2>1. PICK bill \in {0, 1} : Returns(c, bill) /\ UNCHANGED <<matched, proposed, typeOf>>
      BY <1>2 DEF ProposeFails
    <2>2. /\ BudgetKept' /\ pstage = "propose" /\ out = {} /\ inCall' \in SUBSET PChunk /\ paid' \in Nat /\ over' \in BOOLEAN
          /\ UNCHANGED <<pstage, todo, skipped, batches, failed, out, stands>>
      BY <2>1, ReturnsHolds
    <2>3. ProposalsTyped'
      BY <2>1, <2>2 DEF ProposalsHold, ProposalsTyped
    <2>4. NothingLost'
      BY <2>2 DEF NothingLost, EmittedIsWhole
    <2> QED BY <2>2, <2>3, <2>4 DEF ProposalsHold
  <1> QED BY <1>1, <1>2

LEMMA EndStage2Holds ==
  ASSUME ProposalsHold, NEW new \in SUBSET PLabel, NEW t \in TypeLabel, EndStage2(new, [i \in PEntity |-> t])
  PROVE  ProposalsHold'
  <1> DEFINE types == [i \in PEntity |-> t]
  <1>1. /\ pstage = "propose" /\ inCall = {} /\ Takes(new, types, {}) /\ pstage' = (IF paid > PCap THEN "stopped" ELSE "dedup")
        /\ UNCHANGED <<todo, inCall, skipped, paid, over, failed, out, stands>>
        /\ \E p \in Batchings(proposed') : batches' = {[parts |-> <<b>>, tries |-> 0] : b \in p}
    BY DEF EndStage2
  <1>2. \A i \in PEntity : types[i] \in TypeLabel
    OBVIOUS
  <1> HIDE DEF types
  <1>3. ProposalsTyped /\ BudgetKept /\ out = {}
    BY <1>1 DEF ProposalsHold, NothingLost
  <1>4. /\ matched' \in SUBSET PKnown /\ proposed' \in SUBSET PLabel /\ DOMAIN typeOf' = (proposed' \cup out') \cap PEntity
        /\ \A i \in DOMAIN typeOf' : typeOf'[i] \in TypeLabel
    <2>1. {} \in SUBSET PKnown
      OBVIOUS
    <2> QED BY <1>1, <1>2, <1>3, <2>1, TakesHolds
  <1>5. batches' \in SUBSET DedupJob /\ \A b \in batches' : Len(b.parts) \in 1..2
    <2>1. PICK p \in Batchings(proposed') : batches' = {[parts |-> <<b>>, tries |-> 0] : b \in p}
      BY <1>1
    <2>2. \A b \in p : b \in SUBSET PLabel
      BY <1>4 DEF Batchings
    <2>3. \A b \in p : <<b>> \in Seq(SUBSET PLabel) /\ Len(<<b>>) = 1
      BY <2>2
    <2>4. ASSUME NEW x \in batches' PROVE x \in DedupJob /\ Len(x.parts) \in 1..2
      <3>1. PICK b \in p : x = [parts |-> <<b>>, tries |-> 0]
        BY <2>1
      <3> QED BY <2>3, <3>1 DEF DedupJob
    <2> QED BY <2>4
  <1>6. ProposalsTyped'
    BY <1>1, <1>3, <1>4, <1>5 DEF ProposalsTyped, PStage
  <1>7. BudgetKept'
    BY <1>1, <1>3, FS_EmptySet, ProposalsAssumption DEF BudgetKept, ProposalsTyped
  <1>8. NothingLost'
    BY <1>1 DEF NothingLost, EmittedIsWhole
  <1> QED BY <1>6, <1>7, <1>8 DEF ProposalsHold

LEMMA LastIsGone ==
  ASSUME NEW S, NEW s \in Seq(S), Len(s) = 2
  PROVE  Tail(s) \in Seq(S) /\ Len(Tail(s)) = 1
  <1>1. s # <<>>
    OBVIOUS
  <1>2. Tail(s) \in Seq(S) /\ Len(Tail(s)) = Len(s) - 1
    BY <1>1
  <1> QED BY <1>2

LEMMA AnswersHold ==
  ASSUME ProposalsHold, NEW b \in batches, NEW back \in SUBSET PLabel, NEW t \in TypeLabel,
         DedupAnswers(b, back, [i \in PEntity |-> t])
  PROVE  ProposalsHold'
  <1>1. /\ pstage = "dedup" /\ out' = out \cup back
        /\ typeOf' = [i \in DOMAIN typeOf \cup (back \cap PEntity) |-> IF i \in back \ out THEN t ELSE typeOf[i]]
        /\ batches' = (batches \ {b}) \cup (IF Len(b.parts) = 1 THEN {} ELSE {[b EXCEPT !.parts = Tail(@)]})
        /\ UNCHANGED <<pstage, todo, inCall, skipped, paid, over, matched, proposed, failed, stands>>
    <2>1. \A i \in PEntity : [j \in PEntity |-> t][i] = t
      OBVIOUS
    <2>2. \A i \in DOMAIN typeOf \cup (back \cap PEntity) : i \in PEntity
      BY DEF ProposalsHold, ProposalsTyped
    <2> QED BY <2>1, <2>2 DEF DedupAnswers
  <1>2. ProposalsTyped /\ BudgetKept /\ b \in DedupJob /\ Len(b.parts) \in 1..2
    BY DEF ProposalsHold, ProposalsTyped
  <1>3. batches' \in SUBSET DedupJob /\ \A x \in batches' : Len(x.parts) \in 1..2
    <2>1. CASE Len(b.parts) = 1
      BY <1>1, <1>2, <2>1 DEF ProposalsTyped
    <2>2. CASE Len(b.parts) # 1
      <3> DEFINE rest == Tail(b.parts)
                 x == [b EXCEPT !.parts = rest]
      <3>1. rest \in Seq(SUBSET PLabel) /\ Len(rest) \in 1..2
        <4> DEFINE S == SUBSET PLabel
        <4>1. b.parts \in Seq(S) /\ Len(b.parts) = 2
          BY <1>2, <2>2 DEF DedupJob
        <4> HIDE DEF S
        <4>2. Tail(b.parts) \in Seq(S) /\ Len(Tail(b.parts)) = 1
          BY <4>1, LastIsGone
        <4> QED BY <4>2 DEF S
      <3> HIDE DEF rest
      <3>2. x \in DedupJob /\ x.parts = rest
        BY <1>2, <3>1 DEF DedupJob
      <3>3. batches' = (batches \ {b}) \cup {x}
        BY <1>1, <2>2 DEF rest
      <3> HIDE DEF x
      <3> QED BY <1>2, <3>1, <3>2, <3>3 DEF ProposalsTyped
    <2> QED BY <2>1, <2>2
  <1>4. DOMAIN typeOf' = (proposed' \cup out') \cap PEntity /\ \A i \in DOMAIN typeOf' : typeOf'[i] \in TypeLabel
    BY <1>1, <1>2 DEF ProposalsTyped
  <1>5. ProposalsTyped'
    BY <1>1, <1>2, <1>3, <1>4 DEF ProposalsTyped
  <1>6. BudgetKept'
    BY <1>1, <1>2 DEF BudgetKept
  <1>7. NothingLost'
    BY <1>1 DEF NothingLost, EmittedIsWhole
  <1> QED BY <1>5, <1>6, <1>7 DEF ProposalsHold

LEMMA DedupFailsHolds ==
  ASSUME ProposalsHold, NEW b \in batches, NEW half \in SUBSET Head(b.parts), DedupFails(b, half)
  PROVE  ProposalsHold'
  <1>1. /\ pstage = "dedup"
        /\ batches' = (batches \ {b}) \cup
             (CASE b.tries = 0 -> {[b EXCEPT !.tries = 1]}
                [] b.tries = 1 /\ Cardinality(Head(b.parts)) > 1 -> {[parts |-> <<half, Head(b.parts) \ half>>, tries |-> 2]}
                [] OTHER -> {})
        /\ failed' \in BOOLEAN
        /\ UNCHANGED <<pstage, todo, inCall, skipped, paid, over, matched, proposed, typeOf, out, stands>>
    BY DEF DedupFails
  <1>2. ProposalsTyped /\ BudgetKept /\ b \in DedupJob /\ Len(b.parts) \in 1..2
    BY DEF ProposalsHold, ProposalsTyped
  <1>3. \A x \in batches' : x \in batches \/ (x \in DedupJob /\ Len(x.parts) \in 1..2)
    <2> DEFINE again == [b EXCEPT !.tries = 1]
               split == [parts |-> <<half, Head(b.parts) \ half>>, tries |-> 2]
    <2>1. again \in DedupJob /\ again.parts = b.parts
      BY <1>2 DEF DedupJob
    <2>2. Head(b.parts) \in SUBSET PLabel
      BY <1>2 DEF DedupJob
    <2>3. split \in DedupJob /\ Len(split.parts) = 2
      BY <2>2 DEF DedupJob
    <2>4. \A x \in batches' : x \in batches \/ x = again \/ x = split
      BY <1>1
    <2> HIDE DEF again, split
    <2> QED BY <1>2, <2>1, <2>3, <2>4
  <1>4. ProposalsTyped'
    <2>1. batches' \in SUBSET DedupJob /\ \A x \in batches' : Len(x.parts) \in 1..2
      BY <1>2, <1>3 DEF ProposalsTyped
    <2> QED BY <1>1, <1>2, <2>1 DEF ProposalsTyped
  <1>5. BudgetKept'
    BY <1>1, <1>2 DEF BudgetKept
  <1>6. NothingLost'
    BY <1>1 DEF NothingLost, EmittedIsWhole
  <1> QED BY <1>4, <1>5, <1>6 DEF ProposalsHold

\* What the model dropped is put back, and what an instance is of is made or known.
LEMMA EndDedupHolds ==
  ASSUME ProposalsHold, EndDedup
  PROVE  ProposalsHold'
  <1> DEFINE whole == Reconciled(out)
             extra == Synthesised(whole)
  <1>1. /\ pstage = "dedup" /\ pstage' = (IF failed THEN "stopped" ELSE "coerce") /\ out' = whole \cup extra
        /\ UNCHANGED <<todo, inCall, skipped, paid, over, matched, proposed, typeOf, batches, failed, stands>>
    BY DEF EndDedup
  <1>2. ProposalsTyped /\ BudgetKept
    BY DEF ProposalsHold
  <1>3. /\ whole \in SUBSET PLabel /\ (proposed \cup whole) \cap PEntity = (proposed \cup out) \cap PEntity
        /\ proposed \cap PEntity \subseteq whole /\ proposed \cap PClass \subseteq whole \cup matched
        /\ whole \cap PEntity \subseteq DOMAIN typeOf
    BY <1>2 DEF ProposalsTyped, Reconciled, PClass
  <1> HIDE DEF whole
  <1>4. /\ extra \in SUBSET PLabel /\ extra \cap PEntity = {}
        /\ \A i \in whole \cap PEntity : typeOf[i] \in extra \cup whole \cup matched \cup PEntity \cup {"NONE", "IRI"}
    BY <1>2, <1>3 DEF ProposalsTyped, Synthesised, TypeLabel
  <1> HIDE DEF extra
  <1>5. out' \in SUBSET PLabel /\ (proposed \cup out') \cap PEntity = (proposed \cup out) \cap PEntity
    BY <1>1, <1>3, <1>4
  <1>6. ProposalsTyped'
    BY <1>1, <1>2, <1>5 DEF ProposalsTyped, PStage
  <1>7. BudgetKept'
    BY <1>1, <1>2 DEF BudgetKept
  <1>8. NothingLost'
    BY <1>1, <1>3, <1>4 DEF NothingLost, EmittedIsWhole, KnownTypes
  <1> QED BY <1>6, <1>7, <1>8 DEF ProposalsHold

LEMMA EmitHolds ==
  ASSUME ProposalsHold, NEW heads \in SUBSET PClass, NEW same \in [out \cap PClass -> out \cap PClass], Emit(same, heads)
  PROVE  ProposalsHold'
  <1> DEFINE coerced(t) == IF t \in PCanon THEN "IRI" ELSE t
             renamed(t) == IF t \in DOMAIN same THEN same[t] ELSE t
             final(t) == renamed(coerced(t))
  <1>1. /\ pstage = "coerce" /\ pstage' = "emitted"
        /\ typeOf' = [i \in DOMAIN typeOf |-> final(typeOf[i])]
        /\ out' = (out \cap PEntity) \cup {same[c] : c \in DOMAIN same} \cup heads
        /\ stands' = same
        /\ UNCHANGED <<todo, inCall, skipped, paid, over, matched, proposed, batches, failed>>
    BY DEF Emit
  <1>2. ProposalsTyped /\ BudgetKept /\ NothingLost
    BY DEF ProposalsHold
  <1>3. /\ out' \in SUBSET PLabel /\ out' \cap PEntity = out \cap PEntity /\ out \cap PEntity \subseteq out'
        /\ \A c \in out \cap PClass : same[c] \in out' /\ same[c] \in PLabel
    BY <1>1, <1>2 DEF ProposalsTyped, PClass
  <1>4. \A t \in TypeLabel : final(t) \in TypeLabel
    BY <1>3 DEF TypeLabel
  <1>5. ASSUME NEW t \in KnownTypes PROVE final(t) \in KnownTypes'
    <2>1. CASE coerced(t) \in DOMAIN same
      BY <1>3, <2>1 DEF KnownTypes
    <2>2. CASE coerced(t) \notin DOMAIN same
      <3>1. coerced(t) \in KnownTypes
        BY <1>5 DEF KnownTypes
      <3>2. coerced(t) \notin out \/ coerced(t) \in PEntity
        BY <1>2, <2>2 DEF ProposalsTyped, PClass
      <3> QED BY <1>1, <2>2, <3>1, <3>2 DEF KnownTypes
    <2> QED BY <2>1, <2>2
  <1> HIDE DEF final
  <1>6. ProposalsTyped'
    <2>1. DOMAIN typeOf' = (proposed' \cup out') \cap PEntity /\ \A i \in DOMAIN typeOf' : typeOf'[i] \in TypeLabel
      BY <1>1, <1>2, <1>3, <1>4 DEF ProposalsTyped
    <2> QED BY <1>1, <1>2, <1>3, <2>1 DEF ProposalsTyped, PStage
  <1>7. BudgetKept'
    BY <1>1, <1>2 DEF BudgetKept
  <1>8. EmittedIsWhole'
    <2>1. skipped = {}
      <3>1. paid <= PCap /\ (over => paid > PCap) /\ (skipped # {} => over)
        BY <1>1, <1>2 DEF BudgetKept
      <3>2. paid \in Nat /\ PCap \in Nat
        BY <1>2, ProposalsAssumption DEF ProposalsTyped
      <3> QED BY <3>1, <3>2
    <2>2. \A c \in proposed \cap PClass : c \in matched \/ (c \in DOMAIN same /\ same[c] \in out')
      BY <1>1, <1>2, <1>3 DEF NothingLost
    <2>3. \A i \in proposed \cap PEntity : i \in out' /\ typeOf'[i] \in KnownTypes'
      BY <1>1, <1>2, <1>3, <1>5 DEF NothingLost, ProposalsTyped
    <2> QED BY <1>1, <2>1, <2>2, <2>3 DEF EmittedIsWhole, KnownTypes
  <1>9. NothingLost'
    BY <1>1, <1>8 DEF NothingLost
  <1> QED BY <1>6, <1>7, <1>9 DEF ProposalsHold

LEMMA NextProposals ==
  ASSUME ProposalsHold, [ProposalsNext]_proposalVars
  PROVE  ProposalsHold'
  <1>1. CASE StartStage2
    BY <1>1, StartStage2Holds
  <1>2. CASE \E c \in todo : Ask(c)
    BY <1>2, AskHolds
  <1>3. CASE \E c \in inCall :
               \/ \E new \in SUBSET PLabel, met \in SUBSET PKnown, t \in TypeLabel :
                    Cardinality(new) <= 2 /\ Propose(c, new, [i \in PEntity |-> t], met)
               \/ \E bill \in {0, 1} : ProposeFails(c, bill)
    BY <1>3, ReplyHolds
  <1>4. CASE \E new \in SUBSET PLabel, t \in TypeLabel : Cardinality(new) <= 1 /\ EndStage2(new, [i \in PEntity |-> t])
    BY <1>4, EndStage2Holds
  <1>5. ASSUME NEW b \in batches, NEW back \in SUBSET (IF Head(b.parts) \subseteq PEntity THEN PEntity ELSE PClass),
               NEW t \in TypeLabel, DedupAnswers(b, back, [i \in PEntity |-> t])
        PROVE  ProposalsHold'
    <2>1. back \in SUBSET PLabel
      BY <1>5, ProposalsAssumption DEF PClass
    <2> QED BY <1>5, <2>1, AnswersHold
  <1>6. ASSUME NEW b \in batches, NEW half \in SUBSET Head(b.parts), DedupFails(b, half) PROVE ProposalsHold'
    BY <1>6, DedupFailsHolds
  <1>7. CASE EndDedup
    BY <1>7, EndDedupHolds
  <1>8. ASSUME NEW heads \in SUBSET PClass, NEW same \in [out \cap PClass -> out \cap PClass], Emit(same, heads)
        PROVE  ProposalsHold'
    BY <1>8, EmitHolds
  <1>9. CASE UNCHANGED proposalVars
    BY <1>9 DEF proposalVars, ProposalsHold, ProposalsTyped, BudgetKept, NothingLost, EmittedIsWhole, KnownTypes
  <1> QED BY <1>1, <1>2, <1>3, <1>4, <1>5, <1>6, <1>7, <1>8, <1>9 DEF ProposalsNext

LEMMA ProposalsShow ==
  ASSUME ProposalsHold
  PROVE  ProposalsInv /\ ProposalsTypeOK
  <1>1. ProposalsInv
    <2>1. Cardinality(inCall) \in Nat
      BY ChunksFinite DEF ProposalsHold, ProposalsTyped
    <2> QED BY <2>1, ProposalsAssumption DEF ProposalsHold, ProposalsTyped, BudgetKept, NothingLost, ProposalsInv, OvershootBounded
  <1>2. ProposalsTypeOK
    BY DEF ProposalsHold, ProposalsTyped, BudgetKept, ProposalsTypeOK, DedupJob
  <1> QED BY <1>1, <1>2

LEMMA ProposalsAlways == Spec => []ProposalsHold
  <1>1. Init => ProposalsHold
    BY ProposalsStart DEF Init
  <1>2. ProposalsHold /\ [Next]_buildVars => ProposalsHold'
    <2> SUFFICES ASSUME ProposalsHold, [Next]_buildVars PROVE ProposalsHold'
      OBVIOUS
    <2>1. [ProposalsNext]_proposalVars
      BY DEF Next, buildVars
    <2> QED BY <2>1, NextProposals
  <1> QED BY <1>1, <1>2, PTL DEF Spec

\* A run that ends has asked every chunk and lost no class that was proposed, and none has paid
\* for more calls past its cap than were under way, for any batches, answers and failures.
THEOREM ProposalsStand == Spec => []ProposalsInv
  BY ProposalsAlways, ProposalsShow, PTL

-----------------------------------------------------------------------------
(***************************************************************************)
(* Summaries                                                               *)
(***************************************************************************)
\* What a cache entry of the evaluated method covers, whatever chain of runs wrote it.
CacheHolds ==
  /\ DOMAIN cache = LongDoc
  /\ CacheIsWhole

LEMMA NextCache ==
  ASSUME CacheHolds, [SummariesNext]_summaryVars
  PROVE  CacheHolds'
  <1>1. ASSUME NEW d \in LongDoc, Settle(d) PROVE CacheHolds'
    <2>1. /\ cache' = IF Complete(d) /\ cache[d] = {} THEN [cache EXCEPT ![d] = Covered(d)] ELSE cache
          /\ method' = method
      BY <1>1 DEF Settle
    <2>2. method = "evaluated" /\ Complete(d) => Covered(d) = WindowsIn(d)
      BY DEF Complete, PartIsEnough
    <2>3. DOMAIN cache' = LongDoc
      BY <2>1 DEF CacheHolds
    <2>4. ASSUME method = "evaluated", NEW e \in LongDoc PROVE cache'[e] \in {{}, WindowsIn(e)}
      BY <1>1, <2>1, <2>2, <2>4 DEF CacheHolds, CacheIsWhole
    <2> QED BY <2>1, <2>3, <2>4 DEF CacheHolds, CacheIsWhole, WindowsIn
  <1>2. ASSUME UNCHANGED <<method, cache>> PROVE CacheHolds'
    BY <1>2 DEF CacheHolds, CacheIsWhole, WindowsIn
  <1>3. CASE StartRun \/ StartWindows \/ EndRun \/ SummaryCrash
    BY <1>2, <1>3 DEF StartRun, StartWindows, EndRun, SummaryCrash
  <1>4. CASE \E w \in calling : (\E hasText \in BOOLEAN : Answer(w, hasText)) \/ CallFails(w)
    <2>1. \A w, to, cost : Returned(w, to, cost) => UNCHANGED <<method, cache>>
      BY DEF Returned
    <2> QED BY <1>2, <1>4, <2>1 DEF Answer, CallFails
  <1>5. CASE \E d \in LongDoc : AskSubject(d)
    BY <1>2, <1>5 DEF AskSubject
  <1>6. CASE UNCHANGED summaryVars
    BY <1>2, <1>6 DEF summaryVars
  <1> QED BY <1>1, <1>3, <1>4, <1>5, <1>6 DEF SummariesNext

\* A cached evaluated summary covers its whole document, for any documents, windows, semaphore
\* and cost cap, over any number of runs, failed calls and crashes.
THEOREM CacheStaysWhole == Spec => []CacheIsWhole
  <1>1. Init => CacheHolds
    BY DEF Init, SummariesInit, CacheHolds, CacheIsWhole
  <1>2. CacheHolds /\ [Next]_buildVars => CacheHolds'
    <2> SUFFICES ASSUME CacheHolds, [Next]_buildVars PROVE CacheHolds'
      OBVIOUS
    <2>1. [SummariesNext]_summaryVars
      BY DEF Next, buildVars
    <2> QED BY <2>1, NextCache
  <1>3. CacheHolds => CacheIsWhole
    BY DEF CacheHolds
  <1> QED BY <1>1, <1>2, <1>3, PTL DEF Spec

-----------------------------------------------------------------------------
(***************************************************************************)
(* The chains of the windows and the semaphore they share                  *)
(***************************************************************************)
Asking == {"summarize", "questions", "evaluate", "revise", "subject"}

\* Each task holds or waits for a slot at most once.
OneTurn(holders, queue) ==
  /\ holders \subseteq Task /\ IsFiniteSet(holders) /\ Cardinality(holders) <= Slots
  /\ queue \in Seq(Task) /\ \A i, j \in 1..Len(queue) : queue[i] = queue[j] => i = j
  /\ \A i \in 1..Len(queue) : queue[i] \notin holders

Turns == OneTurn(calling, waiting)

ChainsTyped ==
  /\ step \in [Task -> Asking \cup Ended \cup {"none"}] /\ round \in [Task -> Nat]
  /\ \A w \in Task : /\ round[w] <= EvalRounds + 1 /\ (step[w] = "revise" => round[w] <= EvalRounds)
                     /\ step[w] \in {"none", "summarize", "questions", "subject"} => round[w] = 0
  /\ text \subseteq Task /\ spent \in 0..CostCap + 1
  /\ \A w \in calling : step[w] \in Asking
  /\ \A i \in 1..Len(waiting) : step[waiting[i]] \in Asking

CacheTyped ==
  /\ DOMAIN cache = LongDoc /\ \A d \in LongDoc : cache[d] \subseteq WindowsIn(d)
  /\ titled \subseteq LongDoc /\ \A d \in titled : cache[d] # {}

SummariesHold == Turns /\ ChainsTyped /\ CacheTyped

LEMMA SummariesShow ==
  ASSUME SummariesHold
  PROVE  SummariesTypeOK
  <1>1. ToSet(waiting) = {waiting[i] : i \in 1..Len(waiting)}
    BY DEF SummariesHold, Turns, OneTurn, ToSet
  <1>2. calling \cap ToSet(waiting) = {}
    BY <1>1 DEF SummariesHold, Turns, OneTurn
  <1>3. \A w \in calling \cup ToSet(waiting) : step[w] \in Asking
    BY <1>1 DEF SummariesHold, ChainsTyped
  <1>4. \A w \in Task : round[w] \in 0..EvalRounds + 1
    BY SummariesAssumption DEF SummariesHold, ChainsTyped
  <1> QED BY <1>2, <1>3, <1>4 DEF SummariesHold, SummariesTypeOK, Turns, OneTurn, ChainsTyped, CacheTyped, Asking, Ended

LEMMA WindowsFinite == IsFiniteSet(Window)
  <1> DEFINE f == [d \in LongDoc |-> WindowsIn(d)]
             T == {WindowsIn(d) : d \in LongDoc}
  <1>1. f \in Surjection(LongDoc, T)
    <2>1. f \in [LongDoc -> T]
      OBVIOUS
    <2>2. \A t \in T : \E d \in LongDoc : f[d] = t
      OBVIOUS
    <2> QED BY <2>1, <2>2 DEF Surjection
  <1>2. IsFiniteSet(T)
    BY <1>1, FS_Surjection, SummariesAssumption
  <1>3. ASSUME NEW d \in LongDoc PROVE IsFiniteSet(WindowsIn(d))
    <2>1. WindowsOf[d] \in Nat
      BY SummariesAssumption
    <2>2. PICK k \in Int : k = WindowsOf[d]
      BY <2>1
    <2>3. IsFiniteSet(1..k)
      BY FS_Interval
    <2>4. IsFiniteSet({d})
      BY FS_Singleton
    <2> QED BY <2>2, <2>3, <2>4, FS_Product DEF WindowsIn
  <1> QED BY <1>2, <1>3, FS_UNION DEF Window

LEMMA FrontFits ==
  ASSUME NEW q, NEW n \in Nat, n <= Len(q), Len(q) \in Nat
  PROVE  IsFiniteSet({q[i] : i \in 1..n}) /\ Cardinality({q[i] : i \in 1..n}) <= n
  <1> DEFINE f == [i \in 1..n |-> q[i]]
             T == {q[i] : i \in 1..n}
  <1>1. f \in Surjection(1..n, T)
    <2>1. f \in [1..n -> T]
      OBVIOUS
    <2>2. \A t \in T : \E i \in 1..n : f[i] = t
      OBVIOUS
    <2> QED BY <2>1, <2>2 DEF Surjection
  <1>2. IsFiniteSet(1..n) /\ Cardinality(1..n) = n
    <2>1. IsFiniteSet(1..n) /\ Cardinality(1..n) = IF 1 > n THEN 0 ELSE n - 1 + 1
      BY FS_Interval
    <2> QED BY <2>1
  <1> QED BY <1>1, <1>2, FS_Surjection

\* The semaphore lets the first waiters in as far as there are slots.
LEMMA AdmitKeepsTurns ==
  ASSUME NEW H, NEW q, OneTurn(H, q), Admit(H, q)
  PROVE  /\ Turns'
         /\ \A w \in calling' : w \in H \/ \E i \in 1..Len(q) : w = q[i]
         /\ \A j \in 1..Len(waiting)' : \E i \in 1..Len(q) : waiting'[j] = q[i]
  <1> DEFINE c == Cardinality(H)
             free == Slots - c
             n == IF Len(q) < free THEN Len(q) ELSE free
             In == {q[i] : i \in 1..n}
             rest == SubSeq(q, n + 1, Len(q))
  <1>1. c \in Nat /\ Len(q) \in Nat /\ c <= Slots /\ Slots \in Nat /\ q \in Seq(Task)
    BY FS_CardinalityType, SummariesAssumption DEF OneTurn
  <1>2. n \in Nat /\ n <= Len(q) /\ n + c <= Slots
    BY <1>1
  <1>3. calling' = H \cup In /\ waiting' = rest
    BY Zenon DEF Admit
  <1> HIDE DEF n
  <1>4. IsFiniteSet(In) /\ Cardinality(In) <= n
    BY <1>1, <1>2, FrontFits
  <1>5. IsFiniteSet(H \cup In) /\ Cardinality(H \cup In) <= Slots
    <2>1. IsFiniteSet(H \cup In) /\ Cardinality(H \cup In) = Cardinality(H) + Cardinality(In) - Cardinality(H \cap In)
      BY <1>4, FS_Union DEF OneTurn
    <2>2. Cardinality(H \cap In) \in Nat /\ Cardinality(In) \in Nat
      <3>1. IsFiniteSet(H \cap In)
        BY <1>4, FS_Subset
      <3> QED BY <3>1, <1>4, FS_CardinalityType
    <2> QED BY <1>1, <1>2, <1>4, <2>1, <2>2
  <1>6. rest \in Seq(Task) /\ Len(rest) = Len(q) - n /\ \A j \in 1..Len(rest) : rest[j] = q[n + j] /\ n + j \in 1..Len(q)
    <2>1. n + 1 \in 1..Len(q) + 1 /\ Len(q) \in 0..Len(q)
      BY <1>1, <1>2
    <2>2. rest \in Seq(Task) /\ Len(rest) = Len(q) - (n + 1) + 1
      BY <1>1, <1>2, <2>1
    <2>3. Len(rest) = Len(q) - n
      BY <1>1, <1>2, <2>2
    <2>4. ASSUME NEW j \in 1..Len(rest) PROVE rest[j] = q[n + j] /\ n + j \in 1..Len(q)
      <3>1. n + j \in 1..Len(q)
        BY <1>1, <1>2, <2>3
      <3>2. rest[j] = q[n + 1 + j - 1]
        BY <1>1, <1>2, <2>2, <2>4
      <3>3. n + 1 + j - 1 = n + j
        BY <1>2
      <3> QED BY <3>1, <3>2, <3>3
    <2> QED BY <2>2, <2>3, <2>4
  <1>7. In \subseteq Task /\ \A w \in In : \E i \in 1..n : i \in 1..Len(q) /\ w = q[i]
    BY <1>1, <1>2
  <1> HIDE DEF rest, In
  <1>8. OneTurn(H \cup In, rest)
    <2>1. \A i, j \in 1..Len(rest) : rest[i] = rest[j] => i = j
      <3> SUFFICES ASSUME NEW i \in 1..Len(rest), NEW j \in 1..Len(rest), rest[i] = rest[j] PROVE i = j
        OBVIOUS
      <3>1. n + i = n + j
        BY <1>6 DEF OneTurn
      <3> QED BY <3>1, <1>1, <1>2, <1>6
    <2>2. \A i \in 1..Len(rest) : rest[i] \notin H \cup In
      <3> SUFFICES ASSUME NEW i \in 1..Len(rest) PROVE rest[i] \notin H \cup In
        OBVIOUS
      <3>1. rest[i] = q[n + i] /\ n + i \in 1..Len(q)
        BY <1>6
      <3>2. ASSUME rest[i] \in In PROVE FALSE
        <4>1. PICK k \in 1..n : k \in 1..Len(q) /\ q[n + i] = q[k]
          BY <1>7, <3>1, <3>2
        <4>2. n + i = k
          BY <3>1, <4>1 DEF OneTurn
        <4> QED BY <4>1, <4>2, <1>2, <1>6, <1>1
      <3> QED BY <3>1, <3>2 DEF OneTurn
    <2> QED BY <1>5, <1>6, <1>7, <2>1, <2>2 DEF OneTurn
  <1>9. Turns'
    BY <1>3, <1>8 DEF Turns, OneTurn, Task, Window, WindowsIn
  <1>10. \A w \in calling' : w \in H \/ \E i \in 1..Len(q) : w = q[i]
    BY <1>3, <1>7
  <1>11. \A j \in 1..Len(waiting)' : \E i \in 1..Len(q) : waiting'[j] = q[i]
    BY <1>3, <1>6
  <1> QED BY <1>9, <1>10, <1>11

LEMMA NobodyAsks == OneTurn({}, <<>>)
  <1>1. IsFiniteSet({}) /\ Cardinality({}) = 0
    BY FS_EmptySet
  <1>2. <<>> \in Seq(Task) /\ Len(<<>>) = 0
    OBVIOUS
  <1> QED BY <1>1, <1>2, SummariesAssumption DEF OneTurn

LEMMA FreshHolds ==
  ASSUME Fresh
  PROVE  Turns' /\ ChainsTyped'
  <1>1. Turns'
    BY NobodyAsks DEF Fresh, Turns, OneTurn, Task, Window, WindowsIn
  <1>2. ChainsTyped'
    BY SummariesAssumption DEF Fresh, ChainsTyped, Asking, Task, Window, WindowsIn
  <1> QED BY <1>1, <1>2

\* What the step and round of the tasks are after w went on to to.
LEMMA ReturnedHolds ==
  ASSUME Turns, ChainsTyped, NEW w \in calling, NEW to, NEW cost \in BOOLEAN, Returned(w, to, cost), text' \subseteq Task,
         \/ to \in {"done", "failed"}
         \/ to = "questions" /\ round[w] = 0
         \/ to = "evaluate" /\ round[w] <= EvalRounds
         \/ to = "revise" /\ round[w] <= EvalRounds
  PROVE  Turns' /\ ChainsTyped'
  <1> DEFINE q == IF to \in Ended THEN waiting ELSE Append(waiting, w)
             rd == [round EXCEPT ![w] = IF to = "evaluate" THEN @ + 1 ELSE @]
  <1>1. w \in Task /\ waiting \in Seq(Task) /\ Len(waiting) \in Nat /\ \A i \in 1..Len(waiting) : waiting[i] # w
    BY DEF Turns, OneTurn
  <1>2. \/ q = waiting /\ to \in Ended
        \/ /\ q \in Seq(Task) /\ Len(q) = Len(waiting) + 1 /\ q[Len(q)] = w /\ to \in Asking
           /\ \A i \in 1..Len(waiting) : q[i] = waiting[i]
    <2>1. CASE to \in Ended
      BY <2>1
    <2>2. CASE to \notin Ended
      <3>1. q = Append(waiting, w) /\ to \in Asking
        BY <2>2 DEF Ended, Asking
      <3> HIDE DEF q
      <3> QED BY <1>1, <3>1
    <2> QED BY <2>1, <2>2
  <1>3. step' = [step EXCEPT ![w] = to] /\ round' = rd /\ Admit(calling \ {w}, q)
    BY DEF Returned
  <1> HIDE DEF q
  <1>4. OneTurn(calling \ {w}, q)
    <2>1. IsFiniteSet(calling \ {w}) /\ Cardinality(calling \ {w}) <= Cardinality(calling)
      BY FS_Subset DEF Turns, OneTurn
    <2>2. Cardinality(calling) \in Nat /\ Cardinality(calling \ {w}) \in Nat
      BY <2>1, FS_CardinalityType DEF Turns, OneTurn
    <2>3. Cardinality(calling \ {w}) <= Slots
      BY <2>1, <2>2, SummariesAssumption DEF Turns, OneTurn
    <2>4. \A i, j \in 1..Len(q) : q[i] = q[j] => i = j
      BY <1>1, <1>2 DEF Turns, OneTurn
    <2>5. \A i \in 1..Len(q) : q[i] \notin calling \ {w}
      BY <1>1, <1>2 DEF Turns, OneTurn
    <2> QED BY <1>1, <1>2, <2>1, <2>3, <2>4, <2>5 DEF Turns, OneTurn
  <1>5. Turns'
    BY <1>3, <1>4, AdmitKeepsTurns
  <1>6. \A v \in calling' : v \in calling \ {w} \/ \E i \in 1..Len(q) : v = q[i]
    BY <1>3, <1>4, AdmitKeepsTurns
  <1>7. \A j \in 1..Len(waiting)' : \E i \in 1..Len(q) : waiting'[j] = q[i]
    BY <1>3, <1>4, AdmitKeepsTurns
  <1>8. \A v \in Task : v # w => step'[v] = step[v]
    BY <1>3 DEF ChainsTyped
  <1>9. step'[w] = to
    BY <1>1, <1>3 DEF ChainsTyped
  <1>10. \A i \in 1..Len(q) : step'[q[i]] \in Asking
    BY <1>1, <1>2, <1>8, <1>9 DEF ChainsTyped
  <1>11. \A v \in calling \ {w} : step'[v] \in Asking
    BY <1>8 DEF ChainsTyped, Turns, OneTurn
  <1>12. step' \in [Task -> Asking \cup Ended \cup {"none"}]
    BY <1>1, <1>3 DEF ChainsTyped, Asking, Ended
  <1>13. round' \in [Task -> Nat] /\ \A v \in Task : v # w => round'[v] = round[v]
    BY <1>1, <1>3 DEF ChainsTyped
  <1>14. round'[w] = IF to = "evaluate" THEN round[w] + 1 ELSE round[w]
    BY <1>1, <1>3 DEF ChainsTyped
  <1>15. \A v \in Task : /\ round'[v] <= EvalRounds + 1 /\ (step'[v] = "revise" => round'[v] <= EvalRounds)
                         /\ step'[v] \in {"none", "summarize", "questions", "subject"} => round'[v] = 0
    <2> SUFFICES ASSUME NEW v \in Task
                 PROVE /\ round'[v] <= EvalRounds + 1 /\ (step'[v] = "revise" => round'[v] <= EvalRounds)
                       /\ step'[v] \in {"none", "summarize", "questions", "subject"} => round'[v] = 0
      OBVIOUS
    <2>1. CASE v # w
      BY <2>1, <1>8, <1>13 DEF ChainsTyped
    <2>2. CASE v = w
      <3>1. round[w] \in Nat /\ round[w] <= EvalRounds + 1 /\ EvalRounds \in Nat
        BY <1>1, SummariesAssumption DEF ChainsTyped
      <3> QED BY <2>2, <3>1, <1>9, <1>14
    <2> QED BY <2>1, <2>2
  <1>16. spent' \in 0..CostCap + 1
    BY SummariesAssumption DEF Returned, ChainsTyped
  <1>17. (\A v \in calling : step[v] \in Asking)' /\ (\A i \in 1..Len(waiting) : step[waiting[i]] \in Asking)'
    BY <1>6, <1>7, <1>10, <1>11
  <1>18. Task' = Task
    BY DEF Task, Window, WindowsIn
  <1>19. ChainsTyped'
    BY <1>12, <1>13, <1>15, <1>16, <1>17, <1>18 DEF ChainsTyped
  <1> QED BY <1>5, <1>19

\* Tasks that had not begun are queued or, over the cap, skipped.
LEMMA QueuedHolds ==
  ASSUME Turns, ChainsTyped, NEW new \in SUBSET Task, NEW order \in Seq(new), NEW to \in {"summarize", "subject"},
         \A i, j \in 1..Len(order) : order[i] = order[j] => i = j, \A w \in new : step[w] = "none",
         step' = [w \in Task |-> IF w \in new THEN to ELSE step[w]],
         Admit(calling, waiting \o order), UNCHANGED <<round, text, spent>>
  PROVE  Turns' /\ ChainsTyped'
  <1> DEFINE q == waiting \o order
  <1>1. waiting \in Seq(Task) /\ Len(waiting) \in Nat /\ Len(order) \in Nat
    BY DEF Turns, OneTurn
  <1>2. /\ q \in Seq(Task) /\ Len(q) = Len(waiting) + Len(order)
        /\ \A i \in 1..Len(waiting) : q[i] = waiting[i]
        /\ \A i \in 1..Len(order) : q[Len(waiting) + i] = order[i]
    BY <1>1
  <1> HIDE DEF q
  <1>3. \A i \in 1..Len(q) : \/ i \in 1..Len(waiting) /\ q[i] = waiting[i]
                             \/ i - Len(waiting) \in 1..Len(order) /\ q[i] = order[i - Len(waiting)]
    <2> SUFFICES ASSUME NEW i \in 1..Len(q), i \notin 1..Len(waiting)
                 PROVE i - Len(waiting) \in 1..Len(order) /\ q[i] = order[i - Len(waiting)]
      BY <1>2
    <2>3. Len(q) = Len(waiting) + Len(order)
      BY <1>2
    <2>4. i - Len(waiting) \in 1..Len(order)
      BY <1>1, <2>3
    <2>1. PICK k \in 1..Len(order) : k = i - Len(waiting)
      BY <2>4
    <2>2. Len(waiting) + k = i
      BY <1>1, <2>1
    <2> QED BY <1>2, <2>1, <2>2
  <1>4. \A i \in 1..Len(order) : order[i] \in new
    OBVIOUS
  <1>5. \A i \in 1..Len(waiting) : waiting[i] \notin new
    BY DEF ChainsTyped, Asking
  <1>6. \A w \in calling : w \notin new
    BY DEF ChainsTyped, Asking
  <1>7. OneTurn(calling, q)
    <2>1. \A i, j \in 1..Len(q) : q[i] = q[j] => i = j
      <3> SUFFICES ASSUME NEW i \in 1..Len(q), NEW j \in 1..Len(q), q[i] = q[j] PROVE i = j
        OBVIOUS
      <3>1. CASE i \in 1..Len(waiting) /\ j \in 1..Len(waiting)
        BY <3>1, <1>2 DEF Turns, OneTurn
      <3>2. CASE i \in 1..Len(waiting) /\ j \notin 1..Len(waiting)
        BY <3>2, <1>3, <1>4, <1>5
      <3>3. CASE i \notin 1..Len(waiting) /\ j \in 1..Len(waiting)
        BY <3>3, <1>3, <1>4, <1>5
      <3>4. CASE i \notin 1..Len(waiting) /\ j \notin 1..Len(waiting)
        <4>1. i - Len(waiting) = j - Len(waiting)
          BY <3>4, <1>3
        <4> QED BY <4>1, <1>1, <1>2
      <3> QED BY <3>1, <3>2, <3>3, <3>4
    <2>2. \A i \in 1..Len(q) : q[i] \notin calling
      BY <1>3, <1>4, <1>6 DEF Turns, OneTurn
    <2> QED BY <1>2, <2>1, <2>2 DEF Turns, OneTurn
  <1>8. Admit(calling, q)
    BY DEF q
  <1>9. Turns'
    BY <1>7, <1>8, AdmitKeepsTurns
  <1>10. \A w \in calling' : w \in calling \/ \E i \in 1..Len(q) : w = q[i]
    BY <1>7, <1>8, AdmitKeepsTurns
  <1>11. \A j \in 1..Len(waiting)' : \E i \in 1..Len(q) : waiting'[j] = q[i]
    BY <1>7, <1>8, AdmitKeepsTurns
  <1>12. \A w \in Task : step'[w] = IF w \in new THEN to ELSE step[w]
    OBVIOUS
  <1>13. \A w \in calling : step'[w] \in Asking
    BY <1>6, <1>12 DEF Turns, OneTurn, ChainsTyped
  <1>14. \A i \in 1..Len(q) : step'[q[i]] \in Asking
    <2> SUFFICES ASSUME NEW i \in 1..Len(q) PROVE step'[q[i]] \in Asking
      OBVIOUS
    <2>1. q[i] \in Task
      BY <1>2
    <2> QED BY <2>1, <1>3, <1>4, <1>5, <1>12 DEF ChainsTyped, Asking
  <1>15. (\A v \in calling : step[v] \in Asking)' /\ (\A i \in 1..Len(waiting) : step[waiting[i]] \in Asking)'
    BY <1>10, <1>11, <1>13, <1>14
  <1>16. Task' = Task
    BY DEF Task, Window, WindowsIn
  <1>17. ChainsTyped'
    BY <1>12, <1>15, <1>16 DEF ChainsTyped, Asking
  <1> QED BY <1>9, <1>17

LEMMA NextSummaries ==
  ASSUME SummariesHold, [SummariesNext]_summaryVars
  PROVE  SummariesHold'
  <1> USE DEF SummariesHold
  <1>0. Window \subseteq Task /\ Task' = Task /\ \A d \in LongDoc : <<d, 0>> \in Task
    BY DEF Task, Window, WindowsIn
  <1>1. CASE StartRun \/ SummaryCrash
    <2>1. Fresh /\ UNCHANGED <<cache, titled>>
      BY <1>1 DEF StartRun, SummaryCrash
    <2>2. CacheTyped'
      BY <2>1 DEF CacheTyped, WindowsIn
    <2> QED BY <2>1, <2>2, FreshHolds
  <1>2. CASE StartWindows
    <2> DEFINE new == {w \in Window : cache[w[1]] = {}}
    <2>1. /\ \A w \in Window : step[w] = "none"
          /\ step' = [w \in Task |-> IF w \notin new THEN step[w] ELSE IF costHit THEN "skipped" ELSE "summarize"]
          /\ UNCHANGED <<cache, titled, round, text, spent>>
      BY <1>2 DEF StartWindows
    <2>2. CacheTyped'
      BY <2>1 DEF CacheTyped, WindowsIn
    <2>3. PICK order \in SetToSeqs(new) : Admit(calling, waiting \o (IF costHit THEN <<>> ELSE order))
      BY <1>2 DEF StartWindows
    <2>4. new \subseteq Task /\ \A w \in new : step[w] = "none"
      BY <1>0, <2>1
    <2>5. IsFiniteSet(new)
      BY WindowsFinite, FS_Subset
    <2>6. order \in Seq(new) /\ \A i, j \in 1..Len(order) : order[i] = order[j] => i = j
      <3>1. Cardinality(new) \in Nat
        BY <2>5, FS_CardinalityType
      <3>2. order \in [1..Cardinality(new) -> new] /\ \A i, j \in 1..Cardinality(new) : i # j => order[i] # order[j]
        BY DEF SetToSeqs
      <3> HIDE DEF new
      <3> QED BY <3>1, <3>2
    <2> HIDE DEF new
    <2>7. CASE ~costHit
      <3>1. step' = [w \in Task |-> IF w \in new THEN "summarize" ELSE step[w]] /\ Admit(calling, waiting \o order)
        BY <2>1, <2>3, <2>7
      <3> QED BY <2>1, <2>2, <2>4, <2>6, <3>1, QueuedHolds
    <2>8. CASE costHit
      <3>1. Admit(calling, waiting)
        BY <2>3, <2>8 DEF Turns, OneTurn
      <3>2. /\ Turns'
            /\ \A w \in calling' : w \in calling \/ \E i \in 1..Len(waiting) : w = waiting[i]
            /\ \A j \in 1..Len(waiting)' : \E i \in 1..Len(waiting) : waiting'[j] = waiting[i]
        BY <3>1, AdmitKeepsTurns DEF Turns
      <3>3. \A w \in Task : step'[w] = IF w \in new THEN "skipped" ELSE step[w]
        BY <2>1, <2>8
      <3>4. \A w \in calling : w \notin new
        BY <2>4 DEF ChainsTyped, Asking
      <3>5. \A i \in 1..Len(waiting) : waiting[i] \notin new
        BY <2>4 DEF ChainsTyped, Asking
      <3>6. (\A v \in calling : step[v] \in Asking)' /\ (\A i \in 1..Len(waiting) : step[waiting[i]] \in Asking)'
        <4>1. \A w \in calling : step'[w] \in Asking
          BY <3>3, <3>4 DEF Turns, OneTurn, ChainsTyped
        <4>2. ASSUME NEW i \in 1..Len(waiting) PROVE step'[waiting[i]] \in Asking
          <5>1. waiting[i] \in Task
            BY DEF Turns, OneTurn
          <5> QED BY <5>1, <3>3, <3>5 DEF ChainsTyped
        <4> QED BY <3>2, <4>1, <4>2
      <3>7. step' \in [Task -> Asking \cup Ended \cup {"none"}]
        BY <2>1, <2>8 DEF ChainsTyped, Ended
      <3>8. ChainsTyped'
        BY <1>0, <2>1, <3>3, <3>6, <3>7 DEF ChainsTyped
      <3> QED BY <2>2, <3>2, <3>8
    <2> QED BY <2>7, <2>8
  <1>3. ASSUME NEW w \in calling, NEW hasText \in BOOLEAN, Answer(w, hasText) PROVE SummariesHold'
    <2>1. w \in Task /\ round[w] \in Nat /\ EvalRounds \in Nat
      BY SummariesAssumption DEF Turns, OneTurn, ChainsTyped
    <2>2. text' \subseteq Task
      BY <1>3, <2>1 DEF Answer, ChainsTyped
    <2>3. /\ step[w] \in {"summarize", "questions"} => round[w] = 0
          /\ step[w] = "revise" => round[w] <= EvalRounds
      BY <2>1 DEF ChainsTyped
    <2>4. ASSUME NEW to, Returned(w, to, TRUE),
                 \/ to \in {"done", "failed"}
                 \/ to = "questions" /\ round[w] = 0
                 \/ to = "evaluate" /\ round[w] <= EvalRounds
                 \/ to = "revise" /\ round[w] <= EvalRounds
          PROVE  SummariesHold'
      <3>1. Turns' /\ ChainsTyped'
        BY <2>2, <2>4, ReturnedHolds
      <3>2. CacheTyped'
        BY <2>4 DEF Returned, CacheTyped, WindowsIn
      <3> QED BY <3>1, <3>2
    <2>5. CASE step[w] = "summarize" /\ Returned(w, IF method = "evaluated" THEN "questions" ELSE "done", TRUE)
      <3>1. CASE method = "evaluated"
        BY <2>3, <2>4, <2>5, <3>1
      <3>2. CASE method # "evaluated"
        BY <2>3, <2>4, <2>5, <3>2
      <3> QED BY <3>1, <3>2
    <2>6. CASE step[w] \in {"questions", "revise"} /\ Returned(w, "evaluate", TRUE)
      <3>1. round[w] <= EvalRounds
        BY <2>1, <2>3, <2>6
      <3> QED BY <2>4, <2>6, <3>1
    <2>7. CASE Returned(w, IF hasText \/ round[w] > EvalRounds THEN "done" ELSE "revise", TRUE)
      <3>1. CASE hasText \/ round[w] > EvalRounds
        BY <2>4, <2>7, <3>1
      <3>2. CASE ~(hasText \/ round[w] > EvalRounds)
        <4>1. round[w] <= EvalRounds
          BY <2>1, <3>2
        <4>2. Returned(w, "revise", TRUE)
          BY Zenon, <2>7, <3>2
        <4> QED BY <2>4, <4>1, <4>2
      <3> QED BY <3>1, <3>2
    <2>8. CASE Returned(w, "done", TRUE)
      BY <2>4, <2>8
    <2> QED BY <1>3, <2>5, <2>6, <2>7, <2>8 DEF Answer
  <1>4. ASSUME NEW w \in calling, CallFails(w) PROVE SummariesHold'
    <2>1. text' \subseteq Task
      BY <1>4 DEF CallFails, ChainsTyped
    <2>2. CacheTyped'
      BY <1>4 DEF CallFails, Returned, CacheTyped, WindowsIn
    <2>3. CASE step[w] = "summarize"
      <3>1. Returned(w, "failed", FALSE)
        BY <1>4, <2>3 DEF CallFails
      <3> QED BY <2>1, <2>2, <3>1, ReturnedHolds
    <2>4. CASE step[w] # "summarize"
      <3>1. Returned(w, "done", FALSE)
        BY <1>4, <2>4 DEF CallFails
      <3> QED BY <2>1, <2>2, <3>1, ReturnedHolds
    <2> QED BY <2>3, <2>4
  <1>5. ASSUME NEW d \in LongDoc, AskSubject(d) PROVE SummariesHold'
    <2> DEFINE w == <<d, 0>>
    <2>1. w \in Task /\ step[w] = "none"
      BY <1>0, <1>5 DEF AskSubject
    <2>2. /\ step' = [step EXCEPT ![w] = "subject"] /\ Admit(calling, Append(waiting, w))
          /\ UNCHANGED <<cache, titled, round, text, spent>>
      BY <1>5 DEF AskSubject
    <2> HIDE DEF w
    <2>3. step' = [v \in Task |-> IF v \in {w} THEN "subject" ELSE step[v]]
      BY <2>2 DEF ChainsTyped
    <2>4. Append(waiting, w) = waiting \o <<w>>
      BY <2>1 DEF Turns, OneTurn
    <2>5. <<w>> \in Seq({w}) /\ \A i, j \in 1..Len(<<w>>) : <<w>>[i] = <<w>>[j] => i = j
      OBVIOUS
    <2>6. CacheTyped'
      BY <2>2 DEF CacheTyped, WindowsIn
    <2>7. {w} \in SUBSET Task /\ \A v \in {w} : step[v] = "none"
      BY <2>1
    <2>8. PICK new \in SUBSET Task : new = {w}
      BY <2>7
    <2>9. PICK order \in Seq(new) : order = <<w>>
      BY <2>5, <2>8
    <2>10. Admit(calling, waiting \o order) /\ \A i, j \in 1..Len(order) : order[i] = order[j] => i = j
      BY <2>2, <2>4, <2>5, <2>9
    <2>11. (\A v \in new : step[v] = "none") /\ step' = [v \in Task |-> IF v \in new THEN "subject" ELSE step[v]]
      BY <2>3, <2>7, <2>8
    <2> QED BY <2>2, <2>6, <2>10, <2>11, QueuedHolds
  <1>6. ASSUME NEW d \in LongDoc, Settle(d) PROVE SummariesHold'
    <2>1. /\ cache' = IF Complete(d) /\ cache[d] = {} THEN [cache EXCEPT ![d] = Covered(d)] ELSE cache
          /\ titled' \subseteq titled \cup {d} /\ titled \subseteq titled'
          /\ d \in titled' => d \in titled \/ Complete(d) \/ cache[d] # {}
          /\ UNCHANGED <<step, round, text, calling, waiting, spent>>
      BY <1>6 DEF Settle
    <2>2. Covered(d) \subseteq WindowsIn(d) /\ (Complete(d) => Covered(d) # {})
      BY DEF Covered, Complete, PartIsEnough
    <2>3. CacheTyped'
      BY <2>1, <2>2 DEF CacheTyped, WindowsIn
    <2>4. Turns' /\ ChainsTyped'
      BY <1>0, <2>1 DEF Turns, OneTurn, ChainsTyped
    <2> QED BY <2>3, <2>4
  <1>7. CASE EndRun \/ UNCHANGED summaryVars
    <2>1. UNCHANGED <<cache, titled, step, round, text, calling, waiting, spent>>
      BY <1>7 DEF EndRun, summaryVars
    <2>2. CacheTyped'
      BY <2>1 DEF CacheTyped, WindowsIn
    <2>3. Turns' /\ ChainsTyped'
      BY <1>0, <2>1 DEF Turns, OneTurn, ChainsTyped
    <2> QED BY <2>2, <2>3
  <1> QED BY <1>1, <1>2, <1>3, <1>4, <1>5, <1>6, <1>7 DEF SummariesNext

LEMMA SummariesAlways == Spec => []SummariesHold
  <1>1. Init => SummariesHold
    <2> SUFFICES ASSUME Init PROVE SummariesHold
      OBVIOUS
    <2>1. Turns
      BY NobodyAsks DEF Init, SummariesInit, Turns
    <2>2. ChainsTyped /\ CacheTyped
      BY SummariesAssumption DEF Init, SummariesInit, ChainsTyped, CacheTyped
    <2> QED BY <2>1, <2>2 DEF SummariesHold
  <1>2. SummariesHold /\ [Next]_buildVars => SummariesHold'
    <2> SUFFICES ASSUME SummariesHold, [Next]_buildVars PROVE SummariesHold'
      OBVIOUS
    <2>1. [SummariesNext]_summaryVars
      BY DEF Next, buildVars
    <2> QED BY <2>1, NextSummaries
  <1> QED BY <1>1, <1>2, PTL DEF Spec

-----------------------------------------------------------------------------
(***************************************************************************)
(* The edits of the ontology                                               *)
(***************************************************************************)
Refs == Iri \cup {OwlThing, NoParent}
ClassRow == [ns : Namespace, parent : Refs, fresh : BOOLEAN]
Dict(d) == DOMAIN d \subseteq Name /\ \A n \in DOMAIN d : d[n] \in ClassRow
OwnIris(d) == {<<d[n].ns, n>> : n \in DOMAIN d}

\* What may be referred to, over any dict: a layer hands one on.
KnownIn(d, is) == OwnIris(d) \cup {i[1] : i \in is} \cup {OwlThing, NoParent}
ParentsIn(d, S) == \A n \in DOMAIN d : d[n].parent \in S

EditTyped ==
  /\ Dict(classes)
  /\ insts \in SUBSET (Iri \X (Iri \cup {OwlThing})) /\ props \in SUBSET (SUBSET Iri)
  /\ pending \in SUBSET (Name \X (Name \cup {"none"})) /\ moves \in 0..MaxMoves

Resolved ==
  /\ ParentsIn(classes, KnownIn(classes, insts))
  /\ \A i \in insts : i[2] \in KnownIn(classes, insts)
  /\ \A p \in props : \A e \in p : e \in KnownIn(classes, insts)

\* Before the prune everything refers to classes; the review looks at classes that are there.
EarlyAndLate ==
  /\ layer = "prune" => /\ ParentsIn(classes, OwnIris(classes) \cup {NoParent})
                        /\ \A i \in insts : i[2] \in OwnIris(classes)
                        /\ \A p \in props : \A e \in p : e \in OwnIris(classes)
  /\ layer = "audit" => marked \subseteq DOMAIN classes

EditHolds == EditTyped /\ Resolved /\ EarlyAndLate

LEMMA EditShows ==
  ASSUME EditHolds
  PROVE  RefsResolve /\ EditTypeOK
  <1>1. RefsResolve
    BY DEF EditHolds, Resolved, RefsResolve, KnownIn, OwnIris, ParentsIn, IriOf
  <1>2. EditTypeOK
    <2>1. \A n \in DOMAIN classes : classes[n].ns \in Namespace /\ classes[n].parent \in Refs
      BY DEF EditHolds, EditTyped, Dict, ClassRow
    <2> QED BY <2>1 DEF EditHolds, EditTyped, EditTypeOK, Dict, Refs
  <1> QED BY <1>1, <1>2

LEMMA RefTypes ==
  /\ OwlThing \in Refs /\ NoParent \in Refs /\ OwlThing \notin Iri /\ NoParent \notin Iri /\ OwlThing # NoParent
  /\ \A r \in Refs : r[1] \in Namespace \cup {"owl"}
  /\ \A s \in Namespace, n \in Name : <<s, n>> \in Iri
  BY DEF Refs, Iri, OwlThing, NoParent, Namespace

LEMMA OwnAreIris ==
  ASSUME NEW d, Dict(d)
  PROVE  OwnIris(d) \subseteq Iri /\ \A n \in DOMAIN d : <<d[n].ns, n>> \in OwnIris(d)
  BY RefTypes DEF Dict, ClassRow, OwnIris

LEMMA EmptyEdit ==
  ASSUME NothingToEdit
  PROVE  EditHolds
  <1>1. DOMAIN classes = {}
    BY DEF NothingToEdit
  <1>2. moves \in 0..MaxMoves
    BY EditAssumption DEF NothingToEdit
  <1> QED BY <1>1, <1>2 DEF NothingToEdit, EditHolds, EditTyped, Resolved, EarlyAndLate, Dict, ParentsIn

LEMMA MergedEdit ==
  ASSUME EditInit
  PROVE  EditHolds
  <1> DEFINE rec(m, n) == CHOOSE r \in m : r.name = n
             iri(m, n) == IF n = "none" THEN NoParent ELSE <<rec(m, n).ns, n>>
             names(m) == {r.name : r \in m}
  <1>1. PICK m \in Merged :
          /\ classes = [n \in names(m) |-> [ns |-> rec(m, n).ns, parent |-> iri(m, rec(m, n).parent), fresh |-> FALSE]]
          /\ \E a, b \in names(m), i \in Individual :
               props = {{iri(m, a), iri(m, b)}} /\ insts = {<<<<"base", i>>, iri(m, a)>>}
    BY DEF EditInit
  <1>2. \A n \in names(m) : rec(m, n) \in m /\ rec(m, n).name = n
    OBVIOUS
  <1>3. \A n \in names(m) : n \in Name /\ n # "none" /\ rec(m, n).ns \in Namespace /\ rec(m, n).parent \in names(m) \cup {"none"}
    BY <1>2, MergedAssumption
  <1> HIDE DEF rec
  <1>4. \A n \in names(m) : iri(m, n) = <<rec(m, n).ns, n>> /\ iri(m, n) \in Iri /\ iri(m, "none") = NoParent
    BY <1>3, RefTypes
  <1>5. DOMAIN classes = names(m) /\ \A n \in names(m) : classes[n].ns = rec(m, n).ns /\ classes[n].parent = iri(m, rec(m, n).parent)
    BY <1>1
  <1>6. Dict(classes)
    <2>1. \A n \in names(m) : iri(m, rec(m, n).parent) \in Refs
      BY <1>3, <1>4, RefTypes DEF Refs
    <2> QED BY <1>1, <1>3, <2>1 DEF Dict, ClassRow
  <1>7. \A n \in names(m) : iri(m, n) \in OwnIris(classes)
    BY <1>4, <1>5 DEF OwnIris
  <1>8. ParentsIn(classes, OwnIris(classes) \cup {NoParent})
    BY <1>3, <1>4, <1>5, <1>7 DEF ParentsIn
  <1> HIDE DEF iri, names
  <1>9. PICK a \in names(m), b \in names(m), i \in Individual :
          props = {{iri(m, a), iri(m, b)}} /\ insts = {<<<<"base", i>>, iri(m, a)>>}
    BY <1>1
  <1>10. /\ \A x \in insts : x[2] \in OwnIris(classes) /\ x \in Iri \X (Iri \cup {OwlThing})
         /\ \A p \in props : \A e \in p : e \in OwnIris(classes) /\ e \in Iri
    BY <1>4, <1>7, <1>9 DEF Iri, Namespace
  <1>11. pending \in SUBSET (Name \X (Name \cup {"none"})) /\ moves \in 0..MaxMoves /\ layer = "prune"
    <2>1. PICK k \in 0..MaxNew : \E labels \in kSubset(k, Name) : \E p \in [labels -> Name \cup {"none"}] :
            pending = {<<n, p[n]>> : n \in labels}
      BY DEF EditInit
    <2>2. PICK labels \in SUBSET Name : \E p \in [labels -> Name \cup {"none"}] : pending = {<<n, p[n]>> : n \in labels}
      BY <2>1 DEF kSubset
    <2>3. pending \in SUBSET (Name \X (Name \cup {"none"}))
      BY <2>2
    <2> QED BY <2>3, EditAssumption DEF EditInit
  <1> QED BY <1>6, <1>8, <1>10, <1>11 DEF EditHolds, EditTyped, Resolved, EarlyAndLate, KnownIn, ParentsIn

\* A layer that adds classes, or gives them other superclasses, and keeps the IRIs.
LEMMA IrisGrow ==
  ASSUME EditHolds, NEW d, Dict(d), \A n \in DOMAIN classes : n \in DOMAIN d /\ d[n].ns = classes[n].ns
  PROVE  /\ OwnIris(classes) \subseteq OwnIris(d)
         /\ KnownIn(classes, insts) \subseteq KnownIn(d, insts)
  BY DEF OwnIris, KnownIn

\* A dict that has every class at its IRI still, and no reference to anything unknown.
Intact(d) ==
  /\ Dict(d) /\ \A x \in DOMAIN classes : x \in DOMAIN d /\ d[x].ns = classes[x].ns
  /\ ParentsIn(d, KnownIn(d, insts))

LEMMA ClassesEdited ==
  ASSUME EditHolds, NEW d, classes' = d, Intact(d),
         insts' = insts, pending' \in SUBSET pending, moves' \in 0..MaxMoves,
         \A p \in props' : p \in props \/ (p \subseteq OwnIris(d)),
         layer' # "prune", layer' = "audit" => marked' \subseteq DOMAIN d
  PROVE  EditHolds'
  <1>1. OwnIris(d) \subseteq KnownIn(d, insts) /\ KnownIn(classes, insts) \subseteq KnownIn(d, insts) /\ OwnIris(d) \subseteq Iri
    BY IrisGrow, OwnAreIris DEF KnownIn, Intact
  <1>2. EditTyped'
    <2>1. props' \in SUBSET (SUBSET Iri)
      BY <1>1 DEF EditHolds, EditTyped
    <2> QED BY <2>1 DEF EditHolds, EditTyped, Intact
  <1>3. Resolved'
    <2>1. \A p \in props' : \A e \in p : e \in KnownIn(d, insts)
      BY <1>1 DEF EditHolds, Resolved
    <2>2. \A i \in insts : i[2] \in KnownIn(d, insts)
      BY <1>1 DEF EditHolds, Resolved
    <2> QED BY <2>1, <2>2 DEF Resolved, Intact
  <1>4. EarlyAndLate'
    BY DEF EarlyAndLate
  <1> QED BY <1>2, <1>3, <1>4 DEF EditHolds

\* Only the instances or the relations change.
LEMMA RowsEdited ==
  ASSUME EditHolds, UNCHANGED <<classes, pending, moves>>,
         insts' \in SUBSET (Iri \X (Iri \cup {OwlThing})), \A i \in insts : i[1] \in {j[1] : j \in insts'},
         \A i \in insts' : i[2] \in KnownIn(classes, insts'),
         \A p \in props' : p \subseteq Iri /\ p \subseteq KnownIn(classes, insts'),
         layer' \notin {"prune", "audit"}
  PROVE  EditHolds'
  <1>1. KnownIn(classes, insts) \subseteq KnownIn(classes, insts')
    BY DEF KnownIn
  <1>2. EditTyped'
    BY DEF EditHolds, EditTyped
  <1>3. Resolved'
    BY <1>1 DEF EditHolds, Resolved, ParentsIn
  <1>4. EarlyAndLate'
    BY DEF EarlyAndLate
  <1> QED BY <1>2, <1>3, <1>4 DEF EditHolds

LEMMA NamespaceTypes ==
  \A r \in Refs : NamespaceOf(r) \in Namespace
  BY RefTypes DEF NamespaceOf, Namespace

LEMMA SafeParentIs ==
  \A n, r : SafeParent(n, r) \in {r, OwlThing}
  BY DEF SafeParent

LEMMA WithHolds ==
  ASSUME NEW d, Dict(d), NEW n \in Name, NEW r \in Refs
  PROVE  /\ Dict(With(d, n, r)) /\ DOMAIN With(d, n, r) = DOMAIN d \cup {n}
         /\ \A x \in DOMAIN d : With(d, n, r)[x] = d[x]
         /\ n \notin DOMAIN d => With(d, n, r)[n].parent = r
  <1>1. CASE n \in DOMAIN d
    BY <1>1 DEF With
  <1>2. CASE n \notin DOMAIN d
    <2> DEFINE row == [ns |-> NamespaceOf(r), parent |-> r, fresh |-> TRUE]
    <2>1. row \in ClassRow /\ row.parent = r
      BY NamespaceTypes DEF ClassRow
    <2>2. With(d, n, r) = [x \in DOMAIN d \cup {n} |-> IF x = n THEN row ELSE d[x]]
      BY <1>2 DEF With
    <2> HIDE DEF row
    <2> QED BY <1>2, <2>1, <2>2 DEF Dict
  <1> QED BY <1>1, <1>2

LEMMA WithResolves ==
  ASSUME NEW d, Intact(d), NEW n \in Name, NEW r \in Refs, r \in KnownIn(d, insts)
  PROVE  Intact(With(d, n, r)) /\ DOMAIN With(d, n, r) = DOMAIN d \cup {n}
  <1>1. PICK w : w = With(d, n, r)
    OBVIOUS
  <1>2. /\ Dict(w) /\ DOMAIN w = DOMAIN d \cup {n}
        /\ \A x \in DOMAIN d : w[x] = d[x]
        /\ n \notin DOMAIN d => w[n].parent = r
    BY <1>1, WithHolds DEF Intact
  <1>3. OwnIris(d) \subseteq OwnIris(w) /\ KnownIn(d, insts) \subseteq KnownIn(w, insts)
    BY <1>2 DEF OwnIris, KnownIn
  <1>4. Intact(w)
    BY <1>2, <1>3 DEF Intact, ParentsIn
  <1> QED BY <1>1, <1>2, <1>4

LEMMA AddClassEdit ==
  ASSUME EditHolds, NEW q \in pending, AddClass(q[1], q[2])
  PROVE  EditHolds'
  <1>1. q[1] \in Name /\ layer = "classes" /\ UNCHANGED <<insts, props, layer, moves, marked>> /\ pending' \in SUBSET pending
    BY DEF EditHolds, EditTyped, AddClass
  <1>2. PICK r : r = SafeParent(q[1], IF q[2] \in DOMAIN classes THEN IriOf(q[2]) ELSE OwlThing)
    OBVIOUS
  <1>3. Dict(classes) /\ moves \in 0..MaxMoves /\ Intact(classes)
    BY DEF EditHolds, EditTyped, Resolved, Intact
  <1>4. r \in Refs /\ r \in KnownIn(classes, insts)
    <2>1. r \in {IF q[2] \in DOMAIN classes THEN IriOf(q[2]) ELSE OwlThing, OwlThing}
      BY <1>2, SafeParentIs
    <2>2. q[2] \in DOMAIN classes => IriOf(q[2]) \in OwnIris(classes) /\ IriOf(q[2]) \in Iri
      BY <1>3, OwnAreIris DEF IriOf
    <2> QED BY <2>1, <2>2 DEF Refs, KnownIn
  <1>5. classes' \in {classes, With(classes, q[1], r)}
    BY <1>2 DEF AddClass
  <1>6. Intact(With(classes, q[1], r))
    BY <1>1, <1>3, <1>4, WithResolves
  <1>7. PICK d : d = classes' /\ Intact(d)
    BY <1>3, <1>5, <1>6
  <1> QED BY <1>1, <1>3, <1>7, ClassesEdited

LEMMA FoundAre ==
  \A n, r : Found(n, r) \subseteq DOMAIN classes
  BY DEF Found

LEMMA AddInstanceEdit ==
  ASSUME EditHolds, NEW n \in Individual, NEW t \in Name, AddInstance(n, t)
  PROVE  EditHolds'
  <1>1. layer' = "relations" /\ UNCHANGED <<classes, props, pending, moves, marked>>
    BY DEF AddInstance
  <1>2. PICK r \in IF Found(t, NoParent) = {} THEN {OwlThing} ELSE {IriOf(c) : c \in Found(t, NoParent)} :
               insts' = IF \E i \in insts : i[1] = <<NamespaceOf(r), n>> THEN insts ELSE insts \cup {<<<<NamespaceOf(r), n>>, r>>}
    BY DEF AddInstance
  <1>3. Dict(classes)
    BY DEF EditHolds, EditTyped
  <1>4. r \in OwnIris(classes) \cup {OwlThing} /\ r \in Iri \cup {OwlThing} /\ NamespaceOf(r) \in Namespace
    <2>1. \A c \in DOMAIN classes : IriOf(c) \in OwnIris(classes) /\ IriOf(c) \in Iri
      BY <1>3, OwnAreIris DEF IriOf
    <2>2. r \in OwnIris(classes) \cup {OwlThing} /\ r \in Iri \cup {OwlThing}
      BY <1>2, <2>1, FoundAre
    <2> QED BY <2>2, NamespaceTypes DEF Refs
  <1>5. <<NamespaceOf(r), n>> \in Iri
    BY <1>4 DEF Iri
  <1> HIDE DEF Iri
  <1>6. insts' \in SUBSET (Iri \X (Iri \cup {OwlThing})) /\ insts \subseteq insts' /\ \A i \in insts' : i \in insts \/ i[2] = r
    BY <1>2, <1>4, <1>5 DEF EditHolds, EditTyped
  <1>7. KnownIn(classes, insts) \subseteq KnownIn(classes, insts')
    BY <1>6 DEF KnownIn
  <1>8. \A i \in insts' : i[2] \in KnownIn(classes, insts')
    BY <1>4, <1>6, <1>7 DEF EditHolds, Resolved, KnownIn
  <1>9. \A p \in props' : p \subseteq Iri /\ p \subseteq KnownIn(classes, insts')
    BY <1>1, <1>7 DEF EditHolds, EditTyped, Resolved
  <1>10. \A i \in insts : i[1] \in {j[1] : j \in insts'}
    BY <1>6
  <1> QED BY <1>1, <1>6, <1>8, <1>9, <1>10, RowsEdited

LEMMA ReuseEdit ==
  ASSUME EditHolds, NEW n, NEW m, ReuseRelation(n, m)
  PROVE  EditHolds'
  <1>1. layer' = "stems" /\ UNCHANGED <<classes, insts, pending, moves, marked>>
    BY DEF ReuseRelation
  <1>2. PICK p \in props : \E a, b : props' = (props \ {p}) \cup {p \cup {IriOf(c) : c \in {a, b} \cap DOMAIN classes}}
    BY DEF ReuseRelation
  <1>3. \A c \in DOMAIN classes : IriOf(c) \in OwnIris(classes) /\ IriOf(c) \in Iri
    BY OwnAreIris DEF IriOf, EditHolds, EditTyped
  <1>4. \A q \in props : q \subseteq Iri /\ q \subseteq KnownIn(classes, insts)
    BY DEF EditHolds, EditTyped, Resolved
  <1>5. OwnIris(classes) \subseteq KnownIn(classes, insts)
    BY DEF KnownIn
  <1>6. \A q \in props' : q \subseteq Iri /\ q \subseteq KnownIn(classes, insts)
    BY <1>2, <1>3, <1>4, <1>5
  <1>7. insts' \in SUBSET (Iri \X (Iri \cup {OwlThing})) /\ \A i \in insts' : i[2] \in KnownIn(classes, insts')
    BY <1>1 DEF EditHolds, EditTyped, Resolved
  <1> QED BY <1>1, <1>6, <1>7, RowsEdited

LEMMA StemEdit ==
  ASSUME EditHolds, StemRelations
  PROVE  EditHolds'
  <1>1. layer' = "geography" /\ UNCHANGED <<classes, insts, pending, moves, marked>>
    BY DEF StemRelations
  <1>2. \A q \in props' : q \in props \/ \E a, b \in DOMAIN classes : q = {IriOf(a), IriOf(b)}
    BY DEF StemRelations
  <1>3. \A c \in DOMAIN classes : IriOf(c) \in OwnIris(classes) /\ IriOf(c) \in Iri
    BY OwnAreIris DEF IriOf, EditHolds, EditTyped
  <1>4. \A q \in props : q \subseteq Iri /\ q \subseteq KnownIn(classes, insts)
    BY DEF EditHolds, EditTyped, Resolved
  <1>5. OwnIris(classes) \subseteq KnownIn(classes, insts)
    BY DEF KnownIn
  <1>6. \A q \in props' : q \subseteq Iri /\ q \subseteq KnownIn(classes, insts)
    BY <1>2, <1>3, <1>4, <1>5
  <1>7. insts' \in SUBSET (Iri \X (Iri \cup {OwlThing})) /\ \A i \in insts' : i[2] \in KnownIn(classes, insts')
    BY <1>1 DEF EditHolds, EditTyped, Resolved
  <1> QED BY <1>1, <1>6, <1>7, RowsEdited

\* What an end that is minted hangs under, beside an end of a dict that has grown.
LEMMA AutomintIs ==
  ASSUME NEW d, Intact(d), NEW n \in Name, NEW other
  PROVE  Intact(Automint(d, n, other)) /\ DOMAIN Automint(d, n, other) = DOMAIN d \cup {n}
  <1>1. PICK up : up = IF other \notin DOMAIN d \/ d[other].parent = NoParent THEN OwlThing ELSE d[other].parent
    OBVIOUS
  <1>2. PICK r : r = SafeParent(n, up)
    OBVIOUS
  <1>3. Automint(d, n, other) = With(d, n, r)
    BY <1>1, <1>2 DEF Automint
  <1>4. up \in KnownIn(d, insts) /\ up \in Refs /\ OwlThing \in KnownIn(d, insts) /\ OwlThing \in Refs
    BY <1>1 DEF Intact, ParentsIn, KnownIn, Refs, Dict, ClassRow
  <1>5. r \in KnownIn(d, insts) /\ r \in Refs
    BY <1>2, <1>4, SafeParentIs
  <1> QED BY <1>3, <1>5, WithResolves

LEMMA RelationEdit ==
  ASSUME EditHolds, NEW n \in Name, NEW m \in Name, AddRelation(n, m)
  PROVE  EditHolds'
  <1>1. layer' = "stems" /\ UNCHANGED <<insts, pending, moves, marked>>
    BY DEF AddRelation
  <1>2. PICK a \in Ends(n), b \in Ends(m) \cup {"garbage"} :
          IF b = "garbage" THEN classes' = Automint(classes, a, b) /\ UNCHANGED props
          ELSE /\ classes' = Automint(Automint(classes, a, b), b, a)
               /\ props' = props \cup {{<<Automint(Automint(classes, a, b), b, a)[c].ns, c>> : c \in {a, b}}}
    BY DEF AddRelation
  <1>3. Dict(classes) /\ moves \in 0..MaxMoves /\ Intact(classes)
    BY DEF EditHolds, EditTyped, Resolved, Intact
  <1>4. \A x \in Name : Ends(x) \subseteq Name
    BY <1>3, FoundAre DEF Ends, Dict
  <1>5. PICK f : f = Automint(classes, a, b)
    OBVIOUS
  <1>6. Intact(f) /\ DOMAIN f = DOMAIN classes \cup {a}
    BY <1>3, <1>4, <1>5, AutomintIs
  <1>7. CASE b = "garbage"
    <2>1. classes' = f /\ props' = props
      BY <1>2, <1>5, <1>7
    <2> QED BY <1>1, <1>3, <1>6, <2>1, ClassesEdited
  <1>8. CASE b # "garbage"
    <2>1. b \in Name
      BY <1>2, <1>4, <1>8
    <2>2. PICK w : w = Automint(f, b, a)
      OBVIOUS
    <2>3. Intact(w) /\ DOMAIN w = DOMAIN f \cup {b}
      BY <1>6, <2>1, <2>2, AutomintIs
    <2>4. classes' = w /\ props' = props \cup {{<<w[c].ns, c>> : c \in {a, b}}}
      BY <1>2, <1>5, <1>8, <2>2
    <2>5. \A c \in {a, b} : <<w[c].ns, c>> \in OwnIris(w)
      BY <1>6, <2>3, OwnAreIris DEF Intact
    <2>6. \A p \in props' : p \in props \/ p \subseteq OwnIris(w)
      BY <2>4, <2>5
    <2> QED BY <1>1, <1>3, <2>3, <2>4, <2>6, ClassesEdited
  <1> QED BY <1>7, <1>8

Moved(d, c, r) == [d EXCEPT ![c].parent = r]

LEMMA MovedIs ==
  ASSUME NEW d, Intact(d), NEW c, NEW r \in Refs, r \in KnownIn(d, insts)
  PROVE  Intact(Moved(d, c, r)) /\ DOMAIN Moved(d, c, r) = DOMAIN d /\ OwnIris(Moved(d, c, r)) = OwnIris(d)
  <1>1. PICK w : w = Moved(d, c, r)
    OBVIOUS
  <1>2. /\ DOMAIN w = DOMAIN d
        /\ \A x \in DOMAIN d : w[x] \in ClassRow /\ w[x].ns = d[x].ns /\ w[x].parent \in {d[x].parent, r}
    <2>1. \A x \in DOMAIN d : d[x] \in ClassRow
      BY DEF Intact, Dict
    <2>2. DOMAIN w = DOMAIN d
      BY <1>1 DEF Moved
    <2>3. ASSUME NEW x \in DOMAIN d PROVE w[x] \in ClassRow /\ w[x].ns = d[x].ns /\ w[x].parent \in {d[x].parent, r}
      <3>1. CASE x = c
        <4>1. w[x] = [d[x] EXCEPT !.parent = r]
          BY <1>1, <3>1 DEF Moved
        <4> QED BY <2>1, <4>1 DEF ClassRow
      <3>2. CASE x # c
        BY <1>1, <2>1, <3>2 DEF Moved
      <3> QED BY <3>1, <3>2
    <2> QED BY <2>2, <2>3
  <1>3. OwnIris(w) = OwnIris(d)
    BY <1>2 DEF OwnIris
  <1>4. Intact(w)
    BY <1>2, <1>3 DEF Intact, Dict, ParentsIn, KnownIn
  <1> QED BY <1>1, <1>2, <1>3, <1>4

LEMMA AnchoredIs ==
  ASSUME Intact(classes), NEW p \in Name
  PROVE  Intact(Anchored(p)) /\ DOMAIN Anchored(p) = DOMAIN classes \cup {p}
  <1>1. CASE p \in DOMAIN classes
    BY <1>1 DEF Anchored
  <1>2. CASE p \notin DOMAIN classes
    <2>1. PICK w : w = With(classes, p, OwlThing)
      OBVIOUS
    <2>2. PICK a : a = [w EXCEPT ![p].ns = "bucket"]
      OBVIOUS
    <2>3. Anchored(p) = a
      BY <1>2, <2>1, <2>2 DEF Anchored
    <2>4. /\ Dict(w) /\ DOMAIN w = DOMAIN classes \cup {p} /\ \A x \in DOMAIN classes : w[x] = classes[x]
          /\ w[p].parent = OwlThing
      BY <1>2, <2>1, WithHolds, RefTypes DEF Intact
    <2>5. w[p] \in ClassRow
      BY <2>4 DEF Dict
    <2>6. a[p] \in ClassRow /\ a[p].parent = OwlThing
      <3>1. a[p] = [w[p] EXCEPT !.ns = "bucket"]
        BY <2>2, <2>4
      <3>2. "bucket" \in Namespace
        BY DEF Namespace
      <3> QED BY <2>4, <2>5, <3>1, <3>2 DEF ClassRow
    <2>7. DOMAIN a = DOMAIN classes \cup {p} /\ \A x \in DOMAIN classes : a[x] = classes[x]
      BY <1>2, <2>2, <2>4
    <2>8. Dict(a)
      BY <2>4, <2>6, <2>7 DEF Dict, Intact
    <2>9. KnownIn(classes, insts) \subseteq KnownIn(a, insts) /\ OwlThing \in KnownIn(a, insts)
      BY <2>7 DEF KnownIn, OwnIris
    <2>10. Intact(a)
      BY <2>6, <2>7, <2>8, <2>9 DEF Intact, ParentsIn
    <2> QED BY <2>3, <2>7, <2>10
  <1> QED BY <1>1, <1>2

LEMMA MintEdit ==
  ASSUME EditHolds, NEW k \in Name, NEW root, MintConcept(k, root)
  PROVE  EditHolds'
  <1>1. /\ layer = "grouping" /\ moves' \in 0..MaxMoves /\ k \notin DOMAIN classes
        /\ UNCHANGED <<insts, props, layer, pending>>
    BY EditAssumption DEF MintConcept, Proposes, Decides, EditHolds, EditTyped
  <1>2. PICK r : r = IF root \in DOMAIN classes THEN IriOf(root) ELSE OwlThing
    OBVIOUS
  <1>3. PICK w : w = With(classes, k, OwlThing)
    OBVIOUS
  <1>4. Intact(classes) /\ Dict(classes)
    BY DEF EditHolds, EditTyped, Resolved, Intact
  <1>5. Intact(w) /\ DOMAIN w = DOMAIN classes \cup {k}
    BY <1>3, <1>4, WithResolves, RefTypes DEF KnownIn
  <1>6. r \in Refs /\ r \in KnownIn(w, insts)
    <2>1. r \in OwnIris(classes) \cup {OwlThing} /\ r \in Iri \cup {OwlThing}
      BY <1>2, <1>4, OwnAreIris DEF IriOf
    <2>2. OwnIris(classes) \subseteq OwnIris(w)
      BY <1>4, <1>5, IrisGrow DEF Intact
    <2> QED BY <2>1, <2>2 DEF Refs, KnownIn
  <1>7. classes' = Moved(w, k, r)
    BY <1>2, <1>3 DEF MintConcept, Moved
  <1>8. Intact(Moved(w, k, r))
    BY <1>5, <1>6, MovedIs
  <1> QED BY <1>1, <1>7, <1>8, ClassesEdited

LEMMA AssignEdit ==
  ASSUME EditHolds, NEW c, NEW k, Assign(c, k)
  PROVE  EditHolds'
  <1>1. /\ layer = "grouping" /\ moves' \in 0..MaxMoves /\ k \in DOMAIN classes /\ classes' = Moved(classes, c, IriOf(k))
        /\ UNCHANGED <<insts, props, layer, pending>>
    BY EditAssumption DEF Assign, Proposes, Decides, EditHolds, EditTyped, Moved
  <1>2. Intact(classes) /\ Dict(classes)
    BY DEF EditHolds, EditTyped, Resolved, Intact
  <1>3. IriOf(k) \in Refs /\ IriOf(k) \in KnownIn(classes, insts)
    BY <1>1, <1>2, OwnAreIris DEF IriOf, Refs, KnownIn
  <1>4. Intact(Moved(classes, c, IriOf(k)))
    BY <1>2, <1>3, MovedIs
  <1> QED BY <1>1, <1>4, ClassesEdited

LEMMA StartReviewEdit ==
  ASSUME EditHolds, StartReview \/ WriteOntology
  PROVE  EditHolds'
  <1>1. /\ UNCHANGED <<classes, insts, props, pending, moves>> /\ layer' \in {"audit", "written"}
        /\ layer' = "audit" => marked' \subseteq DOMAIN classes
    BY DEF StartReview, WriteOntology
  <1>2. Intact(classes)
    BY DEF EditHolds, EditTyped, Resolved, Intact
  <1>3. moves \in 0..MaxMoves
    BY DEF EditHolds, EditTyped
  <1> QED BY <1>1, <1>2, <1>3, ClassesEdited

LEMMA ReHomeEdit ==
  ASSUME EditHolds, NEW c, NEW p \in Name, ReHome(c, p)
  PROVE  EditHolds'
  <1>1. PICK d : d = Anchored(p)
    OBVIOUS
  <1>2. /\ layer = "audit" /\ moves' \in 0..MaxMoves /\ marked' = marked \ {c}
        /\ classes' = Moved(d, c, <<d[p].ns, p>>)
        /\ UNCHANGED <<insts, props, layer, pending>>
    BY <1>1, EditAssumption DEF ReHome, Reviewed, Decides, EditHolds, EditTyped, Moved
  <1>3. Intact(d) /\ DOMAIN d = DOMAIN classes \cup {p}
    BY <1>1, AnchoredIs DEF EditHolds, EditTyped, Resolved, Intact
  <1>4. <<d[p].ns, p>> \in Refs /\ <<d[p].ns, p>> \in KnownIn(d, insts)
    BY <1>3, OwnAreIris DEF Refs, KnownIn, Intact
  <1>5. PICK w : w = Moved(d, c, <<d[p].ns, p>>)
    OBVIOUS
  <1>6. Intact(w) /\ DOMAIN w = DOMAIN d
    BY <1>3, <1>4, <1>5, MovedIs
  <1>7. marked' \subseteq DOMAIN w
    BY <1>2, <1>3, <1>6 DEF EditHolds, EarlyAndLate
  <1> QED BY <1>2, <1>5, <1>6, <1>7, ClassesEdited

\* The class that becomes an instance hands on its IRI, so what referred to it still resolves.
LEMMA ConvertEdit ==
  ASSUME EditHolds, NEW c, NEW p \in Name, Convert(c, p)
  PROVE  EditHolds'
  <1>1. PICK d : d = Anchored(p)
    OBVIOUS
  <1>2. /\ layer = "audit" /\ moves' \in 0..MaxMoves /\ marked' = marked \ {c} /\ c \in DOMAIN classes
        /\ insts' = {i \in insts : i[1] # IriOf(c)} \cup {<<IriOf(c), <<d[p].ns, p>>>>}
        /\ classes' = [n \in DOMAIN d \ {c} |-> d[n]]
        /\ UNCHANGED <<props, layer, pending>>
    BY <1>1, EditAssumption DEF Convert, Reviewed, Decides, EditHolds, EditTyped, EarlyAndLate
  <1>3. Intact(d) /\ DOMAIN d = DOMAIN classes \cup {p} /\ d[c].ns = classes[c].ns
    BY <1>1, <1>2, AnchoredIs DEF EditHolds, EditTyped, Resolved, Intact
  <1>4. PICK w : w = [n \in DOMAIN d \ {c} |-> d[n]]
    OBVIOUS
  <1>5. Dict(w) /\ DOMAIN w = DOMAIN d \ {c} /\ \A x \in DOMAIN w : w[x] = d[x]
    BY <1>3, <1>4 DEF Intact, Dict
  <1>6. IriOf(c) \in Iri /\ <<d[p].ns, p>> \in Iri
    BY <1>2, <1>3, OwnAreIris DEF IriOf, Intact
  <1>7. PICK is : is = insts'
    OBVIOUS
  <1>8. /\ is \in SUBSET (Iri \X (Iri \cup {OwlThing}))
        /\ IriOf(c) \in {j[1] : j \in is} /\ \A i \in insts : i[1] \in {j[1] : j \in is}
        /\ \A i \in is : i \in insts \/ i[2] = <<d[p].ns, p>>
    <2> HIDE DEF Iri
    <2>1. <<IriOf(c), <<d[p].ns, p>>>> \in is
      BY <1>2, <1>7
    <2>2. is \in SUBSET (Iri \X (Iri \cup {OwlThing}))
      BY <1>2, <1>6, <1>7 DEF EditHolds, EditTyped
    <2>3. IriOf(c) \in {j[1] : j \in is}
      <3>1. <<IriOf(c), <<d[p].ns, p>>>>[1] = IriOf(c)
        OBVIOUS
      <3> QED BY <2>1, <3>1
    <2>4. ASSUME NEW i \in insts PROVE i[1] \in {j[1] : j \in is}
      <3>1. CASE i[1] = IriOf(c)
        BY <2>3, <3>1
      <3>2. CASE i[1] # IriOf(c)
        <4>1. i \in is
          BY <1>2, <1>7, <3>2
        <4> QED BY <4>1
      <3> QED BY <3>1, <3>2
    <2>5. \A i \in is : i \in insts \/ i[2] = <<d[p].ns, p>>
      BY <1>2, <1>7
    <2> QED BY <2>2, <2>3, <2>4, <2>5
  <1>9. OwnIris(d) \subseteq OwnIris(w) \cup {IriOf(c)}
    BY <1>3, <1>5 DEF OwnIris, IriOf
  <1>10. IriOf(c) \in KnownIn(w, is)
    BY <1>8 DEF KnownIn
  <1>11. KnownIn(d, insts) \subseteq KnownIn(w, is)
    BY <1>8, <1>9, <1>10 DEF KnownIn
  <1>12. <<d[p].ns, p>> \in KnownIn(w, is)
    BY <1>3, <1>11, OwnAreIris DEF KnownIn, Intact
  <1>13. KnownIn(classes, insts) \subseteq KnownIn(w, is)
    BY <1>3, <1>11, IrisGrow DEF Intact
  <1>14. EditTyped'
    BY <1>2, <1>4, <1>5, <1>7, <1>8 DEF EditHolds, EditTyped
  <1>15. Resolved'
    <2>1. ParentsIn(w, KnownIn(w, is))
      BY <1>3, <1>5, <1>11 DEF Intact, ParentsIn
    <2>2. \A i \in is : i[2] \in KnownIn(w, is)
      BY <1>8, <1>12, <1>13 DEF EditHolds, Resolved
    <2>3. \A q \in props : \A e \in q : e \in KnownIn(w, is)
      BY <1>13 DEF EditHolds, Resolved
    <2> QED BY <1>2, <1>4, <1>7, <2>1, <2>2, <2>3 DEF Resolved
  <1>16. EarlyAndLate'
    BY <1>2, <1>3, <1>4, <1>5 DEF EditHolds, EarlyAndLate
  <1> QED BY <1>14, <1>15, <1>16 DEF EditHolds

NsAfter(n) == IF n \in ReHomed THEN NewNs(n) ELSE classes[n].ns

\* A class that is moved goes to one that stays where it is: a keyword's class is its own
\* keyword's, and the root has none.
LEMMA MovesToStay ==
  ASSUME NEW n \in ReHomed
  PROVE  \E u \in DOMAIN classes : (CHOOSE t \in Target(n) : TRUE) = IriOf(u) /\ NsAfter(u) = classes[u].ns
  <1>1. n \in DOMAIN Landform /\ n \in DOMAIN classes /\ Target(n) # {}
    BY DEF ReHomed
  <1>2. Landform[n] \in DOMAIN Landform /\ Landform[Landform[n]] = Landform[n] /\ GeoRoot \notin DOMAIN Landform
    BY <1>1, EditAssumption
  <1>3. CASE Landform[n] \in DOMAIN classes
    <2>1. Target(n) = {IriOf(Landform[n])} /\ Target(Landform[n]) = {IriOf(Landform[n])}
      BY <1>2, <1>3 DEF Target
    <2>2. NewNs(Landform[n]) = classes[Landform[n]].ns
      <3>1. (CHOOSE t \in Target(Landform[n]) : TRUE) = IriOf(Landform[n])
        BY <2>1
      <3>2. NewNs(Landform[n]) = IriOf(Landform[n])[1]
        BY <3>1 DEF NewNs
      <3> QED BY <3>2 DEF IriOf
    <2> QED BY <1>3, <2>1, <2>2 DEF NsAfter
  <1>4. CASE Landform[n] \notin DOMAIN classes
    <2>1. Target(n) = {IriOf(GeoRoot)} /\ GeoRoot \in DOMAIN classes
      BY <1>1, <1>4 DEF Target
    <2>2. GeoRoot \notin ReHomed
      BY <1>2 DEF ReHomed
    <2> QED BY <2>1, <2>2 DEF NsAfter
  <1> QED BY <1>3, <1>4

LEMMA RewrittenIs ==
  ASSUME Dict(classes), NEW i
  PROVE  /\ i \in OwnIris(classes) => \E n \in DOMAIN classes : Rewritten(i) = <<NsAfter(n), n>>
         /\ i \notin OwnIris(classes) => Rewritten(i) = i
  <1>1. i \in OwnIris(classes) => i[2] \in DOMAIN classes /\ IriOf(i[2]) = i
    BY DEF OwnIris, IriOf
  <1>2. Here(i) => i \in OwnIris(classes)
    BY DEF Here, OwnIris, IriOf
  <1>3. ASSUME i \in OwnIris(classes) PROVE Rewritten(i) = <<NsAfter(i[2]), i[2]>>
    BY <1>1, <1>3 DEF Rewritten, Here, NsAfter, IriOf
  <1> QED BY <1>1, <1>2, <1>3 DEF Rewritten

LEMMA GeographyEdit ==
  ASSUME EditHolds, Geography
  PROVE  EditHolds'
  <1>1. /\ layer' \in {"review", "grouping"} /\ UNCHANGED <<pending, moves, marked>>
        /\ props' = {{Rewritten(i) : i \in p} : p \in props}
        /\ insts' = {<<i[1], Rewritten(i[2])>> : i \in insts}
    BY DEF Geography
  <1>2. Dict(classes) /\ Intact(classes)
    BY DEF EditHolds, EditTyped, Resolved, Intact
  <1>3. PICK d : d = [n \in DOMAIN classes |->
          IF n \in ReHomed
          THEN [ns |-> NewNs(n), parent |-> CHOOSE t \in Target(n) : TRUE, fresh |-> classes[n].fresh]
          ELSE [classes[n] EXCEPT !.parent = Rewritten(@)]]
    OBVIOUS
  <1>4. classes' = d /\ DOMAIN d = DOMAIN classes
    BY <1>3 DEF Geography
  <1>5. \A n \in DOMAIN classes : NsAfter(n) \in Namespace
    <2>1. \A n \in DOMAIN classes : classes[n].ns \in Namespace
      BY <1>2 DEF Dict, ClassRow
    <2>2. ASSUME NEW n \in ReHomed PROVE NewNs(n) \in Namespace
      <3>1. PICK u \in DOMAIN classes : (CHOOSE t \in Target(n) : TRUE) = IriOf(u)
        BY MovesToStay
      <3>2. NewNs(n) = classes[u].ns
        <4>1. NewNs(n) = IriOf(u)[1]
          BY <3>1 DEF NewNs
        <4> QED BY <4>1 DEF IriOf
      <3> QED BY <2>1, <3>2
    <2> QED BY <2>1, <2>2 DEF NsAfter
  <1>6. ASSUME NEW n \in DOMAIN classes
        PROVE  d[n].ns = NsAfter(n) /\ d[n].fresh \in BOOLEAN
    <2>1. classes[n] \in ClassRow
      BY <1>2 DEF Dict
    <2> QED BY <1>3, <2>1 DEF ClassRow, NsAfter
  <1>7. OwnIris(d) = {<<NsAfter(n), n>> : n \in DOMAIN classes} /\ OwnIris(d) \subseteq Iri
    BY <1>2, <1>4, <1>5, <1>6, RefTypes DEF OwnIris, Dict
  <1>8. PICK is : is = insts'
    OBVIOUS
  <1>9. {i[1] : i \in insts} \subseteq {i[1] : i \in is}
    <2>1. \A i \in insts : <<i[1], Rewritten(i[2])>> \in is /\ <<i[1], Rewritten(i[2])>>[1] = i[1]
      BY <1>1, <1>8
    <2> QED BY <2>1
  <1>10. \A r \in KnownIn(classes, insts) : Rewritten(r) \in KnownIn(d, is)
    BY <1>2, <1>7, <1>9, RewrittenIs DEF KnownIn
  <1>11. /\ \A r \in Refs : Rewritten(r) \in Refs
         /\ \A r \in Iri : Rewritten(r) \in Iri
         /\ Rewritten(OwlThing) = OwlThing /\ \A p \in SUBSET Iri : {Rewritten(i) : i \in p} \subseteq Iri
    <2>1. \A r \in Iri : Rewritten(r) \in Iri
      BY <1>2, <1>7, RewrittenIs
    <2>2. Rewritten(OwlThing) = OwlThing /\ Rewritten(NoParent) = NoParent
      BY <1>2, RewrittenIs, RefTypes, OwnAreIris
    <2> QED BY <2>1, <2>2 DEF Refs
  <1>12. ASSUME NEW n \in DOMAIN classes
         PROVE  d[n] \in ClassRow /\ d[n].parent \in KnownIn(d, is)
    <2>1. classes[n] \in ClassRow /\ classes[n].parent \in KnownIn(classes, insts)
      BY <1>2 DEF Dict, Intact, ParentsIn
    <2>2. CASE n \in ReHomed
      <3>1. PICK u \in DOMAIN classes : (CHOOSE t \in Target(n) : TRUE) = IriOf(u) /\ NsAfter(u) = classes[u].ns
        BY <2>2, MovesToStay
      <3>2. d[n].parent = IriOf(u)
        BY <1>3, <2>2, <3>1
      <3>3. IriOf(u) \in OwnIris(d)
        BY <1>7, <3>1 DEF IriOf
      <3>4. d[n].parent \in Refs /\ d[n].parent \in KnownIn(d, is)
        BY <1>7, <3>2, <3>3 DEF Refs, KnownIn
      <3>5. NewNs(n) \in Namespace /\ classes[n].fresh \in BOOLEAN
        BY <1>5, <2>1, <2>2 DEF NsAfter, ClassRow
      <3>6. d[n] = [ns |-> NewNs(n), parent |-> IriOf(u), fresh |-> classes[n].fresh]
        BY <1>3, <2>2, <3>1
      <3> QED BY <3>2, <3>4, <3>5, <3>6 DEF ClassRow
    <2>3. CASE n \notin ReHomed
      <3>1. d[n] = [classes[n] EXCEPT !.parent = Rewritten(classes[n].parent)]
        BY <1>3, <2>3
      <3>2. Rewritten(classes[n].parent) \in Refs /\ Rewritten(classes[n].parent) \in KnownIn(d, is)
        BY <1>10, <1>11, <2>1 DEF ClassRow
      <3> QED BY <2>1, <3>1, <3>2 DEF ClassRow
    <2> QED BY <2>2, <2>3
  <1>13. EditTyped'
    <2>1. Dict(d)
      BY <1>2, <1>4, <1>12 DEF Dict
    <2> HIDE DEF Iri
    <2>2. is \in SUBSET (Iri \X (Iri \cup {OwlThing}))
      <3>1. ASSUME NEW j \in is PROVE j \in Iri \X (Iri \cup {OwlThing})
        <4>1. PICK i \in insts : j = <<i[1], Rewritten(i[2])>>
          BY <1>1, <1>8
        <4>2. i[1] \in Iri /\ i[2] \in Iri \cup {OwlThing}
          BY DEF EditHolds, EditTyped
        <4>3. Rewritten(i[2]) \in Iri \cup {OwlThing}
          BY <1>11, <4>2
        <4> QED BY <4>1, <4>2, <4>3
      <3> QED BY <3>1
    <2>3. props' \in SUBSET (SUBSET Iri)
      BY <1>1, <1>11 DEF EditHolds, EditTyped
    <2> QED BY <1>1, <1>4, <1>8, <2>1, <2>2, <2>3 DEF EditHolds, EditTyped
  <1>14. Resolved'
    <2>1. ParentsIn(d, KnownIn(d, is))
      BY <1>4, <1>12 DEF ParentsIn
    <2>2. \A i \in is : i[2] \in KnownIn(d, is)
      <3>1. ASSUME NEW j \in is PROVE j[2] \in KnownIn(d, is)
        <4>1. PICK i \in insts : j = <<i[1], Rewritten(i[2])>>
          BY <1>1, <1>8
        <4>2. i[2] \in KnownIn(classes, insts) /\ j[2] = Rewritten(i[2])
          BY <4>1 DEF EditHolds, Resolved
        <4> QED BY <1>10, <4>2
      <3> QED BY <3>1
    <2>3. \A q \in props' : \A e \in q : e \in KnownIn(d, is)
      BY <1>1, <1>10 DEF EditHolds, Resolved
    <2> QED BY <1>4, <1>8, <2>1, <2>2, <2>3 DEF Resolved
  <1>15. EarlyAndLate'
    BY <1>1 DEF EarlyAndLate
  <1> QED BY <1>13, <1>14, <1>15 DEF EditHolds

\* The prune keeps classes of the ontology, up and down from what it found.
LEMMA UpStays ==
  ASSUME Dict(classes), NEW seeds \in SUBSET DOMAIN classes, NEW N \in Nat, NEW f,
         f = CHOOSE up : up = [k \in 0..N |-> IF k = 0 THEN seeds ELSE up[k-1] \cup Parents(up[k-1])]
  PROVE  f[N] \subseteq DOMAIN classes
  <1> DEFINE A == SUBSET DOMAIN classes
             G == [s \in A |-> s \cup Parents(s)]
  <1>1. \A s \in A : s \cup Parents(s) \in A
    BY DEF Parents
  <1>2. G \in [A -> A] /\ \A s \in A : G[s] = s \cup Parents(s)
    BY <1>1
  <1>3. seeds \in A
    OBVIOUS
  <1> HIDE DEF A, G
  <1>4. PICK g \in [0..N -> A] : g[0] = seeds /\ \A k \in 1..N : g[k] = G[g[k - 1]]
    <2>1. \E g \in [0..N -> A] : ClimbsBy(g, G, seeds, N)
      BY <1>2, <1>3, Iterates
    <2> QED BY <2>1 DEF ClimbsBy
  <1>5. g = [k \in 0..N |-> IF k = 0 THEN seeds ELSE g[k-1] \cup Parents(g[k-1])]
    <2>1. \A k \in 0..N : g[k] = IF k = 0 THEN seeds ELSE g[k-1] \cup Parents(g[k-1])
      <3>1. ASSUME NEW k \in 0..N, k # 0 PROVE g[k] = g[k-1] \cup Parents(g[k-1])
        <4>1. k \in 1..N /\ k - 1 \in 0..N
          BY <3>1
        <4>2. g[k - 1] \in A
          BY <4>1
        <4> QED BY <1>2, <1>4, <4>1, <4>2
      <3> QED BY <1>4, <3>1
    <2> QED BY <2>1
  <1>6. f = [k \in 0..N |-> IF k = 0 THEN seeds ELSE f[k-1] \cup Parents(f[k-1])]
    BY <1>5
  <1> DEFINE T == {n \in Nat : n <= N => f[n] \in A}
  <1>7. 0 \in T
    <2>1. f[0] = seeds
      BY <1>6
    <2> QED BY <1>3, <2>1
  <1>8. ASSUME NEW n \in T PROVE n + 1 \in T
    <2>1. CASE n + 1 <= N
      <3>1. n \in Nat /\ n <= N /\ f[n] \in A /\ n + 1 \in 0..N /\ n + 1 # 0 /\ (n + 1) - 1 = n
        BY <2>1
      <3>2. f[n + 1] = f[n] \cup Parents(f[n])
        BY <1>6, <3>1
      <3>3. f[n + 1] \in A
        BY <1>1, <3>1, <3>2
      <3> QED BY <3>1, <3>3
    <2>2. CASE ~(n + 1 <= N)
      BY <2>2
    <2> QED BY <2>1, <2>2
  <1>9. T \in SUBSET Nat
    OBVIOUS
  <1> HIDE DEF T
  <1>10. N \in T
    BY <1>7, <1>8, <1>9, Climb
  <1>11. f[N] \in A
    <2>1. N <= N
      OBVIOUS
    <2> QED BY <1>10, <2>1 DEF T
  <1> QED BY <1>11 DEF A

LEMMA DownStays ==
  ASSUME Dict(classes), NEW seeds \in SUBSET DOMAIN classes, NEW N \in Nat, NEW f,
         f = CHOOSE down : down = [k \in 0..N |-> IF k = 0 THEN seeds ELSE down[k-1] \cup Children(down[k-1])]
  PROVE  f[N] \subseteq DOMAIN classes
  <1> DEFINE A == SUBSET DOMAIN classes
             G == [s \in A |-> s \cup Children(s)]
  <1>1. \A s \in A : s \cup Children(s) \in A
    BY DEF Children
  <1>2. G \in [A -> A] /\ \A s \in A : G[s] = s \cup Children(s)
    BY <1>1
  <1>3. seeds \in A
    OBVIOUS
  <1> HIDE DEF A, G
  <1>4. PICK g \in [0..N -> A] : g[0] = seeds /\ \A k \in 1..N : g[k] = G[g[k - 1]]
    <2>1. \E g \in [0..N -> A] : ClimbsBy(g, G, seeds, N)
      BY <1>2, <1>3, Iterates
    <2> QED BY <2>1 DEF ClimbsBy
  <1>5. g = [k \in 0..N |-> IF k = 0 THEN seeds ELSE g[k-1] \cup Children(g[k-1])]
    <2>1. \A k \in 0..N : g[k] = IF k = 0 THEN seeds ELSE g[k-1] \cup Children(g[k-1])
      <3>1. ASSUME NEW k \in 0..N, k # 0 PROVE g[k] = g[k-1] \cup Children(g[k-1])
        <4>1. k \in 1..N /\ k - 1 \in 0..N
          BY <3>1
        <4>2. g[k - 1] \in A
          BY <4>1
        <4> QED BY <1>2, <1>4, <4>1, <4>2
      <3> QED BY <1>4, <3>1
    <2> QED BY <2>1
  <1>6. f = [k \in 0..N |-> IF k = 0 THEN seeds ELSE f[k-1] \cup Children(f[k-1])]
    BY <1>5
  <1> DEFINE T == {n \in Nat : n <= N => f[n] \in A}
  <1>7. 0 \in T
    <2>1. f[0] = seeds
      BY <1>6
    <2> QED BY <1>3, <2>1
  <1>8. ASSUME NEW n \in T PROVE n + 1 \in T
    <2>1. CASE n + 1 <= N
      <3>1. n \in Nat /\ n <= N /\ f[n] \in A /\ n + 1 \in 0..N /\ n + 1 # 0 /\ (n + 1) - 1 = n
        BY <2>1
      <3>2. f[n + 1] = f[n] \cup Children(f[n])
        BY <1>6, <3>1
      <3>3. f[n + 1] \in A
        BY <1>1, <3>1, <3>2
      <3> QED BY <3>1, <3>3
    <2>2. CASE ~(n + 1 <= N)
      BY <2>2
    <2> QED BY <2>1, <2>2
  <1>9. T \in SUBSET Nat
    OBVIOUS
  <1> HIDE DEF T
  <1>10. N \in T
    BY <1>7, <1>8, <1>9, Climb
  <1>11. f[N] \in A
    <2>1. N <= N
      OBVIOUS
    <2> QED BY <1>10, <2>1 DEF T
  <1> QED BY <1>11 DEF A

LEMMA HierarchyStays ==
  ASSUME Dict(classes), NEW seeds \in SUBSET DOMAIN classes
  PROVE  Hierarchy(seeds) \subseteq DOMAIN classes
  <1>1. Cardinality(DOMAIN classes) \in Nat
    BY MergedAssumption, FS_Subset, FS_CardinalityType DEF Dict
  <1>2. PICK N \in Nat : N = Cardinality(DOMAIN classes)
    BY <1>1
  <1>3. PICK f : f = CHOOSE up : up = [k \in 0..N |-> IF k = 0 THEN seeds ELSE up[k-1] \cup Parents(up[k-1])]
    OBVIOUS
  <1>4. PICK g : g = CHOOSE down : down = [k \in 0..N |-> IF k = 0 THEN seeds ELSE down[k-1] \cup Children(down[k-1])]
    OBVIOUS
  <1>5. Hierarchy(seeds) = f[N] \cup g[N]
    BY <1>2, <1>3, <1>4 DEF Hierarchy
  <1> QED BY <1>3, <1>4, <1>5, UpStays, DownStays

LEMMA PruneEdit ==
  ASSUME EditHolds, NEW seeds \in SUBSET DOMAIN classes, NEW shielded \in SUBSET DOMAIN classes, Prune(seeds, shielded)
  PROVE  EditHolds'
  <1>1. PICK keep : keep = IF seeds \cup shielded = {} THEN DOMAIN classes ELSE Partners(Hierarchy(seeds)) \cup shielded
    OBVIOUS
  <1>2. /\ layer = "prune" /\ layer' \in {"classes", "written"} /\ UNCHANGED <<pending, moves, marked>>
        /\ classes' = PrunedClasses(keep) /\ props' = PrunedProps(keep) /\ insts' = PrunedInsts(keep)
    BY <1>1 DEF Prune
  <1>3. /\ Dict(classes) /\ ParentsIn(classes, OwnIris(classes) \cup {NoParent})
        /\ \A i \in insts : i[2] \in OwnIris(classes)
        /\ \A p \in props : \A e \in p : e \in OwnIris(classes)
    BY <1>2 DEF EditHolds, EditTyped, EarlyAndLate
  <1>4. \A i \in OwnIris(classes) : i[2] \in DOMAIN classes /\ i = <<classes[i[2]].ns, i[2]>>
    BY DEF OwnIris
  <1>5. keep \subseteq DOMAIN classes
    <2>1. Partners(Hierarchy(seeds)) \subseteq DOMAIN classes
      <3>1. \A q \in props : Names(q) \subseteq DOMAIN classes
        BY <1>3, <1>4 DEF Names
      <3>2. Hierarchy(seeds) \subseteq DOMAIN classes
        BY <1>3, HierarchyStays
      <3> QED BY <3>1, <3>2 DEF Partners
    <2> QED BY <1>1, <2>1
  <1>6. PICK d : d = PrunedClasses(keep)
    OBVIOUS
  <1>7. /\ DOMAIN d = keep
        /\ \A n \in keep : d[n] \in ClassRow /\ d[n].ns = classes[n].ns
                            /\ d[n].parent = (IF classes[n].parent[2] \in keep THEN classes[n].parent ELSE NoParent)
    <2>1. DOMAIN d = keep
      BY <1>6 DEF PrunedClasses
    <2>2. ASSUME NEW n \in keep
          PROVE  d[n] \in ClassRow /\ d[n].ns = classes[n].ns
                 /\ d[n].parent = (IF classes[n].parent[2] \in keep THEN classes[n].parent ELSE NoParent)
      <3>1. classes[n] \in ClassRow /\ NoParent \in Refs
        BY <1>3, <1>5, RefTypes DEF Dict
      <3>2. d[n] = IF classes[n].parent[2] \in keep THEN classes[n] ELSE [classes[n] EXCEPT !.parent = NoParent]
        BY <1>6 DEF PrunedClasses
      <3> QED BY <3>1, <3>2 DEF ClassRow
    <2> QED BY <2>1, <2>2
  <1>8. \A i \in OwnIris(classes) : i[2] \in keep => i \in OwnIris(d)
    BY <1>4, <1>7 DEF OwnIris
  <1>9. OwnIris(d) \subseteq KnownIn(d, insts') /\ NoParent \in KnownIn(d, insts')
    BY DEF KnownIn
  <1>10. EditTyped'
    <2>1. Dict(d)
      BY <1>3, <1>5, <1>7 DEF Dict
    <2>2. insts' \in SUBSET (Iri \X (Iri \cup {OwlThing}))
      BY <1>2 DEF PrunedInsts, EditHolds, EditTyped
    <2>3. props' \in SUBSET (SUBSET Iri)
      BY <1>2 DEF PrunedProps, EditHolds, EditTyped
    <2> QED BY <1>2, <1>6, <2>1, <2>2, <2>3 DEF EditHolds, EditTyped
  <1>11. Resolved'
    <2>1. ParentsIn(d, KnownIn(d, insts'))
      <3>1. ASSUME NEW n \in keep PROVE d[n].parent \in KnownIn(d, insts')
        <4>1. classes[n].parent \in OwnIris(classes) \cup {NoParent}
          BY <1>3, <1>5 DEF ParentsIn
        <4> QED BY <1>7, <1>8, <1>9, <4>1
      <3> QED BY <1>7, <3>1 DEF ParentsIn
    <2>2. \A i \in insts' : i[2] \in KnownIn(d, insts')
      BY <1>2, <1>3, <1>8, <1>9 DEF PrunedInsts
    <2>3. \A q \in props' : \A e \in q : e \in KnownIn(d, insts')
      BY <1>2, <1>3, <1>8, <1>9 DEF PrunedProps
    <2> QED BY <1>2, <1>6, <2>1, <2>2, <2>3 DEF Resolved
  <1>12. EarlyAndLate'
    BY <1>2 DEF EarlyAndLate
  <1> QED BY <1>10, <1>11, <1>12 DEF EditHolds

LEMMA NextEdit ==
  ASSUME EditHolds, [EditNext]_editVars
  PROVE  EditHolds'
  <1>1. CASE \E seeds, shielded \in SUBSET DOMAIN classes : Prune(seeds, shielded)
    BY <1>1, PruneEdit
  <1>2. CASE \E i \in Individual, n \in Name : AddInstance(i, n)
    BY <1>2, AddInstanceEdit
  <1>3. ASSUME NEW n \in Name, NEW m \in Name,
               ReuseRelation(n, m) \/ AddRelation(n, m) \/ MintConcept(n, m) \/ Assign(n, m) \/ ReHome(n, m) \/ Convert(n, m)
        PROVE  EditHolds'
    BY <1>3, ReuseEdit, RelationEdit, MintEdit, AssignEdit, ReHomeEdit, ConvertEdit
  <1>4. CASE \E p \in pending : AddClass(p[1], p[2])
    BY <1>4, AddClassEdit
  <1>5. CASE StemRelations
    BY <1>5, StemEdit
  <1>6. CASE Geography
    BY <1>6, GeographyEdit
  <1>7. CASE StartReview \/ WriteOntology
    BY <1>7, StartReviewEdit
  <1>8. CASE UNCHANGED editVars
    BY <1>8 DEF editVars, EditHolds, EditTyped, Resolved, EarlyAndLate
  <1> QED BY <1>1, <1>2, <1>3, <1>4, <1>5, <1>6, <1>7, <1>8 DEF EditNext

LEMMA EditAlways == Spec => []EditHolds
  <1>1. Init => EditHolds
    BY EmptyEdit, MergedEdit DEF Init
  <1>2. EditHolds /\ [Next]_buildVars => EditHolds'
    <2> SUFFICES ASSUME EditHolds, [Next]_buildVars PROVE EditHolds'
      OBVIOUS
    <2>1. [EditNext]_editVars
      BY DEF Next, buildVars
    <2> QED BY <2>1, NextEdit
  <1> QED BY <1>1, <1>2, PTL DEF Spec

\* Whatever the layers of the build prune, mint, move and turn into instances, every
\* reference still names something that is there, for any ontology, names and decisions.
THEOREM RefsStand == Spec => []RefsResolve
  BY EditAlways, EditShows, PTL

=============================================================================
