---------------------- MODULE Services_proofs ----------------------
(***************************************************************************)
(* Proofs about five of the components composed in Services, for any       *)
(* embedders, jobs, files and windows: the embedding guard, the ontology   *)
(* import, the entity extraction, the insight rollup and the               *)
(* conversations.  Each keeps an inductive invariant of its own under its  *)
(* own Init and Next; a step of Services is a step of one component and    *)
(* leaves the variables of the others alone.                               *)
(***************************************************************************)
EXTENDS Services, FiniteSetTheorems, TLAPS
LEMMA LeastOf ==
  ASSUME NEW T \in SUBSET Nat, T # {}
  PROVE  \E x \in T : \A y \in T : x <= y
  <1> DEFINE R == OpToRel(<, Nat)
  <1>0. IsWellFoundedOn(R, Nat)
    BY NatLessThanWellFounded
  <1>1. \A x, y \in Nat : y < x => <<y, x>> \in R
    BY DEF OpToRel
  <1> HIDE DEF R
  <1>2. PICK x \in T : \A y \in T : ~(<<y, x>> \in R)
    BY WFMin, <1>0
  <1>3. ASSUME NEW y \in T PROVE x <= y
    <2>1. x \in Nat /\ y \in Nat
      OBVIOUS
    <2>2. ~(y < x)
      BY <1>1, <1>2, <2>1
    <2> QED BY <2>1, <2>2
  <1> QED BY <1>3

LEMMA GreatestOf ==
  ASSUME NEW S \in SUBSET Int, S # {}, NEW bound \in Int, \A x \in S : x <= bound
  PROVE  \E x \in S : \A y \in S : y <= x
  <1> DEFINE T == {n \in Nat : bound - n \in S}
  <1>1. PICK s \in S : TRUE
    OBVIOUS
  <1>2. bound - s \in T
    BY <1>1
  <1>3. PICK n \in T : \A m \in T : n <= m
    BY <1>2, LeastOf
  <1>4. ASSUME NEW y \in S PROVE y <= bound - n
    <2>1. y \in Int /\ bound - y \in Nat /\ bound - (bound - y) = y
      OBVIOUS
    <2>2. bound - y \in T
      BY <2>1
    <2>3. n \in Nat /\ n <= bound - y
      BY <1>3, <2>2
    <2> QED BY <2>1, <2>3
  <1> QED BY <1>3, <1>4

LEMMA MaxOf ==
  ASSUME NEW S \in SUBSET Int, S # {}, NEW bound \in Int, \A x \in S : x <= bound
  PROVE  Max(S) \in S /\ \A y \in S : y <= Max(S)
  BY GreatestOf DEF Max

LEMMA MinOfTwo ==
  ASSUME NEW m \in Int, NEW n \in Int
  PROVE  /\ Min({m, n}) \in {m, n}
         /\ Min({m, n}) <= m /\ Min({m, n}) <= n
  <1>1. \E x \in {m, n} : \A y \in {m, n} : x <= y
    OBVIOUS
  <1> QED BY <1>1 DEF Min

-----------------------------------------------------------------------------
(***************************************************************************)
(* The embedding guard: what the vectors and the memos are of.             *)
(***************************************************************************)
\* What the database's vectors are of, as far as the stamp tells.
Stamped(m) == stamp # NoModel /\ m = stamp

(***************************************************************************)
(* VectorsMatchStamp says nothing of a memo that no call is using, nor of  *)
(* a stamp about to be written, and both decide what is stored next.       *)
(***************************************************************************)

\* A memo that did not slip is of the stamp, and so is a model past the guard.
MemoMatches ==
  /\ \A p \in GProc : \A m \in verified[p] : m \in slipped \/ Stamped(m)
  /\ \A p \in GProc : guard[p].pc = "use" => guard[p].model \in slipped \/ Stamped(guard[p].model)

\* Until there is a stamp no UPDATE has missed it, and only legacy vectors exist.
UnstampedIsLegacy ==
  /\ \A p \in GProc : guard[p].pc = "stamp" => guard[p].model \in EmbModel
  /\ stamp = NoModel =>
       /\ slipped = {}
       /\ \A v \in vectors : v[2] = LegacyModel
       /\ \A p \in GProc : guard[p].pc = "stamp" => vectors = {} \/ guard[p].model = LegacyModel
  /\ \A v \in vectors : v[2] \in slipped \/ (stamp # NoModel => v[2] = stamp)

GuardInv == GuardTypeOK /\ MemoMatches /\ UnstampedIsLegacy

LEMMA InvShowsMatch == GuardInv => VectorsMatchStamp
  <1> SUFFICES ASSUME GuardInv PROVE VectorsMatchStamp
    OBVIOUS
  <1>1. \A v \in vectors : v[2] \notin slipped => v[2] = IF stamp = NoModel THEN LegacyModel ELSE stamp
    BY DEF GuardInv, UnstampedIsLegacy
  <1>2. \A q \in GProc : guard[q].pc = "use" /\ guard[q].model \notin slipped =>
          guard[q].model = IF stamp = NoModel THEN LegacyModel ELSE stamp
    BY DEF GuardInv, MemoMatches, Stamped
  <1> QED BY <1>1, <1>2 DEF VectorsMatchStamp

LEMMA GuardInvInit == GuardInit => GuardInv
  <1> SUFFICES ASSUME GuardInit PROVE GuardInv
    OBVIOUS
  <1>1. GuardTypeOK
    BY GuardAssumption DEF GuardInit, GuardTypeOK, GuardRecord, OutOfGuard, VectorTable
  <1>2. \A p \in GProc : verified[p] = {} /\ guard[p].pc = "idle"
    BY DEF GuardInit, OutOfGuard
  <1>3. MemoMatches
    BY <1>2 DEF MemoMatches
  <1>4. UnstampedIsLegacy
    BY <1>2 DEF UnstampedIsLegacy, GuardInit
  <1> QED BY <1>1, <1>3, <1>4 DEF GuardInv

\* A process that leaves the guard, or starts anew, relies on nothing.
LEMMA LeavesGuard ==
  ASSUME GuardInv, NEW p \in GProc, guard' = [guard EXCEPT ![p] = OutOfGuard],
         \/ verified' = verified
         \/ verified' = [verified EXCEPT ![p] = {}],
         UNCHANGED <<stamp, slipped>>
  PROVE  /\ guard' \in [GProc -> GuardRecord] /\ verified' \in [GProc -> SUBSET EmbModel]
         /\ MemoMatches'
         /\ \A q \in GProc : guard'[q].pc # "idle" => guard'[q] = guard[q]
  <1>1. OutOfGuard \in GuardRecord /\ OutOfGuard.pc = "idle"
    BY DEF OutOfGuard, GuardRecord
  <1>2. \A q \in GProc : guard'[q] = guard[q] \/ guard'[q] = OutOfGuard
    BY DEF GuardInv, GuardTypeOK
  <1>3. \A q \in GProc : verified'[q] \subseteq verified[q]
    BY DEF GuardInv, GuardTypeOK
  <1>4. guard' \in [GProc -> GuardRecord] /\ verified' \in [GProc -> SUBSET EmbModel]
    BY <1>1 DEF GuardInv, GuardTypeOK
  <1>5. MemoMatches'
    BY <1>1, <1>2, <1>3 DEF GuardInv, MemoMatches, Stamped
  <1> QED BY <1>1, <1>2, <1>4, <1>5

LEMMA GuardInvNext ==
  ASSUME GuardInv, [GuardNext]_guardVars
  PROVE  GuardInv'
  <1> USE DEF GuardInv
  <1>1. CASE UNCHANGED guardVars
    BY <1>1 DEF guardVars, GuardTypeOK, MemoMatches, Stamped, UnstampedIsLegacy
  <1>2. ASSUME NEW t \in VectorTable, DropVectors(t)
        PROVE  GuardInv'
    <2>1. vectors' \subseteq vectors /\ UNCHANGED <<stamp, verified, guard, slipped>>
      BY <1>2 DEF DropVectors
    <2>2. GuardTypeOK'
      BY <2>1 DEF GuardTypeOK
    <2>3. MemoMatches'
      BY <2>1 DEF MemoMatches, Stamped
    <2>4. UnstampedIsLegacy'
      BY <2>1 DEF UnstampedIsLegacy
    <2> QED BY <2>2, <2>3, <2>4
  <1>3. ASSUME NEW p \in GProc, NEW m \in EmbModel, EnsureModel(p, m)
        PROVE  GuardInv'
    <2> DEFINE at(pc) == [pc |-> pc, model |-> m]
    <2>0. at("use") \in GuardRecord /\ at("stamp") \in GuardRecord
      BY DEF GuardRecord
    <2>1. CASE guard' = [guard EXCEPT ![p] = at("use")] /\ UNCHANGED verified /\ m \in verified[p]
      <3>1. \A q \in GProc : q # p => guard'[q] = guard[q]
        BY <2>1 DEF GuardTypeOK
      <3>2. guard'[p] = at("use")
        BY <2>1 DEF GuardTypeOK
      <3>3. UNCHANGED <<stamp, vectors, slipped>>
        BY <1>3 DEF EnsureModel
      <3>4. GuardTypeOK'
        BY <2>0, <2>1, <3>3 DEF GuardTypeOK
      <3>5. MemoMatches'
        BY <2>1, <3>1, <3>2, <3>3 DEF MemoMatches, Stamped
      <3>6. UnstampedIsLegacy'
        BY <3>1, <3>2, <3>3 DEF UnstampedIsLegacy
      <3> QED BY <3>4, <3>5, <3>6
    <2>2. CASE /\ MustStamp(m) /\ guard' = [guard EXCEPT ![p] = at("stamp")] /\ UNCHANGED verified
      <3>1. \A q \in GProc : q # p => guard'[q] = guard[q]
        BY <2>2 DEF GuardTypeOK
      <3>2. guard'[p] = at("stamp")
        BY <2>2 DEF GuardTypeOK
      <3>3. UNCHANGED <<stamp, vectors, slipped>>
        BY <1>3 DEF EnsureModel
      <3>4. vectors = {} \/ m = LegacyModel
        BY <2>2 DEF MustStamp, DbModel, HasVectors
      <3>5. GuardTypeOK'
        BY <2>0, <2>2, <3>3 DEF GuardTypeOK
      <3>6. MemoMatches'
        BY <2>2, <3>1, <3>2, <3>3 DEF MemoMatches, Stamped
      <3>7. UnstampedIsLegacy'
        BY <3>1, <3>2, <3>3, <3>4 DEF UnstampedIsLegacy
      <3> QED BY <3>5, <3>6, <3>7
    <2>3. CASE /\ DbModel(m) = m /\ ~MustStamp(m) /\ guard' = [guard EXCEPT ![p] = at("use")]
               /\ verified' = [verified EXCEPT ![p] = @ \cup {m}]
      <3>1. \A q \in GProc : q # p => guard'[q] = guard[q] /\ verified'[q] = verified[q]
        BY <2>3 DEF GuardTypeOK
      <3>2. guard'[p] = at("use") /\ verified'[p] = verified[p] \cup {m}
        BY <2>3 DEF GuardTypeOK
      <3>3. UNCHANGED <<stamp, vectors, slipped>>
        BY <1>3 DEF EnsureModel
      <3>4. Stamped(m)
        BY <2>3 DEF MustStamp, DbModel, Stamped
      <3>5. GuardTypeOK'
        BY <2>0, <2>3, <3>3 DEF GuardTypeOK
      <3>6. MemoMatches'
        BY <3>1, <3>2, <3>3, <3>4 DEF MemoMatches, Stamped
      <3>7. UnstampedIsLegacy'
        BY <3>1, <3>2, <3>3 DEF UnstampedIsLegacy
      <3> QED BY <3>5, <3>6, <3>7
    <2> QED BY <1>3, <2>1, <2>2, <2>3 DEF EnsureModel
  <1>4. ASSUME NEW p \in GProc, WriteStamp(p)
        PROVE  GuardInv'
    <2> DEFINE m == guard[p].model
    <2>1. m \in EmbModel /\ m # NoModel
      BY <1>4, GuardAssumption DEF WriteStamp, UnstampedIsLegacy
    <2>2. /\ \A q \in GProc : q # p => guard'[q] = guard[q] /\ verified'[q] = verified[q]
          /\ guard'[p].pc = "use" /\ guard'[p].model = m /\ verified'[p] = verified[p] \cup {m}
      BY <1>4 DEF WriteStamp, GuardTypeOK, GuardRecord
    <2>3. /\ stamp' = IF stamp = NoModel THEN m ELSE stamp
          /\ slipped' = IF stamp' = m THEN slipped ELSE slipped \cup {m}
          /\ vectors' = vectors
      BY <1>4 DEF WriteStamp
    <2>4. stamp' # NoModel /\ (m \in slipped' \/ m = stamp') /\ slipped \subseteq slipped'
      BY <2>1, <2>3
    <2>5. GuardTypeOK'
      <3>1. guard' \in [GProc -> GuardRecord]
        BY <1>4 DEF WriteStamp, GuardTypeOK, GuardRecord
      <3>2. verified' \in [GProc -> SUBSET EmbModel]
        BY <1>4, <2>1 DEF WriteStamp, GuardTypeOK
      <3> QED BY <2>1, <2>3, <3>1, <3>2 DEF GuardTypeOK
    <2>6. MemoMatches'
      <3>1. \A n : n \in slipped \/ Stamped(n) => n \in slipped' \/ n = stamp'
        BY <2>3, <2>4 DEF Stamped
      <3>2. \A q \in GProc : \A n \in verified'[q] : n \in slipped' \/ n = stamp'
        BY <2>2, <2>4, <3>1 DEF MemoMatches
      <3>3. \A q \in GProc : guard'[q].pc = "use" => guard'[q].model \in slipped' \/ guard'[q].model = stamp'
        BY <2>2, <2>4, <3>1 DEF MemoMatches
      <3> QED BY <2>4, <3>2, <3>3 DEF MemoMatches, Stamped
    <2>7. \A v \in vectors : v[2] \in slipped' \/ v[2] = stamp'
      <3>1. CASE stamp = NoModel
        BY <1>4, <2>3, <3>1 DEF UnstampedIsLegacy, WriteStamp
      <3>2. CASE stamp # NoModel
        BY <2>3, <2>4, <3>2 DEF UnstampedIsLegacy
      <3> QED BY <3>1, <3>2
    <2>8. UnstampedIsLegacy'
      BY <2>2, <2>3, <2>4, <2>7 DEF UnstampedIsLegacy
    <2> QED BY <2>5, <2>6, <2>8
  <1>5. ASSUME NEW p \in GProc, UseVectors(p)
        PROVE  GuardInv'
    <2> DEFINE m == guard[p].model
    <2>1. m \in slipped \/ Stamped(m)
      BY <1>5 DEF UseVectors, MemoMatches
    <2>2. stamp # NoModel
      BY <2>1 DEF UnstampedIsLegacy, Stamped
    <2>3. m \in EmbModel
      BY <2>1, <2>2 DEF GuardTypeOK, Stamped
    <2>4. \/ vectors' = vectors
          \/ \E t \in VectorTable : vectors' = vectors \cup {<<t, m>>}
      BY <1>5 DEF UseVectors
    <2>5. UNCHANGED <<stamp, verified, slipped>> /\ guard' = [guard EXCEPT ![p] = OutOfGuard]
      BY <1>5 DEF UseVectors
    <2>6. GuardTypeOK'
      <3>1. vectors' \in SUBSET (VectorTable \X EmbModel)
        BY <2>3, <2>4 DEF GuardTypeOK
      <3>2. guard' \in [GProc -> GuardRecord] /\ verified' \in [GProc -> SUBSET EmbModel]
        BY <2>5, LeavesGuard
      <3> QED BY <2>5, <3>1, <3>2 DEF GuardTypeOK
    <2>7. MemoMatches'
      BY <2>5, LeavesGuard
    <2>8. \A v \in vectors' : v[2] \in slipped \/ v[2] = stamp
      BY <2>1, <2>2, <2>4 DEF UnstampedIsLegacy, Stamped
    <2>9. UnstampedIsLegacy'
      BY <2>2, <2>5, <2>8, LeavesGuard DEF UnstampedIsLegacy
    <2> QED BY <2>6, <2>7, <2>9
  <1>6. ASSUME NEW p \in GProc, EndProcess(p)
        PROVE  GuardInv'
    <2>1. /\ guard' = [guard EXCEPT ![p] = OutOfGuard] /\ verified' = [verified EXCEPT ![p] = {}]
          /\ UNCHANGED <<stamp, vectors, slipped>>
      BY <1>6 DEF EndProcess
    <2>2. GuardTypeOK' /\ MemoMatches'
      BY <2>1, LeavesGuard DEF GuardTypeOK
    <2>3. UnstampedIsLegacy'
      BY <2>1, LeavesGuard DEF UnstampedIsLegacy
    <2> QED BY <2>2, <2>3
  <1> QED BY <1>1, <1>2, <1>3, <1>4, <1>5, <1>6 DEF GuardNext

\* One model per database: whatever the order of the commands, the processes and
\* their memos, a stored vector and one about to be used are of the stamped model,
\* save those of a process whose stamp came second.
THEOREM OneModel == Spec => []VectorsMatchStamp
  <1>1. Init => GuardInv
    BY GuardInvInit DEF Init
  <1>2. [Next]_servicesVars => [GuardNext]_guardVars
    BY DEF Next, servicesVars
  <1> QED BY <1>1, <1>2, GuardInvNext, InvShowsMatch, PTL DEF Spec

-----------------------------------------------------------------------------
(***************************************************************************)
(* The ontology import: a process that has been alone throughout.          *)
(***************************************************************************)
ImpRecord ==
  [pc : {"idle", "classes", "ids", "delete", "insert", "truncate"}, file : OntFile \cup {NoFile},
   todo : SUBSET OntClass, write : SUBSET ((OntClass \X OntClass) \X Nat), clean : BOOLEAN,
   late : SUBSET OntClass]

\* The edges of file f that the loaded rows can carry.
EdgesOf(f) == {<<e, epoch>> : e \in {x \in f.edges : {x[1], x[2]} \subseteq Loaded}}

ImportsTyped ==
  /\ imp \in [OntProc -> ImpRecord]
  /\ \A p \in OntProc : imp[p].pc \notin {"idle", "truncate"} => imp[p].file \in OntFile
  /\ class \in [OntClass -> [ver : Nat, id : Nat]]
  /\ epoch \in Nat

\* A process that knows itself to be alone imports, and is alone; no file is
\* mirrored while a process is at work.
CleanIsAlone ==
  /\ \A p \in OntProc : imp[p].clean => imp[p].pc \notin {"idle", "truncate"} /\ Alone(p)
  /\ mirrored # NoFile => \A p \in OntProc : imp[p].pc = "idle"

\* A wipe takes all rows, so those there are of this epoch.
RowsOfEpoch == \A c \in Loaded : class[c].id = epoch

\* What a clean import has done so far.
CleanHasDone ==
  \A p \in OntProc : imp[p].clean =>
    /\ imp[p].file.classes \subseteq Loaded \cup imp[p].todo
    /\ imp[p].pc # "classes" => imp[p].todo = {}
    /\ imp[p].pc = "delete" => imp[p].write = EdgesOf(imp[p].file)
    /\ imp[p].pc = "insert" => /\ imp[p].write \subseteq EdgesOf(imp[p].file)
                               /\ edges = SetToBag(EdgesOf(imp[p].file) \ imp[p].write)

Mirrored ==
  mirrored # NoFile => mirrored.classes \subseteq Loaded /\ edges = SetToBag(EdgesOf(mirrored))

\* What an entity wipe has not counted has landed since.
UncountedIsLate == \A p \in OntProc : imp[p].pc = "truncate" => entities \subseteq imp[p].late

ImportInv ==
  /\ ImportsTyped /\ CleanIsAlone /\ RowsOfEpoch /\ CleanHasDone /\ Mirrored /\ UncountedIsLate

LEMMA BagOfUnion ==
  ASSUME NEW A, NEW B, A \cap B = {}
  PROVE  SetToBag(A) (+) SetToBag(B) = SetToBag(A \cup B)
  BY DEF (+), EmptyBag, SetToBag

\* A step of one process that is in an import and leaves the rows alone.
LEMMA ImporterStep ==
  ASSUME ImportInv, NEW p \in OntProc, NEW r \in ImpRecord,
         imp' = [imp EXCEPT ![p] = r], imp[p].pc \notin {"idle", "truncate"},
         r.pc \notin {"idle", "truncate"}, r.file = imp[p].file, r.clean = imp[p].clean,
         UNCHANGED <<class, entities, epoch, mirrored>>,
         r.clean => /\ r.file.classes \subseteq Loaded \cup r.todo
                    /\ r.pc # "classes" => r.todo = {}
                    /\ r.pc = "delete" => r.write = EdgesOf(r.file)
                    /\ r.pc = "insert" => /\ r.write \subseteq EdgesOf(r.file)
                                          /\ edges' = SetToBag(EdgesOf(r.file) \ r.write)
  PROVE  ImportInv'
  <1>1. imp'[p] = r /\ \A q \in OntProc \ {p} : imp'[q] = imp[q]
    BY DEF ImportInv, ImportsTyped
  <1>2. Loaded' = Loaded /\ RowsOfEpoch' /\ \A f : EdgesOf(f)' = EdgesOf(f)
    BY DEF ImportInv, RowsOfEpoch, Loaded, EdgesOf
  <1>3. mirrored' = NoFile
    BY DEF ImportInv, CleanIsAlone
  <1>4. ImportsTyped'
    BY <1>1 DEF ImportInv, ImportsTyped
  <1>5. CleanIsAlone'
    BY <1>1, <1>3 DEF ImportInv, CleanIsAlone, Alone
  <1>6. CleanHasDone'
    <2> SUFFICES ASSUME NEW q \in OntProc, imp'[q].clean
                 PROVE  q = p
      BY <1>1, <1>2 DEF CleanHasDone
    <2> QED BY <1>1 DEF ImportInv, CleanIsAlone, Alone
  <1>7. Mirrored' /\ UncountedIsLate'
    BY <1>1, <1>3 DEF ImportInv, Mirrored, UncountedIsLate
  <1> QED BY <1>2, <1>4, <1>5, <1>6, <1>7 DEF ImportInv

\* A step that ends what a process does, or begins a wipe or an import.
LEMMA RestStep ==
  ASSUME ImportInv, NEW p \in OntProc,
         UNCHANGED <<class, edges, entities, epoch, mirrored>>, Holds(p, AtRestImp)
  PROVE  ImportInv'
  <1>0. AtRestImp \in ImpRecord /\ AtRestImp.pc = "idle" /\ ~AtRestImp.clean
    BY DEF AtRestImp, ImpRecord
  <1>1. imp'[p] = AtRestImp /\ \A q \in OntProc \ {p} : imp'[q] = imp[q]
    BY DEF ImportInv, ImportsTyped, Holds
  <1>2. Loaded' = Loaded /\ RowsOfEpoch' /\ \A f : EdgesOf(f)' = EdgesOf(f)
    BY DEF ImportInv, RowsOfEpoch, Loaded, EdgesOf
  <1>3. ImportsTyped'
    BY <1>0, <1>1 DEF ImportInv, ImportsTyped, Holds
  <1>4. CleanIsAlone'
    BY <1>0, <1>1 DEF ImportInv, CleanIsAlone, Alone
  <1>5. CleanHasDone' /\ Mirrored' /\ UncountedIsLate'
    BY <1>0, <1>1, <1>2 DEF ImportInv, CleanHasDone, Mirrored, UncountedIsLate
  <1> QED BY <1>2, <1>3, <1>4, <1>5 DEF ImportInv

LEMMA BeginStep ==
  ASSUME ImportInv, NEW p \in OntProc, NEW r \in ImpRecord, imp[p].pc = "idle",
         imp' = [Joined(p) EXCEPT ![p] = r], mirrored' = NoFile,
         UNCHANGED <<class, edges, entities, epoch>>,
         \/ r.pc = "truncate" /\ ~r.clean /\ entities = {}
         \/ /\ r.pc = "classes" /\ r.file \in OntFile /\ r.clean = Alone(p)
            /\ r.file.classes \subseteq Loaded \cup r.todo
  PROVE  ImportInv'
  <1>1. imp'[p] = r /\ \A q \in OntProc \ {p} : imp'[q] = [imp[q] EXCEPT !.clean = FALSE]
    BY DEF Joined
  <1>2. \A q \in OntProc : imp[q] \in ImpRecord
    BY DEF ImportInv, ImportsTyped
  <1>3. \A q \in OntProc \ {p} : /\ imp'[q] \in ImpRecord /\ ~imp'[q].clean
                                 /\ imp'[q].pc = imp[q].pc /\ imp'[q].file = imp[q].file
                                 /\ imp'[q].late = imp[q].late
    <2> SUFFICES ASSUME NEW q \in OntProc \ {p}
                 PROVE  /\ imp'[q] \in ImpRecord /\ ~imp'[q].clean
                        /\ imp'[q].pc = imp[q].pc /\ imp'[q].file = imp[q].file
                        /\ imp'[q].late = imp[q].late
      OBVIOUS
    <2>1. imp[q] \in ImpRecord /\ imp'[q] = [imp[q] EXCEPT !.clean = FALSE]
      BY <1>1, <1>2
    <2>2. /\ imp'[q].clean = FALSE /\ imp'[q].pc = imp[q].pc /\ imp'[q].file = imp[q].file
          /\ imp'[q].late = imp[q].late
      BY <2>1 DEF ImpRecord
    <2>3. \A i \in ImpRecord : [i EXCEPT !.clean = FALSE] \in ImpRecord
      BY DEF ImpRecord
    <2>4. imp'[q] \in ImpRecord
      BY <2>1, <2>3
    <2> QED BY <2>2, <2>4
  <1>4. imp' \in [OntProc -> ImpRecord]
    BY <1>1, <1>3 DEF Joined
  <1>5. Loaded' = Loaded /\ RowsOfEpoch'
    BY DEF ImportInv, RowsOfEpoch, Loaded
  <1>6. ImportsTyped'
    BY <1>1, <1>3, <1>4 DEF ImportInv, ImportsTyped
  <1>7. CleanIsAlone'
    BY <1>1, <1>3 DEF CleanIsAlone, Alone
  <1>8. CleanHasDone'
    <2> SUFFICES ASSUME r.clean
                 PROVE  /\ r.file.classes \subseteq Loaded \cup r.todo
                        /\ r.pc = "classes"
      BY <1>1, <1>3, <1>5 DEF CleanHasDone
    <2> QED OBVIOUS
  <1>9. Mirrored' /\ UncountedIsLate'
    BY <1>1, <1>3 DEF ImportInv, Mirrored, UncountedIsLate
  <1> QED BY <1>5, <1>6, <1>7, <1>8, <1>9 DEF ImportInv

\* A batch of rows: what is loaded grows.
LEMMA UpsertStep ==
  ASSUME ImportInv, NEW p \in OntProc, UpsertClasses(p)
  PROVE  ImportInv'
  <1>0. imp[p] \in ImpRecord /\ imp[p].pc = "classes" /\ imp[p].file \in OntFile
    BY DEF UpsertClasses, ImportInv, ImportsTyped
  <1>1. PICK batch \in (SUBSET imp[p].todo) \ {{}}, done \in SUBSET OntClass :
          /\ class' = [c \in OntClass |->
               IF c \notin batch THEN class[c]
               ELSE [ver |-> imp[p].file.ver,
                     id |-> IF class[c] = NoRow THEN epoch ELSE class[c].id]]
          /\ Holds(p, [imp[p] EXCEPT !.todo = @ \ done])
          /\ done \subseteq batch
    BY <1>0 DEF UpsertClasses, ImpRecord
  <1>2. UNCHANGED <<edges, entities, epoch, mirrored>>
    BY DEF UpsertClasses
  <1> DEFINE r == [imp[p] EXCEPT !.todo = imp[p].todo \ done]
  <1>3. /\ r \in ImpRecord /\ r.pc = "classes" /\ r.file = imp[p].file /\ r.clean = imp[p].clean
        /\ r.todo = imp[p].todo \ done
    BY <1>0 DEF ImpRecord
  <1>4. imp' = [imp EXCEPT ![p] = r]
    BY <1>1 DEF Holds
  <1> HIDE DEF r
  <1>5. imp'[p] = r /\ \A q \in OntProc \ {p} : imp'[q] = imp[q]
    BY <1>4 DEF ImportInv, ImportsTyped
  <1>6. imp[p].file.ver \in Nat \ {0} /\ batch \subseteq OntClass /\ epoch \in Nat
    BY <1>0, OntologyAssumption DEF ImpRecord, ImportInv, ImportsTyped
  <1>7. \A c \in OntClass : /\ class'[c] \in [ver : Nat, id : Nat]
                            /\ c \notin batch => class'[c] = class[c]
                            /\ c \in batch => class'[c].ver # 0
                            /\ c \in batch /\ c \in Loaded => class'[c].id = class[c].id
                            /\ c \in batch /\ c \notin Loaded => class'[c].id = epoch
    BY <1>1, <1>6 DEF ImportInv, ImportsTyped, Loaded
  <1>8. Loaded' = Loaded \cup batch
    BY <1>6, <1>7 DEF Loaded, NoRow
  <1>9. ImportsTyped'
    <2>1. class' \in [OntClass -> [ver : Nat, id : Nat]]
      BY <1>1, <1>7
    <2>2. imp' \in [OntProc -> ImpRecord]
      BY <1>3, <1>4 DEF ImportInv, ImportsTyped
    <2> QED BY <1>0, <1>2, <1>3, <1>5, <2>1, <2>2 DEF ImportInv, ImportsTyped
  <1>10. CleanIsAlone'
    BY <1>0, <1>2, <1>3, <1>5 DEF ImportInv, CleanIsAlone, Alone
  <1>11. RowsOfEpoch'
    BY <1>2, <1>6, <1>7, <1>8 DEF ImportInv, RowsOfEpoch, Loaded
  <1>12. CleanHasDone'
    <2> SUFFICES ASSUME NEW q \in OntProc, imp'[q].clean
                 PROVE  q = p /\ r.file.classes \subseteq Loaded' \cup r.todo
      BY <1>3, <1>5 DEF CleanHasDone
    <2>1. q = p
      BY <1>0, <1>5 DEF ImportInv, CleanIsAlone, Alone
    <2>2. imp[p].file.classes \subseteq Loaded \cup imp[p].todo
      BY <1>3, <1>5, <2>1 DEF ImportInv, CleanHasDone
    <2>3. done \subseteq batch
      BY <1>1
    <2> QED BY <1>3, <1>8, <2>1, <2>2, <2>3
  <1>13. mirrored' = NoFile
    BY <1>0, <1>2 DEF ImportInv, CleanIsAlone
  <1>14. Mirrored' /\ UncountedIsLate'
    BY <1>0, <1>2, <1>3, <1>5, <1>13 DEF ImportInv, Mirrored, UncountedIsLate
  <1> QED BY <1>9, <1>10, <1>11, <1>12, <1>14 DEF ImportInv

LEMMA InsertEdgesStep ==
  ASSUME ImportInv, NEW p \in OntProc, InsertEdges(p)
  PROVE  ImportInv'
  <1>0. imp[p] \in ImpRecord /\ imp[p].pc = "insert"
    BY DEF InsertEdges, ImportInv, ImportsTyped
  <1>1. PICK batch \in (SUBSET imp[p].write) \ {{}} :
          /\ edges' = edges (+) SetToBag(batch)
          /\ Holds(p, [imp[p] EXCEPT !.write = @ \ batch])
    BY DEF InsertEdges
  <1> DEFINE r == [imp[p] EXCEPT !.write = imp[p].write \ batch]
             E == EdgesOf(imp[p].file)
  <1>2. /\ r \in ImpRecord /\ r.pc = "insert" /\ r.file = imp[p].file /\ r.clean = imp[p].clean
        /\ r.todo = imp[p].todo /\ r.write = imp[p].write \ batch
    BY <1>0 DEF ImpRecord
  <1>3. imp' = [imp EXCEPT ![p] = r] /\ UNCHANGED <<class, entities, epoch, mirrored>>
    BY <1>1 DEF Holds, InsertEdges
  <1> HIDE DEF r, E
  <1>4. ASSUME imp[p].clean
        PROVE  /\ imp[p].file.classes \subseteq Loaded \cup imp[p].todo /\ imp[p].todo = {}
               /\ r.write \subseteq E
               /\ edges' = SetToBag(E \ r.write)
    <2>1. /\ imp[p].file.classes \subseteq Loaded \cup imp[p].todo /\ imp[p].todo = {}
          /\ imp[p].write \subseteq E /\ edges = SetToBag(E \ imp[p].write)
      BY <1>0, <1>4 DEF ImportInv, CleanHasDone, E
    <2>2. (E \ imp[p].write) \cap batch = {} /\ (E \ imp[p].write) \cup batch = E \ r.write
      BY <1>2, <2>1
    <2>3. edges' = SetToBag((E \ imp[p].write) \cup batch)
      BY <1>1, <2>1, <2>2, BagOfUnion
    <2> QED BY <1>2, <2>1, <2>2, <2>3
  <1> QED BY <1>0, <1>2, <1>3, <1>4, ImporterStep DEF E

LEMMA NextImport ==
  ASSUME ImportInv, [ImportNext]_importVars
  PROVE  ImportInv'
  <1>1. CASE UNCHANGED importVars
    <2>1. /\ UNCHANGED <<class, edges, entities, epoch, imp, mirrored>> /\ Loaded' = Loaded
          /\ \A f : EdgesOf(f)' = EdgesOf(f)
      BY <1>1 DEF importVars, Loaded, EdgesOf
    <2> QED BY <2>1 DEF ImportInv, ImportsTyped, CleanIsAlone, RowsOfEpoch, CleanHasDone, Mirrored,
               UncountedIsLate, Alone
  <1>2. CASE ClearEntities
    <2>1. /\ UNCHANGED <<class, edges, epoch, imp, mirrored>> /\ Loaded' = Loaded /\ entities' = {}
          /\ \A f : EdgesOf(f)' = EdgesOf(f)
      BY <1>2 DEF ClearEntities, Loaded, EdgesOf
    <2> QED BY <2>1 DEF ImportInv, ImportsTyped, CleanIsAlone, RowsOfEpoch, CleanHasDone, Mirrored,
               UncountedIsLate, Alone
  <1>3. ASSUME NEW c \in OntClass, EntityLands(c)
        PROVE  ImportInv'
    <2>1. /\ UNCHANGED <<class, edges, epoch, mirrored>> /\ Loaded' = Loaded
          /\ entities' = entities \cup {c} /\ \A f : EdgesOf(f)' = EdgesOf(f)
      BY <1>3 DEF EntityLands, Loaded, EdgesOf
    <2>2. \A p \in OntProc :
            /\ imp'[p] \in ImpRecord /\ imp'[p].pc = imp[p].pc /\ imp'[p].file = imp[p].file
            /\ imp'[p].clean = imp[p].clean /\ imp'[p].todo = imp[p].todo
            /\ imp'[p].write = imp[p].write
            /\ imp[p].pc = "truncate" => imp'[p].late = imp[p].late \cup {c}
      <3> SUFFICES ASSUME NEW p \in OntProc
                   PROVE  /\ imp'[p] \in ImpRecord /\ imp'[p].pc = imp[p].pc
                          /\ imp'[p].file = imp[p].file
                          /\ imp'[p].clean = imp[p].clean /\ imp'[p].todo = imp[p].todo
                          /\ imp'[p].write = imp[p].write
                          /\ imp[p].pc = "truncate" => imp'[p].late = imp[p].late \cup {c}
        OBVIOUS
      <3>1. imp[p] \in ImpRecord
        BY DEF ImportInv, ImportsTyped
      <3>2. imp'[p] = IF imp[p].pc = "truncate"
                      THEN [imp[p] EXCEPT !.late = @ \cup {c}] ELSE imp[p]
        BY <1>3 DEF EntityLands
      <3> QED BY <3>1, <3>2 DEF ImpRecord
    <2>3. ImportsTyped'
      <3>1. imp' \in [OntProc -> ImpRecord]
        BY <1>3, <2>2 DEF EntityLands
      <3> QED BY <2>1, <2>2, <3>1 DEF ImportInv, ImportsTyped
    <2>4. CleanIsAlone' /\ RowsOfEpoch'
      BY <2>1, <2>2 DEF ImportInv, CleanIsAlone, RowsOfEpoch, Alone
    <2>5. CleanHasDone' /\ Mirrored'
      BY <2>1, <2>2 DEF ImportInv, CleanHasDone, Mirrored
    <2>6. UncountedIsLate'
      BY <2>1, <2>2 DEF ImportInv, UncountedIsLate
    <2> QED BY <2>3, <2>4, <2>5, <2>6 DEF ImportInv
  <1>4. ASSUME NEW p \in OntProc, StartImport(p)
        PROVE  ImportInv'
    <2>1. PICK f \in OntFile :
            imp' = [Joined(p) EXCEPT ![p] =
              [AtRestImp EXCEPT !.pc = "classes", !.file = f,
                                !.todo = f.classes \ Loaded, !.clean = Alone(p)]]
      BY <1>4 DEF StartImport
    <2> DEFINE r == [AtRestImp EXCEPT !.pc = "classes", !.file = f,
                                      !.todo = f.classes \ Loaded, !.clean = Alone(p)]
    <2>2. f.classes \subseteq OntClass
      BY OntologyAssumption
    <2>3. /\ r \in ImpRecord /\ r.pc = "classes" /\ r.file = f /\ r.clean = Alone(p)
          /\ r.todo = f.classes \ Loaded
      BY <2>2 DEF ImpRecord, AtRestImp, Alone
    <2>4. imp' = [Joined(p) EXCEPT ![p] = r]
      BY <2>1
    <2> HIDE DEF r
    <2>5. imp[p].pc = "idle" /\ mirrored' = NoFile /\ UNCHANGED <<class, edges, entities, epoch>>
      BY <1>4 DEF StartImport
    <2>6. r.file.classes \subseteq Loaded \cup r.todo
      BY <2>3
    <2> QED BY <2>3, <2>4, <2>5, <2>6, BeginStep
  <1>5. ASSUME NEW p \in OntProc, StartWipe(p)
        PROVE  ImportInv'
    <2> DEFINE r == [AtRestImp EXCEPT !.pc = "truncate"]
    <2>1. r \in ImpRecord /\ r.pc = "truncate" /\ ~r.clean
      BY DEF ImpRecord, AtRestImp
    <2>2. imp' = [Joined(p) EXCEPT ![p] = r]
      BY <1>5 DEF StartWipe
    <2> HIDE DEF r
    <2>3. /\ imp[p].pc = "idle" /\ mirrored' = NoFile /\ UNCHANGED <<class, edges, entities, epoch>>
          /\ entities = {}
      BY <1>5 DEF StartWipe
    <2> QED BY <2>1, <2>2, <2>3, BeginStep
  <1>6. ASSUME NEW p \in OntProc, UpsertPlain(p)
        PROVE  ImportInv'
    <2> DEFINE r == [imp[p] EXCEPT !.pc = "ids"]
    <2>1. imp[p] \in ImpRecord /\ imp[p].pc = "classes" /\ imp[p].todo = {}
      BY <1>6 DEF UpsertPlain, ImportInv, ImportsTyped
    <2>2. /\ r \in ImpRecord /\ r.pc = "ids" /\ r.file = imp[p].file /\ r.clean = imp[p].clean
          /\ r.todo = {}
      BY <2>1 DEF ImpRecord
    <2>3. imp' = [imp EXCEPT ![p] = r] /\ UNCHANGED <<class, entities, epoch, mirrored>>
      BY <1>6 DEF UpsertPlain, Holds
    <2> HIDE DEF r
    <2>4. r.clean => r.file.classes \subseteq Loaded \cup r.todo
      BY <2>1, <2>2 DEF ImportInv, CleanHasDone
    <2> QED BY <2>1, <2>2, <2>3, <2>4, ImporterStep
  <1>7. ASSUME NEW p \in OntProc, ReadIds(p)
        PROVE  ImportInv'
    <2> DEFINE w == EdgesOf(imp[p].file)
               r == [imp[p] EXCEPT !.pc = "delete", !.write = w]
    <2>1. imp[p] \in ImpRecord /\ imp[p].pc = "ids" /\ imp[p].file \in OntFile
      BY <1>7 DEF ReadIds, ImportInv, ImportsTyped
    <2>2. w \in SUBSET ((OntClass \X OntClass) \X Nat)
      <3>1. imp[p].file.edges \subseteq OntClass \X OntClass /\ epoch \in Nat
        BY <2>1, OntologyAssumption DEF ImportInv, ImportsTyped
      <3> QED BY <3>1 DEF EdgesOf
    <2>3. imp' = [imp EXCEPT ![p] = r] /\ UNCHANGED <<class, entities, epoch, mirrored>>
      BY <1>7 DEF ReadIds, Holds, EdgesOf
    <2> HIDE DEF w
    <2>4. /\ r \in ImpRecord /\ r.pc = "delete" /\ r.file = imp[p].file /\ r.clean = imp[p].clean
          /\ r.todo = imp[p].todo /\ r.write = w
      BY <2>1, <2>2 DEF ImpRecord
    <2> HIDE DEF r
    <2>5. r.clean => r.file.classes \subseteq Loaded \cup r.todo /\ r.todo = {}
      BY <2>1, <2>4 DEF ImportInv, CleanHasDone
    <2>6. r.write = EdgesOf(r.file)
      BY <2>4 DEF w
    <2> QED BY <2>1, <2>3, <2>4, <2>5, <2>6, ImporterStep
  <1>8. ASSUME NEW p \in OntProc, DeleteEdges(p)
        PROVE  ImportInv'
    <2> DEFINE r == [imp[p] EXCEPT !.pc = "insert"]
    <2>1. imp[p] \in ImpRecord /\ imp[p].pc = "delete"
      BY <1>8 DEF DeleteEdges, ImportInv, ImportsTyped
    <2>2. /\ r \in ImpRecord /\ r.pc = "insert" /\ r.file = imp[p].file /\ r.clean = imp[p].clean
          /\ r.todo = imp[p].todo /\ r.write = imp[p].write
      BY <2>1 DEF ImpRecord
    <2>3. /\ imp' = [imp EXCEPT ![p] = r] /\ UNCHANGED <<class, entities, epoch, mirrored>>
          /\ edges' = EmptyBag
      BY <1>8 DEF DeleteEdges, Holds
    <2> HIDE DEF r
    <2>4. EmptyBag = SetToBag({})
      BY DEF EmptyBag
    <2>5. r.clean => /\ r.file.classes \subseteq Loaded \cup r.todo /\ r.todo = {}
                     /\ r.write = EdgesOf(r.file) /\ EdgesOf(r.file) \ r.write = {}
      BY <2>1, <2>2 DEF ImportInv, CleanHasDone
    <2> QED BY <2>1, <2>2, <2>3, <2>4, <2>5, ImporterStep
  <1>9. ASSUME NEW p \in OntProc, BumpImport(p)
        PROVE  ImportInv'
    <2>1. /\ imp[p].pc = "insert" /\ imp[p].write = {} /\ imp[p] \in ImpRecord
          /\ UNCHANGED <<class, edges, entities, epoch>> /\ Holds(p, AtRestImp)
          /\ mirrored' = IF imp[p].clean THEN imp[p].file ELSE NoFile
      BY <1>9 DEF BumpImport, ImportInv, ImportsTyped
    <2>2. CASE imp[p].clean
      <3>0. AtRestImp \in ImpRecord /\ AtRestImp.pc = "idle" /\ ~AtRestImp.clean
        BY DEF AtRestImp, ImpRecord
      <3>1. imp'[p] = AtRestImp /\ \A q \in OntProc \ {p} : imp'[q] = imp[q] /\ imp[q].pc = "idle"
        BY <2>1, <2>2 DEF ImportInv, ImportsTyped, CleanIsAlone, Alone, Holds
      <3>2. \A q \in OntProc : imp'[q].pc = "idle" /\ ~imp'[q].clean
        BY <3>0, <3>1, <2>2 DEF ImportInv, CleanIsAlone
      <3>3. Loaded' = Loaded /\ RowsOfEpoch' /\ \A f : EdgesOf(f)' = EdgesOf(f)
        BY <2>1 DEF ImportInv, RowsOfEpoch, Loaded, EdgesOf
      <3>4. ImportsTyped'
        BY <2>1, <3>0, <3>1, <3>2 DEF ImportInv, ImportsTyped, Holds
      <3>5. CleanIsAlone' /\ CleanHasDone' /\ UncountedIsLate'
        BY <3>2 DEF CleanIsAlone, CleanHasDone, UncountedIsLate
      <3>6. /\ imp[p].file.classes \subseteq Loaded
            /\ edges = SetToBag(EdgesOf(imp[p].file) \ {})
        BY <2>1, <2>2 DEF ImportInv, CleanHasDone
      <3>7. Mirrored'
        BY <2>1, <2>2, <3>3, <3>6 DEF Mirrored
      <3> QED BY <3>3, <3>4, <3>5, <3>7 DEF ImportInv
    <2>3. CASE ~imp[p].clean
      <3>1. mirrored' = mirrored
        BY <2>1, <2>3 DEF ImportInv, CleanIsAlone
      <3> QED BY <2>1, <3>1, RestStep
    <2> QED BY <2>2, <2>3
  <1>10. ASSUME NEW p \in OntProc, Truncate(p)
        PROVE  ImportInv'
    <2>0. AtRestImp \in ImpRecord /\ AtRestImp.pc = "idle" /\ ~AtRestImp.clean
      BY DEF AtRestImp, ImpRecord
    <2>1. /\ class' = [c \in OntClass |-> NoRow] /\ entities' = {} /\ epoch' = epoch + 1
          /\ Holds(p, AtRestImp) /\ UNCHANGED <<edges, mirrored>> /\ imp[p].pc = "truncate"
      BY <1>10 DEF Truncate
    <2>2. Loaded' = {}
      BY <2>1 DEF Loaded
    <2>3. imp'[p] = AtRestImp /\ \A q \in OntProc \ {p} : imp'[q] = imp[q]
      BY <2>1 DEF ImportInv, ImportsTyped, Holds
    <2>4. \A q \in OntProc : ~imp'[q].clean
      BY <2>0, <2>1, <2>3 DEF ImportInv, CleanIsAlone, Alone
    <2>5. mirrored' = NoFile
      BY <2>1 DEF ImportInv, CleanIsAlone
    <2>6. ImportsTyped'
      <3>1. NoRow \in [ver : Nat, id : Nat]
        BY DEF NoRow
      <3> QED BY <2>0, <2>1, <2>3, <3>1 DEF ImportInv, ImportsTyped, Holds
    <2>7. CleanIsAlone' /\ CleanHasDone' /\ Mirrored'
      BY <2>4, <2>5 DEF CleanIsAlone, CleanHasDone, Mirrored
    <2>8. RowsOfEpoch' /\ UncountedIsLate'
      BY <2>1, <2>2 DEF RowsOfEpoch, UncountedIsLate
    <2> QED BY <2>6, <2>7, <2>8 DEF ImportInv
  <1>11. ASSUME NEW p \in OntProc, StopImport(p)
        PROVE  ImportInv'
    BY <1>11, RestStep DEF StopImport
  <1> QED BY <1>1, <1>2, <1>3, <1>4, <1>5, <1>6, <1>7, <1>8, <1>9, <1>10, <1>11, UpsertStep,
          InsertEdgesStep DEF ImportNext

LEMMA InitImport ==
  ASSUME ImportInit
  PROVE  ImportInv
  <1>1. AtRestImp \in ImpRecord /\ AtRestImp.pc = "idle" /\ ~AtRestImp.clean
    BY DEF AtRestImp, ImpRecord
  <1>2. NoRow \in [ver : Nat, id : Nat]
    BY DEF NoRow
  <1>3. /\ \A p \in OntProc : imp[p] = AtRestImp
        /\ Loaded = {} /\ mirrored = NoFile
    BY DEF ImportInit, Loaded
  <1>4. ImportsTyped
    BY <1>1, <1>2, <1>3 DEF ImportInit, ImportsTyped
  <1> QED BY <1>1, <1>3, <1>4 DEF ImportInv, CleanIsAlone, RowsOfEpoch, CleanHasDone, Mirrored,
             UncountedIsLate

\* An import that had the ontology tables to itself leaves exactly its file's
\* hierarchy, for any files, batches and number of processes, whatever was
\* killed half way before it.
THEOREM ImportMirrors == Spec => []MirrorsFile
  <1>1. Init => ImportInv
    BY InitImport DEF Init
  <1>2. [Next]_servicesVars => [ImportNext]_importVars
    BY DEF Next, servicesVars
  <1>3. ImportInv /\ [ImportNext]_importVars => ImportInv'
    BY NextImport
  <1>4. ImportInv => MirrorsFile
    BY DEF ImportInv, Mirrored, RowsOfEpoch, MirrorsFile, EdgesOf
  <1> QED BY <1>1, <1>2, <1>3, <1>4, PTL DEF Spec

\* A wipe of the ontology takes along no entity that was there when it counted.
THEOREM WipesSpareEntities == Spec => WipeSparesCorpus
  <1>1. Init => ImportInv
    BY InitImport DEF Init
  <1>2. [Next]_servicesVars => [ImportNext]_importVars
    BY DEF Next, servicesVars
  <1>3. ImportInv /\ [ImportNext]_importVars => ImportInv'
    BY NextImport
  <1>4. ASSUME ImportInv, [ImportNext]_importVars
        PROVE  [epoch' # epoch =>
                  \E p \in OntProc : imp[p].pc = "truncate" /\ entities \subseteq imp[p].late]_importVars
    <2> SUFFICES ASSUME epoch' # epoch
                 PROVE  \E p \in OntProc : imp[p].pc = "truncate" /\ entities \subseteq imp[p].late
      OBVIOUS
    <2>1. PICK p \in OntProc : Truncate(p)
      BY <1>4 DEF ImportNext, importVars, ClearEntities, EntityLands, StartImport, UpsertClasses,
         UpsertPlain, ReadIds, DeleteEdges, InsertEdges, BumpImport, StartWipe, StopImport
    <2> QED BY <1>4, <2>1 DEF Truncate, ImportInv, UncountedIsLate
  <1> QED BY <1>1, <1>2, <1>3, <1>4, PTL DEF Spec, WipeSparesCorpus

-----------------------------------------------------------------------------
(***************************************************************************)
(* Entity extraction: places in the list of chunks that need a reading.    *)
(***************************************************************************)
LEMMA PlaceType ==
  ASSUME NEW U \in SUBSET Nat, IsFiniteSet(U), NEW c
  PROVE  /\ Place(c, U) \in Nat /\ IsFiniteSet({d \in U : d < c})
         /\ c \in U => Place(c, U) < Cardinality(U)
  <1> DEFINE L == {d \in U : d < c}
  <1>1. L \subseteq U /\ (c \in U => c \notin L)
    <2>1. \A d \in U : d \in Nat /\ ~(d < d)
      OBVIOUS
    <2> QED BY <2>1
  <1> HIDE DEF L
  <1>2. IsFiniteSet(L) /\ Cardinality(L) <= Cardinality(U) /\ (Cardinality(L) = Cardinality(U) => L = U)
    BY <1>1, FS_Subset
  <1>3. Cardinality(L) \in Nat /\ Cardinality(U) \in Nat
    BY <1>2, FS_CardinalityType
  <1>4. c \in U => Cardinality(L) < Cardinality(U)
    BY <1>1, <1>2, <1>3
  <1> QED BY <1>2, <1>3, <1>4 DEF L, Place

LEMMA PlaceGrows ==
  ASSUME NEW U \in SUBSET Nat, IsFiniteSet(U), NEW c \in U, NEW d \in U, c <= d
  PROVE  Place(c, U) <= Place(d, U)
  <1>0. c \in Nat /\ d \in Nat /\ \A e \in U : e \in Nat
    OBVIOUS
  <1>1. {e \in U : e < c} \subseteq {e \in U : e < d}
    <2> SUFFICES ASSUME NEW e \in U, e < c
                 PROVE  e < d
      OBVIOUS
    <2> QED BY <1>0
  <1>2. IsFiniteSet({e \in U : e < d})
    BY PlaceType
  <1> QED BY <1>1, <1>2, FS_Subset DEF Place

\* If one element has n before it, there are n whose place is below n.
LEMMA FirstPlaces ==
  ASSUME NEW U \in SUBSET Nat, IsFiniteSet(U), NEW n \in Nat, NEW c \in U, Place(c, U) >= n
  PROVE  Cardinality({d \in U : Place(d, U) < n}) >= n
  <1> DEFINE H == {d \in U : Place(d, U) >= n}
             L == {d \in U : Place(d, U) < n}
  <1>1. H \in SUBSET Nat /\ H # {}
    OBVIOUS
  <1>2. PICK m \in H : \A d \in H : m <= d
    BY <1>1, LeastOf
  <1>3. {d \in U : d < m} \subseteq L
    <2> SUFFICES ASSUME NEW d \in U, d < m
                 PROVE  Place(d, U) < n
      OBVIOUS
    <2>0. m \in Nat /\ d \in Nat
      OBVIOUS
    <2>1. d \notin H
      BY <1>2, <2>0
    <2>2. Place(d, U) \in Nat
      BY PlaceType
    <2> QED BY <2>1, <2>2
  <1>4. IsFiniteSet(L)
    BY FS_Subset
  <1> HIDE DEF H, L
  <1>5. Place(m, U) <= Cardinality(L)
    BY <1>3, <1>4, FS_Subset DEF Place
  <1>6. Place(m, U) >= n /\ Place(m, U) \in Nat /\ Cardinality(L) \in Nat
    BY <1>4, PlaceType, FS_CardinalityType DEF H
  <1> QED BY <1>5, <1>6 DEF L

\* What is behind a slice has the whole of it before it.
LEMMA BehindSlice ==
  ASSUME NEW U \in SUBSET Nat, IsFiniteSet(U), NEW n \in Nat, NEW k \in Nat,
         NEW c \in U, Place(c, U) >= n + k
  PROVE  Place(c, U) >= n + Cardinality(Slice(U, n, k))
  <1> DEFINE S == Slice(U, n, k)
             L == {d \in U : Place(d, U) < n}
             B == {d \in U : d < c}
  <1>1. \A d \in U : Place(d, U) \in Nat
    BY PlaceType
  <1>2. S \subseteq B /\ L \subseteq B
    <2> SUFFICES ASSUME NEW d \in S \cup L
                 PROVE  d \in U /\ d < c
      BY DEF Slice
    <2>1. d \in U /\ Place(d, U) < n + k
      BY <1>1 DEF Slice
    <2>2. ~(c <= d)
      BY <1>1, <2>1, PlaceGrows
    <2> QED BY <2>1, <2>2
  <1>3. S \cap L = {}
    <2>1. \A d \in U : ~(n <= Place(d, U) /\ Place(d, U) < n)
      BY <1>1
    <2> QED BY <2>1 DEF Slice
  <1>4. IsFiniteSet(B)
    BY PlaceType
  <1>5. Cardinality(L) >= n
    BY <1>1, FirstPlaces
  <1>6. Place(c, U) = Cardinality(B)
    BY DEF Place
  <1> HIDE DEF S, L, B
  <1>7. IsFiniteSet(S) /\ IsFiniteSet(L)
    BY <1>2, <1>4, FS_Subset
  <1>8. Cardinality(S \cup L) = Cardinality(S) + Cardinality(L) - Cardinality(S \cap L)
    BY <1>7, FS_Union
  <1>9. Cardinality(S \cap L) = 0
    BY <1>3, FS_EmptySet
  <1>10. Cardinality(S \cup L) <= Cardinality(B)
    BY <1>2, <1>4, FS_Subset
  <1>11. Cardinality(S) \in Nat /\ Cardinality(L) \in Nat /\ Cardinality(B) \in Nat
    BY <1>4, <1>7, FS_CardinalityType
  <1> QED BY <1>5, <1>6, <1>8, <1>9, <1>10, <1>11 DEF S

\* Elements that are not among the first n may go: the first n stay.
LEMMA PlaceStays ==
  ASSUME NEW U \in SUBSET Nat, IsFiniteSet(U), NEW V \in SUBSET U, NEW n \in Nat,
         \A d \in U \ V : Place(d, U) >= n,
         NEW c \in V, Place(c, V) < n
  PROVE  Place(c, U) < n
  <1>0. Place(c, U) \in Nat /\ c \in U /\ \A d \in U : d \in Nat
    BY PlaceType
  <1> SUFFICES ASSUME Place(c, U) >= n
               PROVE  FALSE
    BY <1>0
  <1> DEFINE R == {d \in U \ V : d < c}
             B == {d \in V : d < c}
  <1>1. IsFiniteSet(V)
    BY FS_Subset
  <1>2. IsFiniteSet(B) /\ Cardinality(B) \in Nat /\ Cardinality(B) < n
    BY <1>1, PlaceType DEF Place
  <1>3. CASE R = {}
    <2>1. {d \in U : d < c} \subseteq B
      BY <1>3
    <2>2. Place(c, U) <= Cardinality(B)
      BY <1>2, <2>1, FS_Subset DEF Place
    <2> QED BY <1>0, <1>2, <2>2
  <1>4. CASE R # {}
    <2>1. R \in SUBSET Nat
      OBVIOUS
    <2>2. PICK m \in R : \A d \in R : m <= d
      BY <1>4, <2>1, LeastOf
    <2>3. {d \in U : d < m} \subseteq B
      <3> SUFFICES ASSUME NEW d \in U, d < m
                   PROVE  d \in V /\ d < c
        OBVIOUS
      <3>1. m \in Nat /\ m < c /\ d \in Nat /\ c \in Nat
        BY <2>2
      <3>2. d < c
        BY <3>1
      <3>3. d \notin R
        BY <2>2, <3>1
      <3> QED BY <3>2, <3>3
    <2>4. Place(m, U) <= Cardinality(B)
      BY <1>2, <2>3, FS_Subset DEF Place
    <2>5. Place(m, U) >= n /\ Place(m, U) \in Nat
      BY <2>2, PlaceType
    <2> QED BY <1>2, <2>4, <2>5
  <1> QED BY <1>3, <1>4

(***************************************************************************)
(* What a run of the extraction holds.                                     *)
(***************************************************************************)
Readings == UNION {[told -> OClass] : told \in SUBSET XChunk}

StreamRecord ==
  [pc : {"idle", "count", "read", "resolve", "insert", "edges", "after", "tables"},
   size : Nat, offset : Nat, before : Nat, scanned : Nat, found : Readings,
   mints : SUBSET XEntity, use : SUBSET XEntity, types : SUBSET OClass]

InBatch == {"resolve", "insert", "edges"}

StreamsTyped ==
  /\ stream \in [Extractor -> StreamRecord]
  /\ attempted \in [Extractor -> SUBSET XChunk]
  /\ rows \in [XChunk -> {"none", "ACTIVE", "DELETED"}]
  /\ entityRows \subseteq XEntity
  /\ mentions \subseteq XChunk \X entityRows \X Extractor
  /\ streams \in 0..MaxStreams
  /\ \A x \in Extractor : x > streams => stream[x] = NoStream /\ attempted[x] = {}

\* Two runs that are under way at once are both disturbed.
BesideIsDisturbed ==
  \A x, y \in Extractor : x # y /\ x \in Running /\ y \in Running => x \in disturbed /\ y \in disturbed

\* One row has an identifier.
IdentifierUnique == \A d, e \in entityRows : d[1] = e[1] => d = e

\* The chunks of a batch that hold the name are free of other mentions.
FoundFree ==
  \A x \in Extractor : stream[x].pc \in InBatch =>
    \A m \in mentions : m[1] \in DOMAIN stream[x].found => {m[3], x} \subseteq disturbed /\ m[3] # x

\* A batch has one entity, and one that it mints gets a type.
OneEntity ==
  \A x \in Extractor :
    /\ stream[x].mints # {} => stream[x].pc \in {"insert", "edges"}
    /\ stream[x].pc = "insert" => \E e \in XEntity : stream[x].mints = {e}
    /\ stream[x].pc = "edges" /\ stream[x].mints # {} => stream[x].types # {}
    /\ stream[x].use \subseteq entityRows
    /\ \A d, e \in stream[x].use : d = e

\* The run that has minted e is about to write its edges.
Minting(x, e) ==
  stream[x].pc = "edges" /\ stream[x].mints = {e} /\ stream[x].use = {e}

EntityTyped ==
  \A e \in entityRows :
    \/ e \in cut
    \/ \E k \in OClass : <<e, k>> \in typed
    \/ \E x \in Extractor : Minting(x, e)

\* The chunks that x passes over, and those of its batch.
Passed(x)  == {c \in Unprocessed : Place(c, Unprocessed) < stream[x].offset}
BatchOf(x) == Slice(Unprocessed, stream[x].offset, stream[x].size)

BatchRead(x) ==
  BatchOf(x) \subseteq attempted[x] /\ stream[x].scanned <= Cardinality(BatchOf(x))

\* How far an undisturbed run has come.
RunSees ==
  \A x \in Running \ disturbed :
    /\ stream[x].pc # "tables" => Passed(x) \subseteq attempted[x]
    /\ stream[x].pc \in {"read"} \cup InBatch => stream[x].before = Cardinality(Unprocessed)
    /\ stream[x].pc \in InBatch => BatchRead(x) /\ DOMAIN stream[x].found \subseteq BatchOf(x)
    /\ stream[x].pc = "after" /\ Cardinality(Unprocessed) >= stream[x].before => BatchRead(x)
    /\ stream[x].pc = "tables" => Unprocessed \subseteq attempted[x]

ExtractInv ==
  /\ StreamsTyped /\ BesideIsDisturbed /\ IdentifierUnique /\ FoundFree /\ OneEntity
  /\ EntityTyped /\ RunSees /\ CoveredOnce

\* The parts that a run keeps when it only changes its own record.
LEMMA ReadingDomain ==
  ASSUME NEW f \in Readings
  PROVE  DOMAIN f \in SUBSET XChunk /\ \A c \in DOMAIN f : f[c] \in OClass
  BY DEF Readings

LEMMA ReadingOf ==
  ASSUME NEW told \in SUBSET XChunk, NEW f \in [told -> OClass]
  PROVE  f \in Readings /\ DOMAIN f = told
  BY DEF Readings

LEMMA NoReading ==
  [c \in {} |-> {}] \in Readings /\ DOMAIN [c \in {} |-> {}] = {}
  <1>1. [c \in {} |-> {}] \in [{} -> OClass] /\ {} \in SUBSET XChunk
    OBVIOUS
  <1> QED BY <1>1 DEF Readings

LEMMA NoStreamTyped ==
  /\ NoStream \in StreamRecord /\ NoStream.pc = "idle" /\ NoStream.offset = 0
  /\ NoStream.mints = {} /\ NoStream.use = {}
  BY NoReading DEF NoStream, StreamRecord

LEMMA UnprocessedFinite ==
  Unprocessed \in SUBSET Nat /\ IsFiniteSet(Unprocessed) /\ Cardinality(Unprocessed) \in Nat
  <1>1. NChunks \in Nat
    BY ExtractAssumption
  <1>2. Unprocessed \subseteq 1..NChunks
    BY DEF Unprocessed, XChunk
  <1>3. IsFiniteSet(1..NChunks)
    BY <1>1, FS_Interval
  <1>4. IsFiniteSet(Unprocessed)
    BY <1>2, <1>3, FS_Subset
  <1> QED BY <1>1, <1>2, <1>4, FS_CardinalityType

\* A step of x that leaves the database alone, and what x's record must be.
LEMMA OwnStep ==
  ASSUME ExtractInv, NEW x \in Extractor, x \in Running, NEW r \in StreamRecord,
         Becomes(x, r),
         UNCHANGED <<rows, entityRows, typed, mentions, cut, streams>>,
         disturbed \subseteq disturbed', disturbed' \subseteq disturbed \cup {x},
         attempted' \in [Extractor -> SUBSET XChunk],
         \A y \in Extractor \ {x} : attempted'[y] = attempted[y],
         r.pc \in InBatch => \A m \in mentions : m[1] \in DOMAIN r.found =>
                               {m[3], x} \subseteq disturbed /\ m[3] # x,
         r.mints # {} => r.pc \in {"insert", "edges"},
         r.pc = "insert" => \E e \in XEntity : r.mints = {e},
         r.pc = "edges" /\ r.mints # {} => r.types # {},
         r.use \subseteq entityRows, \A d, e \in r.use : d = e,
         ~\E e : Minting(x, e),
         r.pc # "idle" /\ x \notin disturbed' =>
           /\ r.pc # "tables" =>
                \A c \in Unprocessed : Place(c, Unprocessed) < r.offset => c \in attempted'[x]
           /\ r.pc \in {"read"} \cup InBatch => r.before = Cardinality(Unprocessed)
           /\ r.pc \in InBatch =>
                /\ Slice(Unprocessed, r.offset, r.size) \subseteq attempted'[x]
                /\ r.scanned <= Cardinality(Slice(Unprocessed, r.offset, r.size))
                /\ DOMAIN r.found \subseteq Slice(Unprocessed, r.offset, r.size)
           /\ r.pc = "after" /\ Cardinality(Unprocessed) >= r.before =>
                /\ Slice(Unprocessed, r.offset, r.size) \subseteq attempted'[x]
                /\ r.scanned <= Cardinality(Slice(Unprocessed, r.offset, r.size))
           /\ r.pc = "tables" => Unprocessed \subseteq attempted'[x]
  PROVE  ExtractInv'
  <1>1. /\ stream'[x] = r /\ \A y \in Extractor \ {x} : stream'[y] = stream[y]
        /\ stream' \in [Extractor -> StreamRecord]
    BY DEF ExtractInv, StreamsTyped, Becomes
  <1>2. Unprocessed' = Unprocessed
    BY DEF Unprocessed, Covered
  <1>3. /\ Running' \subseteq Running /\ Running \ {x} \subseteq Running'
        /\ x \in Running' <=> r.pc # "idle"
    BY <1>1 DEF Running
  <1>4. x \in Nat /\ ~(x > streams)
    <2>1. x \in Nat /\ streams \in Nat
      BY ExtractAssumption DEF Extractor, ExtractInv, StreamsTyped
    <2>2. stream[x] # NoStream
      BY NoStreamTyped DEF Running
    <2> QED BY <2>1, <2>2 DEF ExtractInv, StreamsTyped
  <1>5. StreamsTyped'
    BY <1>1, <1>4 DEF ExtractInv, StreamsTyped
  <1>6. BesideIsDisturbed'
    BY <1>3 DEF ExtractInv, BesideIsDisturbed
  <1>7. IdentifierUnique' /\ CoveredOnce'
    BY DEF ExtractInv, IdentifierUnique, CoveredOnce
  <1>8. FoundFree'
    BY <1>1 DEF ExtractInv, FoundFree
  <1>9. OneEntity'
    BY <1>1 DEF ExtractInv, OneEntity
  <1>10. EntityTyped'
    <2>2. \A y \in Extractor \ {x}, e \in entityRows : Minting(y, e) => Minting(y, e)'
      BY <1>1 DEF Minting
    <2> SUFFICES ASSUME NEW e \in entityRows
                 PROVE  \/ e \in cut
                        \/ \E k \in OClass : <<e, k>> \in typed
                        \/ \E y \in Extractor : Minting(y, e)'
      BY DEF EntityTyped
    <2>3. CASE \E y \in Extractor : Minting(y, e)
      BY <2>2, <2>3
    <2>4. CASE ~\E y \in Extractor : Minting(y, e)
      BY <2>4 DEF ExtractInv, EntityTyped
    <2> QED BY <2>3, <2>4
  <1>11. RunSees'
    <2> SUFFICES ASSUME NEW y \in Running' \ disturbed'
                 PROVE  /\ stream'[y].pc # "tables" => Passed(y)' \subseteq attempted'[y]
                        /\ stream'[y].pc \in {"read"} \cup InBatch => stream'[y].before = Cardinality(Unprocessed)
                        /\ stream'[y].pc \in InBatch => BatchRead(y)' /\ DOMAIN stream'[y].found \subseteq BatchOf(y)'
                        /\ stream'[y].pc = "after" /\ Cardinality(Unprocessed) >= stream'[y].before => BatchRead(y)'
                        /\ stream'[y].pc = "tables" => Unprocessed \subseteq attempted'[y]
      BY <1>2 DEF RunSees
    <2>1. CASE y = x
      <3>1. /\ Passed(x)' = {c \in Unprocessed : Place(c, Unprocessed) < r.offset}
            /\ BatchOf(x)' = Slice(Unprocessed, r.offset, r.size)
            /\ BatchRead(x)' <=> /\ Slice(Unprocessed, r.offset, r.size) \subseteq attempted'[x]
                                 /\ r.scanned <= Cardinality(Slice(Unprocessed, r.offset, r.size))
        BY <1>1, <1>2 DEF Passed, BatchOf, BatchRead
      <3> QED BY <1>1, <1>3, <2>1, <3>1
    <2>2. CASE y # x
      <3>1. y \in Running \ disturbed /\ stream'[y] = stream[y] /\ attempted'[y] = attempted[y]
        BY <1>1, <1>3, <2>2 DEF Running
      <3>2. Passed(y)' = Passed(y) /\ BatchOf(y)' = BatchOf(y) /\ (BatchRead(y)' <=> BatchRead(y))
        BY <1>2, <3>1 DEF Passed, BatchOf, BatchRead
      <3> QED BY <3>1, <3>2 DEF ExtractInv, RunSees
    <2> QED BY <2>1, <2>2
  <1> QED BY <1>5, <1>6, <1>7, <1>8, <1>9, <1>10, <1>11 DEF ExtractInv

LEMMA CountBeforeStep ==
  ASSUME ExtractInv, NEW x \in Extractor, CountBefore(x)
  PROVE  ExtractInv'
  <1> DEFINE n == Cardinality(Unprocessed)
             r == IF n <= stream[x].offset THEN [NoStream EXCEPT !.pc = "tables"]
                  ELSE [stream[x] EXCEPT !.pc = "read", !.before = n]
  <1>1. /\ stream[x] \in StreamRecord /\ stream[x].pc = "count" /\ x \in Running
        /\ UNCHANGED <<rows, entityRows, typed, mentions, cut, streams, disturbed, attempted>>
        /\ attempted \in [Extractor -> SUBSET XChunk]
    BY DEF CountBefore, ExtractInv, StreamsTyped, Running
  <1>2. Becomes(x, r)
    BY DEF CountBefore
  <1>3. Unprocessed \in SUBSET Nat /\ IsFiniteSet(Unprocessed) /\ n \in Nat
    BY UnprocessedFinite
  <1>4. stream[x].offset \in Nat /\ stream[x].mints = {} /\ stream[x].use \subseteq entityRows
        /\ \A d, e \in stream[x].use : d = e
    BY <1>1 DEF StreamRecord, ExtractInv, OneEntity
  <1>5. x \notin disturbed => Passed(x) \subseteq attempted[x]
    BY <1>1 DEF ExtractInv, RunSees
  <1>6. CASE n <= stream[x].offset
    <2>1. /\ r \in StreamRecord /\ r.pc = "tables" /\ r.mints = {} /\ r.use = {}
      BY <1>6, NoReading DEF NoStream, StreamRecord
    <2> HIDE DEF r
    <2>2. \A c \in Unprocessed : Place(c, Unprocessed) < stream[x].offset
      <3> SUFFICES ASSUME NEW c \in Unprocessed
                   PROVE  Place(c, Unprocessed) < stream[x].offset
        OBVIOUS
      <3>1. Place(c, Unprocessed) \in Nat /\ Place(c, Unprocessed) < n
        BY <1>3, PlaceType
      <3> QED BY <1>3, <1>4, <1>6, <3>1
    <2>3. x \notin disturbed => Unprocessed \subseteq attempted[x]
      BY <1>5, <2>2 DEF Passed
    <2>4. ~\E e : Minting(x, e)
      BY <1>1 DEF Minting
    <2> QED BY <1>1, <1>2, <2>1, <2>3, <2>4, OwnStep DEF InBatch
  <1>7. CASE ~(n <= stream[x].offset)
    <2>1. /\ r \in StreamRecord /\ r.pc = "read" /\ r.mints = {} /\ r.use = stream[x].use
          /\ r.before = n /\ r.offset = stream[x].offset
      BY <1>1, <1>3, <1>4, <1>7 DEF StreamRecord
    <2> HIDE DEF r
    <2>2. x \notin disturbed =>
            \A c \in Unprocessed : Place(c, Unprocessed) < r.offset => c \in attempted[x]
      BY <1>5, <2>1 DEF Passed
    <2>3. ~\E e : Minting(x, e)
      BY <1>1 DEF Minting
    <2> QED BY <1>1, <1>2, <1>4, <2>1, <2>2, <2>3, OwnStep DEF InBatch
  <1> QED BY <1>6, <1>7

LEMMA ReadBatchStep ==
  ASSUME ExtractInv, NEW x \in Extractor, ReadBatch(x)
  PROVE  ExtractInv'
  <1> DEFINE batch == Slice(Unprocessed, stream[x].offset, stream[x].size)
  <1>1. /\ stream[x] \in StreamRecord /\ stream[x].pc = "read" /\ x \in Running
        /\ UNCHANGED <<rows, entityRows, typed, mentions, cut, streams, disturbed>>
        /\ attempted \in [Extractor -> SUBSET XChunk]
        /\ attempted' = [attempted EXCEPT ![x] = attempted[x] \cup batch]
    BY DEF ReadBatch, ExtractInv, StreamsTyped, Running
  <1>2. PICK told \in SUBSET batch :
          \E cls \in [told -> OClass], answered \in 0..Cardinality(batch) :
            Becomes(x, [stream[x] EXCEPT !.pc = IF batch = {} THEN "after" ELSE "resolve",
                          !.scanned = answered, !.found = cls])
    BY DEF ReadBatch
  <1>3. PICK cls \in [told -> OClass], answered \in 0..Cardinality(batch) :
            Becomes(x, [stream[x] EXCEPT !.pc = IF batch = {} THEN "after" ELSE "resolve",
                          !.scanned = answered, !.found = cls])
    BY <1>2
  <1>4. batch \subseteq Unprocessed /\ Unprocessed \subseteq XChunk
    BY DEF Slice, Unprocessed
  <1>5. IsFiniteSet(batch) /\ Cardinality(batch) \in Nat
    BY <1>4, UnprocessedFinite, FS_Subset, FS_CardinalityType
  <1> DEFINE pc == IF batch = {} THEN "after" ELSE "resolve"
             r == [stream[x] EXCEPT !.pc = pc, !.scanned = answered, !.found = cls]
  <1>6. Becomes(x, r)
    BY <1>3
  <1> HIDE DEF batch
  <1>7. cls \in Readings /\ DOMAIN cls = told /\ told \subseteq batch
    BY <1>4, ReadingOf
  <1>8. pc \in {"after", "resolve"} /\ answered \in Nat /\ answered <= Cardinality(batch)
    BY <1>5
  <1> HIDE DEF pc
  <1>9. /\ r \in StreamRecord /\ r.pc = pc /\ r.scanned = answered /\ r.found = cls
        /\ r.offset = stream[x].offset /\ r.size = stream[x].size /\ r.before = stream[x].before
        /\ r.mints = stream[x].mints /\ r.use = stream[x].use
    BY <1>1, <1>7, <1>8 DEF StreamRecord
  <1> HIDE DEF r
  <1>10. /\ stream[x].mints = {} /\ stream[x].use \subseteq entityRows
         /\ \A d, e \in stream[x].use : d = e
    BY <1>1 DEF ExtractInv, OneEntity
  <1>11. /\ attempted' \in [Extractor -> SUBSET XChunk]
         /\ attempted'[x] = attempted[x] \cup batch
         /\ \A y \in Extractor \ {x} : attempted'[y] = attempted[y]
    BY <1>1, <1>4
  <1>12. x \notin disturbed => /\ Passed(x) \subseteq attempted[x]
                               /\ stream[x].before = Cardinality(Unprocessed)
    BY <1>1 DEF ExtractInv, RunSees
  <1>13. \A m \in mentions : m[1] \notin DOMAIN r.found
    BY <1>4, <1>7, <1>9 DEF Unprocessed, Covered
  <1>14. ~\E e : Minting(x, e)
    BY <1>1 DEF Minting
  <1>15. x \notin disturbed =>
            \A c \in Unprocessed : Place(c, Unprocessed) < r.offset => c \in attempted'[x]
    BY <1>9, <1>11, <1>12 DEF Passed
  <1>16. Slice(Unprocessed, r.offset, r.size) = batch
    BY <1>9 DEF batch
  <1> QED BY <1>1, <1>6, <1>7, <1>8, <1>9, <1>10, <1>11, <1>12, <1>13, <1>14, <1>15, <1>16, OwnStep
          DEF InBatch

LEMMA ResolveStep ==
  ASSUME ExtractInv, NEW x \in Extractor, Resolve(x)
  PROVE  ExtractInv'
  <1> DEFINE f == stream[x].found
             first == f[CHOOSE c \in DOMAIN f : \A d \in DOMAIN f : c <= d]
  <1>1. /\ stream[x] \in StreamRecord /\ stream[x].pc = "resolve" /\ x \in Running
        /\ UNCHANGED <<rows, entityRows, typed, mentions, cut, streams, disturbed, attempted>>
        /\ attempted \in [Extractor -> SUBSET XChunk] /\ entityRows \subseteq XEntity
    BY DEF Resolve, ExtractInv, StreamsTyped, Running
  <1>2. /\ stream[x].mints = {} /\ stream[x].use \subseteq entityRows
        /\ \A d, e \in stream[x].use : d = e
    BY <1>1 DEF ExtractInv, OneEntity
  <1>3. f \in Readings
    BY <1>1 DEF StreamRecord
  <1>4. DOMAIN f \subseteq XChunk /\ \A c \in DOMAIN f : f[c] \in OClass
    BY <1>3, ReadingDomain
  <1>5. DOMAIN f # {} => first \in OClass
    <2> SUFFICES ASSUME DOMAIN f # {}
                 PROVE  first \in OClass
      OBVIOUS
    <2>1. DOMAIN f \in SUBSET Nat
      BY <1>4, ExtractAssumption DEF XChunk
    <2>2. \E c \in DOMAIN f : \A d \in DOMAIN f : c <= d
      BY <2>1, LeastOf
    <2> HIDE DEF f
    <2>3. (CHOOSE c \in DOMAIN f : \A d \in DOMAIN f : c <= d) \in DOMAIN f
      BY <2>2
    <2> QED BY <1>4, <2>3
  <1>6. \A r \in StreamRecord :
          /\ Becomes(x, r) /\ r.pc \in {"insert", "edges"} /\ r.found = f
          /\ r.offset = stream[x].offset /\ r.size = stream[x].size
          /\ r.before = stream[x].before /\ r.scanned = stream[x].scanned
          /\ r.pc = "insert" => \E e \in XEntity : r.mints = {e}
          /\ r.pc = "edges" => r.mints = {}
          /\ r.use \subseteq entityRows /\ \A d, e \in r.use : d = e
          => ExtractInv'
    <2> HIDE DEF first
    <2> SUFFICES ASSUME NEW r \in StreamRecord,
          Becomes(x, r), r.pc \in {"insert", "edges"}, r.found = f,
          r.offset = stream[x].offset, r.size = stream[x].size,
          r.before = stream[x].before, r.scanned = stream[x].scanned,
          r.pc = "insert" => \E e \in XEntity : r.mints = {e},
          r.pc = "edges" => r.mints = {},
          r.use \subseteq entityRows, \A d, e \in r.use : d = e
                 PROVE  ExtractInv'
      OBVIOUS
    <2>1. \A m \in mentions : m[1] \in DOMAIN r.found => {m[3], x} \subseteq disturbed /\ m[3] # x
      BY <1>1 DEF ExtractInv, FoundFree, InBatch
    <2>2. x \notin disturbed =>
            /\ Passed(x) \subseteq attempted[x]
            /\ stream[x].before = Cardinality(Unprocessed)
            /\ BatchRead(x) /\ DOMAIN f \subseteq BatchOf(x)
      BY <1>1 DEF ExtractInv, RunSees, InBatch
    <2>3. x \notin disturbed =>
            /\ \A c \in Unprocessed : Place(c, Unprocessed) < r.offset => c \in attempted[x]
            /\ Slice(Unprocessed, r.offset, r.size) \subseteq attempted[x]
            /\ r.scanned <= Cardinality(Slice(Unprocessed, r.offset, r.size))
            /\ DOMAIN r.found \subseteq Slice(Unprocessed, r.offset, r.size)
      BY <2>2 DEF Passed, BatchRead, BatchOf
    <2>4. ~\E e : Minting(x, e)
      BY <1>1 DEF Minting
    <2> QED BY <1>1, <2>1, <2>2, <2>3, <2>4, OwnStep DEF InBatch
  <1>7. CASE DOMAIN f = {}
    <2> DEFINE r == [stream[x] EXCEPT !.pc = "edges"]
    <2>1. Becomes(x, r)
      BY <1>7 DEF Resolve
    <2>2. /\ r \in StreamRecord /\ r.pc = "edges" /\ r.found = f /\ r.offset = stream[x].offset
          /\ r.size = stream[x].size /\ r.before = stream[x].before
          /\ r.scanned = stream[x].scanned /\ r.mints = {} /\ r.use = stream[x].use
      BY <1>1, <1>2 DEF StreamRecord
    <2> HIDE DEF r, first
    <2> QED BY <1>2, <1>6, <2>1, <2>2
  <1>8. CASE DOMAIN f # {}
    <2>1. PICK k \in OClass :
            LET known == {e \in entityRows : e[2] = k} IN
            IF known # {}
            THEN \E e \in known : Becomes(x, [stream[x] EXCEPT !.pc = "edges", !.use = {e}])
            ELSE Becomes(x, [stream[x] EXCEPT !.pc = "insert", !.mints = {<<first, k>>},
                               !.types = {f[c] : c \in DOMAIN f}])
      BY <1>8 DEF Resolve, Primaries
    <2>2. CASE {e \in entityRows : e[2] = k} # {}
      <3>1. PICK e \in entityRows : Becomes(x, [stream[x] EXCEPT !.pc = "edges", !.use = {e}])
        BY <2>1, <2>2
      <3> DEFINE r == [stream[x] EXCEPT !.pc = "edges", !.use = {e}]
      <3>2. /\ r \in StreamRecord /\ r.pc = "edges" /\ r.found = f /\ r.offset = stream[x].offset
            /\ r.size = stream[x].size /\ r.before = stream[x].before
            /\ r.scanned = stream[x].scanned /\ r.mints = {} /\ r.use = {e}
        BY <1>1, <1>2 DEF StreamRecord
      <3>3. Becomes(x, r)
        BY <3>1
      <3> HIDE DEF r, first
      <3> QED BY <1>6, <3>2, <3>3
    <2>3. CASE {e \in entityRows : e[2] = k} = {}
      <3> DEFINE t == {f[c] : c \in DOMAIN f}
                 r == [stream[x] EXCEPT !.pc = "insert", !.mints = {<<first, k>>}, !.types = t]
      <3>1. Becomes(x, r)
        BY <2>1, <2>3
      <3>2. t \subseteq OClass
        BY <1>4
      <3> HIDE DEF t, first
      <3>4. <<first, k>> \in XEntity
        BY <1>5, <1>8 DEF XEntity
      <3>3. /\ r \in StreamRecord /\ r.pc = "insert" /\ r.found = f /\ r.offset = stream[x].offset
            /\ r.size = stream[x].size /\ r.before = stream[x].before
            /\ r.scanned = stream[x].scanned /\ r.mints = {<<first, k>>} /\ r.use = stream[x].use
        BY <1>1, <1>2, <3>2, <3>4 DEF StreamRecord
      <3> HIDE DEF r
      <3> QED BY <1>2, <1>6, <3>1, <3>3, <3>4
    <2> QED BY <2>2, <2>3
  <1> QED BY <1>7, <1>8

LEMMA CountAfterStep ==
  ASSUME ExtractInv, NEW x \in Extractor, CountAfter(x)
  PROVE  ExtractInv'
  <1> DEFINE s == stream[x]
             skip == IF s.scanned > 0 THEN s.scanned ELSE s.size
             offset == IF Cardinality(Unprocessed) >= s.before THEN s.offset + skip ELSE s.offset
             r == [NoStream EXCEPT !.pc = "count", !.size = s.size, !.offset = offset]
  <1>1. /\ stream[x] \in StreamRecord /\ stream[x].pc = "after" /\ x \in Running
        /\ UNCHANGED <<rows, entityRows, typed, mentions, cut, streams, disturbed, attempted>>
        /\ attempted \in [Extractor -> SUBSET XChunk] /\ Becomes(x, r)
    BY DEF CountAfter, ExtractInv, StreamsTyped, Running
  <1>2. s.size \in Nat /\ s.offset \in Nat /\ s.before \in Nat /\ s.scanned \in Nat
    BY <1>1 DEF StreamRecord
  <1>3. Unprocessed \in SUBSET Nat /\ IsFiniteSet(Unprocessed) /\ Cardinality(Unprocessed) \in Nat
    BY UnprocessedFinite
  <1>4. offset \in Nat
    BY <1>2
  <1>5. ASSUME x \notin disturbed, NEW c \in Unprocessed, Place(c, Unprocessed) < offset
        PROVE  c \in attempted[x]
    <2>1. Place(c, Unprocessed) < s.offset => c \in attempted[x]
      BY <1>1, <1>5 DEF ExtractInv, RunSees, Passed
    <2>2. CASE Cardinality(Unprocessed) < s.before
      BY <1>2, <1>3, <1>5, <2>1, <2>2
    <2>3. CASE ~(Cardinality(Unprocessed) < s.before)
      <3>1. BatchRead(x)
        BY <1>1, <1>2, <1>3, <1>5, <2>3 DEF ExtractInv, RunSees
      <3>2. /\ Slice(Unprocessed, s.offset, s.size) \subseteq attempted[x]
            /\ s.scanned <= Cardinality(Slice(Unprocessed, s.offset, s.size))
        BY <3>1 DEF BatchRead, BatchOf
      <3>3. Place(c, Unprocessed) \in Nat
        BY <1>3, PlaceType
      <3>4. Place(c, Unprocessed) < s.offset + skip
        BY <1>2, <1>3, <1>5, <2>3
      <3>5. Place(c, Unprocessed) < s.offset + s.size
        <4> SUFFICES ASSUME Place(c, Unprocessed) >= s.offset + s.size
                     PROVE  FALSE
          BY <1>2, <3>3
        <4>1. Place(c, Unprocessed) >= s.offset + Cardinality(Slice(Unprocessed, s.offset, s.size))
          BY <1>2, <1>3, BehindSlice
        <4>2. Cardinality(Slice(Unprocessed, s.offset, s.size)) \in Nat
          BY <1>3, FS_Subset, FS_CardinalityType DEF Slice
        <4> QED BY <1>2, <3>2, <3>3, <3>4, <4>1, <4>2
      <3>6. Place(c, Unprocessed) >= s.offset => c \in Slice(Unprocessed, s.offset, s.size)
        BY <1>2, <3>3, <3>5 DEF Slice
      <3> QED BY <1>2, <2>1, <3>2, <3>3, <3>6
    <2> QED BY <2>2, <2>3
  <1> HIDE DEF offset, s
  <1>6. /\ r \in StreamRecord /\ r.pc = "count" /\ r.mints = {} /\ r.use = {}
        /\ r.offset = offset
    BY <1>2, <1>4, NoReading DEF NoStream, StreamRecord
  <1> HIDE DEF r
  <1>7. ~\E e : Minting(x, e)
    BY <1>1 DEF Minting
  <1>8. x \notin disturbed =>
          \A c \in Unprocessed : Place(c, Unprocessed) < r.offset => c \in attempted[x]
    BY <1>5, <1>6
  <1> QED BY <1>1, <1>6, <1>7, <1>8, OwnStep DEF InBatch

LEMMA StartStreamStep ==
  ASSUME ExtractInv, NEW x \in Extractor, StartStream(x)
  PROVE  ExtractInv'
  <1>0. streams \in Nat /\ x \in Nat /\ x = streams + 1 /\ streams' = x /\ streams' \in 0..MaxStreams
    BY ExtractAssumption DEF StartStream, Extractor, ExtractInv, StreamsTyped
  <1>1. stream[x] = NoStream /\ attempted[x] = {} /\ x \notin Running
    BY <1>0, NoStreamTyped DEF ExtractInv, StreamsTyped, Running
  <1>2. PICK size \in BatchSizes : Becomes(x, [NoStream EXCEPT !.pc = "count", !.size = size])
    BY DEF StartStream
  <1> DEFINE r == [NoStream EXCEPT !.pc = "count", !.size = size]
  <1>3. size \in Nat
    BY ExtractAssumption
  <1>4. /\ r \in StreamRecord /\ r.pc = "count" /\ r.offset = 0 /\ r.mints = {} /\ r.use = {}
    BY <1>3, NoReading DEF StreamRecord, NoStream
  <1>5. Becomes(x, r)
    BY <1>2
  <1> HIDE DEF r
  <1>6. /\ stream'[x] = r /\ \A y \in Extractor \ {x} : stream'[y] = stream[y]
        /\ stream' \in [Extractor -> StreamRecord]
    BY <1>4, <1>5 DEF ExtractInv, StreamsTyped, Becomes
  <1>7. /\ UNCHANGED <<rows, entityRows, typed, mentions, attempted, cut>>
        /\ disturbed \subseteq disturbed'
        /\ Running # {} => {x} \cup Running \subseteq disturbed'
    BY DEF StartStream
  <1>8. Unprocessed' = Unprocessed /\ Running' = Running \cup {x}
    BY <1>4, <1>6, <1>7 DEF Unprocessed, Covered, Running
  <1>9. StreamsTyped'
    BY <1>0, <1>6, <1>7 DEF ExtractInv, StreamsTyped, Extractor
  <1>10. BesideIsDisturbed'
    BY <1>7, <1>8 DEF ExtractInv, BesideIsDisturbed
  <1>11. IdentifierUnique' /\ CoveredOnce'
    BY <1>7 DEF ExtractInv, IdentifierUnique, CoveredOnce
  <1>12. FoundFree'
    BY <1>4, <1>6, <1>7 DEF ExtractInv, FoundFree, InBatch
  <1>13. OneEntity'
    BY <1>4, <1>6, <1>7 DEF ExtractInv, OneEntity
  <1>14. EntityTyped'
    <2>1. \A y \in Extractor, e \in entityRows : Minting(y, e) => Minting(y, e)'
      BY <1>1, <1>6, NoStreamTyped DEF Minting
    <2> QED BY <1>7, <2>1 DEF ExtractInv, EntityTyped
  <1>15. RunSees'
    <2> SUFFICES ASSUME NEW y \in Running' \ disturbed'
                 PROVE  /\ stream'[y].pc # "tables" => Passed(y)' \subseteq attempted'[y]
                        /\ stream'[y].pc \in {"read"} \cup InBatch => stream'[y].before = Cardinality(Unprocessed)
                        /\ stream'[y].pc \in InBatch => BatchRead(y)' /\ DOMAIN stream'[y].found \subseteq BatchOf(y)'
                        /\ stream'[y].pc = "after" /\ Cardinality(Unprocessed) >= stream'[y].before => BatchRead(y)'
                        /\ stream'[y].pc = "tables" => Unprocessed \subseteq attempted'[y]
      BY <1>8 DEF RunSees
    <2>1. y = x
      BY <1>7, <1>8
    <2>2. Passed(x)' = {}
      <3> SUFFICES ASSUME NEW c \in Unprocessed, Place(c, Unprocessed) < 0
                   PROVE  FALSE
        BY <1>4, <1>6, <1>8 DEF Passed
      <3>1. Place(c, Unprocessed) \in Nat
        BY PlaceType, UnprocessedFinite
      <3> QED BY <3>1
    <2> QED BY <1>4, <1>6, <2>1, <2>2 DEF InBatch
  <1> QED BY <1>9, <1>10, <1>11, <1>12, <1>13, <1>14, <1>15 DEF ExtractInv

LEMMA InsertEntitiesStep ==
  ASSUME ExtractInv, NEW x \in Extractor, InsertEntities(x)
  PROVE  ExtractInv'
  <1>1. /\ stream[x] \in StreamRecord /\ stream[x].pc = "insert" /\ x \in Running
        /\ UNCHANGED <<rows, typed, mentions, cut, streams, disturbed, attempted>>
        /\ entityRows \subseteq XEntity
    BY DEF InsertEntities, ExtractInv, StreamsTyped, Running
  <1>2. PICK mint \in XEntity : stream[x].mints = {mint}
    BY <1>1 DEF ExtractInv, OneEntity
  <1> DEFINE held == {e \in entityRows : e[1] = mint[1]}
             use == IF held = {} THEN {mint} ELSE held
             r == [stream[x] EXCEPT !.pc = "edges", !.types = stream[x].types \cup {mint[2]}, !.use = use]
  <1>3. (CHOOSE e \in stream[x].mints : TRUE) = mint
    BY <1>2
  <1>4. /\ entityRows' = IF held = {} THEN entityRows \cup {mint} ELSE entityRows
        /\ Becomes(x, r)
    BY <1>3 DEF InsertEntities
  <1>5. mint[2] \in OClass
    BY DEF XEntity
  <1>6. /\ use \subseteq entityRows' /\ entityRows' \subseteq XEntity /\ entityRows \subseteq entityRows'
        /\ \A d, e \in use : d = e
    <2>1. \A d, e \in held : d = e
      BY DEF ExtractInv, IdentifierUnique
    <2> HIDE DEF held
    <2>2. held \subseteq entityRows
      BY DEF held
    <2> QED BY <1>1, <1>4, <2>1, <2>2
  <1>7. IdentifierUnique'
    <2>1. CASE held = {}
      <3>1. \A e \in entityRows : e[1] # mint[1]
        BY <2>1
      <3> QED BY <1>4, <2>1, <3>1 DEF ExtractInv, IdentifierUnique
    <2>2. CASE held # {}
      BY <1>4, <2>2 DEF ExtractInv, IdentifierUnique
    <2> QED BY <2>1, <2>2
  <1>8. \A e \in entityRows' \ entityRows : e = mint /\ use = {mint}
    BY <1>4
  <1> HIDE DEF use
  <1>9. /\ r \in StreamRecord /\ r.pc = "edges" /\ r.types # {} /\ r.use = use
        /\ r.mints = {mint} /\ r.found = stream[x].found /\ r.offset = stream[x].offset
        /\ r.size = stream[x].size /\ r.before = stream[x].before /\ r.scanned = stream[x].scanned
    BY <1>1, <1>2, <1>5, <1>6 DEF StreamRecord
  <1> HIDE DEF r
  <1>10. /\ stream'[x] = r /\ \A y \in Extractor \ {x} : stream'[y] = stream[y]
         /\ stream' \in [Extractor -> StreamRecord]
    BY <1>4, <1>9 DEF ExtractInv, StreamsTyped, Becomes
  <1>11. Unprocessed' = Unprocessed /\ Running' = Running
    BY <1>1, <1>9, <1>10 DEF Unprocessed, Covered, Running
  <1>12. StreamsTyped'
    <2>1. \A y \in Extractor : y > streams => y # x
      BY <1>1, NoStreamTyped DEF ExtractInv, StreamsTyped
    <2>2. mentions \subseteq XChunk \X entityRows' \X Extractor
      BY <1>6 DEF ExtractInv, StreamsTyped
    <2> QED BY <1>1, <1>6, <1>10, <2>1, <2>2 DEF ExtractInv, StreamsTyped
  <1>13. BesideIsDisturbed' /\ CoveredOnce'
    BY <1>1, <1>11 DEF ExtractInv, BesideIsDisturbed, CoveredOnce
  <1>14. FoundFree'
    BY <1>1, <1>9, <1>10 DEF ExtractInv, FoundFree, InBatch
  <1>15. OneEntity'
    <2> SUFFICES ASSUME NEW y \in Extractor
                 PROVE  /\ stream'[y].mints # {} => stream'[y].pc \in {"insert", "edges"}
                        /\ stream'[y].pc = "insert" => \E e \in XEntity : stream'[y].mints = {e}
                        /\ stream'[y].pc = "edges" /\ stream'[y].mints # {} => stream'[y].types # {}
                        /\ stream'[y].use \subseteq entityRows'
                        /\ \A d, e \in stream'[y].use : d = e
      BY DEF OneEntity
    <2>1. CASE y = x
      BY <1>6, <1>9, <1>10, <2>1
    <2>2. CASE y # x
      BY <1>6, <1>10, <2>2 DEF ExtractInv, OneEntity
    <2> QED BY <2>1, <2>2
  <1>16. EntityTyped'
    <2>1. \A y \in Extractor, e \in entityRows : Minting(y, e) => Minting(y, e)'
      BY <1>1, <1>10 DEF Minting
    <2>2. use = {mint} => Minting(x, mint)'
      BY <1>9, <1>10 DEF Minting
    <2> SUFFICES ASSUME NEW e \in entityRows'
                 PROVE  \/ e \in cut
                        \/ \E k \in OClass : <<e, k>> \in typed
                        \/ \E y \in Extractor : Minting(y, e)'
      BY <1>1 DEF EntityTyped
    <2>3. CASE e \in entityRows
      BY <2>1, <2>3 DEF ExtractInv, EntityTyped
    <2>4. CASE e \notin entityRows
      BY <1>8, <2>2, <2>4
    <2> QED BY <2>3, <2>4
  <1>17. RunSees'
    <2> SUFFICES ASSUME NEW y \in Running \ disturbed
                 PROVE  /\ stream'[y].pc # "tables" => Passed(y)' \subseteq attempted[y]
                        /\ stream'[y].pc \in {"read"} \cup InBatch => stream'[y].before = Cardinality(Unprocessed)
                        /\ stream'[y].pc \in InBatch => BatchRead(y)' /\ DOMAIN stream'[y].found \subseteq BatchOf(y)'
                        /\ stream'[y].pc = "after" /\ Cardinality(Unprocessed) >= stream'[y].before => BatchRead(y)'
                        /\ stream'[y].pc = "tables" => Unprocessed \subseteq attempted[y]
      BY <1>1, <1>11 DEF RunSees
    <2>1. /\ stream'[y].offset = stream[y].offset /\ stream'[y].size = stream[y].size
          /\ stream'[y].before = stream[y].before /\ stream'[y].scanned = stream[y].scanned
          /\ stream'[y].found = stream[y].found
          /\ stream'[y].pc = stream[y].pc \/ (stream[y].pc = "insert" /\ stream'[y].pc = "edges")
      <3>0. y \in Extractor
        BY DEF Running
      <3>1. CASE y = x
        BY <1>1, <1>9, <1>10, <3>1
      <3>2. CASE y # x
        BY <1>10, <3>0, <3>2
      <3> QED BY <3>1, <3>2
    <2>2. Passed(y)' = Passed(y) /\ BatchOf(y)' = BatchOf(y) /\ (BatchRead(y)' <=> BatchRead(y))
      BY <1>1, <1>11, <2>1 DEF Passed, BatchOf, BatchRead
    <2> QED BY <2>1, <2>2 DEF ExtractInv, RunSees, InBatch
  <1> QED BY <1>7, <1>12, <1>13, <1>14, <1>15, <1>16, <1>17 DEF ExtractInv

\* The edges of a batch: what is covered grows, within the batch.
LEMMA WriteEdgesStep ==
  ASSUME ExtractInv, NEW x \in Extractor, WriteEdges(x)
  PROVE  ExtractInv'
  <1> DEFINE f == DOMAIN stream[x].found
             u == stream[x].use
             r == [stream[x] EXCEPT !.pc = "after", !.use = {}, !.mints = {}, !.types = {},
                                    !.found = [c \in {} |-> {}]]
  <1>1. /\ stream[x] \in StreamRecord /\ stream[x].pc = "edges" /\ x \in Running
        /\ UNCHANGED <<rows, entityRows, cut, streams, disturbed, attempted>>
        /\ mentions' = mentions \cup (f \X u \X {x})
        /\ typed' = typed \cup (u \X stream[x].types)
        /\ Becomes(x, r)
    BY DEF WriteEdges, ExtractInv, StreamsTyped, Running
  <1>2. f \subseteq XChunk /\ stream[x].types \subseteq OClass
    BY <1>1, ReadingDomain DEF StreamRecord
  <1>3. u \subseteq entityRows /\ (\A d, e \in u : d = e)
    BY DEF ExtractInv, OneEntity
  <1>4. /\ r \in StreamRecord /\ r.pc = "after" /\ r.mints = {} /\ r.use = {}
        /\ r.offset = stream[x].offset /\ r.size = stream[x].size
        /\ r.before = stream[x].before /\ r.scanned = stream[x].scanned
    BY <1>1, NoReading DEF StreamRecord
  <1> HIDE DEF r, f, u
  <1>5. /\ stream'[x] = r /\ \A y \in Extractor \ {x} : stream'[y] = stream[y]
        /\ stream' \in [Extractor -> StreamRecord]
    BY <1>1, <1>4 DEF ExtractInv, StreamsTyped, Becomes
  <1>6. Running' = Running
    BY <1>1, <1>4, <1>5 DEF Running
  <1>7. \A m \in mentions' \ mentions : m[1] \in f /\ m[2] \in u /\ m[3] = x /\ m = <<m[1], m[2], m[3]>>
    BY <1>1
  <1>8. Unprocessed' \subseteq Unprocessed /\ Unprocessed \ Unprocessed' \subseteq f
    BY <1>1, <1>7 DEF Unprocessed, Covered
  <1>9. StreamsTyped'
    <2>1. \A y \in Extractor : y > streams => y # x
      BY <1>1, NoStreamTyped DEF ExtractInv, StreamsTyped
    <2>2. mentions' \subseteq XChunk \X entityRows \X Extractor
      BY <1>1, <1>2, <1>3 DEF ExtractInv, StreamsTyped
    <2> QED BY <1>1, <1>5, <2>1, <2>2 DEF ExtractInv, StreamsTyped
  <1>10. BesideIsDisturbed' /\ IdentifierUnique'
    BY <1>1, <1>6 DEF ExtractInv, BesideIsDisturbed, IdentifierUnique
  <1>11. CoveredOnce'
    <2> SUFFICES ASSUME NEW m \in mentions', NEW n \in mentions', m[1] = n[1], m # n
                 PROVE  {m[3], n[3]} \subseteq disturbed /\ m[3] # n[3]
      BY <1>1 DEF CoveredOnce
    <2>1. ASSUME NEW k \in mentions, k[1] \in f
          PROVE  {k[3], x} \subseteq disturbed /\ k[3] # x
      BY <1>1, <2>1 DEF ExtractInv, FoundFree, InBatch, f
    <2>2. CASE m \in mentions /\ n \in mentions
      BY <2>2 DEF ExtractInv, CoveredOnce
    <2>3. CASE m \notin mentions /\ n \notin mentions
      <3>1. m[2] = n[2]
        BY <1>3, <1>7, <2>3
      <3>2. m = n
        BY <1>7, <2>3, <3>1
      <3> QED BY <3>2
    <2>4. CASE m \notin mentions /\ n \in mentions
      BY <1>7, <2>1, <2>4
    <2>5. CASE m \in mentions /\ n \notin mentions
      BY <1>7, <2>1, <2>5
    <2> QED BY <2>2, <2>3, <2>4, <2>5
  <1>12. FoundFree'
    <2> SUFFICES ASSUME NEW y \in Extractor, stream'[y].pc \in InBatch, NEW m \in mentions',
                        m[1] \in DOMAIN stream'[y].found
                 PROVE  {m[3], y} \subseteq disturbed /\ m[3] # y
      BY <1>1 DEF FoundFree
    <2>1. y # x /\ stream'[y] = stream[y] /\ y \in Running
      BY <1>4, <1>5 DEF InBatch, Running
    <2>2. CASE m \in mentions
      BY <2>1, <2>2 DEF ExtractInv, FoundFree
    <2>3. CASE m \notin mentions
      BY <1>1, <1>7, <2>1, <2>3 DEF ExtractInv, BesideIsDisturbed
    <2> QED BY <2>2, <2>3
  <1>13. OneEntity'
    BY <1>1, <1>4, <1>5 DEF ExtractInv, OneEntity
  <1>14. EntityTyped'
    <2>1. \A y \in Extractor \ {x}, e \in entityRows : Minting(y, e) => Minting(y, e)'
      BY <1>5 DEF Minting
    <2>2. ASSUME NEW e \in entityRows, Minting(x, e)
          PROVE  \E k \in OClass : <<e, k>> \in typed'
      <3>1. u = {e} /\ stream[x].types # {}
        BY <2>2 DEF Minting, u, ExtractInv, OneEntity
      <3>2. PICK k \in stream[x].types : TRUE
        BY <3>1
      <3> QED BY <1>1, <1>2, <3>1, <3>2
    <2>3. typed \subseteq typed'
      BY <1>1
    <2> SUFFICES ASSUME NEW e \in entityRows
                 PROVE  \/ e \in cut
                        \/ \E k \in OClass : <<e, k>> \in typed'
                        \/ \E y \in Extractor : Minting(y, e)'
      BY <1>1 DEF EntityTyped
    <2>4. CASE \E y \in Extractor : Minting(y, e)
      BY <2>1, <2>2, <2>4
    <2>5. CASE ~\E y \in Extractor : Minting(y, e)
      BY <2>3, <2>5 DEF ExtractInv, EntityTyped
    <2> QED BY <2>4, <2>5
  <1>15. RunSees'
    <2> SUFFICES ASSUME NEW y \in Running \ disturbed
                 PROVE  y = x /\ Passed(x)' \subseteq attempted[x]
                        /\ (Cardinality(Unprocessed)' >= r.before => BatchRead(x)')
      BY <1>1, <1>4, <1>5, <1>6 DEF RunSees, InBatch
    <2>1. y = x
      BY <1>1 DEF ExtractInv, BesideIsDisturbed, Running
    <2>2. /\ Passed(x) \subseteq attempted[x] /\ stream[x].before = Cardinality(Unprocessed)
          /\ BatchRead(x) /\ f \subseteq BatchOf(x)
      BY <1>1, <2>1 DEF ExtractInv, RunSees, InBatch, f
    <2>3. Unprocessed \in SUBSET Nat /\ IsFiniteSet(Unprocessed) /\ Cardinality(Unprocessed) \in Nat
      BY UnprocessedFinite
    <2>4. stream[x].offset \in Nat
      BY <1>1 DEF StreamRecord
    <2>5. \A d \in Unprocessed \ Unprocessed' : Place(d, Unprocessed) >= stream[x].offset
      BY <1>8, <2>2, <2>3, <2>4, PlaceType DEF BatchOf, Slice
    <2>6. Passed(x)' \subseteq attempted[x]
      <3> SUFFICES ASSUME NEW c \in Unprocessed', Place(c, Unprocessed') < stream[x].offset
                   PROVE  c \in attempted[x]
        BY <1>4, <1>5 DEF Passed
      <3>1. Place(c, Unprocessed) < stream[x].offset
        BY <1>8, <2>3, <2>4, <2>5, PlaceStays
      <3> QED BY <1>8, <2>2, <3>1 DEF Passed
    <2>7. ASSUME Cardinality(Unprocessed)' >= r.before
          PROVE  BatchRead(x)'
      <3>1. Cardinality(Unprocessed') >= Cardinality(Unprocessed)
        BY <1>4, <2>2, <2>7
      <3>2. Unprocessed' = Unprocessed
        <4>1. /\ Cardinality(Unprocessed') <= Cardinality(Unprocessed)
              /\ Cardinality(Unprocessed') = Cardinality(Unprocessed) => Unprocessed' = Unprocessed
              /\ IsFiniteSet(Unprocessed')
          BY <1>8, <2>3, FS_Subset
        <4>2. Cardinality(Unprocessed') \in Nat
          BY <4>1, FS_CardinalityType
        <4> QED BY <2>3, <3>1, <4>1, <4>2
      <3>3. BatchOf(x)' = BatchOf(x)
        BY <1>4, <1>5, <3>2 DEF BatchOf
      <3> QED BY <1>1, <1>4, <1>5, <2>2, <3>3 DEF BatchRead
    <2> QED BY <2>1, <2>6, <2>7
  <1> QED BY <1>9, <1>10, <1>11, <1>12, <1>13, <1>14, <1>15 DEF ExtractInv

\* A run that stops, and one that ends.
LEMMA StopStreamStep ==
  ASSUME ExtractInv, NEW x \in Extractor, StopStream(x)
  PROVE  ExtractInv'
  <1>1. /\ stream[x] \in StreamRecord /\ x \in Running
        /\ UNCHANGED <<rows, entityRows, typed, mentions, streams>>
        /\ disturbed' = disturbed \cup {x} /\ cut \subseteq cut'
        /\ attempted' = [attempted EXCEPT ![x] = {}]
        /\ Becomes(x, NoStream)
    BY DEF StopStream, ExtractInv, StreamsTyped, Running
  <1>2. /\ stream'[x] = NoStream /\ \A y \in Extractor \ {x} : stream'[y] = stream[y]
        /\ stream' \in [Extractor -> StreamRecord]
    BY <1>1, NoStreamTyped DEF ExtractInv, StreamsTyped, Becomes
  <1>3. Unprocessed' = Unprocessed /\ Running' = Running \ {x}
    BY <1>1, <1>2, NoStreamTyped DEF Unprocessed, Covered, Running
  <1>4. /\ attempted' \in [Extractor -> SUBSET XChunk] /\ attempted'[x] = {}
        /\ \A y \in Extractor \ {x} : attempted'[y] = attempted[y]
    BY <1>1 DEF ExtractInv, StreamsTyped
  <1>5. StreamsTyped'
    BY <1>1, <1>2, <1>4 DEF ExtractInv, StreamsTyped
  <1>6. BesideIsDisturbed' /\ IdentifierUnique' /\ CoveredOnce'
    BY <1>1, <1>3 DEF ExtractInv, BesideIsDisturbed, IdentifierUnique, CoveredOnce
  <1>7. FoundFree'
    BY <1>1, <1>2, NoStreamTyped DEF ExtractInv, FoundFree, InBatch
  <1>8. OneEntity'
    BY <1>1, <1>2, NoStreamTyped DEF ExtractInv, OneEntity
  <1>9. EntityTyped'
    <2>1. \A y \in Extractor \ {x}, e \in entityRows : Minting(y, e) => Minting(y, e)'
      BY <1>2 DEF Minting
    <2>2. \A e \in entityRows : Minting(x, e) => e \in cut'
      BY DEF Minting, StopStream
    <2> SUFFICES ASSUME NEW e \in entityRows
                 PROVE  \/ e \in cut'
                        \/ \E k \in OClass : <<e, k>> \in typed
                        \/ \E y \in Extractor : Minting(y, e)'
      BY <1>1 DEF EntityTyped
    <2>3. CASE \E y \in Extractor : Minting(y, e)
      BY <2>1, <2>2, <2>3
    <2>4. CASE ~\E y \in Extractor : Minting(y, e)
      BY <1>1, <2>4 DEF ExtractInv, EntityTyped
    <2> QED BY <2>3, <2>4
  <1>10. RunSees'
    <2> SUFFICES ASSUME NEW y \in Running' \ disturbed'
                 PROVE  /\ stream'[y].pc # "tables" => Passed(y)' \subseteq attempted'[y]
                        /\ stream'[y].pc \in {"read"} \cup InBatch => stream'[y].before = Cardinality(Unprocessed)
                        /\ stream'[y].pc \in InBatch => BatchRead(y)' /\ DOMAIN stream'[y].found \subseteq BatchOf(y)'
                        /\ stream'[y].pc = "after" /\ Cardinality(Unprocessed) >= stream'[y].before => BatchRead(y)'
                        /\ stream'[y].pc = "tables" => Unprocessed \subseteq attempted'[y]
      BY <1>3 DEF RunSees
    <2>1. y \in Running \ disturbed /\ y # x /\ stream'[y] = stream[y] /\ attempted'[y] = attempted[y]
      BY <1>1, <1>2, <1>3, <1>4 DEF Running
    <2>2. Passed(y)' = Passed(y) /\ BatchOf(y)' = BatchOf(y) /\ (BatchRead(y)' <=> BatchRead(y))
      BY <1>3, <2>1 DEF Passed, BatchOf, BatchRead
    <2> QED BY <2>1, <2>2 DEF ExtractInv, RunSees
  <1> QED BY <1>5, <1>6, <1>7, <1>8, <1>9, <1>10 DEF ExtractInv

LEMMA FinishStreamStep ==
  ASSUME ExtractInv, NEW x \in Extractor, FinishStream(x)
  PROVE  ExtractInv'
  <1>1. /\ stream[x].pc = "tables" /\ x \in Running
        /\ UNCHANGED <<rows, entityRows, typed, mentions, cut, streams, disturbed>>
        /\ attempted' = [attempted EXCEPT ![x] = {}]
        /\ Becomes(x, NoStream)
    BY DEF FinishStream, Running
  <1>2. /\ attempted' \in [Extractor -> SUBSET XChunk]
        /\ \A y \in Extractor \ {x} : attempted'[y] = attempted[y]
    BY <1>1 DEF ExtractInv, StreamsTyped
  <1>3. ~\E e : Minting(x, e)
    BY <1>1 DEF Minting
  <1> QED BY <1>1, <1>2, <1>3, NoStreamTyped, OwnStep DEF InBatch

\* Chunks come and go; every run under way is disturbed.
LEMMA EditChunkStep ==
  ASSUME ExtractInv, NEW c \in XChunk, EditChunk(c)
  PROVE  ExtractInv'
  <1>1. /\ UNCHANGED <<entityRows, typed, stream, attempted, cut, streams>>
        /\ disturbed' = disturbed \cup Running /\ mentions' \subseteq mentions
        /\ rows' \in [XChunk -> {"none", "ACTIVE", "DELETED"}]
    BY DEF EditChunk, ExtractInv, StreamsTyped
  <1>2. Running' = Running /\ Running' \subseteq disturbed'
    BY <1>1 DEF Running
  <1>3. StreamsTyped'
    BY <1>1 DEF ExtractInv, StreamsTyped
  <1>4. BesideIsDisturbed' /\ IdentifierUnique' /\ CoveredOnce'
    BY <1>1, <1>2 DEF ExtractInv, BesideIsDisturbed, IdentifierUnique, CoveredOnce
  <1>5. FoundFree' /\ OneEntity'
    BY <1>1 DEF ExtractInv, FoundFree, OneEntity
  <1>6. EntityTyped'
    BY <1>1 DEF ExtractInv, EntityTyped, Minting
  <1>7. RunSees'
    BY <1>2 DEF RunSees
  <1> QED BY <1>3, <1>4, <1>5, <1>6, <1>7 DEF ExtractInv

LEMMA NextExtract ==
  ASSUME ExtractInv, [ExtractNext]_extractVars
  PROVE  ExtractInv'
  <1>1. CASE UNCHANGED extractVars
    <2>1. /\ UNCHANGED <<rows, entityRows, typed, mentions, stream, attempted, disturbed, cut, streams>>
          /\ Unprocessed' = Unprocessed /\ Running' = Running
      BY <1>1 DEF extractVars, Unprocessed, Covered, Running
    <2>2. StreamsTyped' /\ BesideIsDisturbed' /\ IdentifierUnique' /\ CoveredOnce'
      BY <2>1 DEF ExtractInv, StreamsTyped, BesideIsDisturbed, IdentifierUnique, CoveredOnce
    <2>3. FoundFree'
      BY <2>1 DEF ExtractInv, FoundFree
    <2>4. OneEntity'
      BY <2>1 DEF ExtractInv, OneEntity
    <2>5. EntityTyped'
      BY <2>1 DEF ExtractInv, EntityTyped, Minting
    <2>6. RunSees'
      BY <2>1 DEF ExtractInv, RunSees, Passed, BatchOf, BatchRead
    <2> QED BY <2>2, <2>3, <2>4, <2>5, <2>6 DEF ExtractInv
  <1> QED BY <1>1, StartStreamStep, CountBeforeStep, ReadBatchStep, ResolveStep, InsertEntitiesStep,
             WriteEdgesStep, CountAfterStep, FinishStreamStep, StopStreamStep, EditChunkStep
          DEF ExtractNext

LEMMA InitExtract == Init => ExtractInv
  <1>1. ExtractInit => /\ StreamsTyped /\ Running = {} /\ mentions = {} /\ entityRows = {}
                       /\ \A x \in Extractor : stream[x] = NoStream
    BY NoStreamTyped, ExtractAssumption DEF ExtractInit, StreamsTyped, Running
  <1> QED BY <1>1, NoStreamTyped DEF Init, ExtractInv, BesideIsDisturbed, IdentifierUnique, CoveredOnce,
           FoundFree, OneEntity, EntityTyped, RunSees, InBatch

\* The loop over batches neither repeats nor skips a chunk and leaves its
\* entities typed, for any chunks, batch sizes and number of runs, whatever was
\* killed and repeated: only runs that were disturbed may do otherwise.
THEOREM StreamHolds == Spec => []StreamInv
  <1>1. Init => ExtractInv
    BY InitExtract
  <1>2. [Next]_servicesVars => [ExtractNext]_extractVars
    BY DEF Next, servicesVars
  <1>3. ExtractInv /\ [ExtractNext]_extractVars => ExtractInv'
    BY NextExtract
  <1>4. ExtractInv => StreamInv
    <2> SUFFICES ASSUME ExtractInv
                 PROVE  StreamInv
      OBVIOUS
    <2>1. StreamReachesAll
      BY DEF ExtractInv, RunSees, StreamReachesAll, Running
    <2>2. TypedUnlessCut
      <3> SUFFICES ASSUME NEW m \in mentions, m[2] \notin cut
                   PROVE  \/ \E k \in OClass : <<m[2], k>> \in typed
                          \/ \E x \in Running : stream[x].mints = {m[2]}
        BY DEF TypedUnlessCut
      <3>1. m[2] \in entityRows
        BY DEF ExtractInv, StreamsTyped
      <3> QED BY <3>1 DEF ExtractInv, EntityTyped, Minting, Running
    <2> QED BY <2>1, <2>2 DEF ExtractInv, StreamInv
  <1> QED BY <1>1, <1>2, <1>3, <1>4, PTL DEF Spec

-----------------------------------------------------------------------------
(***************************************************************************)
(* Rollups.  Two facts about finite sets first: a greatest value, and a    *)
(* fresh id for each cluster.                                              *)
(***************************************************************************)
LEMMA ValueAtTop ==
  ASSUME NEW S, IsFiniteSet(S), S # {}, NEW f \in [S -> Int]
  PROVE  \E x \in S : \A y \in S : f[y] <= f[x]
  <1> DEFINE U(x) == {y \in S : f[y] > f[x]}
             N == {Cardinality(U(x)) : x \in S}
  <1>1. \A x \in S : U(x) \subseteq S /\ IsFiniteSet(U(x)) /\ Cardinality(U(x)) \in Nat
    BY FS_Subset, FS_CardinalityType
  <1>2. N \in SUBSET Nat /\ N # {}
    BY <1>1
  <1>3. PICK n \in N : \A m \in N : n <= m
    BY <1>2, LeastOf
  <1>4. PICK x \in S : n = Cardinality(U(x))
    OBVIOUS
  <1>5. U(x) = {}
    <2> SUFFICES ASSUME NEW y \in S, f[y] > f[x]
                 PROVE  FALSE
      OBVIOUS
    <2>1. U(y) \subseteq U(x) /\ y \in U(x) /\ y \notin U(y)
      OBVIOUS
    <2>2. Cardinality(U(y)) \in N /\ Cardinality(U(x)) <= Cardinality(U(y))
      BY <1>3, <1>4
    <2> HIDE DEF U, N
    <2>3. Cardinality(U(y)) <= Cardinality(U(x)) /\ (Cardinality(U(y)) = Cardinality(U(x)) => U(y) = U(x))
      BY <1>1, <2>1, FS_Subset
    <2> QED BY <1>1, <2>1, <2>2, <2>3
  <1>6. \A y \in S : ~(f[y] > f[x])
    BY <1>5
  <1>7. \A y \in S : f[y] \in Int
    OBVIOUS
  <1> HIDE DEF U, N
  <1>8. \A y \in S : f[y] <= f[x]
    BY <1>6, <1>7
  <1> QED BY <1>8

LEMMA IdsForAll ==
  ASSUME NEW S, NEW T, IsFiniteSet(S), IsFiniteSet(T), Cardinality(S) <= Cardinality(T)
  PROVE  \E h \in [S -> T] : IsInjective(h)
  <1> DEFINE m == Cardinality(S)
             n == Cardinality(T)
  <1>1. m \in Nat /\ n \in Nat /\ ExistsBijection(1..m, S) /\ ExistsBijection(1..n, T)
    BY FS_CardinalityType
  <1>2. PICK f \in [1..m -> S] : \A s \in S : \E i \in 1..m : f[i] = s
    BY <1>1 DEF ExistsBijection, Bijection, Surjection
  <1>3. PICK g \in [1..n -> T] : \A i, j \in 1..n : g[i] = g[j] => i = j
    BY <1>1 DEF ExistsBijection, Bijection, Injection, IsInjective
  <1>4. m <= n
    OBVIOUS
  <1> HIDE DEF m, n
  <1> DEFINE at == [s \in S |-> CHOOSE i \in 1..m : f[i] = s]
  <1>5. \A s \in S : at[s] \in 1..m /\ f[at[s]] = s
    BY <1>2
  <1> HIDE DEF at
  <1>6. 1..m \subseteq 1..n
    BY <1>1, <1>4
  <1> DEFINE h == [s \in S |-> g[at[s]]]
  <1>7. h \in [S -> T]
    BY <1>3, <1>5, <1>6
  <1>8. ASSUME NEW a \in S, NEW b \in S, h[a] = h[b]
        PROVE  a = b
    <2>1. at[a] = at[b]
      BY <1>3, <1>5, <1>6, <1>8
    <2> QED BY <1>5, <2>1
  <1> QED BY <1>7, <1>8 DEF IsInjective

(***************************************************************************)
(* What a run of the rollups holds.                                        *)
(***************************************************************************)
Families == UNION {[d -> SUBSET Artifact] : d \in SUBSET RollupId}

RollRecord ==
  [pc : {"idle", "cluster", "merge", "resolve", "wire"}, base : Nat, step : Nat,
   clusters : SUBSET (SUBSET Artifact), children : Families, inherits : SUBSET RollupId]

RollsTyped ==
  /\ roll \in [RollRun -> RollRecord]
  /\ present \subseteq Artifact
  /\ layer \in [Artifact -> Nat]
  /\ refs \subseteq RollupId \X Artifact
  /\ about \subseteq Artifact
  /\ made \in [RollupId -> Nat] /\ \A r \in RollupId : made[r] <= runs
  /\ runs \in 0..MaxRuns
  /\ \A p \in RollRun : p > runs => roll[p] = RollAtRest
  /\ \A r \in RollupId : r \in present <=> made[r] # 0

Landed(a) == a \in RollupId => made[a] # 0

\* The run that made r is over (or no run has).
MakerRests(r) == \A p \in UnderWay : made[r] # p

\* Edges are between rows, one layer apart, and are the last thing a run does.
RefsInLayers ==
  \A e \in refs : /\ Landed(e[1]) /\ Landed(e[2]) /\ layer[e[1]] = layer[e[2]] + 1
                  /\ MakerRests(e[1])

\* What run p is to write when its record is r.
Pending(p, r) ==
  /\ \A x \in RollupId : made[x] = p <=> x \in DOMAIN r.children
  /\ \A x \in DOMAIN r.children :
       /\ Cardinality(r.children[x]) >= MinCluster
       /\ \A a \in r.children[x] : Landed(a) /\ layer[x] = layer[a] + 1
       /\ r.pc \in {"cluster", "merge"} => layer[x] < r.base + r.step
  /\ \A x, y \in DOMAIN r.children : x # y => r.children[x] \cap r.children[y] = {}
  /\ r.pc = "merge" =>
       /\ \A b \in r.clusters : /\ Cardinality(b) >= MinCluster
                                /\ \A a \in b : Landed(a) /\ layer[a] + 1 = r.base + r.step
       /\ \A b, c \in r.clusters : b # c => b \cap c = {}
  /\ r.pc = "wire" => r.inherits \subseteq DOMAIN r.children

\* A rollup short of children is the work of a run under way or killed.
FinishedHasChildren ==
  \A r \in Rollups : Cardinality(Children(r)) >= MinCluster \/ made[r] \in UnderWay \cup torn

\* A rollup is about something only once its run is over.
AboutAtTheEnd == \A r \in RollupId \cap about : Landed(r) /\ MakerRests(r)

\* a can be given to a parent: it has none, and is not swept.
Free(a) == Parents(a) = {} /\ (a \in Leaf => a \in present)

\* The rest holds of a run that has no other beside it.
AloneInv ==
  /\ \A p, q \in UnderWay : p = q
  /\ \A a \in Artifact : \A r, s \in Parents(a) : r = s
  /\ \A p \in UnderWay :
       /\ \A x \in DOMAIN roll[p].children : \A a \in roll[p].children[x] : Free(a)
       /\ roll[p].pc = "merge" => \A b \in roll[p].clusters : \A a \in b : Free(a)
       /\ roll[p].pc = "wire" =>
            roll[p].inherits = {x \in DOMAIN roll[p].children : roll[p].children[x] \cap about # {}}
  /\ \A e \in refs : e[2] \in RollupId => MakerRests(e[2])
  /\ \A r \in Rollups : Wired(r) =>
       (r \in about <=> \E a \in Children(r) \cap about : a \in RollupId => made[a] # made[r])

RollsInv ==
  /\ RollsTyped /\ RefsInLayers /\ FinishedHasChildren /\ AboutAtTheEnd
  /\ \A p \in UnderWay : Pending(p, roll[p])
  /\ ~overlapped => AloneInv

LEMMA FamilyOf ==
  /\ \A f \in Families : DOMAIN f \subseteq RollupId /\ \A x \in DOMAIN f : f[x] \subseteq Artifact
  /\ [r \in {} |-> {}] \in Families /\ DOMAIN [r \in {} |-> {}] = {}
  /\ RollAtRest \in RollRecord /\ RollAtRest.pc = "idle"
  <1>1. \A f \in Families : DOMAIN f \subseteq RollupId /\ \A x \in DOMAIN f : f[x] \subseteq Artifact
    BY DEF Families
  <1>2. [r \in {} |-> {}] \in [{} -> SUBSET Artifact] /\ {} \in SUBSET RollupId
    OBVIOUS
  <1>3. [r \in {} |-> {}] \in Families /\ DOMAIN [r \in {} |-> {}] = {}
    BY <1>2 DEF Families
  <1> QED BY <1>1, <1>3 DEF RollAtRest, RollRecord

LEMMA ArtifactsFinite ==
  /\ IsFiniteSet(Artifact) /\ IsFiniteSet(RollupId)
  /\ Leaf \cap RollupId = {} /\ Artifact = Leaf \cup RollupId
  <1>1. NLeaf \in Nat /\ NRollup \in Nat
    BY RollupAssumption
  <1>2. IsFiniteSet(1..NLeaf) /\ IsFiniteSet((NLeaf + 1)..(NLeaf + NRollup))
    BY <1>1, FS_Interval
  <1>3. IsFiniteSet(Artifact)
    BY <1>2, FS_Union DEF Artifact, Leaf, RollupId
  <1> QED BY <1>1, <1>2, <1>3 DEF Artifact, Leaf, RollupId

LEMMA TopLayerType ==
  ASSUME RollsTyped
  PROVE  TopLayer \in Nat
  <1> DEFINE S == {0} \cup {layer[r] : r \in Rollups}
  <1>1. Rollups \subseteq Artifact /\ IsFiniteSet(Rollups)
    BY ArtifactsFinite, FS_Subset DEF RollsTyped, Rollups
  <1>2. \A r \in Rollups : layer[r] \in Nat
    BY <1>1 DEF RollsTyped
  <1>3. \E b \in Nat : \A x \in S : x <= b
    <2>1. CASE Rollups = {}
      BY <2>1
    <2>2. CASE Rollups # {}
      <3> DEFINE f == [r \in Rollups |-> layer[r]]
      <3>1. f \in [Rollups -> Int]
        BY <1>2
      <3>2. PICK r \in Rollups : \A s \in Rollups : f[s] <= f[r]
        BY <1>1, <2>2, <3>1, ValueAtTop
      <3>3. layer[r] \in Nat /\ \A s \in Rollups : layer[s] <= layer[r]
        BY <1>2, <3>2
      <3>4. \A x \in S : x <= layer[r]
        BY <1>2, <3>3
      <3> QED BY <3>3, <3>4
    <2> QED BY <2>1, <2>2
  <1>4. S \in SUBSET Nat /\ S # {}
    BY <1>2
  <1> HIDE DEF S
  <1>5. Max(S) \in S
    BY <1>3, <1>4, MaxOf
  <1> QED BY <1>4, <1>5 DEF TopLayer, S

\* A step of p that changes its own record only.
LEMMA RollStep ==
  ASSUME RollsInv, NEW p \in RollRun, p \in UnderWay, NEW r \in RollRecord, RollBecomes(p, r),
         UNCHANGED <<present, layer, refs, about, made, overlapped, runs>>, torn \subseteq torn',
         r.pc = "idle" => p \in torn' \/ DOMAIN roll[p].children = {},
         r.pc # "idle" => Pending(p, r),
         r.pc # "idle" => r.children = roll[p].children,
         ~overlapped /\ r.pc = "merge" => \A b \in r.clusters : \A a \in b : Free(a),
         ~overlapped /\ r.pc = "wire" =>
           r.inherits = {x \in DOMAIN r.children : r.children[x] \cap about # {}}
  PROVE  RollsInv'
  <1>1. /\ roll'[p] = r /\ \A q \in RollRun \ {p} : roll'[q] = roll[q]
        /\ roll' \in [RollRun -> RollRecord]
    BY DEF RollsInv, RollsTyped, RollBecomes
  <1>2. /\ UnderWay' \subseteq UnderWay /\ UnderWay \ {p} \subseteq UnderWay'
        /\ p \in UnderWay' <=> r.pc # "idle"
    BY <1>1 DEF UnderWay
  <1>3. RollsTyped'
    <2>1. ~(p > runs)
      BY FamilyOf DEF RollsInv, RollsTyped, UnderWay
    <2> QED BY <1>1, <2>1 DEF RollsInv, RollsTyped
  <1>4. /\ \A a : Landed(a)' <=> Landed(a)
        /\ \A a : MakerRests(a) => MakerRests(a)'
        /\ Rollups' = Rollups /\ \A a : Children(a)' = Children(a) /\ Parents(a)' = Parents(a)
        /\ \A a : Free(a)' <=> Free(a)
    BY <1>2 DEF Landed, MakerRests, Rollups, Children, Parents, Free
  <1>5. RefsInLayers' /\ AboutAtTheEnd'
    BY <1>4 DEF RollsInv, RefsInLayers, AboutAtTheEnd
  <1>6. FinishedHasChildren'
    <2> SUFFICES ASSUME NEW x \in Rollups, made[x] \in UnderWay, made[x] \notin UnderWay'
                 PROVE  made[x] \in torn'
      BY <1>4 DEF RollsInv, FinishedHasChildren
    <2>1. made[x] = p /\ r.pc = "idle"
      BY <1>2
    <2>2. x \in RollupId /\ Pending(p, roll[p])
      BY DEF RollsInv, Rollups
    <2> QED BY <2>1, <2>2 DEF Pending
  <1>7. \A q \in UnderWay' : Pending(q, roll[q])'
    <2> SUFFICES ASSUME NEW q \in UnderWay'
                 PROVE  Pending(q, roll[q])'
      OBVIOUS
    <2>1. CASE q = p
      <3>1. Pending(p, r)
        BY <1>2, <2>1
      <3> QED BY <1>1, <1>4, <2>1, <3>1 DEF Pending
    <2>2. CASE q # p
      <3>1. Pending(q, roll[q]) /\ roll'[q] = roll[q]
        BY <1>1, <1>2, <2>2 DEF RollsInv, UnderWay
      <3> QED BY <1>4, <3>1 DEF Pending
    <2> QED BY <2>1, <2>2
  <1>8. ~overlapped => AloneInv'
    <2> SUFFICES ASSUME ~overlapped
                 PROVE  AloneInv'
      OBVIOUS
    <2>1. AloneInv
      BY DEF RollsInv
    <2>2. \A q \in UnderWay' : q = p /\ roll'[q] = r /\ r.children = roll[p].children /\ r.pc # "idle"
      BY <1>1, <1>2, <2>1 DEF AloneInv
    <2>3. \A q \in UnderWay' :
            /\ \A x \in DOMAIN roll'[q].children : \A a \in roll'[q].children[x] : Free(a)'
            /\ roll'[q].pc = "merge" => \A b \in roll'[q].clusters : \A a \in b : Free(a)'
            /\ roll'[q].pc = "wire" =>
                 roll'[q].inherits = {x \in DOMAIN roll'[q].children : roll'[q].children[x] \cap about # {}}
      BY <1>4, <2>1, <2>2 DEF AloneInv
    <2>4. \A e \in refs : e[2] \in RollupId => MakerRests(e[2])'
      BY <1>4, <2>1 DEF AloneInv
    <2>5. \A x \in Rollups' : Wired(x)' =>
            (x \in about <=> \E a \in Children(x)' \cap about : a \in RollupId => made[a] # made[x])
      BY <1>4, <2>1 DEF AloneInv, Wired
    <2> QED BY <1>4, <2>1, <2>2, <2>3, <2>4, <2>5 DEF AloneInv
  <1> QED BY <1>3, <1>5, <1>6, <1>7, <1>8 DEF RollsInv

LEMMA LeavesLandStep ==
  ASSUME RollsInv, LeavesLand
  PROVE  RollsInv'
  <1>1. PICK n \in {NLeaf \div 2, NLeaf}, linked \in BOOLEAN :
          LET new == {a \in 1..n : a \notin present /\ Parents(a) = {}} IN
            /\ present' = present \cup new
            /\ about' = IF linked THEN about \cup new ELSE about
    BY DEF LeavesLand
  <1> DEFINE new == {a \in 1..n : a \notin present /\ Parents(a) = {}}
  <1>2. /\ present' = present \cup new /\ about \subseteq about' /\ about' \subseteq about \cup new
        /\ UNCHANGED <<layer, refs, roll, made, torn, overlapped, runs>>
        /\ \A a \in new : a \notin present /\ Parents(a) = {}
    BY <1>1 DEF LeavesLand
  <1>3. new \subseteq Leaf
    <2>1. NLeaf \in Nat /\ NLeaf \div 2 <= NLeaf /\ NLeaf \div 2 \in Nat
      BY RollupAssumption
    <2> QED BY <2>1 DEF Leaf
  <1> HIDE DEF new
  <1>4. /\ \A a \in RollupId : a \notin new
        /\ new \subseteq Artifact
    BY <1>3, ArtifactsFinite
  <1>5. /\ UnderWay' = UnderWay /\ Rollups' = Rollups
        /\ \A a : Landed(a)' <=> Landed(a)
        /\ \A a : MakerRests(a)' <=> MakerRests(a)
        /\ \A a : Children(a)' = Children(a) /\ Parents(a)' = Parents(a)
        /\ \A a : Free(a) => Free(a)'
    BY <1>2, <1>4 DEF UnderWay, Landed, MakerRests, Rollups, Children, Parents, Free
  <1>6. RollsTyped'
    BY <1>2, <1>4 DEF RollsInv, RollsTyped
  <1>7. RefsInLayers' /\ AboutAtTheEnd' /\ FinishedHasChildren'
    BY <1>2, <1>4, <1>5 DEF RollsInv, RefsInLayers, AboutAtTheEnd, FinishedHasChildren
  <1>8. \A q \in UnderWay' : Pending(q, roll[q])'
    BY <1>2, <1>5 DEF RollsInv, Pending
  <1>9. ~overlapped => AloneInv'
    <2> SUFFICES ASSUME ~overlapped
                 PROVE  AloneInv'
      OBVIOUS
    <2>1. AloneInv
      BY DEF RollsInv
    <2>2. \A q \in UnderWay : roll[q].pc = "wire" =>
            roll[q].inherits = {x \in DOMAIN roll[q].children : roll[q].children[x] \cap about' # {}}
      <3> SUFFICES ASSUME NEW q \in UnderWay, NEW x \in DOMAIN roll[q].children
                   PROVE  roll[q].children[x] \cap about' = roll[q].children[x] \cap about
        BY <2>1 DEF AloneInv
      <3>1. \A a \in roll[q].children[x] : Free(a)
        BY <2>1 DEF AloneInv
      <3>2. \A a \in roll[q].children[x] : a \notin new
        BY <1>2, <1>3, <3>1 DEF Free
      <3> QED BY <1>2, <3>2
    <2>3. \A x \in Rollups : Children(x) \cap about' = Children(x) \cap about
      <3> SUFFICES ASSUME NEW x \in Rollups, NEW a \in Children(x)
                   PROVE  a \notin new
        BY <1>2
      <3>1. x \in Parents(a)
        BY DEF Children, Parents, Rollups
      <3> QED BY <1>2, <3>1
    <2>4. \A x \in Rollups : x \in about' <=> x \in about
      BY <1>2, <1>4 DEF Rollups
    <2>5. \A x \in Rollups' : Wired(x)' =>
            (x \in about' <=> \E a \in Children(x)' \cap about' : a \in RollupId => made[a] # made[x])
      BY <1>5, <2>1, <2>3, <2>4 DEF AloneInv, Wired
    <2>6. \A q \in UnderWay :
            /\ \A x \in DOMAIN roll[q].children : \A a \in roll[q].children[x] : Free(a)'
            /\ roll[q].pc = "merge" => \A b \in roll[q].clusters : \A a \in b : Free(a)'
      BY <1>5, <2>1 DEF AloneInv
    <2> QED BY <1>2, <1>5, <2>1, <2>2, <2>5, <2>6 DEF AloneInv
  <1> QED BY <1>2, <1>6, <1>7, <1>8, <1>9 DEF RollsInv

LEMMA LeafSweptStep ==
  ASSUME RollsInv, NEW z \in Leaf, LeafSwept(z)
  PROVE  RollsInv'
  <1>1. /\ Parents(z) # {} /\ present' = present \ {z}
        /\ UNCHANGED <<layer, refs, about, roll, made, torn, overlapped, runs>>
    BY DEF LeafSwept
  <1>2. z \notin RollupId
    BY ArtifactsFinite
  <1>3. /\ UnderWay' = UnderWay /\ Rollups' = Rollups
        /\ \A a : Landed(a)' <=> Landed(a)
        /\ \A a : MakerRests(a)' <=> MakerRests(a)
        /\ \A a : Children(a)' = Children(a) /\ Parents(a)' = Parents(a)
        /\ \A a : Free(a) => Free(a)'
    BY <1>1, <1>2 DEF UnderWay, Landed, MakerRests, Rollups, Children, Parents, Free
  <1>4. RollsTyped'
    BY <1>1, <1>2 DEF RollsInv, RollsTyped
  <1>5. RefsInLayers' /\ AboutAtTheEnd' /\ FinishedHasChildren'
    BY <1>1, <1>3 DEF RollsInv, RefsInLayers, AboutAtTheEnd, FinishedHasChildren
  <1>6. \A q \in UnderWay' : Pending(q, roll[q])'
    BY <1>1, <1>3 DEF RollsInv, Pending
  <1>7. ~overlapped => AloneInv'
    BY <1>1, <1>3 DEF RollsInv, AloneInv, Wired
  <1> QED BY <1>1, <1>4, <1>5, <1>6, <1>7 DEF RollsInv

LEMMA StartRollupStep ==
  ASSUME RollsInv, NEW p \in RollRun, StartRollup(p)
  PROVE  RollsInv'
  <1>0. /\ p \in Nat /\ runs \in Nat /\ p = runs + 1 /\ runs' = p /\ p \in 0..MaxRuns
        /\ UNCHANGED <<present, layer, refs, about, made, torn>>
        /\ overlapped' = (overlapped \/ \E q \in RollRun : roll[q].pc # "idle")
    BY RollupAssumption DEF StartRollup, RollRun, RollsInv, RollsTyped
  <1>1. roll[p] = RollAtRest /\ p \notin UnderWay /\ \A x \in RollupId : made[x] # p
    BY <1>0, FamilyOf DEF RollsInv, RollsTyped, UnderWay
  <1> DEFINE t == TopLayer
             r == [RollAtRest EXCEPT !.pc = "cluster", !.base = t, !.step = 1]
  <1>2. t \in Nat
    BY TopLayerType DEF RollsInv
  <1>3. RollBecomes(p, r)
    BY DEF StartRollup
  <1> HIDE DEF t
  <1>4. r \in RollRecord /\ r.pc = "cluster" /\ DOMAIN r.children = {}
    BY <1>2, FamilyOf DEF RollAtRest, RollRecord
  <1> HIDE DEF r
  <1>5. /\ roll'[p] = r /\ \A q \in RollRun \ {p} : roll'[q] = roll[q]
        /\ roll' \in [RollRun -> RollRecord]
    BY <1>3, <1>4 DEF RollsInv, RollsTyped, RollBecomes
  <1>6. UnderWay' = UnderWay \cup {p}
    BY <1>4, <1>5 DEF UnderWay
  <1>7. /\ Rollups' = Rollups
        /\ \A a : Landed(a)' <=> Landed(a)
        /\ \A a \in RollupId : MakerRests(a) => MakerRests(a)'
        /\ \A a : Children(a)' = Children(a) /\ Parents(a)' = Parents(a) /\ (Free(a)' <=> Free(a))
    BY <1>0, <1>1, <1>6 DEF Landed, MakerRests, Rollups, Children, Parents, Free
  <1>8. RollsTyped'
    BY <1>0, <1>5 DEF RollsInv, RollsTyped
  <1>9. RefsInLayers'
    BY <1>0, <1>7 DEF RollsInv, RefsInLayers, RollsTyped
  <1>10. AboutAtTheEnd' /\ FinishedHasChildren'
    BY <1>0, <1>6, <1>7 DEF RollsInv, AboutAtTheEnd, FinishedHasChildren
  <1>11. \A q \in UnderWay' : Pending(q, roll[q])'
    <2> SUFFICES ASSUME NEW q \in UnderWay'
                 PROVE  Pending(q, roll[q])'
      OBVIOUS
    <2>1. CASE q = p
      BY <1>0, <1>1, <1>4, <1>5, <2>1 DEF Pending
    <2>2. CASE q # p
      <3>1. Pending(q, roll[q]) /\ roll'[q] = roll[q]
        BY <1>5, <1>6, <2>2 DEF RollsInv, UnderWay
      <3> QED BY <1>0, <1>7, <3>1 DEF Pending
    <2> QED BY <2>1, <2>2
  <1>12. ~overlapped' => AloneInv'
    <2> SUFFICES ASSUME ~overlapped'
                 PROVE  AloneInv'
      OBVIOUS
    <2>1. AloneInv /\ UnderWay = {}
      BY <1>0 DEF RollsInv, UnderWay
    <2>2. \A q \in UnderWay' : q = p /\ roll'[q] = r
      BY <1>5, <1>6, <2>1
    <2>3. \A e \in refs : e[2] \in RollupId => MakerRests(e[2])'
      BY <1>7, <2>1 DEF AloneInv
    <2>4. \A x \in Rollups' : Wired(x)' =>
            (x \in about <=> \E a \in Children(x)' \cap about : a \in RollupId => made[a] # made[x])
      BY <1>7, <2>1 DEF AloneInv, Wired
    <2> QED BY <1>0, <1>4, <1>7, <2>1, <2>2, <2>3, <2>4 DEF AloneInv
  <1> QED BY <1>8, <1>9, <1>10, <1>11, <1>12 DEF RollsInv

LEMMA ClusterLayerStep ==
  ASSUME RollsInv, NEW p \in RollRun, ClusterLayer(p)
  PROVE  RollsInv'
  <1>1. /\ roll[p] \in RollRecord /\ roll[p].pc = "cluster" /\ p \in UnderWay
        /\ UNCHANGED <<present, layer, refs, about, made, torn, overlapped, runs>>
        /\ Pending(p, roll[p])
    BY DEF ClusterLayer, RollsInv, RollsTyped, UnderWay
  <1>2. PICK cs \in Clusterings(Candidates(roll[p].base + roll[p].step - 1)) :
          RollBecomes(p, IF cs = {} THEN [roll[p] EXCEPT !.pc = "resolve"]
                         ELSE [roll[p] EXCEPT !.pc = "merge", !.clusters = cs])
    BY DEF ClusterLayer
  <1>3. roll[p].base \in Nat /\ roll[p].step \in Nat
    BY <1>1 DEF RollRecord
  <1> DEFINE cands == Candidates(roll[p].base + roll[p].step - 1)
  <1>4. /\ cands \subseteq Artifact
        /\ \A a \in cands : Landed(a) /\ Free(a) /\ layer[a] + 1 = roll[p].base + roll[p].step
    <2>1. present \subseteq Artifact
      BY DEF RollsInv, RollsTyped
    <2> SUFFICES ASSUME NEW a \in cands
                 PROVE  Landed(a) /\ Free(a) /\ layer[a] + 1 = roll[p].base + roll[p].step
      BY <2>1 DEF Candidates
    <2>2. /\ a \in present /\ Parents(a) = {} /\ layer[a] = roll[p].base + roll[p].step - 1
          /\ layer[a] \in Nat
      BY <2>1 DEF Candidates, RollsInv, RollsTyped
    <2>3. Landed(a)
      BY <2>2 DEF Landed, RollsInv, RollsTyped
    <2> QED BY <1>3, <2>2, <2>3 DEF Free
  <1> HIDE DEF cands
  <1>5. /\ cs \in SUBSET (SUBSET cands)
        /\ \A b \in cs : Cardinality(b) >= MinCluster
        /\ \A b, c \in cs : b # c => b \cap c = {}
    BY <1>2 DEF Clusterings, cands
  <1>6. cs \in SUBSET (SUBSET Artifact)
    BY <1>4, <1>5
  <1>7. CASE cs = {}
    <2> DEFINE r == [roll[p] EXCEPT !.pc = "resolve"]
    <2>1. RollBecomes(p, r)
      BY <1>2, <1>7
    <2>2. r \in RollRecord /\ r.pc = "resolve" /\ r.children = roll[p].children
      BY <1>1 DEF RollRecord
    <2> HIDE DEF r
    <2>3. Pending(p, r)
      BY <1>1, <2>2 DEF Pending
    <2> QED BY <1>1, <2>1, <2>2, <2>3, RollStep
  <1>8. CASE cs # {}
    <2> DEFINE r == [roll[p] EXCEPT !.pc = "merge", !.clusters = cs]
    <2>1. RollBecomes(p, r)
      BY <1>2, <1>8
    <2>2. /\ r \in RollRecord /\ r.pc = "merge" /\ r.children = roll[p].children
          /\ r.clusters = cs /\ r.base = roll[p].base /\ r.step = roll[p].step
      BY <1>1, <1>6 DEF RollRecord
    <2> HIDE DEF r
    <2>3. \A b \in cs : \A a \in b : Free(a) /\ Landed(a) /\ layer[a] + 1 = r.base + r.step
      BY <1>4, <1>5, <2>2
    <2>4. Pending(p, r)
      BY <1>1, <1>5, <2>2, <2>3 DEF Pending
    <2> QED BY <1>1, <2>1, <2>2, <2>3, <2>4, RollStep
  <1> QED BY <1>7, <1>8

LEMMA ResolveIdsStep ==
  ASSUME RollsInv, NEW p \in RollRun, ResolveIds(p)
  PROVE  RollsInv'
  <1>1. /\ roll[p] \in RollRecord /\ roll[p].pc = "resolve" /\ p \in UnderWay
        /\ UNCHANGED <<present, layer, refs, about, made, torn, overlapped, runs>>
        /\ Pending(p, roll[p])
    BY DEF ResolveIds, RollsInv, RollsTyped, UnderWay
  <1>2. CASE DOMAIN roll[p].children = {}
    <2>1. RollBecomes(p, RollAtRest)
      BY <1>2 DEF ResolveIds
    <2> QED BY <1>1, <1>2, <2>1, FamilyOf, RollStep
  <1>3. CASE DOMAIN roll[p].children # {}
    <2> DEFINE i == {x \in DOMAIN roll[p].children : roll[p].children[x] \cap about # {}}
               r == [roll[p] EXCEPT !.pc = "wire", !.inherits = i]
    <2>1. RollBecomes(p, r)
      BY <1>3 DEF ResolveIds
    <2>2. i \subseteq RollupId
      BY <1>1, FamilyOf DEF RollRecord
    <2> HIDE DEF i
    <2>3. r \in RollRecord /\ r.pc = "wire" /\ r.children = roll[p].children /\ r.inherits = i
      BY <1>1, <2>2 DEF RollRecord
    <2> HIDE DEF r
    <2>4. i \subseteq DOMAIN r.children
      BY <2>3 DEF i
    <2>5. Pending(p, r)
      BY <1>1, <2>3, <2>4 DEF Pending
    <2>6. r.inherits = {x \in DOMAIN r.children : r.children[x] \cap about # {}}
      BY <2>3 DEF i
    <2> QED BY <1>1, <2>1, <2>3, <2>5, <2>6, RollStep
  <1> QED BY <1>2, <1>3

\* New rows, one for each merged cluster.
LEMMA MergeLayerStep ==
  ASSUME RollsInv, NEW p \in RollRun, MergeLayer(p)
  PROVE  RollsInv'
  <1> DEFINE old == roll[p]
             after == IF old.step = Layers THEN "resolve" ELSE "cluster"
             fresh == {x \in RollupId : made[x] = 0}
  <1>1. /\ old \in RollRecord /\ old.pc = "merge" /\ p \in UnderWay /\ p \in Nat /\ p # 0
        /\ UNCHANGED <<refs, about, torn, overlapped, runs>>
        /\ Pending(p, old)
    BY RollupAssumption DEF MergeLayer, RollsInv, RollsTyped, UnderWay, RollRun
  <1>2. PICK merged \in SUBSET old.clusters :
          /\ Cardinality(merged) <= Cardinality(fresh)
          /\ LET id == CHOOSE f \in [merged -> fresh] : IsInjective(f)
                 new == {id[b] : b \in merged}
                 source(x) == CHOOSE b \in merged : id[b] = x
             IN
             /\ present' = present \cup new
             /\ layer' = [a \in Artifact |-> IF a \in new THEN LayerOf(old) ELSE layer[a]]
             /\ made' = [x \in RollupId |-> IF x \in new THEN p ELSE made[x]]
             /\ RollBecomes(p, [old EXCEPT !.pc = after, !.clusters = {},
                  !.step = IF old.step = Layers THEN old.step ELSE old.step + 1,
                  !.children = [x \in DOMAIN old.children \cup new |->
                                  IF x \in new THEN source(x) ELSE old.children[x]]])
    BY DEF MergeLayer
  <1> DEFINE id == CHOOSE f \in [merged -> fresh] : IsInjective(f)
             new == {id[b] : b \in merged}
             source(x) == CHOOSE b \in merged : id[b] = x
             kids == [x \in DOMAIN old.children \cup new |->
                        IF x \in new THEN source(x) ELSE old.children[x]]
             step == IF old.step = Layers THEN old.step ELSE old.step + 1
             r == [old EXCEPT !.pc = after, !.clusters = {}, !.step = step, !.children = kids]
  <1>3. /\ present' = present \cup new
        /\ layer' = [a \in Artifact |-> IF a \in new THEN LayerOf(old) ELSE layer[a]]
        /\ made' = [x \in RollupId |-> IF x \in new THEN p ELSE made[x]]
        /\ RollBecomes(p, r)
    BY <1>2
  <1>4. id \in [merged -> fresh] /\ IsInjective(id)
    <2>1. IsFiniteSet(fresh)
      BY ArtifactsFinite, FS_Subset
    <2>2. IsFiniteSet(merged)
      <3>1. old.clusters \subseteq SUBSET Artifact
        BY <1>1 DEF RollRecord
      <3>2. IsFiniteSet(SUBSET Artifact)
        BY ArtifactsFinite, FS_SUBSET
      <3> QED BY <3>1, <3>2, FS_Subset
    <2> HIDE DEF fresh
    <2>3. \E f \in [merged -> fresh] : IsInjective(f)
      BY <1>2, <2>1, <2>2, IdsForAll
    <2> QED BY <2>3
  <1> HIDE DEF id
  <1>5. /\ new \subseteq fresh
        /\ \A x \in new : source(x) \in merged /\ id[source(x)] = x
    BY <1>4
  <1>6. \A x, y \in new : source(x) = source(y) => x = y
    BY <1>5
  <1>7. /\ new \subseteq RollupId /\ new \subseteq Artifact
        /\ \A x \in new : made[x] = 0 /\ ~Landed(x)
        /\ \A x \in new : x \notin DOMAIN old.children
    BY <1>1, <1>5, ArtifactsFinite DEF Pending, Landed
  <1>8. kids \in Families
    <2>1. \A x \in new : source(x) \subseteq Artifact
      BY <1>1, <1>5 DEF RollRecord
    <2>2. /\ DOMAIN old.children \cup new \in SUBSET RollupId
          /\ \A x \in DOMAIN old.children : old.children[x] \subseteq Artifact
      BY <1>1, <1>7, FamilyOf DEF RollRecord
    <2> HIDE DEF source, new
    <2>3. kids \in [DOMAIN old.children \cup new -> SUBSET Artifact]
      BY <2>1, <2>2
    <2> QED BY <2>2, <2>3 DEF Families
  <1>9. /\ DOMAIN kids = DOMAIN old.children \cup new
        /\ \A x \in new : kids[x] = source(x)
        /\ \A x \in DOMAIN old.children : kids[x] = old.children[x]
    BY <1>7
  <1>10. /\ old.base \in Nat /\ old.step \in Nat /\ step \in Nat
         /\ after \in {"resolve", "cluster"} /\ (after = "cluster" => step = old.step + 1)
    BY <1>1 DEF RollRecord
  <1>11. /\ \A b \in merged : /\ Cardinality(b) >= MinCluster
                              /\ \A a \in b : Landed(a) /\ layer[a] + 1 = old.base + old.step
         /\ \A b, c \in merged : b # c => b \cap c = {}
    BY <1>1 DEF Pending
  <1>12. LayerOf(old) = old.base + old.step
    BY DEF LayerOf
  <1>13. /\ present' = present \cup new
         /\ layer' = [a \in Artifact |-> IF a \in new THEN old.base + old.step ELSE layer[a]]
         /\ made' = [x \in RollupId |-> IF x \in new THEN p ELSE made[x]]
    BY <1>3, <1>12
  <1> HIDE DEF new, source, kids, step, after
  <1>14. /\ r \in RollRecord /\ r.pc = after /\ r.step = step /\ r.base = old.base
         /\ r.children = kids
    BY <1>1, <1>8, <1>10 DEF RollRecord
  <1>15. RollBecomes(p, r)
    BY <1>3
  <1> HIDE DEF r
  <1>16. /\ roll'[p] = r /\ \A q \in RollRun \ {p} : roll'[q] = roll[q]
         /\ roll' \in [RollRun -> RollRecord]
    BY <1>14, <1>15 DEF RollsInv, RollsTyped, RollBecomes
  <1>17. UnderWay' = UnderWay
    BY <1>1, <1>10, <1>14, <1>16 DEF UnderWay
  <1>18. /\ \A x \in RollupId \ new : made'[x] = made[x]
         /\ \A x \in new : made'[x] = p
         /\ \A a \in Artifact \ new : layer'[a] = layer[a]
         /\ \A a \in new : layer'[a] = old.base + old.step
    BY <1>7, <1>13
  <1>19. /\ \A a : Landed(a) => Landed(a)' /\ a \notin new
         /\ \A a : Children(a)' = Children(a) /\ Parents(a)' = Parents(a)
         /\ \A a : Free(a) => Free(a)'
         /\ \A a \in RollupId : Landed(a) /\ MakerRests(a) => MakerRests(a)'
    BY <1>1, <1>7, <1>13, <1>17, <1>18 DEF Landed, Children, Parents, Free, MakerRests
  <1>20. RollsTyped'
    <2>1. ~(p > runs)
      BY <1>1, FamilyOf DEF RollsInv, RollsTyped, UnderWay
    <2>2. p <= runs /\ layer' \in [Artifact -> Nat]
      BY <1>1, <1>10, <1>13, <2>1, RollupAssumption DEF RollsInv, RollsTyped
    <2>3. made' \in [RollupId -> Nat] /\ \A x \in RollupId : made'[x] <= runs
      BY <1>1, <1>13, <1>18, <2>2 DEF RollsInv, RollsTyped
    <2>4. \A x \in RollupId : x \in present' <=> made'[x] # 0
      BY <1>1, <1>13, <1>18 DEF RollsInv, RollsTyped
    <2>5. present' \subseteq Artifact /\ \A q \in RollRun : q > runs => roll'[q] = RollAtRest
      BY <1>7, <1>13, <1>16, <2>1 DEF RollsInv, RollsTyped
    <2> QED BY <1>1, <1>16, <2>2, <2>3, <2>4, <2>5 DEF RollsInv, RollsTyped
  <1>21. RefsInLayers'
    <2> SUFFICES ASSUME NEW e \in refs
                 PROVE  /\ Landed(e[1])' /\ Landed(e[2])' /\ layer'[e[1]] = layer'[e[2]] + 1
                        /\ MakerRests(e[1])'
      BY <1>1 DEF RefsInLayers
    <2>1. e[1] \in RollupId /\ e[1] \in Artifact /\ e[2] \in Artifact
      BY ArtifactsFinite DEF RollsInv, RollsTyped
    <2>2. Landed(e[1]) /\ Landed(e[2]) /\ layer[e[1]] = layer[e[2]] + 1 /\ MakerRests(e[1])
      BY DEF RollsInv, RefsInLayers
    <2> QED BY <1>18, <1>19, <2>1, <2>2
  <1>22. AboutAtTheEnd'
    BY <1>1, <1>19 DEF RollsInv, AboutAtTheEnd
  <1>23. FinishedHasChildren'
    <2> SUFFICES ASSUME NEW x \in Rollups'
                 PROVE  Cardinality(Children(x)) >= MinCluster \/ made'[x] \in UnderWay \cup torn
      BY <1>1, <1>17, <1>19 DEF FinishedHasChildren
    <2>1. CASE x \in new
      BY <1>1, <1>18, <2>1
    <2>2. CASE x \notin new
      BY <1>13, <1>18, <2>2 DEF RollsInv, FinishedHasChildren, Rollups
    <2> QED BY <2>1, <2>2
  <1>24. \A q \in UnderWay' : Pending(q, roll[q])'
    <2> SUFFICES ASSUME NEW q \in UnderWay
                 PROVE  Pending(q, roll[q])'
      BY <1>17
    <2>1. CASE q = p
      <3>1. \A x \in RollupId : made'[x] = p <=> x \in DOMAIN kids
        BY <1>1, <1>7, <1>9, <1>18 DEF Pending
      <3>2. ASSUME NEW x \in DOMAIN kids
            PROVE  /\ Cardinality(kids[x]) >= MinCluster
                   /\ \A a \in kids[x] : Landed(a)' /\ layer'[x] = layer'[a] + 1
                   /\ r.pc \in {"cluster", "merge"} => layer'[x] < r.base + r.step
        <4>1. CASE x \in new
          <5>1. kids[x] \in merged /\ kids[x] \subseteq Artifact
            BY <1>5, <1>8, <1>9, <4>1, FamilyOf
          <5> QED BY <1>10, <1>11, <1>14, <1>18, <1>19, <4>1, <5>1
        <4>2. CASE x \notin new
          <5>1. x \in DOMAIN old.children /\ kids[x] = old.children[x] /\ kids[x] \subseteq Artifact
                /\ x \in Artifact /\ layer[x] \in Nat
            BY <1>7, <1>8, <1>9, <3>1, <4>2, FamilyOf, ArtifactsFinite DEF RollsInv, RollsTyped
          <5>2. /\ Cardinality(kids[x]) >= MinCluster
                /\ \A a \in kids[x] : Landed(a) /\ layer[x] = layer[a] + 1
                /\ layer[x] < old.base + old.step
            BY <1>1, <5>1 DEF Pending
          <5>3. layer'[x] = layer[x] /\ \A a \in kids[x] : layer'[a] = layer[a] /\ Landed(a)'
            BY <1>18, <1>19, <4>2, <5>1, <5>2
          <5>4. r.pc \in {"cluster", "merge"} => r.step = old.step + 1 /\ r.base = old.base
            BY <1>10, <1>14
          <5> QED BY <1>10, <5>1, <5>2, <5>3, <5>4
        <4> QED BY <4>1, <4>2
      <3>3. ASSUME NEW x \in DOMAIN kids, NEW y \in DOMAIN kids, x # y
            PROVE  kids[x] \cap kids[y] = {}
        <4>1. ASSUME NEW v \in new, NEW w \in DOMAIN old.children
              PROVE  kids[v] \cap kids[w] = {}
          <5>1. kids[v] \in merged /\ kids[w] = old.children[w]
            BY <1>5, <1>9
          <5>2. w \in Artifact /\ layer[w] \in Nat /\ layer[w] < old.base + old.step
            BY <1>1, ArtifactsFinite, FamilyOf DEF Pending, RollRecord, RollsInv, RollsTyped
          <5>3. ASSUME NEW a \in kids[v] \cap kids[w]
                PROVE  FALSE
            <6>1. layer[a] + 1 = old.base + old.step
              BY <1>11, <5>1
            <6>2. layer[w] = layer[a] + 1
              BY <1>1, <5>1 DEF Pending
            <6> QED BY <1>10, <5>2, <6>1, <6>2
          <5> QED BY <5>3
        <4>2. CASE x \in new /\ y \in new
          <5>1. kids[x] \in merged /\ kids[y] \in merged /\ kids[x] # kids[y]
            BY <1>5, <1>6, <1>9, <3>3, <4>2
          <5> QED BY <1>11, <5>1
        <4>3. CASE x \notin new /\ y \notin new
          BY <1>1, <1>9, <3>3, <4>3 DEF Pending
        <4>4. CASE x \in new /\ y \notin new
          BY <1>9, <4>1, <4>4
        <4>5. CASE x \notin new /\ y \in new
          <5>1. kids[y] \cap kids[x] = {}
            BY <1>9, <4>1, <4>5
          <5> QED BY <5>1
        <4> QED BY <4>2, <4>3, <4>4, <4>5
      <3>4. r.pc # "merge" /\ r.pc # "wire"
        BY <1>10, <1>14
      <3> QED BY <1>14, <1>16, <2>1, <3>1, <3>2, <3>3, <3>4 DEF Pending
    <2>2. CASE q # p
      <3>1. Pending(q, roll[q]) /\ roll'[q] = roll[q] /\ roll[q] \in RollRecord
        BY <1>16, <2>2 DEF RollsInv, RollsTyped, UnderWay
      <3>2. \A x \in RollupId : made'[x] = q <=> x \in DOMAIN roll[q].children
        <4>1. q # 0
          BY RollupAssumption DEF UnderWay, RollRun
        <4> QED BY <1>7, <1>18, <2>2, <3>1, <4>1 DEF Pending
      <3>3. /\ \A x \in DOMAIN roll[q].children : /\ roll[q].children[x] \subseteq Artifact
                                                  /\ x \in Artifact /\ x \notin new
            /\ \A b \in roll[q].clusters : b \subseteq Artifact
        <4>1. DOMAIN roll[q].children \subseteq RollupId
          BY <3>1, FamilyOf DEF RollRecord
        <4>2. \A x \in DOMAIN roll[q].children : x \notin new
          BY <1>18, <2>2, <3>2, <4>1
        <4> QED BY <3>1, <4>1, <4>2, FamilyOf, ArtifactsFinite DEF RollRecord
      <3>4. \A a \in Artifact : Landed(a) => Landed(a)' /\ layer'[a] = layer[a]
        BY <1>18, <1>19
      <3>5. \A x \in DOMAIN roll[q].children : layer'[x] = layer[x]
        BY <1>18, <3>3
      <3>6. \A x \in DOMAIN roll[q].children :
              /\ Cardinality(roll[q].children[x]) >= MinCluster
              /\ \A a \in roll[q].children[x] : Landed(a)' /\ layer'[x] = layer'[a] + 1
              /\ roll[q].pc \in {"cluster", "merge"} => layer'[x] < roll[q].base + roll[q].step
        BY <3>1, <3>3, <3>4, <3>5 DEF Pending
      <3>7. roll[q].pc = "merge" =>
              /\ \A b \in roll[q].clusters :
                   /\ Cardinality(b) >= MinCluster
                   /\ \A a \in b : Landed(a)' /\ layer'[a] + 1 = roll[q].base + roll[q].step
              /\ \A b, c \in roll[q].clusters : b # c => b \cap c = {}
        BY <3>1, <3>3, <3>4 DEF Pending
      <3>8. /\ \A x, y \in DOMAIN roll[q].children :
                 x # y => roll[q].children[x] \cap roll[q].children[y] = {}
            /\ roll[q].pc = "wire" => roll[q].inherits \subseteq DOMAIN roll[q].children
        BY <3>1 DEF Pending
      <3> QED BY <3>1, <3>2, <3>6, <3>7, <3>8 DEF Pending
    <2> QED BY <2>1, <2>2
  <1>25. ~overlapped' => AloneInv'
    <2> SUFFICES ASSUME ~overlapped
                 PROVE  AloneInv'
      BY <1>1
    <2>1. AloneInv
      BY DEF RollsInv
    <2>2. \A q \in UnderWay' : q = p /\ roll'[q] = r
      BY <1>1, <1>16, <1>17, <2>1 DEF AloneInv
    <2>3. r.pc # "merge" /\ r.pc # "wire"
      BY <1>10, <1>14
    <2>4. \A x \in DOMAIN kids : \A a \in kids[x] : Free(a)
      <3>1. /\ \A x \in DOMAIN old.children : \A a \in old.children[x] : Free(a)
            /\ \A b \in merged : \A a \in b : Free(a)
        BY <1>1, <2>1 DEF AloneInv
      <3> QED BY <1>5, <1>9, <3>1
    <2>5. \A e \in refs : e[2] \in RollupId => MakerRests(e[2])'
      BY <1>19, <2>1 DEF AloneInv, RollsInv, RefsInLayers
    <2>6. ASSUME NEW x \in Rollups', Wired(x)'
          PROVE  x \in about <=> \E a \in Children(x) \cap about : a \in RollupId => made'[a] # made'[x]
      <3>1. PICK z : z \in Children(x)
        BY <1>19, <2>6 DEF Wired
      <3>2. <<x, z>> \in refs
        BY <3>1 DEF Children
      <3>3. x \in RollupId /\ Landed(x)
        BY <3>2 DEF RollsInv, RefsInLayers, Rollups
      <3>4. x \in Rollups /\ Wired(x) /\ made'[x] = made[x]
        BY <1>13, <1>18, <1>19, <3>1, <3>3 DEF Rollups, Landed, RollsInv, RollsTyped, Wired
      <3>5. \A a \in Children(x) : a \in RollupId => made'[a] = made[a]
        <4> SUFFICES ASSUME NEW a \in Children(x), a \in RollupId
                     PROVE  made'[a] = made[a]
          OBVIOUS
        <4>1. <<x, a>> \in refs
          BY DEF Children
        <4>2. Landed(a)
          BY <4>1 DEF RollsInv, RefsInLayers
        <4> QED BY <1>18, <1>19, <4>2
      <3> QED BY <2>1, <3>4, <3>5 DEF AloneInv
    <2> QED BY <1>1, <1>14, <1>19, <2>1, <2>2, <2>3, <2>4, <2>5, <2>6 DEF AloneInv
  <1> QED BY <1>20, <1>21, <1>22, <1>23, <1>24, <1>25 DEF RollsInv

\* The edges of a run, all at once.
LEMMA WireEdgesStep ==
  ASSUME RollsInv, NEW p \in RollRun, WireEdges(p)
  PROVE  RollsInv'
  <1> DEFINE kids == roll[p].children
             inherits == roll[p].inherits
  <1>1. /\ roll[p] \in RollRecord /\ roll[p].pc = "wire" /\ p \in UnderWay
        /\ UNCHANGED <<present, layer, made, torn, overlapped, runs>>
        /\ refs' = refs \cup UNION {{x} \X kids[x] : x \in DOMAIN kids}
        /\ about' = about \cup inherits
        /\ RollBecomes(p, RollAtRest)
        /\ Pending(p, roll[p])
    BY DEF WireEdges, RollsInv, RollsTyped, UnderWay
  <1>2. /\ DOMAIN kids \subseteq RollupId /\ (\A x \in DOMAIN kids : kids[x] \subseteq Artifact)
        /\ inherits \subseteq DOMAIN kids
    BY <1>1, FamilyOf DEF RollRecord, Pending
  <1>3. /\ \A x \in RollupId : made[x] = p <=> x \in DOMAIN kids
        /\ \A x \in DOMAIN kids : /\ Cardinality(kids[x]) >= MinCluster
                                  /\ \A a \in kids[x] : Landed(a) /\ layer[x] = layer[a] + 1
        /\ \A x, y \in DOMAIN kids : x # y => kids[x] \cap kids[y] = {}
    BY <1>1 DEF Pending
  <1> HIDE DEF kids, inherits
  <1>4. \A x, a : <<x, a>> \in refs' <=> <<x, a>> \in refs \/ (x \in DOMAIN kids /\ a \in kids[x])
    BY <1>1
  <1>5. \A e \in refs' \ refs : e[1] \in DOMAIN kids /\ e[2] \in kids[e[1]]
    BY <1>1
  <1>6. /\ roll'[p] = RollAtRest /\ \A q \in RollRun \ {p} : roll'[q] = roll[q]
        /\ roll' \in [RollRun -> RollRecord]
    BY <1>1, FamilyOf DEF RollsInv, RollsTyped, RollBecomes
  <1>7. UnderWay' = UnderWay \ {p}
    BY <1>6, FamilyOf DEF UnderWay
  <1>8. /\ \A a : Landed(a)' <=> Landed(a)
        /\ \A a : MakerRests(a) => MakerRests(a)'
        /\ Rollups' = Rollups
        /\ \A x \in DOMAIN kids : MakerRests(x) => FALSE
    BY <1>1, <1>2, <1>3, <1>7 DEF Landed, MakerRests, Rollups
  <1>9. RollsTyped'
    <2>1. ~(p > runs)
      BY <1>1, FamilyOf DEF RollsInv, RollsTyped, UnderWay
    <2>2. refs' \subseteq RollupId \X Artifact /\ about' \subseteq Artifact
      BY <1>1, <1>2, ArtifactsFinite DEF RollsInv, RollsTyped
    <2> QED BY <1>1, <1>6, <2>1, <2>2 DEF RollsInv, RollsTyped
  <1>10. \A x \in DOMAIN kids : Landed(x) /\ x \in RollupId /\ made[x] = p
    BY <1>2, <1>3, RollupAssumption DEF Landed, RollRun
  <1>11. \A x \in DOMAIN kids : MakerRests(x)'
    BY <1>1, <1>7, <1>10 DEF MakerRests
  <1>12. RefsInLayers'
    <2> SUFFICES ASSUME NEW e \in refs'
                 PROVE  /\ Landed(e[1]) /\ Landed(e[2]) /\ layer[e[1]] = layer[e[2]] + 1
                        /\ MakerRests(e[1])'
      BY <1>1, <1>8 DEF RefsInLayers
    <2>1. CASE e \in refs
      BY <1>8, <2>1 DEF RollsInv, RefsInLayers
    <2>2. CASE e \notin refs
      BY <1>3, <1>5, <1>10, <1>11, <2>2
    <2> QED BY <2>1, <2>2
  <1>13. AboutAtTheEnd'
    <2> SUFFICES ASSUME NEW x \in RollupId \cap about'
                 PROVE  Landed(x) /\ MakerRests(x)'
      BY <1>8 DEF AboutAtTheEnd
    <2>1. CASE x \in about
      BY <1>8, <2>1 DEF RollsInv, AboutAtTheEnd
    <2>2. CASE x \in inherits
      BY <1>2, <1>10, <1>11, <2>2
    <2> QED BY <1>1, <2>1, <2>2
  <1>14. \A x \in RollupId : x \notin DOMAIN kids => Children(x)' = Children(x)
    BY <1>4 DEF Children
  <1>15. \A x \in DOMAIN kids : Children(x)' = kids[x]
    <2> SUFFICES ASSUME NEW x \in DOMAIN kids
                 PROVE  \A a \in Artifact : <<x, a>> \in refs' <=> a \in kids[x]
      BY <1>2 DEF Children
    <2>1. \A a : <<x, a>> \notin refs
      <3> SUFFICES ASSUME NEW a, <<x, a>> \in refs
                   PROVE  FALSE
        OBVIOUS
      <3>1. MakerRests(x)
        BY DEF RollsInv, RefsInLayers
      <3> QED BY <1>8, <3>1
    <2> QED BY <1>4, <2>1
  <1>16. FinishedHasChildren'
    <2> SUFFICES ASSUME NEW x \in Rollups
                 PROVE  Cardinality(Children(x)') >= MinCluster \/ made[x] \in UnderWay' \cup torn
      BY <1>1, <1>8 DEF FinishedHasChildren
    <2>1. CASE x \in DOMAIN kids
      BY <1>3, <1>15, <2>1
    <2>2. CASE x \notin DOMAIN kids
      <3>1. x \in RollupId /\ made[x] # p
        BY <1>3, <2>2 DEF Rollups
      <3> QED BY <1>7, <1>14, <2>2, <3>1 DEF RollsInv, FinishedHasChildren
    <2> QED BY <2>1, <2>2
  <1>17. \A q \in UnderWay' : Pending(q, roll[q])'
    <2> SUFFICES ASSUME NEW q \in UnderWay'
                 PROVE  Pending(q, roll[q])'
      OBVIOUS
    <2>1. Pending(q, roll[q]) /\ roll'[q] = roll[q]
      BY <1>6, <1>7 DEF RollsInv, UnderWay
    <2> QED BY <1>1, <1>8, <2>1 DEF Pending
  <1>18. ~overlapped' => AloneInv'
    <2> SUFFICES ASSUME ~overlapped
                 PROVE  AloneInv'
      BY <1>1
    <2>1. AloneInv
      BY DEF RollsInv
    <2>2. UnderWay' = {}
      BY <1>1, <1>7, <2>1 DEF AloneInv
    <2>3. \A x \in DOMAIN kids : \A a \in kids[x] : Parents(a) = {}
      BY <1>1, <2>1 DEF AloneInv, Free, kids
    <2>4. inherits = {x \in DOMAIN kids : kids[x] \cap about # {}}
      BY <1>1, <2>1 DEF AloneInv, kids, inherits
    <2>5. ASSUME NEW a \in Artifact, NEW v \in Parents(a)', NEW w \in Parents(a)'
          PROVE  v = w
      <3>1. <<v, a>> \in refs' /\ <<w, a>> \in refs' /\ v \in RollupId /\ w \in RollupId
        BY DEF Parents
      <3>2. CASE \E x \in DOMAIN kids : a \in kids[x]
        <4>1. \A x \in RollupId : <<x, a>> \notin refs
          BY <2>3, <3>2 DEF Parents
        <4> QED BY <1>3, <1>4, <3>1, <4>1
      <3>3. CASE ~\E x \in DOMAIN kids : a \in kids[x]
        <4>1. v \in Parents(a) /\ w \in Parents(a)
          BY <1>4, <3>1, <3>3 DEF Parents
        <4> QED BY <2>1, <4>1 DEF AloneInv
      <3> QED BY <3>2, <3>3
    <2>6. \A e \in refs' : e[2] \in RollupId => MakerRests(e[2])'
      BY <2>2 DEF MakerRests
    <2>7. \A x \in inherits : x \in RollupId /\ made[x] = p
      BY <1>2, <1>10
    <2>8. ASSUME NEW x \in Rollups, Wired(x)'
          PROVE  x \in about' <=>
                   \E a \in Children(x)' \cap about' : a \in RollupId => made[a] # made[x]
      <3>1. CASE x \in DOMAIN kids
        <4>1. made[x] = p /\ Children(x)' = kids[x] /\ x \in RollupId
          BY <1>10, <1>15, <3>1
        <4>2. \A a \in about : a \in RollupId => made[a] # p
          BY <1>1 DEF RollsInv, AboutAtTheEnd, MakerRests
        <4>3. x \notin about
          BY <4>1, <4>2
        <4>4. x \in about' <=> kids[x] \cap about # {}
          BY <1>1, <2>4, <3>1, <4>3
        <4>5. \A a : a \in about' /\ (a \in RollupId => made[a] # p) <=> a \in about
          BY <1>1, <2>7, <4>2
        <4> QED BY <4>1, <4>4, <4>5
      <3>2. CASE x \notin DOMAIN kids
        <4>1. x \in RollupId /\ Children(x)' = Children(x)
          BY <1>14, <3>2 DEF Rollups
        <4>2. x \in about' <=> x \in about
          BY <1>1, <1>2, <3>2
        <4>3. Children(x) \cap about' = Children(x) \cap about
          <5> SUFFICES ASSUME NEW a \in Children(x), a \in inherits
                       PROVE  FALSE
            BY <1>1
          <5>1. <<x, a>> \in refs
            BY DEF Children
          <5>2. MakerRests(a)
            BY <2>1, <2>7, <5>1 DEF AloneInv
          <5> QED BY <1>1, <2>7, <5>2 DEF MakerRests
        <4>4. Wired(x)
          BY <2>8, <4>1 DEF Wired
        <4> QED BY <2>1, <4>1, <4>2, <4>3, <4>4 DEF AloneInv
      <3> QED BY <3>1, <3>2
    <2> QED BY <1>1, <1>8, <2>2, <2>5, <2>6, <2>8 DEF AloneInv
  <1> QED BY <1>9, <1>12, <1>13, <1>16, <1>17, <1>18 DEF RollsInv

LEMMA NextRollup ==
  ASSUME RollsInv, [RollupNext]_rollupVars
  PROVE  RollsInv'
  <1>1. CASE UNCHANGED rollupVars
    <2>1. /\ UNCHANGED <<present, layer, refs, about, roll, made, torn, overlapped, runs>>
          /\ UnderWay' = UnderWay /\ Rollups' = Rollups
          /\ \A a : /\ Landed(a)' <=> Landed(a)
                    /\ MakerRests(a)' <=> MakerRests(a)
                    /\ Children(a)' = Children(a) /\ Parents(a)' = Parents(a)
                    /\ Free(a)' <=> Free(a)
      BY <1>1 DEF rollupVars, UnderWay, Rollups, Landed, MakerRests, Children, Parents, Free
    <2>2. RollsTyped' /\ RefsInLayers' /\ FinishedHasChildren' /\ AboutAtTheEnd'
      BY <2>1 DEF RollsInv, RollsTyped, RefsInLayers, FinishedHasChildren, AboutAtTheEnd
    <2>3. \A q \in UnderWay' : Pending(q, roll[q])'
      BY <2>1 DEF RollsInv, Pending
    <2>4. ~overlapped' => AloneInv'
      BY <2>1 DEF RollsInv, AloneInv, Wired
    <2> QED BY <2>2, <2>3, <2>4 DEF RollsInv
  <1>2. ASSUME NEW p \in RollRun, StopRollup(p)
        PROVE  RollsInv'
    <2>1. /\ p \in UnderWay /\ torn' = torn \cup {p} /\ RollBecomes(p, RollAtRest)
          /\ UNCHANGED <<present, layer, refs, about, made, overlapped, runs>>
      BY <1>2 DEF StopRollup, UnderWay
    <2> QED BY <2>1, FamilyOf, RollStep
  <1> QED BY <1>1, <1>2, LeavesLandStep, LeafSweptStep, StartRollupStep, ClusterLayerStep,
             MergeLayerStep, ResolveIdsStep, WireEdgesStep DEF RollupNext

LEMMA InitRolls == Init => RollsInv
  <1>1. RollupInit => /\ RollsTyped /\ UnderWay = {} /\ refs = {} /\ Rollups = {} /\ about = {}
                      /\ \A a : Children(a) = {} /\ Parents(a) = {}
    BY FamilyOf, RollupAssumption
       DEF RollupInit, RollsTyped, UnderWay, Rollups, Children, Parents
  <1> QED BY <1>1 DEF Init, RollsInv, RefsInLayers, FinishedHasChildren, AboutAtTheEnd, AloneInv

\* The rollups are a forest of layers, every rollup of a finished run has its
\* children, and what one is about comes from below, for any artifacts, layers,
\* cluster sizes and number of runs, however often runs were killed.
THEOREM RollupsHold == Spec => []RollupInv
  <1>1. Init => RollsInv
    BY InitRolls
  <1>2. [Next]_servicesVars => [RollupNext]_rollupVars
    BY DEF Next, servicesVars
  <1>3. RollsInv /\ [RollupNext]_rollupVars => RollsInv'
    BY NextRollup
  <1>4. RollsInv => RollupInv
    <2> SUFFICES ASSUME RollsInv
                 PROVE  RollupInv
      OBVIOUS
    <2>1. ASSUME ~overlapped, NEW a \in Artifact
          PROVE  Cardinality(Parents(a)) <= 1
      <3>1. CASE Parents(a) = {}
        BY <3>1, FS_EmptySet
      <3>2. CASE Parents(a) # {}
        <4>1. PICK r \in Parents(a) : TRUE
          BY <3>2
        <4>2. Parents(a) = {r}
          BY <2>1, <4>1 DEF RollsInv, AloneInv
        <4> QED BY <4>2, FS_Singleton
      <3> QED BY <3>1, <3>2
    <2>2. \A e \in refs : layer[e[1]] = layer[e[2]] + 1
      BY DEF RollsInv, RefsInLayers
    <2>3. ASSUME NEW r \in Rollups, Cardinality(Children(r)) < MinCluster
          PROVE  made[r] \in UnderWay \cup torn
      <3>1. Cardinality(Children(r)) \in Nat /\ MinCluster \in Nat
        BY ArtifactsFinite, FS_Subset, FS_CardinalityType, RollupAssumption DEF Children
      <3>2. ~(Cardinality(Children(r)) >= MinCluster)
        BY <2>3, <3>1
      <3> QED BY <3>2 DEF RollsInv, FinishedHasChildren
    <2>4. RollupForest
      BY <2>1, <2>2, <2>3 DEF RollupForest
    <2>5. AboutInherited
      BY DEF RollsInv, AloneInv, AboutInherited
    <2> QED BY <2>4, <2>5 DEF RollupInv
  <1> QED BY <1>1, <1>2, <1>3, <1>4, PTL DEF Spec
-----------------------------------------------------------------------------
(***************************************************************************)
(* Conversations: what a post holds between its transactions.              *)
(***************************************************************************)
PostRecord ==
  [pc : {"idle", "insert", "retrieve", "answer"}, id : Nat, index : Nat, prior : SUBSET Nat,
   answer : BOOLEAN]

Busy(p) == post[p].pc # "idle"

AnswerText == {"null", "", "text"}

TurnsTyped ==
  /\ posted \in 0..MaxTurns
  /\ Rows \subseteq 1..posted
  /\ \A t \in Rows : turns[t] \in [index : Nat, answer : AnswerText]
  /\ post \in [Poster -> PostRecord]
  /\ \A p \in Poster : Busy(p) => post[p].id \in 1..posted
  /\ context \in [TurnId -> SUBSET TurnId]
  /\ crossed \subseteq 1..posted
  /\ conversation \in {"new", "open", "gone"}
  /\ runLog \subseteq Rows

\* A turn's index is below its id, so the indexes read have a greatest one.
IndexBelow ==
  /\ \A t \in Rows : turns[t].index < t
  /\ \A p \in Poster : Busy(p) => post[p].index < post[p].id

\* Two posts under way have crossed.
PostsCross ==
  \A p, q \in Poster : p # q /\ Busy(p) /\ Busy(q) =>
    post[p].id # post[q].id /\ {post[p].id, post[q].id} \subseteq crossed

\* A post comes after every row that it has not crossed; its own row is as it
\* has written it.
PostComesLast ==
  \A p \in Poster : Busy(p) =>
    /\ \A t \in Rows \ {post[p].id} :
         \/ t < post[p].id /\ turns[t].index < post[p].index
         \/ {t, post[p].id} \subseteq crossed
    /\ post[p].pc = "insert" => post[p].id \notin Rows
    /\ post[p].id \in Rows =>
         turns[post[p].id].index = post[p].index /\ turns[post[p].id].answer = "null"

ClosedIsEmpty == conversation # "open" => Rows = {}

ContextAnswered == conversation # "gone" => \A t \in TurnId : context[t] \subseteq Answered

\* u is outside a full window of later answers.
Outside(t, u) ==
  /\ Cardinality(context[t]) = Window
  /\ \A s \in context[t] \cap Rows : turns[s].index >= turns[u].index

\* What a post has read is still the latest, unless it is crossed.
PostSees ==
  \A p \in Poster : post[p].pc = "insert" /\ post[p].id \notin crossed =>
    \A u \in Answered \ context[post[p].id] :
      turns[u].index < post[p].index => u \in crossed \/ Outside(post[p].id, u)

TurnsInv ==
  /\ TurnsTyped /\ IndexBelow /\ PostsCross /\ PostComesLast /\ ClosedIsEmpty
  /\ ContextAnswered /\ PostSees
  /\ TurnOrder /\ SeesLatestAnswers

LEMMA NextIndexAbove ==
  ASSUME TurnsTyped, IndexBelow
  PROVE  /\ NextIndex \in Nat /\ NextIndex <= posted
         /\ \A t \in Rows : turns[t].index < NextIndex
  <1> DEFINE S == {-1} \cup {turns[t].index : t \in Rows}
  <1>1. posted \in Nat /\ \A t \in Rows : t \in Nat /\ t <= posted /\ turns[t].index \in Nat
    BY ConversationAssumption DEF TurnsTyped
  <1>2. S \in SUBSET Int /\ S # {}
    BY <1>1
  <1>3. \A x \in S : x <= posted - 1 /\ x >= -1
    <2> SUFFICES ASSUME NEW t \in Rows
                 PROVE  turns[t].index <= posted - 1
      BY <1>1
    <2> QED BY <1>1 DEF IndexBelow
  <1>4. posted - 1 \in Int
    BY <1>1
  <1> HIDE DEF S
  <1>5. Max(S) \in S /\ \A y \in S : y <= Max(S)
    BY <1>2, <1>3, <1>4, MaxOf
  <1>6. Max(S) \in Int /\ Max(S) <= posted - 1 /\ Max(S) >= -1
    BY <1>2, <1>3, <1>5
  <1>7. \A t \in Rows : turns[t].index \in S
    BY DEF S
  <1>8. NextIndex = Max(S) + 1
    BY DEF NextIndex, S
  <1> QED BY <1>1, <1>5, <1>6, <1>7, <1>8

LEMMA AnsweredFinite ==
  ASSUME TurnsTyped
  PROVE  IsFiniteSet(Answered)
  <1>1. IsFiniteSet(1..posted)
    BY FS_Interval DEF TurnsTyped
  <1> QED BY <1>1, FS_Subset DEF TurnsTyped, Answered

LEMMA WindowIsLatest ==
  ASSUME TurnsTyped, NEW s \in LatestAnswered(Window), NEW u \in Answered \ s
  PROVE  Cardinality(s) = Window /\ \A t \in s : turns[t].index >= turns[u].index
  <1> DEFINE n == Cardinality(Answered)
  <1>1. IsFiniteSet(Answered) /\ s \subseteq Answered
    BY AnsweredFinite DEF LatestAnswered
  <1>2. n \in Nat /\ Window \in Nat
    BY <1>1, FS_CardinalityType, ConversationAssumption
  <1>3. Cardinality(s) = Min({Window, n})
    BY DEF LatestAnswered
  <1>4. Cardinality(s) # n
    BY <1>1, FS_Subset
  <1> HIDE DEF n
  <1>5. Cardinality(s) = Window
    <2>1. Min({Window, n}) \in {Window, n}
      BY <1>2, MinOfTwo
    <2> QED BY <1>3, <1>4, <2>1
  <1>6. \A t \in s : turns[u].index <= turns[t].index
    BY DEF LatestAnswered
  <1>7. \A t \in Answered : turns[t].index \in Nat
    BY DEF TurnsTyped, Answered
  <1> QED BY <1>1, <1>5, <1>6, <1>7

\* A step of p that leaves the turns alone, and p's hold on them.
LEMMA PostStep ==
  ASSUME TurnsInv, NEW p \in Poster, NEW r \in PostRecord, post' = [post EXCEPT ![p] = r],
         r.pc = "idle" \/ (Busy(p) /\ r.pc # "insert" /\ r.id = post[p].id /\ r.index = post[p].index),
         UNCHANGED <<conversation, turns, context, crossed, posted>>,
         runLog' \subseteq Rows
  PROVE  TurnsInv'
  <1>1. post'[p] = r /\ \A q \in Poster \ {p} : post'[q] = post[q]
    BY DEF TurnsInv, TurnsTyped
  <1>2. /\ Rows' = Rows /\ Answered' = Answered
        /\ \A q \in Poster : Busy(q)' => /\ Busy(q)
                                         /\ post'[q].id = post[q].id /\ post'[q].index = post[q].index
                                         /\ post'[q].pc = "insert" => post'[q] = post[q]
    BY <1>1 DEF Rows, Answered, Busy
  <1>3. TurnsTyped'
    BY <1>1, <1>2 DEF TurnsInv, TurnsTyped
  <1>4. IndexBelow' /\ PostsCross' /\ ClosedIsEmpty' /\ ContextAnswered'
    BY <1>2 DEF TurnsInv, IndexBelow, PostsCross, ClosedIsEmpty, ContextAnswered
  <1>5. PostComesLast'
    BY <1>2 DEF TurnsInv, PostComesLast, Busy
  <1>6. PostSees'
    BY <1>2 DEF TurnsInv, PostSees, Outside, Busy
  <1>7. TurnOrder' /\ SeesLatestAnswers'
    BY <1>2 DEF TurnsInv, TurnOrder, SeesLatestAnswers
  <1> QED BY <1>3, <1>4, <1>5, <1>6, <1>7 DEF TurnsInv

LEMMA ReadHistoryStep ==
  ASSUME TurnsInv, NEW p \in Poster, ReadHistory(p)
  PROVE  TurnsInv'
  <1> DEFINE others == {q \in Poster \ {p} : post[q].pc # "idle"}
             id == posted + 1
             r(s) == [pc |-> "insert", id |-> id, index |-> NextIndex, prior |-> s, answer |-> FALSE]
  <1>0. TurnsTyped /\ posted \in Nat /\ id \in TurnId /\ posted + 1 <= MaxTurns /\ MaxTurns \in Nat
    BY ConversationAssumption DEF TurnsInv, TurnsTyped, ReadHistory, TurnId
  <1>1. PICK s \in LatestAnswered(Window) :
          /\ post' = [post EXCEPT ![p] = r(s)]
          /\ crossed' = IF others = {} THEN crossed
                        ELSE crossed \cup {id} \cup {post[q].id : q \in others}
          /\ context' = [context EXCEPT ![id] = s]
    BY DEF ReadHistory
  <1>2. /\ UNCHANGED <<conversation, turns, runLog>> /\ Rows' = Rows /\ Answered' = Answered
        /\ conversation = "open" /\ posted' = id
    BY DEF ReadHistory, Rows, Answered
  <1>3. s \subseteq Answered /\ Answered \subseteq Rows /\ Rows \subseteq 1..posted /\ s \subseteq TurnId
    BY <1>0 DEF LatestAnswered, Answered, TurnsTyped, TurnId
  <1>4. NextIndex \in Nat /\ NextIndex <= posted /\ \A t \in Rows : turns[t].index < NextIndex
    BY <1>0, NextIndexAbove DEF TurnsInv
  <1>5. r(s) \in PostRecord /\ r(s).pc = "insert" /\ r(s).id = id /\ r(s).index = NextIndex
    BY <1>0, <1>3, <1>4 DEF PostRecord, TurnId
  <1>6. post'[p] = r(s) /\ \A q \in Poster \ {p} : post'[q] = post[q]
    BY <1>0, <1>1 DEF TurnsTyped
  <1> HIDE DEF r
  <1>7. /\ crossed \subseteq crossed'
        /\ \A q \in Poster \ {p} : Busy(q) => {id, post[q].id} \subseteq crossed'
    BY <1>1 DEF Busy
  <1>8. crossed' \subseteq 1..id
    <2>1. \A q \in others : post[q].id \in 1..posted
      BY <1>0 DEF TurnsTyped, Busy
    <2>2. {post[q].id : q \in others} \subseteq 1..id
      BY <1>0, <2>1
    <2>3. crossed \subseteq 1..id
      BY <1>0 DEF TurnsTyped
    <2>4. id \in 1..id
      BY <1>0
    <2>5. CASE others = {}
      BY <1>1, <2>3, <2>5
    <2>6. CASE others # {}
      BY <1>1, <2>2, <2>3, <2>4, <2>6
    <2> QED BY <2>5, <2>6
  <1>9. context'[id] = s /\ \A t \in TurnId \ {id} : context'[t] = context[t]
    BY <1>0, <1>1 DEF TurnsTyped
  <1>10. TurnsTyped'
    <2>1. post' \in [Poster -> PostRecord] /\ context' \in [TurnId -> SUBSET TurnId]
      BY <1>0, <1>1, <1>3, <1>5 DEF TurnsTyped
    <2>2. \A q \in Poster : Busy(q)' => post'[q].id \in 1..id
      BY <1>0, <1>5, <1>6 DEF TurnsTyped, Busy
    <2> QED BY <1>0, <1>2, <1>8, <2>1, <2>2 DEF TurnsTyped
  <1>11. IndexBelow'
    BY <1>0, <1>2, <1>4, <1>5, <1>6 DEF TurnsInv, IndexBelow, Busy
  <1>12. PostsCross'
    <2>1. \A q \in Poster : Busy(q) => post[q].id # id
      BY <1>0 DEF TurnsTyped
    <2> QED BY <1>5, <1>6, <1>7, <2>1 DEF TurnsInv, PostsCross, Busy
  <1>13. PostComesLast'
    <2>1. \A t \in Rows : t < id /\ t # id
      BY <1>0, <1>3
    <2> QED BY <1>2, <1>4, <1>5, <1>6, <1>7, <2>1 DEF TurnsInv, PostComesLast, Busy
  <1>14. ClosedIsEmpty' /\ ContextAnswered'
    BY <1>2, <1>3, <1>9 DEF TurnsInv, ClosedIsEmpty, ContextAnswered
  <1>15. PostSees'
    <2> SUFFICES ASSUME NEW q \in Poster, post'[q].pc = "insert", post'[q].id \notin crossed',
                        NEW u \in Answered \ context'[post'[q].id]
                 PROVE  Outside(post[q].id, u)'
      BY <1>2 DEF PostSees
    <2>1. q = p
      BY <1>6, <1>7 DEF Busy
    <2>2. u \in Answered \ s /\ post'[q].id = id
      BY <1>5, <1>6, <1>9, <2>1
    <2>3. Cardinality(s) = Window /\ \A t \in s : turns[t].index >= turns[u].index
      BY <1>0, <2>2, WindowIsLatest
    <2> QED BY <1>2, <1>9, <2>2, <2>3 DEF Outside
  <1>16. TurnOrder'
    BY <1>2, <1>7 DEF TurnsInv, TurnOrder
  <1>17. SeesLatestAnswers'
    <2>1. \A t \in Rows : context'[t] = context[t]
      <3>1. \A t \in 1..posted : t \in TurnId \ {id}
        BY <1>0 DEF TurnId
      <3> QED BY <1>3, <1>9, <3>1
    <2> QED BY <1>2, <1>7, <2>1 DEF TurnsInv, SeesLatestAnswers
  <1> QED BY <1>10, <1>11, <1>12, <1>13, <1>14, <1>15, <1>16, <1>17 DEF TurnsInv

LEMMA InsertTurnStep ==
  ASSUME TurnsInv, NEW p \in Poster, InsertTurn(p)
  PROVE  TurnsInv'
  <1> DEFINE id == post[p].id
             r == [post[p] EXCEPT !.pc = "retrieve"]
  <1>0. TurnsTyped /\ post[p] \in PostRecord /\ Busy(p) /\ post[p].pc = "insert"
    BY DEF TurnsInv, TurnsTyped, InsertTurn, Busy
  <1>1. /\ UNCHANGED <<conversation, runLog, context, crossed, posted>>
        /\ conversation = "open" /\ Rows' = Rows \cup {id}
        /\ turns'[id] = [index |-> post[p].index, answer |-> "null"]
        /\ \A t \in Rows \ {id} : turns'[t] = turns[t]
    BY DEF InsertTurn, Rows
  <1>2. id \notin Rows /\ id \in 1..posted
    BY <1>0 DEF TurnsInv, PostComesLast, TurnsTyped
  <1>3. Answered' = Answered /\ \A u \in Answered : u \in Rows /\ turns'[u] = turns[u]
    BY <1>1, <1>2 DEF Answered
  <1>4. r \in PostRecord /\ r.pc = "retrieve" /\ r.id = id /\ r.index = post[p].index
    BY <1>0 DEF PostRecord
  <1>5. post'[p] = r /\ \A q \in Poster \ {p} : post'[q] = post[q]
    BY <1>0 DEF InsertTurn, TurnsTyped
  <1>6. post' \in [Poster -> PostRecord]
    BY <1>0, <1>4 DEF InsertTurn, TurnsTyped
  <1> HIDE DEF r
  <1>7. TurnsTyped'
    <2>0. "null" \in AnswerText
      BY Zenon DEF AnswerText
    <2>1. \A t \in Rows' : turns'[t] \in [index : Nat, answer : AnswerText]
      BY <1>0, <1>1, <1>2, <2>0 DEF TurnsTyped, PostRecord
    <2>2. \A q \in Poster : Busy(q)' => post'[q].id \in 1..posted
      BY <1>0, <1>2, <1>4, <1>5 DEF TurnsTyped, Busy
    <2> QED BY <1>0, <1>1, <1>2, <1>6, <2>1, <2>2 DEF TurnsTyped
  <1>8. IndexBelow'
    BY <1>0, <1>1, <1>2, <1>4, <1>5 DEF TurnsInv, IndexBelow, Busy
  <1>9. PostsCross'
    BY <1>0, <1>1, <1>4, <1>5 DEF TurnsInv, PostsCross, Busy
  <1>10. PostComesLast'
    <2> SUFFICES ASSUME NEW q \in Poster, Busy(q)'
                 PROVE  /\ \A t \in Rows' \ {post'[q].id} :
                             \/ t < post'[q].id /\ turns'[t].index < post'[q].index
                             \/ {t, post'[q].id} \subseteq crossed
                        /\ post'[q].pc = "insert" => post'[q].id \notin Rows'
                        /\ post'[q].id \in Rows' =>
                             /\ turns'[post'[q].id].index = post'[q].index
                             /\ turns'[post'[q].id].answer = "null"
      BY <1>1 DEF PostComesLast
    <2>1. CASE q = p
      BY <1>0, <1>1, <1>2, <1>4, <1>5, <2>1 DEF TurnsInv, PostComesLast
    <2>2. CASE q # p
      <3>1. Busy(q) /\ post'[q] = post[q] /\ id # post[q].id /\ {id, post[q].id} \subseteq crossed
        BY <1>0, <1>5, <2>2 DEF TurnsInv, PostsCross, Busy
      <3> QED BY <1>1, <1>2, <3>1 DEF TurnsInv, PostComesLast
    <2> QED BY <2>1, <2>2
  <1>11. ClosedIsEmpty' /\ ContextAnswered'
    BY <1>1, <1>3 DEF TurnsInv, ClosedIsEmpty, ContextAnswered
  <1>12. \A t \in TurnId, u \in Answered : Outside(t, u) => Outside(t, u)'
    <2> SUFFICES ASSUME NEW t \in TurnId, NEW u \in Answered, Outside(t, u),
                        NEW s \in context[t] \cap Rows'
                 PROVE  turns'[s].index >= turns'[u].index
      BY <1>1 DEF Outside
    <2>1. s \in Answered
      BY <1>1 DEF TurnsInv, ContextAnswered
    <2> QED BY <1>3, <2>1 DEF Outside
  <1>13. 1..posted \subseteq TurnId /\ \A q \in Poster : Busy(q) => post[q].id \in TurnId
    BY <1>0, ConversationAssumption DEF TurnsTyped, TurnId
  <1>14. PostSees'
    <2> SUFFICES ASSUME NEW q \in Poster, post'[q].pc = "insert", post'[q].id \notin crossed,
                        NEW u \in Answered \ context[post'[q].id],
                        turns'[u].index < post'[q].index
                 PROVE  u \in crossed \/ Outside(post[q].id, u)'
      BY <1>1, <1>3 DEF PostSees
    <2>1. post'[q] = post[q] /\ Busy(q)
      BY <1>4, <1>5 DEF Busy
    <2> QED BY <1>3, <1>12, <1>13, <2>1 DEF TurnsInv, PostSees
  <1>15. TurnOrder'
    <2> SUFFICES ASSUME NEW t \in Rows', NEW u \in Rows',
                        \/ t # u /\ turns'[t].index = turns'[u].index
                        \/ t < u /\ turns'[t].index > turns'[u].index
                 PROVE  {t, u} \subseteq crossed
      BY <1>1 DEF TurnOrder
    <2>0. \A v \in Rows' : v \in Nat /\ turns'[v].index \in Nat
      BY <1>7 DEF TurnsTyped
    <2>1. ASSUME NEW v \in Rows
          PROVE  (v < id /\ turns'[v].index < turns'[id].index) \/ {v, id} \subseteq crossed
      <3>1. v # id
        BY <1>2
      <3> QED BY <1>0, <1>1, <3>1 DEF TurnsInv, PostComesLast
    <2>2. CASE t \in Rows /\ u \in Rows
      <3>1. t # id /\ u # id
        BY <1>2, <2>2
      <3> QED BY <1>1, <2>2, <3>1 DEF TurnsInv, TurnOrder
    <2>3. CASE t = id \/ u = id
      <3>1. t # u
        BY <2>0
      <3> QED BY <1>1, <2>0, <2>1, <2>3, <3>1
    <2> QED BY <1>1, <2>2, <2>3
  <1>16. SeesLatestAnswers'
    <2> SUFFICES ASSUME NEW t \in Rows'
                 PROVE  /\ context[t] \cap Rows' \subseteq Answered
                        /\ t \notin crossed => \A u \in Answered \ (context[t] \cup {t}) :
                             turns'[u].index < turns'[t].index => u \in crossed \/ Outside(t, u)'
      BY <1>1, <1>3 DEF SeesLatestAnswers, Outside
    <2>1. t \in TurnId
      BY <1>1, <1>7, <1>13 DEF TurnsTyped
    <2>2. context[t] \subseteq Answered
      BY <1>1, <2>1 DEF TurnsInv, ContextAnswered
    <2>3. ASSUME t \notin crossed, NEW u \in Answered \ (context[t] \cup {t}),
                 turns'[u].index < turns'[t].index
          PROVE  u \in crossed \/ Outside(t, u)'
      <3>1. CASE t = id
        <4>1. turns[u].index < post[p].index
          BY <1>1, <1>3, <2>3, <3>1
        <4> QED BY <1>0, <1>12, <2>1, <2>3, <3>1, <4>1 DEF TurnsInv, PostSees
      <3>2. CASE t # id
        <4>1. t \in Rows /\ turns[u].index < turns[t].index
          BY <1>1, <1>3, <2>3, <3>2
        <4>2. u \in crossed \/ Outside(t, u)
          BY <2>3, <4>1 DEF TurnsInv, SeesLatestAnswers, Outside
        <4> QED BY <1>12, <2>1, <4>2
      <3> QED BY <3>1, <3>2
    <2> QED BY <2>2, <2>3
  <1> QED BY <1>7, <1>8, <1>9, <1>10, <1>11, <1>14, <1>15, <1>16 DEF TurnsInv

LEMMA WriteAnswerStep ==
  ASSUME TurnsInv, NEW p \in Poster, WriteAnswer(p)
  PROVE  TurnsInv'
  <1> DEFINE id == post[p].id
  <1>0. TurnsTyped /\ post[p] \in PostRecord /\ Busy(p) /\ PostAtRest \in PostRecord
    BY DEF TurnsInv, TurnsTyped, WriteAnswer, Busy, PostRecord, PostAtRest
  <1>1. /\ UNCHANGED <<conversation, runLog, context, crossed, posted>>
        /\ post' = [post EXCEPT ![p] = PostAtRest]
    BY DEF WriteAnswer
  <1>2. Rows' = Rows
    BY DEF WriteAnswer, Rows
  <1>3. \A t \in Rows : /\ turns'[t].index = turns[t].index
                        /\ t # id => turns'[t] = turns[t]
                        /\ turns'[t] \in [index : Nat, answer : AnswerText]
    <2> DEFINE a == IF post[p].answer THEN "text" ELSE ""
    <2>1. a \in AnswerText
      BY Zenon DEF AnswerText
    <2>2. turns' = [t \in Rows |-> IF t = id THEN [turns[t] EXCEPT !.answer = a] ELSE turns[t]]
      BY DEF WriteAnswer
    <2> HIDE DEF a
    <2> QED BY <1>0, <2>1, <2>2 DEF TurnsTyped
  <1>4. /\ \A q \in Poster : Busy(q)' => q # p /\ post'[q] = post[q] /\ Busy(q)
        /\ post' \in [Poster -> PostRecord]
    BY <1>0, <1>1 DEF TurnsTyped, Busy, PostAtRest
  <1>5. Answered \subseteq Answered' /\ Answered' \subseteq Answered \cup {id} /\ Answered' \subseteq Rows
    <2>1. id \in Rows => turns[id].answer = "null"
      BY <1>0 DEF TurnsInv, PostComesLast
    <2> QED BY <1>2, <1>3, <2>1 DEF Answered
  <1>6. \A q \in Poster : Busy(q)' => post[q].id # id /\ {id, post[q].id} \subseteq crossed
    BY <1>0, <1>4 DEF TurnsInv, PostsCross
  <1>7. TurnsTyped'
    BY <1>0, <1>1, <1>2, <1>3, <1>4 DEF TurnsTyped
  <1>8. IndexBelow' /\ PostsCross' /\ ClosedIsEmpty'
    BY <1>1, <1>2, <1>3, <1>4 DEF TurnsInv, IndexBelow, PostsCross, ClosedIsEmpty
  <1>9. PostComesLast'
    <2> SUFFICES ASSUME NEW q \in Poster, Busy(q)'
                 PROVE  /\ \A t \in Rows \ {post[q].id} :
                             \/ t < post[q].id /\ turns'[t].index < post[q].index
                             \/ {t, post[q].id} \subseteq crossed
                        /\ post[q].pc = "insert" => post[q].id \notin Rows
                        /\ post[q].id \in Rows =>
                             turns'[post[q].id].index = post[q].index /\ turns'[post[q].id].answer = "null"
      BY <1>1, <1>2, <1>4 DEF PostComesLast
    <2>1. Busy(q) /\ post[q].id # id
      BY <1>4, <1>6
    <2> QED BY <1>3, <2>1 DEF TurnsInv, PostComesLast
  <1>10. ContextAnswered'
    BY <1>1, <1>5 DEF TurnsInv, ContextAnswered
  <1>11. PostSees'
    BY <1>1, <1>4, <1>6 DEF PostSees, Busy
  <1>12. TurnOrder'
    <2>1. \A t \in Rows : turns'[t].index = turns[t].index
      BY <1>3
    <2> QED BY <1>1, <1>2, <2>1 DEF TurnsInv, TurnOrder
  <1>13. SeesLatestAnswers'
    <2> SUFFICES ASSUME NEW t \in Rows
                 PROVE  /\ context[t] \cap Rows \subseteq Answered'
                        /\ t \notin crossed => \A u \in Answered' \ (context[t] \cup {t}) :
                             turns'[u].index < turns'[t].index => u \in crossed \/ Outside(t, u)'
      BY <1>1, <1>2 DEF SeesLatestAnswers, Outside
    <2>1. context[t] \cap Rows \subseteq Answered'
      BY <1>5 DEF TurnsInv, SeesLatestAnswers
    <2>2. ASSUME t \notin crossed, NEW u \in Answered' \ (context[t] \cup {t}),
                 turns'[u].index < turns'[t].index
          PROVE  u \in crossed \/ Outside(t, u)'
      <3>1. CASE u \in Answered
        <4>1. turns[u].index < turns[t].index
          BY <1>3, <1>5, <2>2
        <4>2. u \in crossed \/ Outside(t, u)
          BY <2>2, <3>1, <4>1 DEF TurnsInv, SeesLatestAnswers, Outside
        <4> QED BY <1>1, <1>2, <1>3, <1>5, <4>2 DEF Outside
      <3>2. CASE u = id
        <4>1. id \in Rows /\ t # id /\ turns[id].index = post[p].index
          BY <1>0, <1>5, <2>2, <3>2 DEF TurnsInv, PostComesLast
        <4>2. turns[t].index < turns[id].index
          BY <1>0, <2>2, <4>1 DEF TurnsInv, PostComesLast
        <4>3. turns[t].index \in Nat /\ turns[id].index \in Nat
          BY <1>0, <4>1 DEF TurnsTyped
        <4>4. turns[id].index < turns[t].index
          BY <1>3, <2>2, <3>2, <4>1
        <4> QED BY <4>2, <4>3, <4>4
      <3> QED BY <1>5, <3>1, <3>2
    <2> QED BY <2>1, <2>2
  <1> QED BY <1>7, <1>8, <1>9, <1>10, <1>11, <1>12, <1>13 DEF TurnsInv

LEMMA NextTurns ==
  ASSUME TurnsInv, [ConversationNext]_conversationVars
  PROVE  TurnsInv'
  <1>1. CASE UNCHANGED conversationVars
    <2>1. /\ UNCHANGED <<conversation, turns, runLog, post, context, crossed, posted>>
          /\ Rows' = Rows /\ Answered' = Answered
      BY <1>1 DEF conversationVars, Rows, Answered
    <2>2. TurnsTyped' /\ IndexBelow' /\ PostsCross' /\ PostComesLast' /\ ClosedIsEmpty'
      BY <2>1 DEF TurnsInv, TurnsTyped, IndexBelow, PostsCross, PostComesLast, ClosedIsEmpty, Busy
    <2>3. ContextAnswered' /\ PostSees' /\ TurnOrder' /\ SeesLatestAnswers'
      BY <2>1 DEF TurnsInv, ContextAnswered, PostSees, TurnOrder, SeesLatestAnswers, Outside
    <2> QED BY <2>2, <2>3 DEF TurnsInv
  <1>2. CASE StartConversation
    <2>1. /\ UNCHANGED <<turns, runLog, post, context, crossed, posted>> /\ conversation' = "open"
          /\ Rows = {} /\ Answered' = Answered /\ Rows' = Rows
      BY <1>2 DEF TurnsInv, ClosedIsEmpty, StartConversation, Rows, Answered
    <2>2. conversation = "new"
      BY <1>2 DEF StartConversation
    <2>3. TurnsTyped' /\ IndexBelow' /\ PostsCross' /\ PostComesLast' /\ ClosedIsEmpty'
      BY <2>1 DEF TurnsInv, TurnsTyped, IndexBelow, PostsCross, PostComesLast, ClosedIsEmpty, Busy
    <2>4. ContextAnswered' /\ PostSees' /\ TurnOrder' /\ SeesLatestAnswers'
      BY <2>1, <2>2 DEF TurnsInv, ContextAnswered, PostSees, TurnOrder, SeesLatestAnswers, Outside
    <2> QED BY <2>3, <2>4 DEF TurnsInv
  <1>3. CASE WipeConversations
    <2>1. /\ UNCHANGED <<post, context, crossed, posted>> /\ conversation' = "gone"
          /\ Rows' = {} /\ runLog' = {}
      BY <1>3 DEF WipeConversations, Rows
    <2>2. Answered' = {}
      BY <2>1 DEF Answered
    <2>3. TurnsTyped' /\ IndexBelow' /\ PostsCross' /\ PostComesLast' /\ ClosedIsEmpty'
      BY <2>1 DEF TurnsInv, TurnsTyped, IndexBelow, PostsCross, PostComesLast, ClosedIsEmpty, Busy
    <2>4. ContextAnswered' /\ PostSees' /\ TurnOrder' /\ SeesLatestAnswers'
      BY <2>1, <2>2 DEF TurnsInv, ContextAnswered, PostSees, TurnOrder, SeesLatestAnswers
    <2> QED BY <2>3, <2>4 DEF TurnsInv
  <1>4. ASSUME NEW p \in Poster, Retrieve(p)
        PROVE  TurnsInv'
    <2>1. post[p] \in PostRecord /\ Busy(p) /\ post[p].pc = "retrieve"
      BY <1>4 DEF TurnsInv, TurnsTyped, Retrieve, Busy
    <2>2. PICK text \in BOOLEAN : post' = [post EXCEPT ![p].pc = "answer", ![p].answer = text]
      BY <1>4 DEF Retrieve
    <2> DEFINE r == [post[p] EXCEPT !.pc = "answer", !.answer = text]
    <2>3. post' = [post EXCEPT ![p] = r]
      BY <2>2 DEF TurnsInv, TurnsTyped
    <2>4. r \in PostRecord /\ r.pc = "answer" /\ r.id = post[p].id /\ r.index = post[p].index
      BY <2>1 DEF PostRecord
    <2> HIDE DEF r
    <2>5. UNCHANGED <<conversation, turns, context, crossed, posted>> /\ runLog' \subseteq Rows
      BY <1>4 DEF Retrieve, TurnsInv, TurnsTyped
    <2> QED BY <2>1, <2>3, <2>4, <2>5, PostStep
  <1>5. ASSUME NEW p \in Poster, StopPost(p)
        PROVE  TurnsInv'
    <2>1. PostAtRest \in PostRecord /\ PostAtRest.pc = "idle"
      BY DEF PostAtRest, PostRecord
    <2>2. /\ UNCHANGED <<conversation, turns, context, crossed, posted>> /\ runLog' \subseteq Rows
          /\ post' = [post EXCEPT ![p] = PostAtRest]
      BY <1>5 DEF StopPost, TurnsInv, TurnsTyped
    <2> QED BY <2>1, <2>2, PostStep
  <1> QED BY <1>1, <1>2, <1>3, <1>4, <1>5, ReadHistoryStep, InsertTurnStep, WriteAnswerStep
          DEF ConversationNext

LEMMA InitTurns == Init => TurnsInv
  <1>1. ConversationInit => /\ Rows = {} /\ Answered = {} /\ \A p \in Poster : ~Busy(p)
    BY DEF ConversationInit, Rows, Answered, Busy, PostAtRest
  <1>2. ConversationInit => TurnsTyped
    BY <1>1, ConversationAssumption DEF ConversationInit, TurnsTyped, PostRecord, PostAtRest
  <1>3. ConversationInit => conversation = "new"
    BY DEF ConversationInit
  <1>4. ConversationInit => \A t \in TurnId : context[t] = {}
    BY DEF ConversationInit
  <1> QED BY <1>1, <1>2, <1>3, <1>4 DEF Init, TurnsInv, IndexBelow, PostsCross, PostComesLast,
           ClosedIsEmpty, ContextAnswered, PostSees, TurnOrder, SeesLatestAnswers, Busy

\* A conversation replays in the order it was held and every turn was resolved
\* against the latest answers, for any number of posts and any window: only
\* posts that overlapped share an index or have missed one another.
THEOREM ConversationHolds == Spec => []ConversationInv
  <1>1. Init => TurnsInv
    BY InitTurns
  <1>2. [Next]_servicesVars => [ConversationNext]_conversationVars
    BY DEF Next, servicesVars
  <1>3. TurnsInv /\ [ConversationNext]_conversationVars => TurnsInv'
    BY NextTurns
  <1>4. TurnsInv => ConversationInv
    BY DEF TurnsInv, ConversationInv
  <1> QED BY <1>1, <1>2, <1>3, <1>4, PTL DEF Spec
=============================================================================
