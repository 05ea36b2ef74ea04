------------------------- MODULE AliasRefresh_proofs -------------------------
(***************************************************************************)
(* Proofs about AliasRefresh, for any pairs, kinds and processes.          *)
(***************************************************************************)
EXTENDS AliasRefresh, TLAPS

LEMMA AtRestType == AtRest \in ProcRecord
  BY DEF AtRest, ProcRecord, Verdict

\* A process that goes to rest breaks nothing the others rely on.
LEMMA ToRest ==
  ASSUME VerdictInv, NEW p \in Proc, Becomes(p, AtRest), corpus' \in SUBSET Minable,
         aliases' \in SUBSET Row, fresh' \in BOOLEAN, changes' \in Nat,
         verdict' \in [Pair -> Verdict],
         \A t \in Pair : verdict[t] # "none" => verdict'[t] # "none",
         \A r \in aliases' \ aliases : r[2] \in JudgedKind => verdict'[r[1]] # "none"
  PROVE  VerdictInv'
  <1>1. TypeOK'
    BY AtRestType DEF VerdictInv, TypeOK, Becomes
  <1>2. AliasHasVerdict'
    BY DEF VerdictInv, AliasHasVerdict, TypeOK, Row
  <1>3. \A q \in Proc : proc'[q] = AtRest \/ proc'[q] = proc[q]
    BY DEF VerdictInv, TypeOK, Becomes
  <1>4. \A q \in Proc : \A t \in Pair : proc'[q].known[t] # "none" => verdict'[t] # "none"
    BY <1>3 DEF VerdictInv, AtRest
  <1>5. \A q \in Proc : proc'[q].pc = "write" => Unjudged(q)' = {}
    BY <1>3 DEF VerdictInv, AtRest, Unjudged
  <1> QED BY <1>1, <1>2, <1>4, <1>5 DEF VerdictInv

LEMMA InitVerdict == Init => VerdictInv
  <1> SUFFICES ASSUME Init PROVE VerdictInv
    OBVIOUS
  <1>1. \A p \in Proc : proc[p] = AtRest
    BY DEF Init
  <1>2. TypeOK
    <2>1. proc \in [Proc -> ProcRecord]
      BY AtRestType DEF Init
    <2>2. verdict \in [Pair -> Verdict]
      BY DEF Init, Verdict
    <2> QED BY <2>1, <2>2 DEF Init, TypeOK
  <1>3. AliasHasVerdict
    BY DEF Init, AliasHasVerdict
  <1>4. \A p \in Proc : \A t \in Pair : proc[p].known[t] = "none"
    BY <1>1 DEF AtRest
  <1>5. \A p \in Proc : proc[p].pc = "idle"
    BY <1>1 DEF AtRest
  <1> QED BY <1>2, <1>3, <1>4, <1>5 DEF VerdictInv

LEMMA NextVerdict ==
  ASSUME VerdictInv, [Next]_vars
  PROVE  VerdictInv'
  <1> USE DEF VerdictInv
  <1>t. TypeOK
    OBVIOUS
  <1>1. CASE CorpusChanges
    <2>1. UNCHANGED <<aliases, verdict, proc>>
      BY <1>1 DEF CorpusChanges
    <2>2. corpus' \in SUBSET Minable
      BY <1>1 DEF CorpusChanges
    <2>4. fresh' \in BOOLEAN
      BY <1>1 DEF CorpusChanges
    <2>5. changes' \in Nat
      BY <1>1 DEF CorpusChanges, TypeOK
    <2>3. TypeOK'
      BY <2>1, <2>2, <2>4, <2>5, <1>t DEF TypeOK
    <2> QED BY <2>1, <2>3 DEF AliasHasVerdict, Unjudged
  <1>2. CASE InsertManual
    <2>1. PICK m \in Pair : aliases' = aliases \cup {<<m, "manual">>}
      BY <1>2, AliasAssumption DEF InsertManual
    <2>2. UNCHANGED <<corpus, verdict, proc, fresh, changes>>
      BY <1>2 DEF InsertManual
    <2>3. TypeOK'
      BY <2>1, <2>2 DEF TypeOK, Row
    <2>4. AliasHasVerdict'
      BY <2>1, <2>2 DEF AliasHasVerdict, JudgedKind
    <2> QED BY <2>2, <2>3, <2>4 DEF Unjudged
  <1>3. ASSUME NEW p \in Proc, ScanChunks(p) PROVE VerdictInv'
    <2>1. PICK sample \in BOOLEAN, found \in SUBSET FromText(corpus) :
            Becomes(p, [proc[p] EXCEPT !.pc = "annotations", !.mined = found, !.sample = sample])
      BY <1>3 DEF ScanChunks
    <2>2. UNCHANGED <<corpus, aliases, verdict, fresh, changes>>
      BY <1>3 DEF ScanChunks
    <2>3. /\ proc' \in [Proc -> ProcRecord]
          /\ proc'[p].pc = "annotations" /\ proc'[p].known = proc[p].known
          /\ \A q \in Proc \ {p} : proc'[q] = proc[q]
      BY <2>1 DEF TypeOK, Becomes, ProcRecord, FromText
    <2> QED BY <2>2, <2>3 DEF TypeOK, AliasHasVerdict, Unjudged
  <1>4. ASSUME NEW p \in Proc, ScanAnnotations(p) PROVE VerdictInv'
    <2>1. CASE Becomes(p, AtRest)
      BY <1>4, <2>1, ToRest DEF ScanAnnotations, TypeOK
    <2>2. CASE ~Becomes(p, AtRest)
      <3>1. PICK mined : /\ mined = proc[p].mined \cup (corpus \ FromText(corpus))
                         /\ Becomes(p, [proc[p] EXCEPT !.pc = "load", !.mined = mined])
        BY <1>4, <2>2 DEF ScanAnnotations
      <3>2. UNCHANGED <<corpus, aliases, verdict, fresh, changes>>
        BY <1>4, <2>2 DEF ScanAnnotations
      <3>3. /\ proc' \in [Proc -> ProcRecord]
            /\ proc'[p].pc = "load" /\ proc'[p].known = proc[p].known
            /\ \A q \in Proc \ {p} : proc'[q] = proc[q]
        BY <3>1 DEF TypeOK, Becomes, ProcRecord
      <3> QED BY <3>2, <3>3 DEF TypeOK, AliasHasVerdict, Unjudged
    <2> QED BY <2>1, <2>2
  <1>5. ASSUME NEW p \in Proc, LoadVerdicts(p) PROVE VerdictInv'
    <2>1. /\ proc' \in [Proc -> ProcRecord]
          /\ proc'[p].pc = "judge" /\ proc'[p].known = verdict
          /\ \A q \in Proc \ {p} : proc'[q] = proc[q]
      BY <1>5 DEF LoadVerdicts, TypeOK, Becomes, ProcRecord
    <2>2. UNCHANGED <<corpus, aliases, verdict, fresh, changes>>
      BY <1>5 DEF LoadVerdicts
    <2> QED BY <2>1, <2>2 DEF TypeOK, AliasHasVerdict, Unjudged
  <1>6. ASSUME NEW p \in Proc, Judge(p) PROVE VerdictInv'
    <2>1. PICK answered \in SUBSET Unjudged(p) : \E said \in [answered -> {"same", "different"}] :
            /\ verdict' = [t \in Pair |-> IF t \in answered THEN said[t] ELSE verdict[t]]
            /\ \/ Becomes(p, AtRest)
               \/ /\ answered = Unjudged(p)
                  /\ Becomes(p, [proc[p] EXCEPT !.pc = "write",
                       !.known = [t \in Pair |-> IF t \in answered THEN said[t] ELSE @[t]]])
      BY <1>6 DEF Judge
    <2>2. PICK said \in [answered -> {"same", "different"}] :
            /\ verdict' = [t \in Pair |-> IF t \in answered THEN said[t] ELSE verdict[t]]
            /\ \/ Becomes(p, AtRest)
               \/ /\ answered = Unjudged(p)
                  /\ Becomes(p, [proc[p] EXCEPT !.pc = "write",
                       !.known = [t \in Pair |-> IF t \in answered THEN said[t] ELSE @[t]]])
      BY <2>1
    <2>3. verdict' \in [Pair -> Verdict]
      BY <2>2 DEF TypeOK, Verdict
    <2>4. \A t \in Pair : /\ verdict[t] # "none" => verdict'[t] # "none"
                          /\ t \in answered => verdict'[t] # "none"
      BY <2>2
    <2>5. UNCHANGED <<corpus, aliases, fresh, changes>>
      BY <1>6 DEF Judge
    <2>6. CASE Becomes(p, AtRest)
      BY <2>3, <2>4, <2>5, <2>6, ToRest DEF TypeOK
    <2>7. CASE ~Becomes(p, AtRest)
      <3> DEFINE known == [t \in Pair |-> IF t \in answered THEN said[t] ELSE proc[p].known[t]]
      <3>1. answered = Unjudged(p) /\ Becomes(p, [proc[p] EXCEPT !.pc = "write", !.known = known])
        BY <2>2, <2>7
      <3>2. known \in [Pair -> Verdict]
        BY DEF TypeOK, ProcRecord, Verdict
      <3>3. \A t \in Pair : known[t] # "none" => verdict'[t] # "none"
        BY <2>4
      <3>4. \A t \in Unjudged(p) : known[t] # "none"
        BY <3>1 DEF Unjudged
      <3> HIDE DEF known
      <3>5. /\ proc' \in [Proc -> ProcRecord]
            /\ proc'[p].pc = "write" /\ proc'[p].known = known /\ proc'[p].mined = proc[p].mined
            /\ \A q \in Proc \ {p} : proc'[q] = proc[q]
        BY <3>1, <3>2 DEF TypeOK, Becomes, ProcRecord
      <3>6. Unjudged(p)' = {}
        BY <3>4, <3>5 DEF Unjudged, known
      <3>7. AliasHasVerdict'
        BY <2>4, <2>5 DEF AliasHasVerdict, TypeOK, Row
      <3> QED BY <2>3, <2>4, <2>5, <3>3, <3>5, <3>6, <3>7 DEF TypeOK, Unjudged
    <2> QED BY <2>6, <2>7
  <1>7. ASSUME NEW p \in Proc, Write(p) PROVE VerdictInv'
    <2>1. proc[p] \in ProcRecord /\ proc[p].pc = "write"
      BY <1>7 DEF Write, TypeOK
    <2>2. Kept(p) \subseteq Minable
      BY <2>1 DEF Kept, ProcRecord
    <2>3. Minable \subseteq Row
      BY AliasAssumption DEF Row
    <2>4. ASSUME NEW r \in Kept(p), r[2] \in JudgedKind
          PROVE  verdict[r[1]] # "none"
      <3>1. r[1] \in Pair
        BY <2>2, <2>3 DEF Row
      <3>2. proc[p].known[r[1]] # "none"
        BY <2>4 DEF Kept
      <3> QED BY <3>1, <3>2
    <2>5. /\ Becomes(p, AtRest) /\ aliases' \subseteq aliases \cup Kept(p)
          /\ fresh' \in BOOLEAN /\ UNCHANGED <<corpus, verdict, changes>>
      BY <1>7 DEF Write
    <2> QED BY <2>2, <2>3, <2>4, <2>5, ToRest DEF TypeOK
  <1>8. ASSUME NEW p \in Proc, Crash(p) PROVE VerdictInv'
    BY <1>8, ToRest DEF Crash, TypeOK
  <1>9. CASE UNCHANGED vars
    BY <1>9 DEF vars, TypeOK, AliasHasVerdict, Unjudged
  <1> QED BY <1>1, <1>2, <1>3, <1>4, <1>5, <1>6, <1>7, <1>8, <1>9 DEF Next

\* What a refresh knows is in the cache, and one that is about to write knows a
\* verdict for every judged pair it has mined, wherever refreshes stop.
THEOREM VerdictsFirst == Spec => []VerdictInv
  <1>1. VerdictInv /\ [Next]_vars => VerdictInv'
    BY NextVerdict
  <1> QED BY InitVerdict, <1>1, PTL DEF Spec

\* No pair read off the text is in term_aliases without a cached verdict: the
\* verdicts are committed before the aliases, and are never taken back.
THEOREM FailClosed == Spec => []AliasHasVerdict
  <1>1. VerdictInv => AliasHasVerdict
    BY DEF VerdictInv
  <1> QED BY VerdictsFirst, <1>1, PTL

\* A refresh removes mined rows only: what an operator has inserted stays.
THEOREM CuratedRowsStay == Spec => ManualSurvives
  <1>1. ASSUME [Next]_vars PROVE aliases \cap Manual \subseteq aliases'
    <2>1. ASSUME NEW p \in Proc, Write(p) PROVE aliases \cap Manual \subseteq aliases'
      BY <2>1 DEF Write, Pruned, Manual
    <2>2. CASE Next
      BY <2>1, <2>2 DEF Next, CorpusChanges, InsertManual, ScanChunks, ScanAnnotations,
         LoadVerdicts, Judge, Crash
    <2> QED BY <1>1, <2>2 DEF vars
  <1>2. [Next]_vars => [aliases \cap Manual \subseteq aliases']_vars
    BY <1>1
  <1> QED BY <1>2, PTL DEF Spec, ManualSurvives

-----------------------------------------------------------------------------
\* A write makes the table fresh only when it was made from the whole of the
\* present corpus; every other step leaves the mined rows, or fresh, alone.
LEMMA NextLingers ==
  ASSUME TypeOK, NothingLingers, [Next]_vars
  PROVE  NothingLingers'
  <1>1. ASSUME NEW p \in Proc, Write(p) PROVE NothingLingers'
    <2> SUFFICES ASSUME fresh' PROVE Mirrors(corpus)'
      BY DEF NothingLingers
    <2>1. proc[p].mined = corpus /\ ~proc[p].sample /\ corpus' = corpus
      BY <1>1 DEF Write
    <2>2. corpus \subseteq Row \ Manual
      BY AliasAssumption DEF TypeOK, Row, Manual, MinedKind
    <2>3. aliases' = (aliases \cup Kept(p)) \ ((Row \ Manual) \ Kept(p))
      BY <1>1, <2>1 DEF Write, Pruned
    <2>4. Kept(p) \subseteq corpus /\ corpus \ Judged(corpus) \subseteq Kept(p)
      BY <2>1 DEF Kept, Judged
    <2>5. aliases' \ Manual \subseteq corpus
      BY <2>2, <2>3, <2>4 DEF TypeOK
    <2>6. corpus \ Judged(corpus) \subseteq aliases'
      BY <2>2, <2>3, <2>4
    <2> QED BY <2>1, <2>5, <2>6 DEF Mirrors, Judged
  <1>2. CASE InsertManual
    <2>1. PICK m : aliases' = aliases \cup {<<m, "manual">>} /\ m \in Pair
      BY <1>2, AliasAssumption DEF InsertManual
    <2>2. <<m, "manual">> \in Manual
      BY <2>1 DEF Manual, Row
    <2>3. aliases' \ Manual = aliases \ Manual
      BY <2>1, <2>2
    <2> QED BY <1>2, <2>1, <2>3 DEF InsertManual, NothingLingers, Mirrors, Judged
  <1>3. CASE CorpusChanges
    BY <1>3 DEF CorpusChanges, NothingLingers
  <1>4. ASSUME NEW p \in Proc, ScanAnnotations(p) PROVE NothingLingers'
    <2>1. UNCHANGED <<aliases, corpus>> /\ (UNCHANGED fresh \/ fresh' = (~proc[p].sample /\ corpus = {}))
      BY <1>4 DEF ScanAnnotations
    <2> QED BY <2>1 DEF NothingLingers, Mirrors, Judged
  <1>5. ASSUME NEW p \in Proc, ScanChunks(p) \/ LoadVerdicts(p) \/ Judge(p) \/ Crash(p)
        PROVE  NothingLingers'
    BY <1>5 DEF ScanChunks, LoadVerdicts, Judge, Crash, NothingLingers, Mirrors, Judged
  <1>6. CASE UNCHANGED vars
    BY <1>6 DEF vars, NothingLingers, Mirrors, Judged
  <1> QED BY <1>1, <1>2, <1>3, <1>4, <1>5, <1>6 DEF Next

\* After a full refresh of the present corpus term_aliases holds nothing that
\* the corpus does not state, and every annotation pair it does, until a refresh
\* that had scanned another corpus writes.
THEOREM NothingStaysBehind == Spec => []NothingLingers
  <1>1. Init => NothingLingers
    BY DEF Init, NothingLingers
  <1>2. VerdictInv => TypeOK
    BY DEF VerdictInv
  <1>3. TypeOK /\ NothingLingers /\ [Next]_vars => NothingLingers'
    BY NextLingers
  <1> QED BY VerdictsFirst, <1>1, <1>2, <1>3, PTL DEF Spec

=============================================================================
