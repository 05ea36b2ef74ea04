------------------------ MODULE Build_stages_proofs ------------------------
(***************************************************************************)
(* Proofs about the other parts of Build: the relations of a batch, the    *)
(* tables of a PDF, the calls of the models, the names of entities and the *)
(* pairwise deduplication, shown to implement Consolidation; and the types *)
(* of all parts, from the invariants proved here and in Build_proofs.      *)
(***************************************************************************)
EXTENDS Build_proofs

-----------------------------------------------------------------------------
(***************************************************************************)
(* Relations                                                               *)
(***************************************************************************)
RelStep == {"between", "pass1", "gap", "orphan", "rescue", "verify"}
CheckedRow == [chunk : 1..NRelChunks, claim : Claim]
EdgeRow == [t : Triple, chunks : SUBSET (1..NRelChunks), relaxed : BOOLEAN]

\* What is claimed of chunk n, at whatever step: no loop, and typed unless it is marked.
Sound(n, c) == c \in Claim /\ c.t.s # c.t.o /\ (c.relaxed \/ Fits(n, c.t))

RelationsHold ==
  /\ chunkAt \in 0..NRelChunks /\ relStep \in RelStep
  /\ relStep # "between" => chunkAt # 0
  /\ relStep \in {"between", "pass1"} => claims = {} /\ rejects = {}
  /\ rejects \in SUBSET (Linked \X Linked)
  /\ \A c \in claims : Sound(chunkAt, c)
  /\ \A c \in checked : c \in CheckedRow /\ c.chunk <= chunkAt /\ Sound(c.chunk, c.claim)
  /\ \A e \in edges : /\ e \in EdgeRow /\ e.t.s # e.t.o /\ e.chunks # {}
                      /\ e.relaxed \/ \E n \in e.chunks : Fits(n, e.t)
  /\ \A e, f \in edges : e.t = f.t => e = f

LEMMA RelationsShow ==
  ASSUME RelationsHold
  PROVE  RelationsTypeOK
  <1>1. claims \subseteq Claim /\ \A c \in checked : c.chunk \in 1..chunkAt /\ c.claim \in Claim
    BY RelationsAssumption DEF RelationsHold, Sound, CheckedRow
  <1> QED BY <1>1 DEF RelationsHold, RelationsTypeOK, RelStep, EdgeRow

LEMMA RelationsStart ==
  ASSUME RelationsInit
  PROVE  RelationsHold
  BY RelationsAssumption DEF RelationsInit, RelationsHold, RelStep

LEMMA FlipIs ==
  ASSUME NEW t \in Triple
  PROVE  Flip(t) \in Triple /\ Flip(t).s = t.o /\ Flip(t).o = t.s /\ Flip(t).p = t.p /\ Flip(Flip(t)) = t
  BY DEF Flip, Triple

LEMMA ClaimIs ==
  ASSUME NEW t \in Triple, NEW b \in BOOLEAN
  PROVE  [t |-> t, relaxed |-> b] \in Claim
  <1>1. PICK c : c = [t |-> t, relaxed |-> b]
    OBVIOUS
  <1> HIDE DEF Triple
  <1>2. \E x \in Triple, y \in BOOLEAN : c = [t |-> x, relaxed |-> y]
    BY <1>1
  <1>3. c \in Claim
    BY <1>2 DEF Claim
  <1> QED BY <1>1, <1>3

LEMMA StartChunkHolds ==
  ASSUME RelationsHold, StartChunk
  PROVE  RelationsHold'
  <1>1. /\ relStep = "between" /\ chunkAt < NRelChunks /\ chunkAt' = chunkAt + 1 /\ relStep' \in {"between", "pass1"}
        /\ UNCHANGED <<claims, rejects, checked, edges>>
    BY DEF StartChunk
  <1>2. chunkAt \in Nat /\ chunkAt' \in 0..NRelChunks /\ chunkAt' # 0 /\ chunkAt <= chunkAt'
    BY <1>1, RelationsAssumption DEF RelationsHold
  <1>3. claims = {} /\ rejects = {}
    BY <1>1 DEF RelationsHold
  <1>4. \A c \in checked : c \in CheckedRow /\ c.chunk <= chunkAt' /\ Sound(c.chunk, c.claim)
    BY <1>1, <1>2, RelationsAssumption DEF RelationsHold, CheckedRow
  <1> QED BY <1>1, <1>2, <1>3, <1>4 DEF RelationsHold, RelStep

LEMMA TakeHolds ==
  ASSUME RelationsHold, relStep # "between", NEW menu, NEW said \in Reply(menu), NEW step2 \in {"gap", "orphan", "rescue"}, Take(said, step2)
  PROVE  RelationsHold'
  <1>1. /\ \E good \in Added(Gated(said)) : claims' = claims \cup {[t |-> t, relaxed |-> FALSE] : t \in good}
        /\ rejects' = rejects \cup Refused(said) /\ relStep' = step2 /\ UNCHANGED <<chunkAt, checked, edges>>
    BY DEF Take
  <1>2. \A t \in said : t \in Triple /\ t.s # t.o
    BY DEF Reply, Said
  <1>3. \A t \in Gated(said) : t \in Triple /\ t.s # t.o /\ Fits(chunkAt, t)
    BY <1>2, FlipIs DEF Gated
  <1>4. PICK good \in SUBSET Gated(said) : claims' = claims \cup {[t |-> t, relaxed |-> FALSE] : t \in good}
    BY <1>1 DEF Added
  <1>5. \A c \in claims' : Sound(chunkAt, c)
    <2>1. ASSUME NEW t \in good PROVE Sound(chunkAt, [t |-> t, relaxed |-> FALSE])
      <3>1. PICK c : c = [t |-> t, relaxed |-> FALSE]
        OBVIOUS
      <3>2. t \in Triple /\ t.s # t.o /\ Fits(chunkAt, t)
        BY <1>3, <1>4
      <3>3. c \in Claim /\ c.t = t /\ c.relaxed = FALSE
        <4>1. PICK b \in BOOLEAN : b = FALSE
          OBVIOUS
        <4>2. c = [t |-> t, relaxed |-> b]
          BY <3>1, <4>1
        <4>3. c \in Claim
          BY <3>2, <4>1, <4>2, ClaimIs
        <4> QED BY <3>1, <4>3
      <3>4. Sound(chunkAt, c)
        BY <3>2, <3>3 DEF Sound
      <3> QED BY <3>1, <3>4
    <2> QED BY <1>4, <2>1 DEF RelationsHold
  <1>6. rejects' \in SUBSET (Linked \X Linked)
    <2>1. \A t \in said : <<t.s, t.o>> \in Linked \X Linked
      BY <1>2 DEF Triple
    <2> QED BY <1>1, <2>1 DEF Refused, RelationsHold
  <1> QED BY <1>1, <1>5, <1>6 DEF RelationsHold, RelStep, Sound, Fits

LEMMA RescueHolds ==
  ASSUME RelationsHold, NEW menu, NEW said \in Reply(menu), Rescue(said)
  PROVE  RelationsHold'
  <1>1. /\ relStep = "rescue" /\ claims' = claims \cup {[t |-> t, relaxed |-> TRUE] : t \in said}
        /\ relStep' = "verify" /\ UNCHANGED <<chunkAt, rejects, checked, edges>>
    BY DEF Rescue
  <1>2. \A t \in said : t \in Triple /\ t.s # t.o
    BY DEF Reply, Said
  <1>3. \A c \in claims' : Sound(chunkAt, c)
    <2>1. ASSUME NEW t \in said PROVE Sound(chunkAt, [t |-> t, relaxed |-> TRUE])
      <3>1. PICK c : c = [t |-> t, relaxed |-> TRUE]
        OBVIOUS
      <3>2. t \in Triple /\ t.s # t.o
        BY <1>2
      <3>3. c \in Claim /\ c.t = t /\ c.relaxed = TRUE
        <4>1. PICK b \in BOOLEAN : b = TRUE
          OBVIOUS
        <4>2. c = [t |-> t, relaxed |-> b]
          BY <3>1, <4>1
        <4>3. c \in Claim
          BY <3>2, <4>1, <4>2, ClaimIs
        <4> QED BY <3>1, <4>3
      <3>4. Sound(chunkAt, c)
        BY <3>2, <3>3 DEF Sound
      <3> QED BY <3>1, <3>4
    <2> QED BY <1>1, <2>1 DEF RelationsHold
  <1> QED BY <1>1, <1>3 DEF RelationsHold, RelStep, Sound, Fits

LEMMA VerifyHolds ==
  ASSUME RelationsHold, NEW verdict, Verify(verdict)
  PROVE  RelationsHold' /\ checked \subseteq checked'
  <1>1. /\ relStep = "verify" /\ claims' = {} /\ rejects' = {} /\ relStep' = "between" /\ UNCHANGED <<chunkAt, edges>>
        /\ checked' = checked \cup {[chunk |-> chunkAt, claim |-> c] : c \in UNION {Judged(c, verdict[c]) : c \in claims}}
    BY DEF Verify
  <1>2. chunkAt \in 1..NRelChunks /\ chunkAt <= chunkAt
    BY <1>1, RelationsAssumption DEF RelationsHold
  <1>3. ASSUME NEW c \in claims, NEW v, NEW x \in Judged(c, v) PROVE Sound(chunkAt, x)
    <2>1. Sound(chunkAt, c) /\ c.t \in Triple
      BY DEF RelationsHold, Sound, Claim
    <2>2. x = c \/ (x = [c EXCEPT !.t = Flip(c.t)] /\ Fits(chunkAt, Flip(c.t)))
      BY <1>3 DEF Judged
    <2>3. CASE x = [c EXCEPT !.t = Flip(c.t)] /\ Fits(chunkAt, Flip(c.t))
      <3>1. PICK u \in Triple : u = Flip(c.t) /\ u.s = c.t.o /\ u.o = c.t.s
        BY <2>1, FlipIs
      <3>2. x \in Claim /\ x.t = u
        BY <2>1, <2>3, <3>1 DEF Sound, Claim
      <3> QED BY <2>1, <2>3, <3>1, <3>2 DEF Sound
    <2> QED BY <2>1, <2>2, <2>3
  <1>4. \A c \in checked' : c \in checked \/ \E x : Sound(chunkAt, x) /\ c = [chunk |-> chunkAt, claim |-> x]
    BY <1>1, <1>3
  <1>5. \A c \in checked' : c \in CheckedRow /\ c.chunk <= chunkAt /\ Sound(c.chunk, c.claim)
    <2>1. ASSUME NEW x, Sound(chunkAt, x)
          PROVE  [chunk |-> chunkAt, claim |-> x] \in CheckedRow
      BY <1>2, <2>1 DEF CheckedRow, Sound
    <2> QED BY <1>2, <1>4, <2>1 DEF RelationsHold
  <1> QED BY <1>1, <1>2, <1>5 DEF RelationsHold, RelStep, Sound, Fits

LEMMA RowIs ==
  ASSUME RelationsHold, NEW t \in Triples(checked)
  PROVE  /\ Row(t, checked) \in EdgeRow /\ Row(t, checked).t = t /\ t.s # t.o /\ Row(t, checked).chunks # {}
         /\ Row(t, checked).relaxed \/ \E n \in Row(t, checked).chunks : Fits(n, t)
  <1> DEFINE of == {c \in checked : c.claim.t = t}
             head == {c \in of : \A d \in of : c.chunk <= d.chunk}
  <1>1. PICK r : r = Row(t, checked)
    OBVIOUS
  <1>2. r = [t |-> t, chunks |-> {c.chunk : c \in of}, relaxed |-> \A c \in head : c.claim.relaxed]
    BY <1>1 DEF Row
  <1>3. PICK c \in checked : c.claim.t = t
    BY DEF Triples
  <1>4. \A d \in checked : d \in CheckedRow /\ Sound(d.chunk, d.claim) /\ d.chunk \in 1..NRelChunks
    BY DEF RelationsHold, CheckedRow
  <1>5. t \in Triple /\ t.s # t.o
    BY <1>3, <1>4 DEF Sound, Claim
  <1>6. r.t = t /\ r.chunks = {d.chunk : d \in of} /\ r.relaxed = (\A d \in head : d.claim.relaxed) /\ r.relaxed \in BOOLEAN
    BY <1>2
  <1>7. r.chunks # {} /\ r.chunks \in SUBSET (1..NRelChunks)
    BY <1>3, <1>4, <1>6
  <1>8. r \in EdgeRow
    BY <1>2, <1>5, <1>6, <1>7 DEF EdgeRow
  <1>9. ASSUME ~r.relaxed PROVE \E n \in r.chunks : Fits(n, t)
    <2>1. PICK d \in of : ~d.claim.relaxed
      BY <1>6, <1>9
    <2>2. Fits(d.chunk, t)
      BY <1>4, <2>1 DEF Sound
    <2> QED BY <1>6, <2>1, <2>2
  <1> QED BY <1>1, <1>5, <1>6, <1>7, <1>8, <1>9

LEMMA WriteHolds ==
  ASSUME RelationsHold, WriteRelations
  PROVE  /\ RelationsHold'
         /\ {e.t : e \in edges'} = {e.t : e \in edges} \cup Payloads(checked)
  <1> DEFINE new == {Row(t, checked) : t \in Payloads(checked)}
             more(e) == UNION {r.chunks : r \in {q \in new : q.t = e.t}}
             wider(e) == [e EXCEPT !.chunks = @ \cup more(e)]
  <1>1. /\ relStep = "between" /\ checked' = {} /\ UNCHANGED <<chunkAt, relStep, claims, rejects>>
        /\ edges' = {wider(e) : e \in edges} \cup {r \in new : \A e \in edges : e.t # r.t}
    BY DEF WriteRelations
  <1>2. \A r \in new : /\ r \in EdgeRow /\ r.t \in Payloads(checked) /\ r.t.s # r.t.o /\ r.chunks # {}
                       /\ r.relaxed \/ \E n \in r.chunks : Fits(n, r.t)
    BY RowIs DEF Payloads
  <1>3. \A t \in Payloads(checked) : \E r \in new : r.t = t
    BY RowIs DEF Payloads
  <1>4. \A r, q \in new : r.t = q.t => r = q
    BY RowIs DEF Payloads
  <1> HIDE DEF new
  <1>5. ASSUME NEW e \in edges
        PROVE  /\ wider(e) \in EdgeRow /\ wider(e).t = e.t /\ wider(e).relaxed = e.relaxed /\ e.chunks \subseteq wider(e).chunks
    <2>1. e \in EdgeRow
      BY DEF RelationsHold
    <2>2. more(e) \in SUBSET (1..NRelChunks)
      BY <1>2 DEF EdgeRow
    <2> HIDE DEF more
    <2> QED BY <2>1, <2>2 DEF EdgeRow
  <1> HIDE DEF wider
  <1>6. ASSUME NEW e \in edges'
        PROVE  /\ e \in EdgeRow /\ e.t.s # e.t.o /\ e.chunks # {}
               /\ e.relaxed \/ \E n \in e.chunks : Fits(n, e.t)
    <2>1. CASE e \in new
      BY <1>2, <2>1
    <2>2. ASSUME NEW f \in edges, e = wider(f)
          PROVE  /\ e \in EdgeRow /\ e.t.s # e.t.o /\ e.chunks # {}
                 /\ e.relaxed \/ \E n \in e.chunks : Fits(n, e.t)
      BY <1>5, <2>2 DEF RelationsHold
    <2> QED BY <1>1, <2>1, <2>2
  <1>7. \A e, f \in edges' : e.t = f.t => e = f
    BY <1>1, <1>4, <1>5 DEF RelationsHold
  <1>8. {e.t : e \in edges'} = {e.t : e \in edges} \cup Payloads(checked)
    BY <1>1, <1>2, <1>3, <1>5
  <1>9. RelationsHold'
    BY <1>1, <1>6, <1>7 DEF RelationsHold, Sound, Fits
  <1> QED BY <1>8, <1>9

\* The verified claims of a batch are finitely many, so that support can be compared.
LEMMA SupportIs ==
  ASSUME RelationsHold, NEW t
  PROVE  Support(t, checked) \in Nat
  <1> DEFINE P == RelPred \cup {RelatedTo}
             W == ((1..NRelChunks) \X (Linked \X (P \X Linked))) \X BOOLEAN
             f == [c \in checked |-> <<<<c.chunk, <<c.claim.t.s, <<c.claim.t.p, c.claim.t.o>>>>>>, c.claim.relaxed>>]
  <1>1. IsFiniteSet(P) /\ IsFiniteSet(1..NRelChunks) /\ IsFiniteSet(Linked) /\ IsFiniteSet(BOOLEAN)
    <2>1. IsFiniteSet({RelatedTo}) /\ IsFiniteSet({TRUE}) /\ IsFiniteSet({FALSE})
      BY FS_Singleton
    <2>2. BOOLEAN = {TRUE} \cup {FALSE}
      OBVIOUS
    <2>3. IsFiniteSet(BOOLEAN)
      BY <2>1, <2>2, FS_Union
    <2>4. IsFiniteSet(P)
      BY <2>1, FS_Union, RelationsAssumption
    <2>5. IsFiniteSet(1..NRelChunks)
      BY FS_Interval, RelationsAssumption
    <2> QED BY <2>3, <2>4, <2>5, RelationsAssumption
  <1> HIDE DEF P
  <1>2. IsFiniteSet(P \X Linked)
    BY <1>1, FS_Product
  <1>3. IsFiniteSet(Linked \X (P \X Linked))
    BY <1>1, <1>2, FS_Product
  <1>4. IsFiniteSet((1..NRelChunks) \X (Linked \X (P \X Linked)))
    BY <1>1, <1>3, FS_Product
  <1>5. IsFiniteSet(W)
    BY <1>1, <1>4, FS_Product
  <1>6. \A c \in checked : c \in CheckedRow /\ c.claim \in Claim /\ c.claim.t \in Triple
    BY DEF RelationsHold, Sound, Claim
  <1>7. f \in [checked -> W]
    BY <1>6 DEF CheckedRow, Claim, Triple, P
  <1>8. ASSUME NEW c \in checked, NEW d \in checked, f[c] = f[d] PROVE c = d
    <2>1. /\ c.chunk = d.chunk /\ c.claim.relaxed = d.claim.relaxed
          /\ c.claim.t.s = d.claim.t.s /\ c.claim.t.p = d.claim.t.p /\ c.claim.t.o = d.claim.t.o
      BY <1>8
    <2>2. c.claim.t = d.claim.t
      BY <1>6, <2>1 DEF Triple
    <2>3. c.claim = d.claim
      BY <1>6, <2>1, <2>2 DEF Claim
    <2> QED BY <1>6, <2>1, <2>3 DEF CheckedRow
  <1>9. f \in Injection(checked, W)
    BY <1>7, <1>8 DEF Injection, IsInjective
  <1>10. IsFiniteSet(checked)
    BY <1>5, <1>9, FS_Injection
  <1>11. {c \in checked : c.claim.t = t} \in SUBSET checked
    OBVIOUS
  <1> QED BY <1>10, <1>11, FS_Subset, FS_CardinalityType DEF Support

LEMMA Reconciles ==
  ASSUME RelationsHold, WriteRelations
  PROVE  LET rows == {e.t : e \in edges'} \ {e.t : e \in edges} IN
         /\ \A t \in rows : t.p # RelatedTo => Flip(t) \notin rows
         /\ \A t \in Triples(checked) \ {e.t : e \in edges'} :
              \/ t.p # RelatedTo /\ Flip(t) \in Triples(checked)
              \/ t.p = RelatedTo /\ \E e \in edges' : e.t.p # RelatedTo /\ {e.t.s, e.t.o} = {t.s, t.o}
  <1> DEFINE rows == {e.t : e \in edges'} \ {e.t : e \in edges}
             stay == Triples(checked) \ Contradicted(checked)
  <1>1. /\ {e.t : e \in edges'} = {e.t : e \in edges} \cup Payloads(checked)
        /\ rows \subseteq Payloads(checked)
    BY WriteHolds
  <1>2. Payloads(checked) \subseteq stay
    BY DEF Payloads
  <1>3. \A t \in Triples(checked) : t \in Triple
    BY DEF Triples, RelationsHold, Sound, Claim
  <1>4. ASSUME NEW t \in rows, t.p # RelatedTo PROVE Flip(t) \notin rows
    <2>1. SUFFICES ASSUME Flip(t) \in rows PROVE FALSE
      OBVIOUS
    <2>2. t \in stay /\ Flip(t) \in stay /\ t \in Triple
      BY <1>1, <1>2, <1>3, <2>1
    <2>3. Flip(t).p # RelatedTo /\ Flip(Flip(t)) = t
      BY <1>4, <2>2, FlipIs
    <2>4. ~(Support(Flip(t), checked) >= Support(t, checked))
      BY <1>4, <2>2 DEF Contradicted
    <2>5. ~(Support(Flip(Flip(t)), checked) >= Support(Flip(t), checked))
      BY <2>2, <2>3 DEF Contradicted
    <2>6. Support(t, checked) \in Nat /\ Support(Flip(t), checked) \in Nat
      BY SupportIs
    <2> QED BY <2>3, <2>4, <2>5, <2>6
  <1>5. ASSUME NEW t \in Triples(checked) \ {e.t : e \in edges'}
        PROVE  \/ t.p # RelatedTo /\ Flip(t) \in Triples(checked)
               \/ t.p = RelatedTo /\ \E e \in edges' : e.t.p # RelatedTo /\ {e.t.s, e.t.o} = {t.s, t.o}
    <2>1. CASE t \in Contradicted(checked)
      BY <2>1 DEF Contradicted
    <2>2. CASE t \in stay
      <3>1. t \notin Payloads(checked)
        BY <1>1
      <3>2. t.p = RelatedTo /\ \E u \in stay : u.p # RelatedTo /\ {u.s, u.o} = {t.s, t.o}
        BY <2>2, <3>1 DEF Payloads
      <3>3. PICK u \in stay : u.p # RelatedTo /\ {u.s, u.o} = {t.s, t.o}
        BY <3>2
      <3>4. u \in Payloads(checked)
        BY <3>3 DEF Payloads
      <3>5. PICK e \in edges' : e.t = u
        BY <1>1, <3>4
      <3> QED BY <3>2, <3>3, <3>5
    <2> QED BY <2>1, <2>2
  <1> QED BY <1>4, <1>5

LEMMA NextRelations ==
  ASSUME RelationsHold, [RelationsNext]_relationVars
  PROVE  /\ RelationsHold'
         /\ checked # {} /\ checked' = {} => WriteRelations
  <1>1. CASE StartChunk
    <2>1. checked' = checked
      BY <1>1 DEF StartChunk
    <2> QED BY <1>1, <2>1, StartChunkHolds
  <1>2. CASE Pass1Fails
    BY <1>2 DEF Pass1Fails, RelationsHold, RelStep, Sound, Fits
  <1>3. CASE WriteRelations
    BY <1>3, WriteHolds
  <1>4. ASSUME NEW said \in Reply(Menu), relStep \in {"pass1", "gap", "orphan"}, Pass1(said) \/ GapPass(said) \/ OrphanCheck(said)
        PROVE  RelationsHold' /\ checked' = checked
    <2>1. PICK step2 \in {"gap", "orphan", "rescue"} : Take(said, step2)
      BY <1>4 DEF Pass1, GapPass, OrphanCheck
    <2>2. checked' = checked
      BY <2>1 DEF Take
    <2>3. relStep # "between"
      BY <1>4
    <2> QED BY <2>1, <2>2, <2>3, TakeHolds
  <1>5. ASSUME NEW said \in Reply(WideMenu), Rescue(said)
        PROVE  RelationsHold' /\ checked' = checked
    <2>1. checked' = checked
      BY <1>5 DEF Rescue
    <2> QED BY <1>5, <2>1, RescueHolds
  <1>6. ASSUME NEW verdict, Verify(verdict)
        PROVE  RelationsHold' /\ checked \subseteq checked'
    BY <1>6, VerifyHolds
  <1>7. CASE UNCHANGED relationVars
    BY <1>7 DEF relationVars, RelationsHold, Sound, Fits
  <1> QED BY <1>1, <1>2, <1>3, <1>4, <1>5, <1>6, <1>7 DEF RelationsNext

LEMMA RelationsAlways == Spec => []RelationsHold
  <1>1. Init => RelationsHold
    BY RelationsStart DEF Init
  <1>2. RelationsHold /\ [Next]_buildVars => RelationsHold'
    <2> SUFFICES ASSUME RelationsHold, [Next]_buildVars PROVE RelationsHold'
      OBVIOUS
    <2>1. [RelationsNext]_relationVars
      BY DEF Next, buildVars
    <2> QED BY <2>1, NextRelations
  <1> QED BY <1>1, <1>2, PTL DEF Spec

\* What a batch writes contradicts itself nowhere and leaves out no verified claim without a
\* reason, for any chunks, entities, predicates, replies and verdicts.
THEOREM BatchesReconciled == Spec => ReconciledBatch
  <1>1. RelationsHold /\ [Next]_buildVars =>
          [checked # {} /\ checked' = {} =>
             LET rows == {e.t : e \in edges'} \ {e.t : e \in edges} IN
             /\ \A t \in rows : t.p # RelatedTo => Flip(t) \notin rows
             /\ \A t \in Triples(checked) \ {e.t : e \in edges'} :
                  \/ t.p # RelatedTo /\ Flip(t) \in Triples(checked)
                  \/ t.p = RelatedTo /\ \E e \in edges' : e.t.p # RelatedTo /\ {e.t.s, e.t.o} = {t.s, t.o}]_relationVars
    <2> SUFFICES ASSUME RelationsHold, [Next]_buildVars, checked # {}, checked' = {}
                 PROVE  WriteRelations
      BY Reconciles
    <2>1. [RelationsNext]_relationVars
      BY DEF Next, buildVars
    <2> QED BY <2>1, NextRelations
  <1> QED BY <1>1, RelationsAlways, PTL DEF Spec, ReconciledBatch

-----------------------------------------------------------------------------
(***************************************************************************)
(* Tables                                                                  *)
(***************************************************************************)
PageOutcome == {"none", "answer", "failure"}
Entry == [made : BOOLEAN, failed : SUBSET TPage, kept : SUBSET TPage, sent : SUBSET TPage, answered : SUBSET TPage]

\* The pages up to n that give no table of their own, and of such pages the first MaxVision.
OpenTo(n, gave) == {p \in TPage : p <= n /\ Dense(p) /\ p \notin gave}
FirstOf(S) == {p \in S : Cardinality({q \in S : q < p}) < MaxVision}

\* The pages the loop has decided about.
Past == IF loopStep \in {"crop", "send"} THEN loopAt - 1 ELSE loopAt

TablesTyped ==
  /\ pageKind \in [TPage -> PageKind] /\ loopAt \in 0..NPages /\ ahead \in 1..(NPages + 1)
  /\ loopStep \in {"off", "next", "crop", "send", "await"} /\ runner \in {"off", "top", "wait"}
  /\ held \in SUBSET TPage /\ flying \in SUBSET TPage /\ sent \in SUBSET TPage
  /\ kept \in SUBSET TPage /\ failedPages \in SUBSET TPage /\ answers \in SUBSET TPage
  /\ outcome \in [TPage -> PageOutcome] /\ entry \in [Tier -> Entry]

\* What the prefetcher has begun lies between the loop and its own place.
AheadOfLoop ==
  /\ loopStep \in {"crop", "send", "await"} => loopAt # 0
  /\ loopStep = "off" => loopAt = 0 /\ runner = "off" /\ held = {} /\ flying = {}
  /\ runner = "wait" => ahead \in TPage
  /\ \A p \in held : /\ p <= loopAt + Ahead /\ p < ahead
                     /\ p > loopAt \/ (p = loopAt /\ loopStep \in {"crop", "send"})
                     /\ p \in flying \/ outcome[p] # "none"
  /\ Cardinality(flying) <= Flights
  /\ \A p \in flying : /\ p \in held \/ (p = loopAt /\ loopStep = "await")
                       /\ outcome[p] = "none" /\ p \notin answers
  /\ \A p \in TPage : outcome[p] # "none" => p <= loopAt \/ p < ahead

\* What has been sent, and that each page sent has its answer or its failure.
SentInOrder ==
  /\ \A p \in kept : p <= loopAt
  /\ sent = FirstOf(OpenTo(Past, kept))
  /\ \A p \in sent : outcome[p] = "answer" \/ p \in failedPages \/ (p = loopAt /\ loopStep = "await")

GoodEntry(e) ==
  /\ ~e.made => e = NoEntry
  /\ e.made => /\ e.sent = FirstOf(OpenTo(NPages, e.kept))
               /\ e.failed = {} => e.answered = e.sent

EntriesGood == \A t \in Tier : GoodEntry(entry[t])

TablesHold == TablesTyped /\ AheadOfLoop /\ SentInOrder /\ EntriesGood

LEMMA PageNumbers ==
  /\ {NPages, MaxVision, Flights, Ahead} \subseteq Nat /\ TPage = 1..NPages /\ TPage \subseteq Nat
  /\ \A p \in TPage : 1 <= p /\ p <= NPages
  BY TablesAssumption DEF TPage

LEMMA PagesFinite ==
  ASSUME NEW S \in SUBSET TPage
  PROVE  IsFiniteSet(S) /\ Cardinality(S) \in Nat
  <1>1. IsFiniteSet(TPage)
    BY PageNumbers, FS_Interval
  <1>2. IsFiniteSet(S)
    BY <1>1, FS_Subset
  <1> QED BY <1>2, FS_CardinalityType

LEMMA FewerPages ==
  ASSUME NEW S \in SUBSET TPage, NEW T \in SUBSET S
  PROVE  Cardinality(T) <= Cardinality(S)
  BY PagesFinite, FS_Subset

\* With fewer than MaxVision among the first, these are all there are.
LEMMA AllAreFirst ==
  ASSUME NEW S \in SUBSET TPage, Cardinality(FirstOf(S)) < MaxVision
  PROVE  FirstOf(S) = S
  <1> SUFFICES ASSUME S \ FirstOf(S) # {} PROVE FALSE
    BY DEF FirstOf
  <1>1. S \ FirstOf(S) \in SUBSET Nat
    BY PageNumbers
  <1>2. PICK p \in S \ FirstOf(S) : \A q \in S \ FirstOf(S) : p <= q
    BY <1>1, LeastOf
  <1>3. {q \in S : q < p} \subseteq FirstOf(S)
    BY <1>1, <1>2, PageNumbers
  <1>4. FirstOf(S) \in SUBSET TPage
    BY DEF FirstOf
  <1>5. Cardinality({q \in S : q < p}) <= Cardinality(FirstOf(S))
    BY <1>3, <1>4, FewerPages
  <1>6. Cardinality({q \in S : q < p}) \in Nat /\ Cardinality(FirstOf(S)) \in Nat /\ MaxVision \in Nat
    BY <1>4, PagesFinite, TablesAssumption
  <1>7. Cardinality({q \in S : q < p}) < MaxVision
    BY <1>5, <1>6
  <1> QED BY <1>2, <1>7 DEF FirstOf

\* A page after all others joins the first while there are fewer than MaxVision.
LEMMA NextOfFirst ==
  ASSUME NEW S \in SUBSET TPage, NEW p \in TPage, \A q \in S : q < p
  PROVE  FirstOf(S \cup {p}) = IF Cardinality(FirstOf(S)) < MaxVision THEN FirstOf(S) \cup {p} ELSE FirstOf(S)
  <1>1. \A q \in S : {r \in S \cup {p} : r < q} = {r \in S : r < q}
    BY PageNumbers
  <1>3. p \notin S /\ ~(p < p)
    BY PageNumbers
  <1>2. {r \in S \cup {p} : r < p} = S
    BY <1>3
  <1>4. \A q \in S : q \in FirstOf(S \cup {p}) <=> q \in FirstOf(S)
    BY <1>1 DEF FirstOf
  <1>5. p \in FirstOf(S \cup {p}) <=> Cardinality(S) < MaxVision
    BY <1>2 DEF FirstOf
  <1>6. FirstOf(S \cup {p}) \subseteq S \cup {p} /\ FirstOf(S) \subseteq S
    BY DEF FirstOf
  <1>7. Cardinality(FirstOf(S)) < MaxVision <=> Cardinality(S) < MaxVision
    <2>1. CASE Cardinality(FirstOf(S)) < MaxVision
      BY <2>1, AllAreFirst
    <2>2. CASE ~(Cardinality(FirstOf(S)) < MaxVision)
      <3>1. Cardinality(FirstOf(S)) <= Cardinality(S)
        BY <1>6, FewerPages
      <3>2. FirstOf(S) \in SUBSET TPage
        BY <1>6
      <3>3. Cardinality(FirstOf(S)) \in Nat /\ Cardinality(S) \in Nat /\ MaxVision \in Nat
        BY <3>2, PagesFinite, TablesAssumption
      <3> QED BY <2>2, <3>1, <3>3
    <2> QED BY <2>1, <2>2
  <1> QED BY <1>3, <1>4, <1>5, <1>6, <1>7

LEMMA TablesStart ==
  ASSUME TablesInit
  PROVE  TablesHold
  <1>1. Cardinality({}) = 0
    BY FS_EmptySet
  <1>2. TablesTyped
    BY TablesAssumption DEF TablesInit, TablesTyped, PageOutcome, Entry, NoEntry
  <1>3. AheadOfLoop
    BY <1>1, TablesAssumption DEF TablesInit, AheadOfLoop
  <1>4. SentInOrder
    BY DEF TablesInit, SentInOrder, Past, OpenTo, FirstOf, TPage
  <1>5. EntriesGood
    BY DEF TablesInit, EntriesGood, GoodEntry, NoEntry
  <1> QED BY <1>2, <1>3, <1>4, <1>5 DEF TablesHold

LEMMA TablesShow ==
  ASSUME TablesHold
  PROVE  TablesInv /\ TablesTypeOK
  <1>1. AsOneAtATime
    <2>1. ASSUME NEW t \in Tier, entry[t].made
          PROVE  LET open == {p \in TPage : Dense(p) /\ p \notin entry[t].kept} IN
                 /\ entry[t].sent = {p \in open : Cardinality({q \in open : q < p}) < MaxVision}
                 /\ entry[t].failed = {} => entry[t].answered = entry[t].sent
      <3>1. {p \in TPage : Dense(p) /\ p \notin entry[t].kept} = OpenTo(NPages, entry[t].kept)
        BY TablesAssumption DEF OpenTo, TPage
      <3>2. GoodEntry(entry[t])
        BY DEF TablesHold, EntriesGood
      <3> QED BY <2>1, <3>1, <3>2 DEF GoodEntry, FirstOf
    <2> QED BY <2>1 DEF AsOneAtATime
  <1>2. PrefetchBounded
    BY DEF TablesHold, AheadOfLoop, PrefetchBounded
  <1>3. TablesTypeOK
    BY DEF TablesHold, TablesTyped, AheadOfLoop, EntriesGood, GoodEntry, TablesTypeOK, Entry
  <1> QED BY <1>1, <1>2, <1>3 DEF TablesInv

\* Where the loop has come to and what it has kept stay: so does what it must have sent.
LEMMA SameSent ==
  ASSUME SentInOrder, UNCHANGED <<pageKind, loopAt, kept, sent>>, Past' = Past,
         \A p \in sent : \/ outcome'[p] = outcome[p] /\ (loopStep = "await" => loopStep' = "await" \/ p # loopAt)
                         \/ outcome'[p] = "answer" \/ p \in failedPages',
         failedPages \subseteq failedPages'
  PROVE  SentInOrder'
  BY DEF SentInOrder, OpenTo, FirstOf, Dense

LEMMA SameEntries ==
  ASSUME EntriesGood, UNCHANGED <<pageKind, entry>>
  PROVE  EntriesGood'
  BY DEF EntriesGood, GoodEntry, OpenTo, FirstOf, Dense

\* The loop's pages are those it has sent, none of them prefetched any more.
LEMMA SentArePast ==
  ASSUME TablesHold
  PROVE  \A p \in sent : p \in TPage /\ p <= Past /\ (p \in flying => p = loopAt /\ loopStep = "await")
  <1>1. \A p \in sent : p \in TPage /\ p <= Past
    BY DEF TablesHold, SentInOrder, FirstOf, OpenTo
  <1>2. loopAt \in Nat
    BY PageNumbers DEF TablesHold, TablesTyped
  <1>3. ASSUME NEW p \in sent, p \in flying PROVE p = loopAt /\ loopStep = "await"
    <2>1. p \in held \/ (p = loopAt /\ loopStep = "await")
      BY <1>3 DEF TablesHold, AheadOfLoop
    <2>2. p \in held => p > loopAt \/ (p = loopAt /\ loopStep \in {"crop", "send"})
      BY DEF TablesHold, AheadOfLoop
    <2>3. p <= Past /\ p \in Nat
      BY <1>1, PageNumbers
    <2> QED BY <1>2, <2>1, <2>2, <2>3 DEF Past
  <1> QED BY <1>1, <1>3

LEMMA StartExtractHolds ==
  ASSUME TablesHold, NEW ahd \in BOOLEAN, StartExtract(ahd)
  PROVE  TablesHold'
  <1>1. /\ loopStep = "off" /\ loopStep' \in {"off", "next"} /\ runner' \in {"off", "top"}
        /\ loopStep' = "off" => runner' = "off"
        /\ UNCHANGED <<pageKind, loopAt, ahead, scheduled, direct, held, flying, outcome, sent, kept, failedPages, answers>>
    BY DEF StartExtract, TablesHold, AheadOfLoop
  <1>2. entry' = entry \/ (Hit.made /\ entry' = [entry EXCEPT !["run"] = IF @.made THEN @ ELSE Hit])
    BY DEF StartExtract
  <1>3. "run" \in Tier /\ "user" \in Tier
    BY DEF Tier
  <1>4. Hit \in Entry /\ GoodEntry(Hit)
    BY <1>3 DEF Hit, TablesHold, TablesTyped, EntriesGood
  <1>5. entry' \in [Tier -> Entry] /\ \A t \in Tier : GoodEntry(entry'[t])
    <2>1. entry \in [Tier -> Entry] /\ \A t \in Tier : GoodEntry(entry[t])
      BY DEF TablesHold, TablesTyped, EntriesGood
    <2> HIDE DEF Entry, Tier, Hit
    <2>2. CASE entry' = [entry EXCEPT !["run"] = IF @.made THEN @ ELSE Hit]
      <3>1. PICK h : h = IF entry["run"].made THEN entry["run"] ELSE Hit
        OBVIOUS
      <3>2. h \in Entry /\ GoodEntry(h)
        BY <1>3, <1>4, <2>1, <3>1
      <3>3. entry' = [entry EXCEPT !["run"] = h]
        BY <2>2, <3>1
      <3> QED BY <1>3, <2>1, <3>2, <3>3
    <2> QED BY <1>2, <2>1, <2>2
  <1>6. TablesTyped'
    BY <1>1, <1>5 DEF TablesHold, TablesTyped
  <1>7. AheadOfLoop'
    BY <1>1 DEF TablesHold, AheadOfLoop
  <1>8. SentInOrder'
    <2>1. Past' = Past
      BY <1>1 DEF Past
    <2> QED BY <1>1, <2>1, SameSent DEF TablesHold
  <1>9. EntriesGood'
    BY <1>1, <1>5 DEF EntriesGood, GoodEntry, OpenTo, FirstOf, Dense
  <1> QED BY <1>6, <1>7, <1>8, <1>9 DEF TablesHold

LEMMA RunnerTopHolds ==
  ASSUME TablesHold, RunnerTop
  PROVE  TablesHold'
  <1>1. /\ runner = "top" /\ runner' \in {"off", "wait"} /\ (runner' = "wait" => ahead <= NPages)
        /\ UNCHANGED <<pageKind, loopAt, loopStep, ahead, held, flying, outcome, sent, kept, failedPages, answers, entry>>
    BY PageNumbers DEF RunnerTop, TablesHold, TablesTyped
  <1>2. TablesTyped'
    BY <1>1 DEF TablesHold, TablesTyped
  <1>3. AheadOfLoop'
    <2>1. runner' = "wait" => ahead \in TPage
      BY <1>1, PageNumbers DEF TablesHold, TablesTyped
    <2> QED BY <1>1, <2>1 DEF TablesHold, AheadOfLoop
  <1>4. SentInOrder'
    BY <1>1, SameSent DEF TablesHold, Past
  <1>5. EntriesGood'
    BY <1>1, SameEntries DEF TablesHold
  <1> QED BY <1>2, <1>3, <1>4, <1>5 DEF TablesHold

LEMMA FlightsAre ==
  ASSUME TablesHold
  PROVE  \A S \in SUBSET flying : Cardinality(S) <= Flights
  <1>1. flying \in SUBSET TPage /\ Cardinality(flying) <= Flights
    BY DEF TablesHold, TablesTyped, AheadOfLoop
  <1>2. ASSUME NEW S \in SUBSET flying PROVE Cardinality(S) <= Flights
    <2>1. Cardinality(S) <= Cardinality(flying) /\ Cardinality(S) \in Nat /\ Cardinality(flying) \in Nat
      BY <1>1, FewerPages, PagesFinite
    <2> QED BY <1>1, <2>1, PageNumbers
  <1> QED BY <1>2

LEMMA RunnerGoesHolds ==
  ASSUME TablesHold, RunnerGoes
  PROVE  TablesHold'
  <1>1. /\ runner = "wait" /\ runner' = "top" /\ ahead' = ahead + 1 /\ ahead <= loopAt + Ahead /\ Cardinality(flying) < Flights
        /\ UNCHANGED <<pageKind, loopAt, loopStep, sent, kept, failedPages, answers, entry>>
    BY DEF RunnerGoes
  <1>2. \/ UNCHANGED <<held, flying, outcome>>
        \/ ahead > loopAt /\ held' = held \cup {ahead}
           /\ \/ ahead \in answers /\ outcome' = [outcome EXCEPT ![ahead] = "answer"] /\ flying' = flying
              \/ ahead \notin answers /\ flying' = flying \cup {ahead} /\ outcome' = outcome
    BY DEF RunnerGoes
  <1>3. ahead \in TPage /\ ahead \in Nat /\ loopAt \in Nat /\ loopStep # "off" /\ ahead' \in 1..(NPages + 1)
    BY <1>1, PageNumbers DEF TablesHold, TablesTyped, AheadOfLoop
  <1>4. TablesTyped'
    <2>1. held' \in SUBSET TPage /\ flying' \in SUBSET TPage /\ outcome' \in [TPage -> PageOutcome]
      BY <1>2, <1>3 DEF TablesHold, TablesTyped, PageOutcome
    <2> QED BY <1>1, <1>3, <2>1 DEF TablesHold, TablesTyped
  <1>5. \A p \in held \cup flying : p \in TPage /\ p \in Nat /\ (p < ahead \/ p = loopAt)
    BY PageNumbers DEF TablesHold, TablesTyped, AheadOfLoop
  <1>6. ahead > loopAt => ahead \notin flying /\ ahead \notin held /\ outcome[ahead] = "none"
    <2>1. ~(ahead < ahead)
      BY <1>3
    <2> QED BY <1>3, <1>5, <2>1 DEF TablesHold, AheadOfLoop
  <1>7. AheadOfLoop'
    <2>1. Cardinality(flying') <= Flights
      <3>1. CASE flying' = flying
        BY <3>1 DEF TablesHold, AheadOfLoop
      <3>2. CASE flying' = flying \cup {ahead}
        <4>1. flying \in SUBSET TPage /\ IsFiniteSet(flying) /\ Cardinality(flying) \in Nat /\ Flights \in Nat
          BY PagesFinite, PageNumbers DEF TablesHold, TablesTyped
        <4>2. Cardinality(flying') <= Cardinality(flying) + 1 /\ Cardinality(flying') \in Nat
          BY <3>2, <4>1, FS_AddElement
        <4> QED BY <1>1, <4>1, <4>2
      <3> QED BY <1>2, <3>1, <3>2
    <2>2. \A p \in held' : /\ p <= loopAt + Ahead /\ p < ahead'
                           /\ p > loopAt \/ (p = loopAt /\ loopStep \in {"crop", "send"})
                           /\ p \in flying' \/ outcome'[p] # "none"
      <3>1. ASSUME NEW p \in held
            PROVE  /\ p <= loopAt + Ahead /\ p < ahead + 1
                   /\ p > loopAt \/ (p = loopAt /\ loopStep \in {"crop", "send"})
                   /\ p \in flying' \/ outcome'[p] # "none"
        <4>1. p < ahead /\ p \in TPage /\ p \in Nat
          BY PageNumbers DEF TablesHold, TablesTyped, AheadOfLoop
        <4>2. p < ahead + 1 /\ p # ahead
          BY <1>3, <4>1
        <4>3. p \in flying \/ outcome[p] # "none"
          BY DEF TablesHold, AheadOfLoop
        <4>4. p \in flying' \/ outcome'[p] # "none"
          BY <1>2, <4>1, <4>2, <4>3 DEF TablesHold, TablesTyped
        <4> QED BY <4>2, <4>4 DEF TablesHold, AheadOfLoop
      <3>2. ASSUME ahead > loopAt, held' = held \cup {ahead} PROVE ahead < ahead + 1 /\ (ahead \in flying' \/ outcome'[ahead] # "none")
        BY <1>2, <1>3, <1>6, <3>2 DEF TablesHold, TablesTyped
      <3> QED BY <1>1, <1>2, <3>1, <3>2
    <2>3. \A p \in flying' : /\ p \in held' \/ (p = loopAt /\ loopStep = "await")
                             /\ outcome'[p] = "none" /\ p \notin answers
      BY <1>2, <1>3, <1>6 DEF TablesHold, TablesTyped, AheadOfLoop
    <2>4. \A p \in TPage : outcome'[p] # "none" => p <= loopAt \/ p < ahead'
      <3>1. ASSUME NEW p \in TPage, outcome[p] # "none" PROVE p <= loopAt \/ p < ahead + 1
        BY <1>3, <3>1, PageNumbers DEF TablesHold, AheadOfLoop
      <3>2. \A p \in TPage : outcome'[p] = outcome[p] \/ p = ahead
        BY <1>2, <1>3 DEF TablesHold, TablesTyped
      <3>3. ahead < ahead + 1
        BY <1>3
      <3> QED BY <1>1, <3>1, <3>2, <3>3
    <2>5. loopStep = "off" => FALSE
      BY <1>3
    <2> QED BY <1>1, <2>1, <2>2, <2>3, <2>4, <2>5 DEF TablesHold, AheadOfLoop
  <1>8. SentInOrder'
    <2>1. \A p \in sent : outcome'[p] = outcome[p]
      <3>1. ASSUME NEW p \in sent PROVE p # ahead \/ ~(ahead > loopAt)
        <4>1. p <= Past /\ p \in TPage /\ p \in Nat
          BY SentArePast, PageNumbers
        <4> QED BY <1>3, <4>1 DEF Past
      <3>2. \A p \in sent : p \in TPage
        BY SentArePast
      <3> QED BY <1>2, <1>3, <3>1, <3>2 DEF TablesHold, TablesTyped
    <2> QED BY <1>1, <2>1, SameSent DEF TablesHold, Past
  <1>9. EntriesGood'
    BY <1>1, SameEntries DEF TablesHold
  <1> QED BY <1>4, <1>7, <1>8, <1>9 DEF TablesHold

LEMMA RequestEndsHolds ==
  ASSUME TablesHold, NEW p \in flying, NEW how \in {"answer", "failure"}, RequestEnds(p, how)
  PROVE  TablesHold'
  <1>1. /\ flying' = flying \ {p} /\ outcome' = [outcome EXCEPT ![p] = how] /\ answers' \in {answers, answers \cup {p}}
        /\ UNCHANGED <<pageKind, loopAt, loopStep, ahead, runner, held, sent, kept, failedPages, entry>>
    BY DEF RequestEnds
  <1>2. p \in TPage /\ outcome \in [TPage -> PageOutcome] /\ how # "none"
    BY DEF TablesHold, TablesTyped
  <1>3. TablesTyped'
    <2>1. outcome' \in [TPage -> PageOutcome]
      BY <1>1, <1>2 DEF PageOutcome
    <2> QED BY <1>1, <1>2, <2>1 DEF TablesHold, TablesTyped
  <1>4. \A q \in TPage : outcome'[q] = IF q = p THEN how ELSE outcome[q]
    BY <1>1, <1>2
  <1>5. AheadOfLoop'
    <2>1. Cardinality(flying') <= Flights
      BY <1>1, FlightsAre
    <2>2. p <= loopAt \/ p < ahead
      <3>1. p \in Nat /\ loopAt \in Nat
        BY <1>2, PageNumbers DEF TablesHold, TablesTyped
      <3> QED BY <3>1 DEF TablesHold, AheadOfLoop
    <2>3. \A q \in held : q \in TPage
      BY DEF TablesHold, TablesTyped
    <2>4. \A q \in flying' : q \in flying /\ q # p /\ q \in TPage /\ q \notin answers'
      BY <1>1 DEF TablesHold, TablesTyped, AheadOfLoop
    <2> QED BY <1>1, <1>2, <1>4, <2>1, <2>2, <2>3, <2>4 DEF TablesHold, AheadOfLoop
  <1>6. SentInOrder'
    <2>1. \A q \in sent : q \in TPage /\ (q = p => q = loopAt /\ loopStep = "await")
      BY SentArePast
    <2>2. \A q \in sent : outcome'[q] = "answer" \/ q \in failedPages \/ (q = loopAt /\ loopStep = "await")
      BY <1>4, <2>1 DEF TablesHold, SentInOrder
    <2> QED BY <1>1, <2>2 DEF TablesHold, SentInOrder, Past, OpenTo, FirstOf, Dense
  <1>7. EntriesGood'
    BY <1>1, SameEntries DEF TablesHold
  <1> QED BY <1>3, <1>5, <1>6, <1>7 DEF TablesHold

LEMMA NextPageHolds ==
  ASSUME TablesHold, NextPage
  PROVE  TablesHold'
  <1>1. /\ loopStep = "next" /\ loopStep' \in {"crop", "send"} /\ kept' \in {kept, kept \cup {loopAt'}}
        /\ UNCHANGED <<pageKind, ahead, runner, held, flying, outcome, sent, failedPages, answers, entry>>
    BY DEF NextPage
  <1>2. loopAt' = loopAt + 1 /\ loopAt \in Nat /\ loopAt' \in Nat /\ loopAt' \in TPage /\ loopAt' \in 0..NPages /\ loopAt' # 0
    BY PageNumbers DEF NextPage, TablesHold, TablesTyped
  <1>3. TablesTyped'
    BY <1>1, <1>2 DEF TablesHold, TablesTyped
  <1>4. AheadOfLoop'
    <2>1. ASSUME NEW p \in held PROVE p <= loopAt' + Ahead /\ (p > loopAt' \/ p = loopAt')
      <3>1. p <= loopAt + Ahead /\ p > loopAt
        BY <1>1 DEF TablesHold, AheadOfLoop
      <3>2. p \in Nat /\ Ahead \in Nat
        BY PageNumbers DEF TablesHold, TablesTyped
      <3> QED BY <1>2, <3>1, <3>2
    <2>2. ASSUME NEW p \in TPage, outcome[p] # "none" PROVE p <= loopAt' \/ p < ahead
      <3>1. p <= loopAt \/ p < ahead
        BY <2>2 DEF TablesHold, AheadOfLoop
      <3> QED BY <1>2, <3>1, PageNumbers
    <2> QED BY <1>1, <1>2, <2>1, <2>2 DEF TablesHold, AheadOfLoop
  <1>5. SentInOrder'
    <2>1. Past = loopAt /\ Past' = loopAt
      BY <1>1, <1>2 DEF Past
    <2>2. \A p \in TPage : p <= loopAt => (p \in kept' <=> p \in kept)
      BY <1>1, <1>2, PageNumbers
    <2>3. OpenTo(loopAt, kept)' = OpenTo(loopAt, kept)' /\ \A p \in TPage : Dense(p)' = Dense(p)
      BY <1>1 DEF Dense
    <2>4. sent = FirstOf(OpenTo(loopAt, kept))
      BY <2>1 DEF TablesHold, SentInOrder
    <2>5. {p \in TPage : p <= loopAt /\ Dense(p)' /\ p \notin kept'} = OpenTo(loopAt, kept)
      BY <2>2, <2>3 DEF OpenTo
    <2>6. sent' = FirstOf(OpenTo(Past, kept))'
      BY <1>1, <2>1, <2>4, <2>5 DEF FirstOf, OpenTo
    <2>7. \A p \in kept' : p <= loopAt'
      <3>1. \A p \in kept : p <= loopAt /\ p \in Nat
        BY PageNumbers DEF TablesHold, TablesTyped, SentInOrder
      <3> QED BY <1>1, <1>2, <3>1
    <2> QED BY <1>1, <2>6, <2>7 DEF TablesHold, SentInOrder
  <1>6. EntriesGood'
    BY <1>1, SameEntries DEF TablesHold
  <1> QED BY <1>3, <1>4, <1>5, <1>6 DEF TablesHold

\* The page the loop is at.
LEMMA PageOfLoop ==
  ASSUME TablesHold, loopStep \in {"crop", "send", "await"}
  PROVE  loopAt \in TPage /\ loopAt \in Nat /\ loopAt # 0 /\ ~(loopAt <= loopAt - 1)
  <1>1. loopAt \in 0..NPages /\ loopAt # 0
    BY DEF TablesHold, TablesTyped, AheadOfLoop
  <1> QED BY <1>1, PageNumbers

LEMMA CropEndsHolds ==
  ASSUME TablesHold, NEW how \in {"table", "nothing", "failure"}, CropEnds(how)
  PROVE  TablesHold'
  <1>1. /\ loopStep = "crop" /\ loopStep' = "send" /\ kept' \in {kept, kept \cup {loopAt}}
        /\ failedPages' \in {failedPages, failedPages \cup {loopAt}}
        /\ UNCHANGED <<pageKind, loopAt, ahead, runner, held, flying, outcome, sent, answers, entry>>
    BY DEF CropEnds
  <1>2. loopAt \in TPage /\ loopAt \in Nat /\ ~(loopAt <= loopAt - 1)
    BY <1>1, PageOfLoop
  <1>3. TablesTyped'
    BY <1>1, <1>2 DEF TablesHold, TablesTyped
  <1>4. AheadOfLoop'
    BY <1>1 DEF TablesHold, AheadOfLoop
  <1>5. SentInOrder'
    <2>1. Past = loopAt - 1 /\ Past' = loopAt - 1
      BY <1>1 DEF Past
    <2>2. \A p \in TPage : p <= loopAt - 1 => (p \in kept' <=> p \in kept)
      BY <1>1, <1>2
    <2>3. {p \in TPage : p <= loopAt - 1 /\ Dense(p)' /\ p \notin kept'} = OpenTo(loopAt - 1, kept)
      BY <1>1, <2>2 DEF OpenTo, Dense
    <2>4. sent' = FirstOf(OpenTo(Past, kept))'
      BY <1>1, <2>1, <2>3 DEF TablesHold, SentInOrder, FirstOf, OpenTo
    <2>5. \A p \in kept' : p <= loopAt'
      BY <1>1, <1>2 DEF TablesHold, SentInOrder
    <2> QED BY <1>1, <2>4, <2>5 DEF TablesHold, SentInOrder
  <1>6. EntriesGood'
    BY <1>1, SameEntries DEF TablesHold
  <1> QED BY <1>3, <1>4, <1>5, <1>6 DEF TablesHold

LEMMA SendPageHolds ==
  ASSUME TablesHold, SendPage
  PROVE  TablesHold'
  <1> DEFINE before == OpenTo(loopAt - 1, kept)
             ours == Dense(loopAt) /\ loopAt \notin kept
             goes == ours /\ Cardinality(sent) < MaxVision
  <1>1. /\ loopStep = "send" /\ loopStep' = (IF goes THEN "await" ELSE "next")
        /\ sent' = (IF goes THEN sent \cup {loopAt} ELSE sent) /\ held' = held \ {loopAt}
        /\ flying' = (IF goes THEN flying ELSE flying \ (held \cap {loopAt}))
        /\ UNCHANGED <<pageKind, loopAt, ahead, runner, outcome, kept, failedPages, answers, entry>>
    BY DEF SendPage, Discarded
  <1>2. loopAt \in TPage /\ loopAt \in Nat /\ ~(loopAt <= loopAt - 1)
    BY <1>1, PageOfLoop
  <1>3. sent = FirstOf(before)
    BY <1>1 DEF TablesHold, SentInOrder, Past
  <1>4. before \in SUBSET TPage /\ \A q \in before : q < loopAt
    BY <1>2, PageNumbers DEF OpenTo
  <1>5. OpenTo(loopAt, kept) = IF ours THEN before \cup {loopAt} ELSE before
    <2>1. \A p \in TPage : p <= loopAt <=> p <= loopAt - 1 \/ p = loopAt
      BY <1>2, PageNumbers
    <2> QED BY <1>2, <2>1 DEF OpenTo
  <1>6. FirstOf(before \cup {loopAt}) = IF Cardinality(FirstOf(before)) < MaxVision THEN FirstOf(before) \cup {loopAt} ELSE FirstOf(before)
    BY <1>2, <1>4, NextOfFirst
  <1> HIDE DEF before, ours
  <1>7. sent' = FirstOf(OpenTo(loopAt, kept))
    BY <1>1, <1>3, <1>5, <1>6
  <1>8. TablesTyped'
    BY <1>1, <1>2 DEF TablesHold, TablesTyped
  <1>9. AheadOfLoop'
    <2>1. Cardinality(flying') <= Flights
      <3>1. flying' \in SUBSET flying
        BY <1>1
      <3> QED BY <3>1, FlightsAre
    <2>2. \A p \in flying' : p \in held' \/ (p = loopAt /\ loopStep' = "await")
      <3>1. \A p \in flying : p \in held
        BY <1>1 DEF TablesHold, AheadOfLoop
      <3> QED BY <1>1, <3>1
    <2>3. \A p \in held' : p > loopAt /\ (p \in flying' \/ outcome[p] # "none")
      BY <1>1 DEF TablesHold, AheadOfLoop
    <2>4. flying' \subseteq flying /\ held' \subseteq held /\ loopStep' \in {"await", "next"}
      BY <1>1
    <2> HIDE DEF goes
    <2>5. loopAt # 0
      BY <1>1, PageOfLoop
    <2> QED BY <1>1, <2>1, <2>2, <2>3, <2>4, <2>5 DEF TablesHold, AheadOfLoop
  <1>10. SentInOrder'
    <2>1. Past' = loopAt
      BY <1>1 DEF Past
    <2>2. sent' = FirstOf(OpenTo(Past, kept))'
      BY <1>1, <1>7, <2>1 DEF FirstOf, OpenTo, Dense
    <2>3. \A p \in sent : outcome[p] = "answer" \/ p \in failedPages
      BY <1>1 DEF TablesHold, SentInOrder
    <2> QED BY <1>1, <2>2, <2>3 DEF TablesHold, SentInOrder
  <1>11. EntriesGood'
    BY <1>1, SameEntries DEF TablesHold
  <1> QED BY <1>8, <1>9, <1>10, <1>11 DEF TablesHold

LEMMA AwaitedHolds ==
  ASSUME TablesHold, NEW how \in {"answer", "failure"}, Awaited(how)
  PROVE  TablesHold'
  <1>1. /\ loopStep = "await" /\ loopAt \notin flying /\ loopStep' = "next"
        /\ outcome' = [outcome EXCEPT ![loopAt] = how] /\ answers' \in {answers, answers \cup {loopAt}}
        /\ failedPages' = (IF how = "failure" THEN failedPages \cup {loopAt} ELSE failedPages)
        /\ UNCHANGED <<pageKind, loopAt, ahead, runner, held, flying, sent, kept, entry>>
    BY DEF Awaited
  <1>2. loopAt \in TPage /\ loopAt \in Nat /\ loopAt # 0
    BY <1>1, PageOfLoop
  <1>3. TablesTyped'
    <2>1. outcome' \in [TPage -> PageOutcome]
      BY <1>1, <1>2 DEF TablesHold, TablesTyped, PageOutcome
    <2> QED BY <1>1, <1>2, <2>1 DEF TablesHold, TablesTyped
  <1>4. \A q \in TPage : outcome'[q] = IF q = loopAt THEN how ELSE outcome[q]
    BY <1>1, <1>2 DEF TablesHold, TablesTyped
  <1>5. AheadOfLoop'
    <2>1. \A q \in held \cup flying : q \in TPage /\ q # loopAt
      <3>1. \A q \in held : q > loopAt
        BY <1>1 DEF TablesHold, AheadOfLoop
      <3> QED BY <1>1, <1>2, <3>1 DEF TablesHold, TablesTyped
    <2>2. loopAt <= loopAt
      BY <1>2
    <2>3. \A q \in flying : q \in held /\ q \notin answers'
      BY <1>1, <2>1 DEF TablesHold, AheadOfLoop
    <2> QED BY <1>1, <1>2, <1>4, <2>1, <2>2, <2>3 DEF TablesHold, AheadOfLoop
  <1>6. SentInOrder'
    <2>1. \A q \in sent : q \in TPage /\ (outcome'[q] = "answer" \/ q \in failedPages')
      BY <1>1, <1>4, SentArePast DEF TablesHold, SentInOrder
    <2> QED BY <1>1, <2>1, SameSent DEF TablesHold, Past
  <1>7. EntriesGood'
    BY <1>1, SameEntries DEF TablesHold
  <1> QED BY <1>3, <1>5, <1>6, <1>7 DEF TablesHold

\* A run that is over leaves nothing but its answers and its entries.
LEMMA OffHolds ==
  ASSUME TablesHold, Off, UNCHANGED <<pageKind, answers>>, EntriesGood', entry' \in [Tier -> Entry]
  PROVE  TablesHold'
  <1>1. Cardinality({}) = 0
    BY FS_EmptySet
  <1>2. TablesTyped'
    BY PageNumbers DEF Off, TablesHold, TablesTyped, PageOutcome
  <1>3. AheadOfLoop'
    BY <1>1, PageNumbers DEF Off, AheadOfLoop
  <1>4. SentInOrder'
    <2>1. Past' = 0 /\ kept' = {} /\ sent' = {}
      BY DEF Off, Past
    <2>2. OpenTo(0, {})' = {}
      BY PageNumbers DEF OpenTo
    <2> QED BY <2>1, <2>2 DEF SentInOrder, FirstOf
  <1> QED BY <1>2, <1>3, <1>4 DEF TablesHold

LEMMA EndExtractHolds ==
  ASSUME TablesHold, NEW tiers \in SUBSET Tier, EndExtract(tiers)
  PROVE  TablesHold'
  <1>1. PICK e : e = [made |-> TRUE, failed |-> failedPages, kept |-> kept, sent |-> sent,
                      answered |-> {p \in sent : outcome[p] = "answer"}]
    OBVIOUS
  <1>2. /\ loopStep = "next" /\ loopAt = NPages /\ Off /\ UNCHANGED <<pageKind, answers>>
        /\ entry' = [t \in Tier |-> IF t \in tiers THEN e ELSE entry[t]]
    BY <1>1 DEF EndExtract
  <1>3. e \in Entry
    BY <1>1 DEF TablesHold, TablesTyped, Entry
  <1>4. GoodEntry(e)
    <2>1. sent = FirstOf(OpenTo(NPages, kept))
      BY <1>2 DEF TablesHold, SentInOrder, Past
    <2>2. \A p \in sent : outcome[p] = "answer" \/ p \in failedPages
      BY <1>2 DEF TablesHold, SentInOrder
    <2>3. e.made /\ e.sent = sent /\ e.kept = kept /\ e.failed = failedPages /\ e.answered = {p \in sent : outcome[p] = "answer"}
      BY <1>1
    <2> QED BY <2>1, <2>2, <2>3 DEF GoodEntry
  <1>5. entry' \in [Tier -> Entry]
    BY <1>2, <1>3 DEF TablesHold, TablesTyped
  <1>6. EntriesGood'
    <2>1. \A t \in Tier : GoodEntry(entry'[t])
      BY <1>2, <1>4 DEF TablesHold, EntriesGood
    <2> QED BY <1>2, <2>1 DEF EntriesGood, GoodEntry, OpenTo, FirstOf, Dense
  <1> QED BY <1>2, <1>5, <1>6, OffHolds

LEMMA ExtractDiesHolds ==
  ASSUME TablesHold, ExtractDies
  PROVE  TablesHold'
  <1>1. Off /\ UNCHANGED <<pageKind, answers, entry>>
    BY DEF ExtractDies
  <1>2. EntriesGood' /\ entry' \in [Tier -> Entry]
    BY <1>1, SameEntries DEF TablesHold, TablesTyped
  <1> QED BY <1>1, <1>2, OffHolds

LEMMA NextTables ==
  ASSUME TablesHold, [TablesNext]_tableVars
  PROVE  TablesHold'
  <1>1. CASE UNCHANGED tableVars
    BY <1>1 DEF tableVars, TablesHold, TablesTyped, AheadOfLoop, SentInOrder, EntriesGood, GoodEntry, OpenTo, FirstOf, Past, Dense
  <1>2. CASE \E ahd \in BOOLEAN : StartExtract(ahd)
    BY <1>2, StartExtractHolds
  <1>3. CASE RunnerTop
    BY <1>3, RunnerTopHolds
  <1>4. CASE RunnerGoes
    BY <1>4, RunnerGoesHolds
  <1>5. CASE NextPage
    BY <1>5, NextPageHolds
  <1>6. CASE SendPage
    BY <1>6, SendPageHolds
  <1>7. CASE ExtractDies
    BY <1>7, ExtractDiesHolds
  <1>8. CASE \E p \in flying, how \in {"answer", "failure"} : RequestEnds(p, how)
    BY <1>8, RequestEndsHolds
  <1>9. CASE \E how \in {"table", "nothing", "failure"} : CropEnds(how)
    BY <1>9, CropEndsHolds
  <1>10. CASE \E how \in {"answer", "failure"} : Awaited(how)
    BY <1>10, AwaitedHolds
  <1>11. CASE \E tiers \in SUBSET Tier : EndExtract(tiers)
    BY <1>11, EndExtractHolds
  <1> QED BY <1>1, <1>2, <1>3, <1>4, <1>5, <1>6, <1>7, <1>8, <1>9, <1>10, <1>11 DEF TablesNext

LEMMA TablesAlways == Spec => []TablesHold
  <1>1. Init => TablesHold
    BY TablesStart DEF Init
  <1>2. TablesHold /\ [Next]_buildVars => TablesHold'
    <2> SUFFICES ASSUME TablesHold, [Next]_buildVars PROVE TablesHold'
      OBVIOUS
    <2>1. [TablesNext]_tableVars
      BY DEF Next, buildVars
    <2> QED BY <2>1, NextTables
  <1> QED BY <1>1, <1>2, PTL DEF Spec

\* A saved result of the table extractor sent the pages a loop that takes one at a
\* time would send, one that passes for whole has all their answers, and what is
\* fetched ahead keeps within the window and the slots.
THEOREM TablesStand == Spec => []TablesInv
  BY TablesAlways, TablesShow, PTL

-----------------------------------------------------------------------------
(***************************************************************************)
(* Requests for vectors                                                    *)
(***************************************************************************)
LEMMA UptoIs ==
  ASSUME NEW s \in Seq(Nat)
  PROVE  /\ Upto(s) \in [0..Len(s) -> Nat] /\ Upto(s)[0] = 0
         /\ \A k \in 1..Len(s) : Upto(s)[k] = Upto(s)[k - 1] + s[k]
  <1> DEFINE n == Len(s)
             G == [x \in (1..n) \X Nat |-> x[2] + s[x[1]]]
             Sum(f) == [i \in 0..n |-> IF i = 0 THEN 0 ELSE f[i - 1] + s[i]]
  <1>1. n \in Nat /\ \A k \in 1..n : s[k] \in Nat
    OBVIOUS
  <1>2. G \in [(1..n) \X Nat -> Nat]
    <2>1. ASSUME NEW x \in (1..n) \X Nat PROVE x[2] + s[x[1]] \in Nat
      <3>1. x[2] \in Nat /\ x[1] \in 1..n
        OBVIOUS
      <3> QED BY <1>1, <3>1
    <2> QED BY <2>1
  <1>3. PICK f \in [0..n -> Nat] : StepsBy(f, G, 0, n)
    BY <1>1, <1>2, StepsExist
  <1>4. \A k \in 1..n : f[k] = f[k - 1] + s[k]
    <2>1. ASSUME NEW k \in 1..n PROVE f[k] = f[k - 1] + s[k]
      <3>1. k - 1 \in 0..n
        BY <1>1
      <3>4. f[k - 1] \in Nat
        BY <3>1
      <3>2. <<k, f[k - 1]>> \in (1..n) \X Nat
        BY <3>4
      <3>3. G[<<k, f[k - 1]>>] = f[k - 1] + s[k]
        BY <3>2
      <3> QED BY <1>3, <3>3 DEF StepsBy
    <2> QED BY <2>1
  <1>5. f = Sum(f)
    <2>1. \A i \in 0..n : f[i] = Sum(f)[i]
      BY <1>1, <1>3, <1>4 DEF StepsBy
    <2>2. Sum(f) = [i \in 0..n |-> Sum(f)[i]]
      OBVIOUS
    <2> QED BY <2>1, <2>2
  <1>6. Upto(s) = CHOOSE sum : sum = [i \in 0..Len(s) |-> IF i = 0 THEN 0 ELSE sum[i - 1] + s[i]]
    BY DEF Upto
  <1>7. Upto(s) = Sum(Upto(s))
    BY <1>5, <1>6
  <1> DEFINE u == Upto(s)
  <1>8. u = [i \in 0..n |-> IF i = 0 THEN 0 ELSE u[i - 1] + s[i]]
    BY <1>7
  <1> HIDE DEF u, G, Sum
  <1>9. u[0] = 0 /\ \A k \in 1..n : u[k] = u[k - 1] + s[k]
    <2>1. \A i \in 0..n : u[i] = IF i = 0 THEN 0 ELSE u[i - 1] + s[i]
      BY <1>8
    <2>2. 0 \in 0..n /\ \A k \in 1..n : k \in 0..n /\ k # 0
      BY <1>1
    <2> QED BY <2>1, <2>2
  <1>10. \A i \in 0..n : u[i] \in Nat
    <2> DEFINE T == {i \in Nat : i <= n => u[i] \in Nat}
    <2>1. 0 \in T
      BY <1>9
    <2>2. ASSUME NEW i \in T PROVE i + 1 \in T
      <3> SUFFICES ASSUME i + 1 <= n PROVE u[i + 1] \in Nat
        OBVIOUS
      <3>1. i + 1 \in 1..n /\ (i + 1) - 1 = i /\ u[i] \in Nat
        BY <1>1
      <3>2. u[i + 1] = u[i] + s[i + 1]
        BY <1>9, <3>1
      <3> QED BY <1>1, <3>1, <3>2
    <2> HIDE DEF T
    <2>3. T \in SUBSET Nat
      BY DEF T
    <2>4. \A i \in Nat : i \in T
      BY <2>1, <2>2, <2>3, Climb
    <2> QED BY <1>1, <2>4 DEF T
  <1>11. u \in [0..n -> Nat]
    BY <1>8, <1>10
  <1> QED BY <1>9, <1>11 DEF u

\* A plan in the making, and the ranges it has closed.
Range2 == Nat \X Nat
Acc == [start : Nat, running : Nat, out : Seq(Range2)]
Covers(r, p) == r[1] <= p /\ p <= r[2]
Capped(r) == r[1] = r[2] \/ Upto(counts)[r[2]] - Upto(counts)[r[1] - 1] <= RequestCap

Tiles(rs, m) ==
  /\ \A p \in 1..m : \E k \in DOMAIN rs : Covers(rs[k], p)
  /\ \A k \in DOMAIN rs : 1 <= rs[k][1] /\ rs[k][1] <= rs[k][2] /\ rs[k][2] <= m
  /\ \A j, k \in DOMAIN rs : \A p \in Nat : Covers(rs[j], p) /\ Covers(rs[k], p) => j = k

GoodCut(a, i) ==
  /\ a \in Acc /\ 1 <= a.start /\ (a.start <= i \/ (i = 0 /\ a.start = 1))
  /\ a.running = Upto(counts)[i] - Upto(counts)[a.start - 1]
  /\ a.start = i \/ a.running <= RequestCap
  /\ Tiles(a.out, a.start - 1) /\ \A k \in DOMAIN a.out : Capped(a.out[k])

LEMMA OneMoreTile ==
  ASSUME NEW rs \in Seq(Range2), NEW m \in Nat, NEW n \in Nat, m < n, Tiles(rs, m),
         \A k \in DOMAIN rs : Capped(rs[k]), Capped(<<m + 1, n>>)
  PROVE  LET new == Append(rs, <<m + 1, n>>) IN
         new \in Seq(Range2) /\ Tiles(new, n) /\ \A k \in DOMAIN new : Capped(new[k])
  <1> DEFINE new == Append(rs, <<m + 1, n>>)
             l == Len(rs)
  <1>1. new \in Seq(Range2) /\ l \in Nat /\ DOMAIN rs = 1..l /\ DOMAIN new = 1..(l + 1)
    BY DEF Range2
  <1>2. new[l + 1] = <<m + 1, n>> /\ \A k \in 1..l : new[k] = rs[k]
    OBVIOUS
  <1>3. \A k \in 1..(l + 1) : k \in 1..l \/ k = l + 1
    BY <1>1
  <1>4. \A k \in 1..l : rs[k] \in Range2 /\ rs[k][1] \in Nat /\ rs[k][2] \in Nat
    BY DEF Range2
  <1> HIDE DEF new, l
  <1>5. \A k \in DOMAIN new : Capped(new[k])
    BY <1>1, <1>2, <1>3
  <1>6. ASSUME NEW p \in 1..n PROVE \E k \in DOMAIN new : Covers(new[k], p)
    <2>1. CASE p <= m
      <3>1. PICK k \in 1..l : Covers(rs[k], p)
        BY <1>1, <2>1 DEF Tiles
      <3> QED BY <1>1, <1>2, <3>1
    <2>2. CASE ~(p <= m)
      <3>1. Covers(<<m + 1, n>>, p)
        BY <2>2 DEF Covers
      <3>2. l + 1 \in DOMAIN new
        BY <1>1
      <3> QED BY <1>2, <3>1, <3>2
    <2> QED BY <2>1, <2>2
  <1>7. ASSUME NEW k \in DOMAIN new PROVE 1 <= new[k][1] /\ new[k][1] <= new[k][2] /\ new[k][2] <= n
    <2>1. CASE k \in 1..l
      BY <1>1, <1>2, <1>4, <2>1 DEF Tiles
    <2>2. CASE k = l + 1
      BY <1>2, <2>2
    <2> QED BY <1>1, <1>3, <2>1, <2>2
  <1>8. \A k \in 1..l : \A p \in Nat : Covers(rs[k], p) => p <= m
    <2>1. ASSUME NEW k \in 1..l, NEW p \in Nat, Covers(rs[k], p) PROVE p <= m
      <3>1. p <= rs[k][2] /\ rs[k][2] \in Nat
        BY <1>4, <2>1 DEF Covers
      <3>2. rs[k][2] <= m
        BY <1>1 DEF Tiles
      <3> QED BY <3>1, <3>2
    <2> QED BY <2>1
  <1>9. \A p \in Nat : Covers(<<m + 1, n>>, p) => ~(p <= m)
    BY DEF Covers
  <1>10. ASSUME NEW j \in DOMAIN new, NEW k \in DOMAIN new, NEW p \in Nat, Covers(new[j], p), Covers(new[k], p)
         PROVE  j = k
    <2>1. CASE j \in 1..l /\ k \in 1..l
      BY <1>1, <1>2, <1>10, <2>1 DEF Tiles
    <2>2. CASE j = l + 1
      BY <1>1, <1>2, <1>3, <1>8, <1>9, <1>10, <2>2
    <2>3. CASE k = l + 1
      BY <1>1, <1>2, <1>3, <1>8, <1>9, <1>10, <2>3
    <2> QED BY <1>1, <1>3, <2>1, <2>2, <2>3
  <1> QED BY <1>1, <1>5, <1>6, <1>7, <1>10 DEF Tiles, new

LEMMA CutIsAcc ==
  ASSUME counts \in Seq(Nat), NEW a \in Acc, NEW i \in 1..Len(counts)
  PROVE  Cut(a, i) \in Acc
  <1>1. counts[i] \in Nat /\ i \in Nat /\ a.start \in Nat /\ a.running \in Nat /\ a.out \in Seq(Range2)
    BY DEF Acc
  <1>2. i - 1 \in Nat
    OBVIOUS
  <1>3. <<a.start, i - 1>> \in Range2
    BY <1>1, <1>2 DEF Range2
  <1>4. Append(a.out, <<a.start, i - 1>>) \in Seq(Range2)
    BY <1>1, <1>3
  <1> DEFINE o == Append(a.out, <<a.start, i - 1>>)
             r == a.running + counts[i]
  <1>5. r \in Nat /\ o \in Seq(Range2)
    BY <1>1, <1>4
  <1>6. Cut(a, i) \in {[start |-> i, running |-> counts[i], out |-> o], [a EXCEPT !.running = r]}
    BY DEF Cut
  <1> HIDE DEF o, r
  <1>7. [start |-> i, running |-> counts[i], out |-> o] \in Acc
    BY <1>1, <1>5 DEF Acc
  <1>8. [a EXCEPT !.running = r] \in Acc
    BY <1>5 DEF Acc
  <1> QED BY <1>6, <1>7, <1>8

LEMMA CutGoesOn ==
  ASSUME counts \in Seq(Nat), NEW i \in 0..Len(counts), i < Len(counts), NEW a, GoodCut(a, i)
  PROVE  GoodCut(Cut(a, i + 1), i + 1)
  <1> DEFINE n == counts[i + 1]
             u == Upto(counts)
             close == i + 1 > a.start /\ (a.running + n > RequestCap \/ (i + 1) - a.start >= BatchSize)
  <1>1. i \in Nat /\ i + 1 \in 1..Len(counts) /\ (i + 1) - 1 = i /\ RequestCap \in Nat /\ n \in Nat
    BY CallsAssumption
  <1>2. a \in Acc /\ a.start \in Nat /\ a.running \in Nat /\ a.out \in Seq(Range2) /\ 1 <= a.start
    BY DEF GoodCut, Acc
  <1>3. u[i] \in Nat /\ u[a.start - 1] \in Nat /\ u[i + 1] = u[i] + n
    <2>1. a.start - 1 \in 0..Len(counts)
      BY <1>1, <1>2 DEF GoodCut
    <2> QED BY <1>1, <2>1, UptoIs
  <1>4. Cut(a, i + 1) \in Acc
    BY <1>1, <1>2, CutIsAcc
  <1> DEFINE b == Cut(a, i + 1)
  <1>5. CASE close
    <2>1. b = [start |-> i + 1, running |-> n, out |-> Append(a.out, <<a.start, (i + 1) - 1>>)]
      BY <1>5 DEF Cut
    <2>2. b.start = i + 1 /\ b.running = n /\ b.out = Append(a.out, <<a.start, i>>)
      BY <1>1, <2>1
    <2>3. i # 0 /\ a.start <= i
      BY <1>1, <1>2, <1>5 DEF GoodCut
    <2>4. Capped(<<a.start, i>>)
      BY <1>2 DEF GoodCut, Capped
    <2>5. PICK m \in Nat : m = a.start - 1 /\ m + 1 = a.start /\ m < i
      BY <1>1, <1>2, <2>3
    <2>6. Tiles(a.out, m) /\ \A k \in DOMAIN a.out : Capped(a.out[k])
      BY <2>5 DEF GoodCut
    <2>7. Tiles(b.out, i) /\ \A k \in DOMAIN b.out : Capped(b.out[k])
      BY <1>1, <1>2, <2>2, <2>4, <2>5, <2>6, OneMoreTile
    <2>8. n = u[i + 1] - u[i]
      BY <1>1, <1>3
    <2> HIDE DEF b, u, n
    <2> QED BY <1>1, <1>4, <2>2, <2>7, <2>8 DEF GoodCut, b, u
  <1>6. CASE ~close
    <2>1. b = [a EXCEPT !.running = a.running + n]
      BY <1>6 DEF Cut
    <2>2. b.start = a.start /\ b.running = a.running + n /\ b.out = a.out
      BY <1>2, <2>1 DEF Acc
    <2>3. b.start <= i + 1
      BY <1>1, <1>2, <2>2 DEF GoodCut
    <2>4. b.running = u[i + 1] - u[b.start - 1]
      <3>1. a.running = u[i] - u[a.start - 1]
        BY DEF GoodCut
      <3> HIDE DEF b, u, n
      <3> QED BY <1>1, <1>3, <2>2, <3>1
    <2>5. b.start = i + 1 \/ b.running <= RequestCap
      BY <1>1, <1>2, <1>6, <2>2, <2>3
    <2>6. Tiles(b.out, b.start - 1) /\ \A k \in DOMAIN b.out : Capped(b.out[k])
      BY <2>2 DEF GoodCut
    <2> HIDE DEF b, n
    <2> QED BY <1>1, <1>2, <1>4, <2>2, <2>3, <2>4, <2>5, <2>6 DEF GoodCut, b
  <1> QED BY <1>5, <1>6

\* The requests share out all texts, and only a text that is alone is over the cap.
LEMMA PlanTiles ==
  ASSUME counts \in Seq(Nat)
  PROVE  Planned \in Seq(Range2) /\ Tiles(Planned, Len(counts)) /\ \A k \in DOMAIN Planned : Capped(Planned[k])
  <1>1. CASE counts = <<>>
    <2>1. Planned = <<>> /\ Len(counts) = 0
      BY <1>1 DEF Planned
    <2> QED BY <2>1 DEF Tiles
  <1>2. CASE counts # <<>>
    <2> DEFINE n == Len(counts)
               first == [start |-> 1, running |-> 0, out |-> <<>>]
               G == [x \in (1..n) \X Acc |-> Cut(x[2], x[1])]
               Cuts(f) == [i \in 0..n |-> IF i = 0 THEN first ELSE Cut(f[i - 1], i)]
               cut == CHOOSE cut : cut = Cuts(cut)
    <2>1. n \in Nat /\ n # 0
      BY <1>2
    <2>2. first \in Acc
      BY DEF Acc
    <2>3. G \in [(1..n) \X Acc -> Acc]
      <3>1. ASSUME NEW x \in (1..n) \X Acc PROVE Cut(x[2], x[1]) \in Acc
        BY CutIsAcc
      <3> QED BY <3>1
    <2> HIDE DEF first
    <2>4. PICK f \in [0..n -> Acc] : StepsBy(f, G, first, n)
      BY <2>1, <2>2, <2>3, StepsExist
    <2>5. f = Cuts(f)
      <3>1. ASSUME NEW i \in 0..n PROVE f[i] = IF i = 0 THEN first ELSE Cut(f[i - 1], i)
        <4>1. CASE i = 0
          BY <2>4, <4>1 DEF StepsBy
        <4>2. CASE i # 0
          <5>1. i \in 1..n /\ i - 1 \in 0..n
            BY <2>1, <4>2
          <5>2. f[i - 1] \in Acc
            BY <5>1
          <5>3. <<i, f[i - 1]>> \in (1..n) \X Acc
            BY <5>1, <5>2
          <5>4. G[<<i, f[i - 1]>>] = Cut(f[i - 1], i)
            BY <5>3
          <5> QED BY <2>4, <4>2, <5>1, <5>4 DEF StepsBy
        <4> QED BY <4>1, <4>2
      <3> QED BY <3>1
    <2>6. cut = Cuts(cut)
      BY <2>5
    <2>7. Planned = Append(cut[n].out, <<cut[n].start, n>>)
      BY <1>2 DEF Planned, first
    <2> HIDE DEF cut
    <2>8. cut[0] = first
      BY <2>1, <2>6
    <2>9. \A i \in 1..n : cut[i] = Cut(cut[i - 1], i)
      <3>1. \A i \in 0..n : cut[i] = IF i = 0 THEN first ELSE Cut(cut[i - 1], i)
        BY <2>6
      <3>2. \A i \in 1..n : i \in 0..n /\ i # 0
        BY <2>1
      <3> QED BY <3>1, <3>2
    <2> HIDE DEF G, Cuts
    <2>10. GoodCut(first, 0)
      <3>1. Upto(counts)[0] = 0 /\ RequestCap \in Nat
        BY UptoIs, CallsAssumption
      <3>2. first.start = 1 /\ first.running = 0 /\ first.out = <<>>
        BY DEF first
      <3>3. Tiles(<<>>, 0) /\ \A k \in DOMAIN <<>> : Capped(<<>>[k])
        BY DEF Tiles
      <3> QED BY <2>2, <3>1, <3>2, <3>3 DEF GoodCut
    <2>11. \A i \in Nat : i <= n => GoodCut(cut[i], i)
      <3> DEFINE T == {i \in Nat : i <= n => GoodCut(cut[i], i)}
      <3>1. 0 \in T
        BY <2>8, <2>10
      <3>2. ASSUME NEW i \in T PROVE i + 1 \in T
        <4> SUFFICES ASSUME i + 1 <= n PROVE GoodCut(cut[i + 1], i + 1)
          OBVIOUS
        <4>1. i \in 0..n /\ i < n /\ i + 1 \in 1..n /\ (i + 1) - 1 = i /\ GoodCut(cut[i], i)
          BY <2>1
        <4>2. cut[i + 1] = Cut(cut[i], i + 1)
          BY <2>9, <4>1
        <4> QED BY <4>1, <4>2, CutGoesOn
      <3> HIDE DEF T
      <3>3. T \in SUBSET Nat
        BY DEF T
      <3>4. \A i \in Nat : i \in T
        BY <3>1, <3>2, <3>3, Climb
      <3> QED BY <3>4 DEF T
    <2>12. PICK a : a = cut[n]
      OBVIOUS
    <2>13. GoodCut(a, n)
      BY <2>1, <2>11, <2>12
    <2>14. a.out \in Seq(Range2) /\ a.start \in Nat /\ 1 <= a.start /\ a.start <= n
      BY <2>1, <2>13 DEF GoodCut, Acc
    <2>15. PICK m \in Nat : m = a.start - 1 /\ m + 1 = a.start /\ m < n
      BY <2>1, <2>14
    <2>16. Tiles(a.out, m) /\ (\A k \in DOMAIN a.out : Capped(a.out[k])) /\ Capped(<<a.start, n>>)
      BY <2>13, <2>15 DEF GoodCut, Capped
    <2>17. Planned = Append(a.out, <<m + 1, n>>)
      BY <2>7, <2>12, <2>15
    <2> QED BY <2>1, <2>14, <2>15, <2>16, <2>17, OneMoreTile
  <1> QED BY <1>1, <1>2

BatchAt == {"todo", "calling", "done", "failed"}
Calling == {j \in DOMAIN batchAt : batchAt[j] = "calling"}

EmbedTyped ==
  /\ counts \in Seq(Nat) /\ ranges \in Seq(Range2)
  /\ Tiles(ranges, Len(counts)) /\ \A k \in DOMAIN ranges : Capped(ranges[k])
  /\ batchAt \in [DOMAIN ranges -> BatchAt] /\ batchTries \in [DOMAIN ranges -> 0..EmbedTries]
  /\ vectors \in [1..Len(counts) -> 0..Len(counts)] /\ embedded \in {"running", "returned", "raised"}

\* What the requests have brought, and that none is out when the call ends.
EmbedHolds ==
  /\ EmbedTyped
  /\ IsFiniteSet(Calling) /\ Cardinality(Calling) <= EmbedSlots
  /\ \A i \in DOMAIN ranges : \A p \in DOMAIN vectors :
       Covers(ranges[i], p) => vectors[p] = (IF batchAt[i] = "done" THEN p ELSE 0)
  /\ embedded # "running" => \A i \in DOMAIN ranges : batchAt[i] \in {"done", "failed"}
  /\ embedded = "returned" => \A i \in DOMAIN ranges : batchAt[i] = "done"

LEMMA EmbedStart0 ==
  ASSUME EmbedInit
  PROVE  EmbedHolds
  <1>1. PICK n \in 0..MaxTexts : \E texts \in [1..n -> TokenCounts] :
          counts = [p \in 1..n |-> IF texts[p] > InputCap THEN InputCap ELSE texts[p]]
    BY DEF EmbedInit
  <1>2. n \in Nat /\ counts \in Seq(Nat)
    <2>1. PICK texts \in [1..n -> TokenCounts] : counts = [p \in 1..n |-> IF texts[p] > InputCap THEN InputCap ELSE texts[p]]
      BY <1>1
    <2>2. InputCap \in Nat /\ \A p \in 1..n : texts[p] \in Nat
      BY CallsAssumption
    <2>3. counts \in [1..n -> Nat]
      BY <2>1, <2>2
    <2>4. n \in Nat
      OBVIOUS
    <2> QED BY <2>3, <2>4
  <1>3. ranges = Planned /\ batchAt = [i \in DOMAIN ranges |-> "todo"] /\ batchTries = [i \in DOMAIN ranges |-> 0]
        /\ vectors = [p \in DOMAIN counts |-> 0] /\ embedded = "running"
    BY DEF EmbedInit
  <1>4. ranges \in Seq(Range2) /\ Tiles(ranges, Len(counts)) /\ \A k \in DOMAIN ranges : Capped(ranges[k])
    BY <1>2, <1>3, PlanTiles
  <1>5. EmbedTries \in Nat /\ EmbedSlots \in Nat
    BY CallsAssumption
  <1>6. EmbedTyped
    <2>1. DOMAIN counts = 1..Len(counts) /\ Len(counts) \in Nat
      BY <1>2
    <2>2. vectors \in [1..Len(counts) -> 0..Len(counts)]
      BY <1>3, <2>1
    <2>3. batchAt \in [DOMAIN ranges -> BatchAt]
      BY <1>3 DEF BatchAt
    <2>4. batchTries \in [DOMAIN ranges -> 0..EmbedTries]
      BY <1>3, <1>5
    <2> QED BY <1>2, <1>3, <1>4, <2>2, <2>3, <2>4 DEF EmbedTyped
  <1>7. Calling = {}
    BY <1>3 DEF Calling
  <1>8. IsFiniteSet(Calling) /\ Cardinality(Calling) <= EmbedSlots
    BY <1>5, <1>7, FS_EmptySet
  <1> QED BY <1>3, <1>6, <1>8 DEF EmbedHolds

LEMMA SameCapped ==
  ASSUME UNCHANGED counts
  PROVE  \A r : Capped(r)' <=> Capped(r)
  BY DEF Capped

\* A request that is on its way takes a slot, and gives it back.
LEMMA SlotsKept ==
  ASSUME EmbedHolds, NEW i \in DOMAIN ranges, NEW at \in BatchAt, batchAt' = [batchAt EXCEPT ![i] = at],
         at = "calling" => batchAt[i] = "calling" \/ Cardinality(Calling) < EmbedSlots
  PROVE  IsFiniteSet(Calling)' /\ Cardinality(Calling)' <= EmbedSlots
  <1>1. IsFiniteSet(Calling) /\ Cardinality(Calling) <= EmbedSlots /\ EmbedSlots \in Nat /\ Cardinality(Calling) \in Nat
    BY CallsAssumption, FS_CardinalityType DEF EmbedHolds
  <1>2. batchAt \in [DOMAIN ranges -> BatchAt]
    BY DEF EmbedHolds, EmbedTyped
  <1>3. CASE at = "calling"
    <2>1. Calling' = Calling \cup {i}
      BY <1>2, <1>3 DEF Calling
    <2>2. CASE batchAt[i] = "calling"
      <3>1. Calling' = Calling
        BY <1>2, <2>1, <2>2 DEF Calling
      <3> QED BY <1>1, <3>1
    <2>3. CASE Cardinality(Calling) < EmbedSlots
      <3>1. IsFiniteSet(Calling \cup {i}) /\ Cardinality(Calling \cup {i}) <= Cardinality(Calling) + 1
            /\ Cardinality(Calling \cup {i}) \in Nat
        BY <1>1, FiniteTurns
      <3> QED BY <1>1, <2>1, <2>3, <3>1
    <2> QED BY <1>3, <2>2, <2>3
  <1>4. CASE at # "calling"
    <2>1. Calling' \in SUBSET Calling
      BY <1>2, <1>4 DEF Calling
    <2>2. IsFiniteSet(Calling') /\ Cardinality(Calling') <= Cardinality(Calling)
      BY <1>1, <2>1, FS_Subset
    <2>3. Cardinality(Calling') \in Nat
      BY <2>2, FS_CardinalityType
    <2> QED BY <1>1, <2>2, <2>3
  <1> QED BY <1>3, <1>4

LEMMA EmbedStartHolds ==
  ASSUME EmbedHolds, NEW i \in DOMAIN batchAt, EmbedStart(i)
  PROVE  EmbedHolds'
  <1>1. /\ embedded = "running" /\ batchAt[i] = "todo" /\ Cardinality(Calling) < EmbedSlots
        /\ batchAt' = [batchAt EXCEPT ![i] = "calling"] /\ batchTries' = [batchTries EXCEPT ![i] = 1]
        /\ UNCHANGED <<counts, ranges, vectors, embedded>>
    BY DEF EmbedStart, Calling
  <1>2. i \in DOMAIN ranges /\ batchAt \in [DOMAIN ranges -> BatchAt] /\ batchTries \in [DOMAIN ranges -> 0..EmbedTries]
    BY DEF EmbedHolds, EmbedTyped
  <1>3. 1 \in 0..EmbedTries /\ "calling" \in BatchAt
    BY CallsAssumption DEF BatchAt
  <1>4. EmbedTyped'
    BY <1>1, <1>2, <1>3, SameCapped DEF EmbedHolds, EmbedTyped, Tiles
  <1>5. IsFiniteSet(Calling)' /\ Cardinality(Calling)' <= EmbedSlots
    BY <1>1, <1>2, <1>3, SlotsKept
  <1>6. \A j \in DOMAIN ranges : batchAt'[j] = "done" <=> batchAt[j] = "done"
    BY <1>1, <1>2
  <1> QED BY <1>1, <1>4, <1>5, <1>6 DEF EmbedHolds

\* The vectors of a request are written where its texts are.
LEMMA EmbedReturnsHolds ==
  ASSUME EmbedHolds, NEW i \in DOMAIN batchAt, EmbedReturns(i)
  PROVE  EmbedHolds'
  <1> DEFINE r == ranges[i]
             size == r[2] - r[1] + 1
             At(p, k) == PlaceOf(i, k) = p
             V(p) == IF \E k \in 1..size : PlaceOf(i, k) = p
                     THEN r[1] + (CHOOSE k \in 1..size : PlaceOf(i, k) = p) - 1 ELSE vectors[p]
  <1>1. /\ batchAt[i] = "calling" /\ batchAt' = [batchAt EXCEPT ![i] = "done"]
        /\ UNCHANGED <<counts, ranges, batchTries, embedded>>
        /\ vectors' = [p \in DOMAIN vectors |-> V(p)]
    BY DEF EmbedReturns
  <1>2. /\ i \in DOMAIN ranges /\ batchAt \in [DOMAIN ranges -> BatchAt] /\ "done" \in BatchAt
        /\ vectors \in [1..Len(counts) -> 0..Len(counts)] /\ Len(counts) \in Nat
    BY DEF EmbedHolds, EmbedTyped, BatchAt
  <1>3. r[1] \in Nat /\ r[2] \in Nat
    <2>1. r \in Range2
      BY <1>2 DEF EmbedHolds, EmbedTyped
    <2> QED BY <2>1 DEF Range2
  <1>4. ASSUME NEW p \in DOMAIN vectors PROVE V(p) = IF Covers(r, p) THEN p ELSE vectors[p]
    <2>1. p \in Nat
      BY <1>2
    <2>2. CASE Covers(r, p)
      <3>1. p - r[1] + 1 \in 1..size /\ PlaceOf(i, p - r[1] + 1) = p
        BY <1>3, <2>1, <2>2 DEF Covers, PlaceOf
      <3>2. \E k \in 1..size : PlaceOf(i, k) = p
        BY <3>1
      <3>3. PICK c : c = CHOOSE k \in 1..size : PlaceOf(i, k) = p
        OBVIOUS
      <3>4. c \in 1..size /\ PlaceOf(i, c) = p
        BY <3>2, <3>3
      <3>5. r[1] + c - 1 = p
        BY <1>3, <3>4 DEF PlaceOf
      <3> QED BY <2>2, <3>2, <3>3, <3>5
    <2>3. CASE ~Covers(r, p)
      <3>1. ~\E k \in 1..size : PlaceOf(i, k) = p
        BY <1>3, <2>1, <2>3 DEF Covers, PlaceOf
      <3> QED BY <2>3, <3>1
    <2> QED BY <2>2, <2>3
  <1> HIDE DEF V
  <1>5. \A p \in DOMAIN vectors : vectors'[p] = IF Covers(r, p) THEN p ELSE vectors[p]
    BY <1>1, <1>4
  <1>6. vectors' \in [1..Len(counts) -> 0..Len(counts)]
    <2>1. \A p \in 1..Len(counts) : p \in 0..Len(counts) /\ V(p) \in 0..Len(counts)
      BY <1>2, <1>4
    <2> QED BY <1>1, <1>2, <2>1
  <1> HIDE DEF size, r
  <1>7. EmbedTyped'
    <2>1. batchAt' \in [DOMAIN ranges -> BatchAt]
      BY <1>1, <1>2
    <2> QED BY <1>1, <1>6, <2>1, SameCapped DEF EmbedHolds, EmbedTyped, Tiles
  <1>8. IsFiniteSet(Calling)' /\ Cardinality(Calling)' <= EmbedSlots
    BY <1>1, <1>2, SlotsKept
  <1>9. embedded = "running"
    BY <1>1, <1>2 DEF EmbedHolds
  <1>10. ASSUME NEW j \in DOMAIN ranges, NEW p \in DOMAIN vectors, Covers(ranges[j], p)
         PROVE  vectors'[p] = IF batchAt'[j] = "done" THEN p ELSE 0
    <2>1. CASE j = i
      BY <1>1, <1>2, <1>5, <1>10, <2>1 DEF r
    <2>2. CASE j # i
      <3>1. p \in Nat
        BY <1>2
      <3>2. ~Covers(r, p)
        BY <1>2, <1>10, <2>2, <3>1 DEF EmbedHolds, EmbedTyped, Tiles, r
      <3> QED BY <1>1, <1>2, <1>5, <1>10, <2>2, <3>2 DEF EmbedHolds
    <2> QED BY <2>1, <2>2
  <1>11. DOMAIN vectors' = DOMAIN vectors
    BY <1>1
  <1> QED BY <1>1, <1>7, <1>8, <1>9, <1>10, <1>11 DEF EmbedHolds

LEMMA EmbedFailsHolds ==
  ASSUME EmbedHolds, NEW i \in DOMAIN batchAt, NEW retryable \in BOOLEAN, EmbedFails(i, retryable)
  PROVE  EmbedHolds'
  <1>1. /\ batchAt[i] = "calling" /\ UNCHANGED <<counts, ranges, vectors, embedded>>
        /\ \/ /\ batchTries[i] < EmbedTries /\ batchTries' = [batchTries EXCEPT ![i] = @ + 1] /\ batchAt' = batchAt
           \/ batchAt' = [batchAt EXCEPT ![i] = "failed"] /\ batchTries' = batchTries
    BY DEF EmbedFails
  <1>2. /\ i \in DOMAIN ranges /\ batchAt \in [DOMAIN ranges -> BatchAt] /\ batchTries \in [DOMAIN ranges -> 0..EmbedTries]
        /\ "failed" \in BatchAt /\ EmbedTries \in Nat
    BY CallsAssumption DEF EmbedHolds, EmbedTyped, BatchAt
  <1>3. embedded = "running"
    BY <1>1, <1>2 DEF EmbedHolds
  <1>4. batchTries' \in [DOMAIN ranges -> 0..EmbedTries] /\ batchAt' \in [DOMAIN ranges -> BatchAt]
    <2>1. batchTries[i] < EmbedTries => batchTries[i] + 1 \in 0..EmbedTries
      BY <1>2
    <2> QED BY <1>1, <1>2, <2>1
  <1>5. EmbedTyped'
    BY <1>1, <1>4, SameCapped DEF EmbedHolds, EmbedTyped, Tiles
  <1>6. IsFiniteSet(Calling)' /\ Cardinality(Calling)' <= EmbedSlots
    <2>1. CASE batchAt' = batchAt
      BY <2>1 DEF EmbedHolds, Calling
    <2>2. CASE batchAt' = [batchAt EXCEPT ![i] = "failed"]
      BY <1>2, <2>2, SlotsKept
    <2> QED BY <1>1, <2>1, <2>2
  <1>7. \A j \in DOMAIN ranges : batchAt'[j] = "done" <=> batchAt[j] = "done"
    BY <1>1, <1>2
  <1> QED BY <1>1, <1>3, <1>5, <1>6, <1>7 DEF EmbedHolds

LEMMA EmbedEndsHolds ==
  ASSUME EmbedHolds, EmbedEnds
  PROVE  EmbedHolds'
  <1>1. /\ UNCHANGED <<counts, ranges, batchAt, batchTries, vectors>>
        /\ \A i \in DOMAIN batchAt : batchAt[i] \in {"done", "failed"}
        /\ embedded' = IF \E i \in DOMAIN batchAt : batchAt[i] = "failed" THEN "raised" ELSE "returned"
    BY DEF EmbedEnds
  <1>2. DOMAIN batchAt = DOMAIN ranges
    BY DEF EmbedHolds, EmbedTyped
  <1>3. EmbedTyped'
    BY <1>1, SameCapped DEF EmbedHolds, EmbedTyped, Tiles
  <1>4. IsFiniteSet(Calling)' /\ Cardinality(Calling)' <= EmbedSlots
    BY <1>1 DEF EmbedHolds, Calling
  <1> QED BY <1>1, <1>2, <1>3, <1>4 DEF EmbedHolds

LEMMA NextEmbed ==
  ASSUME EmbedHolds, EmbedNext \/ UNCHANGED embedVars
  PROVE  EmbedHolds'
  <1>1. CASE UNCHANGED embedVars
    <2>1. UNCHANGED <<counts, ranges, batchAt, batchTries, vectors, embedded>>
      BY <1>1 DEF embedVars
    <2> QED BY <2>1, SameCapped DEF EmbedHolds, EmbedTyped, Tiles, Calling
  <1>2. CASE EmbedNext
    BY <1>2, EmbedStartHolds, EmbedReturnsHolds, EmbedFailsHolds, EmbedEndsHolds DEF EmbedNext
  <1> QED BY <1>1, <1>2

LEMMA EmbedShows ==
  ASSUME EmbedHolds
  PROVE  VectorsInPlace
  <1>1. /\ ranges \in Seq(Range2) /\ Tiles(ranges, Len(counts)) /\ vectors \in [1..Len(counts) -> 0..Len(counts)]
        /\ batchAt \in [DOMAIN ranges -> BatchAt] /\ Len(counts) \in Nat
    BY DEF EmbedHolds, EmbedTyped
  <1>2. \A i \in DOMAIN ranges : \A p \in DOMAIN vectors :
          Covers(ranges[i], p) => vectors[p] = (IF batchAt[i] = "done" THEN p ELSE 0)
    BY DEF EmbedHolds
  <1>3. ASSUME embedded = "returned", NEW p \in DOMAIN vectors PROVE vectors[p] = p
    <2>1. PICK i \in DOMAIN ranges : Covers(ranges[i], p)
      BY <1>1 DEF Tiles
    <2>2. batchAt[i] = "done"
      BY <1>3 DEF EmbedHolds
    <2> QED BY <1>2, <2>1, <2>2
  <1>4. ASSUME embedded = "raised", NEW i \in DOMAIN ranges, NEW p \in ranges[i][1]..ranges[i][2]
        PROVE  vectors[p] = IF batchAt[i] = "failed" THEN 0 ELSE p
    <2>1. ranges[i] \in Range2
      BY <1>1
    <2>2. ranges[i][1] \in Nat /\ ranges[i][2] \in Nat
      BY <2>1 DEF Range2
    <2>3. p \in DOMAIN vectors /\ Covers(ranges[i], p)
      BY <1>1, <2>2 DEF Tiles, Covers
    <2>4. batchAt[i] \in {"done", "failed"}
      BY <1>4 DEF EmbedHolds
    <2> QED BY <1>2, <2>3, <2>4
  <1>5. \A i \in DOMAIN ranges : Capped(ranges[i])
    BY DEF EmbedHolds, EmbedTyped
  <1> QED BY <1>3, <1>4, <1>5 DEF VectorsInPlace, Capped

-----------------------------------------------------------------------------
(***************************************************************************)
(* Counts of the chat calls                                                *)
(***************************************************************************)
\* One term of a sum grows by one, and so does the sum.
LEMMA UptoGrows ==
  ASSUME NEW n \in Nat, NEW s \in [1..n -> Nat], NEW t \in [1..n -> Nat], NEW k \in 1..n,
         t[k] = s[k] + 1, \A j \in 1..n : j # k => t[j] = s[j]
  PROVE  Upto(t)[n] = Upto(s)[n] + 1
  <1>1. s \in Seq(Nat) /\ t \in Seq(Nat) /\ Len(s) = n /\ Len(t) = n
    OBVIOUS
  <1> DEFINE u == Upto(s)
             v == Upto(t)
             T == {m \in Nat : m <= n => v[m] = u[m] + (IF k <= m THEN 1 ELSE 0)}
  <1>2. /\ u \in [0..n -> Nat] /\ u[0] = 0 /\ \A j \in 1..n : u[j] = u[j - 1] + s[j]
        /\ v \in [0..n -> Nat] /\ v[0] = 0 /\ \A j \in 1..n : v[j] = v[j - 1] + t[j]
    BY <1>1, UptoIs
  <1> HIDE DEF u, v
  <1>3. 0 \in T
    BY <1>2
  <1>4. ASSUME NEW m \in T PROVE m + 1 \in T
    <2> SUFFICES ASSUME m + 1 <= n PROVE v[m + 1] = u[m + 1] + (IF k <= m + 1 THEN 1 ELSE 0)
      OBVIOUS
    <2>1. PICK j \in 1..n : j = m + 1
      OBVIOUS
    <2>2. u[j] = u[m] + s[j] /\ v[j] = v[m] + t[j] /\ u[m] \in Nat /\ s[j] \in Nat
      <3>1. j - 1 = m /\ m \in 0..n
        BY <2>1
      <3> QED BY <1>2, <3>1
    <2>3. v[m] = u[m] + (IF k <= m THEN 1 ELSE 0)
      BY <2>1
    <2>4. t[j] = IF j = k THEN s[j] + 1 ELSE s[j]
      OBVIOUS
    <2>5. v[j] = u[j] + (IF k <= j THEN 1 ELSE 0)
      BY <2>1, <2>2, <2>3, <2>4
    <2> QED BY <2>1, <2>5
  <1> HIDE DEF T
  <1>5. n \in T
    <2>1. T \subseteq Nat
      BY DEF T
    <2> QED BY <1>3, <1>4, <2>1, Climb
  <1> QED BY <1>5 DEF T, u, v

LEMMA UptoNothing ==
  ASSUME NEW n \in Nat, NEW s \in [1..n -> {0}]
  PROVE  Upto(s)[n] = 0
  <1>1. s \in Seq(Nat) /\ Len(s) = n
    OBVIOUS
  <1> DEFINE u == Upto(s)
             T == {m \in Nat : m <= n => u[m] = 0}
  <1>2. u \in [0..n -> Nat] /\ u[0] = 0 /\ \A j \in 1..n : u[j] = u[j - 1] + s[j]
    BY <1>1, UptoIs
  <1> HIDE DEF u
  <1>3. 0 \in T
    BY <1>2
  <1>4. ASSUME NEW m \in T PROVE m + 1 \in T
    <2> SUFFICES ASSUME m + 1 <= n PROVE u[m + 1] = 0
      OBVIOUS
    <2>1. PICK j \in 1..n : j = m + 1
      OBVIOUS
    <2>2. j - 1 = m /\ m \in 0..n /\ s[j] = 0 /\ u[m] = 0
      BY <2>1
    <2> QED BY <1>2, <2>1, <2>2
  <1> HIDE DEF T
  <1>5. n \in T
    <2>1. T \subseteq Nat
      BY DEF T
    <2> QED BY <1>3, <1>4, <2>1, Climb
  <1> QED BY <1>5 DEF T, u

Tasks == SetToSeq(Caller)

\* Every caller has one place in the list of tasks.
LEMMA TasksList ==
  /\ Len(Tasks) \in Nat /\ Tasks \in [1..Len(Tasks) -> Caller]
  /\ \A i, j \in 1..Len(Tasks) : Tasks[i] = Tasks[j] => i = j
  /\ \A c \in Caller : \E i \in 1..Len(Tasks) : Tasks[i] = c
  <1>1. PICK n \in Nat : n = Cardinality(Caller)
    BY FS_CardinalityType, CallsAssumption
  <1>2. IsFiniteSet(1..n) /\ Cardinality(1..n) = n
    <2>1. IsFiniteSet(1..n) /\ Cardinality(1..n) = IF 1 > n THEN 0 ELSE n - 1 + 1
      BY FS_Interval
    <2> QED BY <2>1
  <1>3. ExistsBijection(1..n, Caller)
    BY <1>1, <1>2, FS_SameCardinalityBij, CallsAssumption
  <1>4. \E f \in [1..n -> Caller] : IsInjective(f)
    BY <1>3 DEF ExistsBijection, Bijection, Injection, IsInjective
  <1>5. Tasks = CHOOSE f \in [1..Cardinality(Caller) -> Caller] : IsInjective(f)
    BY DEF Tasks, SetToSeq
  <1>6. Tasks \in [1..n -> Caller] /\ IsInjective(Tasks)
    BY <1>1, <1>4, <1>5
  <1>7. Tasks \in Injection(1..n, Caller)
    BY <1>6 DEF Injection, IsInjective
  <1>8. Tasks \in Surjection(1..n, Caller)
    BY <1>1, <1>2, <1>7, FS_Injection, CallsAssumption
  <1>9. Len(Tasks) = n
    BY <1>6
  <1> QED BY <1>6, <1>8, <1>9 DEF Surjection, IsInjective

Answers(a) == Upto([i \in 1..Len(Tasks) |-> a[Tasks[i]]])[Len(Tasks)]

\* What the tasks are credited with, and what the counters hold of what was billed.
ChatHolds ==
  /\ chatTries \in [Caller -> 0..ChatTries] /\ answered \in [Caller -> Nat]
  /\ {fullIn, readIn, writeIn} \subseteq Nat /\ taken \in Nat \X Nat
  /\ fullIn + readIn + writeIn = taken[1]
  /\ Answers(answered) = taken[2]

LEMMA ChatStart ==
  ASSUME ChatInit
  PROVE  ChatHolds
  <1>1. [i \in 1..Len(Tasks) |-> answered[Tasks[i]]] \in [1..Len(Tasks) -> {0}]
    BY TasksList DEF ChatInit
  <1>2. Answers(answered) = 0
    BY <1>1, UptoNothing, TasksList DEF Answers
  <1>3. 0 \in 0..ChatTries
    BY CallsAssumption
  <1> QED BY <1>2, <1>3 DEF ChatInit, ChatHolds

LEMMA OneMoreAnswer ==
  ASSUME NEW a \in [Caller -> Nat], NEW c \in Caller, NEW b, b = [a EXCEPT ![c] = @ + 1]
  PROVE  Answers(b) = Answers(a) + 1
  <1> DEFINE s == [i \in 1..Len(Tasks) |-> a[Tasks[i]]]
             t == [i \in 1..Len(Tasks) |-> b[Tasks[i]]]
  <1>1. b \in [Caller -> Nat] /\ b[c] = a[c] + 1 /\ \A d \in Caller : d # c => b[d] = a[d]
    OBVIOUS
  <1>2. PICK n \in Nat : n = Len(Tasks)
    BY TasksList
  <1>3. PICK k \in 1..n : Tasks[k] = c
    BY <1>2, TasksList
  <1>4. s \in [1..n -> Nat] /\ t \in [1..n -> Nat]
    BY <1>1, <1>2, TasksList
  <1>5. t[k] = s[k] + 1 /\ \A j \in 1..n : j # k => t[j] = s[j]
    BY <1>1, <1>2, <1>3, TasksList
  <1> HIDE DEF s, t
  <1>6. Upto(t)[n] = Upto(s)[n] + 1
    BY <1>4, <1>5, UptoGrows
  <1> QED BY <1>2, <1>6 DEF Answers, s, t

LEMMA ChatStep ==
  ASSUME ChatHolds, ChatNext \/ UNCHANGED chatVars
  PROVE  ChatHolds'
  <1>1. CASE UNCHANGED chatVars
    BY <1>1 DEF chatVars, ChatHolds, Answers
  <1>2. ASSUME NEW c \in Caller, NEW v \in 0..ChatTries, chatTries' = [chatTries EXCEPT ![c] = v],
               UNCHANGED <<fullIn, readIn, writeIn, answered, taken>>
        PROVE  ChatHolds'
    BY <1>2 DEF ChatHolds, Answers
  <1>3. ASSUME NEW c \in Caller, NEW fits \in BOOLEAN, Chat(c, fits) PROVE ChatHolds'
    <2>1. (IF fits THEN 1 ELSE 0) \in 0..ChatTries
      BY CallsAssumption
    <2> QED BY <1>2, <1>3, <2>1 DEF Chat
  <1>4. ASSUME NEW c \in Caller, NEW retryable \in BOOLEAN, ChatFails(c, retryable) PROVE ChatHolds'
    <2> DEFINE v == IF retryable /\ chatTries[c] < ChatTries THEN chatTries[c] + 1 ELSE 0
    <2>1. v \in 0..ChatTries
      BY CallsAssumption DEF ChatHolds
    <2>2. chatTries' = [chatTries EXCEPT ![c] = v] /\ UNCHANGED <<fullIn, readIn, writeIn, answered, taken>>
      BY <1>4 DEF ChatFails
    <2> HIDE DEF v
    <2> QED BY <1>2, <2>1, <2>2
  <1>5. ASSUME NEW c \in Caller, NEW read \in 0..1, NEW write \in 0..1, ChatAnswers(c, 2, read, write) PROVE ChatHolds'
    <2> DEFINE inc == ProviderOf[c] \in Inclusive
               prompt == IF inc THEN 2 ELSE 2 - read - write
               full == IF inc THEN prompt - read ELSE prompt
    <2>1. inc => write = 0
      BY <1>5 DEF ChatAnswers, CanReport, Inclusive
    <2>2. /\ fullIn' = fullIn + (IF full > 0 THEN full ELSE 0)
          /\ readIn' = readIn + read /\ writeIn' = writeIn + write
          /\ answered' = [answered EXCEPT ![c] = @ + 1] /\ taken' = <<taken[1] + 2, taken[2] + 1>>
          /\ chatTries' = [chatTries EXCEPT ![c] = 0]
      BY <1>5 DEF ChatAnswers, Reported
    <2>3. full \in 0..2 /\ full + read + write = 2
      BY <2>1
    <2> HIDE DEF full, prompt, inc
    <2>4. /\ {fullIn', readIn', writeIn'} \subseteq Nat /\ taken' \in Nat \X Nat
          /\ fullIn' + readIn' + writeIn' = taken'[1]
      BY <2>2, <2>3 DEF ChatHolds
    <2>5. Answers(answered') = taken'[2]
      BY <2>2, OneMoreAnswer DEF ChatHolds
    <2>6. answered' \in [Caller -> Nat] /\ chatTries' \in [Caller -> 0..ChatTries]
      BY <2>2, CallsAssumption DEF ChatHolds
    <2>7. Tasks' = Tasks
      BY DEF Tasks
    <2> QED BY <2>4, <2>5, <2>6, <2>7 DEF ChatHolds, Answers
  <1>6. CASE ChatNext
    BY <1>3, <1>4, <1>5, <1>6 DEF ChatNext
  <1> QED BY <1>1, <1>6

LEMMA CallsAlways == Spec => [](EmbedHolds /\ ChatHolds)
  <1> DEFINE Holds == EmbedHolds /\ ChatHolds
  <1>1. Init => Holds
    BY EmbedStart0, ChatStart DEF Init, CallsInit
  <1>2. Holds /\ [Next]_buildVars => Holds'
    <2> SUFFICES ASSUME Holds, [Next]_buildVars PROVE Holds'
      OBVIOUS
    <2>1. EmbedNext \/ UNCHANGED embedVars
      BY DEF Next, buildVars, callVars, ChatNext, Chat, ChatAnswers, ChatFails
    <2>2. ChatNext \/ UNCHANGED chatVars
      BY DEF Next, buildVars, callVars, EmbedNext, EmbedStart, EmbedReturns, EmbedFails, EmbedEnds
    <2> QED BY <2>1, <2>2, NextEmbed, ChatStep
  <1> QED BY <1>1, <1>2, PTL DEF Spec

LEMMA CallsShow ==
  ASSUME EmbedHolds, ChatHolds
  PROVE  CallsTypeOK
  <1>1. /\ DOMAIN batchAt = DOMAIN ranges /\ vectors \in [1..Len(counts) -> 0..Len(counts)]
        /\ Cardinality({i \in DOMAIN batchAt : batchAt[i] = "calling"}) <= EmbedSlots
        /\ \A i \in DOMAIN batchTries : batchTries[i] \in 0..EmbedTries
    BY DEF EmbedHolds, EmbedTyped, Calling
  <1>2. /\ \A c \in Caller : chatTries[c] \in 0..ChatTries
        /\ fullIn + readIn + writeIn = taken[1] /\ Answers(answered) = taken[2]
    BY DEF ChatHolds
  <1> QED BY <1>1, <1>2 DEF CallsTypeOK, Answers, Tasks

\* Each text gets its own vector or is in a range that is reported as failed, however
\* the texts are shared out and whatever request returns first; no request of several
\* texts is over the cap.
THEOREM VectorsFindTheirTexts == Spec => []VectorsInPlace
  BY CallsAlways, EmbedShows, PTL

-----------------------------------------------------------------------------
(***************************************************************************)
(* Names                                                                   *)
(***************************************************************************)
\* While chains are collapsed: a name still to be looked at has its first link, one that
\* was looked at has a name that is no alias, unless there is a circle.
NamesHold ==
  /\ nameStage \in {"extract", "collapse", "done"}
  /\ nameStage = "collapse" =>
       /\ DOMAIN raw \subseteq Normal /\ alias = [n \in DOMAIN raw |-> alias[n]] /\ uncollapsed \subseteq DOMAIN raw
       /\ \A n \in uncollapsed : alias[n] = raw[n]
       /\ ~Circular => \A n \in DOMAIN raw \ uncollapsed : alias[n] \notin DOMAIN raw
  /\ ChainsEnd

LEMMA NormalFinite ==
  IsFiniteSet(Normal) /\ Cardinality(Normal) \in Nat
  <1> DEFINE f == [s \in Spelling |-> Norm[s]]
  <1>1. f \in Surjection(Spelling, Normal)
    BY DEF Surjection, Normal
  <1>2. IsFiniteSet(Normal)
    BY <1>1, SpellingAssumption, FS_Surjection
  <1> QED BY <1>2, FS_CardinalityType

\* One link of a walk: the name it is at, and the names it passed.
Follow(w) == IF w[1] \in DOMAIN alias \ w[2] THEN <<alias[w[1]], w[2] \cup {w[1]}>> ELSE w
LinkEnds(D) == {alias[x] : x \in D}

\* The end of a chain is where a walk of as many links as there are names ends.
LEMMA WalkIs ==
  ASSUME NEW D \in SUBSET Normal, DOMAIN alias = D, NEW n \in D
  PROVE  \E walk \in [0..Cardinality(Normal) -> LinkEnds(D) \X SUBSET D] :
           /\ EndOf(n) = walk[Cardinality(Normal)][1] /\ walk[0] = <<alias[n], {n}>>
           /\ \A i \in 1..Cardinality(Normal) : walk[i] = Follow(walk[i - 1])
  <1> DEFINE N == Cardinality(Normal)
             A == LinkEnds(D) \X SUBSET D
             Link(w) == IF w[1] \in DOMAIN alias \ w[2] THEN <<alias[w[1]], w[2] \cup {w[1]}>> ELSE w
             G == [w \in A |-> Link(w)]
             a == <<alias[n], {n}>>
             Walk(f) == [i \in 0..N |-> IF i = 0 THEN a ELSE Link(f[i - 1])]
             walk == CHOOSE walk : walk = Walk(walk)
  <1>1. N \in Nat
    BY NormalFinite
  <1>2. a \in A
    BY DEF LinkEnds
  <1>3. \A w \in A : Link(w) \in A
    BY DEF LinkEnds
  <1>4. G \in [A -> A]
    BY <1>3
  <1> HIDE DEF A, a
  <1>5. PICK f \in [0..N -> A] : ClimbsBy(f, G, a, N)
    BY <1>1, <1>2, <1>4, Iterates
  <1>6. f = Walk(f)
    <2>1. ASSUME NEW i \in 0..N PROVE f[i] = IF i = 0 THEN a ELSE Link(f[i - 1])
      <3>1. CASE i = 0
        BY <1>5, <3>1 DEF ClimbsBy
      <3>2. CASE i # 0
        <4>1. i \in 1..N /\ i - 1 \in 0..N
          BY <1>1, <3>2
        <4>2. f[i - 1] \in A
          BY <4>1
        <4>3. f[i] = G[f[i - 1]]
          BY <1>5, <4>1 DEF ClimbsBy
        <4> HIDE DEF Link
        <4> QED BY <3>2, <4>2, <4>3
      <3> QED BY <3>1, <3>2
    <2> HIDE DEF Link
    <2> QED BY <2>1
  <1>7. walk = Walk(walk)
    BY <1>6
  <1>8. EndOf(n) = walk[N][1]
    BY DEF EndOf, a
  <1>9. \A w : Link(w) = Follow(w)
    BY DEF Follow
  <1> HIDE DEF walk, Link
  <1>10. walk[0] = a /\ \A i \in 1..N : walk[i] = Follow(walk[i - 1])
    <2>1. \A i \in 0..N : walk[i] = IF i = 0 THEN a ELSE Link(walk[i - 1])
      BY <1>7
    <2>2. 0 \in 0..N /\ \A i \in 1..N : i \in 0..N /\ i # 0
      BY <1>1
    <2> QED BY <1>9, <2>1, <2>2
  <1>11. \A i \in 0..N : walk[i] \in A
    <2> DEFINE T == {i \in Nat : i <= N => walk[i] \in A}
    <2>1. 0 \in T
      BY <1>2, <1>10
    <2>2. ASSUME NEW i \in T PROVE i + 1 \in T
      <3> SUFFICES ASSUME i + 1 <= N PROVE walk[i + 1] \in A
        OBVIOUS
      <3>1. i + 1 \in 1..N /\ (i + 1) - 1 = i /\ i \in Nat /\ walk[i] \in A
        BY <1>1
      <3> QED BY <1>3, <1>9, <1>10, <3>1
    <2> HIDE DEF T
    <2>3. T \in SUBSET Nat
      BY DEF T
    <2>4. \A i \in Nat : i \in T
      BY <2>1, <2>2, <2>3, Climb
    <2> QED BY <1>1, <2>4 DEF T
  <1>12. walk = [i \in 0..N |-> walk[i]]
    BY <1>7
  <1>13. walk \in [0..N -> A]
    BY <1>11, <1>12
  <1> QED BY <1>8, <1>10, <1>13 DEF A, a

\* A walk along links that closes into no circle leaves the map.
LEMMA WalkLeaves ==
  ASSUME NEW D \in SUBSET Normal, DOMAIN raw = D, DOMAIN alias = D, ~Circular,
         \A x \in D : alias[x] = raw[x] \/ alias[x] \notin D, NEW n \in D
  PROVE  EndOf(n) \notin D
  <1> DEFINE N == Cardinality(Normal)
             a == <<alias[n], {n}>>
  <1>1. N \in Nat
    BY NormalFinite
  <1>2. PICK walk \in [0..N -> LinkEnds(D) \X SUBSET D] :
          EndOf(n) = walk[N][1] /\ walk[0] = a /\ \A i \in 1..N : walk[i] = Follow(walk[i - 1])
    BY WalkIs
  <1> HIDE DEF a
  <1> DEFINE Good(w, i) == /\ w[2] \in SUBSET D /\ w[2] # {} /\ \A x \in w[2] : alias[x] \in w[2] \cup {w[1]}
                           /\ Cardinality(w[2]) = i + 1 \/ w[1] \notin D \ w[2]
  <1>10. IsFiniteSet(D) /\ \A S \in SUBSET D : IsFiniteSet(S) /\ Cardinality(S) \in Nat /\ Cardinality(S) <= N
    <2>1. \A S \in SUBSET Normal : IsFiniteSet(S) /\ Cardinality(S) \in Nat /\ Cardinality(S) <= N
      BY NormalFinite, FS_Subset, FS_CardinalityType
    <2> QED BY <2>1
  <1>11. Good(a, 0)
    <2>1. Cardinality({n}) = 1
      BY FS_Singleton
    <2>2. a[1] = alias[n] /\ a[2] = {n}
      BY DEF a
    <2> QED BY <2>1, <2>2
  <1>12. ASSUME NEW i \in Nat, NEW w, Good(w, i) PROVE Good(Follow(w), i + 1)
    <2>1. CASE w[1] \in D \ w[2]
      <3>1. Follow(w) = <<alias[w[1]], w[2] \cup {w[1]}>>
        BY <2>1 DEF Follow
      <3>2. PICK v : v = Follow(w)
        OBVIOUS
      <3>3. v[1] = alias[w[1]] /\ v[2] = w[2] \cup {w[1]}
        BY <3>1, <3>2
      <3>4. w[2] \in SUBSET D
        BY <1>12
      <3>5. IsFiniteSet(w[2]) /\ w[1] \notin w[2]
        BY <1>10, <2>1, <3>4
      <3>6. Cardinality(w[2] \cup {w[1]}) = Cardinality(w[2]) + 1
        BY <3>5, FS_AddElement
      <3>7. Cardinality(w[2]) = i + 1
        BY <1>12, <2>1
      <3>8. Cardinality(v[2]) = (i + 1) + 1
        BY <3>3, <3>6, <3>7
      <3>9. \A x \in v[2] : alias[x] \in v[2] \cup {v[1]}
        BY <1>12, <3>3
      <3>10. Good(v, i + 1)
        BY <2>1, <3>3, <3>4, <3>8, <3>9
      <3> QED BY <3>2, <3>10
    <2>2. CASE w[1] \notin D \ w[2]
      <3>1. Follow(w) = w
        BY <2>2 DEF Follow
      <3> QED BY <1>12, <2>2, <3>1
    <2> QED BY <2>1, <2>2
  <1> HIDE DEF Good
  <1>13. Good(walk[N], N)
    <2> DEFINE T == {i \in Nat : i <= N => Good(walk[i], i)}
    <2>1. 0 \in T
      BY <1>2, <1>11
    <2>2. ASSUME NEW i \in T PROVE i + 1 \in T
      <3> SUFFICES ASSUME i + 1 <= N PROVE Good(walk[i + 1], i + 1)
        OBVIOUS
      <3>1. i + 1 \in 1..N /\ (i + 1) - 1 = i /\ i \in Nat /\ Good(walk[i], i)
        BY <1>1
      <3>2. walk[i + 1] = Follow(walk[i])
        BY <1>2, <3>1
      <3> QED BY <1>12, <3>1, <3>2
    <2> HIDE DEF T
    <2>3. T \in SUBSET Nat
      BY DEF T
    <2>4. N \in T
      BY <1>1, <2>1, <2>2, <2>3, Climb
    <2> QED BY <1>1, <2>4 DEF T
  <1>14. PICK w : w = walk[N]
    OBVIOUS
  <1>15. w[2] \in SUBSET D /\ w[2] # {} /\ (\A x \in w[2] : alias[x] \in w[2] \cup {w[1]}) /\ w[1] \notin D \ w[2]
    <2>1. w[2] \in SUBSET D
      BY <1>13, <1>14 DEF Good
    <2>2. Cardinality(w[2]) <= N /\ Cardinality(w[2]) \in Nat
      BY <1>10, <2>1
    <2>3. Cardinality(w[2]) # N + 1
      BY <1>1, <2>2
    <2> QED BY <1>13, <1>14, <2>3 DEF Good
  <1>16. ASSUME w[1] \in D PROVE FALSE
    <2>1. w[1] \in w[2]
      BY <1>15, <1>16
    <2>2. \A x \in w[2] : raw[x] \in w[2]
      BY <1>15, <2>1
    <2>3. w[2] \in (SUBSET DOMAIN raw) \ {{}}
      BY <1>15
    <2> QED BY <2>2, <2>3 DEF Circular
  <1> QED BY <1>2, <1>14, <1>16

LEMMA ResolveHolds ==
  ASSUME NamesHold, ResolveForms
  PROVE  NamesHold'
  <1>1. alias' = raw' /\ uncollapsed' = DOMAIN raw' /\ nameStage' = "collapse"
    BY DEF ResolveForms
  <1>2. DOMAIN raw' \subseteq Normal /\ raw' = [n \in DOMAIN raw' |-> raw'[n]]
    BY DEF ResolveForms, ByGroup
  <1> QED BY <1>1, <1>2 DEF NamesHold, ChainsEnd

LEMMA CollapseHolds ==
  ASSUME NamesHold, NEW n \in uncollapsed, Collapse(n)
  PROVE  NamesHold'
  <1>1. PICK e : e = EndOf(n)
    OBVIOUS
  <1>2. /\ nameStage = "collapse" /\ UNCHANGED <<nameStage, raw>> /\ uncollapsed' = uncollapsed \ {n}
        /\ alias' = [alias EXCEPT ![n] = e]
    BY <1>1 DEF Collapse
  <1>3. /\ DOMAIN raw \subseteq Normal /\ alias = [x \in DOMAIN raw |-> alias[x]] /\ uncollapsed \subseteq DOMAIN raw
        /\ \A x \in uncollapsed : alias[x] = raw[x]
        /\ ~Circular => \A x \in DOMAIN raw \ uncollapsed : alias[x] \notin DOMAIN raw
    BY <1>2 DEF NamesHold
  <1>4. ~Circular => e \notin DOMAIN raw
    <2> SUFFICES ASSUME ~Circular PROVE e \notin DOMAIN raw
      OBVIOUS
    <2>1. \A x \in DOMAIN raw : alias[x] = raw[x] \/ alias[x] \notin DOMAIN raw
      BY <1>3
    <2>2. DOMAIN alias = DOMAIN raw
      BY <1>3
    <2> QED BY <1>1, <1>3, <2>1, <2>2, WalkLeaves
  <1>5. alias' = [x \in DOMAIN raw |-> alias'[x]] /\ \A x \in DOMAIN raw : alias'[x] = IF x = n THEN e ELSE alias[x]
    BY <1>2, <1>3
  <1>6. Circular' <=> Circular
    BY <1>2 DEF Circular
  <1> QED BY <1>2, <1>3, <1>4, <1>5, <1>6 DEF NamesHold, ChainsEnd

LEMMA EndCollapseHolds ==
  ASSUME NamesHold, EndCollapse
  PROVE  NamesHold'
  <1>1. /\ nameStage = "collapse" /\ nameStage' = "done" /\ uncollapsed = {} /\ raw' = raw
        /\ alias' = [n \in {x \in DOMAIN alias : alias[x] # x} |-> alias[n]]
    BY DEF EndCollapse
  <1>2. alias = [x \in DOMAIN raw |-> alias[x]] /\ (~Circular => \A x \in DOMAIN raw : alias[x] \notin DOMAIN raw)
    BY <1>1 DEF NamesHold
  <1>3. Circular' <=> Circular
    BY <1>1 DEF Circular
  <1>4. ~Circular => DOMAIN alias' = DOMAIN raw /\ \A n \in DOMAIN alias' : alias'[n] \notin DOMAIN raw
    <2>1. DOMAIN alias = DOMAIN raw
      BY <1>2
    <2> QED BY <1>1, <1>2, <2>1
  <1>5. ChainsEnd'
    BY <1>1, <1>3, <1>4 DEF ChainsEnd
  <1> QED BY <1>1, <1>5 DEF NamesHold

LEMMA NextNames ==
  ASSUME NamesHold, [NamesNext]_nameVars
  PROVE  NamesHold'
  <1>1. CASE UNCHANGED nameVars
    BY <1>1 DEF nameVars, NamesHold, ChainsEnd, Circular
  <1>2. CASE \E m \in Mention : ExtractName(m)
    BY <1>2 DEF ExtractName, NamesHold, ChainsEnd, Circular
  <1>3. CASE ResolveForms
    BY <1>3, ResolveHolds
  <1>4. CASE EndCollapse
    BY <1>4, EndCollapseHolds
  <1>5. CASE \E n \in uncollapsed : Collapse(n)
    BY <1>5, CollapseHolds
  <1> QED BY <1>1, <1>2, <1>3, <1>4, <1>5 DEF NamesNext

\* Every variant of a name lands on a final spelling, whatever the order in which the
\* chains are collapsed, unless they close into a circle.
THEOREM ChainsStand == Spec => []ChainsEnd
  <1>1. Init => NamesHold
    BY DEF Init, NamesInit, NamesHold, ChainsEnd
  <1>2. NamesHold /\ [Next]_buildVars => NamesHold'
    <2> SUFFICES ASSUME NamesHold, [Next]_buildVars PROVE NamesHold'
      OBVIOUS
    <2>1. [NamesNext]_nameVars
      BY DEF Next, buildVars
    <2> QED BY <2>1, NextNames
  <1>3. NamesHold => ChainsEnd
    BY DEF NamesHold
  <1> QED BY <1>1, <1>2, <1>3, PTL DEF Spec

\* The greatest of finitely many.
LEMMA TopRanked ==
  ASSUME NEW X, NEW rank \in [X -> Nat], NEW F \in SUBSET X, IsFiniteSet(F), F # {}
  PROVE  \E x \in F : \A y \in F : rank[y] <= rank[x]
  <1> DEFINE T == {m \in Nat : \A S \in SUBSET X : IsFiniteSet(S) /\ S # {} /\ Cardinality(S) <= m
                                 => \E x \in S : \A y \in S : rank[y] <= rank[x]}
  <1>1. 0 \in T
    <2> SUFFICES ASSUME NEW S \in SUBSET X, IsFiniteSet(S), S # {}, Cardinality(S) <= 0 PROVE FALSE
      OBVIOUS
    <2>1. Cardinality(S) = 0
      BY FS_CardinalityType
    <2> QED BY <2>1, FS_EmptySet
  <1>2. ASSUME NEW m \in T PROVE m + 1 \in T
    <2> SUFFICES ASSUME NEW S \in SUBSET X, IsFiniteSet(S), S # {}, Cardinality(S) <= m + 1
                 PROVE \E x \in S : \A y \in S : rank[y] <= rank[x]
      OBVIOUS
    <2>1. PICK x \in S : TRUE
      OBVIOUS
    <2>2. PICK R : R = S \ {x}
      OBVIOUS
    <2>3. IsFiniteSet(R) /\ Cardinality(R) = Cardinality(S) - 1 /\ Cardinality(S) \in Nat /\ R \in SUBSET X
      BY <2>1, <2>2, FS_RemoveElement, FS_CardinalityType
    <2>4. CASE R = {}
      <3>1. \A y \in S : y = x
        BY <2>2, <2>4
      <3>2. rank[x] \in Nat
        OBVIOUS
      <3> QED BY <3>1, <3>2
    <2>5. CASE R # {}
      <3>1. Cardinality(R) <= m
        BY <2>3
      <3>2. PICK z \in R : \A y \in R : rank[y] <= rank[z]
        BY <2>3, <2>5, <3>1
      <3>3. \A y \in S : rank[y] \in Nat /\ (y = x \/ y \in R)
        BY <2>2
      <3>4. z \in S
        BY <2>2
      <3>5. CASE rank[x] <= rank[z]
        BY <3>2, <3>3, <3>4, <3>5
      <3>6. CASE ~(rank[x] <= rank[z])
        BY <2>1, <3>2, <3>3, <3>4, <3>6
      <3> QED BY <3>5, <3>6
    <2> QED BY <2>4, <2>5
  <1> HIDE DEF T
  <1>3. T \in SUBSET Nat
    BY DEF T
  <1>4. PICK n \in Nat : n = Cardinality(F)
    BY FS_CardinalityType
  <1>5. n \in T
    BY <1>1, <1>2, <1>3, Climb
  <1> QED BY <1>4, <1>5 DEF T

NamesTyped ==
  /\ found \in Seq(Mention)
  /\ DOMAIN alias \subseteq Normal /\ alias = [n \in DOMAIN alias |-> alias[n]]
  /\ \A n \in DOMAIN alias : alias[n] \in Normal
  /\ uncollapsed \subseteq DOMAIN alias /\ (uncollapsed # {} => nameStage = "collapse")

LEMMA MentionedNormal ==
  ASSUME NamesTyped
  PROVE  /\ \A m \in All : CanonOf(m) \in Normal /\ Short(m) \in Normal
         /\ \A m \in All : Noted(m) \subseteq Normal
         /\ \A c : OfClass(c) \subseteq Normal
         /\ \A k : Variants(k) \subseteq Normal /\ Longest(k) \subseteq Variants(k)
  <1>1. ASSUME NEW m \in All PROVE CanonOf(m) \in Normal /\ Short(m) \in Normal
    <2>1. m \in Mention
      BY DEF All, NamesTyped
    <2> QED BY <2>1, SpellingAssumption DEF CanonOf, Short, Normal
  <1>2. \A m \in All : Noted(m) \subseteq Normal
    BY <1>1 DEF Noted
  <1>3. \A c : OfClass(c) \subseteq Normal
    BY <1>1 DEF OfClass
  <1>4. \A k : Variants(k) \subseteq Normal
    BY <1>1, <1>2 DEF Variants
  <1>5. \A k : Longest(k) \subseteq Variants(k)
    BY DEF Longest
  <1> QED BY <1>1, <1>2, <1>3, <1>4, <1>5

\* A group is placed by the first mention that opened it, and by which of the two that
\* one opens came first: no two groups have one place.
LEMMA PlacesApart ==
  ASSUME NamesTyped
  PROVE  /\ \A k \in Keys : OpenedAt(k) \in (1..Len(found)) \X {0, 1}
         /\ \A k, l \in Keys : OpenedAt(k) = OpenedAt(l) => k = l
  <1> DEFINE At(k) == {i \in DOMAIN found : k \in Opens(found[i])}
             first(k) == CHOOSE first \in At(k) : \A j \in At(k) : first <= j
             second(k) == IF Key(found[first(k)]) = k THEN 0 ELSE 1
  <1>1. DOMAIN found = 1..Len(found) /\ Len(found) \in Nat
    BY DEF NamesTyped
  <1>2. ASSUME NEW k \in Keys PROVE first(k) \in At(k)
    <2>1. At(k) # {} /\ At(k) \in SUBSET Nat
      BY <1>1 DEF Keys, All
    <2>2. \E i \in At(k) : \A j \in At(k) : i <= j
      BY <2>1, LeastOf
    <2> QED BY <2>2
  <1>3. \A k : OpenedAt(k) = <<first(k), second(k)>>
    BY Zenon DEF OpenedAt
  <1>4. \A k : second(k) \in {0, 1}
    OBVIOUS
  <1>5. \A k \in Keys : OpenedAt(k) \in (1..Len(found)) \X {0, 1}
    BY <1>1, <1>2, <1>3, <1>4
  <1>6. ASSUME NEW k \in Keys, NEW l \in Keys, OpenedAt(k) = OpenedAt(l) PROVE k = l
    <2>1. PICK i : i = first(k)
      OBVIOUS
    <2>2. first(l) = i /\ second(k) = second(l)
      BY <1>3, <1>6, <2>1
    <2>3. k \in Opens(found[i]) /\ l \in Opens(found[i])
      BY <1>2, <2>1, <2>2
    <2>4. \A x \in Opens(found[i]) : x = Key(found[i]) \/ x = DedupKey[Short(found[i])]
      BY DEF Opens, Noted, Key
    <2>5. (Key(found[i]) = k) <=> (Key(found[i]) = l)
      <3>1. (IF Key(found[i]) = k THEN 0 ELSE 1) = (IF Key(found[i]) = l THEN 0 ELSE 1)
        BY <2>1, <2>2
      <3> QED BY <3>1
    <2> QED BY <2>3, <2>4, <2>5
  <1> QED BY <1>5, <1>6

\* The last group to move a name.
LEMMA LastMove ==
  ASSUME NamesTyped, NEW S \in SUBSET Keys, S # {}
  PROVE  \E k \in S : \A l \in S \ {k} : LaterGroup(k, l)
  <1> DEFINE place(k) == 2 * OpenedAt(k)[1] + OpenedAt(k)[2]
             P == {place(k) : k \in S}
  <1>1. Len(found) \in Nat
    BY DEF NamesTyped
  <1>2. \A k \in S : OpenedAt(k)[1] \in 1..Len(found) /\ OpenedAt(k)[2] \in {0, 1}
                     /\ OpenedAt(k) = <<OpenedAt(k)[1], OpenedAt(k)[2]>>
    BY PlacesApart
  <1>3. P \in SUBSET Int /\ P # {} /\ 2 * Len(found) + 1 \in Int /\ \A x \in P : x <= 2 * Len(found) + 1
    BY <1>1, <1>2
  <1>4. PICK k \in S : \A l \in S : place(l) <= place(k)
    <2>1. \E x \in P : \A y \in P : y <= x
      BY <1>3, GreatestOf
    <2> QED BY <2>1
  <1>5. ASSUME NEW l \in S \ {k} PROVE LaterGroup(k, l)
    <2>1. OpenedAt(k) # OpenedAt(l)
      BY PlacesApart
    <2>2. OpenedAt(k)[1] # OpenedAt(l)[1] \/ OpenedAt(k)[2] # OpenedAt(l)[2]
      BY <1>2, <2>1
    <2>3. PICK a, b, c, d \in Nat : a = OpenedAt(k)[1] /\ b = OpenedAt(k)[2] /\ c = OpenedAt(l)[1] /\ d = OpenedAt(l)[2]
      BY <1>2
    <2>4. 2 * c + d <= 2 * a + b /\ b \in {0, 1} /\ d \in {0, 1} /\ (a # c \/ b # d)
      BY <1>2, <1>4, <2>2, <2>3
    <2>5. a > c \/ (a = c /\ b > d)
      BY <2>3, <2>4
    <2> QED BY <2>3, <2>5 DEF LaterGroup
  <1> QED BY <1>5

LEMMA FullestFits ==
  ASSUME NamesTyped, NEW n, NEW c, Fuller(n, c) # {}
  PROVE  Surname(n, c) \in Normal
  <1> DEFINE F == Fuller(n, c)
             words == [f \in Normal |-> Words[f]]
  <1>1. F \in SUBSET Normal
    BY MentionedNormal DEF Fuller
  <1>2. IsFiniteSet(F)
    BY <1>1, NormalFinite, FS_Subset
  <1>3. words \in [Normal -> Nat] /\ \A f \in Normal : Words[f] \in Nat /\ Alphabet[f] \in Nat
    BY SpellingAssumption
  <1> HIDE DEF F, words
  <1>4. PICK top \in F : \A g \in F : words[g] <= words[top]
    <2>1. F # {}
      BY DEF F
    <2> QED BY <1>1, <1>2, <1>3, <2>1, TopRanked
  <1> DEFINE Tops == {f \in F : Words[f] = Words[top]}
             A == {Alphabet[f] : f \in Tops}
  <1>5. PICK f \in Tops : \A g \in Tops : Alphabet[f] <= Alphabet[g]
    <2>1. A \in SUBSET Nat /\ A # {}
      BY <1>1, <1>3
    <2>2. \E x \in A : \A y \in A : x <= y
      BY <2>1, LeastOf
    <2> QED BY <2>2
  <1>6. \A g \in F : Words[g] <= Words[f]
    BY <1>1, <1>4, <1>5 DEF words
  <1>7. ASSUME NEW g \in F \ {f} PROVE Words[f] > Words[g] \/ (Words[f] = Words[g] /\ Alphabet[f] < Alphabet[g])
    <2>1. f \in Normal /\ g \in Normal /\ Words[g] <= Words[f] /\ f # g
      BY <1>1, <1>5, <1>6
    <2>2. Words[g] = Words[f] => Alphabet[f] <= Alphabet[g]
      BY <1>5
    <2>3. Alphabet[f] # Alphabet[g]
      BY <2>1, SpellingAssumption
    <2> QED BY <1>3, <2>1, <2>2, <2>3
  <1>8. Surname(n, c) \in F
    <2>1. Surname(n, c) = CHOOSE x \in F : \A g \in F \ {x} :
            Words[x] > Words[g] \/ (Words[x] = Words[g] /\ Alphabet[x] < Alphabet[g])
      BY DEF Surname, F
    <2> QED BY <1>5, <1>7, <2>1
  <1> QED BY <1>1, <1>8

LEMMA ReorderedIs ==
  ASSUME NamesTyped, NEW c, NEW n \in OfClass(c)
  PROVE  Reordered(n, c) \in Normal
  <1> DEFINE same == {f \in OfClass(c) : WordBag[f] = WordBag[n]}
             A == {Alphabet[f] : f \in same}
  <1>1. same \subseteq Normal /\ n \in same
    BY MentionedNormal
  <1>2. A \in SUBSET Nat /\ A # {}
    BY <1>1, SpellingAssumption
  <1>3. \E f \in same : \A g \in same : Alphabet[f] <= Alphabet[g]
    <2>1. \E x \in A : \A y \in A : x <= y
      BY <1>2, LeastOf
    <2> QED BY <2>1
  <1>4. Reordered(n, c) = CHOOSE f \in same : \A g \in same : Alphabet[f] <= Alphabet[g]
    BY Zenon DEF Reordered
  <1> HIDE DEF same
  <1> QED BY <1>1, <1>3, <1>4

LEMMA ResolveTyped ==
  ASSUME NamesTyped, ResolveForms
  PROVE  NamesTyped'
  <1> DEFINE longest == [k \in Keys |-> Longest(k)]
             Rule(n) == IF SurnameClasses(n) # {} THEN Surname(n, CHOOSE c \in SurnameClasses(n) : TRUE)
                        ELSE Reordered(n, CHOOSE c \in ReorderClasses(n) : TRUE)
             Ruled(D) == {n \in Normal \ D : SurnameClasses(n) # {} \/ ReorderClasses(n) # {}}
  <1>1. PICK target \in {f \in [Keys -> UNION {longest[k] : k \in Keys}] : \A k \in Keys : f[k] \in longest[k]} :
          raw' = [n \in DOMAIN ByGroup(target) \cup Ruled(DOMAIN ByGroup(target)) |->
                    IF n \in Ruled(DOMAIN ByGroup(target)) THEN Rule(n) ELSE ByGroup(target)[n]]
    BY Zenon DEF ResolveForms
  <1>2. \A k \in Keys : target[k] \in Normal
    <2>1. ASSUME NEW k \in Keys PROVE target[k] \in Normal
      <3>1. target[k] \in Longest(k)
        OBVIOUS
      <3> QED BY <3>1, MentionedNormal
    <2> QED BY <2>1
  <1> DEFINE G == ByGroup(target)
  <1>3. \A n \in DOMAIN G : G[n] \in Normal
    <2> SUFFICES ASSUME NEW n \in DOMAIN G PROVE G[n] \in Normal
      OBVIOUS
    <2> DEFINE M == Moves(target, n)
    <2>1. M # {} /\ M \in SUBSET Keys /\ n \in Normal
      BY DEF ByGroup, Moves
    <2>2. G[n] = target[CHOOSE k \in M : \A l \in M \ {k} : LaterGroup(k, l)]
      BY <2>1 DEF ByGroup
    <2> HIDE DEF M, G
    <2>3. \E k \in M : \A l \in M \ {k} : LaterGroup(k, l)
      BY <2>1, LastMove
    <2>4. (CHOOSE k \in M : \A l \in M \ {k} : LaterGroup(k, l)) \in M
      BY <2>3
    <2> QED BY <1>2, <2>1, <2>2, <2>4
  <1>4. DOMAIN G \subseteq Normal
    BY DEF ByGroup
  <1>5. ASSUME NEW n, SurnameClasses(n) # {} \/ ReorderClasses(n) # {} PROVE Rule(n) \in Normal
    <2>1. CASE SurnameClasses(n) # {}
      <3>1. PICK c \in SurnameClasses(n) : Rule(n) = Surname(n, c)
        BY <2>1
      <3>2. Fuller(n, c) # {}
        BY DEF SurnameClasses
      <3> QED BY <3>1, <3>2, FullestFits
    <2>2. CASE SurnameClasses(n) = {}
      <3>1. PICK c \in ReorderClasses(n) : Rule(n) = Reordered(n, c)
        BY <1>5, <2>2
      <3>2. n \in OfClass(c)
        BY DEF ReorderClasses
      <3> QED BY <3>1, <3>2, ReorderedIs
    <2> QED BY <2>1, <2>2
  <1> HIDE DEF Rule, G
  <1>6. raw' = [n \in DOMAIN G \cup Ruled(DOMAIN G) |-> IF n \in Ruled(DOMAIN G) THEN Rule(n) ELSE G[n]]
    BY <1>1 DEF G
  <1>7. \A n \in DOMAIN raw' : n \in Normal /\ raw'[n] \in Normal
    BY <1>3, <1>4, <1>5, <1>6
  <1>8. raw' = [n \in DOMAIN raw' |-> raw'[n]]
    BY <1>6
  <1>9. alias' = raw' /\ uncollapsed' = DOMAIN raw' /\ nameStage' = "collapse" /\ found' = found
    BY DEF ResolveForms
  <1> QED BY <1>7, <1>8, <1>9 DEF NamesTyped, Normal

LEMMA NextNamesTyped ==
  ASSUME NamesTyped, [NamesNext]_nameVars
  PROVE  NamesTyped'
  <1>1. CASE UNCHANGED nameVars
    BY <1>1 DEF nameVars, NamesTyped, Normal
  <1>2. ASSUME NEW m \in Mention, ExtractName(m) PROVE NamesTyped'
    BY <1>2 DEF ExtractName, NamesTyped, Normal
  <1>3. CASE ResolveForms
    BY <1>3, ResolveTyped
  <1>4. CASE EndCollapse
    BY <1>4 DEF EndCollapse, NamesTyped, Normal
  <1>5. ASSUME NEW n \in uncollapsed, Collapse(n) PROVE NamesTyped'
    <2>1. PICK e : e = EndOf(n)
      OBVIOUS
    <2>2. PICK D : D = DOMAIN alias
      OBVIOUS
    <2>3. D \in SUBSET Normal /\ n \in D /\ \A x \in D : alias[x] \in Normal
      BY <2>2 DEF NamesTyped
    <2>4. \E walk \in [0..Cardinality(Normal) -> LinkEnds(D) \X SUBSET D] : EndOf(n) = walk[Cardinality(Normal)][1]
      BY <2>2, <2>3, WalkIs
    <2>5. Cardinality(Normal) \in 0..Cardinality(Normal)
      BY NormalFinite
    <2>6. e \in LinkEnds(D)
      BY <2>1, <2>4, <2>5
    <2>7. e \in Normal
      BY <2>3, <2>6 DEF LinkEnds
    <2>8. /\ alias' = [alias EXCEPT ![n] = e] /\ uncollapsed' = uncollapsed \ {n}
          /\ nameStage = "collapse" /\ UNCHANGED <<found, nameStage>>
      BY <1>5, <2>1 DEF Collapse
    <2>9. /\ DOMAIN alias' = DOMAIN alias /\ alias' = [x \in DOMAIN alias' |-> alias'[x]]
          /\ \A x \in DOMAIN alias : alias'[x] \in Normal
      BY <2>7, <2>8 DEF NamesTyped
    <2> QED BY <2>8, <2>9 DEF NamesTyped, Normal
  <1> QED BY <1>1, <1>2, <1>3, <1>4, <1>5 DEF NamesNext

LEMMA NamesAlways == Spec => []NamesTyped
  <1>1. Init => NamesTyped
    BY DEF Init, NamesInit, NamesTyped
  <1>2. NamesTyped /\ [Next]_buildVars => NamesTyped'
    <2> SUFFICES ASSUME NamesTyped, [Next]_buildVars PROVE NamesTyped'
      OBVIOUS
    <2>1. [NamesNext]_nameVars
      BY DEF Next, buildVars
    <2> QED BY <2>1, NextNamesTyped
  <1> QED BY <1>1, <1>2, PTL DEF Spec

-----------------------------------------------------------------------------
(***************************************************************************)
(* Pairwise deduplication                                                  *)
(***************************************************************************)
RowStatus == {"kept", "junk", "instance", "merged"}
Dropped == {c \in NewLabel : status[c] \in {"junk", "instance"}}

\* A partition of the labels; every label that was dropped is alone in it.
Parts(gs) ==
  /\ UNION gs = Label /\ \A g \in gs : g # {}
  /\ \A g, h \in gs : g = h \/ g \cap h = {}
LoneDrop(gs, D) == \A g \in gs : Cardinality(g) = 1 \/ g \cap D = {}

\* What a consolidation may do to the groups.
Grows(gs, hs, D) ==
  /\ \A h \in hs : (h \in gs \/ Cardinality(h) <= MaxGroup) /\ (Cardinality(h) = 1 \/ h \cap D = {})
  /\ \A g \in gs : \E h \in hs : g \subseteq h

Fair(D) == (Label \ D) \X (Label \ D)

LEMMA LabelsFinite ==
  /\ NExisting \in Nat /\ NProposed \in Nat /\ MaxGroup \in Nat /\ Label \subseteq Nat /\ Label = 1..(NExisting + NProposed)
  /\ \A S \in SUBSET Label : IsFiniteSet(S) /\ Cardinality(S) \in Nat
  /\ IsFiniteSet(NewLabel) /\ Cardinality(NewLabel) = NProposed /\ NoClass \notin Label
  /\ \A x \in InOntology, y \in NewLabel : x < y /\ x # y
  <1>1. NExisting \in Nat /\ NProposed \in Nat /\ MaxGroup \in Nat
    BY DedupAssumption
  <1>2. Label = 1..(NExisting + NProposed)
    BY <1>1 DEF Label, InOntology, NewLabel
  <1>3. IsFiniteSet(Label)
    BY <1>1, <1>2, FS_Interval
  <1>4. \A S \in SUBSET Label : IsFiniteSet(S) /\ Cardinality(S) \in Nat
    BY <1>3, FS_Subset, FS_CardinalityType
  <1>5. IsFiniteSet(NewLabel) /\ Cardinality(NewLabel) = NProposed
    <2>1. NExisting + 1 \in Int /\ NExisting + NProposed \in Int
      BY <1>1
    <2>2. Cardinality(NewLabel) = IF NExisting + 1 > NExisting + NProposed THEN 0
                                  ELSE (NExisting + NProposed) - (NExisting + 1) + 1
      BY <2>1, FS_Interval DEF NewLabel
    <2>3. IsFiniteSet(NewLabel)
      BY <2>1, FS_Interval DEF NewLabel
    <2> QED BY <1>1, <2>2, <2>3
  <1>6. Label \subseteq Nat /\ NoClass \notin Label
    BY <1>1, <1>2 DEF NoClass
  <1>7. \A x \in InOntology, y \in NewLabel : x < y /\ x # y
    BY <1>1 DEF InOntology, NewLabel
  <1> QED BY <1>1, <1>2, <1>4, <1>5, <1>6, <1>7

LEMMA FindIs ==
  ASSUME NEW gs, Parts(gs), NEW x \in Label
  PROVE  /\ Find(gs, x) \in gs /\ x \in Find(gs, x) /\ Find(gs, x) \in SUBSET Label
         /\ \A g \in gs : x \in g => g = Find(gs, x)
  <1>1. \E g \in gs : x \in g
    BY DEF Parts
  <1>2. Find(gs, x) \in gs /\ x \in Find(gs, x)
    BY <1>1 DEF Find
  <1>3. \A g \in gs : x \in g => g = Find(gs, x)
    BY <1>2 DEF Parts
  <1> QED BY <1>2, <1>3 DEF Parts

LEMMA GrowsNot ==
  ASSUME NEW gs, NEW D, LoneDrop(gs, D)
  PROVE  Grows(gs, gs, D)
  BY DEF Grows, LoneDrop

LEMMA GrowsOn ==
  ASSUME NEW gs, NEW hs, NEW ks, NEW D, Grows(gs, hs, D), Grows(hs, ks, D)
  PROVE  Grows(gs, ks, D)
  <1>1. \A g \in gs : \E k \in ks : g \subseteq k
    <2>1. ASSUME NEW g \in gs PROVE \E k \in ks : g \subseteq k
      <3>1. PICK h \in hs : g \subseteq h
        BY DEF Grows
      <3>2. PICK k \in ks : h \subseteq k
        BY DEF Grows
      <3> QED BY <3>1, <3>2
    <2> QED BY <2>1
  <1>2. \A k \in ks : k \in gs \/ Cardinality(k) <= MaxGroup
    BY DEF Grows
  <1> QED BY <1>1, <1>2 DEF Grows

LEMMA UnionGrows ==
  ASSUME NEW gs, NEW D, Parts(gs), LoneDrop(gs, D), NEW p \in Fair(D)
  PROVE  Parts(Union(gs, p)) /\ LoneDrop(Union(gs, p), D) /\ Grows(gs, Union(gs, p), D)
  <1> DEFINE a == Find(gs, p[1])
             b == Find(gs, p[2])
             new == (gs \ {a, b}) \cup {a \cup b}
  <1>1. p[1] \in Label \ D /\ p[2] \in Label \ D
    BY DEF Fair
  <1>2. a \in gs /\ b \in gs /\ p[1] \in a /\ p[2] \in b /\ a \in SUBSET Label /\ b \in SUBSET Label
    BY <1>1, FindIs
  <1>3. Union(gs, p) = IF a = b \/ Cardinality(a) + Cardinality(b) > MaxGroup THEN gs ELSE new
    BY DEF Union
  <1> HIDE DEF a, b
  <1>4. CASE a = b \/ Cardinality(a) + Cardinality(b) > MaxGroup
    BY <1>3, <1>4, GrowsNot
  <1>5. CASE ~(a = b \/ Cardinality(a) + Cardinality(b) > MaxGroup)
    <2>1. Union(gs, p) = new
      BY <1>3, <1>5
    <2>2. Cardinality(a \cup b) <= MaxGroup
      <3>1. IsFiniteSet(a) /\ IsFiniteSet(b) /\ Cardinality(a) \in Nat /\ Cardinality(b) \in Nat /\ MaxGroup \in Nat
        BY <1>2, LabelsFinite
      <3>2. a \cap b \in SUBSET Label
        BY <1>2
      <3>3. Cardinality(a \cap b) \in Nat
        BY <3>2, LabelsFinite
      <3>4. Cardinality(a \cup b) = Cardinality(a) + Cardinality(b) - Cardinality(a \cap b)
        BY <3>1, FS_Union
      <3> QED BY <1>5, <3>1, <3>3, <3>4
    <2>3. a \cap D = {} /\ b \cap D = {}
      <3>1. ASSUME NEW g \in gs, NEW x \in g, x \notin D PROVE g \cap D = {}
        <4>1. CASE g \cap D = {}
          BY <4>1
        <4>2. CASE Cardinality(g) = 1
          <5>1. g \in SUBSET Label
            BY DEF Parts
          <5>2. IsFiniteSet(g)
            BY <5>1, LabelsFinite
          <5>3. \E y : g = {y}
            BY <4>2, <5>2, FS_Singleton
          <5> QED BY <3>1, <5>3
        <4> QED BY <4>1, <4>2 DEF LoneDrop
      <3> QED BY <1>1, <1>2, <3>1
    <2>4. Parts(new)
      <3>1. UNION new = UNION gs
        <4>1. ASSUME NEW x, NEW g \in gs, x \in g PROVE \E h \in new : x \in h
          <5>1. CASE g \in {a, b}
            BY <4>1, <5>1
          <5>2. CASE g \notin {a, b}
            BY <4>1, <5>2
          <5> QED BY <5>1, <5>2
        <4>2. ASSUME NEW x, NEW h \in new, x \in h PROVE \E g \in gs : x \in g
          BY <1>2, <4>2
        <4> HIDE DEF new
        <4> QED BY <4>1, <4>2
      <3>2. \A g \in new : g # {}
        BY <1>2 DEF Parts
      <3>3. \A g, h \in new : g = h \/ g \cap h = {}
        BY <1>2 DEF Parts
      <3> HIDE DEF new
      <3> QED BY <3>1, <3>2, <3>3 DEF Parts
    <2>5. LoneDrop(new, D)
      BY <2>3 DEF LoneDrop
    <2>6. Grows(gs, new, D)
      <3>1. \A h \in new : h \in gs \/ Cardinality(h) <= MaxGroup
        BY <2>2
      <3>2. \A g \in gs : \E h \in new : g \subseteq h
        <4>1. ASSUME NEW g \in gs PROVE \E h \in new : g \subseteq h
          <5>1. CASE g \in {a, b}
            <6>1. a \cup b \in new /\ g \subseteq a \cup b
              BY <5>1
            <6> QED BY <6>1
          <5>2. CASE g \notin {a, b}
            <6>1. g \in new
              BY <5>2
            <6> QED BY <6>1
          <5> QED BY <5>1, <5>2
        <4> QED BY <4>1
      <3> QED BY <2>5, <3>1, <3>2 DEF Grows, LoneDrop
    <2> QED BY <2>1, <2>4, <2>5, <2>6
  <1> QED BY <1>4, <1>5

LEMMA JoinedGrows ==
  ASSUME NEW gs, NEW D, Parts(gs), LoneDrop(gs, D), NEW pairs \in Seq(Fair(D))
  PROVE  Parts(Joined(gs, pairs)) /\ LoneDrop(Joined(gs, pairs), D) /\ Grows(gs, Joined(gs, pairs), D)
  <1> DEFINE n == Len(pairs)
             A == {hs \in SUBSET SUBSET Label : Parts(hs) /\ LoneDrop(hs, D) /\ Grows(gs, hs, D)}
             G == [x \in (1..n) \X A |-> Union(x[2], pairs[x[1]])]
             Step(f) == [i \in 0..n |-> IF i = 0 THEN gs ELSE Union(f[i - 1], pairs[i])]
             join == CHOOSE join : join = Step(join)
  <1>1. n \in Nat /\ \A k \in 1..n : pairs[k] \in Fair(D)
    OBVIOUS
  <1>2. gs \in A
    BY GrowsNot DEF Parts
  <1>3. \A hs \in A, p \in Fair(D) : Union(hs, p) \in A
    <2>1. ASSUME NEW hs \in A, NEW p \in Fair(D) PROVE Union(hs, p) \in A
      <3>1. Parts(Union(hs, p)) /\ LoneDrop(Union(hs, p), D) /\ Grows(hs, Union(hs, p), D)
        BY UnionGrows
      <3>2. Grows(gs, Union(hs, p), D)
        BY <3>1, GrowsOn
      <3>3. Union(hs, p) \in SUBSET SUBSET Label
        BY <3>1 DEF Parts
      <3> QED BY <3>1, <3>2, <3>3
    <2> QED BY <2>1
  <1>4. Joined(gs, pairs) = join[n]
    BY DEF Joined
  <1> HIDE DEF A
  <1>5. G \in [(1..n) \X A -> A]
    <2>1. ASSUME NEW x \in (1..n) \X A PROVE Union(x[2], pairs[x[1]]) \in A
      BY <1>1, <1>3
    <2> QED BY <2>1
  <1>6. PICK f \in [0..n -> A] : StepsBy(f, G, gs, n)
    BY <1>1, <1>2, <1>5, StepsExist
  <1>7. f = Step(f)
    <2>1. ASSUME NEW i \in 0..n PROVE f[i] = IF i = 0 THEN gs ELSE Union(f[i - 1], pairs[i])
      <3>1. CASE i = 0
        BY <1>6, <3>1 DEF StepsBy
      <3>2. CASE i # 0
        <4>1. i \in 1..n /\ i - 1 \in 0..n
          BY <1>1, <3>2
        <4>2. f[i - 1] \in A
          BY <4>1
        <4>3. <<i, f[i - 1]>> \in (1..n) \X A
          BY <4>1, <4>2
        <4>4. G[<<i, f[i - 1]>>] = Union(f[i - 1], pairs[i])
          BY <4>3
        <4> QED BY <1>6, <3>2, <4>1, <4>4 DEF StepsBy
      <3> QED BY <3>1, <3>2
    <2> QED BY <2>1
  <1>8. join = Step(join)
    BY <1>7
  <1> HIDE DEF join
  <1>9. join[0] = gs /\ \A i \in 1..n : join[i] = Union(join[i - 1], pairs[i])
    <2>1. \A i \in 0..n : join[i] = IF i = 0 THEN gs ELSE Union(join[i - 1], pairs[i])
      BY <1>8
    <2>2. 0 \in 0..n /\ \A i \in 1..n : i \in 0..n /\ i # 0
      BY <1>1
    <2> QED BY <2>1, <2>2
  <1> HIDE DEF Step
  <1>10. \A i \in Nat : i <= n => join[i] \in A
    <2> DEFINE T == {i \in Nat : i <= n => join[i] \in A}
    <2>1. 0 \in T
      BY <1>2, <1>9
    <2>2. ASSUME NEW i \in T PROVE i + 1 \in T
      <3> SUFFICES ASSUME i + 1 <= n PROVE join[i + 1] \in A
        OBVIOUS
      <3>1. i + 1 \in 1..n /\ (i + 1) - 1 = i /\ join[i] \in A
        BY <1>1
      <3>2. join[i + 1] = Union(join[i], pairs[i + 1])
        BY <1>9, <3>1
      <3> QED BY <1>1, <1>3, <3>1, <3>2
    <2> HIDE DEF T
    <2>3. T \in SUBSET Nat
      BY DEF T
    <2>4. \A i \in Nat : i \in T
      BY <2>1, <2>2, <2>3, Climb
    <2> QED BY <2>4 DEF T
  <1>11. join[n] \in A
    BY <1>1, <1>10
  <1> QED BY <1>4, <1>11 DEF A

\* The walk along a dictionary of names: where it is, and where it has been.
Ref == Label \cup {NoClass}
Hop(w, parent) == IF w[1] \in NewLabel \ w[2] THEN <<Renamed(w[1], parent), w[2] \cup {w[1]}>> ELSE w
Hops(w, ref, parent) == w[0] = <<ref, {}>> /\ \A i \in 1..NProposed : w[i] = Hop(w[i - 1], parent)
Refers(parent) == \A x \in NewLabel : Renamed(x, parent) \in Ref

LEMMA FixWalks ==
  ASSUME NEW parent, Refers(parent), NEW ref \in Ref
  PROVE  \E w : /\ Hops(w, ref, parent) /\ Fix(ref, parent) = w[NProposed][1]
                /\ \A i \in 0..NProposed : w[i] \in Ref \X SUBSET NewLabel
  <1> DEFINE N == NProposed
             A == Ref \X SUBSET NewLabel
             Go1(w) == IF w[1] \in NewLabel \ w[2] THEN <<Renamed(w[1], parent), w[2] \cup {w[1]}>> ELSE w
             G == [w \in A |-> Go1(w)]
             a == <<ref, {}>>
             Walk(f) == [i \in 0..N |-> IF i = 0 THEN a ELSE Go1(f[i - 1])]
             walk == CHOOSE walk : walk = Walk(walk)
  <1>1. N \in Nat
    BY LabelsFinite
  <1>2. a \in A
    OBVIOUS
  <1>3. \A w \in A : Go1(w) \in A
    <2>1. ASSUME NEW w \in A PROVE Go1(w) \in A
      <3>1. CASE w[1] \in NewLabel \ w[2]
        <4>1. Renamed(w[1], parent) \in Ref
          BY <3>1 DEF Refers
        <4>2. w[2] \cup {w[1]} \in SUBSET NewLabel
          BY <3>1
        <4> QED BY <3>1, <4>1, <4>2
      <3>2. CASE w[1] \notin NewLabel \ w[2]
        BY <3>2
      <3> QED BY <3>1, <3>2
    <2> QED BY <2>1
  <1> HIDE DEF A
  <1>4. G \in [A -> A]
    BY <1>3
  <1>5. PICK f \in [0..N -> A] : ClimbsBy(f, G, a, N)
    BY <1>1, <1>2, <1>4, Iterates
  <1>6. f = Walk(f)
    <2>1. ASSUME NEW i \in 0..N PROVE f[i] = IF i = 0 THEN a ELSE Go1(f[i - 1])
      <3>1. CASE i = 0
        BY <1>5, <3>1 DEF ClimbsBy
      <3>2. CASE i # 0
        <4>1. i \in 1..N /\ i - 1 \in 0..N
          BY <1>1, <3>2
        <4>2. f[i - 1] \in A
          BY <4>1
        <4>3. f[i] = G[f[i - 1]]
          BY <1>5, <4>1 DEF ClimbsBy
        <4> HIDE DEF Go1
        <4> QED BY <3>2, <4>2, <4>3
      <3> QED BY <3>1, <3>2
    <2> HIDE DEF Go1
    <2> QED BY <2>1
  <1>7. walk = Walk(walk)
    BY <1>6
  <1>8. Fix(ref, parent) = walk[N][1]
    BY DEF Fix
  <1> HIDE DEF walk, Go1
  <1>9. walk[0] = a /\ \A i \in 1..N : walk[i] = Go1(walk[i - 1])
    <2>1. \A i \in 0..N : walk[i] = IF i = 0 THEN a ELSE Go1(walk[i - 1])
      BY <1>7
    <2>2. 0 \in 0..N /\ \A i \in 1..N : i \in 0..N /\ i # 0
      BY <1>1
    <2> QED BY <2>1, <2>2
  <1>10. \A i \in Nat : i <= N => walk[i] \in A
    <2> DEFINE T == {i \in Nat : i <= N => walk[i] \in A}
    <2>1. 0 \in T
      BY <1>2, <1>9
    <2>2. ASSUME NEW i \in T PROVE i + 1 \in T
      <3> SUFFICES ASSUME i + 1 <= N PROVE walk[i + 1] \in A
        OBVIOUS
      <3>1. i + 1 \in 1..N /\ (i + 1) - 1 = i /\ walk[i] \in A
        BY <1>1
      <3>2. walk[i + 1] = Go1(walk[i])
        BY <1>9, <3>1
      <3> QED BY <1>3, <3>1, <3>2
    <2> HIDE DEF T
    <2>3. T \in SUBSET Nat
      BY DEF T
    <2>4. \A i \in Nat : i \in T
      BY <2>1, <2>2, <2>3, Climb
    <2> QED BY <2>4 DEF T
  <1>11. \A i \in 0..N : walk[i] \in A
    BY <1>1, <1>10
  <1>12. Hops(walk, ref, parent)
    BY <1>9 DEF Hops, Hop, Go1
  <1> QED BY <1>8, <1>11, <1>12 DEF A

\* Once it stops, it stays.
LEMMA HopsStop ==
  ASSUME NEW w, NEW ref, NEW parent, Hops(w, ref, parent), NEW m \in 0..NProposed, w[m][1] \notin NewLabel \ w[m][2]
  PROVE  w[NProposed] = w[m]
  <1> DEFINE T == {i \in Nat : m + i <= NProposed => w[m + i] = w[m]}
  <1>1. NProposed \in Nat /\ m \in Nat
    BY LabelsFinite
  <1>2. 0 \in T
    BY <1>1
  <1>3. ASSUME NEW i \in T PROVE i + 1 \in T
    <2> SUFFICES ASSUME m + (i + 1) <= NProposed PROVE w[m + (i + 1)] = w[m]
      OBVIOUS
    <2>1. m + (i + 1) \in 1..NProposed /\ (m + (i + 1)) - 1 = m + i /\ m + i <= NProposed
      BY <1>1
    <2>2. w[m + i] = w[m]
      BY <2>1
    <2>3. w[m + (i + 1)] = Hop(w[m + i], parent)
      BY <2>1 DEF Hops
    <2> QED BY <2>2, <2>3 DEF Hop
  <1> HIDE DEF T
  <1>4. T \in SUBSET Nat
    BY DEF T
  <1>5. NProposed - m \in Nat /\ m + (NProposed - m) = NProposed
    BY <1>1
  <1>6. NProposed - m \in T
    BY <1>2, <1>3, <1>4, <1>5, Climb
  <1> QED BY <1>5, <1>6 DEF T

\* A walk ends outside the dictionary or at a name from which it comes back to that name.
LEMMA FixEnds ==
  ASSUME NEW parent, Refers(parent), NEW ref \in NewLabel
  PROVE  /\ Fix(ref, parent) \in Ref
         /\ Fix(ref, parent) \in NewLabel => Fix(Fix(ref, parent), parent) = Fix(ref, parent)
  <1> DEFINE N == NProposed
  <1>1. N \in Nat /\ IsFiniteSet(NewLabel) /\ Cardinality(NewLabel) = N /\ ref \in Ref
    BY LabelsFinite DEF Ref, Label
  <1>2. PICK w : /\ Hops(w, ref, parent) /\ Fix(ref, parent) = w[N][1]
                 /\ \A i \in 0..N : w[i] \in Ref \X SUBSET NewLabel
    BY <1>1, FixWalks
  <1> DEFINE Still(i) == w[i][1] \notin NewLabel \ w[i][2]
             Stops == {i \in 0..N : Still(i)}
  <1>3. \A i \in 0..N : w[i][1] \in Ref /\ w[i][2] \in SUBSET NewLabel
    BY <1>2
  <1>4. ASSUME NEW i \in 0..N, i # N, ~Still(i)
        PROVE  w[i + 1][1] = Renamed(w[i][1], parent) /\ w[i + 1][2] = w[i][2] \cup {w[i][1]}
    <2>1. i + 1 \in 1..N /\ (i + 1) - 1 = i
      BY <1>1, <1>4
    <2>2. w[i + 1] = Hop(w[i], parent)
      BY <1>2, <2>1 DEF Hops
    <2> QED BY <1>4, <2>2 DEF Hop
  <1>5. ASSUME NEW m \in 0..N, \A k \in 0..N : k < m => ~Still(k)
        PROVE  /\ Cardinality(w[m][2]) = m
               /\ \A k \in 0..N : k < m => w[k][1] \in w[m][2]
               /\ \A z \in w[m][2] : \E k \in 0..N : k < m /\ z = w[k][1]
    <2> DEFINE P(i) == /\ Cardinality(w[i][2]) = i
                       /\ \A k \in 0..N : k < i => w[k][1] \in w[i][2]
                       /\ \A z \in w[i][2] : \E k \in 0..N : k < i /\ z = w[k][1]
               T == {i \in Nat : i <= m => P(i)}
    <2>1. 0 \in T
      <3>1. w[0] = <<ref, {}>>
        BY <1>2 DEF Hops
      <3>2. w[0][2] = {}
        BY <3>1
      <3>3. P(0)
        BY <3>2, FS_EmptySet
      <3> QED BY <3>3
    <2>2. ASSUME NEW i \in T PROVE i + 1 \in T
      <3> SUFFICES ASSUME i + 1 <= m PROVE P(i + 1)
        OBVIOUS
      <3>1. i \in 0..N /\ i # N /\ i < m /\ P(i) /\ i \in Nat
        BY <1>1
      <3>2. ~Still(i)
        BY <1>5, <3>1
      <3>3. w[i + 1][2] = w[i][2] \cup {w[i][1]}
        BY <1>4, <3>1, <3>2
      <3>4. IsFiniteSet(w[i][2]) /\ w[i][1] \notin w[i][2]
        <4>1. w[i][2] \in SUBSET NewLabel
          BY <1>3, <3>1
        <4> QED BY <1>1, <3>2, <4>1, FS_Subset
      <3>5. Cardinality(w[i + 1][2]) = i + 1
        <4>1. PICK S, x : S = w[i][2] /\ x = w[i][1]
          OBVIOUS
        <4>2. Cardinality(S \cup {x}) = Cardinality(S) + 1
          BY <3>4, <4>1, FS_AddElement
        <4> QED BY <3>1, <3>3, <4>1, <4>2
      <3>6. \A k \in 0..N : k < i + 1 <=> (k < i \/ k = i)
        BY <3>1
      <3> QED BY <3>1, <3>3, <3>5, <3>6
    <2> HIDE DEF T, P
    <2>3. T \in SUBSET Nat
      BY DEF T
    <2>4. m \in T
      BY <1>1, <2>1, <2>2, <2>3, Climb
    <2>5. P(m)
      BY <1>1, <2>4 DEF T
    <2> QED BY <2>5 DEF P
  <1>6. Stops # {}
    <2> SUFFICES ASSUME \A k \in 0..N : ~Still(k) PROVE FALSE
      OBVIOUS
    <2>1. N \in 0..N
      BY <1>1
    <2>2. Cardinality(w[N][2]) = N /\ w[N][2] \in SUBSET NewLabel
      BY <1>3, <1>5, <2>1
    <2>3. w[N][2] = NewLabel
      BY <1>1, <2>2, FS_Subset
    <2> QED BY <2>1, <2>3
  <1>7. PICK m \in Stops : \A i \in Stops : m <= i
    <2>1. Stops \in SUBSET Nat
      BY <1>1
    <2> QED BY <1>6, <2>1, LeastOf
  <1>8. m \in 0..N /\ Still(m) /\ m \in Nat /\ \A k \in 0..N : k < m => ~Still(k)
    BY <1>1, <1>7
  <1>9. Fix(ref, parent) = w[m][1]
    <2>1. w[N] = w[m]
      BY <1>2, <1>8, HopsStop
    <2> QED BY <1>2, <2>1
  <1> HIDE DEF Stops
  <1>10. ASSUME w[m][1] \in NewLabel PROVE Fix(w[m][1], parent) = w[m][1]
    <2>1. PICK j \in 0..N : j < m /\ w[m][1] = w[j][1]
      BY <1>5, <1>8, <1>10
    <2>2. PICK v : /\ Hops(v, w[m][1], parent) /\ Fix(w[m][1], parent) = v[N][1]
                   /\ \A i \in 0..N : v[i] \in Ref \X SUBSET NewLabel
      BY <1>3, <1>8, FixWalks
    <2>3. PICK d \in Nat : d = m - j /\ j + d = m /\ d >= 1 /\ d <= N
      BY <1>1, <1>8, <2>1
    <2> DEFINE P(i) == /\ v[i][1] = w[j + i][1]
                       /\ i >= 1 => w[j][1] \in v[i][2]
                       /\ \A z \in v[i][2] : \E k \in 0..N : k < j + i /\ z = w[k][1]
               T == {i \in Nat : i <= d => P(i)}
    <2>4. 0 \in T
      <3>1. v[0] = <<w[m][1], {}>>
        BY <2>2 DEF Hops
      <3>2. v[0][1] = w[j][1] /\ v[0][2] = {} /\ j + 0 = j /\ ~(0 >= 1)
        BY <2>1, <3>1
      <3> QED BY <3>2
    <2>5. ASSUME NEW i \in T PROVE i + 1 \in T
      <3> SUFFICES ASSUME i + 1 <= d PROVE P(i + 1)
        OBVIOUS
      <3>1. i \in Nat /\ j + i \in 0..N /\ j + i < m /\ j + i # N /\ j + (i + 1) = (j + i) + 1 /\ i + 1 \in 1..N /\ (i + 1) - 1 = i /\ P(i)
        BY <1>1, <1>8, <2>1, <2>3
      <3>2. ~Still(j + i)
        BY <1>8, <3>1
      <3>3. w[(j + i) + 1][1] = Renamed(w[j + i][1], parent)
        BY <1>4, <3>1, <3>2
      <3>4. \A k \in 0..N : k < j + i => w[k][1] \in w[j + i][2]
        <4>1. \A k \in 0..N : k < j + i => k < m
          BY <1>8, <3>1
        <4> QED BY <1>5, <1>8, <3>1, <4>1
      <3>5. v[i][1] \in NewLabel \ v[i][2]
        BY <3>1, <3>2, <3>4
      <3>6. v[i + 1] = Hop(v[i], parent)
        BY <2>2, <3>1 DEF Hops
      <3>7. v[i + 1][1] = Renamed(v[i][1], parent) /\ v[i + 1][2] = v[i][2] \cup {v[i][1]}
        BY <3>5, <3>6 DEF Hop
      <3>8. v[i + 1][1] = w[j + (i + 1)][1]
        BY <3>1, <3>3, <3>7
      <3>9. w[j][1] \in v[i + 1][2]
        <4>1. CASE i = 0
          <5>1. j + i = j
            BY <2>1, <4>1
          <5> QED BY <3>1, <3>7, <5>1
        <4>2. CASE i # 0
          BY <3>1, <3>7, <4>2
        <4> QED BY <4>1, <4>2
      <3>10. \A z \in v[i + 1][2] : \E k \in 0..N : k < j + (i + 1) /\ z = w[k][1]
        <4>1. \A k \in 0..N : k < j + i => k < j + (i + 1)
          BY <3>1, <2>1
        <4>2. j + i < j + (i + 1)
          BY <3>1, <2>1
        <4> QED BY <3>1, <3>7, <4>1, <4>2
      <3> QED BY <3>8, <3>9, <3>10
    <2> HIDE DEF T, P
    <2>6. T \in SUBSET Nat
      BY DEF T
    <2>7. d \in T
      BY <2>3, <2>4, <2>5, <2>6, Climb
    <2>8. P(d)
      BY <2>3, <2>7 DEF T
    <2>9. v[d][1] = w[m][1] /\ w[m][1] \in v[d][2]
      BY <2>1, <2>3, <2>8 DEF P
    <2>10. d \in 0..NProposed /\ v[d][1] \notin NewLabel \ v[d][2]
      BY <1>1, <2>3, <2>9
    <2>11. v[N] = v[d]
      BY <2>2, <2>10, HopsStop
    <2> QED BY <2>2, <2>9, <2>11
  <1> QED BY <1>3, <1>8, <1>9, <1>10

DedupTyped ==
  /\ stage \in {"validity", "exact", "existing", "class", "written", "rebuilt"}
  /\ status \in [NewLabel -> RowStatus] /\ source \in SUBSET NewLabel
  /\ DOMAIN mergedInto = {c \in NewLabel : status[c] = "merged"}
  /\ IsFiniteSet(judging) /\ Cardinality(judging) <= MaxPending

\* Until the merges are written only classes that are kept are looked up and judged; then
\* every merged class has the class of its group, and a kept one is that class.
DedupHolds ==
  /\ DedupTyped /\ Parts(group) /\ LoneDrop(group, Dropped)
  /\ stage = "validity" => group = {{x} : x \in Label}
  /\ stage \in {"validity", "exact"} => judging = {} /\ source = {}
  /\ stage \in {"validity", "exact", "existing", "class"} => Kept = NewLabel \ Dropped
  /\ \A batch \in judging : batch \in SUBSET Fair(Dropped)
  /\ source \subseteq Kept
  /\ stage # "rebuilt" => rename = <<>>
  /\ stage \in {"written", "rebuilt"} =>
       /\ judging = {} /\ source = {}
       /\ \A c \in NewLabel : status[c] = "merged" => mergedInto[c] = Canon(Find(group, c))
       /\ \A c \in NewLabel : status[c] = "kept" => Canon(Find(group, c)) = c

\* The instance counts as this module does.
LEMMA SameCount == \A S : Promise!Cardinality(S) = Cardinality(S)
  BY DEF Promise!Cardinality, Cardinality

DedupStep == Promise!Drop \/ Promise!Merge \/ Promise!Answer \/ UNCHANGED <<group, Dropped, rename>>

LEMMA DroppedIs ==
  /\ Dropped = {c \in NewLabel : status[c] \in {"junk", "instance"}}
  /\ status \in [NewLabel -> RowStatus] => \A c \in NewLabel : status[c] = "merged" \/ status[c] = "kept" \/ c \in Dropped
  BY DEF Dropped, RowStatus

LEMMA CanonIs ==
  ASSUME NEW g \in SUBSET Label, g # {}
  PROVE  Canon(g) \in g /\ \A x \in g : Canon(g) <= x
  <1>1. g \in SUBSET Nat
    BY LabelsFinite
  <1>2. \E c \in g : \A x \in g : c <= x
    BY <1>1, LeastOf
  <1> QED BY <1>2 DEF Canon

LEMMA OneEach ==
  Parts({{x} : x \in Label}) /\ \A D : LoneDrop({{x} : x \in Label}, D)
  <1>1. \A x : Cardinality({x}) = 1
    BY FS_Singleton
  <1> QED BY <1>1 DEF Parts, LoneDrop

LEMMA DedupStarts ==
  ASSUME DedupInit
  PROVE  DedupHolds /\ Promise!ConsolidationInit
  <1>1. Dropped = {} /\ Kept = NewLabel
    BY DEF DedupInit, Dropped, Kept
  <1>2. DedupTyped
    <2>1. IsFiniteSet({}) /\ Cardinality({}) = 0 /\ MaxPending \in Nat
      BY FS_EmptySet, DedupAssumption
    <2>2. status \in [NewLabel -> RowStatus] /\ {c \in NewLabel : status[c] = "merged"} = {} /\ DOMAIN mergedInto = {}
      BY DEF DedupInit, RowStatus
    <2>3. judging = {} /\ source = {} /\ stage = "validity"
      BY DEF DedupInit
    <2>4. Cardinality(judging) <= MaxPending
      BY <2>1, <2>3
    <2> QED BY <2>1, <2>2, <2>3, <2>4 DEF DedupTyped
  <1>3. DedupHolds
    BY <1>1, <1>2, OneEach DEF DedupInit, DedupHolds
  <1>4. Promise!ConsolidationInit
    BY <1>1 DEF DedupInit, Promise!ConsolidationInit, Dropped, Label
  <1> QED BY <1>3, <1>4

\* Joining fair pairs is a merge, and keeps the groups as they must be.
LEMMA JoinsMerge ==
  ASSUME DedupHolds, stage # "rebuilt", UNCHANGED <<status, rename>>, NEW S \in SUBSET Fair(Dropped),
         \E s \in SetToSeqs(S) : group' = Joined(group, s)
  PROVE  Parts(group') /\ LoneDrop(group', Dropped) /\ Promise!Merge
  <1>1. IsFiniteSet(S) /\ Cardinality(S) \in Nat
    <2>1. Label \ Dropped \in SUBSET Label
      OBVIOUS
    <2>2. IsFiniteSet(Label \ Dropped)
      BY <2>1, LabelsFinite
    <2>3. IsFiniteSet(Fair(Dropped))
      BY <2>2, FS_Product DEF Fair
    <2> QED BY <2>3, FS_Subset, FS_CardinalityType
  <1>2. PICK s \in SetToSeqs(S) : group' = Joined(group, s)
    OBVIOUS
  <1>3. s \in Seq(Fair(Dropped))
    <2>1. s \in [1..Cardinality(S) -> S]
      BY DEF SetToSeqs
    <2>2. s \in [1..Cardinality(S) -> Fair(Dropped)]
      BY <2>1
    <2> QED BY <1>1, <2>2
  <1>4. Parts(group') /\ LoneDrop(group', Dropped) /\ Grows(group, group', Dropped)
    BY <1>2, <1>3, JoinedGrows DEF DedupHolds
  <1>5. Dropped' = Dropped /\ rename = <<>>
    BY DEF Dropped, DedupHolds
  <1>6. Promise!Merge
    BY <1>4, <1>5, SameCount DEF Grows, Promise!Merge, Promise!Open, Dropped
  <1> QED BY <1>4, <1>6

LEMMA ValidityKeeps ==
  ASSUME DedupHolds, NEW junk \in SUBSET NewLabel, NEW judged \in SUBSET NewLabel, ValidityJudge(junk, judged)
  PROVE  DedupHolds' /\ DedupStep
  <1>1. /\ stage = "validity" /\ stage' = "exact" /\ UNCHANGED <<mergedInto, group, source, judging, rename>>
        /\ status' = [c \in NewLabel |-> IF c \in junk THEN "junk" ELSE IF c \in judged THEN "instance" ELSE "kept"]
    BY DEF ValidityJudge
  <1>2. /\ group = {{x} : x \in Label} /\ judging = {} /\ rename = <<>>
    BY <1>1 DEF DedupHolds
  <1>3. status' \in [NewLabel -> RowStatus] /\ \A c \in NewLabel : status'[c] # "merged"
    BY <1>1 DEF RowStatus
  <1>4. Dropped' = {c \in NewLabel : c \in junk \cup judged} /\ Kept' = NewLabel \ Dropped'
    BY <1>1 DEF Dropped, Kept
  <1>5. source = {} /\ DOMAIN mergedInto = {}
    <2>1. \A c \in NewLabel : status[c] # "merged"
      BY <1>1 DEF DedupHolds, Kept, Dropped
    <2> QED BY <1>1, <2>1 DEF DedupHolds, DedupTyped
  <1>6. DedupTyped'
    BY <1>1, <1>3, <1>5 DEF DedupHolds, DedupTyped
  <1>7. LoneDrop(group, Dropped)'
    BY <1>1, <1>2, OneEach
  <1>8. DedupHolds'
    BY <1>1, <1>2, <1>4, <1>5, <1>6, <1>7 DEF DedupHolds, Parts
  <1>9. Promise!Drop
    <2>1. \A g \in group : Cardinality(g) = 1
      BY <1>2, FS_Singleton
    <2>2. Dropped' \in SUBSET NewLabel
      BY <1>4
    <2> QED BY <1>1, <1>2, <2>1, <2>2, SameCount DEF Promise!Drop, Promise!Open, Dropped
  <1> QED BY <1>8, <1>9 DEF DedupStep

LEMMA ExactKeeps ==
  ASSUME DedupHolds, NEW d \in SUBSET Kept, ExactMatches(d)
  PROVE  DedupHolds' /\ DedupStep
  <1>1. stage = "exact" /\ stage' = "existing" /\ source' = Kept /\ UNCHANGED <<status, mergedInto, judging, rename>>
    BY DEF ExactMatches
  <1>2. PICK f \in [d -> InOntology] : \E m \in SetToSeqs({<<c, f[c]>> : c \in d}) : group' = Joined(group, m)
    BY DEF ExactMatches
  <1>3. {<<c, f[c]>> : c \in d} \in SUBSET Fair(Dropped)
    <2>1. ASSUME NEW c \in d PROVE c \in Label \ Dropped /\ f[c] \in Label \ Dropped
      <3>1. c \in NewLabel \ Dropped
        BY DEF Kept, Dropped
      <3>2. f[c] \in InOntology /\ f[c] \notin NewLabel
        BY LabelsFinite
      <3> QED BY <3>1, <3>2 DEF Label, Dropped
    <2> QED BY <2>1 DEF Fair
  <1>4. Parts(group') /\ LoneDrop(group', Dropped) /\ Promise!Merge
    BY <1>1, <1>2, <1>3, JoinsMerge
  <1>5. Dropped' = Dropped /\ Kept' = Kept /\ Kept \in SUBSET NewLabel
    BY <1>1 DEF Dropped, Kept
  <1>6. DedupHolds'
    BY <1>1, <1>4, <1>5 DEF DedupHolds, DedupTyped, Parts, LoneDrop
  <1> QED BY <1>4, <1>6 DEF DedupStep

\* The pairs of a lookup are of labels that were not dropped.
LEMMA CandidatesFair ==
  ASSUME DedupHolds, stage \in {"existing", "class"}, NEW c \in source
  PROVE  Candidates(c) \in SUBSET Fair(Dropped)
  <1>1. c \in Kept /\ Kept \in SUBSET (Label \ Dropped)
    BY DEF DedupHolds, Kept, Dropped, Label
  <1>2. InOntology \in SUBSET (Label \ Dropped)
    BY LabelsFinite DEF Label, Dropped
  <1> QED BY <1>1, <1>2 DEF Candidates, Fair

LEMMA LookupKeeps ==
  ASSUME DedupHolds, NEW c \in source, NEW auto \in SUBSET Candidates(c), NEW ask \in SUBSET (Candidates(c) \ auto), Lookup(c, auto, ask)
  PROVE  DedupHolds' /\ DedupStep
  <1>1. /\ stage \in {"existing", "class"} /\ Cardinality(judging) < MaxPending /\ source' = source \ {c}
        /\ judging' = judging \cup ({ask} \ {{}}) /\ \E s \in SetToSeqs(auto) : group' = Joined(group, s)
        /\ UNCHANGED <<stage, status, mergedInto, rename>>
    BY DEF Lookup
  <1>2. auto \in SUBSET Fair(Dropped) /\ ask \in SUBSET Fair(Dropped)
    BY <1>1, CandidatesFair
  <1>3. Parts(group') /\ LoneDrop(group', Dropped) /\ Promise!Merge
    BY <1>1, <1>2, JoinsMerge
  <1>4. IsFiniteSet(judging') /\ Cardinality(judging') <= MaxPending
    <2>1. IsFiniteSet(judging) /\ Cardinality(judging) \in Nat /\ MaxPending \in Nat
      BY FS_CardinalityType, DedupAssumption DEF DedupHolds, DedupTyped
    <2>2. judging' = judging \/ judging' = judging \cup {ask}
      BY <1>1
    <2>3. IsFiniteSet(judging \cup {ask}) /\ Cardinality(judging \cup {ask}) \in Nat /\ Cardinality(judging \cup {ask}) <= Cardinality(judging) + 1
      BY <2>1, FiniteTurns
    <2>4. Cardinality(judging) < MaxPending
      BY <1>1
    <2> QED BY <2>1, <2>2, <2>3, <2>4
  <1>5. Dropped' = Dropped /\ Kept' = Kept
    BY <1>1 DEF Dropped, Kept
  <1>6. \A batch \in judging' : batch \in SUBSET Fair(Dropped)
    BY <1>1, <1>2 DEF DedupHolds
  <1>7. DedupHolds'
    BY <1>1, <1>3, <1>4, <1>5, <1>6 DEF DedupHolds, DedupTyped, Parts, LoneDrop
  <1> QED BY <1>3, <1>7 DEF DedupStep

LEMMA JudgeKeeps ==
  ASSUME DedupHolds, NEW batch \in judging, NEW same \in SUBSET batch, JudgeAnswers(batch, same)
  PROVE  DedupHolds' /\ DedupStep
  <1>1. /\ judging' = judging \ {batch} /\ UNCHANGED <<stage, status, mergedInto, source, rename>>
        /\ \E s \in SetToSeqs(same) : group' = Joined(group, s)
    BY DEF JudgeAnswers
  <1>2. stage \in {"existing", "class"} /\ same \in SUBSET Fair(Dropped)
    BY DEF DedupHolds, DedupTyped
  <1>3. Parts(group') /\ LoneDrop(group', Dropped) /\ Promise!Merge
    BY <1>1, <1>2, JoinsMerge
  <1>4. IsFiniteSet(judging') /\ Cardinality(judging') <= MaxPending
    <2>1. IsFiniteSet(judging) /\ Cardinality(judging) \in Nat /\ MaxPending \in Nat /\ Cardinality(judging) <= MaxPending
      BY FS_CardinalityType, DedupAssumption DEF DedupHolds, DedupTyped
    <2>2. IsFiniteSet(judging') /\ Cardinality(judging') = Cardinality(judging) - 1
      BY <1>1, <2>1, FS_RemoveElement
    <2> QED BY <2>1, <2>2
  <1>5. Dropped' = Dropped /\ Kept' = Kept
    BY <1>1 DEF Dropped, Kept
  <1>6. DedupHolds'
    BY <1>1, <1>2, <1>3, <1>4, <1>5 DEF DedupHolds, DedupTyped, Parts, LoneDrop
  <1> QED BY <1>3, <1>6 DEF DedupStep

LEMMA NextKindKeeps ==
  ASSUME DedupHolds, NextKind
  PROVE  DedupHolds' /\ DedupStep
  <1>1. stage = "existing" /\ stage' = "class" /\ source' = Kept /\ UNCHANGED <<status, mergedInto, group, judging, rename>>
    BY DEF NextKind
  <1>2. Dropped' = Dropped /\ Kept' = Kept /\ Kept \in SUBSET NewLabel
    BY <1>1 DEF Dropped, Kept
  <1> QED BY <1>1, <1>2 DEF DedupHolds, DedupTyped, DedupStep

LEMMA WriteKeeps ==
  ASSUME DedupHolds, WriteMerges
  PROVE  DedupHolds' /\ DedupStep
  <1>1. /\ stage = "class" /\ stage' = "written" /\ source = {} /\ judging = {}
        /\ UNCHANGED <<group, source, judging, rename>>
        /\ mergedInto' = [c \in MergedLabels |-> Canon(Find(group, c))]
        /\ status' = [c \in NewLabel |-> IF c \in MergedLabels THEN "merged" ELSE status[c]]
    BY DEF WriteMerges
  <1>2. status \in [NewLabel -> RowStatus] /\ Kept = NewLabel \ Dropped
    BY <1>1 DEF DedupHolds, DedupTyped
  <1>3. MergedLabels = {c \in Kept : Canon(Find(group, c)) # c} /\ MergedLabels \subseteq Kept /\ Kept \subseteq NewLabel
    BY DEF MergedLabels, Kept
  <1>4. \A c \in NewLabel : status[c] # "merged"
    BY <1>2 DEF Kept, Dropped
  <1>5. Dropped' = Dropped
    <2>1. \A c \in NewLabel : status'[c] \in {"junk", "instance"} <=> status[c] \in {"junk", "instance"}
      BY <1>1, <1>3 DEF Kept
    <2> QED BY <2>1 DEF Dropped
  <1>6. DOMAIN mergedInto' = {c \in NewLabel : status'[c] = "merged"}
    BY <1>1, <1>3, <1>4
  <1>7. status' \in [NewLabel -> RowStatus]
    BY <1>1, <1>2 DEF RowStatus
  <1>8. \A c \in NewLabel : status'[c] = "merged" => mergedInto'[c] = Canon(Find(group, c))
    BY <1>1, <1>4
  <1>9. \A c \in NewLabel : status'[c] = "kept" => Canon(Find(group, c)) = c
    BY <1>1, <1>3 DEF Kept
  <1>10. DedupTyped'
    BY <1>1, <1>6, <1>7 DEF DedupHolds, DedupTyped
  <1>11. DedupHolds'
    BY <1>1, <1>5, <1>8, <1>9, <1>10 DEF DedupHolds
  <1> QED BY <1>1, <1>5, <1>11 DEF DedupStep

\* A class that stays is renamed to the class of its group.
LEMMA FixStays ==
  ASSUME NEW parent, Refers(parent), NEW c \in NewLabel, NEW t, Renamed(c, parent) = t,
         t \in NewLabel => Renamed(t, parent) = t
  PROVE  Fix(c, parent) = t
  <1>1. NProposed \in Nat /\ NProposed >= 1 /\ c \in Ref
    <2>1. NProposed \in Nat /\ NProposed # 0
      BY DedupAssumption DEF NewLabel
    <2> QED BY <2>1 DEF Ref, Label
  <1>2. PICK w : Hops(w, c, parent) /\ Fix(c, parent) = w[NProposed][1]
    BY <1>1, FixWalks
  <1> DEFINE T == {i \in Nat : i + 1 <= NProposed => w[i + 1][1] = t}
  <1>3. 0 \in T
    <2>1. w[0] = <<c, {}>> /\ w[1] = Hop(w[0], parent)
      <3>1. 1 \in 1..NProposed /\ 1 - 1 = 0
        BY <1>1
      <3> QED BY <1>2, <3>1 DEF Hops
    <2>2. w[0][1] = c /\ w[0][2] = {}
      BY <2>1
    <2>3. w[1][1] = t
      BY <2>1, <2>2 DEF Hop
    <2> QED BY <2>3
  <1>4. ASSUME NEW i \in T PROVE i + 1 \in T
    <2> SUFFICES ASSUME (i + 1) + 1 <= NProposed PROVE w[(i + 1) + 1][1] = t
      OBVIOUS
    <2>1. (i + 1) + 1 \in 1..NProposed /\ ((i + 1) + 1) - 1 = i + 1 /\ i + 1 <= NProposed
      BY <1>1
    <2>2. w[(i + 1) + 1] = Hop(w[i + 1], parent) /\ w[i + 1][1] = t
      BY <1>2, <2>1 DEF Hops
    <2> QED BY <2>2 DEF Hop
  <1> HIDE DEF T
  <1>5. T \in SUBSET Nat
    BY DEF T
  <1>6. NProposed - 1 \in Nat /\ (NProposed - 1) + 1 = NProposed
    BY <1>1
  <1>7. NProposed - 1 \in T
    BY <1>3, <1>4, <1>5, <1>6, Climb
  <1> QED BY <1>1, <1>2, <1>6, <1>7 DEF T

LEMMA RebuildKeeps ==
  ASSUME DedupHolds, NEW parent \in [Dropped -> Ref], Rebuild(parent)
  PROVE  DedupHolds' /\ DedupStep
  <1>1. /\ stage = "written" /\ stage' = "rebuilt" /\ rename' = [c \in NewLabel |-> Fix(c, parent)]
        /\ UNCHANGED <<status, mergedInto, group, source, judging>>
    BY DEF Rebuild
  <1>2. /\ rename = <<>> /\ Parts(group) /\ LoneDrop(group, Dropped) /\ status \in [NewLabel -> RowStatus]
        /\ \A c \in NewLabel : status[c] = "merged" => mergedInto[c] = Canon(Find(group, c))
        /\ \A c \in NewLabel : status[c] = "kept" => Canon(Find(group, c)) = c
    BY <1>1 DEF DedupHolds, DedupTyped
  <1>3. \A c \in NewLabel : c \in Label /\ (status[c] = "merged" \/ status[c] = "kept" \/ c \in Dropped)
    BY <1>2, DroppedIs DEF Label
  <1>4. ASSUME NEW c \in NewLabel, c \notin Dropped PROVE Renamed(c, parent) = Canon(Find(group, c))
    BY <1>2, <1>3, <1>4 DEF Renamed
  <1>5. \A c \in NewLabel : c \in Dropped => Renamed(c, parent) = parent[c]
    BY DEF Renamed, Dropped
  <1>6. ASSUME NEW g \in group PROVE Canon(g) \in g /\ g \in SUBSET Label /\ \A x \in g : Canon(g) <= x
    <2>1. g \in SUBSET Label /\ g # {}
      BY <1>2 DEF Parts
    <2> QED BY <2>1, CanonIs
  <1>7. Refers(parent)
    <2>1. ASSUME NEW c \in NewLabel, c \notin Dropped PROVE Renamed(c, parent) \in Ref
      <3>1. Find(group, c) \in group
        BY <1>2, <1>3, FindIs
      <3> QED BY <1>4, <1>6, <2>1, <3>1 DEF Ref
    <2>2. ASSUME NEW c \in NewLabel, c \in Dropped PROVE Renamed(c, parent) \in Ref
      BY <1>5, <2>2
    <2> QED BY <2>1, <2>2 DEF Refers
  <1>8. ASSUME NEW g \in group, NEW c \in (g \cap NewLabel) \ Dropped PROVE Fix(c, parent) = Canon(g)
    <2>1. g = Find(group, c)
      BY <1>2, <1>3, FindIs
    <2>2. Renamed(c, parent) = Canon(g)
      BY <1>4, <2>1
    <2>3. ASSUME Canon(g) \in NewLabel PROVE Renamed(Canon(g), parent) = Canon(g)
      <3>1. CASE Canon(g) \in Dropped
        <4>1. Cardinality(g) = 1
          BY <1>2, <1>6, <3>1 DEF LoneDrop
        <4>2. IsFiniteSet(g)
          BY <1>6, LabelsFinite
        <4>3. \E x : g = {x}
          BY <4>1, <4>2, FS_Singleton
        <4>4. Canon(g) = c
          BY <1>6, <4>3
        <4> QED BY <3>1, <4>4
      <3>2. CASE Canon(g) \notin Dropped
        <4>1. g = Find(group, Canon(g))
          BY <1>2, <1>3, <1>6, <2>3, FindIs
        <4> QED BY <1>4, <2>3, <3>2, <4>1
      <3> QED BY <3>1, <3>2
    <2> QED BY <1>7, <2>2, <2>3, FixStays
  <1>9. \A c \in NewLabel : /\ Fix(c, parent) \in Ref
                            /\ Fix(c, parent) \in NewLabel => Fix(Fix(c, parent), parent) = Fix(c, parent)
    BY <1>7, FixEnds
  <1>10. Dropped' = Dropped /\ Kept' = Kept
    BY <1>1 DEF Dropped, Kept
  <1>11. DedupHolds'
    BY <1>1, <1>10 DEF DedupHolds, DedupTyped
  <1>12. Promise!Answer
    <2>1. rename' \in [NewLabel -> NewLabel \cup InOntology \cup {NoClass}]
      <3>1. Ref = NewLabel \cup InOntology \cup {NoClass}
        BY DEF Ref, Label
      <3> QED BY <1>1, <1>9, <3>1
    <2>2. ASSUME NEW g \in group
          PROVE  \E c \in g : /\ g \cap InOntology # {} => c \in InOntology
                              /\ \A l \in (g \cap NewLabel) \ Dropped : rename'[l] = c
      <3>1. ASSUME NEW x \in g \cap InOntology PROVE Canon(g) \in InOntology
        <4>1. Canon(g) <= x /\ Canon(g) \in Label /\ x \in Nat /\ Canon(g) \in Nat
          BY <1>6, LabelsFinite
        <4>2. Canon(g) \in NewLabel => x < Canon(g)
          BY LabelsFinite
        <4> QED BY <4>1, <4>2 DEF Label
      <3>2. \A l \in (g \cap NewLabel) \ Dropped : rename'[l] = Canon(g)
        BY <1>1, <1>8
      <3> QED BY <1>6, <3>1, <3>2
    <2>3. ASSUME NEW l \in Dropped
          PROVE  \/ rename'[l] \in InOntology \cup {rename'[k] : k \in NewLabel \ Dropped} \cup {NoClass}
                 \/ rename'[l] \in Dropped /\ rename'[rename'[l]] = rename'[l]
      <3>1. l \in NewLabel /\ rename'[l] = Fix(l, parent)
        BY <1>1 DEF Dropped
      <3>2. CASE rename'[l] \notin NewLabel
        BY <1>9, <3>1, <3>2 DEF Ref, Label
      <3>3. CASE rename'[l] \in NewLabel
        <4>1. rename'[rename'[l]] = rename'[l]
          BY <1>1, <1>9, <3>1, <3>3
        <4> QED BY <3>3, <4>1
      <3> QED BY <3>2, <3>3
    <2>4. UNCHANGED <<group, Dropped>>
      BY <1>1, <1>10
    <2> QED BY <1>2, <2>1, <2>2, <2>3, <2>4 DEF Promise!Answer, Promise!Open, Dropped
  <1> QED BY <1>11, <1>12 DEF DedupStep

LEMMA NextDedup ==
  ASSUME DedupHolds, [DedupNext]_dedupVars
  PROVE  DedupHolds' /\ DedupStep
  <1>1. CASE UNCHANGED dedupVars
    <2>1. UNCHANGED <<stage, status, mergedInto, group, source, judging, rename>>
      BY <1>1 DEF dedupVars
    <2>2. Dropped' = Dropped /\ Kept' = Kept
      BY <2>1 DEF Dropped, Kept
    <2> QED BY <2>1, <2>2 DEF DedupHolds, DedupTyped, DedupStep
  <1>2. CASE \E junk, judged \in SUBSET NewLabel : ValidityJudge(junk, judged \ junk)
    <2>1. PICK junk \in SUBSET NewLabel, judged \in SUBSET NewLabel : ValidityJudge(junk, judged \ junk)
      BY <1>2
    <2>2. judged \ junk \in SUBSET NewLabel
      OBVIOUS
    <2> QED BY <2>1, <2>2, ValidityKeeps
  <1>3. CASE \E d \in SUBSET Kept : ExactMatches(d)
    BY <1>3, ExactKeeps
  <1>4. CASE \E c \in source : \E auto \in SUBSET Candidates(c) : \E ask \in SUBSET (Candidates(c) \ auto) : Lookup(c, auto, ask)
    BY <1>4, LookupKeeps
  <1>5. CASE NextKind
    BY <1>5, NextKindKeeps
  <1>6. CASE WriteMerges
    BY <1>6, WriteKeeps
  <1>7. CASE \E batch \in judging : \E same \in SUBSET batch : JudgeAnswers(batch, same)
    BY <1>7, JudgeKeeps
  <1>8. CASE \E parent \in [{c \in NewLabel : status[c] \in {"junk", "instance"}} -> Label \cup {NoClass}] : Rebuild(parent)
    <2>1. \E parent \in [Dropped -> Ref] : Rebuild(parent)
      BY <1>8 DEF Dropped, Ref
    <2> QED BY <2>1, RebuildKeeps
  <1> QED BY <1>1, <1>2, <1>3, <1>4, <1>5, <1>6, <1>7, <1>8 DEF DedupNext

LEMMA DedupAlways == Spec => []DedupHolds
  <1>1. Init => DedupHolds
    BY DedupStarts DEF Init
  <1>2. DedupHolds /\ [Next]_buildVars => DedupHolds'
    <2> SUFFICES ASSUME DedupHolds, [Next]_buildVars PROVE DedupHolds'
      OBVIOUS
    <2>1. [DedupNext]_dedupVars
      BY DEF Next, buildVars
    <2> QED BY <2>1, NextDedup
  <1> QED BY <1>1, <1>2, PTL DEF Spec

\* The pairwise deduplication keeps the promise of a consolidation, for any number of
\* classes, any caps and whatever the judges say in whatever order.
THEOREM DedupConsolidates == Spec => DedupKeepsPromise
  <1>1. Init => Promise!ConsolidationInit
    BY DedupStarts DEF Init
  <1>2. DedupHolds /\ [Next]_buildVars => [Promise!Drop \/ Promise!Merge \/ Promise!Answer]_(Promise!consolidationVars)
    <2> SUFFICES ASSUME DedupHolds, [Next]_buildVars
                 PROVE  [Promise!Drop \/ Promise!Merge \/ Promise!Answer]_(Promise!consolidationVars)
      OBVIOUS
    <2>1. [DedupNext]_dedupVars
      BY DEF Next, buildVars
    <2>2. DedupStep
      BY <2>1, NextDedup
    <2> QED BY <2>2 DEF DedupStep, Promise!consolidationVars, Dropped
  <1> QED BY <1>1, <1>2, DedupAlways, PTL DEF Spec, DedupKeepsPromise, Promise!ConsolidationSpec

-----------------------------------------------------------------------------
(***************************************************************************)
(* The types of every part                                                 *)
(***************************************************************************)
LEMMA DedupShows ==
  ASSUME DedupHolds
  PROVE  DedupTypeOK
  BY DEF DedupHolds, DedupTyped, Parts, RowStatus, DedupTypeOK

LEMMA NamesShow ==
  ASSUME NamesTyped
  PROVE  NamesTypeOK
  BY DEF NamesTyped, NamesTypeOK

LEMMA PartAlways == Spec => [](part \in Part)
  <1>1. Init => part \in Part
    BY DEF Init
  <1>2. part \in Part /\ [Next]_buildVars => (part \in Part)'
    BY DEF Next, buildVars, Part
  <1> QED BY <1>1, <1>2, PTL DEF Spec

\* The types of the part that runs, for any corpus, any replies of the models and any failures.
THEOREM BuildTyped == Spec => []BuildTypeOK
  <1>1. /\ part \in Part /\ SummariesHold /\ ProposalsHold /\ DedupHolds /\ EditHolds /\ RelationsHold
        /\ TablesHold /\ DriverInv /\ (EmbedHolds /\ ChatHolds) /\ NamesTyped /\ FoldersHold
        => BuildTypeOK
    <2> SUFFICES ASSUME part \in Part, SummariesHold, ProposalsHold, DedupHolds, EditHolds, RelationsHold,
                        TablesHold, DriverInv, EmbedHolds, ChatHolds, NamesTyped, FoldersHold
                 PROVE  BuildTypeOK
      OBVIOUS
    <2>1. SummariesTypeOK /\ ProposalsTypeOK /\ DedupTypeOK
      BY SummariesShow, ProposalsShow, DedupShows
    <2>2. EditTypeOK /\ RelationsTypeOK /\ TablesTypeOK
      BY EditShows, RelationsShow, TablesShow
    <2>3. DriverTypeOK /\ CallsTypeOK /\ NamesTypeOK /\ FoldersTypeOK
      BY DriverShows, CallsShow, NamesShow, FoldersShow
    <2> QED BY <2>1, <2>2, <2>3 DEF BuildTypeOK
  <1> QED BY <1>1, PartAlways, SummariesAlways, ProposalsAlways, DedupAlways, EditAlways, RelationsAlways,
             TablesAlways, DriverAlways, CallsAlways, NamesAlways, FoldersAlways, PTL

=============================================================================
