---------------------- MODULE Services_passes_proofs ----------------------
(***************************************************************************)
(* Proofs about the other five components composed in Services: the        *)
(* answers of retrieval, the enrichment, the reading of chunks, the links  *)
(* of tables and the artifact runs; and the types of all ten, from the     *)
(* invariants proved here and in Services_proofs.                          *)
(***************************************************************************)
EXTENDS Services_proofs

-----------------------------------------------------------------------------
(***************************************************************************)
(* Retrieval.  A walk is a recursive function over the hops; that there is *)
(* one at all, for any number of hops, comes first.                        *)
(***************************************************************************)
LEMMA UpTo ==
  ASSUME NEW n \in Nat, NEW S, 0 \in S, \A i \in 0..(n-1) : i \in S => i + 1 \in S
  PROVE  0..n \subseteq S
  <1> DEFINE Out == {i \in 0..n : i \notin S}
  <1> SUFFICES ASSUME Out # {} PROVE FALSE
    OBVIOUS
  <1>1. PICK m \in Out : \A x \in Out : m <= x
    BY LeastOf, Out \in SUBSET Nat
  <1>2. m # 0 /\ m - 1 \in 0..(n-1) /\ m - 1 \notin Out
    BY <1>1
  <1> QED BY <1>1, <1>2

\* g is what the steps F[1], F[2] .. make of x.
Iterated(F, x, n, g) == g[0] = x /\ \A i \in 1..n : g[i] = F[i][g[i-1]]

LEMMA Iterates ==
  ASSUME NEW X, NEW n \in Nat, NEW F \in [1..n -> [X -> X]], NEW x \in X
  PROVE  \E g \in [0..n -> X] : Iterated(F, x, n, g)
  <1> DEFINE Goes(k, g) == g[0] = x /\ \A i \in 1..k : g[i] = F[i][g[i-1]]
             S == {k \in 0..n : \E g \in [0..k -> X] : Goes(k, g)}
  <1>1. 0 \in S
    <2>1. [i \in 0..0 |-> x] \in [0..0 -> X] /\ Goes(0, [i \in 0..0 |-> x])
      OBVIOUS
    <2>2. 0 \in 0..n
      OBVIOUS
    <2> HIDE DEF Goes
    <2> QED BY <2>1, <2>2
  <1>2. ASSUME NEW k \in 0..(n-1), k \in S PROVE k + 1 \in S
    <2>1. PICK g \in [0..k -> X] : Goes(k, g)
      BY <1>2
    <2> DEFINE h == [i \in 0..(k+1) |-> IF i = k + 1 THEN F[i][g[k]] ELSE g[i]]
    <2>2. h \in [0..(k+1) -> X]
      <3> SUFFICES ASSUME NEW i \in 0..(k+1) PROVE (IF i = k + 1 THEN F[i][g[k]] ELSE g[i]) \in X
        OBVIOUS
      <3>1. k \in 0..k /\ (i # k + 1 => i \in 0..k) /\ (i = k + 1 => i \in 1..n)
        OBVIOUS
      <3> QED BY <3>1
    <2>3. h[0] = x
      BY <2>1
    <2>4. ASSUME NEW i \in 1..(k+1) PROVE h[i] = F[i][h[i-1]]
      <3>1. i - 1 \in 0..(k+1) /\ i \in 0..(k+1) /\ i - 1 # k + 1
        OBVIOUS
      <3>2. h[i-1] = g[i-1]
        BY <3>1
      <3>3. CASE i = k + 1
        BY <3>1, <3>2, <3>3
      <3>4. CASE i # k + 1
        <4>1. i \in 1..k /\ h[i] = g[i]
          BY <3>1, <3>4
        <4> QED BY <4>1, <3>2, <2>1
      <3> QED BY <3>3, <3>4
    <2> HIDE DEF h
    <2>5. Goes(k + 1, h)
      BY <2>3, <2>4
    <2> QED BY <2>2, <2>5
  <1>3. n \in S
    <2> HIDE DEF S
    <2>1. 0..n \subseteq S
      BY <1>1, <1>2, UpTo
    <2> QED BY <2>1
  <1> QED BY <1>3 DEF Iterated

RetrievalBasics == Arc \subseteq Entity \X Entity /\ Concept \subseteq Entity /\ Hops \in Nat

LEMMA RetrievalConstants == RetrievalBasics
  BY RetrievalAssumption DEF RetrievalBasics

\* What one more hop over es adds to B.
Hop(es, B) == B \cup Ends(Touching(es, B \ Concept))

LEMMA EndsOf ==
  ASSUME RetrievalBasics, NEW es \in SUBSET Arc
  PROVE  /\ Ends(es) \subseteq Entity
         /\ \A b : b \in Ends(es) <=> \E e \in es : b \in {e[1], e[2]}
  BY DEF Ends, RetrievalBasics

LEMMA TouchingOf ==
  ASSUME NEW es \in SUBSET Arc, NEW B
  PROVE  Touching(es, B) \in SUBSET Arc /\ Touching(es, B) \subseteq es
  BY DEF Touching

\* The balls of radius 0, 1 .. Hops.
Balls(es, seeds, ball) ==
  /\ ball \in [0..Hops -> SUBSET Entity]
  /\ ball[0] = seeds
  /\ \A n \in 1..Hops : ball[n] = Hop(es, ball[n-1])

LEMMA BallsGrow ==
  ASSUME RetrievalBasics, NEW es \in SUBSET Arc, NEW seeds \in SUBSET Entity
  PROVE  \E ball : Balls(es, seeds, ball)
  <1> DEFINE F == [i \in 1..Hops |-> [B \in SUBSET Entity |-> Hop(es, B)]]
  <1>1. F \in [1..Hops -> [SUBSET Entity -> SUBSET Entity]]
    <2> SUFFICES ASSUME NEW B \in SUBSET Entity PROVE Hop(es, B) \in SUBSET Entity
      OBVIOUS
    <2> QED BY EndsOf, TouchingOf DEF Hop
  <1>2. Hops \in Nat
    BY DEF RetrievalBasics
  <1>3. \A i \in 1..Hops : \A B \in SUBSET Entity : F[i][B] = Hop(es, B)
    OBVIOUS
  <1> HIDE DEF F
  <1> DEFINE X == SUBSET Entity
  <1>4. PICK g \in [0..Hops -> X] : g[0] = seeds /\ \A i \in 1..Hops : g[i] = F[i][g[i-1]]
    <2>1. F \in [1..Hops -> [X -> X]] /\ seeds \in X
      BY <1>1
    <2> HIDE DEF X
    <2>2. \E g \in [0..Hops -> X] : Iterated(F, seeds, Hops, g)
      BY <2>1, <1>2, Iterates
    <2> QED BY <2>2 DEF Iterated
  <1>5. \A i \in 1..Hops : i - 1 \in 0..Hops
    BY <1>2
  <1>6. \A i \in 1..Hops : g[i] = Hop(es, g[i-1])
    BY <1>3, <1>4, <1>5
  <1> QED BY <1>4, <1>6 DEF Balls

\* The recursive function of BroadWalk is that of the balls.
LEMMA BroadWalkIsBall ==
  ASSUME RetrievalBasics, NEW es \in SUBSET Arc, NEW seeds \in SUBSET Entity
  PROVE  \E ball : Balls(es, seeds, ball) /\ BroadWalk(es, seeds) = ball[Hops]
  <1> DEFINE Rec(f) == f = [n \in 0..Hops |->
                              IF n = 0 THEN seeds
                              ELSE f[n - 1] \cup Ends(Touching(es, f[n - 1] \ Concept))]
             walk == CHOOSE f : Rec(f)
  <1>1. BroadWalk(es, seeds) = walk[Hops]
    BY DEF BroadWalk
  <1>2. PICK g : Balls(es, seeds, g)
    BY BallsGrow
  <1>3. Rec(g)
    <2>1. \A n \in 0..Hops : g[n] = IF n = 0 THEN seeds
                              ELSE g[n - 1] \cup Ends(Touching(es, g[n - 1] \ Concept))
      <3> SUFFICES ASSUME NEW n \in 0..Hops, n # 0
                   PROVE  g[n] = g[n - 1] \cup Ends(Touching(es, g[n - 1] \ Concept))
        BY <1>2 DEF Balls
      <3>1. n \in 1..Hops
        BY DEF RetrievalBasics
      <3> QED BY <3>1, <1>2 DEF Balls, Hop
    <2>2. g = [n \in 0..Hops |-> g[n]]
      BY <1>2 DEF Balls
    <2> QED BY <2>1, <2>2
  <1>4. Rec(walk)
    <2> HIDE DEF Rec
    <2> QED BY <1>3
  <1>5. walk[0] = seeds /\ \A n \in 1..Hops : walk[n] = Hop(es, walk[n-1])
    <2> HIDE DEF walk
    <2>1. 0 \in 0..Hops /\ \A n \in 1..Hops : n \in 0..Hops /\ n # 0
      BY DEF RetrievalBasics
    <2> QED BY <1>4, <2>1 DEF Hop
  <1>6. DOMAIN walk = 0..Hops /\ walk = [n \in 0..Hops |-> walk[n]]
    <2> HIDE DEF walk
    <2> QED BY <1>4
  <1> HIDE DEF walk, Rec
  <1>7. \A n \in 0..Hops : walk[n] \in SUBSET Entity
    <2> DEFINE S == {n \in 0..Hops : walk[n] \in SUBSET Entity}
    <2>1. 0 \in S
      BY <1>5 DEF RetrievalBasics
    <2>2. ASSUME NEW i \in 0..(Hops-1), i \in S PROVE i + 1 \in S
      <3>1. i + 1 \in 1..Hops /\ (i + 1) - 1 = i /\ i + 1 \in 0..Hops
        BY DEF RetrievalBasics
      <3>2. walk[i+1] = Hop(es, walk[i])
        BY <1>5, <3>1
      <3>3. Hop(es, walk[i]) \in SUBSET Entity
        BY <2>2, EndsOf, TouchingOf DEF Hop
      <3> QED BY <3>1, <3>2, <3>3
    <2>3. Hops \in Nat
      BY DEF RetrievalBasics
    <2> HIDE DEF S
    <2>4. 0..Hops \subseteq S
      BY <2>1, <2>2, <2>3, UpTo
    <2> QED BY <2>4 DEF S
  <1>8. walk \in [0..Hops -> SUBSET Entity]
    BY <1>6, <1>7
  <1> QED BY <1>1, <1>5, <1>8 DEF Balls

\* One hop of the anchored walk, which passes over the edges it took before.
WalkState == [reached : SUBSET Entity, frontier : SUBSET Entity, taken : SUBSET Arc]

Start(seeds) == [reached |-> seeds, frontier |-> seeds \ Concept, taken |-> {}]

Further(es, w) ==
  [reached  |-> w.reached \cup Ends(Touching(es \ w.taken, w.frontier)),
   frontier |-> NewFrontier(Ends(Touching(es \ w.taken, w.frontier)), w.reached),
   taken    |-> w.taken \cup Touching(es \ w.taken, w.frontier)]

Walks(es, seeds, walk) ==
  /\ walk \in [0..Hops -> WalkState]
  /\ walk[0] = Start(seeds)
  /\ \A n \in 1..Hops : walk[n] = Further(es, walk[n-1])

LEMMA WalkStates ==
  ASSUME RetrievalBasics, NEW es \in SUBSET Arc, NEW seeds \in SUBSET Entity
  PROVE  /\ Start(seeds) \in WalkState
         /\ \A w \in WalkState : Further(es, w) \in WalkState
  <1>1. Start(seeds) \in WalkState
    BY DEF Start, WalkState
  <1>2. ASSUME NEW w \in WalkState PROVE Further(es, w) \in WalkState
    <2> DEFINE hits == Touching(es \ w.taken, w.frontier)
    <2>1. hits \in SUBSET Arc
      BY TouchingOf, es \ w.taken \in SUBSET Arc
    <2> HIDE DEF hits
    <2>2. Ends(hits) \subseteq Entity
      BY <2>1, EndsOf
    <2>3. /\ w.reached \cup Ends(hits) \in SUBSET Entity
          /\ NewFrontier(Ends(hits), w.reached) \in SUBSET Entity
          /\ w.taken \cup hits \in SUBSET Arc
      BY <2>1, <2>2 DEF WalkState, NewFrontier
    <2> QED BY <2>3 DEF Further, WalkState, hits
  <1> QED BY <1>1, <1>2

LEMMA WalksGo ==
  ASSUME RetrievalBasics, NEW es \in SUBSET Arc, NEW seeds \in SUBSET Entity
  PROVE  \E walk : Walks(es, seeds, walk)
  <1> DEFINE F == [i \in 1..Hops |-> [w \in WalkState |-> Further(es, w)]]
  <1>1. F \in [1..Hops -> [WalkState -> WalkState]]
    BY WalkStates
  <1>2. Hops \in Nat
    BY DEF RetrievalBasics
  <1>3. \A i \in 1..Hops : \A w \in WalkState : F[i][w] = Further(es, w)
    OBVIOUS
  <1> HIDE DEF F
  <1>4. PICK g \in [0..Hops -> WalkState] : Iterated(F, Start(seeds), Hops, g)
    BY <1>1, <1>2, WalkStates, Iterates
  <1>5. \A i \in 1..Hops : g[i-1] \in WalkState
    BY <1>2
  <1>6. \A i \in 1..Hops : g[i] = F[i][g[i-1]]
    BY <1>4 DEF Iterated
  <1>7. g[0] = Start(seeds)
    BY <1>4 DEF Iterated
  <1>8. \A i \in 1..Hops : g[i] = Further(es, g[i-1])
    BY <1>3, <1>5, <1>6
  <1> QED BY <1>4, <1>7, <1>8 DEF Walks

LEMMA AnchoredIsWalk ==
  ASSUME RetrievalBasics, NEW es \in SUBSET Arc, NEW seeds \in SUBSET Entity
  PROVE  \E walk : Walks(es, seeds, walk) /\ Anchored(es, seeds) = walk[Hops]
  <1> DEFINE Rec(f) ==
               f = [n \in 0..Hops |->
                      IF n = 0 THEN [reached |-> seeds, frontier |-> seeds \ Concept, taken |-> {}]
                      ELSE LET w == f[n - 1]
                               hits == Touching(es \ w.taken, w.frontier)
                           IN  [reached  |-> w.reached \cup Ends(hits),
                                frontier |-> NewFrontier(Ends(hits), w.reached),
                                taken    |-> w.taken \cup hits]]
             walk == CHOOSE f : Rec(f)
  <1>1. Anchored(es, seeds) = walk[Hops]
    BY DEF Anchored
  <1>2. PICK g : Walks(es, seeds, g)
    BY WalksGo
  <1>3. Rec(g)
    <2>1. \A n \in 0..Hops : g[n] = IF n = 0 THEN Start(seeds) ELSE Further(es, g[n - 1])
      <3> SUFFICES ASSUME NEW n \in 0..Hops, n # 0 PROVE g[n] = Further(es, g[n-1])
        BY <1>2 DEF Walks
      <3>1. n \in 1..Hops
        BY DEF RetrievalBasics
      <3> QED BY <3>1, <1>2 DEF Walks
    <2>2. g = [n \in 0..Hops |-> g[n]]
      BY <1>2 DEF Walks
    <2>3. g = [n \in 0..Hops |-> IF n = 0 THEN Start(seeds) ELSE Further(es, g[n - 1])]
      BY <2>1, <2>2
    <2> QED BY <2>3 DEF Start, Further
  <1>4. Rec(walk)
    <2> HIDE DEF Rec
    <2> QED BY <1>3
  <1>5. walk = [n \in 0..Hops |-> IF n = 0 THEN Start(seeds) ELSE Further(es, walk[n - 1])]
    <2> HIDE DEF walk
    <2> QED BY <1>4 DEF Start, Further
  <1> HIDE DEF walk, Rec
  <1>6. walk[0] = Start(seeds) /\ \A n \in 1..Hops : walk[n] = Further(es, walk[n-1])
    <2>1. 0 \in 0..Hops /\ \A n \in 1..Hops : n \in 0..Hops /\ n # 0
      BY DEF RetrievalBasics
    <2> QED BY <1>5, <2>1
  <1>7. \A n \in 0..Hops : walk[n] \in WalkState
    <2> DEFINE S == {n \in 0..Hops : walk[n] \in WalkState}
    <2>1. 0 \in S
      BY <1>6, WalkStates DEF RetrievalBasics
    <2>2. ASSUME NEW i \in 0..(Hops-1), i \in S PROVE i + 1 \in S
      <3>1. i + 1 \in 1..Hops /\ (i + 1) - 1 = i /\ i + 1 \in 0..Hops
        BY DEF RetrievalBasics
      <3>2. walk[i+1] = Further(es, walk[i])
        BY <1>6, <3>1
      <3> QED BY <3>1, <3>2, <2>2, WalkStates
    <2>3. Hops \in Nat
      BY DEF RetrievalBasics
    <2> HIDE DEF S
    <2>4. 0..Hops \subseteq S
      BY <2>1, <2>2, <2>3, UpTo
    <2> QED BY <2>4 DEF S
  <1>8. walk \in [0..Hops -> WalkState]
    BY <1>5, <1>7
  <1> QED BY <1>1, <1>6, <1>8 DEF Walks

\* Leaving out the edges taken before loses nothing.  One hop: what the frontier
\* does not touch has been taken, with both its ends reached.
LEMMA HopLosesNothing ==
  ASSUME RetrievalBasics, NEW es \in SUBSET Arc, NEW w \in WalkState,
         w.taken \subseteq es, Ends(w.taken) \subseteq w.reached,
         w.frontier \subseteq w.reached \ Concept,
         Touching(es, w.reached \ Concept) = w.taken \cup Touching(es \ w.taken, w.frontier)
  PROVE  LET v == Further(es, w) IN
         /\ v.reached = Hop(es, w.reached)
         /\ v.taken \subseteq es /\ Ends(v.taken) \subseteq v.reached
         /\ v.frontier \subseteq v.reached \ Concept
         /\ Touching(es, v.reached \ Concept) = v.taken \cup Touching(es \ v.taken, v.frontier)
  <1> DEFINE hits == Touching(es \ w.taken, w.frontier)
             v == Further(es, w)
  <1>1. hits \in SUBSET Arc /\ hits \subseteq es
    BY TouchingOf, es \ w.taken \in SUBSET Arc
  <1>2. /\ v.reached = w.reached \cup Ends(hits)
        /\ v.frontier = Ends(hits) \ (w.reached \cup Concept)
        /\ v.taken = w.taken \cup hits
    BY DEF Further, NewFrontier
  <1>3. Touching(es, w.reached \ Concept) = w.taken \cup hits
    OBVIOUS
  <1> HIDE DEF hits, v
  <1>4. Ends(w.taken \cup hits) = Ends(w.taken) \cup Ends(hits)
    BY DEF Ends
  <1>5. v.reached = Hop(es, w.reached)
    BY <1>2, <1>3, <1>4 DEF Hop
  <1>6. Touching(es, v.reached \ Concept) = v.taken \cup Touching(es \ v.taken, v.frontier)
    <2>1. v.reached \ Concept = (w.reached \ Concept) \cup v.frontier
      BY <1>2
    <2>2. Touching(es, v.reached \ Concept) = Touching(es, w.reached \ Concept) \cup Touching(es, v.frontier)
      BY <2>1 DEF Touching
    <2>3. \A e \in es : e \in Touching(es, v.frontier) => e \in v.taken \/ e \in Touching(es \ v.taken, v.frontier)
      BY DEF Touching
    <2>4. Touching(es \ v.taken, v.frontier) \subseteq Touching(es, v.frontier)
      BY DEF Touching
    <2> QED BY <1>2, <1>3, <2>2, <2>3, <2>4, TouchingOf DEF Touching
  <1> QED BY <1>1, <1>2, <1>4, <1>5, <1>6 DEF v

\* So what the anchored walk has reached is the ball.
LEMMA AnchoredIsBall ==
  ASSUME RetrievalBasics, NEW es \in SUBSET Arc, NEW seeds \in SUBSET Entity
  PROVE  \E ball : Balls(es, seeds, ball) /\ Anchored(es, seeds).reached = ball[Hops]
  <1>1. PICK walk : Walks(es, seeds, walk) /\ Anchored(es, seeds) = walk[Hops]
    BY AnchoredIsWalk
  <1> DEFINE ball == [n \in 0..Hops |-> walk[n].reached]
             Whole(w) == /\ w.taken \subseteq es /\ Ends(w.taken) \subseteq w.reached
                         /\ w.frontier \subseteq w.reached \ Concept
                         /\ Touching(es, w.reached \ Concept) = w.taken \cup Touching(es \ w.taken, w.frontier)
             S == {n \in 0..Hops : Whole(walk[n])}
  <1>2. 0 \in S
    <2>1. Ends({}) = {} /\ es \ {} = es
      BY DEF Ends
    <2>2. Whole(Start(seeds))
      BY <2>1 DEF Start
    <2>3. walk[0] = Start(seeds) /\ 0 \in 0..Hops
      BY <1>1 DEF Walks, RetrievalBasics
    <2> HIDE DEF Whole
    <2> QED BY <2>2, <2>3
  <1>3. ASSUME NEW i \in 0..(Hops-1), i \in S PROVE i + 1 \in S /\ ball[i+1] = Hop(es, ball[i])
    <2>1. i + 1 \in 1..Hops /\ (i + 1) - 1 = i /\ i + 1 \in 0..Hops /\ i \in 0..Hops
      BY DEF RetrievalBasics
    <2>2. walk[i+1] = Further(es, walk[i]) /\ walk[i] \in WalkState
      BY <1>1, <2>1 DEF Walks
    <2>3. Whole(walk[i])
      BY <1>3
    <2>4. Whole(Further(es, walk[i])) /\ Further(es, walk[i]).reached = Hop(es, walk[i].reached)
      BY <2>2, <2>3, HopLosesNothing
    <2> QED BY <2>1, <2>2, <2>4
  <1>4. Hops \in Nat
    BY DEF RetrievalBasics
  <1> HIDE DEF S
  <1>5. 0..Hops \subseteq S
    BY <1>2, <1>3, <1>4, UpTo
  <1>6. \A n \in 1..Hops : ball[n] = Hop(es, ball[n-1])
    <2> SUFFICES ASSUME NEW n \in 1..Hops PROVE ball[n] = Hop(es, ball[n-1])
      OBVIOUS
    <2>1. n - 1 \in 0..(Hops-1) /\ (n - 1) + 1 = n /\ n - 1 \in 0..Hops
      BY <1>4
    <2> HIDE DEF ball
    <2>2. ball[(n-1)+1] = Hop(es, ball[n-1])
      BY <1>3, <1>5, <2>1
    <2> QED BY <2>1, <2>2
  <1>7. ball \in [0..Hops -> SUBSET Entity] /\ ball[0] = seeds /\ ball[Hops] = walk[Hops].reached
    BY <1>1, <1>4 DEF Walks, WalkState, Start
  <1> QED BY <1>1, <1>6, <1>7 DEF Balls

\* A path of n edges of es from a to b, none of which leaves a concept.
Path(es, a, b, n, path) ==
  /\ path \in [0..n -> Entity]
  /\ path[0] = a /\ path[n] = b
  /\ \A i \in 0..(n - 1) :
       path[i] \notin Concept /\ {<<path[i], path[i+1]>>, <<path[i+1], path[i]>>} \cap es # {}

LEMMA ConnectedByPath ==
  ASSUME NEW es, NEW a, NEW b
  PROVE  Connected(es, a, b) <=> \E n \in 0..Hops : \E path : Path(es, a, b, n, path)
  BY DEF Connected, Path

LEMMA HopAcross ==
  ASSUME RetrievalBasics, NEW es \in SUBSET Arc, NEW B \in SUBSET Entity, NEW b
  PROVE  /\ b \in Hop(es, B) \ B =>
              \E c \in B \ Concept : {<<c, b>>, <<b, c>>} \cap es # {}
         /\ \A c \in B \ Concept : {<<c, b>>, <<b, c>>} \cap es # {} => b \in Hop(es, B)
  <1>1. \A e \in es : e = <<e[1], e[2]>>
    BY DEF RetrievalBasics
  <1>2. ASSUME b \in Hop(es, B) \ B PROVE \E c \in B \ Concept : {<<c, b>>, <<b, c>>} \cap es # {}
    <2>1. PICK e \in Touching(es, B \ Concept) : b \in {e[1], e[2]}
      BY <1>2, EndsOf, TouchingOf DEF Hop
    <2>2. e \in es /\ {e[1], e[2]} \cap (B \ Concept) # {}
      BY <2>1 DEF Touching
    <2>3. PICK c \in B \ Concept : c \in {e[1], e[2]}
      BY <2>2
    <2>4. c # b
      BY <1>2
    <2>5. e = <<c, b>> \/ e = <<b, c>>
      BY <1>1, <2>1, <2>2, <2>3, <2>4
    <2> QED BY <2>2, <2>5
  <1>3. ASSUME NEW c \in B \ Concept, {<<c, b>>, <<b, c>>} \cap es # {} PROVE b \in Hop(es, B)
    <2>1. PICK e \in es : e = <<c, b>> \/ e = <<b, c>>
      BY <1>3
    <2>2. e \in Touching(es, B \ Concept) /\ b \in {e[1], e[2]}
      BY <2>1 DEF Touching
    <2> QED BY <2>2, EndsOf, TouchingOf DEF Hop
  <1> QED BY <1>2, <1>3

\* The ball of radius n holds what paths of at most n edges lead to.
LEMMA BallIsReach ==
  ASSUME RetrievalBasics, NEW es \in SUBSET Arc, NEW seeds \in SUBSET Entity, NEW ball, Balls(es, seeds, ball)
  PROVE  ball[Hops] = {b \in Entity : \E a \in seeds : Connected(es, a, b)}
  <1>0. Hops \in Nat /\ \A n \in 0..Hops : ball[n] \in SUBSET Entity
    BY DEF RetrievalBasics, Balls
  \* What a ball adds is one edge beyond a path.
  <1>1. ASSUME NEW b \in ball[Hops] PROVE \E a \in seeds : Connected(es, a, b)
    <2> DEFINE Led(n) == \A c \in ball[n] : \E a \in seeds : \E m \in 0..n : \E path : Path(es, a, c, m, path)
               S == {n \in 0..Hops : Led(n)}
    <2>1. 0 \in S
      <3> SUFFICES ASSUME NEW c \in ball[0]
                   PROVE  \E a \in seeds : \E m \in 0..0 : \E path : Path(es, a, c, m, path)
        BY <1>0
      <3>1. c \in seeds /\ c \in Entity
        BY DEF Balls
      <3>2. Path(es, c, c, 0, [i \in 0..0 |-> c])
        BY <3>1 DEF Path
      <3> QED BY <3>1, <3>2
    <2>2. ASSUME NEW n \in 0..(Hops-1), n \in S PROVE n + 1 \in S
      <3>1. n + 1 \in 1..Hops /\ (n + 1) - 1 = n /\ n + 1 \in 0..Hops /\ n \in 0..Hops /\ n \in Nat
        BY <1>0
      <3>2. ball[n+1] = Hop(es, ball[n]) /\ ball[n] \in SUBSET Entity
        BY <1>0, <3>1 DEF Balls
      <3> SUFFICES ASSUME NEW c \in ball[n+1]
                   PROVE  \E a \in seeds : \E m \in 0..(n+1) : \E path : Path(es, a, c, m, path)
        BY <3>1
      <3>3. CASE c \in ball[n]
        <4>1. PICK a \in seeds, m \in 0..n : \E path : Path(es, a, c, m, path)
          BY <2>2, <3>3
        <4>2. m \in 0..(n+1)
          BY <3>1
        <4> QED BY <4>1, <4>2
      <3>4. CASE c \notin ball[n]
        <4>1. PICK d \in ball[n] \ Concept : {<<d, c>>, <<c, d>>} \cap es # {}
          BY <3>2, <3>4, HopAcross
        <4>2. PICK a \in seeds, m \in 0..n : \E path : Path(es, a, d, m, path)
          BY <2>2, <4>1
        <4>3. PICK path : Path(es, a, d, m, path)
          BY <4>2
        <4> DEFINE longer == [i \in 0..(m+1) |-> IF i = m + 1 THEN c ELSE path[i]]
        <4>4. c \in Entity /\ m \in Nat /\ m + 1 \in 0..(n+1)
          BY <1>0, <3>1
        <4>5. longer \in [0..(m+1) -> Entity]
          <5> SUFFICES ASSUME NEW i \in 0..(m+1), i # m + 1 PROVE path[i] \in Entity
            BY <4>4
          <5>1. i \in 0..m
            BY <4>4
          <5> QED BY <5>1, <4>3 DEF Path
        <4>6. longer[0] = a /\ longer[m+1] = c
          BY <4>3, <4>4 DEF Path
        <4>7. ASSUME NEW i \in 0..((m+1) - 1)
              PROVE  /\ longer[i] \notin Concept
                     /\ {<<longer[i], longer[i+1]>>, <<longer[i+1], longer[i]>>} \cap es # {}
          <5>1. i \in 0..m /\ i \in 0..(m+1) /\ i + 1 \in 0..(m+1) /\ i # m + 1 /\ longer[i] = path[i]
            BY <4>4
          <5>2. CASE i = m
            <6>1. longer[i] = d /\ longer[i+1] = c
              BY <5>1, <5>2, <4>3, <4>4 DEF Path
            <6> QED BY <6>1, <4>1
          <5>3. CASE i # m
            <6>1. i \in 0..(m-1) /\ i + 1 # m + 1 /\ longer[i+1] = path[i+1]
              BY <5>1, <5>3, <4>4
            <6> HIDE DEF longer
            <6> QED BY <6>1, <5>1, <4>3 DEF Path
          <5> QED BY <5>2, <5>3
        <4> HIDE DEF longer
        <4>8. Path(es, a, c, m + 1, longer)
          BY <4>5, <4>6, <4>7 DEF Path
        <4> QED BY <4>4, <4>8
      <3> QED BY <3>3, <3>4
    <2> HIDE DEF S
    <2>3. 0..Hops \subseteq S
      BY <1>0, <2>1, <2>2, UpTo
    <2>4. Led(Hops)
      BY <1>0, <2>3 DEF S
    <2> QED BY <2>4, ConnectedByPath
  \* The i-th node of a path is in the ball of radius i, and balls grow.
  <1>2. ASSUME NEW b \in Entity, NEW a \in seeds, Connected(es, a, b) PROVE b \in ball[Hops]
    <2>1. PICK n \in 0..Hops : \E path : Path(es, a, b, n, path)
      BY <1>2, ConnectedByPath
    <2>2. PICK path : Path(es, a, b, n, path)
      BY <2>1
    <2> DEFINE S == {i \in 0..n : path[i] \in ball[i]}
               T == {i \in 0..(Hops - n) : b \in ball[n + i]}
    <2>3. 0 \in S
      BY <1>0, <2>2 DEF Path, Balls
    <2>4. ASSUME NEW i \in 0..(n-1), i \in S PROVE i + 1 \in S
      <3>1. i \in 0..Hops /\ i + 1 \in 1..Hops /\ (i + 1) - 1 = i /\ i + 1 \in 0..n
        BY <1>0
      <3>2. ball[i+1] = Hop(es, ball[i]) /\ ball[i] \in SUBSET Entity
        BY <1>0, <3>1 DEF Balls
      <3>3. path[i] \in ball[i] \ Concept /\ {<<path[i], path[i+1]>>, <<path[i+1], path[i]>>} \cap es # {}
        BY <2>2, <2>4 DEF Path
      <3>4. path[i+1] \in Hop(es, ball[i])
        BY <3>2, <3>3, HopAcross
      <3> QED BY <3>1, <3>2, <3>4
    <2>5. n \in Nat /\ Hops - n \in Nat /\ n \in 0..n /\ 0 \in 0..(Hops - n) /\ Hops - n \in 0..(Hops - n)
      BY <1>0
    <2>6. n \in S
      <3> HIDE DEF S
      <3>1. 0..n \subseteq S
        BY <2>3, <2>4, <2>5, UpTo
      <3> QED BY <2>5, <3>1
    <2>7. 0 \in T
      BY <2>2, <2>5, <2>6 DEF Path
    <2>8. ASSUME NEW i \in 0..((Hops - n) - 1), i \in T PROVE i + 1 \in T
      <3>1. n + (i + 1) \in 1..Hops /\ (n + (i + 1)) - 1 = n + i /\ i + 1 \in 0..(Hops - n)
        BY <1>0
      <3>2. ball[n + (i + 1)] = Hop(es, ball[n + i])
        BY <3>1 DEF Balls
      <3> QED BY <2>8, <3>1, <3>2 DEF Hop
    <2>9. Hops - n \in T
      <3> HIDE DEF T
      <3>1. 0..(Hops - n) \subseteq T
        BY <2>7, <2>8, <2>5, UpTo
      <3> QED BY <2>5, <3>1
    <2> QED BY <1>0, <2>9
  <1> QED BY <1>0, <1>1, <1>2

\* The query that is under way.
QueryRecord ==
  [pc : {"idle", "walk", "candidates", "documents", "bridge", "fulltext", "pack", "answer", "returned"},
   mode : Mode, rounds : 0..2, edges : SUBSET Arc, relation : SUBSET Arc,
   seeds : SUBSET (Entity \cup Period), reached : SUBSET Entity,
   stage : {"off", "anchored", "unanchored", "broad_walk"}, few : BOOLEAN,
   chunks : SUBSET ChunkNode, linked : SUBSET ChunkNode, arts : SUBSET ArtNode,
   born : SUBSET Node, evidence : SUBSET Node, first : SUBSET Node]

QueriesTyped ==
  /\ live \subseteq stored /\ stored \subseteq Node
  /\ query \in QueryRecord /\ query.relation \subseteq query.edges

\* Rows only go, so what is ACTIVE now was so when the round began; and what was
\* not ACTIVE then is among the candidates only by its edges.
CandidatesWereLive ==
  /\ query.pc \notin {"idle", "returned"} => live \subseteq query.born
  /\ query.pc \in {"documents", "bridge", "fulltext", "pack"} =>
       query.chunks \ query.born \subseteq query.linked /\ query.arts \subseteq query.born
  /\ EvidenceWasLive

RetrievalHolds == QueriesTyped /\ CandidatesWereLive /\ WalkIsReach

LEMMA NoQueryTyped ==
  NoQuery \in QueryRecord /\ NoQuery.pc = "idle" /\ NoQuery.relation \subseteq NoQuery.edges
  BY DEF NoQuery, QueryRecord, Mode

LEMMA StepToNoQuery ==
  ASSUME RetrievalHolds, query' = NoQuery, UNCHANGED <<stored, live>>
  PROVE  RetrievalHolds'
  BY NoQueryTyped DEF RetrievalHolds, QueriesTyped, CandidatesWereLive, EvidenceWasLive, WalkIsReach, Asking

LEMMA BeginRoundStep ==
  ASSUME QueriesTyped, UNCHANGED <<stored, live>>, NEW q \in QueryRecord, BeginRound(q)
  PROVE  RetrievalHolds'
  <1>1. PICK s \in SUBSET (Entity \cup Period), es \in SUBSET Arc : \E rel \in SUBSET es :
          query' = [q EXCEPT !.pc = "walk", !.seeds = s, !.edges = es, !.relation = rel, !.born = live]
    BY DEF BeginRound
  <1>2. PICK rel \in SUBSET es :
          query' = [q EXCEPT !.pc = "walk", !.seeds = s, !.edges = es, !.relation = rel, !.born = live]
    BY <1>1
  <1>3. live \in SUBSET Node /\ rel \in SUBSET Arc
    BY DEF QueriesTyped
  <1>4. /\ query' \in QueryRecord /\ query'.pc = "walk" /\ query'.born = live
        /\ query'.relation = rel /\ query'.edges = es
    BY <1>2, <1>3 DEF QueryRecord
  <1> QED BY <1>4 DEF RetrievalHolds, QueriesTyped, CandidatesWereLive, EvidenceWasLive, WalkIsReach, Asking

LEMMA AskStep ==
  ASSUME RetrievalHolds, NEW mode \in Mode, NEW r \in 1..2, Ask(mode, r)
  PROVE  RetrievalHolds'
  <1>0. r \in 0..2 /\ \A q \in QueryRecord : [q EXCEPT !.mode = mode, !.rounds = r] \in QueryRecord
    <2>1. r \in 0..2
      OBVIOUS
    <2> QED BY <2>1 DEF QueryRecord
  <1>1. [NoQuery EXCEPT !.mode = mode, !.rounds = r] \in QueryRecord
    BY <1>0, NoQueryTyped
  <1> QED BY <1>1, BeginRoundStep DEF Ask, RetrievalHolds

\* The walk finds what is in reach.
LEMMA ExpandGraphStep ==
  ASSUME RetrievalHolds, RetrievalBasics, ExpandGraph
  PROVE  RetrievalHolds'
  <1> DEFINE s == query.seeds \cap Entity
             w == Walk(query.edges, query.relation, s)
             r == [query EXCEPT !.pc = "candidates", !.stage = w.stage, !.reached = w.reached \cup s]
  <1>1. query.pc = "walk" /\ query' = r /\ UNCHANGED <<stored, live>>
    BY DEF ExpandGraph, Asking
  <1>2. query \in QueryRecord /\ query.relation \subseteq query.edges
    BY DEF RetrievalHolds, QueriesTyped
  <1>3. s \in SUBSET Entity /\ query.edges \in SUBSET Arc /\ query.relation \in SUBSET Arc
    BY <1>2 DEF QueryRecord
  <1>4. /\ w.stage \in {"anchored", "unanchored", "broad_walk"}
        /\ w.stage = "anchored" => w.reached = Anchored(query.relation, s).reached
        /\ w.stage = "unanchored" => w.reached = s \cup Ends(query.relation)
        /\ w.stage = "broad_walk" => w.reached = BroadWalk(query.edges, s)
    BY DEF Walk
  <1> DEFINE es == IF w.stage = "anchored" THEN query.relation ELSE query.edges
  <1> HIDE DEF w
  <1>5. w.stage # "unanchored" => w.reached = {b \in Entity : \E a \in s : Connected(es, a, b)}
    <2>1. CASE w.stage = "anchored"
      <3>1. PICK ball : Balls(query.relation, s, ball) /\ Anchored(query.relation, s).reached = ball[Hops]
        BY <1>3, AnchoredIsBall
      <3>2. ball[Hops] = {b \in Entity : \E a \in s : Connected(query.relation, a, b)}
        BY <3>1, <1>3, BallIsReach
      <3> QED BY <3>1, <3>2, <2>1, <1>4
    <2>2. CASE w.stage = "broad_walk"
      <3>1. PICK ball : Balls(query.edges, s, ball) /\ BroadWalk(query.edges, s) = ball[Hops]
        BY <1>3, BroadWalkIsBall
      <3>2. ball[Hops] = {b \in Entity : \E a \in s : Connected(query.edges, a, b)}
        BY <3>1, <1>3, BallIsReach
      <3> QED BY <3>1, <3>2, <2>2, <1>4
    <2> QED BY <1>4, <2>1, <2>2
  <1>6. \A a \in s : Connected(es, a, a)
    <2> SUFFICES ASSUME NEW a \in s PROVE Connected(es, a, a)
      OBVIOUS
    <2>1. Path(es, a, a, 0, [i \in 0..0 |-> a])
      BY <1>3 DEF Path
    <2> QED BY <2>1, ConnectedByPath DEF RetrievalBasics
  <1>7. w.reached \in SUBSET Entity
    BY <1>3, <1>4, <1>5, EndsOf
  <1>8. /\ r \in QueryRecord /\ r.pc = "candidates" /\ r.stage = w.stage /\ r.reached = w.reached \cup s
        /\ r.relation = query.relation /\ r.edges = query.edges /\ r.seeds = query.seeds /\ r.born = query.born
    BY <1>2, <1>3, <1>4, <1>7 DEF QueryRecord
  <1> HIDE DEF r
  <1>9. w.stage \in {"anchored", "broad_walk"} =>
          w.reached \cup s = {b \in Entity : \E a \in s : Connected(es, a, b)}
    BY <1>3, <1>5, <1>6
  <1>10. QueriesTyped'
    BY <1>1, <1>2, <1>8 DEF RetrievalHolds, QueriesTyped
  <1>11. CandidatesWereLive'
    BY <1>1, <1>8 DEF RetrievalHolds, CandidatesWereLive, EvidenceWasLive, Asking
  <1> HIDE DEF es, s
  <1>12. WalkIsReach'
    <2> USE DEF es, s
    <2> QED BY <1>1, <1>8, <1>9 DEF WalkIsReach, Asking
  <1> QED BY <1>10, <1>11, <1>12 DEF RetrievalHolds

\* A step between the candidates and the answer.
LEMMA PacksOn ==
  ASSUME RetrievalHolds, UNCHANGED <<stored, live>>, NEW r \in QueryRecord, query' = r,
         r.relation \subseteq r.edges, query.pc \notin {"idle", "returned"}, r.born = query.born,
         \/ /\ r.pc \in {"documents", "bridge", "fulltext", "pack"}
            /\ r.chunks \ r.born \subseteq r.linked /\ r.arts \subseteq r.born
         \/ r.pc = "answer" /\ r.evidence \ r.born \subseteq r.linked
         \/ r.pc = "returned"
  PROVE  RetrievalHolds'
  <1>1. live \subseteq query.born
    BY DEF RetrievalHolds, CandidatesWereLive
  <1>2. QueriesTyped'
    BY DEF RetrievalHolds, QueriesTyped
  <1>3. CandidatesWereLive'
    BY <1>1 DEF CandidatesWereLive, EvidenceWasLive, Asking
  <1>4. WalkIsReach'
    BY DEF WalkIsReach, Asking
  <1> QED BY <1>2, <1>3, <1>4 DEF RetrievalHolds

LEMMA LiveRows ==
  ASSUME RetrievalHolds
  PROVE  /\ live \subseteq stored /\ live \in SUBSET Node
         /\ query \in QueryRecord /\ query.relation \subseteq query.edges
         /\ query.pc \notin {"idle", "returned"} => live \subseteq query.born
         /\ \A ds : DocumentChunks(ds) \in SUBSET (live \cap ChunkNode)
         /\ \A as : ClaimChunks(as) \in SUBSET (live \cap ChunkNode)
         /\ \A cs : TablesFor(cs) \in SUBSET (live \cap ArtNode)
         /\ \A cs : VerbatimFor(cs) \in SUBSET (live \cap ChunkNode)
         /\ AnyChunks \in SUBSET (live \cap ChunkNode)
         /\ \A g \in Nearest(LiveArtifacts) : g \in SUBSET (live \cap ArtNode)
         /\ \A ts : TopicClaims(ts) \in SUBSET (live \cap ArtNode)
         /\ \A ts : SeedChunks(ts) \in SUBSET (live \cap ChunkNode)
         /\ \A ts : TopicChunks(ts) \in SUBSET ChunkNode
  <1>1. live \subseteq stored /\ live \subseteq Node /\ query \in QueryRecord /\ query.relation \subseteq query.edges
    BY DEF RetrievalHolds, QueriesTyped
  <1>2. query.pc \notin {"idle", "returned"} => live \subseteq query.born
    BY DEF RetrievalHolds, CandidatesWereLive
  <1>3. /\ Of("summary", RDoc) \subseteq ChunkNode /\ Of("fulltext", RDoc) \subseteq ChunkNode
        /\ Of("claim", RDoc) \subseteq ArtNode
    BY DEF Of, Node, ChunkNode, ArtNode
  <1>4. \A ds : DocumentChunks(ds) \in SUBSET (live \cap ChunkNode)
    <2> SUFFICES ASSUME NEW ds, NEW n \in live \cap (ds \X {"summary", "fulltext"}) PROVE n \in ChunkNode
      BY DEF DocumentChunks
    <2> QED BY <1>1 DEF Node, ChunkNode
  <1>5. \A cs : TablesFor(cs) \in SUBSET (live \cap ArtNode)
    <2> SUFFICES ASSUME NEW ds, NEW n \in (ds \X {"table"}) \cap live PROVE n \in ArtNode
      BY DEF TablesFor, Of
    <2> QED BY <1>1 DEF Node, ChunkNode, ArtNode
  <1>6. \A cs : VerbatimFor(cs) \in SUBSET (live \cap ChunkNode)
    <2> SUFFICES ASSUME NEW ds, NEW n \in (ds \X {"fulltext"}) \cap live PROVE n \in ChunkNode
      BY DEF VerbatimFor, Of
    <2> QED BY <1>1 DEF Node, ChunkNode
  <1>7. \A g \in Nearest(LiveArtifacts) : g \in SUBSET (live \cap ArtNode)
    BY DEF Nearest, kSubset, LiveArtifacts
  <1>8. AnyChunks \in SUBSET (live \cap ChunkNode)
    BY <1>3 DEF AnyChunks
  <1>9. \A ts : /\ TopicChunks(ts) \in SUBSET ChunkNode /\ SeedChunks(ts) \in SUBSET (live \cap ChunkNode)
                /\ TopicClaims(ts) \in SUBSET (live \cap ArtNode)
    BY <1>3 DEF TopicChunks, SeedChunks, TopicClaims
  <1>10. \A as : ClaimChunks(as) \in SUBSET (live \cap ChunkNode)
    BY <1>3 DEF ClaimChunks
  <1> QED BY <1>1, <1>2, <1>4, <1>5, <1>6, <1>7, <1>8, <1>9, <1>10

LEMMA FetchCandidatesStep ==
  ASSUME RetrievalHolds, FetchCandidates
  PROVE  RetrievalHolds'
  <1> DEFINE topics == query.reached \cup (query.seeds \cap Period)
             linked == TopicChunks(topics)
             few == \/ Cardinality(linked) < TopK
                    \/ \E e \in query.seeds \cap Entity : Orphan(query.edges, e)
  <1>1. query.pc = "candidates" /\ UNCHANGED <<stored, live>>
    BY DEF FetchCandidates, Asking
  <1>2. PICK g \in IF RoundMode = "artifact_only" THEN {{}} ELSE Nearest(LiveArtifacts) :
          query' = [query EXCEPT !.pc = "documents", !.linked = linked, !.stage = "off", !.few = few,
                      !.seeds = {}, !.reached = {}, !.edges = {}, !.relation = {},
                      !.chunks = linked \cup SeedChunks(query.seeds),
                      !.arts = TopicClaims(topics) \cup g]
    BY DEF FetchCandidates
  <1>3. /\ linked \in SUBSET ChunkNode /\ SeedChunks(query.seeds) \in SUBSET (live \cap ChunkNode)
        /\ TopicClaims(topics) \cup g \in SUBSET (live \cap ArtNode) /\ few \in BOOLEAN
        /\ query \in QueryRecord /\ live \subseteq query.born
    BY <1>1, LiveRows
  <1> HIDE DEF linked, topics, few
  <1>4. /\ query' \in QueryRecord /\ query'.pc = "documents" /\ query'.born = query.born
        /\ query'.linked = linked /\ query'.chunks = linked \cup SeedChunks(query.seeds)
        /\ query'.arts = TopicClaims(topics) \cup g
        /\ query'.relation \subseteq query'.edges
    BY <1>2, <1>3 DEF QueryRecord
  <1> QED BY <1>1, <1>3, <1>4, PacksOn

LEMMA DocumentArmStep ==
  ASSUME RetrievalHolds, DocumentArm
  PROVE  RetrievalHolds'
  <1>1. query.pc = "documents" /\ UNCHANGED <<stored, live>> /\ query \in QueryRecord
    BY LiveRows DEF DocumentArm, Asking
  <1>2. PICK more \in SUBSET (live \cap ChunkNode), few \in BOOLEAN :
          query' = [query EXCEPT !.pc = "bridge", !.few = few, !.chunks = @ \cup more]
    <2>1. CASE query.few
      <3>1. PICK ds : query' = [query EXCEPT !.pc = "bridge", !.few = FALSE, !.chunks = @ \cup DocumentChunks(ds)]
        BY <2>1 DEF DocumentArm
      <3> QED BY <3>1, LiveRows
    <2>2. CASE ~query.few
      <3>1. query' = [query EXCEPT !.pc = "bridge"]
        BY <2>2 DEF DocumentArm
      <3>2. [query EXCEPT !.pc = "bridge"] =
              [query EXCEPT !.pc = "bridge", !.few = query.few, !.chunks = @ \cup {}]
        BY <1>1 DEF QueryRecord
      <3>3. query.few \in BOOLEAN /\ {} \in SUBSET (live \cap ChunkNode)
        BY <1>1 DEF QueryRecord
      <3> QED BY <3>1, <3>2, <3>3
    <2> QED BY <2>1, <2>2
  <1>3. /\ query' \in QueryRecord /\ query'.pc = "bridge" /\ query'.born = query.born
        /\ query'.linked = query.linked /\ query'.chunks = query.chunks \cup more /\ query'.arts = query.arts
        /\ query'.relation = query.relation /\ query'.edges = query.edges
    BY <1>1, <1>2 DEF QueryRecord
  <1>4. /\ query.chunks \ query.born \subseteq query.linked /\ query.arts \subseteq query.born
        /\ live \subseteq query.born /\ query.relation \subseteq query.edges
    BY <1>1, LiveRows DEF RetrievalHolds, CandidatesWereLive
  <1> QED BY <1>1, <1>3, <1>4, PacksOn

LEMMA BridgeArtifactsStep ==
  ASSUME RetrievalHolds, BridgeArtifacts
  PROVE  RetrievalHolds'
  <1> DEFINE chunks == query.chunks \cup ClaimChunks(query.arts)
  <1>1. /\ query.pc = "bridge" /\ UNCHANGED <<stored, live>> /\ query \in QueryRecord
        /\ query' = [query EXCEPT !.pc = "fulltext", !.chunks = chunks, !.arts = @ \cup TablesFor(chunks)]
    BY LiveRows DEF BridgeArtifacts, Asking
  <1>2. /\ ClaimChunks(query.arts) \in SUBSET (live \cap ChunkNode)
        /\ TablesFor(chunks) \in SUBSET (live \cap ArtNode)
        /\ live \subseteq query.born /\ query.relation \subseteq query.edges
    BY <1>1, LiveRows
  <1>3. query.chunks \ query.born \subseteq query.linked /\ query.arts \subseteq query.born
    BY <1>1 DEF RetrievalHolds, CandidatesWereLive
  <1>4. chunks \in SUBSET ChunkNode /\ chunks \ query.born \subseteq query.linked
    BY <1>1, <1>2, <1>3 DEF QueryRecord
  <1> HIDE DEF chunks
  <1>5. /\ query' \in QueryRecord /\ query'.pc = "fulltext" /\ query'.born = query.born
        /\ query'.linked = query.linked /\ query'.chunks = chunks /\ query'.arts = query.arts \cup TablesFor(chunks)
        /\ query'.relation = query.relation /\ query'.edges = query.edges
    BY <1>1, <1>2, <1>4 DEF QueryRecord
  <1> QED BY <1>1, <1>2, <1>3, <1>4, <1>5, PacksOn

LEMMA FullTextBridgeStep ==
  ASSUME RetrievalHolds, FullTextBridge
  PROVE  RetrievalHolds'
  <1>1. query.pc = "fulltext" /\ UNCHANGED <<stored, live>> /\ query \in QueryRecord
    BY LiveRows DEF FullTextBridge, Asking
  <1>2. /\ query.chunks \ query.born \subseteq query.linked /\ query.arts \subseteq query.born
        /\ live \subseteq query.born /\ query.relation \subseteq query.edges
    BY <1>1, LiveRows DEF RetrievalHolds, CandidatesWereLive
  <1>3. PICK cs \in SUBSET ChunkNode, as \in SUBSET ArtNode :
          /\ query' = [query EXCEPT !.pc = "pack", !.arts = as, !.chunks = cs]
          /\ cs \ query.born \subseteq query.linked /\ as \subseteq query.born
    <2>1. CASE RoundMode = "artifact_only"
      <3>1. PICK g \in Nearest(LiveArtifacts) :
              query' = [query EXCEPT !.pc = "pack", !.arts = @ \cup g, !.chunks = {}]
        BY <2>1 DEF FullTextBridge
      <3>2. query.arts \cup g \in SUBSET ArtNode /\ query.arts \cup g \subseteq query.born
        BY <1>1, <1>2, LiveRows DEF QueryRecord
      <3>3. {} \in SUBSET ChunkNode /\ {} \ query.born \subseteq query.linked
        OBVIOUS
      <3>4. query' = [query EXCEPT !.pc = "pack", !.arts = query.arts \cup g, !.chunks = {}]
        BY <3>1
      <3> QED BY <3>2, <3>3, <3>4
    <2>2. CASE RoundMode # "artifact_only"
      <3> DEFINE cs == IF query.chunks = {} /\ query.arts = {} THEN AnyChunks
                       ELSE query.chunks \cup VerbatimFor(query.chunks)
      <3>1. query' = [query EXCEPT !.pc = "pack", !.chunks = cs]
        BY <2>2 DEF FullTextBridge
      <3>2. AnyChunks \in SUBSET (live \cap ChunkNode) /\ VerbatimFor(query.chunks) \in SUBSET (live \cap ChunkNode)
        BY LiveRows
      <3>3. cs \in SUBSET ChunkNode /\ cs \ query.born \subseteq query.linked
        BY <1>1, <1>2, <3>2 DEF QueryRecord
      <3> HIDE DEF cs
      <3>4. [query EXCEPT !.pc = "pack", !.chunks = cs] = [query EXCEPT !.pc = "pack", !.arts = query.arts, !.chunks = cs]
        BY <1>1 DEF QueryRecord
      <3>5. query.arts \in SUBSET ArtNode
        BY <1>1 DEF QueryRecord
      <3> QED BY <3>1, <3>3, <3>4, <3>5, <1>2
    <2> QED BY <2>1, <2>2
  <1>4. /\ query' \in QueryRecord /\ query'.pc = "pack" /\ query'.born = query.born
        /\ query'.linked = query.linked /\ query'.chunks = cs /\ query'.arts = as
        /\ query'.relation = query.relation /\ query'.edges = query.edges
    BY <1>1, <1>3 DEF QueryRecord
  <1> QED BY <1>1, <1>2, <1>3, <1>4, PacksOn

LEMMA PackEvidenceStep ==
  ASSUME RetrievalHolds, PackEvidence
  PROVE  RetrievalHolds'
  <1>1. query.pc = "pack" /\ UNCHANGED <<stored, live>> /\ query \in QueryRecord
    BY LiveRows DEF PackEvidence, Asking
  <1>2. PICK c \in SUBSET query.chunks, a \in SUBSET query.arts :
          query' = [query EXCEPT !.pc = "answer", !.evidence = c \cup a, !.chunks = {}, !.arts = {}]
    <2> DEFINE cs == IF RoundMode = "artifact_only" THEN {{}} ELSE Selections(query.chunks \cap stored, TopK, DocCap)
               k == IF RoundMode = "artifact_only" THEN TopK ELSE TopK \div 2
    <2>1. PICK c \in cs, a \in Selections(query.arts \cap stored, k, k) :
            query' = [query EXCEPT !.pc = "answer", !.evidence = c \cup a, !.chunks = {}, !.arts = {}]
      BY DEF PackEvidence
    <2>2. c \in SUBSET query.chunks /\ a \in SUBSET query.arts
      BY DEF Selections
    <2> QED BY <2>1, <2>2
  <1>3. /\ query.chunks \ query.born \subseteq query.linked /\ query.arts \subseteq query.born
        /\ query.relation \subseteq query.edges
    BY <1>1, LiveRows DEF RetrievalHolds, CandidatesWereLive
  <1>4. c \cup a \in SUBSET Node /\ (c \cup a) \ query.born \subseteq query.linked
    <2>1. ChunkNode \subseteq Node /\ ArtNode \subseteq Node
      BY DEF ChunkNode, ArtNode, Node
    <2>2. query.chunks \subseteq ChunkNode /\ query.arts \subseteq ArtNode
      BY <1>1 DEF QueryRecord
    <2> QED BY <1>3, <2>1, <2>2
  <1>5. /\ query' \in QueryRecord /\ query'.pc = "answer" /\ query'.born = query.born
        /\ query'.linked = query.linked /\ query'.evidence = c \cup a
        /\ query'.relation = query.relation /\ query'.edges = query.edges
    BY <1>1, <1>2, <1>4 DEF QueryRecord
  <1> QED BY <1>1, <1>3, <1>4, <1>5, PacksOn

LEMMA AnswerStep ==
  ASSUME RetrievalHolds, Answer
  PROVE  RetrievalHolds'
  <1>1. /\ query.pc = "answer" /\ UNCHANGED <<stored, live>> /\ query \in QueryRecord
        /\ query.relation \subseteq query.edges
    BY LiveRows DEF Answer, Asking
  <1>2. CASE query.rounds = 2
    <2> DEFINE q == [query EXCEPT !.rounds = 0, !.first = query.evidence, !.evidence = {}, !.linked = {}]
    <2>1. BeginRound(q)
      BY <1>2 DEF Answer
    <2>2. q \in QueryRecord
      <3>1. 0 \in 0..2 /\ {} \in SUBSET Node /\ {} \in SUBSET ChunkNode /\ query.evidence \in SUBSET Node
        BY <1>1 DEF QueryRecord
      <3> QED BY <1>1, <3>1 DEF QueryRecord
    <2> HIDE DEF q
    <2> QED BY <1>1, <2>1, <2>2, BeginRoundStep DEF RetrievalHolds
  <1>3. CASE query.rounds # 2
    <2> DEFINE r == [query EXCEPT !.pc = "returned", !.linked = {}, !.born = {}, !.first = {},
                                  !.evidence = @ \cup Folded(query.mode, query.first)]
    <2>1. query' = r
      BY <1>3 DEF Answer
    <2>2. query.evidence \cup Folded(query.mode, query.first) \in SUBSET Node
      BY <1>1 DEF QueryRecord, Folded
    <2>3. r \in QueryRecord /\ r.pc = "returned" /\ r.relation = query.relation /\ r.edges = query.edges
      BY <1>1, <2>2 DEF QueryRecord
    <2> HIDE DEF r
    <2>4. QueriesTyped'
      BY <1>1, <2>1, <2>3 DEF RetrievalHolds, QueriesTyped
    <2> QED BY <2>1, <2>3, <2>4 DEF RetrievalHolds, CandidatesWereLive, EvidenceWasLive, WalkIsReach, Asking
  <1> QED BY <1>2, <1>3

LEMMA DeleteDocumentStep ==
  ASSUME RetrievalHolds, NEW d, NEW hard, DeleteDocument(d, hard)
  PROVE  RetrievalHolds'
  <1>1. /\ live' = {n \in live : n[1] # d} /\ query' = query
        /\ stored' = IF hard THEN {n \in stored : n[1] # d \/ n[2] = "claim"} ELSE stored
    BY DEF DeleteDocument
  <1>2. QueriesTyped'
    BY <1>1 DEF RetrievalHolds, QueriesTyped
  <1>3. CandidatesWereLive'
    BY <1>1 DEF RetrievalHolds, CandidatesWereLive, EvidenceWasLive, Asking
  <1>4. WalkIsReach'
    BY <1>1 DEF RetrievalHolds, WalkIsReach, Asking, Connected
  <1> QED BY <1>2, <1>3, <1>4 DEF RetrievalHolds

LEMMA NextRetrieval ==
  ASSUME RetrievalHolds, RetrievalBasics, [RetrievalNext]_retrievalVars
  PROVE  RetrievalHolds'
  <1>1. CASE UNCHANGED retrievalVars
    BY <1>1 DEF retrievalVars, RetrievalHolds, QueriesTyped, CandidatesWereLive, EvidenceWasLive,
                WalkIsReach, Asking
  <1>2. CASE Return \/ AbandonQuery
    BY <1>2, StepToNoQuery DEF Return, AbandonQuery
  <1> QED BY <1>1, <1>2, AskStep, ExpandGraphStep, FetchCandidatesStep, DocumentArmStep, BridgeArtifactsStep,
             FullTextBridgeStep, PackEvidenceStep, AnswerStep, DeleteDocumentStep DEF RetrievalNext

LEMMA InitRetrieval == Init => RetrievalHolds
  <1>1. RetrievalInit => live \subseteq stored /\ stored \subseteq Node
    BY RetrievalAssumption DEF RetrievalInit, Node
  <1> QED BY <1>1, NoQueryTyped DEF Init, RetrievalInit, RetrievalHolds, QueriesTyped, CandidatesWereLive,
            EvidenceWasLive, WalkIsReach, Asking

\* The walk reaches what chains of edges join to the seeds, no more and no less,
\* and the answer cites what was live, for any graph, documents and radius, with
\* documents deleted between any two steps.
THEOREM RetrievalFinds == Spec => []RetrievalInv
  <1>1. Init => RetrievalHolds
    BY InitRetrieval
  <1>2. [Next]_servicesVars => [RetrievalNext]_retrievalVars
    BY DEF Next, servicesVars
  <1>3. RetrievalHolds /\ [RetrievalNext]_retrievalVars => RetrievalHolds'
    BY NextRetrieval, RetrievalConstants
  <1>4. RetrievalHolds => RetrievalInv
    BY DEF RetrievalHolds, CandidatesWereLive, RetrievalInv
  <1> QED BY <1>1, <1>2, <1>3, <1>4, PTL DEF Spec

-----------------------------------------------------------------------------
(***************************************************************************)
(* Enrichment.  The calendar needs no arithmetic: the records of a run are *)
(* closed twice over under parents, and once would do.  Containment is     *)
(* acyclic because the levels of the places are bounded.                   *)
(***************************************************************************)
Plausibles == {e \in GeoPlace \X GeoPlace : Plausible(GeoLevel[e[1]], GeoLevel[e[2]])}

\* The periods of the chunks that the running pass has read.
NamedOf(read) == UNION {Dates[c] : c \in read}

PassTyped ==
  /\ \E pc, read, records, pairs :
       pass = [pc |-> pc, read |-> read, records |-> records, pairs |-> pairs]
  /\ pass.pairs \subseteq Plausibles
  /\ pass.pc \in {"recommend", "basis"} => pass.read \subseteq Insight

\* What a dating pass holds is the closure of what it read, and the parents are
\* linked before the edges are written.
PassDates ==
  /\ pass.pc \in {"mint", "parents", "edges"} => pass.records = Records(NamedOf(pass.read))
  /\ pass.pc \in {"parents", "edges"} => pass.records \subseteq minted
  /\ pass.pc = "edges" => ParentPairs \subseteq parentTime

RecsTyped ==
  /\ passes \in Nat
  /\ recs \subseteq [by : Nat, basis : SUBSET Insight]
  /\ located \subseteq Plausibles

EnrichInv == EnrichTypeOK /\ PassTyped /\ PassDates /\ RecsTyped /\ CalendarWhole

LEMMA RecordsClosed ==
  ASSUME NEW S
  PROVE  /\ S \subseteq Records(S)
         /\ \A t \in S : \A p \in WithAncestors({t}) :
              /\ p \in Records(S)
              /\ HasParent(p) /\ p[1] < Highest => ParentOf(p) \in Records(S)
  <1>1. \A T : T \subseteq WithParents(T)
    BY DEF WithParents
  <1>2. \A T, U : T \subseteq U => WithParents(T) \subseteq WithParents(U)
    BY DEF WithParents
  <1>3. \A T : T \subseteq WithAncestors(T)
    BY <1>1 DEF WithAncestors
  <1>4. \A T, U : T \subseteq U => WithAncestors(T) \subseteq WithAncestors(U)
    BY <1>2 DEF WithAncestors
  <1>5. \A T : T \subseteq WithGaps(T)
    BY DEF WithGaps
  <1> DEFINE G == WithGaps(WithAncestors(S))
  <1>6. WithAncestors(S) \subseteq G
    BY <1>5
  <1>7. Records(S) = WithParents(WithParents(G))
    BY DEF Records, WithAncestors
  <1>8. \A p \in G : HasParent(p) /\ p[1] < Highest => ParentOf(p) \in WithParents(G)
    BY DEF WithParents
  <1> HIDE DEF G
  <1>9. WithParents(G) \subseteq Records(S) /\ G \subseteq Records(S)
    BY <1>1, <1>7
  <1>10. ASSUME NEW t \in S, NEW p \in WithAncestors({t}) PROVE p \in G
    <2>1. WithAncestors({t}) \subseteq WithAncestors(S)
      BY <1>4
    <2> QED BY <2>1, <1>6
  <1>11. S \subseteq Records(S)
    BY <1>3, <1>6, <1>9
  <1> QED BY <1>8, <1>9, <1>10, <1>11

\* A step that leaves the calendar alone.
LEMMA ElsewhereStep ==
  ASSUME EnrichInv, UNCHANGED timeVars, PassTyped', PassDates', RecsTyped',
         onFile' \subseteq DatedChunk /\ artifacts' \subseteq onFile' /\ insights' \subseteq Insight
  PROVE  EnrichInv'
  <1>1. EnrichTypeOK'
    <2>1. located' \subseteq GeoPlace \X GeoPlace
      BY DEF RecsTyped, Plausibles
    <2>2. \A r \in recs' : r.basis \subseteq Insight
      BY DEF RecsTyped
    <2>3. UNCHANGED <<minted, parentTime, hasTime, during, artTime>>
      BY DEF timeVars
    <2>4. {e[2] : e \in hasTime} \cup {e[1] : e \in during} \cup {e[2] : e \in during}
            \cup {e[2] : e \in artTime} \cup {e[1] : e \in parentTime} \subseteq minted
      BY DEF EnrichInv, EnrichTypeOK
    <2> QED BY <2>1, <2>2, <2>3, <2>4 DEF EnrichTypeOK
  <1>2. CalendarWhole'
    BY DEF EnrichInv, CalendarWhole, timeVars
  <1> QED BY <1>1, <1>2 DEF EnrichInv

\* A step that changes the pass and neither starts nor advances a dating one.
LEMMA PassRests ==
  ASSUME EnrichInv, UNCHANGED timeVars, PassTyped', pass'.pc \notin {"mint", "parents", "edges"}, RecsTyped',
         onFile' \subseteq DatedChunk /\ artifacts' \subseteq onFile' /\ insights' \subseteq Insight
  PROVE  EnrichInv'
  <1>1. PassDates'
    BY DEF PassDates
  <1> QED BY <1>1, ElsewhereStep

LEMMA AtRestTyped ==
  ASSUME pass' = AtRest
  PROVE  PassTyped' /\ pass'.pc \notin {"mint", "parents", "edges"}
  <1>1. pass' = [pc |-> "idle", read |-> {}, records |-> {}, pairs |-> {}]
    BY DEF AtRest
  <1>2. pass'.pc = "idle" /\ pass'.pairs = {}
    BY <1>1
  <1> QED BY <1>1, <1>2 DEF PassTyped

LEMMA EnrichKept ==
  ASSUME EnrichInv
  PROVE  /\ onFile \subseteq DatedChunk /\ artifacts \subseteq onFile /\ insights \subseteq Insight
         /\ passes \in Nat /\ located \subseteq Plausibles
         /\ UNCHANGED pass => PassTyped'
         /\ UNCHANGED <<recs, located, passes>> => RecsTyped'
         /\ UNCHANGED <<pass, timeVars>> => PassDates'
  <1>1. UNCHANGED pass => PassTyped'
    BY DEF EnrichInv, PassTyped
  <1>2. UNCHANGED <<recs, located, passes>> => RecsTyped'
    BY DEF EnrichInv, RecsTyped
  <1>3. UNCHANGED <<pass, timeVars>> => PassDates'
    BY DEF EnrichInv, PassDates, timeVars, ParentPairs
  <1> QED BY <1>1, <1>2, <1>3 DEF EnrichInv, EnrichTypeOK, RecsTyped

LEMMA CorpusGrows ==
  ASSUME EnrichInv, Ingest \/ MakeArtifact \/ MakeInsight
  PROVE  EnrichInv'
  <1>1. /\ UNCHANGED <<recs, located, timeVars, pass, passes>>
        /\ onFile' \subseteq DatedChunk /\ artifacts' \subseteq onFile' /\ insights' \subseteq Insight
    BY EnrichKept DEF Ingest, MakeArtifact, MakeInsight
  <1>2. PassTyped' /\ PassDates' /\ RecsTyped'
    BY <1>1, EnrichKept
  <1> QED BY <1>1, <1>2, ElsewhereStep

LEMMA HeldIs ==
  ASSUME NEW pc, NEW read, NEW records
  PROVE  /\ [AtRest EXCEPT !.pc = pc, !.read = read] = [pc |-> pc, read |-> read, records |-> {}, pairs |-> {}]
         /\ [AtRest EXCEPT !.pc = pc, !.read = read, !.records = records] =
              [pc |-> pc, read |-> read, records |-> records, pairs |-> {}]
  <1> DEFINE Held == [pc : {"idle", pc}, read : {{}, read}, records : {{}, records}, pairs : {{}}]
  <1>1. AtRest \in Held
    BY DEF AtRest
  <1>2. \A x \in Held : [x EXCEPT !.pc = pc, !.read = read] \in Held
    OBVIOUS
  <1>3. \A x \in Held : [x EXCEPT !.pc = pc, !.read = read, !.records = records] \in Held
    OBVIOUS
  <1>4. \A x \in Held : x = [pc |-> x.pc, read |-> x.read, records |-> x.records, pairs |-> x.pairs]
    OBVIOUS
  <1> QED BY <1>1, <1>2, <1>3, <1>4 DEF AtRest

LEMMA BeginsTyped ==
  ASSUME EnrichInv, NEW held, Begins(held)
  PROVE  passes' \in Nat /\ pass' = held
  BY EnrichKept DEF Begins

LEMMA ScanDatesStep ==
  ASSUME EnrichInv, NEW limit, ScanDates(limit)
  PROVE  EnrichInv'
  <1> DEFINE read == {c \in Undated : Cardinality({d \in Undated : d < c}) < limit}
             noted == UNION {Dates[c] : c \in read}
             pc == IF noted = {} THEN "propagate" ELSE "mint"
             held == [AtRest EXCEPT !.pc = pc, !.read = read, !.records = Records(noted)]
  <1>1. Begins(held) /\ UNCHANGED <<onFile, artifacts, insights, recs, located, timeVars>>
    BY DEF ScanDates
  <1>2. pc \in {"propagate", "mint"} /\ NamedOf(read) = noted
    BY DEF NamedOf
  <1> HIDE DEF read, noted, pc
  <1>3. held = [pc |-> pc, read |-> read, records |-> Records(noted), pairs |-> {}]
    BY HeldIs
  <1> HIDE DEF held
  <1>4. pass' = [pc |-> pc, read |-> read, records |-> Records(noted), pairs |-> {}] /\ passes' \in Nat
    BY <1>1, <1>3, BeginsTyped
  <1>5. pass'.pc = pc /\ pass'.read = read /\ pass'.records = Records(noted) /\ pass'.pairs = {}
    BY <1>4
  <1>6. PassTyped'
    BY <1>2, <1>4, <1>5 DEF PassTyped
  <1>7. PassDates'
    BY <1>2, <1>5 DEF PassDates
  <1>8. RecsTyped'
    BY <1>1, <1>4 DEF EnrichInv, RecsTyped
  <1> QED BY <1>1, <1>6, <1>7, <1>8, EnrichKept, ElsewhereStep

\* A dating pass goes on with what it holds.
LEMMA PassAdvances ==
  ASSUME PassTyped, NEW pc, pc \notin {"recommend", "basis"}, pass' = [pass EXCEPT !.pc = pc]
  PROVE  /\ PassTyped' /\ pass'.pc = pc /\ pass'.read = pass.read /\ pass'.records = pass.records
         /\ pass'.pairs = pass.pairs
  <1>1. PICK pc0, read, records, pairs :
          pass = [pc |-> pc0, read |-> read, records |-> records, pairs |-> pairs]
    BY DEF PassTyped
  <1>2. pass' = [pc |-> pc, read |-> read, records |-> records, pairs |-> pairs]
    BY <1>1
  <1>3. /\ pass'.pc = pc /\ pass'.read = read /\ pass'.records = records /\ pass'.pairs = pairs
        /\ pass.read = read /\ pass.records = records /\ pass.pairs = pairs
    BY <1>1, <1>2
  <1>4. PassTyped'
    BY <1>2, <1>3 DEF PassTyped
  <1> QED BY <1>3, <1>4

LEMMA MintTimesStep ==
  ASSUME EnrichInv, MintTimes
  PROVE  EnrichInv'
  <1>1. /\ pass.pc = "mint" /\ minted' = minted \cup pass.records /\ pass' = [pass EXCEPT !.pc = "parents"]
        /\ UNCHANGED <<onFile, artifacts, insights, recs, located, parentTime, hasTime, during, artTime, passes>>
    BY DEF MintTimes
  <1>2. PassTyped' /\ pass'.pc = "parents" /\ pass'.read = pass.read /\ pass'.records = pass.records
    BY <1>1, PassAdvances DEF EnrichInv
  <1>3. PassDates'
    BY <1>1, <1>2 DEF EnrichInv, PassDates
  <1>4. EnrichTypeOK'
    BY <1>1 DEF EnrichInv, EnrichTypeOK
  <1>5. CalendarWhole'
    BY <1>1 DEF EnrichInv, CalendarWhole
  <1> QED BY <1>1, <1>2, <1>3, <1>4, <1>5, EnrichKept DEF EnrichInv

LEMMA PairsWithin ==
  \A e \in ParentPairs : e[1] \in pass.records /\ e[2] \in pass.records
  BY DEF ParentPairs

LEMMA LinkParentsStep ==
  ASSUME EnrichInv, LinkParents
  PROVE  EnrichInv'
  <1>1. /\ pass.pc = "parents" /\ parentTime' = parentTime \cup ParentPairs /\ pass' = [pass EXCEPT !.pc = "edges"]
        /\ UNCHANGED <<onFile, artifacts, insights, recs, located, minted, hasTime, during, artTime, passes>>
    BY DEF LinkParents
  <1>2. PassTyped' /\ pass'.pc = "edges" /\ pass'.read = pass.read /\ pass'.records = pass.records
    BY <1>1, PassAdvances DEF EnrichInv
  <1>3. ParentPairs' = ParentPairs
    BY <1>2 DEF ParentPairs
  <1>4. pass.records \subseteq minted /\ pass.records = Records(NamedOf(pass.read))
    BY <1>1 DEF EnrichInv, PassDates
  <1>5. PassDates'
    BY <1>1, <1>2, <1>3, <1>4 DEF PassDates
  <1>6. EnrichTypeOK'
    <2>1. \A e \in parentTime' : e[1] \in minted
      BY <1>1, <1>4, PairsWithin DEF EnrichInv, EnrichTypeOK
    <2> QED BY <1>1, <2>1 DEF EnrichInv, EnrichTypeOK
  <1>7. CalendarWhole'
    BY <1>1 DEF EnrichInv, CalendarWhole
  <1> QED BY <1>1, <1>2, <1>5, <1>6, <1>7, EnrichKept DEF EnrichInv

\* All that a chunk names is there at once, with its tree above it.
LEMMA WriteTimeEdgesStep ==
  ASSUME EnrichInv, WriteTimeEdges
  PROVE  EnrichInv'
  <1>1. /\ pass.pc = "edges" /\ pass' = [pass EXCEPT !.pc = "propagate"]
        /\ hasTime' = hasTime \cup UNION {{c} \X Dates[c] : c \in pass.read}
        /\ during' = during \cup ParentPairs
        /\ UNCHANGED <<onFile, artifacts, insights, recs, located, minted, parentTime, artTime, passes>>
    BY DEF WriteTimeEdges
  <1>2. PassTyped' /\ pass'.pc = "propagate"
    BY <1>1, PassAdvances DEF EnrichInv
  <1>3. PassDates'
    BY <1>2 DEF PassDates
  <1>4. /\ pass.records = Records(NamedOf(pass.read)) /\ pass.records \subseteq minted
        /\ ParentPairs \subseteq parentTime
    BY <1>1 DEF EnrichInv, PassDates
  <1>5. ASSUME NEW e \in UNION {{c} \X Dates[c] : c \in pass.read}
        PROVE  e[1] \in pass.read /\ e[2] \in Dates[e[1]] /\ e[2] \in NamedOf(pass.read)
    BY DEF NamedOf
  <1>6. EnrichTypeOK'
    <2>1. \A e \in hasTime' : e[2] \in minted
      BY <1>1, <1>4, <1>5, RecordsClosed DEF EnrichInv, EnrichTypeOK
    <2>2. \A e \in during' : e[1] \in minted /\ e[2] \in minted
      BY <1>1, <1>4, PairsWithin DEF EnrichInv, EnrichTypeOK
    <2> QED BY <1>1, <2>1, <2>2 DEF EnrichInv, EnrichTypeOK
  <1>7. CalendarWhole'
    <2>1. during' \subseteq parentTime'
      BY <1>1, <1>4 DEF EnrichInv, CalendarWhole
    <2>2. ASSUME NEW e \in hasTime'
          PROVE  /\ \A p \in Dates[e[1]] : <<e[1], p>> \in hasTime'
                 /\ \A p \in WithAncestors({e[2]}) :
                      HasParent(p) /\ p[1] < Highest => <<p, ParentOf(p)>> \in during' \cap parentTime'
      <3>1. CASE e \in hasTime
        BY <1>1, <3>1 DEF EnrichInv, CalendarWhole
      <3>2. CASE e \in UNION {{c} \X Dates[c] : c \in pass.read}
        <4>1. e[1] \in pass.read /\ e[2] \in NamedOf(pass.read)
          BY <1>5, <3>2
        <4>2. \A p \in Dates[e[1]] : <<e[1], p>> \in hasTime'
          BY <1>1, <4>1
        <4>3. ASSUME NEW p \in WithAncestors({e[2]}), HasParent(p), p[1] < Highest
              PROVE  <<p, ParentOf(p)>> \in ParentPairs
          <5>1. p \in pass.records /\ ParentOf(p) \in pass.records
            BY <1>4, <4>1, <4>3, RecordsClosed
          <5> QED BY <5>1, <4>3 DEF ParentPairs
        <4> QED BY <1>1, <1>4, <4>2, <4>3
      <3> QED BY <1>1, <3>1, <3>2
    <2> QED BY <2>1, <2>2 DEF CalendarWhole
  <1> QED BY <1>1, <1>2, <1>3, <1>6, <1>7, EnrichKept DEF EnrichInv

\* Only minted periods are propagated.
LEMMA PropagatedStep ==
  ASSUME EnrichInv, Propagated, pass' = pass \/ pass' = AtRest,
         UNCHANGED <<onFile, artifacts, insights, recs, located, minted, parentTime, hasTime, during, passes>>
  PROVE  EnrichInv'
  <1>1. PassTyped' /\ PassDates'
    <2>1. CASE pass' = pass
      BY <2>1 DEF EnrichInv, PassTyped, PassDates, ParentPairs
    <2>2. CASE pass' = AtRest
      BY <2>2, AtRestTyped DEF PassDates
    <2> QED BY <2>1, <2>2
  <1>2. \A a : TimesFor(a) \subseteq minted
    BY DEF TimesFor, EnrichInv, EnrichTypeOK
  <1>3. EnrichTypeOK'
    <2>1. \A e \in artTime' : e[2] \in minted
      <3> DEFINE dated == {a \in artifacts : (\A e \in artTime : e[1] # a) /\ (\E e \in hasTime : e[1] = a)}
      <3>1. artTime' = artTime \cup UNION {{a} \X TimesFor(a) : a \in dated}
        BY DEF Propagated
      <3> HIDE DEF dated
      <3> QED BY <1>2, <3>1 DEF EnrichInv, EnrichTypeOK
    <2> QED BY <2>1 DEF EnrichInv, EnrichTypeOK
  <1>4. CalendarWhole'
    BY DEF EnrichInv, CalendarWhole
  <1> QED BY <1>1, <1>3, <1>4, EnrichKept DEF EnrichInv

LEMMA GeoStep ==
  ASSUME EnrichInv, BeginGeo \/ GeoAnswer \/ EndGeo
  PROVE  EnrichInv'
  <1>1. CASE BeginGeo
    <2> DEFINE held == [AtRest EXCEPT !.pc = "geo"]
    <2>1. Begins(held) /\ UNCHANGED <<onFile, artifacts, insights, recs, located, timeVars>>
      BY <1>1 DEF BeginGeo
    <2>2. held = [pc |-> "geo", read |-> {}, records |-> {}, pairs |-> {}]
      BY DEF AtRest
    <2> HIDE DEF held
    <2>3. pass' = [pc |-> "geo", read |-> {}, records |-> {}, pairs |-> {}] /\ passes' \in Nat
      BY <2>1, <2>2, BeginsTyped
    <2>4. pass'.pc = "geo" /\ pass'.pairs = {}
      BY <2>3
    <2>5. PassTyped'
      BY <2>3, <2>4 DEF PassTyped
    <2>6. RecsTyped'
      BY <2>1, <2>3 DEF EnrichInv, RecsTyped
    <2> QED BY <2>1, <2>4, <2>5, <2>6, EnrichKept, PassRests
  <1>2. CASE GeoAnswer
    <2>1. PICK child, parent \in GeoPlace :
            pass' = [pass EXCEPT !.pairs =
              IF child # parent /\ Plausible(GeoLevel[child], GeoLevel[parent])
              THEN @ \cup {<<child, parent>>} ELSE @]
      BY <1>2 DEF GeoAnswer
    <2> DEFINE pairs == IF child # parent /\ Plausible(GeoLevel[child], GeoLevel[parent])
                        THEN pass.pairs \cup {<<child, parent>>} ELSE pass.pairs
    <2>2. pass' = [pass EXCEPT !.pairs = pairs]
      BY <2>1
    <2>3. pairs \subseteq Plausibles
      BY DEF EnrichInv, PassTyped, Plausibles
    <2> HIDE DEF pairs
    <2>4. PICK pc, read, records, old : pass = [pc |-> pc, read |-> read, records |-> records, pairs |-> old]
      BY DEF EnrichInv, PassTyped
    <2>5. pass' = [pc |-> pc, read |-> read, records |-> records, pairs |-> pairs] /\ pass.pc = pc
      BY <2>2, <2>4
    <2>6. pass'.pc = pc /\ pass'.pairs = pairs /\ pc = "geo"
      BY <1>2, <2>5 DEF GeoAnswer
    <2>7. PassTyped'
      BY <2>3, <2>5, <2>6 DEF PassTyped
    <2>8. UNCHANGED <<onFile, artifacts, insights, recs, located, timeVars, passes>>
      BY <1>2 DEF GeoAnswer
    <2> QED BY <2>6, <2>7, <2>8, EnrichKept, PassRests
  <1>3. CASE EndGeo
    <2>1. /\ located' = located \cup pass.pairs /\ pass' = AtRest
          /\ UNCHANGED <<onFile, artifacts, insights, recs, timeVars, passes>>
      BY <1>3 DEF EndGeo
    <2>2. RecsTyped'
      BY <2>1 DEF EnrichInv, RecsTyped, PassTyped
    <2> QED BY <2>1, <2>2, AtRestTyped, EnrichKept, PassRests
  <1> QED BY <1>1, <1>2, <1>3

LEMMA RecommendStep ==
  ASSUME EnrichInv, BeginRecommend \/ InsertBasis \/ \E some \in BOOLEAN : InsertRecs(some)
  PROVE  EnrichInv'
  <1>1. CASE BeginRecommend
    <2> DEFINE open == {i \in insights : ~Supports(i)}
               read == {i \in open : Cardinality({j \in open : j < i}) < TopInsights}
               held == [AtRest EXCEPT !.pc = "recommend", !.read = read]
    <2>1. Begins(held) /\ UNCHANGED <<onFile, artifacts, insights, recs, located, timeVars>>
      BY <1>1 DEF BeginRecommend
    <2>3. read \subseteq Insight
      BY EnrichKept
    <2> HIDE DEF read
    <2>2. held = [pc |-> "recommend", read |-> read, records |-> {}, pairs |-> {}]
      BY HeldIs
    <2> HIDE DEF held
    <2>4. pass' = [pc |-> "recommend", read |-> read, records |-> {}, pairs |-> {}] /\ passes' \in Nat
      BY <2>1, <2>2, BeginsTyped
    <2>5. pass'.pc = "recommend" /\ pass'.read = read /\ pass'.pairs = {}
      BY <2>4
    <2>6. PassTyped'
      BY <2>3, <2>4, <2>5 DEF PassTyped
    <2>7. RecsTyped'
      BY <2>1, <2>4 DEF EnrichInv, RecsTyped
    <2> QED BY <2>1, <2>5, <2>6, <2>7, EnrichKept, PassRests
  <1>2. CASE InsertBasis
    <2>1. /\ pass.pc = "basis" /\ pass' = AtRest
          /\ recs' = {IF r.by = passes THEN [r EXCEPT !.basis = pass.read] ELSE r : r \in recs}
          /\ UNCHANGED <<onFile, artifacts, insights, located, timeVars, passes>>
      BY <1>2 DEF InsertBasis
    <2>2. pass.read \in SUBSET Insight
      BY <2>1 DEF EnrichInv, PassTyped
    <2>3. recs' \subseteq [by : Nat, basis : SUBSET Insight]
      BY <2>1, <2>2 DEF EnrichInv, RecsTyped
    <2>4. RecsTyped'
      BY <2>1, <2>3 DEF EnrichInv, RecsTyped
    <2> QED BY <2>1, <2>4, AtRestTyped, EnrichKept, PassRests
  <1>3. ASSUME NEW some \in BOOLEAN, InsertRecs(some) PROVE EnrichInv'
    <2>1. /\ pass.pc = "recommend"
          /\ recs' = IF some THEN recs \cup {[by |-> passes, basis |-> {}]} ELSE recs
          /\ pass' = IF some THEN [pass EXCEPT !.pc = "basis"] ELSE AtRest
          /\ UNCHANGED <<onFile, artifacts, insights, located, timeVars, passes>>
      BY <1>3 DEF InsertRecs
    <2>2. [by |-> passes, basis |-> {}] \in [by : Nat, basis : SUBSET Insight]
      BY EnrichKept
    <2>3. RecsTyped'
      BY <2>1, <2>2 DEF EnrichInv, RecsTyped
    <2>4. PassTyped' /\ pass'.pc \notin {"mint", "parents", "edges"}
      <3>1. CASE some
        <4>1. PICK pc, read, records, pairs : pass = [pc |-> pc, read |-> read, records |-> records, pairs |-> pairs]
          BY DEF EnrichInv, PassTyped
        <4>2. pass' = [pc |-> "basis", read |-> read, records |-> records, pairs |-> pairs]
          BY <2>1, <3>1, <4>1
        <4>3. pass'.pc = "basis" /\ pass'.read = pass.read /\ pass'.pairs = pass.pairs
          BY <4>1, <4>2
        <4> QED BY <2>1, <4>2, <4>3 DEF EnrichInv, PassTyped
      <3>2. CASE ~some
        BY <2>1, <3>2, AtRestTyped
      <3> QED BY <3>1, <3>2
    <2> QED BY <2>1, <2>3, <2>4, EnrichKept, PassRests
  <1> QED BY <1>1, <1>2, <1>3

LEMMA NextEnrich ==
  ASSUME EnrichInv, [EnrichNext]_enrichVars
  PROVE  EnrichInv'
  <1>1. CASE UNCHANGED enrichVars
    <2>1. UNCHANGED <<onFile, artifacts, insights, recs, located, timeVars, pass, passes>>
      BY <1>1 DEF enrichVars, timeVars
    <2> QED BY <2>1, EnrichKept, ElsewhereStep
  <1>2. CASE Propagate \/ PropagateAfterArtifacts
    BY <1>2, PropagatedStep DEF Propagate, PropagateAfterArtifacts
  <1>3. CASE PassDies
    <2>1. pass' = AtRest /\ UNCHANGED <<onFile, artifacts, insights, recs, located, timeVars, passes>>
      BY <1>3 DEF PassDies
    <2> QED BY <2>1, AtRestTyped, EnrichKept, PassRests
  <1> QED BY <1>1, <1>2, <1>3, CorpusGrows, ScanDatesStep, MintTimesStep, LinkParentsStep, WriteTimeEdgesStep,
             GeoStep, RecommendStep DEF EnrichNext

LEMMA InitEnrich == EnrichInit => EnrichInv
  <1> SUFFICES ASSUME EnrichInit PROVE EnrichInv
    OBVIOUS
  <1>1. pass = [pc |-> "idle", read |-> {}, records |-> {}, pairs |-> {}]
    BY DEF EnrichInit, AtRest
  <1>2. pass.pc = "idle" /\ pass.pairs = {}
    BY <1>1
  <1>3. PassTyped
    BY <1>1, <1>2 DEF PassTyped
  <1> QED BY <1>2, <1>3 DEF EnrichInit, EnrichInv, EnrichTypeOK, PassDates, RecsTyped, CalendarWhole

\* The place of the highest level in a cycle would lie in one that is higher.
LEMMA LevelsAcyclic ==
  ASSUME EnrichInv
  PROVE  ContainmentAcyclic
  <1> SUFFICES ASSUME NEW S \in SUBSET GeoPlace, S # {}, \A p \in S : \E q \in S : <<p, q>> \in located
               PROVE  FALSE
    BY DEF ContainmentAcyclic
  <1>1. GeoLevel \in [GeoPlace -> 0..5]
    BY EnrichmentAssumption
  <1>2. \A p \in S : GeoLevel[p] \in 0..5
    BY <1>1
  <1>3. \A p \in S : \E q \in S : Plausible(GeoLevel[p], GeoLevel[q])
    BY DEF EnrichInv, RecsTyped, Plausibles
  <1> DEFINE L == {GeoLevel[p] : p \in S}
  <1>4. PICK x \in L : \A y \in L : y <= x
    <2>1. L \in SUBSET Int /\ L # {} /\ 5 \in Int /\ \A y \in L : y <= 5
      BY <1>2
    <2> HIDE DEF L
    <2> QED BY <2>1, GreatestOf
  <1>5. PICK p \in S : GeoLevel[p] = x
    BY <1>4
  <1>6. PICK q \in S : Plausible(GeoLevel[p], GeoLevel[q])
    BY <1>3
  <1>7. GeoLevel[q] <= GeoLevel[p] /\ GeoLevel[p] \in 0..5 /\ GeoLevel[q] \in 0..5
    BY <1>2, <1>4, <1>5
  <1> QED BY <1>6, <1>7 DEF Plausible

\* A dated chunk is dated with all it names, in a whole calendar, and no place
\* lies in itself, for any dates, levels and interruptions.
THEOREM EnrichmentHolds == Spec => []EnrichmentInv
  <1>1. Init => EnrichInv
    BY InitEnrich DEF Init
  <1>2. [Next]_servicesVars => [EnrichNext]_enrichVars
    BY DEF Next, servicesVars
  <1>3. EnrichInv /\ [EnrichNext]_enrichVars => EnrichInv'
    BY NextEnrich
  <1>4. EnrichInv => EnrichmentInv
    BY LevelsAcyclic DEF EnrichInv, EnrichmentInv
  <1> QED BY <1>1, <1>2, <1>3, <1>4, PTL DEF Spec

-----------------------------------------------------------------------------
(***************************************************************************)
(* The reading of a chunk.  That the critique points at what the reviewer  *)
(* meant is a fact about ranks in a set from which some were taken.        *)
(***************************************************************************)
Rank(left, i) == Cardinality({k \in left : k <= i})

LEMMA RankType ==
  ASSUME NEW n \in Nat, NEW left \in SUBSET (1..n)
  PROVE  /\ IsFiniteSet(left) /\ Cardinality(left) \in Nat /\ (Cardinality(left) = 0 <=> left = {})
         /\ \A i \in left : i \in Nat /\ IsFiniteSet({k \in left : k <= i}) /\ Rank(left, i) \in 1..Cardinality(left)
  <1>1. IsFiniteSet(left)
    <2>1. IsFiniteSet(1..n)
      BY FS_Interval, 1 \in Int /\ n \in Int
    <2> QED BY <2>1, FS_Subset
  <1>2. Cardinality(left) \in Nat /\ (Cardinality(left) = 0 <=> left = {})
    BY <1>1, FS_CardinalityType, FS_EmptySet
  <1>3. ASSUME NEW i \in left
        PROVE  i \in Nat /\ IsFiniteSet({k \in left : k <= i}) /\ Rank(left, i) \in 1..Cardinality(left)
    <2> DEFINE L == {k \in left : k <= i}
    <2>1. L \subseteq left /\ i \in Nat /\ i \in L
      OBVIOUS
    <2> HIDE DEF L
    <2>2. IsFiniteSet(L) /\ Cardinality(L) <= Cardinality(left)
      BY <1>1, <2>1, FS_Subset
    <2>3. Cardinality(L) \in Nat /\ Cardinality(L) # 0
      BY <2>1, <2>2, FS_CardinalityType, FS_EmptySet
    <2>4. Cardinality(L) \in 1..Cardinality(left)
      BY <1>2, <2>2, <2>3
    <2> QED BY <2>1, <2>2, <2>4 DEF L, Rank
  <1> QED BY <1>1, <1>2, <1>3

LEMMA RankGrows ==
  ASSUME NEW n \in Nat, NEW left \in SUBSET (1..n), NEW i \in left, NEW j \in left, i < j
  PROVE  Rank(left, i) < Rank(left, j)
  <1> DEFINE I == {k \in left : k <= i}
             J == {k \in left : k <= j}
  <1>0. \A k \in left : k \in Nat
    OBVIOUS
  <1>1. I \subseteq J /\ j \in J /\ j \notin I
    <2>1. i \in Nat /\ j \in Nat
      BY <1>0
    <2>2. ASSUME NEW k \in left, k <= i PROVE k <= j
      BY <1>0, <2>1, <2>2
    <2>3. ~(j <= i) /\ j <= j
      BY <2>1
    <2> QED BY <2>1, <2>2, <2>3
  <1>2. IsFiniteSet(J) /\ Cardinality(I) = Rank(left, i) /\ Cardinality(J) = Rank(left, j)
    BY RankType DEF Rank
  <1>3. Rank(left, i) \in Nat /\ Rank(left, j) \in Nat
    BY RankType
  <1> HIDE DEF I, J
  <1>4. Cardinality(I) <= Cardinality(J) /\ (Cardinality(J) = Cardinality(I) => J = I)
    BY <1>1, <1>2, FS_Subset
  <1> QED BY <1>1, <1>2, <1>3, <1>4

\* Every place up to the number of those left is the rank of one of them.
LEMMA RankReaches ==
  ASSUME NEW n \in Nat, NEW left \in SUBSET (1..n)
  PROVE  /\ \A i, j \in left : Rank(left, i) = Rank(left, j) => i = j
         /\ \A m \in 1..Cardinality(left) : \E i \in left : Rank(left, i) = m
  <1>0. \A k \in left : k \in Nat /\ Rank(left, k) \in 1..Cardinality(left)
    BY RankType
  <1>1. \A i, j \in left : Rank(left, i) = Rank(left, j) => i = j
    <2> SUFFICES ASSUME NEW i \in left, NEW j \in left, Rank(left, i) = Rank(left, j), i # j
                 PROVE  FALSE
      OBVIOUS
    <2>1. i \in Nat /\ j \in Nat /\ Rank(left, i) \in Nat
      BY <1>0, RankType
    <2>2. CASE i < j
      <3>1. Rank(left, i) < Rank(left, j)
        BY <2>2, RankGrows
      <3> QED BY <2>1, <3>1
    <2>3. CASE j < i
      <3>1. Rank(left, j) < Rank(left, i)
        BY <2>3, RankGrows
      <3> QED BY <2>1, <3>1
    <2> QED BY <2>1, <2>2, <2>3
  <1> DEFINE f == [i \in left |-> Rank(left, i)]
             T == 1..Cardinality(left)
  <1>2. f \in Injection(left, T)
    BY <1>0, <1>1 DEF Injection, IsInjective
  <1>3. IsFiniteSet(T) /\ Cardinality(T) = Cardinality(left)
    <2>1. Cardinality(left) \in Nat
      BY RankType
    <2> QED BY <2>1, FS_Interval, 1 \in Int
  <1> HIDE DEF f, T
  <1>4. f \in Surjection(left, T)
    BY <1>2, <1>3, FS_Injection
  <1>5. \A m \in T : \E i \in left : f[i] = m
    BY <1>4 DEF Surjection
  <1> QED BY <1>1, <1>5 DEF f, T

\* The rank of what is left is its place less the drops before it.
LEMMA PlaceAfterIsRank ==
  ASSUME NEW n \in Nat, NEW drops \in SUBSET (1..n), NEW i \in (1..n) \ drops
  PROVE  PlaceAfter(i, drops) = Rank((1..n) \ drops, i)
  <1> DEFINE K == {k \in (1..n) \ drops : k <= i}
             D == {d \in drops : d < i}
  <1>1. K \cup D = 1..i /\ K \cap D = {}
    <2>1. i \in Nat /\ i >= 1 /\ i <= n /\ i \notin drops /\ \A d \in drops : d \in Nat /\ d >= 1 /\ d <= n
      OBVIOUS
    <2>2. ASSUME NEW k \in 1..i PROVE k \in K \cup D
      <3>1. k \in 1..n /\ (k # i => k < i) /\ k <= i
        BY <2>1
      <3> QED BY <2>1, <3>1
    <2>3. ASSUME NEW k \in K \cup D PROVE k \in 1..i
      BY <2>1, <2>3
    <2> QED BY <2>2, <2>3
  <1>2. i \in Nat /\ i >= 1
    OBVIOUS
  <1>3. IsFiniteSet(1..i) /\ Cardinality(1..i) = i
    BY <1>2, FS_Interval
  <1>4. K \subseteq 1..i /\ D \subseteq 1..i
    BY <1>1
  <1> HIDE DEF K, D
  <1>5. IsFiniteSet(K) /\ IsFiniteSet(D)
    BY <1>3, <1>4, FS_Subset
  <1>6. Cardinality(K) \in Nat /\ Cardinality(D) \in Nat
    BY <1>5, FS_CardinalityType
  <1>7. i = Cardinality(K) + Cardinality(D)
    <2>1. Cardinality(K \cup D) = Cardinality(K) + Cardinality(D) - Cardinality(K \cap D)
      BY <1>5, FS_Union
    <2>2. Cardinality(K \cap D) = 0
      BY <1>1, FS_EmptySet
    <2>3. Cardinality(K \cup D) = i
      BY <1>1, <1>3
    <2> QED BY <1>6, <2>1, <2>2, <2>3
  <1>8. Cardinality(K) = i - Cardinality(D)
    BY <1>2, <1>6, <1>7
  <1> QED BY <1>8 DEF K, D, PlaceAfter, Rank

\* What may be kept.
Fit == [name : ReadName, cls : Menu \cup Recoverable]

ReadTyped ==
  /\ within \in 0..Len(Ranked) /\ pinned \subseteq Universal /\ rounds \in 0..ReviewRounds
  /\ reading \in {"read", "review", "reread", "concepts", "ok", "failed"}
  /\ kept \in Seq(Fit)

\* Reviews are only of something, and empty it only themselves.
Reviewed ==
  /\ reading = "read" => rounds = 0
  /\ reading = "review" => kept # <<>> /\ rounds < ReviewRounds
  /\ reading \in {"reread", "concepts", "ok"} /\ rounds > 0 /\ kept = <<>> => emptied
  /\ reading = "reread" => rounds > 0

ReadHolds == ReadTyped /\ Reviewed /\ CritiqueOnTarget /\ NoEcho

LEMMA NearAndNotWithheld ==
  ASSUME within \in 0..Len(Ranked), NEW n
  PROVE  First(n) \subseteq MenuClass \ Withheld
  <1>1. Len(Ranked) \in Nat /\ DOMAIN Ranked = 1..Len(Ranked) /\ {MenuSize, RecoveryPool} \subseteq Nat
    BY ReadAssumption
  <1>2. OverFetch \in Nat
    BY <1>1 DEF OverFetch
  <1>3. \A i \in Pool : i \in DOMAIN Ranked /\ Ranked[i] \notin Withheld
    BY <1>1, <1>2 DEF Pool
  <1> QED BY <1>3 DEF First, MenuClass

LEMMA MenuFits ==
  ASSUME ReadTyped
  PROVE  /\ Menu \subseteq MenuClass /\ Recoverable \subseteq MenuClass
         /\ \A c \in Menu \cup Recoverable : c \in Withheld => c \in pinned
  <1>1. \A n : First(n) \subseteq MenuClass \ Withheld
    BY NearAndNotWithheld DEF ReadTyped
  <1>2. Menu \subseteq MenuClass /\ \A c \in Menu : c \in Withheld => c \in pinned
    <2> DEFINE above == {a[2] : a \in {b \in Above : b[1] \in First(MenuSize) /\ b[2] \notin Withheld}}
    <2>1. above \subseteq MenuClass \ Withheld
      BY DEF MenuClass
    <2>2. pinned \subseteq MenuClass
      BY DEF ReadTyped, MenuClass
    <2>3. Menu = First(MenuSize) \cup above \cup pinned
      BY DEF Menu
    <2> HIDE DEF above
    <2> QED BY <1>1, <2>1, <2>2, <2>3
  <1>3. \A c \in Recoverable : c \in First(RecoveryPool) \/ c \in Menu
    BY DEF Recoverable
  <1> QED BY <1>1, <1>2, <1>3

LEMMA RepliesFit ==
  ASSUME NEW menu, menu \subseteq Menu, NEW reply \in Replies(menu)
  PROVE  reply \in Seq(Fit) /\ Len(reply) \in 0..2 /\ \A i \in 1..Len(reply) : reply[i] \in Fit
  <1>1. \A said \in Said : ClassOf(menu, said) \subseteq Menu \cup Recoverable
    BY DEF ClassOf, Names
  <1>2. Filtered(menu) \subseteq Fit
    BY <1>1 DEF Filtered, Fit
  <1>3. PICK n \in 0..2 : reply \in [1..n -> Filtered(menu)]
    BY DEF Replies
  <1>4. n \in Nat /\ reply \in [1..n -> Fit]
    BY <1>2, <1>3
  <1> HIDE DEF Fit
  <1>5. reply \in Seq(Fit) /\ Len(reply) = n
    BY <1>4
  <1> QED BY <1>3, <1>4, <1>5

\* The menu of a chunk stays what it is.
LEMMA SameMenu ==
  ASSUME UNCHANGED <<within, pinned>>
  PROVE  Menu' = Menu /\ Recoverable' = Recoverable /\ Fit' = Fit
  <1>1. Pool' = Pool
    BY DEF Pool, OverFetch
  <1>2. Menu' = Menu
    BY <1>1 DEF Menu, First
  <1>3. Recoverable' = Recoverable
    BY <1>1, <1>2 DEF Recoverable, First
  <1> QED BY <1>2, <1>3 DEF Fit

LEMMA ReadStep ==
  ASSUME ReadHolds, Read
  PROVE  ReadHolds'
  <1>1. reading = "read" /\ UNCHANGED <<within, pinned, feedback, rounds, meant, emptied, named>> /\ rounds = 0
    BY DEF Read, ReadHolds, Reviewed
  <1>2. Fit' = Fit /\ <<>> \in Seq(Fit)
    BY <1>1, SameMenu
  <1>3. CASE Menu = {}
    <2>1. kept' = <<>> /\ reading' = "ok"
      BY <1>3 DEF Read
    <2>2. ReadTyped'
      BY <1>1, <1>2, <2>1 DEF ReadHolds, ReadTyped
    <2>3. Reviewed' /\ CritiqueOnTarget' /\ NoEcho'
      BY <1>1, <2>1 DEF Reviewed, CritiqueOnTarget, NoEcho
    <2> QED BY <2>2, <2>3 DEF ReadHolds
  <1>4. CASE Menu # {}
    <2>1. kept' \in Replies(Menu) /\ reading' = IF kept' # <<>> /\ ReviewRounds > 0 THEN "review" ELSE "concepts"
      BY <1>4 DEF Read
    <2>2. kept' \in Seq(Fit)
      BY <2>1, RepliesFit
    <2>3. ReadTyped'
      BY <1>1, <1>2, <2>1, <2>2 DEF ReadHolds, ReadTyped
    <2>4. Reviewed'
      BY <1>1, <2>1, ReadAssumption DEF Reviewed
    <2>5. CritiqueOnTarget' /\ NoEcho'
      BY <2>1 DEF CritiqueOnTarget, NoEcho
    <2> QED BY <2>3, <2>4, <2>5 DEF ReadHolds
  <1> QED BY <1>3, <1>4

\* The reviewer's drops go, and its critique is renumbered.
LEMMA ReviewStep ==
  ASSUME ReadHolds, Review
  PROVE  ReadHolds'
  <1>1. PICK verdicts \in [DOMAIN kept -> Verdict], missing \in BOOLEAN :
       LET v == [i \in DOMAIN kept |-> Sane(verdicts[i])]
           drops == {i \in DOMAIN kept : v[i][1] = "drop"}
           wrong == {i \in DOMAIN kept : v[i][1] = "wrong"}
           left == {i \in DOMAIN kept : i \notin drops}
       IN /\ kept' = [j \in 1..Cardinality(left) |->
                        kept[CHOOSE i \in left : Cardinality({k \in left : k <= i}) = j]]
          /\ feedback' = [wrong |-> {<<PlaceAfter(i, drops), v[i][2]>> : i \in wrong}, missing |-> missing]
          /\ meant' = {<<kept[i], v[i][2]>> : i \in wrong}
          /\ emptied' = (left = {})
          /\ reading' = IF wrong # {} \/ missing THEN "reread" ELSE "concepts"
    BY DEF Review
  <1> DEFINE n == Len(kept)
             v == [i \in DOMAIN kept |-> Sane(verdicts[i])]
             drops == {i \in DOMAIN kept : v[i][1] = "drop"}
             wrong == {i \in DOMAIN kept : v[i][1] = "wrong"}
             left == {i \in DOMAIN kept : i \notin drops}
  <1>2. n \in Nat /\ DOMAIN kept = 1..n /\ \A i \in 1..n : kept[i] \in Fit
    <2>1. kept \in Seq(Fit)
      BY DEF ReadHolds, ReadTyped
    <2> HIDE DEF Fit
    <2> QED BY <2>1
  <1>3. drops \in SUBSET (1..n) /\ wrong \subseteq left
    BY <1>2
  <1>4. left = (1..n) \ drops
    BY <1>2
  <1>5. /\ kept' = [j \in 1..Cardinality(left) |-> kept[CHOOSE i \in left : Rank(left, i) = j]]
        /\ feedback'.wrong = {<<PlaceAfter(i, drops), v[i][2]>> : i \in wrong}
        /\ meant' = {<<kept[i], v[i][2]>> : i \in wrong}
        /\ emptied' = (left = {})
        /\ reading' \in {"reread", "concepts"}
    <2>1. /\ kept' = [j \in 1..Cardinality(left) |->
                        kept[CHOOSE i \in left : Cardinality({k \in left : k <= i}) = j]]
          /\ feedback' = [wrong |-> {<<PlaceAfter(i, drops), v[i][2]>> : i \in wrong}, missing |-> missing]
          /\ meant' = {<<kept[i], v[i][2]>> : i \in wrong}
          /\ emptied' = (left = {})
          /\ reading' = IF wrong # {} \/ missing THEN "reread" ELSE "concepts"
      BY <1>1
    <2> HIDE DEF left, drops, wrong, v
    <2> QED BY <2>1 DEF Rank
  <1>6. /\ UNCHANGED <<within, pinned, named>> /\ rounds' = rounds + 1 /\ reading = "review"
    BY DEF Review
  <1> HIDE DEF v, drops, wrong, left, n
  <1>7. left \in SUBSET (1..n)
    BY <1>4
  <1>8. Cardinality(left) \in Nat /\ (Cardinality(left) = 0 <=> left = {})
    BY <1>2, <1>7, RankType
  <1>9. \A m \in 1..Cardinality(left) : kept'[m] \in Fit
    <2> SUFFICES ASSUME NEW m \in 1..Cardinality(left) PROVE kept'[m] \in Fit
      OBVIOUS
    <2>0. \A k \in 1..Cardinality(left) : \E i \in left : Rank(left, i) = k
      BY <1>2, <1>7, RankReaches
    <2>1. \E i \in left : Rank(left, i) = m
      BY <2>0
    <2>2. (CHOOSE i \in left : Rank(left, i) = m) \in left
      BY <2>1
    <2> QED BY <1>2, <1>5, <1>7, <2>2
  <1>10. \A i \in wrong : PlaceAfter(i, drops) \in DOMAIN kept' /\ kept'[PlaceAfter(i, drops)] = kept[i]
    <2> SUFFICES ASSUME NEW i \in wrong
                 PROVE  PlaceAfter(i, drops) \in DOMAIN kept' /\ kept'[PlaceAfter(i, drops)] = kept[i]
      OBVIOUS
    <2>1. i \in left /\ left = (1..n) \ drops
      BY <1>3, <1>4
    <2>2. PlaceAfter(i, drops) = Rank(left, i)
      BY <1>2, <1>3, <2>1, PlaceAfterIsRank
    <2>3. Rank(left, i) \in 1..Cardinality(left)
      BY <1>2, <1>7, <2>1, RankType
    <2>4. (CHOOSE k \in left : Rank(left, k) = Rank(left, i)) = i
      BY <1>2, <1>7, <2>1, RankReaches
    <2> QED BY <1>5, <2>2, <2>3, <2>4
  <1>11. kept' \in Seq(Fit) /\ (kept' = <<>> => left = {})
    <2>1. kept' \in [1..Cardinality(left) -> Fit]
      BY <1>5, <1>9
    <2> HIDE DEF Fit
    <2>2. kept' \in Seq(Fit) /\ Len(kept') = Cardinality(left)
      BY <1>8, <2>1
    <2> QED BY <1>8, <2>2
  <1>12. ReadTyped'
    <2>1. rounds + 1 \in 0..ReviewRounds
      BY <1>6, ReadAssumption DEF ReadHolds, ReadTyped, Reviewed
    <2>2. Fit' = Fit
      BY <1>6, SameMenu
    <2> QED BY <1>5, <1>6, <1>11, <2>1, <2>2 DEF ReadHolds, ReadTyped
  <1>13. Reviewed'
    <2>1. rounds \in Nat /\ rounds + 1 > 0
      BY ReadAssumption DEF ReadHolds, ReadTyped
    <2>2. kept' = <<>> => emptied'
      BY <1>5, <1>11
    <2> QED BY <1>5, <1>6, <2>1, <2>2 DEF Reviewed
  <1>14. CritiqueOnTarget'
    <2>0. \A w : w \in feedback'.wrong <=> \E i \in wrong : w = <<PlaceAfter(i, drops), v[i][2]>>
      BY <1>5
    <2>1. {<<kept'[w[1]], w[2]>> : w \in {x \in feedback'.wrong : x[1] \in DOMAIN kept'}}
             \subseteq meant'
      <3> SUFFICES ASSUME NEW w \in feedback'.wrong, w[1] \in DOMAIN kept'
                   PROVE  <<kept'[w[1]], w[2]>> \in meant'
        OBVIOUS
      <3>1. PICK i \in wrong : w = <<PlaceAfter(i, drops), v[i][2]>>
        BY <2>0
      <3>2. w[1] = PlaceAfter(i, drops) /\ w[2] = v[i][2]
        BY <3>1
      <3>3. kept'[w[1]] = kept[i]
        BY <1>10, <3>2
      <3>4. <<kept[i], v[i][2]>> \in meant'
        BY <1>5
      <3>5. <<kept'[w[1]], w[2]>> = <<kept[i], v[i][2]>>
        BY <3>2, <3>3
      <3> QED BY <3>4, <3>5
    <2>2. ASSUME NEW i \in wrong
          PROVE  \E w \in feedback'.wrong : /\ w[1] \in DOMAIN kept'
                                            /\ <<kept'[w[1]], w[2]>> = <<kept[i], v[i][2]>>
      <3> DEFINE w == <<PlaceAfter(i, drops), v[i][2]>>
      <3>1. w \in feedback'.wrong /\ w[1] = PlaceAfter(i, drops) /\ w[2] = v[i][2]
        BY <2>0
      <3> HIDE DEF w
      <3>2. w[1] \in DOMAIN kept' /\ kept'[w[1]] = kept[i]
        BY <1>10, <3>1
      <3> QED BY <3>1, <3>2
    <2>3. meant' \subseteq {<<kept'[w[1]], w[2]>> : w \in {x \in feedback'.wrong : x[1] \in DOMAIN kept'}}
      <3> SUFFICES ASSUME NEW m \in meant'
                   PROVE  \E w \in feedback'.wrong : w[1] \in DOMAIN kept' /\ <<kept'[w[1]], w[2]>> = m
        OBVIOUS
      <3>1. PICK i \in wrong : m = <<kept[i], v[i][2]>>
        BY <1>5
      <3> QED BY <2>2, <3>1
    <2> QED BY <2>1, <2>3 DEF CritiqueOnTarget
  <1>15. NoEcho'
    BY <1>5 DEF NoEcho
  <1> QED BY <1>12, <1>13, <1>14, <1>15 DEF ReadHolds

LEMMA FailStep ==
  ASSUME ReadHolds, ReadFails \/ ReviewFails
  PROVE  ReadHolds'
  <1>1. /\ UNCHANGED <<within, pinned, kept, feedback, rounds, meant, emptied, named>>
        /\ \/ reading = "read" /\ reading' = "failed"
           \/ reading = "review" /\ reading' = "concepts"
    BY DEF ReadFails, ReviewFails
  <1>2. Fit' = Fit
    BY <1>1, SameMenu
  <1>3. ReadTyped'
    BY <1>1, <1>2 DEF ReadHolds, ReadTyped
  <1>4. Reviewed' /\ CritiqueOnTarget' /\ NoEcho'
    BY <1>1 DEF ReadHolds, Reviewed, CritiqueOnTarget, NoEcho
  <1> QED BY <1>3, <1>4 DEF ReadHolds

LEMMA RereadStep ==
  ASSUME ReadHolds, NEW revised \in Replies(Menu), Reread(revised)
  PROVE  ReadHolds'
  <1>1. /\ reading = "reread" /\ UNCHANGED <<within, pinned, rounds, named>>
        /\ \/ revised = <<>> /\ reading' = "concepts" /\ UNCHANGED <<kept, emptied>>
           \/ /\ revised # <<>> /\ kept' = revised
              /\ reading' = IF rounds < ReviewRounds THEN "review" ELSE "concepts"
    BY DEF Reread
  <1>2. Fit' = Fit /\ revised \in Seq(Fit)
    BY <1>1, SameMenu, RepliesFit
  <1>3. ReadTyped'
    BY <1>1, <1>2 DEF ReadHolds, ReadTyped
  <1>4. Reviewed'
    BY <1>1 DEF ReadHolds, Reviewed
  <1>5. CritiqueOnTarget' /\ NoEcho'
    BY <1>1 DEF CritiqueOnTarget, NoEcho
  <1> QED BY <1>3, <1>4, <1>5 DEF ReadHolds

\* No name after place n is one of an earlier place.
NewAfter(list, n) ==
  \A i, j \in DOMAIN list : i < j /\ j > n => NameKey[list[i].name] # NameKey[list[j].name]

LEMMA AppendedFits ==
  ASSUME NEW S, NEW list \in Seq(S), NEW item \in S, NEW n, NewAfter(list, n)
  PROVE  /\ Appended(list, item) \in Seq(S) /\ NewAfter(Appended(list, item), n)
         /\ Appended(list, item) = <<>> => list = <<>>
  <1>1. CASE \E i \in DOMAIN list : NameKey[list[i].name] = NameKey[item.name]
    BY <1>1 DEF Appended
  <1>2. CASE ~ \E i \in DOMAIN list : NameKey[list[i].name] = NameKey[item.name]
    <2> DEFINE longer == Append(list, item)
    <2>1. Appended(list, item) = longer
      BY <1>2 DEF Appended
    <2>2. /\ longer \in Seq(S) /\ Len(longer) = Len(list) + 1 /\ Len(list) \in Nat
          /\ DOMAIN list = 1..Len(list) /\ DOMAIN longer = 1..(Len(list) + 1)
          /\ \A i \in 1..Len(list) : longer[i] = list[i]
          /\ longer[Len(list) + 1] = item
      OBVIOUS
    <2> HIDE DEF longer
    <2>3. NewAfter(longer, n)
      <3> SUFFICES ASSUME NEW i \in DOMAIN longer, NEW j \in DOMAIN longer, i < j, j > n
                   PROVE  NameKey[longer[i].name] # NameKey[longer[j].name]
        BY DEF NewAfter
      <3>1. i \in DOMAIN list /\ longer[i] = list[i] /\ (j \in DOMAIN list \/ j = Len(list) + 1)
        BY <2>2
      <3>2. CASE j \in DOMAIN list
        BY <2>2, <3>1, <3>2 DEF NewAfter
      <3>3. CASE j = Len(list) + 1
        BY <1>2, <2>2, <3>1, <3>3
      <3> QED BY <3>1, <3>2, <3>3
    <2>4. longer # <<>>
      BY <2>2
    <2> QED BY <2>1, <2>2, <2>3, <2>4
  <1> QED BY <1>1, <1>2

LEMMA ConceptsStep ==
  ASSUME ReadHolds, NEW found, Concepts(found), found = <<>> \/ found \in Replies(ConceptMenu)
  PROVE  ReadHolds'
  <1>1. /\ reading = "concepts" /\ reading' = "ok" /\ named' = Len(kept)
        /\ UNCHANGED <<within, pinned, feedback, rounds, meant, emptied>>
        /\ kept' = CASE found = <<>> -> kept
               [] Len(found) = 1 -> Appended(kept, found[1])
               [] OTHER -> Appended(Appended(kept, found[1]), found[2])
    BY DEF Concepts
  <1>2. kept \in Seq(Fit)
    BY DEF ReadHolds, ReadTyped
  <1>3. NewAfter(kept, Len(kept))
    <2> HIDE DEF Fit
    <2> QED BY <1>2 DEF NewAfter
  <1>4. kept' \in Seq(Fit) /\ NewAfter(kept', Len(kept)) /\ (kept' = <<>> => kept = <<>>)
    <2>1. CASE found = <<>>
      BY <1>1, <1>2, <1>3, <2>1
    <2>2. CASE found # <<>>
      <3>1. /\ found \in Seq(Fit) /\ Len(found) \in 0..2 /\ \A i \in 1..Len(found) : found[i] \in Fit
        BY <2>2, RepliesFit DEF ConceptMenu
      <3> HIDE DEF Fit
      <3>2. Len(found) # 0
        BY <2>2, <3>1
      <3>3. found[1] \in Fit
        BY <3>1, <3>2
      <3>4. CASE Len(found) = 1
        <4>1. kept' = Appended(kept, found[1])
          BY <1>1, <2>2, <3>4
        <4> QED BY <1>2, <1>3, <3>3, <4>1, AppendedFits
      <3>5. CASE Len(found) = 2
        <4>1. kept' = Appended(Appended(kept, found[1]), found[2])
          BY <1>1, <2>2, <3>5
        <4>2. found[2] \in Fit
          BY <3>1, <3>5
        <4> DEFINE once == Appended(kept, found[1])
        <4>3. once \in Seq(Fit) /\ NewAfter(once, Len(kept)) /\ (once = <<>> => kept = <<>>)
          BY <1>2, <1>3, <3>3, AppendedFits
        <4> HIDE DEF once
        <4>4. kept' = Appended(once, found[2])
          BY <4>1 DEF once
        <4> QED BY <4>2, <4>3, <4>4, AppendedFits
      <3> QED BY <3>1, <3>2, <3>4, <3>5
    <2> QED BY <2>1, <2>2
  <1>5. Fit' = Fit
    BY <1>1, SameMenu
  <1>6. ReadTyped'
    BY <1>1, <1>4, <1>5 DEF ReadHolds, ReadTyped
  <1>7. Reviewed'
    BY <1>1, <1>4 DEF ReadHolds, Reviewed
  <1>8. CritiqueOnTarget'
    BY <1>1 DEF CritiqueOnTarget
  <1>9. NoEcho'
    BY <1>1, <1>4 DEF NoEcho, NewAfter
  <1> QED BY <1>6, <1>7, <1>8, <1>9 DEF ReadHolds

LEMMA NextReading ==
  ASSUME ReadHolds, [ReadNext]_readVars
  PROVE  ReadHolds'
  <1>1. CASE UNCHANGED readVars
    <2>1. UNCHANGED <<within, pinned, reading, kept, feedback, rounds, meant, emptied, named>> /\ Fit' = Fit
      BY <1>1, SameMenu DEF readVars
    <2>2. ReadTyped'
      BY <2>1 DEF ReadHolds, ReadTyped
    <2> QED BY <2>1, <2>2 DEF ReadHolds, Reviewed, CritiqueOnTarget, NoEcho
  <1>2. CASE ReadNext
    <2>1. ASSUME NEW revised \in Replies(Menu), Reread(revised) PROVE ReadHolds'
      BY <2>1, RereadStep
    <2>2. ASSUME NEW found \in IF ConceptMenu = {} THEN {<<>>} ELSE Replies(ConceptMenu), Concepts(found)
          PROVE  ReadHolds'
      <3>1. found = <<>> \/ found \in Replies(ConceptMenu)
        BY <2>2
      <3> QED BY <2>2, <3>1, ConceptsStep
    <2> QED BY <1>2, <2>1, <2>2, FailStep, ReadStep, ReviewStep DEF ReadNext
  <1> QED BY <1>1, <1>2

LEMMA InitReading == ReadInit => ReadHolds
  <1> SUFFICES ASSUME ReadInit PROVE ReadHolds
    OBVIOUS
  <1>1. /\ within \in 0..Len(Ranked) /\ pinned \subseteq Universal /\ reading = "read" /\ kept = <<>>
        /\ rounds = 0
    BY DEF ReadInit
  <1>2. <<>> \in Seq(Fit)
    OBVIOUS
  <1>3. 0 \in 0..ReviewRounds
    BY ReadAssumption
  <1>4. ReadTyped
    BY <1>1, <1>2, <1>3 DEF ReadTyped
  <1> QED BY <1>1, <1>4 DEF ReadHolds, Reviewed, CritiqueOnTarget, NoEcho

LEMMA ReadingShows ==
  ASSUME ReadHolds
  PROVE  ReadingInv /\ ReadTypeOK
  <1>1. kept \in Seq(Fit)
    BY DEF ReadHolds, ReadTyped
  <1>2. \A i \in DOMAIN kept : kept[i] \in Fit
    <2> HIDE DEF Fit
    <2> QED BY <1>1
  <1>3. \A c \in Menu \cup Recoverable : c \in MenuClass /\ (c \in Withheld => c \in pinned)
    BY MenuFits DEF ReadHolds
  <1>4. NeverWithheld
    BY <1>2, <1>3 DEF NeverWithheld, Fit
  <1>5. \A i \in DOMAIN kept : kept[i] \in Kept
    BY <1>2, <1>3 DEF Fit, Kept
  <1>6. FailsOpen
    BY DEF ReadHolds, Reviewed, FailsOpen
  <1> QED BY <1>4, <1>5, <1>6 DEF ReadHolds, ReadTyped, ReadingInv, ReadTypeOK

\* Whatever the models reply: no withheld class is kept, the critique points at
\* what the reviewer meant, a chunk is emptied only by drops, and concepts repeat
\* no name, for any classes, names, menu and number of reviews.
THEOREM ReadingHolds == Spec => []ReadingInv
  <1>1. Init => ReadHolds
    BY InitReading DEF Init
  <1>2. [Next]_servicesVars => [ReadNext]_readVars
    BY DEF Next, servicesVars
  <1>3. ReadHolds /\ [ReadNext]_readVars => ReadHolds'
    BY NextReading
  <1>4. ReadHolds => ReadingInv
    BY ReadingShows
  <1> QED BY <1>1, <1>2, <1>3, <1>4, PTL DEF Spec

-----------------------------------------------------------------------------
(***************************************************************************)
(* The links of tables to entities.  What a name leads to is the same      *)
(* whatever order the rows come in: an invariant of the two passes over    *)
(* the rows, with the rows seen so far.                                    *)
(***************************************************************************)
NameForm == {FullName[e] : e \in LEntity} \cup UNION {Variants[FullName[e]] : e \in LEntity}
LinkName == NameForm \X LEntity
LinkAcc  == [map : SUBSET LinkName, full : SUBSET NameForm, ambiguous : SUBSET NameForm]

OnePerName(map) == \A p, q \in map : p[1] = q[1] => p = q

\* The full names of the rows seen, one row to each.
FullsOf(map, seen) ==
  /\ map \subseteq LinkName /\ OnePerName(map)
  /\ \A p \in map : p[2] \in seen /\ p[1] = FullName[p[2]]
  /\ \A e \in seen : \E p \in map : p[1] = FullName[e]

\* The shorter forms of the rows seen; a full name is left as it was.
ShortsOf(acc, fulls, names, seen) ==
  /\ acc \in LinkAcc /\ acc.full = names /\ OnePerName(acc.map)
  /\ \A p : p[1] \in names => (p \in acc.map <=> p \in fulls)
  /\ \A p \in acc.map : p[1] \notin names => p[2] \in seen /\ p[1] \in Variants[FullName[p[2]]]
  /\ \A n \in acc.ambiguous : n \notin names =>
        /\ \A p \in acc.map : p[1] # n
        /\ \E d, e \in seen : d # e /\ n \in Variants[FullName[d]] /\ n \in Variants[FullName[e]]
  /\ \A e \in seen : \A n \in Variants[FullName[e]] :
        n \notin names /\ n \notin acc.ambiguous => <<n, e>> \in acc.map

LEMMA NameForms ==
  ASSUME NEW e \in LEntity
  PROVE  FullName[e] \in NameForm /\ Variants[FullName[e]] \subseteq NameForm
  BY DEF NameForm

LEMMA PairsAre ==
  ASSUME NEW p \in LinkName
  PROVE  p = <<p[1], p[2]>> /\ p[1] \in NameForm /\ p[2] \in LEntity
  BY DEF LinkName

LEMMA AddFullKeeps ==
  ASSUME NEW map, NEW seen \in SUBSET LEntity, NEW e \in LEntity, FullsOf(map, seen)
  PROVE  FullsOf(AddFull(map, e), seen \cup {e})
  <1>1. CASE \E p \in map : p[1] = FullName[e]
    BY <1>1 DEF AddFull, FullsOf
  <1>2. CASE \A p \in map : p[1] # FullName[e]
    <2> DEFINE new == <<FullName[e], e>>
    <2>1. AddFull(map, e) = map \cup {new}
      BY <1>2 DEF AddFull
    <2>2. new \in LinkName /\ new[1] = FullName[e] /\ new[2] = e
      BY NameForms DEF LinkName
    <2> HIDE DEF new
    <2> QED BY <1>2, <2>1, <2>2 DEF FullsOf, OnePerName
  <1> QED BY <1>1, <1>2

LEMMA AddVariantsTyped ==
  ASSUME NEW acc \in LinkAcc, NEW e \in LEntity
  PROVE  AddVariants(acc, e) \in LinkAcc
  <1> DEFINE free  == (Variants[FullName[e]] \ acc.full) \ acc.ambiguous
             clash == {n \in free : \E p \in acc.map : p[1] = n /\ p[2] # e}
             new   == {n \in free : \A p \in acc.map : p[1] # n}
             map   == {p \in acc.map : p[1] \notin clash} \cup {<<n, e>> : n \in new}
  <1>1. AddVariants(acc, e) = [acc EXCEPT !.map = map, !.ambiguous = @ \cup clash]
    BY DEF AddVariants
  <1>2. free \subseteq NameForm
    BY NameForms
  <1>3. \A n \in new : <<n, e>> \in LinkName
    BY <1>2 DEF LinkName
  <1>4. map \subseteq LinkName /\ acc.ambiguous \cup clash \subseteq NameForm
    BY <1>2, <1>3 DEF LinkAcc
  <1> HIDE DEF map, clash
  <1> QED BY <1>1, <1>4 DEF LinkAcc

LEMMA AddVariantsKeeps ==
  ASSUME NEW acc, NEW fulls, NEW names, NEW seen \in SUBSET LEntity, NEW e \in LEntity,
         ShortsOf(acc, fulls, names, seen)
  PROVE  ShortsOf(AddVariants(acc, e), fulls, names, seen \cup {e})
  <1> DEFINE free  == (Variants[FullName[e]] \ acc.full) \ acc.ambiguous
             clash == {n \in free : \E p \in acc.map : p[1] = n /\ p[2] # e}
             new   == {n \in free : \A p \in acc.map : p[1] # n}
             map   == {p \in acc.map : p[1] \notin clash} \cup {<<n, e>> : n \in new}
             next  == AddVariants(acc, e)
  <1>1. next = [acc EXCEPT !.map = map, !.ambiguous = @ \cup clash]
    BY DEF AddVariants
  <1>2. acc \in LinkAcc /\ acc.full = names /\ \A p \in acc.map : p \in LinkName
    BY DEF ShortsOf, LinkAcc
  <1>3. next \in LinkAcc
    BY <1>2, AddVariantsTyped
  <1>4. /\ \A n : n \in free <=> n \in Variants[FullName[e]] /\ n \notin names /\ n \notin acc.ambiguous
        /\ \A n : n \in clash <=> n \in free /\ \E p \in acc.map : p[1] = n /\ p[2] # e
        /\ \A n : n \in new <=> n \in free /\ \A p \in acc.map : p[1] # n
        /\ \A p : p \in map <=> (p \in acc.map /\ p[1] \notin clash) \/ \E n \in new : p = <<n, e>>
    BY <1>2
  <1> HIDE DEF free, clash, new, map, next
  <1>5. next.map = map /\ next.full = names /\ next.ambiguous = acc.ambiguous \cup clash
    BY <1>1, <1>2 DEF LinkAcc
  <1>6. \A p \in map : \/ p \in acc.map /\ p[1] \notin clash
                       \/ p[1] \in new /\ p[2] = e /\ p = <<p[1], e>>
    BY <1>4
  <1>7. OnePerName(map)
    BY <1>4, <1>6 DEF ShortsOf, OnePerName
  <1>8. \A p : p[1] \in names => (p \in map <=> p \in fulls)
    <2> SUFFICES ASSUME NEW p, p[1] \in names PROVE p \in map <=> p \in acc.map
      BY DEF ShortsOf
    <2>1. p[1] \notin free /\ p[1] \notin clash /\ p[1] \notin new
      BY <1>4
    <2> QED BY <1>4, <1>6, <2>1
  <1>9. \A p \in map : p[1] \notin names => p[2] \in seen \cup {e} /\ p[1] \in Variants[FullName[p[2]]]
    BY <1>4, <1>6 DEF ShortsOf
  <1>10. ASSUME NEW n \in acc.ambiguous \cup clash, n \notin names
         PROVE  /\ \A p \in map : p[1] # n
                /\ \E c, d \in seen \cup {e} : c # d /\ n \in Variants[FullName[c]] /\ n \in Variants[FullName[d]]
    <2>1. CASE n \in acc.ambiguous
      <3>1. n \notin new
        BY <1>4, <2>1
      <3> QED BY <1>6, <1>10, <2>1, <3>1 DEF ShortsOf
    <2>2. CASE n \in clash
      <3>1. PICK p \in acc.map : p[1] = n /\ p[2] # e
        BY <1>4, <2>2
      <3>2. p[2] \in seen /\ n \in Variants[FullName[p[2]]]
        BY <1>10, <3>1 DEF ShortsOf
      <3>3. n \in Variants[FullName[e]]
        BY <1>4, <2>2
      <3>4. \A q \in map : q[1] # n
        <4>1. n \notin new
          BY <1>4, <3>1
        <4> QED BY <1>6, <2>2, <4>1
      <3> QED BY <3>1, <3>2, <3>3, <3>4
    <2> QED BY <2>1, <2>2
  <1>11. ASSUME NEW d \in seen \cup {e}, NEW n \in Variants[FullName[d]], n \notin names,
                n \notin acc.ambiguous \cup clash
         PROVE  <<n, d>> \in map
    <2> DEFINE pair == <<n, d>>
    <2>0. pair[1] = n /\ pair[2] = d
      OBVIOUS
    <2>1. CASE d \in seen
      <3>1. pair \in acc.map
        BY <1>11, <2>1 DEF ShortsOf
      <3> HIDE DEF pair
      <3> QED BY <1>4, <1>11, <2>0, <3>1 DEF pair
    <2>2. CASE d = e
      <3>1. n \in free
        BY <1>4, <1>11, <2>2
      <3>2. CASE n \in new
        BY <1>4, <2>2, <3>2
      <3>3. CASE n \notin new
        <4>1. PICK p \in acc.map : p[1] = n
          BY <1>4, <3>1, <3>3
        <4>2. p[2] = e
          BY <1>4, <1>11, <3>1, <4>1
        <4>3. p = <<n, d>>
          BY <1>2, <2>2, <4>1, <4>2, PairsAre
        <4> QED BY <1>4, <1>11, <4>1, <4>3
      <3> QED BY <3>2, <3>3
    <2> QED BY <2>1, <2>2
  <1>12. ShortsOf(next, fulls, names, seen \cup {e})
    BY <1>3, <1>5, <1>7, <1>8, <1>9, <1>10, <1>11 DEF ShortsOf
  <1> QED BY <1>12 DEF next

\* The rows, in some order: each entity of the database is one of them.
Ordered(rs, es) == rs \in [1..Len(rs) -> es] /\ Len(rs) \in Nat /\ \A e \in es : \E i \in 1..Len(rs) : rs[i] = e

LEMMA OrdersHaveAll ==
  ASSUME NEW es, IsFiniteSet(es), NEW rs \in SetToAllKPermutations(es), Len(rs) = Cardinality(es)
  PROVE  Ordered(rs, es) /\ ToSet(rs) = es
  <1>1. PICK s \in SUBSET es : rs \in SetToSeqs(s)
    BY DEF SetToAllKPermutations
  <1> DEFINE D == 1..Cardinality(s)
  <1>2. rs \in [D -> s] /\ \A i, j \in D : i # j => rs[i] # rs[j]
    BY <1>1 DEF SetToSeqs
  <1>3. IsFiniteSet(s) /\ Cardinality(s) \in Nat /\ (Cardinality(es) = Cardinality(s) => es = s)
    BY FS_Subset, FS_CardinalityType
  <1>4. Len(rs) = Cardinality(s)
    <2>1. rs \in Seq(s)
      BY <1>2, <1>3
    <2> QED BY <1>2, <1>3, <2>1
  <1>5. es = s
    BY <1>3, <1>4
  <1>6. rs \in Injection(D, s)
    BY <1>2 DEF Injection, IsInjective
  <1>7. IsFiniteSet(D) /\ Cardinality(D) = Cardinality(s)
    BY <1>3, FS_Interval, 1 \in Int
  <1>8. rs \in Surjection(D, s)
    <2> HIDE DEF D
    <2> QED BY <1>3, <1>6, <1>7, FS_Injection
  <1>9. \A e \in es : \E i \in D : rs[i] = e
    BY <1>5, <1>8 DEF Surjection
  <1>10. Ordered(rs, es)
    BY <1>2, <1>3, <1>4, <1>5, <1>9 DEF Ordered
  <1>11. ToSet(rs) = {rs[i] : i \in DOMAIN rs} /\ DOMAIN rs = D
    BY <1>2 DEF ToSet
  <1> QED BY <1>2, <1>5, <1>9, <1>10, <1>11

\* The rows up to the i-th.
Seen(rs, i) == {rs[j] : j \in 1..i}

LEMMA SeenGrows ==
  ASSUME NEW rs, NEW i \in Nat
  PROVE  Seen(rs, i + 1) = Seen(rs, i) \cup {rs[i + 1]} /\ Seen(rs, 0) = {}
  <1>1. Seen(rs, 0) = {}
    BY DEF Seen
  <1>2. \A j \in 1..(i + 1) : j \in 1..i \/ j = i + 1
    OBVIOUS
  <1>3. \A j \in 1..i : j \in 1..(i + 1)
    OBVIOUS
  <1>4. i + 1 \in 1..(i + 1)
    OBVIOUS
  <1> QED BY <1>1, <1>2, <1>3, <1>4 DEF Seen

\* The two passes, as the functions that give their states row after row.
Named(rs, g) == g[0] = {} /\ \A i \in 1..Len(rs) : g[i] = AddFull(g[i-1], rs[i])
Begun(rs, m) == [map |-> m, full |-> {FullName[e] : e \in ToSet(rs)}, ambiguous |-> {}]
Shortened(rs, m, g) == g[0] = Begun(rs, m) /\ \A i \in 1..Len(rs) : g[i] = AddVariants(g[i-1], rs[i])

LEMMA NamedGoes ==
  ASSUME NEW es \in SUBSET LEntity, NEW rs, Ordered(rs, es)
  PROVE  \E g : Named(rs, g) /\ g = [i \in 0..Len(rs) |-> g[i]]
  <1> DEFINE N == Len(rs)
             X == SUBSET LinkName
             F == [i \in 1..N |-> [m \in X |-> AddFull(m, rs[i])]]
  <1>1. N \in Nat /\ \A i \in 1..N : rs[i] \in LEntity
    BY DEF Ordered
  <1>2. ASSUME NEW i \in 1..N, NEW m \in X PROVE AddFull(m, rs[i]) \in X
    <2>1. <<FullName[rs[i]], rs[i]>> \in LinkName
      BY <1>1, NameForms DEF LinkName
    <2> QED BY <2>1 DEF AddFull
  <1> HIDE DEF X, N
  <1>3. F \in [1..N -> [X -> X]]
    BY <1>2
  <1>4. {} \in X
    BY DEF X
  <1>5. \A i \in 1..N : \A m \in X : F[i][m] = AddFull(m, rs[i])
    OBVIOUS
  <1> HIDE DEF F
  <1>6. PICK g \in [0..N -> X] : Iterated(F, {}, N, g)
    BY <1>1, <1>3, <1>4, Iterates
  <1>7. \A i \in 1..N : i - 1 \in 0..N
    BY <1>1
  <1>8. g[0] = {} /\ \A i \in 1..N : g[i] = AddFull(g[i-1], rs[i])
    BY <1>5, <1>6, <1>7 DEF Iterated
  <1> QED BY <1>8 DEF Named, N

LEMMA ShortenedGoes ==
  ASSUME NEW es \in SUBSET LEntity, NEW rs, Ordered(rs, es), ToSet(rs) = es, NEW m0 \in SUBSET LinkName
  PROVE  \E g : Shortened(rs, m0, g) /\ g = [i \in 0..Len(rs) |-> g[i]]
  <1> DEFINE N == Len(rs)
             X == LinkAcc
             F == [i \in 1..N |-> [m \in X |-> AddVariants(m, rs[i])]]
  <1>1. N \in Nat /\ \A i \in 1..N : rs[i] \in LEntity
    BY DEF Ordered
  <1> HIDE DEF N
  <1>2. F \in [1..N -> [X -> X]]
    BY <1>1, AddVariantsTyped
  <1>3. Begun(rs, m0) \in X
    <2>1. {FullName[e] : e \in ToSet(rs)} \subseteq NameForm
      BY NameForms
    <2> QED BY <2>1 DEF Begun, LinkAcc
  <1>4. \A i \in 1..N : \A m \in X : F[i][m] = AddVariants(m, rs[i])
    OBVIOUS
  <1> HIDE DEF F, X
  <1>5. PICK g \in [0..N -> X] : Iterated(F, Begun(rs, m0), N, g)
    BY <1>1, <1>2, <1>3, Iterates
  <1>6. \A i \in 1..N : i - 1 \in 0..N
    BY <1>1
  <1>7. g[0] = Begun(rs, m0) /\ \A i \in 1..N : g[i] = AddVariants(g[i-1], rs[i])
    BY <1>4, <1>5, <1>6 DEF Iterated
  <1> QED BY <1>7 DEF Shortened, N

\* The recursive functions of Lookup are those of the two passes.
LEMMA LookupIsPasses ==
  ASSUME NEW es \in SUBSET LEntity, NEW rs, Ordered(rs, es), ToSet(rs) = es,
         \A g : Named(rs, g) => g[Len(rs)] \in SUBSET LinkName
  PROVE  \E g, h : Named(rs, g) /\ Shortened(rs, g[Len(rs)], h) /\ Lookup(rs) = h[Len(rs)].map
  <1> DEFINE RecN(f) == f = [i \in 0..Len(rs) |-> IF i = 0 THEN {} ELSE AddFull(f[i - 1], rs[i])]
             filed == CHOOSE f : RecN(f)
             begun == [map |-> filed[Len(rs)], full |-> {FullName[e] : e \in ToSet(rs)}, ambiguous |-> {}]
             RecD(f) == f = [i \in 0..Len(rs) |-> IF i = 0 THEN begun ELSE AddVariants(f[i - 1], rs[i])]
             done == CHOOSE f : RecD(f)
  <1>0. Len(rs) \in Nat /\ 0 \in 0..Len(rs) /\ \A i \in 1..Len(rs) : i \in 0..Len(rs) /\ i # 0
    BY DEF Ordered
  <1>1. Lookup(rs) = done[Len(rs)].map
    BY DEF Lookup
  <1>2. RecN(filed)
    <2>1. PICK g : Named(rs, g) /\ g = [i \in 0..Len(rs) |-> g[i]]
      BY NamedGoes
    <2>2. \A i \in 0..Len(rs) : g[i] = IF i = 0 THEN {} ELSE AddFull(g[i - 1], rs[i])
      <3> SUFFICES ASSUME NEW i \in 0..Len(rs), i # 0 PROVE g[i] = AddFull(g[i-1], rs[i])
        BY <2>1 DEF Named
      <3>1. i \in 1..Len(rs)
        BY <1>0
      <3> QED BY <2>1, <3>1 DEF Named
    <2>3. RecN(g)
      BY <2>1, <2>2
    <2> HIDE DEF RecN
    <2> QED BY <2>3
  <1> HIDE DEF filed
  <1>3. Named(rs, filed)
    BY <1>0, <1>2 DEF Named
  <1> HIDE DEF RecN
  <1>4. filed[Len(rs)] \in SUBSET LinkName /\ begun = Begun(rs, filed[Len(rs)])
    BY <1>3 DEF Begun
  <1> HIDE DEF begun
  <1>5. RecD(done)
    <2>1. PICK g : Shortened(rs, filed[Len(rs)], g) /\ g = [i \in 0..Len(rs) |-> g[i]]
      BY <1>4, ShortenedGoes
    <2>2. \A i \in 0..Len(rs) : g[i] = IF i = 0 THEN begun ELSE AddVariants(g[i - 1], rs[i])
      <3> SUFFICES ASSUME NEW i \in 0..Len(rs), i # 0 PROVE g[i] = AddVariants(g[i-1], rs[i])
        BY <1>4, <2>1 DEF Shortened
      <3>1. i \in 1..Len(rs)
        BY <1>0
      <3> QED BY <2>1, <3>1 DEF Shortened
    <2>3. RecD(g)
      BY <2>1, <2>2
    <2> HIDE DEF RecD
    <2> QED BY <2>3
  <1> HIDE DEF done
  <1>6. Shortened(rs, filed[Len(rs)], done)
    BY <1>0, <1>4, <1>5 DEF Shortened
  <1> QED BY <1>1, <1>3, <1>6

LEMMA FullsOfAll ==
  ASSUME NEW es \in SUBSET LEntity, NEW rs, Ordered(rs, es), NEW g, Named(rs, g)
  PROVE  FullsOf(g[Len(rs)], Seen(rs, Len(rs)))
  <1> DEFINE N == Len(rs)
             S == {i \in 0..N : FullsOf(g[i], Seen(rs, i))}
  <1>1. N \in Nat /\ \A i \in 1..N : rs[i] \in LEntity
    BY DEF Ordered
  <1>2. 0 \in S
    <2>1. g[0] = {} /\ Seen(rs, 0) = {}
      BY SeenGrows DEF Named
    <2>2. FullsOf({}, {})
      BY DEF FullsOf, OnePerName
    <2>3. FullsOf(g[0], Seen(rs, 0)) /\ 0 \in 0..N
      BY <1>1, <2>1, <2>2
    <2> HIDE DEF N
    <2> QED BY <2>3
  <1>3. ASSUME NEW i \in 0..(N-1), i \in S PROVE i + 1 \in S
    <2>1. i + 1 \in 1..N /\ (i + 1) - 1 = i /\ i + 1 \in 0..N /\ i \in Nat
      BY <1>1
    <2>2. g[i+1] = AddFull(g[i], rs[i+1]) /\ rs[i+1] \in LEntity
      BY <1>1, <2>1 DEF Named
    <2>3. Seen(rs, i + 1) = Seen(rs, i) \cup {rs[i + 1]}
      BY <2>1, SeenGrows
    <2>4. Seen(rs, i) \in SUBSET LEntity
      <3>1. \A j \in 1..i : j \in 1..N
        BY <1>1, <2>1
      <3> QED BY <1>1, <3>1 DEF Seen
    <2> QED BY <1>3, <2>1, <2>2, <2>3, <2>4, AddFullKeeps
  <1> HIDE DEF S, N
  <1>4. 0..N \subseteq S
    BY <1>1, <1>2, <1>3, UpTo
  <1>5. N \in S
    BY <1>1, <1>4
  <1> QED BY <1>5 DEF S, N

LEMMA ShortsOfAll ==
  ASSUME NEW es \in SUBSET LEntity, NEW rs, Ordered(rs, es), ToSet(rs) = es,
         NEW fulls, FullsOf(fulls, es), NEW h, Shortened(rs, fulls, h)
  PROVE  ShortsOf(h[Len(rs)], fulls, {FullName[e] : e \in es}, Seen(rs, Len(rs)))
  <1> DEFINE N == Len(rs)
             names == {FullName[e] : e \in es}
             S == {i \in 0..N : ShortsOf(h[i], fulls, names, Seen(rs, i))}
  <1>1. N \in Nat /\ \A i \in 1..N : rs[i] \in LEntity
    BY DEF Ordered
  <1>2. 0 \in S
    <2>1. h[0] = Begun(rs, fulls) /\ Seen(rs, 0) = {}
      BY SeenGrows DEF Shortened
    <2>2. \A p \in fulls : p[1] \in names
      BY DEF FullsOf
    <2>3. names \subseteq NameForm /\ fulls \subseteq LinkName
      BY NameForms DEF FullsOf
    <2> DEFINE b == [map |-> fulls, full |-> names, ambiguous |-> {}]
    <2>4. b = Begun(rs, fulls)
      BY DEF Begun
    <2> HIDE DEF names
    <2>5. b \in LinkAcc /\ b.map = fulls /\ b.full = names /\ b.ambiguous = {}
      BY <2>3 DEF LinkAcc
    <2> HIDE DEF b
    <2>6. ShortsOf(b, fulls, names, {})
      BY <2>2, <2>5 DEF ShortsOf, FullsOf
    <2>7. ShortsOf(h[0], fulls, names, Seen(rs, 0))
      BY <2>1, <2>4, <2>6
    <2>8. 0 \in 0..N
      BY <1>1
    <2> HIDE DEF N
    <2> QED BY <2>7, <2>8 DEF names
  <1>3. ASSUME NEW i \in 0..(N-1), i \in S PROVE i + 1 \in S
    <2> HIDE DEF names
    <2>1. i + 1 \in 1..N /\ (i + 1) - 1 = i /\ i + 1 \in 0..N /\ i \in Nat
      BY <1>1
    <2>2. h[i+1] = AddVariants(h[i], rs[i+1]) /\ rs[i+1] \in LEntity
      BY <1>1, <2>1 DEF Shortened
    <2>3. Seen(rs, i + 1) = Seen(rs, i) \cup {rs[i + 1]}
      BY <2>1, SeenGrows
    <2>4. Seen(rs, i) \in SUBSET LEntity
      <3>1. \A j \in 1..i : j \in 1..N
        BY <1>1, <2>1
      <3> QED BY <1>1, <3>1 DEF Seen
    <2> QED BY <1>3, <2>1, <2>2, <2>3, <2>4, AddVariantsKeeps
  <1> HIDE DEF S, N
  <1>4. 0..N \subseteq S
    BY <1>1, <1>2, <1>3, UpTo
  <1>5. N \in S
    BY <1>1, <1>4
  <1> QED BY <1>5 DEF S, N

\* A name leads where it should.
LeadsRight(names, of) ==
  \A n : LET to == {p[2] : p \in {q \in names : q[1] = n}}
             es == Leads(of, n)
         IN to \subseteq es /\ Cardinality(to) = IF es = {} THEN 0 ELSE 1

LEMMA ShortsLead ==
  ASSUME NEW es \in SUBSET LEntity, IsFiniteSet(es), NEW fulls, FullsOf(fulls, es), NEW acc,
         ShortsOf(acc, fulls, {FullName[e] : e \in es}, es)
  PROVE  LeadsRight(acc.map, es)
  <1> SUFFICES ASSUME NEW n
               PROVE  LET to == {p[2] : p \in {q \in acc.map : q[1] = n}}
                          where == Leads(es, n)
                      IN to \subseteq where /\ Cardinality(to) = IF where = {} THEN 0 ELSE 1
    BY DEF LeadsRight
  <1> DEFINE to    == {p[2] : p \in {q \in acc.map : q[1] = n}}
             full  == {e \in es : FullName[e] = n}
             short == {e \in es : n \in Variants[FullName[e]]}
             names == {FullName[e] : e \in es}
  <1>1. Leads(es, n) = IF full # {} THEN full ELSE IF Cardinality(short) = 1 THEN short ELSE {}
    BY DEF Leads
  <1>2. IsFiniteSet(short)
    BY FS_Subset
  <1>3. \A e : e \in to <=> \E p \in acc.map : p[1] = n /\ p[2] = e
    OBVIOUS
  <1>4. (full # {} <=> n \in names) /\ (\A e : e \in full <=> e \in es /\ FullName[e] = n)
        /\ (\A e : e \in short <=> e \in es /\ n \in Variants[FullName[e]])
    OBVIOUS
  <1>5. ShortsOf(acc, fulls, names, es)
    OBVIOUS
  <1> HIDE DEF to, full, short, names
  <1>6. CASE n \in names
    <2>1. PICK e \in es : FullName[e] = n
      BY <1>4, <1>6
    <2>2. PICK p \in fulls : p[1] = n
      BY <2>1 DEF FullsOf
    <2>3. p[2] \in es /\ FullName[p[2]] = n
      BY <2>2 DEF FullsOf
    <2>4. p \in acc.map
      BY <1>5, <1>6, <2>2 DEF ShortsOf
    <2>5. \A e1 \in to : e1 = p[2]
      BY <1>3, <1>5, <2>2, <2>4 DEF ShortsOf, OnePerName
    <2>6. to = {p[2]}
      BY <1>3, <2>2, <2>4, <2>5
    <2>7. Cardinality(to) = 1
      BY <2>6, FS_Singleton
    <2> QED BY <1>1, <1>4, <1>6, <2>3, <2>6, <2>7 DEF to
  <1>7. CASE n \notin names /\ Cardinality(short) = 1
    <2>1. PICK e : short = {e}
      BY <1>2, <1>7, FS_Singleton
    <2>2. n \notin acc.ambiguous
      BY <1>4, <1>5, <1>7, <2>1 DEF ShortsOf
    <2>3. e \in es /\ n \in Variants[FullName[e]]
      BY <1>4, <2>1
    <2> DEFINE pair == <<n, e>>
    <2>4. pair \in acc.map /\ pair[1] = n /\ pair[2] = e
      BY <1>5, <1>7, <2>2, <2>3 DEF ShortsOf
    <2> HIDE DEF pair
    <2>5. \A d \in to : d = e
      BY <1>3, <1>5, <2>4 DEF ShortsOf, OnePerName
    <2>6. to = {e}
      BY <1>3, <2>4, <2>5
    <2>7. Cardinality(to) = 1
      BY <2>6, FS_Singleton
    <2> QED BY <1>1, <1>4, <1>7, <2>1, <2>6, <2>7 DEF to
  <1>8. CASE n \notin names /\ Cardinality(short) # 1
    <2>1. ASSUME NEW d \in to PROVE FALSE
      <3>1. PICK p \in acc.map : p[1] = n /\ p[2] = d
        BY <1>3, <2>1
      <3>2. d \in short /\ n \notin acc.ambiguous
        BY <1>4, <1>5, <1>8, <3>1 DEF ShortsOf
      <3>3. ASSUME NEW e \in short PROVE e = d
        <4> DEFINE pair == <<n, e>>
        <4>1. pair \in acc.map /\ pair[1] = n /\ pair[2] = e
          BY <1>4, <1>5, <1>8, <3>2, <3>3 DEF ShortsOf
        <4> HIDE DEF pair
        <4> QED BY <1>5, <3>1, <4>1 DEF ShortsOf, OnePerName
      <3>4. short = {d}
        BY <3>2, <3>3
      <3> QED BY <1>8, <3>4, FS_Singleton
    <2>2. to = {}
      BY <2>1
    <2>3. Cardinality(to) = 0
      BY <2>2, FS_EmptySet
    <2> QED BY <1>1, <1>4, <1>8, <2>2, <2>3 DEF to
  <1> QED BY <1>6, <1>7, <1>8

LEMMA LookupLeads ==
  ASSUME NEW es \in SUBSET LEntity, IsFiniteSet(es), NEW rs \in SetToAllKPermutations(es),
         Len(rs) = Cardinality(es)
  PROVE  LeadsRight(Lookup(rs), es) /\ Lookup(rs) \subseteq LinkName
  <1>1. Ordered(rs, es) /\ ToSet(rs) = es
    BY OrdersHaveAll
  <1>2. Seen(rs, Len(rs)) = es
    BY <1>1 DEF Ordered, Seen
  <1>3. \A g : Named(rs, g) => FullsOf(g[Len(rs)], es)
    BY <1>1, <1>2, FullsOfAll
  <1>4. PICK g, h : Named(rs, g) /\ Shortened(rs, g[Len(rs)], h) /\ Lookup(rs) = h[Len(rs)].map
    <2>1. \A g : Named(rs, g) => g[Len(rs)] \in SUBSET LinkName
      BY <1>3 DEF FullsOf
    <2> QED BY <1>1, <2>1, LookupIsPasses
  <1>5. ShortsOf(h[Len(rs)], g[Len(rs)], {FullName[e] : e \in es}, es)
    BY <1>1, <1>2, <1>3, <1>4, ShortsOfAll
  <1>6. LeadsRight(h[Len(rs)].map, es)
    BY <1>3, <1>4, <1>5, ShortsLead
  <1> QED BY <1>4, <1>5, <1>6 DEF ShortsOf, LinkAcc

LEMMA NoNamesLead == LeadsRight({}, {})
  <1>1. \A n : Leads({}, n) = {}
    <2>1. Cardinality({}) # 1
      BY FS_EmptySet
    <2> QED BY <2>1 DEF Leads
  <1> QED BY <1>1, FS_EmptySet DEF LeadsRight

\* What a pass holds.
LinkerRecord == [at : {"idle", "have", "insert"}, names : SUBSET LinkName, of : SUBSET LEntity,
                 wanted : SUBSET (LTable \X LEntity), fresh : SUBSET (LTable \X LEntity)]

LinkTyped ==
  /\ inDb \in SUBSET LEntity /\ tables \in SUBSET LTable /\ linkRuns \in 0..MaxLinkRuns
  /\ links \in [LTable \X LEntity -> Nat] /\ linker \in [Linker -> LinkerRecord] /\ met \in BOOLEAN

LinksRefer ==
  /\ \A p \in LTable \X LEntity : links[p] > 0 => p \in tables \X inDb
  /\ \A k \in Linker : linker[k].wanted \subseteq tables \X inDb /\ linker[k].fresh \subseteq linker[k].wanted

\* A pass about to insert has the rest of what it wanted in place; a pass that has
\* ended has all of it.
WantedInPlace ==
  \A k \in Linker : /\ Idle(k) => \A w \in linker[k].wanted : links[w] > 0
                    /\ linker[k].at = "insert" => \A w \in linker[k].wanted \ linker[k].fresh : links[w] > 0

\* As long as no two passes have met: what a pass found missing still is.
OnceEach ==
  met \/ /\ \A j, k \in Linker : ~Idle(j) /\ ~Idle(k) => j = k
         /\ \A k \in Linker : linker[k].at = "insert" => \A w \in linker[k].fresh : links[w] = 0
         /\ \A p \in LTable \X LEntity : links[p] <= 1

NamesRight == \A k \in Linker : LeadsRight(linker[k].names, linker[k].of)

LinkHolds == LinkTyped /\ LinksRefer /\ WantedInPlace /\ OnceEach /\ NamesRight

LEMMA UnlinkedTyped ==
  Unlinked \in LinkerRecord /\ Unlinked.at = "idle" /\ Unlinked.names = {} /\ Unlinked.of = {}
  /\ Unlinked.wanted = {} /\ Unlinked.fresh = {}
  BY DEF Unlinked, LinkerRecord

LEMMA ScanStep ==
  ASSUME LinkHolds, NEW k \in Linker, Scan(k)
  PROVE  LinkHolds'
  <1>1. PICK rs \in SetToAllKPermutations(inDb) :
       /\ Len(rs) = Cardinality(inDb)
       /\ linker' = [linker EXCEPT ![k] =
            [Unlinked EXCEPT !.at = "have", !.of = inDb, !.names = Lookup(rs),
               !.wanted = {w \in tables \X inDb : \E n \in TableNames(w[1]) : <<n, w[2]>> \in Lookup(rs)}]]
    BY DEF Scan
  <1> DEFINE wants == {w \in tables \X inDb : \E n \in TableNames(w[1]) : <<n, w[2]>> \in Lookup(rs)}
             r == [Unlinked EXCEPT !.at = "have", !.of = inDb, !.names = Lookup(rs), !.wanted = wants]
  <1>2. /\ Idle(k) /\ k = linkRuns + 1 /\ linkRuns' = k /\ met' = (met \/ \E j \in Linker \ {k} : ~Idle(j))
        /\ UNCHANGED <<inDb, tables, links>>
    BY DEF Scan
  <1>3. inDb \in SUBSET LEntity /\ tables \in SUBSET LTable /\ IsFiniteSet(inDb)
    BY LinkAssumption, FS_Subset DEF LinkHolds, LinkTyped
  <1>4. LeadsRight(Lookup(rs), inDb) /\ Lookup(rs) \subseteq LinkName
    BY <1>1, <1>3, LookupLeads
  <1>5. wants \subseteq tables \X inDb /\ wants \subseteq LTable \X LEntity
    BY <1>3
  <1> HIDE DEF wants
  <1>6. /\ r \in LinkerRecord /\ r.at = "have" /\ r.of = inDb /\ r.names = Lookup(rs) /\ r.wanted = wants
        /\ r.fresh = {}
    BY <1>3, <1>4, <1>5, UnlinkedTyped DEF LinkerRecord
  <1>7. linker' = [linker EXCEPT ![k] = r]
    BY <1>1 DEF wants
  <1> HIDE DEF r
  <1>8. linker'[k] = r /\ linker' \in [Linker -> LinkerRecord] /\ \A j \in Linker : j # k => linker'[j] = linker[j]
    BY <1>6, <1>7 DEF LinkHolds, LinkTyped
  <1>9. LinkTyped'
    <2>1. k \in 0..MaxLinkRuns
      BY LinkAssumption DEF Linker
    <2> QED BY <1>2, <1>8, <2>1 DEF LinkHolds, LinkTyped
  <1>10. LinksRefer'
    BY <1>2, <1>5, <1>6, <1>8 DEF LinkHolds, LinksRefer
  <1>11. WantedInPlace'
    BY <1>2, <1>6, <1>8 DEF LinkHolds, WantedInPlace, Idle
  <1>12. OnceEach'
    <2> SUFFICES ASSUME ~met' PROVE OnceEach'
      BY DEF OnceEach
    <2>1. ~met /\ \A j \in Linker : j # k => linker[j].at = "idle"
      BY <1>2 DEF Idle
    <2>2. \A j \in Linker : j # k => linker'[j].at = "idle"
      BY <1>8, <2>1
    <2>3. \A j \in Linker : linker'[j].at # "insert"
      BY <1>6, <1>8, <2>2
    <2>4. \A p \in LTable \X LEntity : links'[p] <= 1
      BY <1>2, <2>1 DEF LinkHolds, OnceEach
    <2> QED BY <2>2, <2>3, <2>4 DEF OnceEach, Idle
  <1>13. NamesRight'
    BY <1>4, <1>6, <1>8 DEF LinkHolds, NamesRight
  <1> QED BY <1>9, <1>10, <1>11, <1>12, <1>13 DEF LinkHolds

LEMMA ReadLinksStep ==
  ASSUME LinkHolds, NEW k \in Linker, ReadLinks(k)
  PROVE  LinkHolds'
  <1> DEFINE fresh == {w \in linker[k].wanted : links[w] = 0}
             r == [Unlinked EXCEPT !.wanted = linker[k].wanted, !.fresh = fresh,
                                   !.at = IF fresh = {} THEN "idle" ELSE "insert"]
  <1>1. linker[k].at = "have" /\ UNCHANGED <<inDb, tables, links, linkRuns, met>>
        /\ linker' = [linker EXCEPT ![k] = r]
    BY DEF ReadLinks
  <1>2. linker[k] \in LinkerRecord /\ \A w \in LTable \X LEntity : links[w] \in Nat
    BY DEF LinkHolds, LinkTyped
  <1>3. linker[k].wanted \subseteq LTable \X LEntity
    BY <1>2 DEF LinkerRecord
  <1>4. fresh \subseteq LTable \X LEntity /\ fresh \subseteq linker[k].wanted
        /\ (\A w \in fresh : links[w] = 0) /\ \A w \in linker[k].wanted \ fresh : links[w] > 0
    BY <1>2, <1>3
  <1> HIDE DEF fresh
  <1>5. /\ r \in LinkerRecord /\ r.at = (IF fresh = {} THEN "idle" ELSE "insert") /\ r.of = {} /\ r.names = {}
        /\ r.wanted = linker[k].wanted /\ r.fresh = fresh
    BY <1>3, <1>4, UnlinkedTyped DEF LinkerRecord
  <1> HIDE DEF r
  <1>6. linker'[k] = r /\ linker' \in [Linker -> LinkerRecord] /\ \A j \in Linker : j # k => linker'[j] = linker[j]
    BY <1>1, <1>5 DEF LinkHolds, LinkTyped
  <1>7. LinkTyped'
    BY <1>1, <1>6 DEF LinkHolds, LinkTyped
  <1>8. LinksRefer'
    BY <1>1, <1>4, <1>5, <1>6 DEF LinkHolds, LinksRefer
  <1>9. WantedInPlace'
    BY <1>1, <1>4, <1>5, <1>6 DEF LinkHolds, WantedInPlace, Idle
  <1>10. OnceEach'
    <2> SUFFICES ASSUME ~met PROVE OnceEach'
      BY <1>1 DEF OnceEach
    <2>1. /\ \A j \in Linker : ~Idle(j) => j = k
          /\ \A p \in LTable \X LEntity : links[p] <= 1
      BY <1>1 DEF LinkHolds, OnceEach, Idle
    <2>2. \A j \in Linker : ~Idle(j)' => j = k
      BY <1>6, <2>1 DEF Idle
    <2>3. \A w \in linker'[k].fresh : links'[w] = 0
      BY <1>1, <1>4, <1>5, <1>6
    <2>4. \A j \in Linker : linker'[j].at = "insert" => j = k
      BY <2>2 DEF Idle
    <2>5. \A j \in Linker : linker'[j].at = "insert" => \A w \in linker'[j].fresh : links'[w] = 0
      BY <2>3, <2>4
    <2>6. \A p \in LTable \X LEntity : links'[p] <= 1
      BY <1>1, <2>1
    <2>7. \A i, j \in Linker : linker'[i].at # "idle" /\ linker'[j].at # "idle" => i = j
      BY <2>2 DEF Idle
    <2> QED BY <2>5, <2>6, <2>7 DEF OnceEach, Idle
  <1>11. NamesRight'
    BY <1>5, <1>6, NoNamesLead DEF LinkHolds, NamesRight
  <1> QED BY <1>7, <1>8, <1>9, <1>10, <1>11 DEF LinkHolds

LEMMA InsertLinksStep ==
  ASSUME LinkHolds, NEW k \in Linker, InsertLinks(k)
  PROVE  LinkHolds'
  <1> DEFINE r == [linker[k] EXCEPT !.at = "idle", !.fresh = {}]
  <1>1. /\ linker[k].at = "insert" /\ UNCHANGED <<inDb, tables, linkRuns, met>>
        /\ links' = [p \in DOMAIN links |-> IF p \in linker[k].fresh THEN links[p] + 1 ELSE links[p]]
        /\ linker' = [linker EXCEPT ![k] = r]
    BY DEF InsertLinks, LinkHolds, LinkTyped
  <1>2. linker[k] \in LinkerRecord /\ links \in [LTable \X LEntity -> Nat]
    BY DEF LinkHolds, LinkTyped
  <1>3. /\ r \in LinkerRecord /\ r.at = "idle" /\ r.of = linker[k].of /\ r.names = linker[k].names
        /\ r.wanted = linker[k].wanted /\ r.fresh = {}
    BY <1>2 DEF LinkerRecord
  <1> HIDE DEF r
  <1>4. linker'[k] = r /\ linker' \in [Linker -> LinkerRecord] /\ \A j \in Linker : j # k => linker'[j] = linker[j]
    BY <1>1, <1>3 DEF LinkHolds, LinkTyped
  <1>5. /\ links' \in [LTable \X LEntity -> Nat]
        /\ \A p \in LTable \X LEntity : /\ links[p] \in Nat /\ links'[p] \in Nat
                                        /\ p \in linker[k].fresh => links'[p] = links[p] + 1
                                        /\ p \notin linker[k].fresh => links'[p] = links[p]
    BY <1>1, <1>2
  <1>6. \A p \in LTable \X LEntity : /\ links[p] > 0 => links'[p] > 0
                                     /\ p \in linker[k].fresh => links'[p] > 0
    BY <1>5
  <1>7. \A j \in Linker : linker[j].wanted \subseteq LTable \X LEntity
    BY DEF LinkHolds, LinkTyped, LinkerRecord
  <1>8. LinkTyped'
    BY <1>1, <1>4, <1>5 DEF LinkHolds, LinkTyped
  <1>9. LinksRefer'
    BY <1>1, <1>3, <1>4, <1>5 DEF LinkHolds, LinksRefer
  <1>10. WantedInPlace'
    BY <1>1, <1>3, <1>4, <1>6, <1>7 DEF LinkHolds, WantedInPlace, Idle
  <1>11. OnceEach'
    <2> SUFFICES ASSUME ~met PROVE OnceEach'
      BY <1>1 DEF OnceEach
    <2>1. \A j \in Linker : ~Idle(j) => j = k
      BY <1>1 DEF LinkHolds, OnceEach, Idle
    <2>2. \A j \in Linker : Idle(j)'
      BY <1>3, <1>4, <2>1 DEF Idle
    <2>3. \A p \in LTable \X LEntity : links[p] <= 1 /\ (p \in linker[k].fresh => links[p] = 0)
      BY <1>1 DEF LinkHolds, OnceEach
    <2>4. \A p \in LTable \X LEntity : links'[p] <= 1
      BY <1>5, <2>3
    <2> QED BY <2>2, <2>4 DEF OnceEach, Idle
  <1>12. NamesRight'
    BY <1>3, <1>4 DEF LinkHolds, NamesRight
  <1> QED BY <1>8, <1>9, <1>10, <1>11, <1>12 DEF LinkHolds

LEMMA LinkCrashStep ==
  ASSUME LinkHolds, NEW k \in Linker, LinkCrash(k)
  PROVE  LinkHolds'
  <1>1. UNCHANGED <<inDb, tables, links, linkRuns, met>> /\ linker' = [linker EXCEPT ![k] = Unlinked]
    BY DEF LinkCrash
  <1>2. /\ linker'[k] = Unlinked /\ linker' \in [Linker -> LinkerRecord]
        /\ \A j \in Linker : j # k => linker'[j] = linker[j]
    BY <1>1, UnlinkedTyped DEF LinkHolds, LinkTyped
  <1>3. LinkTyped'
    BY <1>1, <1>2 DEF LinkHolds, LinkTyped
  <1>4. LinksRefer'
    BY <1>1, <1>2, UnlinkedTyped DEF LinkHolds, LinksRefer
  <1>5. WantedInPlace'
    BY <1>1, <1>2, UnlinkedTyped DEF LinkHolds, WantedInPlace, Idle
  <1>6. OnceEach'
    BY <1>1, <1>2, UnlinkedTyped DEF LinkHolds, OnceEach, Idle
  <1>7. NamesRight'
    BY <1>2, UnlinkedTyped, NoNamesLead DEF LinkHolds, NamesRight
  <1> QED BY <1>3, <1>4, <1>5, <1>6, <1>7 DEF LinkHolds

LEMMA StoreMoreStep ==
  ASSUME LinkHolds, StoreMore
  PROVE  LinkHolds'
  <1>1. PICK es \in SUBSET (LEntity \ inDb), ts \in SUBSET (LTable \ tables) :
          inDb' = inDb \cup es /\ tables' = tables \cup ts
    BY DEF StoreMore
  <1>2. UNCHANGED <<links, linker, linkRuns, met>>
    BY DEF StoreMore
  <1>3. tables \X inDb \subseteq tables' \X inDb'
    BY <1>1
  <1>4. LinkTyped'
    BY <1>1, <1>2 DEF LinkHolds, LinkTyped
  <1>5. LinksRefer'
    BY <1>2, <1>3 DEF LinkHolds, LinksRefer
  <1> QED BY <1>2, <1>4, <1>5 DEF LinkHolds, WantedInPlace, OnceEach, NamesRight, Idle

LEMMA NextLinks ==
  ASSUME LinkHolds, [LinkNext]_linkVars
  PROVE  LinkHolds'
  <1>1. CASE UNCHANGED linkVars
    BY <1>1 DEF linkVars, LinkHolds, LinkTyped, LinksRefer, WantedInPlace, OnceEach, NamesRight, Idle
  <1>2. CASE LinkNext
    BY <1>2, ScanStep, ReadLinksStep, InsertLinksStep, LinkCrashStep, StoreMoreStep DEF LinkNext
  <1> QED BY <1>1, <1>2

LEMMA InitLinks == LinkInit => LinkHolds
  <1> SUFFICES ASSUME LinkInit PROVE LinkHolds
    OBVIOUS
  <1>1. /\ inDb = {} /\ tables = {} /\ linkRuns = 0 /\ met = FALSE
        /\ links = [p \in LTable \X LEntity |-> 0] /\ linker = [k \in Linker |-> Unlinked]
    BY DEF LinkInit
  <1>2. LinkTyped
    <2>1. links \in [LTable \X LEntity -> Nat]
      BY <1>1
    <2>2. linker \in [Linker -> LinkerRecord]
      BY <1>1, UnlinkedTyped
    <2>3. linkRuns \in 0..MaxLinkRuns
      BY <1>1, LinkAssumption
    <2> QED BY <1>1, <2>1, <2>2, <2>3 DEF LinkTyped
  <1>3. /\ \A p \in LTable \X LEntity : links[p] = 0
        /\ \A k \in Linker : linker[k] = Unlinked
    BY <1>1
  <1>4. LinksRefer /\ WantedInPlace /\ OnceEach
    BY <1>1, <1>3, UnlinkedTyped DEF LinksRefer, WantedInPlace, OnceEach, Idle
  <1>5. NamesRight
    BY <1>3, UnlinkedTyped, NoNamesLead DEF NamesRight
  <1> QED BY <1>2, <1>4, <1>5 DEF LinkHolds

LEMMA LinksShow ==
  ASSUME LinkHolds
  PROVE  LinksInv /\ LinkTypeOK
  <1>1. DOMAIN links = LTable \X LEntity
    BY DEF LinkHolds, LinkTyped
  <1>2. NamesOneEntity
    BY DEF LinkHolds, NamesRight, LeadsRight, NamesOneEntity
  <1>3. LinksStand
    BY <1>1 DEF LinkHolds, WantedInPlace, OnceEach, LinksStand
  <1>4. LinkTypeOK
    <2>1. \A p \in tables \X inDb : p[1] \in tables /\ p[2] \in inDb
      OBVIOUS
    <2> QED BY <1>1, <2>1 DEF LinkHolds, LinkTyped, LinksRefer, LinkTypeOK
  <1> QED BY <1>2, <1>3, <1>4 DEF LinksInv

\* Whatever order the rows come in, a name leads to the entity that has it in full,
\* or else to the only one it is short for; a pass that ends has its links in place,
\* each once unless two passes met; for any entities, names, tables and passes.
THEOREM LinksHold == Spec => []LinksInv
  <1>1. Init => LinkHolds
    BY InitLinks DEF Init
  <1>2. [Next]_servicesVars => [LinkNext]_linkVars
    BY DEF Next, servicesVars
  <1>3. LinkHolds /\ [LinkNext]_linkVars => LinkHolds'
    BY NextLinks
  <1>4. LinkHolds => LinksInv
    BY LinksShow
  <1> QED BY <1>1, <1>2, <1>3, <1>4, PTL DEF Spec

-----------------------------------------------------------------------------
(***************************************************************************)
(* generate-artifacts.  While the command loops, two things are counted:   *)
(* the chunks called for that stand past the offset, which are called for  *)
(* again, and how far the offset is ahead of the chunks called for, which  *)
(* is how many are passed over.  Each change of the corpus adds one at     *)
(* most.  Inside a batch it is the offset to come that counts, whatever    *)
(* the calls give.                                                         *)
(***************************************************************************)
Past(B, A, e) == {c \in B \cap A : Rank(B, c) > e}

\* B unprocessed, A called for, R more than once, e the offset.
LoopOK(B, A, R, e, over, sized, removed, moves) ==
  /\ ~over => Cardinality(Past(B, A, e)) + Cardinality(R) <= removed
  /\ sized => e + (IF over THEN 0 ELSE Cardinality(Past(B, A, e))) <= Cardinality(A \cap B) + moves

\* The same before the batch is read, when the count is `before` and B is unprocessed now.
SelectOK(B, A, R, o, before, sized, removed, moves) ==
  LET gone == before - Cardinality(B) IN
  /\ \A g \in {0, gone} : Cardinality(Past(B, A, o)) + Cardinality(R) + g <= removed
  /\ sized => \A g \in {0, gone} : o + Cardinality(Past(B, A, o)) - g <= Cardinality(A \cap B) + moves

LEMMA Counted ==
  ASSUME NEW n \in Nat, NEW S \in SUBSET (1..n)
  PROVE  IsFiniteSet(S) /\ Cardinality(S) \in Nat /\ (S = {} => Cardinality(S) = 0)
  <1>1. IsFiniteSet(1..n)
    BY FS_Interval, 1 \in Int /\ n \in Int
  <1>2. IsFiniteSet(S)
    BY <1>1, FS_Subset
  <1> QED BY <1>2, FS_CardinalityType, FS_EmptySet

LEMMA CountedIn ==
  ASSUME NEW n \in Nat, NEW T \in SUBSET (1..n), NEW S \in SUBSET T
  PROVE  Cardinality(S) <= Cardinality(T)
  BY Counted, FS_Subset

LEMMA CountedTogether ==
  ASSUME NEW n \in Nat, NEW S \in SUBSET (1..n), NEW T \in SUBSET (1..n)
  PROVE  /\ Cardinality(S \cup T) <= Cardinality(S) + Cardinality(T)
         /\ S \cap T = {} => Cardinality(S \cup T) = Cardinality(S) + Cardinality(T)
  <1>1. Cardinality(S \cup T) = Cardinality(S) + Cardinality(T) - Cardinality(S \cap T)
    BY Counted, FS_Union
  <1>2. Cardinality(S) \in Nat /\ Cardinality(T) \in Nat /\ Cardinality(S \cap T) \in Nat
        /\ (S \cap T = {} => Cardinality(S \cap T) = 0)
    BY Counted
  <1> QED BY <1>1, <1>2

LEMMA CountedApart ==
  ASSUME NEW n \in Nat, NEW S \in SUBSET (1..n), NEW T \in SUBSET (1..n), \A x \in S : x \notin T
  PROVE  Cardinality(S \cup T) = Cardinality(S) + Cardinality(T)
  <1>1. S \cap T = {}
    OBVIOUS
  <1> QED BY <1>1, CountedTogether

LEMMA CountedWithout ==
  ASSUME NEW n \in Nat, NEW S \in SUBSET (1..n), NEW T \in SUBSET S
  PROVE  Cardinality(S \ T) = Cardinality(S) - Cardinality(T)
  <1>1. Cardinality((S \ T) \cup T) = Cardinality(S \ T) + Cardinality(T)
    BY CountedTogether
  <1>2. (S \ T) \cup T = S
    OBVIOUS
  <1>3. Cardinality(S \ T) \in Nat /\ Cardinality(T) \in Nat
    BY Counted
  <1>4. Cardinality(S) = Cardinality(S \ T) + Cardinality(T)
    BY <1>1, <1>2
  <1> QED BY <1>3, <1>4

LEMMA RankFalls ==
  ASSUME NEW n \in Nat, NEW B \in SUBSET (1..n), NEW C \in SUBSET B, NEW x
  PROVE  Rank(C, x) \in Nat /\ Rank(B, x) \in Nat /\ Rank(C, x) <= Rank(B, x)
  <1> DEFINE I == {k \in B : k <= x}
             J == {k \in C : k <= x}
  <1>1. I \in SUBSET (1..n) /\ J \in SUBSET (1..n) /\ J \in SUBSET I
    OBVIOUS
  <1> HIDE DEF I, J
  <1>2. Cardinality(I) \in Nat /\ Cardinality(J) \in Nat /\ Cardinality(J) <= Cardinality(I)
    BY <1>1, Counted, CountedIn
  <1> QED BY <1>2 DEF I, J, Rank

Span(B, lo, hi) == {x \in B : lo < Rank(B, x) /\ Rank(B, x) <= hi}

LEMMA RankSpan ==
  ASSUME NEW n \in Nat, NEW B \in SUBSET (1..n), NEW lo \in Int, NEW hi \in Int
  PROVE  /\ Span(B, lo, hi) \in SUBSET (1..n) /\ Cardinality(Span(B, lo, hi)) \in Nat
         /\ hi <= lo => Cardinality(Span(B, lo, hi)) = 0
         /\ lo < hi => Cardinality(Span(B, lo, hi)) <= hi - lo
  <1> DEFINE T == Span(B, lo, hi)
             D == (lo + 1)..hi
             f == [x \in T |-> Rank(B, x)]
  <1>1. T \in SUBSET (1..n) /\ (\A x \in T : x \in B /\ lo < Rank(B, x) /\ Rank(B, x) <= hi)
        /\ \A x \in B : Rank(B, x) \in Nat
    BY RankFalls DEF Span
  <1>0. Cardinality(T) \in Nat
    BY <1>1, Counted
  <1> HIDE DEF T
  <1>2. CASE hi <= lo
    <2>1. T = {}
      BY <1>1, <1>2
    <2>2. Cardinality(T) = 0
      BY <2>1, FS_EmptySet
    <2> QED BY <1>0, <1>1, <1>2, <2>2 DEF T
  <1>3. CASE ~(hi <= lo)
    <2>1. f \in Injection(T, D)
      <3>1. \A x \in T : Rank(B, x) \in D
        BY <1>1
      <3>2. \A x, y \in T : Rank(B, x) = Rank(B, y) => x = y
        BY <1>1, RankReaches
      <3> QED BY <3>1, <3>2 DEF Injection, IsInjective
    <2>2. IsFiniteSet(D) /\ Cardinality(D) = hi - (lo + 1) + 1
      <3>1. lo + 1 \in Int /\ ~(lo + 1 > hi)
        BY <1>3
      <3> QED BY <3>1, FS_Interval
    <2> HIDE DEF f, D
    <2>3. Cardinality(T) <= Cardinality(D)
      BY <2>1, <2>2, FS_Injection
    <2>4. Cardinality(T) <= hi - lo
      BY <1>0, <2>2, <2>3
    <2> QED BY <1>0, <1>1, <1>3, <2>4 DEF T
  <1> QED BY <1>2, <1>3

LEMMA PastIn ==
  ASSUME NEW n \in Nat, NEW B \in SUBSET (1..n), NEW A, NEW e
  PROVE  Past(B, A, e) \in SUBSET (1..n) /\ Past(B, A, e) \subseteq B \cap A /\ Cardinality(Past(B, A, e)) \in Nat
  <1>1. Past(B, A, e) \in SUBSET (1..n) /\ Past(B, A, e) \subseteq B \cap A
    BY DEF Past
  <1> QED BY <1>1, Counted

LEMMA CountsIn ==
  ASSUME NEW n \in Nat, NEW B \in SUBSET (1..n), NEW A \in SUBSET (1..n), NEW c
  PROVE  /\ IsFiniteSet(B) /\ Cardinality(B) \in Nat /\ Cardinality(A \cap B) \in Nat
         /\ Cardinality(A \cap (B \ {c})) \in Nat /\ Cardinality(B \ {c}) \in Nat
  <1>1. A \cap B \in SUBSET (1..n) /\ A \cap (B \ {c}) \in SUBSET (1..n) /\ B \ {c} \in SUBSET (1..n)
    OBVIOUS
  <1> QED BY <1>1, Counted

\* A chunk at the end of the row is past nothing.
LEMMA PastAdd ==
  ASSUME NEW n \in Nat, NEW B \in SUBSET (1..n), NEW A \in SUBSET (1..n), NEW c \in 1..n,
         c \notin A, \A x \in B : x < c, NEW e \in Nat, NEW e1 \in Nat, e <= e1
  PROVE  /\ Cardinality(Past(B \cup {c}, A, e1)) <= Cardinality(Past(B, A, e))
         /\ A \cap (B \cup {c}) = A \cap B /\ Cardinality(B \cup {c}) = Cardinality(B) + 1
  <1>1. \A x \in B : Rank(B \cup {c}, x) = Rank(B, x) /\ Rank(B, x) \in Nat
    <2> SUFFICES ASSUME NEW x \in B PROVE Rank(B \cup {c}, x) = Rank(B, x) /\ Rank(B, x) \in Nat
      OBVIOUS
    <2>1. x \in Nat /\ c \in Nat /\ x < c
      OBVIOUS
    <2>2. {k \in B \cup {c} : k <= x} = {k \in B : k <= x}
      BY <2>1
    <2> QED BY <2>2, RankFalls DEF Rank
  <1>2. Past(B \cup {c}, A, e1) \in SUBSET Past(B, A, e)
    <2> SUFFICES ASSUME NEW x \in B \cap A, Rank(B \cup {c}, x) > e1 PROVE Rank(B, x) > e
      BY DEF Past
    <2>1. Rank(B, x) \in Nat /\ Rank(B, x) > e1
      BY <1>1
    <2> QED BY <2>1
  <1>3. c \notin B
    OBVIOUS
  <1>4. Cardinality(B \cup {c}) = Cardinality(B) + 1
    BY <1>3, Counted, FS_AddElement
  <1>5. Past(B, A, e) \in SUBSET (1..n)
    BY PastIn
  <1>6. Cardinality(Past(B \cup {c}, A, e1)) <= Cardinality(Past(B, A, e))
    BY <1>2, <1>5, CountedIn
  <1>7. A \cap (B \cup {c}) = A \cap B
    OBVIOUS
  <1> QED BY <1>4, <1>6, <1>7

\* What is taken out of the row moves one over the offset at most.
LEMMA PastRemove ==
  ASSUME NEW n \in Nat, NEW B \in SUBSET (1..n), NEW A \in SUBSET (1..n), NEW c \in B,
         NEW e \in Int, NEW e1 \in Int, e1 = e - 1 \/ e1 = e
  PROVE  /\ Cardinality(Past(B \ {c}, A, e1)) <= Cardinality(Past(B, A, e)) + (e - e1)
         /\ Cardinality(A \cap (B \ {c})) >= Cardinality(A \cap B) - 1
         /\ Cardinality(B \ {c}) = Cardinality(B) - 1
  <1> DEFINE T == Span(B, e1, e)
             P == Past(B, A, e)
             P1 == Past(B \ {c}, A, e1)
  <1>1. \A x \in B \ {c} : Rank(B \ {c}, x) <= Rank(B, x) /\ Rank(B, x) \in Nat /\ Rank(B \ {c}, x) \in Nat
    BY RankFalls
  <1>2. e1 \in Int
    OBVIOUS
  <1>3. P1 \subseteq P \cup T
    <2> SUFFICES ASSUME NEW x \in (B \ {c}) \cap A, Rank(B \ {c}, x) > e1
                 PROVE  Rank(B, x) > e \/ (e1 < Rank(B, x) /\ Rank(B, x) <= e)
      BY DEF Past, Span
    <2>1. Rank(B \ {c}, x) <= Rank(B, x) /\ Rank(B, x) \in Nat /\ Rank(B \ {c}, x) \in Nat
      BY <1>1
    <2> QED BY <1>2, <2>1
  <1>4. /\ T \in SUBSET (1..n) /\ Cardinality(T) \in Nat
        /\ (e <= e1 => Cardinality(T) = 0) /\ (e1 < e => Cardinality(T) <= e - e1)
    <2>1. e \in Int
      OBVIOUS
    <2> QED BY <1>2, <2>1, RankSpan
  <1> HIDE DEF T
  <1>5. P \in SUBSET (1..n) /\ P1 \in SUBSET (1..n) /\ Cardinality(P) \in Nat /\ Cardinality(P1) \in Nat
    BY PastIn
  <1> HIDE DEF P, P1
  <1>6. Cardinality(P1) <= Cardinality(P) + (e - e1)
    <2>1. Cardinality(P1) <= Cardinality(P \cup T)
      BY <1>3, <1>4, <1>5, CountedIn
    <2>2. Cardinality(P \cup T) <= Cardinality(P) + Cardinality(T) /\ Cardinality(P \cup T) \in Nat
      BY <1>4, <1>5, CountedTogether, Counted
    <2>3. Cardinality(T) <= e - e1 /\ Cardinality(T) \in Nat
      BY <1>2, <1>4
    <2> QED BY <1>2, <1>5, <2>1, <2>2, <2>3
  <1>7. Cardinality(B \ {c}) = Cardinality(B) - 1
    BY Counted, FS_RemoveElement
  <1>8. Cardinality(A \cap (B \ {c})) >= Cardinality(A \cap B) - 1
    <2> DEFINE Q == A \cap B
    <2>1. A \cap (B \ {c}) = Q \ {c} /\ Q \in SUBSET (1..n)
      OBVIOUS
    <2> HIDE DEF Q
    <2>2. IsFiniteSet(Q) /\ Cardinality(Q) \in Nat
      BY <2>1, Counted
    <2>3. Cardinality(Q \ {c}) = IF c \in Q THEN Cardinality(Q) - 1 ELSE Cardinality(Q)
      BY <2>2, FS_RemoveElement
    <2>4. Cardinality(Q \ {c}) >= Cardinality(Q) - 1
      BY <2>2, <2>3
    <2> QED BY <2>1, <2>4 DEF Q
  <1> QED BY <1>6, <1>7, <1>8 DEF P, P1

LEMMA LeftMoves ==
  ASSUME NEW a \in Nat, NEW g \in Int
  PROVE  /\ LeftBehind(a, g) \in Nat
         /\ LeftBehind(a, g - 1) \in {LeftBehind(a, g), LeftBehind(a, g) + 1}
         /\ LeftBehind(a, g + 1) \in {LeftBehind(a, g), LeftBehind(a, g) - 1}
  BY DEF LeftBehind

\* What the loop holds on to when others add a chunk or take one away.
LEMMA LoopAdd ==
  ASSUME NEW n \in Nat, NEW B \in SUBSET (1..n), NEW A \in SUBSET (1..n), NEW R \in SUBSET (1..n), NEW c \in 1..n,
         c \notin A, \A x \in B : x < c, NEW o \in Nat, NEW a \in Nat, NEW before \in Nat,
         NEW over \in BOOLEAN, NEW sized \in BOOLEAN, NEW removed \in Nat, NEW moves \in Nat,
         LoopOK(B, A, R, o + LeftBehind(a, before - Cardinality(B)), over, sized, removed, moves)
  PROVE  LoopOK(B \cup {c}, A, R, o + LeftBehind(a, before - Cardinality(B \cup {c})), over, sized, removed, moves + 1)
  <1> DEFINE e  == o + LeftBehind(a, before - Cardinality(B))
             e1 == o + LeftBehind(a, before - Cardinality(B \cup {c}))
  <1>1. Cardinality(B) \in Nat /\ Cardinality(R) \in Nat
    BY Counted
  <1>2. Cardinality(B \cup {c}) = Cardinality(B) + 1
    <2>1. c \notin B
      OBVIOUS
    <2> QED BY <2>1, CountsIn, FS_AddElement
  <1>3. before - Cardinality(B \cup {c}) = (before - Cardinality(B)) - 1 /\ before - Cardinality(B) \in Int
    BY <1>1, <1>2
  <1>4. e \in Nat /\ e1 \in {e, e + 1} /\ e1 \in Nat
    <2>1. LeftBehind(a, before - Cardinality(B)) \in Nat
          /\ LeftBehind(a, before - Cardinality(B \cup {c})) \in
               {LeftBehind(a, before - Cardinality(B)), LeftBehind(a, before - Cardinality(B)) + 1}
      BY <1>3, LeftMoves
    <2> QED BY <2>1
  <1> HIDE DEF e, e1
  <1>5. Cardinality(Past(B \cup {c}, A, e1)) <= Cardinality(Past(B, A, e)) /\ A \cap (B \cup {c}) = A \cap B
    <2>1. e <= e1
      BY <1>4
    <2> QED BY <1>4, <2>1, PastAdd
  <1>6. Cardinality(Past(B, A, e)) \in Nat /\ Cardinality(Past(B \cup {c}, A, e1)) \in Nat
        /\ Cardinality(A \cap B) \in Nat
    <2>1. B \cup {c} \in SUBSET (1..n)
      OBVIOUS
    <2>2. Cardinality(A \cap B) \in Nat
      BY CountsIn
    <2>3. Cardinality(Past(B, A, e)) \in Nat
      BY PastIn
    <2>4. Cardinality(Past(B \cup {c}, A, e1)) \in Nat
      <3> DEFINE W == B \cup {c}
      <3>1. W \in SUBSET (1..n)
        BY <2>1
      <3> HIDE DEF W
      <3>2. Cardinality(Past(W, A, e1)) \in Nat
        BY <3>1, PastIn
      <3> QED BY <3>2 DEF W
    <2> QED BY <2>2, <2>3, <2>4
  <1>7. LoopOK(B, A, R, e, over, sized, removed, moves)
    BY DEF e
  <1>8. LoopOK(B \cup {c}, A, R, e1, over, sized, removed, moves + 1)
    <2> DEFINE p == Cardinality(Past(B, A, e))
               p1 == Cardinality(Past(B \cup {c}, A, e1))
               m == Cardinality(A \cap B)
               r == Cardinality(R)
    <2>1. p \in Nat /\ p1 \in Nat /\ m \in Nat /\ r \in Nat /\ p1 <= p
      BY <1>1, <1>5, <1>6
    <2>2. /\ ~over => p + r <= removed
          /\ sized => e + (IF over THEN 0 ELSE p) <= m + moves
      BY <1>7 DEF LoopOK
    <2>3. LoopOK(B \cup {c}, A, R, e1, over, sized, removed, moves + 1) <=>
            /\ ~over => p1 + r <= removed
            /\ sized => e1 + (IF over THEN 0 ELSE p1) <= m + (moves + 1)
      BY <1>5 DEF LoopOK
    <2> HIDE DEF p, p1, m, r
    <2> QED BY <1>4, <2>1, <2>2, <2>3
  <1> QED BY <1>8 DEF e1

LEMMA LoopRemove ==
  ASSUME NEW n \in Nat, NEW B \in SUBSET (1..n), NEW A \in SUBSET (1..n), NEW R \in SUBSET (1..n), NEW c \in 1..n,
         NEW o \in Nat, NEW a \in Nat, NEW before \in Nat,
         NEW over \in BOOLEAN, NEW sized \in BOOLEAN, NEW removed \in Nat, NEW moves \in Nat,
         LoopOK(B, A, R, o + LeftBehind(a, before - Cardinality(B)), over, sized, removed, moves)
  PROVE  LoopOK(B \ {c}, A, R, o + LeftBehind(a, before - Cardinality(B \ {c})), over, sized, removed + 1, moves + 1)
  <1> DEFINE e  == o + LeftBehind(a, before - Cardinality(B))
             e1 == o + LeftBehind(a, before - Cardinality(B \ {c}))
  <1>1. Cardinality(B) \in Nat /\ Cardinality(R) \in Nat /\ before - Cardinality(B) \in Int
    <2>1. Cardinality(B) \in Nat
      BY ONLY n \in Nat, B \in SUBSET (1..n), Counted
    <2>2. Cardinality(R) \in Nat
      BY ONLY n \in Nat, R \in SUBSET (1..n), Counted
    <2> QED BY <2>1, <2>2
  <1>2. LeftBehind(a, before - Cardinality(B)) \in Nat
    BY <1>1, LeftMoves
  <1>3. Cardinality(Past(B, A, e)) \in Nat /\ Cardinality(Past(B \ {c}, A, e1)) \in Nat
        /\ Cardinality(A \cap B) \in Nat /\ Cardinality(A \cap (B \ {c})) \in Nat
    <2>1. B \ {c} \in SUBSET (1..n)
      OBVIOUS
    <2>2. Cardinality(A \cap B) \in Nat /\ Cardinality(A \cap (B \ {c})) \in Nat
      BY CountsIn
    <2> HIDE DEF e, e1
    <2>3. Cardinality(Past(B, A, e)) \in Nat
      BY PastIn
    <2>4. Cardinality(Past(B \ {c}, A, e1)) \in Nat
      BY <2>1, PastIn
    <2> QED BY <2>2, <2>3, <2>4
  <1>4. CASE c \notin B
    <2>1. B \ {c} = B /\ e \in Nat
      BY <1>2, <1>4
    <2> HIDE DEF e
    <2>2. LoopOK(B, A, R, e, over, sized, removed + 1, moves + 1)
      BY <1>1, <1>3, <2>1 DEF LoopOK, e
    <2> QED BY <2>1, <2>2 DEF e
  <1>5. CASE c \in B
    <2>1. Cardinality(B \ {c}) = Cardinality(B) - 1
      BY <1>5, CountsIn, FS_RemoveElement
    <2>2. before - Cardinality(B \ {c}) = (before - Cardinality(B)) + 1
      BY <1>1, <2>1
    <2>3. e \in Nat /\ e1 \in {e - 1, e} /\ e1 \in Int
      <3>1. LeftBehind(a, before - Cardinality(B \ {c})) \in
               {LeftBehind(a, before - Cardinality(B)), LeftBehind(a, before - Cardinality(B)) - 1}
        BY <1>1, <2>2, LeftMoves
      <3> QED BY <1>2, <3>1
    <2> HIDE DEF e, e1
    <2>4. /\ Cardinality(Past(B \ {c}, A, e1)) <= Cardinality(Past(B, A, e)) + (e - e1)
          /\ Cardinality(A \cap (B \ {c})) >= Cardinality(A \cap B) - 1
      <3>1. c \in B
        BY <1>5
      <3>2. e \in Int /\ e1 \in Int /\ (e1 = e - 1 \/ e1 = e)
        BY <2>3
      <3> QED BY <3>1, <3>2, PastRemove
    <2>5. LoopOK(B, A, R, e, over, sized, removed, moves)
      BY DEF e
    <2>6. LoopOK(B \ {c}, A, R, e1, over, sized, removed + 1, moves + 1)
      BY <1>1, <1>3, <2>3, <2>4, <2>5 DEF LoopOK
    <2> QED BY <2>6 DEF e1
  <1> QED BY <1>4, <1>5

LEMMA SelectAdd ==
  ASSUME NEW n \in Nat, NEW B \in SUBSET (1..n), NEW A \in SUBSET (1..n), NEW R \in SUBSET (1..n), NEW c \in 1..n,
         c \notin A, \A x \in B : x < c, NEW o \in Nat, NEW before \in Nat,
         NEW sized \in BOOLEAN, NEW removed \in Nat, NEW moves \in Nat,
         SelectOK(B, A, R, o, before, sized, removed, moves)
  PROVE  SelectOK(B \cup {c}, A, R, o, before, sized, removed, moves + 1)
  <1>1. Cardinality(B) \in Nat /\ Cardinality(R) \in Nat /\ Cardinality(A \cap B) \in Nat
        /\ Cardinality(Past(B, A, o)) \in Nat /\ Cardinality(Past(B \cup {c}, A, o)) \in Nat
    <2>1. A \cap B \in SUBSET (1..n) /\ B \cup {c} \in SUBSET (1..n)
      OBVIOUS
    <2> QED BY <2>1, Counted, PastIn
  <1>2. /\ Cardinality(Past(B \cup {c}, A, o)) <= Cardinality(Past(B, A, o))
        /\ A \cap (B \cup {c}) = A \cap B /\ Cardinality(B \cup {c}) = Cardinality(B) + 1
    <2>1. o <= o
      OBVIOUS
    <2> QED BY <2>1, PastAdd
  <1> DEFINE g == before - Cardinality(B)
             g1 == before - Cardinality(B \cup {c})
  <1>3. g \in Int /\ g1 = g - 1
    BY <1>1, <1>2
  <1>4. SelectOK(B, A, R, o, before, sized, removed, moves) <=>
          /\ Cardinality(Past(B, A, o)) + Cardinality(R) + 0 <= removed
          /\ Cardinality(Past(B, A, o)) + Cardinality(R) + g <= removed
          /\ sized => /\ o + Cardinality(Past(B, A, o)) - 0 <= Cardinality(A \cap B) + moves
                      /\ o + Cardinality(Past(B, A, o)) - g <= Cardinality(A \cap B) + moves
    BY DEF SelectOK
  <1>5. SelectOK(B \cup {c}, A, R, o, before, sized, removed, moves + 1) <=>
          /\ Cardinality(Past(B \cup {c}, A, o)) + Cardinality(R) + 0 <= removed
          /\ Cardinality(Past(B \cup {c}, A, o)) + Cardinality(R) + g1 <= removed
          /\ sized => /\ o + Cardinality(Past(B \cup {c}, A, o)) - 0 <= Cardinality(A \cap B) + (moves + 1)
                      /\ o + Cardinality(Past(B \cup {c}, A, o)) - g1 <= Cardinality(A \cap B) + (moves + 1)
    BY <1>2 DEF SelectOK
  <1> HIDE DEF g, g1
  <1> QED BY <1>1, <1>2, <1>3, <1>4, <1>5

LEMMA SelectRemove ==
  ASSUME NEW n \in Nat, NEW B \in SUBSET (1..n), NEW A \in SUBSET (1..n), NEW R \in SUBSET (1..n), NEW c \in 1..n,
         NEW o \in Nat, NEW before \in Nat,
         NEW sized \in BOOLEAN, NEW removed \in Nat, NEW moves \in Nat,
         SelectOK(B, A, R, o, before, sized, removed, moves)
  PROVE  SelectOK(B \ {c}, A, R, o, before, sized, removed + 1, moves + 1)
  <1> DEFINE B1 == B \ {c}
             p == Cardinality(Past(B, A, o))
             p1 == Cardinality(Past(B1, A, o))
             m == Cardinality(A \cap B)
             m1 == Cardinality(A \cap B1)
             g == before - Cardinality(B)
             g1 == before - Cardinality(B1)
  <1>1. Cardinality(B) \in Nat /\ Cardinality(R) \in Nat /\ m \in Nat /\ m1 \in Nat /\ p \in Nat /\ p1 \in Nat
        /\ g \in Int /\ g1 \in Int
    <2>1. B1 \in SUBSET (1..n)
      OBVIOUS
    <2>2. Cardinality(B) \in Nat /\ Cardinality(B1) \in Nat /\ m \in Nat /\ m1 \in Nat
      BY CountsIn
    <2>3. p \in Nat
      BY PastIn
    <2>4. p1 \in Nat
      BY <2>1, PastIn
    <2>5. Cardinality(R) \in Nat
      BY Counted
    <2>6. g \in Int /\ g1 \in Int
      BY <2>2
    <2> QED BY <2>2, <2>3, <2>4, <2>5, <2>6
  <1>2. p1 <= p /\ m1 >= m - 1 /\ g1 \in {g, g + 1} /\ (g1 = g => m1 = m)
    <2>1. CASE c \in B
      <3>0. o \in Int
        OBVIOUS
      <3>1. p1 <= p + (o - o) /\ m1 >= m - 1 /\ Cardinality(B1) = Cardinality(B) - 1
        BY <2>1, <3>0, PastRemove
      <3>2. g1 = g + 1
        BY <1>1, <3>1
      <3> HIDE DEF p, p1, m, m1, g, g1
      <3> QED BY <1>1, <3>1, <3>2
    <2>2. CASE c \notin B
      <3>1. B1 = B
        BY <2>2
      <3>2. p1 = p /\ m1 = m /\ g1 = g
        BY <3>1
      <3> HIDE DEF p, p1, m, m1, g, g1
      <3> QED BY <1>1, <3>2
    <2> QED BY <2>1, <2>2
  <1>3. SelectOK(B, A, R, o, before, sized, removed, moves) <=>
          /\ p + Cardinality(R) + 0 <= removed /\ p + Cardinality(R) + g <= removed
          /\ sized => o + p - 0 <= m + moves /\ o + p - g <= m + moves
    BY DEF SelectOK
  <1>4. SelectOK(B1, A, R, o, before, sized, removed + 1, moves + 1) <=>
          /\ p1 + Cardinality(R) + 0 <= removed + 1 /\ p1 + Cardinality(R) + g1 <= removed + 1
          /\ sized => o + p1 - 0 <= m1 + (moves + 1) /\ o + p1 - g1 <= m1 + (moves + 1)
    BY DEF SelectOK
  <1> HIDE DEF p, p1, m, m1, g, g1
  <1> QED BY <1>1, <1>2, <1>3, <1>4

\* The batch is read: the offset to come suits whatever its calls give.
CallOK(B, A, R, o, before, over, C, M, sized, removed, moves) ==
  LoopOK(B \ M, A \cup C, R \cup (A \cap C), o + LeftBehind(Cardinality(C), before - Cardinality(B \ M)), over, sized,
         removed, moves)

LEMMA SelectToCall ==
  ASSUME NEW B \in SUBSET AChunk, NEW A \in SUBSET AChunk, NEW R \in SUBSET AChunk,
         NEW o \in Nat, NEW reach \in Int, o <= reach, NEW before \in Nat,
         NEW sized \in BOOLEAN, NEW removed \in Nat, NEW moves \in Nat,
         SelectOK(B, A, R, o, before, sized, removed, moves),
         NEW batch, batch = Span(B, o, reach),
         NEW C \in SUBSET batch, NEW M \in SUBSET C, NEW over \in BOOLEAN, over \/ C = batch, over => C # batch
  PROVE  CallOK(B, A, R, o, before, over, C, M, sized, removed, moves)
  <1> SUFFICES ASSUME NEW e, e = o + LeftBehind(Cardinality(C), before - Cardinality(B \ M))
               PROVE  LoopOK(B \ M, A \cup C, R \cup (A \cap C), e, over, sized, removed, moves)
    BY DEF CallOK
  <1> DEFINE n == NArtChunks
  <1>a. n \in Nat /\ B \in SUBSET (1..n) /\ A \in SUBSET (1..n) /\ R \in SUBSET (1..n)
    BY ArtifactRunsAssumption DEF AChunk
  <1> HIDE DEF n
  <1>0. batch = {c \in B : o < Rank(B, c) /\ Rank(B, c) <= reach}
    BY DEF Span
  <1> USE <1>0, <1>a
  <1> DEFINE B1  == B \ M
             A1  == A \cup C
             P   == Past(B, A, o)
             P1  == Past(B1, A1, e)
             far == {x \in A \cap B : Rank(B, x) > reach}
             k   == Cardinality(C)
             m   == Cardinality(M)
             g   == before - Cardinality(B)
             end == o + k - m
             T   == Span(B1, e, end)
             R1  == R \cup (A \cap C)
  <1>1. C \in SUBSET (1..n) /\ M \in SUBSET (1..n) /\ C \subseteq B /\ M \in SUBSET B /\ B1 \in SUBSET (1..n)
        /\ A1 \in SUBSET (1..n) /\ A \cap C \in SUBSET (1..n) /\ far \in SUBSET (1..n) /\ A \cap B \in SUBSET (1..n)
        /\ R1 \in SUBSET (1..n)
    OBVIOUS
  <1>2. k \in Nat /\ m \in Nat /\ m <= k /\ Cardinality(B) \in Nat /\ Cardinality(R) \in Nat
        /\ Cardinality(A \cap C) \in Nat /\ Cardinality(far) \in Nat /\ Cardinality(A \cap B) \in Nat
        /\ Cardinality(R1) \in Nat
    BY <1>1, Counted, CountedIn
  <1>3. Cardinality(B1) = Cardinality(B) - m
    BY <1>1, CountedWithout
  <1>4. g \in Int /\ before - Cardinality(B1) = g + m /\ end \in Int
    BY <1>2, <1>3
  <1>5. e = o + LeftBehind(k, g + m)
    BY <1>4
  <1>6. /\ e \in Nat
        /\ \E h \in {0, g} : e >= end - h
        /\ \E h \in {0, g} : e <= end - h
    <2> HIDE DEF k, m, g
    <2> QED BY <1>2, <1>4, <1>5 DEF LeftBehind
  <1>7. P \in SUBSET (1..n) /\ Cardinality(P) \in Nat /\ P1 \in SUBSET (1..n) /\ Cardinality(P1) \in Nat
    <2>1. P \in SUBSET (1..n) /\ Cardinality(P) \in Nat
      BY ONLY <1>a, PastIn
    <2>2. P1 \in SUBSET (1..n) /\ Cardinality(P1) \in Nat
      <3>1. B1 \in SUBSET (1..n)
        BY <1>1
      <3> HIDE DEF A1, B1
      <3> QED BY ONLY <1>a, <3>1, PastIn
    <2> QED BY <2>1, <2>2
  <1>8. \A x \in B : Rank(B, x) \in Nat /\ Rank(B, x) >= 1
    <2> SUFFICES ASSUME NEW x \in B PROVE Rank(B, x) \in Nat /\ Rank(B, x) >= 1
      OBVIOUS
    <2>1. Cardinality(B) \in Nat /\ Rank(B, x) \in 1..Cardinality(B)
      BY RankType
    <2> QED BY <2>1
  <1>9. Cardinality(A \cap C) <= Cardinality(P)
    <2>1. A \cap C \subseteq P
      BY <1>8 DEF Past
    <2> QED BY <1>7, <2>1, CountedIn
  <1>10. Cardinality(A1 \cap B1) = Cardinality(A \cap B) - Cardinality(A \cap C) + k - m
    <2>1. A1 \cap B1 = ((A \cap B) \ (A \cap C)) \cup (C \ M)
      BY <1>1
    <2>2. ((A \cap B) \ (A \cap C)) \cap (C \ M) = {}
      OBVIOUS
    <2>3. A \cap C \in SUBSET (A \cap B) /\ (A \cap B) \ (A \cap C) \in SUBSET (1..n) /\ C \ M \in SUBSET (1..n)
      BY <1>1
    <2>4. Cardinality((A \cap B) \ (A \cap C)) = Cardinality(A \cap B) - Cardinality(A \cap C)
      BY <1>1, <2>3, CountedWithout
    <2>5. Cardinality(C \ M) = k - m
      BY <1>1, CountedWithout
    <2>6. Cardinality(A1 \cap B1) = Cardinality((A \cap B) \ (A \cap C)) + Cardinality(C \ M)
      <3> DEFINE Q == (A \cap B) \ (A \cap C)
                 W == C \ M
      <3>1. Q \in SUBSET (1..n) /\ W \in SUBSET (1..n) /\ Q \cap W = {} /\ A1 \cap B1 = Q \cup W
        BY <2>1, <2>2, <2>3
      <3> HIDE DEF Q, W
      <3>2. Cardinality(Q \cup W) = Cardinality(Q) + Cardinality(W)
        <4>1. Q \in SUBSET (1..n)
          BY <3>1
        <4>2. W \in SUBSET (1..n)
          BY <3>1
        <4>3. \A x \in Q : x \notin W
          BY <3>1
        <4> QED BY ONLY <4>1, <4>2, <4>3, n \in Nat, CountedApart
      <3> QED BY <3>1, <3>2 DEF Q, W
    <2> HIDE DEF k, m, A1, B1
    <2> QED BY <1>2, <2>4, <2>5, <2>6
  <1>11. /\ Cardinality(P) + Cardinality(R) <= removed /\ Cardinality(P) + Cardinality(R) + g <= removed
         /\ sized => /\ o + Cardinality(P) <= Cardinality(A \cap B) + moves
                     /\ o + Cardinality(P) - g <= Cardinality(A \cap B) + moves
    <2>1. /\ Cardinality(P) + Cardinality(R) + 0 <= removed /\ Cardinality(P) + Cardinality(R) + g <= removed
          /\ sized => /\ o + Cardinality(P) - 0 <= Cardinality(A \cap B) + moves
                      /\ o + Cardinality(P) - g <= Cardinality(A \cap B) + moves
      BY DEF SelectOK
    <2> HIDE DEF P, g
    <2> QED BY <1>2, <1>4, <1>7, <2>1
  <1>12. CASE C # batch
    <2>1. sized => e + 0 <= Cardinality(A1 \cap B1) + moves
      <3> HIDE DEF P, g, A1, B1, k, m
      <3> QED BY <1>2, <1>4, <1>6, <1>7, <1>9, <1>10, <1>11
    <2> QED BY <1>12, <2>1 DEF LoopOK
  <1>13. CASE C = batch
    <2>1. Cardinality(P) = Cardinality(A \cap C) + Cardinality(far)
      <3>1. (A \cap C) \cap far = {}
        <4> SUFFICES ASSUME NEW x \in C, x \in B, Rank(B, x) > reach PROVE FALSE
          BY <1>1
        <4>1. Rank(B, x) \in Nat /\ Rank(B, x) <= reach
          BY <1>8, <1>13
        <4> QED BY <4>1
      <3>2. ASSUME NEW x \in B \cap A PROVE x \in P <=> x \in C \/ x \in far
        <4>1. Rank(B, x) \in Nat
          BY <1>8
        <4> QED BY <1>13, <4>1 DEF Past
      <3>3. P \subseteq B \cap A /\ A \cap C \subseteq B \cap A /\ far \subseteq B \cap A
        BY <1>1, PastIn
      <3>4. P = (A \cap C) \cup far
        BY <3>2, <3>3
      <3> DEFINE Q == A \cap C
      <3>5. Q \in SUBSET (1..n) /\ far \in SUBSET (1..n) /\ Q \cap far = {} /\ P = Q \cup far
        BY <1>1, <3>1, <3>4
      <3> HIDE DEF P, far, Q
      <3>6. Cardinality(P) = Cardinality(Q) + Cardinality(far)
        <4>1. Q \in SUBSET (1..n) /\ far \in SUBSET (1..n) /\ P = Q \cup far
          BY <3>5
        <4>2. \A x \in Q : x \notin far
          BY <3>5
        <4> QED BY ONLY <4>1, <4>2, n \in Nat, CountedApart
      <3> QED BY <3>6 DEF Q
    <2>2. ASSUME NEW x \in B1, Rank(B, x) <= reach
          PROVE  Rank(B1, x) <= end
      <3> DEFINE low == Span(B, 0, o)
                 upto == {y \in B1 : y <= x}
      <3>1. upto \subseteq low \cup (C \ M)
        <4> SUFFICES ASSUME NEW y \in B1, y <= x PROVE y \in low \/ y \in C
          OBVIOUS
        <4>1. x \in B /\ y \in B /\ x \in Nat /\ y \in Nat
          OBVIOUS
        <4>2. Rank(B, y) <= Rank(B, x)
          <5>1. CASE y = x
            <6>1. Rank(B, x) \in Nat
              BY <1>8, <4>1
            <6> QED BY <5>1, <6>1
          <5>2. CASE y < x
            <6>1. Rank(B, y) < Rank(B, x)
              BY <4>1, <5>2, RankGrows
            <6>2. Rank(B, y) \in Nat /\ Rank(B, x) \in Nat
              BY <1>8, <4>1
            <6> QED BY <6>1, <6>2
          <5> QED BY <4>1, <5>1, <5>2
        <4>3. Rank(B, y) <= reach /\ Rank(B, y) \in Nat /\ Rank(B, y) >= 1
          BY <1>8, <2>2, <4>1, <4>2
        <4> QED BY <1>13, <4>1, <4>3 DEF Span
      <3>2. low \in SUBSET (1..n) /\ Cardinality(low) <= o /\ Cardinality(low) \in Nat
        <4>1. 0 \in Int /\ o \in Int
          OBVIOUS
        <4>2. low \in SUBSET (1..n) /\ Cardinality(low) \in Nat /\ (o <= 0 => Cardinality(low) = 0)
              /\ (0 < o => Cardinality(low) <= o - 0)
          BY <4>1, RankSpan
        <4> HIDE DEF low
        <4> QED BY <4>2
      <3>3. C \ M \in SUBSET (1..n) /\ Cardinality(C \ M) = k - m
        BY <1>1, CountedWithout
      <3>4. Cardinality(upto) = Rank(B1, x) /\ upto \in SUBSET (1..n)
        BY DEF Rank
      <3> HIDE DEF low, upto
      <3>5. Cardinality(upto) <= Cardinality(low \cup (C \ M)) /\ Cardinality(upto) \in Nat
            /\ Cardinality(low \cup (C \ M)) \in Nat
        BY <3>1, <3>2, <3>3, <3>4, CountedIn, Counted
      <3>6. Cardinality(low \cup (C \ M)) <= Cardinality(low) + Cardinality(C \ M)
        BY <3>2, <3>3, CountedTogether
      <3>7. Rank(B1, x) <= Cardinality(low) + (k - m)
        <4> HIDE DEF k, m, B1
        <4> QED BY <1>2, <3>2, <3>3, <3>4, <3>5, <3>6
      <3> HIDE DEF k, m, B1
      <3> QED BY <1>2, <3>2, <3>4, <3>5, <3>7
    <2>3. P1 \subseteq far \cup T
      <3> SUFFICES ASSUME NEW x \in P1 PROVE x \in far \/ x \in T
        OBVIOUS
      <3>1. x \in B1 /\ x \in B /\ x \in A1 /\ Rank(B1, x) > e /\ Rank(B, x) \in Nat
        BY <1>8 DEF Past
      <3>2. CASE Rank(B, x) <= reach
        <4>1. x \in T
          BY <2>2, <3>1, <3>2 DEF Span
        <4> QED BY <4>1
      <3>3. CASE ~(Rank(B, x) <= reach)
        <4>1. x \notin C
          BY <1>13, <3>3
        <4> QED BY <3>1, <3>3, <4>1
      <3> QED BY <3>2, <3>3
    <2>4. /\ T \in SUBSET (1..n) /\ Cardinality(T) \in Nat
          /\ (end <= e => Cardinality(T) = 0) /\ (e < end => Cardinality(T) <= end - e)
      <3>1. B1 \in SUBSET (1..n) /\ e \in Int /\ end \in Int
        BY <1>1, <1>4, <1>6
      <3> HIDE DEF end, B1
      <3> QED BY <3>1, RankSpan
    <2>5. Cardinality(P1) <= Cardinality(far) + Cardinality(T) /\ Cardinality(T) \in Nat
      <3> HIDE DEF far, T, P1
      <3>1. Cardinality(P1) <= Cardinality(far \cup T) /\ Cardinality(far \cup T) \in Nat /\ Cardinality(T) \in Nat
        BY <1>1, <2>3, <2>4, CountedIn, Counted
      <3>2. Cardinality(far \cup T) <= Cardinality(far) + Cardinality(T)
        BY <1>1, <2>4, CountedTogether
      <3> QED BY <1>2, <1>7, <3>1, <3>2
    <2>6. Cardinality(R1) <= Cardinality(R) + Cardinality(A \cap C)
      BY <1>1, CountedTogether
    <2>7. Cardinality(P1) + Cardinality(R1) <= removed
      <3> HIDE DEF end, far, T, P, P1, R1, g
      <3> QED BY <1>2, <1>4, <1>6, <1>7, <1>11, <2>1, <2>4, <2>5, <2>6
    <2>8. sized => e + Cardinality(P1) <= Cardinality(A1 \cap B1) + moves
      <3>1. end = o + k - m
        OBVIOUS
      <3> HIDE DEF end, far, T, P, P1, R1, g, A1, B1, k, m
      <3> QED BY <1>2, <1>4, <1>6, <1>7, <1>10, <1>11, <2>1, <2>4, <2>5, <3>1
    <2> QED BY <1>13, <2>7, <2>8 DEF LoopOK
  <1> QED BY <1>12, <1>13

Tried == {c \in AChunk : attempts[c] > 0}
Again == {c \in AChunk : attempts[c] > 1}
Moves == shifts.added + shifts.removed
OffsetAfter(called, B) == gen.offset + LeftBehind(called, gen.before - Cardinality(B))

\* In the loop; before the batch is read; and while its calls are out, whichever
\* C are made and whichever M of them give artifacts.
OffsetHolds ==
  /\ gen.at \in {"count", "tie", "after"} =>
       LoopOK(Bare \ gen.made, Tried, Again, OffsetAfter(gen.attempted, Bare \ gen.made), gen.over, gen.size # 0,
              shifts.removed, Moves)
  /\ gen.at = "select" =>
       SelectOK(Bare, Tried, Again, gen.offset, gen.before, gen.size # 0, shifts.removed, Moves)
  /\ gen.at = "call" =>
       \A C \in SUBSET gen.batch : \A M \in SUBSET C :
         LoopOK(Bare \ M, Tried \cup C, Again \cup (Tried \cap C), OffsetAfter(Cardinality(C), Bare \ M), C # gen.batch,
                gen.size # 0, shifts.removed, Moves)

Missed == {c \in gen.had \cap Bare : attempts[c] = 0}

CalledOnce  == Cardinality(Again) <= shifts.removed
WentThrough == gen.through => Cardinality(Missed) <= Moves

GenAt == {"count", "select", "call", "tie", "after", "clusters", "synth", "idle"}

GenRecord ==
  [at : GenAt, then : {"clusters", "idle"}, size : Nat, limit : Nat, left : Int, offset : Nat, before : Nat,
   attempted : Nat, batch : SUBSET AChunk, known : SUBSET AChunk, made : SUBSET AChunk, over : BOOLEAN,
   had : SUBSET AChunk, through : BOOLEAN, todo : SUBSET AClass,
   found : SUBSET [class : AClass, basis : SUBSET AChunk]]

ShiftRecord == [added : Nat, removed : Nat, all : Nat]

GenTyped ==
  /\ arrived \in 0..NArtChunks /\ active \in SUBSET (1..arrived) /\ mined \in SUBSET (1..arrived)
  /\ claims \in SUBSET (1..arrived) /\ liveClaims \in SUBSET claims
  /\ attempts \in [AChunk -> Nat] /\ Tried \subseteq 1..arrived
  /\ gen \in GenRecord /\ gen.batch \cup gen.made \cup gen.had \subseteq 1..arrived
  /\ shifts \in ShiftRecord

GenShape ==
  /\ gen.at \in {"select", "call"} => ~gen.over
  /\ gen.at = "count" => gen.made = {} /\ gen.attempted = 0 /\ gen.size # 0
  /\ gen.at = "after" => gen.made \subseteq claims
  /\ gen.through => gen.at \in {"idle", "clusters"}

\* What is known of an Insight's claims, before and after it is written.
BasisClaimed ==
  /\ claimAbout \in [AChunk -> SUBSET UNION {ChunkNames[c] : c \in AChunk}]
  /\ \A c \in AChunk : claimAbout[c] \subseteq ChunkNames[c] /\ (claimAbout[c] # {} => c \in claims)
  /\ \A i \in classInsights : i.basis \subseteq claims
  /\ \A f \in gen.found : f.basis \subseteq claims

GenHolds == GenTyped /\ GenShape /\ OffsetHolds /\ CalledOnce /\ WentThrough /\ BasisClaimed

LEMMA NoGenTyped ==
  /\ NoGen \in GenRecord /\ NoGen.at = "idle" /\ NoGen.batch = {} /\ NoGen.made = {} /\ NoGen.had = {}
  /\ NoGen.found = {} /\ ~NoGen.through /\ NoGen.offset = 0 /\ NoGen.before = 0 /\ NoGen.attempted = 0 /\ ~NoGen.over
  <1>1. 0 \in Nat /\ 0 \in Int
    OBVIOUS
  <1> QED BY <1>1 DEF NoGen, GenRecord, GenAt

LEMMA BareIn ==
  ASSUME GenTyped
  PROVE  /\ Bare \in SUBSET AChunk /\ Tried \in SUBSET AChunk /\ Again \in SUBSET AChunk
         /\ Bare \in SUBSET (1..arrived) /\ NArtChunks \in Nat /\ 1..arrived \in SUBSET AChunk
         /\ Cardinality(Bare) \in Nat /\ IsFiniteSet(Bare) /\ Moves \in Nat /\ shifts.removed \in Nat
         /\ shifts.added \in Nat /\ arrived \in Nat
  <1>1. NArtChunks \in Nat /\ arrived \in 0..NArtChunks
    BY ArtifactRunsAssumption DEF GenTyped
  <1>2. 1..arrived \in SUBSET AChunk
    BY <1>1 DEF AChunk
  <1>3. Bare \in SUBSET (1..arrived) /\ Tried \in SUBSET AChunk /\ Again \in SUBSET AChunk
    BY DEF GenTyped, Bare, Tried, Again
  <1>4. Bare \in SUBSET AChunk
    BY <1>2, <1>3
  <1>5. Cardinality(Bare) \in Nat /\ IsFiniteSet(Bare)
    BY <1>1, <1>4, Counted DEF AChunk
  <1>6. Moves \in Nat /\ shifts.removed \in Nat /\ shifts.added \in Nat
    BY DEF GenTyped, ShiftRecord, Moves
  <1> QED BY <1>1, <1>2, <1>3, <1>4, <1>5, <1>6

\* A step of the command that leaves the chunks and their calls alone.
Still == UNCHANGED <<active, arrived, mined, claims, liveClaims, claimAbout, classInsights, attempts, shifts>>

LEMMA StillTyped ==
  ASSUME GenTyped, Still, gen' \in GenRecord, gen'.batch \cup gen'.made \cup gen'.had \subseteq 1..arrived
  PROVE  /\ GenTyped' /\ Bare' = Bare /\ Tried' = Tried /\ Again' = Again /\ Moves' = Moves
  BY DEF GenTyped, Still, Bare, Tried, Again, Moves

LEMMA StillHolds ==
  ASSUME GenHolds, Still, gen' \in GenRecord, gen'.batch \cup gen'.made \cup gen'.had \subseteq 1..arrived,
         OffsetHolds', GenShape', WentThrough', \A f \in gen'.found : f.basis \subseteq claims
  PROVE  GenHolds'
  <1>1. GenTyped' /\ Again' = Again
    BY StillTyped DEF GenHolds
  <1>2. CalledOnce'
    BY <1>1 DEF GenHolds, CalledOnce, Still
  <1>3. BasisClaimed'
    BY DEF GenHolds, BasisClaimed, Still
  <1> QED BY <1>1, <1>2, <1>3 DEF GenHolds

\* Nothing is called for; nothing is promised of an offset.
LEMMA BackToIdle ==
  ASSUME GenHolds, UNCHANGED <<active, arrived, mined, claims, liveClaims, claimAbout, shifts>>,
         attempts' = [c \in AChunk |-> 0] \/ attempts' = attempts,
         gen' \in GenRecord, gen'.at \in {"idle", "synth"}, ~gen'.through, gen'.batch = {}, gen'.made = {}, gen'.had = {},
         \A f \in gen'.found : f.basis \subseteq claims, \A i \in classInsights' : i.basis \subseteq claims
  PROVE  GenHolds'
  <1>0. NArtChunks \in Nat /\ Again \in SUBSET AChunk
    BY BareIn DEF GenHolds
  <1>1. attempts' \in [AChunk -> Nat] /\ Tried' \subseteq Tried /\ Again' \in SUBSET Again
    BY DEF GenHolds, GenTyped, Tried, Again
  <1>2. GenTyped'
    BY <1>1 DEF GenHolds, GenTyped
  <1>3. CalledOnce'
    <2>1. Cardinality(Again') <= Cardinality(Again) /\ Cardinality(Again) \in Nat /\ Cardinality(Again') \in Nat
      <3>1. Again' \in SUBSET AChunk
        BY <1>0, <1>1
      <3> QED BY <1>0, <1>1, <3>1, Counted, CountedIn DEF AChunk
    <2>2. shifts.removed \in Nat
      BY BareIn DEF GenHolds
    <2> QED BY <2>1, <2>2 DEF GenHolds, CalledOnce
  <1>4. GenShape' /\ OffsetHolds' /\ WentThrough'
    BY DEF GenShape, OffsetHolds, WentThrough
  <1>5. BasisClaimed'
    BY DEF GenHolds, BasisClaimed
  <1> QED BY <1>2, <1>3, <1>4, <1>5 DEF GenHolds

LEMMA GenDiesStep ==
  ASSUME GenHolds, GenDies
  PROVE  GenHolds'
  <1>1. gen' = NoGen /\ attempts' = [c \in AChunk |-> 0]
        /\ UNCHANGED <<active, arrived, mined, claims, liveClaims, claimAbout, classInsights, gens, shifts>>
    BY DEF GenDies
  <1>2. \A i \in classInsights' : i.basis \subseteq claims
    BY <1>1 DEF GenHolds, BasisClaimed
  <1> QED BY <1>1, <1>2, NoGenTyped, BackToIdle

LEMMA WriteInsightsStep ==
  ASSUME GenHolds, WriteInsights
  PROVE  GenHolds'
  <1>1. /\ gen' = NoGen /\ UNCHANGED <<active, arrived, mined, claims, liveClaims, claimAbout, gens, attempts, shifts>>
        /\ classInsights' = classInsights \cup
             {[class |-> f.class, basis |-> f.basis, about |-> {}, gen |-> gens] : f \in gen.found}
    BY DEF WriteInsights
  <1>2. \A i \in classInsights' : i.basis \subseteq claims
    <2>1. \A f \in gen.found : [class |-> f.class, basis |-> f.basis, about |-> {}, gen |-> gens].basis \subseteq claims
      BY DEF GenHolds, BasisClaimed
    <2> QED BY <1>1, <2>1 DEF GenHolds, BasisClaimed
  <1> QED BY <1>1, <1>2, NoGenTyped, BackToIdle

LEMMA FindClustersStep ==
  ASSUME GenHolds, FindClusters
  PROVE  GenHolds'
  <1>1. /\ attempts' = [c \in AChunk |-> 0]
        /\ UNCHANGED <<active, arrived, mined, claims, liveClaims, claimAbout, classInsights, gens, shifts>>
        /\ \E todo \in SUBSET AClass : gen' = IF todo = {} THEN NoGen ELSE [NoGen EXCEPT !.at = "synth", !.todo = todo]
    BY DEF FindClusters
  <1>2. PICK todo \in SUBSET AClass : gen' = IF todo = {} THEN NoGen ELSE [NoGen EXCEPT !.at = "synth", !.todo = todo]
    BY <1>1
  <1> DEFINE r == [NoGen EXCEPT !.at = "synth", !.todo = todo]
  <1>3. r \in GenRecord /\ r.at = "synth" /\ ~r.through /\ r.batch = {} /\ r.made = {} /\ r.had = {} /\ r.found = {}
    BY NoGenTyped DEF GenRecord, GenAt
  <1>4. gen' = NoGen \/ gen' = r
    BY <1>2
  <1> HIDE DEF r
  <1>5. /\ gen' \in GenRecord /\ gen'.at \in {"idle", "synth"} /\ ~gen'.through /\ gen'.batch = {} /\ gen'.made = {}
        /\ gen'.had = {} /\ gen'.found = {}
    BY <1>3, <1>4, NoGenTyped
  <1>6. \A i \in classInsights' : i.basis \subseteq claims
    BY <1>1 DEF GenHolds, BasisClaimed
  <1> QED BY <1>1, <1>5, <1>6, BackToIdle

LEMMA SynthesiseStep ==
  ASSUME GenHolds, NEW k \in AClass, Synthesise(k)
  PROVE  GenHolds'
  <1> DEFINE f == [class |-> k, basis |-> {r[1] : r \in ClaimRows(k)}]
             more == [gen EXCEPT !.todo = @ \ {k}, !.found = @ \cup {f}]
             less == [gen EXCEPT !.todo = @ \ {k}]
  <1>1. gen.at = "synth" /\ Still /\ (gen' = more \/ gen' = less)
    BY DEF Synthesise, Still
  <1>2. f.basis \subseteq claims /\ f \in [class : AClass, basis : SUBSET AChunk]
    <2>1. \A r \in ClaimRows(k) : r[1] \in liveClaims
      BY DEF ClaimRows
    <2>2. liveClaims \subseteq claims /\ claims \subseteq AChunk
      BY BareIn DEF GenHolds, GenTyped
    <2>3. {r[1] : r \in ClaimRows(k)} \subseteq claims
      BY <2>1, <2>2
    <2> QED BY <2>2, <2>3
  <1> HIDE DEF f
  <1>3. gen \in GenRecord
    BY DEF GenHolds, GenTyped
  <1>4. /\ more \in GenRecord /\ more.at = gen.at /\ more.through = gen.through /\ more.batch = gen.batch
        /\ more.made = gen.made /\ more.had = gen.had /\ more.found = gen.found \cup {f}
    BY <1>2, <1>3 DEF GenRecord
  <1>5. /\ less \in GenRecord /\ less.at = gen.at /\ less.through = gen.through /\ less.batch = gen.batch
        /\ less.made = gen.made /\ less.had = gen.had /\ less.found = gen.found
    BY <1>3 DEF GenRecord
  <1> HIDE DEF more, less
  <1>6. /\ gen' \in GenRecord /\ gen'.at = "synth" /\ gen'.through = gen.through /\ gen'.batch = gen.batch
        /\ gen'.made = gen.made /\ gen'.had = gen.had /\ gen'.found \subseteq gen.found \cup {f}
    BY <1>1, <1>4, <1>5
  <1>7. ~gen.through
    BY <1>1 DEF GenHolds, GenShape
  <1>8. OffsetHolds' /\ GenShape' /\ WentThrough'
    BY <1>6, <1>7 DEF OffsetHolds, GenShape, WentThrough
  <1>9. \A h \in gen'.found : h.basis \subseteq claims
    BY <1>2, <1>6 DEF GenHolds, BasisClaimed
  <1>10. gen'.batch \cup gen'.made \cup gen'.had \subseteq 1..arrived
    BY <1>6 DEF GenHolds, GenTyped
  <1> QED BY <1>1, <1>6, <1>8, <1>9, <1>10, StillHolds

LEMMA RelinkStep ==
  ASSUME GenHolds, Relink
  PROVE  GenHolds'
  <1>1. /\ gen.at = "idle" /\ UNCHANGED <<active, arrived, mined, claims, liveClaims, gen, gens, attempts, shifts>>
        /\ claimAbout' = [c \in AChunk |-> IF c \in claims \cap mined THEN ChunkNames[c] ELSE claimAbout[c]]
    BY DEF Relink
  <1>2. PICK mentioned \in [classInsights -> SUBSET AEntity] :
          classInsights' = {[i EXCEPT !.about = @ \cup (mentioned[i] \cap UNION {ChunkNames[c] : c \in i.basis \cap mined})] :
                              i \in classInsights}
    BY DEF Relink
  <1>3. \A i \in classInsights' : i.basis \subseteq claims
    <2>1. \A i : \A x : [i EXCEPT !.about = x].basis = i.basis
      OBVIOUS
    <2>2. \A j \in classInsights' : \E i \in classInsights : j.basis = i.basis
      <3> SUFFICES ASSUME NEW j \in classInsights' PROVE \E i \in classInsights : j.basis = i.basis
        OBVIOUS
      <3>1. PICK i \in classInsights :
              j = [i EXCEPT !.about = @ \cup (mentioned[i] \cap UNION {ChunkNames[c] : c \in i.basis \cap mined})]
        BY <1>2
      <3> DEFINE more == i.about \cup (mentioned[i] \cap UNION {ChunkNames[c] : c \in i.basis \cap mined})
      <3>2. j = [i EXCEPT !.about = more]
        BY <3>1
      <3> HIDE DEF more
      <3> QED BY <2>1, <3>2
    <2> QED BY <2>2 DEF GenHolds, BasisClaimed
  <1>4. BasisClaimed'
    BY <1>1, <1>3 DEF GenHolds, BasisClaimed
  <1>5. GenTyped' /\ Bare' = Bare /\ Tried' = Tried /\ Again' = Again /\ Moves' = Moves
    BY <1>1 DEF GenHolds, GenTyped, Bare, Tried, Again, Moves
  <1>6. Missed' = Missed
    BY <1>1, <1>5 DEF Missed
  <1> QED BY <1>1, <1>4, <1>5, <1>6 DEF GenHolds, GenShape, OffsetHolds, CalledOnce, WentThrough

LEMMA BeginGenStep ==
  ASSUME GenHolds, BeginGen
  PROVE  GenHolds'
  <1>1. PICK size \in ArtBatches, limit \in ArtLimits, perChunk \in BOOLEAN, insight \in BOOLEAN :
       /\ perChunk \/ insight
       /\ gen' = [NoGen EXCEPT !.at = IF ~perChunk THEN "clusters" ELSE IF size = 0 THEN "select" ELSE "count",
                               !.then = IF insight THEN "clusters" ELSE "idle", !.size = size,
                               !.limit = limit, !.left = limit, !.had = IF perChunk THEN Bare ELSE {}]
    BY DEF BeginGen
  <1>2. /\ attempts' = [c \in AChunk |-> 0] /\ shifts' = [shifts EXCEPT !.added = 0, !.removed = 0]
        /\ UNCHANGED <<active, arrived, mined, claims, liveClaims, claimAbout, classInsights>>
    BY DEF BeginGen
  <1> DEFINE at == IF ~perChunk THEN "clusters" ELSE IF size = 0 THEN "select" ELSE "count"
             then == IF insight THEN "clusters" ELSE "idle"
             had == IF perChunk THEN Bare ELSE {}
             r == [NoGen EXCEPT !.at = at, !.then = then, !.size = size, !.limit = limit, !.left = limit, !.had = had]
  <1>3. size \in Nat /\ limit \in Nat /\ limit \in Int
    BY ArtifactRunsAssumption
  <1>4. at \in GenAt /\ then \in {"clusters", "idle"} /\ had \subseteq Bare
        /\ (at = "count" => size # 0) /\ (at = "select" => size = 0) /\ at \in {"clusters", "select", "count"}
    BY DEF GenAt
  <1>5. Bare \subseteq AChunk /\ Bare \subseteq 1..arrived
    BY BareIn DEF GenHolds
  <1> HIDE DEF at, then, had
  <1>6. had \in SUBSET AChunk /\ had \subseteq 1..arrived
    BY <1>4, <1>5
  <1>7. /\ r \in GenRecord /\ r.at = at /\ r.size = size /\ r.had = had /\ r.batch = {} /\ r.made = {}
        /\ r.found = {} /\ ~r.through /\ ~r.over /\ r.offset = 0 /\ r.before = 0 /\ r.attempted = 0
    BY <1>3, <1>4, <1>6, NoGenTyped DEF GenRecord
  <1>8. gen' = r
    BY <1>1 DEF at, then, had
  <1> HIDE DEF r
  <1>9. shifts' \in ShiftRecord /\ shifts'.added = 0 /\ shifts'.removed = 0
    BY <1>2 DEF GenHolds, GenTyped, ShiftRecord
  <1>10. attempts' \in [AChunk -> Nat] /\ Tried' = {} /\ Again' = {} /\ Bare' = Bare /\ Moves' = 0
    BY <1>2, <1>9 DEF Tried, Again, Bare, Moves
  <1>11. GenTyped'
    BY <1>2, <1>6, <1>7, <1>8, <1>9, <1>10 DEF GenHolds, GenTyped
  <1>12. GenShape'
    BY <1>4, <1>7, <1>8 DEF GenShape
  <1>13. \A B, e : Past(B, {}, e) = {}
    BY DEF Past
  <1>14. Cardinality({}) = 0 /\ Cardinality(Bare) \in Nat
    BY FS_EmptySet, BareIn DEF GenHolds
  <1>15. OffsetHolds'
    <2>1. CASE at = "count"
      <3>1. LeftBehind(0, 0 - Cardinality(Bare)) = 0
        BY <1>14 DEF LeftBehind
      <3>2. OffsetAfter(gen.attempted, Bare \ gen.made)' = 0
        <4>1. gen'.attempted = 0 /\ gen'.offset = 0 /\ gen'.before = 0 /\ Bare' \ gen'.made = Bare
          BY <1>7, <1>8, <1>10
        <4>2. OffsetAfter(gen.attempted, Bare \ gen.made)' = 0 + LeftBehind(0, 0 - Cardinality(Bare))
          BY <4>1 DEF OffsetAfter, LeftBehind
        <4> QED BY <3>1, <4>2
      <3>3. LoopOK(Bare, {}, {}, 0, FALSE, TRUE, 0, 0)
        <4>1. {} \cap Bare = {}
          OBVIOUS
        <4> QED BY <1>13, <1>14, <4>1 DEF LoopOK
      <3>4. Bare' \ gen'.made = Bare /\ gen'.over = FALSE /\ (gen'.size # 0) = TRUE
        BY <1>4, <1>7, <1>8, <1>10, <2>1 DEF GenRecord
      <3>5. LoopOK(Bare \ gen.made, Tried, Again, OffsetAfter(gen.attempted, Bare \ gen.made), gen.over, gen.size # 0,
                   shifts.removed, Moves)'
        BY <1>9, <1>10, <3>2, <3>3, <3>4
      <3> QED BY <1>7, <1>8, <2>1, <3>5 DEF OffsetHolds
    <2>2. CASE at = "select"
      <3>1. SelectOK(Bare, {}, {}, 0, 0, FALSE, 0, 0)
        <4>1. \A g \in {0, 0 - Cardinality(Bare)} : 0 + 0 + g <= 0
          BY <1>14
        <4> QED BY <1>13, <1>14, <4>1 DEF SelectOK
      <3>2. (gen'.size # 0) = FALSE
        BY <1>4, <1>7, <1>8, <2>2
      <3>3. SelectOK(Bare, Tried, Again, gen.offset, gen.before, gen.size # 0, shifts.removed, Moves)'
        BY <1>7, <1>8, <1>9, <1>10, <3>1, <3>2
      <3> QED BY <1>7, <1>8, <2>2, <3>3 DEF OffsetHolds
    <2>3. CASE at = "clusters"
      BY <1>7, <1>8, <2>3 DEF OffsetHolds
    <2> QED BY <1>4, <2>1, <2>2, <2>3
  <1>16. CalledOnce' /\ WentThrough'
    BY <1>7, <1>8, <1>9, <1>10, <1>14 DEF CalledOnce, WentThrough
  <1>17. BasisClaimed'
    BY <1>2, <1>7, <1>8 DEF GenHolds, BasisClaimed
  <1> QED BY <1>11, <1>12, <1>15, <1>16, <1>17 DEF GenHolds

LEMMA StartBatchStep ==
  ASSUME GenHolds, StartBatch
  PROVE  GenHolds'
  <1> DEFINE n == Cardinality(Bare)
             done == n <= gen.offset
             stop == n <= gen.offset \/ gen.over \/ gen.left <= 0
             ends == [gen EXCEPT !.at = gen.then, !.through = done]
             goes == [gen EXCEPT !.at = "select", !.before = n]
  <1>1. gen.at = "count" /\ Still /\ gen' = IF stop THEN ends ELSE goes
    BY DEF StartBatch, Still
  <1>2. n \in Nat
    BY BareIn DEF GenHolds
  <1>3. gen \in GenRecord /\ gen.batch \cup gen.made \cup gen.had \subseteq 1..arrived
        /\ (\A f \in gen.found : f.basis \subseteq claims)
        /\ gen.made = {} /\ gen.attempted = 0 /\ gen.size # 0 /\ ~gen.through
    BY <1>1 DEF GenHolds, GenTyped, GenShape, BasisClaimed
  <1>4. gen.offset \in Nat /\ gen.then \in {"clusters", "idle"} /\ gen.over \in BOOLEAN /\ gen.before \in Nat
    BY <1>3 DEF GenRecord
  <1>5. LoopOK(Bare, Tried, Again, gen.offset, gen.over, TRUE, shifts.removed, Moves)
    <2>1. LeftBehind(0, gen.before - n) = 0
      BY <1>2, <1>4 DEF LeftBehind
    <2>2. OffsetAfter(gen.attempted, Bare \ gen.made) = gen.offset /\ Bare \ gen.made = Bare /\ (gen.size # 0) = TRUE
      BY <1>3, <1>4, <2>1 DEF OffsetAfter
    <2>3. LoopOK(Bare \ gen.made, Tried, Again, OffsetAfter(gen.attempted, Bare \ gen.made), gen.over, gen.size # 0,
                 shifts.removed, Moves)
      BY <1>1 DEF GenHolds, OffsetHolds
    <2> QED BY <2>2, <2>3
  <1>6. /\ ends \in GenRecord /\ ends.at = gen.then /\ ends.through = (n <= gen.offset) /\ ends.batch = gen.batch
        /\ ends.made = gen.made /\ ends.had = gen.had /\ ends.found = gen.found
    <2>1. done \in BOOLEAN
      OBVIOUS
    <2> HIDE DEF done
    <2>2. /\ ends \in GenRecord /\ ends.at = gen.then /\ ends.through = done /\ ends.batch = gen.batch
          /\ ends.made = gen.made /\ ends.had = gen.had /\ ends.found = gen.found
      BY <1>3, <1>4, <2>1 DEF GenRecord, GenAt
    <2> QED BY <2>2 DEF done
  <1>7. /\ goes \in GenRecord /\ goes.at = "select" /\ goes.before = n /\ goes.through = gen.through
        /\ goes.batch = gen.batch /\ goes.made = gen.made /\ goes.had = gen.had /\ goes.found = gen.found
        /\ goes.over = gen.over /\ goes.offset = gen.offset /\ goes.size = gen.size
    BY <1>2, <1>3 DEF GenRecord, GenAt
  <1>8. /\ Bare \in SUBSET AChunk /\ Tried \in SUBSET AChunk /\ Again \in SUBSET AChunk /\ NArtChunks \in Nat
        /\ Moves \in Nat /\ shifts.removed \in Nat
    BY BareIn DEF GenHolds
  <1>9. /\ Cardinality(Past(Bare, Tried, gen.offset)) \in Nat /\ Cardinality(Again) \in Nat
        /\ Tried \cap Bare \in SUBSET Bare /\ Cardinality(Tried \cap Bare) \in Nat
    <2>1. Tried \cap Bare \in SUBSET AChunk
      BY <1>8
    <2> QED BY <1>8, <2>1, PastIn, Counted DEF AChunk
  <1>10. CASE stop
    <2>1. gen' = ends
      BY <1>1, <1>10
    <2> HIDE DEF ends
    <2>2. /\ gen' \in GenRecord /\ gen'.at \in {"clusters", "idle"} /\ gen'.batch = gen.batch
          /\ gen'.made = gen.made /\ gen'.had = gen.had /\ gen'.found = gen.found /\ gen'.through = (n <= gen.offset)
      BY <1>4, <1>6, <2>1
    <2>3. OffsetHolds' /\ GenShape'
      BY <2>2 DEF OffsetHolds, GenShape
    <2>4. WentThrough'
      <3> SUFFICES ASSUME n <= gen.offset PROVE Cardinality(Missed') <= Moves'
        BY <2>2 DEF WentThrough
      <3>1. Bare' = Bare /\ Moves' = Moves /\ attempts' = attempts
        BY <1>1 DEF Still, Bare, Moves
      <3>2. Missed' \in SUBSET (Bare \ Tried)
        <4> SUFFICES ASSUME NEW c \in Bare, attempts[c] = 0 PROVE c \notin Tried
          BY <3>1 DEF Missed
        <4> QED BY DEF Tried
      <3>3. Bare \ Tried = Bare \ (Tried \cap Bare) /\ Bare \ Tried \in SUBSET AChunk
        BY <1>8
      <3>4. Cardinality(Bare \ Tried) = n - Cardinality(Tried \cap Bare)
        BY <1>8, <1>9, <3>3, CountedWithout DEF AChunk
      <3>5. Cardinality(Missed') <= Cardinality(Bare \ Tried) /\ Cardinality(Missed') \in Nat
        <4>1. Missed' \in SUBSET AChunk
          BY <3>2, <3>3
        <4> QED BY <1>8, <3>2, <3>3, <4>1, CountedIn, Counted DEF AChunk
      <3>6. gen.offset + (IF gen.over THEN 0 ELSE Cardinality(Past(Bare, Tried, gen.offset)))
              <= Cardinality(Tried \cap Bare) + Moves
        BY <1>5 DEF LoopOK
      <3>7. gen.offset <= Cardinality(Tried \cap Bare) + Moves
        BY <1>4, <1>8, <1>9, <3>6
      <3> HIDE DEF n
      <3> QED BY <1>2, <1>4, <1>8, <1>9, <3>1, <3>4, <3>5, <3>7
    <2>5. gen'.batch \cup gen'.made \cup gen'.had \subseteq 1..arrived /\ \A f \in gen'.found : f.basis \subseteq claims
      BY <1>3, <2>2
    <2> QED BY <1>1, <2>2, <2>3, <2>4, <2>5, StillHolds
  <1>11. CASE ~stop
    <2>1. gen' = goes /\ ~gen.over
      BY <1>1, <1>11
    <2> HIDE DEF goes, n
    <2>2. /\ gen' \in GenRecord /\ gen'.at = "select" /\ gen'.before = n /\ ~gen'.through
          /\ gen'.batch = gen.batch /\ gen'.made = gen.made /\ gen'.had = gen.had /\ gen'.found = gen.found
          /\ ~gen'.over /\ gen'.offset = gen.offset /\ gen'.size # 0
      BY <1>3, <1>7, <2>1
    <2>3. Bare' = Bare /\ Tried' = Tried /\ Again' = Again /\ Moves' = Moves /\ shifts' = shifts
      BY <1>1 DEF Still, Bare, Tried, Again, Moves
    <2>4. SelectOK(Bare, Tried, Again, gen.offset, n, TRUE, shifts.removed, Moves)
      <3>1. /\ Cardinality(Past(Bare, Tried, gen.offset)) + Cardinality(Again) <= shifts.removed
            /\ gen.offset + Cardinality(Past(Bare, Tried, gen.offset)) <= Cardinality(Tried \cap Bare) + Moves
        BY <1>5, <2>1 DEF LoopOK
      <3>2. \A g \in {0, n - Cardinality(Bare)} : g = 0
        BY <1>2 DEF n
      <3> QED BY <1>4, <1>8, <1>9, <3>1, <3>2 DEF SelectOK
    <2>5. (gen'.size # 0) = TRUE
      BY <2>2
    <2>6. SelectOK(Bare, Tried, Again, gen.offset, gen.before, gen.size # 0, shifts.removed, Moves)'
      BY <2>2, <2>3, <2>4, <2>5
    <2>7. OffsetHolds'
      BY <2>2, <2>6 DEF OffsetHolds
    <2>8. GenShape' /\ WentThrough'
      BY <2>2 DEF GenShape, WentThrough
    <2>9. gen'.batch \cup gen'.made \cup gen'.had \subseteq 1..arrived /\ \A f \in gen'.found : f.basis \subseteq claims
      BY <1>3, <2>2
    <2> QED BY <1>1, <2>2, <2>7, <2>8, <2>9, StillHolds
  <1> QED BY <1>10, <1>11

LEMMA SelectBatchStep ==
  ASSUME GenHolds, SelectBatch
  PROVE  GenHolds'
  <1> DEFINE reach  == gen.offset + (IF gen.size = 0 THEN gen.left ELSE Least(gen.size, gen.left))
             picked == {c \in Bare : gen.offset < BarePlace(c) /\ BarePlace(c) <= reach}
             none == [gen EXCEPT !.at = gen.then]
             call == [gen EXCEPT !.at = "call", !.batch = picked, !.known = picked \cap mined]
  <1>1. gen.at = "select" /\ Still
        /\ gen' = CASE picked = {} -> none [] picked # {} /\ mined = {} -> NoGen [] OTHER -> call
    BY DEF SelectBatch, Still
  <1>2. gen \in GenRecord /\ gen.batch \cup gen.made \cup gen.had \subseteq 1..arrived
        /\ (\A f \in gen.found : f.basis \subseteq claims) /\ ~gen.through /\ ~gen.over
    BY <1>1 DEF GenHolds, GenTyped, GenShape, BasisClaimed
  <1>3. gen.offset \in Nat /\ gen.then \in {"clusters", "idle"} /\ gen.before \in Nat /\ gen.size \in Nat
        /\ gen.left \in Int
    BY <1>2 DEF GenRecord
  <1>4. reach \in Int
    BY <1>3 DEF Least
  <1>5. picked \subseteq Bare /\ picked = {c \in Bare : gen.offset < Rank(Bare, c) /\ Rank(Bare, c) <= reach}
    BY DEF BarePlace, Rank
  <1>6. /\ Bare \in SUBSET AChunk /\ Tried \in SUBSET AChunk /\ Again \in SUBSET AChunk /\ NArtChunks \in Nat
        /\ Moves \in Nat /\ shifts.removed \in Nat /\ Bare \subseteq 1..arrived
    BY BareIn DEF GenHolds
  <1>7. picked # {} => gen.offset <= reach
    <2> SUFFICES ASSUME NEW c \in Bare, gen.offset < Rank(Bare, c), Rank(Bare, c) <= reach PROVE gen.offset <= reach
      BY <1>5
    <2>1. Rank(Bare, c) \in Nat
      BY <1>6, RankFalls DEF AChunk
    <2> HIDE DEF reach
    <2> QED BY <1>3, <1>4, <2>1
  <1> HIDE DEF reach, picked
  <1>8. /\ none \in GenRecord /\ none.at = gen.then /\ none.through = gen.through /\ none.batch = gen.batch
        /\ none.made = gen.made /\ none.had = gen.had /\ none.found = gen.found
    BY <1>2, <1>3 DEF GenRecord, GenAt
  <1>9. /\ call \in GenRecord /\ call.at = "call" /\ call.through = gen.through /\ call.batch = picked
        /\ call.made = gen.made /\ call.had = gen.had /\ call.found = gen.found /\ call.over = gen.over
        /\ call.offset = gen.offset /\ call.size = gen.size /\ call.before = gen.before
    <2>1. picked \in SUBSET AChunk /\ picked \cap mined \in SUBSET AChunk
      BY <1>5, <1>6
    <2> QED BY <1>2, <2>1 DEF GenRecord, GenAt
  <1> HIDE DEF none, call
  <1>10. CASE gen' = NoGen
    <2>1. \A i \in classInsights' : i.basis \subseteq claims
      BY <1>1 DEF GenHolds, BasisClaimed, Still
    <2> QED BY <1>1, <1>10, <2>1, NoGenTyped, BackToIdle DEF Still
  <1>11. CASE gen' = none
    <2>1. OffsetHolds' /\ GenShape' /\ WentThrough'
      BY <1>2, <1>3, <1>8, <1>11 DEF OffsetHolds, GenShape, WentThrough
    <2> QED BY <1>1, <1>2, <1>8, <1>11, <2>1, StillHolds
  <1>12. CASE gen' = call /\ picked # {}
    <2>1. Bare' = Bare /\ Tried' = Tried /\ Again' = Again /\ Moves' = Moves /\ shifts' = shifts
      BY <1>1 DEF Still, Bare, Tried, Again, Moves
    <2>2. SelectOK(Bare, Tried, Again, gen.offset, gen.before, gen.size # 0, shifts.removed, Moves)
      BY <1>1 DEF GenHolds, OffsetHolds
    <2>3. ASSUME NEW C \in SUBSET picked, NEW M \in SUBSET C
          PROVE  LoopOK(Bare \ M, Tried \cup C, Again \cup (Tried \cap C),
                        gen.offset + LeftBehind(Cardinality(C), gen.before - Cardinality(Bare \ M)),
                        C # picked, gen.size # 0, shifts.removed, Moves)
      <3> DEFINE B == Bare
                 A == Tried
                 R == Again
                 sized == gen.size # 0
                 o == gen.offset
                 b == gen.before
                 rm == shifts.removed
                 mv == Moves
      <3>2. sized \in BOOLEAN /\ o \in Nat /\ b \in Nat /\ rm \in Nat /\ mv \in Nat
        BY <1>3, <1>6
      <3>3. o <= reach /\ reach \in Int
        BY <1>4, <1>7, <1>12
      <3>4. SelectOK(B, A, R, o, b, sized, rm, mv)
        BY <2>2
      <3>5. picked = Span(B, o, reach)
        BY <1>5 DEF Span
      <3>6. B \in SUBSET AChunk /\ A \in SUBSET AChunk /\ R \in SUBSET AChunk
        BY <1>6
      <3> HIDE DEF B, A, R, sized, o, b, rm, mv
      <3>7. C \in SUBSET picked /\ M \in SUBSET C
        OBVIOUS
      <3> DEFINE over == C # picked
      <3>9. over \in BOOLEAN /\ (over \/ C = picked) /\ (over => C # picked)
        OBVIOUS
      <3> HIDE DEF over
      <3>8. CallOK(B, A, R, o, b, over, C, M, sized, rm, mv)
        BY ONLY <3>2, <3>3, <3>4, <3>5, <3>6, <3>7, <3>9, SelectToCall
      <3> QED BY <3>8 DEF CallOK, over, B, A, R, sized, o, b, rm, mv
    <2>4. gen'.batch = picked /\ gen'.offset = gen.offset /\ gen'.before = gen.before /\ gen'.size = gen.size /\ gen'.at = "call"
      BY <1>9, <1>12
    <2>5. \A C \in SUBSET picked : \A M \in SUBSET C :
            LoopOK(Bare \ M, Tried \cup C, Again \cup (Tried \cap C), OffsetAfter(Cardinality(C), Bare \ M), C # gen.batch,
                   gen.size # 0, shifts.removed, Moves)'
      BY <2>1, <2>3, <2>4 DEF OffsetAfter
    <2>6. OffsetHolds'
      BY <2>4, <2>5 DEF OffsetHolds
    <2>7. GenShape' /\ WentThrough'
      BY <1>2, <1>9, <1>12 DEF GenShape, WentThrough
    <2>8. gen'.batch \cup gen'.made \cup gen'.had \subseteq 1..arrived
      BY <1>2, <1>5, <1>6, <1>9, <1>12
    <2> QED BY <1>1, <1>2, <1>9, <1>12, <2>6, <2>7, <2>8, StillHolds
  <1> QED BY <1>1, <1>10, <1>11, <1>12

\* Over the cap nothing is promised of what is past the offset.
LEMMA LoopOver ==
  ASSUME NEW B \in SUBSET AChunk, NEW A \in SUBSET AChunk, NEW R \in SUBSET AChunk, NEW e \in Int,
         NEW x \in BOOLEAN, NEW y \in BOOLEAN, x => y, NEW sized \in BOOLEAN, NEW removed \in Nat, NEW moves \in Nat,
         LoopOK(B, A, R, e, x, sized, removed, moves)
  PROVE  LoopOK(B, A, R, e, y, sized, removed, moves)
  <1>1. CASE x = y
    BY <1>1
  <1>2. CASE ~x /\ y
    <2>1. NArtChunks \in Nat
      BY ArtifactRunsAssumption
    <2>2. Cardinality(Past(B, A, e)) \in Nat /\ Cardinality(A \cap B) \in Nat
      <3>1. A \cap B \in SUBSET AChunk
        OBVIOUS
      <3> QED BY <2>1, <3>1, PastIn, Counted DEF AChunk
    <2>3. sized => e + Cardinality(Past(B, A, e)) <= Cardinality(A \cap B) + moves
      BY <1>2 DEF LoopOK
    <2>4. sized => e + 0 <= Cardinality(A \cap B) + moves
      BY <2>2, <2>3
    <2> QED BY <1>2, <2>4 DEF LoopOK
  <1> QED BY <1>1, <1>2

LEMMA CallChunksStep ==
  ASSUME GenHolds, CallChunks
  PROVE  GenHolds'
  <1>1. PICK called \in SUBSET gen.batch :
          \E got \in SUBSET called, failed \in SUBSET called, over \in BOOLEAN :
            /\ called = gen.batch \/ over
            /\ attempts' = [c \in AChunk |-> attempts[c] + (IF c \in called THEN 1 ELSE 0)]
            /\ gen' = [gen EXCEPT !.at = IF got = {} THEN "after" ELSE "tie", !.made = got, !.over = over,
                                  !.attempted = Cardinality(called), !.left = @ - Cardinality(called)]
    BY DEF CallChunks
  <1>2. PICK got \in SUBSET called, over \in BOOLEAN :
            /\ called = gen.batch \/ over
            /\ attempts' = [c \in AChunk |-> attempts[c] + (IF c \in called THEN 1 ELSE 0)]
            /\ gen' = [gen EXCEPT !.at = IF got = {} THEN "after" ELSE "tie", !.made = got, !.over = over,
                                  !.attempted = Cardinality(called), !.left = @ - Cardinality(called)]
    BY <1>1
  <1>3. gen.at = "call" /\ UNCHANGED <<active, arrived, mined, claims, liveClaims, claimAbout, classInsights, gens, shifts>>
    BY DEF CallChunks
  <1> DEFINE at == IF got = {} THEN "after" ELSE "tie"
             k == Cardinality(called)
             left == gen.left - k
             r == [gen EXCEPT !.at = at, !.made = got, !.over = over, !.attempted = k, !.left = left]
  <1>4. gen \in GenRecord /\ gen.batch \cup gen.made \cup gen.had \subseteq 1..arrived /\ ~gen.through
        /\ gen.offset \in Nat /\ gen.before \in Nat /\ gen.left \in Int /\ gen.batch \in SUBSET AChunk
    BY <1>3 DEF GenHolds, GenTyped, GenShape, GenRecord
  <1>5. /\ Bare \in SUBSET AChunk /\ Tried \in SUBSET AChunk /\ Again \in SUBSET AChunk /\ NArtChunks \in Nat
        /\ Moves \in Nat /\ shifts.removed \in Nat
    BY BareIn DEF GenHolds
  <1>6. called \in SUBSET AChunk /\ got \in SUBSET AChunk /\ got \in SUBSET called /\ called \subseteq 1..arrived
    BY <1>4
  <1>7. k \in Nat /\ left \in Int
    <2>1. k \in Nat
      BY <1>5, <1>6, Counted DEF AChunk
    <2> HIDE DEF k
    <2> QED BY <1>4, <2>1
  <1>8. at \in GenAt /\ at \in {"tie", "after"} /\ (at = "after" => got = {})
    BY DEF GenAt
  <1> HIDE DEF at, k, left
  <1>9. /\ r \in GenRecord /\ r.at = at /\ r.made = got /\ r.over = over /\ r.attempted = k /\ r.batch = gen.batch
        /\ r.had = gen.had /\ r.found = gen.found /\ r.through = gen.through /\ r.offset = gen.offset
        /\ r.before = gen.before /\ r.size = gen.size
    BY <1>4, <1>6, <1>7, <1>8 DEF GenRecord
  <1>10. gen' = r
    BY <1>2 DEF at, k, left
  <1> HIDE DEF r
  <1>11. attempts' \in [AChunk -> Nat] /\ Tried' = Tried \cup called /\ Again' = Again \cup (Tried \cap called)
         /\ Bare' = Bare /\ Moves' = Moves
    <2>1. attempts \in [AChunk -> Nat]
      BY DEF GenHolds, GenTyped
    <2>2. attempts' \in [AChunk -> Nat]
          /\ \A c \in AChunk : attempts'[c] = attempts[c] + (IF c \in called THEN 1 ELSE 0)
      BY <1>2, <2>1
    <2>3. \A c \in AChunk : (attempts'[c] > 0 <=> attempts[c] > 0 \/ c \in called)
                            /\ (attempts'[c] > 1 <=> attempts[c] > 1 \/ (attempts[c] > 0 /\ c \in called))
      BY <2>1, <2>2
    <2>4. Tried' = Tried \cup called
      BY <1>6, <2>3 DEF Tried
    <2>5. Again' = Again \cup (Tried \cap called)
      BY <1>6, <2>3 DEF Tried, Again
    <2> QED BY <1>3, <2>2, <2>4, <2>5 DEF Bare, Moves
  <1>12. GenTyped'
    <2>1. Tried' \subseteq 1..arrived
      BY <1>6, <1>11 DEF GenHolds, GenTyped
    <2>2. gen'.batch \cup gen'.made \cup gen'.had \subseteq 1..arrived
      BY <1>4, <1>6, <1>9, <1>10
    <2> QED BY <1>3, <1>9, <1>10, <1>11, <2>1, <2>2 DEF GenHolds, GenTyped
  <1>13. GenShape' /\ WentThrough'
    BY <1>4, <1>8, <1>9, <1>10 DEF GenShape, WentThrough
  <1>14. OffsetHolds'
    <2> DEFINE some == called # gen.batch
               sized == gen.size # 0
               e == gen.offset + LeftBehind(k, gen.before - Cardinality(Bare \ got))
    <2>1. LoopOK(Bare \ got, Tried \cup called, Again \cup (Tried \cap called), e, some, sized, shifts.removed, Moves)
      BY <1>3 DEF GenHolds, OffsetHolds, OffsetAfter, k
    <2>2. some \in BOOLEAN /\ sized \in BOOLEAN /\ (some => over) /\ over \in BOOLEAN
      BY <1>2
    <2>3. Cardinality(Bare \ got) \in Nat /\ Bare \ got \in SUBSET AChunk
      <3>1. Bare \ got \in SUBSET AChunk
        BY <1>5
      <3> QED BY <1>5, <3>1, Counted DEF AChunk
    <2>4. e \in Int
      BY <1>4, <1>7, <2>3 DEF LeftBehind
    <2>5. Tried \cup called \in SUBSET AChunk /\ Again \cup (Tried \cap called) \in SUBSET AChunk
      BY <1>5, <1>6
    <2> HIDE DEF some, sized, e
    <2>6. LoopOK(Bare \ got, Tried \cup called, Again \cup (Tried \cap called), e, over, sized, shifts.removed, Moves)
      <3> DEFINE B == Bare \ got
                 A == Tried \cup called
                 R == Again \cup (Tried \cap called)
      <3>1. B \in SUBSET AChunk /\ A \in SUBSET AChunk /\ R \in SUBSET AChunk
            /\ LoopOK(B, A, R, e, some, sized, shifts.removed, Moves)
        BY <2>1, <2>3, <2>5
      <3> HIDE DEF B, A, R
      <3>2. LoopOK(B, A, R, e, over, sized, shifts.removed, Moves)
        BY ONLY <1>5, <2>2, <2>4, <3>1, LoopOver
      <3> QED BY <3>2 DEF B, A, R
    <2>7. OffsetAfter(gen.attempted, Bare \ gen.made)' = e
      BY <1>9, <1>10, <1>11 DEF e, OffsetAfter, LeftBehind
    <2>8. (gen'.size # 0) = sized
      BY <1>9, <1>10 DEF sized
    <2>9. LoopOK(Bare \ gen.made, Tried, Again, OffsetAfter(gen.attempted, Bare \ gen.made), gen.over, gen.size # 0,
                 shifts.removed, Moves)'
      BY <1>3, <1>9, <1>10, <1>11, <2>6, <2>7, <2>8
    <2> QED BY <1>8, <1>9, <1>10, <2>9 DEF OffsetHolds
  <1>15. CalledOnce'
    <2> DEFINE B == Bare \ {}
               R == Again \cup (Tried \cap gen.batch)
               P == Past(B, Tried \cup gen.batch, OffsetAfter(Cardinality(gen.batch), B))
    <2>1. Cardinality(P) + Cardinality(R) <= shifts.removed
      <3>1. gen.batch \in SUBSET gen.batch /\ {} \in SUBSET gen.batch
        OBVIOUS
      <3>2. LoopOK(Bare \ {}, Tried \cup gen.batch, Again \cup (Tried \cap gen.batch),
                   OffsetAfter(Cardinality(gen.batch), Bare \ {}), gen.batch # gen.batch, gen.size # 0,
                   shifts.removed, Moves)
        BY <1>3, <3>1 DEF GenHolds, OffsetHolds
      <3> QED BY <3>2 DEF LoopOK
    <2>2. B \in SUBSET AChunk /\ R \in SUBSET AChunk /\ Again' \in SUBSET R
      BY <1>4, <1>5, <1>11
    <2> HIDE DEF R
    <2>3. Cardinality(P) \in Nat
      <3> HIDE DEF B
      <3> QED BY <1>5, <2>2, PastIn DEF AChunk
    <2>4. Cardinality(R) \in Nat /\ Cardinality(Again') \in Nat /\ Cardinality(Again') <= Cardinality(R)
      <3>1. Again' \in SUBSET AChunk
        BY <2>2
      <3> QED BY <1>5, <2>2, <3>1, Counted, CountedIn DEF AChunk
    <2> HIDE DEF P
    <2> QED BY <1>3, <1>5, <2>1, <2>3, <2>4 DEF CalledOnce
  <1>16. BasisClaimed'
    BY <1>3, <1>9, <1>10 DEF GenHolds, BasisClaimed
  <1> QED BY <1>12, <1>13, <1>14, <1>15, <1>16 DEF GenHolds

LEMMA TieClaimsStep ==
  ASSUME GenHolds, TieClaims
  PROVE  GenHolds'
  <1> DEFINE r == [gen EXCEPT !.at = "after"]
  <1>1. /\ gen.at = "tie" /\ claims' = claims \cup gen.made /\ liveClaims' = liveClaims \cup gen.made /\ gen' = r
        /\ claimAbout' = [c \in AChunk |-> claimAbout[c] \cup (IF c \in gen.made \cap gen.known THEN ChunkNames[c] ELSE {})]
        /\ UNCHANGED <<active, arrived, mined, classInsights, gens, attempts, shifts>>
    BY DEF TieClaims
  <1>2. gen \in GenRecord /\ gen.batch \cup gen.made \cup gen.had \subseteq 1..arrived /\ ~gen.through
    BY <1>1 DEF GenHolds, GenTyped, GenShape
  <1>3. /\ r \in GenRecord /\ r.at = "after" /\ r.made = gen.made /\ r.over = gen.over /\ r.attempted = gen.attempted
        /\ r.batch = gen.batch /\ r.had = gen.had /\ r.found = gen.found /\ r.through = gen.through
        /\ r.offset = gen.offset /\ r.before = gen.before /\ r.size = gen.size
    BY <1>2 DEF GenRecord, GenAt
  <1> HIDE DEF r
  <1>4. Bare' \ gen'.made = Bare \ gen.made /\ Tried' = Tried /\ Again' = Again /\ Moves' = Moves
    BY <1>1, <1>3 DEF Bare, Tried, Again, Moves
  <1>5. GenTyped'
    <2>1. claims' \in SUBSET (1..arrived) /\ liveClaims' \in SUBSET claims'
      BY <1>1, <1>2 DEF GenHolds, GenTyped
    <2> QED BY <1>1, <1>2, <1>3, <1>4, <2>1 DEF GenHolds, GenTyped
  <1>6. GenShape' /\ WentThrough' /\ CalledOnce'
    BY <1>1, <1>2, <1>3, <1>4 DEF GenHolds, GenShape, WentThrough, CalledOnce
  <1>7. OffsetHolds'
    <2>1. LoopOK(Bare \ gen.made, Tried, Again, OffsetAfter(gen.attempted, Bare \ gen.made), gen.over, gen.size # 0,
                 shifts.removed, Moves)
      BY <1>1 DEF GenHolds, OffsetHolds
    <2>2. OffsetAfter(gen.attempted, Bare \ gen.made)' = OffsetAfter(gen.attempted, Bare \ gen.made)
      <3>1. Cardinality(Bare' \ gen'.made) = Cardinality(Bare \ gen.made)
        BY <1>4
      <3> QED BY <1>1, <1>3, <3>1 DEF OffsetAfter, LeftBehind
    <2>3. (gen'.size # 0) = (gen.size # 0) /\ gen'.over = gen.over /\ shifts' = shifts
      BY <1>1, <1>3
    <2>4. LoopOK(Bare \ gen.made, Tried, Again, OffsetAfter(gen.attempted, Bare \ gen.made), gen.over, gen.size # 0,
                 shifts.removed, Moves)'
      BY <1>4, <2>1, <2>2, <2>3
    <2> QED BY <1>1, <1>3, <2>4 DEF OffsetHolds
  <1>8. BasisClaimed'
    <2> DEFINE All == UNION {ChunkNames[c] : c \in AChunk}
    <2>1. claimAbout \in [AChunk -> SUBSET All]
      BY DEF GenHolds, BasisClaimed
    <2>2. \A c \in AChunk : ChunkNames[c] \subseteq All
      OBVIOUS
    <2> HIDE DEF All
    <2>3. claimAbout' \in [AChunk -> SUBSET All]
      BY <1>1, <2>1, <2>2
    <2>4. \A c \in AChunk : claimAbout'[c] \subseteq ChunkNames[c] /\ (claimAbout'[c] # {} => c \in claims')
      BY <1>1 DEF GenHolds, BasisClaimed
    <2>5. \A i \in classInsights' : i.basis \subseteq claims'
      BY <1>1 DEF GenHolds, BasisClaimed
    <2>6. \A f \in gen'.found : f.basis \subseteq claims'
      BY <1>1, <1>3 DEF GenHolds, BasisClaimed
    <2> QED BY <2>3, <2>4, <2>5, <2>6 DEF BasisClaimed, All
  <1> QED BY <1>5, <1>6, <1>7, <1>8 DEF GenHolds

LEMMA StepPastStep ==
  ASSUME GenHolds, StepPast
  PROVE  GenHolds'
  <1> DEFINE at == IF gen.size = 0 THEN gen.then ELSE "count"
             offset == IF gen.size = 0 THEN 0 ELSE gen.offset + LeftBehind(gen.attempted, gen.before - Cardinality(Bare))
             r == [gen EXCEPT !.at = at, !.batch = {}, !.made = {}, !.known = {}, !.attempted = 0, !.before = 0,
                              !.offset = offset]
  <1>1. gen.at = "after" /\ Still /\ gen' = r
    BY DEF StepPast, Still
  <1>2. gen \in GenRecord /\ gen.batch \cup gen.made \cup gen.had \subseteq 1..arrived /\ ~gen.through
        /\ gen.made \subseteq claims /\ (\A f \in gen.found : f.basis \subseteq claims)
    BY <1>1 DEF GenHolds, GenTyped, GenShape, BasisClaimed
  <1>3. gen.offset \in Nat /\ gen.before \in Nat /\ gen.attempted \in Nat /\ gen.then \in {"clusters", "idle"}
        /\ Cardinality(Bare) \in Nat /\ Bare \ gen.made = Bare
    BY <1>2, BareIn DEF GenHolds, GenRecord, Bare
  <1>4. offset \in Nat
    BY <1>3 DEF LeftBehind
  <1>5. at \in GenAt /\ at \in {"clusters", "idle", "count"} /\ (at = "count" => gen.size # 0)
    BY <1>3 DEF GenAt
  <1>6. gen.size # 0 => offset = OffsetAfter(gen.attempted, Bare \ gen.made)
    BY <1>3 DEF OffsetAfter
  <1> HIDE DEF at, offset
  <1>7. /\ r \in GenRecord /\ r.at = at /\ r.made = {} /\ r.over = gen.over /\ r.attempted = 0 /\ r.batch = {}
        /\ r.had = gen.had /\ r.found = gen.found /\ r.through = gen.through /\ r.offset = offset
        /\ r.before = 0 /\ r.size = gen.size
    <2>1. 0 \in Nat /\ {} \in SUBSET AChunk
      OBVIOUS
    <2> QED BY <1>2, <1>4, <1>5, <2>1 DEF GenRecord
  <1> HIDE DEF r
  <1>8. GenShape' /\ WentThrough'
    BY <1>1, <1>2, <1>5, <1>7 DEF GenShape, WentThrough
  <1>9. OffsetHolds'
    <2>1. CASE at = "count"
      <3>1. LoopOK(Bare, Tried, Again, offset, gen.over, gen.size # 0, shifts.removed, Moves)
        BY <1>1, <1>3, <1>5, <1>6, <2>1 DEF GenHolds, OffsetHolds
      <3>2. Bare' = Bare /\ Tried' = Tried /\ Again' = Again /\ Moves' = Moves /\ shifts' = shifts
        BY <1>1 DEF Still, Bare, Tried, Again, Moves
      <3>3. LeftBehind(0, 0 - Cardinality(Bare)) = 0
        BY <1>3 DEF LeftBehind
      <3>4. OffsetAfter(gen.attempted, Bare \ gen.made)' = offset /\ Bare' \ gen'.made = Bare
        <4>1. gen'.attempted = 0 /\ gen'.offset = offset /\ gen'.before = 0 /\ Bare' \ gen'.made = Bare
          BY <1>1, <1>7, <3>2
        <4>2. OffsetAfter(gen.attempted, Bare \ gen.made)' = offset + LeftBehind(0, 0 - Cardinality(Bare))
          BY <4>1 DEF OffsetAfter, LeftBehind
        <4> QED BY <1>4, <3>3, <4>1, <4>2
      <3>5. (gen'.size # 0) = (gen.size # 0) /\ gen'.over = gen.over
        BY <1>1, <1>7
      <3>6. LoopOK(Bare \ gen.made, Tried, Again, OffsetAfter(gen.attempted, Bare \ gen.made), gen.over, gen.size # 0,
                   shifts.removed, Moves)'
        BY <3>1, <3>2, <3>4, <3>5
      <3> QED BY <1>1, <1>7, <2>1, <3>6 DEF OffsetHolds
    <2>2. CASE at # "count"
      BY <1>1, <1>5, <1>7, <2>2 DEF OffsetHolds
    <2> QED BY <2>1, <2>2
  <1>10. gen'.batch \cup gen'.made \cup gen'.had \subseteq 1..arrived /\ \A f \in gen'.found : f.basis \subseteq claims
    BY <1>1, <1>2, <1>7
  <1> QED BY <1>1, <1>7, <1>8, <1>9, <1>10, StillHolds

\* The offset to come, B unprocessed with a called for since `before` was counted.
OffsetOK(B, A, R, o, a, before, over, sized, removed, moves) ==
  LoopOK(B, A, R, o + LeftBehind(a, before - Cardinality(B)), over, sized, removed, moves)

LEMMA OffsetAdd ==
  ASSUME NEW B \in SUBSET AChunk, NEW A \in SUBSET AChunk, NEW R \in SUBSET AChunk, NEW c \in AChunk,
         c \notin A, \A x \in B : x < c, NEW o \in Nat, NEW a \in Nat, NEW before \in Nat,
         NEW over \in BOOLEAN, NEW sized \in BOOLEAN, NEW removed \in Nat, NEW moves \in Nat,
         OffsetOK(B, A, R, o, a, before, over, sized, removed, moves)
  PROVE  OffsetOK(B \cup {c}, A, R, o, a, before, over, sized, removed, moves + 1)
  <1>1. NArtChunks \in Nat
    BY ArtifactRunsAssumption
  <1> QED BY <1>1, LoopAdd DEF OffsetOK, AChunk

LEMMA OffsetRemove ==
  ASSUME NEW B \in SUBSET AChunk, NEW A \in SUBSET AChunk, NEW R \in SUBSET AChunk, NEW c \in AChunk,
         NEW o \in Nat, NEW a \in Nat, NEW before \in Nat,
         NEW over \in BOOLEAN, NEW sized \in BOOLEAN, NEW removed \in Nat, NEW moves \in Nat,
         OffsetOK(B, A, R, o, a, before, over, sized, removed, moves)
  PROVE  OffsetOK(B \ {c}, A, R, o, a, before, over, sized, removed + 1, moves + 1)
  <1>1. NArtChunks \in Nat
    BY ArtifactRunsAssumption
  <1> QED BY <1>1, LoopRemove DEF OffsetOK, AChunk

LEMMA ReadAdd ==
  ASSUME NEW B \in SUBSET AChunk, NEW A \in SUBSET AChunk, NEW R \in SUBSET AChunk, NEW c \in AChunk,
         c \notin A, \A x \in B : x < c, NEW o \in Nat, NEW before \in Nat,
         NEW sized \in BOOLEAN, NEW removed \in Nat, NEW moves \in Nat,
         SelectOK(B, A, R, o, before, sized, removed, moves)
  PROVE  SelectOK(B \cup {c}, A, R, o, before, sized, removed, moves + 1)
  <1>1. NArtChunks \in Nat
    BY ArtifactRunsAssumption
  <1> QED BY <1>1, SelectAdd DEF AChunk

LEMMA ReadRemove ==
  ASSUME NEW B \in SUBSET AChunk, NEW A \in SUBSET AChunk, NEW R \in SUBSET AChunk, NEW c \in AChunk,
         NEW o \in Nat, NEW before \in Nat,
         NEW sized \in BOOLEAN, NEW removed \in Nat, NEW moves \in Nat,
         SelectOK(B, A, R, o, before, sized, removed, moves)
  PROVE  SelectOK(B \ {c}, A, R, o, before, sized, removed + 1, moves + 1)
  <1>1. NArtChunks \in Nat
    BY ArtifactRunsAssumption
  <1> QED BY <1>1, SelectRemove DEF AChunk

\* A chunk comes to stand at the end of the row.
LEMMA ChunkAddedStep ==
  ASSUME GenHolds, arrived < NArtChunks, Shift("added"), arrived' = arrived + 1, active' = active \cup {arrived + 1},
         UNCHANGED <<mined, liveClaims, claims, claimAbout, classInsights, gen, gens, attempts>>
  PROVE  GenHolds'
  <1> DEFINE c == arrived + 1
  <1> DEFINE sized == gen.size # 0
             over == gen.over
             o == gen.offset
             a == gen.attempted
             b == gen.before
             rm == shifts.removed
             mv == Moves
  <1>1. /\ Bare \in SUBSET AChunk /\ Tried \in SUBSET AChunk /\ Again \in SUBSET AChunk /\ NArtChunks \in Nat
        /\ Bare \in SUBSET (1..arrived) /\ arrived \in Nat /\ 1..arrived \in SUBSET AChunk
        /\ mv \in Nat /\ rm \in Nat /\ shifts.added \in Nat /\ shifts \in ShiftRecord
    BY BareIn DEF GenHolds, GenTyped
  <1>2. /\ shifts' \in ShiftRecord /\ shifts'.added = shifts.added + 1 /\ shifts'.removed = rm
    <2> DEFINE x == shifts.all + 1
               y == shifts.added + 1
               r == [shifts EXCEPT !.all = x, !.added = y]
    <2>1. shifts' = r
      BY DEF Shift
    <2>2. shifts \in ShiftRecord /\ x \in Nat /\ y \in Nat
      BY <1>1 DEF ShiftRecord
    <2> HIDE DEF x, y
    <2>3. r \in ShiftRecord /\ r.added = y /\ r.removed = shifts.removed
      BY <2>2 DEF ShiftRecord
    <2> QED BY <2>1, <2>3 DEF y
  <1>3. Moves' = mv + 1
    BY <1>1, <1>2 DEF Moves
  <1>4. /\ gen \in GenRecord /\ gen.batch \cup gen.made \cup gen.had \subseteq 1..arrived /\ Tried \subseteq 1..arrived
        /\ claims \in SUBSET (1..arrived)
    BY DEF GenHolds, GenTyped
  <1>5. sized \in BOOLEAN /\ over \in BOOLEAN /\ o \in Nat /\ a \in Nat /\ b \in Nat
    BY <1>4 DEF GenRecord
  <1>6. c \in AChunk /\ c \notin 1..arrived /\ \A x \in 1..arrived : x < c
    BY <1>1 DEF AChunk
  <1> HIDE DEF c
  <1>7. Bare' = Bare \cup {c} /\ Tried' = Tried /\ Again' = Again /\ c \notin Tried /\ c \notin claims /\ c \notin gen.made
    BY <1>4, <1>6 DEF Bare, Tried, Again, c
  <1>8. GenTyped'
    <2>1. 1..arrived \subseteq 1..arrived' /\ arrived' \in 0..NArtChunks /\ c \in 1..arrived'
      BY <1>1 DEF c
    <2>2. active' \in SUBSET (1..arrived')
      BY <2>1 DEF GenHolds, GenTyped, c
    <2>3. Tried' \subseteq 1..arrived' /\ gen'.batch \cup gen'.made \cup gen'.had \subseteq 1..arrived'
      BY <1>4, <1>7, <2>1
    <2>4. mined' \in SUBSET (1..arrived') /\ claims' \in SUBSET (1..arrived')
      BY <2>1 DEF GenHolds, GenTyped
    <2> QED BY <1>2, <2>1, <2>2, <2>3, <2>4 DEF GenHolds, GenTyped
  <1>9. GenShape' /\ BasisClaimed'
    BY DEF GenHolds, GenShape, BasisClaimed
  <1>10. CalledOnce'
    <2>1. Cardinality(Again) \in Nat
      BY <1>1, Counted DEF AChunk
    <2> QED BY <1>1, <1>2, <1>7, <2>1 DEF GenHolds, CalledOnce
  <1>11. WentThrough'
    <2>1. Missed' = Missed
      <3>1. c \notin gen.had
        BY <1>4, <1>6
      <3> QED BY <1>7, <3>1 DEF Missed
    <2>2. Cardinality(Missed) \in Nat
      <3>1. Missed \in SUBSET AChunk
        BY <1>1 DEF Missed
      <3> QED BY <1>1, <3>1, Counted DEF AChunk
    <2> QED BY <1>1, <1>3, <2>1, <2>2 DEF GenHolds, WentThrough
  <1> HIDE DEF sized, over, o, a, b, rm, mv
  <1>12. \A B, A, R \in SUBSET AChunk, k \in Nat, x \in BOOLEAN :
           OffsetOK(B, A, R, o, k, b, x, sized, rm, mv) /\ c \notin A /\ (\A x1 \in B : x1 < c)
             => OffsetOK(B \cup {c}, A, R, o, k, b, x, sized, rm, mv + 1)
    BY <1>1, <1>5, <1>6, OffsetAdd
  <1>13. ASSUME gen.at \in {"count", "tie", "after"}
         PROVE  OffsetHolds'
    <2> DEFINE B == Bare \ gen.made
    <2>1. OffsetOK(B, Tried, Again, o, a, b, over, sized, rm, mv)
      BY <1>13 DEF GenHolds, OffsetHolds, OffsetOK, OffsetAfter, o, a, b, over, sized, rm, mv
    <2>2. B \in SUBSET AChunk /\ Bare' \ gen'.made = B \cup {c}
        /\ c \notin Tried /\ (\A x1 \in B : x1 < c)
      BY <1>1, <1>4, <1>6, <1>7
    <2> HIDE DEF B
    <2>3. OffsetOK(B \cup {c}, Tried, Again, o, a, b, over, sized, rm, mv + 1)
      BY <1>1, <1>5, <1>12, <2>1, <2>2
    <2>4. LoopOK(Bare \ gen.made, Tried, Again, OffsetAfter(gen.attempted, Bare \ gen.made), gen.over, gen.size # 0,
                 shifts.removed, Moves)'
      <3>1. OffsetAfter(gen.attempted, Bare \ gen.made)' = o + LeftBehind(a, b - Cardinality(B \cup {c}))
        BY <2>2 DEF OffsetAfter, LeftBehind, o, a, b
      <3>2. (gen'.size # 0) = sized /\ gen'.over = over
        BY DEF sized, over
      <3> QED BY <1>2, <1>3, <1>7, <2>2, <2>3, <3>1, <3>2 DEF OffsetOK
    <2> QED BY <1>13, <2>4 DEF OffsetHolds
  <1>14. ASSUME gen.at = "select"
         PROVE  OffsetHolds'
    <2>1. SelectOK(Bare, Tried, Again, o, b, sized, rm, mv)
      BY <1>14 DEF GenHolds, OffsetHolds, o, b, sized, rm, mv
    <2>2. SelectOK(Bare \cup {c}, Tried, Again, o, b, sized, rm, mv + 1)
      <3> DEFINE B == Bare
                 A == Tried
                 R == Again
      <3>1. B \in SUBSET AChunk /\ A \in SUBSET AChunk /\ R \in SUBSET AChunk /\ SelectOK(B, A, R, o, b, sized, rm, mv)
            /\ c \notin A /\ \A x1 \in B : x1 < c
        BY <1>1, <1>6, <1>7, <2>1
      <3> HIDE DEF B, A, R
      <3>2. SelectOK(B \cup {c}, A, R, o, b, sized, rm, mv + 1)
        BY ONLY <1>1, <1>5, <1>6, <3>1, ReadAdd
      <3> QED BY <3>2 DEF B, A, R
    <2>3. (gen'.size # 0) = sized /\ gen'.offset = o /\ gen'.before = b
      BY DEF sized, o, b
    <2>4. SelectOK(Bare, Tried, Again, gen.offset, gen.before, gen.size # 0, shifts.removed, Moves)'
      BY <1>2, <1>3, <1>7, <2>2, <2>3
    <2> QED BY <1>14, <2>4 DEF OffsetHolds
  <1>15. ASSUME gen.at = "call"
         PROVE  OffsetHolds'
    <2>1. ASSUME NEW C \in SUBSET gen.batch, NEW M \in SUBSET C
          PROVE  LoopOK(Bare \ M, Tried \cup C, Again \cup (Tried \cap C), OffsetAfter(Cardinality(C), Bare \ M),
                        C # gen.batch, gen.size # 0, shifts.removed, Moves)'
      <3> DEFINE B == Bare \ M
                 A == Tried \cup C
                 R == Again \cup (Tried \cap C)
                 k == Cardinality(C)
                 some == C # gen.batch
      <3>1. OffsetOK(B, A, R, o, k, b, some, sized, rm, mv)
        BY <1>15 DEF GenHolds, OffsetHolds, OffsetOK, OffsetAfter, o, b, sized, rm, mv
      <3>2. C \in SUBSET AChunk /\ C \subseteq 1..arrived
        BY <1>1, <1>4
      <3>3. B \in SUBSET AChunk /\ A \in SUBSET AChunk /\ R \in SUBSET AChunk /\ some \in BOOLEAN
        BY <1>1, <3>2
      <3>4. k \in Nat
        BY <1>1, <3>2, Counted DEF AChunk
      <3>5. Bare' \ M = B \cup {c}
            /\ c \notin A /\ (\A x1 \in B : x1 < c)
        BY <1>1, <1>4, <1>6, <1>7, <3>2
      <3> HIDE DEF B, A, R, k, some
      <3>6. OffsetOK(B \cup {c}, A, R, o, k, b, some, sized, rm, mv + 1)
        BY <1>12, <3>1, <3>3, <3>4, <3>5
      <3>7. OffsetAfter(Cardinality(C), Bare \ M)' = o + LeftBehind(k, b - Cardinality(B \cup {c}))
        BY <3>5 DEF OffsetAfter, LeftBehind, o, b, k
      <3>8. (gen'.size # 0) = sized /\ (C # gen'.batch) = some
        BY DEF sized, some
      <3>9. Tried' \cup C = A /\ Again' \cup (Tried' \cap C) = R
        BY <1>7 DEF A, R
      <3> QED BY <1>2, <1>3, <3>5, <3>6, <3>7, <3>8, <3>9 DEF OffsetOK
    <2> QED BY <1>15, <2>1 DEF OffsetHolds
  <1>16. OffsetHolds'
    BY <1>13, <1>14, <1>15 DEF OffsetHolds
  <1> QED BY <1>8, <1>9, <1>10, <1>11, <1>16 DEF GenHolds

\* A chunk is taken away, which may have been called for and may stand anywhere.
LEMMA ChunkGoneStep ==
  ASSUME GenHolds, NEW c \in active, Shift("removed"), active' = active \ {c}, liveClaims' = liveClaims \ {c},
         UNCHANGED <<arrived, mined, claims, claimAbout, classInsights, gen, gens, attempts>>
  PROVE  GenHolds'
  <1> DEFINE sized == gen.size # 0
             over == gen.over
             o == gen.offset
             a == gen.attempted
             b == gen.before
             rm == shifts.removed
             mv == Moves
  <1>1. /\ Bare \in SUBSET AChunk /\ Tried \in SUBSET AChunk /\ Again \in SUBSET AChunk /\ NArtChunks \in Nat
        /\ Bare \in SUBSET (1..arrived) /\ arrived \in Nat /\ 1..arrived \in SUBSET AChunk
        /\ mv \in Nat /\ rm \in Nat /\ shifts.added \in Nat /\ shifts \in ShiftRecord
    BY BareIn DEF GenHolds, GenTyped
  <1>2. /\ shifts' \in ShiftRecord /\ shifts'.added = shifts.added /\ shifts'.removed = rm + 1
    <2> DEFINE x == shifts.all + 1
               y == shifts.removed + 1
               r == [shifts EXCEPT !.all = x, !.removed = y]
    <2>1. shifts' = r
      BY DEF Shift
    <2>2. shifts \in ShiftRecord /\ x \in Nat /\ y \in Nat
      BY <1>1 DEF ShiftRecord
    <2> HIDE DEF x, y
    <2>3. r \in ShiftRecord /\ r.removed = y /\ r.added = shifts.added
      BY <2>2 DEF ShiftRecord
    <2> QED BY <2>1, <2>3 DEF y
  <1>3. Moves' = mv + 1
    BY <1>1, <1>2 DEF Moves
  <1>4. /\ gen \in GenRecord /\ gen.batch \cup gen.made \cup gen.had \subseteq 1..arrived /\ Tried \subseteq 1..arrived
        /\ claims \in SUBSET (1..arrived)
    BY DEF GenHolds, GenTyped
  <1>5. sized \in BOOLEAN /\ over \in BOOLEAN /\ o \in Nat /\ a \in Nat /\ b \in Nat
    BY <1>4 DEF GenRecord
  <1>6. c \in AChunk
    BY <1>1 DEF GenHolds, GenTyped
  <1>7. Bare' = Bare \ {c} /\ Tried' = Tried /\ Again' = Again
    BY DEF Bare, Tried, Again
  <1>8. GenTyped'
    <2>1. active' \in SUBSET (1..arrived) /\ liveClaims' \in SUBSET claims
      BY DEF GenHolds, GenTyped
    <2>2. Tried' \subseteq 1..arrived
      BY <1>4, <1>7
    <2> QED BY <1>2, <2>1, <2>2 DEF GenHolds, GenTyped
  <1>9. GenShape' /\ BasisClaimed'
    BY DEF GenHolds, GenShape, BasisClaimed
  <1>10. CalledOnce'
    <2>1. Cardinality(Again) \in Nat
      BY <1>1, Counted DEF AChunk
    <2> QED BY <1>1, <1>2, <1>7, <2>1 DEF GenHolds, CalledOnce
  <1>11. WentThrough'
    <2>1. Missed \in SUBSET AChunk /\ Missed' \in SUBSET Missed
      BY <1>1, <1>7 DEF Missed
    <2>2. Cardinality(Missed) \in Nat /\ Cardinality(Missed') \in Nat /\ Cardinality(Missed') <= Cardinality(Missed)
      <3>1. Missed' \in SUBSET AChunk
        BY <2>1
      <3> QED BY <1>1, <2>1, <3>1, Counted, CountedIn DEF AChunk
    <2> QED BY <1>1, <1>3, <2>2 DEF GenHolds, WentThrough
  <1> HIDE DEF sized, over, o, a, b, rm, mv
  <1>12. \A B, A, R \in SUBSET AChunk, k \in Nat, x \in BOOLEAN :
           OffsetOK(B, A, R, o, k, b, x, sized, rm, mv)
             => OffsetOK(B \ {c}, A, R, o, k, b, x, sized, rm + 1, mv + 1)
    BY <1>1, <1>5, <1>6, OffsetRemove
  <1>13. ASSUME gen.at \in {"count", "tie", "after"}
         PROVE  OffsetHolds'
    <2> DEFINE B == Bare \ gen.made
    <2>1. OffsetOK(B, Tried, Again, o, a, b, over, sized, rm, mv)
      BY <1>13 DEF GenHolds, OffsetHolds, OffsetOK, OffsetAfter, o, a, b, over, sized, rm, mv
    <2>2. B \in SUBSET AChunk /\ Bare' \ gen'.made = B \ {c}
      BY <1>1, <1>4, <1>6, <1>7
    <2> HIDE DEF B
    <2>3. OffsetOK(B \ {c}, Tried, Again, o, a, b, over, sized, rm + 1, mv + 1)
      BY <1>1, <1>5, <1>12, <2>1, <2>2
    <2>4. LoopOK(Bare \ gen.made, Tried, Again, OffsetAfter(gen.attempted, Bare \ gen.made), gen.over, gen.size # 0,
                 shifts.removed, Moves)'
      <3>1. OffsetAfter(gen.attempted, Bare \ gen.made)' = o + LeftBehind(a, b - Cardinality(B \ {c}))
        BY <2>2 DEF OffsetAfter, LeftBehind, o, a, b
      <3>2. (gen'.size # 0) = sized /\ gen'.over = over
        BY DEF sized, over
      <3> QED BY <1>2, <1>3, <1>7, <2>2, <2>3, <3>1, <3>2 DEF OffsetOK
    <2> QED BY <1>13, <2>4 DEF OffsetHolds
  <1>14. ASSUME gen.at = "select"
         PROVE  OffsetHolds'
    <2>1. SelectOK(Bare, Tried, Again, o, b, sized, rm, mv)
      BY <1>14 DEF GenHolds, OffsetHolds, o, b, sized, rm, mv
    <2>2. SelectOK(Bare \ {c}, Tried, Again, o, b, sized, rm + 1, mv + 1)
      <3> DEFINE B == Bare
                 A == Tried
                 R == Again
      <3>1. B \in SUBSET AChunk /\ A \in SUBSET AChunk /\ R \in SUBSET AChunk /\ SelectOK(B, A, R, o, b, sized, rm, mv)
        BY <1>1, <1>6, <1>7, <2>1
      <3> HIDE DEF B, A, R
      <3>2. SelectOK(B \ {c}, A, R, o, b, sized, rm + 1, mv + 1)
        BY ONLY <1>1, <1>5, <1>6, <3>1, ReadRemove
      <3> QED BY <3>2 DEF B, A, R
    <2>3. (gen'.size # 0) = sized /\ gen'.offset = o /\ gen'.before = b
      BY DEF sized, o, b
    <2>4. SelectOK(Bare, Tried, Again, gen.offset, gen.before, gen.size # 0, shifts.removed, Moves)'
      BY <1>2, <1>3, <1>7, <2>2, <2>3
    <2> QED BY <1>14, <2>4 DEF OffsetHolds
  <1>15. ASSUME gen.at = "call"
         PROVE  OffsetHolds'
    <2>1. ASSUME NEW C \in SUBSET gen.batch, NEW M \in SUBSET C
          PROVE  LoopOK(Bare \ M, Tried \cup C, Again \cup (Tried \cap C), OffsetAfter(Cardinality(C), Bare \ M),
                        C # gen.batch, gen.size # 0, shifts.removed, Moves)'
      <3> DEFINE B == Bare \ M
                 A == Tried \cup C
                 R == Again \cup (Tried \cap C)
                 k == Cardinality(C)
                 some == C # gen.batch
      <3>1. OffsetOK(B, A, R, o, k, b, some, sized, rm, mv)
        BY <1>15 DEF GenHolds, OffsetHolds, OffsetOK, OffsetAfter, o, b, sized, rm, mv
      <3>2. C \in SUBSET AChunk /\ C \subseteq 1..arrived
        BY <1>1, <1>4
      <3>3. B \in SUBSET AChunk /\ A \in SUBSET AChunk /\ R \in SUBSET AChunk /\ some \in BOOLEAN
        BY <1>1, <3>2
      <3>4. k \in Nat
        BY <1>1, <3>2, Counted DEF AChunk
      <3>5. Bare' \ M = B \ {c}
        BY <1>1, <1>4, <1>6, <1>7, <3>2
      <3> HIDE DEF B, A, R, k, some
      <3>6. OffsetOK(B \ {c}, A, R, o, k, b, some, sized, rm + 1, mv + 1)
        BY <1>12, <3>1, <3>3, <3>4, <3>5
      <3>7. OffsetAfter(Cardinality(C), Bare \ M)' = o + LeftBehind(k, b - Cardinality(B \ {c}))
        BY <3>5 DEF OffsetAfter, LeftBehind, o, b, k
      <3>8. (gen'.size # 0) = sized /\ (C # gen'.batch) = some
        BY DEF sized, some
      <3>9. Tried' \cup C = A /\ Again' \cup (Tried' \cap C) = R
        BY <1>7 DEF A, R
      <3> QED BY <1>2, <1>3, <3>5, <3>6, <3>7, <3>8, <3>9 DEF OffsetOK
    <2> QED BY <1>15, <2>1 DEF OffsetHolds
  <1>16. OffsetHolds'
    BY <1>13, <1>14, <1>15 DEF OffsetHolds
  <1> QED BY <1>8, <1>9, <1>10, <1>11, <1>16 DEF GenHolds

LEMMA OthersStep ==
  ASSUME GenHolds, Others
  PROVE  GenHolds'
  <1>1. UNCHANGED <<claims, claimAbout, classInsights, gen, gens, attempts>>
    BY DEF Others
  <1>2. CASE arrived < NArtChunks /\ Shift("added") /\ arrived' = arrived + 1 /\ active' = active \cup {arrived + 1}
             /\ UNCHANGED <<mined, liveClaims>>
    BY <1>1, <1>2, ChunkAddedStep
  <1>3. CASE \E c \in active : /\ Shift("removed") /\ active' = active \ {c}
                               /\ liveClaims' = liveClaims \ {c} /\ UNCHANGED <<arrived, mined>>
    BY <1>1, <1>3, ChunkGoneStep
  <1>4. CASE mined' = 1..arrived /\ shifts' = [shifts EXCEPT !.all = @ + 1] /\ UNCHANGED <<active, arrived, liveClaims>>
    <2>1. shifts' \in ShiftRecord /\ shifts'.added = shifts.added /\ shifts'.removed = shifts.removed
      BY <1>4 DEF GenHolds, GenTyped, ShiftRecord
    <2>2. Bare' = Bare /\ Tried' = Tried /\ Again' = Again /\ Moves' = Moves
      BY <1>1, <1>4, <2>1 DEF Bare, Tried, Again, Moves
    <2>3. GenTyped'
      BY <1>1, <1>4, <2>1, <2>2 DEF GenHolds, GenTyped
    <2>4. Missed' = Missed
      BY <1>1, <2>2 DEF Missed
    <2>5. OffsetHolds'
      BY <1>1, <2>1, <2>2 DEF GenHolds, OffsetHolds, OffsetAfter, LeftBehind
    <2>6. GenShape' /\ CalledOnce' /\ WentThrough' /\ BasisClaimed'
      BY <1>1, <2>1, <2>2, <2>4 DEF GenHolds, GenShape, CalledOnce, WentThrough, BasisClaimed
    <2> QED BY <2>3, <2>5, <2>6 DEF GenHolds
  <1> QED BY <1>2, <1>3, <1>4 DEF Others

LEMMA NextArt ==
  ASSUME GenHolds, [ArtRunNext]_artRunVars
  PROVE  GenHolds'
  <1>1. CASE ArtRunNext
    BY <1>1, BeginGenStep, StartBatchStep, SelectBatchStep, CallChunksStep, TieClaimsStep, StepPastStep,
       FindClustersStep, SynthesiseStep, WriteInsightsStep, GenDiesStep, RelinkStep, OthersStep DEF ArtRunNext
  <1>2. CASE UNCHANGED artRunVars
    <2>1. UNCHANGED <<active, arrived, mined, claims, liveClaims, claimAbout, classInsights, gen, attempts, shifts>>
      BY <1>2 DEF artRunVars
    <2>2. Bare' = Bare /\ Tried' = Tried /\ Again' = Again /\ Moves' = Moves
      BY <2>1 DEF Bare, Tried, Again, Moves
    <2>3. Missed' = Missed
      BY <2>1, <2>2 DEF Missed
    <2>4. OffsetHolds'
      BY <2>1, <2>2 DEF GenHolds, OffsetHolds, OffsetAfter, LeftBehind
    <2> QED BY <2>1, <2>2, <2>3, <2>4 DEF GenHolds, GenTyped, GenShape, CalledOnce, WentThrough, BasisClaimed
  <1> QED BY <1>1, <1>2

LEMMA InitArt ==
  ASSUME ArtRunInit
  PROVE  GenHolds
  <1>1. /\ gen = NoGen /\ attempts = [c \in AChunk |-> 0] /\ shifts = [added |-> 0, removed |-> 0, all |-> 0]
        /\ arrived = NAtStart /\ active = 1..NAtStart /\ mined \in {{}, 1..NAtStart} /\ claims = {} /\ liveClaims = {}
        /\ claimAbout = [c \in AChunk |-> {}] /\ classInsights = {}
    BY DEF ArtRunInit
  <1>2. NArtChunks \in Nat /\ NAtStart \in 0..NArtChunks
    BY ArtifactRunsAssumption
  <1>3. Tried = {} /\ Again = {} /\ shifts \in ShiftRecord /\ attempts \in [AChunk -> Nat] /\ shifts.removed = 0
    BY <1>1 DEF Tried, Again, ShiftRecord
  <1>4. GenTyped
    BY <1>1, <1>2, <1>3, NoGenTyped DEF GenTyped
  <1>5. GenShape /\ OffsetHolds /\ WentThrough
    BY <1>1, NoGenTyped DEF GenShape, OffsetHolds, WentThrough
  <1>6. CalledOnce
    BY <1>3, FS_EmptySet DEF CalledOnce
  <1>7. BasisClaimed
    BY <1>1, NoGenTyped DEF BasisClaimed
  <1> QED BY <1>4, <1>5, <1>6, <1>7 DEF GenHolds

LEMMA ArtShows ==
  ASSUME GenHolds
  PROVE  BatchesInv /\ ArtRunTypeOK
  <1>1. Cardinality({c \in AChunk : attempts[c] > 1}) <= shifts.removed
    BY DEF GenHolds, CalledOnce, Again
  <1>2. gen.through => Cardinality({c \in gen.had \cap Bare : attempts[c] = 0}) <= shifts.added + shifts.removed
    BY DEF GenHolds, WentThrough, Missed, Moves
  <1>3. ArtRunTypeOK
    BY DEF GenHolds, GenTyped, GenRecord, BasisClaimed, ArtRunTypeOK
  <1> QED BY <1>1, <1>2, <1>3 DEF BatchesInv

\* However documents come and go while generate-artifacts works through its batches:
\* a chunk is called for again only for each that was taken away, and a loop that
\* went through has missed no more than were added or taken away.
THEOREM BatchesHold == Spec => []BatchesInv
  <1>1. Init => GenHolds
    BY InitArt DEF Init
  <1>2. [Next]_servicesVars => [ArtRunNext]_artRunVars
    BY DEF Next, servicesVars
  <1>3. GenHolds /\ [ArtRunNext]_artRunVars => GenHolds'
    BY NextArt
  <1>4. GenHolds => BatchesInv
    BY ArtShows
  <1> QED BY <1>1, <1>2, <1>3, <1>4, PTL DEF Spec

-----------------------------------------------------------------------------
(***************************************************************************)
(* The types of the services.                                              *)
(***************************************************************************)
EdgeRow == (OntClass \X OntClass) \X (0..MaxWipes)

\* What the import's own invariant leaves open: rows and edges are of the wipes so far.
ImportRows ==
  /\ class \in [OntClass -> [ver : Nat, id : 0..MaxWipes]]
  /\ IsABag(edges) /\ BagToSet(edges) \subseteq EdgeRow
  /\ entities \subseteq OntClass /\ epoch \in 0..MaxWipes /\ version \in Nat /\ plain \in Nat
  /\ mirrored \in OntFile \cup {NoFile}
  /\ \A p \in OntProc : imp[p].write \subseteq EdgeRow

LEMMA BagPlus ==
  ASSUME NEW B, IsABag(B), NEW S
  PROVE  IsABag(B (+) SetToBag(S)) /\ BagToSet(B (+) SetToBag(S)) = BagToSet(B) \cup S
  BY DEF (+), EmptyBag, SetToBag, IsABag, BagToSet

LEMMA RowsKept ==
  ASSUME ImportInv, ImportRows, UNCHANGED <<class, edges, entities, epoch>>,
         version' \in Nat, plain' \in Nat, mirrored' \in OntFile \cup {NoFile},
         \A p \in OntProc : imp'[p].write \subseteq EdgeRow
  PROVE  ImportRows'
  BY DEF ImportRows, EdgeRow

LEMMA WritesKept ==
  ASSUME ImportInv, ImportRows, NEW p \in OntProc, NEW r, imp' = [imp EXCEPT ![p] = r], r.write \subseteq EdgeRow
  PROVE  \A q \in OntProc : imp'[q].write \subseteq EdgeRow
  BY DEF ImportInv, ImportsTyped, ImportRows

LEMMA JoinedWrites ==
  ASSUME ImportInv, ImportRows, NEW p \in OntProc, NEW r, imp' = [Joined(p) EXCEPT ![p] = r], r.write \subseteq EdgeRow
  PROVE  \A q \in OntProc : imp'[q].write \subseteq EdgeRow
  <1> SUFFICES ASSUME NEW q \in OntProc PROVE imp'[q].write \subseteq EdgeRow
    OBVIOUS
  <1>1. imp[q] \in ImpRecord /\ imp[q].write \subseteq EdgeRow
    BY DEF ImportInv, ImportsTyped, ImportRows
  <1>2. CASE q = p
    BY <1>2 DEF Joined
  <1>3. CASE q # p
    <2>1. imp'[q] = [imp[q] EXCEPT !.clean = FALSE]
      BY <1>3 DEF Joined
    <2>2. imp'[q].write = imp[q].write
      BY <1>1, <2>1 DEF ImpRecord
    <2> QED BY <1>1, <2>2
  <1> QED BY <1>2, <1>3

LEMMA ImportStepRows ==
  ASSUME ImportInv, ImportRows, NEW p \in OntProc,
         \/ StartImport(p) \/ UpsertClasses(p) \/ UpsertPlain(p) \/ ReadIds(p)
         \/ DeleteEdges(p) \/ InsertEdges(p) \/ BumpImport(p)
         \/ StartWipe(p) \/ Truncate(p) \/ StopImport(p)
  PROVE  ImportRows'
  <1>1. imp[p] \in ImpRecord /\ imp[p].write \subseteq EdgeRow /\ version \in Nat /\ plain \in Nat /\ epoch \in 0..MaxWipes
        /\ (imp[p].pc \notin {"idle", "truncate"} => imp[p].file \in OntFile)
        /\ mirrored \in OntFile \cup {NoFile} /\ MaxWipes \in Nat /\ class \in [OntClass -> [ver : Nat, id : 0..MaxWipes]]
    BY OntologyAssumption DEF ImportInv, ImportsTyped, ImportRows
  <1>2. \A f \in OntFile : f.ver \in Nat /\ f.edges \subseteq OntClass \X OntClass
    BY OntologyAssumption
  <1>3. AtRestImp.write = {}
    BY DEF AtRestImp
  <1>4. CASE StartImport(p)
    <2>1. PICK f \in OntFile :
            imp' = [Joined(p) EXCEPT ![p] = [AtRestImp EXCEPT !.pc = "classes", !.file = f,
                                               !.todo = f.classes \ Loaded, !.clean = Alone(p)]]
      BY <1>4 DEF StartImport
    <2> DEFINE r == [AtRestImp EXCEPT !.pc = "classes", !.file = f, !.todo = f.classes \ Loaded, !.clean = Alone(p)]
    <2>2. r.write = {}
      BY DEF AtRestImp
    <2> HIDE DEF r
    <2>3. imp' = [Joined(p) EXCEPT ![p] = r]
      BY <2>1 DEF r
    <2>4. \A q \in OntProc : imp'[q].write \subseteq EdgeRow
      BY <2>2, <2>3, JoinedWrites
    <2> QED BY <1>1, <1>4, <2>4, RowsKept DEF StartImport
  <1>5. CASE UpsertClasses(p)
    <2>1. PICK batch \in SUBSET imp[p].todo :
            /\ class' = [c \in OntClass |->
                 IF c \notin batch THEN class[c]
                 ELSE [ver |-> imp[p].file.ver, id |-> IF class[c] = NoRow THEN epoch ELSE class[c].id]]
            /\ \E done \in {{}, batch} : Holds(p, [imp[p] EXCEPT !.todo = @ \ done])
      BY <1>5 DEF UpsertClasses
    <2>2. PICK done \in {{}, batch} : imp' = [imp EXCEPT ![p] = [imp[p] EXCEPT !.todo = @ \ done]]
      BY <2>1 DEF Holds
    <2> DEFINE r == [imp[p] EXCEPT !.todo = @ \ done]
    <2>3. r.write = imp[p].write
      BY <1>1 DEF ImpRecord
    <2> HIDE DEF r
    <2>4. imp' = [imp EXCEPT ![p] = r]
      BY <2>2 DEF r
    <2>5. \A q \in OntProc : imp'[q].write \subseteq EdgeRow
      BY <1>1, <2>3, <2>4, WritesKept
    <2>6. imp[p].file.ver \in Nat /\ epoch \in 0..MaxWipes
      BY <1>1, <1>2, <1>5 DEF UpsertClasses
    <2>7. class' \in [OntClass -> [ver : Nat, id : 0..MaxWipes]]
      <3> SUFFICES ASSUME NEW c \in OntClass
                   PROVE  (IF c \notin batch THEN class[c]
                           ELSE [ver |-> imp[p].file.ver, id |-> IF class[c] = NoRow THEN epoch ELSE class[c].id])
                             \in [ver : Nat, id : 0..MaxWipes]
        BY <2>1
      <3> QED BY <1>1, <2>6
    <2> QED BY <1>1, <1>5, <2>5, <2>7 DEF UpsertClasses, ImportRows, EdgeRow
  <1>6. CASE UpsertPlain(p)
    <2> DEFINE r == [imp[p] EXCEPT !.pc = "ids"]
    <2>1. r.write = imp[p].write /\ imp' = [imp EXCEPT ![p] = r]
      BY <1>1, <1>6 DEF ImpRecord, UpsertPlain, Holds
    <2> HIDE DEF r
    <2>2. \A q \in OntProc : imp'[q].write \subseteq EdgeRow
      BY <1>1, <2>1, WritesKept
    <2>3. plain' \in Nat
      BY <1>1, <1>2, <1>6 DEF UpsertPlain
    <2> QED BY <1>1, <1>6, <2>2, <2>3, RowsKept DEF UpsertPlain
  <1>7. CASE ReadIds(p)
    <2> DEFINE found == {x \in imp[p].file.edges : {x[1], x[2]} \subseteq Loaded}
               ids == {<<e, epoch>> : e \in found}
               r == [imp[p] EXCEPT !.pc = "delete", !.write = ids]
    <2>1. r.write = ids /\ imp' = [imp EXCEPT ![p] = r]
      BY <1>1, <1>7 DEF ImpRecord, ReadIds, Holds
    <2>2. found \subseteq OntClass \X OntClass
      BY <1>1, <1>2, <1>7 DEF ReadIds
    <2> HIDE DEF found
    <2>3. ids \subseteq EdgeRow
      BY <1>1, <2>2 DEF EdgeRow
    <2> HIDE DEF r, ids
    <2>4. \A q \in OntProc : imp'[q].write \subseteq EdgeRow
      BY <1>1, <2>1, <2>3, WritesKept
    <2> QED BY <1>1, <1>7, <2>4, RowsKept DEF ReadIds
  <1>8. CASE DeleteEdges(p)
    <2> DEFINE r == [imp[p] EXCEPT !.pc = "insert"]
    <2>1. r.write = imp[p].write /\ imp' = [imp EXCEPT ![p] = r]
      BY <1>1, <1>8 DEF ImpRecord, DeleteEdges, Holds
    <2> HIDE DEF r
    <2>2. \A q \in OntProc : imp'[q].write \subseteq EdgeRow
      BY <1>1, <2>1, WritesKept
    <2>3. IsABag(edges') /\ BagToSet(edges') \subseteq EdgeRow
      BY <1>8 DEF DeleteEdges, EmptyBag, SetToBag, IsABag, BagToSet
    <2> QED BY <1>1, <1>8, <2>2, <2>3 DEF DeleteEdges, ImportRows, EdgeRow
  <1>9. CASE InsertEdges(p)
    <2>1. PICK rows1 \in SUBSET imp[p].write :
            edges' = edges (+) SetToBag(rows1) /\ Holds(p, [imp[p] EXCEPT !.write = @ \ rows1])
      BY <1>9 DEF InsertEdges
    <2> DEFINE r == [imp[p] EXCEPT !.write = @ \ rows1]
    <2>2. r.write \subseteq imp[p].write /\ imp' = [imp EXCEPT ![p] = r]
      BY <1>1, <2>1 DEF ImpRecord, Holds
    <2> HIDE DEF r
    <2>3. \A q \in OntProc : imp'[q].write \subseteq EdgeRow
      BY <1>1, <2>2, WritesKept
    <2>4. IsABag(edges') /\ BagToSet(edges') = BagToSet(edges) \cup rows1
      BY <2>1, BagPlus DEF ImportRows
    <2> QED BY <1>1, <1>9, <2>3, <2>4 DEF InsertEdges, ImportRows, EdgeRow
  <1>10. CASE BumpImport(p) \/ StopImport(p)
    <2>1. imp' = [imp EXCEPT ![p] = AtRestImp]
      BY <1>10 DEF BumpImport, StopImport, Holds
    <2>2. \A q \in OntProc : imp'[q].write \subseteq EdgeRow
      BY <1>3, <2>1, WritesKept
    <2>3. imp[p].clean => imp[p].file \in OntFile
      BY <1>1 DEF ImportInv, CleanIsAlone
    <2>4. mirrored' \in OntFile \cup {NoFile} /\ version' \in Nat
      BY <1>1, <1>10, <2>3 DEF BumpImport, StopImport
    <2> QED BY <1>1, <1>10, <2>2, <2>4, RowsKept DEF BumpImport, StopImport
  <1>11. CASE StartWipe(p)
    <2> DEFINE r == [AtRestImp EXCEPT !.pc = "truncate"]
    <2>1. r.write = {} /\ imp' = [Joined(p) EXCEPT ![p] = r]
      BY <1>11 DEF StartWipe, AtRestImp
    <2> HIDE DEF r
    <2>2. \A q \in OntProc : imp'[q].write \subseteq EdgeRow
      BY <2>1, JoinedWrites
    <2> QED BY <1>1, <1>11, <2>2, RowsKept DEF StartWipe
  <1>12. CASE Truncate(p)
    <2>1. imp' = [imp EXCEPT ![p] = AtRestImp]
      BY <1>12 DEF Truncate, Holds
    <2>2. \A q \in OntProc : imp'[q].write \subseteq EdgeRow
      BY <1>3, <2>1, WritesKept
    <2>3. class' \in [OntClass -> [ver : Nat, id : 0..MaxWipes]] /\ epoch' \in 0..MaxWipes
      BY <1>1, <1>12 DEF Truncate, NoRow
    <2> QED BY <1>1, <1>12, <2>2, <2>3 DEF Truncate, ImportRows, EdgeRow
  <1> QED BY <1>4, <1>5, <1>6, <1>7, <1>8, <1>9, <1>10, <1>11, <1>12

LEMMA NextImportRows ==
  ASSUME ImportInv, ImportRows, [ImportNext]_importVars
  PROVE  ImportRows'
  <1>1. CASE ClearEntities
    BY <1>1 DEF ClearEntities, ImportRows, EdgeRow
  <1>2. ASSUME NEW c \in OntClass, EntityLands(c)
        PROVE  ImportRows'
    <2>1. \A p \in OntProc : imp'[p].write = imp[p].write
      <3> SUFFICES ASSUME NEW p \in OntProc PROVE imp'[p].write = imp[p].write
        OBVIOUS
      <3>1. imp[p] \in ImpRecord
        BY DEF ImportInv, ImportsTyped
      <3>2. imp'[p] = IF imp[p].pc = "truncate" THEN [imp[p] EXCEPT !.late = @ \cup {c}] ELSE imp[p]
        BY <1>2 DEF EntityLands
      <3> QED BY <3>1, <3>2 DEF ImpRecord
    <2> QED BY <1>2, <2>1 DEF EntityLands, ImportRows, EdgeRow
  <1>3. CASE UNCHANGED importVars
    BY <1>3 DEF importVars, ImportRows, EdgeRow
  <1> QED BY <1>1, <1>2, <1>3, ImportStepRows DEF ImportNext

LEMMA InitImportRows ==
  ASSUME ImportInit
  PROVE  ImportRows
  <1>1. MaxWipes \in Nat
    BY OntologyAssumption
  <1>2. IsABag(edges) /\ BagToSet(edges) = {}
    BY DEF ImportInit, EmptyBag, SetToBag, IsABag, BagToSet
  <1> QED BY <1>1, <1>2 DEF ImportInit, ImportRows, NoRow, AtRestImp

LEMMA ImportTyped ==
  ASSUME ImportInv, ImportRows
  PROVE  ImportTypeOK
  BY DEF ImportInv, ImportsTyped, ImportRows, ImpRecord, ImportTypeOK, EdgeRow

LEMMA RollupTyped ==
  ASSUME RollsInv
  PROVE  RollupTypeOK
  <1>1. RollsTyped
    BY DEF RollsInv
  <1>2. \A r \in RollupId : r \in present <=> made[r] \in 1..runs
    <2> SUFFICES ASSUME NEW r \in RollupId PROVE r \in present <=> made[r] \in 1..runs
      OBVIOUS
    <2>1. made[r] \in Nat /\ made[r] <= runs /\ runs \in Nat /\ (r \in present <=> made[r] # 0)
      BY <1>1 DEF RollsTyped
    <2> QED BY <2>1
  <1>3. \A p \in RollRun : DOMAIN roll[p].children \subseteq RollupId
    <2> SUFFICES ASSUME NEW p \in RollRun PROVE DOMAIN roll[p].children \subseteq RollupId
      OBVIOUS
    <2>1. roll[p].children \in Families
      BY <1>1 DEF RollsTyped, RollRecord
    <2> QED BY <2>1 DEF Families
  <1> QED BY <1>1, <1>2, <1>3 DEF RollsTyped, RollupTypeOK

LEMMA ConversationTyped ==
  ASSUME TurnsInv
  PROVE  ConversationTypeOK
  <1>1. TurnsTyped
    BY DEF TurnsInv
  <1>2. Rows \subseteq TurnId
    BY <1>1, ConversationAssumption DEF TurnsTyped, TurnId
  <1>3. \A t \in Rows : turns[t].index \in Nat /\ turns[t].answer \in AnswerText
    BY <1>1 DEF TurnsTyped
  <1>4. \A p \in Poster : post[p].pc \in {"idle", "insert", "retrieve", "answer"}
    BY <1>1 DEF TurnsTyped, PostRecord
  <1>5. runLog \subseteq Rows /\ conversation \in {"new", "open", "gone"}
    BY <1>1 DEF TurnsTyped
  <1> QED BY Zenon, <1>2, <1>3, <1>4, <1>5 DEF ConversationTypeOK, AnswerText

LEMMA RetrievalTyped ==
  ASSUME RetrievalHolds
  PROVE  RetrievalTypeOK
  BY DEF RetrievalHolds, QueriesTyped, QueryRecord, RetrievalTypeOK

\* What the extraction's own invariant leaves open.
TypedRows ==
  /\ typed \subseteq entityRows \X OClass
  /\ \A m \in mentions : m[3] \in 1..streams

LEMMA TypedRowsGrow ==
  ASSUME TypedRows, typed' = typed, entityRows \subseteq entityRows', mentions' \subseteq mentions,
         streams \in Nat, streams' \in Nat, streams <= streams', \A m \in mentions : m[3] \in Nat
  PROVE  TypedRows'
  <1>1. typed' \subseteq entityRows' \X OClass
    BY DEF TypedRows
  <1>2. \A m \in mentions' : m[3] \in 1..streams'
    <2> SUFFICES ASSUME NEW m \in mentions PROVE m[3] \in 1..streams'
      OBVIOUS
    <2>1. m[3] \in 1..streams
      BY DEF TypedRows
    <2> QED BY <2>1
  <1> QED BY <1>1, <1>2 DEF TypedRows

LEMMA NextTypedRows ==
  ASSUME ExtractInv, TypedRows, [ExtractNext]_extractVars
  PROVE  TypedRows'
  <1>1. /\ streams \in Nat /\ MaxStreams \in Nat /\ \A m \in mentions : m[3] \in Nat
        /\ entityRows \subseteq XEntity
    BY ExtractAssumption DEF ExtractInv, StreamsTyped, TypedRows
  <1>2. ASSUME NEW x \in Extractor, WriteEdges(x)
        PROVE  TypedRows'
    <2> DEFINE use == stream[x].use
               types == stream[x].types
    <2>1. stream[x].pc = "edges" /\ typed' = typed \cup (use \X types) /\ UNCHANGED <<entityRows, streams>>
          /\ mentions' = mentions \cup ((DOMAIN stream[x].found) \X use \X {x})
      BY <1>2 DEF WriteEdges
    <2>2. use \subseteq entityRows /\ types \subseteq OClass /\ stream[x] \in StreamRecord
      BY DEF ExtractInv, OneEntity, StreamsTyped, StreamRecord
    <2>3. x \in 1..streams
      <3>1. ~(x > streams)
        BY <2>1, NoStreamTyped DEF ExtractInv, StreamsTyped
      <3> QED BY <1>1, <3>1 DEF Extractor
    <2> HIDE DEF use, types
    <2>4. \A m \in (DOMAIN stream[x].found) \X use \X {x} : m[3] = x
      OBVIOUS
    <2> QED BY <2>1, <2>2, <2>3, <2>4 DEF TypedRows
  <1>3. ASSUME NEW x \in Extractor, InsertEntities(x)
        PROVE  TypedRows'
    <2>1. entityRows \subseteq entityRows'
      BY <1>3 DEF InsertEntities
    <2> QED BY <1>1, <1>3, <2>1, TypedRowsGrow DEF InsertEntities
  <1>4. ASSUME NEW x \in Extractor, StartStream(x)
        PROVE  TypedRows'
    <2>1. streams' = streams + 1
      BY <1>4 DEF StartStream
    <2> QED BY <1>1, <1>4, <2>1, TypedRowsGrow DEF StartStream
  <1>5. ASSUME NEW x \in Extractor,
               CountBefore(x) \/ ReadBatch(x) \/ Resolve(x) \/ CountAfter(x) \/ FinishStream(x) \/ StopStream(x)
        PROVE  TypedRows'
    <2>1. UNCHANGED <<entityRows, typed, mentions, streams>>
      BY <1>5 DEF CountBefore, ReadBatch, Resolve, CountAfter, FinishStream, StopStream
    <2> QED BY <1>1, <2>1, TypedRowsGrow
  <1>6. ASSUME NEW c \in XChunk, EditChunk(c)
        PROVE  TypedRows'
    <2>1. mentions' \subseteq mentions /\ UNCHANGED <<entityRows, typed, streams>>
      BY <1>6 DEF EditChunk
    <2> QED BY <1>1, <2>1, TypedRowsGrow
  <1>7. CASE UNCHANGED extractVars
    <2>1. UNCHANGED <<entityRows, typed, mentions, streams>>
      BY <1>7 DEF extractVars
    <2> QED BY <1>1, <2>1, TypedRowsGrow
  <1> QED BY <1>2, <1>3, <1>4, <1>5, <1>6, <1>7 DEF ExtractNext

LEMMA ExtractTyped ==
  ASSUME ExtractInv, TypedRows
  PROVE  ExtractTypeOK
  <1>1. \A m \in mentions : m[1] \in XChunk /\ m[2] \in entityRows
    BY DEF ExtractInv, StreamsTyped
  <1> QED BY <1>1 DEF ExtractInv, StreamsTyped, OneEntity, TypedRows, ExtractTypeOK

\* Each service keeps its types and its foreign keys: the ids of a class and of its
\* edges are of the wipes so far, an edge's ends and a turn's runs are there.
THEOREM ServicesTyped == Spec => []ServicesTypeOK
  <1> DEFINE All == /\ part \in Part /\ GuardInv /\ ImportInv /\ ImportRows /\ RollsInv /\ TurnsInv /\ RetrievalHolds
                    /\ ExtractInv /\ TypedRows /\ EnrichInv /\ ReadHolds /\ LinkHolds /\ GenHolds
  <1>1. Init => All
    <2>1. ExtractInit => TypedRows
      BY DEF ExtractInit, TypedRows
    <2> QED BY <2>1, GuardInvInit, InitImport, InitImportRows, InitRolls, InitTurns, InitRetrieval, InitExtract, InitEnrich,
               InitReading, InitLinks, InitArt DEF Init
  <1>2. All /\ [Next]_servicesVars => All'
    <2> SUFFICES ASSUME All, [Next]_servicesVars PROVE All'
      OBVIOUS
    <2>1. part' = part
      BY DEF Next, servicesVars
    <2>2. GuardInv' /\ ImportInv' /\ ImportRows' /\ RollsInv'
      <3>1. [GuardNext]_guardVars /\ [ImportNext]_importVars /\ [RollupNext]_rollupVars
        BY DEF Next, servicesVars
      <3> QED BY <3>1, GuardInvNext, NextImport, NextImportRows, NextRollup
    <2>3. TurnsInv' /\ RetrievalHolds' /\ ExtractInv' /\ TypedRows' /\ EnrichInv'
      <3>1. /\ [ConversationNext]_conversationVars /\ [RetrievalNext]_retrievalVars /\ [ExtractNext]_extractVars
            /\ [EnrichNext]_enrichVars
        BY DEF Next, servicesVars
      <3> QED BY <3>1, NextTurns, NextRetrieval, RetrievalConstants, NextExtract, NextTypedRows, NextEnrich
    <2>4. ReadHolds' /\ LinkHolds' /\ GenHolds'
      <3>1. [ReadNext]_readVars /\ [LinkNext]_linkVars /\ [ArtRunNext]_artRunVars
        BY DEF Next, servicesVars
      <3> QED BY <3>1, NextReading, NextLinks, NextArt
    <2> QED BY <2>1, <2>2, <2>3, <2>4
  <1>3. All => ServicesTypeOK
    <2> SUFFICES ASSUME All PROVE ServicesTypeOK
      OBVIOUS
    <2>1. GuardTypeOK /\ ImportTypeOK /\ RollupTypeOK /\ ConversationTypeOK /\ RetrievalTypeOK
      BY ImportTyped, RollupTyped, ConversationTyped, RetrievalTyped DEF GuardInv
    <2>2. ExtractTypeOK /\ EnrichTypeOK /\ ReadTypeOK /\ LinkTypeOK /\ ArtRunTypeOK
      BY ExtractTyped, ReadingShows, LinksShow, ArtShows DEF EnrichInv
    <2> QED BY <2>1, <2>2 DEF ServicesTypeOK
  <1> HIDE DEF All
  <1> QED BY <1>1, <1>2, <1>3, PTL DEF Spec
=============================================================================
