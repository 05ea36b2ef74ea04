------------------------------- MODULE Rollup -------------------------------
(***************************************************************************)
(* generate_rollups: clusters of similar artifacts are merged into new     *)
(* artifacts, layer upon layer.  A layer's rows are committed as soon as   *)
(* they are merged, so that the next layer can cluster over them; the      *)
(* edges of all layers are written together at the very end.  One artifact *)
(* type: the types of a run share nothing but the loop.                    *)
(***************************************************************************)
EXTENDS Naturals, FiniteSets, FiniteSetsExt

CONSTANTS
  NLeaf,       \* artifacts made from chunks, numbered as they land
  NRollup,     \* bound: ids of rollups
  Layers,      \* --layers
  MinCluster,  \* min_cluster
  MaxRuns      \* bound: runs, each a process of its own

ASSUME RollupAssumption ==
  /\ {NLeaf, NRollup} \subseteq Nat
  /\ Layers \in Nat \ {0}
  /\ MinCluster \in Nat \ {0, 1}
  /\ MaxRuns \in Nat

Leaf     == 1..NLeaf
RollupId == (NLeaf + 1)..(NLeaf + NRollup)
Artifact == Leaf \cup RollupId

RollRun == 1..MaxRuns

VARIABLES
  present,    \* ACTIVE, embedded artifacts
  layer,      \* extra_metadata.layer; 0 for a leaf
  refs,       \* referencesArtifact edges, <<parent, child>>
  about,      \* artifacts with an assertsAbout (or summarizes) edge
  roll,       \* what each run holds
  made,       \* history: the number of the run that made each rollup
  torn,       \* history: runs that stopped before their edges were written
  overlapped, \* history: two runs were under way at once
  runs        \* runs started

rollupVars == <<present, layer, refs, about, roll, made, torn, overlapped, runs>>

RollAtRest ==
  [pc |-> "idle", base |-> 0, step |-> 0,
   clusters |-> {}, children |-> [r \in {} |-> {}], inherits |-> {}]

RollupTypeOK ==
  /\ present \subseteq Artifact /\ about \subseteq Artifact
  /\ layer \in [Artifact -> Nat]
  /\ refs \subseteq RollupId \X Artifact
  /\ \A r \in RollupId : r \in present <=> made[r] \in 1..runs
  /\ \A p \in RollRun : DOMAIN roll[p].children \subseteq RollupId

RollupInit ==
  /\ present = {}
  /\ layer = [a \in Artifact |-> 0]
  /\ refs = {}
  /\ about = {}
  /\ roll = [p \in RollRun |-> RollAtRest]
  /\ made = [r \in RollupId |-> 0]
  /\ torn = {}
  /\ overlapped = FALSE
  /\ runs = 0

RollBecomes(p, record) == roll' = [roll EXCEPT ![p] = record]

Rollups    == present \cap RollupId
TopLayer   == Max({0} \cup {layer[r] : r \in Rollups})
Children(r) == {a \in Artifact : <<r, a>> \in refs}
Parents(a)  == {r \in RollupId : <<r, a>> \in refs}

\* _fetch_candidates at one level: those no rollup refers to yet.
Candidates(level) ==
  {a \in present : (a \in RollupId <=> level > 0) /\ layer[a] = level /\ Parents(a) = {}}

\* What union-find and the split into batches may return: disjoint batches of at
\* least MinCluster candidates, according to how similar they are.
Clusterings(cands) ==
  {cs \in SUBSET {b \in SUBSET cands : Cardinality(b) >= MinCluster} :
     \A b, c \in cs : b # c => b \cap c = {}}

-----------------------------------------------------------------------------
\* Generation of artifacts from chunks (bound: in two lots), and the sweep that
\* makes them STALE.
LeavesLand ==
  /\ \E n \in {NLeaf \div 2, NLeaf}, linked \in BOOLEAN :
     LET new == {a \in 1..n : a \notin present /\ Parents(a) = {}} IN
       /\ new # {}
       /\ present' = present \cup new
       /\ about' = IF linked THEN about \cup new ELSE about
  /\ UNCHANGED <<layer, refs, roll, made, torn, overlapped, runs>>

LeafSwept(a) ==
  /\ a \in present \cap Leaf
  /\ Parents(a) # {}   \* bound: one leaf, one that some rollup refers to
  /\ \A b \in Leaf : Parents(b) # {} => b \in present
  /\ present' = present \ {a}
  /\ UNCHANGED <<layer, refs, about, roll, made, torn, overlapped, runs>>

\* base_level is read once: a run adds layers on top of what is there.
StartRollup(p) ==
  /\ p = runs + 1
  /\ RollBecomes(p, [RollAtRest EXCEPT !.pc = "cluster", !.base = TopLayer, !.step = 1])
  /\ overlapped' = (overlapped \/ \E q \in RollRun : roll[q].pc # "idle")
  /\ runs' = runs + 1
  /\ UNCHANGED <<present, layer, refs, about, made, torn>>

\* No cluster ends the loop.
ClusterLayer(p) ==
  LET r == roll[p] IN
  /\ r.pc = "cluster"
  /\ \E cs \in Clusterings(Candidates(r.base + r.step - 1)) :
       RollBecomes(p, IF cs = {} THEN [r EXCEPT !.pc = "resolve"]
                      ELSE [r EXCEPT !.pc = "merge", !.clusters = cs])
  /\ UNCHANGED <<present, layer, refs, about, made, torn, overlapped, runs>>

LayerOf(r) == r.base + r.step

\* The merges run side by side; a failed or empty answer, or the cost cap, drops
\* its cluster.  What was merged is embedded and inserted in one transaction, and
\* the loop goes on also if there was nothing.
MergeLayer(p) ==
  LET r == roll[p]
      after == IF r.step = Layers THEN "resolve" ELSE "cluster"
  IN
  /\ r.pc = "merge"
  /\ \E merged \in SUBSET r.clusters :
     LET fresh == {x \in RollupId : made[x] = 0} IN
       /\ Cardinality(merged) <= Cardinality(fresh)
       /\ LET id == CHOOSE f \in [merged -> fresh] : IsInjective(f)
              new == {id[b] : b \in merged}
              source(x) == CHOOSE b \in merged : id[b] = x
          IN
          /\ present' = present \cup new
          /\ layer' = [a \in Artifact |-> IF a \in new THEN LayerOf(r) ELSE layer[a]]
          /\ made' = [x \in RollupId |-> IF x \in new THEN p ELSE made[x]]
          /\ RollBecomes(p, [r EXCEPT !.pc = after, !.clusters = {},
               !.step = IF r.step = Layers THEN @ ELSE @ + 1,
               !.children = [x \in DOMAIN r.children \cup new |->
                               IF x \in new THEN source(x) ELSE r.children[x]]])
  /\ UNCHANGED <<refs, about, torn, overlapped, runs>>

\* The ids, and the aboutness edges of the children as they are now: those of
\* this run's own rollups are still to be written.  With no rollup the run ends.
ResolveIds(p) ==
  LET r == roll[p] IN
  /\ r.pc = "resolve"
  /\ RollBecomes(p, IF DOMAIN r.children = {} THEN RollAtRest
                    ELSE [r EXCEPT !.pc = "wire",
                            !.inherits = {x \in DOMAIN r.children : r.children[x] \cap about # {}}])
  /\ UNCHANGED <<present, layer, refs, about, made, torn, overlapped, runs>>

\* Mutant: nothing is inherited.
WireOnlyRefs(p) ==
  LET r == roll[p] IN
  /\ r.pc = "wire"
  /\ refs' = refs \cup UNION {{x} \X r.children[x] : x \in DOMAIN r.children}
  /\ RollBecomes(p, RollAtRest)
  /\ UNCHANGED <<present, layer, about, made, torn, overlapped, runs>>

\* All edges and the bump of graph_version, in one transaction.
WireEdges(p) ==
  LET r == roll[p] IN
  /\ r.pc = "wire"
  /\ refs' = refs \cup UNION {{x} \X r.children[x] : x \in DOMAIN r.children}
  /\ about' = about \cup r.inherits
  /\ RollBecomes(p, RollAtRest)
  /\ UNCHANGED <<present, layer, made, torn, overlapped, runs>>

StopRollup(p) ==
  /\ roll[p].pc # "idle"
  /\ torn' = torn \cup {p}
  /\ RollBecomes(p, RollAtRest)
  /\ UNCHANGED <<present, layer, refs, about, made, overlapped, runs>>

RollupNext ==
  \/ LeavesLand
  \/ \E a \in Leaf : LeafSwept(a)
  \/ \E p \in RollRun :
       \/ StartRollup(p) \/ ClusterLayer(p) \/ MergeLayer(p)
       \/ ResolveIds(p) \/ WireEdges(p) \/ StopRollup(p)

-----------------------------------------------------------------------------
UnderWay == {p \in RollRun : roll[p].pc # "idle"}

\* Unless two runs overlap, the rollups are a forest however often runs are
\* killed and repeated: nothing is merged into two parents, a parent is exactly
\* one layer above its children, and a rollup without children is the work of a
\* run that is under way or was killed.
RollupForest ==
  /\ ~overlapped => \A a \in Artifact : Cardinality(Parents(a)) <= 1
  /\ \A e \in refs : layer[e[1]] = layer[e[2]] + 1
  /\ \A r \in Rollups :
       Cardinality(Children(r)) < MinCluster => made[r] \in UnderWay \cup torn

Wired(r) == Children(r) # {}

\* A rollup is about something exactly if one of its children is, unless the
\* child was made by the same run and was itself not wired when that run looked.
AboutInherited ==
  ~overlapped => \A r \in Rollups : Wired(r) =>
     (r \in about <=> \E a \in Children(r) \cap about : a \in RollupId => made[a] # made[r])

\* The rows and edges of rollups are a forest, and what it is about comes from below.
RollupInv == RollupForest /\ AboutInherited

=============================================================================
