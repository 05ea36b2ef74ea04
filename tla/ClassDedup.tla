----------------------------- MODULE ClassDedup -----------------------------
(***************************************************************************)
(* Stage 3 of the ontology build, pairwise: the distinct proposed classes  *)
(* are rows of a staging store.  A validity judge drops some, each class's *)
(* nearest neighbours are looked up, and a pair judge answers in batches   *)
(* while the next lookups go on.  A union-find with a size cap holds the   *)
(* groups; at the end the merges are written and every reference to a      *)
(* class is renamed.                                                       *)
(*                                                                         *)
(* Labels are numbers in the order in which they are preferred as the      *)
(* class of a group: 1..NExisting exist in the ontology, the others are    *)
(* proposed.  What is near and what is the same is any choice.             *)
(***************************************************************************)
EXTENDS Naturals, FiniteSets, SequencesExt

CONSTANTS
  NExisting,  \* classes of the loaded ontology
  NProposed,  \* distinct labels proposed
  MaxGroup,   \* max_group
  MaxPending  \* 2 * judge_concurrency: judge batches that wait at once

ASSUME DedupAssumption ==
  /\ {NExisting, NProposed} \subseteq Nat
  /\ {MaxGroup, MaxPending} \subseteq Nat \ {0}

InOntology == 1..NExisting
NewLabel == (NExisting + 1)..(NExisting + NProposed)
Label    == InOntology \cup NewLabel
NoClass  == 0

VARIABLES
  stage,    \* "validity", "exact", "existing", "class", "written" or "rebuilt"
  status,   \* status[c]: "kept", "junk", "instance" or "merged"
  mergedInto, \* merged_into, of the rows that are merged
  group,    \* the union-find: the partition of the labels
  source,   \* classes whose neighbours of this kind are still to be looked up
  judging,  \* batches of pairs with the judge
  rename    \* at the end, what a reference to a proposed class becomes

dedupVars == <<stage, status, mergedInto, group, source, judging, rename>>

Find(gs, x) == CHOOSE g \in gs : x \in g
Kept == {c \in NewLabel : status[c] = "kept"}

DedupTypeOK ==
  /\ status \in [NewLabel -> {"kept", "junk", "instance", "merged"}]
  /\ UNION group = Label /\ \A g, h \in group : g = h \/ g \cap h = {}
  /\ DOMAIN mergedInto = {c \in NewLabel : status[c] = "merged"}
  /\ source \subseteq NewLabel /\ Cardinality(judging) <= MaxPending

DedupInit ==
  /\ stage = "validity" /\ status = [c \in NewLabel |-> "kept"]
  /\ mergedInto = <<>> /\ group = {{x} : x \in Label}
  /\ source = {} /\ judging = {} /\ rename = <<>>

-----------------------------------------------------------------------------
\* A batch that fails, or a label without a verdict, stays kept.
ValidityJudge(junk, named) ==
  /\ stage = "validity"
  /\ status' = [c \in NewLabel |-> IF c \in junk THEN "junk" ELSE IF c \in named THEN "instance" ELSE "kept"]
  /\ stage' = "exact"
  /\ UNCHANGED <<mergedInto, group, source, judging, rename>>

\* UnionFind.union: refused when the two groups are too large together.
Union(gs, p) ==
  LET a == Find(gs, p[1])
      b == Find(gs, p[2])
  IN IF a = b \/ Cardinality(a) + Cardinality(b) > MaxGroup THEN gs
     ELSE (gs \ {a, b}) \cup {a \cup b}

Joined(gs, pairs) ==
  LET join[i \in 0..Len(pairs)] == IF i = 0 THEN gs ELSE Union(join[i - 1], pairs[i])
  IN join[Len(pairs)]

\* The proposals whose folded label an existing class has; no two share one.
ExactMatches(d) ==
  /\ stage = "exact"
  /\ \E f \in [d -> InOntology] : \E m \in SetToSeqs({<<c, f[c]>> : c \in d}) : group' = Joined(group, m)
  /\ stage' = "existing" /\ source' = Kept
  /\ UNCHANGED <<status, mergedInto, judging, rename>>

\* The pairs of one source label, each once, but those of one group by now.
Candidates(c) ==
  LET to == IF stage = "existing" THEN InOntology ELSE {x \in Kept : x > c}
  IN {<<c, x>> : x \in {y \in to : Find(group, y) # Find(group, c)}}

\* The pairs over t_hi are merged at once, the others go to the judge, which may
\* answer after later lookups.
Lookup(c, auto, ask) ==
  /\ stage \in {"existing", "class"}
  /\ c \in source /\ Cardinality(judging) < MaxPending
  /\ source' = source \ {c}
  /\ \E s \in SetToSeqs(auto) : group' = Joined(group, s)
  /\ judging' = judging \cup ({ask} \ {{}})
  /\ UNCHANGED <<stage, status, mergedInto, rename>>

NextKind ==
  /\ stage = "existing" /\ source = {}
  /\ stage' = "class" /\ source' = Kept
  /\ UNCHANGED <<status, mergedInto, group, judging, rename>>

\* A failed batch, or a pair the judge does not list, leaves the pairs apart.
JudgeAnswers(batch, same) ==
  /\ batch \in judging
  /\ judging' = judging \ {batch}
  /\ \E s \in SetToSeqs(same) : group' = Joined(group, s)
  /\ UNCHANGED <<stage, status, mergedInto, source, rename>>

\* canonical
Canon(g) == CHOOSE c \in g : \A x \in g : c <= x

MergedLabels == {c \in Kept : Canon(Find(group, c)) # c}

\* Mutant: the merges are written without waiting for the judge.
WriteWithoutDrain ==
  /\ stage = "class" /\ source = {}
  /\ mergedInto' = [c \in MergedLabels |-> Canon(Find(group, c))]
  /\ status' = [c \in NewLabel |-> IF c \in MergedLabels THEN "merged" ELSE status[c]]
  /\ stage' = "written"
  /\ UNCHANGED <<group, source, judging, rename>>

\* "never retire an existing class": only proposals are merged into the canon.
WriteMerges ==
  /\ stage = "class" /\ source = {} /\ judging = {}
  /\ mergedInto' = [c \in MergedLabels |-> Canon(Find(group, c))]
  /\ status' = [c \in NewLabel |-> IF c \in MergedLabels THEN "merged" ELSE status[c]]
  /\ stage' = "written"
  /\ UNCHANGED <<group, source, judging, rename>>

-----------------------------------------------------------------------------
\* What a reference to c becomes in one step: a kept class answers to itself.
Renamed(c, parent) ==
  CASE status[c] = "merged" -> mergedInto[c]
    [] status[c] = "kept"   -> c
    [] OTHER                -> parent[c]

\* fix: chains are followed until a name comes up again.
Fix(ref, parent) ==
  LET walk[i \in 0..NProposed] ==
        IF i = 0 THEN <<ref, {}>>
        ELSE LET w == walk[i - 1] IN
             IF w[1] \in NewLabel \ w[2] THEN <<Renamed(w[1], parent), w[2] \cup {w[1]}>> ELSE w
  IN walk[NProposed][1]

\* parent_of: the parent that most replies gave, an existing one before others.
Rebuild(parent) ==
  /\ stage = "written"
  /\ rename' = [c \in NewLabel |-> Fix(c, parent)]
  /\ stage' = "rebuilt"
  /\ UNCHANGED <<status, mergedInto, group, source, judging>>

DedupNext ==
  \/ \E junk, named \in SUBSET NewLabel : ValidityJudge(junk, named \ junk)
  \/ \E d \in SUBSET Kept : ExactMatches(d)
  \/ \E c \in source : \E auto \in SUBSET Candidates(c) : \E ask \in SUBSET (Candidates(c) \ auto) :
       Lookup(c, auto, ask)
  \/ NextKind \/ WriteMerges
  \/ \E batch \in judging : \E same \in SUBSET batch : JudgeAnswers(batch, same)
  \/ \E parent \in [{c \in NewLabel : status[c] \in {"junk", "instance"}} -> Label \cup {NoClass}] : Rebuild(parent)

-----------------------------------------------------------------------------
\* Verdicts in any order, caps and failures included, the stage keeps the promise
\* of a consolidation: groups only grow, nothing is merged once the references are
\* rewritten, every reference names the class of its group, and no class of the
\* ontology answers to another.
Promise == INSTANCE Consolidation WITH
  Proposed <- NewLabel, Existing <- InOntology, Cap <- MaxGroup, groups <- group,
  dropped <- {c \in NewLabel : status[c] \in {"junk", "instance"}}, answer <- rename

DedupKeepsPromise == Promise!ConsolidationSpec

=============================================================================
