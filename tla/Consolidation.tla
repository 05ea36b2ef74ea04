---------------------------- MODULE Consolidation ----------------------------
(***************************************************************************)
(* What a deduplication of the proposed classes promises, whatever it      *)
(* compares and in which order: proposals are dropped first, groups only   *)
(* grow and never beyond a cap, and once every proposal has its answer     *)
(* (the class that stands for it) nothing is merged any more.              *)
(***************************************************************************)
EXTENDS Naturals, FiniteSets

CONSTANTS Proposed, Existing, Cap, NoClass

VARIABLES groups, dropped, answer

consolidationVars == <<groups, dropped, answer>>

Open == answer = <<>>

ConsolidationInit ==
  /\ groups = {{l} : l \in Proposed \cup Existing}
  /\ dropped = {}
  /\ answer = <<>>

Drop ==
  /\ Open /\ \A g \in groups : Cardinality(g) = 1
  /\ dropped' \in SUBSET Proposed
  /\ UNCHANGED <<groups, answer>>

\* The groups of several pairs may be merged at once.
Merge ==
  /\ Open
  /\ \A g \in groups' : (g \in groups \/ Cardinality(g) <= Cap) /\ (Cardinality(g) = 1 \/ (g \cap dropped) = {})
  /\ \A g \in groups : \E h \in groups' : g \subseteq h
  /\ UNCHANGED <<dropped, answer>>

\* A group answers with one class, one that exists if it has any; what was dropped
\* with a class that stays, unless dropped classes name each other as parents.
Answer ==
  /\ Open
  /\ answer' \in [Proposed -> Proposed \cup Existing \cup {NoClass}]
  /\ \A g \in groups : \E c \in g :
       /\ g \cap Existing # {} => c \in Existing
       /\ \A l \in (g \cap Proposed) \ dropped : answer'[l] = c
  /\ LET stays == Existing \cup {answer'[l] : l \in Proposed \ dropped} IN
     \A l \in dropped :
       \/ answer'[l] \in stays \cup {NoClass}
       \/ answer'[l] \in dropped /\ answer'[answer'[l]] = answer'[l]
  /\ UNCHANGED <<groups, dropped>>

ConsolidationSpec == ConsolidationInit /\ [][Drop \/ Merge \/ Answer]_consolidationVars

=============================================================================
