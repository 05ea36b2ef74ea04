------------------------------ MODULE MCCorpus ------------------------------
(***************************************************************************)
(* Corpus for TLC: texts, artifact ids and processes are model values.     *)
(***************************************************************************)
EXTENDS Corpus, TLC

\* Processes and artifact ids are interchangeable: nothing orders them.
Symmetry == Permutations(Job) \cup Permutations(Art)

=============================================================================
