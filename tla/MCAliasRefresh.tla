--------------------------- MODULE MCAliasRefresh ---------------------------
(***************************************************************************)
(* AliasRefresh for TLC: two pairs the text states, one of which the       *)
(* annotations state as well.                                              *)
(***************************************************************************)
EXTENDS AliasRefresh, TLC

CONSTANTS t1, t2

MCMinable ==
  {<<t1, "parenthetical">>, <<t2, "phrase">>, <<t2, "ontology">>}

Symmetry == Permutations(Proc)

=============================================================================
