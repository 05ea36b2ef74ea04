---------------------------- MODULE ChunkProposals ----------------------------
(***************************************************************************)
(* Stages 1 to 3 of the ontology build, echo mode: chunks are classified,  *)
(* each chunk with branches is asked for new classes and instances under a *)
(* cost cap, and the proposals are deduplicated in batches by a model that *)
(* echoes what it keeps.  Labels that look like one entity are instances,  *)
(* the others classes.  A run that cannot finish a stage emits nothing.    *)
(***************************************************************************)
EXTENDS Naturals, FiniteSets, Sequences

CONSTANTS
  PChunk, PLabel,
  PEntity,    \* labels that _looks_like_entity_not_class
  PKnown,     \* labels of classes of the loaded ontology
  PCanon,     \* labels with a canonical IRI there ("Person", "Role")
  Proposing,  \* the Stage-2 semaphore
  PCap        \* max_cost_usd, in calls

ASSUME ProposalsAssumption ==
  /\ PEntity \subseteq PLabel /\ IsFiniteSet(PChunk) /\ Proposing \in Nat \ {0} /\ PCap \in Nat

VARIABLES
  pstage,     \* "classified", "propose", "dedup", "coerce", "emitted" or "stopped"
  todo, inCall, skipped,   \* chunks to ask, being asked, not asked for want of budget
  paid, over, \* total_cost_usd and the flag stage2_over_budget
  matched,    \* MATCHES FOUND, by name
  proposed,   \* labels proposed, before the dedup
  typeOf,     \* TYPE_LABEL of each proposed instance
  batches,    \* dedup batches under way: their halves, and failed attempts so far
  failed,
  out,        \* labels that come back
  stands      \* at the end, the class each class became

proposalVars ==
  <<pstage, todo, inCall, skipped, paid, over, matched, proposed, typeOf, batches, failed, out, stands>>

PClass == PLabel \ PEntity
TypeLabel == PLabel \cup {"NONE", "IRI"}

ProposalsTypeOK ==
  /\ todo \cup inCall \cup skipped \subseteq PChunk /\ Cardinality(inCall) <= Proposing
  /\ matched \subseteq PKnown /\ proposed \cup out \subseteq PLabel
  /\ DOMAIN typeOf \subseteq PEntity /\ \A i \in DOMAIN typeOf : typeOf[i] \in TypeLabel
  /\ (proposed \cup out) \cap PEntity = DOMAIN typeOf
  /\ \A b \in batches : b.tries \in 0..2 /\ Len(b.parts) \in 1..2

\* Stage 1 has run: some chunks have branches, and something has been spent.
ProposalsInit ==
  /\ pstage = "classified" /\ todo \in SUBSET PChunk /\ inCall = {} /\ skipped = {}
  /\ paid \in 0..PCap + 1 /\ over = FALSE /\ matched = {} /\ proposed = {} /\ typeOf = <<>>
  /\ batches = {} /\ failed = FALSE /\ out = {} /\ stands = <<>>

-----------------------------------------------------------------------------
\* The cost gate before Stage 2.
StartStage2 ==
  /\ pstage = "classified"
  /\ pstage' = IF paid > PCap THEN "stopped" ELSE "propose"
  /\ UNCHANGED <<todo, inCall, skipped, paid, over, matched, proposed, typeOf, batches, failed, out, stands>>

\* _propose_one, once it holds the semaphore.
Ask(c) ==
  /\ pstage = "propose" /\ c \in todo /\ Cardinality(inCall) < Proposing
  /\ todo' = todo \ {c}
  /\ IF over THEN skipped' = skipped \cup {c} /\ UNCHANGED inCall
             ELSE inCall' = inCall \cup {c} /\ UNCHANGED skipped
  /\ UNCHANGED <<pstage, paid, over, matched, proposed, typeOf, batches, failed, out, stands>>

\* A reply's entries: labels that look like an entity are demoted to instances
\* whose type is the parent they were given; merge_llm_jsons_recursive appends.
Takes(new, types, met) ==
  /\ proposed' = proposed \cup new
  /\ typeOf' = [i \in (proposed \cup new) \cap PEntity |-> IF i \in proposed THEN typeOf[i] ELSE types[i]]
  /\ matched' = matched \cup met

Returns(c, bill) ==
  /\ pstage = "propose" /\ c \in inCall
  /\ inCall' = inCall \ {c} /\ paid' = paid + bill /\ over' = (over \/ paid' > PCap)
  /\ UNCHANGED <<pstage, todo, skipped, batches, failed, out, stands>>

Propose(c, new, types, met) == Returns(c, 1) /\ Takes(new, types, met)

\* A call that raises costs nothing that is counted; an unreadable reply does.
ProposeFails(c, bill) == Returns(c, bill) /\ UNCHANGED <<matched, proposed, typeOf>>

\* batch_by_token_budget splits each kind into batches of its own (bound: two).
Batchings(labels) ==
  {{{l \in labels \cap kind : place[l] = n} : kind \in {PClass, PEntity}, n \in 1..2} \ {{}} :
     place \in [labels -> 1..2]}

\* The gather is over; table mining adds its proposals; the cost gate after it.
EndStage2(new, types) ==
  /\ pstage = "propose" /\ todo = {} /\ inCall = {}
  /\ Takes(new, types, {})
  /\ pstage' = IF paid > PCap THEN "stopped" ELSE "dedup"
  /\ \E p \in Batchings(proposed') : batches' = {[parts |-> <<b>>, tries |-> 0] : b \in p}
  /\ UNCHANGED <<todo, inCall, skipped, paid, over, failed, out, stands>>

\* A batch that is answered: any labels of its kind come back, instances with any type.
DedupAnswers(b, back, types) ==
  /\ pstage = "dedup" /\ b \in batches
  /\ out' = out \cup back
  /\ typeOf' = [i \in DOMAIN typeOf \cup (back \cap PEntity) |-> IF i \in back \ out THEN types[i] ELSE typeOf[i]]
  /\ batches' = (batches \ {b}) \cup (IF Len(b.parts) = 1 THEN {} ELSE {[b EXCEPT !.parts = Tail(@)]})
  /\ UNCHANGED <<pstage, todo, inCall, skipped, paid, over, matched, proposed, failed, stands>>

\* One retry, then two halves, each tried once; a batch of one, or a half that
\* fails, fails the run, whose other batches go on.
DedupFails(b, half) ==
  /\ pstage = "dedup" /\ b \in batches
  /\ LET items == Head(b.parts) IN
     batches' = (batches \ {b}) \cup
       CASE b.tries = 0 -> {[b EXCEPT !.tries = 1]}
         [] b.tries = 1 /\ Cardinality(items) > 1 -> {[parts |-> <<half, items \ half>>, tries |-> 2]}
         [] OTHER -> {}
  /\ failed' = (failed \/ b.tries = 2 \/ (b.tries = 1 /\ Cardinality(Head(b.parts)) = 1))
  /\ UNCHANGED <<pstage, todo, inCall, skipped, paid, over, matched, proposed, typeOf, out, stands>>

\* Mutant: what the model did not echo is dropped.
EchoOnly(back) == back \ (matched \ PEntity)

\* "The input is treated as the source of truth": what did not come back is put back,
\* but no class that was matched enters as new; an instance may bear its name.
Reconciled(back) == (back \cup proposed) \ (matched \ PEntity)

\* The types of instances that no class has, unless they name an entity or an IRI.
Synthesised(labels) ==
  {typeOf[i] : i \in labels \cap PEntity} \ (labels \cup matched \cup PEntity \cup {"NONE", "IRI"})

EndDedup ==
  /\ pstage = "dedup" /\ batches = {}
  /\ pstage' = IF failed THEN "stopped" ELSE "coerce"
  /\ out' = Reconciled(out) \cup Synthesised(Reconciled(out))
  /\ UNCHANGED <<todo, inCall, skipped, paid, over, matched, proposed, typeOf, batches, failed, stands>>

\* Canonical labels become IRIs, synonyms their canonical class (3b, `same` maps each
\* class to the one kept), and shared heads become classes (3c).
Emit(same, heads) ==
  LET coerced(t) == IF t \in PCanon THEN "IRI" ELSE t
      renamed(t) == IF t \in DOMAIN same THEN same[t] ELSE t
  IN
  /\ pstage = "coerce"
  /\ pstage' = "emitted"
  /\ typeOf' = [i \in DOMAIN typeOf |-> renamed(coerced(typeOf[i]))]
  /\ out' = (out \cap PEntity) \cup {same[c] : c \in DOMAIN same} \cup heads
  /\ stands' = same
  /\ UNCHANGED <<todo, inCall, skipped, paid, over, matched, proposed, batches, failed>>

ProposalsNext ==
  \/ StartStage2
  \/ \E c \in todo : Ask(c)
  \/ \E c \in inCall :
       \/ \E new \in SUBSET PLabel, met \in SUBSET PKnown, t \in TypeLabel :
            Cardinality(new) <= 2 /\ Propose(c, new, [i \in PEntity |-> t], met)
       \/ \E bill \in {0, 1} : ProposeFails(c, bill)
  \/ \E new \in SUBSET PLabel, t \in TypeLabel : Cardinality(new) <= 1 /\ EndStage2(new, [i \in PEntity |-> t])
  \/ \E b \in batches :
       \/ \E back \in SUBSET (IF Head(b.parts) \subseteq PEntity THEN PEntity ELSE PClass), t \in TypeLabel :
            DedupAnswers(b, back, [i \in PEntity |-> t])
       \/ \E half \in SUBSET Head(b.parts) :
            Cardinality(half) = Cardinality(Head(b.parts)) \div 2 /\ DedupFails(b, half)
  \/ EndDedup
  \/ \E heads \in SUBSET PClass, same \in [out \cap PClass -> out \cap PClass] :
       Cardinality(heads) <= 1 /\ (\A c \in DOMAIN same : same[same[c]] = same[c]) /\ Emit(same, heads)

-----------------------------------------------------------------------------
\* Once the cap is crossed, no more calls are paid than were under way: "bounds the
\* overshoot to ~concurrency in-flight calls".
OvershootBounded == pstage # "classified" => paid <= PCap + Proposing

\* What is emitted has asked every chunk; every class proposed exists, stands in
\* another or was merged into one that does, and every instance has a type of that
\* kind, or one no class is made of.
EmittedIsWhole ==
  pstage = "emitted" =>
    /\ skipped = {}
    /\ \A c \in proposed \cap PClass : c \in matched \/ (c \in DOMAIN stands /\ stands[c] \in out)
    /\ \A i \in proposed \cap PEntity :
         i \in out /\ typeOf[i] \in out \cup matched \cup PEntity \cup {"NONE", "IRI"}

\* The stage loses no class and spends no more than it says.
ProposalsInv == EmittedIsWhole /\ OvershootBounded

=============================================================================
