----------------------------- MODULE ChunkReading -----------------------------
(***************************************************************************)
(* extract_entities._one for one chunk, up to its relationships: the menu  *)
(* of classes, the extraction and its filter, the review loop that drops,  *)
(* criticises and asks again, and the concept pass.  Replies are arbitrary *)
(* as the models' are; what is kept of them is not.                        *)
(***************************************************************************)
EXTENDS Naturals, Sequences, FiniteSets

CONSTANTS
  Ranked,       \* classes with a vector, nearest to the chunk first
  Withheld,     \* menu_excluded: generated classes that look like individuals
  Above,        \* superclass chain, as pairs (class, ancestor)
  Universal,    \* pinned_class_labels, resolved
  ConceptClass, \* the closure of concept_class_roots
  TypeKey,      \* TypeKey[c]: the label of class c, folded
  MenuSize,     \* candidate_classes_per_chunk
  RecoveryPool, \* recovery_pool
  ReadName,     \* names a reply may hold
  NameKey,      \* NameKey[n]: _dedup_key
  ReviewRounds  \* validation_rounds

ASSUME ReadAssumption ==
  /\ Ranked \in Seq({Ranked[i] : i \in DOMAIN Ranked})
  /\ {MenuSize, RecoveryPool, ReviewRounds} \subseteq Nat

MenuClass == {Ranked[i] : i \in DOMAIN Ranked} \cup {a[2] : a \in Above} \cup Universal
FoldedKey == {TypeKey[c] : c \in MenuClass}

VARIABLES
  within,   \* classes within max_candidate_l2
  pinned,   \* pinned_iris
  reading,  \* where _one is: "read", "review", "reread", "concepts", "ok", "failed"
  kept,     \* [name, cls], in order
  feedback, \* what the next extraction is told: wrong (index and better class), missing
  rounds,   \* reviews done
  meant,    \* history: entity and better class as the reviewer said them
  emptied,  \* history: the last review dropped all it was shown
  named     \* history: entities kept before the concept pass; 0: none yet

readVars == <<within, pinned, reading, kept, feedback, rounds, meant, emptied, named>>

NoFeedback == [wrong |-> {}, missing |-> FALSE]
Kept == [name : ReadName, cls : MenuClass]

ReadTypeOK ==
  /\ within \in 0..Len(Ranked) /\ pinned \subseteq Universal /\ rounds \in 0..ReviewRounds
  /\ \A i \in DOMAIN kept : kept[i] \in Kept

ReadInit ==
  /\ within \in 0..Len(Ranked) /\ pinned \in {{}, Universal}
  /\ reading = "read" /\ kept = <<>> /\ feedback = NoFeedback /\ rounds = 0
  /\ meant = {} /\ emptied = FALSE /\ named = 0

-----------------------------------------------------------------------------
\* _candidate_classes.  Three times the menu is fetched when some may be withheld.
OverFetch ==
  LET n == IF Withheld = {} THEN MenuSize ELSE 3 * MenuSize
  IN IF RecoveryPool > n THEN RecoveryPool ELSE n

\* The ranks of the classes that are near and not withheld.
Pool ==
  {i \in 1..(IF within < OverFetch THEN within ELSE OverFetch) : Ranked[i] \notin Withheld}

First(n) == {Ranked[i] : i \in {j \in Pool : Cardinality({k \in Pool : k <= j}) <= n}}

Menu ==
  LET top == First(MenuSize)
  IN top \cup {a[2] : a \in {b \in Above : b[1] \in top /\ b[2] \notin Withheld}} \cup pinned

\* The recovery index: what was on the menu or near it.
Recoverable == IF RecoveryPool = 0 THEN {} ELSE First(RecoveryPool) \cup Menu

\* A key that two classes share names none.
Names(S, key) ==
  LET hit == {c \in S : TypeKey[c] = key}
  IN IF Cardinality(hit) = 1 THEN hit ELSE {}

\* An item says a class by its IRI, or by its label, or abstains and proposes one.
Said == ({"iri"} \X MenuClass) \cup ({"label", "abstains"} \X FoldedKey)

ClassOf(menu, said) ==
  IF said[1] = "abstains" THEN Names(Recoverable, said[2])
  ELSE IF said[1] = "iri" /\ said[2] \in menu THEN {said[2]}
  ELSE Names(menu, IF said[1] = "iri" THEN TypeKey[said[2]] ELSE said[2])

\* _filter_entities: what one item comes to, and what a reply may.
Filtered(menu) == [name : ReadName, cls : UNION {ClassOf(menu, said) : said \in Said}]
Replies(menu) == UNION {[1..n -> Filtered(menu)] : n \in 0..2}

-----------------------------------------------------------------------------
\* The call raises, or two replies in a row do not parse.
ReadFails ==
  /\ reading = "read" /\ Menu # {}
  /\ reading' = "failed"
  /\ UNCHANGED <<within, pinned, kept, feedback, rounds, meant, emptied, named>>

\* A chunk without candidates is done, and no failure.
Read ==
  /\ reading = "read"
  /\ IF Menu = {} THEN kept' = <<>> /\ reading' = "ok"
     ELSE /\ kept' \in Replies(Menu)
          /\ reading' = IF kept' # <<>> /\ ReviewRounds > 0 THEN "review" ELSE "concepts"
  /\ UNCHANGED <<within, pinned, feedback, rounds, meant, emptied, named>>

\* The reviewer's menu holds the classes that were recovered from off the menu.
ReviewMenu == Menu \cup {kept[i].cls : i \in DOMAIN kept}

\* _sanitise_verdicts: a better class that is off the menu or unfit is none.
Sane(verdict) ==
  IF verdict[1] = "wrong" /\ (verdict[2] \notin ReviewMenu \/ verdict[2] \in Withheld)
  THEN <<"correct">> ELSE verdict

Verdict == {<<"correct">>, <<"drop">>} \cup ({"wrong"} \X MenuClass)

\* Mutant: the verdicts keep the places the reviewer was shown.
SamePlace(i, drops) == i

\* The place of the i-th entity once those of drops are gone.
PlaceAfter(i, drops) == i - Cardinality({d \in drops : d < i})

\* What the reviewer drops goes at once; the rest is for the next extraction.
Review ==
  /\ reading = "review"
  /\ \E verdicts \in [DOMAIN kept -> Verdict], missing \in BOOLEAN :
       LET v == [i \in DOMAIN kept |-> Sane(verdicts[i])]
           drops == {i \in DOMAIN kept : v[i][1] = "drop"}
           wrong == {i \in DOMAIN kept : v[i][1] = "wrong"}
           left == {i \in DOMAIN kept : i \notin drops}
       IN /\ kept' = [j \in 1..Cardinality(left) |->
                        kept[CHOOSE i \in left : Cardinality({k \in left : k <= i}) = j]]
          /\ feedback' = [wrong |-> {<<PlaceAfter(i, drops), v[i][2]>> : i \in wrong}, missing |-> missing]
          /\ meant' = {<<kept[i], v[i][2]>> : i \in wrong}
          /\ emptied' = (left = {})
          /\ reading' = IF wrong # {} \/ missing THEN "reread" ELSE "concepts"
  /\ rounds' = rounds + 1
  /\ UNCHANGED <<within, pinned, named>>

\* It fails open.
ReviewFails ==
  /\ reading = "review" /\ reading' = "concepts"
  /\ UNCHANGED <<within, pinned, kept, feedback, rounds, meant, emptied, named>>

\* A second extraction that fails or finds nothing changes nothing.
Reread(revised) ==
  /\ reading = "reread"
  /\ IF revised = <<>>
     THEN reading' = "concepts" /\ UNCHANGED <<kept, emptied>>
     ELSE /\ kept' = revised /\ emptied' = FALSE
          /\ reading' = IF rounds < ReviewRounds THEN "review" ELSE "concepts"
  /\ feedback' = NoFeedback /\ meant' = {}
  /\ UNCHANGED <<within, pinned, rounds, named>>

ConceptMenu == Menu \cap ConceptClass

\* What the concept pass adds to the list, one reply item after the other.
Appended(list, item) ==
  IF \E i \in DOMAIN list : NameKey[list[i].name] = NameKey[item.name] THEN list ELSE Append(list, item)

\* The concept pass fails soft, and without a concept class there is none.
Concepts(found) ==
  /\ reading = "concepts" /\ reading' = "ok"
  /\ named' = Len(kept)
  /\ kept' = CASE found = <<>> -> kept
               [] Len(found) = 1 -> Appended(kept, found[1])
               [] OTHER -> Appended(Appended(kept, found[1]), found[2])
  /\ UNCHANGED <<within, pinned, feedback, rounds, meant, emptied>>

ReadNext ==
  \/ ReadFails \/ Read \/ Review \/ ReviewFails
  \/ reading = "reread" /\ \E revised \in Replies(Menu) : Reread(revised)
  \/ reading = "concepts" /\ \E found \in IF ConceptMenu = {} THEN {<<>>} ELSE Replies(ConceptMenu) : Concepts(found)

-----------------------------------------------------------------------------
\* "The extractor cannot pick what it was never shown": whatever a model says, and
\* through whatever recovery, a kept class was on the menu or near it, and is no
\* withheld one unless it is pinned.
NeverWithheld ==
  \A i \in DOMAIN kept : kept[i].cls \in (Menu \cup Recoverable) \ (Withheld \ pinned)

\* The critique points at the entities that the reviewer meant, after its drops.
CritiqueOnTarget ==
  reading = "reread" => {<<kept[w[1]], w[2]>> : w \in {x \in feedback.wrong : x[1] \in DOMAIN kept}} = meant

\* "An unreachable or misbehaving reviewer must never empty the graph": a chunk
\* that had entities ends with none only if a review dropped each of them.
FailsOpen == reading \in {"concepts", "ok"} /\ rounds > 0 /\ kept = <<>> => emptied

\* What the concept pass adds is named as nothing else of the chunk.
NoEcho ==
  reading = "ok" => \A i, j \in DOMAIN kept : i < j /\ j > named => NameKey[kept[i].name] # NameKey[kept[j].name]

ReadingInv == NeverWithheld /\ CritiqueOnTarget /\ FailsOpen /\ NoEcho

=============================================================================
