------------------------------ MODULE NameMerges ------------------------------
(***************************************************************************)
(* The names of a run's entities, before identity is decided:              *)
(* _resolve_canonical_forms maps every normalised name to one form, chains *)
(* are collapsed in the order of a dictionary, and each entity is given    *)
(* the spelling to display.  What is known of two names by their letters   *)
(* (length, key, word order, prefix, suffix) is given by constants.        *)
(***************************************************************************)
EXTENDS Naturals, Sequences, FiniteSets

CONSTANTS
  Spelling,   \* canonical and short names as they are written
  Norm,       \* Norm[s]: _normalize_name
  RawLen,     \* RawLen[s]: letters of s
  NormLen,    \* NormLen[n]: letters of a normalised name
  DedupKey,   \* DedupKey[n]: _dedup_key
  Words,      \* Words[n]: the number of words
  WordBag,    \* WordBag[n]: the words in alphabetical order
  Alphabet,   \* Alphabet[n]: the place of n in alphabetical order
  SuffixOf,   \* pairs: the words of the first end the second
  PrefixOf,   \* pairs: the words of the first begin the second
  Mention,    \* what extraction may return: [canon, short, cls, supported]
  PersonClass,\* _person_classes
  MaxMentions \* bound: entities of the run

Normal == {Norm[s] : s \in Spelling}

ASSUME SpellingAssumption ==
  /\ IsFiniteSet(Spelling)
  /\ \A m \in Mention : m.canon \in Spelling /\ m.short \in Spelling
  /\ {Words[n] : n \in Normal} \cup {Alphabet[n] : n \in Normal} \subseteq Nat
  /\ \A n, o \in Normal : Alphabet[n] = Alphabet[o] => n = o

VARIABLES
  found,     \* results, in order
  nameStage, \* "extract", "collapse", "done"
  alias,     \* the map, while it is built
  raw,       \* history: the map before chains were collapsed
  uncollapsed\* names of the map still to be looked at

nameVars == <<found, nameStage, alias, raw, uncollapsed>>

NamesTypeOK ==
  /\ \A i \in DOMAIN found : found[i] \in Mention
  /\ DOMAIN alias \subseteq Normal /\ \A n \in DOMAIN alias : alias[n] \in Normal
  /\ uncollapsed \subseteq DOMAIN alias

NamesInit ==
  /\ found = <<>> /\ nameStage = "extract"
  /\ alias = <<>> /\ raw = <<>> /\ uncollapsed = {}

CanonOf(m) == Norm[m.canon]
Short(m) == Norm[m.short]
All == {found[i] : i \in DOMAIN found}

ExtractName(m) ==
  /\ nameStage = "extract" /\ Len(found) < MaxMentions
  /\ found' = Append(found, m)
  /\ UNCHANGED <<nameStage, alias, raw, uncollapsed>>

-----------------------------------------------------------------------------
\* The short form joins if the chunk or its shape bears it out and it is no mere
\* beginning of the name, unless of a person's.
Pairs(m) ==
  /\ Short(m) # CanonOf(m)
  /\ DedupKey[Short(m)] = DedupKey[CanonOf(m)] \/ m.supported
  /\ <<Short(m), CanonOf(m)>> \notin PrefixOf \/ m.cls \in PersonClass

\* The names a mention notes under its key, and the key its short form opens.
Noted(m) == {CanonOf(m)} \cup (IF Pairs(m) THEN {Short(m)} ELSE {})
Opens(m) == {DedupKey[n] : n \in Noted(m)}
Key(m) == DedupKey[CanonOf(m)]
Keys == UNION {Opens(m) : m \in All}

Variants(k) ==
  (UNION {Noted(m) : m \in {x \in All : Key(x) = k}}) \cup
  {Short(m) : m \in {x \in All : Pairs(x) /\ DedupKey[Short(x)] = k}}

\* longest: the first of the longest that were noted under k; none, when k was
\* only opened by short forms: then any of them.
NotedAt(n, k) == {i \in DOMAIN found : Key(found[i]) = k /\ n \in Noted(found[i])}
Earlier(a, b, k) ==
  \E i \in NotedAt(a, k) : \A j \in NotedAt(b, k) : i < j \/ (i = j /\ CanonOf(found[i]) = a)
Longest(k) ==
  LET noted == {n \in Variants(k) : NotedAt(n, k) # {}}
  IN IF noted = {} THEN Variants(k)
     ELSE {n \in noted : \A o \in noted \ {n} :
             NormLen[n] > NormLen[o] \/ (NormLen[n] = NormLen[o] /\ Earlier(n, o, k))}

\* The groups in the order in which they were opened: the last one to move a name wins.
OpenedAt(k) ==
  LET at == {i \in DOMAIN found : k \in Opens(found[i])}
      first == CHOOSE i \in at : \A j \in at : i <= j
  IN <<first, IF Key(found[first]) = k THEN 0 ELSE 1>>
LaterGroup(k, l) ==
  OpenedAt(k)[1] > OpenedAt(l)[1] \/ (OpenedAt(k)[1] = OpenedAt(l)[1] /\ OpenedAt(k)[2] > OpenedAt(l)[2])

Moves(target, n) == {k \in Keys : n \in Variants(k) /\ target[k] # n}
ByGroup(target) ==
  [n \in {x \in Normal : Moves(target, x) # {}} |->
     target[CHOOSE k \in Moves(target, n) : \A l \in Moves(target, n) \ {k} : LaterGroup(k, l)]]

\* The names of a class, and the two rules that need it.
OfClass(c) == {CanonOf(m) : m \in {x \in All : x.cls = c}}
Fuller(n, c) == {f \in OfClass(c) : <<n, f>> \in SuffixOf}

\* A person called by the end of the name, by the fullest one that fits.
Surname(n, c) ==
  CHOOSE f \in Fuller(n, c) : \A g \in Fuller(n, c) \ {f} :
    Words[f] > Words[g] \/ (Words[f] = Words[g] /\ Alphabet[f] < Alphabet[g])

\* The same words, by the first of them in the alphabet.
Reordered(n, c) ==
  LET same == {f \in OfClass(c) : WordBag[f] = WordBag[n]}
  IN CHOOSE f \in same : \A g \in same : Alphabet[f] <= Alphabet[g]

SurnameClasses(n) == {c \in PersonClass : n \in OfClass(c) /\ Fuller(n, c) # {}}
ReorderClasses(n) == {c \in {m.cls : m \in All} : n \in OfClass(c) /\ Reordered(n, c) # n}

\* The order: groups, surnames, word order; the first to move a name keeps it.
ResolveForms ==
  /\ nameStage = "extract" /\ found # <<>>
  /\ \E target \in LET longest == [k \in Keys |-> Longest(k)]
                   IN {f \in [Keys -> UNION {longest[k] : k \in Keys}] : \A k \in Keys : f[k] \in longest[k]} :
       LET groups == ByGroup(target)
           rest == {n \in Normal \ DOMAIN groups : SurnameClasses(n) # {} \/ ReorderClasses(n) # {}}
           Rule(n) == IF SurnameClasses(n) # {} THEN Surname(n, CHOOSE c \in SurnameClasses(n) : TRUE)
                      ELSE Reordered(n, CHOOSE c \in ReorderClasses(n) : TRUE)
       IN raw' = [n \in DOMAIN groups \cup rest |-> IF n \in rest THEN Rule(n) ELSE groups[n]]
  /\ alias' = raw' /\ uncollapsed' = DOMAIN raw'
  /\ nameStage' = "collapse"
  /\ UNCHANGED found

\* Mutant: chains are left as they are.
NextLink(n) == alias[n]

\* The end of the chain from n, or the name at which it closes.
EndOf(n) ==
  LET walk[i \in 0..Cardinality(Normal)] ==
        IF i = 0 THEN <<alias[n], {n}>>
        ELSE LET w == walk[i - 1] IN
             IF w[1] \in DOMAIN alias \ w[2] THEN <<alias[w[1]], w[2] \cup {w[1]}>> ELSE w
  IN walk[Cardinality(Normal)][1]

\* In the order of the dictionary, which is that of sets of strings.
Collapse(n) ==
  /\ nameStage = "collapse" /\ n \in uncollapsed
  /\ alias' = [alias EXCEPT ![n] = EndOf(n)]
  /\ uncollapsed' = uncollapsed \ {n}
  /\ UNCHANGED <<found, nameStage, raw>>

\* A name that ends at itself is no alias.
EndCollapse ==
  /\ nameStage = "collapse" /\ uncollapsed = {}
  /\ alias' = [n \in {x \in DOMAIN alias : alias[x] # x} |-> alias[n]]
  /\ nameStage' = "done"
  /\ UNCHANGED <<found, raw, uncollapsed>>

\* The entities of a run whose names are merged: the display form is the longest
\* spelling of the target and of all that go to it.
Spellings(t) ==
  {m.canon : m \in {x \in All : CanonOf(x) = t \/ (CanonOf(x) \in DOMAIN alias /\ alias[CanonOf(x)] = t)}}
Display(t) ==
  {s \in Spellings(t) : \A r \in Spellings(t) \ {s} :
     RawLen[r] < RawLen[s] \/ (RawLen[r] = RawLen[s] /\ Norm[r] # t)}

\* _merged_name: the normalised names an entity may be stored under.
StoredAs(m) ==
  IF CanonOf(m) \notin DOMAIN alias THEN {CanonOf(m)} ELSE {Norm[s] : s \in Display(alias[CanonOf(m)])}

NamesNext ==
  \/ \E m \in Mention : ExtractName(m)
  \/ ResolveForms \/ EndCollapse
  \/ \E n \in uncollapsed : Collapse(n)

-----------------------------------------------------------------------------
Circular == \E S \in (SUBSET DOMAIN raw) \ {{}} : \A n \in S : raw[n] \in S

\* "Every variant lands on one final spelling rather than an intermediate one",
\* in whatever order the chains are collapsed, unless they close into a circle; and
\* a name that no rule touches is left as it is.
ChainsEnd ==
  nameStage = "done" /\ ~Circular =>
    /\ \A n \in DOMAIN alias : alias[n] \notin DOMAIN alias
    /\ DOMAIN alias = DOMAIN raw

\* The vote, the rows and the edges "all agree on one spelling": an entity is
\* stored under the same name as one whose spelling it was merged into.
AgreeOnSpelling ==
  nameStage = "done" =>
    \A m, t \in All : CanonOf(m) \in DOMAIN alias /\ alias[CanonOf(m)] = CanonOf(t) => StoredAs(m) = StoredAs(t)

=============================================================================
