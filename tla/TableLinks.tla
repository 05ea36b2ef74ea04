------------------------------ MODULE TableLinks ------------------------------
(***************************************************************************)
(* The last step of every extraction run, _link_tables_to_entities: tables *)
(* are joined to the entities their caption and cells name, by the full    *)
(* name or by what is left of it without its legal suffixes.  The rows     *)
(* come in whatever order the database gives, and two runs may be at it at *)
(* once; nothing in the schema keeps an edge from being there twice.       *)
(***************************************************************************)
EXTENDS Naturals, FiniteSets, SequencesExt

CONSTANTS
  LEntity,     \* entities
  FullName,    \* FullName[e]: its normalized_name
  Stripped,    \* Stripped[n]: n without its last legal suffix, n when it has none
  LTable,      \* StructuredTable artifacts
  Cells,       \* Cells[t]: caption, row labels and values
  NormCell,    \* NormCell[s]: _normalize_name
  Noise,       \* cells _filter_candidate drops: numbers, dates, words of any table
  MaxLinkRuns  \* bound: passes, each of a process of its own

ASSUME LinkAssumption == MaxLinkRuns \in Nat /\ IsFiniteSet(LEntity)

Linker == 1..MaxLinkRuns
LName  == {FullName[e] : e \in LEntity}
          \cup {NormCell[s] : s \in UNION {Cells[t] : t \in LTable}} \cup DOMAIN Stripped

VARIABLES
  inDb,     \* entities in the database, all ACTIVE
  tables,   \* tables in the database, all ACTIVE
  links,    \* links[t, e]: assertsAbout edges from t to e
  linker,   \* what each pass holds
  linkRuns, \* passes begun
  met       \* history: two passes have been under way together

linkVars == <<inDb, tables, links, linker, linkRuns, met>>

Unlinked == [at |-> "idle", names |-> {}, of |-> {}, wanted |-> {}, fresh |-> {}]

LinkTypeOK ==
  /\ inDb \subseteq LEntity /\ tables \subseteq LTable /\ linkRuns \in 0..MaxLinkRuns
  /\ \A p \in DOMAIN links : links[p] > 0 => p[1] \in tables /\ p[2] \in inDb
  /\ \A k \in Linker : linker[k].wanted \subseteq tables \X inDb

LinkInit ==
  /\ inDb = {} /\ tables = {} /\ linkRuns = 0 /\ met = FALSE
  /\ links = [p \in LTable \X LEntity |-> 0]
  /\ linker = [k \in Linker |-> Unlinked]

Idle(k) == linker[k].at = "idle"

-----------------------------------------------------------------------------
\* _short_form_variants without the name itself: suffixes are taken off one by one.
Variants[n \in LName] ==
  IF Stripped[n] = n THEN {} ELSE {Stripped[n]} \cup Variants[Stripped[n]]

\* First pass over the rows: full names, the first entity that has one keeps it.
AddFull(map, e) ==
  IF \E p \in map : p[1] = FullName[e] THEN map ELSE map \cup {<<FullName[e], e>>}

\* Mutant: a form two entities lead to is dropped, and free for a third.
AddVariantsAgain(acc, e) ==
  LET free  == Variants[FullName[e]] \ acc.full
      clash == {n \in free : \E p \in acc.map : p[1] = n /\ p[2] # e}
      new   == {n \in free : \A p \in acc.map : p[1] # n}
  IN [acc EXCEPT !.map = {p \in @ : p[1] \notin clash} \cup {<<n, e>> : n \in new}]

\* Second pass: shorter forms, never over a full name; a form two entities lead to
\* is dropped for good.
AddVariants(acc, e) ==
  LET free  == (Variants[FullName[e]] \ acc.full) \ acc.ambiguous
      clash == {n \in free : \E p \in acc.map : p[1] = n /\ p[2] # e}
      new   == {n \in free : \A p \in acc.map : p[1] # n}
  IN [acc EXCEPT !.map = {p \in @ : p[1] \notin clash} \cup {<<n, e>> : n \in new},
                 !.ambiguous = @ \cup clash]

\* ent_by_norm, of rows in this order: the two passes, row after row.
Lookup(rs) ==
  LET named[i \in 0..Len(rs)] == IF i = 0 THEN {} ELSE AddFull(named[i - 1], rs[i])
      begun == [map |-> named[Len(rs)], full |-> {FullName[e] : e \in ToSet(rs)}, ambiguous |-> {}]
      done[i \in 0..Len(rs)] == IF i = 0 THEN begun ELSE AddVariants(done[i - 1], rs[i])
  IN done[Len(rs)].map

\* _collect_table_candidates
TableNames(t) == {NormCell[s] : s \in Cells[t] \ Noise}

\* The entities and the tables are read together; the pairs are worked out in memory.
Scan(k) ==
  /\ Idle(k) /\ k = linkRuns + 1
  /\ \E rs \in SetToAllKPermutations(inDb) :
       /\ Len(rs) = Cardinality(inDb)
       /\ linker' = [linker EXCEPT ![k] =
            [Unlinked EXCEPT !.at = "have", !.of = inDb, !.names = Lookup(rs),
               !.wanted = {w \in tables \X inDb : \E n \in TableNames(w[1]) : <<n, w[2]>> \in Lookup(rs)}]]
  /\ linkRuns' = k /\ met' = (met \/ \E j \in Linker \ {k} : ~Idle(j))
  /\ UNCHANGED <<inDb, tables, links>>

\* What is there already is read in a transaction of its own.
ReadLinks(k) ==
  /\ linker[k].at = "have"
  /\ LET fresh == {w \in linker[k].wanted : links[w] = 0} IN
     linker' = [linker EXCEPT ![k] = [Unlinked EXCEPT !.wanted = linker[k].wanted, !.fresh = fresh,
                                                      !.at = IF fresh = {} THEN "idle" ELSE "insert"]]
  /\ UNCHANGED <<inDb, tables, links, linkRuns, met>>

InsertLinks(k) ==
  /\ linker[k].at = "insert"
  /\ links' = [p \in DOMAIN links |-> IF p \in linker[k].fresh THEN links[p] + 1 ELSE links[p]]
  /\ linker' = [linker EXCEPT ![k].at = "idle", ![k].fresh = {}]
  /\ UNCHANGED <<inDb, tables, linkRuns, met>>

LinkCrash(k) ==
  /\ ~Idle(k) /\ linker' = [linker EXCEPT ![k] = Unlinked]
  /\ UNCHANGED <<inDb, tables, links, linkRuns, met>>

\* Meanwhile other commands store entities and tables.
StoreMore ==
  /\ \E e \in SUBSET (LEntity \ inDb), t \in SUBSET (LTable \ tables) :
       (e # {} \/ t # {}) /\ inDb' = inDb \cup e /\ tables' = tables \cup t
  /\ UNCHANGED <<links, linker, linkRuns, met>>

LinkNext ==
  \/ \E k \in Linker : Scan(k) \/ ReadLinks(k) \/ InsertLinks(k) \/ LinkCrash(k)
  \/ StoreMore

-----------------------------------------------------------------------------
(* Properties. *)

\* Whatever order the rows come in, a name leads to an entity that has it in full, or
\* else to the only entity it is a short form of, and to none when it is one of two.
Leads(es, n) ==
  LET named == {e \in es : FullName[e] = n}
      short == {e \in es : n \in Variants[FullName[e]]}
  IN IF named # {} THEN named ELSE IF Cardinality(short) = 1 THEN short ELSE {}

NamesOneEntity ==
  \A k \in Linker : \A n \in LName :
    LET to == {p[2] : p \in {q \in linker[k].names : q[1] = n}}
        es == Leads(linker[k].of, n)
    IN to \subseteq es /\ Cardinality(to) = IF es = {} THEN 0 ELSE 1

\* A pass that ends has every link it wanted in place; one link is there twice only
\* when two passes were under way together.
LinksStand ==
  /\ \A k \in Linker : Idle(k) => \A w \in linker[k].wanted : links[w] > 0
  /\ met \/ \A p \in DOMAIN links : links[p] <= 1

LinksInv == NamesOneEntity /\ LinksStand

=============================================================================
