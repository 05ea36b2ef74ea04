--------------------------- MODULE EmbeddingGuard ---------------------------
(***************************************************************************)
(* ensure_embedding_model: one embedding model per database.  Every path   *)
(* that writes or queries vectors calls it first.  It reads the stamp (and *)
(* probes for vectors) and writes the stamp in one transaction, which does *)
(* not keep another process from doing the same between the two.           *)
(***************************************************************************)
EXTENDS Naturals, FiniteSets

CONSTANTS
  GProc,       \* processes: commands, or the long-lived API server
  EmbModel,    \* embedding models a models.yaml may name
  LegacyModel  \* LEGACY_EMBEDDING_MODEL: what wrote unstamped databases

NoModel == "none"

ASSUME GuardAssumption == LegacyModel \in EmbModel /\ NoModel \notin EmbModel

VARIABLES
  stamp,     \* graph_version_state.embedding_model
  vectors,   \* models that wrote the vectors now stored, by table
  verified,  \* _verified: the memo of each process
  guard,     \* the call each process is in
  slipped    \* history: models whose stamp UPDATE matched no row

guardVars == <<stamp, vectors, verified, guard, slipped>>

VectorTable == {"ontology_classes", "other"}

\* @pc: next step of the call.  "use" is past the guard: vectors follow.
GuardRecord ==
  [pc : {"idle", "stamp", "use"}, model : EmbModel \cup {NoModel}]

OutOfGuard == [pc |-> "idle", model |-> NoModel]

GuardTypeOK ==
  /\ stamp \in EmbModel \cup {NoModel}
  /\ vectors \in SUBSET (VectorTable \X EmbModel)
  /\ verified \in [GProc -> SUBSET EmbModel]
  /\ guard \in [GProc -> GuardRecord]
  /\ slipped \in SUBSET EmbModel

\* A new database, or one from before the stamp that holds legacy vectors.
GuardInit ==
  /\ stamp = NoModel
  /\ vectors \in {{}, {<<"other", LegacyModel>>}}
  /\ verified = [p \in GProc |-> {}]
  /\ guard = [p \in GProc |-> OutOfGuard]
  /\ slipped = {}

HasVectors == vectors # {}

\* Mutant: a database with unstamped vectors is taken for an empty one.
IgnoresLegacy(m) == IF stamp # NoModel THEN stamp ELSE m

\* resolve_stamp: the model of the database, and whether to write the stamp.
DbModel(m) ==
  IF stamp # NoModel THEN stamp ELSE IF HasVectors THEN LegacyModel ELSE m
MustStamp(m) == stamp = NoModel /\ DbModel(m) = m

\* The memo answers without a transaction; a mismatch raises.
EnsureModel(p, m) ==
  /\ guard[p].pc = "idle"
  /\ \/ m \in verified[p] /\ guard' = [guard EXCEPT ![p] = [pc |-> "use", model |-> m]]
                          /\ UNCHANGED verified
     \/ /\ m \notin verified[p]
        /\ DbModel(m) = m
        /\ IF MustStamp(m)
           THEN /\ guard' = [guard EXCEPT ![p] = [pc |-> "stamp", model |-> m]]
                /\ UNCHANGED verified
           ELSE /\ guard' = [guard EXCEPT ![p] = [pc |-> "use", model |-> m]]
                /\ verified' = [verified EXCEPT ![p] = @ \cup {m}]
  /\ UNCHANGED <<stamp, vectors, slipped>>

\* UPDATE ... WHERE embedding_model IS NULL; the row count is not looked at.
WriteStamp(p) ==
  /\ guard[p].pc = "stamp"
  /\ stamp' = IF stamp = NoModel THEN guard[p].model ELSE stamp
  /\ slipped' = IF stamp' = guard[p].model THEN slipped ELSE slipped \cup {guard[p].model}
  /\ guard' = [guard EXCEPT ![p].pc = "use"]
  /\ verified' = [verified EXCEPT ![p] = @ \cup {guard[p].model}]
  /\ UNCHANGED vectors

\* Any of the services past the guard embeds and inserts, or only queries.
UseVectors(p) ==
  /\ guard[p].pc = "use"
  /\ \/ UNCHANGED vectors
     \/ \E t \in VectorTable : vectors' = vectors \cup {<<t, guard[p].model>>}
  /\ guard' = [guard EXCEPT ![p] = OutOfGuard]
  /\ UNCHANGED <<stamp, verified, slipped>>

\* The process ends or is killed; the next one has an empty memo.
EndProcess(p) ==
  /\ guard' = [guard EXCEPT ![p] = OutOfGuard]
  /\ verified' = [verified EXCEPT ![p] = {}]
  /\ UNCHANGED <<stamp, vectors, slipped>>

\* clear-corpus or the ontology wipe: the vectors go, the stamp stays.
DropVectors(t) ==
  /\ vectors' = {v \in vectors : v[1] # t}
  /\ UNCHANGED <<stamp, verified, guard, slipped>>

GuardNext ==
  \/ \E t \in VectorTable : DropVectors(t)
  \/ \E p \in GProc :
       \/ \E m \in EmbModel : EnsureModel(p, m)
       \/ WriteStamp(p)
       \/ UseVectors(p)
       \/ EndProcess(p)

-----------------------------------------------------------------------------
\* Vectors of one model only: whatever the order of the commands, and however
\* long a process trusts its memo, a vector that is stored or about to be used
\* is of the model the database was stamped with (the legacy model before), but
\* for a model whose process read an empty database just before another stamped it.
VectorsMatchStamp ==
  LET used == {v[2] : v \in vectors} \cup {guard[p].model : p \in {q \in GProc : guard[q].pc = "use"}} IN
  \A m \in used \ slipped : m = IF stamp = NoModel THEN LegacyModel ELSE stamp

=============================================================================
