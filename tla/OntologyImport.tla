--------------------------- MODULE OntologyImport ---------------------------
(***************************************************************************)
(* db-init and import-ontology: import_ontology_folder upserts the classes *)
(* of merged.json, then properties and instances, and replaces the edges   *)
(* between classes; wipe_ontology_tables truncates for --mode replace.     *)
(* Every batch is a transaction of its own, nothing excludes two imports,  *)
(* or an import and a wipe, and other commands add and clear entities.     *)
(*                                                                         *)
(* A class row is [ver, id]: the file version its content is from, and the *)
(* wipe its id was drawn after (an upsert keeps the id, a wipe loses it).  *)
(* The guard on the embedding model that an import calls is EmbeddingGuard.*)
(***************************************************************************)
EXTENDS Naturals, FiniteSets, Bags

CONSTANTS
  OntProc,     \* processes
  OntClass,    \* class IRIs
  OntFile,     \* what an import may be given; --limit is one more file
  MaxImports,  \* bound: imports and wipes started
  MaxWipes     \* bound: wipes carried out, so the ids a class can have

ASSUME OntologyAssumption ==
  /\ \A f \in OntFile : /\ f.ver \in Nat \ {0}
                        /\ f.classes \subseteq OntClass
                        /\ f.edges \subseteq f.classes \X OntClass
                        /\ \A e \in f.edges : e[1] # e[2]
  /\ MaxImports \in Nat
  /\ MaxWipes \in Nat

VARIABLES
  class,     \* ontology_classes, by IRI
  plain,     \* version of the property and instance tables, 0 when empty
  edges,     \* the bag of ONTOLOGY edges, each an edge and the id of its ends
  entities,  \* classes that an entity row refers to
  epoch,     \* wipes so far
  version,   \* graph_version
  imp,       \* what each process holds
  mirrored,  \* history: the file the database mirrors, or NoFile
  started    \* imports and wipes started

importVars == <<class, plain, edges, entities, epoch, version, imp, mirrored, started>>

NoRow  == [ver |-> 0, id |-> 0]
NoFile == [ver |-> 0, classes |-> {}, edges |-> {}]

Loaded == {c \in OntClass : class[c] # NoRow}

\* @todo: classes left to upsert; @ids: iri_to_id; @write: edges left to insert.
AtRestImp ==
  [pc |-> "idle", file |-> NoFile, todo |-> {}, write |-> {}, clean |-> FALSE, late |-> {}]

ImportTypeOK ==
  /\ class \in [OntClass -> [ver : Nat, id : 0..MaxWipes]]
  /\ IsABag(edges) /\ BagToSet(edges) \subseteq (OntClass \X OntClass) \X (0..MaxWipes)
  /\ entities \subseteq OntClass
  /\ epoch \in 0..MaxWipes
  /\ version \in Nat /\ plain \in Nat
  /\ mirrored \in OntFile \cup {NoFile}
  /\ \A p \in OntProc :
       /\ imp[p].pc \in {"idle", "classes", "plain", "ids", "delete", "insert", "bump", "truncate"}
       /\ imp[p].todo \subseteq OntClass

ImportInit ==
  /\ class = [c \in OntClass |-> NoRow]
  /\ plain = 0
  /\ edges = EmptyBag
  /\ entities = {}
  /\ epoch = 0
  /\ version = 0
  /\ imp = [p \in OntProc |-> AtRestImp]
  /\ mirrored = NoFile
  /\ started = 0

Holds(p, record) == imp' = [imp EXCEPT ![p] = record]

\* No other process is in an import or a wipe now; a process knows itself to be
\* alone (clean) as long as none has started beside it.
Alone(p)   == \A q \in OntProc \ {p} : imp[q].pc = "idle"
Joined(p)  == [q \in OntProc |-> IF q = p THEN imp[q] ELSE [imp[q] EXCEPT !.clean = FALSE]]

-----------------------------------------------------------------------------
\* Resume: a class that has its embedding is skipped, whatever its content.
StartImport(p) ==
  /\ imp[p].pc = "idle" /\ started < MaxImports
  /\ \E f \in OntFile :
       imp' = [Joined(p) EXCEPT ![p] =
         [AtRestImp EXCEPT !.pc = "classes", !.file = f,
                           !.todo = f.classes \ Loaded, !.clean = Alone(p)]]
  /\ mirrored' = NoFile
  /\ started' = started + 1
  /\ UNCHANGED <<class, plain, edges, entities, epoch, version>>

\* One batch: embed, INSERT ... ON CONFLICT (iri) DO UPDATE.  A connection lost
\* after the commit makes the batch run again.
UpsertClasses(p) ==
  /\ imp[p].pc = "classes" /\ imp[p].todo # {}
  /\ \E batch \in (SUBSET imp[p].todo) \ {{}} :
       /\ class' = [c \in OntClass |->
            IF c \notin batch THEN class[c]
            ELSE [ver |-> imp[p].file.ver,
                  id |-> IF class[c] = NoRow THEN epoch ELSE class[c].id]]
       /\ \E done \in {{}, batch} : Holds(p, [imp[p] EXCEPT !.todo = @ \ done])
  /\ UNCHANGED <<plain, edges, entities, epoch, version, mirrored, started>>

\* Properties and instances are upserted without regard to what is there.
UpsertPlain(p) ==
  /\ imp[p].pc = "classes" /\ imp[p].todo = {}
  /\ plain' = imp[p].file.ver
  /\ Holds(p, [imp[p] EXCEPT !.pc = "ids"])
  /\ UNCHANGED <<class, edges, entities, epoch, version, mirrored, started>>

\* The ids of all rows, and from them the edges whose two ends are loaded.
ReadIds(p) ==
  /\ imp[p].pc = "ids"
  /\ Holds(p, [imp[p] EXCEPT !.pc = "delete",
       !.write = {<<e, epoch>> : e \in {x \in imp[p].file.edges : {x[1], x[2]} \subseteq Loaded}}])
  /\ UNCHANGED <<class, plain, edges, entities, epoch, version, mirrored, started>>

DeleteEdges(p) ==
  /\ imp[p].pc = "delete"
  /\ edges' = EmptyBag
  /\ Holds(p, [imp[p] EXCEPT !.pc = "insert"])
  /\ UNCHANGED <<class, plain, entities, epoch, version, mirrored, started>>

\* Mutant: the insert is retried as the upserts are, after a connection lost
\* once it has committed.
RetriesInsert(p) ==
  /\ imp[p].pc = "insert" /\ imp[p].write # {}
  /\ \E batch \in (SUBSET imp[p].write) \ {{}} :
       /\ edges' = edges (+) SetToBag(batch)
       /\ \E done \in {{}, batch} : Holds(p, [imp[p] EXCEPT !.write = @ \ done])
  /\ UNCHANGED <<class, plain, entities, epoch, version, mirrored, started>>

\* A batch of 500, not retried: an error ends the import (Stop).
InsertEdges(p) ==
  /\ imp[p].pc = "insert" /\ imp[p].write # {}
  /\ \E batch \in (SUBSET imp[p].write) \ {{}} :
       /\ edges' = edges (+) SetToBag(batch)
       /\ Holds(p, [imp[p] EXCEPT !.write = @ \ batch])
  /\ UNCHANGED <<class, plain, entities, epoch, version, mirrored, started>>

BumpImport(p) ==
  /\ imp[p].pc = "insert" /\ imp[p].write = {}
  /\ version' = version + 1
  /\ mirrored' = IF imp[p].clean THEN imp[p].file ELSE NoFile
  /\ Holds(p, AtRestImp)
  /\ UNCHANGED <<class, plain, edges, entities, epoch, started>>

\* Mutant: the wipe counts nothing.
UnguardedWipe(p) ==
  /\ imp[p].pc = "idle" /\ started < MaxImports /\ epoch < MaxWipes
  /\ imp' = [Joined(p) EXCEPT ![p] = [AtRestImp EXCEPT !.pc = "truncate"]]
  /\ mirrored' = NoFile
  /\ started' = started + 1
  /\ UNCHANGED <<class, plain, edges, entities, epoch, version>>

\* The dependent tables are counted one by one, inside the wipe's transaction;
\* nothing locks them before TRUNCATE does.
StartWipe(p) ==
  /\ imp[p].pc = "idle" /\ started < MaxImports /\ epoch < MaxWipes
  /\ entities = {}
  /\ imp' = [Joined(p) EXCEPT ![p] = [AtRestImp EXCEPT !.pc = "truncate"]]
  /\ mirrored' = NoFile
  /\ started' = started + 1
  /\ UNCHANGED <<class, plain, edges, entities, epoch, version>>

\* TRUNCATE ... CASCADE takes the entities with the classes; the ONTOLOGY edges
\* have no foreign key and stay.
Truncate(p) ==
  /\ imp[p].pc = "truncate" /\ epoch < MaxWipes
  /\ class' = [c \in OntClass |-> NoRow]
  /\ plain' = 0
  /\ entities' = {}
  /\ epoch' = epoch + 1
  /\ version' = 0
  /\ Holds(p, AtRestImp)
  /\ UNCHANGED <<edges, mirrored, started>>

\* Killed, or an error that is not retried (any more).
StopImport(p) ==
  /\ imp[p].pc # "idle"
  /\ Holds(p, AtRestImp)
  /\ UNCHANGED <<class, plain, edges, entities, epoch, version, mirrored, started>>

\* Other commands, as far as the foreign key entities.class_id is concerned.
EntityLands(c) ==
  /\ c \in Loaded \ entities
  /\ entities' = entities \cup {c}
  /\ imp' = [p \in OntProc |-> IF imp[p].pc = "truncate"
                               THEN [imp[p] EXCEPT !.late = @ \cup {c}] ELSE imp[p]]
  /\ UNCHANGED <<class, plain, edges, epoch, version, mirrored, started>>

ClearEntities ==
  /\ entities # {} /\ Loaded # {}
  /\ entities' = {}
  /\ UNCHANGED <<class, plain, edges, epoch, version, imp, mirrored, started>>

ImportNext ==
  \/ ClearEntities
  \/ \E c \in OntClass : EntityLands(c)
  \/ \E p \in OntProc :
       \/ StartImport(p) \/ UpsertClasses(p) \/ UpsertPlain(p) \/ ReadIds(p)
       \/ DeleteEdges(p) \/ InsertEdges(p) \/ BumpImport(p)
       \/ StartWipe(p) \/ Truncate(p) \/ StopImport(p)

-----------------------------------------------------------------------------
\* After an import that ran to its end with no other import or wipe beside it or
\* since, however many before it were killed half way, the hierarchy is exactly
\* that of its file: each edge once, none to a row that a wipe has removed, and
\* all its classes are loaded.
MirrorsFile ==
  mirrored # NoFile =>
    /\ mirrored.classes \subseteq Loaded
    /\ edges = SetToBag({<<e, epoch>> : e \in {x \in mirrored.edges : {x[1], x[2]} \subseteq Loaded}})
    /\ \A c \in Loaded : class[c].id = epoch

\* A row is either of this epoch or not there, and a wipe takes no entity but
\* one that landed between its count and its TRUNCATE.
WipeSparesCorpus ==
  [][ epoch' # epoch =>
        \E p \in OntProc : imp[p].pc = "truncate" /\ entities \subseteq imp[p].late ]_importVars

=============================================================================
