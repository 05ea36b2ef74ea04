---------------------------- MODULE VersionFolders ----------------------------
(***************************************************************************)
(* The driver of the ontology commands (merge, prune, expand,              *)
(* prune-expand, build and the repairs in place) over the version folders  *)
(* on disk.  A copy of the ontology is the set of what was done to it.     *)
(* Files are written where they stand, so a command that is killed leaves  *)
(* one torn.  Two commands run side by side, on different inputs; what     *)
(* they share is the choice of a name for the folder each makes.           *)
(***************************************************************************)
EXTENDS Naturals, FiniteSets

CONSTANTS
  Cmd,         \* terminals, each of which runs one command at a time
  OpsOf,       \* bound: OpsOf[c], what terminal c runs
  NDirs,       \* bound: folders under output_ontologies
  MaxCommands  \* bound: commands begun

Dir      == 1..NDirs
Pruning  == {"prune", "prune-expand", "build"}
Growing  == {"expand", "prune-expand", "build"}
Runs     == Pruning \cup Growing
InPlace  == {"summarize-descriptions", "audit-classifications", "repair-output"}
Op       == Runs \cup InPlace \cup {"merge"}
Grown    == {"proposed", "suggested"}
Edit     == Grown \cup {"compact", "repaired"}
Torn     == {"torn"}
Absent   == {"absent"}

ASSUME FolderAssumption ==
  /\ IsFiniteSet(Cmd) /\ NDirs \in Nat \ {0} /\ MaxCommands \in Nat
  /\ \A c \in Cmd : OpsOf[c] \subseteq Op

VARIABLES
  made,   \* folders that exist
  folder, \* the files of each
  cmd,    \* each command: where it is and what it holds
  begun,  \* commands begun
  cuts    \* history: how often a command was killed while it streamed into a folder

folderVars == <<made, folder, cmd, begun, cuts>>

Empty == [json |-> Absent, owl |-> Absent, manifest |-> FALSE, cost |-> FALSE]
Rest  == [op |-> "merge", at |-> "idle", end |-> "none", src |-> 0, dst |-> 0, to |-> 0, mem |-> {},
          gain |-> {}, dry |-> FALSE, suggest |-> FALSE, over |-> FALSE]

FoldersTypeOK ==
  /\ made \subseteq Dir /\ begun \in 0..MaxCommands /\ cuts \in [Dir -> 0..MaxCommands]
  /\ \A d \in Dir : folder[d].json \in (SUBSET Edit) \cup {Torn, Absent}
                    /\ folder[d].owl \in (SUBSET (Edit \ {"compact"})) \cup {Torn, Absent}
  /\ \A c \in Cmd : cmd[c].mem \subseteq Edit /\ cmd[c].gain \subseteq Grown /\ cmd[c].op \in Op

\* One merged folder stands; nobody is at work.
FoldersInit ==
  /\ made = {1} /\ begun = 0 /\ cuts = [d \in Dir |-> 0]
  /\ folder = [d \in Dir |-> IF d = 1 THEN [Empty EXCEPT !.json = {}, !.owl = {}, !.manifest = TRUE] ELSE Empty]
  /\ cmd = [c \in Cmd |-> Rest]

Working(c)  == cmd[c].at # "idle"
Attended(d) == \E c \in Cmd : Working(c) /\ d \in {cmd[c].src, cmd[c].dst}
Streams(c)  == cmd[c].at \in {"streaming json", "streaming owl"}
Whole(copy) == copy \notin {Torn, Absent}

\* c goes on to step a with the fields of f changed; Stop ends it.
Go(c, rec)      == cmd' = [cmd EXCEPT ![c] = rec]
GoTo(c, a)      == Go(c, [cmd[c] EXCEPT !.at = a])
\* Only of a run that came to its end is anything remembered.
EndsAs(c, how)   ==
  IF how \in {"done", "failed"} /\ cmd[c].op \in Runs
  THEN [cmd[c] EXCEPT !.at = "idle", !.end = how, !.gain = {}, !.over = FALSE, !.dry = FALSE, !.to = 0]
  ELSE [Rest EXCEPT !.end = how]
Keep            == UNCHANGED <<made, begun, cuts>>
\* A stage that calls models may take the spend over the cap; it never comes back.
Billed(c, over) == over \in {cmd[c].over, TRUE}

Begin(c, op, d, dry, sug) ==
  /\ ~Working(c) /\ begun < MaxCommands /\ op \in OpsOf[c]
  /\ IF op \in {"merge", "build"} THEN d = 0 ELSE d \in made /\ ~Attended(d)
  /\ (dry => op \in Runs) /\ (sug => op \in Runs)
  /\ Go(c, [Rest EXCEPT !.op = op, !.src = d, !.dry = dry, !.suggest = sug,
                        !.at = IF op \in InPlace THEN "load" ELSE "name"])
  /\ begun' = begun + 1 /\ UNCHANGED <<made, folder, cuts>>

\* new_version_dir looks for the first free name of this second, then makes it.
NameDir(c) ==
  /\ cmd[c].at = "name" /\ made # Dir
  /\ Go(c, [cmd[c] EXCEPT !.at = "mkdir", !.dst = CHOOSE d \in Dir \ made : \A e \in Dir \ made : d <= e])
  /\ Keep /\ UNCHANGED folder

\* Mutant: a folder that has appeared meanwhile is taken as it is.
MakeDirShared(c) ==
  /\ cmd[c].at = "mkdir" /\ made' = made \cup {cmd[c].dst}
  /\ Go(c, IF cmd[c].src = 0 THEN [cmd[c] EXCEPT !.at = "json", !.to = cmd[c].dst]
           ELSE [cmd[c] EXCEPT !.at = "load"])
  /\ UNCHANGED <<begun, folder, cuts>>

MakeDir(c) ==
  /\ cmd[c].at = "mkdir"
  /\ IF cmd[c].dst \in made
     THEN Go(c, EndsAs(c, "stopped")) /\ UNCHANGED made
     ELSE /\ made' = made \cup {cmd[c].dst}
          /\ Go(c, IF cmd[c].src = 0 THEN [cmd[c] EXCEPT !.at = "json", !.to = cmd[c].dst]
                   ELSE [cmd[c] EXCEPT !.at = "load"])
  /\ UNCHANGED <<begun, folder, cuts>>

Load(c) ==
  /\ cmd[c].at = "load"
  /\ LET json == folder[cmd[c].src].json IN
     Go(c, IF ~Whole(json) THEN EndsAs(c, "stopped")
           ELSE [cmd[c] EXCEPT !.mem = json, !.at = IF cmd[c].op \in InPlace THEN "edit" ELSE "compact"])
  /\ Keep /\ UNCHANGED folder

\* What the compact descriptions make of an ontology: batches fail or meet their own cap.
Compacted(content) == {content, content \cup {"compact"}}

\* The three repairs in place; the first two ask a model, which may add nothing.
EditInPlace(c) ==
  /\ cmd[c].at = "edit"
  /\ \E m \in CASE cmd[c].op = "summarize-descriptions" -> Compacted(cmd[c].mem)
                [] cmd[c].op = "audit-classifications"  -> {cmd[c].mem, cmd[c].mem \cup {"repaired"}}
                [] cmd[c].op = "repair-output"          -> {cmd[c].mem \cup {"repaired"}} :
       Go(c, [cmd[c] EXCEPT !.mem = m, !.to = cmd[c].src, !.at = "json"])
  /\ Keep /\ UNCHANGED folder

\* A run saves the compact descriptions it made into the folder it reads.
Compact(c) ==
  /\ cmd[c].at = "compact"
  /\ \/ GoTo(c, "select")
     \/ /\ ~cmd[c].dry /\ "compact" \notin cmd[c].mem
        /\ \E o \in BOOLEAN, m \in Compacted(cmd[c].mem) :
             Billed(c, o) /\ m # cmd[c].mem
             /\ Go(c, [cmd[c] EXCEPT !.mem = m, !.over = o, !.to = cmd[c].src, !.at = "json"])
  /\ Keep /\ UNCHANGED folder

\* write_merged_json and write_owl open the file, which empties it, and stream into it.
OpenJson(c) ==
  /\ cmd[c].at = "json" /\ folder' = [folder EXCEPT ![cmd[c].to].json = Torn]
  /\ GoTo(c, "streaming json") /\ Keep

WroteJson(c) ==
  /\ cmd[c].at = "streaming json" /\ folder' = [folder EXCEPT ![cmd[c].to].json = cmd[c].mem]
  /\ GoTo(c, "owl") /\ Keep

OpenOwl(c) ==
  /\ cmd[c].at = "owl" /\ folder' = [folder EXCEPT ![cmd[c].to].owl = Torn]
  /\ GoTo(c, "streaming owl") /\ Keep

\* RDF has no field for the compact description.
WroteOwl(c) ==
  /\ cmd[c].at = "streaming owl"
  /\ folder' = [folder EXCEPT ![cmd[c].to].owl = cmd[c].mem \ {"compact"}]
  /\ Go(c, IF cmd[c].to = cmd[c].dst THEN [cmd[c] EXCEPT !.at = "manifest"]
           ELSE IF cmd[c].op \in InPlace THEN EndsAs(c, "done")
           ELSE [cmd[c] EXCEPT !.at = "select"])
  /\ Keep

\* The manifest and the counts end a merge; build goes on from what it merged.
WriteManifest(c) ==
  /\ cmd[c].at = "manifest" /\ folder' = [folder EXCEPT ![cmd[c].to].manifest = TRUE]
  /\ Go(c, IF cmd[c].src # 0 THEN [cmd[c] EXCEPT !.at = "report"]
           ELSE IF cmd[c].op = "merge" THEN EndsAs(c, "done")
           ELSE [cmd[c] EXCEPT !.at = "name", !.src = cmd[c].dst, !.dst = 0])
  /\ Keep

WriteBill(c) ==
  /\ cmd[c].at = "report" /\ folder' = [folder EXCEPT ![cmd[c].dst].cost = TRUE]
  /\ Go(c, EndsAs(c, "done")) /\ Keep

\* Choosing a subset of the corpus, which without --yes ends with the choice shown.
Select(c) ==
  /\ cmd[c].at = "select"
  /\ \/ GoTo(c, "tables") /\ UNCHANGED folder
     \/ /\ cmd[c].op \in {"prune-expand", "build"}
        /\ \/ Go(c, EndsAs(c, "stopped")) /\ UNCHANGED folder
           \/ Go(c, EndsAs(c, "preview")) /\ folder' = [folder EXCEPT ![cmd[c].dst].cost = TRUE]
           \/ Go(c, [cmd[c] EXCEPT !.at = "tables", !.over = TRUE]) /\ UNCHANGED folder
  /\ Keep

\* Tables are extracted by workers; their rows may be mined for classes.
MineTables(c) ==
  /\ cmd[c].at = "tables"
  /\ \/ GoTo(c, "stages")
     \/ /\ cmd[c].op \in {"prune-expand", "build"} /\ ~cmd[c].dry
        /\ \/ Go(c, EndsAs(c, "stopped"))
           \/ \E o \in BOOLEAN : Billed(c, o) /\ Go(c, [cmd[c] EXCEPT !.at = "stages", !.over = o, !.gain = {"proposed"}])
  /\ Keep /\ UNCHANGED folder

\* Any exception out of the stages: what was spent is written, and it is raised again.
StagesFail(c) ==
  /\ cmd[c].at \in {"stages", "classify", "propose", "dedup"}
  /\ folder' = [folder EXCEPT ![cmd[c].dst].cost = TRUE]
  /\ Go(c, EndsAs(c, "failed")) /\ Keep

\* A dry run pays for the summaries and then brings nothing.
Summarize(c) ==
  /\ cmd[c].at = "stages"
  /\ \E o \in BOOLEAN : Billed(c, o) /\
       Go(c, [cmd[c] EXCEPT !.over = o, !.at = IF cmd[c].dry THEN "apply" ELSE "classify"])
  /\ Keep /\ UNCHANGED folder

Classify(c) ==
  /\ cmd[c].at = "classify"
  /\ \E o \in BOOLEAN : Billed(c, o) /\ ~o /\ Go(c, [cmd[c] EXCEPT !.at = "propose"])
  /\ Keep /\ UNCHANGED folder

\* The second gate comes after the proposals, mined ones included, and before dedup.
ProposeStage(c) ==
  /\ cmd[c].at = "propose"
  /\ \E o \in BOOLEAN, g \in {{}, {"proposed"}} :
       Billed(c, o) /\ ~o /\ Go(c, [cmd[c] EXCEPT !.at = "dedup", !.gain = @ \cup g])
  /\ Keep /\ UNCHANGED folder

Dedup(c) ==
  /\ cmd[c].at = "dedup"
  /\ \E o \in BOOLEAN : Billed(c, o) /\ Go(c, [cmd[c] EXCEPT !.at = "apply", !.over = o])
  /\ Keep /\ UNCHANGED folder

\* The user's classes are added to what the stages found; pruning comes before growing,
\* and what has grown is grouped and audited.
Suggested(c) == IF cmd[c].suggest THEN cmd[c].gain \cup {"suggested"} ELSE cmd[c].gain

Pruned(c, dropped) == IF cmd[c].op \in Pruning THEN cmd[c].mem \ dropped ELSE cmd[c].mem

Apply(c) ==
  /\ cmd[c].at = "apply"
  /\ \E dropped \in {{}, Grown}, late \in {{}, {"repaired"}} :
       /\ (cmd[c].op \notin Pruning => dropped = {}) /\ (cmd[c].op \notin Growing => late = {})
       /\ Go(c, [cmd[c] EXCEPT !.at = "json", !.to = cmd[c].dst,
                               !.mem = Pruned(c, dropped) \cup late
                                       \cup IF cmd[c].op \in Growing THEN Suggested(c) ELSE {}])
  /\ Keep /\ UNCHANGED folder

Crash(c) ==
  /\ Working(c) /\ Go(c, EndsAs(c, "crashed")) /\ UNCHANGED <<made, begun, folder>>
  /\ cuts' = IF Streams(c) THEN [cuts EXCEPT ![cmd[c].to] = @ + 1] ELSE cuts

FoldersNext ==
  \E c \in Cmd :
    \/ \E op \in Op, d \in Dir \cup {0}, dry, sug \in BOOLEAN : Begin(c, op, d, dry, sug)
    \/ NameDir(c) \/ MakeDir(c) \/ Load(c) \/ EditInPlace(c) \/ Compact(c)
    \/ OpenJson(c) \/ WroteJson(c) \/ OpenOwl(c) \/ WroteOwl(c) \/ WriteManifest(c) \/ WriteBill(c)
    \/ Select(c) \/ MineTables(c) \/ Summarize(c) \/ Classify(c) \/ ProposeStage(c) \/ Dedup(c)
    \/ StagesFail(c) \/ Apply(c) \/ Crash(c)

-----------------------------------------------------------------------------
(* Properties. *)

\* Each interruption costs a folder at most one of its two copies, so that one killed
\* command leaves the other; where both are whole the RDF holds nothing the JSON has lost.
TornCopies(d) == {f \in {"json", "owl"} : folder[d][f] = Torn}

CopiesInv ==
  \A d \in Dir :
    /\ Cardinality(TornCopies(d)) <= cuts[d] + Cardinality({c \in Cmd : Streams(c) /\ cmd[c].to = d})
    /\ Whole(folder[d].json) /\ Whole(folder[d].owl) => folder[d].owl \subseteq folder[d].json

\* Two commands begun in one second never fill the same folder.
OneOwner ==
  \A c, d \in Cmd : c # d /\ Working(c) /\ Working(d) /\ cmd[c].dst = cmd[d].dst
                    => cmd[c].dst = 0 \/ cmd[c].at = "mkdir" \/ cmd[d].at = "mkdir"

\* A run that failed in a stage has left its bill, and one that ended well has what its
\* operation promises: prune adds no class, and the user's own classes are there.
RunKept(c) ==
  /\ cmd[c].end = "failed" => folder[cmd[c].dst].cost
  /\ cmd[c].end = "done" /\ cmd[c].op \in Runs =>
       /\ cmd[c].op = "prune" /\ Whole(folder[cmd[c].src].json)
            => cmd[c].mem \cap Grown \subseteq folder[cmd[c].src].json
       /\ cmd[c].op \in Growing /\ cmd[c].suggest => "suggested" \in cmd[c].mem

\* What the folders hold, whoever was killed and whoever began with whom.
FoldersInv == CopiesInv /\ OneOwner /\ \A c \in Cmd : RunKept(c)

=============================================================================
