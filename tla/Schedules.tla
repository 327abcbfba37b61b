------------------------------ MODULE Schedules ------------------------------
(***************************************************************************)
(* The saved configs of the auto-planner, qa_auto_plan_configs, between    *)
(* the schedule files they are imported from and the operators who edit    *)
(* them (quality_api/schedules_yaml.py, AutoPlanStore of                   *)
(* quality_api/discovery.py and their endpoints in tracing/server/app.py). *)
(* A server imports the files when it starts and on request; its handlers  *)
(* do not interleave with its own import, those of another server on the   *)
(* same database do.  An import lists the configs once and then writes one *)
(* definition at a time.  A name is not unique in the table.               *)
(***************************************************************************)
EXTENDS Integers, Sequences, Subsequences

CONSTANTS
    Server,       \* servers on the database
    Contents,     \* what the readable schedule files may define, in the order of their paths
    Unnamed,      \* the name of a definition without one
    Sound,        \* settings that add_config accepts
    Unsound,      \* settings that it refuses: no provider, no scenario, an unknown mode
    Garbled,      \* settings that cannot be read: a number that is a word
    MaxConfigs,   \* bound on the configs ever inserted
    MaxEdits      \* bound on the edits of files and configs and on crashes

ConfigName == (UNION {{c[i].name : i \in DOMAIN c} : c \in Contents}) \ {Unnamed}

ScheduleDef == [name : ConfigName \cup {Unnamed}, rest : Sound \cup Unsound \cup {Garbled}, on : BOOLEAN]

ASSUME SchedulesAssumption ==
    /\ Contents \subseteq Seq(ScheduleDef)
    /\ Garbled \notin Sound \cup Unsound
    /\ {MaxConfigs, MaxEdits} \subseteq Nat

VARIABLES
    docs,      \* the definitions in the files
    configs,   \* the rows by id; with the origin of each (history)
    import,    \* each server: its import and what the summary of the last one says
    edits      \* edits and crashes so far

scheduleVars == <<docs, configs, import, edits>>

Down == [at |-> "down", defs |-> <<>>, next |-> 1, index |-> <<>>, failed |-> {}, alone |-> FALSE]
Gone == [name |-> Unnamed, rest |-> Garbled, on |-> FALSE, origin |-> "deleted"]

ScheduleInit ==
    /\ docs \in Contents
    /\ configs = <<>>
    /\ import = [s \in Server |-> Down]
    /\ edits = 0

Exists(id) == id \in DOMAIN configs /\ configs[id] # Gone

Row(d, origin) == [name |-> d.name, rest |-> d.rest, on |-> d.on, origin |-> origin]

Serving == [Down EXCEPT !.at = "up"]

\* Somebody wrote: no other import has the table for itself any more, and what
\* the others reported is past.
DisturbedFor(others) ==
    [s \in Server |-> IF s \notin others THEN import[s]
                     ELSE IF import[s].at = "up" THEN Serving
                     ELSE [import[s] EXCEPT !.alone = FALSE]]

------------------------------------------------------------------------------

\* load_files(): one garbled definition fails the whole load.
BeginImport(s) ==
    LET defs == Picked(docs, {i \in DOMAIN docs : docs[i].name # Unnamed})
    IN /\ import[s].at \in {"down", "up"}
       /\ import' = [import EXCEPT ![s] =
              IF \E i \in DOMAIN defs : defs[i].rest = Garbled THEN Serving
              ELSE [Down EXCEPT !.at = "list", !.defs = defs]]
       /\ UNCHANGED <<docs, configs, edits>>

\* Mutant: the configs that are disabled are not listed.
IndexOfEnabled(name) ==
    LET ids == {i \in DOMAIN configs : configs[i].name = name /\ configs[i].on}
    IN IF ids = {} THEN 0 ELSE CHOOSE i \in ids : \A j \in ids : j <= i

\* The config an import takes for the one of this name: the last one listed.
IndexOf(name) ==
    LET ids == {i \in DOMAIN configs : configs[i].name = name}
    IN IF ids = {} THEN 0 ELSE CHOOSE i \in ids : \A j \in ids : j <= i

ListConfigs(s) ==
    /\ import[s].at = "list"
    /\ import' = [import EXCEPT ![s].at = IF import[s].defs = <<>> THEN "up" ELSE "upsert",
                                ![s].index = [n \in ConfigName |-> IndexOf(n)],
                                ![s].alone = TRUE]
    /\ UNCHANGED <<docs, configs, edits>>

\* The import goes on after definition i, which it could not write if failed.
Onward(s, others, failed) ==
    LET i == import[s].next
        last == i = Len(import[s].defs)
    IN import' = [DisturbedFor(others) EXCEPT
                    ![s].next = IF last THEN 1 ELSE i + 1,
                    ![s].at = IF last THEN "up" ELSE "upsert",
                    ![s].index = IF last THEN <<>> ELSE @,
                    ![s].failed = @ \cup (IF failed THEN {i} ELSE {})]

\* update_config() checks nothing and does not miss a row that is gone.
UpdateFromFile(s) ==
    LET d == import[s].defs[import[s].next]
        id == import[s].index[d.name]
    IN /\ import[s].at = "upsert" /\ id # 0
       /\ configs' = IF Exists(id) THEN [configs EXCEPT ![id] = Row(d, @.origin)]
                     ELSE configs
       /\ Onward(s, Server \ {s}, FALSE)
       /\ UNCHANGED <<docs, edits>>

CreateFromFile(s) ==
    LET d == import[s].defs[import[s].next]
        named == {i \in DOMAIN import[s].defs : import[s].defs[i].name = d.name}
    IN /\ import[s].at = "upsert" /\ import[s].index[d.name] = 0
       /\ d.rest \in Sound
       /\ Len(configs) < MaxConfigs
       /\ configs' = Append(configs, Row(d,
                        IF import[s].alone /\ named = {import[s].next} THEN "import" ELSE "race"))
       /\ Onward(s, Server \ {s}, FALSE)
       /\ UNCHANGED <<docs, edits>>

\* add_config() raises on a new definition.
RefuseDefinition(s) ==
    LET d == import[s].defs[import[s].next]
    IN /\ import[s].at = "upsert" /\ import[s].index[d.name] = 0
       /\ d.rest \in Unsound
       /\ Onward(s, {}, TRUE)
       /\ UNCHANGED <<docs, configs, edits>>

\* The database is locked: the import goes on with the next definition.
UpsertFails(s) ==
    /\ import[s].at = "upsert"
    /\ edits < MaxEdits
    /\ edits' = edits + 1
    /\ Onward(s, {}, TRUE)
    /\ UNCHANGED <<docs, configs>>

------------------------------------------------------------------------------
\* A request another server may handle during an import, and writes a config.
Request(s) ==
    /\ import[s].at = "up"
    /\ edits < MaxEdits
    /\ edits' = edits + 1
    /\ import' = DisturbedFor(Server)
    /\ UNCHANGED docs

CreateConfig(s, name, rest) ==
    /\ Request(s)
    /\ rest \in Sound
    /\ Len(configs) < MaxConfigs
    /\ configs' = Append(configs, [name |-> name, rest |-> rest, on |-> TRUE, origin |-> "operator"])

\* PUT: one field, the name too; it checks as little as the import.
EditConfig(s, id, name, rest) ==
    /\ Request(s)
    /\ Exists(id)
    /\ name = configs[id].name \/ rest = configs[id].rest
    /\ configs' = [configs EXCEPT ![id] =
           [name |-> name, rest |-> rest, on |-> @.on,
            origin |-> IF name = @.name THEN @.origin ELSE "renamed"]]

ToggleConfig(s, id) ==
    /\ Request(s)
    /\ Exists(id)
    /\ configs' = [configs EXCEPT ![id].on = ~@]

DeleteConfig(s, id) ==
    /\ Request(s)
    /\ Exists(id)
    /\ configs' = [configs EXCEPT ![id] = Gone]

EditFiles ==
    /\ edits < MaxEdits
    /\ edits' = edits + 1
    /\ docs' \in Contents
    /\ UNCHANGED <<configs, import>>

CrashServer(s) ==
    /\ edits < MaxEdits
    /\ edits' = edits + 1
    /\ import' = [import EXCEPT ![s] = Down]
    /\ UNCHANGED <<docs, configs>>

ScheduleNext ==
    \/ EditFiles
    \/ \E s \in Server :
          \/ BeginImport(s) \/ ListConfigs(s)
          \/ UpdateFromFile(s) \/ CreateFromFile(s)
          \/ RefuseDefinition(s) \/ UpsertFails(s)
          \/ CrashServer(s)
          \/ \E name \in ConfigName, rest \in Sound \cup Unsound :
                \/ CreateConfig(s, name, rest)
                \/ \E id \in DOMAIN configs : EditConfig(s, id, name, rest)
          \/ \E id \in DOMAIN configs : ToggleConfig(s, id) \/ DeleteConfig(s, id)

------------------------------------------------------------------------------
(* The rows and the imports keep their types. *)
ScheduleTypeOK ==
    /\ docs \in Contents
    /\ edits \in 0 .. MaxEdits
    /\ \A i \in DOMAIN configs : configs[i] = Gone \/
          configs[i] \in [name : ConfigName, rest : Sound \cup Unsound, on : BOOLEAN,
                         origin : {"import", "race", "operator", "renamed"}]
    /\ \A s \in Server :
          /\ import[s].at \in {"down", "up", "list", "upsert"}
          /\ import[s].failed \subseteq DOMAIN import[s].defs
          /\ import[s].at = "upsert" => import[s].next \in DOMAIN import[s].defs

(* When an import is over and nobody else wrote since it listed the        *)
(* configs, the newest config of every name says what the last definition  *)
(* of that name says that the summary does not report as an error: the     *)
(* files win over earlier edits, whatever rows the table held              *)
(* (upsert_into_db).                                                       *)
FilesWin ==
    \A s \in Server : \A i \in DOMAIN import[s].defs \ import[s].failed :
        LET defs == import[s].defs
            id == IndexOf(defs[i].name)
            later == {j \in DOMAIN defs \ import[s].failed :
                        j > i /\ defs[j].name = defs[i].name}
        IN import[s].at = "up" /\ import[s].alone /\ later = {} =>
             /\ id # 0
             /\ configs[id].rest = defs[i].rest /\ configs[id].on = defs[i].on

(* A config has no earlier twin of its name, which the planner would sweep *)
(* over a second time and no later import would ever update, unless two    *)
(* imports or an import and an operator raced, the files name it twice, or *)
(* an operator created or renamed one of the two (upsert_into_db).         *)
NoTwin ==
    \A i, j \in DOMAIN configs :
        i < j /\ configs[i].name = configs[j].name /\ configs[i].name # Unnamed =>
            configs[j].origin # "import" \/ configs[i].origin = "renamed"

\* The rows and the imports are well-formed, and what an import leaves behind
\* follows from the files.
ConfigsFollowFiles == ScheduleTypeOK /\ FilesWin /\ NoTwin
==============================================================================
