--------------------------- MODULE SchemaBootstrap ---------------------------
(***************************************************************************)
(* TaskQueue._ensure_schema of quality_api/queue.py for table qa_tasks: a  *)
(* list of statements, each committed by itself, that every process (the   *)
(* server, each CLI worker) runs when it opens the database.  A migration  *)
(* that fails is skipped over whatever the reason: no such table, column   *)
(* there already or gone, but also a lock that outlasts busy_timeout.  The *)
(* script of CREATE statements at the end is not guarded and raises.       *)
(* Processes run it at the same time and may die half way.                 *)
(***************************************************************************)
EXTENDS Naturals, Sequences

CONSTANTS
    Process,   \* processes that open the database
    Starts,    \* the columns the database may be found with: {} when it is new
    MaxLocks   \* bound on the statements that a lock refuses

\* Columns of qa_tasks that some statement adds, renames, drops or reads.
Late == {"not_before", "kind", "retry_count", "max_retries"}
Legacy == {"scenario_id", "lineage", "mutation_hash"}
Column == Late \cup Legacy \cup {"resources", "branch"}

\* What enqueue(), lease() and finish() name in their statements.
Needed == Late \cup {"resources"}

\* CREATE TABLE IF NOT EXISTS qa_tasks, of these columns; "id" stands for the others.
Created == {"id", "kind", "resources"}

\* Of those, the ones a CREATE INDEX of the same script names.
Indexed == {"kind"}

ASSUME SchemaAssumption ==
    /\ Starts \subseteq SUBSET (Column \cup {"id"})
    /\ \A start \in Starts : start # {} => "id" \in start
    /\ MaxLocks \in Nat

Add(col) == [op |-> "add", col |-> col]
Drop(col) == [op |-> "drop", col |-> col]

\* Mutant: the migration of retry_count is missing.
ProgramWithoutRetry ==
    << Add("not_before"), Add("kind"), Add("max_retries"), Add("resources"),
       [op |-> "rename", col |-> "lineage"],
       Drop("scenario_id"), Drop("lineage"), Drop("mutation_hash"),
       [op |-> "backfill", col |-> "resources"],
       [op |-> "create", col |-> "id"] >>

\* _ensure_schema, in its order; the backfill changes rows, not columns.
Program ==
    << Add("not_before"), Add("kind"), Add("retry_count"), Add("max_retries"), Add("resources"),
       [op |-> "rename", col |-> "lineage"],
       Drop("scenario_id"), Drop("lineage"), Drop("mutation_hash"),
       [op |-> "backfill", col |-> "resources"],
       [op |-> "create", col |-> "id"] >>

VARIABLES
    cols,     \* columns of qa_tasks, {} while there is no table
    proc,     \* each process: the next statement, whether it found a table,
              \* and the columns whose ALTER it was refused
    locks     \* statements a lock has refused so far

schemaVars == <<cols, proc, locks>>

Ready == Len(Program) + 1
Ended == [pc |-> 0, old |-> FALSE, missed |-> {}]

SchemaInit ==
    /\ cols \in Starts
    /\ proc = [p \in Process |-> Ended]
    /\ locks = 0

Open(p) ==
    /\ proc[p].pc = 0
    /\ proc' = [proc EXCEPT ![p] = [pc |-> 1, old |-> cols # {}, missed |-> {}]]
    /\ UNCHANGED <<cols, locks>>

\* The columns after a statement; one that fails leaves them alone.
Altered(st) ==
    CASE st.op = "add" -> IF cols = {} THEN {} ELSE cols \cup {st.col}
      [] st.op = "drop" -> cols \ {st.col}
      [] st.op = "rename" -> IF "lineage" \notin cols /\ "branch" \in cols
                             THEN (cols \ {"branch"}) \cup {"lineage"} ELSE cols
      [] st.op = "create" -> IF cols = {} THEN Created ELSE cols
      [] OTHER -> cols

\* An index of a column that is not there raises out of executescript.
Raises(st) == st.op = "create" /\ cols # {} /\ ~(Indexed \subseteq cols)

Execute(p) ==
    /\ proc[p].pc \in DOMAIN Program
    /\ LET st == Program[proc[p].pc] IN
          IF Raises(st)
          THEN proc' = [proc EXCEPT ![p] = Ended] /\ UNCHANGED cols
          ELSE cols' = Altered(st) /\ proc' = [proc EXCEPT ![p].pc = @ + 1]
    /\ UNCHANGED locks

\* "database is locked": the statement is skipped over like one that is done already.
Refused(p) ==
    /\ proc[p].pc \in DOMAIN Program /\ locks < MaxLocks
    /\ LET st == Program[proc[p].pc] IN
          /\ st.op # "create" /\ Altered(st) # cols
          /\ proc' = [proc EXCEPT ![p] =
                 [pc |-> @.pc + 1, old |-> @.old,
                  missed |-> IF st.op = "add" THEN @.missed \cup {st.col} ELSE @.missed]]
    /\ locks' = locks + 1
    /\ UNCHANGED cols

\* The process ends, in the middle of the bootstrap or later, and may be started again;
\* a lock that the script of CREATE statements meets ends it too.
Quit(p) ==
    /\ proc[p].pc # 0
    /\ proc' = [proc EXCEPT ![p] = Ended]
    /\ UNCHANGED <<cols, locks>>

SchemaNext == \E p \in Process : Open(p) \/ Execute(p) \/ Refused(p) \/ Quit(p)

------------------------------------------------------------------------------
(* The types of the schema and of the processes. *)
SchemaTypeOK ==
    /\ cols \subseteq Column \cup {"id"}
    /\ cols = {} \/ "id" \in cols
    /\ proc \in [Process -> [pc : 0 .. Ready, old : BOOLEAN, missed : SUBSET Column]]
    /\ locks \in 0 .. MaxLocks

(* A process that ends its bootstrap has the columns of the indexes; and   *)
(* one that found a table has every column the queue's statements name but *)
(* those whose own ALTER a lock has refused it, whatever other processes   *)
(* do to the schema in the meantime and however often one dies half way    *)
(* (_ensure_schema).  So an undisturbed start repairs what one has missed. *)
ReopenedIsUsable ==
    \A p \in Process : proc[p].pc = Ready =>
        /\ Indexed \subseteq cols
        /\ proc[p].old => Needed \subseteq cols \cup proc[p].missed
==============================================================================
