---------------------------- MODULE RunLifecycle ----------------------------
(***************************************************************************)
(* The row of one run in the trace database (table runs) and the parties   *)
(* that close it: the run's own process (TraceDBWriter, cli._finalize),    *)
(* the orphan sweeper of the trace server, and the bench process that      *)
(* started it (_close_agent_run_if_orphaned).  SQLite's write lock is held *)
(* from the sweeper's first UPDATE to its commit; a process that cannot    *)
(* write in the meantime gives up, and the error is swallowed.             *)
(***************************************************************************)
EXTENDS Naturals, FiniteSets

CONSTANTS
    Run,         \* runs
    Bench,       \* the runs a bench process waits for
    MaxAborts    \* bound: sweeps cut short (database busy, server restarted)

ASSUME RunAssumption == Bench \subseteq Run /\ MaxAborts \in Nat

VARIABLES
    row,       \* runs.status of each run, "none" before the row is written
    process,   \* the run's process: "off", "working", "publishing", "gone"
    outcome,   \* how its work ended: "none", "ok", "error", "killed"
    finish,    \* its finish_run(): "none", "written", "lost"
    waiting,   \* runs whose bench process still waits for them
    old,       \* runs started before the sweeper's age cutoff
    recent,    \* runs with a span stamped with their id in the idle window
    evented,   \* runs with a row in events
    markers,   \* agent_orphaned events of each run
    sweep,     \* the sweep under way: its phase, candidates, ...
    aborts

runVars == <<row, process, outcome, finish, waiting, old, recent, evented, markers, sweep, aborts>>

NoSweep == [on |-> FALSE, todo |-> {}, fresh |-> {}, chosen |-> {}, lock |-> FALSE, closed |-> {}, marked |-> {}]

RunInit ==
    /\ row = [r \in Run |-> "none"]
    /\ process = [r \in Run |-> "off"]
    /\ outcome = [r \in Run |-> "none"]
    /\ finish = [r \in Run |-> "none"]
    /\ waiting = Bench
    /\ old = {} /\ recent = {} /\ evented = {}
    /\ markers = [r \in Run |-> 0]
    /\ sweep = NoSweep
    /\ aborts = 0

\* TraceDBWriter._insert_run: the row is there, running, before any work.
InsertRun(r) ==
    /\ process[r] = "off" /\ ~sweep.lock
    /\ process' = [process EXCEPT ![r] = "working"]
    /\ row' = [row EXCEPT ![r] = IF @ = "none" THEN "running" ELSE @]
    /\ UNCHANGED <<outcome, finish, waiting, old, recent, evented, markers, sweep, aborts>>

\* The process writes a span and an event; the cutoff of a sweep under way is already fixed.
WriteEvent(r) ==
    /\ process[r] = "working" /\ ~sweep.lock
    /\ recent' = recent \cup {r}
    /\ evented' = evented \cup {r}
    /\ sweep' = [sweep EXCEPT !.fresh = IF sweep.on THEN @ \cup {r} ELSE @]
    /\ UNCHANGED <<row, process, outcome, finish, waiting, old, markers, aborts>>

\* No stamped span starts for idle_grace_seconds: the process is dead, in one long LLM
\* call, or waits for child agents, whose threads do not carry diffgraph.run_id.
FallSilent(r) ==
    /\ r \in recent
    /\ recent' = recent \ {r}
    /\ UNCHANGED <<row, process, outcome, finish, waiting, old, evented, markers, sweep, aborts>>

\* started_at falls behind max_run_age_seconds.
Age(r) ==
    /\ row[r] # "none" /\ r \notin old
    /\ old' = old \cup {r}
    /\ UNCHANGED <<row, process, outcome, finish, waiting, recent, evented, markers, sweep, aborts>>

\* Mutant: finish_run() only closes a row that is still running.
FinishRunGuarded(r, status) ==
    IF sweep.lock THEN UNCHANGED row /\ finish' = [finish EXCEPT ![r] = "lost"]
    ELSE /\ row' = [row EXCEPT ![r] = IF @ = "running" THEN status ELSE @]
         /\ finish' = [finish EXCEPT ![r] = "written"]

\* TraceDBWriter.finish_run(): whatever the status was; a locked database is swallowed.
FinishRun(r, status) ==
    IF sweep.lock THEN UNCHANGED row /\ finish' = [finish EXCEPT ![r] = "lost"]
    ELSE /\ row' = [row EXCEPT ![r] = status]
         /\ finish' = [finish EXCEPT ![r] = "written"]

\* _finalize("completed"), then the review is published.
Complete(r) ==
    /\ process[r] = "working"
    /\ FinishRun(r, "completed")
    /\ outcome' = [outcome EXCEPT ![r] = "ok"]
    /\ process' = [process EXCEPT ![r] = "publishing"]
    /\ UNCHANGED <<waiting, old, recent, evented, markers, sweep, aborts>>

\* An exception or SIGTERM: _finalize("failed"), and the process exits non-zero.
FailRun(r) ==
    /\ process[r] = "working"
    /\ FinishRun(r, "failed")
    /\ outcome' = [outcome EXCEPT ![r] = "error"]
    /\ process' = [process EXCEPT ![r] = "gone"]
    /\ UNCHANGED <<waiting, old, recent, evented, markers, sweep, aborts>>

\* Publishing ends, with or without an exception; _finalize() is not run twice.
Exit(r) ==
    /\ process[r] = "publishing"
    /\ process' = [process EXCEPT ![r] = "gone"]
    /\ UNCHANGED <<row, outcome, finish, waiting, old, recent, evented, markers, sweep, aborts>>

\* SIGKILL, OOM, or the bench's subprocess timeout, after which the bench closes nothing.
Kill(r) ==
    /\ process[r] \in {"working", "publishing"}
    /\ process' = [process EXCEPT ![r] = "gone"]
    /\ outcome' = [outcome EXCEPT ![r] = IF @ = "none" THEN "killed" ELSE @]
    /\ \/ UNCHANGED waiting
       \/ waiting' = waiting \ {r}
    /\ UNCHANGED <<row, finish, old, recent, evented, markers, sweep, aborts>>

\* _close_agent_run_if_orphaned(), once, if the exit code is not 0 (after good work it
\* is 0 unless publishing raised): one guarded UPDATE and its marker; left to the
\* sweeper when the database is busy.
BenchClose(r) ==
    /\ r \in waiting /\ process[r] = "gone"
    /\ waiting' = waiting \ {r}
    /\ \E nonzero \in {TRUE, outcome[r] # "ok"} :
       LET closes == nonzero /\ row[r] = "running" /\ ~sweep.lock IN
       /\ row' = [row EXCEPT ![r] = IF closes THEN "failed" ELSE @]
       /\ markers' = [markers EXCEPT ![r] = IF closes /\ r \in evented THEN @ + 1 ELSE @]
    /\ UNCHANGED <<process, outcome, finish, old, recent, evented, sweep, aborts>>

\* _sweep_once(): the cutoffs, and the candidates by a SELECT of its own.
SweepBegin ==
    /\ ~sweep.on
    /\ LET candidates == {r \in old : row[r] = "running"} IN
       /\ candidates # {}
       /\ sweep' = [NoSweep EXCEPT !.on = TRUE, !.todo = candidates, !.fresh = recent]
    /\ UNCHANGED <<row, process, outcome, finish, waiting, old, recent, evented, markers, aborts>>

\* The activity test of one candidate.
SweepTest(r) ==
    /\ r \in sweep.todo /\ sweep.chosen = {}
    /\ sweep' = [sweep EXCEPT !.todo = @ \ {r}, !.chosen = {r} \ sweep.fresh]
    /\ UNCHANGED <<row, process, outcome, finish, waiting, old, recent, evented, markers, aborts>>

\* The guarded UPDATE takes the write lock; the marker does not look at what it changed.
SweepClose(r) ==
    /\ r \in sweep.chosen
    /\ sweep' = [sweep EXCEPT !.chosen = {}, !.lock = TRUE,
                              !.closed = IF row[r] = "running" THEN @ \cup {r} ELSE @,
                              !.marked = @ \cup ({r} \cap evented)]
    /\ UNCHANGED <<row, process, outcome, finish, waiting, old, recent, evented, markers, aborts>>

SweepCommit ==
    /\ sweep.on /\ sweep.todo = {} /\ sweep.chosen = {}
    /\ row' = [r \in Run |-> IF r \in sweep.closed THEN "failed" ELSE row[r]]
    /\ markers' = [r \in Run |-> IF r \in sweep.marked THEN markers[r] + 1 ELSE markers[r]]
    /\ sweep' = NoSweep
    /\ UNCHANGED <<process, outcome, finish, waiting, old, recent, evented, aborts>>

\* The UPDATE finds the database busy, or the server stops: nothing is committed.
SweepAbort ==
    /\ sweep.on /\ aborts < MaxAborts
    /\ sweep' = NoSweep
    /\ aborts' = aborts + 1
    /\ UNCHANGED <<row, process, outcome, finish, waiting, old, recent, evented, markers>>

\* The sweeper's work, when nothing interrupts it.
Sweep == SweepBegin \/ SweepCommit \/ \E r \in Run : SweepTest(r) \/ SweepClose(r)

RunNext ==
    \/ \E r \in Run : \/ InsertRun(r) \/ WriteEvent(r) \/ FallSilent(r) \/ Age(r)
                      \/ Complete(r) \/ FailRun(r) \/ Exit(r) \/ Kill(r) \/ BenchClose(r)
    \/ Sweep \/ SweepAbort

------------------------------------------------------------------------------
(* The types of the rows, the processes and the sweep; the sweeper holds   *)
(* the write lock as soon as it has closed or marked a row.                *)
RunTypeOK ==
    /\ row \in [Run -> {"none", "running", "completed", "failed"}]
    /\ process \in [Run -> {"off", "working", "publishing", "gone"}]
    /\ outcome \in [Run -> {"none", "ok", "error", "killed"}]
    /\ finish \in [Run -> {"none", "written", "lost"}]
    /\ waiting \subseteq Bench /\ old \subseteq Run /\ recent \subseteq Run /\ evented \subseteq Run
    /\ markers \in [Run -> 0 .. 2]
    /\ sweep.closed \cup sweep.marked # {} => sweep.lock
    /\ sweep.lock => sweep.on
    /\ Cardinality(sweep.chosen) <= 1
    /\ aborts \in 0 .. MaxAborts

(* A run whose work ended well is shown as failed only when the sweeper's  *)
(* lock made its finish_run() fail: being swept while it was alive but     *)
(* silent is repaired by its own close (finish_run, _sweep_once).          *)
GoodRunFailedOnlyIfLost ==
    \A r \in Run : outcome[r] = "ok" /\ row[r] = "failed" => finish[r] = "lost"

(* What a run's own process wrote at its end is final: neither the sweeper *)
(* nor the bench changes it, also when they judged the run before          *)
(* ("AND status='running'", and the lock between the UPDATE and commit).   *)
OwnCloseStands ==
    \A r \in Run : finish[r] = "written" => row'[r] = row[r]

(* A run with events that somebody else closes gets its terminal event in  *)
(* the same transaction ("so the trace UI shows an explicit terminal       *)
(* point").                                                                *)
OthersLeaveAMarker ==
    \A r \in Run :
        row[r] = "running" /\ row'[r] = "failed" /\ r \in evented /\ finish'[r] # "written"
        => markers'[r] > markers[r]

(* A run whose process is gone does not stay "running": its own close, the *)
(* bench or, at the latest, the sweeper ends it (OrphanRunSweeper).        *)
DeadRunCloses ==
    \A r \in Run : process[r] = "gone" /\ row[r] = "running" ~> row[r] # "running"

\* The row of a run and its markers say how the run ended, for good.
RowsAreHonest == [][GoodRunFailedOnlyIfLost' /\ OwnCloseStands /\ OthersLeaveAMarker]_runVars
==============================================================================
