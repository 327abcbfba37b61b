---------------------------- MODULE BenchAttempts ----------------------------
(***************************************************************************)
(* The attempts a benchmark makes and judges.  A task of the worker starts *)
(* one bench process, which runs its attempts: of unit fixtures            *)
(* (benchmarks/runner/run_unit.py), one after the other, or of scenarios   *)
(* on a pull request (benchmarks/cli.py, runner/run.py), several at a time.*)
(* An attempt starts the agent as a subprocess, which writes a row into    *)
(* the trace database and run.json into the attempt's directory; a judge   *)
(* follows, whose row and the agent's row point at each other.  The worker *)
(* writes a run id into the task before it starts the bench; each cli.py   *)
(* then takes an id of its own.                                            *)
(***************************************************************************)
EXTENDS Naturals, FiniteSets

CONSTANTS
    Attempt,   \* attempts
    Task,      \* tasks of the worker, one bench process each
    TaskOf,    \* the task of each attempt
    Slots,     \* scenarios that run at a time (max_per_provider)
    NoRow      \* no run id

ASSUME BenchAssumption ==
    TaskOf \in [Attempt -> Task] /\ Slots \in Nat \ {0} /\ NoRow \notin Attempt \cup Task

VARIABLES
    tier,       \* "unit" or "integration"
    named,      \* tasks whose trace_run_id the worker has set: to an id named as the task
    place,      \* where the bench is with an attempt
    agent,      \* the agent's subprocess: "none", "started", "rowed", "up", "closing", "gone"
    exit,       \* how it ends or has ended: "none", "ok", "bad", "killed"
    unwritten,  \* history: attempts for which a write found the database locked
    traces,     \* runs rows of agents: status, and link to the attempt judged
    verdicts,   \* judges: how the call ended, and of the row its status, its link to the
                \* agent's row, and whether every write of it succeeded
    runJson,    \* run id in the attempt's run.json
    checkouts,  \* attempts whose clone is on disk
    temps,      \* attempts whose temporary files are on disk
    scoring     \* "none", "scored", "unjudged", "error"

benchVars == <<tier, named, place, agent, exit, unwritten, traces, verdicts, runJson, checkouts,
               temps, scoring>>

Running == {"prepared", "agent", "timedout", "judging", "linking"}
Over == {"done", "raised", "lost"}

\* cli.run replaces the id in the environment by one made from its own span.
RowOf(a) == a

Siblings(a) == {b \in Attempt : TaskOf[b] = TaskOf[a]}

BenchInit ==
    /\ tier \in {"unit", "integration"} /\ named = {}
    /\ place = [a \in Attempt |-> "idle"]
    /\ agent = [a \in Attempt |-> "none"]
    /\ exit = [a \in Attempt |-> "none"]
    /\ unwritten = {} /\ traces = <<>> /\ verdicts = <<>>
    /\ runJson = [a \in Attempt |-> NoRow]
    /\ checkouts = {} /\ temps = {}
    /\ scoring = [a \in Attempt |-> "none"]

Goes(a, stage) == place' = [place EXCEPT ![a] = stage]

\* What an attempt leaves on disk when run_unit_fixture returns, and its result.
Leaves(a, outcome) ==
    /\ Goes(a, "done")
    /\ scoring' = [scoring EXCEPT ![a] = outcome]
    /\ checkouts' = IF exit[a] = "ok" THEN checkouts \ {a} ELSE checkouts
    /\ temps' = temps \ {a}

\* An exception that leaves run_unit_fixture behind its try; one before it takes nothing away.
Raises(a) == Goes(a, "raised") /\ temps' = temps \ {a} /\ UNCHANGED <<checkouts, scoring>>

------------------------------------------------------------------------------
(* The bench.                                                              *)

\* The worker stamps the task before it starts the bench; the update may fail.
Stamp(t) ==
    /\ t \notin named
    /\ \A a \in Attempt : TaskOf[a] = t => place[a] = "idle"
    /\ named' = named \cup {t}
    /\ UNCHANGED <<tier, place, agent, exit, unwritten, traces, verdicts, runJson, checkouts, temps,
                   scoring>>

\* load_fixture, _clone_local and _checkout_refs, or _next_attempt_dir and build_proxy.
Prepare(a) ==
    /\ place[a] = "idle"
    /\ LET busy == {b \in Siblings(a) : place[b] \in Running}
       IN Cardinality(busy) < (IF tier = "unit" THEN 1 ELSE Slots)
    /\ \/ /\ Goes(a, "prepared") /\ UNCHANGED scoring
          /\ checkouts' = IF tier = "unit" THEN checkouts \cup {a} ELSE checkouts
       \/ /\ tier = "unit" /\ Goes(a, "raised") /\ UNCHANGED scoring
          /\ checkouts' \in {checkouts, checkouts \cup {a}}
       \/ /\ tier = "integration" /\ Goes(a, "done")
          /\ scoring' = [scoring EXCEPT ![a] = "error"] /\ UNCHANGED checkouts
    /\ UNCHANGED <<tier, named, agent, exit, unwritten, traces, verdicts, runJson, temps>>

Spawn(a) ==
    /\ place[a] = "prepared"
    /\ Goes(a, "agent")
    /\ agent' = [agent EXCEPT ![a] = "started"]
    /\ temps' = IF tier = "unit" THEN temps \cup {a} ELSE temps
    /\ UNCHANGED <<tier, named, exit, unwritten, traces, verdicts, runJson, checkouts, scoring>>

\* _close_agent_run_if_orphaned: only a row that is still running.
ClosedIfOrphaned(r) ==
    IF r \in DOMAIN traces /\ traces[r].status = "running"
    THEN [traces EXCEPT ![r].status = "failed"] ELSE traces

\* The subprocess of a unit fixture has ended; without expected_output nothing is judged.
ReturnUnit(a, written) ==
    /\ tier = "unit" /\ place[a] = "agent" /\ agent[a] = "gone"
    /\ traces' = IF exit[a] # "ok" /\ written THEN ClosedIfOrphaned(runJson[a]) ELSE traces
    /\ unwritten' = IF written THEN unwritten ELSE unwritten \cup {a}
    /\ \/ exit[a] = "ok" /\ Goes(a, "judging") /\ UNCHANGED <<checkouts, temps, scoring>>
       \/ Leaves(a, "unjudged")
    /\ UNCHANGED <<tier, named, agent, exit, verdicts, runJson>>

\* CliTrigger has waited for the command of a scenario: an exit code is an error.
ReturnScenario(a) ==
    /\ tier = "integration" /\ place[a] \in {"agent", "timedout"} /\ agent[a] = "gone"
    /\ IF exit[a] = "ok" /\ place[a] = "agent"
       THEN Goes(a, "judging") /\ UNCHANGED <<checkouts, temps, scoring>>
       ELSE Leaves(a, "error")
    /\ UNCHANGED <<tier, named, agent, exit, unwritten, traces, verdicts, runJson>>

\* subprocess.run kills the agent and raises: nobody closes the row, the clone stays.
TimeoutUnit(a) ==
    /\ tier = "unit" /\ place[a] = "agent" /\ agent[a] # "gone"
    /\ agent' = [agent EXCEPT ![a] = "gone"]
    /\ exit' = [exit EXCEPT ![a] = "killed"]
    /\ Raises(a)
    /\ UNCHANGED <<tier, named, unwritten, traces, verdicts, runJson>>

\* proc.kill() ends the shell; the agent below it dies with it or goes on, and is waited for.
TimeoutScenario(a) ==
    /\ tier = "integration" /\ place[a] = "agent" /\ agent[a] # "gone"
    /\ Goes(a, "timedout")
    /\ \/ UNCHANGED <<agent, exit>>
       \/ agent' = [agent EXCEPT ![a] = "gone"] /\ exit' = [exit EXCEPT ![a] = "killed"]
    /\ UNCHANGED <<tier, named, unwritten, traces, verdicts, runJson, checkouts, temps, scoring>>

------------------------------------------------------------------------------
(* The judge.                                                              *)

\* A judge that raises before its first request has no row; a unit fixture swallows it.
JudgeFailsEarly(a) ==
    /\ place[a] = "judging" /\ a \notin DOMAIN verdicts
    /\ Leaves(a, IF tier = "unit" THEN "unjudged" ELSE "error")
    /\ UNCHANGED <<tier, named, agent, exit, unwritten, traces, verdicts, runJson>>

\* Mutant: the judge links to the newest row instead of the one in run.json.
LinkOfNewest(a) == CHOOSE r \in DOMAIN traces \cup {NoRow} : TRUE

\* _ensure_writer reads the run id the agent left behind.
LinkOf(a) == runJson[a]

\* The judge's writer; its row is left out when the database is locked.
StartJudge(a, stored) ==
    /\ place[a] = "judging" /\ a \notin DOMAIN verdicts
    /\ verdicts' = [x \in DOMAIN verdicts \cup {a} |->
          IF x = a
          THEN [result |-> "none", status |-> "running", link |-> LinkOf(a), stored |-> stored]
          ELSE verdicts[x]]
    /\ UNCHANGED <<tier, named, place, agent, exit, unwritten, traces, runJson, checkouts, temps,
                   scoring>>

\* complete_json returns or raises; _finish_trace closes the judge's row either way,
\* and goes on when the database is locked.
EndJudge(a, result, written) ==
    /\ place[a] = "judging" /\ a \in DOMAIN verdicts
    /\ verdicts' = [verdicts EXCEPT ![a] =
          [result |-> result, status |-> IF written THEN result ELSE @.status,
           link |-> @.link, stored |-> @.stored /\ written]]
    /\ Goes(a, "linking")
    /\ UNCHANGED <<tier, named, agent, exit, unwritten, traces, runJson, checkouts, temps,
                   scoring>>

\* _backfill_agent_linked: the first judge of a row stays.
Backfilled(a) ==
    IF verdicts[a].link \in DOMAIN traces /\ traces[verdicts[a].link].link = {}
    THEN [traces EXCEPT ![verdicts[a].link].link = {a}] ELSE traces

\* An answer that cannot be interpreted raises after the judge's row was closed as completed.
LinkBack(a, written) ==
    /\ place[a] = "linking"
    /\ traces' = IF written THEN Backfilled(a) ELSE traces
    /\ unwritten' = IF written THEN unwritten ELSE unwritten \cup {a}
    /\ \/ verdicts[a].result = "completed" /\ Leaves(a, "scored")
       \/ Leaves(a, IF tier = "unit" THEN "unjudged" ELSE "error")
    /\ UNCHANGED <<tier, named, agent, exit, verdicts, runJson>>

------------------------------------------------------------------------------
(* The agent's process, and the death of a bench process.                  *)

\* INSERT OR IGNORE: a row that is there stays as it is.
WriteRow(a) ==
    /\ agent[a] = "started"
    /\ agent' = [agent EXCEPT ![a] = "rowed"]
    /\ traces' = [r \in DOMAIN traces \cup {RowOf(a)} |->
          IF r \in DOMAIN traces THEN traces[r] ELSE [status |-> "running", link |-> {}]]
    /\ UNCHANGED <<tier, named, place, exit, unwritten, verdicts, runJson, checkouts, temps, scoring>>

WriteRunJson(a) ==
    /\ agent[a] = "rowed"
    /\ agent' = [agent EXCEPT ![a] = "up"]
    /\ runJson' = [runJson EXCEPT ![a] = RowOf(a)]
    /\ UNCHANGED <<tier, named, place, exit, unwritten, traces, verdicts, checkouts, temps, scoring>>

\* finish_run, whatever the status was; a locked database leaves the row as it is.
Finish(a, ok, written) ==
    /\ agent[a] = "up"
    /\ agent' = [agent EXCEPT ![a] = "closing"]
    /\ exit' = [exit EXCEPT ![a] = IF ok THEN "ok" ELSE "bad"]
    /\ traces' = IF written THEN [traces EXCEPT ![RowOf(a)].status = IF ok THEN "completed" ELSE "failed"]
                 ELSE traces
    /\ unwritten' = IF written THEN unwritten ELSE unwritten \cup {a}
    /\ UNCHANGED <<tier, named, place, verdicts, runJson, checkouts, temps, scoring>>

\* The process has published what it queued and exits.
AgentExits(a) ==
    /\ agent[a] = "closing"
    /\ agent' = [agent EXCEPT ![a] = "gone"]
    /\ UNCHANGED <<tier, named, place, exit, unwritten, traces, verdicts, runJson, checkouts, temps, scoring>>

\* An exit before the row is written; a kill, or an exception outside the try of the run.
AgentDies(a) ==
    /\ agent[a] \in {"started", "rowed", "up", "closing"}
    /\ agent' = [agent EXCEPT ![a] = "gone"]
    /\ exit' = [exit EXCEPT ![a] = IF agent[a] = "started" THEN "bad" ELSE "killed"]
    /\ UNCHANGED <<tier, named, place, unwritten, traces, verdicts, runJson, checkouts, temps, scoring>>

\* SIGKILL of a bench process: its attempts stop where they are, its agents go on.
BenchDies(t) ==
    /\ \E a \in Attempt : TaskOf[a] = t /\ place[a] \in Running
    /\ place' = [a \in Attempt |-> IF TaskOf[a] = t /\ place[a] \notin Over THEN "lost" ELSE place[a]]
    /\ UNCHANGED <<tier, named, agent, exit, unwritten, traces, verdicts, runJson, checkouts,
                   temps, scoring>>

BenchSteps(a) ==
    \/ Prepare(a) \/ Spawn(a) \/ ReturnScenario(a) \/ JudgeFailsEarly(a)
    \/ \E written \in BOOLEAN : ReturnUnit(a, written) \/ StartJudge(a, written) \/ LinkBack(a, written)
    \/ \E result \in {"completed", "error"}, written \in BOOLEAN : EndJudge(a, result, written)

AgentSteps(a) ==
    \/ WriteRow(a) \/ WriteRunJson(a) \/ AgentExits(a) \/ AgentDies(a)
    \/ \E ok, written \in BOOLEAN : Finish(a, ok, written)

BenchNext ==
    \/ \E a \in Attempt :
          BenchSteps(a) \/ AgentSteps(a) \/ TimeoutUnit(a) \/ TimeoutScenario(a)
    \/ \E t \in Task : Stamp(t) \/ BenchDies(t)

------------------------------------------------------------------------------
(* Properties.                                                             *)

\* The types of the rows and of what the bench and the disk hold.
BenchTypeOK ==
    /\ place \in [Attempt -> {"idle"} \cup Running \cup Over]
    /\ agent \in [Attempt -> {"none", "started", "rowed", "up", "closing", "gone"}]
    /\ exit \in [Attempt -> {"none", "ok", "bad", "killed"}]
    /\ DOMAIN traces \subseteq Attempt /\ DOMAIN verdicts \subseteq Attempt
    /\ \A r \in DOMAIN traces : /\ traces[r].status \in {"running", "completed", "failed"}
                              /\ Cardinality(traces[r].link) <= 1 /\ traces[r].link \subseteq Attempt
    /\ \A a \in DOMAIN verdicts : /\ verdicts[a].status \in {"running", "completed", "error"}
                                  /\ verdicts[a].result \in {"none", "completed", "error"}
                                  /\ verdicts[a].link \in Attempt \cup {NoRow}
    /\ runJson \in [Attempt -> Attempt \cup {NoRow}]
    /\ checkouts \subseteq Attempt /\ temps \subseteq Attempt /\ unwritten \subseteq Attempt
    /\ scoring \in [Attempt -> {"none", "scored", "unjudged", "error"}]

(* The two rows of an attempt point at each other: a judge is linked to    *)
(* the run it has judged and to no other, a run to a judge that has ended, *)
(* is linked to it and says how it ended, and an attempt that was scored   *)
(* has both links; unless the database was locked when the judge's row or  *)
(* the run's was written (judge.py:549-660, trace_writer.py:197-209).      *)
RowsArePaired ==
    /\ \A a \in DOMAIN verdicts : verdicts[a].link = RowOf(a)
    /\ \A r \in DOMAIN traces : \A a \in traces[r].link :
          /\ a \in DOMAIN verdicts /\ verdicts[a].link = r /\ verdicts[a].result # "none"
          /\ verdicts[a].stored => verdicts[a].status = verdicts[a].result
    /\ \A a \in Attempt : scoring[a] = "scored" /\ a \notin unwritten => traces[RowOf(a)].link = {a}

(* The row of an agent says how it ended, once the bench has returned from *)
(* it: completed of a good run, failed of a bad one, and of a unit fixture *)
(* not running even if the agent was killed (run_unit.py:486-496).  Not so *)
(* when the database was locked, or the run had no run.json.               *)
RowSaysExit ==
    \A a \in Attempt :
        place[a] = "done" /\ runJson[a] # NoRow /\ a \notin unwritten =>
            LET status == traces[RowOf(a)].status
            IN /\ exit[a] = "ok" => status = "completed"
               /\ exit[a] = "bad" => status = "failed"
               /\ tier = "unit" => status # "running"

(* The clone is there for the judge, and a clone and temporary files stay  *)
(* only for a failed attempt to look at, or one that was cut short.        *)
DiskIsTidy ==
    \A a \in Attempt :
        /\ tier = "unit" /\ place[a] \in Running => a \in checkouts
        /\ place[a] \in {"done", "raised"} => a \notin temps
        /\ place[a] = "done" /\ exit[a] = "ok" => a \notin checkouts

\* An attempt is judged, recorded and cleared away as the run it made.
AttemptsAreTold == RowsArePaired /\ RowSaysExit /\ DiskIsTidy

(* What quality_cli/main.py:1423-1428 says: diff-graph uses the run id the *)
(* worker has put into qa_tasks, so that the task leads to its run.        *)
TaskNamesItsRun ==
    \A t \in named : (\E a \in DOMAIN traces : TaskOf[a] = t) => t \in DOMAIN traces
==============================================================================
