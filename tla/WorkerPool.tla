----------------------------- MODULE WorkerPool -----------------------------
(***************************************************************************)
(* One live_queue pool of quality_api/pools.py: the supervisor thread that *)
(* counts waiting tasks, counts live rows of qa_workers and spawns the     *)
(* difference as subprocesses, and the workers it spawns, which register   *)
(* themselves once they are up and leave when they idle.  The row of a     *)
(* worker and the process behind it are two things: a row appears after    *)
(* the process and may be marked dead before the process ends.             *)
(***************************************************************************)
EXTENDS Naturals, FiniteSets

CONSTANTS
    Worker,     \* worker ids; a worker that left is not started again
    Targets,    \* what operators set target_workers to
    Most,       \* the largest of them
    MaxTasks    \* bound on the tasks waiting at a time

ASSUME PoolAssumption ==
    /\ Targets \subseteq Nat
    /\ Most \in Nat
    /\ \A n \in Targets \cup {1} : n <= Most
    /\ MaxTasks \in Nat

VARIABLES
    wanted,   \* target_workers as a tick reads it, 0 without an enabled pool
    queued,   \* queued tasks of the pool's queue that are due
    procs,    \* the process of each worker
    rows,     \* its row in qa_workers
    tick,     \* _reconcile: where it is, the target it read, how many workers are still to spawn
    misled     \* TRUE once a tick missed a booting worker or a live one was marked dead (history)

poolVars == <<wanted, queued, procs, rows, tick, misled>>

Off == [at |-> "off", target |-> 0, spawn |-> 0]

ProcessState == {"none", "booting", "idle", "busy", "gone"}
RowState == {"none", "running", "stopped", "dead"}
Up == {w \in Worker : procs[w] \in {"idle", "busy"}}
Alive == {w \in Worker : procs[w] \in {"booting", "idle", "busy"}}

\* Mutant: rows marked dead are counted.
CountedAny == {w \in Worker : rows[w] # "none"}

Counted == {w \in Worker : rows[w] = "running"}

PoolInit ==
    /\ wanted = 0
    /\ queued = 0
    /\ procs = [w \in Worker |-> "none"]
    /\ rows = [w \in Worker |-> "none"]
    /\ tick = Off
    /\ misled = FALSE

------------------------------------------------------------------------------
(* The row of the pool (PoolStore)                                         *)

\* _row_to_pool: a target of 0 is read as 1.
TargetRead(n) == IF n = 0 THEN 1 ELSE n

\* add(), which refuses a target of 0, or update(), which does not and may enable the pool
\* again; the workers that are there stay.
SetPool(n) ==
    /\ wanted' = TargetRead(n)
    /\ UNCHANGED <<queued, procs, rows, tick, misled>>

\* delete(), or an update that disables the pool.
DropPool ==
    /\ wanted' = 0
    /\ UNCHANGED <<queued, procs, rows, tick, misled>>

------------------------------------------------------------------------------
(* The supervisor                                                          *)

Arrive ==
    /\ queued < MaxTasks
    /\ queued' = queued + 1
    /\ UNCHANGED <<wanted, procs, rows, tick, misled>>

\* The enabled pools are read, then the tasks are counted: nothing is spawned for an
\* empty queue.
CountTasks ==
    /\ tick.at = "off"
    /\ wanted # 0
    /\ queued > 0
    /\ tick' = [tick EXCEPT !.at = "count", !.target = wanted]
    /\ UNCHANGED <<wanted, queued, procs, rows, misled>>

Deficit == IF Cardinality(Counted) < tick.target THEN tick.target - Cardinality(Counted) ELSE 0

CountWorkers ==
    /\ tick.at = "count"
    /\ tick' = IF Deficit = 0 THEN Off ELSE [at |-> "spawn", target |-> 0, spawn |-> Deficit]
    /\ misled' = (misled \/ \E w \in Worker : procs[w] = "booting")
    /\ UNCHANGED <<wanted, queued, procs, rows>>

\* Mutant: the deficit is spawned and counted down past zero.
SpawnWorkerOn(w) ==
    /\ tick.at = "spawn"
    /\ procs[w] = "none"
    /\ procs' = [procs EXCEPT ![w] = "booting"]
    /\ tick' = IF tick.spawn = 0 THEN Off ELSE [tick EXCEPT !.spawn = @ - 1]
    /\ UNCHANGED <<wanted, queued, rows, misled>>

\* Popen of one worker; the tick ends with the last one, or when no id is left (bound).
SpawnWorker(w) ==
    /\ tick.at = "spawn"
    /\ procs[w] = "none"
    /\ procs' = [procs EXCEPT ![w] = "booting"]
    /\ tick' = IF tick.spawn = 1 THEN Off ELSE [tick EXCEPT !.spawn = @ - 1]
    /\ UNCHANGED <<wanted, queued, rows, misled>>

\* list_workers: the row of a worker whose heartbeat is stale, because it died or stalls.
MarkDead(w) ==
    /\ rows[w] = "running"
    /\ rows' = [rows EXCEPT ![w] = "dead"]
    /\ misled' = (misled \/ w \in Up)
    /\ UNCHANGED <<wanted, queued, procs, tick>>

------------------------------------------------------------------------------
(* A worker                                                                *)

Register(w) ==
    /\ procs[w] = "booting"
    /\ procs' = [procs EXCEPT ![w] = "idle"]
    /\ rows' = [rows EXCEPT ![w] = "running"]
    /\ UNCHANGED <<wanted, queued, tick, misled>>

\* worker_heartbeat revives a row that was marked dead.
Beat(w) ==
    /\ w \in Up
    /\ rows[w] # "none"
    /\ rows' = [rows EXCEPT ![w] = "running"]
    /\ UNCHANGED <<wanted, queued, procs, tick, misled>>

Take(w) ==
    /\ procs[w] = "idle"
    /\ queued > 0
    /\ queued' = queued - 1
    /\ procs' = [procs EXCEPT ![w] = "busy"]
    /\ UNCHANGED <<wanted, rows, tick, misled>>

FinishTask(w) ==
    /\ procs[w] = "busy"
    /\ procs' = [procs EXCEPT ![w] = "idle"]
    /\ UNCHANGED <<wanted, queued, rows, tick, misled>>

\* --max-idle-seconds: the last lease() of the worker found nothing.
IdleOut(w) ==
    /\ procs[w] = "idle"
    /\ queued = 0
    /\ procs' = [procs EXCEPT ![w] = "gone"]
    /\ rows' = [rows EXCEPT ![w] = "stopped"]
    /\ UNCHANGED <<wanted, queued, tick, misled>>

Die(w) ==
    /\ w \in Alive
    /\ procs' = [procs EXCEPT ![w] = "gone"]
    /\ UNCHANGED <<wanted, queued, rows, tick, misled>>

Reconcile == CountTasks \/ CountWorkers \/ \E w \in Worker : SpawnWorker(w)
Work(w) == Register(w) \/ Take(w) \/ FinishTask(w)

PoolNext ==
    \/ \E n \in Targets : SetPool(n)
    \/ DropPool
    \/ Arrive
    \/ Reconcile
    \/ \E w \in Worker : Work(w) \/ MarkDead(w) \/ Beat(w) \/ IdleOut(w) \/ Die(w)

------------------------------------------------------------------------------
(* The types of the pool's state. *)
PoolTypeOK ==
    /\ queued \in 0 .. MaxTasks
    /\ procs \in [Worker -> ProcessState]
    /\ rows \in [Worker -> RowState]
    /\ wanted \in 0 .. Most
    /\ tick \in [at : {"off", "count", "spawn"}, target : 0 .. Most, spawn : 0 .. Most]
    /\ misled \in BOOLEAN

(* "keep N alive workers for provider X" (module docstring): the pool      *)
(* never runs more processes than the largest target it is given, whatever *)
(* dies, leaves or is revived and however the target is changed meanwhile. *)
(* _reconcile counts rows and not processes, so there are two ways around  *)
(* this and no third: a tick that counts while a spawned worker has not    *)
(* registered yet, and a live worker taken for dead.                       *)
WithinTarget == ~misled => Cardinality(Alive) <= Most

(* Waiting tasks get a worker, unless the pool is disabled or no worker is *)
(* left to spawn: the supervisor sees through the rows of workers that     *)
(* died (_reconcile, list_workers).                                        *)
TasksAreServed ==
    (queued > 0) ~>
        (queued = 0 \/ Up # {} \/ wanted = 0 \/ \A w \in Worker : procs[w] # "none")
==============================================================================
