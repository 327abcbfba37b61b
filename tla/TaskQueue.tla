------------------------------ MODULE TaskQueue ------------------------------
(***************************************************************************)
(* The qa_tasks / qa_plans / qa_workers tables of quality_api/queue.py and *)
(* every transaction that changes them.  One action is one SQLite          *)
(* transaction; the processes that issue them (worker loop, supervisor,    *)
(* HTTP endpoints, CLI) are left open here, so the actions interleave in   *)
(* every order.  Module WorkerLoop restricts the callers to the real loop. *)
(*                                                                         *)
(* The agent row and its judge companion are two rows of qa_tasks; only    *)
(* agent rows can be leased (kind='agent' in lease), so a judge row is     *)
(* just a state.  Time is counted in ticks: a lease carries the ticks it   *)
(* has left, a worker row the ticks since its last heartbeat.              *)
(***************************************************************************)
EXTENDS Integers, FiniteSets

CONSTANTS
    Agent,         \* ids of the agent rows that are ever inserted
    Plan,          \* ids of the plans
    NoPlan,        \* plan_id NULL: a generic task, with no judge companion
    PlanOf,        \* plan_id of each agent row
    Worker,        \* worker ids
    None,          \* lease_owner NULL
    Queue,         \* routing keys
    QueueOf,       \* queue column of each agent row
    Priority,      \* priority column of each agent row, lower is sooner
    NotBefore,     \* ticks from insertion to not_before
    MaxRetries,    \* max_retries column of each agent row
    LeaseTicks,    \* lease_seconds
    Graces,        \* the grace periods reap_stale_leases is called with
    StaleAfter,    \* stale_after_seconds of list_workers
    GcAfter        \* gc_terminal_after_seconds of list_workers

ASSUME TablesAssumption ==
    /\ NoPlan \notin Plan
    /\ PlanOf \in [Agent -> Plan \cup {NoPlan}]
    /\ None \notin Worker
    /\ QueueOf \in [Agent -> Queue]
    /\ Priority \in [Agent -> Nat]
    /\ NotBefore \in [Agent -> Nat]
    /\ MaxRetries \in [Agent -> Nat]

ASSUME TimingAssumption ==
    /\ LeaseTicks \in Nat \ {0}
    /\ Graces \subseteq Nat
    /\ StaleAfter \in Nat
    /\ GcAfter \in Nat

VARIABLES
    task,      \* agent rows: state, lease_owner, lease ticks left, retry_count, ticks to not_before
    judge,     \* state of the judge companion of each agent row
    plan,      \* state of each plan row
    worker,    \* worker rows: state and ticks since last_heartbeat
    cont       \* finish() calls whose first commit is done and the rest is not

vars == <<task, judge, plan, worker, cont>>

TaskState == {"absent", "queued", "leased", "running", "finished", "error", "cancelled"}
JudgeState == {"absent", "blocked", "queued", "finished", "cancelled"}
PlanState == {"absent", "running", "done", "cancelled"}
WorkerState == {"absent", "running", "stopped", "dead"}

Held == {"leased", "running"}
Live == {"queued", "leased", "running"}

TaskRow == [state : TaskState, owner : Worker \cup {None}, ttl : Int, retry : Nat, due : Nat]

(* A finish() between its commits: the cascade to the judge row, then the  *)
(* plan, whose rows are counted before it is closed.  by is the caller, ok *)
(* whether the agent succeeded.                                            *)
Continuation == [by : Worker, task : Agent, stage : {"cascade", "count", "close"}, ok : BOOLEAN]

Init ==
    /\ task = [a \in Agent |-> [state |-> "absent", owner |-> None, ttl |-> 0,
                                retry |-> 0, due |-> NotBefore[a]]]
    /\ judge = [a \in Agent |-> "absent"]
    /\ plan = [p \in Plan |-> "absent"]
    /\ worker = [w \in Worker |-> [state |-> "absent", age |-> 0]]
    /\ cont = {}

------------------------------------------------------------------------------
(* Row updates shared by several statements.                               *)

\* SET state=s, lease_owner=w, lease_expires_at=now + t
SetRow(row, s, w, t) ==
    [state |-> s, owner |-> w, ttl |-> t, retry |-> row.retry, due |-> row.due]

\* Mutant: lease_owner is not reset.
RequeuedWithOwner(row) == SetRow(row, "queued", row.owner, 0)

Requeued(row) == SetRow(row, "queued", None, 0)

\* Leaves lease_owner as it is; lease_expires_at is read of held rows only.
Closed(row, s) == SetRow(row, s, row.owner, 0)

Release(S) == task' = [a \in Agent |-> IF a \in S THEN Requeued(task[a]) ELSE task[a]]

HeldTasks == {a \in Agent : task[a].state \in Held}
TasksOf(p) == {a \in Agent : PlanOf[a] = p}

------------------------------------------------------------------------------
(* Plans: create() and create_anonymous() insert the plan row, then each   *)
(* agent row and its judge row, in a transaction each.                     *)

CreatePlan(p) ==
    /\ plan[p] = "absent"
    /\ plan' = [plan EXCEPT ![p] = "running"]
    /\ UNCHANGED <<task, judge, worker, cont>>

FanOutReady(a) ==
    PlanOf[a] \in Plan =>
        /\ plan[PlanOf[a]] # "absent"
        /\ \A b \in TasksOf(PlanOf[a]) : task[b].state # "absent" => judge[b] # "absent"

EnqueueAgent(a) ==
    /\ task[a].state = "absent"
    /\ FanOutReady(a)
    /\ task' = [task EXCEPT ![a].state = "queued"]
    /\ UNCHANGED <<judge, plan, worker, cont>>

EnqueueJudge(a) ==
    /\ PlanOf[a] \in Plan
    /\ task[a].state # "absent"
    /\ judge[a] = "absent"
    /\ judge' = [judge EXCEPT ![a] = "blocked"]
    /\ UNCHANGED <<task, plan, worker, cont>>

------------------------------------------------------------------------------
(* lease / heartbeat / finish                                              *)

\* Mutant: WHERE state IN ('queued','leased').
EligibleHeld(q) ==
    {a \in Agent : task[a].state \in {"queued", "leased"} /\ QueueOf[a] = q /\ task[a].due = 0}

Eligible(q) == {a \in Agent : task[a].state = "queued" /\ QueueOf[a] = q /\ task[a].due = 0}

Lease(w, q, a) ==
    /\ a \in Eligible(q)
    /\ \A b \in Eligible(q) : Priority[a] <= Priority[b]
    /\ task' = [task EXCEPT ![a] = SetRow(task[a], "leased", w, LeaseTicks)]
    /\ UNCHANGED <<judge, plan, worker, cont>>

\* Mutant: the WHERE clause without its state test.
HeartbeatAnyState(w, a) == task[a].owner = w

\* The guard is the WHERE clause; a caller whose guard is false gets False back.
HeartbeatOk(w, a) == task[a].owner = w /\ task[a].state \in Held

\* Mutant: the lease is marked running, not renewed.
HeartbeatWithoutRenewal(w, a) ==
    /\ HeartbeatOk(w, a)
    /\ task' = [task EXCEPT ![a] = SetRow(task[a], "running", w, task[a].ttl)]
    /\ UNCHANGED <<judge, plan, worker, cont>>

Heartbeat(w, a) ==
    /\ HeartbeatOk(w, a)
    /\ task' = [task EXCEPT ![a] = SetRow(task[a], "running", w, LeaseTicks)]
    /\ UNCHANGED <<judge, plan, worker, cont>>

\* What the caller reports: a success, an error of a RETRYABLE class, any other error.
Outcome == {"finished", "transient", "fatal", "cancelled"}

\* Neither branch of finish() looks at the state of the row, only at its owner: a row
\* that changes hands between its SELECT and its UPDATE is not touched.  A caller is in
\* one finish() at a time.
FinishOk(w, a) ==
    /\ task[a].owner = w
    /\ \A c \in cont : c.by # w

Retries(a, out) == out = "transient" /\ task[a].retry < MaxRetries[a]

\* Mutant: retry_count is not incremented.
FinishRetryUncounted(w, a, out) ==
    /\ FinishOk(w, a)
    /\ Retries(a, out)
    /\ task' = [task EXCEPT ![a] = Requeued(task[a])]
    /\ UNCHANGED <<judge, plan, worker, cont>>

FinishRetry(w, a, out) ==
    /\ FinishOk(w, a)
    /\ Retries(a, out)
    /\ task' = [task EXCEPT ![a] = [Requeued(task[a]) EXCEPT !.retry = task[a].retry + 1]]
    /\ UNCHANGED <<judge, plan, worker, cont>>

\* Mutant: the outcome is written as it was reported.
TerminalAsReported(out) == out

Terminal(out) == IF out \in {"transient", "fatal"} THEN "error" ELSE out

FinishTerminal(w, a, out) ==
    /\ FinishOk(w, a)
    /\ ~Retries(a, out)
    /\ task' = [task EXCEPT ![a] = Closed(task[a], Terminal(out))]
    /\ cont' = cont \cup {[by |-> w, task |-> a, stage |-> "cascade", ok |-> out = "finished"]}
    /\ UNCHANGED <<judge, plan, worker>>

\* Mutant: the companion is finished whatever the outcome.
CascadeJudgeFinished(c) ==
    /\ c \in cont
    /\ c.stage = "cascade"
    /\ judge' = IF judge[c.task] \in {"blocked", "queued"}
                THEN [judge EXCEPT ![c.task] = "finished"] ELSE judge
    /\ cont' = (cont \ {c}) \cup (IF PlanOf[c.task] \in Plan
                                  THEN {[c EXCEPT !.stage = "count"]} ELSE {})
    /\ UNCHANGED <<task, plan, worker>>

\* Second commit of finish(): the companion takes over the outcome.
CascadeJudge(c) ==
    /\ c \in cont
    /\ c.stage = "cascade"
    /\ judge' = IF judge[c.task] \in {"blocked", "queued"}
                THEN [judge EXCEPT ![c.task] = IF c.ok THEN "finished" ELSE "cancelled"]
                ELSE judge
    /\ cont' = (cont \ {c}) \cup (IF PlanOf[c.task] \in Plan
                                  THEN {[c EXCEPT !.stage = "count"]} ELSE {})
    /\ UNCHANGED <<task, plan, worker>>

\* Mutant: leased and running rows are not counted.
PendingQueued(p) == {a \in TasksOf(p) : task[a].state = "queued" \/ judge[a] = "queued"}

\* Rows _maybe_finish_plan() counts; a judge row counts when a manual retry queued it.
Pending(p) == {a \in TasksOf(p) : task[a].state \in Live \/ judge[a] = "queued"}

\* Mutant: the plan is looked at after a success only.
CountPlanOnSuccess(c) ==
    /\ c \in cont
    /\ c.stage = "count"
    /\ cont' = (cont \ {c}) \cup
                (IF c.ok /\ plan[PlanOf[c.task]] = "running" /\ Pending(PlanOf[c.task]) = {}
                 THEN {[c EXCEPT !.stage = "close"]} ELSE {})
    /\ UNCHANGED <<task, judge, plan, worker>>

\* _maybe_finish_plan() reads the plan and counts its rows outside of any transaction.
CountPlan(c) ==
    /\ c \in cont
    /\ c.stage = "count"
    /\ cont' = (cont \ {c}) \cup
                (IF plan[PlanOf[c.task]] = "running" /\ Pending(PlanOf[c.task]) = {}
                 THEN {[c EXCEPT !.stage = "close"]} ELSE {})
    /\ UNCHANGED <<task, judge, plan, worker>>

ClosePlan(c) ==
    /\ c \in cont
    /\ c.stage = "close"
    /\ plan' = IF plan[PlanOf[c.task]] = "running"
               THEN [plan EXCEPT ![PlanOf[c.task]] = "done"] ELSE plan
    /\ cont' = cont \ {c}
    /\ UNCHANGED <<task, judge, worker>>

\* The process dies between two commits of finish().
LoseContinuation(c) ==
    /\ c \in cont
    /\ cont' = cont \ {c}
    /\ UNCHANGED <<task, judge, plan, worker>>

------------------------------------------------------------------------------
(* Admin operations                                                        *)

CancelTask(a) ==
    /\ task[a].state \in Live
    /\ task' = [task EXCEPT ![a] = Closed(task[a], "cancelled")]
    /\ UNCHANGED <<judge, plan, worker, cont>>

CancelJudge(a) ==
    /\ judge[a] = "queued"
    /\ judge' = [judge EXCEPT ![a] = "cancelled"]
    /\ UNCHANGED <<task, plan, worker, cont>>

\* PlanStore.cancel: the plan row unconditionally, then its open rows.
CancelPlan(p) ==
    /\ plan[p] # "absent"
    /\ plan' = [plan EXCEPT ![p] = "cancelled"]
    /\ task' = [a \in Agent |-> IF PlanOf[a] = p /\ task[a].state \in Live
                                THEN Closed(task[a], "cancelled") ELSE task[a]]
    /\ judge' = [a \in Agent |-> IF PlanOf[a] = p /\ judge[a] \in {"blocked", "queued"}
                                 THEN "cancelled" ELSE judge[a]]
    /\ UNCHANGED <<worker, cont>>

\* POST /tasks/{id}/retry.  A queued row is left alone, but the test and the UPDATE
\* are two statements: the row may have been queued in between.
RetryTask(a) ==
    /\ task[a].state # "absent"
    /\ task' = [task EXCEPT ![a] = [Requeued(task[a]) EXCEPT !.retry = 0]]
    /\ UNCHANGED <<judge, plan, worker, cont>>

RetryJudge(a) ==
    /\ judge[a] \notin {"absent", "queued"}
    /\ judge' = [judge EXCEPT ![a] = "queued"]
    /\ UNCHANGED <<task, plan, worker, cont>>

------------------------------------------------------------------------------
(* Reapers                                                                 *)

ForceReleaseAll ==
    /\ HeldTasks # {}
    /\ Release(HeldTasks)
    /\ UNCHANGED <<judge, plan, worker, cont>>

\* Mutant: WHERE state='leased' only.
ExpiredLeased(g) == {a \in Agent : task[a].state = "leased" /\ task[a].ttl < -g}

Expired(g) == {a \in HeldTasks : task[a].ttl < -g}

Reap(g) ==
    /\ Expired(g) # {}
    /\ Release(Expired(g))
    /\ UNCHANGED <<judge, plan, worker, cont>>

------------------------------------------------------------------------------
(* Worker rows                                                             *)

\* INSERT OR REPLACE
RegisterWorker(w) ==
    /\ worker' = [worker EXCEPT ![w] = [state |-> "running", age |-> 0]]
    /\ UNCHANGED <<task, judge, plan, cont>>

\* Revives a stopped or dead row; a row that was deleted stays deleted.
WorkerHeartbeat(w) ==
    /\ worker[w].state # "absent"
    /\ worker' = [worker EXCEPT ![w] = [state |-> "running", age |-> 0]]
    /\ UNCHANGED <<task, judge, plan, cont>>

StopWorker(w) ==
    /\ worker[w].state # "absent"
    /\ worker' = [worker EXCEPT ![w] = [state |-> "stopped", age |-> 0]]
    /\ UNCHANGED <<task, judge, plan, cont>>

Stale == {w \in Worker : worker[w].state = "running" /\ worker[w].age > StaleAfter}

NoRow == [state |-> "absent", age |-> 0]

\* One self-healing pass of list_workers.  fresh is the set of owners whose current
\* run emitted a trace event within the stale window.
ListWorkers(fresh) ==
    LET bumped == Stale \cap fresh
        dead == Stale \ bumped
        gone == dead \cup {w \in Worker : worker[w].state \in {"dead", "stopped"}}
        Row(w) == IF w \in bumped THEN [worker[w] EXCEPT !.age = 0]
                  ELSE IF w \in gone /\ worker[w].age > GcAfter THEN NoRow
                  ELSE IF w \in dead THEN [worker[w] EXCEPT !.state = "dead"]
                  ELSE worker[w]
    IN  /\ fresh \subseteq {task[a].owner : a \in HeldTasks}
        /\ worker' = [w \in Worker |-> Row(w)]
        /\ Release({a \in HeldTasks : task[a].owner \in gone})
        /\ UNCHANGED <<judge, plan, cont>>

\* POST /workers/cleanup-dead; the tasks of the deleted workers are not released.
CleanupDead ==
    /\ worker' = [w \in Worker |->
                    IF \/ worker[w].state \in {"dead", "stopped"}
                       \/ worker[w].state = "running" /\ worker[w].age > GcAfter
                    THEN NoRow ELSE worker[w]]
    /\ UNCHANGED <<task, judge, plan, cont>>

------------------------------------------------------------------------------
(* Time.  Counters stop where no comparison can tell them apart any more:  *)
(* a lease past the longest grace, a heartbeat past both cut-offs.         *)

MaxAge == (IF StaleAfter > GcAfter THEN StaleAfter ELSE GcAfter) + 1
Floor(t) == \A g \in Graces : t < -g

NextTtl(row) == IF row.state \in Held /\ ~Floor(row.ttl) THEN row.ttl - 1 ELSE row.ttl
NextDue(row) == IF row.state # "absent" /\ row.due > 0 THEN row.due - 1 ELSE row.due

Tick ==
    /\ task' = [a \in Agent |-> [state |-> task[a].state, owner |-> task[a].owner,
                                  ttl |-> NextTtl(task[a]), retry |-> task[a].retry,
                                  due |-> NextDue(task[a])]]
    /\ worker' = [w \in Worker |->
                    [worker[w] EXCEPT
                       !.age = IF worker[w].state # "absent" /\ @ < MaxAge THEN @ + 1 ELSE @]]
    /\ UNCHANGED <<judge, plan, cont>>

------------------------------------------------------------------------------
PlanNext ==
    \/ \E p \in Plan : CreatePlan(p) \/ CancelPlan(p)
    \/ \E a \in Agent : EnqueueAgent(a) \/ EnqueueJudge(a)

FinishNext ==
    \/ \E w \in Worker, a \in Agent, out \in Outcome :
          FinishRetry(w, a, out) \/ FinishTerminal(w, a, out)
    \/ \E c \in cont : CascadeJudge(c) \/ CountPlan(c) \/ ClosePlan(c) \/ LoseContinuation(c)

LeaseNext ==
    \/ \E w \in Worker, q \in Queue, a \in Agent : Lease(w, q, a)
    \/ \E w \in Worker, a \in Agent : Heartbeat(w, a)

AdminNext ==
    \/ \E a \in Agent : CancelTask(a) \/ CancelJudge(a) \/ RetryTask(a) \/ RetryJudge(a)
    \/ ForceReleaseAll
    \/ \E g \in Graces : Reap(g)

WorkerNext ==
    \/ \E w \in Worker : RegisterWorker(w) \/ WorkerHeartbeat(w) \/ StopWorker(w)
    \/ \E fresh \in SUBSET Worker : ListWorkers(fresh)
    \/ CleanupDead

Next == PlanNext \/ LeaseNext \/ FinishNext \/ AdminNext \/ WorkerNext \/ Tick

Spec == Init /\ [][Next]_vars

------------------------------------------------------------------------------
(* The rows keep their types. *)
TypeOK ==
    /\ task \in [Agent -> TaskRow]
    /\ judge \in [Agent -> JudgeState]
    /\ plan \in [Plan -> PlanState]
    /\ worker \in [Worker -> [state : WorkerState, age : Nat]]
    /\ cont \subseteq Continuation

(* A row has an owner exactly when somebody answers for it: none while it  *)
(* waits, a worker while it is held or closed by a worker's report.  Every *)
(* UPDATE of lease(), heartbeat(), finish(), the reapers and retry has to  *)
(* keep the two columns in step, or a queued row could be finished by a    *)
(* worker that lost it.                                                    *)
OwnerMatchesState ==
    \A a \in Agent :
        /\ task[a].state \in {"absent", "queued"} => task[a].owner = None
        /\ task[a].state \in {"leased", "running", "finished", "error"} => task[a].owner \in Worker

------------------------------------------------------------------------------
(* The tables implement the ownership lock of TaskOwnership.  A worker's   *)
(* report is on record from the finish() that closes the row until the row *)
(* is queued again or cancelled.                                           *)

OwnerColumn == [a \in Agent |-> task[a].owner]

ReportColumn ==
    [a \in Agent |-> IF task[a].state \in {"finished", "error"} THEN task[a].owner ELSE None]

Ownership == INSTANCE TaskOwnership WITH owner <- OwnerColumn, done <- ReportColumn

(* Whatever the order of leases, reports, reapers, cancellations and       *)
(* retries: a row changes hands only through the queue, and every report   *)
(* on record was made by the worker that owned the row at that moment      *)
(* (lease / finish / reap_stale_leases / list_workers of queue.py).        *)
OwnershipSpec == Ownership!OwnSpec
==============================================================================
