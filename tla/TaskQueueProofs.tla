--------------------------- MODULE TaskQueueProofs ---------------------------
(***************************************************************************)
(* Proofs about the tables of TaskQueue, for every set of rows, plans and  *)
(* workers and every timing: the type invariant, that the owner and the    *)
(* state of a row stay in step, and that the tables implement the          *)
(* ownership lock of TaskOwnership.                                        *)
(***************************************************************************)
EXTENDS TaskQueue, TLAPS

(* What the row updates do to the state and owner columns.                 *)
LEMMA Columns ==
    /\ \A row : Requeued(row).owner = None /\ Requeued(row).state = "queued"
    /\ \A row, s : Closed(row, s).owner = row.owner /\ Closed(row, s).state = s
    /\ \A row, s, w, t : SetRow(row, s, w, t).owner = w /\ SetRow(row, s, w, t).state = s
  BY DEF Requeued, Closed, SetRow

(* The row updates keep a row a row (finish, cancel and the reapers).      *)
LEMMA RowUpdates ==
    ASSUME NEW row \in TaskRow, NEW s \in TaskState
    PROVE  /\ Requeued(row) \in TaskRow
           /\ Closed(row, s) \in TaskRow
  BY DEF TaskRow, TaskState, SetRow, Requeued, Closed

(* A release of several rows, as the reapers do it, keeps the types.       *)
LEMMA ReleaseType ==
    ASSUME TypeOK, NEW STATE S, Release(S)
    PROVE  task' \in [Agent -> TaskRow]
  <1>1. \A a \in Agent : Requeued(task[a]) \in TaskRow
    BY RowUpdates DEF TypeOK, TaskState
  <1>2. QED BY <1>1 DEF TypeOK, Release

(* The initial tables have their types.                                    *)
LEMMA TypeInit == Init => TypeOK
  <1> USE TablesAssumption
  <1> SUFFICES ASSUME Init PROVE TypeOK
    OBVIOUS
  <1>1. task \in [Agent -> TaskRow]
    BY DEF Init, TaskRow, TaskState
  <1>2. judge \in [Agent -> JudgeState] /\ plan \in [Plan -> PlanState]
    BY DEF Init, JudgeState, PlanState
  <1>3. worker \in [Worker -> [state : WorkerState, age : Nat]] /\ cont \subseteq Continuation
    BY DEF Init, WorkerState
  <1>4. QED BY <1>1, <1>2, <1>3 DEF TypeOK

(* Inserting plans and rows keeps the types.                               *)
LEMMA TypePlan == TypeOK /\ PlanNext => TypeOK'
  <1> SUFFICES ASSUME TypeOK, PlanNext PROVE TypeOK'
    OBVIOUS
  <1>1. ASSUME NEW p \in Plan, CreatePlan(p) PROVE TypeOK'
    BY <1>1 DEF TypeOK, CreatePlan, PlanState
  <1>2. ASSUME NEW p \in Plan, CancelPlan(p) PROVE TypeOK'
    <2>1. task' \in [Agent -> TaskRow]
      BY <1>2, RowUpdates DEF TypeOK, CancelPlan, TaskState
    <2>2. judge' \in [Agent -> JudgeState] /\ plan' \in [Plan -> PlanState]
      BY <1>2 DEF TypeOK, CancelPlan, JudgeState, PlanState
    <2>3. QED BY <1>2, <2>1, <2>2 DEF TypeOK, CancelPlan
  <1>3. ASSUME NEW a \in Agent, EnqueueAgent(a) PROVE TypeOK'
    BY <1>3 DEF TypeOK, EnqueueAgent, TaskRow, TaskState
  <1>4. ASSUME NEW a \in Agent, EnqueueJudge(a) PROVE TypeOK'
    BY <1>4 DEF TypeOK, EnqueueJudge, JudgeState
  <1>5. QED BY <1>1, <1>2, <1>3, <1>4 DEF PlanNext

(* Leases and heartbeats keep the types.                                   *)
LEMMA TypeLease == TypeOK /\ LeaseNext => TypeOK'
  <1> SUFFICES ASSUME TypeOK, LeaseNext PROVE TypeOK'
    OBVIOUS
  <1>1. ASSUME NEW w \in Worker, NEW q \in Queue, NEW a \in Agent, Lease(w, q, a) PROVE TypeOK'
    <2>1. SetRow(task[a], "leased", w, LeaseTicks) \in TaskRow
      BY TimingAssumption DEF TypeOK, TaskRow, TaskState, SetRow
    <2>2. QED BY <1>1, <2>1 DEF TypeOK, Lease
  <1>2. ASSUME NEW w \in Worker, NEW a \in Agent, Heartbeat(w, a) PROVE TypeOK'
    <2>1. SetRow(task[a], "running", w, LeaseTicks) \in TaskRow
      BY TimingAssumption DEF TypeOK, TaskRow, TaskState, SetRow
    <2>2. QED BY <1>2, <2>1 DEF TypeOK, Heartbeat
  <1>3. QED BY <1>1, <1>2 DEF LeaseNext

(* The commits of finish() keep the types.                                 *)
LEMMA TypeFinish == TypeOK /\ FinishNext => TypeOK'
  <1> SUFFICES ASSUME TypeOK, FinishNext PROVE TypeOK'
    OBVIOUS
  <1>1. ASSUME NEW w \in Worker, NEW a \in Agent, NEW out \in Outcome, FinishRetry(w, a, out)
        PROVE  TypeOK'
    <2>1. [Requeued(task[a]) EXCEPT !.retry = task[a].retry + 1] \in TaskRow
      BY DEF TypeOK, TaskRow, TaskState, SetRow, Requeued
    <2>2. QED BY <1>1, <2>1 DEF TypeOK, FinishRetry
  <1>2. ASSUME NEW w \in Worker, NEW a \in Agent, NEW out \in Outcome, FinishTerminal(w, a, out)
        PROVE  TypeOK'
    <2>1. Closed(task[a], Terminal(out)) \in TaskRow
      BY RowUpdates DEF TypeOK, Terminal, Outcome, TaskState
    <2>2. [by |-> w, task |-> a, stage |-> "cascade", ok |-> out = "finished"] \in Continuation
      BY DEF Continuation
    <2>3. QED BY <1>2, <2>1, <2>2 DEF TypeOK, FinishTerminal
  <1>3. ASSUME NEW c \in cont, CascadeJudge(c) PROVE TypeOK'
    <2>1. c \in Continuation
      BY DEF TypeOK
    <2>2. judge' \in [Agent -> JudgeState]
      BY <1>3, <2>1 DEF TypeOK, CascadeJudge, JudgeState, Continuation
    <2>3. [c EXCEPT !.stage = "count"] \in Continuation
      BY <2>1 DEF Continuation
    <2>4. QED BY <1>3, <2>2, <2>3 DEF TypeOK, CascadeJudge
  <1>4. ASSUME NEW c \in cont, CountPlan(c) PROVE TypeOK'
    <2>1. [c EXCEPT !.stage = "close"] \in Continuation
      BY DEF TypeOK, Continuation
    <2>2. QED BY <1>4, <2>1 DEF TypeOK, CountPlan
  <1>5. ASSUME NEW c \in cont, ClosePlan(c) PROVE TypeOK'
    BY <1>5 DEF TypeOK, ClosePlan, PlanState
  <1>6. ASSUME NEW c \in cont, LoseContinuation(c) PROVE TypeOK'
    BY <1>6 DEF TypeOK, LoseContinuation
  <1>7. QED BY <1>1, <1>2, <1>3, <1>4, <1>5, <1>6 DEF FinishNext

(* The operators' statements and the reapers keep the types.               *)
LEMMA TypeAdmin == TypeOK /\ AdminNext => TypeOK'
  <1> SUFFICES ASSUME TypeOK, AdminNext PROVE TypeOK'
    OBVIOUS
  <1>1. ASSUME NEW a \in Agent, CancelTask(a) PROVE TypeOK'
    BY <1>1, RowUpdates DEF TypeOK, CancelTask, TaskState
  <1>2. ASSUME NEW a \in Agent, CancelJudge(a) PROVE TypeOK'
    BY <1>2 DEF TypeOK, CancelJudge, JudgeState
  <1>3. ASSUME NEW a \in Agent, RetryTask(a) PROVE TypeOK'
    <2>1. [Requeued(task[a]) EXCEPT !.retry = 0] \in TaskRow
      BY DEF TypeOK, TaskRow, TaskState, SetRow, Requeued
    <2>2. QED BY <1>3, <2>1 DEF TypeOK, RetryTask
  <1>4. ASSUME NEW a \in Agent, RetryJudge(a) PROVE TypeOK'
    BY <1>4 DEF TypeOK, RetryJudge, JudgeState
  <1>5. CASE ForceReleaseAll
    BY <1>5, ReleaseType DEF TypeOK, ForceReleaseAll
  <1>6. ASSUME NEW g \in Graces, Reap(g) PROVE TypeOK'
    BY <1>6, ReleaseType DEF TypeOK, Reap
  <1>7. QED BY <1>1, <1>2, <1>3, <1>4, <1>5, <1>6 DEF AdminNext

(* The worker rows keep their types.                                       *)
LEMMA TypeWorker == TypeOK /\ WorkerNext => TypeOK'
  <1> SUFFICES ASSUME TypeOK, WorkerNext PROVE TypeOK'
    OBVIOUS
  <1>1. ASSUME NEW w \in Worker, RegisterWorker(w) \/ WorkerHeartbeat(w) \/ StopWorker(w)
        PROVE  TypeOK'
    BY <1>1 DEF TypeOK, RegisterWorker, WorkerHeartbeat, StopWorker, WorkerState
  <1>2. ASSUME NEW fresh \in SUBSET Worker, ListWorkers(fresh) PROVE TypeOK'
    <2>1. task' \in [Agent -> TaskRow]
      BY <1>2, ReleaseType DEF ListWorkers
    <2>2. worker' \in [Worker -> [state : WorkerState, age : Nat]]
      BY <1>2 DEF TypeOK, ListWorkers, NoRow, WorkerState
    <2>3. QED BY <1>2, <2>1, <2>2 DEF TypeOK, ListWorkers
  <1>3. CASE CleanupDead
    BY <1>3 DEF TypeOK, CleanupDead, NoRow, WorkerState
  <1>4. QED BY <1>1, <1>2, <1>3 DEF WorkerNext

(* Time keeps the types.                                                   *)
LEMMA TypeTick == TypeOK /\ Tick => TypeOK'
  <1> SUFFICES ASSUME TypeOK, Tick PROVE TypeOK'
    OBVIOUS
  <1>1. task' \in [Agent -> TaskRow]
    <2>1. ASSUME NEW a \in Agent
          PROVE  NextTtl(task[a]) \in Int /\ NextDue(task[a]) \in Nat
      BY DEF TypeOK, TaskRow, NextTtl, NextDue
    <2>2. ASSUME NEW a \in Agent
          PROVE  [state |-> task[a].state, owner |-> task[a].owner, ttl |-> NextTtl(task[a]),
                  retry |-> task[a].retry, due |-> NextDue(task[a])] \in TaskRow
      BY <2>1 DEF TypeOK, TaskRow
    <2>3. QED BY <2>2 DEF Tick
  <1>2. worker' \in [Worker -> [state : WorkerState, age : Nat]]
    BY DEF TypeOK, Tick
  <1>3. QED BY <1>1, <1>2 DEF TypeOK, Tick

(* The types hold in every reachable state of the tables.                  *)
THEOREM TypeCorrect == Spec => []TypeOK
  <1>1. TypeOK /\ [Next]_vars => TypeOK'
    <2> SUFFICES ASSUME TypeOK, [Next]_vars PROVE TypeOK'
      OBVIOUS
    <2>1. CASE UNCHANGED vars
      BY <2>1 DEF TypeOK, vars
    <2>2. QED
      BY <2>1, TypePlan, TypeLease, TypeFinish, TypeAdmin, TypeWorker, TypeTick DEF Next
  <1>2. QED BY <1>1, TypeInit, PTL DEF Spec

------------------------------------------------------------------------------
(* A release leaves every row it touches queued and without an owner.      *)
LEMMA ReleaseOwner ==
    ASSUME OwnerMatchesState, NEW STATE S, Release(S)
    PROVE  OwnerMatchesState'
  BY DEF OwnerMatchesState, Release, Requeued, SetRow

(* Every commit keeps the owner column in step with the state column.      *)
LEMMA OwnerStep == TypeOK /\ OwnerMatchesState /\ [Next]_vars => OwnerMatchesState'
  <1> SUFFICES ASSUME TypeOK, OwnerMatchesState, [Next]_vars PROVE OwnerMatchesState'
    OBVIOUS
  <1>1. ASSUME UNCHANGED task PROVE OwnerMatchesState'
    BY <1>1 DEF OwnerMatchesState
  <1>2. CASE PlanNext
    <2>1. ASSUME NEW p \in Plan, CancelPlan(p) PROVE OwnerMatchesState'
      BY <2>1 DEF CancelPlan, OwnerMatchesState, Closed, SetRow
    <2>2. ASSUME NEW a \in Agent, EnqueueAgent(a) PROVE OwnerMatchesState'
      BY <2>2 DEF EnqueueAgent, OwnerMatchesState, TypeOK, TaskRow
    <2>3. QED BY <1>1, <1>2, <2>1, <2>2 DEF PlanNext, CreatePlan, EnqueueJudge
  <1>3. CASE LeaseNext
    <2>1. ASSUME NEW w \in Worker, NEW q \in Queue, NEW a \in Agent, Lease(w, q, a)
          PROVE  OwnerMatchesState'
      BY <2>1 DEF Lease, OwnerMatchesState, TypeOK, SetRow
    <2>2. ASSUME NEW w \in Worker, NEW a \in Agent, Heartbeat(w, a) PROVE OwnerMatchesState'
      BY <2>2 DEF Heartbeat, OwnerMatchesState, TypeOK, SetRow
    <2>3. QED BY <1>3, <2>1, <2>2 DEF LeaseNext
  <1>4. CASE FinishNext
    <2>1. ASSUME NEW w \in Worker, NEW a \in Agent, NEW out \in Outcome, FinishRetry(w, a, out)
          PROVE  OwnerMatchesState'
      BY <2>1 DEF FinishRetry, OwnerMatchesState, TypeOK, Requeued, SetRow
    <2>2. ASSUME NEW w \in Worker, NEW a \in Agent, NEW out \in Outcome, FinishTerminal(w, a, out)
          PROVE  OwnerMatchesState'
      BY <2>2 DEF FinishTerminal, FinishOk, Terminal, Outcome, OwnerMatchesState, TypeOK,
                  Closed, SetRow
    <2>3. QED BY <1>1, <1>4, <2>1, <2>2 DEF FinishNext, CascadeJudge, CountPlan, ClosePlan,
                                                     LoseContinuation
  <1>5. CASE AdminNext
    <2>1. ASSUME NEW a \in Agent, CancelTask(a) PROVE OwnerMatchesState'
      BY <2>1 DEF CancelTask, OwnerMatchesState, TypeOK, Closed, SetRow
    <2>2. ASSUME NEW a \in Agent, RetryTask(a) PROVE OwnerMatchesState'
      BY <2>2 DEF RetryTask, OwnerMatchesState, TypeOK, Requeued, SetRow
    <2>3. ASSUME ForceReleaseAll \/ \E g \in Graces : Reap(g) PROVE OwnerMatchesState'
      BY <2>3, ReleaseOwner DEF ForceReleaseAll, Reap
    <2>4. QED BY <1>1, <1>5, <2>1, <2>2, <2>3 DEF AdminNext, CancelJudge, RetryJudge
  <1>6. CASE WorkerNext
    <2>1. ASSUME NEW fresh \in SUBSET Worker, ListWorkers(fresh) PROVE OwnerMatchesState'
      BY <2>1, ReleaseOwner DEF ListWorkers
    <2>2. QED BY <1>1, <1>6, <2>1
            DEF WorkerNext, RegisterWorker, WorkerHeartbeat, StopWorker, CleanupDead
  <1>7. CASE Tick
    BY <1>7 DEF Tick, OwnerMatchesState
  <1>8. CASE UNCHANGED vars
    BY <1>1, <1>8 DEF vars
  <1>9. QED BY <1>2, <1>3, <1>4, <1>5, <1>6, <1>7, <1>8 DEF Next

(* Owner and state of a row stay in step, in every interleaving of workers, *)
(* reapers and operators.                                                  *)
THEOREM OwnerCorrect == Spec => []OwnerMatchesState
  <1>1. Init => OwnerMatchesState
    BY DEF Init, OwnerMatchesState
  <1>2. QED BY <1>1, OwnerStep, TypeCorrect, PTL DEF Spec

(***************************************************************************)
(* The ownership lock.                                                     *)
(***************************************************************************)
Reported == {"finished", "error"}

(* Statements that leave the rows alone, and those that renew a lease, are *)
(* stutters of the lock.                                                   *)
LEMMA Unmoved ==
    ASSUME \A a \in Agent : /\ task'[a].owner = task[a].owner
                            /\ task'[a].state \in Reported <=> task[a].state \in Reported
    PROVE  UNCHANGED Ownership!ownVars
  <1>1. OwnerColumn' = OwnerColumn
    BY DEF OwnerColumn
  <1>2. ReportColumn' = ReportColumn
    BY DEF ReportColumn, Reported
  <1>3. QED BY <1>1, <1>2 DEF Ownership!ownVars

(* A release gives up the rows it touches.                                 *)
LEMMA ReleaseGivesUp ==
    ASSUME NEW STATE S, S \in SUBSET Agent, Release(S)
    PROVE  Ownership!OwnNext
  <1>1. \A a \in Agent :
            /\ task'[a].owner = IF a \in S THEN None ELSE task[a].owner
            /\ task'[a].state = IF a \in S THEN "queued" ELSE task[a].state
    BY Columns DEF Release
  <1>2. OwnerColumn' = [a \in Agent |-> IF a \in S THEN None ELSE OwnerColumn[a]]
    BY <1>1 DEF OwnerColumn
  <1>3. ReportColumn' = [a \in Agent |-> IF a \in S THEN None ELSE ReportColumn[a]]
    BY <1>1 DEF ReportColumn
  <1>4. Ownership!GiveUp(S)
    BY <1>2, <1>3 DEF Ownership!GiveUp
  <1>5. QED BY <1>4 DEF Ownership!OwnNext

(* A row that is requeued alone, with any retry count, is given up.        *)
LEMMA RequeueGivesUp ==
    ASSUME TypeOK, NEW b \in Agent, NEW r,
           task' = [task EXCEPT ![b] = [Requeued(task[b]) EXCEPT !.retry = r]]
    PROVE  Ownership!OwnNext
  <1>1. \A a \in Agent : task'[a] = IF a = b THEN [Requeued(task[b]) EXCEPT !.retry = r] ELSE task[a]
    BY DEF TypeOK
  <1>2. OwnerColumn' = [a \in Agent |-> IF a \in {b} THEN None ELSE OwnerColumn[a]]
    BY <1>1 DEF OwnerColumn, Requeued, SetRow
  <1>3. ReportColumn' = [a \in Agent |-> IF a \in {b} THEN None ELSE ReportColumn[a]]
    BY <1>1 DEF ReportColumn, Requeued, SetRow
  <1>4. Ownership!GiveUp({b})
    BY <1>2, <1>3 DEF Ownership!GiveUp
  <1>5. QED BY <1>4 DEF Ownership!OwnNext

(* Closing rows as cancelled takes their reports off the record.           *)
LEMMA CancelDiscards ==
    ASSUME NEW STATE S, S \in SUBSET Agent,
           \A a \in Agent : task'[a] = IF a \in S THEN Closed(task[a], "cancelled") ELSE task[a]
    PROVE  Ownership!OwnNext
  <1>1. \A a \in Agent :
            /\ task'[a].owner = task[a].owner
            /\ task'[a].state = IF a \in S THEN "cancelled" ELSE task[a].state
    BY Columns
  <1>2. OwnerColumn' = OwnerColumn
    BY <1>1 DEF OwnerColumn
  <1>3. ReportColumn' = [a \in Agent |-> IF a \in S THEN None ELSE ReportColumn[a]]
    BY <1>1 DEF ReportColumn
  <1>4. Ownership!Discard(S)
    BY <1>2, <1>3 DEF Ownership!Discard
  <1>5. QED BY <1>4 DEF Ownership!OwnNext

(* A lease grants a row nobody owns and nobody has reported on.            *)
LEMMA LeaseGrants ==
    ASSUME TypeOK, OwnerMatchesState,
           NEW w \in Worker, NEW q \in Queue, NEW b \in Agent, Lease(w, q, b)
    PROVE  Ownership!OwnNext
  <1>1. task[b].state = "queued" /\ task[b].owner = None
    BY DEF Lease, Eligible, OwnerMatchesState
  <1>2. \A a \in Agent : task'[a] = IF a = b THEN SetRow(task[b], "leased", w, LeaseTicks) ELSE task[a]
    BY DEF Lease, TypeOK
  <1>3. OwnerColumn[b] = None /\ ReportColumn[b] = None
    BY <1>1 DEF OwnerColumn, ReportColumn
  <1>4. \A a \in Agent :
            /\ task'[a].owner = IF a = b THEN w ELSE task[a].owner
            /\ task'[a].state = IF a = b THEN "leased" ELSE task[a].state
    BY <1>2, Columns
  <1>5. OwnerColumn' = [OwnerColumn EXCEPT ![b] = w]
    BY <1>4 DEF OwnerColumn
  <1>6. ReportColumn' = ReportColumn
    BY <1>1, <1>4 DEF ReportColumn
  <1>7. Ownership!Grant(b, w)
    BY <1>3, <1>5, <1>6 DEF Ownership!Grant
  <1>8. QED BY <1>7 DEF Ownership!OwnNext

(* A report is recorded for its owner; a row closed as cancelled by its    *)
(* owner is discarded.                                                     *)
LEMMA TerminalRecords ==
    ASSUME TypeOK, NEW w \in Worker, NEW b \in Agent, NEW out \in Outcome, FinishTerminal(w, b, out)
    PROVE  Ownership!OwnNext
  <1>1. \A a \in Agent : task'[a] = IF a = b THEN Closed(task[b], Terminal(out)) ELSE task[a]
    BY DEF FinishTerminal, TypeOK
  <1>2. task[b].owner = w
    BY DEF FinishTerminal, FinishOk
  <1>3. CASE Terminal(out) = "cancelled"
    <2>1. \A a \in Agent : task'[a] = IF a \in {b} THEN Closed(task[a], "cancelled") ELSE task[a]
      BY <1>1, <1>3
    <2>2. QED BY <2>1, CancelDiscards
  <1>4. CASE Terminal(out) \in Reported
    <2>1. \A a \in Agent :
              /\ task'[a].owner = task[a].owner
              /\ task'[a].state = IF a = b THEN Terminal(out) ELSE task[a].state
      BY <1>1, Columns
    <2>2. OwnerColumn' = OwnerColumn
      BY <2>1 DEF OwnerColumn
    <2>3. ReportColumn' = [ReportColumn EXCEPT ![b] = w]
      BY <1>2, <1>4, <2>1 DEF ReportColumn, Reported
    <2>4. Ownership!Record(b, w)
      BY <1>2, <2>2, <2>3 DEF Ownership!Record, OwnerColumn
    <2>5. QED BY <2>4 DEF Ownership!OwnNext
  <1>5. QED BY <1>3, <1>4 DEF Terminal, Outcome, Reported

------------------------------------------------------------------------------
(* Every commit maps to a step of the lock or to a stutter.                *)
LEMMA OwnershipStep ==
    TypeOK /\ OwnerMatchesState /\ [Next]_vars => [Ownership!OwnNext]_(Ownership!ownVars)
  <1> SUFFICES ASSUME TypeOK, OwnerMatchesState, [Next]_vars
               PROVE  Ownership!OwnNext \/ UNCHANGED Ownership!ownVars
    OBVIOUS
  <1>1. ASSUME UNCHANGED task PROVE UNCHANGED Ownership!ownVars
    BY <1>1, Unmoved
  <1>2. CASE PlanNext
    <2>1. ASSUME NEW p \in Plan, CancelPlan(p) PROVE Ownership!OwnNext
      <3> DEFINE S == {a \in Agent : PlanOf[a] = p /\ task[a].state \in Live}
      <3>1. \A a \in Agent : task'[a] = IF a \in S THEN Closed(task[a], "cancelled") ELSE task[a]
        BY <2>1 DEF CancelPlan
      <3> HIDE DEF S
      <3>2. S \in SUBSET Agent
        BY DEF S
      <3>3. QED BY <3>1, <3>2, CancelDiscards
    <2>2. ASSUME NEW a \in Agent, EnqueueAgent(a) PROVE UNCHANGED Ownership!ownVars
      <3>1. task[a].state = "absent" /\ task' = [task EXCEPT ![a].state = "queued"]
        BY <2>2 DEF EnqueueAgent
      <3>2. QED BY <3>1, Unmoved DEF TypeOK, TaskRow, Reported
    <2>3. QED BY <1>1, <1>2, <2>1, <2>2 DEF PlanNext, CreatePlan, EnqueueJudge
  <1>3. CASE LeaseNext
    <2>1. ASSUME NEW w \in Worker, NEW a \in Agent, Heartbeat(w, a)
          PROVE  UNCHANGED Ownership!ownVars
      <3>1. /\ task[a].owner = w /\ task[a].state \in Held
            /\ \A b \in Agent : task'[b] = IF b = a THEN SetRow(task[a], "running", w, LeaseTicks)
                                           ELSE task[b]
        BY <2>1 DEF Heartbeat, HeartbeatOk, TypeOK
      <3>2. QED BY <3>1, Unmoved DEF SetRow, Held, Reported
    <2>2. QED BY <1>3, <2>1, LeaseGrants DEF LeaseNext
  <1>4. CASE FinishNext
    <2>1. ASSUME NEW w \in Worker, NEW a \in Agent, NEW out \in Outcome, FinishRetry(w, a, out)
          PROVE  Ownership!OwnNext
      BY <2>1, RequeueGivesUp DEF FinishRetry
    <2>2. QED BY <1>1, <1>4, <2>1, TerminalRecords
            DEF FinishNext, CascadeJudge, CountPlan, ClosePlan, LoseContinuation
  <1>5. CASE AdminNext
    <2>1. ASSUME NEW a \in Agent, CancelTask(a) PROVE Ownership!OwnNext
      <3>1. \A b \in Agent : task'[b] = IF b \in {a} THEN Closed(task[b], "cancelled") ELSE task[b]
        BY <2>1 DEF CancelTask, TypeOK
      <3>2. QED BY <3>1, CancelDiscards
    <2>2. ASSUME NEW a \in Agent, RetryTask(a) PROVE Ownership!OwnNext
      BY <2>2, RequeueGivesUp DEF RetryTask
    <2>3. ASSUME ForceReleaseAll \/ \E g \in Graces : Reap(g) PROVE Ownership!OwnNext
      BY <2>3, ReleaseGivesUp DEF ForceReleaseAll, Reap, HeldTasks, Expired
    <2>4. QED BY <1>1, <1>5, <2>1, <2>2, <2>3 DEF AdminNext, CancelJudge, RetryJudge
  <1>6. CASE WorkerNext
    <2>1. ASSUME NEW fresh \in SUBSET Worker, ListWorkers(fresh) PROVE Ownership!OwnNext
      BY <2>1, ReleaseGivesUp DEF ListWorkers, HeldTasks
    <2>2. QED BY <1>1, <1>6, <2>1
            DEF WorkerNext, RegisterWorker, WorkerHeartbeat, StopWorker, CleanupDead
  <1>7. CASE Tick
    BY <1>7, Unmoved DEF Tick
  <1>8. CASE UNCHANGED vars
    BY <1>1, <1>8 DEF vars
  <1>9. QED BY <1>2, <1>3, <1>4, <1>5, <1>6, <1>7, <1>8 DEF Next

(* The queue is an ownership lock: whatever the workers, reapers and       *)
(* operators do, a row changes hands only through the queue and every      *)
(* report on record was made by the worker that owned the row.             *)
THEOREM QueueImplementsOwnership == Spec => OwnershipSpec
  <1>1. Init => Ownership!OwnInit
    BY DEF Init, Ownership!OwnInit, OwnerColumn, ReportColumn
  <1>2. QED BY <1>1, OwnershipStep, TypeCorrect, OwnerCorrect, PTL
          DEF Spec, OwnershipSpec, Ownership!OwnSpec
==============================================================================
