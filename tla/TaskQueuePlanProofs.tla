------------------------- MODULE TaskQueuePlanProofs -------------------------
(***************************************************************************)
(* Proofs about judges and the completion of plans, for every set of rows, *)
(* plans and workers, on the tables with history of TaskQueueAudit: a      *)
(* judge follows its agent, a plan that is done has no open row, and a     *)
(* running plan will be looked at again, with the exceptions the audit     *)
(* records.                                                                *)
(***************************************************************************)
EXTENDS TaskQueueAudit, TaskQueueProofs

(* The history only watches: every step of it is a step of the tables.     *)
LEMMA AuditStep == [AuditNext]_auditVars => [Next]_vars
  <1> SUFFICES ASSUME [AuditNext]_auditVars PROVE [Next]_vars
    OBVIOUS
  <1>1. CASE AuditPlan
    BY <1>1 DEF AuditPlan, Next, PlanNext
  <1>2. CASE AuditFinish
    BY <1>2 DEF AuditFinish, Next, FinishNext
  <1>3. CASE AuditAdmin
    BY <1>3 DEF AuditAdmin, Next, AdminNext
  <1>4. CASE (LeaseNext \/ WorkerNext \/ Tick) /\ UNCHANGED history
    BY <1>4 DEF Next
  <1>5. CASE UNCHANGED auditVars
    BY <1>5 DEF auditVars
  <1>6. QED BY <1>1, <1>2, <1>3, <1>4, <1>5 DEF AuditNext

(* The rows keep their types under the audit, too.                         *)
THEOREM AuditTypeCorrect == AuditSpec => []TypeOK
  <1>1. AuditSpec => Spec
    BY AuditStep, PTL DEF AuditSpec, Spec, AuditInit
  <1>2. QED BY <1>1, TypeCorrect, PTL

------------------------------------------------------------------------------
(* JudgedAgentSucceeded is not inductive: a cascade that is still to come  *)
(* must be known to stem from a success.                                   *)
CascadeFromSuccess == \A c \in cont : c.ok => c.task \in succeeded

JudgeInv == JudgedAgentSucceeded /\ CascadeFromSuccess

LEMMA JudgeStep == TypeOK /\ JudgeInv /\ [AuditNext]_auditVars => JudgeInv'
  <1> SUFFICES ASSUME TypeOK, JudgeInv, [AuditNext]_auditVars PROVE JudgeInv'
    OBVIOUS
  <1> USE DEF JudgeInv, JudgedAgentSucceeded, CascadeFromSuccess
  <1>1. ASSUME UNCHANGED <<judge, cont, succeeded>> PROVE JudgeInv'
    BY <1>1
  <1>2. CASE AuditPlan
    <2>1. ASSUME NEW p \in Plan, CancelPlan(p), UNCHANGED history PROVE JudgeInv'
      BY <2>1 DEF CancelPlan, history
    <2>2. ASSUME NEW a \in Agent, EnqueueJudge(a), UNCHANGED history PROVE JudgeInv'
      BY <2>2 DEF EnqueueJudge, history, TypeOK
    <2>3. QED BY <1>1, <1>2, <2>1, <2>2 DEF AuditPlan, CreatePlan, EnqueueAgent, history
  <1>3. CASE AuditFinish
    <2>1. ASSUME NEW w \in Worker, NEW a \in Agent, NEW out \in Outcome, FinishTerminal(w, a, out),
                 succeeded' = IF out = "finished" THEN succeeded \cup {a} ELSE succeeded
          PROVE  JudgeInv'
      <3> DEFINE new == [by |-> w, task |-> a, stage |-> "cascade", ok |-> out = "finished"]
      <3>1. new.task = a /\ (new.ok <=> out = "finished")
        OBVIOUS
      <3>2. succeeded \subseteq succeeded' /\ (out = "finished" => a \in succeeded')
        BY <2>1
      <3>3. cont' = cont \cup {new} /\ judge' = judge
        BY <2>1 DEF FinishTerminal
      <3> HIDE DEF new
      <3>4. JudgedAgentSucceeded'
        BY <3>2, <3>3
      <3>5. CascadeFromSuccess'
        BY <3>1, <3>2, <3>3
      <3>6. QED BY <3>4, <3>5
    <2>2. ASSUME NEW c \in cont, CascadeJudge(c), UNCHANGED history PROVE JudgeInv'
      <3>1. c \in Continuation
        BY DEF TypeOK
      <3>2. JudgedAgentSucceeded'
        BY <2>2, <3>1 DEF CascadeJudge, history, TypeOK, Continuation
      <3>3. [c EXCEPT !.stage = "count"].ok = c.ok /\ [c EXCEPT !.stage = "count"].task = c.task
        BY <3>1 DEF Continuation
      <3>4. CascadeFromSuccess'
        BY <2>2, <3>3 DEF CascadeJudge, history
      <3>5. QED BY <3>2, <3>4
    <2>3. ASSUME NEW c \in cont, ClosePlan(c) \/ LoseContinuation(c), UNCHANGED succeeded
          PROVE  JudgeInv'
      BY <2>3 DEF ClosePlan, LoseContinuation
    <2>4. ASSUME NEW c \in cont, CountPlan(c), UNCHANGED succeeded PROVE JudgeInv'
      <3>1. c \in Continuation
        BY DEF TypeOK
      <3>2. [c EXCEPT !.stage = "close"].ok = c.ok /\ [c EXCEPT !.stage = "close"].task = c.task
        BY <3>1 DEF Continuation
      <3>3. QED BY <2>4, <3>2 DEF CountPlan
    <2>5. QED BY <1>1, <1>3, <2>1, <2>2, <2>3, <2>4 DEF AuditFinish, FinishRetry, history
  <1>4. CASE AuditAdmin
    <2>1. ASSUME NEW a \in Agent, CancelJudge(a) \/ RetryJudge(a), UNCHANGED succeeded
          PROVE  JudgeInv'
      BY <2>1 DEF CancelJudge, RetryJudge, TypeOK
    <2>2. QED BY <1>1, <1>4, <2>1
            DEF AuditAdmin, CancelTask, RetryTask, ForceReleaseAll, Reap, history
  <1>5. CASE (LeaseNext \/ WorkerNext \/ Tick) /\ UNCHANGED history
    BY <1>1, <1>5 DEF LeaseNext, Lease, Heartbeat, WorkerNext, RegisterWorker, WorkerHeartbeat,
                      StopWorker, ListWorkers, CleanupDead, Tick, history
  <1>6. CASE UNCHANGED auditVars
    BY <1>1, <1>6 DEF auditVars, vars, history
  <1>7. QED BY <1>2, <1>3, <1>4, <1>5, <1>6 DEF AuditNext

(* A judge is marked finished only for an agent task that was reported as  *)
(* finished.                                                               *)
THEOREM JudgeCorrect == AuditSpec => []JudgedAgentSucceeded
  <1>1. AuditInit => JudgeInv
    BY DEF AuditInit, Init, JudgeInv, JudgedAgentSucceeded, CascadeFromSuccess
  <1>2. JudgeInv => JudgedAgentSucceeded
    BY DEF JudgeInv
  <1>3. QED BY <1>1, <1>2, JudgeStep, AuditTypeCorrect, PTL DEF AuditSpec

------------------------------------------------------------------------------

(* DoneMeansDrained is not inductive: between the COUNT and the UPDATE of  *)
(* _maybe_finish_plan() the plan is still running, and must already be     *)
(* known to have no open row.                                              *)
DrainedHasNoLive ==
    \A p \in Plan \ reopened :
        Drained(p) => \A a \in TasksOf(p) : task[a].state \notin Live

\* Only finish() calls for rows of a plan get to the plan.
ChecksHavePlans == \A c \in cont : c.stage # "cascade" => PlanOf[c.task] \in Plan

DrainInv == DrainedHasNoLive /\ ChecksHavePlans

(* A step keeps DrainedHasNoLive if no plan comes to be drained and a row  *)
(* that opens belongs to a plan that is not drained or is on record.       *)
LEMMA KeepDrained ==
    ASSUME DrainedHasNoLive,
           reopened \subseteq reopened',
           \A p \in Plan : Drained(p)' => Drained(p),
           \A a \in Agent : task'[a].state \in Live =>
               task[a].state \in Live \/ PlanOf[a] \in reopened' \/ ~(Drained(PlanOf[a])')
    PROVE  DrainedHasNoLive'
  <1> SUFFICES ASSUME NEW p \in Plan, p \notin reopened', Drained(p)', NEW a \in Agent, PlanOf[a] = p,
                      task'[a].state \in Live
               PROVE  FALSE
    BY DEF DrainedHasNoLive, TasksOf, Live
  <1>1. task[a].state \in Live /\ Drained(p) /\ p \notin reopened
    OBVIOUS
  <1>2. QED BY <1>1 DEF DrainedHasNoLive, TasksOf

(* A step that leaves plans and finish() calls alone and opens no row.     *)
LEMMA QuietDrained ==
    ASSUME DrainInv, UNCHANGED <<plan, cont>>, reopened \subseteq reopened',
           \A a \in Agent : task'[a].state \in Live =>
               task[a].state \in Live \/ PlanOf[a] \in reopened'
    PROVE  DrainInv'
  <1>1. \A p : Drained(p)' = Drained(p)
    BY DEF Drained
  <1>2. DrainedHasNoLive'
    BY <1>1, KeepDrained DEF DrainInv
  <1>3. QED BY <1>2 DEF DrainInv, ChecksHavePlans

------------------------------------------------------------------------------
(* Leases, heartbeats, the reapers, the worker statements and time move    *)
(* rows among the open states only.                                        *)
SameOpen(a) ==
    /\ task'[a].state \in Live <=> task[a].state \in Live
    /\ task'[a].state = "absent" <=> task[a].state = "absent"

LEMMA ReleaseKeepsOpen ==
    ASSUME NEW STATE S, S \subseteq HeldTasks, Release(S), NEW a \in Agent
    PROVE  SameOpen(a)
  <1>1. task'[a].state = IF a \in S THEN "queued" ELSE task[a].state
    BY Columns DEF Release
  <1>2. a \in S => task[a].state \in Held
    BY DEF HeldTasks
  <1>3. QED BY <1>1, <1>2 DEF SameOpen, Live, Held

Background ==
    LeaseNext \/ WorkerNext \/ Tick \/ ForceReleaseAll \/ \E g \in Graces : Reap(g)

LEMMA BackgroundKeepsOpen ==
    TypeOK /\ Background => (\A a \in Agent : SameOpen(a)) /\ UNCHANGED <<judge, plan, cont>>
  <1> SUFFICES ASSUME TypeOK, Background
               PROVE  (\A a \in Agent : SameOpen(a)) /\ UNCHANGED <<judge, plan, cont>>
    OBVIOUS
  <1>1. ASSUME UNCHANGED task PROVE \A a \in Agent : SameOpen(a)
    BY <1>1 DEF SameOpen
  <1>2. UNCHANGED <<judge, plan, cont>>
    BY DEF Background, LeaseNext, Lease, Heartbeat, WorkerNext, RegisterWorker, WorkerHeartbeat,
           StopWorker, ListWorkers, CleanupDead, Tick, ForceReleaseAll, Reap
  <1>3. CASE LeaseNext
    <2>1. ASSUME NEW w \in Worker, NEW q \in Queue, NEW b \in Agent, Lease(w, q, b), NEW a \in Agent
          PROVE  SameOpen(a)
      <3>1. task'[a].state = IF a = b THEN "leased" ELSE task[a].state
        BY <2>1, Columns DEF Lease, TypeOK
      <3>2. task[b].state = "queued"
        BY <2>1 DEF Lease, Eligible
      <3>3. QED BY <3>1, <3>2 DEF SameOpen, Live
    <2>2. ASSUME NEW w \in Worker, NEW b \in Agent, Heartbeat(w, b), NEW a \in Agent
          PROVE  SameOpen(a)
      <3>1. task'[a].state = IF a = b THEN "running" ELSE task[a].state
        BY <2>2, Columns DEF Heartbeat, TypeOK
      <3>2. task[b].state \in Held
        BY <2>2 DEF Heartbeat, HeartbeatOk
      <3>3. QED BY <3>1, <3>2 DEF SameOpen, Live, Held
    <2>3. QED BY <1>2, <1>3, <2>1, <2>2 DEF LeaseNext
  <1>4. CASE WorkerNext
    <2>1. ASSUME NEW fresh \in SUBSET Worker, ListWorkers(fresh), NEW a \in Agent PROVE SameOpen(a)
      BY <2>1, ReleaseKeepsOpen DEF ListWorkers
    <2>2. QED BY <1>1, <1>2, <1>4, <2>1
            DEF WorkerNext, RegisterWorker, WorkerHeartbeat, StopWorker, CleanupDead
  <1>5. CASE Tick
    BY <1>2, <1>5 DEF Tick, SameOpen
  <1>6. CASE ForceReleaseAll
    BY <1>2, <1>6, ReleaseKeepsOpen DEF ForceReleaseAll
  <1>7. CASE \E g \in Graces : Reap(g)
    BY <1>2, <1>7, ReleaseKeepsOpen DEF Reap, Expired
  <1>8. QED BY <1>3, <1>4, <1>5, <1>6, <1>7 DEF Background

------------------------------------------------------------------------------
(* Every step keeps the plans that are drained without an open row.        *)
LEMMA DrainPlan == TypeOK /\ DrainInv /\ AuditPlan => DrainInv'
  <1> SUFFICES ASSUME TypeOK, DrainInv, AuditPlan PROVE DrainInv'
    OBVIOUS
  <1>1. ASSUME NEW p \in Plan, CreatePlan(p), UNCHANGED history PROVE DrainInv'
    <2>1. \A q \in Plan : Drained(q)' => Drained(q)
      BY <1>1 DEF CreatePlan, Drained, TypeOK
    <2>2. QED BY <1>1, <2>1, KeepDrained DEF CreatePlan, history, DrainInv, ChecksHavePlans
  <1>2. ASSUME NEW p \in Plan, CancelPlan(p), UNCHANGED history PROVE DrainInv'
    <2>1. \A q \in Plan : Drained(q)' => Drained(q)
      BY <1>2 DEF CancelPlan, Drained, TypeOK
    <2>2. \A a \in Agent : task'[a].state \in Live => task[a].state \in Live
      BY <1>2, Columns DEF CancelPlan, Live
    <2>3. QED BY <1>2, <2>1, <2>2, KeepDrained DEF CancelPlan, history, DrainInv, ChecksHavePlans
  <1>3. ASSUME NEW a \in Agent, EnqueueJudge(a), UNCHANGED history PROVE DrainInv'
    BY <1>3, QuietDrained DEF EnqueueJudge, history
  <1>4. ASSUME NEW a \in Agent, EnqueueAgent(a),
               reopened' = reopened \cup {p \in PlanSetOf(a) : Drained(p)}
        PROVE  DrainInv'
    <2>1. \A p : Drained(p)' = Drained(p)
      BY <1>4 DEF EnqueueAgent, Drained
    <2>2. \A b \in Agent : b # a => task'[b] = task[b]
      BY <1>4 DEF EnqueueAgent, TypeOK
    <2>3. PlanOf[a] \in reopened' \/ ~Drained(PlanOf[a])' \/ PlanOf[a] \notin Plan
      BY <1>4, <2>1 DEF PlanSetOf
    <2>4. DrainedHasNoLive'
      BY <1>4, <2>1, <2>2, <2>3 DEF DrainInv, DrainedHasNoLive, TasksOf
    <2>5. QED BY <1>4, <2>4 DEF EnqueueAgent, DrainInv, ChecksHavePlans
  <1>5. QED BY <1>1, <1>2, <1>3, <1>4 DEF AuditPlan

LEMMA DrainFinish == TypeOK /\ DrainInv /\ AuditFinish => DrainInv'
  <1> SUFFICES ASSUME TypeOK, DrainInv, AuditFinish PROVE DrainInv'
    OBVIOUS
  <1>1. ASSUME NEW w \in Worker, NEW a \in Agent, NEW out \in Outcome, FinishRetry(w, a, out),
               reopened' = reopened \cup {p \in PlanSetOf(a) : task[a].state \notin Live}
        PROVE  DrainInv'
    <2>1. \A b \in Agent : b # a => task'[b] = task[b]
      BY <1>1 DEF FinishRetry, TypeOK
    <2>2. \A p : Drained(p)' = Drained(p)
      BY <1>1 DEF FinishRetry, Drained
    <2>3. task[a].state \in Live \/ PlanOf[a] \in reopened' \/ PlanOf[a] \notin Plan
      BY <1>1 DEF PlanSetOf
    <2>4. DrainedHasNoLive'
      BY <1>1, <2>1, <2>2, <2>3 DEF DrainInv, DrainedHasNoLive, TasksOf
    <2>5. QED BY <1>1, <2>4 DEF FinishRetry, DrainInv, ChecksHavePlans
  <1>2. ASSUME NEW w \in Worker, NEW a \in Agent, NEW out \in Outcome, FinishTerminal(w, a, out),
               UNCHANGED reopened
        PROVE  DrainInv'
    <2> DEFINE new == [by |-> w, task |-> a, stage |-> "cascade", ok |-> out = "finished"]
    <2>1. new.stage = "cascade"
      OBVIOUS
    <2>2. cont' = cont \cup {new} /\ plan' = plan
      BY <1>2 DEF FinishTerminal
    <2> HIDE DEF new
    <2>3. \A p \in Plan : Drained(p)' => Drained(p)
      BY <2>1, <2>2 DEF Drained
    <2>4. \A b \in Agent : task'[b].state = IF b = a THEN Terminal(out) ELSE task[b].state
      BY <1>2, Columns DEF FinishTerminal, TypeOK
    <2>5. Terminal(out) \notin Live
      BY DEF Terminal, Live, Outcome
    <2>6. DrainedHasNoLive'
      BY <1>2, <2>3, <2>4, <2>5, KeepDrained DEF DrainInv
    <2>7. QED BY <2>1, <2>2, <2>6 DEF DrainInv, ChecksHavePlans
  <1>3. ASSUME NEW c \in cont, CascadeJudge(c), UNCHANGED history PROVE DrainInv'
    <2> DEFINE next == [c EXCEPT !.stage = "count"]
    <2>1. next.stage = "count" /\ next.task = c.task
      BY DEF TypeOK, Continuation
    <2>2. /\ UNCHANGED <<task, plan, reopened>>
          /\ cont' = (cont \ {c}) \cup (IF PlanOf[c.task] \in Plan THEN {next} ELSE {})
      BY <1>3 DEF CascadeJudge, history
    <2> HIDE DEF next
    <2>3. \A p \in Plan : Drained(p)' => Drained(p)
      BY <2>1, <2>2 DEF Drained
    <2>4. DrainedHasNoLive'
      BY <2>2, <2>3, KeepDrained DEF DrainInv
    <2>5. QED BY <2>1, <2>2, <2>4 DEF DrainInv, ChecksHavePlans
  <1>4. ASSUME NEW c \in cont, CountPlan(c), UNCHANGED history PROVE DrainInv'
    <2> DEFINE next == [c EXCEPT !.stage = "close"]
               empty == plan[PlanOf[c.task]] = "running" /\ Pending(PlanOf[c.task]) = {}
    <2>1. next.stage = "close" /\ next.task = c.task
      BY DEF TypeOK, Continuation
    <2>2. /\ UNCHANGED <<task, plan, reopened>>
          /\ cont' = (cont \ {c}) \cup (IF empty THEN {next} ELSE {})
      BY <1>4 DEF CountPlan, history
    <2>3. empty => \A a \in TasksOf(PlanOf[c.task]) : task[a].state \notin Live
      BY DEF Pending
    <2>4. PlanOf[c.task] \in Plan
      BY <1>4 DEF CountPlan, DrainInv, ChecksHavePlans
    <2> HIDE DEF next, empty
    <2>5. \A p \in Plan : Drained(p)' => Drained(p) \/ (empty /\ p = PlanOf[c.task])
      BY <2>1, <2>2 DEF Drained
    <2>6. DrainedHasNoLive'
      BY <2>2, <2>3, <2>5 DEF DrainInv, DrainedHasNoLive, TasksOf
    <2>7. QED BY <2>1, <2>2, <2>4, <2>6 DEF DrainInv, ChecksHavePlans
  <1>5. ASSUME NEW c \in cont, ClosePlan(c), UNCHANGED history PROVE DrainInv'
    <2>1. PlanOf[c.task] \in Plan /\ Drained(PlanOf[c.task])
      BY <1>5 DEF ClosePlan, Drained, DrainInv, ChecksHavePlans
    <2>2. \A p \in Plan : Drained(p)' => Drained(p)
      BY <1>5, <2>1 DEF ClosePlan, Drained, TypeOK
    <2>3. DrainedHasNoLive'
      BY <1>5, <2>2, KeepDrained DEF ClosePlan, history, DrainInv
    <2>4. QED BY <1>5, <2>3 DEF ClosePlan, DrainInv, ChecksHavePlans
  <1>6. ASSUME NEW c \in cont, LoseContinuation(c), UNCHANGED reopened PROVE DrainInv'
    <2>1. \A p \in Plan : Drained(p)' => Drained(p)
      BY <1>6 DEF LoseContinuation, Drained
    <2>2. DrainedHasNoLive'
      BY <1>6, <2>1, KeepDrained DEF LoseContinuation, DrainInv
    <2>3. QED BY <1>6, <2>2 DEF LoseContinuation, DrainInv, ChecksHavePlans
  <1>7. QED BY <1>1, <1>2, <1>3, <1>4, <1>5, <1>6 DEF AuditFinish

LEMMA DrainAdmin == TypeOK /\ DrainInv /\ AuditAdmin => DrainInv'
  <1> SUFFICES ASSUME TypeOK, DrainInv, AuditAdmin PROVE DrainInv'
    OBVIOUS
  <1>1. ASSUME NEW a \in Agent, CancelTask(a), UNCHANGED reopened PROVE DrainInv'
    <2>1. \A b \in Agent : task'[b].state = IF b = a THEN "cancelled" ELSE task[b].state
      BY <1>1, Columns DEF CancelTask, TypeOK
    <2>2. QED BY <1>1, <2>1, QuietDrained DEF CancelTask, Live
  <1>2. ASSUME NEW a \in Agent, CancelJudge(a) \/ RetryJudge(a), UNCHANGED reopened PROVE DrainInv'
    BY <1>2, QuietDrained DEF CancelJudge, RetryJudge
  <1>3. ASSUME NEW a \in Agent, RetryTask(a),
               reopened' = reopened \cup {p \in PlanSetOf(a) : task[a].state \notin Live}
        PROVE  DrainInv'
    <2>1. \A b \in Agent : b # a => task'[b] = task[b]
      BY <1>3 DEF RetryTask, TypeOK
    <2>2. \A p : Drained(p)' = Drained(p)
      BY <1>3 DEF RetryTask, Drained
    <2>3. task[a].state \in Live \/ PlanOf[a] \in reopened' \/ PlanOf[a] \notin Plan
      BY <1>3 DEF PlanSetOf
    <2>4. DrainedHasNoLive'
      BY <1>3, <2>1, <2>2, <2>3 DEF DrainInv, DrainedHasNoLive, TasksOf
    <2>5. QED BY <1>3, <2>4 DEF RetryTask, DrainInv, ChecksHavePlans
  <1>4. ASSUME ForceReleaseAll \/ \E g \in Graces : Reap(g), UNCHANGED reopened PROVE DrainInv'
    BY <1>4, BackgroundKeepsOpen, QuietDrained DEF Background, SameOpen
  <1>5. QED BY <1>1, <1>2, <1>3, <1>4 DEF AuditAdmin, history

LEMMA DrainStep == TypeOK /\ DrainInv /\ [AuditNext]_auditVars => DrainInv'
  <1> SUFFICES ASSUME TypeOK, DrainInv, [AuditNext]_auditVars PROVE DrainInv'
    OBVIOUS
  <1>1. CASE (LeaseNext \/ WorkerNext \/ Tick) /\ UNCHANGED history
    BY <1>1, BackgroundKeepsOpen, QuietDrained DEF Background, SameOpen, history
  <1>2. CASE UNCHANGED auditVars
    BY <1>2, QuietDrained DEF auditVars, vars, history
  <1>3. QED BY <1>1, <1>2, DrainPlan, DrainFinish, DrainAdmin DEF AuditNext

(* A plan that is done has no open agent row, unless a row was inserted,   *)
(* retried by hand or put back by a late finish() after the rows had been  *)
(* counted.                                                                *)
THEOREM DoneCorrect == AuditSpec => []DoneMeansDrained
  <1>1. AuditInit => DrainInv
    BY DEF AuditInit, Init, DrainInv, DrainedHasNoLive, ChecksHavePlans, Drained
  <1>2. DrainInv => DoneMeansDrained
    BY DEF DrainInv, DrainedHasNoLive, DoneMeansDrained, Drained
  <1>3. QED BY <1>1, <1>2, DrainStep, AuditTypeCorrect, PTL DEF AuditSpec

------------------------------------------------------------------------------
(* RunningPlanWillSettle is inductive together with the order of the       *)
(* fan-out: no row of a plan is inserted before the plan.                  *)
WillSettle(p) == Pending(p) # {} \/ \E c \in cont : PlanOf[c.task] = p

PlanBeforeRows ==
    \A a \in Agent : PlanOf[a] \in Plan /\ plan[PlanOf[a]] = "absent" => task[a].state = "absent"

SettleInv == RunningPlanWillSettle /\ PlanBeforeRows

RowsAfterPlan ==
    \A a \in Agent : task'[a].state # "absent" =>
        \/ task[a].state # "absent"
        \/ task'[a].state \in Live /\ (PlanOf[a] \in Plan => plan[PlanOf[a]] # "absent")

PlansGoOn ==
    \A p \in Plan :
        /\ plan'[p] = "running" => plan[p] \in {"running", "absent"}
        /\ plan'[p] = "absent" => plan[p] = "absent"

(* What a step has to show: rows come after their plan, no plan starts to  *)
(* run again, and what keeps a running plan going stays or is replaced.    *)
LEMMA KeepSettle ==
    ASSUME SettleInv, unsettled \subseteq unsettled', RowsAfterPlan, PlansGoOn,
           \A p \in Plan : plan'[p] = "running" /\ p \notin unsettled' /\ WillSettle(p)
                               => WillSettle(p)'
    PROVE  SettleInv'
  <1>1. PlanBeforeRows'
    BY DEF SettleInv, PlanBeforeRows, RowsAfterPlan, PlansGoOn
  <1>2. ASSUME NEW p \in Plan, p \notin unsettled', plan'[p] = "running",
               NEW a \in Agent, PlanOf[a] = p, task'[a].state # "absent"
        PROVE  WillSettle(p)'
    <2>1. plan[p] = "running"
      BY <1>2 DEF SettleInv, PlanBeforeRows, RowsAfterPlan, PlansGoOn
    <2>2. CASE task[a].state # "absent"
      <3>1. WillSettle(p)
        BY <1>2, <2>1, <2>2 DEF SettleInv, RunningPlanWillSettle, WillSettle, TasksOf
      <3>2. QED BY <1>2, <3>1
    <2>3. CASE task'[a].state \in Live
      BY <1>2, <2>3 DEF WillSettle, Pending, TasksOf, Live
    <2>4. QED BY <1>2, <2>2, <2>3 DEF RowsAfterPlan
  <1>3. RunningPlanWillSettle'
    BY <1>2 DEF RunningPlanWillSettle, WillSettle, TasksOf
  <1>4. QED BY <1>1, <1>3 DEF SettleInv

OpenRow(a) == task[a].state \in Live \/ judge[a] = "queued"

(* Open rows and finish() calls that stay keep their plan going.           *)
LEMMA KeepGoing ==
    ASSUME NEW p \in Plan, p \notin unsettled', WillSettle(p), cont \subseteq cont',
           \A a \in Agent : OpenRow(a) =>
               OpenRow(a)' \/ PlanOf[a] \in unsettled' \/ \E c \in cont' : c.task = a
    PROVE  WillSettle(p)'
  <1>1. CASE Pending(p) # {}
    <2>1. PICK a \in Agent : PlanOf[a] = p /\ OpenRow(a)
      BY <1>1 DEF Pending, TasksOf, OpenRow
    <2>2. CASE OpenRow(a)'
      BY <2>1, <2>2 DEF WillSettle, Pending, TasksOf, OpenRow, Live
    <2>3. QED BY <2>1, <2>2 DEF WillSettle
  <1>2. CASE \E c \in cont : PlanOf[c.task] = p
    BY <1>2 DEF WillSettle
  <1>3. QED BY <1>1, <1>2 DEF WillSettle

LEMMA SettlePlanStep == TypeOK /\ SettleInv /\ AuditPlan => SettleInv'
  <1> SUFFICES ASSUME TypeOK, SettleInv, AuditPlan PROVE SettleInv'
    OBVIOUS
  <1>1. ASSUME NEW p \in Plan, CreatePlan(p), UNCHANGED history PROVE SettleInv'
    <2>1. PlansGoOn /\ RowsAfterPlan
      BY <1>1 DEF CreatePlan, PlansGoOn, RowsAfterPlan, TypeOK
    <2>2. QED BY <1>1, <2>1, KeepSettle, KeepGoing DEF CreatePlan, history, OpenRow
  <1>2. ASSUME NEW p \in Plan, CancelPlan(p), UNCHANGED history PROVE SettleInv'
    <2>1. PlansGoOn
      BY <1>2 DEF CancelPlan, PlansGoOn, TypeOK
    <2>2. \A a \in Agent :
              /\ task'[a].state # "absent" => task[a].state # "absent"
              /\ PlanOf[a] # p => task'[a] = task[a] /\ judge'[a] = judge[a]
      BY <1>2, Columns DEF CancelPlan, Live
    <2>3. \A q \in Plan : plan'[q] = "running" /\ WillSettle(q) => WillSettle(q)'
      BY <1>2, <2>2 DEF CancelPlan, WillSettle, Pending, TasksOf, TypeOK
    <2>4. QED BY <1>2, <2>1, <2>2, <2>3, KeepSettle DEF history, RowsAfterPlan
  <1>3. ASSUME NEW a \in Agent, EnqueueJudge(a), UNCHANGED history PROVE SettleInv'
    <2>1. PlansGoOn /\ RowsAfterPlan
      BY <1>3 DEF EnqueueJudge, PlansGoOn, RowsAfterPlan
    <2>2. \A b \in Agent : OpenRow(b) => OpenRow(b)'
      BY <1>3 DEF EnqueueJudge, OpenRow, TypeOK
    <2>3. QED BY <1>3, <2>1, <2>2, KeepSettle, KeepGoing DEF EnqueueJudge, history
  <1>4. ASSUME NEW a \in Agent, EnqueueAgent(a), UNCHANGED unsettled PROVE SettleInv'
    <2>1. /\ \A b \in Agent : b # a => task'[b] = task[b]
          /\ task'[a].state = "queued"
      BY <1>4 DEF EnqueueAgent, TypeOK, TaskRow
    <2>2. PlansGoOn /\ RowsAfterPlan
      BY <1>4, <2>1 DEF EnqueueAgent, FanOutReady, PlansGoOn, RowsAfterPlan, Live
    <2>3. \A b \in Agent : OpenRow(b) => OpenRow(b)'
      BY <1>4, <2>1 DEF EnqueueAgent, OpenRow, Live
    <2>4. QED BY <1>4, <2>2, <2>3, KeepSettle, KeepGoing DEF EnqueueAgent
  <1>5. QED BY <1>1, <1>2, <1>3, <1>4 DEF AuditPlan

LEMMA SettleFinish == TypeOK /\ OwnerMatchesState /\ SettleInv /\ AuditFinish => SettleInv'
  <1> SUFFICES ASSUME TypeOK, OwnerMatchesState, SettleInv, AuditFinish PROVE SettleInv'
    OBVIOUS
  <1>1. ASSUME NEW w \in Worker, NEW a \in Agent, FinishOk(w, a) PROVE task[a].state # "absent"
    BY <1>1, TablesAssumption DEF FinishOk, OwnerMatchesState
  <1>2. ASSUME NEW w \in Worker, NEW a \in Agent, NEW out \in Outcome, FinishRetry(w, a, out),
               UNCHANGED unsettled
        PROVE  SettleInv'
    <2>1. task[a].state # "absent" /\ UNCHANGED <<judge, plan, cont>>
      BY <1>1, <1>2 DEF FinishRetry
    <2>2. \A b \in Agent : task'[b].state = IF b = a THEN "queued" ELSE task[b].state
      BY <1>2 DEF FinishRetry, TypeOK, Requeued, SetRow
    <2>3. PlansGoOn /\ RowsAfterPlan
      BY <2>1, <2>2 DEF PlansGoOn, RowsAfterPlan
    <2>4. \A b \in Agent : OpenRow(b) => OpenRow(b)'
      BY <2>1, <2>2 DEF OpenRow, Live
    <2>5. QED BY <1>2, <2>1, <2>3, <2>4, KeepSettle, KeepGoing
  <1>3. ASSUME NEW w \in Worker, NEW a \in Agent, NEW out \in Outcome, FinishTerminal(w, a, out),
               UNCHANGED unsettled
        PROVE  SettleInv'
    <2> DEFINE new == [by |-> w, task |-> a, stage |-> "cascade", ok |-> out = "finished"]
    <2>1. new.task = a
      OBVIOUS
    <2>2. cont' = cont \cup {new} /\ UNCHANGED <<judge, plan>>
      BY <1>3 DEF FinishTerminal
    <2> HIDE DEF new
    <2>3. task[a].state # "absent"
      BY <1>1, <1>3 DEF FinishTerminal
    <2>4. \A b \in Agent : b # a => task'[b] = task[b]
      BY <1>3 DEF FinishTerminal, TypeOK
    <2>5. PlansGoOn /\ RowsAfterPlan
      BY <2>2, <2>3, <2>4 DEF PlansGoOn, RowsAfterPlan
    <2>6. \A b \in Agent : OpenRow(b) => OpenRow(b)' \/ \E c \in cont' : c.task = b
      BY <2>1, <2>2, <2>4 DEF OpenRow
    <2>7. QED BY <1>3, <2>2, <2>5, <2>6, KeepSettle, KeepGoing
  <1>4. ASSUME NEW c \in cont, CascadeJudge(c), UNCHANGED history PROVE SettleInv'
    <2> DEFINE next == [c EXCEPT !.stage = "count"]
    <2>1. next.task = c.task /\ c.task \in Agent
      BY DEF TypeOK, Continuation
    <2>2. /\ UNCHANGED <<task, plan, unsettled>>
          /\ cont' = (cont \ {c}) \cup (IF PlanOf[c.task] \in Plan THEN {next} ELSE {})
      BY <1>4 DEF CascadeJudge, history
    <2>3. \A b \in Agent : b # c.task => judge'[b] = judge[b]
      BY <1>4, <2>1 DEF CascadeJudge, TypeOK
    <2> HIDE DEF next
    <2>4. PlansGoOn /\ RowsAfterPlan
      BY <2>2 DEF PlansGoOn, RowsAfterPlan
    <2>5. ASSUME NEW p \in Plan, WillSettle(p) PROVE WillSettle(p)'
      <3>1. CASE PlanOf[c.task] = p
        BY <2>1, <2>2, <3>1 DEF WillSettle
      <3>2. CASE PlanOf[c.task] # p
        BY <2>2, <2>3, <2>5, <3>2 DEF WillSettle, Pending, TasksOf
      <3>3. QED BY <3>1, <3>2
    <2>6. QED BY <2>2, <2>4, <2>5, KeepSettle
  <1>5. ASSUME NEW c \in cont, CountPlan(c), UNCHANGED history PROVE SettleInv'
    <2> DEFINE next == [c EXCEPT !.stage = "close"]
               empty == plan[PlanOf[c.task]] = "running" /\ Pending(PlanOf[c.task]) = {}
    <2>1. next.task = c.task
      BY DEF TypeOK, Continuation
    <2>2. /\ UNCHANGED <<task, judge, plan, unsettled>>
          /\ cont' = (cont \ {c}) \cup (IF empty THEN {next} ELSE {})
      BY <1>5 DEF CountPlan, history
    <2>3. PlansGoOn /\ RowsAfterPlan
      BY <2>2 DEF PlansGoOn, RowsAfterPlan
    <2>4. \A p : Pending(p)' = Pending(p)
      BY <2>2 DEF Pending, TasksOf
    <2>5. ASSUME NEW p \in Plan, plan'[p] = "running", WillSettle(p) PROVE WillSettle(p)'
      <3>1. CASE PlanOf[c.task] = p
        <4>1. CASE Pending(p) = {}
          <5>1. empty
            BY <2>2, <2>5, <3>1, <4>1
          <5>2. QED BY <2>1, <2>2, <3>1, <5>1 DEF WillSettle
        <4>2. QED BY <2>4, <4>1 DEF WillSettle
      <3>2. CASE PlanOf[c.task] # p
        BY <2>2, <2>4, <2>5, <3>2 DEF WillSettle
      <3>3. QED BY <3>1, <3>2
    <2>6. QED BY <2>2, <2>3, <2>5, KeepSettle
  <1>6. ASSUME NEW c \in cont, ClosePlan(c), UNCHANGED history PROVE SettleInv'
    <2>1. PlansGoOn /\ RowsAfterPlan
      BY <1>6 DEF ClosePlan, PlansGoOn, RowsAfterPlan, TypeOK
    <2>2. \A p : Pending(p)' = Pending(p)
      BY <1>6 DEF ClosePlan, Pending, TasksOf
    <2>3. \A p \in Plan : plan'[p] = "running" => p # PlanOf[c.task]
      BY <1>6 DEF ClosePlan, TypeOK
    <2>4. \A p \in Plan : plan'[p] = "running" /\ WillSettle(p) => WillSettle(p)'
      BY <1>6, <2>2, <2>3 DEF ClosePlan, WillSettle
    <2>5. QED BY <1>6, <2>1, <2>4, KeepSettle DEF history
  <1>7. ASSUME NEW c \in cont, LoseContinuation(c), unsettled' = unsettled \cup PlanSetOf(c.task)
        PROVE  SettleInv'
    <2>1. PlansGoOn /\ RowsAfterPlan
      BY <1>7 DEF LoseContinuation, PlansGoOn, RowsAfterPlan
    <2>2. \A p : Pending(p)' = Pending(p)
      BY <1>7 DEF LoseContinuation, Pending, TasksOf
    <2>3. \A p \in Plan : p \notin unsettled' => p # PlanOf[c.task]
      BY <1>7 DEF PlanSetOf
    <2>4. \A p \in Plan : p \notin unsettled' /\ WillSettle(p) => WillSettle(p)'
      BY <1>7, <2>2, <2>3 DEF LoseContinuation, WillSettle
    <2>5. QED BY <1>7, <2>1, <2>4, KeepSettle
  <1>8. QED BY <1>2, <1>3, <1>4, <1>5, <1>6, <1>7 DEF AuditFinish

(* A step that leaves plans and finish() calls alone, opens or keeps open  *)
(* every row it does not put on record, and inserts none.                  *)
LEMMA QuietSettle ==
    ASSUME SettleInv, UNCHANGED <<plan, cont>>, unsettled \subseteq unsettled',
           \A a \in Agent :
               /\ task'[a].state # "absent" => task[a].state # "absent"
               /\ OpenRow(a) => OpenRow(a)' \/ PlanOf[a] \in unsettled'
    PROVE  SettleInv'
  <1>1. PlansGoOn /\ RowsAfterPlan
    BY DEF PlansGoOn, RowsAfterPlan
  <1>2. QED BY <1>1, KeepSettle, KeepGoing

LEMMA BackgroundSettles ==
    TypeOK /\ SettleInv /\ Background /\ UNCHANGED unsettled => SettleInv'
  BY BackgroundKeepsOpen, QuietSettle DEF SameOpen, OpenRow

LEMMA SettleAdmin == TypeOK /\ SettleInv /\ AuditAdmin => SettleInv'
  <1> SUFFICES ASSUME TypeOK, SettleInv, AuditAdmin PROVE SettleInv'
    OBVIOUS
  <1>1. ASSUME NEW a \in Agent, CancelTask(a) \/ CancelJudge(a),
               unsettled' = unsettled \cup PlanSetOf(a)
        PROVE  SettleInv'
    <2>1. PlansGoOn /\ RowsAfterPlan
      BY <1>1, Columns DEF CancelTask, CancelJudge, PlansGoOn, RowsAfterPlan, TypeOK, Live
    <2>2. \A b \in Agent : b # a => task'[b] = task[b] /\ judge'[b] = judge[b]
      BY <1>1 DEF CancelTask, CancelJudge, TypeOK
    <2>3. cont' = cont
      BY <1>1 DEF CancelTask, CancelJudge
    <2>4. \A p \in Plan : p \notin unsettled' => p # PlanOf[a]
      BY <1>1 DEF PlanSetOf
    <2>5. \A p \in Plan : p \notin unsettled' /\ WillSettle(p) => WillSettle(p)'
      BY <2>2, <2>3, <2>4 DEF WillSettle, Pending, TasksOf
    <2>6. QED BY <1>1, <2>1, <2>5, KeepSettle
  <1>2. ASSUME NEW a \in Agent, RetryTask(a), UNCHANGED unsettled PROVE SettleInv'
    <2>1. \A b \in Agent : task'[b].state = IF b = a THEN "queued" ELSE task[b].state
      BY <1>2 DEF RetryTask, TypeOK, Requeued, SetRow
    <2>2. QED BY <1>2, <2>1, QuietSettle DEF RetryTask, OpenRow, Live
  <1>3. ASSUME NEW a \in Agent, RetryJudge(a), UNCHANGED unsettled PROVE SettleInv'
    BY <1>3, QuietSettle DEF RetryJudge, OpenRow, TypeOK
  <1>4. ASSUME ForceReleaseAll \/ \E g \in Graces : Reap(g), UNCHANGED unsettled PROVE SettleInv'
    BY <1>4, BackgroundSettles DEF Background
  <1>5. QED BY <1>1, <1>2, <1>3, <1>4 DEF AuditAdmin, history

LEMMA SettleStep ==
    TypeOK /\ OwnerMatchesState /\ SettleInv /\ [AuditNext]_auditVars => SettleInv'
  <1> SUFFICES ASSUME TypeOK, OwnerMatchesState, SettleInv, [AuditNext]_auditVars PROVE SettleInv'
    OBVIOUS
  <1>1. CASE (LeaseNext \/ WorkerNext \/ Tick) /\ UNCHANGED history
    BY <1>1, BackgroundSettles DEF Background, history
  <1>2. CASE UNCHANGED auditVars
    BY <1>2, QuietSettle DEF auditVars, vars, history, OpenRow
  <1>3. QED BY <1>1, <1>2, SettlePlanStep, SettleFinish, SettleAdmin DEF AuditNext

(* A running plan with rows has an open row, or a finish() under way that  *)
(* will count them, unless a row was cancelled alone or a finish() died    *)
(* between its commits.                                                    *)
THEOREM SettleCorrect == AuditSpec => []RunningPlanWillSettle
  <1>1. AuditInit => SettleInv
    BY DEF AuditInit, Init, SettleInv, RunningPlanWillSettle, PlanBeforeRows
  <1>2. SettleInv => RunningPlanWillSettle
    BY DEF SettleInv
  <1>3. AuditSpec => []OwnerMatchesState
    <2>1. AuditSpec => Spec
      BY AuditStep, PTL DEF AuditSpec, Spec, AuditInit
    <2>2. QED BY <2>1, OwnerCorrect, PTL
  <1>4. QED BY <1>1, <1>2, <1>3, SettleStep, AuditTypeCorrect, PTL DEF AuditSpec
==============================================================================
