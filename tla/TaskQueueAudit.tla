--------------------------- MODULE TaskQueueAudit ---------------------------
(***************************************************************************)
(* TaskQueue with history: what happened to a plan or to a task that the   *)
(* tables do not record.  The history constrains no step; the properties   *)
(* use it to say which operations, and no others, break a promise.         *)
(***************************************************************************)
EXTENDS TaskQueue

VARIABLES
    unsettled,   \* plans that missed a completion check: a row cancelled alone, a finish() cut short
    reopened,    \* plans that got an open row completion did not foresee
    succeeded    \* tasks a worker reported as finished

history == <<unsettled, reopened, succeeded>>
auditVars == <<vars, history>>

AuditInit ==
    /\ Init
    /\ unsettled = {}
    /\ reopened = {}
    /\ succeeded = {}

PlanSetOf(a) == {PlanOf[a]} \cap Plan

\* No row of the plan was open when a finish() counted them.
Drained(p) == plan[p] = "done" \/ \E c \in cont : PlanOf[c.task] = p /\ c.stage = "close"

AuditPlan ==
    \/ /\ \E p \in Plan : CreatePlan(p) \/ CancelPlan(p)
       /\ UNCHANGED history
    \/ /\ \E a \in Agent : EnqueueJudge(a)
       /\ UNCHANGED history
    \/ \E a \in Agent :
          /\ EnqueueAgent(a)
          /\ reopened' = reopened \cup {p \in PlanSetOf(a) : Drained(p)}
          /\ UNCHANGED <<unsettled, succeeded>>

AuditFinish ==
    \/ \E w \in Worker, a \in Agent, out \in Outcome :
          /\ FinishRetry(w, a, out)
          /\ reopened' = reopened \cup {p \in PlanSetOf(a) : task[a].state \notin Live}
          /\ UNCHANGED <<unsettled, succeeded>>
    \/ \E w \in Worker, a \in Agent, out \in Outcome :
          /\ FinishTerminal(w, a, out)
          /\ succeeded' = IF out = "finished" THEN succeeded \cup {a} ELSE succeeded
          /\ UNCHANGED <<unsettled, reopened>>
    \/ /\ \E c \in cont : CascadeJudge(c) \/ CountPlan(c) \/ ClosePlan(c)
       /\ UNCHANGED history
    \/ \E c \in cont :
          /\ LoseContinuation(c)
          /\ unsettled' = unsettled \cup PlanSetOf(c.task)
          /\ UNCHANGED <<reopened, succeeded>>

AuditAdmin ==
    \/ \E a \in Agent :
          /\ CancelTask(a) \/ CancelJudge(a)
          /\ unsettled' = unsettled \cup PlanSetOf(a)
          /\ UNCHANGED <<reopened, succeeded>>
    \/ \E a \in Agent :
          /\ RetryTask(a)
          /\ reopened' = reopened \cup {p \in PlanSetOf(a) : task[a].state \notin Live}
          /\ UNCHANGED <<unsettled, succeeded>>
    \/ /\ \/ \E a \in Agent : RetryJudge(a)
          \/ ForceReleaseAll
          \/ \E g \in Graces : Reap(g)
       /\ UNCHANGED history

AuditNext ==
    \/ AuditPlan
    \/ AuditFinish
    \/ AuditAdmin
    \/ (LeaseNext \/ WorkerNext \/ Tick) /\ UNCHANGED history

AuditSpec == AuditInit /\ [][AuditNext]_auditVars

------------------------------------------------------------------------------
(* A plan that is done has no open agent row, unless, after the rows were  *)
(* counted, one was inserted, retried by hand, or put back by a failed     *)
(* finish() of a row closed meanwhile (finish / _maybe_finish_plan).       *)
DoneMeansDrained ==
    \A p \in Plan \ reopened :
        plan[p] = "done" => \A a \in TasksOf(p) : task[a].state \notin Live

(* A running plan with rows still has an open row or a finish() that will  *)
(* check it, whatever the order in which its tasks finish, retry and are   *)
(* reaped; only cancelling a single row or dying inside finish() breaks    *)
(* this (finish / _maybe_finish_plan).                                     *)
RunningPlanWillSettle ==
    \A p \in Plan \ unsettled :
        /\ plan[p] = "running"
        /\ \E a \in TasksOf(p) : task[a].state # "absent"
        => \/ Pending(p) # {}
           \/ \E c \in cont : PlanOf[c.task] = p

(* A judge companion is only ever marked finished for an agent task that a *)
(* worker reported as finished (the cascade of finish()).                  *)
JudgedAgentSucceeded ==
    \A a \in Agent : judge[a] = "finished" => a \in succeeded

------------------------------------------------------------------------------
(* A claim of the repository that the code does not keep.                  *)

(* The state machine of queue.py:20-23 ends in 'cancelled': only a manual  *)
(* retry opens a cancelled row again.                                      *)
CancelledIsTerminal ==
    [][\A a \in Agent :
          task[a].state = "cancelled" /\ ~RetryTask(a) => task'[a].state = "cancelled"]_auditVars
==============================================================================
