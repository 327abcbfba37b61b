----------------------------- MODULE MCTaskQueue -----------------------------
(* Small instances of TaskQueueAudit: the rows of one plan, and a generic  *)
(* task without a plan.                                                    *)
EXTENDS TaskQueueAudit

CONSTANTS a1, a2, a3, p1, w1, w2, qa

MCPlanOf == [a \in Agent |-> IF a = a3 THEN NoPlan ELSE p1]
MCQueueOf == [a \in Agent |-> qa]
MCPriority == [a \in Agent |-> IF a = a2 THEN 2 ELSE 1]
MCNotBefore == [a \in Agent |-> IF a = a3 THEN 1 ELSE 0]
MCMaxRetries == [a \in Agent |-> IF a = a2 THEN 0 ELSE 1]
==============================================================================
