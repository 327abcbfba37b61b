---------------------------- MODULE MCWorkerLoop ----------------------------
(* Small instances of WorkerLoop: one or two workers of one queue, one     *)
(* agent row of a plan or one generic row.                                 *)
EXTENDS WorkerLoop

CONSTANTS a1, a2, p1, w1, w2, qa

MCPlanOf == [a \in Agent |-> IF a = a2 THEN NoPlan ELSE p1]
MCQueueOf == [a \in Agent |-> qa]
MCSubscribes == [w \in Worker |-> qa]
MCPriority == [a \in Agent |-> 1]
MCNotBefore == [a \in Agent |-> 0]
MCMaxRetries == [a \in Agent |-> 1]
==============================================================================
