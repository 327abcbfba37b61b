------------------------------- MODULE Services -------------------------------
(***************************************************************************)
(* The services around the queue, side by side: the schema bootstrap of    *)
(* its database, the pool of workers, the life of a run's row in the trace *)
(* database, the live page of a run, the webhook server and its health     *)
(* checks.  They share no state, so a behaviour takes the steps of one of  *)
(* them only and the state spaces add up instead of multiplying.           *)
(***************************************************************************)
EXTENDS SchemaBootstrap, WorkerPool, RunLifecycle, LiveView, Webhook

VARIABLE part   \* the component whose steps this behaviour takes

vars == <<part, schemaVars, poolVars, runVars, liveVars, hookVars, healthVars>>

Init ==
    /\ part \in {"schema", "pool", "run", "live", "hook", "health"}
    /\ SchemaInit /\ PoolInit /\ RunInit /\ LiveInit /\ HookInit /\ HealthInit
    /\ part # "schema" => cols = CHOOSE start \in Starts : TRUE

OnlySchema == part = "schema" /\ UNCHANGED <<part, poolVars, runVars, liveVars, hookVars, healthVars>>
OnlyPool == part = "pool" /\ UNCHANGED <<part, schemaVars, runVars, liveVars, hookVars, healthVars>>
OnlyRun == part = "run" /\ UNCHANGED <<part, schemaVars, poolVars, liveVars, hookVars, healthVars>>
OnlyLive == part = "live" /\ UNCHANGED <<part, schemaVars, poolVars, runVars, hookVars, healthVars>>
OnlyHook == part = "hook" /\ UNCHANGED <<part, schemaVars, poolVars, runVars, liveVars, healthVars>>
OnlyHealth == part = "health" /\ UNCHANGED <<part, schemaVars, poolVars, runVars, liveVars, hookVars>>

Next ==
    \/ OnlySchema /\ SchemaNext
    \/ OnlyPool /\ PoolNext
    \/ OnlyRun /\ RunNext
    \/ OnlyLive /\ LiveNext
    \/ OnlyHook /\ HookNext
    \/ OnlyHealth /\ HealthNext

\* Timers fire again and event loops run on: the supervisor reconciles and classifies the
\* rows of dead workers, and some worker that is up runs; time passes, a dead process writes
\* nothing, and the sweeper goes on after an error; the server polls, the browser runs its
\* script; the webhook server runs some task, and every call of an agent has a timeout.
Fairness ==
    /\ WF_vars(OnlyPool /\ Reconcile)
    /\ WF_vars(OnlyPool /\ (\E w \in Worker : Work(w)))
    /\ WF_vars(OnlyPool /\ (\E w \in Worker : MarkDead(w) /\ procs[w] = "gone"))
    /\ WF_vars(OnlyRun /\ (\E r \in Run : Age(r) \/ (process[r] = "gone" /\ FallSilent(r))))
    /\ WF_vars(OnlyRun /\ Sweep)
    /\ WF_vars(OnlyLive /\ (Poll \/ OpenPage))
    /\ WF_vars(OnlyHook /\ (\E j \in DOMAIN jobs : Job(j)))

Spec == Init /\ [][Next]_vars /\ Fairness

\* Every part keeps the types of its variables.
ServicesTypeOK ==
    SchemaTypeOK /\ PoolTypeOK /\ RunTypeOK /\ LiveTypeOK /\ HookTypeOK /\ HealthTypeOK

\* The webhook server routes every event by one route, and its health checks stay few.
WebhookKept == OneRouteDecides /\ ChecksBounded

\* A run whose process is gone is closed, the page of a run comes to its end, and what the
\* webhook server accepted is run.
RunsPagesAndJobsEnd == DeadRunCloses /\ LivePageEnds /\ AcceptedRuns
==============================================================================
