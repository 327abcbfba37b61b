------------------------------- MODULE Planner -------------------------------
(***************************************************************************)
(* The planner's two halves, side by side: the sweeps that turn branch     *)
(* heads into plans for one config, and the table of configs itself.       *)
(***************************************************************************)
EXTENDS Discovery, Schedules

VARIABLE part   \* the half whose steps this behaviour takes

plannerVars == <<part, vars, scheduleVars>>

PlannerInit ==
    /\ part \in {"sweeps", "configs"}
    /\ Init /\ ScheduleInit
    /\ part = "sweeps" => docs = CHOOSE files \in Contents : TRUE
    /\ part = "configs" => mode = "auto"

OnlySweeps == part = "sweeps" /\ UNCHANGED <<part, scheduleVars>>
OnlyConfigs == part = "configs" /\ UNCHANGED <<part, vars>>

PlannerNext ==
    \/ OnlySweeps /\ Next
    \/ OnlyConfigs /\ ScheduleNext

\* The supervisor's timer keeps firing and its thread runs; time passes.
PlannerSpec ==
    /\ PlannerInit /\ [][PlannerNext]_plannerVars
    /\ WF_plannerVars(OnlySweeps /\ Tick)
    /\ \A s \in Sweeper \ Crashing : WF_plannerVars(OnlySweeps /\ SweepStep(s))

==============================================================================
