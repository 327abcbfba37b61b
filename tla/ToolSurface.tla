----------------------------- MODULE ToolSurface -----------------------------
(***************************************************************************)
(* Whose tools an agent calls.  A child starts from a clone of its         *)
(* parent's registry (ToolRegistry.clone) in which register_builtins       *)
(* overwrites the builtins of its own tool set; what the model is offered  *)
(* comes from _build_tool_names, but the registry dispatches any name it   *)
(* holds.  The handler of a builtin is bound to one agent.  In meta mode   *)
(* the model is offered list_tools and call_tool alone.                    *)
(***************************************************************************)
EXTENDS Integers, Sequences, FiniteSets

CONSTANTS
    Kind,       \* kinds of agents (compiled prompts)
    RootKind,
    BaseTools,  \* config.tools of a kind
    UserTools,  \* tools of its user prompt, those of its skills included
    MetaKinds,  \* kinds with dispatch_mode: meta
    DepthLimit, \* max_depth
    MaxAgents   \* bound: agents of a run

Builtin == {"reflect", "done", "agent_spawn", "agent_await"}
MetaTool == {"list_tools", "call_tool"}
BoundTool == Builtin \cup MetaTool

ASSUME SurfaceAssumption ==
    /\ RootKind \in Kind /\ MetaKinds \subseteq Kind
    /\ BaseTools \in [Kind -> SUBSET Builtin] /\ UserTools \in [Kind -> SUBSET Builtin]
    /\ {DepthLimit, MaxAgents} \subseteq Nat

VARIABLES
    agents,   \* the agents so far: kind and depth
    bound,    \* per agent: whose handler its registry holds for a tool, 0 for none
    act       \* history: the last call, for whom it acted, and whether it was offered

surfaceVars == <<agents, bound, act>>

AgentIds == DOMAIN agents

\* The union register_builtins and _build_tool_names both take.
ToolsOf(kind) == BaseTools[kind] \cup UserTools[kind]

Builtins(kind) == ToolsOf(kind) \cup (IF kind \in MetaKinds THEN MetaTool ELSE {})

\* register_builtins and register_tool_def of the meta tools on a clone.
Rebound(registry, kind, id) ==
    [t \in BoundTool |-> IF t \in Builtins(kind) THEN id ELSE registry[t]]

SurfaceInit ==
    /\ agents = <<[kind |-> RootKind, depth |-> 0]>>
    /\ bound = <<Rebound([t \in BoundTool |-> 0], RootKind, 1)>>
    /\ act = [by |-> 1, owner |-> 1, offered |-> TRUE]

\* The names behind call_tool, or offered as they are.
Names(a) ==
    {t \in ToolsOf(agents[a].kind) : bound[a][t] # 0}
        \ (IF agents[a].depth >= DepthLimit THEN {"agent_spawn"} ELSE {})

Offered(a) == IF agents[a].kind \in MetaKinds THEN MetaTool ELSE Names(a)

\* The agent whose handler runs when a calls t, directly or through the
\* call_tool its registry holds.
ViaMeta(a, t) ==
    LET keeper == bound[a]["call_tool"] IN
    IF keeper # 0 /\ t \in Names(keeper) THEN bound[keeper][t] ELSE 0

Acts(a, t, meta) == IF meta THEN ViaMeta(a, t) ELSE bound[a][t]

Note(a, t, owner, meta) ==
    act' = [by |-> a, owner |-> owner, offered |-> (IF meta THEN "call_tool" ELSE t) \in Offered(a)]

\* _meta_agent_spawn asks the depth of the agent it is bound to.
BelowLimit(owner) == agents[owner].depth < DepthLimit

\* A call of agent_spawn: the child is the owner's and clones its registry.
CallSpawn(a, kind, meta) ==
    LET owner == Acts(a, "agent_spawn", meta)
        child == Len(agents) + 1
    IN  /\ owner # 0 /\ BelowLimit(owner)
        /\ child <= MaxAgents
        /\ agents' = Append(agents, [kind |-> kind, depth |-> agents[owner].depth + 1])
        /\ bound' = Append(bound, Rebound(bound[owner], kind, child))
        /\ Note(a, "agent_spawn", owner, meta)

\* A call of another builtin.
CallOther(a, t, meta) ==
    LET owner == Acts(a, t, meta) IN
    /\ owner # 0
    /\ Note(a, t, owner, meta)
    /\ UNCHANGED <<agents, bound>>

SurfaceNext ==
    \/ \E a \in AgentIds, kind \in Kind, meta \in BOOLEAN : CallSpawn(a, kind, meta)
    \/ \E a \in AgentIds, t \in Builtin \ {"agent_spawn"}, meta \in BOOLEAN : CallOther(a, t, meta)

------------------------------------------------------------------------------

(* A call a model was offered acts for its own agent: only a call it was   *)
(* not offered can reach a handler an ancestor left in the clone.          *)
ActsForItself == act.offered => act.owner = act.by

(* No agent is deeper than max_depth, whosever agent_spawn it came from.   *)
DepthBounded == \A a \in AgentIds : agents[a].depth <= DepthLimit
==============================================================================
