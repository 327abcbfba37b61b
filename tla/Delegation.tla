------------------------------ MODULE Delegation ------------------------------
(***************************************************************************)
(* Agents that spawn agents, under canned tool answers: agent_spawn of     *)
(* orchestra/agent.py behind the runtimes of orchestra/agents_runtime.py,  *)
(* and the ToolMocks a parent shares with all of its children.             *)
(*                                                                         *)
(* A synchronous child runs on its parent's thread, an asynchronous one on *)
(* a thread of its own; the children of an agent in meta mode run on the   *)
(* threads of a pool, side by side, and the agent waits for the pool.  An  *)
(* answer is known by its place in the fixture.                            *)
(***************************************************************************)
EXTENDS Integers, FiniteSets, SequencesExt

CONSTANTS
    Agent, Root,  \* the agents a run may hold, and the first of them
    Parent,       \* who may spawn whom: [Agent \ {Root} -> Agent]
    MaxDepth,     \* max_depth of every agent
    Meta,         \* the agents with dispatch_mode meta: they spawn through call_tool
    Mocks,        \* what the mocks file says of each tool it names
    Matched,      \* the agents some spawn entry of its fixture matches
    MaxServed     \* bound: mocked calls answered

\* The agents form a tree: who spawns whom follows the depth.
ASSUME DelegationAssumption ==
    /\ IsFiniteSet(Agent) /\ Root \in Agent /\ Parent \in [Agent \ {Root} -> Agent]
    /\ \E rank \in [Agent -> 0..Cardinality(Agent)] :
           \A a \in Agent \ {Root} : rank[Parent[a]] < rank[a]
    /\ Matched \subseteq Agent /\ Meta \subseteq Agent
    /\ {MaxDepth, MaxServed} \subseteq Nat
    /\ \A t \in DOMAIN Mocks :
           Mocks[t] \in [form : {"text", "capture_only", "list", "semantic"},
                        sticky : Seq(BOOLEAN),            \* form "list": of each entry
                        fixtures : Nat,                   \* form "semantic"
                        on_no_match : {"stub", "error"}]  \* form "semantic"

VARIABLES
    fixture,   \* DIFFGRAPH_AGENTS_RUNTIME_FIXTURE is set: FakeAgentsRuntime
    run,       \* where each agent is
    background,\* the agents that were spawned asynchronously
    told,      \* what agent_spawn returned to the parent of each agent
    spawnList, \* the status list_spawned() knows of each agent
    consumed,  \* _consumed: how many entries of a tool are used up
    served,    \* history: the answers, in the order they were given
    refused    \* history: the agents that ran into MockExhaustedError

\* from_dict: text and capture_only are one entry that is replayed for good.
Entries(raw) == IF raw.form = "list" THEN raw.sticky ELSE <<TRUE>>

SemanticTools == {t \in DOMAIN Mocks : Mocks[t].form = "semantic"}

Ordinal == [t \in DOMAIN Mocks \ SemanticTools |-> Entries(Mocks[t])]

\* The children a pool runs.
Pooled == {c \in Agent \ {Root} : Parent[c] \in Meta}

delegationVars == <<fixture, run, background, told, spawnList, consumed, served, refused>>

Depth[a \in Agent] == IF a = Root THEN 0 ELSE Depth[Parent[a]] + 1

\* a and the agents that wait for it on the same thread.
Thread[a \in Agent] ==
    IF a = Root \/ a \in background \cup Pooled THEN {a} ELSE {a} \cup Thread[Parent[a]]

Live(a) == run[a] \in {"running", "waiting", "pooling"}

DelegationInit ==
    /\ fixture \in BOOLEAN
    /\ run = [a \in Agent |-> IF a = Root THEN "running" ELSE "unborn"]
    /\ background = {} /\ refused = {}
    /\ told = [a \in Agent |-> "nothing"] /\ spawnList = [a \in Agent |-> "nothing"]
    /\ consumed = [t \in DOMAIN Ordinal |-> 0]
    /\ served = <<>>

------------------------------------------------------------------------------
(* Spawning.                                                               *)

\* _meta_agent_spawn up to the runtime: beyond max_depth the model gets an
\* error text and nothing happens.
MaySpawn(a, c) ==
    /\ run[a] \in {"running", "pooling"} /\ run[c] = "unborn" /\ told[c] = "nothing"
    /\ c # Root /\ Parent[c] = a
    /\ Depth[a] < MaxDepth

Report(c, status, answer) ==
    /\ spawnList' = [spawnList EXCEPT ![c] = status]
    /\ told' = [told EXCEPT ![c] = answer]

\* The thread of the parent is in child.run(), or in the pool that runs the
\* call_tool calls of a step: there a call may start while others run.
SpawnSync(a, c) ==
    /\ ~fixture /\ MaySpawn(a, c)
    /\ run' = [run EXCEPT ![a] = IF a \in Meta THEN "pooling" ELSE "waiting", ![c] = "running"]
    /\ UNCHANGED <<fixture, background, told, spawnList, consumed, served, refused>>

\* The pool is done when the last call has returned or raised.
LeavePool(a) ==
    /\ run[a] = "pooling"
    /\ \A c \in Pooled \ background : Parent[c] = a => ~Live(c)
    /\ run' = [run EXCEPT ![a] = "running"]
    /\ UNCHANGED <<fixture, background, told, spawnList, consumed, served, refused>>

\* The cached result says "spawned" for good: list_spawned() finds no run of
\* that id in the trace store and falls back on it.
SpawnAsync(a, c) ==
    /\ ~fixture /\ MaySpawn(a, c)
    /\ run' = [run EXCEPT ![c] = "running"]
    /\ background' = background \cup {c}
    /\ Report(c, "spawned", "spawned")
    /\ UNCHANGED <<fixture, consumed, served, refused>>

\* FakeAgentsRuntime: the child never runs.  Whatever is not "spawned" is
\* passed on to the model as completed.
SpawnFake(a, c) ==
    /\ fixture /\ MaySpawn(a, c)
    /\ Report(c, IF c \in Matched THEN "completed" ELSE "failed", "completed")
    /\ UNCHANGED <<fixture, run, background, consumed, served, refused>>

\* run() returns; a synchronous child's result goes to its parent, whose
\* thread goes on unless it waits for a pool.
Finish(a) ==
    /\ run[a] = "running"
    /\ IF a = Root \/ a \in background
       THEN run' = [run EXCEPT ![a] = "completed"] /\ UNCHANGED <<told, spawnList>>
       ELSE /\ run' = [run EXCEPT ![a] = "completed",
                                  ![Parent[a]] = IF a \in Pooled THEN @ ELSE "running"]
            /\ Report(a, "completed", "completed")
    /\ UNCHANGED <<fixture, background, consumed, served, refused>>

------------------------------------------------------------------------------
(* Mocked calls.                                                           *)

OutOfMocks(t) == consumed[t] >= Len(Ordinal[t])

\* Mutant: a sticky entry is used up like any other.
AdvanceAlways(t) == consumed' = [consumed EXCEPT ![t] = @ + 1]

Advance(t) == consumed' = [consumed EXCEPT ![t] = IF Ordinal[t][@ + 1] THEN @ ELSE @ + 1]

Answer(t, entry) == served' = Append(served, [tool |-> t, entry |-> entry])

\* In meta mode every call is one of call_tool, which no fixture names: the
\* tool itself runs, mocked or not.
Calls(a) == run[a] = "running" /\ a \notin Meta /\ Len(served) < MaxServed

\* consume(), under the lock.
ServeOrdinal(a, t) ==
    /\ Calls(a) /\ ~OutOfMocks(t)
    /\ Answer(t, consumed[t] + 1)
    /\ Advance(t)
    /\ UNCHANGED <<fixture, run, background, told, spawnList, refused>>

\* What the judge can make of a focus: no match, a fixture or one beyond the
\* last; an answer that cannot be parsed reads as no match, unsure.
Verdict(t) == [match : 0..(Mocks[t].fixtures + 1), confident : BOOLEAN]

\* llm_judge_match and the threshold: the fixture to answer from, 0 for none.
MatchOf(t, verdict) ==
    IF verdict.match \in 1..Mocks[t].fixtures /\ verdict.confident THEN verdict.match ELSE 0

\* _consume_semantic: a fixture, or the stub.
ServeSemantic(a, t) ==
    /\ Calls(a)
    /\ \E verdict \in Verdict(t) :
          /\ MatchOf(t, verdict) # 0 \/ Mocks[t].on_no_match = "stub"
          /\ Answer(t, MatchOf(t, verdict))
    /\ UNCHANGED <<fixture, run, background, told, spawnList, consumed, refused>>

\* The exception leaves run() of every agent on the thread; the pool turns it
\* into the text of the call's result, and the agent in meta mode goes on.
Raise(a) ==
    /\ run' = [b \in Agent |-> IF b \in Thread[a] THEN "failed" ELSE run[b]]
    /\ told' = [b \in Agent |-> IF b \in (Thread[a] \cap Pooled) \ background THEN "error" ELSE told[b]]
    /\ refused' = refused \cup {a}

Refuse(a) ==
    /\ Calls(a)
    /\ \/ \E t \in DOMAIN Ordinal : OutOfMocks(t)
       \/ SemanticTools # {}   \* no fixture matched, or the judge could not be asked
    /\ Raise(a)
    /\ UNCHANGED <<fixture, background, spawnList, consumed, served>>

DelegationNext ==
    \/ \E a, c \in Agent : SpawnSync(a, c)
    \/ \E a, c \in Agent : SpawnAsync(a, c)
    \/ \E a, c \in Agent : SpawnFake(a, c)
    \/ \E a \in Agent : LeavePool(a)
    \/ \E a \in Agent : Finish(a)
    \/ \E a \in Agent, t \in DOMAIN Ordinal : ServeOrdinal(a, t)
    \/ \E a \in Agent, t \in SemanticTools : ServeSemantic(a, t)
    \/ \E a \in Agent : Refuse(a)

------------------------------------------------------------------------------

\* The types of the agents and of the shared mocks.
DelegationTypeOK ==
    /\ run \in [Agent -> {"unborn", "running", "waiting", "pooling", "completed", "failed"}]
    /\ {told[a] : a \in Agent} \subseteq {"nothing", "spawned", "completed", "error"}
    /\ {spawnList[a] : a \in Agent} \subseteq {"nothing", "spawned", "completed", "failed"}
    /\ \A t \in DOMAIN Ordinal : consumed[t] \in 0..Len(Ordinal[t])
    /\ background \subseteq Agent /\ refused \subseteq Agent

\* The i-th answer is the n-th of its tool.
Nth(answers, i) == Cardinality({j \in 1..i : answers[j].tool = answers[i].tool})

\* The entry the n-th call of a tool is due.
EntryDue(t, n) ==
    LET sticky == {j \in DOMAIN Ordinal[t] : Ordinal[t][j] /\ j <= n}
    IN  IF sticky = {} THEN n ELSE CHOOSE j \in sticky : \A k \in sticky : j <= k

(* Parent and children, on whatever threads, see one sequence: the n-th    *)
(* call of a tool gets the n-th entry, and a sticky entry all that follow  *)
(* (consume in tool_mocks.py, under its lock).  A tool mocked by meaning   *)
(* answers from its fixtures, or with the stub if it may.                  *)
ServedInOrder ==
    \A i \in DOMAIN served :
        IF served[i].tool \in DOMAIN Ordinal
        THEN served[i].entry = EntryDue(served[i].tool, Nth(served, i))
        ELSE \/ served[i].entry \in 1..Mocks[served[i].tool].fixtures
             \/ served[i].entry = 0 /\ Mocks[served[i].tool].on_no_match = "stub"

(* A call no mock answers fails every run on its thread up to the root, to *)
(* an asynchronous child, or to a child of an agent in meta mode, where    *)
(* the exception ends as text (_dispatch_tools, _run of an async child).   *)
ExhaustionFailsTheThread ==
    \A a \in refused : \A b \in Thread[a] : run[b] = "failed"

(* A parent that waits has exactly one descendant on its thread that works *)
(* or drives a pool: outside meta mode the calls of one step spawn their   *)
(* synchronous children one after the other.                               *)
OneRunnerPerThread ==
    \A a \in Agent : run[a] = "waiting" =>
        Cardinality({b \in Agent : run[b] \in {"running", "pooling"} /\ a \in Thread[b]}) = 1

(* In meta mode children run side by side, and no step of their parent     *)
(* goes on, ends or fails while one of them is alive.                      *)
ParentOutlastsPool == \A c \in Pooled \ background : Live(c) => run[Parent[c]] = "pooling"

(* agent_spawn says "completed" of a child that completed (a fixture       *)
(* runtime says so of every child, matched or not), and gives an agent in  *)
(* meta mode the error of a child that failed.                             *)
ToldCompleted ==
    \A c \in Agent :
        /\ told[c] = "completed" => run[c] = "completed" \/ spawnList[c] = "failed" \/ c \in Matched
        /\ told[c] = "error" => run[c] = "failed" /\ c \in Pooled

\* What a tree of agents is served, and what each parent is told of it.
DelegationKept ==
    ServedInOrder /\ ExhaustionFailsTheThread /\ OneRunnerPerThread
    /\ ParentOutlastsPool /\ ToldCompleted
==============================================================================
