---------------------------- MODULE AsyncChildren ----------------------------
(***************************************************************************)
(* Asynchronous child agents of orchestra/agent.py: the thread of each     *)
(* child spawned with sched="async", the parent's step loop that drains    *)
(* finished children into its messages, and the agent_await calls of one   *)
(* response, which _dispatch_tools runs in parallel threads before the     *)
(* agent_spawn calls of the same response are handled in order.            *)
(*                                                                         *)
(* _children_lock guards results, spawned and collected; _async_lock       *)
(* guards queue.  A section under one lock is one action.                  *)
(***************************************************************************)
EXTENDS Naturals, FiniteSets

CONSTANTS
    Child,      \* child runs the parent may spawn
    Callback,   \* those spawned with callback=True
    Fails,      \* those whose run() may raise
    Call,       \* agent_await calls under way at a time
    MaxChildSteps    \* budget.max_steps of the parent

ASSUME ChildrenAssumption ==
    /\ Callback \subseteq Child
    /\ Fails \subseteq Child
    /\ MaxChildSteps \in Nat

VARIABLES
    parent,     \* the parent's loop: where it is in a step, how many steps it began
    thread,     \* the thread of each child
    results,    \* keys of _children_results
    queue,      \* _async_results_queue; a child is appended at most once
    collected,  \* _async_collected
    await,      \* the agent_await calls: where they are, their targets, what they gathered
    nudged,     \* times a child's result was injected as a NUDGE
    handed,     \* children whose result an agent_await returned
    overtaken   \* history: children gathered by a call before their thread queued the result

shared == <<results, queue, collected>>
history == <<nudged, handed, overtaken>>
childVars == <<parent, thread, shared, await, history>>

ParentAt == {"pre", "tools", "spawn", "over"}
ThreadAt == {"unborn", "running", "stored", "ended", "failed"}

NoCall == [at |-> "none", want |-> {}, got |-> {}, all |-> FALSE]

ChildrenInit ==
    /\ parent = [at |-> "pre", step |-> 0]
    /\ thread = [c \in Child |-> "unborn"]
    /\ results = {}
    /\ queue = {}
    /\ collected = {}
    /\ await = [i \in Call |-> NoCall]
    /\ nudged = [c \in Child |-> 0]
    /\ handed = {} /\ overtaken = {}

Spawned == {c \in Child : thread[c] # "unborn"}
CallsOver == \A i \in Call : await[i] = NoCall

Move(s) == parent' = [parent EXCEPT !.at = s]
SetThread(c, s) == thread' = [thread EXCEPT ![c] = s]

------------------------------------------------------------------------------
(* The parent's loop                                                       *)

\* Start of a step: _drain_async_callbacks takes the whole queue.
Drain ==
    /\ parent.at = "pre"
    /\ parent.step < MaxChildSteps
    /\ parent' = [at |-> "tools", step |-> parent.step + 1]
    /\ queue' = {}
    /\ collected' = collected \cup queue
    /\ nudged' = [c \in Child |-> IF c \in queue THEN nudged[c] + 1 ELSE nudged[c]]
    /\ UNCHANGED <<thread, results, await, handed, overtaken>>

\* The executor is left when every call it runs has returned.
ToolsDone ==
    /\ parent.at = "tools"
    /\ CallsOver
    /\ Move("spawn")
    /\ UNCHANGED <<thread, shared, await, history>>

Spawn(c) ==
    /\ parent.at = "spawn"
    /\ thread[c] = "unborn"
    /\ SetThread(c, "running")
    /\ UNCHANGED <<parent, shared, await, history>>

StepDone ==
    /\ parent.at = "spawn"
    /\ Move("pre")
    /\ UNCHANGED <<thread, shared, await, history>>

\* done, a text answer, an exhausted budget, an LLM error: the run ends and waits for no child.
LeaveRun ==
    /\ CallsOver
    /\ parent.at # "over"
    /\ Move("over")
    /\ UNCHANGED <<thread, shared, await, history>>

------------------------------------------------------------------------------
(* A child's thread                                                        *)

Store(c) ==
    /\ thread[c] = "running"
    /\ results' = results \cup {c}
    /\ SetThread(c, "stored")
    /\ UNCHANGED <<parent, queue, collected, await, history>>

Enqueue(c) ==
    /\ thread[c] = "stored"
    /\ queue' = IF c \in Callback THEN queue \cup {c} ELSE queue
    /\ overtaken' = IF c \in collected THEN overtaken \cup {c} ELSE overtaken
    /\ SetThread(c, "ended")
    /\ UNCHANGED <<parent, results, collected, await, nudged, handed>>

\* run() raises: no result is stored, the thread ends.
Fail(c) ==
    /\ c \in Fails
    /\ thread[c] = "running"
    /\ SetThread(c, "failed")
    /\ UNCHANGED <<parent, shared, await, history>>

------------------------------------------------------------------------------
(* agent_await                                                             *)

SetCall(i, call) == await' = [await EXCEPT ![i] = call]

\* run_id="": every async child nobody has been told of.
AwaitAll(i) ==
    /\ parent.at = "tools"
    /\ await[i] = NoCall
    /\ Spawned \ collected # {}
    /\ SetCall(i, [NoCall EXCEPT !.at = "wait", !.want = Spawned \ collected, !.all = TRUE])
    /\ UNCHANGED <<parent, thread, shared, history>>

AwaitOne(i, c) ==
    /\ parent.at = "tools"
    /\ await[i] = NoCall
    /\ c \in Spawned
    /\ SetCall(i, [NoCall EXCEPT !.at = "wait", !.want = {c}])
    /\ UNCHANGED <<parent, thread, shared, history>>

\* The wait ends when every target has its result, when a pusher is about to fire or at
\* the timeout, that is at any moment; then the results that are there are collected.
Gather(i) ==
    /\ await[i].at = "wait"
    /\ LET got == await[i].want \cap results
       IN /\ SetCall(i, [await[i] EXCEPT !.at = "drop", !.got = got])
          /\ collected' = collected \cup got
    /\ UNCHANGED <<parent, thread, results, queue, history>>

\* Mutant: the queue is emptied, not filtered.
DropAll(i) ==
    /\ await[i].at = "drop"
    /\ queue' = {}
    /\ handed' = handed \cup await[i].got
    /\ SetCall(i, NoCall)
    /\ UNCHANGED <<parent, thread, results, collected, nudged, overtaken>>

\* "drop what we just returned from the callback queue", and return.
Drop(i) ==
    /\ await[i].at = "drop"
    /\ queue' = queue \ await[i].got
    /\ handed' = handed \cup await[i].got
    /\ SetCall(i, NoCall)
    /\ UNCHANGED <<parent, thread, results, collected, nudged, overtaken>>

------------------------------------------------------------------------------
ParentNext == Drain \/ ToolsDone \/ StepDone \/ LeaveRun \/ \E c \in Child : Spawn(c)
ThreadNext == \E c \in Child : Store(c) \/ Enqueue(c) \/ Fail(c)
AwaitNext ==
    \E i \in Call : AwaitAll(i) \/ Gather(i) \/ Drop(i) \/ \E c \in Child : AwaitOne(i, c)

ChildrenNext == ParentNext \/ ThreadNext \/ AwaitNext

------------------------------------------------------------------------------
(* The types of the loop, the threads and the shared fields. *)
ChildrenTypeOK ==
    /\ parent \in [at : ParentAt, step : 0 .. MaxChildSteps]
    /\ thread \in [Child -> ThreadAt]
    /\ results \subseteq Child
    /\ queue \subseteq Callback
    /\ collected \subseteq results
    /\ await \in [Call -> [at : {"none", "wait", "drop"}, want : SUBSET Child,
                           got : SUBSET Child, all : BOOLEAN]]
    /\ nudged \in [Child -> Nat]
    /\ handed \subseteq Child
    /\ overtaken \subseteq collected

(* The result of a callback child is never lost while the parent runs: its *)
(* thread over, it waits in the queue, it has been injected, or a call has *)
(* gathered it - whichever way the drain and the awaits of a step overlap  *)
(* with the end of the child (_run_spawn._run, _meta_agent_await).         *)
NoResultLost ==
    \A c \in Callback : thread[c] = "ended" =>
        \/ c \in queue
        \/ nudged[c] > 0
        \/ c \in handed
        \/ \E i \in Call : c \in await[i].got

(* A result is injected into the parent's messages at most once            *)
(* (_drain_async_callbacks).                                               *)
NudgedOnce == \A c \in Child : nudged[c] <= 1

(* A child whose result was injected is not reported again by an           *)
(* agent_await for all children: "a concurrent agent_await won't re-report *)
(* it" (_drain_async_callbacks).                                           *)
NoSecondReport ==
    \A i \in Call : await[i].all =>
        \A c \in await[i].want : nudged[c] = 0

(* A result that an agent_await has handed over does not wait in the queue *)
(* to be injected as well: the call filters the queue.  The exception is a *)
(* call that gathers the result between the two locks of the child's       *)
(* thread (agent.py:1311-1312 and 1320-1322): the thread queues it after   *)
(* the filter, and the result reaches the parent twice.                    *)
NotNudgedAgain == queue \cap handed \subseteq overtaken

(* The result of a callback child is not lost, and it reaches the parent a *)
(* second time only through a call that names its run, through two calls   *)
(* of one response that both wait for it, or through one that has          *)
(* overtaken its thread.                                                   *)
ResultsReportedOnce == NoResultLost /\ NudgedOnce /\ NoSecondReport /\ NotNudgedAgain
==============================================================================
