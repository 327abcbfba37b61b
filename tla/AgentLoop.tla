------------------------------ MODULE AgentLoop ------------------------------
(***************************************************************************)
(* One agent of orchestra/agent.py: the ReAct loop (_run_react) with the   *)
(* budget and the pusher chain of orchestra/budget.py, the guards that     *)
(* send the model back, and the ways a run can end; or the single request  *)
(* of an agent that does not loop (_run_single).                           *)
(*                                                                         *)
(* The loop is one thread; the model is the environment.  An action is the *)
(* part of a step before the model's answer, or the part after it.  The    *)
(* text of messages is left out: what counts is which calls a response     *)
(* holds, in which shape, and what it costs.                               *)
(***************************************************************************)
EXTENDS ToolDispatch, Integers, FiniteSets

CONSTANTS
    Toolset,      \* the tools the agent offers to the model
    Guarded,      \* the tools of its require_tool guards
    TextGuard,    \* TRUE: it has a text_response guard
    Reply,        \* the sequences of calls a model may answer with
    MaxCalls,     \* bound on the calls of an answer
    Usage,        \* prompt and paid tokens of an answer
    MaxSteps, MaxTokens, MaxContext,
    MaxWall,      \* max_wall_time in ticks, 0 when it is unset
    Interval,     \* reflect_interval, 0 when it is unset
    MaxRequests   \* attempts of _llm_call_with_retry

ASSUME LoopAssumption ==
    /\ Toolset \subseteq Tool
    /\ Guarded \subseteq Tool \ {"done", "answer"}
    /\ TextGuard \in BOOLEAN
    /\ \A reply \in Reply : Len(reply) \in 0 .. MaxCalls /\ DOMAIN reply = 1 .. Len(reply)
    /\ Usage \subseteq [prompt : Nat, paid : Nat]
    /\ {MaxSteps, MaxTokens, MaxContext, MaxWall, Interval, MaxCalls} \subseteq Nat
    /\ MaxSteps > 0 /\ MaxRequests \in Nat \ {0}

VARIABLES
    single,    \* config.mode is single
    request,   \* how often the request of this step was sent, 0 when none is out
    phase,     \* "top": before the step, "asked": the model has the
               \* request, "forced": the loop was left without a result, "over"
    step,      \* steps_used
    spent,     \* cumulative_paid, counted up to MaxTokens
    lastPaid,  \* _prev_step_paid
    prompt,    \* tokens_in of the last answer
    wall,      \* ticks since wall_start, counted up to MaxWall
    fired,     \* the latched levels of the ratio pushers
    cadence,   \* ReflectCadenceCounter and ReflectCadencePusher
    retries,   \* how often each guard has sent the model back
    called,    \* _called_tools
    ending,    \* how the run ended
    output,    \* what it returned
    askedDone, \* memory: some request offered nothing but done
    reflected  \* memory: a reflect succeeded since the last cadence nudge

loopVars == <<single, request, phase, step, spent, lastPaid, prompt, wall, fired, cadence,
              retries, called, ending, output, askedDone, reflected>>
budget == <<step, spent, lastPaid, prompt, wall, fired, cadence>>
memory == <<askedDone, reflected>>

MaxGuardRetries == 2
TextResponse == "text_response"
Guard == Guarded \cup (IF TextGuard THEN {TextResponse} ELSE {})
Terminator == {"done", "answer"}

------------------------------------------------------------------------------
(* The budget.                                                             *)

AtLeast(n, d, pct) == d > 0 /\ 100 * n >= pct * d

\* The axes with their use and limit; an axis with limit 0 is switched off.
Used == [token |-> spent, step |-> step, wall |-> wall, context |-> prompt]
Limit == [token |-> MaxTokens, step |-> MaxSteps, wall |-> MaxWall, context |-> MaxContext]
Axis == DOMAIN Limit

Exhausted == \E x \in Axis : AtLeast(Used[x], Limit[x], 100)

\* The levels of each axis and what they ask for.
\* Mutant: no request is left when the step axis reaches its last level.
ForceDoneAtEnd == [token |-> 100, step |-> 100, wall |-> 100]

ForceDoneAt == [token |-> 100, step |-> 90, wall |-> 100]
Levels(x) == {<<x, 50, "nudge">>, <<x, 75, "nudge">>}
                 \cup (IF x = "context" THEN {} ELSE {<<x, ForceDoneAt[x], "force_done">>})
Level == UNION {Levels(x) : x \in Axis}

\* RatioEscalationPusher.apply: every level reached that has not fired.
Fires == {l \in Level \ fired : AtLeast(Used[l[1]], Limit[l[1]], l[2])}

\* ApplyActionsHandler: narrow the tools to done, if there is a done.
Offer ==
    IF (\E l \in Fires : l[3] = "force_done") /\ "done" \in Toolset
    THEN {"done"}
    ELSE Toolset

AtMost(n, top) == IF n > top THEN top ELSE n

\* update_tokens: cumulative_paid grows by the difference to the last answer,
\* or by the whole when that is negative.
Delta(paid) == IF paid < lastPaid THEN paid ELSE paid - lastPaid

Charge(usage) ==
    /\ spent' = AtMost(spent + Delta(usage.paid), MaxTokens)
    /\ lastPaid' = usage.paid
    /\ prompt' = usage.prompt

------------------------------------------------------------------------------
(* The reflect cadence.  The counter is cut at a value no comparison of    *)
(* the code can tell from a higher one.                                    *)

CounterTop == IF Interval > MaxCalls THEN Interval ELSE MaxCalls

ReArms == cadence.counter < cadence.last

Nudges ==
    /\ Interval > 0
    /\ cadence.counter >= Interval
    /\ ~cadence.nudged \/ ReArms

PushCadence ==
    /\ cadence' = IF Interval = 0 THEN cadence
                  ELSE [cadence EXCEPT !.last = cadence.counter,
                                       !.nudged = Nudges \/ (cadence.nudged /\ ~ReArms)]
    /\ reflected' = (reflected /\ ~Nudges)

\* An outcome counts as an error only if its text starts with "validation error".
ReflectedOk(outcomes) ==
    \E i \in DOMAIN outcomes : outcomes[i].tool = "reflect" /\ outcomes[i].outcome # "validation"

Others(outcomes) == {i \in DOMAIN outcomes : outcomes[i].tool \notin {"reflect", "done"}}

CountCalls(outcomes) ==
    /\ cadence' = [cadence EXCEPT !.counter =
           AtMost(Cardinality(Others(outcomes)) + (IF ReflectedOk(outcomes) THEN 0 ELSE @), CounterTop)]
    /\ reflected' = (reflected \/ ReflectedOk(outcomes))

------------------------------------------------------------------------------
(* Guards.                                                                 *)

SpentRetries(g) == retries[g] >= MaxGuardRetries

\* Mutant: a guard speaks once only.
UnmetOnce(names) == {g \in Guarded \ names : retries[g] = 0}

\* _check_require_tool_guards: the tools still missing whose guard has retries left.
Unmet(names) == {g \in Guarded \ names : ~SpentRetries(g)}

SendBack(guards) ==
    /\ \E g \in guards : retries' = [retries EXCEPT ![g] = @ + 1]
    /\ phase' = "top"
    /\ UNCHANGED <<ending, output>>

Close(how, result) ==
    /\ phase' = "over"
    /\ ending' = how
    /\ output' = result
    /\ UNCHANGED retries

------------------------------------------------------------------------------
(* A step.                                                                 *)

LoopInit ==
    /\ single \in BOOLEAN
    /\ phase = "top" /\ request = 0
    /\ step = 0 /\ spent = 0 /\ lastPaid = 0 /\ prompt = 0 /\ wall = 0
    /\ fired = {}
    /\ cadence = [counter |-> 0, last |-> 0, nudged |-> FALSE]
    /\ retries = [g \in Guard |-> 0]
    /\ called = {}
    /\ ending = "none" /\ output = "none"
    /\ askedDone = FALSE /\ reflected = TRUE

\* The budget is spent, or the for loop has run out of steps.
LeaveLoop ==
    /\ phase = "top" /\ ~single
    /\ Exhausted \/ step = MaxSteps
    /\ phase' = "forced"
    /\ UNCHANGED <<single, request, budget, retries, called, ending, output, memory>>

\* apply_handlers, then the request.
Ask ==
    /\ phase = "top" /\ ~single
    /\ ~Exhausted /\ step < MaxSteps
    /\ fired' = fired \cup Fires
    /\ askedDone' = (askedDone \/ Offer = {"done"})
    /\ PushCadence
    /\ phase' = "asked" /\ request' = 1
    /\ UNCHANGED <<single, step, spent, lastPaid, prompt, wall, retries, called, ending, output>>

\* A transient error: the same request again.
RetryRequest ==
    /\ phase = "asked" /\ request < MaxRequests
    /\ request' = request + 1
    /\ UNCHANGED <<single, phase, budget, retries, called, ending, output, memory>>

\* The call failed for good: the last attempt, another error, or the stream broke.
LlmFails ==
    /\ phase = "asked" /\ ~single
    /\ phase' = "forced" /\ request' = 0
    /\ UNCHANGED <<single, budget, retries, called, ending, output, memory>>

\* _run_single: one request, without tools, guards or budget ...
AskSingle ==
    /\ phase = "top" /\ single
    /\ phase' = "asked" /\ request' = 1
    /\ UNCHANGED <<single, budget, retries, called, ending, output, memory>>

\* ... its text, parsed if it is JSON; an error is swallowed.
EndSingle ==
    /\ phase = "asked" /\ single
    /\ \E result \in {"payload", "text", "none"} : Close("single", result)
    /\ request' = 0
    /\ UNCHANGED <<single, budget, called, memory>>

\* Mutant: the step is not counted.
TakeAnswerUncounted ==
    /\ phase = "asked" /\ ~single
    /\ (\E u \in Usage : Charge(u)) \/ UNCHANGED <<spent, lastPaid, prompt>>
    /\ wall' \in {wall, AtMost(wall + 1, MaxWall)}
    /\ request' = 0
    /\ UNCHANGED <<single, step, fired, askedDone>>

\* Time passes, the usage is booked if the answer carries one, the step counts.
TakeAnswer ==
    /\ phase = "asked" /\ ~single
    /\ (\E u \in Usage : Charge(u)) \/ UNCHANGED <<spent, lastPaid, prompt>>
    /\ wall' \in {wall, AtMost(wall + 1, MaxWall)}
    /\ step' = step + 1 /\ request' = 0
    /\ UNCHANGED <<single, fired, askedDone>>

\* Text without a call: the generic guard first, then the require_tool guards.
AnswerText ==
    /\ TakeAnswer
    /\ CASE TextGuard /\ ~SpentRetries(TextResponse) -> SendBack({TextResponse})
         [] OTHER -> IF Unmet(called) # {} THEN SendBack(Unmet(called)) ELSE Close("natural", "none")
    /\ UNCHANGED <<cadence, called, reflected>>

\* Tools that do not go through the parallel dispatch.
InOrder == {"done", "reflect", "agent_spawn"}

OutcomeOf(call) ==
    IF call.tool \in InOrder THEN DispatchInOrder(call.tool, call.args)
    ELSE DispatchParallel(call.tool, call.args)

Outcomes(reply) == [i \in DOMAIN reply |-> [tool |-> reply[i].tool, outcome |-> OutcomeOf(reply[i])]]

\* A terminator counts unless its result starts with "validation error".
Accepted(reply) ==
    {i \in DOMAIN reply : reply[i].tool \in Terminator /\ OutcomeOf(reply[i]) # "validation"}

\* The run's output is parsed from the string of the last terminator once more.
Delivered(args) ==
    CASE args.shape = "plain" -> "payload"
      [] args.shape = "stringified" -> "garbled"
      [] OTHER -> "empty"

LastOf(S) == CHOOSE i \in S : \A j \in S : j <= i

AnswerCalls(reply) ==
    LET names == called \cup (Guarded \cap {reply[i].tool : i \in DOMAIN reply}) IN
    /\ TakeAnswer
    /\ called' = names
    /\ CountCalls(Outcomes(reply))
    /\ CASE Accepted(reply) = {} -> phase' = "top" /\ UNCHANGED <<retries, ending, output>>
         [] Accepted(reply) # {} /\ Unmet(names) # {} -> SendBack(Unmet(names))
         [] OTHER -> Close("done", Delivered(reply[LastOf(Accepted(reply))].args))

\* A handler that raises in the sequential path ends the run with its exception.
HandlerRaises(reply) ==
    /\ TakeAnswer
    /\ \E i \in DOMAIN reply : reply[i].tool = "agent_spawn" /\ OutcomeOf(reply[i]) = "run"
    /\ called' = called \cup (Guarded \cap {reply[i].tool : i \in DOMAIN reply})
    /\ Close("raised", "none")
    /\ UNCHANGED <<cadence, reflected>>

\* _force_done: one request more, for done alone; guards are not asked.
ForceDone ==
    /\ phase = "forced"
    /\ \/ "done" \in Toolset /\ Close("forced", "payload")
       \/ Close("forced", "none")
    /\ UNCHANGED <<single, request, budget, called, memory>>

LoopNext ==
    \/ LeaveLoop
    \/ Ask
    \/ RetryRequest
    \/ LlmFails
    \/ AskSingle
    \/ EndSingle
    \/ AnswerText
    \/ \E reply \in Reply : AnswerCalls(reply)
    \/ \E reply \in Reply : HandlerRaises(reply)
    \/ ForceDone

LoopSpec == LoopInit /\ [][LoopNext]_loopVars

------------------------------------------------------------------------------
(* Properties.                                                             *)

Phase == {"top", "asked", "forced", "over"}
Ending == {"none", "done", "natural", "forced", "raised", "single"}
Output == {"none", "payload", "garbled", "empty", "text"}

\* The types of the loop's state.
LoopTypeOK ==
    /\ phase \in Phase /\ ending \in Ending
    /\ output \in Output
    /\ single \in BOOLEAN /\ request \in 0..MaxRequests
    /\ step \in 0..MaxSteps /\ spent \in 0..MaxTokens
    /\ lastPaid \in Nat /\ prompt \in Nat /\ wall \in 0..MaxWall
    /\ fired \subseteq Level
    /\ cadence \in [counter : 0..CounterTop, last : 0..CounterTop, nudged : BOOLEAN]
    /\ retries \in [Guard -> 0..MaxGuardRetries]
    /\ called \subseteq Guarded
    /\ {askedDone, reflected} \subseteq BOOLEAN

(* A run of the loop that ends by the model's choice has called every tool *)
(* a guard requires, or the guard has sent the model back twice in vain    *)
(* (_check_require_tool_guards on both ways out of _run_react).            *)
GuardsRespected ==
    ending \in {"done", "natural"} => \A g \in Guarded \ called : SpentRetries(g)

(* A run that uses up its steps was told: some request before the end      *)
(* offered done alone (StepBudgetPusher, FORCE_DONE at 0.90), provided one *)
(* step is at most a tenth of the budget.                                  *)
OutOfStepsWasTold ==
    step = MaxSteps /\ MaxSteps >= 10 /\ "done" \in Toolset => askedDone

(* Between two cadence nudges the model has reflected: one nudge per cycle *)
(* (ReflectCadencePusher with its counter, fed by the outcomes of a step). *)
OneNudgePerCycle == Ask /\ Nudges => reflected

\* The budget speaks in time: of its end, and once per reflect cycle.
BudgetIsTold == [][OutOfStepsWasTold' /\ OneNudgePerCycle]_loopVars
==============================================================================
