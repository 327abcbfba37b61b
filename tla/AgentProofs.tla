------------------------------ MODULE AgentProofs ------------------------------
(***************************************************************************)
(* Proofs about AgentParts, for every tool set, budget, tree of agents and *)
(* model: how the loop of an agent treats its guards and announces its     *)
(* budget, how the results of asynchronous children reach the parent, what *)
(* becomes of a question, what a condensation keeps, how a tree of agents  *)
(* serves its mocks, and whom a shared tool acts for.                      *)
(***************************************************************************)
EXTENDS AgentParts, SequenceTheorems, DataInduction

(***************************************************************************)
(* Guards.  The end of a run is decided once.                              *)
(***************************************************************************)
GuardInv == (phase # "over" => ending = "none") /\ GuardsRespected

\* A step of the loop respects the guards.
LEMMA LoopKeepsGuards == GuardInv /\ [LoopNext]_loopVars => GuardInv'
  <1> SUFFICES ASSUME GuardInv, [LoopNext]_loopVars PROVE GuardInv'
    OBVIOUS
  <1> USE DEF GuardInv, GuardsRespected, SpentRetries
  <1>1. CASE UNCHANGED loopVars
    BY <1>1 DEF loopVars
  <1>2. CASE LeaveLoop
    BY <1>2 DEF LeaveLoop
  <1>3. CASE Ask
    BY <1>3 DEF Ask
  <1>4. CASE LlmFails
    BY <1>4 DEF LlmFails
  <1>5. CASE AnswerText
    <2>1. phase = "asked" /\ called' = called
      BY <1>5 DEF AnswerText, TakeAnswer
    <2>2. CASE TextGuard /\ ~SpentRetries(TextResponse)
      BY <1>5, <2>1, <2>2 DEF AnswerText, SendBack
    <2>3. CASE ~(TextGuard /\ ~SpentRetries(TextResponse)) /\ Unmet(called) # {}
      BY <1>5, <2>1, <2>3 DEF AnswerText, SendBack
    <2>4. CASE ~(TextGuard /\ ~SpentRetries(TextResponse)) /\ Unmet(called) = {}
      <3>1. phase' = "over" /\ retries' = retries
        BY <1>5, <2>4 DEF AnswerText, Close
      <3>2. \A g \in Guarded \ called : SpentRetries(g)
        BY <2>4 DEF Unmet
      <3>3. QED BY <2>1, <3>1, <3>2
    <2>5. QED BY <2>2, <2>3, <2>4
  <1>6. ASSUME NEW reply \in Reply, AnswerCalls(reply) PROVE GuardInv'
    <2> DEFINE names == called \cup (Guarded \cap {reply[i].tool : i \in DOMAIN reply})
    <2>1. phase = "asked" /\ called' = names
      BY <1>6 DEF AnswerCalls, TakeAnswer
    <2> HIDE DEF names
    <2>2. CASE Accepted(reply) = {}
      BY <1>6, <2>1, <2>2 DEF AnswerCalls
    <2>3. CASE Accepted(reply) # {} /\ Unmet(names) # {}
      BY <1>6, <2>1, <2>3 DEF AnswerCalls, SendBack, names
    <2>4. CASE Accepted(reply) # {} /\ Unmet(names) = {}
      <3>1. phase' = "over" /\ retries' = retries
        BY <1>6, <2>4 DEF AnswerCalls, Close, names
      <3>2. \A g \in Guarded \ names : SpentRetries(g)
        BY <2>4 DEF Unmet
      <3>3. QED BY <2>1, <3>1, <3>2
    <2>5. QED BY <2>2, <2>3, <2>4
  <1>7. ASSUME NEW reply \in Reply, HandlerRaises(reply) PROVE GuardInv'
    BY <1>7 DEF HandlerRaises, Close
  <1>8. CASE ForceDone
    BY <1>8 DEF ForceDone, Close
  <1>9. CASE RetryRequest \/ AskSingle \/ EndSingle
    BY <1>9 DEF RetryRequest, AskSingle, EndSingle, Close
  <1>10. QED BY <1>1, <1>2, <1>3, <1>4, <1>5, <1>6, <1>7, <1>8, <1>9 DEF LoopNext

(* A run that ends by the model's choice has called every required tool,   *)
(* or was sent back twice in vain (_check_require_tool_guards).            *)
THEOREM GuardsHold == Spec => []GuardsRespected
  <1>1. Init => GuardInv
    BY DEF Init, LoopInit, GuardInv, GuardsRespected
  <1>2. [Next]_vars => [LoopNext]_loopVars
    BY DEF Next, vars
  <1>3. GuardInv => GuardsRespected
    BY DEF GuardInv
  <1>4. QED BY <1>1, <1>2, <1>3, LoopKeepsGuards, PTL DEF Spec

(***************************************************************************)
(* The budget.  A request at 90% of the steps is made with the force_done  *)
(* level of the step axis latched, and that level never latches without a  *)
(* request for done alone; until the model reflects again, the counter of  *)
(* the cadence does not fall below the value of the last push.             *)
(***************************************************************************)
LastCall == <<"step", 90, "force_done">>

StepsTold ==
    /\ step \in 0 .. MaxSteps
    /\ single => step = 0
    /\ phase = "asked" => step < MaxSteps
    /\ LastCall \in fired /\ "done" \in Toolset => askedDone
    /\ phase = "asked" /\ 100 * step >= 90 * MaxSteps => LastCall \in fired
    /\ OutOfStepsWasTold

Cycle ==
    /\ cadence \in [counter : 0 .. CounterTop, last : 0 .. CounterTop, nudged : BOOLEAN]
    /\ reflected \in BOOLEAN
    /\ ~reflected => cadence.nudged /\ cadence.counter >= cadence.last

\* The cut of the cadence counter is a number.
LEMMA CounterTopNat == CounterTop \in Nat
  BY LoopAssumption DEF CounterTop

(* The level of the step axis is one of those a push looks at.             *)
LEMMA LastCallFires ==
  100 * step >= 90 * MaxSteps /\ LastCall \notin fired => LastCall \in Fires
  <1>1. "step" \in Axis /\ LastCall \in Levels("step") /\ Used["step"] = step
        /\ Limit["step"] = MaxSteps
    BY DEF Axis, Limit, Levels, ForceDoneAt, LastCall, Used
  <1>2. LastCall \in Level
    BY <1>1 DEF Level
  <1>3. LastCall[1] = "step" /\ LastCall[2] = 90
    BY DEF LastCall
  <1>4. QED BY <1>1, <1>2, <1>3, LoopAssumption DEF Fires, AtLeast

(* An answer counts one step, and every answer was asked for.              *)
LEMMA AnswerTellsSteps == StepsTold /\ TakeAnswer /\ phase' \in {"top", "over"} => StepsTold'
  BY LoopAssumption DEF StepsTold, TakeAnswer, OutOfStepsWasTold

\* A step of the loop keeps what is known of its steps.
LEMMA StepsStep == StepsTold /\ [LoopNext]_loopVars => StepsTold'
  <1> SUFFICES ASSUME StepsTold, [LoopNext]_loopVars PROVE StepsTold'
    OBVIOUS
  <1>1. CASE UNCHANGED loopVars
    BY <1>1 DEF loopVars, StepsTold, OutOfStepsWasTold
  <1>2. CASE LeaveLoop
    BY <1>2 DEF LeaveLoop, budget, memory, StepsTold, OutOfStepsWasTold
  <1>3. CASE Ask
    <2>1. fired' = fired \cup Fires /\ askedDone' = (askedDone \/ Offer = {"done"})
          /\ step < MaxSteps /\ step' = step /\ ~single'
      BY <1>3 DEF Ask
    <2>2. 100 * step' >= 90 * MaxSteps => LastCall \in fired'
      BY <2>1, LastCallFires
    <2>3. ASSUME LastCall \in Fires, "done" \in Toolset PROVE Offer = {"done"}
      <3>1. LastCall[3] = "force_done"
        BY DEF LastCall
      <3>2. QED BY <2>3, <3>1 DEF Offer
    <2>4. LastCall \in fired' /\ "done" \in Toolset => askedDone'
      BY <2>1, <2>3 DEF StepsTold
    <2>5. QED BY <2>1, <2>2, <2>4, LoopAssumption DEF StepsTold, OutOfStepsWasTold
  <1>4. CASE LlmFails
    BY <1>4 DEF LlmFails, budget, memory, StepsTold, OutOfStepsWasTold
  <1>5. CASE AnswerText
    BY <1>5, AnswerTellsSteps DEF AnswerText, SendBack, Close
  <1>6. ASSUME NEW reply \in Reply, AnswerCalls(reply) PROVE StepsTold'
    BY <1>6, AnswerTellsSteps DEF AnswerCalls, SendBack, Close
  <1>7. ASSUME NEW reply \in Reply, HandlerRaises(reply) PROVE StepsTold'
    BY <1>7, AnswerTellsSteps DEF HandlerRaises, Close
  <1>8. CASE ForceDone
    BY <1>8 DEF ForceDone, Close, budget, memory, StepsTold, OutOfStepsWasTold
  <1>9. CASE RetryRequest
    BY <1>9 DEF RetryRequest, budget, memory, StepsTold, OutOfStepsWasTold
  <1>10. CASE AskSingle
    <2>1. step = 0 /\ step' = 0 /\ 0 < MaxSteps /\ ~(100 * step' >= 90 * MaxSteps)
      BY <1>10, LoopAssumption DEF AskSingle, budget, StepsTold
    <2>2. QED BY <1>10, <2>1 DEF AskSingle, budget, memory, StepsTold, OutOfStepsWasTold
  <1>11. CASE EndSingle
    BY <1>11 DEF EndSingle, Close, budget, memory, StepsTold, OutOfStepsWasTold
  <1>12. QED BY <1>1, <1>2, <1>3, <1>4, <1>5, <1>6, <1>7, <1>8, <1>9, <1>10, <1>11 DEF LoopNext

\* The push before a request.
LEMMA PushKeepsCycle == Cycle /\ PushCadence => Cycle'
  <1> SUFFICES ASSUME Cycle, PushCadence PROVE Cycle'
    OBVIOUS
  <1>1. CASE Interval = 0
    BY <1>1 DEF Cycle, PushCadence, Nudges
  <1>2. CASE Interval # 0
    <2>1. cadence' = [cadence EXCEPT !.last = cadence.counter,
                                     !.nudged = Nudges \/ (cadence.nudged /\ ~ReArms)]
      BY <1>2 DEF PushCadence
    <2>2. cadence'.counter = cadence.counter /\ cadence'.last = cadence.counter
          /\ cadence'.nudged = (Nudges \/ (cadence.nudged /\ ~ReArms))
      BY <2>1 DEF Cycle
    <2>3. Nudges \/ (cadence.nudged /\ ~ReArms) \in BOOLEAN
      BY DEF Nudges
    <2>4. reflected' \in BOOLEAN /\ (~reflected' => Nudges \/ ~reflected)
      BY DEF PushCadence, Cycle
    <2>5. ~reflected => cadence.nudged /\ ~ReArms
      BY CounterTopNat DEF Cycle, ReArms
    <2>6. ~reflected' => cadence'.nudged
      BY <2>2, <2>4, <2>5
    <2>7. cadence' \in [counter : 0 .. CounterTop, last : 0 .. CounterTop, nudged : BOOLEAN]
      BY <2>1, <2>3 DEF Cycle
    <2>8. cadence'.counter >= cadence'.last
      BY <2>2, CounterTopNat DEF Cycle
    <2>9. QED BY <2>4, <2>6, <2>7, <2>8 DEF Cycle
  <1>3. QED BY <1>1, <1>2

\* The count of the calls of an answer.
LEMMA CountKeepsCycle ==
  ASSUME NEW reply \in Reply, Cycle, CountCalls(Outcomes(reply))
  PROVE  Cycle'
  <1> DEFINE others == Cardinality(Others(Outcomes(reply)))
             ok == ReflectedOk(Outcomes(reply))
             base == IF ok THEN 0 ELSE cadence.counter
  <1>1. others \in Nat
    <2>1. DOMAIN reply = 1 .. Len(reply) /\ Len(reply) \in Nat
      BY LoopAssumption
    <2>2. DOMAIN Outcomes(reply) = DOMAIN reply
      BY DEF Outcomes
    <2>3. IsFiniteSet(1 .. Len(reply))
      BY <2>1, FS_Interval
    <2>4. Others(Outcomes(reply)) \subseteq 1 .. Len(reply)
      BY <2>1, <2>2 DEF Others
    <2>5. QED BY <2>3, <2>4, FS_Subset, FS_CardinalityType
  <1>2. cadence' = [cadence EXCEPT !.counter = AtMost(others + base, CounterTop)]
    BY DEF CountCalls, Cycle
  <1>3. reflected' = (reflected \/ ok)
    BY DEF CountCalls
  <1> HIDE DEF others, ok
  <1>4. base \in 0 .. CounterTop
    BY CounterTopNat DEF Cycle
  <1>5. AtMost(others + base, CounterTop) \in 0 .. CounterTop
        /\ AtMost(others + base, CounterTop) >= base
    BY <1>1, <1>4, CounterTopNat DEF AtMost
  <1>6. ok \in BOOLEAN
    BY DEF ok, ReflectedOk
  <1>7. ~reflected' => base = cadence.counter
    BY <1>3, <1>6
  <1> HIDE DEF base
  <1>8. QED BY <1>2, <1>3, <1>5, <1>6, <1>7, CounterTopNat DEF Cycle

\* A step of the loop keeps the cadence.
LEMMA CycleStep == Cycle /\ [LoopNext]_loopVars => Cycle'
  <1> SUFFICES ASSUME Cycle, [LoopNext]_loopVars PROVE Cycle'
    OBVIOUS
  <1>1. ASSUME UNCHANGED <<cadence, reflected>> PROVE Cycle'
    BY <1>1 DEF Cycle
  <1>2. CASE Ask
    BY <1>2, PushKeepsCycle DEF Ask
  <1>3. ASSUME NEW reply \in Reply, AnswerCalls(reply) PROVE Cycle'
    BY <1>3, CountKeepsCycle DEF AnswerCalls
  <1>4. CASE LeaveLoop \/ LlmFails \/ RetryRequest \/ AskSingle \/ EndSingle \/ AnswerText
             \/ ForceDone \/ UNCHANGED loopVars
    BY <1>1, <1>4 DEF LeaveLoop, LlmFails, RetryRequest, AskSingle, EndSingle, AnswerText, ForceDone,
                      loopVars, budget, memory
  <1>5. ASSUME NEW reply \in Reply, HandlerRaises(reply) PROVE Cycle'
    BY <1>1, <1>5 DEF HandlerRaises
  <1>6. QED BY <1>2, <1>3, <1>4, <1>5 DEF LoopNext

(* The budget speaks in time: a run that uses up its steps had a request   *)
(* for done alone, and the cadence nudges once per reflect cycle           *)
(* (budget.py: StepBudgetPusher, ReflectCadencePusher).                    *)
THEOREM BudgetSpeaks == Spec => BudgetIsTold
  <1>1. Init => StepsTold /\ Cycle
    BY LoopAssumption, CounterTopNat
    DEF Init, LoopInit, StepsTold, Cycle, OutOfStepsWasTold
  <1>2. [Next]_vars => [LoopNext]_loopVars
    BY DEF Next, vars
  <1>3. StepsTold /\ Cycle /\ [Next]_vars => StepsTold' /\ Cycle'
    BY <1>2, StepsStep, CycleStep
  <1>4. StepsTold' => OutOfStepsWasTold'
    BY DEF StepsTold
  <1>5. Cycle => OneNudgePerCycle
    BY CounterTopNat DEF Cycle, OneNudgePerCycle, Nudges, ReArms
  <1>6. StepsTold /\ Cycle /\ StepsTold' /\ [Next]_vars
        => [OutOfStepsWasTold' /\ OneNudgePerCycle]_loopVars
    BY <1>4, <1>5
  <1>7. QED BY <1>1, <1>3, <1>6, PTL DEF Spec, BudgetIsTold

(***************************************************************************)
(* Asynchronous children.  The parent's thread waits for its calls, so     *)
(* nothing is drained while a call is under way; a child in the queue has  *)
(* ended and was not injected yet.                                         *)
(***************************************************************************)
CallOK(call) ==
    /\ call \in [at : {"none", "wait", "drop"}, want : SUBSET Child,
                 got : SUBSET Child, all : BOOLEAN]
    /\ call.at = "none" => call = NoCall
    /\ call.at = "wait" => call.got = {}

ChildInv ==
    /\ parent \in [at : ParentAt, step : Nat]
    /\ thread \in [Child -> ThreadAt] /\ nudged \in [Child -> Nat]
    /\ await \in [Call -> {call \in [at : {"none", "wait", "drop"}, want : SUBSET Child,
                                     got : SUBSET Child, all : BOOLEAN] : CallOK(call)}]
    /\ parent.at # "tools" => CallsOver
    /\ \A c \in queue : c \in Child /\ thread[c] = "ended" /\ nudged[c] = 0
    /\ \A c \in Child : nudged[c] > 0 => thread[c] = "ended" /\ c \in collected
    /\ NoResultLost /\ NudgedOnce /\ NoSecondReport

(* What the children themselves do: their results appear, and those of a   *)
(* callback child wait in the queue.                                       *)
LEMMA ThreadKeeps == ChildInv /\ ThreadNext => ChildInv'
  <1> SUFFICES ASSUME ChildInv, NEW c \in Child, Store(c) \/ Enqueue(c) \/ Fail(c)
               PROVE  ChildInv'
    BY DEF ThreadNext
  <1> USE ChildrenAssumption
      DEF ChildInv, ThreadAt, NoResultLost, NudgedOnce, NoSecondReport,
          CallsOver, SetThread, shared, history
  <1>1. CASE Store(c)
    BY <1>1 DEF Store
  <1>2. CASE Enqueue(c)
    BY <1>2 DEF Enqueue
  <1>3. CASE Fail(c)
    BY <1>3 DEF Fail
  <1>4. QED BY <1>1, <1>2, <1>3

(* What the parent does between its calls.                                 *)
LEMMA ParentKeeps == ChildInv /\ ParentNext => ChildInv'
  <1> SUFFICES ASSUME ChildInv, ParentNext PROVE ChildInv'
    OBVIOUS
  <1> USE ChildrenAssumption
      DEF ChildInv, ThreadAt, ParentAt, NoResultLost, NudgedOnce,
          NoSecondReport, CallsOver, SetThread, Move, shared, history
  <1>1. CASE Drain
    <2>1. \A i \in Call : await[i] = NoCall
      BY <1>1 DEF Drain
    <2>2. \A c \in Child : nudged'[c] = IF c \in queue THEN nudged[c] + 1 ELSE nudged[c]
      BY <1>1 DEF Drain
    <2>3. nudged' \in [Child -> Nat] /\ NudgedOnce'
      BY <1>1, <2>2 DEF Drain
    <2>4. NoResultLost'
      BY <1>1, <2>2 DEF Drain
    <2>5. NoSecondReport'
      BY <1>1, <2>1 DEF Drain, NoCall
    <2>6. \A c \in Child : nudged'[c] > 0 => thread'[c] = "ended" /\ c \in collected'
      BY <1>1, <2>2 DEF Drain
    <2>7. parent' \in [at : ParentAt, step : Nat] /\ queue' = {} /\ parent'.at = "tools"
      BY <1>1 DEF Drain
    <2>8. QED BY <1>1, <2>3, <2>4, <2>5, <2>6, <2>7 DEF Drain
  <1>2. CASE ToolsDone
    BY <1>2 DEF ToolsDone
  <1>3. ASSUME NEW c \in Child, Spawn(c) PROVE ChildInv'
    BY <1>3 DEF Spawn
  <1>4. CASE StepDone
    BY <1>4 DEF StepDone
  <1>5. CASE LeaveRun
    BY <1>5 DEF LeaveRun
  <1>6. QED BY <1>1, <1>2, <1>3, <1>4, <1>5 DEF ParentNext

(* What the calls do, each on a thread of its own.                         *)
LEMMA AwaitKeeps == ChildInv /\ AwaitNext => ChildInv'
  <1> SUFFICES ASSUME ChildInv, NEW i \in Call,
                      AwaitAll(i) \/ Gather(i) \/ Drop(i) \/ \E c \in Child : AwaitOne(i, c)
               PROVE  ChildInv'
    BY DEF AwaitNext
  <1> USE ChildrenAssumption
      DEF ChildInv, ThreadAt, NoResultLost, NudgedOnce,
          NoSecondReport, CallsOver, SetCall, CallOK, NoCall, shared, history
  <1>1. CASE AwaitAll(i)
    <2> DEFINE call == [NoCall EXCEPT !.at = "wait", !.want = Spawned \ collected, !.all = TRUE]
    <2>1. CallOK(call) /\ call \in [at : {"none", "wait", "drop"}, want : SUBSET Child,
                                    got : SUBSET Child, all : BOOLEAN]
      BY DEF Spawned
    <2>2. \A c \in call.want : c \in Child /\ nudged[c] = 0
      BY DEF Spawned
    <2>3. await[i] = NoCall /\ await' = [await EXCEPT ![i] = call] /\ parent.at = "tools"
          /\ UNCHANGED <<parent, thread, shared, history>>
      BY <1>1 DEF AwaitAll
    <2> HIDE DEF call
    <2>4. NoResultLost'
      BY <2>3
    <2>5. NoSecondReport'
      BY <2>2, <2>3
    <2>6. QED BY <2>1, <2>3, <2>4, <2>5
  <1>2. CASE Gather(i)
    <2> DEFINE call == [await[i] EXCEPT !.at = "drop", !.got = await[i].want \cap results]
    <2>1. CallOK(call) /\ call \in [at : {"none", "wait", "drop"}, want : SUBSET Child,
                                    got : SUBSET Child, all : BOOLEAN]
      OBVIOUS
    <2>2. call.want = await[i].want /\ call.all = await[i].all /\ await[i].got = {}
      BY <1>2 DEF Gather
    <2>3. await' = [await EXCEPT ![i] = call] /\ parent.at = "tools"
          /\ UNCHANGED <<parent, thread, results, queue, history>> /\ collected \subseteq collected'
      BY <1>2 DEF Gather
    <2> HIDE DEF call
    <2>4. NoResultLost'
      BY <2>2, <2>3
    <2>5. NoSecondReport'
      BY <2>2, <2>3
    <2>6. QED BY <2>1, <2>3, <2>4, <2>5
  <1>3. CASE Drop(i)
    <2>1. await' = [await EXCEPT ![i] = NoCall] /\ queue' = queue \ await[i].got
          /\ handed' = handed \cup await[i].got
          /\ UNCHANGED <<parent, thread, results, collected, nudged>>
      BY <1>3 DEF Drop
    <2>2. NoResultLost'
      BY <2>1
    <2>3. NoSecondReport'
      BY <2>1
    <2>4. await' \in [Call -> {call \in [at : {"none", "wait", "drop"}, want : SUBSET Child,
                                         got : SUBSET Child, all : BOOLEAN] : CallOK(call)}]
      BY <2>1
    <2>5. parent.at # "tools" => CallsOver'
      BY <2>1
    <2>6. QED BY <2>1, <2>2, <2>3, <2>4, <2>5
  <1>4. ASSUME NEW c \in Child, AwaitOne(i, c) PROVE ChildInv'
    <2> DEFINE call == [NoCall EXCEPT !.at = "wait", !.want = {c}]
    <2>1. CallOK(call) /\ call \in [at : {"none", "wait", "drop"}, want : SUBSET Child,
                                    got : SUBSET Child, all : BOOLEAN] /\ call.all = FALSE
      OBVIOUS
    <2>2. await[i] = NoCall /\ await' = [await EXCEPT ![i] = call] /\ parent.at = "tools"
          /\ UNCHANGED <<parent, thread, shared, history>>
      BY <1>4 DEF AwaitOne
    <2> HIDE DEF call
    <2>3. NoResultLost'
      BY <2>2
    <2>4. NoSecondReport'
      BY <2>1, <2>2
    <2>5. QED BY <2>1, <2>2, <2>3, <2>4
  <1>5. QED BY <1>1, <1>2, <1>3, <1>4

(* What was handed over or gathered is collected, and the queue holds      *)
(* nothing of it but what has overtaken its thread.                        *)
GatheredInv ==
    /\ handed \subseteq collected /\ overtaken \subseteq collected
    /\ \A i \in Call : await[i].got \subseteq collected
    /\ NotNudgedAgain

LEMMA GatheredStep ==
    ASSUME ChildInv, GatheredInv, [ChildrenNext]_childVars
    PROVE  GatheredInv'
  <1> USE DEF GatheredInv, NotNudgedAgain
  <1>0. await \in [Call -> {call \in [at : {"none", "wait", "drop"}, want : SUBSET Child,
                                      got : SUBSET Child, all : BOOLEAN] : CallOK(call)}]
    BY DEF ChildInv
  <1>1. CASE UNCHANGED childVars
    BY <1>1 DEF childVars, shared, history
  <1>2. CASE ParentNext
    <2>1. /\ UNCHANGED <<await, handed, overtaken>> /\ collected \subseteq collected'
          /\ queue' \subseteq queue
      BY <1>2 DEF ParentNext, Drain, ToolsDone, StepDone, LeaveRun, Spawn, shared, history
    <2>2. QED BY <2>1
  <1>3. ASSUME NEW c \in Child, Store(c) \/ Enqueue(c) \/ Fail(c) PROVE GatheredInv'
    <2>1. /\ UNCHANGED <<collected, await, handed>>
          /\ \/ UNCHANGED <<queue, overtaken>>
             \/ /\ queue' \subseteq queue \cup {c}
                /\ overtaken' = IF c \in collected THEN overtaken \cup {c} ELSE overtaken
      BY <1>3 DEF Store, Enqueue, Fail, shared, history
    <2>2. QED BY <2>1
  <1>4. ASSUME NEW i \in Call PROVE Gather(i) => GatheredInv'
    <2> SUFFICES ASSUME Gather(i) PROVE GatheredInv'
      OBVIOUS
    <2>1. /\ UNCHANGED <<queue, handed, overtaken>>
          /\ collected' = collected \cup (await[i].want \cap results)
          /\ await' = [await EXCEPT ![i] = [await[i] EXCEPT !.at = "drop", !.got = await[i].want \cap results]]
      BY DEF Gather, SetCall, history
    <2>2. await'[i].got = await[i].want \cap results /\ \A j \in Call \ {i} : await'[j] = await[j]
      BY <1>0, <2>1
    <2>3. QED BY <2>1, <2>2
  <1>5. ASSUME NEW i \in Call PROVE Drop(i) => GatheredInv'
    <2> SUFFICES ASSUME Drop(i) PROVE GatheredInv'
      OBVIOUS
    <2>1. /\ UNCHANGED <<collected, overtaken>> /\ queue' = queue \ await[i].got
          /\ handed' = handed \cup await[i].got /\ await' = [await EXCEPT ![i] = NoCall]
      BY DEF Drop, SetCall
    <2>2. await'[i].got = {} /\ \A j \in Call \ {i} : await'[j] = await[j]
      BY <1>0, <2>1 DEF NoCall
    <2>3. QED BY <2>1, <2>2
  <1>6. ASSUME NEW i \in Call, NEW call, call.got = {}, await' = [await EXCEPT ![i] = call],
               UNCHANGED <<shared, history>>
        PROVE  GatheredInv'
    <2>1. await'[i].got = {} /\ \A j \in Call \ {i} : await'[j] = await[j]
      BY <1>0, <1>6
    <2>2. QED BY <1>6, <2>1 DEF shared, history
  <1>7. ASSUME NEW i \in Call PROVE AwaitAll(i) => GatheredInv'
    <2> DEFINE call == [NoCall EXCEPT !.at = "wait", !.want = Spawned \ collected, !.all = TRUE]
    <2>1. call.got = {}
      BY DEF NoCall
    <2>2. AwaitAll(i) => await' = [await EXCEPT ![i] = call] /\ UNCHANGED <<shared, history>>
      BY DEF AwaitAll, SetCall
    <2> HIDE DEF call
    <2>3. QED BY <1>6, <2>1, <2>2
  <1>8. ASSUME NEW i \in Call, NEW c \in Child PROVE AwaitOne(i, c) => GatheredInv'
    <2> DEFINE call == [NoCall EXCEPT !.at = "wait", !.want = {c}]
    <2>1. call.got = {}
      BY DEF NoCall
    <2>2. AwaitOne(i, c) => await' = [await EXCEPT ![i] = call] /\ UNCHANGED <<shared, history>>
      BY DEF AwaitOne, SetCall
    <2> HIDE DEF call
    <2>3. QED BY <1>6, <2>1, <2>2
  <1>9. QED BY <1>1, <1>2, <1>3, <1>4, <1>5, <1>7, <1>8 DEF ChildrenNext, ThreadNext, AwaitNext

(* The result of a callback child reaches the parent: it waits in the      *)
(* queue, was injected, or a call has gathered it.  It is not injected     *)
(* twice, an agent_await for all children never asks for one that was      *)
(* injected, and one that was handed over is injected as well only if the  *)
(* call has overtaken its thread (_run_spawn._run, _drain_async_callbacks, *)
(* _meta_agent_await).                                                     *)
THEOREM ResultsReachTheParent == Spec => []ResultsReportedOnce
  <1>1. Init => ChildInv
    <2> SUFFICES ASSUME ChildrenInit PROVE ChildInv
      BY DEF Init
    <2>1. CallOK(NoCall) /\ NoCall \in [at : {"none", "wait", "drop"}, want : SUBSET Child,
                                        got : SUBSET Child, all : BOOLEAN]
      BY DEF CallOK, NoCall
    <2>2. \A i \in Call : await[i] = NoCall /\ ~await[i].all
      BY DEF ChildrenInit, NoCall
    <2>3. \A c \in Child : nudged[c] = 0 /\ thread[c] = "unborn"
      BY DEF ChildrenInit
    <2>4. NoResultLost /\ NudgedOnce /\ NoSecondReport
      BY <2>2, <2>3, ChildrenAssumption
      DEF NoResultLost, NudgedOnce, NoSecondReport
    <2>5. QED
      BY <2>1, <2>2, <2>3, <2>4 DEF ChildrenInit, ChildInv, ParentAt, ThreadAt, CallsOver
  <1>2. [Next]_vars => ChildrenNext \/ UNCHANGED childVars
    BY DEF Next, vars
  <1>3. ChildInv /\ UNCHANGED childVars => ChildInv'
    BY DEF childVars, shared, history, ChildInv, CallsOver,
           NoResultLost, NudgedOnce, NoSecondReport
  <1>4. ChildInv /\ [Next]_vars => ChildInv'
    BY <1>2, <1>3, ThreadKeeps, ParentKeeps, AwaitKeeps DEF ChildrenNext
  <1>5. Init => GatheredInv
    BY DEF Init, ChildrenInit, NoCall, GatheredInv, NotNudgedAgain
  <1>6. ChildInv /\ GatheredInv /\ [Next]_vars => GatheredInv'
    BY <1>2, GatheredStep
  <1>7. ChildInv /\ GatheredInv => ResultsReportedOnce
    BY DEF ChildInv, GatheredInv, ResultsReportedOnce
  <1>8. QED BY <1>1, <1>4, <1>5, <1>6, <1>7, PTL DEF Spec

(***************************************************************************)
(* Open questions.  An item that is listed is open afterwards, because the *)
(* last item with its id has a text.                                       *)
(***************************************************************************)
SgrInv ==
    /\ seen \subseteq Question
    /\ QuestionsKept

\* The last item of an id is one of the items.
LEMMA LastItem ==
    ASSUME NEW remaining \in Items, NEW q \in Ids(Normalized(remaining))
    PROVE  TextOf(Normalized(remaining), q) \in Text
  <1> DEFINE items == Normalized(remaining)
             hits == {i \in DOMAIN items : items[i].id = q}
  <1>1. PICK n \in 0 .. MaxItems : remaining \in [1 .. n -> Item]
    BY DEF Items
  <1>2. n \in Nat
    BY <1>1, SgrAssumption
  <1>3. DOMAIN items = 1 .. n /\ \A i \in 1 .. n : items[i].text \in Text
    BY <1>1 DEF Normalized, Item
  <1>4. hits \subseteq Nat /\ hits # {} /\ \A i \in hits : i <= n
    BY <1>2, <1>3 DEF Ids
  <1>5. \E i \in hits : \A j \in hits : j <= i
    <2> HIDE DEF hits
    <2>1. QED BY <1>2, <1>4, Greatest
  <1>6. \E i \in DOMAIN items : items[i].id = q /\ \A j \in DOMAIN items : items[j].id = q => j <= i
    BY <1>5
  <1> HIDE DEF items, hits
  <1>7. QED BY <1>3, <1>6 DEF TextOf, items

\* One reflect: what is listed is open, what is not has a resolution.
LEMMA RecordKeeps ==
    ASSUME SgrInv, NEW remaining \in Items, NEW answers \in Answers, NEW level \in Confidence,
           Record(remaining, answers, level)
    PROVE  SgrInv'
  <1> DEFINE ids == Ids(Normalized(remaining))
             closed == OpenIds \ LeftOpen(answers)
             dropped == Dropped(OpenIds \ closed, ids)
  <1>1. ids \subseteq Question /\ listed' = ids /\ seen' = seen \cup ids
    BY DEF Record
  <1>8. /\ open' = [q \in Question |->
               IF q \in ids THEN TextOf(Normalized(remaining), q)
               ELSE IF q \in closed \cup dropped THEN NoText
               ELSE open[q]]
        /\ resolved' = [q \in Question |-> ResolutionOf(q, closed, dropped)]
    BY DEF Record
  <1> HIDE DEF ids, closed, dropped
  <1>2. \A q \in ids : open'[q] # NoText
    BY <1>1, <1>8, LastItem, SgrAssumption DEF ids
  <1>3. \A q \in Question \ ids : open'[q] = IF q \in closed \cup dropped THEN NoText ELSE open[q]
    BY <1>8
  <1>4. \A q \in Question : resolved'[q] =
            IF q \in closed THEN "answered" ELSE IF q \in dropped THEN "implicit" ELSE resolved[q]
    BY <1>8 DEF ResolutionOf
  <1>5. \A q \in OpenIds \ (closed \cup ids) : q \in dropped \/ resolved[q] # "no"
    BY DEF Dropped, dropped
  <1>6. NoQuestionVanishes'
    BY <1>1, <1>2, <1>3, <1>4 DEF SgrInv, QuestionsKept, NoQuestionVanishes, OpenIds
  <1>7. OnlyReopenedLingers'
    BY <1>1, <1>3, <1>4, <1>5 DEF OnlyReopenedLingers, OpenIds
  <1>9. QED BY <1>1, <1>6, <1>7 DEF SgrInv, QuestionsKept

\* The life of a question (record in sgr.py): one that an agent listed is open
\* or has a resolution, and one that lingers unlisted was opened again.
THEOREM QuestionsStay == Spec => []QuestionsKept
  <1>1. Init => SgrInv
    BY SgrAssumption DEF Init, SgrInit, SgrInv, QuestionsKept, NoQuestionVanishes, OnlyReopenedLingers, OpenIds
  <1>2. ASSUME SgrInv, [Next]_vars PROVE SgrInv'
    <2>1. CASE UNCHANGED sgrVars
      BY <1>2, <2>1 DEF sgrVars, SgrInv, QuestionsKept, NoQuestionVanishes, OnlyReopenedLingers, OpenIds
    <2>2. CASE SgrNext
      BY <1>2, <2>2, RecordKeeps DEF SgrNext
    <2>3. QED BY <1>2, <2>1, <2>2 DEF Next, vars
  <1>3. SgrInv => QuestionsKept
    BY DEF SgrInv
  <1>4. QED BY <1>1, <1>2, <1>3, PTL DEF Spec

(***************************************************************************)
(* Chat history.  Every tool message of a list has its opener before it,   *)
(* with nothing but tool messages between; the blocks a step adds bring    *)
(* their own, and a condensation that cuts an opener off leaves its header *)
(* in that place.                                                          *)
(***************************************************************************)
MessageUpTo(n) == [role : Role, by : 0 .. n, size : Nat]

Opens(m, j, i) ==
    /\ m[j].role = "header" \/ (m[j].role = "assistant" /\ m[j].by = m[i].by)
    /\ \A k \in (j + 1) .. (i - 1) : m[k].role = "tool"

Opened(m) == \A i \in 1 .. Len(m) : m[i].role = "tool" => \E j \in 1 .. (i - 1) : Opens(m, j, i)

Headless(m) == \A i \in 1 .. Len(m) : m[i].role # "system"
HeadOnly(m) == \A i \in 1 .. Len(m) : m[i].role = "system" <=> i = 1

Block(m, n) == m \in Seq(MessageUpTo(n)) /\ Opened(m) /\ Headless(m)
List(m, n) == m \in Seq(MessageUpTo(n)) /\ Len(m) >= 1 /\ Opened(m) /\ HeadOnly(m)

ChatInv ==
    /\ strategy \in Strategy /\ chatStep \in Nat
    /\ List(chat, chatStep)

\* A function on 1 .. n is a sequence.
LEMMA FunctionIsSeq == ASSUME NEW S, NEW n \in Nat, NEW f \in [1 .. n -> S] PROVE f \in Seq(S) /\ Len(f) = n
  OBVIOUS

\* Messages of earlier steps are messages of later ones.
LEMMA MessageGrows ==
    ASSUME NEW n \in Nat, NEW k \in Nat, n <= k
    PROVE  Seq(MessageUpTo(n)) \subseteq Seq(MessageUpTo(k))
  <1>1. MessageUpTo(n) \subseteq MessageUpTo(k)
    BY DEF MessageUpTo
  <1> HIDE DEF MessageUpTo
  <1>2. QED BY <1>1

\* A list keeps its openers when a block follows it.
LEMMA BlockFollows ==
    ASSUME NEW n \in Nat, NEW k \in Nat, n <= k,
           NEW m \in Seq(MessageUpTo(n)), NEW b \in Seq(MessageUpTo(k)), Opened(m), Opened(b)
    PROVE  m \o b \in Seq(MessageUpTo(k)) /\ Opened(m \o b)
  <1> DEFINE S == MessageUpTo(k)
             c == m \o b
  <1>1. m \in Seq(S) /\ b \in Seq(S)
    BY MessageGrows
  <1> HIDE DEF S
  <1>2. /\ c \in Seq(S) /\ Len(c) = Len(m) + Len(b)
        /\ \A i \in 1 .. Len(m) : c[i] = m[i]
        /\ \A i \in 1 .. Len(b) : c[Len(m) + i] = b[i]
    BY <1>1
  <1> HIDE DEF c
  <1>3. Len(m) \in Nat /\ Len(b) \in Nat
    BY <1>1
  <1>4. ASSUME NEW i \in 1 .. Len(c), c[i].role = "tool" PROVE \E j \in 1 .. (i - 1) : Opens(c, j, i)
    <2>1. CASE i <= Len(m)
      <3>1. PICK j \in 1 .. (i - 1) : Opens(m, j, i)
        BY <1>2, <1>3, <1>4, <2>1 DEF Opened
      <3>2. Opens(c, j, i)
        <4>1. i \in 1 .. Len(m) /\ j \in 1 .. Len(m) /\ c[i] = m[i] /\ c[j] = m[j]
          BY <1>2, <1>3, <2>1, <3>1
        <4>2. \A h \in (j + 1) .. (i - 1) : h \in 1 .. Len(m)
          BY <1>3, <4>1
        <4>3. QED BY <1>2, <3>1, <4>1, <4>2 DEF Opens
      <3>3. QED BY <3>2
    <2>2. CASE i > Len(m)
      <3>1. i - Len(m) \in 1 .. Len(b) /\ c[i] = b[i - Len(m)]
        BY <1>2, <1>3, <2>2
      <3>2. PICK j \in 1 .. (i - Len(m) - 1) : Opens(b, j, i - Len(m))
        BY <1>4, <3>1 DEF Opened
      <3>3. c[Len(m) + j] = b[j] /\ Len(m) + j \in 1 .. (i - 1)
        BY <1>2, <1>3, <3>1
      <3>4. \A h \in (Len(m) + j + 1) .. (i - 1) : c[h].role = "tool"
        <4>1. TAKE h \in (Len(m) + j + 1) .. (i - 1)
        <4>2. h - Len(m) \in (j + 1) .. (i - Len(m) - 1) /\ h - Len(m) \in 1 .. Len(b)
          BY <1>2, <1>3, <2>2, <3>2
        <4>3. c[h] = b[h - Len(m)]
          <5>1. c[Len(m) + (h - Len(m))] = b[h - Len(m)]
            BY <1>2, <4>2
          <5>2. QED BY <1>3, <5>1
        <4>4. QED BY <3>2, <4>2, <4>3 DEF Opens
      <3>5. Opens(c, Len(m) + j, i)
        BY <3>1, <3>2, <3>3, <3>4 DEF Opens
      <3>6. QED BY <3>3, <3>5
    <2>3. QED BY <1>2, <1>3, <2>1, <2>2
  <1>5. QED BY <1>2, <1>4 DEF c, S, Opened

\* A block appended to a list gives a list.
LEMMA ListGrows ==
    ASSUME NEW n \in Nat, NEW k \in Nat, n <= k, NEW m, NEW b, List(m, n), Block(b, k)
    PROVE  List(m \o b, k)
  <1>1. m \o b \in Seq(MessageUpTo(k)) /\ Opened(m \o b)
    BY BlockFollows DEF List, Block
  <1>2. m \in Seq(MessageUpTo(k)) /\ b \in Seq(MessageUpTo(k)) /\ Len(m) >= 1 /\ HeadOnly(m) /\ Headless(b)
    BY MessageGrows DEF List, Block
  <1> DEFINE S == MessageUpTo(k)
  <1> HIDE DEF S
  <1>3. Len(m \o b) >= 1 /\ HeadOnly(m \o b)
    BY <1>2 DEF S, HeadOnly, Headless
  <1>4. QED BY <1>1, <1>3 DEF List

\* Two blocks make a block.
LEMMA BlockGrows ==
    ASSUME NEW k \in Nat, NEW a, NEW b, Block(a, k), Block(b, k)
    PROVE  Block(a \o b, k)
  <1>1. a \o b \in Seq(MessageUpTo(k)) /\ Opened(a \o b)
    BY BlockFollows DEF Block
  <1>2. a \in Seq(MessageUpTo(k)) /\ b \in Seq(MessageUpTo(k)) /\ Headless(a) /\ Headless(b)
    BY DEF Block
  <1>3. Headless(a \o b)
    BY <1>2 DEF Headless
  <1>4. QED BY <1>1, <1>3 DEF Block

\* A single message that is no tool message is a block.
LEMMA OneMessage ==
    ASSUME NEW k \in Nat, NEW by \in 0 .. k, NEW role \in {"user", "assistant"}
    PROVE  Block(<<Message(role, by, 1)>>, k)
  <1> DEFINE b == <<Message(role, by, 1)>>
  <1>1. Message(role, by, 1) \in MessageUpTo(k) /\ Message(role, by, 1).role = role
    BY DEF Message, MessageUpTo, Role
  <1>2. b \in Seq(MessageUpTo(k)) /\ Len(b) = 1 /\ b[1].role = role
    BY <1>1
  <1> HIDE DEF b
  <1>3. QED BY <1>2 DEF Block, Opened, Headless, b

\* The tool messages of a step follow the message with its calls.
LEMMA CallsAndResults ==
    ASSUME chatStep \in Nat, NEW n \in Nat, NEW sizes \in [1 .. n -> Nat]
    PROVE  Block(StepMessages(n, sizes), chatStep + 1)
  <1> DEFINE k == chatStep + 1
             S == MessageUpTo(k)
             call == Message("assistant", k, 1)
             tools == [i \in 1 .. n |-> Message("tool", k, sizes[i])]
             b == StepMessages(n, sizes)
  <1>1. call \in S /\ \A i \in 1 .. n : Message("tool", k, sizes[i]) \in S
    BY DEF Message, MessageUpTo, Role
  <1>2. call.role = "assistant" /\ call.by = k
        /\ \A i \in 1 .. n : tools[i].role = "tool" /\ tools[i].by = k
    BY DEF Message
  <1> HIDE DEF S
  <1>3. tools \in Seq(S) /\ Len(tools) = n
    BY <1>1
  <1>4. b = <<call>> \o tools
    BY DEF StepMessages
  <1> HIDE DEF call, tools, b
  <1>5. /\ b \in Seq(S) /\ Len(b) = n + 1 /\ b[1] = call
        /\ \A i \in 2 .. (n + 1) : b[i] = tools[i - 1]
    BY <1>1, <1>3, <1>4
  <1>6. \A i \in 2 .. (n + 1) : b[i].role = "tool" /\ b[i].by = k
    <2>1. TAKE i \in 2 .. (n + 1)
    <2>2. i - 1 \in 1 .. n
      OBVIOUS
    <2>3. QED BY <1>2, <1>5, <2>2
  <1>7. \A i \in 2 .. (n + 1) : Opens(b, 1, i)
    BY <1>2, <1>5, <1>6 DEF Opens
  <1>8. Opened(b) /\ Headless(b)
    <2>1. \A i \in 1 .. (n + 1) : i = 1 \/ i \in 2 .. (n + 1)
      OBVIOUS
    <2>2. \A i \in 2 .. (n + 1) : 1 \in 1 .. (i - 1)
      OBVIOUS
    <2>3. QED BY <1>2, <1>5, <1>6, <1>7, <2>1, <2>2 DEF Opened, Headless
  <1>9. QED BY <1>5, <1>8 DEF Block, S, b

\* The head, the header and the newest PreserveLast messages.
CutTo(m) ==
    [i \in 1 .. (PreserveLast + 2) |->
        IF i = 1 THEN m[1] ELSE IF i = 2 THEN Header ELSE m[i + (Len(m) - PreserveLast - 2)]]

\* The cut keeps the head, and its header opens what it cuts off.
LEMMA CutKeepsList ==
    ASSUME NEW n \in Nat, NEW m, List(m, n), PreserveLast <= Len(m) - 1
    PROVE  List(CutTo(m), n) /\ Len(CutTo(m)) = PreserveLast + 2
  <1> DEFINE S == MessageUpTo(n)
             r == CutTo(m)
             d == Len(m) - PreserveLast - 2
  <1>1. PreserveLast \in Nat /\ Len(m) \in Nat /\ d \in Int /\ d >= -1 /\ m \in Seq(S) /\ Len(m) >= 1
    BY ChatAssumption DEF List
  <1>2. Header \in S /\ Header.role = "header"
    BY DEF Header, Message, MessageUpTo, Role
  <1> HIDE DEF S
  <1>3. \A i \in 3 .. (PreserveLast + 2) : i + d \in 2 .. Len(m)
    BY <1>1
  <1>4. /\ r[1] = m[1] /\ r[2] = Header
        /\ \A i \in 3 .. (PreserveLast + 2) : r[i] = m[i + d]
    BY <1>1 DEF CutTo
  <1>5. r \in Seq(S) /\ Len(r) = PreserveLast + 2
    <2>1. \A i \in 1 .. (PreserveLast + 2) : r[i] \in S
      BY <1>1, <1>2, <1>3, <1>4
    <2>2. r = [i \in 1 .. (PreserveLast + 2) |-> r[i]]
      BY DEF CutTo
    <2>3. DOMAIN r = 1 .. (PreserveLast + 2)
      BY DEF CutTo
    <2> HIDE DEF r
    <2>4. r \in [1 .. (PreserveLast + 2) -> S]
      BY <2>1, <2>2, <2>3
    <2>5. PreserveLast + 2 \in Nat
      BY <1>1
    <2>6. QED BY <2>4, <2>5, FunctionIsSeq
  <1> HIDE DEF r, d
  <1>6. HeadOnly(r)
    <2>1. \A i \in 1 .. Len(m) : m[i].role = "system" <=> i = 1
      BY DEF List, HeadOnly
    <2>2. \A i \in 3 .. (PreserveLast + 2) : r[i].role # "system"
      BY <1>1, <1>3, <1>4, <2>1
    <2>3. r[1].role = "system" /\ r[2].role # "system"
      BY <1>1, <1>2, <1>4, <2>1
    <2>4. QED BY <1>1, <1>5, <2>2, <2>3 DEF HeadOnly
  <1>7. ASSUME NEW i \in 1 .. Len(r), r[i].role = "tool" PROVE \E j \in 1 .. (i - 1) : Opens(r, j, i)
    <2>1. i \in 3 .. (PreserveLast + 2)
      <3>1. m[1].role = "system"
        BY <1>1 DEF List, HeadOnly
      <3>2. QED BY <1>1, <1>2, <1>4, <1>5, <1>7, <3>1
    <2>2. i + d \in 2 .. Len(m) /\ r[i] = m[i + d]
      BY <1>3, <1>4, <2>1
    <2>3. PICK j \in 1 .. (i + d - 1) : Opens(m, j, i + d)
      BY <1>7, <1>1, <2>2 DEF List, Opened
    <2>4. CASE j - d >= 3
      <3>1. j - d \in 3 .. (PreserveLast + 2) /\ r[j - d] = m[j] /\ j - d \in 1 .. (i - 1)
        <4>1. j - d \in 3 .. (PreserveLast + 2) /\ j - d \in 1 .. (i - 1)
          BY <1>1, <2>1, <2>2, <2>4
        <4>2. r[j - d] = m[(j - d) + d]
          BY <1>4, <4>1
        <4>3. (j - d) + d = j
          BY <1>1, <2>2
        <4>4. QED BY <4>1, <4>2, <4>3
      <3>2. \A h \in (j - d + 1) .. (i - 1) : r[h].role = "tool"
        <4>1. TAKE h \in (j - d + 1) .. (i - 1)
        <4>2. h \in 3 .. (PreserveLast + 2) /\ h + d \in (j + 1) .. (i + d - 1)
          BY <1>1, <2>1, <2>4, <3>1
        <4>3. m[h + d].role = "tool"
          BY <1>1, <2>1, <2>3, <4>2 DEF Opens
        <4>4. QED BY <1>4, <4>2, <4>3
      <3>3. Opens(r, j - d, i)
        BY <2>2, <2>3, <3>1, <3>2 DEF Opens
      <3>4. QED BY <3>1, <3>3
    <2>5. CASE j - d < 3
      <3>1. \A h \in 3 .. (i - 1) : r[h].role = "tool"
        <4>1. TAKE h \in 3 .. (i - 1)
        <4>2. h \in 3 .. (PreserveLast + 2) /\ h + d \in (j + 1) .. (i + d - 1)
          BY <1>1, <2>1, <2>2, <2>5
        <4>3. m[h + d].role = "tool"
          BY <1>1, <2>1, <2>3, <4>2 DEF Opens
        <4>4. QED BY <1>4, <4>2, <4>3
      <3>2. Opens(r, 2, i)
        BY <1>2, <1>4, <3>1 DEF Opens
      <3>3. QED BY <1>1, <2>1, <3>2
    <2>6. QED BY <1>1, <2>2, <2>4, <2>5
  <1>8. QED BY <1>1, <1>5, <1>6, <1>7 DEF List, Opened, S, r

\* How many of the newest messages a condensation preserves.
Kept(m) == IF PreserveLast >= Len(m) - 1 THEN Len(m) - 1 ELSE PreserveLast

KeepsNewest(m, r) ==
    /\ Len(r) >= Kept(m)
    /\ \A i \in 1 .. Kept(m) : r[Len(r) - Kept(m) + i] = m[Len(m) - Kept(m) + i]

\* The head of a list, its body and the messages a cut keeps.
LEMMA Parts ==
    ASSUME NEW n \in Nat, NEW m, List(m, n)
    PROVE  /\ SystemPart(m) = <<m[1]>>
           /\ BodyPart(m) \in Seq(MessageUpTo(n)) /\ Len(BodyPart(m)) = Len(m) - 1
           /\ \A i \in 1 .. (Len(m) - 1) : BodyPart(m)[i] = m[i + 1]
           /\ Kept(m) \in 0 .. (Len(m) - 1)
           /\ Recent(BodyPart(m)) \in Seq(MessageUpTo(n))
           /\ Len(Recent(BodyPart(m))) = Kept(m)
           /\ \A i \in 1 .. Kept(m) : Recent(BodyPart(m))[i] = m[Len(m) - Kept(m) + i]
  <1> DEFINE S == MessageUpTo(n)
             body == BodyPart(m)
  <1>1. m \in Seq(S) /\ Len(m) >= 1 /\ m[1].role = "system" /\ Len(m) \in Nat /\ PreserveLast \in Nat
    BY ChatAssumption DEF List, HeadOnly
  <1> HIDE DEF S
  <1>2. m # <<>> /\ Head(m) = m[1]
    BY <1>1
  <1>3. SystemPart(m) = <<m[1]>> /\ body = Tail(m)
    BY <1>1, <1>2 DEF SystemPart, BodyPart, HasSystem
  <1>4. /\ body \in Seq(S) /\ Len(body) = Len(m) - 1
        /\ \A i \in 1 .. (Len(m) - 1) : body[i] = m[i + 1]
    BY <1>1, <1>2, <1>3, HeadTailProperties
  <1> HIDE DEF body
  <1>5. Kept(m) \in 0 .. (Len(m) - 1)
    BY <1>1 DEF Kept
  <1>6. CASE PreserveLast >= Len(body)
    BY <1>1, <1>3, <1>4, <1>5, <1>6 DEF Recent, Kept, S, body
  <1>7. CASE PreserveLast < Len(body)
    <2> DEFINE r == SubSeq(body, Len(body) - PreserveLast + 1, Len(body))
    <2>1. Recent(body) = r /\ Kept(m) = PreserveLast
      <3>1. ~(PreserveLast >= Len(body)) /\ ~(PreserveLast >= Len(m) - 1)
        BY <1>1, <1>4, <1>7
      <3>2. QED BY <3>1 DEF Recent, Kept
    <2>2. /\ r \in Seq(S) /\ Len(r) = PreserveLast
          /\ \A i \in 1 .. PreserveLast : r[i] = body[Len(body) - PreserveLast + i]
      BY <1>1, <1>4, <1>7, SubSeqProperties
    <2>3. \A i \in 1 .. PreserveLast : body[Len(body) - PreserveLast + i] = m[Len(m) - PreserveLast + i]
      <3>1. TAKE i \in 1 .. PreserveLast
      <3>2. Len(body) - PreserveLast + i \in 1 .. (Len(m) - 1)
            /\ Len(body) - PreserveLast + i + 1 = Len(m) - PreserveLast + i
        BY <1>1, <1>4, <1>7
      <3>3. QED BY <1>4, <3>2
    <2> HIDE DEF r
    <2>4. QED BY <1>3, <1>4, <1>5, <2>1, <2>2, <2>3 DEF S, body
  <1>8. QED BY <1>1, <1>4, <1>6, <1>7

\* What keeps the newest messages ends with them.
LEMMA NewestAreSuffix ==
    ASSUME NEW n \in Nat, NEW k \in Nat, NEW m, NEW r \in Seq(MessageUpTo(k)), List(m, n), n <= k, KeepsNewest(m, r)
    PROVE  IsSuffix(Recent(BodyPart(m)), r)
  <1> DEFINE S == MessageUpTo(k)
             t == Recent(BodyPart(m))
             rt == Reverse(t)
             rr == Reverse(r)
  <1>1. t \in Seq(S) /\ Len(t) = Kept(m) /\ Kept(m) \in Nat
        /\ \A i \in 1 .. Len(t) : t[i] = m[Len(m) - Kept(m) + i]
    BY Parts, MessageGrows DEF List
  <1>2. r \in Seq(S) /\ Len(r) >= Len(t) /\ \A i \in 1 .. Len(t) : t[i] = r[Len(r) - Len(t) + i]
    BY <1>1 DEF KeepsNewest
  <1> HIDE DEF S, t
  <1>3. /\ rt \in Seq(S) /\ Len(rt) = Len(t) /\ \A i \in 1 .. Len(t) : rt[i] = t[Len(t) - i + 1]
        /\ rr \in Seq(S) /\ Len(rr) = Len(r) /\ \A i \in 1 .. Len(r) : rr[i] = r[Len(r) - i + 1]
    <2>1. \A q \in Seq(S) : Reverse(q) \in [1 .. Len(q) -> S] /\ \A i \in 1 .. Len(q) : Reverse(q)[i] = q[Len(q) - i + 1]
      BY DEF Reverse
    <2>2. \A q \in Seq(S) : Reverse(q) \in Seq(S) /\ Len(Reverse(q)) = Len(q)
      <3>1. \A q \in Seq(S) : Len(q) \in Nat
        OBVIOUS
      <3>2. QED BY <2>1, <3>1, FunctionIsSeq
    <2>3. QED BY <1>1, <1>2, <2>1, <2>2
  <1> HIDE DEF rt, rr
  <1>4. \A i \in 1 .. Len(t) : rt[i] = rr[i]
    <2>1. TAKE i \in 1 .. Len(t)
    <2>2. Len(t) - i + 1 \in 1 .. Len(t) /\ Len(r) - Len(t) + (Len(t) - i + 1) = Len(r) - i + 1 /\ i \in 1 .. Len(r)
      BY <1>1, <1>2
    <2>3. t[Len(t) - i + 1] = r[Len(r) - i + 1]
      BY <1>2, <2>2
    <2>4. QED BY <1>3, <2>2, <2>3
  <1>5. SubSeq(rt, 1, Len(rt)) = SubSeq(rr, 1, Len(rt))
    <2>1. SubSeq(rt, 1, Len(t)) = [i \in 1 .. Len(t) |-> rt[i]] /\ SubSeq(rr, 1, Len(t)) = [i \in 1 .. Len(t) |-> rr[i]]
      BY <1>1, <1>2, <1>3
    <2>2. QED BY <1>3, <1>4, <2>1
  <1>6. QED BY <1>2, <1>3, <1>5 DEF IsSuffix, IsPrefix, rt, rr, t

\* Both summarising condensers leave a list alone or cut it.
LEMMA SummaryCuts ==
    ASSUME NEW n \in Nat, NEW m, List(m, n), NEW r,
           r = LlmSummary(m) \/ r = SlidingWindow(m)
    PROVE  r = m \/ (PreserveLast < Len(m) - 1 /\ r = CutTo(m))
  <1> DEFINE S == MessageUpTo(n)
             body == BodyPart(m)
             c == SystemPart(m) \o <<Header>> \o Recent(body)
  <1>1. m \in Seq(S) /\ Len(m) >= 1 /\ Len(m) \in Nat /\ PreserveLast \in Nat /\ m[1] \in S
    BY ChatAssumption DEF List
  <1>2. Header \in S
    BY DEF Header, Message, MessageUpTo, Role
  <1>3. /\ SystemPart(m) = <<m[1]>> /\ Recent(body) \in Seq(S) /\ Len(Recent(body)) = Kept(m)
        /\ \A i \in 1 .. Kept(m) : Recent(body)[i] = m[Len(m) - Kept(m) + i]
        /\ Len(body) = Len(m) - 1
    BY Parts
  <1> HIDE DEF S, body
  <1>4. ASSUME PreserveLast < Len(m) - 1 PROVE c = CutTo(m)
    <2>1. Kept(m) = PreserveLast
      BY <1>1, <1>4 DEF Kept
    <2>2. /\ c \in Seq(S) /\ Len(c) = PreserveLast + 2 /\ c[1] = m[1] /\ c[2] = Header
          /\ \A i \in 3 .. (PreserveLast + 2) : c[i] = Recent(body)[i - 2]
      BY <1>1, <1>2, <1>3, <2>1
    <2>3. \A i \in 3 .. (PreserveLast + 2) : c[i] = m[i + (Len(m) - PreserveLast - 2)]
      <3>1. TAKE i \in 3 .. (PreserveLast + 2)
      <3>2. i - 2 \in 1 .. PreserveLast /\ Len(m) - PreserveLast + (i - 2) = i + (Len(m) - PreserveLast - 2)
        BY <1>1
      <3>3. QED BY <1>3, <2>1, <2>2, <3>2
    <2>4. c = [i \in 1 .. (PreserveLast + 2) |-> c[i]]
      BY <2>2
    <2> HIDE DEF c
    <2>5. \A i \in 1 .. (PreserveLast + 2) : c[i] = CutTo(m)[i]
      BY <1>1, <2>2, <2>3 DEF CutTo
    <2>6. CutTo(m) = [i \in 1 .. (PreserveLast + 2) |-> CutTo(m)[i]]
      BY DEF CutTo
    <2>7. QED BY <2>4, <2>5, <2>6
  <1>5. CASE r = SlidingWindow(m)
    <2>1. CASE PreserveLast < Len(m) - 1
      BY <1>4, <1>5, <2>1 DEF SlidingWindow, body
    <2>2. CASE ~(PreserveLast < Len(m) - 1)
      <3>1. Recent(body) = body
        BY <1>1, <1>3, <2>2 DEF Recent
      <3>2. Older(body) = <<>>
        BY <1>1, <1>3, <3>1 DEF Older
      <3>3. QED BY <1>5, <3>2 DEF SlidingWindow, body
    <2>3. QED BY <2>1, <2>2
  <1>6. CASE r = LlmSummary(m)
    <2>1. CASE Len(m) <= PreserveLast + 1
      BY <1>6, <2>1 DEF LlmSummary
    <2>2. CASE ~(Len(m) <= PreserveLast + 1) /\ PreserveLast # 0
      <3>1. PreserveLast < Len(m) - 1
        BY <1>1, <2>2
      <3>2. QED BY <1>4, <1>6, <2>2, <3>1 DEF LlmSummary, body
    <2>3. CASE ~(Len(m) <= PreserveLast + 1) /\ PreserveLast = 0
      <3>1. PreserveLast < Len(m) - 1
        BY <1>1, <2>3
      <3>2. Recent(body) = <<>>
        BY <1>3, <3>1, <2>3 DEF Kept
      <3>3. QED BY <1>4, <1>6, <2>3, <3>1, <3>2 DEF LlmSummary
    <2>4. QED BY <2>1, <2>2, <2>3
  <1>7. QED BY <1>5, <1>6

\* A cut keeps the list and its newest messages.
LEMMA SummaryKeeps ==
    ASSUME NEW n \in Nat, NEW m, List(m, n), NEW r,
           r = LlmSummary(m) \/ r = SlidingWindow(m)
    PROVE  List(r, n) /\ KeepsNewest(m, r)
  <1>1. Len(m) \in Nat /\ PreserveLast \in Nat /\ Len(m) >= 1
    BY ChatAssumption DEF List
  <1>2. CASE r = m
    BY <1>1, <1>2 DEF KeepsNewest, Kept
  <1>3. CASE PreserveLast < Len(m) - 1 /\ r = CutTo(m)
    <2>1. List(r, n) /\ Len(r) = PreserveLast + 2 /\ Kept(m) = PreserveLast
      BY <1>1, <1>3, CutKeepsList DEF Kept
    <2>2. \A i \in 1 .. PreserveLast : r[2 + i] = m[Len(m) - PreserveLast + i]
      BY <1>1, <1>3 DEF CutTo
    <2>3. QED BY <1>1, <2>1, <2>2 DEF KeepsNewest
  <1>4. QED BY <1>2, <1>3, SummaryCuts

\* Shortened tool results keep their place.
LEMMA DropKeeps ==
    ASSUME NEW n \in Nat, NEW m, List(m, n)
    PROVE  List(DropToolResults(m), n) /\ Len(DropToolResults(m)) = Len(m) /\ KeepsNewest(m, DropToolResults(m))
  <1> DEFINE S == MessageUpTo(n)
             r == DropToolResults(m)
  <1>1. Len(m) \in Nat /\ PreserveLast \in Nat /\ Len(m) >= 1 /\ m \in Seq(S) /\ Short \in Nat
    BY ChatAssumption DEF List
  <1>2. \A i \in 1 .. Len(m) : m[i] \in S
    BY <1>1
  <1>3. \A i \in 1 .. Len(m) : r[i] \in S /\ r[i].role = m[i].role /\ r[i].by = m[i].by
    <2>1. TAKE i \in 1 .. Len(m)
    <2>2. m[i] \in [role : Role, by : 0 .. n, size : Nat]
      BY <1>2 DEF MessageUpTo
    <2> DEFINE e == IF m[i].size > Short THEN Short ELSE m[i].size
    <2>3. e \in Nat
      BY <1>1, <2>2
    <2>4. r[i] = [m[i] EXCEPT !.size = e] \/ r[i] = m[i]
      BY <1>1 DEF DropToolResults
    <2> HIDE DEF e, r
    <2>5. QED BY <2>2, <2>3, <2>4 DEF MessageUpTo
  <1>4. \A i \in 1 .. Len(m) : i > Len(m) - PreserveLast => r[i] = m[i]
    BY <1>1 DEF DropToolResults
  <1>5. r \in Seq(S) /\ Len(r) = Len(m)
    <2>1. r = [i \in 1 .. Len(m) |-> r[i]]
      BY <1>1 DEF DropToolResults
    <2> HIDE DEF r, S
    <2>2. r \in [1 .. Len(m) -> S]
      BY <1>3, <2>1
    <2>3. QED BY <1>1, <2>2, FunctionIsSeq
  <1> HIDE DEF r, S
  <1>6. HeadOnly(r)
    BY <1>3, <1>5 DEF HeadOnly, List
  <1>7. ASSUME NEW i \in 1 .. Len(r), r[i].role = "tool" PROVE \E j \in 1 .. (i - 1) : Opens(r, j, i)
    <2>1. PICK j \in 1 .. (i - 1) : Opens(m, j, i)
      BY <1>3, <1>5, <1>7 DEF List, Opened
    <2>2. i \in 1 .. Len(m) /\ j \in 1 .. Len(m) /\ \A h \in (j + 1) .. (i - 1) : h \in 1 .. Len(m)
      BY <1>1, <1>5
    <2>3. Opens(r, j, i)
      BY <1>3, <2>1, <2>2 DEF Opens
    <2>4. QED BY <2>3
  <1>8. KeepsNewest(m, r)
    <2>1. Kept(m) \in 0 .. Len(m) /\ Kept(m) <= PreserveLast
      BY <1>1 DEF Kept
    <2>2. QED BY <1>1, <1>4, <1>5, <2>1 DEF KeepsNewest
  <1>9. QED BY <1>1, <1>5, <1>6, <1>7, <1>8 DEF List, Opened, r, S

\* Whatever the strategy.
LEMMA CondenseKeeps ==
    ASSUME NEW n \in Nat, NEW m, List(m, n), strategy \in Strategy
    PROVE  List(Condense(m), n) /\ KeepsNewest(m, Condense(m))
  <1>1. strategy \in {"llm_summary", "sliding_window", "drop_tool_results", "hybrid"}
    BY ChatAssumption
  <1>2. CASE strategy = "llm_summary"
    BY <1>2, SummaryKeeps DEF Condense
  <1>3. CASE strategy = "sliding_window"
    BY <1>3, SummaryKeeps DEF Condense
  <1>4. CASE strategy = "drop_tool_results"
    BY <1>4, DropKeeps DEF Condense
  <1>5. CASE strategy = "hybrid"
    <2> DEFINE d == DropToolResults(m)
               r == LlmSummary(d)
    <2>1. List(d, n) /\ Len(d) = Len(m) /\ KeepsNewest(m, d)
      BY DropKeeps
    <2>2. List(r, n) /\ KeepsNewest(d, r)
      BY <2>1, SummaryKeeps
    <2>3. Condense(m) = IF ShouldCondense(d) THEN r ELSE d
      BY <1>5 DEF Condense, Hybrid
    <2> HIDE DEF d, r
    <2>4. KeepsNewest(m, r)
      BY <2>1, <2>2 DEF KeepsNewest, Kept
    <2>5. QED BY <2>1, <2>2, <2>3, <2>4
  <1>6. QED BY <1>1, <1>2, <1>3, <1>4, <1>5

\* A step adds blocks, and then may condense (_run_react, _maybe_condense).
LEMMA ChatMoves ==
    ASSUME ChatInv, ChatNext
    PROVE  ChatInv' /\ (condensed' # condensed => IsSuffix(Recent(BodyPart(condensed')), chat'))
  <1> DEFINE k == chatStep + 1
  <1>1. /\ strategy \in Strategy /\ chatStep \in Nat /\ k \in Nat /\ chatStep <= k
        /\ List(chat, chatStep) /\ chatStep' = k /\ strategy' = strategy
    BY DEF ChatInv, ChatNext, ToolStep, GuardStep, NextStep
  <1>2. Block(<<Message("user", k, 1)>>, k) /\ Block(<<Message("assistant", k, 1)>>, k) /\ Block(<<>>, k)
    <2>1. Block(<<>>, k)
      BY DEF Block, Opened, Headless
    <2>2. QED BY <1>1, <2>1, OneMessage
  <1>3. CASE ToolStep
    <2>1. PICK nudge \in {<<>>, <<Message("user", chatStep + 1, 1)>>}, n \in 1 .. MaxToolCalls :
            \E sizes \in [1 .. n -> {Long, Short}] :
                LET messages == chat \o nudge \o StepMessages(n, sizes) IN
                IF ShouldCondense(messages)
                THEN chat' = Condense(messages) /\ condensed' = messages
                ELSE chat' = messages /\ UNCHANGED condensed
      BY <1>3 DEF ToolStep
    <2>2. PICK sizes \in [1 .. n -> {Long, Short}] :
            LET messages == chat \o nudge \o StepMessages(n, sizes) IN
            IF ShouldCondense(messages)
            THEN chat' = Condense(messages) /\ condensed' = messages
            ELSE chat' = messages /\ UNCHANGED condensed
      BY <2>1
    <2> DEFINE messages == chat \o nudge \o StepMessages(n, sizes)
    <2>3. n \in Nat /\ sizes \in [1 .. n -> Nat]
      BY ChatAssumption
    <2>4. Block(StepMessages(n, sizes), k)
      BY <1>1, <2>3, CallsAndResults
    <2>5. List(chat \o nudge, k)
      BY <1>1, <1>2, ListGrows
    <2>6. List(messages, k)
      BY <1>1, <2>4, <2>5, ListGrows
    <2>7. List(Condense(messages), k) /\ KeepsNewest(messages, Condense(messages))
      BY <1>1, <2>6, CondenseKeeps
    <2>8. IsSuffix(Recent(BodyPart(messages)), Condense(messages))
      <3>1. Condense(messages) \in Seq(MessageUpTo(k))
        BY <2>7 DEF List
      <3>2. QED BY <1>1, <2>6, <2>7, <3>1, NewestAreSuffix
    <2>9. \/ chat' = Condense(messages) /\ condensed' = messages
          \/ chat' = messages /\ condensed' = condensed
      BY <2>2
    <2> HIDE DEF messages
    <2>10. QED BY <1>1, <2>6, <2>7, <2>8, <2>9 DEF ChatInv
  <1>4. CASE GuardStep
    <2>1. condensed' = condensed
      BY <1>4 DEF GuardStep
    <2>2. CASE chat' = chat \o <<Message("assistant", chatStep + 1, 1), Message("user", chatStep + 1, 1)>>
      <3>1. <<Message("assistant", k, 1), Message("user", k, 1)>>
                = <<Message("assistant", k, 1)>> \o <<Message("user", k, 1)>>
        OBVIOUS
      <3>2. Block(<<Message("assistant", k, 1), Message("user", k, 1)>>, k)
        BY <1>1, <1>2, <3>1, BlockGrows
      <3>3. List(chat', k)
        BY <1>1, <2>2, <3>2, ListGrows
      <3>4. QED BY <1>1, <2>1, <3>3 DEF ChatInv
    <2>3. CASE chat' = chat \o StepMessages(1, <<Short>>) \o <<Message("user", chatStep + 1, 1)>>
      <3>1. <<Short>> \in [1 .. 1 -> Nat]
        BY ChatAssumption
      <3>2. List(chat \o StepMessages(1, <<Short>>), k)
        BY <1>1, <3>1, CallsAndResults, ListGrows
      <3>3. List(chat', k)
        BY <1>1, <1>2, <2>3, <3>2, ListGrows
      <3>4. QED BY <1>1, <2>1, <3>3 DEF ChatInv
    <2>4. QED BY <1>4, <2>2, <2>3 DEF GuardStep
  <1>5. QED BY <1>3, <1>4 DEF ChatNext

\* The first two messages are a list.
LEMMA ChatStart == ChatInit => ChatInv
  <1> SUFFICES ASSUME ChatInit PROVE ChatInv
    OBVIOUS
  <1> DEFINE a == Message("system", 0, 1)
             b == Message("user", 0, 1)
  <1>1. a \in MessageUpTo(0) /\ b \in MessageUpTo(0) /\ a.role = "system" /\ b.role = "user"
    BY DEF Message, MessageUpTo, Role
  <1>2. chat = <<a, b>> /\ strategy \in Strategy /\ chatStep = 0
    BY DEF ChatInit
  <1> HIDE DEF a, b
  <1>3. chat \in Seq(MessageUpTo(0)) /\ Len(chat) = 2 /\ chat[1] = a /\ chat[2] = b
    BY <1>1, <1>2
  <1>4. Opened(chat) /\ HeadOnly(chat)
    BY <1>1, <1>3 DEF Opened, HeadOnly
  <1>5. QED BY <1>2, <1>3, <1>4 DEF ChatInv, List

\* Before a run of tool messages there is one message that is none.
LEMMA ListIsKept == ChatInv => OneSystemAtHead /\ OrphansOnlyAtTheCut
  <1> SUFFICES ASSUME ChatInv PROVE OneSystemAtHead /\ OrphansOnlyAtTheCut
    OBVIOUS
  <1>1. Len(chat) \in Nat /\ DOMAIN chat = 1 .. Len(chat) /\ HeadOnly(chat) /\ Opened(chat)
    BY DEF ChatInv, List
  <1>2. ASSUME NEW i \in 1 .. Len(chat), chat[i].role = "tool"
        PROVE  \/ Opener(i).role = "assistant" /\ Opener(i).by = chat[i].by
               \/ Opener(i).role = "header"
    <2> DEFINE before == {j \in 1 .. (i - 1) : chat[j].role # "tool"}
    <2>1. PICK j \in 1 .. (i - 1) : Opens(chat, j, i)
      BY <1>1, <1>2 DEF Opened
    <2>2. j \in before /\ \A h \in before : h <= j
      BY <2>1 DEF Opens
    <2>3. (CHOOSE x \in before : \A h \in before : h <= x) = j
      BY <2>2
    <2>4. Opener(i) = chat[j]
      BY <2>3 DEF Opener
    <2>5. QED BY <2>1, <2>4 DEF Opens
  <1>3. QED BY <1>1, <1>2 DEF OneSystemAtHead, HeadOnly, OrphansOnlyAtTheCut

\* The message list an agent sends (condense in condensation.py): its system
\* message stays at the head, a tool result follows its calls or the header of
\* a cut, and the newest messages survive a condensation.
THEOREM HistoryStays == Spec => HistoryKept
  <1>1. Init => ChatInv
    BY ChatStart DEF Init
  <1>2. ASSUME ChatInv, [Next]_vars
        PROVE  ChatInv' /\ [condensed' # condensed =>
                  IsSuffix(Recent(BodyPart(condensed')), chat')]_chatVars
    <2>1. CASE UNCHANGED chatVars
      BY <1>2, <2>1 DEF chatVars, ChatInv
    <2>2. CASE ChatNext
      BY <1>2, <2>2, ChatMoves
    <2>3. QED BY <1>2, <2>1, <2>2 DEF Next, vars
  <1>3. QED BY <1>1, <1>2, ListIsKept, PTL DEF Spec, HistoryKept, NewestSurvive

(***************************************************************************)
(* Tools that know their caller.  The tools agents share keep what each    *)
(* was told; in the registry of an agent every tool of its own set is      *)
(* bound to the agent itself.                                              *)
(***************************************************************************)
SharedInv ==
    /\ entries \in Seq([by : {Signature[c] : c \in Caller}, index : Nat])
    /\ indexes \in [Caller -> SUBSET Nat] /\ holding \in [Caller -> SUBSET Key]
    /\ DOMAIN claims = Key
    /\ IndexNamesEntry /\ ClaimHolds

\* An append to the shared log.
LEMMA AppendKeeps == ASSUME SharedInv, NEW c \in Caller, AppendEntry(c) PROVE SharedInv'
  <1> DEFINE n == Len(entries)
             e == [by |-> Signature[c], index |-> n]
             S == [by : {Signature[d] : d \in Caller}, index : Nat]
  <1>1. entries \in Seq(S) /\ n \in Nat /\ e \in S
    BY DEF SharedInv
  <1>2. /\ entries' = Append(entries, e) /\ claims' = claims /\ holding' = holding
        /\ indexes' = [indexes EXCEPT ![c] = @ \cup {n}]
    BY DEF AppendEntry, NextIndex
  <1> HIDE DEF S, e
  <1>3. /\ entries' \in Seq(S) /\ Len(entries') = n + 1 /\ entries'[n + 1] = e
        /\ \A i \in 1 .. n : entries'[i] = entries[i]
    BY <1>1, <1>2
  <1>4. \A d \in Caller : indexes[d] \subseteq Nat /\ indexes'[d] = IF d = c THEN indexes[d] \cup {n} ELSE indexes[d]
    BY <1>2 DEF SharedInv
  <1>5. ASSUME NEW d \in Caller, NEW i \in indexes'[d]
        PROVE  /\ i + 1 \in DOMAIN entries' /\ entries'[i + 1] = [by |-> Signature[d], index |-> i]
               /\ \A f \in Caller \ {d} : i \notin indexes'[f]
    <2>1. DOMAIN entries = 1 .. n /\ DOMAIN entries' = 1 .. (n + 1)
      BY <1>1, <1>3
    <2>2. \A f \in Caller : \A j \in indexes[f] : j \in Nat /\ j + 1 \in 1 .. n
      BY <2>1, <1>4 DEF SharedInv, IndexNamesEntry
    <2>3. CASE i \in indexes[d]
      <3>1. i + 1 \in 1 .. n /\ i # n /\ entries[i + 1] = [by |-> Signature[d], index |-> i]
        BY <1>1, <2>2, <2>3 DEF SharedInv, IndexNamesEntry
      <3>2. \A f \in Caller \ {d} : i \notin indexes[f]
        BY <2>3 DEF SharedInv, IndexNamesEntry
      <3>3. entries'[i + 1] = entries[i + 1] /\ i + 1 \in 1 .. (n + 1)
        BY <1>1, <1>3, <3>1
      <3>4. \A f \in Caller \ {d} : i \notin indexes'[f]
        BY <1>4, <3>1, <3>2
      <3>5. QED BY <2>1, <3>1, <3>3, <3>4
    <2>4. CASE d = c /\ i = n
      <3>1. \A f \in Caller : n \notin indexes[f]
        BY <1>1, <2>2
      <3>2. i + 1 \in 1 .. (n + 1) /\ entries'[i + 1] = [by |-> Signature[d], index |-> i]
        BY <1>1, <1>3, <2>4 DEF e
      <3>3. \A f \in Caller \ {d} : i \notin indexes'[f]
        BY <1>4, <2>4, <3>1
      <3>4. QED BY <2>1, <3>2, <3>3
    <2>5. QED BY <1>4, <1>5, <2>3, <2>4
  <1>6. IndexNamesEntry'
    BY <1>5 DEF IndexNamesEntry
  <1>7. ClaimHolds'
    BY <1>2 DEF SharedInv, ClaimHolds
  <1>8. indexes' \in [Caller -> SUBSET Nat]
    BY <1>1, <1>2 DEF SharedInv
  <1>9. QED BY <1>2, <1>3, <1>6, <1>7, <1>8 DEF SharedInv, S

\* A claim of a key.
LEMMA ClaimKeeps ==
    ASSUME SharedInv, NEW c \in Caller, NEW k \in Key, Claim(c, k) \/ Release(c, k)
    PROVE  SharedInv'
  <1>1. entries' = entries /\ indexes' = indexes
    BY DEF Claim, Release
  <1>2. IndexNamesEntry'
    BY <1>1 DEF SharedInv, IndexNamesEntry
  <1>3. DOMAIN claims = Key /\ holding \in [Caller -> SUBSET Key] /\ ClaimHolds /\ Signature[c] # Nobody
    BY SharedAssumption DEF SharedInv
  <1>4. CASE Claim(c, k)
    <2>1. /\ claims[k] \in {Nobody, Signature[c]}
          /\ \A h \in Key : claims'[h] = IF h = k THEN Signature[c] ELSE claims[h]
          /\ DOMAIN claims' = Key
          /\ \A d \in Caller : holding'[d] = IF d = c THEN holding[d] \cup {k} ELSE holding[d]
          /\ holding' \in [Caller -> SUBSET Key]
      BY <1>3, <1>4 DEF Claim, Claimable
    <2>2. ASSUME NEW d \in Caller, NEW h \in holding'[d]
          PROVE  claims'[h] = Signature[d] \/ \E f \in Caller \ {d} : Signature[f] = Signature[d]
      <3>1. CASE d = c /\ h = k
        BY <2>1, <3>1
      <3>2. CASE h \in holding[d]
        <4>1. h \in Key /\ Signature[d] # Nobody
          BY <1>3, <3>2, SharedAssumption
        <4>2. claims[h] = Signature[d] \/ \E f \in Caller \ {d} : Signature[f] = Signature[d]
          BY <1>3, <3>2 DEF ClaimHolds
        <4>3. QED BY <2>1, <4>1, <4>2
      <3>3. QED BY <2>1, <2>2, <3>1, <3>2
    <2>3. ClaimHolds'
      BY <2>2 DEF ClaimHolds
    <2>4. QED BY <1>1, <1>2, <2>1, <2>3 DEF SharedInv
  <1>5. CASE Release(c, k)
    <2>1. /\ claims[k] = Signature[c]
          /\ \A h \in Key : claims'[h] = IF h = k THEN Nobody ELSE claims[h]
          /\ DOMAIN claims' = Key
          /\ \A d \in Caller : holding'[d] = IF d = c THEN holding[d] \ {k} ELSE holding[d]
          /\ holding' \in [Caller -> SUBSET Key]
      BY <1>3, <1>5 DEF Release
    <2>2. ASSUME NEW d \in Caller, NEW h \in holding'[d]
          PROVE  claims'[h] = Signature[d] \/ \E f \in Caller \ {d} : Signature[f] = Signature[d]
      <3>1. h \in holding[d] /\ h \in Key /\ (d = c => h # k)
        BY <1>3, <2>1, <2>2
      <3>2. claims[h] = Signature[d] \/ \E f \in Caller \ {d} : Signature[f] = Signature[d]
        BY <1>3, <3>1 DEF ClaimHolds
      <3>3. QED BY <2>1, <3>1, <3>2
    <2>3. ClaimHolds'
      BY <2>2 DEF ClaimHolds
    <2>4. QED BY <1>1, <1>2, <2>1, <2>3 DEF SharedInv
  <1>6. QED BY <1>4, <1>5

\* A step of the shared tools.
LEMMA SharedKeeps == SharedInv /\ [SharedNext]_sharedVars => SharedInv'
  <1>1. ASSUME SharedInv, UNCHANGED sharedVars PROVE SharedInv'
    BY <1>1 DEF sharedVars, SharedInv, IndexNamesEntry, ClaimHolds
  <1>2. QED BY <1>1, AppendKeeps, ClaimKeeps DEF SharedNext

\* Nothing is logged or claimed at first.
LEMMA SharedStart == SharedInit => SharedInv
  BY DEF SharedInit, SharedInv, IndexNamesEntry, ClaimHolds

------------------------------------------------------------------------------

SurfaceInv ==
    /\ agents \in Seq([kind : Kind, depth : 0 .. DepthLimit]) /\ Len(agents) >= 1
    /\ bound \in Seq([BoundTool -> 0 .. Len(agents)]) /\ Len(bound) = Len(agents)
    /\ \A a \in 1 .. Len(agents) : \A t \in Builtins(agents[a].kind) : bound[a][t] = a
    /\ ActsForItself

\* Each agent so far has a kind and a depth within the limit.
LEMMA AgentsSoFar ==
    ASSUME SurfaceInv
    PROVE  /\ Len(agents) \in Nat /\ AgentIds = 1 .. Len(agents)
           /\ \A a \in 1 .. Len(agents) : agents[a].kind \in Kind /\ agents[a].depth \in 0 .. DepthLimit
  <1> DEFINE S == [kind : Kind, depth : 0 .. DepthLimit]
  <1>1. agents \in Seq(S)
    BY DEF SurfaceInv
  <1> HIDE DEF S
  <1>2. Len(agents) \in Nat /\ DOMAIN agents = 1 .. Len(agents) /\ \A a \in 1 .. Len(agents) : agents[a] \in S
    BY <1>1
  <1>3. QED BY <1>2 DEF S, AgentIds

\* A tool set holds builtins, and the meta tools where they are on offer.
LEMMA ToolSets ==
    ASSUME NEW kind \in Kind
    PROVE  ToolsOf(kind) \subseteq Builtin /\ Builtins(kind) \subseteq BoundTool /\ ToolsOf(kind) \subseteq Builtins(kind)
           /\ (kind \in MetaKinds => MetaTool \subseteq Builtins(kind))
  BY SurfaceAssumption DEF ToolsOf, Builtins, BoundTool

\* A call that was offered runs the caller's own handler.
LEMMA OfferedIsOwn ==
    ASSUME SurfaceInv, NEW a \in AgentIds, NEW t \in Builtin, NEW meta \in BOOLEAN,
           (IF meta THEN "call_tool" ELSE t) \in Offered(a)
    PROVE  Acts(a, t, meta) \in {0, a}
  <1>1. a \in 1 .. Len(agents) /\ agents[a].kind \in Kind /\ a # 0
    BY AgentsSoFar
  <1>2. \A u \in Builtins(agents[a].kind) : bound[a][u] = a
    BY <1>1 DEF SurfaceInv
  <1>3. Names(a) \subseteq ToolsOf(agents[a].kind)
    BY DEF Names
  <1>4. CASE agents[a].kind \in MetaKinds
    <2>1. meta
      BY <1>4 DEF Offered, MetaTool, Builtin
    <2>2. bound[a]["call_tool"] = a
      BY <1>1, <1>2, <1>4, ToolSets DEF MetaTool
    <2>3. t \in Names(a) => bound[a][t] = a
      BY <1>1, <1>2, <1>3, ToolSets
    <2>4. QED BY <1>1, <2>1, <2>2, <2>3 DEF Acts, ViaMeta
  <1>5. CASE agents[a].kind \notin MetaKinds
    <2>1. ~meta /\ t \in Names(a)
      BY <1>1, <1>3, <1>5, ToolSets DEF Offered, Builtin
    <2>2. bound[a][t] = a
      BY <1>1, <1>2, <1>3, <2>1, ToolSets
    <2>3. QED BY <2>1, <2>2 DEF Acts
  <1>6. QED BY <1>4, <1>5

\* Whoever acts is one of the agents.
LEMMA OwnerIsAgent ==
    ASSUME SurfaceInv, NEW a \in AgentIds, NEW t \in Builtin, NEW meta \in BOOLEAN
    PROVE  Acts(a, t, meta) \in 0 .. Len(agents)
  <1>1. Len(agents) \in Nat /\ a \in 1 .. Len(agents) /\ \A b \in 1 .. Len(agents) : bound[b] \in [BoundTool -> 0 .. Len(agents)]
    BY DEF SurfaceInv, AgentIds
  <1>2. t \in BoundTool /\ "call_tool" \in BoundTool
    BY DEF BoundTool, MetaTool
  <1>3. bound[a]["call_tool"] \in 0 .. Len(agents)
    BY <1>1, <1>2
  <1>4. \A b \in 1 .. Len(agents) : bound[b][t] \in 0 .. Len(agents)
    BY <1>1, <1>2
  <1>5. QED BY <1>1, <1>3, <1>4 DEF Acts, ViaMeta

\* A spawn binds the tools of the new agent.
LEMMA SpawnKeeps ==
    ASSUME SurfaceInv, NEW a \in AgentIds, NEW kind \in Kind, NEW meta \in BOOLEAN, CallSpawn(a, kind, meta)
    PROVE  SurfaceInv'
  <1> DEFINE n == Len(agents)
             owner == Acts(a, "agent_spawn", meta)
             S == [kind : Kind, depth : 0 .. DepthLimit]
             e == [kind |-> kind, depth |-> agents[owner].depth + 1]
             r == Rebound(bound[owner], kind, n + 1)
  <1>1. n \in Nat /\ n >= 1 /\ agents \in Seq(S) /\ DepthLimit \in Nat
    BY SurfaceAssumption DEF SurfaceInv
  <1>2. owner \in 1 .. n /\ agents[owner].depth < DepthLimit
        /\ agents' = Append(agents, e) /\ bound' = Append(bound, r) /\ Note(a, "agent_spawn", owner, meta)
    BY OwnerIsAgent DEF CallSpawn, BelowLimit, Builtin
  <1>3. e \in S
    <2>1. agents[owner].depth \in 0 .. DepthLimit
      BY <1>2, AgentsSoFar
    <2>2. QED BY <1>1, <1>2, <2>1
  <1>4. /\ bound[owner] \in [BoundTool -> 0 .. n] /\ bound \in Seq([BoundTool -> 0 .. (n + 1)]) /\ Len(bound) = n
        /\ \A b \in 1 .. n : bound[b] \in [BoundTool -> 0 .. n]
    <2>1. bound \in Seq([BoundTool -> 0 .. n]) /\ Len(bound) = n
      BY DEF SurfaceInv
    <2>2. [BoundTool -> 0 .. n] \subseteq [BoundTool -> 0 .. (n + 1)]
      BY <1>1
    <2> DEFINE F == [BoundTool -> 0 .. n]
               G == [BoundTool -> 0 .. (n + 1)]
    <2> HIDE DEF F, G
    <2>3. bound \in Seq(G)
      BY <2>1, <2>2, SeqMonotonic DEF F, G
    <2>4. \A b \in 1 .. n : bound[b] \in F
      BY <2>1 DEF F
    <2>5. QED BY <1>2, <2>1, <2>3, <2>4 DEF F, G
  <1>5. r \in [BoundTool -> 0 .. (n + 1)] /\ \A t \in Builtins(kind) : r[t] = n + 1
    BY <1>1, <1>4, ToolSets DEF Rebound
  <1>6. act' = [by |-> a, owner |-> owner, offered |-> (IF meta THEN "call_tool" ELSE "agent_spawn") \in Offered(a)]
    BY <1>2 DEF Note
  <1>7. ActsForItself'
    <2>1. (IF meta THEN "call_tool" ELSE "agent_spawn") \in Offered(a) => owner \in {0, a}
      BY OfferedIsOwn DEF Builtin
    <2>2. owner # 0
      BY <1>2
    <2> HIDE DEF owner
    <2>3. (IF meta THEN "call_tool" ELSE "agent_spawn") \in Offered(a) => owner = a
      BY <2>1, <2>2
    <2>4. act'.offered = ((IF meta THEN "call_tool" ELSE "agent_spawn") \in Offered(a))
      BY <1>6
    <2>5. act'.by = a /\ act'.owner = owner
      BY <1>6
    <2>6. QED BY <2>3, <2>4, <2>5 DEF ActsForItself
  <1> DEFINE G == [BoundTool -> 0 .. (n + 1)]
  <1> HIDE DEF S, e, r, owner, G
  <1>8. /\ agents' \in Seq(S) /\ Len(agents') = n + 1 /\ agents'[n + 1] = e
        /\ \A b \in 1 .. n : agents'[b] = agents[b]
    BY <1>1, <1>2, <1>3
  <1>9. /\ bound' \in Seq(G) /\ Len(bound') = n + 1 /\ bound'[n + 1] = r
        /\ \A b \in 1 .. n : bound'[b] = bound[b]
    BY <1>1, <1>2, <1>4, <1>5 DEF G
  <1>10. \A b \in 1 .. (n + 1) : \A t \in Builtins(agents'[b].kind) : bound'[b][t] = b
    <2>1. \A b \in 1 .. n : \A t \in Builtins(agents[b].kind) : bound[b][t] = b
      BY DEF SurfaceInv
    <2>2. e.kind = kind
      BY DEF e
    <2>3. \A b \in 1 .. (n + 1) : b = n + 1 \/ b \in 1 .. n
      BY <1>1
    <2>4. QED BY <1>5, <1>8, <1>9, <2>1, <2>2, <2>3
  <1>11. QED BY <1>1, <1>7, <1>8, <1>9, <1>10 DEF SurfaceInv, S, G, Builtins, ToolsOf

\* The other steps move no agent.
LEMMA OtherKeeps ==
    ASSUME SurfaceInv, NEW a \in AgentIds, NEW t \in Builtin, NEW meta \in BOOLEAN, CallOther(a, t, meta)
    PROVE  SurfaceInv'
  <1>1. agents' = agents /\ bound' = bound /\ Acts(a, t, meta) # 0
        /\ act' = [by |-> a, owner |-> Acts(a, t, meta), offered |-> (IF meta THEN "call_tool" ELSE t) \in Offered(a)]
    BY DEF CallOther, Note
  <1>2. (IF meta THEN "call_tool" ELSE t) \in Offered(a) => Acts(a, t, meta) = a
    BY <1>1, OfferedIsOwn
  <1>3. ActsForItself'
    BY <1>1, <1>2 DEF ActsForItself
  <1>4. QED BY <1>1, <1>3 DEF SurfaceInv, Builtins, ToolsOf

\* A step of the tool surface.
LEMMA SurfaceKeeps == SurfaceInv /\ [SurfaceNext]_surfaceVars => SurfaceInv'
  <1>1. ASSUME SurfaceInv, UNCHANGED surfaceVars PROVE SurfaceInv'
    BY <1>1 DEF surfaceVars, SurfaceInv, ActsForItself, Builtins, ToolsOf
  <1>2. QED BY <1>1, SpawnKeeps, OtherKeeps DEF SurfaceNext

\* The root has its own registry.
LEMMA SurfaceStart == SurfaceInit => SurfaceInv
  <1> SUFFICES ASSUME SurfaceInit PROVE SurfaceInv
    OBVIOUS
  <1> DEFINE e == [kind |-> RootKind, depth |-> 0]
             r == Rebound([t \in BoundTool |-> 0], RootKind, 1)
             S == [kind : Kind, depth : 0 .. DepthLimit]
             G == [BoundTool -> 0 .. 1]
  <1>1. e \in S /\ e.kind = RootKind /\ RootKind \in Kind
    BY SurfaceAssumption
  <1>2. r \in G /\ \A t \in Builtins(RootKind) : r[t] = 1
    BY <1>1, ToolSets DEF Rebound
  <1>3. agents = <<e>> /\ bound = <<r>> /\ act = [by |-> 1, owner |-> 1, offered |-> TRUE]
    BY DEF SurfaceInit
  <1> HIDE DEF e, r, S, G
  <1>4. /\ agents \in Seq(S) /\ Len(agents) = 1 /\ agents[1] = e
        /\ bound \in Seq(G) /\ Len(bound) = 1 /\ bound[1] = r
    BY <1>1, <1>2, <1>3
  <1>5. QED BY <1>1, <1>2, <1>3, <1>4 DEF SurfaceInv, ActsForItself, S, G

\* Agents that share tools or inherit a registry (shared.py, register_builtins,
\* clone): indexes and claims stay with the caller, an offered builtin acts for
\* its own agent, and no chain of spawns outgrows max_depth.
THEOREM CallersAreKnown == Spec => []ToolsKnowTheirCaller
  <1>1. Init => SharedInv /\ SurfaceInv
    BY SharedStart, SurfaceStart DEF Init
  <1>2. SharedInv /\ SurfaceInv /\ [Next]_vars => SharedInv' /\ SurfaceInv'
    <2> SUFFICES ASSUME SharedInv, SurfaceInv, [Next]_vars PROVE SharedInv' /\ SurfaceInv'
      OBVIOUS
    <2>1. [SharedNext]_sharedVars
      BY DEF Next, vars
    <2>2. [SurfaceNext]_surfaceVars
      BY DEF Next, vars
    <2>3. QED BY <2>1, <2>2, SharedKeeps, SurfaceKeeps
  <1>3. SharedInv /\ SurfaceInv => ToolsKnowTheirCaller
    <2>1. SurfaceInv => DepthBounded
      BY AgentsSoFar, SurfaceAssumption DEF DepthBounded
    <2>2. QED BY <2>1 DEF SharedInv, SurfaceInv, ToolsKnowTheirCaller
  <1>4. QED BY <1>1, <1>2, <1>3, PTL DEF Spec

(***************************************************************************)
(* Delegation.  The agents form a tree, so what holds of the root and goes *)
(* from parent to child holds of all, and so does what goes from children  *)
(* to parent.                                                              *)
(***************************************************************************)
LEMMA RootToLeaf ==
    ASSUME NEW T, \A a \in Agent : (a = Root \/ Parent[a] \in T) => a \in T
    PROVE  Agent \subseteq T
  <1>1. PICK rank \in [Agent -> 0..Cardinality(Agent)] : \A a \in Agent \ {Root} : rank[Parent[a]] < rank[a]
    BY DelegationAssumption
  <1>2. Cardinality(Agent) \in Nat
    BY DelegationAssumption, FS_CardinalityType
  <1> DEFINE ranks == {rank[a] : a \in Agent \ T}
  <1>3. CASE ranks = {}
    BY <1>3
  <1>4. CASE ranks # {}
    <2>1. ranks \subseteq Nat
      BY <1>1, <1>2
    <2>2. PICK m \in ranks : \A n \in ranks : m <= n
      <3> HIDE DEF ranks
      <3>1. QED BY <1>4, <2>1, Least
    <2>3. PICK a \in Agent \ T : rank[a] = m
      BY <2>2
    <2>4. a # Root /\ Parent[a] \in Agent \ T
      BY <2>3, DelegationAssumption
    <2>5. rank[Parent[a]] \in ranks /\ rank[Parent[a]] < rank[a]
      BY <1>1, <2>4
    <2>6. rank[Parent[a]] \in Nat /\ m \in Nat
      BY <2>1, <2>5
    <2>7. QED BY <2>2, <2>3, <2>5, <2>6
  <1>5. QED BY <1>3, <1>4

\* What goes from children to parent, and holds of the leaves, holds of all.
LEMMA LeafToRoot ==
    ASSUME NEW T, \A a \in Agent : (\A c \in Agent \ {Root} : Parent[c] = a => c \in T) => a \in T
    PROVE  Agent \subseteq T
  <1>1. PICK rank \in [Agent -> 0..Cardinality(Agent)] : \A a \in Agent \ {Root} : rank[Parent[a]] < rank[a]
    BY DelegationAssumption
  <1>2. Cardinality(Agent) \in Nat
    BY DelegationAssumption, FS_CardinalityType
  <1> DEFINE ranks == {rank[a] : a \in Agent \ T}
  <1>3. CASE ranks = {}
    BY <1>3
  <1>4. CASE ranks # {}
    <2>1. ranks \subseteq Nat /\ \A n \in ranks : n <= Cardinality(Agent)
      BY <1>1, <1>2
    <2>2. PICK m \in ranks : \A n \in ranks : n <= m
      <3> HIDE DEF ranks
      <3>1. QED BY <1>2, <1>4, <2>1, Greatest
    <2>3. PICK a \in Agent \ T : rank[a] = m
      BY <2>2
    <2>4. PICK c \in Agent \ {Root} : Parent[c] = a /\ c \notin T
      BY <2>3
    <2>5. rank[c] \in ranks /\ rank[a] < rank[c]
      BY <1>1, <2>4
    <2>6. rank[c] \in Nat /\ m \in Nat
      BY <2>1, <2>5
    <2>7. rank[c] <= m
      BY <2>2, <2>5
    <2>8. QED BY <2>3, <2>5, <2>6, <2>7
  <1>5. QED BY <1>3, <1>4

IsThread(f, bg) ==
    /\ f \in [Agent -> SUBSET Agent]
    /\ \A a \in Agent : f[a] = IF a = Root \/ a \in bg THEN {a} ELSE {a} \cup f[Parent[a]]

\* The threads of a tree are defined, whichever agents run in the background.
LEMMA ThreadExists == ASSUME NEW bg PROVE \E f : IsThread(f, bg)
  <1>1. PICK rank \in [Agent -> 0..Cardinality(Agent)] : \A a \in Agent \ {Root} : rank[Parent[a]] < rank[a]
    BY DelegationAssumption
  <1>2. Cardinality(Agent) \in Nat
    BY DelegationAssumption, FS_CardinalityType
  <1> DEFINE UpTo(f, k) ==
                \A a \in Agent : rank[a] < k =>
                    f[a] = IF a = Root \/ a \in bg THEN {a} ELSE {a} \cup f[Parent[a]]
             T == {k \in Nat : \E f \in [Agent -> SUBSET Agent] : UpTo(f, k)}
  <1>3. 0 \in T
    <2>1. [a \in Agent |-> {}] \in [Agent -> SUBSET Agent]
      OBVIOUS
    <2>2. \A a \in Agent : ~(rank[a] < 0)
      BY <1>1, <1>2
    <2>3. UpTo([a \in Agent |-> {}], 0)
      BY <2>2
    <2> HIDE DEF UpTo
    <2>4. QED BY <2>1, <2>3
  <1>4. ASSUME NEW k \in Nat, k \in T PROVE k + 1 \in T
    <2>1. PICK f \in [Agent -> SUBSET Agent] : UpTo(f, k)
      BY <1>4
    <2> DEFINE g == [a \in Agent |-> IF a = Root \/ a \in bg THEN {a} ELSE {a} \cup f[Parent[a]]]
    <2>2. \A a \in Agent \ {Root} : Parent[a] \in Agent
      BY DelegationAssumption
    <2>3. g \in [Agent -> SUBSET Agent]
      BY <2>1, <2>2
    <2>4. ASSUME NEW a \in Agent, rank[a] < k + 1
          PROVE  g[a] = IF a = Root \/ a \in bg THEN {a} ELSE {a} \cup g[Parent[a]]
      <3>1. CASE a = Root \/ a \in bg
        BY <3>1
      <3>2. CASE ~(a = Root \/ a \in bg)
        <4>1. Parent[a] \in Agent /\ rank[Parent[a]] < k
          <5>1. Parent[a] \in Agent
            BY <2>2, <3>2
          <5>2. rank[a] \in Nat /\ rank[Parent[a]] \in Nat
            BY <1>1, <1>2, <5>1
          <5>3. QED BY <1>1, <2>4, <3>2, <5>1, <5>2
        <4>2. f[Parent[a]] = g[Parent[a]]
          BY <2>1, <4>1
        <4>3. QED BY <3>2, <4>2
      <3>3. QED BY <3>1, <3>2
    <2> HIDE DEF g
    <2>5. UpTo(g, k + 1)
      BY <2>4
    <2> HIDE DEF UpTo
    <2>6. QED BY <1>4, <2>3, <2>5
  <1>5. Cardinality(Agent) + 1 \in T
    <2> HIDE DEF T
    <2>1. QED BY <1>2, <1>3, <1>4, EveryNumber
  <1>6. PICK f \in [Agent -> SUBSET Agent] : UpTo(f, Cardinality(Agent) + 1)
    BY <1>5
  <1>7. \A a \in Agent : rank[a] < Cardinality(Agent) + 1
    BY <1>1, <1>2
  <1>8. IsThread(f, bg)
    BY <1>6, <1>7 DEF IsThread
  <1>9. QED BY <1>8

\* The recursive function Thread is that function, now and after a step.
LEMMA ThreadIs == IsThread(Thread, background \cup Pooled) /\ IsThread(Thread', background' \cup Pooled)
  <1>1. ASSUME NEW bg, NEW f, IsThread(f, bg)
        PROVE  f = [a \in Agent |-> IF a = Root \/ a \in bg THEN {a} ELSE {a} \cup f[Parent[a]]]
    BY <1>1 DEF IsThread
  <1>2. Thread = [a \in Agent |-> IF a = Root \/ a \in background \cup Pooled THEN {a} ELSE {a} \cup Thread[Parent[a]]]
    <2>1. PICK f : IsThread(f, background \cup Pooled)
      BY ThreadExists
    <2>2. f = [a \in Agent |-> IF a = Root \/ a \in background \cup Pooled THEN {a} ELSE {a} \cup f[Parent[a]]]
      BY <1>1, <2>1
    <2>3. QED BY <2>2, Zenon DEF Thread
  <1>3. Thread' = [a \in Agent |-> IF a = Root \/ a \in background' \cup Pooled THEN {a} ELSE {a} \cup Thread'[Parent[a]]]
    <2>1. PICK f : IsThread(f, background' \cup Pooled)
      BY ThreadExists
    <2>2. f = [a \in Agent |-> IF a = Root \/ a \in background' \cup Pooled THEN {a} ELSE {a} \cup f[Parent[a]]]
      BY <1>1, <2>1
    <2>3. QED BY <2>2, Zenon DEF Thread
  <1>4. ASSUME NEW bg, NEW f,
               f = [a \in Agent |-> IF a = Root \/ a \in bg THEN {a} ELSE {a} \cup f[Parent[a]]]
        PROVE  IsThread(f, bg)
    <2>1. \A a \in Agent : f[a] = IF a = Root \/ a \in bg THEN {a} ELSE {a} \cup f[Parent[a]]
      BY <1>4
    <2> DEFINE T == {b \in Agent : f[b] \subseteq Agent}
    <2>2. Agent \subseteq T
      <3>1. ASSUME NEW a \in Agent, a = Root \/ Parent[a] \in T PROVE a \in T
        <4>1. CASE a = Root
          BY <2>1, <4>1
        <4>2. CASE a # Root /\ f[Parent[a]] \subseteq Agent
          <5>1. f[a] = {a} \/ f[a] = {a} \cup f[Parent[a]]
            BY <2>1
          <5>2. QED BY <4>2, <5>1
        <4>3. QED BY <3>1, <4>1, <4>2
      <3> HIDE DEF T
      <3>2. QED BY <3>1, RootToLeaf
    <2>3. QED BY <1>4, <2>1, <2>2 DEF IsThread
  <1>5. QED BY <1>2, <1>3, <1>4

\* Everyone is on his own thread.
LEMMA OnOwnThread == ASSUME NEW f, NEW bg, IsThread(f, bg), NEW a \in Agent PROVE a \in f[a]
  BY DEF IsThread

\* Whom an ancestor on the thread waits for, the whole chain waits for.
LEMMA ThreadNests ==
    ASSUME NEW f, NEW bg, IsThread(f, bg)
    PROVE  \A b \in Agent : \A c \in f[b] : f[c] \subseteq f[b]
  <1> DEFINE T == {b \in Agent : \A c \in f[b] : f[c] \subseteq f[b]}
  <1>1. ASSUME NEW b \in Agent, b = Root \/ Parent[b] \in T PROVE b \in T
    <2>1. CASE b = Root \/ b \in bg
      BY <2>1 DEF IsThread
    <2>2. CASE ~(b = Root \/ b \in bg)
      <3>1. f[b] = {b} \cup f[Parent[b]] /\ Parent[b] \in Agent
        BY <2>2, DelegationAssumption DEF IsThread
      <3>2. \A c \in f[Parent[b]] : f[c] \subseteq f[Parent[b]]
        BY <1>1, <2>2
      <3>3. ASSUME NEW c \in f[b] PROVE f[c] \subseteq f[b]
        <4>1. CASE c = b
          BY <4>1
        <4>2. CASE c \in f[Parent[b]]
          BY <3>1, <3>2, <4>2
        <4>3. QED BY <3>1, <3>3, <4>1, <4>2
      <3>4. QED BY <3>3
    <2>3. QED BY <2>1, <2>2
  <1> HIDE DEF T
  <1>2. Agent \subseteq T
    BY <1>1, RootToLeaf
  <1>3. QED BY <1>2 DEF T

\* A spawn in the background takes nobody onto another's thread.
LEMMA ThreadShrinks ==
    ASSUME NEW f, NEW g, NEW bg, NEW bh, IsThread(f, bg), IsThread(g, bh), bg \subseteq bh
    PROVE  \A a \in Agent : g[a] \subseteq f[a]
  <1> DEFINE T == {a \in Agent : g[a] \subseteq f[a]}
  <1>1. ASSUME NEW a \in Agent, a = Root \/ Parent[a] \in T PROVE a \in T
    <2>1. CASE a = Root \/ a \in bh
      <3>1. g[a] = {a} /\ a \in f[a]
        BY <2>1 DEF IsThread
      <3>2. QED BY <3>1
    <2>2. CASE ~(a = Root \/ a \in bh)
      <3>1. g[a] = {a} \cup g[Parent[a]] /\ f[a] = {a} \cup f[Parent[a]]
        BY <2>2 DEF IsThread
      <3>2. g[Parent[a]] \subseteq f[Parent[a]]
        BY <1>1, <2>2
      <3>3. QED BY <3>1, <3>2
    <2>3. QED BY <2>1, <2>2
  <1> HIDE DEF T
  <1>2. Agent \subseteq T
    BY <1>1, RootToLeaf
  <1>3. QED BY <1>2 DEF T

\* c runs on the thread of a, its parent.
Awaits(a, c) == c \in Agent \ {Root} /\ Parent[c] = a /\ c \notin background \cup Pooled /\ Live(c)

Tree ==
    /\ run \in [Agent -> {"unborn", "running", "waiting", "pooling", "completed", "failed"}]
    /\ background \subseteq Agent \ {Root} /\ \A c \in background : run[c] # "unborn"
    /\ \A a, c \in Agent : Awaits(a, c) => run[a] = "waiting"
    /\ \A a \in Agent : run[a] = "waiting" => \E c \in Agent : Awaits(a, c)
    /\ \A a, c, d \in Agent : Awaits(a, c) /\ Awaits(a, d) => c = d
    /\ \A a \in Agent : (run[a] = "waiting" => a \notin Meta) /\ (run[a] = "pooling" => a \in Meta)
    /\ ParentOutlastsPool

\* Everyone above a live agent on its thread waits.
LEMMA ThreadWaits ==
    ASSUME Tree
    PROVE  \A b \in Agent : Live(b) => \A a \in Thread[b] : a = b \/ run[a] = "waiting"
  <1> DEFINE T == {b \in Agent : Live(b) => \A a \in Thread[b] : a = b \/ run[a] = "waiting"}
  <1>1. ASSUME NEW b \in Agent, b = Root \/ Parent[b] \in T PROVE b \in T
    <2>1. CASE b = Root \/ b \in background \cup Pooled
      BY <2>1, ThreadIs DEF IsThread
    <2>2. CASE ~(b = Root \/ b \in background \cup Pooled) /\ Live(b)
      <3>1. Thread[b] = {b} \cup Thread[Parent[b]] /\ Parent[b] \in Agent
        BY <2>2, ThreadIs, DelegationAssumption DEF IsThread
      <3>2. Awaits(Parent[b], b)
        BY <2>2 DEF Awaits
      <3>3. run[Parent[b]] = "waiting"
        BY <3>1, <3>2 DEF Tree
      <3>4. \A a \in Thread[Parent[b]] : run[a] = "waiting"
        BY <1>1, <2>2, <3>3 DEF Live
      <3>5. QED BY <3>1, <3>4
    <2>3. QED BY <2>1, <2>2
  <1> HIDE DEF T
  <1>2. Agent \subseteq T
    BY <1>1, RootToLeaf
  <1>3. QED BY <1>2 DEF T

\* Between a live agent and one above it on its thread is a live child of that one.
LEMMA ChildBetween ==
    ASSUME Tree, NEW a \in Agent
    PROVE  \A b \in Agent : Live(b) /\ a \in Thread[b] /\ a # b => \E c \in Thread[b] : Awaits(a, c)
  <1> DEFINE T == {b \in Agent : Live(b) /\ a \in Thread[b] /\ a # b => \E c \in Thread[b] : Awaits(a, c)}
  <1>1. ASSUME NEW b \in Agent, b = Root \/ Parent[b] \in T PROVE b \in T
    <2>1. CASE b = Root \/ b \in background \cup Pooled
      BY <2>1, ThreadIs DEF IsThread
    <2>2. CASE ~(b = Root \/ b \in background \cup Pooled) /\ Live(b) /\ a \in Thread[b] /\ a # b
      <3>1. Thread[b] = {b} \cup Thread[Parent[b]] /\ Parent[b] \in Agent
        BY <2>2, ThreadIs, DelegationAssumption DEF IsThread
      <3>2. Awaits(Parent[b], b)
        BY <2>2 DEF Awaits
      <3>3. Live(Parent[b])
        BY <3>1, <3>2 DEF Tree, Live
      <3>4. CASE Parent[b] = a
        BY <3>1, <3>2, <3>4
      <3>5. CASE Parent[b] # a
        BY <1>1, <2>2, <3>1, <3>3, <3>5
      <3>6. QED BY <3>4, <3>5
    <2>3. QED BY <2>1, <2>2
  <1> HIDE DEF T
  <1>2. Agent \subseteq T
    BY <1>1, RootToLeaf
  <1>3. QED BY <1>2 DEF T

Running(a) == {b \in Agent : run[b] \in {"running", "pooling"} /\ a \in Thread[b]}

\* Two live agents of a thread that both run would be one.
LEMMA OneRuns == ASSUME Tree PROVE OneRunnerPerThread
  <1> DEFINE T == {a \in Agent : Live(a) => \E b \in Agent : Running(a) = {b}}
  <1>1. ASSUME NEW a \in Agent, \A c \in Agent \ {Root} : Parent[c] = a => c \in T PROVE a \in T
    <2>1. CASE run[a] \in {"running", "pooling"}
      <3>1. \A b \in Running(a) : b = a
        <4>1. TAKE b \in Running(a)
        <4>2. Live(b) /\ b \in Agent /\ a \in Thread[b]
          BY DEF Running, Live
        <4>3. CASE a # b
          <5>1. PICK c \in Thread[b] : Awaits(a, c)
            BY <4>2, <4>3, ChildBetween
          <5>2. run[a] = "waiting"
            BY <5>1 DEF Awaits, Tree
          <5>3. QED BY <2>1, <5>2
        <4>4. QED BY <4>3
      <3>2. a \in Running(a)
        BY <2>1, ThreadIs, OnOwnThread DEF Running
      <3>3. QED BY <3>1, <3>2
    <2>2. CASE run[a] = "waiting"
      <3>1. PICK c \in Agent : Awaits(a, c)
        BY <2>2 DEF Tree
      <3>2. a \in Thread[c]
        <4>1. c \in Agent \ {Root} /\ c \notin background \cup Pooled /\ Parent[c] = a
          BY <3>1 DEF Awaits
        <4>2. Thread[c] = {c} \cup Thread[a]
          BY <4>1, ThreadIs DEF IsThread
        <4>3. QED BY <4>2, ThreadIs, OnOwnThread
      <3>3. Running(c) \subseteq Running(a)
        <4>1. \A b \in Agent : c \in Thread[b] => a \in Thread[b]
          BY <3>2, ThreadIs, ThreadNests
        <4>2. QED BY <4>1 DEF Running
      <3>4. Running(a) \subseteq Running(c)
        <4>1. SUFFICES ASSUME NEW b \in Running(a) PROVE b \in Running(c)
          OBVIOUS
        <4>2. Live(b) /\ b \in Agent /\ a \in Thread[b] /\ a # b /\ run[b] \in {"running", "pooling"}
          BY <2>2 DEF Running, Live
        <4>3. PICK d \in Thread[b] : Awaits(a, d)
          BY <4>2, ChildBetween
        <4>4. d = c
          BY <3>1, <4>3 DEF Tree, Awaits
        <4>5. QED BY <4>2, <4>3, <4>4 DEF Running
      <3>5. c \in T /\ Live(c)
        BY <1>1, <3>1 DEF Awaits
      <3>6. QED BY <3>3, <3>4, <3>5
    <2>3. QED BY <2>1, <2>2 DEF Live
  <1> HIDE DEF T
  <1>2. Agent \subseteq T
    BY <1>1, LeafToRoot
  <1>3. ASSUME NEW a \in Agent, run[a] = "waiting"
        PROVE  Cardinality({b \in Agent : run[b] \in {"running", "pooling"} /\ a \in Thread[b]}) = 1
    <2>1. PICK b \in Agent : Running(a) = {b}
      BY <1>2, <1>3 DEF T, Live
    <2>2. QED BY <2>1, FS_Singleton DEF Running
  <1>4. QED BY <1>3 DEF OneRunnerPerThread

\* A parent is not its own child.
LEMMA ParentIsOther == \A a \in Agent \ {Root} : Parent[a] \in Agent /\ Parent[a] # a
  <1>1. PICK rank \in [Agent -> 0..Cardinality(Agent)] : \A a \in Agent \ {Root} : rank[Parent[a]] < rank[a]
    BY DelegationAssumption
  <1>2. Cardinality(Agent) \in Nat
    BY DelegationAssumption, FS_CardinalityType
  <1>3. \A a \in Agent \ {Root} : Parent[a] \in Agent /\ rank[a] \in Nat
    BY <1>1, <1>2, DelegationAssumption
  <1>4. QED BY <1>1, <1>3

TreeInv ==
    /\ Tree
    /\ told \in [Agent -> {"nothing", "spawned", "completed", "error"}]
    /\ spawnList \in [Agent -> {"nothing", "spawned", "completed", "failed"}]
    /\ refused \subseteq Agent /\ ExhaustionFailsTheThread /\ ToldCompleted

\* Who failed stays on threads that failed, as long as nobody is revived.
LEMMA FailedStay ==
    ASSUME TreeInv, background \subseteq background', refused' = refused,
           \A a \in Agent : run[a] = "failed" => run'[a] = "failed"
    PROVE  ExhaustionFailsTheThread'
  <1>1. \A a \in Agent : Thread'[a] \subseteq Thread[a] /\ Thread[a] \subseteq Agent
    <2>1. \A a \in Agent : Thread'[a] \subseteq Thread[a]
      BY ThreadIs, ThreadShrinks
    <2>2. \A a \in Agent : Thread[a] \subseteq Agent
      BY ThreadIs DEF IsThread
    <2>3. QED BY <2>1, <2>2
  <1>2. \A a \in refused : \A b \in Thread[a] : run[b] = "failed"
    BY DEF TreeInv, ExhaustionFailsTheThread
  <1>3. refused \subseteq Agent
    BY DEF TreeInv
  <1>4. QED BY <1>1, <1>2, <1>3 DEF ExhaustionFailsTheThread

\* A synchronous spawn.
LEMMA SpawnSyncKeeps ==
    ASSUME TreeInv, NEW a \in Agent, NEW c \in Agent, SpawnSync(a, c)
    PROVE  TreeInv'
  <1>1. /\ run[a] \in {"running", "pooling"} /\ run[c] = "unborn" /\ c # Root /\ Parent[c] = a /\ a # c
        /\ \A b \in Agent : run'[b] = IF b = c THEN "running"
                                      ELSE IF b = a THEN (IF a \in Meta THEN "pooling" ELSE "waiting")
                                      ELSE run[b]
        /\ run' \in [Agent -> {"unborn", "running", "waiting", "pooling", "completed", "failed"}]
        /\ UNCHANGED <<background, told, spawnList, refused>>
    BY ParentIsOther DEF SpawnSync, MaySpawn, TreeInv, Tree
  <1>2. c \notin background /\ (c \in Pooled <=> a \in Meta)
    BY <1>1 DEF TreeInv, Tree, Pooled
  <1>3. \A b, d \in Agent : Awaits(b, d)' <=> Awaits(b, d) \/ (b = a /\ d = c /\ a \notin Meta)
    BY <1>1, <1>2 DEF Awaits, Live
  <1>4. \A d \in Agent : ~Awaits(a, d) /\ \A b \in Agent : ~Awaits(b, c)
    BY <1>1 DEF TreeInv, Tree, Awaits, Live
  <1>5. Tree'
    <2>1. \A b, d \in Agent : Awaits(b, d)' => run'[b] = "waiting"
      BY <1>1, <1>3, <1>4 DEF TreeInv, Tree
    <2>2. \A b \in Agent : run'[b] = "waiting" => \E d \in Agent : Awaits(b, d)'
      BY <1>1, <1>3 DEF TreeInv, Tree
    <2>3. \A b, d, e \in Agent : Awaits(b, d)' /\ Awaits(b, e)' => d = e
      BY <1>3, <1>4 DEF TreeInv, Tree
    <2>4. background' \subseteq Agent \ {Root} /\ \A b \in background' : run'[b] # "unborn"
      BY <1>1 DEF TreeInv, Tree
    <2>5. \A b \in Agent : (run'[b] = "waiting" => b \notin Meta) /\ (run'[b] = "pooling" => b \in Meta)
      BY <1>1 DEF TreeInv, Tree
    <2>6. ParentOutlastsPool'
      <3>1. SUFFICES ASSUME NEW d \in Pooled \ background, Live(d)' PROVE run'[Parent[d]] = "pooling"
        BY <1>1 DEF ParentOutlastsPool
      <3>2. d \in Agent /\ Parent[d] \in Agent /\ Parent[d] \in Meta
        BY ParentIsOther DEF Pooled
      <3>3. CASE d = c
        BY <1>1, <3>2, <3>3
      <3>4. CASE d # c
        <4>1. Live(d)
          BY <1>1, <3>1, <3>2, <3>4 DEF Live
        <4>2. run[Parent[d]] = "pooling"
          BY <4>1 DEF TreeInv, Tree, ParentOutlastsPool
        <4>3. QED BY <1>1, <3>2, <4>2
      <3>5. QED BY <3>3, <3>4
    <2>7. QED BY <1>1, <2>1, <2>2, <2>3, <2>4, <2>5, <2>6 DEF Tree
  <1>6. ExhaustionFailsTheThread'
    BY <1>1, FailedStay
  <1>7. ToldCompleted'
    BY <1>1 DEF TreeInv, ToldCompleted
  <1>8. QED BY <1>1, <1>5, <1>6, <1>7 DEF TreeInv

\* The end of a pool.
LEMMA LeavePoolKeeps ==
    ASSUME TreeInv, NEW a \in Agent, LeavePool(a)
    PROVE  TreeInv'
  <1>1. /\ run[a] = "pooling" /\ \A c \in Pooled \ background : Parent[c] = a => ~Live(c)
        /\ \A b \in Agent : run'[b] = IF b = a THEN "running" ELSE run[b]
        /\ run' \in [Agent -> {"unborn", "running", "waiting", "pooling", "completed", "failed"}]
        /\ UNCHANGED <<background, told, spawnList, refused>>
    BY DEF LeavePool, TreeInv, Tree
  <1>2. \A b \in Agent : Live(b)' <=> Live(b)
    BY <1>1 DEF Live
  <1>3. \A b, d \in Agent : Awaits(b, d)' <=> Awaits(b, d)
    BY <1>1, <1>2 DEF Awaits
  <1>4. Tree'
    <2>1. \A b \in Agent : run'[b] = "waiting" <=> run[b] = "waiting"
      BY <1>1
    <2>2. background' \subseteq Agent \ {Root} /\ \A b \in background' : run'[b] # "unborn"
      BY <1>1 DEF TreeInv, Tree
    <2>3. ParentOutlastsPool'
      <3>1. SUFFICES ASSUME NEW d \in Pooled \ background, Live(d)' PROVE run'[Parent[d]] = "pooling"
        BY <1>1 DEF ParentOutlastsPool
      <3>2. d \in Agent /\ Parent[d] \in Agent
        BY ParentIsOther DEF Pooled
      <3>3. run[Parent[d]] = "pooling" /\ Parent[d] # a
        BY <1>1, <1>2, <3>1, <3>2 DEF TreeInv, Tree, ParentOutlastsPool
      <3>4. QED BY <1>1, <3>2, <3>3
    <2>4. \A b \in Agent : run'[b] = "pooling" => run[b] = "pooling"
      BY <1>1
    <2>5. QED BY <1>1, <1>3, <2>1, <2>2, <2>3, <2>4 DEF TreeInv, Tree
  <1>5. ExhaustionFailsTheThread'
    BY <1>1, FailedStay
  <1>6. ToldCompleted'
    BY <1>1 DEF TreeInv, ToldCompleted
  <1>7. QED BY <1>1, <1>4, <1>5, <1>6 DEF TreeInv

\* An asynchronous spawn.
LEMMA SpawnAsyncKeeps ==
    ASSUME TreeInv, NEW a \in Agent, NEW c \in Agent, SpawnAsync(a, c)
    PROVE  TreeInv'
  <1>1. /\ run[a] \in {"running", "pooling"} /\ run[c] = "unborn" /\ c # Root /\ a # c
        /\ \A b \in Agent : run'[b] = IF b = c THEN "running" ELSE run[b]
        /\ run' \in [Agent -> {"unborn", "running", "waiting", "pooling", "completed", "failed"}]
        /\ background' = background \cup {c} /\ refused' = refused
        /\ \A b \in Agent \ {c} : told'[b] = told[b] /\ spawnList'[b] = spawnList[b]
        /\ told' \in [Agent -> {"nothing", "spawned", "completed", "error"}] /\ told'[c] = "spawned"
        /\ spawnList' \in [Agent -> {"nothing", "spawned", "completed", "failed"}]
    BY ParentIsOther DEF SpawnAsync, MaySpawn, Report, TreeInv, Tree
  <1>2. \A b, d \in Agent : Awaits(b, d)' <=> Awaits(b, d)
    BY <1>1 DEF Awaits, Live
  <1>3. Tree'
    <2>1. \A b, d \in Agent : Awaits(b, d)' => run'[b] = "waiting"
      BY <1>1, <1>2 DEF TreeInv, Tree
    <2>2. \A b \in Agent : run'[b] = "waiting" => \E d \in Agent : Awaits(b, d)'
      BY <1>1, <1>2 DEF TreeInv, Tree
    <2>3. \A b, d, e \in Agent : Awaits(b, d)' /\ Awaits(b, e)' => d = e
      BY <1>2 DEF TreeInv, Tree
    <2>4. background' \subseteq Agent \ {Root} /\ \A b \in background' : run'[b] # "unborn"
      BY <1>1 DEF TreeInv, Tree
    <2>5. \A b \in Agent : (run'[b] = "waiting" => b \notin Meta) /\ (run'[b] = "pooling" => b \in Meta)
      BY <1>1 DEF TreeInv, Tree
    <2>6. ParentOutlastsPool'
      <3>1. SUFFICES ASSUME NEW d \in Pooled \ background', Live(d)' PROVE run'[Parent[d]] = "pooling"
        BY DEF ParentOutlastsPool
      <3>2. d \in Agent /\ Parent[d] \in Agent /\ d # c /\ d \notin background
        BY <1>1, ParentIsOther DEF Pooled
      <3>3. Live(d)
        BY <1>1, <3>1, <3>2 DEF Live
      <3>4. run[Parent[d]] = "pooling"
        BY <3>2, <3>3 DEF TreeInv, Tree, ParentOutlastsPool
      <3>5. QED BY <1>1, <3>2, <3>4
    <2>7. QED BY <1>1, <2>1, <2>2, <2>3, <2>4, <2>5, <2>6 DEF Tree
  <1>4. ExhaustionFailsTheThread'
    BY <1>1, FailedStay
  <1>5. ToldCompleted'
    BY <1>1 DEF TreeInv, ToldCompleted
  <1>6. QED BY <1>1, <1>3, <1>4, <1>5 DEF TreeInv

\* A spawn answered by a mock.
LEMMA SpawnFakeKeeps ==
    ASSUME TreeInv, NEW a \in Agent, NEW c \in Agent, SpawnFake(a, c)
    PROVE  TreeInv'
  <1>1. /\ UNCHANGED <<run, background, refused>>
        /\ \A b \in Agent : told'[b] = IF b = c THEN "completed" ELSE told[b]
        /\ \A b \in Agent : spawnList'[b] =
                IF b # c THEN spawnList[b] ELSE IF c \in Matched THEN "completed" ELSE "failed"
        /\ told' \in [Agent -> {"nothing", "spawned", "completed", "error"}]
        /\ spawnList' \in [Agent -> {"nothing", "spawned", "completed", "failed"}]
    BY DEF SpawnFake, Report, TreeInv
  <1>2. Tree'
    BY <1>1 DEF TreeInv, Tree, Awaits, Live, ParentOutlastsPool
  <1>3. ExhaustionFailsTheThread'
    BY <1>1, FailedStay
  <1>4. ToldCompleted'
    BY <1>1 DEF TreeInv, ToldCompleted
  <1>5. QED BY <1>1, <1>2, <1>3, <1>4 DEF TreeInv

\* The end of an agent.
LEMMA FinishKeeps ==
    ASSUME TreeInv, NEW a \in Agent, Finish(a)
    PROVE  TreeInv'
  <1> DEFINE alone == a = Root \/ a \in background \cup Pooled
  <1>1. /\ run[a] = "running" /\ UNCHANGED <<background, refused>>
        /\ run' \in [Agent -> {"unborn", "running", "waiting", "pooling", "completed", "failed"}]
        /\ run'[a] = "completed"
        /\ \A b \in Agent \ {a} : run'[b] = IF ~alone /\ b = Parent[a] THEN "running" ELSE run[b]
        /\ told' \in [Agent -> {"nothing", "spawned", "completed", "error"}]
        /\ spawnList' \in [Agent -> {"nothing", "spawned", "completed", "failed"}]
        /\ \A b \in Agent \ {a} : told'[b] = told[b] /\ spawnList'[b] = spawnList[b]
    <2>1. CASE a = Root \/ a \in background
      BY <2>1 DEF Finish, TreeInv, Tree
    <2>2. CASE ~(a = Root \/ a \in background)
      <3>1. Parent[a] \in Agent /\ Parent[a] # a
        BY <2>2, ParentIsOther
      <3>2. QED BY <2>2, <3>1 DEF Finish, Report, TreeInv, Tree
    <2>3. QED BY <2>1, <2>2
  <1>2. ~alone => Awaits(Parent[a], a) /\ run[Parent[a]] = "waiting" /\ Parent[a] \in Agent
    BY <1>1, ParentIsOther DEF Awaits, Live, TreeInv, Tree
  <1>3. \A b, d \in Agent : Awaits(b, d)' <=> Awaits(b, d) /\ d # a
    BY <1>1, <1>2 DEF Awaits, Live
  <1>4. Tree'
    <2>1. ASSUME NEW b \in Agent, NEW d \in Agent, Awaits(b, d)' PROVE run'[b] = "waiting"
      <3>1. Awaits(b, d) /\ d # a /\ run[b] = "waiting" /\ b # a
        BY <1>1, <1>3, <2>1 DEF TreeInv, Tree
      <3>2. ~alone => b # Parent[a]
        BY <1>2, <3>1 DEF TreeInv, Tree
      <3>3. QED BY <1>1, <3>1, <3>2
    <2>2. ASSUME NEW b \in Agent, run'[b] = "waiting" PROVE \E d \in Agent : Awaits(b, d)'
      <3>1. b # a /\ run[b] = "waiting" /\ (~alone => b # Parent[a])
        BY <1>1, <2>2
      <3>2. PICK d \in Agent : Awaits(b, d)
        BY <3>1 DEF TreeInv, Tree
      <3>3. d # a
        BY <3>1, <3>2 DEF Awaits
      <3>4. QED BY <1>3, <3>2, <3>3
    <2>3. \A b, d, e \in Agent : Awaits(b, d)' /\ Awaits(b, e)' => d = e
      BY <1>3 DEF TreeInv, Tree
    <2>4. background' \subseteq Agent \ {Root} /\ \A b \in background' : run'[b] # "unborn"
      BY <1>1 DEF TreeInv, Tree
    <2>5. \A b \in Agent : (run'[b] = "waiting" => b \notin Meta) /\ (run'[b] = "pooling" => b \in Meta)
      BY <1>1 DEF TreeInv, Tree
    <2>6. ParentOutlastsPool'
      <3>1. SUFFICES ASSUME NEW d \in Pooled \ background, Live(d)' PROVE run'[Parent[d]] = "pooling"
        BY <1>1 DEF ParentOutlastsPool
      <3>2. d \in Agent /\ Parent[d] \in Agent /\ Parent[d] \in Meta
        BY ParentIsOther DEF Pooled
      <3>3. Live(d)
        <4>1. d # a
          BY <1>1, <3>1 DEF Live
        <4>2. CASE ~alone /\ d = Parent[a]
          BY <1>2, <4>2 DEF Live
        <4>3. CASE ~(~alone /\ d = Parent[a])
          BY <1>1, <3>1, <3>2, <4>1, <4>3 DEF Live
        <4>4. QED BY <4>2, <4>3
      <3>4. run[Parent[d]] = "pooling"
        BY <3>3 DEF TreeInv, Tree, ParentOutlastsPool
      <3>5. Parent[d] # a /\ (~alone => Parent[d] # Parent[a])
        BY <1>1, <1>2, <3>4
      <3>6. QED BY <1>1, <3>2, <3>4, <3>5
    <2>7. QED BY <1>1, <2>1, <2>2, <2>3, <2>4, <2>5, <2>6 DEF Tree
  <1>5. ExhaustionFailsTheThread'
    <2>1. \A b \in Agent : run[b] = "failed" => run'[b] = "failed"
      BY <1>1, <1>2
    <2>2. QED BY <1>1, <2>1, FailedStay
  <1>6. ToldCompleted'
    <2>1. \A b \in Agent : /\ run[b] = "completed" => run'[b] = "completed"
                           /\ run[b] = "failed" => run'[b] = "failed"
      BY <1>1, <1>2
    <2>2. told'[a] # "error"
      BY <1>1 DEF Finish, Report, TreeInv, ToldCompleted
    <2>3. QED BY <1>1, <2>1, <2>2 DEF TreeInv, ToldCompleted
  <1>7. QED BY <1>1, <1>4, <1>5, <1>6 DEF TreeInv

\* An exhausted mock fails the thread.
LEMMA RefuseKeeps ==
    ASSUME TreeInv, NEW a \in Agent, Refuse(a)
    PROVE  TreeInv'
  <1>1. /\ run[a] = "running" /\ UNCHANGED <<background, spawnList>>
        /\ \A b \in Agent : told'[b] = IF b \in (Thread[a] \cap Pooled) \ background THEN "error" ELSE told[b]
        /\ told' \in [Agent -> {"nothing", "spawned", "completed", "error"}]
        /\ \A b \in Agent : run'[b] = IF b \in Thread[a] THEN "failed" ELSE run[b]
        /\ run' \in [Agent -> {"unborn", "running", "waiting", "pooling", "completed", "failed"}]
        /\ refused' = refused \cup {a}
    BY DEF Refuse, Raise, Calls, TreeInv, Tree
  <1>2. a \in Thread[a] /\ Thread[a] \subseteq Agent /\ \A b \in Thread[a] : b = a \/ run[b] = "waiting"
    <2>1. Live(a)
      BY <1>1 DEF Live
    <2>2. QED BY <2>1, ThreadIs, OnOwnThread, ThreadWaits DEF TreeInv, IsThread
  <1>3. \A b, d \in Agent : Awaits(b, d)' <=> Awaits(b, d) /\ d \notin Thread[a]
    BY <1>1 DEF Awaits, Live
  <1>4. \A b, d \in Agent : Awaits(b, d) => (b \in Thread[a] <=> d \in Thread[a])
    <2>1. SUFFICES ASSUME NEW b \in Agent, NEW d \in Agent, Awaits(b, d)
                   PROVE  b \in Thread[a] <=> d \in Thread[a]
      OBVIOUS
    <2>2. ASSUME d \in Thread[a] PROVE b \in Thread[a]
      <3>1. Thread[d] = {d} \cup Thread[b]
        BY <2>1, ThreadIs DEF Awaits, IsThread
      <3>2. b \in Thread[d]
        BY <3>1, ThreadIs, OnOwnThread
      <3>3. QED BY <2>2, <3>2, ThreadIs, ThreadNests
    <2>3. ASSUME b \in Thread[a] PROVE d \in Thread[a]
      <3>1. run[b] = "waiting" /\ b # a
        BY <1>1, <2>1 DEF TreeInv, Tree
      <3>2. Live(a)
        BY <1>1 DEF Live
      <3>3. PICK e \in Thread[a] : Awaits(b, e)
        BY <2>3, <3>1, <3>2, ChildBetween DEF TreeInv
      <3>4. e = d
        BY <1>2, <2>1, <3>3 DEF TreeInv, Tree
      <3>5. QED BY <3>3, <3>4
    <2>4. QED BY <2>2, <2>3
  <1>5. Tree'
    <2>1. \A b, d \in Agent : Awaits(b, d)' => run'[b] = "waiting"
      BY <1>1, <1>3, <1>4 DEF TreeInv, Tree
    <2>2. \A b \in Agent : run'[b] = "waiting" => \E d \in Agent : Awaits(b, d)'
      BY <1>1, <1>3, <1>4 DEF TreeInv, Tree
    <2>3. \A b, d, e \in Agent : Awaits(b, d)' /\ Awaits(b, e)' => d = e
      BY <1>3 DEF TreeInv, Tree
    <2>4. background' \subseteq Agent \ {Root} /\ \A b \in background' : run'[b] # "unborn"
      BY <1>1 DEF TreeInv, Tree
    <2>5. \A b \in Agent : (run'[b] = "waiting" => b \notin Meta) /\ (run'[b] = "pooling" => b \in Meta)
      BY <1>1 DEF TreeInv, Tree
    <2>6. ParentOutlastsPool'
      <3>1. SUFFICES ASSUME NEW d \in Pooled \ background, Live(d)' PROVE run'[Parent[d]] = "pooling"
        BY <1>1 DEF ParentOutlastsPool
      <3>2. d \in Agent /\ Parent[d] \in Agent
        BY ParentIsOther DEF Pooled
      <3>3. Live(d)
        BY <1>1, <3>1, <3>2 DEF Live
      <3>4. run[Parent[d]] = "pooling"
        BY <3>3 DEF TreeInv, Tree, ParentOutlastsPool
      <3>5. Parent[d] \notin Thread[a]
        BY <1>1, <1>2, <3>4
      <3>6. QED BY <1>1, <3>2, <3>4, <3>5
    <2>7. QED BY <1>1, <2>1, <2>2, <2>3, <2>4, <2>5, <2>6 DEF Tree
  <1>6. ExhaustionFailsTheThread'
    <2>1. \A b \in Agent : Thread'[b] \subseteq Thread[b] /\ Thread[b] \subseteq Agent
      <3>1. \A b \in Agent : Thread'[b] \subseteq Thread[b]
        BY <1>1, ThreadIs, ThreadShrinks
      <3>2. QED BY <3>1, ThreadIs DEF IsThread
    <2>2. refused \subseteq Agent /\ \A c \in refused : \A b \in Thread[c] : run[b] = "failed"
      BY DEF TreeInv, ExhaustionFailsTheThread
    <2>3. QED BY <1>1, <2>1, <2>2 DEF ExhaustionFailsTheThread
  <1>7. ToldCompleted'
    <2>1. \A b \in Agent : /\ run[b] = "completed" => run'[b] = "completed"
                           /\ run[b] = "failed" => run'[b] = "failed"
      BY <1>1, <1>2
    <2>2. QED BY <1>1, <2>1 DEF TreeInv, ToldCompleted
  <1>8. QED BY <1>1, <1>5, <1>6, <1>7 DEF TreeInv

Count(answers, t, i) == Cardinality({j \in 1 .. i : answers[j].tool = t})
Given(t) == Count(served, t, Len(served))

(* A tool's cursor has passed its sticky entries by none: it counts the    *)
(* answers, or has stopped at a sticky entry.                              *)
ServeInv ==
    /\ DOMAIN consumed = DOMAIN Ordinal
    /\ served \in Seq([tool : DOMAIN Mocks, entry : Nat])
    /\ \A t \in DOMAIN Ordinal :
          /\ consumed[t] \in 0 .. Len(Ordinal[t])
          /\ \A j \in 1 .. consumed[t] : ~Ordinal[t][j]
          /\ \/ consumed[t] = Given(t)
             \/ consumed[t] < Given(t) /\ consumed[t] < Len(Ordinal[t]) /\ Ordinal[t][consumed[t] + 1]
    /\ ServedInOrder

\* What a mocks file comes to: per tool a list of entries, never both forms.
LEMMA OrdinalTyped ==
    /\ \A t \in DOMAIN Ordinal : Ordinal[t] \in Seq(BOOLEAN) /\ Len(Ordinal[t]) \in Nat
    /\ DOMAIN Ordinal \subseteq DOMAIN Mocks
    /\ \A t \in SemanticTools : t \in DOMAIN Mocks /\ t \notin DOMAIN Ordinal
  <1>1. \A t \in DOMAIN Mocks : Mocks[t].sticky \in Seq(BOOLEAN) /\ <<TRUE>> \in Seq(BOOLEAN)
    BY DelegationAssumption
  <1>2. \A t \in DOMAIN Ordinal : Ordinal[t] \in Seq(BOOLEAN)
    BY <1>1 DEF Ordinal, Entries
  <1>3. QED BY <1>2 DEF Ordinal, SemanticTools

\* Answers count one by one.
LEMMA CountAnswer ==
    ASSUME NEW S, NEW q \in Seq(S), NEW e \in S, NEW t
    PROVE  /\ \A i \in 1 .. Len(q) : Count(Append(q, e), t, i) = Count(q, t, i)
           /\ Count(q, t, Len(q)) \in Nat
           /\ Count(Append(q, e), t, Len(q) + 1) = Count(q, t, Len(q)) + (IF e.tool = t THEN 1 ELSE 0)
  <1> DEFINE n == Len(q)
             r == Append(q, e)
             old(i) == {j \in 1 .. i : q[j].tool = t}
             new(i) == {j \in 1 .. i : r[j].tool = t}
  <1>1. n \in Nat /\ r[n + 1] = e /\ \A i \in 1 .. n : r[i] = q[i]
    OBVIOUS
  <1> HIDE DEF r
  <1>2. \A i \in 1 .. n : new(i) = old(i)
    BY <1>1
  <1>3. IsFiniteSet(old(n)) /\ Cardinality(old(n)) \in Nat
    <2>1. IsFiniteSet(1 .. n) /\ old(n) \subseteq 1 .. n
      BY <1>1, FS_Interval
    <2>2. QED BY <2>1, FS_Subset, FS_CardinalityType
  <1>4. new(n + 1) = IF e.tool = t THEN old(n) \cup {n + 1} ELSE old(n)
    BY <1>1
  <1>5. Cardinality(new(n + 1)) = Cardinality(old(n)) + (IF e.tool = t THEN 1 ELSE 0)
    <2>1. n + 1 \notin old(n)
      BY <1>1
    <2> HIDE DEF old, new
    <2>2. Cardinality(old(n) \cup {n + 1}) = Cardinality(old(n)) + 1
      BY <1>3, <2>1, FS_AddElement
    <2>3. QED BY <1>3, <1>4, <2>2
  <1>6. QED BY <1>2, <1>3, <1>5 DEF Count, r

\* An answer of a mock.
LEMMA ServeKeeps ==
    ASSUME ServeInv, NEW a \in Agent, NEW t \in DOMAIN Ordinal, ServeOrdinal(a, t)
    PROVE  ServeInv'
  <1> DEFINE n == Len(served)
             k == consumed[t] + 1
             e == [tool |-> t, entry |-> k]
             S == [tool : DOMAIN Mocks, entry : Nat]
             size == Len(Ordinal[t])
  <1>1. Ordinal[t] \in Seq(BOOLEAN) /\ size \in Nat /\ DOMAIN Ordinal[t] = 1 .. size
    BY OrdinalTyped
  <1>2. /\ served \in Seq(S) /\ n \in Nat /\ consumed[t] \in 0 .. size /\ k \in 1 .. size
        /\ served' = Append(served, e)
        /\ DOMAIN consumed' = DOMAIN Ordinal
        /\ consumed'[t] = IF Ordinal[t][k] THEN consumed[t] ELSE k
        /\ \A u \in DOMAIN Ordinal \ {t} : consumed'[u] = consumed[u]
    BY <1>1 DEF ServeInv, ServeOrdinal, OutOfMocks, Answer, Advance
  <1>3. e \in S /\ e.tool = t /\ e.entry = k
    BY <1>2, OrdinalTyped
  <1> HIDE DEF S, e
  <1>4. /\ served' \in Seq(S) /\ Len(served') = n + 1 /\ served'[n + 1] = e
        /\ \A i \in 1 .. n : served'[i] = served[i]
    BY <1>2, <1>3
  <1>5. \A u : /\ \A i \in 1 .. n : Count(served', u, i) = Count(served, u, i)
              /\ Count(served, u, n) \in Nat
              /\ Count(served', u, n + 1) = Count(served, u, n) + (IF u = t THEN 1 ELSE 0)
    BY <1>2, <1>3, CountAnswer
  <1>6. \A u : Given(u) \in Nat /\ Given(u)' = Given(u) + (IF u = t THEN 1 ELSE 0)
    BY <1>4, <1>5 DEF Given
  <1>7. /\ \A j \in 1 .. consumed[t] : ~Ordinal[t][j]
        /\ \/ consumed[t] = Given(t)
           \/ consumed[t] < Given(t) /\ consumed[t] < size /\ Ordinal[t][k]
    BY DEF ServeInv
  <1>8. ASSUME NEW u \in DOMAIN Ordinal
        PROVE  /\ consumed'[u] \in 0 .. Len(Ordinal[u])
               /\ \A j \in 1 .. consumed'[u] : ~Ordinal[u][j]
               /\ \/ consumed'[u] = Given(u)'
                  \/ consumed'[u] < Given(u)' /\ consumed'[u] < Len(Ordinal[u]) /\ Ordinal[u][consumed'[u] + 1]
    <2>1. CASE u # t
      <3>1. consumed'[u] = consumed[u] /\ Given(u)' = Given(u)
        BY <1>2, <1>6, <2>1
      <3>2. QED BY <3>1 DEF ServeInv
    <2>2. CASE u = t /\ Ordinal[t][k]
      BY <1>1, <1>2, <1>6, <1>7, <2>2
    <2>3. CASE u = t /\ ~Ordinal[t][k]
      <3>1. consumed'[t] = k /\ Given(t)' = k
        BY <1>2, <1>6, <1>7, <2>3
      <3>2. \A j \in 1 .. k : ~Ordinal[t][j]
        BY <1>2, <1>7, <2>3
      <3>3. QED BY <1>2, <2>3, <3>1, <3>2
    <2>4. QED BY <2>1, <2>2, <2>3
  <1>9. ASSUME NEW i \in DOMAIN served'
        PROVE  served'[i].tool \in DOMAIN Ordinal =>
                   served'[i].entry = EntryDue(served'[i].tool, Nth(served', i))
    <2>1. DOMAIN served = 1 .. n /\ DOMAIN served' = 1 .. (n + 1)
      BY <1>2, <1>4
    <2>2. Nth(served', i) = Count(served', served'[i].tool, i)
      BY DEF Nth, Count
    <2>3. CASE i \in 1 .. n
      <3>1. served'[i] = served[i] /\ Nth(served, i) = Count(served, served[i].tool, i)
        BY <1>4, <2>3 DEF Nth, Count
      <3>2. Nth(served', i) = Nth(served, i)
        BY <1>5, <2>2, <2>3, <3>1
      <3>3. QED BY <2>1, <2>3, <3>1, <3>2 DEF ServeInv, ServedInOrder
    <2>4. CASE i = n + 1
      <3> DEFINE m == Given(t) + 1
                 sticky == {j \in DOMAIN Ordinal[t] : Ordinal[t][j] /\ j <= m}
      <3>1. served'[i].tool = t /\ served'[i].entry = k /\ Nth(served', i) = m /\ m \in Nat
        BY <1>3, <1>4, <1>5, <2>2, <2>4 DEF Given
      <3>2. \A j \in sticky : j >= k
        BY <1>1, <1>2, <1>7
      <3>3. EntryDue(t, m) = IF sticky = {} THEN m ELSE CHOOSE j \in sticky : \A h \in sticky : j <= h
        BY DEF EntryDue
      <3>4. CASE sticky = {}
        <4>1. ~Ordinal[t][k] \/ k > m
          BY <1>1, <1>2, <3>1, <3>4
        <4>2. k = m
          BY <1>2, <1>6, <1>7, <4>1
        <4>3. QED BY <3>1, <3>3, <3>4, <4>2
      <3>5. CASE sticky # {}
        <4>1. k \in sticky
          <5>1. CASE consumed[t] = Given(t)
            <6>1. \A j \in sticky : j = k
              BY <1>1, <1>2, <1>6, <3>2, <5>1
            <6>2. QED BY <3>5, <6>1
          <5>2. CASE consumed[t] < Given(t) /\ Ordinal[t][k]
            BY <1>1, <1>2, <1>6, <5>2
          <5>3. QED BY <1>7, <5>1, <5>2
        <4>2. k \in Nat /\ sticky \subseteq Nat
          BY <1>1, <1>2
        <4> HIDE DEF sticky, k
        <4>3. (CHOOSE j \in sticky : \A h \in sticky : j <= h) = k
          <5>1. \A j \in sticky : k <= j
            BY <3>2, <4>2
          <5>2. \A j \in sticky : (\A h \in sticky : j <= h) => j = k
            BY <4>1, <4>2, <5>1
          <5>3. QED BY <4>1, <5>1, <5>2
        <4>4. QED BY <3>1, <3>3, <3>5, <4>3
      <3>6. QED BY <3>4, <3>5
    <2>5. QED BY <1>2, <2>1, <2>3, <2>4
  <1>10. ServedInOrder'
    <2>1. \A i \in DOMAIN served' : i \in DOMAIN served \/ served'[i].tool \in DOMAIN Ordinal
      BY <1>2, <1>3, <1>4
    <2>2. \A i \in DOMAIN served : served'[i] = served[i]
      BY <1>2, <1>4
    <2>3. QED BY <1>9, <2>1, <2>2 DEF ServedInOrder, ServeInv
  <1>11. QED BY <1>2, <1>4, <1>8, <1>10 DEF ServeInv, S

\* An answer of the judge: the answers of the other tools keep their order.
LEMMA ServeSemanticKeeps ==
    ASSUME ServeInv, NEW a \in Agent, NEW t \in SemanticTools, ServeSemantic(a, t)
    PROVE  ServeInv'
  <1> DEFINE n == Len(served)
             S == [tool : DOMAIN Mocks, entry : Nat]
  <1>1. PICK verdict \in Verdict(t) :
            /\ MatchOf(t, verdict) # 0 \/ Mocks[t].on_no_match = "stub"
            /\ served' = Append(served, [tool |-> t, entry |-> MatchOf(t, verdict)])
    BY DEF ServeSemantic, Answer
  <1> DEFINE e == [tool |-> t, entry |-> MatchOf(t, verdict)]
  <1>2. /\ t \in DOMAIN Mocks /\ t \notin DOMAIN Ordinal /\ Mocks[t].fixtures \in Nat
        /\ MatchOf(t, verdict) = 0 \/ MatchOf(t, verdict) \in 1 .. Mocks[t].fixtures
    BY OrdinalTyped, DelegationAssumption DEF MatchOf
  <1>3. e \in S /\ e.tool = t /\ e.entry = MatchOf(t, verdict) /\ served \in Seq(S) /\ n \in Nat
    BY <1>2 DEF ServeInv
  <1> HIDE DEF e, S
  <1>4. /\ served' \in Seq(S) /\ Len(served') = n + 1 /\ served'[n + 1] = e
        /\ DOMAIN served = 1 .. n /\ DOMAIN served' = 1 .. (n + 1)
        /\ \A i \in 1 .. n : served'[i] = served[i]
    BY <1>1, <1>3 DEF e
  <1>5. \A u : /\ \A i \in 1 .. n : Count(served', u, i) = Count(served, u, i)
              /\ Count(served, u, n) \in Nat
              /\ Count(served', u, n + 1) = Count(served, u, n) + (IF u = t THEN 1 ELSE 0)
    BY <1>1, <1>3, CountAnswer DEF e
  <1>6. \A u \in DOMAIN Ordinal : Given(u)' = Given(u)
    BY <1>2, <1>4, <1>5 DEF Given
  <1>7. ServedInOrder'
    <2>1. SUFFICES ASSUME NEW i \in DOMAIN served'
                   PROVE  IF served'[i].tool \in DOMAIN Ordinal
                          THEN served'[i].entry = EntryDue(served'[i].tool, Nth(served', i))
                          ELSE \/ served'[i].entry \in 1 .. Mocks[served'[i].tool].fixtures
                               \/ served'[i].entry = 0 /\ Mocks[served'[i].tool].on_no_match = "stub"
      BY DEF ServedInOrder
    <2>2. CASE i \in 1 .. n
      <3>1. served'[i] = served[i] /\ Nth(served', i) = Nth(served, i)
        <4>1. served'[i] = served[i]
          BY <1>4, <2>2
        <4>2. /\ Nth(served', i) = Count(served', served'[i].tool, i)
              /\ Nth(served, i) = Count(served, served[i].tool, i)
          BY DEF Nth, Count
        <4>3. QED BY <1>5, <2>2, <4>1, <4>2
      <3>2. QED BY <1>4, <2>2, <3>1 DEF ServeInv, ServedInOrder
    <2>3. CASE i = n + 1
      <3>1. served'[i].tool = t /\ served'[i].entry = MatchOf(t, verdict)
        BY <1>3, <1>4, <2>3
      <3>2. QED BY <1>1, <1>2, <3>1
    <2>4. QED BY <1>3, <1>4, <2>2, <2>3
  <1>8. consumed' = consumed
    BY DEF ServeSemantic
  <1>9. QED BY <1>4, <1>6, <1>7, <1>8 DEF ServeInv, S

\* A step of the tree of agents.
LEMMA DelegationKeeps == TreeInv /\ ServeInv /\ [DelegationNext]_delegationVars => TreeInv' /\ ServeInv'
  <1> SUFFICES ASSUME TreeInv, ServeInv, [DelegationNext]_delegationVars PROVE TreeInv' /\ ServeInv'
    OBVIOUS
  <1>1. ASSUME UNCHANGED <<consumed, served>> PROVE ServeInv'
    BY <1>1 DEF ServeInv, Given, ServedInOrder
  <1>2. ASSUME UNCHANGED <<run, background, told, spawnList, refused>> PROVE TreeInv'
    <2>1. ExhaustionFailsTheThread'
      BY <1>2, FailedStay
    <2>2. QED BY <1>2, <2>1 DEF TreeInv, Tree, Awaits, Live, ToldCompleted, ParentOutlastsPool
  <1>3. ASSUME NEW a \in Agent, NEW c \in Agent, SpawnSync(a, c) PROVE TreeInv' /\ ServeInv'
    BY <1>1, <1>3, SpawnSyncKeeps DEF SpawnSync
  <1>4. ASSUME NEW a \in Agent, NEW c \in Agent, SpawnAsync(a, c) PROVE TreeInv' /\ ServeInv'
    BY <1>1, <1>4, SpawnAsyncKeeps DEF SpawnAsync
  <1>5. ASSUME NEW a \in Agent, NEW c \in Agent, SpawnFake(a, c) PROVE TreeInv' /\ ServeInv'
    BY <1>1, <1>5, SpawnFakeKeeps DEF SpawnFake
  <1>6. ASSUME NEW a \in Agent, Finish(a) PROVE TreeInv' /\ ServeInv'
    BY <1>1, <1>6, FinishKeeps DEF Finish
  <1>7. ASSUME NEW a \in Agent, NEW t \in DOMAIN Ordinal, ServeOrdinal(a, t) PROVE TreeInv' /\ ServeInv'
    BY <1>2, <1>7, ServeKeeps DEF ServeOrdinal
  <1>8. ASSUME NEW a \in Agent, Refuse(a) PROVE TreeInv' /\ ServeInv'
    BY <1>1, <1>8, RefuseKeeps DEF Refuse
  <1>9. ASSUME NEW a \in Agent, LeavePool(a) PROVE TreeInv' /\ ServeInv'
    BY <1>1, <1>9, LeavePoolKeeps DEF LeavePool
  <1>10. ASSUME NEW a \in Agent, NEW t \in SemanticTools, ServeSemantic(a, t) PROVE TreeInv' /\ ServeInv'
    BY <1>2, <1>10, ServeSemanticKeeps DEF ServeSemantic
  <1>11. CASE UNCHANGED delegationVars
    BY <1>1, <1>2, <1>11 DEF delegationVars
  <1>12. QED BY <1>3, <1>4, <1>5, <1>6, <1>7, <1>8, <1>9, <1>10, <1>11 DEF DelegationNext

\* The root runs alone and nothing was served.
LEMMA DelegationStart == DelegationInit => TreeInv /\ ServeInv
  <1> SUFFICES ASSUME DelegationInit PROVE TreeInv /\ ServeInv
    OBVIOUS
  <1>1. \A a, c \in Agent : ~Awaits(a, c)
    BY DEF DelegationInit, Awaits, Live
  <1>2. TreeInv
    BY <1>1 DEF DelegationInit, TreeInv, Tree, ExhaustionFailsTheThread, ToldCompleted,
                ParentOutlastsPool, Pooled, Live
  <1>3. served \in Seq([tool : DOMAIN Mocks, entry : Nat]) /\ Len(served) = 0 /\ DOMAIN served = {}
    BY DEF DelegationInit
  <1>4. \A t : Given(t) = 0
    <2>1. \A t : {j \in 1 .. 0 : served[j].tool = t} = {}
      OBVIOUS
    <2>2. QED BY <1>3, <2>1, FS_EmptySet DEF Given, Count
  <1>5. \A t \in DOMAIN Ordinal : Len(Ordinal[t]) \in Nat
    BY OrdinalTyped
  <1>6. QED BY <1>2, <1>3, <1>4, <1>5 DEF DelegationInit, ServeInv, ServedInOrder

\* Trees of agents under canned answers (_meta_agent_spawn, consume): answers
\* come in order, whatever the threads; an exhausted mock fails its thread;
\* one agent runs per thread, children side by side only under a pool their
\* parent waits for; and "completed" is said of what completed.
THEOREM DelegationStays == Spec => []DelegationKept
  <1>1. Init => TreeInv /\ ServeInv
    BY DelegationStart DEF Init
  <1>2. TreeInv /\ ServeInv /\ [Next]_vars => TreeInv' /\ ServeInv'
    <2>1. [Next]_vars => [DelegationNext]_delegationVars
      BY DEF Next, vars
    <2>2. QED BY <2>1, DelegationKeeps
  <1>3. TreeInv /\ ServeInv => DelegationKept
    BY OneRuns DEF TreeInv, Tree, ServeInv, DelegationKept
  <1>4. QED BY <1>1, <1>2, <1>3, PTL DEF Spec

(***************************************************************************)
(* Types of the parts.  An item that gets a number of its own gets one     *)
(* below the last; a child in the queue has stored its result before, and  *)
(* the parent collects results only.                                       *)
(***************************************************************************)
SgrTyped == SgrTypeOK /\ reflects \in 0 .. MaxReflects /\ stale <= reflects

(* The last item that gets a number of its own gets the last number.       *)
LEMMA NumbersFit ==
    ASSUME SgrTyped, NEW remaining \in Items, Ids(Normalized(remaining)) \subseteq Question
    PROVE  nextAuto + Cardinality(Numbered(remaining, Len(remaining))) \in 1 .. (MaxQuestion + 1)
  <1>1. PICK n \in 0 .. MaxItems : remaining \in [1 .. n -> Item]
    BY DEF Items
  <1>2. n \in Nat /\ Len(remaining) = n
    BY <1>1, SgrAssumption
  <1> DEFINE numbered == Numbered(remaining, n)
  <1>3. numbered \subseteq 1 .. n /\ IsFiniteSet(numbered) /\ Cardinality(numbered) \in Nat
    <2>1. numbered \subseteq 1 .. n
      BY DEF Numbered
    <2>2. IsFiniteSet(1 .. n)
      BY <1>2, FS_Interval
    <2>3. QED BY <2>1, <2>2, FS_Subset, FS_CardinalityType
  <1>4. CASE numbered = {}
    BY <1>2, <1>4, FS_EmptySet, SgrAssumption DEF SgrTyped, SgrTypeOK
  <1>5. CASE numbered # {}
    <2>1. PICK k \in numbered : \A j \in numbered : j <= k
      <3>1. numbered \subseteq Nat /\ \A j \in numbered : j <= n
        BY <1>2, <1>3
      <3> HIDE DEF numbered
      <3>2. QED BY <1>2, <1>5, <3>1, Greatest
    <2>2. Numbered(remaining, k) = numbered /\ k \in 1 .. n
      BY <1>2, <1>3, <2>1 DEF Numbered
    <2>3. IdOf(remaining, k) = nextAuto + Cardinality(numbered) - 1
      BY <2>1, <2>2 DEF IdOf, Numbered
    <2>4. IdOf(remaining, k) \in Ids(Normalized(remaining))
      BY <1>1, <2>2 DEF Ids, Normalized
    <2>5. nextAuto + Cardinality(numbered) - 1 \in 1 .. MaxQuestion
      BY <2>3, <2>4 DEF Question
    <2> HIDE DEF numbered
    <2>6. nextAuto \in Nat /\ nextAuto >= 1
      BY DEF SgrTyped, SgrTypeOK
    <2>7. QED BY <1>2, <1>3, <2>5, <2>6, SgrAssumption DEF numbered
  <1>6. QED BY <1>4, <1>5

\* One reflect keeps the types.
LEMMA RecordTypes ==
    ASSUME SgrTyped, NEW remaining \in Items, NEW answers \in Answers, NEW level \in Confidence,
           Record(remaining, answers, level)
    PROVE  SgrTyped'
  <1>1. open' \in [Question -> Text \cup {NoText}]
    BY LastItem DEF Record, SgrTyped, SgrTypeOK
  <1>2. resolved' \in [Question -> Resolution]
    BY DEF Record, ResolutionOf, SgrTyped, SgrTypeOK, Resolution
  <1>3. nextAuto' \in 1 .. (MaxQuestion + 1)
    BY NumbersFit DEF Record
  <1>4. reflects' \in 0 .. MaxReflects /\ stale' \in 0 .. MaxReflects /\ stale' <= reflects'
    BY SgrAssumption DEF Record, SgrTyped, SgrTypeOK
  <1>5. QED BY <1>1, <1>2, <1>3, <1>4 DEF SgrTyped, SgrTypeOK

\* A step of the open questions keeps their types.
LEMMA SgrTypes == SgrTyped /\ [SgrNext]_sgrVars => SgrTyped'
  <1>1. ASSUME SgrTyped, UNCHANGED sgrVars PROVE SgrTyped'
    BY <1>1 DEF sgrVars, SgrTyped, SgrTypeOK
  <1>2. QED BY <1>1, RecordTypes DEF SgrNext

\* No question is open at first.
LEMMA SgrStart == SgrInit => SgrTyped
  BY SgrAssumption DEF SgrInit, SgrTyped, SgrTypeOK, Resolution

ChildTyped ==
    /\ ChildrenTypeOK
    /\ \A c \in Child : thread[c] \in {"stored", "ended"} => c \in results
    /\ \A c \in queue : thread[c] = "ended"

\* A step of the children keeps their types.
LEMMA ChildTypes == ChildTyped /\ [ChildrenNext]_childVars => ChildTyped'
  <1> SUFFICES ASSUME ChildTyped, [ChildrenNext]_childVars PROVE ChildTyped'
    OBVIOUS
  <1> USE ChildrenAssumption
      DEF ChildTyped, ChildrenTypeOK, ThreadAt, ParentAt, SetThread, SetCall, Move, NoCall, shared, history
  <1>1. CASE UNCHANGED childVars
    BY <1>1 DEF childVars
  <1>2. CASE Drain
    BY <1>2 DEF Drain
  <1>3. CASE ToolsDone \/ StepDone \/ LeaveRun
    BY <1>3 DEF ToolsDone, StepDone, LeaveRun
  <1>4. ASSUME NEW c \in Child, Spawn(c) PROVE ChildTyped'
    BY <1>4 DEF Spawn
  <1>5. ASSUME NEW c \in Child, Store(c) PROVE ChildTyped'
    BY <1>5 DEF Store
  <1>6. ASSUME NEW c \in Child, Enqueue(c) PROVE ChildTyped'
    BY <1>6 DEF Enqueue
  <1>7. ASSUME NEW c \in Child, Fail(c) PROVE ChildTyped'
    BY <1>7 DEF Fail
  <1>8. ASSUME NEW i \in Call, AwaitAll(i) PROVE ChildTyped'
    BY <1>8 DEF AwaitAll, Spawned
  <1>9. ASSUME NEW i \in Call, NEW c \in Child, AwaitOne(i, c) PROVE ChildTyped'
    BY <1>9 DEF AwaitOne
  <1>10. ASSUME NEW i \in Call, Gather(i) PROVE ChildTyped'
    BY <1>10 DEF Gather
  <1>11. ASSUME NEW i \in Call, Drop(i) PROVE ChildTyped'
    BY <1>11 DEF Drop
  <1>12. QED
    BY <1>1, <1>2, <1>3, <1>4, <1>5, <1>6, <1>7, <1>8, <1>9, <1>10, <1>11
    DEF ChildrenNext, ParentNext, ThreadNext, AwaitNext

\* An answer is booked within the limits.
LEMMA UsageIsBooked ==
    ASSUME LoopTypeOK, TakeAnswer
    PROVE  /\ spent' \in 0 .. MaxTokens /\ lastPaid' \in Nat /\ prompt' \in Nat
           /\ wall' \in 0 .. MaxWall /\ fired' \subseteq Level /\ askedDone' \in BOOLEAN
           /\ single' \in BOOLEAN /\ request' \in 0 .. MaxRequests
  <1>1. spent' \in 0 .. MaxTokens /\ lastPaid' \in Nat /\ prompt' \in Nat
    <2>1. CASE UNCHANGED <<spent, lastPaid, prompt>>
      BY <2>1 DEF LoopTypeOK
    <2>2. ASSUME NEW u \in Usage, Charge(u) PROVE spent' \in 0 .. MaxTokens /\ lastPaid' \in Nat /\ prompt' \in Nat
      <3>1. u.prompt \in Nat /\ u.paid \in Nat
        BY LoopAssumption
      <3>2. Delta(u.paid) \in Nat
        BY <3>1 DEF Delta, LoopTypeOK
      <3>3. QED BY <2>2, <3>1, <3>2, LoopAssumption DEF Charge, AtMost, LoopTypeOK
    <2>3. QED BY <2>1, <2>2 DEF TakeAnswer
  <1>2. wall' \in 0 .. MaxWall
    BY LoopAssumption DEF TakeAnswer, AtMost, LoopTypeOK
  <1>3. 0 \in 0 .. MaxRequests
    BY LoopAssumption
  <1>4. QED BY <1>1, <1>2, <1>3 DEF TakeAnswer, LoopTypeOK

\* A guard sends the model back only while it has retries left.
LEMMA GuardSpeaks ==
    ASSUME LoopTypeOK, NEW guards, guards \subseteq Guard, \A g \in guards : ~SpentRetries(g), SendBack(guards)
    PROVE  retries' \in [Guard -> 0 .. MaxGuardRetries] /\ phase' \in Phase
  <1>1. PICK g \in guards : retries' = [retries EXCEPT ![g] = @ + 1]
    BY DEF SendBack
  <1>2. retries[g] \in 0 .. 1
    BY DEF SpentRetries, MaxGuardRetries, LoopTypeOK
  <1>3. QED BY <1>1, <1>2 DEF SendBack, Phase, LoopTypeOK, MaxGuardRetries

LoopTyped == LoopTypeOK /\ StepsTold /\ Cycle

\* A step of the loop keeps its types.
LEMMA LoopTypes == LoopTyped /\ [LoopNext]_loopVars => LoopTyped'
  <1> SUFFICES ASSUME LoopTyped, [LoopNext]_loopVars PROVE LoopTypeOK'
    BY StepsStep, CycleStep DEF LoopTyped
  <1>1. StepsTold' /\ Cycle' /\ LoopTypeOK
    BY StepsStep, CycleStep DEF LoopTyped
  <1>0. 0 \in 0 .. MaxRequests /\ 1 \in 0 .. MaxRequests /\ MaxRequests \in Nat
    BY LoopAssumption
  <1>2. step' \in 0 .. MaxSteps /\ reflected' \in BOOLEAN
        /\ cadence' \in [counter : 0 .. CounterTop, last : 0 .. CounterTop, nudged : BOOLEAN]
    BY <1>1 DEF StepsTold, Cycle
  <1>3. CASE UNCHANGED loopVars
    BY <1>1, <1>3 DEF loopVars, LoopTypeOK
  <1>4. CASE LeaveLoop \/ LlmFails
    BY <1>1, <1>4, <1>0 DEF LeaveLoop, LlmFails, budget, memory, LoopTypeOK, Phase
  <1>5. CASE Ask
    <2>1. fired' \subseteq Level
      BY <1>1, <1>5 DEF Ask, Fires, LoopTypeOK
    <2>2. askedDone' \in BOOLEAN
      BY <1>1, <1>5 DEF Ask, LoopTypeOK
    <2>3. QED BY <1>0, <1>1, <1>2, <1>5, <2>1, <2>2 DEF Ask, LoopTypeOK, Phase
  <1>6. CASE AnswerText
    <2>1. TakeAnswer /\ called' = called
      BY <1>6 DEF AnswerText
    <2>2. retries' \in [Guard -> 0 .. MaxGuardRetries] /\ phase' \in Phase /\ ending' \in Ending
          /\ output' \in Output
      <3>1. CASE TextGuard /\ ~SpentRetries(TextResponse)
        <4>1. SendBack({TextResponse}) /\ {TextResponse} \subseteq Guard
          BY <1>6, <3>1 DEF AnswerText, Guard
        <4>2. QED BY <1>1, <3>1, <4>1, GuardSpeaks DEF SendBack, LoopTypeOK
      <3>2. CASE ~(TextGuard /\ ~SpentRetries(TextResponse)) /\ Unmet(called) # {}
        <4>1. SendBack(Unmet(called)) /\ Unmet(called) \subseteq Guard /\ \A g \in Unmet(called) : ~SpentRetries(g)
          BY <1>6, <3>2 DEF AnswerText, Guard, Unmet
        <4>2. QED BY <1>1, <4>1, GuardSpeaks DEF SendBack, LoopTypeOK
      <3>3. CASE ~(TextGuard /\ ~SpentRetries(TextResponse)) /\ Unmet(called) = {}
        <4>1. Close("natural", "none")
          BY <1>6, <3>3 DEF AnswerText
        <4>2. QED BY <1>1, <4>1 DEF Close, LoopTypeOK, Phase, Ending, Output
      <3>4. QED BY <3>1, <3>2, <3>3
    <2>3. QED BY <1>1, <1>2, <2>1, <2>2, UsageIsBooked DEF LoopTypeOK
  <1>7. ASSUME NEW reply \in Reply, AnswerCalls(reply) PROVE LoopTypeOK'
    <2> DEFINE names == called \cup (Guarded \cap {reply[i].tool : i \in DOMAIN reply})
    <2>1. TakeAnswer /\ called' = names /\ names \subseteq Guarded
      BY <1>1, <1>7 DEF AnswerCalls, LoopTypeOK
    <2>2. retries' \in [Guard -> 0 .. MaxGuardRetries] /\ phase' \in Phase /\ ending' \in Ending
          /\ output' \in Output
      <3>1. CASE Accepted(reply) = {}
        BY <1>1, <1>7, <3>1 DEF AnswerCalls, LoopTypeOK, Phase
      <3>2. CASE Accepted(reply) # {} /\ Unmet(names) # {}
        <4>1. SendBack(Unmet(names)) /\ Unmet(names) \subseteq Guard /\ \A g \in Unmet(names) : ~SpentRetries(g)
          BY <1>7, <3>2 DEF AnswerCalls, Guard, Unmet
        <4> HIDE DEF names
        <4>2. QED BY <1>1, <4>1, GuardSpeaks DEF SendBack, LoopTypeOK
      <3>3. CASE Accepted(reply) # {} /\ Unmet(names) = {}
        <4>1. Close("done", Delivered(reply[LastOf(Accepted(reply))].args))
          BY <1>7, <3>3 DEF AnswerCalls
        <4>2. Delivered(reply[LastOf(Accepted(reply))].args) \in {"payload", "garbled", "empty"}
          BY DEF Delivered
        <4>3. QED BY <1>1, <4>1, <4>2 DEF Close, LoopTypeOK, Phase, Ending, Output
      <3>4. QED BY <3>1, <3>2, <3>3
    <2> HIDE DEF names
    <2>3. QED BY <1>1, <1>2, <2>1, <2>2, UsageIsBooked DEF LoopTypeOK
  <1>8. ASSUME NEW reply \in Reply, HandlerRaises(reply) PROVE LoopTypeOK'
    BY <1>1, <1>2, <1>8, UsageIsBooked DEF HandlerRaises, Close, LoopTypeOK, Phase, Ending, Output
  <1>9. CASE ForceDone
    BY <1>1, <1>9 DEF ForceDone, Close, budget, memory, LoopTypeOK, Phase, Ending, Output
  <1>10. CASE RetryRequest
    <2>1. request' \in 0 .. MaxRequests
      BY <1>0, <1>1, <1>10 DEF RetryRequest, LoopTypeOK
    <2>2. QED BY <1>1, <1>10, <2>1 DEF RetryRequest, budget, memory, LoopTypeOK
  <1>11. CASE AskSingle
    BY <1>0, <1>1, <1>11 DEF AskSingle, budget, memory, LoopTypeOK, Phase
  <1>12. CASE EndSingle
    BY <1>0, <1>1, <1>12 DEF EndSingle, Close, budget, memory, LoopTypeOK, Phase, Ending, Output
  <1>13. QED BY <1>3, <1>4, <1>5, <1>6, <1>7, <1>8, <1>9, <1>10, <1>11, <1>12 DEF LoopNext

PartsTyped == SgrTyped /\ ChatInv /\ (TreeInv /\ ServeInv) /\ ChildTyped /\ LoopTyped

\* Every part starts with its types.
LEMMA PartsStart == Init => PartsTyped
  <1> SUFFICES ASSUME Init PROVE PartsTyped
    OBVIOUS
  <1>1. SgrTyped /\ ChatInv /\ TreeInv /\ ServeInv
    BY SgrStart, ChatStart, DelegationStart DEF Init
  <1>2. ChildTyped
    <2>1. NoCall \in [at : {"none", "wait", "drop"}, want : SUBSET Child, got : SUBSET Child, all : BOOLEAN]
      BY DEF NoCall
    <2>2. QED BY <2>1, ChildrenAssumption
          DEF Init, ChildrenInit, ChildTyped, ChildrenTypeOK, ThreadAt, ParentAt
  <1>3. LoopTypeOK
    <2>1. retries \in [Guard -> 0 .. MaxGuardRetries]
      BY DEF Init, LoopInit, MaxGuardRetries
    <2>2. MaxSteps \in Nat /\ MaxTokens \in Nat /\ MaxWall \in Nat
      BY LoopAssumption
    <2>6. single \in BOOLEAN /\ request \in 0 .. MaxRequests
      BY LoopAssumption DEF Init, LoopInit
    <2>3. cadence \in [counter : 0 .. CounterTop, last : 0 .. CounterTop, nudged : BOOLEAN]
      BY CounterTopNat DEF Init, LoopInit
    <2>4. {askedDone, reflected} \subseteq BOOLEAN
      BY DEF Init, LoopInit
    <2>5. QED BY <2>1, <2>2, <2>3, <2>4, <2>6 DEF Init, LoopInit, LoopTypeOK, Phase, Ending, Output
  <1>4. StepsTold /\ Cycle
    BY LoopAssumption, CounterTopNat DEF Init, LoopInit, StepsTold, Cycle, OutOfStepsWasTold
  <1>5. QED BY <1>1, <1>2, <1>3, <1>4 DEF PartsTyped, LoopTyped

\* The types of the parts of an agent: the numbers stay in their bounds, a guard
\* speaks twice at most, and what the parent collects are results.
THEOREM PartsAreTyped == Spec => []PartsTypeOK
  <1>1. PartsTyped /\ [Next]_vars => PartsTyped'
    <2> SUFFICES ASSUME PartsTyped, [Next]_vars PROVE PartsTyped'
      OBVIOUS
    <2>1. [SgrNext]_sgrVars /\ [DelegationNext]_delegationVars /\ [ChildrenNext]_childVars
          /\ [LoopNext]_loopVars /\ (ChatNext \/ UNCHANGED chatVars)
      BY DEF Next, vars
    <2>2. ChatInv'
      <3>1. UNCHANGED chatVars /\ ChatInv => ChatInv'
        BY DEF chatVars, ChatInv
      <3>2. QED BY <2>1, <3>1, ChatMoves DEF PartsTyped
    <2>3. SgrTyped'
      BY <2>1, SgrTypes DEF PartsTyped
    <2>4. (TreeInv /\ ServeInv)'
      BY <2>1, DelegationKeeps DEF PartsTyped
    <2>5. ChildTyped'
      BY <2>1, ChildTypes DEF PartsTyped
    <2>6. LoopTyped'
      BY <2>1, LoopTypes DEF PartsTyped
    <2>7. QED BY <2>2, <2>3, <2>4, <2>5, <2>6 DEF PartsTyped
  <1>2. PartsTyped => PartsTypeOK
    <2> SUFFICES ASSUME PartsTyped PROVE PartsTypeOK
      OBVIOUS
    <2>1. ChatTypeOK
      <3>1. chat \in Seq(MessageUpTo(chatStep)) /\ strategy \in Strategy
        BY DEF PartsTyped, ChatInv, List
      <3>2. \A i \in DOMAIN chat : chat[i] \in MessageUpTo(chatStep)
        BY <3>1, ElementOfSeq
      <3>3. QED BY <3>1, <3>2 DEF ChatTypeOK, MessageUpTo
    <2>2. DelegationTypeOK
      BY DEF PartsTyped, TreeInv, ServeInv, Tree, DelegationTypeOK
    <2>3. QED BY <2>1, <2>2 DEF PartsTyped, PartsTypeOK, SgrTyped, ChildTyped, LoopTyped
  <1>3. QED BY <1>1, <1>2, PartsStart, PTL DEF Spec
==============================================================================
