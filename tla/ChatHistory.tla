----------------------------- MODULE ChatHistory -----------------------------
(***************************************************************************)
(* The message list of one agent (orchestra/agent.py) and how              *)
(* orchestra/condensation.py shortens it.  A message is its role, the step *)
(* that wrote it and its size; a model endpoint takes a tool message only  *)
(* after the assistant message that holds its call.                        *)
(***************************************************************************)
EXTENDS Integers, SequencesExt

CONSTANTS
    Strategy,      \* the condensation strategies to look at
    PreserveLast,  \* preserve_last
    Trigger,       \* trigger, in the unit of sizes
    Long, Short,   \* size of a tool result before and after it is cut
    MaxChat,       \* bound: steps of the agent
    MaxToolCalls   \* bound: tool calls of a step

ASSUME ChatAssumption ==
    /\ Strategy \subseteq {"llm_summary", "sliding_window", "drop_tool_results", "hybrid"}
    /\ {PreserveLast, Trigger, Long, Short, MaxChat, MaxToolCalls} \subseteq Nat

VARIABLES
    chat,      \* messages
    strategy,  \* cfg.strategy
    chatStep,  \* steps so far
    condensed  \* history: the list before the last condensation, <<>> if there was none

chatVars == <<chat, strategy, chatStep, condensed>>

Role == {"system", "user", "assistant", "tool", "header"}
Message(role, by, size) == [role |-> role, by |-> by, size |-> size]

\* estimate_tokens, should_condense
Size(messages) == FoldLeft(LAMBDA n, m : n + m.size, 0, messages)
ShouldCondense(messages) == Size(messages) > Trigger

HasSystem(messages) == messages # <<>> /\ Head(messages).role = "system"

SystemPart(messages) == IF HasSystem(messages) THEN <<Head(messages)>> ELSE <<>>
BodyPart(messages) == IF HasSystem(messages) THEN Tail(messages) ELSE messages

\* body[-keep:] and body[:-keep]
Recent(body) == IF PreserveLast >= Len(body) THEN body ELSE SubSeq(body, Len(body) - PreserveLast + 1, Len(body))
Older(body) == SubSeq(body, 1, Len(body) - Len(Recent(body)))

\* The header both summarising condensers put in place of what they drop.
Header == Message("header", 0, 1)

\* Mutant: the window puts nothing in place of what it drops.
SlidingWindowBare(messages) == SystemPart(messages) \o Recent(BodyPart(messages))

SlidingWindow(messages) ==
    LET body == BodyPart(messages) IN
    IF PreserveLast = 0 \/ Older(body) = <<>> THEN messages
    ELSE SystemPart(messages) \o <<Header>> \o Recent(body)

\* The summary stands for all of the older messages, whether or not the model answers.
LlmSummary(messages) ==
    IF Len(messages) <= PreserveLast + 1 THEN messages
    ELSE SystemPart(messages) \o <<Header>> \o
             (IF PreserveLast = 0 THEN <<>> ELSE Recent(BodyPart(messages)))

DropToolResults(messages) ==
    [i \in DOMAIN messages |->
        IF messages[i].role = "tool" /\ i <= Len(messages) - PreserveLast
        THEN [messages[i] EXCEPT !.size = IF @ > Short THEN Short ELSE @]
        ELSE messages[i]]

Hybrid(messages) ==
    LET dropped == DropToolResults(messages)
    IN  IF ShouldCondense(dropped) THEN LlmSummary(dropped) ELSE dropped

Condense(messages) ==
    CASE strategy = "llm_summary" -> LlmSummary(messages)
      [] strategy = "sliding_window" -> SlidingWindow(messages)
      [] strategy = "drop_tool_results" -> DropToolResults(messages)
      [] strategy = "hybrid" -> Hybrid(messages)

------------------------------------------------------------------------------

\* _build_messages: one system message, one user message.
ChatInit ==
    /\ strategy \in Strategy
    /\ chat = <<Message("system", 0, 1), Message("user", 0, 1)>>
    /\ chatStep = 0
    /\ condensed = <<>>

NextStep == chatStep < MaxChat /\ chatStep' = chatStep + 1

\* The messages of a tool step: the calls, then one result each.
StepMessages(n, sizes) ==
    <<Message("assistant", chatStep + 1, 1)>>
        \o [i \in 1..n |-> Message("tool", chatStep + 1, sizes[i])]

\* A step that ends with _maybe_condense; a pusher's nudge may come first.
ToolStep ==
    /\ NextStep
    /\ \E nudge \in {<<>>, <<Message("user", chatStep + 1, 1)>>},
          n \in 1..MaxToolCalls : \E sizes \in [1..n -> {Long, Short}] :
            LET messages == chat \o nudge \o StepMessages(n, sizes) IN
            IF ShouldCondense(messages)
            THEN chat' = Condense(messages) /\ condensed' = messages
            ELSE chat' = messages /\ UNCHANGED condensed
    /\ UNCHANGED strategy

\* A guard sends the model back: the step ends before _maybe_condense.
GuardStep ==
    /\ NextStep
    /\ \/ chat' = chat \o <<Message("assistant", chatStep + 1, 1), Message("user", chatStep + 1, 1)>>
       \/ chat' = chat \o StepMessages(1, <<Short>>) \o <<Message("user", chatStep + 1, 1)>>
    /\ UNCHANGED <<strategy, condensed>>

ChatNext == ToolStep \/ GuardStep

------------------------------------------------------------------------------

\* The types of the list; no message is of a step that has not begun.
ChatTypeOK ==
    /\ \A i \in DOMAIN chat : chat[i].role \in Role /\ chat[i].by \in 0..chatStep /\ chat[i].size \in Nat
    /\ strategy \in Strategy

(* The endpoint wants one system message at the head, and every            *)
(* condensation keeps it there (condense in condensation.py).              *)
OneSystemAtHead == \A i \in DOMAIN chat : chat[i].role = "system" <=> i = 1

\* The message before a run of tool messages.
Opener(i) ==
    LET before == {j \in 1..(i - 1) : chat[j].role # "tool"}
    IN  chat[CHOOSE j \in before : \A k \in before : k <= j]

(* A tool result follows the calls of its own step, but for those a        *)
(* summarising condensation cut off at the edge of what it preserved: they *)
(* follow its header (body[-keep_count:] in condensation.py).              *)
OrphansOnlyAtTheCut ==
    \A i \in DOMAIN chat : chat[i].role = "tool" =>
        \/ Opener(i).role = "assistant" /\ Opener(i).by = chat[i].by
        \/ Opener(i).role = "header"

(* The newest PreserveLast messages survive a condensation word for word.  *)
NewestSurvive ==
    [][condensed' # condensed =>
          IsSuffix(Recent(BodyPart(condensed')), chat')]_chatVars

\* What the endpoint accepts, and what a condensation leaves the model.
HistoryKept == [](OneSystemAtHead /\ OrphansOnlyAtTheCut) /\ NewestSurvive
==============================================================================
