--------------------------------- MODULE Sgr ---------------------------------
(***************************************************************************)
(* SGRTracker of orchestra/sgr.py: the questions an agent keeps open from  *)
(* one reflect() to the next.  A question is known by its id; an item that *)
(* comes without one is matched by its text or numbered.  Two texts are    *)
(* similar when they are the same value.                                   *)
(***************************************************************************)
EXTENDS Integers, FiniteSets, SequencesExt

CONSTANTS
    Text,          \* what questions are about
    NoText,        \* no question with that id is open
    MaxQuestion,   \* bound: the highest id
    Confidence,    \* levels of confidence a reflect may state
    MaxItems,      \* bound: questions listed in a reflect
    MaxAnswers,    \* bound: resolutions in a reflect
    MaxReflects    \* bound: reflects in a run

ASSUME SgrAssumption == NoText \notin Text /\ {MaxQuestion, MaxItems, MaxAnswers, MaxReflects} \subseteq Nat

VARIABLES
    open,       \* _questions: the text of each open id
    resolved,   \* _resolved: how each id was resolved, "no" if it was not
    nextAuto,   \* _next_auto_id
    stale,      \* _staleness
    confidence, \* _prev_confidence
    reflects,   \* history: reflects so far
    listed,     \* history: ids of the last reflect's questions_remaining
    seen        \* history: ids that were ever open

sgrVars == <<open, resolved, nextAuto, stale, confidence, reflects, listed, seen>>

Question == 1..MaxQuestion
NoId == 0
Resolution == {"no", "answered", "dropped", "implicit"}

\* Items of questions_remaining and of resolved_questions, which need not quote
\* the question; id NoId is "".
Item == [id : Question \cup {NoId}, text : Text]
ResolvedItem == [id : Question \cup {NoId}, text : Text \cup {NoText}]
Items == UNION {[1..n -> Item] : n \in 0..MaxItems}
Answers == UNION {[1..n -> ResolvedItem] : n \in 0..MaxAnswers}

OpenIds == {q \in Question : open[q] # NoText}

\* _find_by_text
Similar(ids, text) == {q \in ids : open[q] = text}
First(ids) == CHOOSE q \in ids : \A r \in ids : q <= r

SgrInit ==
    /\ open = [q \in Question |-> NoText]
    /\ resolved = [q \in Question |-> "no"]
    /\ nextAuto = 1 /\ stale = 0 /\ confidence = "none" /\ reflects = 0
    /\ listed = {} /\ seen = {}

\* Mutant: items matched by their text are numbered too.
NumberedAll(items, i) == {j \in 1..i : items[j].id = NoId}

\* _normalize_questions: the items before i that get a number of their own.
Numbered(items, i) ==
    {j \in 1..i : items[j].id = NoId /\ Similar(OpenIds, items[j].text) = {}}

IdOf(items, i) ==
    IF items[i].id # NoId THEN items[i].id
    ELSE IF Similar(OpenIds, items[i].text) # {} THEN First(Similar(OpenIds, items[i].text))
    ELSE nextAuto + Cardinality(Numbered(items, i)) - 1

Normalized(items) == [i \in DOMAIN items |-> [id |-> IdOf(items, i), text |-> items[i].text]]

\* _normalize_resolved and _process_resolved: one question closed by each answer,
\* by its id or else by its text.
CloseOne(ids, answer) ==
    LET hits == IF answer.id \in ids THEN {answer.id} ELSE Similar(ids, answer.text)
    IN  IF hits = {} THEN ids ELSE ids \ {First(hits)}

LeftOpen(answers) == FoldLeft(CloseOne, OpenIds, answers)

\* _process_remaining.  An id that was resolved before is not dropped when it
\* is open again and left out.
Dropped(after, ids) ==
    {q \in after \ ids : resolved[q] = "no"}

Ids(items) == {items[i].id : i \in DOMAIN items}
TextOf(items, q) ==
    LET last == CHOOSE i \in DOMAIN items :
                    items[i].id = q /\ \A j \in DOMAIN items : items[j].id = q => j <= i
    IN  items[last].text

\* Mutant: an implicit drop is not noted.
ResolutionOfClosed(q, closed, dropped) == IF q \in closed THEN "answered" ELSE resolved[q]

ResolutionOf(q, closed, dropped) ==
    IF q \in closed THEN "answered" ELSE IF q \in dropped THEN "implicit" ELSE resolved[q]

Record(remaining, answers, level) ==
    LET items == Normalized(remaining)
        closed == OpenIds \ LeftOpen(answers)
        dropped == Dropped(OpenIds \ closed, Ids(items))
    IN  /\ reflects < MaxReflects
        /\ Ids(items) \subseteq Question
        /\ open' = [q \in Question |->
               IF q \in Ids(items) THEN TextOf(items, q)
               ELSE IF q \in closed \cup dropped THEN NoText
               ELSE open[q]]
        /\ resolved' = [q \in Question |-> ResolutionOf(q, closed, dropped)]
        /\ nextAuto' = nextAuto + Cardinality(Numbered(remaining, Len(remaining)))
        /\ stale' = IF level = confidence THEN stale + 1 ELSE 0
        /\ confidence' = level
        /\ reflects' = reflects + 1
        /\ listed' = Ids(items)
        /\ seen' = seen \cup Ids(items)

SgrNext ==
    \E remaining \in Items, answers \in Answers, level \in Confidence :
        Record(remaining, answers, level)

------------------------------------------------------------------------------

\* The types of the tracker's state.
SgrTypeOK ==
    /\ open \in [Question -> Text \cup {NoText}]
    /\ resolved \in [Question -> Resolution]
    /\ nextAuto \in 1..(MaxQuestion + 1)
    /\ stale \in 0..MaxReflects

(* No question vanishes: every id that was ever open is still open or has  *)
(* a resolution, whichever way it was named (record in sgr.py).            *)
NoQuestionVanishes == seen \subseteq OpenIds \cup {q \in Question : resolved[q] # "no"}

(* A question that is open although the last reflect left it out was       *)
(* resolved once and opened again: only such an id escapes the implicit    *)
(* drop of _process_remaining.                                             *)
OnlyReopenedLingers == \A q \in OpenIds \ listed : resolved[q] # "no"

\* The life of a question: it never vanishes and lingers only when reopened.
QuestionsKept == NoQuestionVanishes /\ OnlyReopenedLingers
==============================================================================
