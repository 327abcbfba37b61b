-------------------------------- MODULE Replay --------------------------------
(***************************************************************************)
(* A recorded pull request and its lifecycle replay                        *)
(* (benchmarks/runner/replay.py).  First the pull request lives on its     *)
(* server: people comment, resolve, remove, push and merge, and            *)
(* invocations of cli.py take snapshots and post.  Then the driver walks   *)
(* the snapshots, applies the difference of each to its predecessor to a   *)
(* runtime state, and runs an agent on that state; what this agent posts   *)
(* stays in it.                                                            *)
(*                                                                         *)
(* A comment is its id on the server, which is also its stable id          *)
(* ("c-<id>"); ids are handed out in order.                                *)
(***************************************************************************)
EXTENDS Naturals, Sequences, SequencesExt, FiniteSetsExt, Subsequences

CONSTANTS
    FirstIds,        \* first comment id of the server
    AutoFloor,       \* the fake hands out no id below it (10_000)
    MaxComments,     \* bound on the recorded comments
    MaxInvocations,  \* bound on the recorded invocations
    MaxChanges       \* bound on what happens to the pull request besides comments

ASSUME ReplayAssumption ==
    /\ FirstIds \subseteq Nat \ {0}
    /\ {AutoFloor, MaxComments, MaxInvocations, MaxChanges} \subseteq Nat

Origin == {"server", "fake"}

VARIABLES
    origin,    \* where the recorded cli.py read the pull request
    nextId,    \* next comment id of the server
    thread,    \* the comments of the pull request
    changes,   \* resolves, reopens, removals, and snapshots for which more happened
    tape,      \* the recording: one record per snapshot, with a note whether its
               \* comments could be read, which the code does not keep
    at,        \* the snapshot the driver is at, 0 while recording
    turn,      \* what the driver does next there
    state,     \* ReplayState: sha, status, comments in order, orphan skips
    checkout   \* commit in the working tree of the last agent

replayVars == <<origin, nextId, thread, changes, tape, at, turn, state, checkout>>
prVars == <<origin, nextId, thread, changes, tape>>

ReplayInit ==
    /\ origin \in Origin
    /\ nextId \in FirstIds
    /\ thread = <<>>
    /\ changes = 0 /\ tape = <<>>
    /\ at = 0 /\ turn = "record"
    /\ state = [sha |-> 0, status |-> "open", comments |-> <<>>, skipped |-> {}]
    /\ checkout = 0

------------------------------------------------------------------------------
\* The pull request while it is recorded.

Recorded == turn = "record" /\ UNCHANGED <<origin, at, turn, state, checkout>>
Comments == DOMAIN thread
With(c, parent, bot) ==
    [x \in Comments \cup {c} |->
        IF x = c THEN [parent |-> parent, bot |-> bot, resolved |-> FALSE] ELSE thread[x]]

HumanComment ==
    /\ Recorded /\ Cardinality(Comments) < MaxComments
    /\ \E parent \in Comments \cup {0} : thread' = With(nextId, parent, FALSE)
    /\ nextId' = nextId + 1
    /\ UNCHANGED <<changes, tape>>

ToggleResolved(c) ==
    /\ Recorded /\ changes < MaxChanges
    /\ thread' = [thread EXCEPT ![c].resolved = ~@]
    /\ changes' = changes + 1
    /\ UNCHANGED <<nextId, tape>>

\* Bitbucket refuses to remove a comment that has replies.
RemoveComment(c) ==
    /\ Recorded /\ changes < MaxChanges
    /\ \A x \in Comments : thread[x].parent # c
    /\ thread' = [x \in Comments \ {c} |-> thread[x]]
    /\ changes' = changes + 1
    /\ UNCHANGED <<nextId, tape>>

(* cli.py writes a snapshot, which shows whether somebody pushed or merged *)
(* since the last one, and its agent may post.  fetch_pr() of the real     *)
(* server returns no "state", so its pull requests are recorded as open    *)
(* for ever.  A failure of get_pr_comments() is swallowed: the snapshot    *)
(* then has no comment.  Two runs that scan invocations/ at one time get   *)
(* one index (see Recording).                                              *)
RecordInvocation ==
    /\ Recorded /\ Len(tape) < MaxInvocations
    /\ \E happened \in SUBSET {"overlap", "push", "merge", "unread"} :
          /\ tape = <<>> => happened \cap {"overlap", "push"} = {}
          /\ "merge" \in happened => origin = "fake"
          /\ IF happened = {} THEN UNCHANGED changes
             ELSE changes < MaxChanges /\ changes' = changes + 1
          /\ tape' = Append(tape,
                [index |-> IF "overlap" \in happened THEN Last(tape).index ELSE Len(tape) + 1,
                 sha |-> IF tape = <<>> THEN 1
                         ELSE IF "push" \in happened THEN Last(tape).sha + 1 ELSE Last(tape).sha,
                 status |-> IF "merge" \in happened THEN "merged"
                            ELSE IF tape = <<>> THEN "open" ELSE Last(tape).status,
                 read |-> "unread" \notin happened,
                 comments |-> IF "unread" \in happened THEN <<>> ELSE thread])
    /\ \/ UNCHANGED <<thread, nextId>>
       \/ /\ Cardinality(Comments) < MaxComments
          /\ thread' = With(nextId, 0, TRUE) /\ nextId' = nextId + 1

------------------------------------------------------------------------------
\* The driver.

Shown(k) == IF k = 0 THEN <<>> ELSE tape[k].comments
Known == {state.comments[i].sid : i \in DOMAIN state.comments} \ {0}

Ids == {state.comments[i].id : i \in DOMAIN state.comments}

\* FakeBitbucket counts from the highest id of the fixture, or from its floor.
FreshId == Max({AutoFloor} \cup {c + 1 : c \in Ids})

(* A comment is skipped when the stable id of its parent is unknown.  The  *)
(* fake gives a root comment the parent 0 where the server gives none, and *)
(* 0 is recorded as the stable id "c-0".                                   *)
Orphan(parent, known) == (parent # 0 \/ origin = "fake") /\ parent \notin known

\* The comments of snapshot k that snapshot k - 1 lacks.
Added(k) == DOMAIN Shown(k) \ DOMAIN Shown(k - 1)

\* _on_comment_added()
AddComment(s, c) ==
    LET known == {s.comments[i].sid : i \in DOMAIN s.comments} \ {0}
        new == Shown(at)[c]
    IN  IF Orphan(new.parent, known)
        THEN [s EXCEPT !.skipped = @ \cup {c}]
        ELSE [s EXCEPT !.comments =
                Append(@, [id |-> c, sid |-> c, parent |-> new.parent, resolved |-> new.resolved])]

\* One event after the other: a comment comes after its parent.
AddComments(s, ids) ==
    LET after[n \in 0 .. Cardinality(ids)] ==
            IF n = 0 THEN s ELSE AddComment(after[n - 1], Kth(n, ids))
    IN  after[Cardinality(ids)]

\* Mutant: an event for a comment that was reopened only.
FlippedReopened(k) ==
    {c \in DOMAIN Shown(k) \cap DOMAIN Shown(k - 1) :
        ~Shown(k)[c].resolved /\ Shown(k - 1)[c].resolved}

\* The comments of both snapshots whose resolved flag differs.
Flipped(k) ==
    {c \in DOMAIN Shown(k) \cap DOMAIN Shown(k - 1) :
        Shown(k)[c].resolved # Shown(k - 1)[c].resolved}

\* _on_comment_resolved(), _on_comment_reopened(): the first comment with the id.
Flip(comments, ids) ==
    [i \in DOMAIN comments |->
        LET c == comments[i].id
        IN  IF /\ c \in ids
               /\ \E j \in DOMAIN comments : comments[j].sid = c
               /\ \A j \in DOMAIN comments : j < i => comments[j].id # c
            THEN [comments[i] EXCEPT !.resolved = Shown(at)[c].resolved]
            ELSE comments[i]]

\* commit_pushed: the commit after the events before snapshot k.
PushedSha(k) == IF k > 1 /\ tape[k].sha # tape[k - 1].sha THEN tape[k].sha ELSE state.sha

StartReplay ==
    /\ turn = "record" /\ tape # <<>>
    /\ at' = 1 /\ turn' = "apply"
    /\ state' = [state EXCEPT !.sha = tape[1].sha]
    /\ thread' = <<>> /\ changes' = 0      \* of no interest from here on
    /\ UNCHANGED <<origin, nextId, tape, checkout>>

(* The world events between two snapshots: a push, new comments, flipped   *)
(* flags, a new status.                                                    *)
ApplyDelta ==
    LET added == AddComments(state, Added(at))
    IN  /\ turn = "apply" /\ turn' = "run"
        /\ state' = [added EXCEPT
                !.comments = Flip(@, Flipped(at)),
                !.sha = PushedSha(at),
                !.status = IF at > 1 /\ tape[at].status # tape[at - 1].status
                           THEN tape[at].status ELSE @]
        /\ UNCHANGED <<prVars, at, checkout>>

\* The driver finds the invocation of an event by its index.
ByIndex(k) == tape[Min({i \in DOMAIN tape : tape[i].index = tape[k].index})]

(* An agent run: it may fail, post a comment (where does not matter), or   *)
(* set a review status.                                                    *)
RunAgent ==
    /\ turn = "run"
    /\ checkout' = ByIndex(at).sha
    /\ \/ UNCHANGED state
       \/ state' = [state EXCEPT !.comments =
             Append(@, [id |-> FreshId, sid |-> 0, parent |-> 0, resolved |-> FALSE])]
       \/ state' = [state EXCEPT !.status = "approved"]
    /\ turn' = "next"
    /\ UNCHANGED <<prVars, at>>

NextEvent ==
    /\ turn = "next"
    /\ IF at < Len(tape)
       THEN at' = at + 1 /\ turn' = "apply" /\ UNCHANGED state
       ELSE /\ turn' = "end" /\ UNCHANGED at
            /\ state' = [state EXCEPT !.status = IF Last(tape).status = "merged" THEN "merged" ELSE @]
    /\ UNCHANGED <<prVars, checkout>>

ReplayNext ==
    \/ HumanComment \/ RecordInvocation
    \/ \E c \in Comments : ToggleResolved(c) \/ RemoveComment(c)
    \/ StartReplay \/ ApplyDelta \/ RunAgent \/ NextEvent

------------------------------------------------------------------------------

ReplayTypeOK ==
    /\ origin \in Origin /\ nextId \in Nat /\ changes \in 0..MaxChanges
    /\ Cardinality(Comments) <= MaxComments
    /\ \A k \in DOMAIN tape : tape[k].index \in 1..k /\ tape[k].sha \in 1..k
    /\ at \in 0..Len(tape) /\ turn \in {"record", "apply", "run", "next", "end"}
    /\ state.sha \in 0..Len(tape) /\ state.status \in {"open", "merged", "approved"}
    /\ \A i \in DOMAIN state.comments : state.comments[i].sid \in {0, state.comments[i].id}
    /\ checkout \in 0..Len(tape)

\* What replay-single shows an agent of snapshot k.
SingleView(k) ==
    {[id |-> c, parent |-> Shown(k)[c].parent, resolved |-> Shown(k)[c].resolved] : c \in DOMAIN Shown(k)}

\* What the lifecycle replay shows it.
LifecycleView ==
    {[id |-> c.id, parent |-> c.parent, resolved |-> c.resolved] : c \in Range(state.comments)}

\* The ids of recorded comments that a replayed agent was given for its own.
Clashes == {c \in Known : \E i \in DOMAIN state.comments :
                state.comments[i].id = c /\ state.comments[i].sid = 0}

\* The recorded comments that are there twice.
Repeated == {c \in Known : \E i, j \in DOMAIN state.comments :
                i # j /\ state.comments[i].sid = c /\ state.comments[j].sid = c}

(* The agent of a lifecycle replay sees every comment that the recorded    *)
(* agent saw, in its thread and with its flag, except a comment whose id a *)
(* replayed agent has taken before; nothing of a recording of the fake.  A *)
(* comment that is there twice may be there with its earlier flag as well. *)
LifecycleShowsSnapshot ==
    turn = "run" /\ origin = "server" =>
        \A c \in SingleView(at) : c \in LifecycleView \/ c.id \in Clashes

(* The working tree of an agent is the commit of the runtime state, unless *)
(* the invocation shares its index with an earlier one.                    *)
CheckoutIsCurrent ==
    turn = "next" /\ (\A k \in 1..(at - 1) : tape[k].index # tape[at].index) => checkout = state.sha

(* A replayed agent takes the id of a recorded comment only where the ids  *)
(* of the server reach the range of the fake.                              *)
ClashesAreHigh == nextId <= AutoFloor => Clashes = {}

(* A recorded comment is there twice only when a snapshot between two that *)
(* have it lacks it because the comments could not be read.                *)
RepeatsWereUnread ==
    \A c \in Repeated : \E j \in 1 .. at :
        ~tape[j].read /\ \E i \in 1 .. (j - 1) : c \in DOMAIN Shown(i)

\* A comment of a real server is never skipped as an orphan.
OrphansOnlyFromFake == origin = "server" => state.skipped = {}

\* A replayed agent works on what the recorded one saw.
ReplayShowsRecording ==
    /\ LifecycleShowsSnapshot /\ CheckoutIsCurrent /\ OrphansOnlyFromFake
    /\ ClashesAreHigh /\ RepeatsWereUnread
==============================================================================
