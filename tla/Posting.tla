------------------------------- MODULE Posting -------------------------------
(***************************************************************************)
(* What one review leaves on the pull request and in its own records: the  *)
(* comments its tools post while it runs (pr_post_comment, with the        *)
(* retries of bitbucket._with_retry), the verdict that set_review_status   *)
(* queues and cli.py publishes at the end, the row of the run and the      *)
(* output.json that _finalize() writes, and the signals that cut it short. *)
(***************************************************************************)
EXTENDS Naturals, FiniteSets

CONSTANTS
    RootPost,    \* the posts asked for by the root agent and its synchronous children
    ChildPost,   \* the posts of asynchronous children, which may outlive the root
    Attempts,    \* DIFFGRAPH_BB_RETRY_ATTEMPTS
    NoVerdict    \* review_status is None

Post == RootPost \cup ChildPost
Verdict == {"APPROVED", "NEEDS_WORK"}

ASSUME PostingAssumption ==
    /\ RootPost \cap ChildPost = {} /\ NoVerdict \notin Verdict
    /\ Attempts \in Nat \ {0}

VARIABLES
    sent,      \* per post: "unasked", "trying", "applied" (not yet answered), "posted", "error"
    tries,     \* per post: requests that _with_retry has seen fail
    copies,    \* per post: comments on the server
    unheard,      \* history: posts that the server applied and whose answer did not come
    noted,    \* review_context.posted_comments
    verdict,   \* review_context.review_status
    served,    \* the reviewer's status on the server
    phase,     \* where cli.py is
    ending,    \* arguments of _finalize(): status, posted_comments, status_changes
    row,       \* status of the run's row
    output,    \* output.json
    late,      \* history: a child set the verdict after the lists were collected
    locked,    \* history: finish_run() raised and was swallowed
    untold,    \* history: the run was not recorded, or a write of its recording failed
    killed     \* history: SIGKILL

postVars == <<sent, tries, copies, unheard, noted, verdict, served, phase, ending, row, output,
              late, locked, untold, killed>>
calls  == <<sent, tries, copies, unheard, noted>>
record == <<row, output>>

NoOutput == [exit |-> "none", posted |-> {}, verdict |-> NoVerdict]

PostInit ==
    /\ sent = [p \in Post |-> "unasked"]
    /\ tries = [p \in Post |-> 0] /\ copies = [p \in Post |-> 0]
    /\ unheard = {} /\ noted = {}
    /\ verdict = NoVerdict /\ served = NoVerdict
    /\ phase = "running" /\ ending = NoOutput
    /\ row = "running" /\ output = NoOutput
    /\ late = FALSE /\ locked = FALSE /\ untold = FALSE /\ killed = FALSE

Up == phase # "gone"
Moved(p, here, there) == sent[p] = here /\ sent' = [sent EXCEPT ![p] = there]
End == <<verdict, served, phase, ending, record, late, locked, untold, killed>>

\* post_comment_tool(), in a thread of the root agent or of a child that still runs.
Ask(p) ==
    /\ IF p \in RootPost THEN phase = "running" ELSE Up
    /\ Moved(p, "unasked", "trying")
    /\ UNCHANGED <<tries, copies, unheard, noted, End>>

\* The server takes the POST.
Apply(p) ==
    /\ Up /\ Moved(p, "trying", "applied")
    /\ copies' = [copies EXCEPT ![p] = @ + 1]
    /\ UNCHANGED <<tries, unheard, noted, End>>

\* The answer comes: the tool adds the comment to the list.
Answer(p) ==
    /\ Up /\ Moved(p, "applied", "posted")
    /\ noted' = noted \cup {p}
    /\ UNCHANGED <<tries, copies, unheard, End>>

\* _with_retry(): the same request again, or the exception when the attempts are used up.
Retry(p) ==
    /\ tries' = [tries EXCEPT ![p] = @ + 1]
    /\ sent' = [sent EXCEPT ![p] = IF tries[p] + 1 < Attempts THEN "trying" ELSE "error"]

\* A transport error before the server took the request, or after it did.
RequestLost(p) ==
    /\ Up /\ sent[p] = "trying" /\ Retry(p)
    /\ UNCHANGED <<copies, unheard, noted, End>>

AnswerLost(p) ==
    /\ Up /\ sent[p] = "applied" /\ Retry(p)
    /\ unheard' = unheard \cup {p}
    /\ UNCHANGED <<copies, noted, End>>

\* An HTTP error is not retried; one from a proxy may follow a post that was applied.
HttpError(p) ==
    /\ Up /\ sent[p] \in {"trying", "applied"}
    /\ sent' = [sent EXCEPT ![p] = "error"]
    /\ unheard' = IF sent[p] = "applied" THEN unheard \cup {p} ELSE unheard
    /\ UNCHANGED <<tries, copies, noted, End>>

\* set_review_status_tool() by the root, or by a child that still runs.
SetVerdict ==
    /\ Up /\ (phase = "running" \/ ChildPost # {})
    /\ \E v \in Verdict : verdict' = v
    /\ late' = (late \/ phase # "running")
    /\ UNCHANGED <<calls, served, phase, ending, record, locked, untold, killed>>

\* Mutant: the lists are read while calls of the root are still out.
CollectEarly ==
    /\ phase = "running" /\ phase' = "collected"
    /\ ending' = [exit |-> "completed", posted |-> noted, verdict |-> verdict]
    /\ UNCHANGED <<calls, verdict, served, record, late, locked, untold, killed>>

\* run_agent() returns, with the root's calls at an end, and the lists are copied.
Collect ==
    /\ phase = "running" /\ \A p \in RootPost : sent[p] \notin {"trying", "applied"}
    /\ phase' = "collected"
    /\ ending' = [exit |-> "completed", posted |-> noted, verdict |-> verdict]
    /\ UNCHANGED <<calls, verdict, served, record, late, locked, untold, killed>>

\* _finalize() sets its guard first ...
EnterFinalize ==
    /\ phase \in {"collected", "failing"} /\ phase' = "closing"
    /\ UNCHANGED <<calls, verdict, served, ending, record, late, locked, untold, killed>>

\* ... then finish_run(), whose exception is swallowed ...
FinishRow ==
    /\ phase = "closing" /\ phase' = "closed"
    /\ \/ row' = ending.exit /\ UNCHANGED locked
       \/ locked' = TRUE /\ UNCHANGED row
    /\ UNCHANGED <<calls, verdict, served, ending, output, late, untold, killed>>

\* ... then output.json: if the run is recorded, and no write of the recording fails,
\* which disables it.  A run that failed goes on to its end.
WriteResult ==
    /\ phase = "closed"
    /\ \/ output' = ending /\ UNCHANGED untold
       \/ untold' = TRUE /\ UNCHANGED output
    /\ phase' = IF ending.exit = "completed" THEN "saved" ELSE "gone"
    /\ UNCHANGED <<calls, verdict, served, ending, row, late, locked, killed>>

\* _publish_to_pr() reads the status again; the PUT is retried, and a failure is printed.
Publish ==
    /\ phase = "saved" /\ phase' = "published"
    /\ \/ served' = IF verdict = NoVerdict THEN served ELSE verdict
       \/ UNCHANGED served
    /\ UNCHANGED <<calls, verdict, ending, record, late, locked, untold, killed>>

\* The process ends and takes the threads of children with it.
Leave ==
    /\ phase = "published" /\ phase' = "gone"
    /\ UNCHANGED <<calls, verdict, served, ending, record, late, locked, untold, killed>>

\* An exception out of run_agent(), or SIGTERM or SIGINT raised as SystemExit in it.
FailRun ==
    /\ phase \in {"running", "collected"} /\ phase' = "failing"
    /\ ending' = [exit |-> "failed", posted |-> {}, verdict |-> NoVerdict]
    /\ UNCHANGED <<calls, verdict, served, record, late, locked, untold, killed>>

\* A signal in or after _finalize(): its guard makes the second call return at once.
SignalLate ==
    /\ phase \in {"closing", "closed", "saved", "published"} /\ phase' = "gone"
    /\ UNCHANGED <<calls, verdict, served, ending, record, late, locked, untold, killed>>

Sigkill ==
    /\ Up /\ phase' = "gone" /\ killed' = TRUE
    /\ UNCHANGED <<calls, verdict, served, ending, record, late, locked, untold>>

PostNext ==
    \/ \E p \in Post :
          Ask(p) \/ Apply(p) \/ Answer(p) \/ RequestLost(p) \/ AnswerLost(p) \/ HttpError(p)
    \/ SetVerdict \/ Collect \/ EnterFinalize \/ FinishRow \/ WriteResult \/ Publish \/ Leave
    \/ FailRun \/ SignalLate \/ Sigkill

------------------------------------------------------------------------------

\* Type correctness; a comment that is listed is on the server.
PostTypeOK ==
    /\ \A p \in Post : /\ sent[p] \in {"unasked", "trying", "applied", "posted", "error"}
                       /\ tries[p] \in 0 .. Attempts
                       /\ p \in noted => copies[p] > 0
    /\ {verdict, served} \subseteq Verdict \cup {NoVerdict}
    /\ phase \in {"running", "collected", "failing", "closing", "closed", "saved", "published",
                  "gone"}
    /\ row \in {"running", "completed", "failed"}

(* A post is on the pull request at most as often as it is attempted, and  *)
(* more than once only when an answer was lost; a tool that reports an     *)
(* error has left nothing there, under the same condition.                 *)
PostedOnce ==
    \A p \in Post :
        /\ copies[p] <= Attempts
        /\ p \notin unheard => copies[p] <= 1 /\ (sent[p] = "error" => copies[p] = 0)

(* The output of a run that ends well lists every comment the root's tools *)
(* put on the pull request, but those whose answer was lost.               *)
OutputTellsAll ==
    output.exit = "completed" =>
        {p \in RootPost : copies[p] > 0 /\ p \notin unheard} \subseteq output.posted

(* A verdict on the pull request is that of a run that ended well and says *)
(* so: in its row, unless the database was locked, and in its output,      *)
(* unless the run was not recorded or a write of the recording failed.     *)
(* The output names that verdict, unless a child changed its mind after    *)
(* the root returned.                                                      *)
VerdictIsRecorded ==
    served # NoVerdict =>
        /\ row # "failed" /\ (~locked => row = "completed")
        /\ ~untold => output.exit = "completed" /\ (~late => served = output.verdict)
        /\ output.exit # "failed"

(* "Any exit path through this function [...] must mark the runs row as    *)
(* completed/failed" (cli.py:505), of every exit but SIGKILL and those     *)
(* where the database was locked.                                          *)
ExitClosesTheRow == phase = "gone" /\ ~killed /\ ~locked => row # "running"

\* The pull request, the output and the row of a run tell the same story.
OutcomeIsTold == PostedOnce /\ OutputTellsAll /\ VerdictIsRecorded
==============================================================================
