------------------------------- MODULE LiveView -------------------------------
(***************************************************************************)
(* The live page of one run (tracing/server/app.py, ws_live): the run's    *)
(* process commits events and closes its row, the page first fetches what  *)
(* is there and then follows a websocket, and the server polls the trace   *)
(* database for it.  A poll reads the events and then the status, each in  *)
(* a read transaction of its own.  Events are numbered as they commit.     *)
(***************************************************************************)
EXTENDS Naturals

CONSTANTS
    PollLimit,   \* events that one poll reads (50)
    MaxEvents    \* bound on the events of the run

ASSUME LiveAssumption == PollLimit \in Nat \ {0} /\ MaxEvents \in Nat

VARIABLES
    committed,   \* events in the database
    runStatus,   \* runs.status; "unknown" without a row
    closer,      \* who closed the row: "nobody", "itself", "other", or "both" in turn
    poll,        \* the server's poll: its phase, its batch and the status read
    shown,       \* events the page has shown: the first of the run
    page,        \* "loading", "live", "complete", "disconnected"
    between      \* history: an event committed between the two reads of this poll

liveVars == <<committed, runStatus, closer, poll, shown, page, between>>

RunIsOver == {"completed", "failed"}
Asleep == [at |-> "sleep", batch |-> 0, status |-> "unknown"]

LiveInit ==
    /\ committed = 0 /\ runStatus = "unknown" /\ closer = "nobody"
    /\ poll = Asleep /\ shown = 0 /\ page = "loading" /\ between = FALSE

InsertRow ==
    /\ runStatus = "unknown"
    /\ runStatus' = "running"
    /\ UNCHANGED <<committed, closer, poll, shown, page, between>>

\* The process goes on when another party has closed its row.
CommitEvent ==
    /\ runStatus # "unknown" /\ closer \in {"nobody", "other"}
    /\ committed < MaxEvents
    /\ committed' = committed + 1
    /\ between' = (between \/ poll.at = "events")
    /\ UNCHANGED <<runStatus, closer, poll, shown, page>>

\* The process itself after its last event, or the sweeper or the bench at any time.
CloseRow(who) ==
    /\ runStatus # "unknown" /\ closer \in {"nobody", "other"} \ {who}
    /\ runStatus' \in RunIsOver
    /\ closer' = IF closer = "nobody" THEN who ELSE "both"
    /\ UNCHANGED <<committed, poll, shown, page, between>>

\* GET events, whose failure the page ignores, and the websocket.
OpenPage ==
    /\ page = "loading"
    /\ page' = "live"
    /\ shown' \in {0, committed}
    /\ UNCHANGED <<committed, runStatus, closer, poll, between>>

\* Mutant: the batch is read from the last event on, not behind it.
ReadEventsAgain ==
    /\ page = "live" /\ poll.at = "sleep"
    /\ \E batch \in 0 .. PollLimit :
          /\ batch = PollLimit \/ batch = committed - shown + 1
          /\ batch <= committed - shown + 1
          /\ poll' = [poll EXCEPT !.at = "events", !.batch = batch]
    /\ between' = FALSE
    /\ UNCHANGED <<committed, runStatus, closer, shown, page>>

\* SELECT ... WHERE id > last ORDER BY id LIMIT 50.
ReadEvents ==
    /\ page = "live" /\ poll.at = "sleep"
    /\ \E batch \in 0 .. PollLimit :
          /\ batch = PollLimit \/ batch = committed - shown
          /\ batch <= committed - shown
          /\ poll' = [poll EXCEPT !.at = "events", !.batch = batch]
    /\ between' = FALSE
    /\ UNCHANGED <<committed, runStatus, closer, shown, page>>

ReadStatus ==
    /\ page = "live" /\ poll.at = "events"
    /\ poll' = [poll EXCEPT !.at = "status", !.status = runStatus]
    /\ UNCHANGED <<committed, runStatus, closer, shown, page, between>>

\* Mutant: the poll that sees the run over is the last one.
SendAndEnd ==
    /\ page = "live" /\ poll.at = "status"
    /\ shown' = shown + poll.batch
    /\ page' = IF poll.status \in RunIsOver THEN "complete" ELSE page
    /\ poll' = Asleep
    /\ UNCHANGED <<committed, runStatus, closer, between>>

\* Mutant: a failed run is not taken to be over.
SendOnSuccess ==
    /\ page = "live" /\ poll.at = "status"
    /\ shown' = shown + poll.batch
    /\ page' = IF poll.status = "completed" /\ poll.batch = 0 THEN "complete" ELSE page
    /\ poll' = Asleep
    /\ UNCHANGED <<committed, runStatus, closer, between>>

\* The batch is sent, then run_complete when the run is over and nothing was new.
Send ==
    /\ page = "live" /\ poll.at = "status"
    /\ shown' = shown + poll.batch
    /\ page' = IF poll.status \in RunIsOver /\ poll.batch = 0 THEN "complete" ELSE page
    /\ poll' = Asleep
    /\ UNCHANGED <<committed, runStatus, closer, between>>

\* The page is closed, or the poll raises (the database is locked).
Disconnect ==
    /\ page \in {"loading", "live"}
    /\ page' = "disconnected"
    /\ poll' = Asleep
    /\ UNCHANGED <<committed, runStatus, closer, shown, between>>

Poll == ReadEvents \/ ReadStatus \/ Send

LiveNext ==
    \/ InsertRow \/ CommitEvent \/ CloseRow("itself") \/ CloseRow("other")
    \/ OpenPage \/ Poll \/ Disconnect

------------------------------------------------------------------------------

\* Type correctness; the page shows no event that is not there.
LiveTypeOK ==
    /\ committed \in 0 .. MaxEvents /\ shown \in 0 .. committed
    /\ runStatus \in RunIsOver \cup {"unknown", "running"}
    /\ closer \in {"nobody", "itself", "other", "both"}
    /\ poll.at \in {"sleep", "events", "status"}
    /\ poll.batch \in 0 .. PollLimit
    /\ page \in {"loading", "live", "complete", "disconnected"}

(* The page says that a run which closed itself is done only when it has   *)
(* shown every event, however many of them one poll reads; unless events   *)
(* and the close were committed between the two reads of the last poll.    *)
EndShowsAll == page = "complete" /\ closer = "itself" /\ ~between => shown = committed

\* The page of a run whose row is closed comes to its end, unless it is closed.
LivePageEnds == (runStatus \in RunIsOver) ~> (page \in {"complete", "disconnected"})
==============================================================================
