------------------------------ MODULE WorkerLoop ------------------------------
(***************************************************************************)
(* The worker process of quality_cli/main.py (worker_loop) on the tables   *)
(* of TaskQueue: its main thread, its heartbeat threads, its crashes, and  *)
(* the supervisor and server that reap behind it.                          *)
(*                                                                         *)
(* A heartbeat thread closes over the VARIABLES t and hb_stop of the main  *)
(* thread, not over their values: a thread that outlives its task sees the *)
(* next task and the next event.  join(timeout=1) may give up on a thread  *)
(* that waits for the database, so two of them can be alive at a time.     *)
(***************************************************************************)
EXTENDS TaskQueue

CONSTANTS
    Subscribes,     \* the --queue of each worker
    JoinTimesOut,   \* TRUE: hb_thread.join(timeout=1) may return before the thread ends
    Timely,         \* TRUE: threads and processes that are alive get on, see OnTime
    MaxLag,         \* ticks a timely heartbeat thread may take for one step
    Crashes,        \* workers the operating system may kill
    Leavers,        \* workers that may be stopped or run out of work
    Admin,          \* TRUE: operators cancel and retry rows
    Sleeps          \* TRUE: the host may sleep, the supervisor then releases every lease

ASSUME WorkerLoopAssumption ==
    /\ Subscribes \in [Worker -> Queue]
    /\ {JoinTimesOut, Timely, Admin, Sleeps} \subseteq BOOLEAN
    /\ MaxLag \in Nat
    /\ Crashes \subseteq Worker
    /\ Leavers \subseteq Worker
    /\ None \notin Agent

VARIABLES
    proc,   \* main thread of each worker: where it is, its variable t, what the bench did
    hb,     \* the heartbeat threads of each worker: where they are and the id they read from t
    hbStop  \* the event the variable hb_stop names now: set or not

loopVars == <<proc, hb, hbStop>>
wvars == <<vars, loopVars>>

\* "launch" has a leased task and no thread yet; "report" has joined; "closing" is past
\* the row update of finish(); "leaving" is past the loop.
ProcState == {"new", "poll", "lease", "launch", "bench", "report", "closing", "leaving", "over", "killed"}

Slot == {1, 2}   \* bound: at most two heartbeat threads of a worker at a time

ThreadState == {"none", "top", "row", "beat"}

NoThread == [at |-> "none", id |-> None, lag |-> 0]

WInit ==
    /\ Init
    /\ proc = [w \in Worker |-> [at |-> "new", t |-> None, out |-> "finished"]]
    /\ hb = [w \in Worker |-> [i \in Slot |-> NoThread]]
    /\ hbStop = [w \in Worker |-> TRUE]

At(w, s) == proc[w].at = s
Goto(w, s) == proc' = [proc EXCEPT ![w].at = s]

Up(w) == proc[w].at \notin {"new", "over", "killed"}

------------------------------------------------------------------------------
(* Main thread                                                             *)

Start(w) ==
    /\ At(w, "new")
    /\ RegisterWorker(w)
    /\ Goto(w, "poll")
    /\ UNCHANGED <<hb, hbStop>>

\* worker_heartbeat; its result is not looked at.
RowBeat(w) ==
    \/ WorkerHeartbeat(w)
    \/ worker[w].state = "absent" /\ UNCHANGED vars

Poll(w) ==
    /\ At(w, "poll")
    /\ RowBeat(w)
    /\ Goto(w, "lease")
    /\ UNCHANGED <<hb, hbStop>>

TakeTask(w) ==
    /\ At(w, "lease")
    /\ \E a \in Agent :
          /\ Lease(w, Subscribes[w], a)
          /\ proc' = [proc EXCEPT ![w].at = "launch", ![w].t = a]
    /\ UNCHANGED <<hb, hbStop>>

FindNothing(w) ==
    /\ At(w, "lease")
    /\ Eligible(Subscribes[w]) = {}
    /\ proc' = [proc EXCEPT ![w].at = "poll", ![w].t = None]
    /\ UNCHANGED <<vars, hb, hbStop>>

\* A new event and a new thread; then the bench subprocess.
Launch(w) ==
    /\ At(w, "launch")
    /\ \E i \in Slot :
          /\ hb[w][i] = NoThread
          /\ \A j \in Slot : j < i => hb[w][j] # NoThread
          /\ hb' = [hb EXCEPT ![w][i] = [NoThread EXCEPT !.at = "top"]]
    /\ hbStop' = [hbStop EXCEPT ![w] = FALSE]
    /\ Goto(w, "bench")
    /\ UNCHANGED vars

\* The subprocess ends or is killed at its timeout; hb_stop.set().
BenchEnds(w, out) ==
    /\ At(w, "bench")
    /\ proc' = [proc EXCEPT ![w].at = "report", ![w].out = out]
    /\ hbStop' = [hbStop EXCEPT ![w] = TRUE]
    /\ UNCHANGED <<vars, hb>>

Joined(w) == JoinTimesOut \/ hb[w] = [i \in Slot |-> NoThread]

Report(w) ==
    /\ At(w, "report")
    /\ Joined(w)
    /\ \/ FinishRetry(w, proc[w].t, proc[w].out)
       \/ FinishTerminal(w, proc[w].t, proc[w].out)
       \/ task[proc[w].t].owner # w /\ UNCHANGED vars
    /\ proc' = [proc EXCEPT ![w].at = "closing", ![w].out = "finished"]
    /\ UNCHANGED <<hb, hbStop>>

\* The rest of finish(), then the next turn of the loop.
Close(w) ==
    /\ At(w, "closing")
    /\ \/ \E c \in cont : /\ c.by = w
                          /\ CascadeJudge(c) \/ CountPlan(c) \/ ClosePlan(c)
                          /\ UNCHANGED proc
       \/ /\ \A c \in cont : c.by # w
          /\ Goto(w, "poll")
          /\ UNCHANGED vars
    /\ UNCHANGED <<hb, hbStop>>

\* SIGTERM, max_tasks or max_idle_seconds: looked at between two tasks.
Leave(w) ==
    /\ w \in Leavers
    /\ At(w, "poll")
    /\ Goto(w, "leaving")
    /\ UNCHANGED <<vars, hb, hbStop>>

NoThreads(w) == hb' = [hb EXCEPT ![w] = [i \in Slot |-> NoThread]]

\* worker_set_state('stopped'); the daemon threads die with the process.
Exit(w) ==
    /\ At(w, "leaving")
    /\ StopWorker(w) \/ (worker[w].state = "absent" /\ UNCHANGED vars)
    /\ Goto(w, "over")
    /\ NoThreads(w)
    /\ UNCHANGED hbStop

\* SIGKILL, or an exception the loop does not catch (the database stays locked).
Crash(w) ==
    /\ w \in Crashes
    /\ Up(w)
    /\ \/ \E c \in cont : c.by = w /\ LoseContinuation(c)
       \/ (\A c \in cont : c.by # w) /\ UNCHANGED vars
    /\ Goto(w, "killed")
    /\ NoThreads(w)
    /\ UNCHANGED hbStop

------------------------------------------------------------------------------
(* Heartbeat thread i of worker w                                          *)

Thread(w, i, s) == hb[w][i].at = s
SetThread(w, i, th) == hb' = [hb EXCEPT ![w][i] = th]

\* hb_stop.wait() is over: look at the event hb_stop names now.
Wake(w, i) ==
    /\ Thread(w, i, "top")
    /\ SetThread(w, i, IF hbStop[w] THEN NoThread ELSE [NoThread EXCEPT !.at = "row"])
    /\ UNCHANGED <<vars, proc, hbStop>>

\* worker_heartbeat, then t.id is read; the thread dies of an exception when t is None.
BeatRow(w, i) ==
    /\ Thread(w, i, "row")
    /\ RowBeat(w)
    /\ SetThread(w, i, IF proc[w].t = None THEN NoThread
                       ELSE [at |-> "beat", id |-> proc[w].t, lag |-> 0])
    /\ UNCHANGED <<proc, hbStop>>

\* heartbeat; on False the thread sets the event hb_stop names now and ends.
BeatTask(w, i) ==
    /\ Thread(w, i, "beat")
    /\ \/ /\ Heartbeat(w, hb[w][i].id)
          /\ SetThread(w, i, [NoThread EXCEPT !.at = "top"])
          /\ UNCHANGED hbStop
       \/ /\ ~HeartbeatOk(w, hb[w][i].id)
          /\ SetThread(w, i, NoThread)
          /\ hbStop' = [hbStop EXCEPT ![w] = TRUE]
          /\ UNCHANGED vars
    /\ UNCHANGED proc

------------------------------------------------------------------------------
(* The server: WorkerSupervisor._tick, the reap at start-up and on demand, *)
(* and the operators.                                                      *)

Serve ==
    /\ \/ \E g \in Graces : Reap(g)
       \/ \E fresh \in SUBSET Worker : ListWorkers(fresh)
       \/ Sleeps /\ ForceReleaseAll
    /\ UNCHANGED loopVars

Operate ==
    /\ \/ \E p \in Plan : CreatePlan(p)
       \/ \E a \in Agent : EnqueueAgent(a) \/ EnqueueJudge(a)
       \/ Admin /\ \E p \in Plan : CancelPlan(p)
       \/ Admin /\ \E a \in Agent : CancelTask(a) \/ RetryTask(a)
    /\ UNCHANGED loopVars

\* A worker that is alive gets on: its threads take a step at least every MaxLag
\* ticks, its main thread does not stay between two statements for a tick.
OnTime ==
    \A w \in Worker :
        /\ proc[w].at \notin {"lease", "launch", "report", "closing"}
        /\ \A i \in Slot : Thread(w, i, "none") \/ hb[w][i].lag < MaxLag

Pass ==
    /\ Timely => OnTime
    /\ Tick
    /\ hb' = [w \in Worker |-> [i \in Slot |->
                 IF Timely /\ ~Thread(w, i, "none")
                 THEN [hb[w][i] EXCEPT !.lag = @ + 1] ELSE hb[w][i]]]
    /\ UNCHANGED <<proc, hbStop>>

MainStep(w) ==
    \/ Start(w) \/ Poll(w) \/ TakeTask(w) \/ FindNothing(w) \/ Launch(w)
    \/ \E out \in {"finished", "transient", "fatal"} : BenchEnds(w, out)
    \/ Report(w) \/ Close(w) \/ Exit(w)

ThreadStep(w) == \E i \in Slot : Wake(w, i) \/ BeatRow(w, i) \/ BeatTask(w, i)

WNext ==
    \/ \E w \in Worker : MainStep(w) \/ ThreadStep(w) \/ Leave(w) \/ Crash(w)
    \/ Serve
    \/ Operate
    \/ Pass

WSpec == WInit /\ [][WNext]_wvars

\* Processes and threads run, time passes, the server keeps its timer going; nothing
\* makes a worker leave or crash, an operator act or the host sleep.
Fairness ==
    /\ \A w \in Worker : WF_wvars(MainStep(w)) /\ WF_wvars(ThreadStep(w))
    /\ WF_wvars(\E g \in Graces : Reap(g) /\ UNCHANGED loopVars)
    /\ SF_wvars(Pass)

FairSpec == WSpec /\ Fairness

------------------------------------------------------------------------------
(* The types of the process state; a thread names a task only between its  *)
(* two heartbeats.                                                         *)
WTypeOK ==
    /\ TypeOK
    /\ proc \in [Worker -> [at : ProcState, t : Agent \cup {None}, out : Outcome]]
    /\ hb \in [Worker -> [Slot -> [at : ThreadState, id : Agent \cup {None}, lag : Nat]]]
    /\ \A w \in Worker, i \in Slot : Thread(w, i, "beat") <=> hb[w][i].id # None
    /\ hbStop \in [Worker -> BOOLEAN]

(* A running worker never holds a lease it is not working on: every way    *)
(* out of a task gives the lease up, and no late heartbeat of a thread     *)
(* that outlived its task takes one back (worker_loop, heartbeat).         *)
NoForgottenLease ==
    \A a \in HeldTasks :
        LET w == task[a].owner
        IN Up(w) => proc[w].t = a /\ proc[w].at \in {"launch", "bench", "report"}

(* The reapers take no task from a worker whose bench runs and whose       *)
(* heartbeat thread is on time - "brief GC / IO pauses in a live worker    *)
(* shouldn't release its lease" (queue.py:50).                             *)
TimelyNeverReaped ==
    [][(\E g \in Graces : Reap(g)) \/ (\E fresh \in SUBSET Worker : ListWorkers(fresh)) =>
          \A a \in HeldTasks : At(task[a].owner, "bench") => task'[a] = task[a]]_wvars

(* The lease of a worker that was killed is given back.                    *)
DeadLeaseReleased ==
    \A w \in Worker, a \in Agent :
        (At(w, "killed") /\ HeartbeatOk(w, a)) ~> ~HeartbeatOk(w, a)

(* Every queued task is closed in the end: reported, retried to its limit, *)
(* and taken over when the worker that leased it dies.                     *)
QueuedTaskCloses ==
    \A a \in Agent : (task[a].state = "queued") ~> (task[a].state \in {"finished", "error"})
==============================================================================
