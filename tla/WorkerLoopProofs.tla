--------------------------- MODULE WorkerLoopProofs ---------------------------
(***************************************************************************)
(* Proofs about the worker loop, for every number of workers, rows and     *)
(* plans, every timing, with or without crashes, operators and late        *)
(* threads: its steps are steps of the tables, and a worker that runs      *)
(* never sits on a lease it has forgotten.  Where threads are timely, the  *)
(* reapers leave a worker at work alone.                                   *)
(***************************************************************************)
EXTENDS WorkerLoop, TaskQueueProofs

\* Between lease() and finish() the variable t names a row.
InHand == {"launch", "bench", "report"}

TaskInHand == \A w \in Worker : proc[w].at \in InHand => proc[w].t \in Agent

LoopInv == WTypeOK /\ TaskInHand

(* A heartbeat thread between its two statements knows a row's id.         *)
LEMMA BeatNamesRow ==
    ASSUME WTypeOK, NEW w \in Worker, NEW i \in Slot, Thread(w, i, "beat")
    PROVE  hb[w][i].id \in Agent
  BY DEF WTypeOK

\* The statements that lease nothing.
QuietNext ==
    \/ PlanNext \/ FinishNext \/ AdminNext \/ WorkerNext
    \/ \E w \in Worker, a \in Agent : Heartbeat(w, a)

Quiet == QuietNext \/ UNCHANGED vars

(* Every step of the loop, of its threads, of the server and of the        *)
(* operators is one statement on the tables or none, and only lease() of a *)
(* worker that is at its lease() gives a row away; or it is a tick.        *)
LEMMA LoopStatement == LoopInv /\ [WNext]_wvars => Quiet \/ Pass \/ \E w \in Worker : TakeTask(w)
  <1> SUFFICES ASSUME LoopInv, [WNext]_wvars PROVE Quiet \/ Pass \/ \E w \in Worker : TakeTask(w)
    OBVIOUS
  <1> USE DEF Quiet
  <1>1. ASSUME NEW w \in Worker, RowBeat(w) PROVE Quiet
    BY <1>1 DEF RowBeat, QuietNext, WorkerNext
  <1>2. ASSUME NEW w \in Worker, MainStep(w) PROVE Quiet \/ TakeTask(w)
    <2>1. CASE Start(w)
      BY <2>1 DEF Start, QuietNext, WorkerNext
    <2>2. CASE Poll(w)
      BY <1>1, <2>2 DEF Poll
    <2>3. CASE Report(w)
      <3>1. proc[w].t \in Agent /\ proc[w].out \in Outcome
        BY <2>3 DEF Report, At, LoopInv, TaskInHand, InHand, WTypeOK
      <3>2. QED BY <2>3, <3>1 DEF Report, QuietNext, FinishNext
    <2>4. CASE Close(w)
      BY <2>4 DEF Close, QuietNext, FinishNext
    <2>5. CASE Exit(w)
      BY <2>5 DEF Exit, QuietNext, WorkerNext
    <2>6. CASE FindNothing(w) \/ Launch(w) \/ \E out \in {"finished", "transient", "fatal"} : BenchEnds(w, out)
      BY <2>6 DEF FindNothing, Launch, BenchEnds
    <2>7. QED BY <1>2, <2>1, <2>2, <2>3, <2>4, <2>5, <2>6 DEF MainStep
  <1>3. ASSUME NEW w \in Worker, NEW i \in Slot, Wake(w, i) \/ BeatRow(w, i) \/ BeatTask(w, i)
        PROVE  Quiet
    <2>1. CASE Wake(w, i)
      BY <2>1 DEF Wake
    <2>2. CASE BeatRow(w, i)
      BY <1>1, <2>2 DEF BeatRow
    <2>3. CASE BeatTask(w, i)
      <3>1. hb[w][i].id \in Agent
        BY <2>3, BeatNamesRow DEF BeatTask, LoopInv
      <3>2. QED BY <2>3, <3>1 DEF BeatTask, QuietNext
    <2>4. QED BY <1>3, <2>1, <2>2, <2>3
  <1>4. ASSUME NEW w \in Worker, Leave(w) \/ Crash(w) PROVE Quiet
    BY <1>4 DEF Leave, Crash, QuietNext, FinishNext
  <1>5. CASE Serve
    BY <1>5 DEF Serve, QuietNext, AdminNext, WorkerNext
  <1>6. CASE Operate
    BY <1>6 DEF Operate, QuietNext, AdminNext, PlanNext
  <1>7. CASE UNCHANGED wvars
    BY <1>7 DEF wvars
  <1>8. QED BY <1>2, <1>3, <1>4, <1>5, <1>6, <1>7 DEF WNext, ThreadStep

(* So every step of the loop is a step of the tables.                      *)
LEMMA LoopStep == LoopInv /\ [WNext]_wvars => [Next]_vars
  <1>1. ASSUME NEW w \in Worker, TakeTask(w) PROVE Next
    <2>1. Subscribes[w] \in Queue
      BY WorkerLoopAssumption
    <2>2. QED BY <1>1, <2>1 DEF TakeTask, Next, LeaseNext
  <1>2. Quiet \/ Pass => [Next]_vars
    BY DEF Quiet, QuietNext, Pass, Next, LeaseNext
  <1>3. QED BY <1>1, <1>2, LoopStatement

(* One statement on the tables keeps their types.                          *)
LEMMA TypeStep == TypeOK /\ [Next]_vars => TypeOK'
  <1> SUFFICES ASSUME TypeOK, [Next]_vars PROVE TypeOK'
    OBVIOUS
  <1>1. CASE UNCHANGED vars
    BY <1>1 DEF TypeOK, vars
  <1>2. QED BY <1>1, TypePlan, TypeLease, TypeFinish, TypeAdmin, TypeWorker, TypeTick DEF Next

------------------------------------------------------------------------------
MainRow == [at : ProcState, t : Agent \cup {None}, out : Outcome]
ThreadRow == [at : ThreadState, id : Agent \cup {None}, lag : Nat]

\* A row of hb as WTypeOK wants it.
GoodThread(th) == th \in ThreadRow /\ (th.at = "beat" <=> th.id # None)

\* The part of LoopInv that is about the loop and not about the tables.
LoopTypes ==
    /\ proc \in [Worker -> MainRow]
    /\ hb \in [Worker -> [Slot -> ThreadRow]]
    /\ \A w \in Worker, i \in Slot : GoodThread(hb[w][i])
    /\ hbStop \in [Worker -> BOOLEAN]
    /\ TaskInHand

LEMMA LoopInvParts == LoopInv <=> TypeOK /\ LoopTypes
  BY DEF LoopInv, WTypeOK, LoopTypes, MainRow, ThreadRow, GoodThread, Thread

(* The initial processes have their types.                                 *)
LEMMA LoopInit == WInit => LoopInv
  <1> SUFFICES ASSUME WInit PROVE LoopTypes
    BY TypeInit, LoopInvParts DEF WInit
  <1>1. proc \in [Worker -> MainRow] /\ TaskInHand
    BY DEF WInit, MainRow, ProcState, Outcome, TaskInHand, InHand
  <1>2. GoodThread(NoThread)
    BY DEF GoodThread, ThreadRow, ThreadState, NoThread
  <1>3. QED BY <1>1, <1>2 DEF WInit, LoopTypes, GoodThread

(* A step that gives one thread a good row keeps the threads' types.       *)
LEMMA OneThread ==
    ASSUME LoopTypes, NEW w \in Worker, NEW i \in Slot, NEW th, GoodThread(th),
           hb' = [hb EXCEPT ![w][i] = th]
    PROVE  hb' \in [Worker -> [Slot -> ThreadRow]] /\ \A v \in Worker, j \in Slot : GoodThread(hb'[v][j])
  BY DEF LoopTypes, GoodThread

(* A process that ends takes its threads with it.                          *)
LEMMA AllThreads ==
    ASSUME LoopTypes, NEW w \in Worker, NoThreads(w)
    PROVE  hb' \in [Worker -> [Slot -> ThreadRow]] /\ \A v \in Worker, j \in Slot : GoodThread(hb'[v][j])
  <1>1. GoodThread(NoThread)
    BY DEF GoodThread, ThreadRow, ThreadState, NoThread
  <1>2. QED BY <1>1 DEF LoopTypes, GoodThread, NoThreads

(* A move of the main thread to a point where it holds nothing.            *)
LEMMA Moved ==
    ASSUME LoopTypes, NEW w \in Worker, NEW s \in ProcState \ InHand, Goto(w, s)
    PROVE  proc' \in [Worker -> MainRow] /\ TaskInHand'
  BY DEF LoopTypes, MainRow, Goto, TaskInHand

(* Every step keeps the types of the processes.                            *)
LEMMA LoopTypesStep == LoopInv /\ [WNext]_wvars => LoopTypes'
  <1> SUFFICES ASSUME LoopInv, [WNext]_wvars PROVE LoopTypes'
    OBVIOUS
  <1> USE LoopInvParts
  <1>1. ASSUME UNCHANGED loopVars PROVE LoopTypes'
    BY <1>1 DEF LoopTypes, loopVars, TaskInHand, GoodThread
  <1>2. ASSUME NEW w \in Worker, MainStep(w) PROVE LoopTypes'
    <2>1. CASE Start(w) \/ Poll(w)
      <3>1. Goto(w, "poll") \/ Goto(w, "lease")
        BY <2>1 DEF Start, Poll
      <3>2. proc' \in [Worker -> MainRow] /\ TaskInHand'
        BY <3>1, Moved DEF ProcState, InHand
      <3>3. QED BY <2>1, <3>2 DEF Start, Poll, LoopTypes
    <2>2. CASE TakeTask(w) \/ FindNothing(w)
      <3>1. PICK s \in ProcState, t \in Agent \cup {None} :
                /\ proc' = [proc EXCEPT ![w].at = s, ![w].t = t]
                /\ s \in InHand => t \in Agent
        BY <2>2 DEF TakeTask, FindNothing, ProcState, InHand
      <3>2. proc' \in [Worker -> MainRow] /\ TaskInHand'
        BY <3>1 DEF LoopTypes, MainRow, TaskInHand
      <3>3. QED BY <2>2, <3>2 DEF TakeTask, FindNothing, LoopTypes
    <2>3. CASE Launch(w)
      <3>1. proc' \in [Worker -> MainRow] /\ TaskInHand'
        BY <2>3 DEF Launch, At, Goto, LoopTypes, MainRow, TaskInHand, InHand, ProcState
      <3>2. GoodThread([NoThread EXCEPT !.at = "top"])
        BY DEF GoodThread, ThreadRow, ThreadState, NoThread
      <3>3. hbStop' \in [Worker -> BOOLEAN]
        BY <2>3 DEF Launch, LoopTypes
      <3>4. QED BY <2>3, <3>1, <3>2, <3>3, OneThread DEF Launch, LoopTypes
    <2>4. ASSUME NEW out \in {"finished", "transient", "fatal"}, BenchEnds(w, out) PROVE LoopTypes'
      <3>1. proc' \in [Worker -> MainRow] /\ TaskInHand'
        BY <2>4 DEF BenchEnds, At, LoopTypes, MainRow, TaskInHand, InHand, ProcState, Outcome
      <3>2. QED BY <2>4, <3>1 DEF BenchEnds, LoopTypes
    <2>5. CASE Report(w)
      <3>1. proc' \in [Worker -> MainRow] /\ TaskInHand'
        BY <2>5 DEF Report, LoopTypes, MainRow, TaskInHand, InHand, ProcState, Outcome
      <3>2. QED BY <2>5, <3>1 DEF Report, LoopTypes
    <2>6. CASE Close(w)
      <3>1. proc' \in [Worker -> MainRow] /\ TaskInHand'
        <4>1. proc' = proc \/ Goto(w, "poll")
          BY <2>6 DEF Close
        <4>2. QED BY <4>1, Moved DEF ProcState, InHand, LoopTypes, TaskInHand
      <3>2. QED BY <2>6, <3>1 DEF Close, LoopTypes
    <2>7. CASE Exit(w)
      <3>1. proc' \in [Worker -> MainRow] /\ TaskInHand'
        BY <2>7, Moved DEF Exit, ProcState, InHand
      <3>2. QED BY <2>7, <3>1, AllThreads DEF Exit, LoopTypes
    <2>8. QED BY <1>2, <2>1, <2>2, <2>3, <2>4, <2>5, <2>6, <2>7 DEF MainStep
  <1>3. ASSUME NEW w \in Worker, NEW i \in Slot, Wake(w, i) \/ BeatRow(w, i) \/ BeatTask(w, i)
        PROVE  LoopTypes'
    <2>1. PICK th : SetThread(w, i, th) /\ GoodThread(th)
      <3>1. /\ GoodThread(NoThread)
            /\ GoodThread([NoThread EXCEPT !.at = "row"]) /\ GoodThread([NoThread EXCEPT !.at = "top"])
        BY DEF GoodThread, ThreadRow, ThreadState, NoThread
      <3>2. proc[w].t \in Agent \cup {None}
        BY DEF LoopTypes, MainRow
      <3>3. proc[w].t # None => GoodThread([at |-> "beat", id |-> proc[w].t, lag |-> 0])
        BY <3>2 DEF GoodThread, ThreadRow, ThreadState
      <3>4. QED BY <1>3, <3>1, <3>3 DEF Wake, BeatRow, BeatTask
    <2>2. hb' \in [Worker -> [Slot -> ThreadRow]] /\ \A v \in Worker, j \in Slot : GoodThread(hb'[v][j])
      BY <2>1, OneThread DEF SetThread
    <2>3. proc' = proc /\ hbStop' \in [Worker -> BOOLEAN]
      BY <1>3 DEF Wake, BeatRow, BeatTask, LoopTypes
    <2>4. QED BY <2>2, <2>3 DEF LoopTypes, TaskInHand
  <1>4. ASSUME NEW w \in Worker, Leave(w) \/ Crash(w) PROVE LoopTypes'
    <2>1. proc' \in [Worker -> MainRow] /\ TaskInHand'
      BY <1>4, Moved DEF Leave, Crash, ProcState, InHand
    <2>2. hb' \in [Worker -> [Slot -> ThreadRow]] /\ \A v \in Worker, j \in Slot : GoodThread(hb'[v][j])
      BY <1>4, AllThreads DEF Leave, Crash, LoopTypes, GoodThread
    <2>3. QED BY <1>4, <2>1, <2>2 DEF Leave, Crash, LoopTypes
  <1>5. CASE Pass
    <2>1. \A w \in Worker, i \in Slot :
              /\ hb'[w][i] = IF Timely /\ ~Thread(w, i, "none")
                             THEN [hb[w][i] EXCEPT !.lag = @ + 1] ELSE hb[w][i]
      BY <1>5 DEF Pass
    <2>2. \A w \in Worker, i \in Slot : GoodThread([hb[w][i] EXCEPT !.lag = @ + 1])
      BY DEF LoopTypes, GoodThread, ThreadRow
    <2>3. \A w \in Worker, i \in Slot : GoodThread(hb'[w][i])
      BY <2>1, <2>2 DEF LoopTypes
    <2>4. hb' \in [Worker -> [Slot -> ThreadRow]]
      BY <1>5, <2>1, <2>3 DEF Pass, GoodThread
    <2>5. QED BY <1>5, <2>3, <2>4 DEF Pass, LoopTypes, TaskInHand
  <1>6. CASE Serve \/ Operate \/ UNCHANGED wvars
    BY <1>1, <1>6 DEF Serve, Operate, wvars
  <1>7. QED BY <1>2, <1>3, <1>4, <1>5, <1>6 DEF WNext, ThreadStep

(* The processes and the tables keep their types, and a worker between     *)
(* lease() and finish() has a row in hand.                                 *)
LEMMA LoopCorrect == WSpec => []LoopInv
  <1>1. LoopInv /\ [WNext]_wvars => LoopInv'
    <2> SUFFICES ASSUME LoopInv, [WNext]_wvars PROVE LoopInv'
      OBVIOUS
    <2>1. TypeOK' /\ LoopTypes'
      BY LoopStep, TypeStep, LoopTypesStep, LoopInvParts
    <2>2. QED BY <2>1 DEF LoopInv, WTypeOK, LoopTypes, MainRow, ThreadRow, GoodThread, Thread
  <1>2. QED BY <1>1, LoopInit, PTL DEF WSpec

(* The types of rows, processes and threads, in every reachable state.     *)
THEOREM LoopTypeCorrect == WSpec => []WTypeOK
  <1>1. LoopInv => WTypeOK
    BY DEF LoopInv
  <1>2. QED BY <1>1, LoopCorrect, PTL

(* The loop with everything around it runs the tables and nothing else.    *)
THEOREM LoopRunsTheTables == WSpec => Spec
  BY LoopCorrect, LoopStep, PTL DEF WSpec, WInit, Spec

(* Worker processes, whatever they lose and however late their threads     *)
(* are, keep the promise of the ownership lock.                            *)
THEOREM LoopImplementsOwnership == WSpec => OwnershipSpec
  BY LoopRunsTheTables, QueueImplementsOwnership, PTL
------------------------------------------------------------------------------
(* NoForgottenLease says nothing of a worker that is over; the invariant   *)
(* says that only a killed worker leaves a lease behind.                   *)
Working(a) == LET p == proc[task[a].owner] IN p.at \in InHand /\ p.t = a

LeaseInv == \A a \in HeldTasks : task[a].owner \in Worker /\ (At(task[a].owner, "killed") \/ Working(a))

\* No row comes to be held or changes hands.
NoneTaken ==
    \A a \in Agent : task'[a].state \in Held => task[a].state \in Held /\ task'[a].owner = task[a].owner

(* A release of several rows takes none.                                   *)
LEMMA ReleaseTakesNone ==
    ASSUME NEW STATE S, Release(S)
    PROVE  NoneTaken
  BY Columns DEF Release, NoneTaken, Held

(* Only lease() takes a row: finish, the reapers, the operators and a late *)
(* heartbeat at most give one back.                                        *)
LEMMA QuietTakesNone == TypeOK /\ (Quiet \/ Tick) => NoneTaken
  <1> SUFFICES ASSUME TypeOK, Quiet \/ Tick PROVE NoneTaken
    OBVIOUS
  <1>1. ASSUME UNCHANGED task PROVE NoneTaken
    BY <1>1 DEF NoneTaken
  <1>2. CASE PlanNext
    BY <1>1, <1>2, Columns DEF PlanNext, CreatePlan, CancelPlan, EnqueueAgent, EnqueueJudge,
                               NoneTaken, Held, TypeOK, TaskRow
  <1>3. CASE FinishNext
    <2>1. ASSUME NEW w \in Worker, NEW a \in Agent, NEW out \in Outcome, FinishRetry(w, a, out)
          PROVE  NoneTaken
      BY <2>1 DEF FinishRetry, NoneTaken, Held, TypeOK, Requeued, SetRow
    <2>2. ASSUME NEW w \in Worker, NEW a \in Agent, NEW out \in Outcome, FinishTerminal(w, a, out)
          PROVE  NoneTaken
      BY <2>2 DEF FinishTerminal, Terminal, Outcome, NoneTaken, Held, TypeOK, Closed, SetRow
    <2>3. QED BY <1>1, <1>3, <2>1, <2>2 DEF FinishNext, CascadeJudge, CountPlan, ClosePlan,
                                                     LoseContinuation
  <1>4. CASE AdminNext
    <2>1. ASSUME NEW a \in Agent, CancelTask(a) \/ RetryTask(a) PROVE NoneTaken
      BY <2>1 DEF CancelTask, RetryTask, NoneTaken, Held, TypeOK, Requeued, Closed, SetRow
    <2>2. ASSUME ForceReleaseAll \/ \E g \in Graces : Reap(g) PROVE NoneTaken
      BY <2>2, ReleaseTakesNone DEF ForceReleaseAll, Reap
    <2>3. QED BY <1>1, <1>4, <2>1, <2>2 DEF AdminNext, CancelJudge, RetryJudge
  <1>5. CASE WorkerNext
    <2>1. ASSUME NEW fresh \in SUBSET Worker, ListWorkers(fresh) PROVE NoneTaken
      BY <2>1, ReleaseTakesNone DEF ListWorkers
    <2>2. QED BY <1>1, <1>5, <2>1
            DEF WorkerNext, RegisterWorker, WorkerHeartbeat, StopWorker, CleanupDead
  <1>6. CASE Tick
    BY <1>6 DEF Tick, NoneTaken
  <1>7. ASSUME NEW w \in Worker, NEW a \in Agent, Heartbeat(w, a) PROVE NoneTaken
    BY <1>7 DEF Heartbeat, HeartbeatOk, NoneTaken, TypeOK, SetRow
  <1>8. CASE UNCHANGED vars
    BY <1>1, <1>8 DEF vars
  <1>9. QED BY <1>2, <1>3, <1>4, <1>5, <1>6, <1>7, <1>8 DEF Quiet, QuietNext

\* A main thread that stays, is killed, had no row in hand or keeps the one it had.
Careful(w) ==
    \/ proc'[w] = proc[w]
    \/ proc'[w].at = "killed"
    \/ proc[w].at \notin InHand \cup {"killed"}
    \/ proc[w].at \in InHand /\ proc'[w].at \in InHand /\ proc'[w].t = proc[w].t

(* A step that takes no row keeps the leases in hand if every main thread  *)
(* is careful.                                                             *)
LEMMA CarefulKeeps ==
    ASSUME LeaseInv, NoneTaken, \A w \in Worker : Careful(w)
    PROVE  LeaseInv'
  <1> SUFFICES ASSUME NEW a \in Agent, task'[a].state \in Held
               PROVE  /\ task'[a].owner \in Worker
                      /\ \/ proc'[task'[a].owner].at = "killed"
                         \/ proc'[task'[a].owner].at \in InHand /\ proc'[task'[a].owner].t = a
    BY DEF LeaseInv, HeldTasks, Held, At, Working
  <1>1. /\ task'[a].owner = task[a].owner /\ task[a].owner \in Worker
        /\ \/ proc[task[a].owner].at = "killed"
           \/ proc[task[a].owner].at \in InHand /\ proc[task[a].owner].t = a
    BY DEF NoneTaken, LeaseInv, HeldTasks, At, Working
  <1>2. Careful(task[a].owner)
    BY <1>1
  <1>3. QED BY <1>1, <1>2 DEF Careful, InHand

(* The lease of a worker at its lease() is the only one it has.            *)
LEMMA TakeKeeps ==
    ASSUME LoopInv, LeaseInv, NEW w \in Worker, TakeTask(w)
    PROVE  LeaseInv'
  <1>1. PICK b \in Agent : Lease(w, Subscribes[w], b) /\ proc' = [proc EXCEPT ![w].at = "launch", ![w].t = b]
    BY DEF TakeTask
  <1>2. \A a \in Agent : task'[a] = IF a = b THEN SetRow(task[b], "leased", w, LeaseTicks) ELSE task[a]
    BY <1>1 DEF Lease, LoopInv, WTypeOK, TypeOK
  <1>3. \A a \in HeldTasks : task[a].owner # w
    BY DEF LeaseInv, TakeTask, At, Working, InHand
  <1>4. /\ proc'[w].at = "launch" /\ proc'[w].t = b
        /\ \A v \in Worker : v # w => proc'[v] = proc[v]
    BY <1>1 DEF LoopInv, WTypeOK
  <1>5. ASSUME NEW a \in Agent, task'[a].state \in Held
        PROVE  /\ task'[a].owner \in Worker
               /\ \/ proc'[task'[a].owner].at = "killed"
                  \/ proc'[task'[a].owner].at \in InHand /\ proc'[task'[a].owner].t = a
    <2>1. CASE a = b
      BY <1>2, <1>4, <2>1, Columns DEF InHand
    <2>2. CASE a # b
      <3>1. task'[a] = task[a] /\ a \in HeldTasks
        BY <1>2, <1>5, <2>2 DEF HeldTasks
      <3>2. QED BY <1>3, <1>4, <3>1 DEF LeaseInv, At, Working
    <2>3. QED BY <2>1, <2>2
  <1>6. QED BY <1>5 DEF LeaseInv, HeldTasks, Held, At, Working

(* After its report a worker holds nothing: the row was requeued or        *)
(* closed, or another has it.                                              *)
LEMMA ReportKeeps ==
    ASSUME LoopInv, LeaseInv, NoneTaken, NEW w \in Worker, Report(w)
    PROVE  LeaseInv'
  <1>1. proc[w].t \in Agent /\ proc[w].out \in Outcome
    BY DEF Report, At, LoopInv, TaskInHand, InHand, WTypeOK
  <1>2. ~(task'[proc[w].t].state \in Held /\ task'[proc[w].t].owner = w)
    <2>1. CASE FinishRetry(w, proc[w].t, proc[w].out)
      BY <1>1, <2>1 DEF FinishRetry, Requeued, SetRow, Held, LoopInv, WTypeOK, TypeOK
    <2>2. CASE FinishTerminal(w, proc[w].t, proc[w].out)
      BY <1>1, <2>2 DEF FinishTerminal, Terminal, Outcome, Closed, SetRow, Held, LoopInv, WTypeOK, TypeOK
    <2>3. CASE task[proc[w].t].owner # w /\ UNCHANGED vars
      BY <2>3 DEF vars
    <2>4. QED BY <2>1, <2>2, <2>3 DEF Report
  <1>3. proc[w].at = "report" /\ \A v \in Worker : v # w => proc'[v] = proc[v]
    BY DEF Report, At, LoopInv, WTypeOK
  <1>4. ASSUME NEW a \in Agent, task'[a].state \in Held
        PROVE  /\ task'[a].owner \in Worker
               /\ \/ proc'[task'[a].owner].at = "killed"
                  \/ proc'[task'[a].owner].at \in InHand /\ proc'[task'[a].owner].t = a
    <2>1. /\ task'[a].owner = task[a].owner /\ task[a].owner \in Worker
          /\ \/ proc[task[a].owner].at = "killed"
             \/ proc[task[a].owner].at \in InHand /\ proc[task[a].owner].t = a
      BY <1>4 DEF NoneTaken, LeaseInv, HeldTasks, At, Working
    <2>2. task[a].owner # w
      BY <1>2, <1>3, <1>4, <2>1
    <2>3. QED BY <1>3, <2>1, <2>2
  <1>5. QED BY <1>4 DEF LeaseInv, HeldTasks, Held, At, Working

(* Every step of the loop keeps the leases in hand.                        *)
LEMMA LeaseStep == LoopInv /\ LeaseInv /\ [WNext]_wvars => LeaseInv'
  <1> SUFFICES ASSUME LoopInv, LeaseInv, [WNext]_wvars PROVE LeaseInv'
    OBVIOUS
  <1>1. CASE \E w \in Worker : TakeTask(w)
    BY <1>1, TakeKeeps
  <1>2. CASE NoneTaken
    <2>1. ASSUME UNCHANGED proc PROVE LeaseInv'
      <3>1. \A v \in Worker : Careful(v)
        BY <2>1 DEF Careful
      <3>2. QED BY <1>2, <3>1, CarefulKeeps
    <2>2. ASSUME NEW w \in Worker, NEW p, proc' = [proc EXCEPT ![w] = p],
                 \/ p.at = "killed"
                 \/ proc[w].at \notin InHand \cup {"killed"}
                 \/ proc[w].at \in InHand /\ p.at \in InHand /\ p.t = proc[w].t
          PROVE  LeaseInv'
      <3>1. proc'[w] = p /\ \A v \in Worker : v # w => proc'[v] = proc[v]
        BY <2>2 DEF LoopInv, WTypeOK
      <3>2. \A v \in Worker : Careful(v)
        BY <2>2, <3>1 DEF Careful
      <3>3. QED BY <1>2, <3>2, CarefulKeeps
    <2>3. ASSUME NEW w \in Worker, NEW s, Goto(w, s),
                 s = "killed" \/ proc[w].at \notin InHand \cup {"killed"}
                 \/ (proc[w].at \in InHand /\ s \in InHand)
          PROVE  LeaseInv'
      <3>1. proc' = [proc EXCEPT ![w] = [proc[w] EXCEPT !.at = s]]
        BY <2>3 DEF Goto
      <3>2. [proc[w] EXCEPT !.at = s].at = s /\ [proc[w] EXCEPT !.at = s].t = proc[w].t
        BY DEF LoopInv, WTypeOK
      <3>3. QED BY <2>2, <2>3, <3>1, <3>2
    <2>4. ASSUME NEW w \in Worker, MainStep(w) PROVE LeaseInv'
      <3>1. CASE Start(w) \/ Poll(w) \/ Exit(w)
        BY <2>3, <3>1 DEF Start, Poll, Exit, At, InHand
      <3>2. CASE FindNothing(w)
        <4>1. proc' = [proc EXCEPT ![w] = [proc[w] EXCEPT !.at = "poll", !.t = None]]
          BY <3>2 DEF FindNothing
        <4>2. QED BY <2>2, <3>2, <4>1 DEF FindNothing, At, InHand
      <3>3. CASE Launch(w)
        BY <2>3, <3>3 DEF Launch, At, InHand
      <3>4. ASSUME NEW out, BenchEnds(w, out) PROVE LeaseInv'
        <4>1. proc' = [proc EXCEPT ![w] = [proc[w] EXCEPT !.at = "report", !.out = out]]
          BY <3>4 DEF BenchEnds
        <4>2. /\ [proc[w] EXCEPT !.at = "report", !.out = out].at = "report"
              /\ [proc[w] EXCEPT !.at = "report", !.out = out].t = proc[w].t
          BY DEF LoopInv, WTypeOK
        <4>3. QED BY <2>2, <3>4, <4>1, <4>2 DEF BenchEnds, At, InHand
      <3>5. CASE Report(w)
        BY <1>2, <3>5, ReportKeeps
      <3>6. CASE Close(w)
        BY <2>1, <2>3, <3>6 DEF Close, At, InHand
      <3>7. QED BY <1>1, <2>4, <3>1, <3>2, <3>3, <3>4, <3>5, <3>6 DEF MainStep
    <2>5. ASSUME NEW w \in Worker, Leave(w) \/ Crash(w) PROVE LeaseInv'
      BY <2>3, <2>5 DEF Leave, Crash, At, InHand
    <2>6. CASE (\E w \in Worker : ThreadStep(w)) \/ Serve \/ Operate \/ Pass \/ UNCHANGED wvars
      BY <2>1, <2>6 DEF ThreadStep, Wake, BeatRow, BeatTask, Serve, Operate, Pass, wvars, loopVars
    <2>7. QED BY <2>4, <2>5, <2>6 DEF WNext
  <1>3. QED BY <1>1, <1>2, LoopStatement, QuietTakesNone DEF LoopInv, WTypeOK, Pass

(* A worker that runs never holds a lease it is not working on: whatever   *)
(* its threads, the reapers and the operators do in between, every way out *)
(* of a task gives the lease up and nothing takes it back (worker_loop).   *)
THEOREM NothingForgotten == WSpec => []NoForgottenLease
  <1>1. WInit => LeaseInv
    BY DEF WInit, Init, LeaseInv, HeldTasks, Held
  <1>2. LeaseInv => NoForgottenLease
    BY DEF LeaseInv, NoForgottenLease, Working, At, Up, InHand
  <1>3. QED BY <1>1, <1>2, LeaseStep, LoopCorrect, PTL DEF WSpec
------------------------------------------------------------------------------
(* The reapers and the workers that are on time.  A heartbeat thread goes  *)
(* round in three stages - it waits, it beats for the worker's row, it     *)
(* beats for the task - and a timely one takes MaxLag ticks for each, so   *)
(* neither the lease nor the row is ever older than a round.               *)

\* Threads are timely and joined, a round fits into a lease and into the stale window.
Prompt == Timely /\ ~JoinTimesOut /\ 3 * MaxLag <= LeaseTicks /\ 3 * MaxLag <= StaleAfter

\* The row of a worker is deleted or at most n ticks old.
Fresh(w, n) == worker[w].state = "absent" \/ (worker[w].state = "running" /\ worker[w].age <= n)

\* Ticks since the last heartbeat of the task, and of the row, when a stage begins.
Spent(s) == IF s = "top" THEN 0 ELSE IF s = "row" THEN MaxLag ELSE 2 * MaxLag
Aged(s) == IF s = "top" THEN MaxLag ELSE IF s = "row" THEN 2 * MaxLag ELSE 0

\* Thread th of w beats for the task in hand, and is on time.
OnBeat(w, th) ==
    /\ th.at \in {"top", "row", "beat"} /\ th.lag <= MaxLag
    /\ th.at = "beat" => th.id = proc[w].t
    /\ Fresh(w, th.lag + Aged(th.at))
    /\ task[proc[w].t].ttl >= LeaseTicks - th.lag - Spent(th.at)

Owned(w) == HeartbeatOk(w, proc[w].t)

Alone(w, i) == \A j \in Slot : j # i => hb[w][j] = NoThread

WorkerOnTime(w) ==
    /\ proc[w].at \notin {"bench", "report"} => \A i \in Slot : hb[w][i] = NoThread
    /\ proc[w].at \in {"lease", "launch"} => Fresh(w, 0)
    /\ proc[w].at = "launch" /\ Owned(w) => task[proc[w].t].ttl >= LeaseTicks
    /\ proc[w].at = "bench" /\ Owned(w) =>
          ~hbStop[w] /\ \E i \in Slot : OnBeat(w, hb[w][i]) /\ Alone(w, i)

BeatInv == \A w \in Worker : WorkerOnTime(w)

\* No held row loses ticks.
NoTimeLost ==
    \A a \in Agent : task'[a].state \in Held => task'[a].ttl = task[a].ttl \/ task'[a].ttl = LeaseTicks

(* Only the clock takes ticks from a lease.                                *)
LEMMA QuietLosesNoTime == TypeOK /\ Quiet => NoTimeLost
  <1> SUFFICES ASSUME TypeOK, Quiet PROVE NoTimeLost
    OBVIOUS
  <1>1. ASSUME UNCHANGED task PROVE NoTimeLost
    BY <1>1 DEF NoTimeLost
  <1>2. ASSUME NEW STATE S, Release(S) PROVE NoTimeLost
    BY <1>2, Columns DEF Release, NoTimeLost, Held
  <1>3. CASE PlanNext
    BY <1>1, <1>3, Columns DEF PlanNext, CreatePlan, CancelPlan, EnqueueAgent, EnqueueJudge,
                               NoTimeLost, Held, TypeOK, TaskRow
  <1>4. CASE FinishNext
    <2>1. ASSUME NEW w \in Worker, NEW a \in Agent, NEW out \in Outcome, FinishRetry(w, a, out)
          PROVE  NoTimeLost
      BY <2>1 DEF FinishRetry, NoTimeLost, Held, TypeOK, Requeued, SetRow
    <2>2. ASSUME NEW w \in Worker, NEW a \in Agent, NEW out \in Outcome, FinishTerminal(w, a, out)
          PROVE  NoTimeLost
      BY <2>2 DEF FinishTerminal, Terminal, Outcome, NoTimeLost, Held, TypeOK, Closed, SetRow
    <2>3. QED BY <1>1, <1>4, <2>1, <2>2 DEF FinishNext, CascadeJudge, CountPlan, ClosePlan,
                                                     LoseContinuation
  <1>5. CASE AdminNext
    <2>1. ASSUME NEW a \in Agent, CancelTask(a) \/ RetryTask(a) PROVE NoTimeLost
      BY <2>1 DEF CancelTask, RetryTask, NoTimeLost, Held, TypeOK, Requeued, Closed, SetRow
    <2>2. ASSUME ForceReleaseAll \/ \E g \in Graces : Reap(g) PROVE NoTimeLost
      BY <1>2, <2>2 DEF ForceReleaseAll, Reap
    <2>3. QED BY <1>1, <1>5, <2>1, <2>2 DEF AdminNext, CancelJudge, RetryJudge
  <1>6. CASE WorkerNext
    <2>1. ASSUME NEW fresh \in SUBSET Worker, ListWorkers(fresh) PROVE NoTimeLost
      BY <1>2, <2>1 DEF ListWorkers
    <2>2. QED BY <1>1, <1>6, <2>1
            DEF WorkerNext, RegisterWorker, WorkerHeartbeat, StopWorker, CleanupDead
  <1>7. ASSUME NEW w \in Worker, NEW a \in Agent, Heartbeat(w, a) PROVE NoTimeLost
    BY <1>7 DEF Heartbeat, NoTimeLost, TypeOK, SetRow
  <1>8. CASE UNCHANGED vars
    BY <1>1, <1>8 DEF vars
  <1>9. QED BY <1>3, <1>4, <1>5, <1>6, <1>7, <1>8 DEF Quiet, QuietNext

(* A supervisor that lists the workers leaves a fresh row alone.           *)
LEMMA ListingKeepsFresh ==
    ASSUME TypeOK, NEW shown \in SUBSET Worker, ListWorkers(shown),
           NEW w \in Worker, NEW n \in Nat, n <= StaleAfter, Fresh(w, n)
    PROVE  Fresh(w, n)'
  <1>1. w \notin Stale /\ worker[w].state \notin {"dead", "stopped"}
    BY TimingAssumption DEF Fresh, Stale, TypeOK
  <1>2. worker'[w] = worker[w]
    BY <1>1 DEF ListWorkers
  <1>3. QED BY <1>2 DEF Fresh

\* What a step does to the row of w, if it is neither the clock nor the end of w.
RowKept(w) == \A n \in Nat : n <= StaleAfter /\ Fresh(w, n) => Fresh(w, n)'

LEMMA BeatFreshens ==
    ASSUME TypeOK, NEW v \in Worker, RowBeat(v)
    PROVE  (\A w \in Worker : RowKept(w)) /\ Fresh(v, 0)'
  <1>1. CASE WorkerHeartbeat(v)
    BY <1>1 DEF WorkerHeartbeat, Fresh, RowKept, TypeOK
  <1>2. CASE worker[v].state = "absent" /\ UNCHANGED vars
    BY <1>2 DEF vars, Fresh, RowKept
  <1>3. QED BY <1>1, <1>2 DEF RowBeat

(* A step that is not the clock's keeps the rows of the workers fresh that *)
(* do not end with it.                                                     *)
LEMMA RowsKept ==
    ASSUME LoopInv, WNext, NEW w \in Worker, ~Pass, ~Exit(w)
    PROVE  RowKept(w)
  <1>1. ASSUME UNCHANGED worker PROVE RowKept(w)
    BY <1>1 DEF RowKept, Fresh
  <1>2. ASSUME NEW v \in Worker, RowBeat(v) PROVE RowKept(w)
    BY <1>2, BeatFreshens DEF LoopInv, WTypeOK
  <1>3. ASSUME NEW v \in Worker, MainStep(v) PROVE RowKept(w)
    <2>1. CASE Start(v)
      BY <2>1 DEF Start, RegisterWorker, RowKept, Fresh, LoopInv, WTypeOK, TypeOK
    <2>2. CASE Poll(v)
      BY <1>2, <2>2 DEF Poll
    <2>3. CASE TakeTask(v) \/ FindNothing(v) \/ Launch(v)
                 \/ \E out \in {"finished", "transient", "fatal"} : BenchEnds(v, out)
      BY <1>1, <2>3 DEF TakeTask, Lease, FindNothing, Launch, BenchEnds, vars
    <2>4. CASE Report(v) \/ Close(v)
      BY <1>1, <2>4 DEF Report, FinishRetry, FinishTerminal, Close, CascadeJudge, CountPlan, ClosePlan, vars
    <2>5. CASE Exit(v)
      <3>1. worker' = [worker EXCEPT ![v] = [state |-> "stopped", age |-> 0]] \/ UNCHANGED worker
        BY <2>5 DEF Exit, StopWorker, vars
      <3>2. v # w
        BY <2>5
      <3>3. worker'[w] = worker[w]
        BY <3>1, <3>2 DEF LoopInv, WTypeOK, TypeOK
      <3>4. QED BY <3>3 DEF RowKept, Fresh
    <2>6. QED BY <1>3, <2>1, <2>2, <2>3, <2>4, <2>5 DEF MainStep
  <1>4. ASSUME NEW v \in Worker, ThreadStep(v) PROVE RowKept(w)
    BY <1>1, <1>2, <1>4 DEF ThreadStep, Wake, BeatRow, BeatTask, Heartbeat, vars
  <1>5. ASSUME NEW v \in Worker, Leave(v) \/ Crash(v) PROVE RowKept(w)
    BY <1>1, <1>5 DEF Leave, Crash, LoseContinuation, vars
  <1>6. CASE Serve
    <2>1. ASSUME NEW shown \in SUBSET Worker, ListWorkers(shown) PROVE RowKept(w)
      BY <2>1, ListingKeepsFresh DEF RowKept, LoopInv, WTypeOK
    <2>2. QED BY <1>1, <1>6, <2>1 DEF Serve, Reap, ForceReleaseAll
  <1>7. CASE Operate
    BY <1>1, <1>7 DEF Operate, CreatePlan, EnqueueAgent, EnqueueJudge, CancelPlan, CancelTask, RetryTask
  <1>8. QED BY <1>3, <1>4, <1>5, <1>6, <1>7 DEF WNext

\* What a step does to the rows w may hold, if it is neither the clock nor a lease of w.
HandKept(w) ==
    \A a \in Agent : HeartbeatOk(w, a)' =>
        HeartbeatOk(w, a) /\ (task'[a].ttl = task[a].ttl \/ task'[a].ttl = LeaseTicks)

LEMMA HandsKept ==
    ASSUME LoopInv, WNext, NEW w \in Worker, ~Pass, ~TakeTask(w)
    PROVE  HandKept(w)
  <1>1. ASSUME NEW v \in Worker, TakeTask(v) PROVE HandKept(w)
    <2>1. PICK b \in Agent : Lease(v, Subscribes[v], b)
      BY <1>1 DEF TakeTask
    <2>2. v # w
      BY <1>1
    <2>3. \A a \in Agent : task'[a] = IF a = b THEN SetRow(task[b], "leased", v, LeaseTicks) ELSE task[a]
      BY <2>1 DEF Lease, LoopInv, WTypeOK, TypeOK
    <2>4. QED BY <2>2, <2>3, Columns DEF HandKept, HeartbeatOk
  <1>2. ASSUME NoneTaken, NoTimeLost PROVE HandKept(w)
    BY <1>2 DEF NoneTaken, NoTimeLost, HandKept, HeartbeatOk
  <1>3. QED BY <1>1, <1>2, LoopStatement, QuietTakesNone, QuietLosesNoTime DEF LoopInv, WTypeOK

(* A thread that is not moved stays on its beat.                           *)
LEMMA OnBeatStays ==
    ASSUME Prompt, LoopInv, NEW w \in Worker, NEW th \in ThreadRow, OnBeat(w, th),
           proc[w].at = "bench", proc'[w].t = proc[w].t, RowKept(w), HandKept(w), Owned(w)'
    PROVE  OnBeat(w, th)'
  <1>1. proc[w].t \in Agent
    BY DEF LoopInv, TaskInHand, InHand
  <1>2. task[proc[w].t].ttl \in Int
    BY <1>1 DEF LoopInv, WTypeOK, TypeOK, TaskRow
  <1>3. task'[proc[w].t].ttl = task[proc[w].t].ttl \/ task'[proc[w].t].ttl = LeaseTicks
    BY <1>1 DEF HandKept, Owned, HeartbeatOk
  <1>4. MaxLag \in Nat /\ LeaseTicks \in Nat /\ StaleAfter \in Nat /\ th.lag \in Nat
    BY WorkerLoopAssumption, TimingAssumption DEF ThreadRow
  <1>5. task'[proc'[w].t].ttl >= LeaseTicks - th.lag - Spent(th.at)
    <2>1. Spent(th.at) \in Nat
      BY <1>4 DEF Spent
    <2>2. task[proc[w].t].ttl >= LeaseTicks - th.lag - Spent(th.at)
      BY DEF OnBeat
    <2>3. QED BY <1>2, <1>3, <1>4, <2>1, <2>2
  <1>6. Fresh(w, th.lag + Aged(th.at))'
    <2>1. Aged(th.at) \in Nat /\ th.lag + Aged(th.at) <= 3 * MaxLag
      BY <1>4 DEF Aged, OnBeat
    <2> DEFINE n == th.lag + Aged(th.at)
    <2>2. n \in Nat /\ n <= StaleAfter
      BY <1>4, <2>1 DEF Prompt
    <2>3. Fresh(w, n)
      BY DEF OnBeat
    <2>4. QED BY <2>2, <2>3 DEF RowKept, Fresh
  <1>7. QED BY <1>5, <1>6 DEF OnBeat, Spent, Aged

(* What others do leaves a worker on time.                                 *)
LEMMA OthersKeep ==
    ASSUME Prompt, LoopInv, NEW w \in Worker, WorkerOnTime(w), RowKept(w), HandKept(w),
           proc'[w] = proc[w], hb'[w] = hb[w], hbStop'[w] = hbStop[w]
    PROVE  WorkerOnTime(w)'
  <1>1. proc[w].at \in {"lease", "launch"} => Fresh(w, 0)'
    BY TimingAssumption DEF WorkerOnTime, RowKept
  <1>2. proc[w].at = "launch" /\ Owned(w)' => task'[proc[w].t].ttl >= LeaseTicks
    <2> SUFFICES ASSUME proc[w].at = "launch", Owned(w)' PROVE task'[proc[w].t].ttl >= LeaseTicks
      OBVIOUS
    <2>1. proc[w].t \in Agent
      BY DEF LoopInv, TaskInHand, InHand
    <2>2. Owned(w) /\ (task'[proc[w].t].ttl = task[proc[w].t].ttl \/ task'[proc[w].t].ttl = LeaseTicks)
      BY <2>1 DEF HandKept, Owned, HeartbeatOk
    <2>3. task[proc[w].t].ttl >= LeaseTicks
      BY <2>2 DEF WorkerOnTime
    <2>4. QED BY <2>2, <2>3, TimingAssumption
  <1>3. ASSUME proc[w].at = "bench", Owned(w)'
        PROVE  ~hbStop'[w] /\ \E i \in Slot : OnBeat(w, hb[w][i])' /\ Alone(w, i)'
    <2>1. proc[w].t \in Agent
      BY <1>3 DEF LoopInv, TaskInHand, InHand
    <2>2. Owned(w)
      BY <1>3, <2>1 DEF HandKept, Owned, HeartbeatOk
    <2>3. ~hbStop[w] /\ \E i \in Slot : OnBeat(w, hb[w][i]) /\ Alone(w, i)
      BY <1>3, <2>2 DEF WorkerOnTime
    <2>4. PICK i \in Slot : OnBeat(w, hb[w][i]) /\ Alone(w, i)
      BY <2>3
    <2>5. PICK th \in ThreadRow : th = hb[w][i]
      BY LoopInvParts DEF LoopTypes
    <2>6. OnBeat(w, th)'
      BY <1>3, <2>4, <2>5, OnBeatStays
    <2>7. OnBeat(w, hb[w][i])'
      BY <2>5, <2>6 DEF OnBeat
    <2>8. Alone(w, i)'
      BY <2>4 DEF Alone
    <2>9. QED BY <2>3, <2>7, <2>8
  <1>4. QED BY <1>1, <1>2, <1>3 DEF WorkerOnTime

\* A worker without threads that is not about to lease and has no bench.
LEMMA IdleOnTime ==
    ASSUME NEW w \in Worker, proc'[w].at \notin {"lease", "launch", "bench"},
           proc'[w].at # "report" => \A i \in Slot : hb'[w][i] = NoThread
    PROVE  WorkerOnTime(w)'
  BY DEF WorkerOnTime

(* A new lease, and the thread that is started for it.                     *)
LEMMA TakeOnTime ==
    ASSUME LoopInv, NEW w \in Worker, WorkerOnTime(w), TakeTask(w)
    PROVE  WorkerOnTime(w)'
  <1>1. PICK a \in Agent : Lease(w, Subscribes[w], a) /\ proc' = [proc EXCEPT ![w].at = "launch", ![w].t = a]
    BY DEF TakeTask
  <1>2. proc[w].at = "lease" /\ proc'[w].at = "launch" /\ proc'[w].t = a
    BY <1>1 DEF TakeTask, At, LoopInv, WTypeOK
  <1>3. task'[a].ttl = LeaseTicks
    BY <1>1 DEF Lease, SetRow, LoopInv, WTypeOK, TypeOK
  <1>4. worker' = worker /\ hb' = hb
    BY <1>1 DEF Lease, TakeTask
  <1>5. Fresh(w, 0)'
    BY <1>2, <1>4 DEF WorkerOnTime, Fresh
  <1>6. QED BY <1>2, <1>3, <1>4, <1>5, TimingAssumption DEF WorkerOnTime

LEMMA LaunchOnTime ==
    ASSUME LoopInv, NEW w \in Worker, WorkerOnTime(w), Launch(w)
    PROVE  WorkerOnTime(w)'
  <1>1. proc[w].at = "launch" /\ proc'[w].at = "bench" /\ proc'[w].t = proc[w].t /\ UNCHANGED vars
    BY DEF Launch, At, Goto, LoopInv, WTypeOK
  <1>2. \A i \in Slot : hb[w][i] = NoThread
    BY <1>1 DEF WorkerOnTime
  <1>3. PICK i \in Slot : hb' = [hb EXCEPT ![w][i] = [NoThread EXCEPT !.at = "top"]]
    BY DEF Launch
  <1>4. hb'[w][i] = [NoThread EXCEPT !.at = "top"] /\ \A j \in Slot : j # i => hb'[w][j] = NoThread
    BY <1>2, <1>3 DEF LoopInv, WTypeOK
  <1>5. hb'[w][i].at = "top" /\ hb'[w][i].lag = 0
    BY <1>4 DEF NoThread
  <1>6. ~hbStop'[w]
    BY DEF Launch, LoopInv, WTypeOK
  <1>7. ASSUME Owned(w)' PROVE OnBeat(w, hb[w][i])'
    <2>1. Owned(w) /\ proc[w].t \in Agent
      BY <1>1, <1>7 DEF Owned, HeartbeatOk, vars, LoopInv, TaskInHand, InHand
    <2>2. task[proc[w].t].ttl >= LeaseTicks /\ task[proc[w].t].ttl \in Int /\ Fresh(w, 0)
      BY <1>1, <2>1 DEF WorkerOnTime, LoopInv, WTypeOK, TypeOK, TaskRow
    <2>3. MaxLag \in Nat /\ LeaseTicks \in Nat
      BY WorkerLoopAssumption, TimingAssumption
    <2>4. task'[proc'[w].t].ttl >= LeaseTicks - 0 - 0
      BY <1>1, <2>2, <2>3 DEF vars
    <2>5. worker[w].age \in Nat
      BY DEF LoopInv, WTypeOK, TypeOK
    <2>6. Fresh(w, 0 + MaxLag)'
      BY <1>1, <2>2, <2>3, <2>5 DEF Fresh, vars
    <2>7. Spent("top") = 0 /\ Aged("top") = MaxLag
      BY DEF Spent, Aged
    <2>8. QED BY <1>5, <2>3, <2>4, <2>6, <2>7 DEF OnBeat
  <1>8. Alone(w, i)'
    BY <1>4 DEF Alone
  <1>9. QED BY <1>1, <1>6, <1>7, <1>8 DEF WorkerOnTime

(* The rest of the main thread.                                            *)
LEMMA MainOnTime ==
    ASSUME Prompt, LoopInv, NEW w \in Worker, WorkerOnTime(w), RowKept(w), HandKept(w), MainStep(w)
    PROVE  WorkerOnTime(w)'
  <1>1. ASSUME NEW s, Goto(w, s) PROVE proc'[w].at = s
    BY <1>1 DEF Goto, LoopInv, WTypeOK
  <1>2. CASE Start(w)
    BY <1>1, <1>2, IdleOnTime DEF Start, At, WorkerOnTime
  <1>3. CASE Poll(w)
    <2>1. proc[w].at = "poll" /\ proc'[w].at = "lease" /\ hb' = hb
      BY <1>1, <1>3 DEF Poll, At
    <2>2. Fresh(w, 0)'
      BY <1>3, BeatFreshens DEF Poll, LoopInv, WTypeOK
    <2>3. QED BY <2>1, <2>2 DEF WorkerOnTime
  <1>4. CASE FindNothing(w)
    <2>1. proc[w].at = "lease" /\ proc'[w].at = "poll" /\ hb' = hb
      BY <1>4 DEF FindNothing, At, LoopInv, WTypeOK
    <2>2. QED BY <2>1, IdleOnTime DEF WorkerOnTime
  <1>5. ASSUME NEW out, BenchEnds(w, out) PROVE WorkerOnTime(w)'
    <2>1. proc'[w].at = "report"
      BY <1>5 DEF BenchEnds, LoopInv, WTypeOK
    <2>2. QED BY <2>1, IdleOnTime
  <1>6. CASE Report(w)
    <2>1. proc'[w].at = "closing" /\ hb' = hb
      BY <1>6 DEF Report, LoopInv, WTypeOK
    <2>2. \A i \in Slot : hb[w][i] = NoThread
      BY <1>6 DEF Report, Joined, Prompt
    <2>3. QED BY <2>1, <2>2, IdleOnTime
  <1>7. CASE Close(w)
    <2>1. proc[w].at = "closing" /\ proc'[w].at \in {"closing", "poll"} /\ hb' = hb
      BY <1>1, <1>7 DEF Close, At
    <2>2. QED BY <2>1, IdleOnTime DEF WorkerOnTime
  <1>8. CASE Exit(w)
    <2>1. proc'[w].at = "over" /\ \A i \in Slot : hb'[w][i] = NoThread
      BY <1>1, <1>8 DEF Exit, NoThreads, LoopInv, WTypeOK
    <2>2. QED BY <2>1, IdleOnTime
  <1>9. QED BY <1>2, <1>3, <1>4, <1>5, <1>6, <1>7, <1>8, TakeOnTime, LaunchOnTime DEF MainStep

(* The heartbeat thread.                                                   *)
LEMMA ThreadOnTime ==
    ASSUME Prompt, LoopInv, NEW w \in Worker, WorkerOnTime(w), RowKept(w), HandKept(w),
           NEW i \in Slot, Wake(w, i) \/ BeatRow(w, i) \/ BeatTask(w, i)
    PROVE  WorkerOnTime(w)'
  <1>1. proc' = proc /\ hb[w][i] # NoThread
    BY DEF Wake, BeatRow, BeatTask, Thread, NoThread
  <1>2. proc[w].at \in {"bench", "report"}
    BY <1>1 DEF WorkerOnTime
  <1>3. CASE proc[w].at = "report"
    BY <1>1, <1>3, IdleOnTime
  <1>4. CASE proc[w].at = "bench" /\ ~Owned(w)'
    BY <1>1, <1>4 DEF WorkerOnTime
  <1>5. CASE proc[w].at = "bench" /\ Owned(w)'
    <2>1. proc[w].t \in Agent
      BY <1>5 DEF LoopInv, TaskInHand, InHand
    <2>2. Owned(w) /\ (task'[proc[w].t].ttl = task[proc[w].t].ttl \/ task'[proc[w].t].ttl = LeaseTicks)
      BY <1>1, <1>5, <2>1 DEF HandKept, Owned, HeartbeatOk
    <2>3. ~hbStop[w] /\ \E j \in Slot : OnBeat(w, hb[w][j]) /\ Alone(w, j)
      BY <1>5, <2>2 DEF WorkerOnTime
    <2>4. OnBeat(w, hb[w][i]) /\ Alone(w, i)
      BY <1>1, <2>3 DEF Alone
    <2>5. \A th : SetThread(w, i, th) => hb'[w][i] = th /\ Alone(w, i)'
      BY <2>4 DEF SetThread, Alone, LoopInv, WTypeOK
    <2>6. PICK lag \in Nat, ttl \in Int : lag = hb[w][i].lag /\ ttl = task[proc[w].t].ttl
      BY <2>1 DEF LoopInv, WTypeOK, TypeOK, TaskRow
    <2>7. MaxLag \in Nat /\ LeaseTicks \in Nat /\ StaleAfter \in Nat /\ 3 * MaxLag <= StaleAfter
      BY WorkerLoopAssumption, TimingAssumption DEF Prompt
    <2>8. worker[w].age \in Nat
      BY DEF LoopInv, WTypeOK, TypeOK
    <2>9. CASE Wake(w, i)
      <3>1. hb'[w][i] = [NoThread EXCEPT !.at = "row"] /\ Alone(w, i)' /\ UNCHANGED <<vars, hbStop>>
        BY <2>3, <2>5, <2>9 DEF Wake
      <3>2. hb[w][i].at = "top" /\ hb'[w][i].at = "row" /\ hb'[w][i].lag = 0
        BY <2>9, <3>1 DEF Wake, Thread, NoThread
      <3>3. lag <= MaxLag /\ Fresh(w, lag + MaxLag) /\ ttl >= LeaseTicks - lag - 0
        BY <2>4, <2>6, <3>2 DEF OnBeat, Spent, Aged
      <3>4. Fresh(w, 0 + 2 * MaxLag)'
        BY <2>6, <2>7, <2>8, <3>1, <3>3 DEF Fresh, vars
      <3>5. task'[proc'[w].t].ttl >= LeaseTicks - 0 - MaxLag
        BY <1>1, <2>6, <2>7, <3>1, <3>3 DEF vars
      <3>6. OnBeat(w, hb[w][i])'
        BY <2>7, <3>2, <3>4, <3>5 DEF OnBeat, Spent, Aged
      <3>7. QED BY <1>1, <1>5, <2>3, <3>1, <3>6 DEF WorkerOnTime
    <2>10. CASE BeatRow(w, i)
      <3>1. proc[w].t # None
        BY <2>1, WorkerLoopAssumption
      <3>2. /\ hb'[w][i] = [at |-> "beat", id |-> proc[w].t, lag |-> 0] /\ Alone(w, i)'
            /\ RowBeat(w) /\ hbStop' = hbStop /\ hb[w][i].at = "row"
        BY <2>5, <2>10, <3>1 DEF BeatRow, Thread
      <3>3. Fresh(w, 0)' /\ task' = task
        BY <3>2, BeatFreshens DEF LoopInv, WTypeOK, RowBeat, WorkerHeartbeat, vars
      <3>4. lag <= MaxLag /\ ttl >= LeaseTicks - lag - MaxLag
        BY <2>4, <2>6, <3>2 DEF OnBeat, Spent
      <3>5. task'[proc'[w].t].ttl >= LeaseTicks - 0 - 2 * MaxLag
        BY <1>1, <2>6, <2>7, <3>3, <3>4
      <3>6. Fresh(w, 0 + 0)'
        BY <3>3
      <3>7. OnBeat(w, hb[w][i])'
        BY <1>1, <2>7, <3>2, <3>5, <3>6 DEF OnBeat, Spent, Aged
      <3>8. QED BY <1>1, <1>5, <2>3, <3>2, <3>7 DEF WorkerOnTime
    <2>11. CASE BeatTask(w, i)
      <3>1. hb[w][i].at = "beat" /\ hb[w][i].id = proc[w].t
        BY <2>4, <2>11 DEF BeatTask, Thread, OnBeat
      <3>2. HeartbeatOk(w, hb[w][i].id)
        BY <2>2, <3>1 DEF Owned
      <3>3. /\ Heartbeat(w, proc[w].t) /\ hbStop' = hbStop
            /\ hb'[w][i] = [NoThread EXCEPT !.at = "top"] /\ Alone(w, i)'
        BY <2>5, <2>11, <3>1, <3>2 DEF BeatTask
      <3>4. task'[proc[w].t].ttl = LeaseTicks /\ worker' = worker
        BY <2>1, <3>3 DEF Heartbeat, SetRow, LoopInv, WTypeOK, TypeOK
      <3>5. hb'[w][i].at = "top" /\ hb'[w][i].lag = 0
        BY <3>3 DEF NoThread
      <3>6. lag <= MaxLag /\ Fresh(w, lag + 0)
        BY <2>4, <2>6, <3>1 DEF OnBeat, Aged
      <3>7. Fresh(w, 0 + MaxLag)'
        BY <2>6, <2>7, <2>8, <3>4, <3>6 DEF Fresh
      <3>8. OnBeat(w, hb[w][i])'
        BY <1>1, <2>7, <3>4, <3>5, <3>7 DEF OnBeat, Spent, Aged
      <3>9. QED BY <1>1, <1>5, <2>3, <3>3, <3>8 DEF WorkerOnTime
    <2>12. QED BY <2>9, <2>10, <2>11
  <1>6. QED BY <1>2, <1>3, <1>4, <1>5

(* A tick passes only when nobody is late.                                 *)
LEMMA PassOnTime ==
    ASSUME Prompt, LoopInv, NEW w \in Worker, WorkerOnTime(w), Pass
    PROVE  WorkerOnTime(w)'
  <1>1. /\ proc[w].at \notin {"lease", "launch", "report", "closing"}
        /\ \A i \in Slot : Thread(w, i, "none") \/ hb[w][i].lag < MaxLag
    BY DEF Pass, Prompt, OnTime
  <1>2. /\ proc' = proc /\ hbStop' = hbStop
        /\ \A i \in Slot : hb'[w][i] = IF ~Thread(w, i, "none")
                                       THEN [hb[w][i] EXCEPT !.lag = @ + 1] ELSE hb[w][i]
    BY DEF Pass, Prompt
  <1>3. \A i \in Slot : hb[w][i] = NoThread => hb'[w][i] = NoThread
    <2>1. NoThread.at = "none"
      BY DEF NoThread
    <2>2. QED BY <1>2, <2>1 DEF Thread
  <1>4. CASE proc[w].at # "bench"
    BY <1>1, <1>2, <1>3, <1>4 DEF WorkerOnTime
  <1>5. CASE proc[w].at = "bench" /\ ~Owned(w)'
    BY <1>2, <1>5 DEF WorkerOnTime
  <1>6. CASE proc[w].at = "bench" /\ Owned(w)'
    <2>1. proc[w].t \in Agent
      BY <1>6 DEF LoopInv, TaskInHand, InHand
    <2>2. task'[proc[w].t] = [state |-> task[proc[w].t].state, owner |-> task[proc[w].t].owner,
                              ttl |-> NextTtl(task[proc[w].t]), retry |-> task[proc[w].t].retry,
                              due |-> NextDue(task[proc[w].t])]
      BY <2>1 DEF Pass, Tick
    <2>3. Owned(w)
      BY <1>2, <1>6, <2>2 DEF Owned, HeartbeatOk
    <2>4. PICK i \in Slot : OnBeat(w, hb[w][i]) /\ Alone(w, i)
      BY <1>6, <2>3 DEF WorkerOnTime
    <2>5. PICK lag \in Nat, ttl \in Int : lag = hb[w][i].lag /\ ttl = task[proc[w].t].ttl
      BY <2>1 DEF LoopInv, WTypeOK, TypeOK, TaskRow
    <2>6. MaxLag \in Nat /\ LeaseTicks \in Nat /\ worker[w].age \in Nat
      BY WorkerLoopAssumption, TimingAssumption DEF LoopInv, WTypeOK, TypeOK
    <2>7. PICK s \in {"top", "row", "beat"} : s = hb[w][i].at
      BY <2>4 DEF OnBeat
    <2>8. hb'[w][i] = [hb[w][i] EXCEPT !.lag = @ + 1] /\ lag < MaxLag
      BY <1>1, <1>2, <2>5, <2>7 DEF Thread
    <2>9. hb'[w][i].at = s /\ hb'[w][i].lag = lag + 1 /\ hb'[w][i].id = hb[w][i].id
      BY <2>5, <2>7, <2>8 DEF LoopInv, WTypeOK
    <2>10. Spent(s) \in Nat /\ Aged(s) \in Nat
      BY <2>6 DEF Spent, Aged
    <2>11. ttl >= LeaseTicks - lag - Spent(s) /\ Fresh(w, lag + Aged(s))
      BY <2>4, <2>5, <2>7 DEF OnBeat
    <2>12. task'[proc'[w].t].ttl >= LeaseTicks - (lag + 1) - Spent(s)
      <3>1. task'[proc[w].t].ttl = ttl \/ task'[proc[w].t].ttl = ttl - 1
        BY <2>2, <2>5 DEF NextTtl
      <3>2. QED BY <1>2, <2>5, <2>6, <2>10, <2>11, <3>1
    <2>13. Fresh(w, (lag + 1) + Aged(s))'
      <3>1. worker'[w].state = worker[w].state /\ worker'[w].age \in {worker[w].age, worker[w].age + 1}
        BY DEF Pass, Tick, LoopInv, WTypeOK, TypeOK
      <3>2. QED BY <2>5, <2>6, <2>10, <2>11, <3>1 DEF Fresh
    <2>14. OnBeat(w, hb[w][i])'
      <3>1. s = "beat" => hb[w][i].id = proc[w].t
        BY <2>4, <2>7 DEF OnBeat
      <3>2. QED BY <1>2, <2>5, <2>6, <2>7, <2>8, <2>9, <2>12, <2>13, <3>1 DEF OnBeat, Spent, Aged
    <2>15. Alone(w, i)'
      BY <1>3, <2>4 DEF Alone
    <2>16. ~hbStop'[w]
      BY <1>2, <1>6, <2>3 DEF WorkerOnTime
    <2>17. QED BY <1>2, <1>6, <2>14, <2>15, <2>16 DEF WorkerOnTime
  <1>7. QED BY <1>4, <1>5, <1>6

(* Every step leaves every worker on time.                                 *)
LEMMA BeatStep == Prompt /\ LoopInv /\ BeatInv /\ [WNext]_wvars => BeatInv'
  <1> SUFFICES ASSUME Prompt, LoopInv, BeatInv, [WNext]_wvars, NEW w \in Worker
               PROVE  WorkerOnTime(w)'
    BY DEF BeatInv
  <1>1. WorkerOnTime(w)
    BY DEF BeatInv
  <1>2. CASE UNCHANGED wvars
    BY <1>1, <1>2 DEF wvars, vars, loopVars, WorkerOnTime, Owned, HeartbeatOk, Fresh, OnBeat, Alone
  <1>3. CASE Pass
    BY <1>1, <1>3, PassOnTime
  <1>4. CASE TakeTask(w)
    BY <1>1, <1>4, TakeOnTime
  <1>5. CASE Exit(w)
    <2>1. proc'[w].at = "over" /\ \A i \in Slot : hb'[w][i] = NoThread
      BY <1>5 DEF Exit, Goto, NoThreads, LoopInv, WTypeOK
    <2>2. QED BY <2>1, IdleOnTime
  <1>6. CASE WNext /\ ~Pass /\ ~TakeTask(w) /\ ~Exit(w)
    <2>1. RowKept(w) /\ HandKept(w)
      BY <1>6, RowsKept, HandsKept
    <2>2. CASE MainStep(w)
      BY <1>1, <2>1, <2>2, MainOnTime
    <2>3. CASE ThreadStep(w)
      BY <1>1, <2>1, <2>3, ThreadOnTime DEF ThreadStep
    <2>4. CASE Leave(w) \/ Crash(w)
      <3>1. CASE Leave(w)
        <4>1. proc[w].at = "poll" /\ proc'[w].at = "leaving" /\ hb' = hb
          BY <3>1 DEF Leave, At, Goto, LoopInv, WTypeOK
        <4>2. QED BY <1>1, <4>1, IdleOnTime DEF WorkerOnTime
      <3>2. CASE Crash(w)
        <4>1. proc'[w].at = "killed" /\ \A i \in Slot : hb'[w][i] = NoThread
          BY <3>2 DEF Crash, Goto, NoThreads, LoopInv, WTypeOK
        <4>2. QED BY <4>1, IdleOnTime
      <3>3. QED BY <2>4, <3>1, <3>2
    <2>5. ASSUME NEW v \in Worker, v # w, MainStep(v) \/ ThreadStep(v) \/ Leave(v) \/ Crash(v)
          PROVE  proc'[w] = proc[w] /\ hb'[w] = hb[w] /\ hbStop'[w] = hbStop[w]
      BY <2>5 DEF MainStep, ThreadStep, Start, Poll, TakeTask, FindNothing, Launch, BenchEnds, Report,
                  Close, Exit, Wake, BeatRow, BeatTask, Leave, Crash, Goto, NoThreads, SetThread,
                  LoopInv, WTypeOK
    <2>6. CASE Serve \/ Operate
      BY <1>1, <2>1, <2>6, OthersKeep DEF Serve, Operate, loopVars
    <2>7. QED BY <1>1, <1>6, <2>1, <2>2, <2>3, <2>4, <2>5, <2>6, OthersKeep DEF WNext
  <1>7. QED BY <1>2, <1>3, <1>4, <1>5, <1>6

(* On time means: a lease that has not run out, a row that is not stale.   *)
LEMMA OnTimeIsSafe ==
    ASSUME Prompt, LoopInv, LeaseInv, BeatInv, NEW a \in HeldTasks, At(task[a].owner, "bench")
    PROVE  task[a].owner \in Worker /\ task[a].ttl >= 0 /\ Fresh(task[a].owner, StaleAfter)
  <1>1. PICK w \in Worker : w = task[a].owner
    BY DEF LeaseInv
  <1>2. proc[w].at = "bench" /\ proc[w].t = a
    BY <1>1 DEF LeaseInv, At, Working
  <1>3. Owned(w)
    BY <1>1, <1>2 DEF Owned, HeartbeatOk, HeldTasks
  <1>4. PICK i \in Slot : OnBeat(w, hb[w][i])
    BY <1>2, <1>3 DEF BeatInv, WorkerOnTime
  <1>5. PICK lag \in Nat, ttl \in Int, age \in Nat :
            lag = hb[w][i].lag /\ ttl = task[a].ttl /\ age = worker[w].age
    BY DEF HeldTasks, LoopInv, WTypeOK, TypeOK, TaskRow
  <1>6. PICK s \in {"top", "row", "beat"} : s = hb[w][i].at
    BY <1>4 DEF OnBeat
  <1>7. MaxLag \in Nat /\ LeaseTicks \in Nat /\ StaleAfter \in Nat
    BY WorkerLoopAssumption, TimingAssumption
  <1>8. Spent(s) \in Nat /\ Aged(s) \in Nat /\ Spent(s) <= 2 * MaxLag /\ Aged(s) <= 2 * MaxLag
    BY <1>7 DEF Spent, Aged
  <1>9. lag <= MaxLag /\ ttl >= LeaseTicks - lag - Spent(s) /\ Fresh(w, lag + Aged(s))
    BY <1>2, <1>4, <1>5, <1>6 DEF OnBeat
  <1>10. 3 * MaxLag <= LeaseTicks /\ 3 * MaxLag <= StaleAfter
    BY DEF Prompt
  <1>11. ttl >= 0
    BY <1>5, <1>7, <1>8, <1>9, <1>10
  <1>12. lag + Aged(s) <= StaleAfter
    BY <1>5, <1>7, <1>8, <1>9, <1>10
  <1>13. Fresh(w, StaleAfter)
    BY <1>5, <1>7, <1>8, <1>9, <1>12 DEF Fresh
  <1>14. QED BY <1>1, <1>5, <1>11, <1>13

(* Where threads are timely, the main thread joins the one it stops and a  *)
(* round of heartbeats fits into a lease and into the stale window, no     *)
(* reaper takes a task from a worker whose bench runs, whatever crashes,   *)
(* operators and a sleeping host do meanwhile (worker_loop,                *)
(* reap_stale_leases, list_workers).                                       *)
THEOREM TimelyKeepsTask == Prompt => (WSpec => TimelyNeverReaped)
  <1> SUFFICES ASSUME Prompt PROVE WSpec => TimelyNeverReaped
    OBVIOUS
  <1>1. WInit => LeaseInv /\ BeatInv
    BY DEF WInit, Init, LeaseInv, HeldTasks, Held, BeatInv, WorkerOnTime
  <1>2. LoopInv /\ LeaseInv /\ BeatInv =>
          ((\E g \in Graces : Reap(g)) \/ (\E fresh \in SUBSET Worker : ListWorkers(fresh)) =>
              \A a \in HeldTasks : At(task[a].owner, "bench") => task'[a] = task[a])
    <2> SUFFICES ASSUME LoopInv, LeaseInv, BeatInv,
                        NEW a \in HeldTasks, At(task[a].owner, "bench"),
                        (\E g \in Graces : Reap(g)) \/ (\E shown \in SUBSET Worker : ListWorkers(shown))
                 PROVE  task'[a] = task[a]
      OBVIOUS
    <2>1. task[a].owner \in Worker /\ task[a].ttl >= 0 /\ Fresh(task[a].owner, StaleAfter)
      BY OnTimeIsSafe
    <2>2. a \in Agent /\ task[a].ttl \in Int
      BY DEF HeldTasks, LoopInv, WTypeOK, TypeOK, TaskRow
    <2>3. ASSUME NEW g \in Graces, Reap(g) PROVE task'[a] = task[a]
      <3>1. a \notin Expired(g)
        BY <2>1, <2>2, TimingAssumption DEF Expired
      <3>2. QED BY <2>2, <2>3, <3>1 DEF Reap, Release
    <2>4. ASSUME NEW shown \in SUBSET Worker, ListWorkers(shown) PROVE task'[a] = task[a]
      <3>1. task[a].owner \notin Stale /\ worker[task[a].owner].state \notin {"dead", "stopped"}
        BY <2>1, TimingAssumption DEF Fresh, Stale, LoopInv, WTypeOK, TypeOK
      <3>2. QED BY <2>2, <2>4, <3>1 DEF ListWorkers, Release
    <2>5. QED BY <2>3, <2>4
  <1>3. LoopInv /\ LeaseInv /\ BeatInv /\ [WNext]_wvars => LeaseInv' /\ BeatInv'
    BY LeaseStep, BeatStep
  <1>4. QED BY <1>1, <1>2, <1>3, LoopCorrect, PTL DEF WSpec, TimelyNeverReaped
==============================================================================
