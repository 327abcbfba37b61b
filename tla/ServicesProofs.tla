---------------------------- MODULE ServicesProofs ----------------------------
(***************************************************************************)
(* Proofs about Services, for every set of runs, workers and targets and   *)
(* any number of events: the live page of a run, the rows of runs in the   *)
(* trace database, the processes of the worker pool, the schema that the   *)
(* processes of the API bootstrap, the webhook server's routing table and  *)
(* its health checks.                                                      *)
(***************************************************************************)
EXTENDS Services, DataInduction

(***************************************************************************)
(* The live page.  Where a poll stands says what its batch leaves to show; *)
(* a status that says the run is over was read after the row was closed,   *)
(* and a process that closes its own row commits nothing afterwards.       *)
(***************************************************************************)
PollTyped ==
    /\ committed \in Nat /\ shown \in 0 .. committed
    /\ runStatus \in RunIsOver \cup {"unknown", "running"}
    /\ closer \in {"nobody", "itself", "other", "both"}
    /\ poll \in [at : {"sleep", "events", "status"}, batch : 0 .. PollLimit,
                 status : RunIsOver \cup {"unknown", "running"}]
    /\ page \in {"loading", "live", "complete", "disconnected"}
    /\ between \in BOOLEAN

NothingLeft == poll.batch = PollLimit \/ between \/ shown + poll.batch = committed

PollInv ==
    /\ PollTyped
    /\ runStatus \in RunIsOver => closer # "nobody"
    /\ poll.at # "sleep" => page = "live" /\ shown + poll.batch <= committed
    /\ poll.at = "events" => NothingLeft
    /\ poll.at = "status" /\ poll.status \in RunIsOver =>
          closer # "nobody" /\ (closer = "itself" => NothingLeft)
    /\ page = "complete" => closer # "nobody"
    /\ EndShowsAll

LEMMA PollStep == PollInv /\ [LiveNext]_liveVars => PollInv'
  <1> SUFFICES ASSUME PollInv, [LiveNext]_liveVars PROVE PollInv'
    OBVIOUS
  <1> USE LiveAssumption DEF PollInv, PollTyped, NothingLeft, EndShowsAll, RunIsOver
  <1>1. CASE UNCHANGED liveVars
    BY <1>1 DEF liveVars
  <1>2. CASE InsertRow
    BY <1>2 DEF InsertRow
  <1>3. CASE CommitEvent
    <2>1. /\ committed' = committed + 1
          /\ between' = (between \/ poll.at = "events")
          /\ closer \in {"nobody", "other"}
          /\ UNCHANGED <<runStatus, closer, poll, shown, page>>
      BY <1>3 DEF CommitEvent
    <2>2. shown \in Nat /\ poll.batch \in Nat /\ between' \in BOOLEAN
      BY <2>1
    <2>3. PollTyped' /\ EndShowsAll'
      BY <2>1, <2>2
    <2>4. poll'.at # "sleep" => page' = "live" /\ shown' + poll'.batch <= committed'
      BY <2>1, <2>2
    <2>5. /\ poll'.at = "events" => NothingLeft'
          /\ poll'.at = "status" /\ poll'.status \in RunIsOver => closer' # "nobody"
          /\ closer' # "itself"
      BY <2>1
    <2>6. QED BY <2>1, <2>3, <2>4, <2>5
  <1>4. ASSUME NEW who \in {"itself", "other"}, CloseRow(who) PROVE PollInv'
    BY <1>4 DEF CloseRow
  <1>5. CASE OpenPage
    <2>1. /\ page' = "live" /\ shown' \in 0 .. committed /\ page = "loading"
          /\ UNCHANGED <<committed, runStatus, closer, poll, between>>
      BY <1>5 DEF OpenPage
    <2>2. QED BY <2>1
  <1>6. CASE ReadEvents
    <2>1. PICK batch \in 0 .. PollLimit :
            /\ batch = PollLimit \/ batch = committed - shown
            /\ batch <= committed - shown
            /\ poll' = [poll EXCEPT !.at = "events", !.batch = batch]
      BY <1>6 DEF ReadEvents
    <2>2. /\ poll'.at = "events" /\ poll'.batch = batch
          /\ poll' \in [at : {"sleep", "events", "status"}, batch : 0 .. PollLimit,
                        status : RunIsOver \cup {"unknown", "running"}]
      BY <2>1
    <2>3. /\ page = "live" /\ between' = FALSE
          /\ UNCHANGED <<committed, runStatus, closer, shown, page>>
      BY <1>6 DEF ReadEvents
    <2>4. shown + batch <= committed /\ (batch = PollLimit \/ shown + batch = committed)
      BY <2>1
    <2>5. QED BY <2>2, <2>3, <2>4
  <1>7. CASE ReadStatus
    <2>1. /\ page = "live" /\ poll.at = "events"
          /\ UNCHANGED <<committed, runStatus, closer, shown, page, between>>
      BY <1>7 DEF ReadStatus
    <2>2. /\ poll'.at = "status" /\ poll'.batch = poll.batch /\ poll'.status = runStatus
          /\ poll' \in [at : {"sleep", "events", "status"}, batch : 0 .. PollLimit,
                        status : RunIsOver \cup {"unknown", "running"}]
      BY <1>7 DEF ReadStatus
    <2>3. QED BY <2>1, <2>2
  <1>8. CASE Send
    BY <1>8 DEF Send, Asleep
  <1>9. CASE Disconnect
    BY <1>9 DEF Disconnect, Asleep
  <1>10. QED
    BY <1>1, <1>2, <1>3, <1>4, <1>5, <1>6, <1>7, <1>8, <1>9 DEF LiveNext, Poll

LEMMA PollStart == LiveInit => PollInv
  <1> SUFFICES ASSUME LiveInit PROVE PollInv
    OBVIOUS
  <1>1. /\ poll = Asleep /\ Asleep.at = "sleep" /\ page = "loading" /\ runStatus = "unknown"
        /\ committed = 0 /\ shown = 0 /\ closer = "nobody" /\ between = FALSE
    BY DEF LiveInit, Asleep
  <1>2. poll \in [at : {"sleep", "events", "status"}, batch : 0 .. PollLimit,
                 status : RunIsOver \cup {"unknown", "running"}]
    <2>1. 0 \in 0 .. PollLimit
      BY LiveAssumption
    <2>2. QED BY <1>1, <2>1 DEF Asleep
  <1>3. PollTyped
    <2>1. 0 \in 0 .. 0
      OBVIOUS
    <2>2. QED BY <1>1, <1>2, <2>1 DEF PollTyped
  <1>4. QED BY <1>1, <1>3 DEF PollInv, EndShowsAll, RunIsOver

(* The page that says a run is over has shown all its events (ws_live).    *)
THEOREM PageShowsAll == Spec => []EndShowsAll
  <1>1. Init => PollInv
    BY PollStart DEF Init
  <1>2. [Next]_vars => [LiveNext]_liveVars
    BY DEF Next, vars, OnlySchema, OnlyPool, OnlyRun, OnlyLive, OnlyHook, OnlyHealth
  <1>3. PollInv => EndShowsAll
    BY DEF PollInv
  <1>4. QED BY <1>1, <1>2, <1>3, PollStep, PTL DEF Spec

(***************************************************************************)
(* The rows of the runs.  The sweeper closes what it found running and     *)
(* holds the write lock until it commits, so what it found stays as it is; *)
(* a process writes the end of its row once.                               *)
(***************************************************************************)
RowsTyped ==
    /\ row \in [Run -> {"none", "running", "completed", "failed"}]
    /\ process \in [Run -> {"off", "working", "publishing", "gone"}]
    /\ outcome \in [Run -> {"none", "ok", "error", "killed"}]
    /\ finish \in [Run -> {"none", "written", "lost"}]
    /\ markers \in [Run -> Nat]
    /\ sweep \in [on : BOOLEAN, todo : SUBSET Run, fresh : SUBSET Run, chosen : SUBSET Run,
                  lock : BOOLEAN, closed : SUBSET Run, marked : SUBSET Run]
    /\ recent \subseteq Run /\ evented \subseteq Run /\ waiting \subseteq Run /\ old \subseteq Run

RunAccount(r) ==
    /\ process[r] \in {"off", "working"} => outcome[r] = "none" /\ finish[r] = "none"
    /\ outcome[r] = "ok" => finish[r] # "none"
    /\ finish[r] = "written" => row[r] # "running" /\ (outcome[r] = "ok" => row[r] = "completed")

SweepAccount ==
    /\ sweep.lock \/ sweep.todo # {} \/ sweep.chosen # {} => sweep.on
    /\ sweep.closed # {} => sweep.lock
    /\ \A r \in sweep.closed : row[r] = "running"
    /\ sweep.closed \cap evented \subseteq sweep.marked

RowsInv == RowsTyped /\ SweepAccount /\ \A r \in Run : RunAccount(r)

Honest == OwnCloseStands /\ OthersLeaveAMarker

LEMMA NoSweepType ==
    /\ NoSweep \in [on : BOOLEAN, todo : SUBSET Run, fresh : SUBSET Run, chosen : SUBSET Run,
                    lock : BOOLEAN, closed : SUBSET Run, marked : SUBSET Run]
    /\ NoSweep.lock = FALSE /\ NoSweep.closed = {} /\ NoSweep.marked = {}
    /\ NoSweep.todo = {} /\ NoSweep.chosen = {}
  BY DEF NoSweep

LEMMA RunStart == RunInit => RowsInv
  <1> SUFFICES ASSUME RunInit PROVE RowsInv
    OBVIOUS
  <1>1. waiting \subseteq Run
    BY RunAssumption DEF RunInit
  <1>2. RowsTyped
    BY <1>1, NoSweepType DEF RunInit, RowsTyped
  <1>3. SweepAccount /\ \A r \in Run : RunAccount(r)
    BY NoSweepType DEF RunInit, SweepAccount, RunAccount
  <1>4. QED BY <1>2, <1>3 DEF RowsInv

(* Steps that leave row, process, outcome, finish and markers alone.       *)
LEMMA Bystander ==
    ASSUME RowsInv, UNCHANGED <<row, process, outcome, finish, markers>>
    PROVE  Honest /\ \A r \in Run : RunAccount(r)'
  <1>1. \A r \in Run : RunAccount(r)'
    BY DEF RowsInv, RunAccount
  <1>2. Honest
    BY DEF Honest, OwnCloseStands, OthersLeaveAMarker
  <1>3. QED BY <1>1, <1>2

(* The process of r ends its row with the given status, or the sweeper's   *)
(* lock keeps it from doing so.                                            *)
LEMMA OwnClose ==
    ASSUME RowsInv, NEW r \in Run, NEW status \in {"completed", "failed"},
           NEW how \in {"ok", "error"}, NEW at \in {"publishing", "gone"},
           how = "ok" => status = "completed",
           process[r] = "working", FinishRun(r, status),
           outcome' = [outcome EXCEPT ![r] = how],
           process' = [process EXCEPT ![r] = at],
           UNCHANGED <<waiting, old, recent, evented, markers, sweep>>
    PROVE  RowsInv' /\ Honest
  <1> USE DEF RowsInv
  <1>0. finish[r] = "none"
    BY DEF RunAccount
  <1>1. CASE sweep.lock
    <2>1. UNCHANGED row /\ finish' = [finish EXCEPT ![r] = "lost"]
      BY <1>1 DEF FinishRun
    <2>2. RowsTyped'
      BY <2>1 DEF RowsTyped
    <2>3. SweepAccount'
      BY <2>1 DEF SweepAccount
    <2>4. \A q \in Run : RunAccount(q)'
      BY <2>1 DEF RunAccount, RowsTyped
    <2>5. Honest
      BY <2>1 DEF Honest, OwnCloseStands, OthersLeaveAMarker
    <2>6. QED BY <2>2, <2>3, <2>4, <2>5
  <1>2. CASE ~sweep.lock
    <2>1. row' = [row EXCEPT ![r] = status] /\ finish' = [finish EXCEPT ![r] = "written"]
      BY <1>2 DEF FinishRun
    <2>2. RowsTyped'
      BY <2>1 DEF RowsTyped
    <2>3. SweepAccount'
      BY <1>2 DEF SweepAccount
    <2>4. \A q \in Run : RunAccount(q)'
      BY <2>1 DEF RunAccount, RowsTyped
    <2>5. Honest
      BY <1>0, <2>1 DEF Honest, OwnCloseStands, OthersLeaveAMarker, RowsTyped
    <2>6. QED BY <2>2, <2>3, <2>4, <2>5
  <1>3. QED BY <1>1, <1>2

LEMMA RunStep ==
    ASSUME RowsInv, NEW r \in Run,
           \/ InsertRun(r) \/ WriteEvent(r) \/ FallSilent(r) \/ Age(r)
           \/ Complete(r) \/ FailRun(r) \/ Exit(r) \/ Kill(r) \/ BenchClose(r)
    PROVE  RowsInv' /\ Honest
  <1> USE DEF RowsInv
  <1>1. CASE InsertRun(r)
    <2>1. RowsTyped' /\ SweepAccount' /\ \A q \in Run : RunAccount(q)'
      BY <1>1 DEF InsertRun, RowsTyped, SweepAccount, RunAccount
    <2>2. Honest
      BY <1>1 DEF InsertRun, RowsTyped, RunAccount, Honest, OwnCloseStands, OthersLeaveAMarker
    <2>3. QED BY <2>1, <2>2
  <1>2. CASE WriteEvent(r)
    <2>1. /\ UNCHANGED <<row, process, outcome, finish, waiting, old, markers>>
          /\ recent' = recent \cup {r} /\ evented' = evented \cup {r} /\ ~sweep.lock
      BY <1>2 DEF WriteEvent
    <2>2. /\ sweep'.closed = sweep.closed /\ sweep'.lock = sweep.lock /\ sweep'.on = sweep.on
          /\ sweep'.todo = sweep.todo /\ sweep'.chosen = sweep.chosen /\ sweep'.marked = sweep.marked
          /\ sweep' \in [on : BOOLEAN, todo : SUBSET Run, fresh : SUBSET Run, chosen : SUBSET Run,
                         lock : BOOLEAN, closed : SUBSET Run, marked : SUBSET Run]
      BY <1>2 DEF WriteEvent, RowsTyped
    <2>3. RowsTyped' /\ SweepAccount'
      BY <2>1, <2>2 DEF RowsTyped, SweepAccount
    <2>4. QED BY <2>1, <2>3, Bystander
  <1>3. CASE FallSilent(r)
    <2>1. RowsTyped' /\ SweepAccount'
      BY <1>3 DEF FallSilent, RowsTyped, SweepAccount
    <2>2. QED BY <1>3, <2>1, Bystander DEF FallSilent
  <1>4. CASE Age(r)
    <2>1. RowsTyped' /\ SweepAccount'
      BY <1>4 DEF Age, RowsTyped, SweepAccount
    <2>2. QED BY <1>4, <2>1, Bystander DEF Age
  <1>5. CASE Complete(r)
    BY <1>5, OwnClose DEF Complete
  <1>6. CASE FailRun(r)
    BY <1>6, OwnClose DEF FailRun
  <1>7. CASE Exit(r)
    <2>1. RowsTyped' /\ SweepAccount' /\ \A q \in Run : RunAccount(q)'
      BY <1>7 DEF Exit, RowsTyped, SweepAccount, RunAccount
    <2>2. Honest
      BY <1>7 DEF Exit, Honest, OwnCloseStands, OthersLeaveAMarker
    <2>3. QED BY <2>1, <2>2
  <1>8. CASE Kill(r)
    <2>1. RowsTyped' /\ SweepAccount' /\ \A q \in Run : RunAccount(q)'
      BY <1>8 DEF Kill, RowsTyped, SweepAccount, RunAccount
    <2>2. Honest
      BY <1>8 DEF Kill, Honest, OwnCloseStands, OthersLeaveAMarker
    <2>3. QED BY <2>1, <2>2
  <1>9. CASE BenchClose(r)
    <2>1. PICK nonzero \in {TRUE, outcome[r] # "ok"} :
             LET closes == nonzero /\ row[r] = "running" /\ ~sweep.lock IN
             /\ row' = [row EXCEPT ![r] = IF closes THEN "failed" ELSE @]
             /\ markers' = [markers EXCEPT ![r] = IF closes /\ r \in evented THEN @ + 1 ELSE @]
      BY <1>9 DEF BenchClose
    <2> DEFINE closes == nonzero /\ row[r] = "running" /\ ~sweep.lock
    <2>2. /\ waiting' = waiting \ {r}
          /\ UNCHANGED <<process, outcome, finish, old, recent, evented, sweep, aborts>>
      BY <1>9 DEF BenchClose
    <2>3. CASE closes
      <3>1. row' = [row EXCEPT ![r] = "failed"] /\ row[r] = "running" /\ ~sweep.lock
        BY <2>1, <2>3
      <3>2. markers' = [markers EXCEPT ![r] = IF r \in evented THEN @ + 1 ELSE @]
        BY <2>1, <2>3
      <3> HIDE DEF closes
      <3>3. RowsTyped' /\ SweepAccount' /\ \A q \in Run : RunAccount(q)'
        BY <2>2, <3>1, <3>2 DEF RowsTyped, SweepAccount, RunAccount
      <3>4. Honest
        BY <2>2, <3>1, <3>2 DEF RowsTyped, RunAccount, Honest, OwnCloseStands, OthersLeaveAMarker
      <3>5. QED BY <3>3, <3>4
    <2>4. CASE ~closes
      <3>1. UNCHANGED <<row, markers>>
        BY <2>1, <2>4 DEF RowsTyped
      <3>2. RowsTyped' /\ SweepAccount'
        BY <2>2, <3>1 DEF RowsTyped, SweepAccount
      <3>3. QED BY <2>2, <3>1, <3>2, Bystander
    <2>5. QED BY <2>3, <2>4
  <1>10. QED BY <1>1, <1>2, <1>3, <1>4, <1>5, <1>6, <1>7, <1>8, <1>9

LEMMA SweeperStep == RowsInv /\ (Sweep \/ SweepAbort) => RowsInv' /\ Honest
  <1> SUFFICES ASSUME RowsInv, Sweep \/ SweepAbort PROVE RowsInv' /\ Honest
    OBVIOUS
  <1> USE DEF RowsInv
  <1>1. CASE SweepBegin
    <2>1. RowsTyped' /\ SweepAccount'
      <3> DEFINE candidates == {r \in old : row[r] = "running"}
      <3>1. sweep' = [NoSweep EXCEPT !.on = TRUE, !.todo = candidates, !.fresh = recent]
        BY <1>1 DEF SweepBegin
      <3>2. candidates \subseteq Run /\ recent \subseteq Run
        BY DEF RowsTyped
      <3> HIDE DEF candidates
      <3>3. /\ sweep' \in [on : BOOLEAN, todo : SUBSET Run, fresh : SUBSET Run, chosen : SUBSET Run,
                           lock : BOOLEAN, closed : SUBSET Run, marked : SUBSET Run]
            /\ sweep'.on = TRUE /\ sweep'.lock = FALSE /\ sweep'.closed = {} /\ sweep'.marked = {}
        BY <3>1, <3>2 DEF NoSweep
      <3>4. QED BY <1>1, <3>3 DEF SweepBegin, RowsTyped, SweepAccount
    <2>2. QED BY <1>1, <2>1, Bystander DEF SweepBegin
  <1>2. ASSUME NEW r \in Run, SweepTest(r) PROVE RowsInv' /\ Honest
    <2>1. RowsTyped' /\ SweepAccount'
      BY <1>2 DEF SweepTest, RowsTyped, SweepAccount
    <2>2. QED BY <1>2, <2>1, Bystander DEF SweepTest
  <1>3. ASSUME NEW r \in Run, SweepClose(r) PROVE RowsInv' /\ Honest
    <2>1. /\ sweep'.lock = TRUE /\ sweep'.on = sweep.on
          /\ sweep'.closed = IF row[r] = "running" THEN sweep.closed \cup {r} ELSE sweep.closed
          /\ sweep'.marked = sweep.marked \cup ({r} \cap evented)
          /\ r \in sweep.chosen
          /\ UNCHANGED <<row, process, outcome, finish, waiting, old, recent, evented, markers>>
      BY <1>3 DEF SweepClose, RowsTyped
    <2>2. RowsTyped'
      <3>1. {r} \cap evented \subseteq Run
        OBVIOUS
      <3>2. sweep' \in [on : BOOLEAN, todo : SUBSET Run, fresh : SUBSET Run, chosen : SUBSET Run,
                        lock : BOOLEAN, closed : SUBSET Run, marked : SUBSET Run]
        BY <1>3, <3>1 DEF SweepClose, RowsTyped
      <3>3. QED BY <2>1, <3>2 DEF RowsTyped
    <2>3. SweepAccount'
      BY <2>1 DEF SweepAccount, RowsTyped
    <2>4. QED BY <2>1, <2>2, <2>3, Bystander
  <1>4. CASE SweepCommit
    <2>1. /\ row' = [r \in Run |-> IF r \in sweep.closed THEN "failed" ELSE row[r]]
          /\ markers' = [r \in Run |-> IF r \in sweep.marked THEN markers[r] + 1 ELSE markers[r]]
          /\ sweep' = NoSweep
          /\ UNCHANGED <<process, outcome, finish, waiting, old, recent, evented, aborts>>
      BY <1>4 DEF SweepCommit
    <2>2. RowsTyped'
      BY <2>1, NoSweepType DEF RowsTyped
    <2>3. SweepAccount'
      BY <2>1, NoSweepType DEF SweepAccount
    <2>4. \A q \in Run : RunAccount(q)'
      BY <2>1 DEF RunAccount, SweepAccount, RowsTyped
    <2>5. Honest
      BY <2>1 DEF Honest, OwnCloseStands, OthersLeaveAMarker, RunAccount, SweepAccount, RowsTyped
    <2>6. QED BY <2>2, <2>3, <2>4, <2>5
  <1>5. CASE SweepAbort
    <2>1. RowsTyped' /\ SweepAccount'
      BY <1>5, NoSweepType DEF SweepAbort, RowsTyped, SweepAccount
    <2>2. QED BY <1>5, <2>1, Bystander DEF SweepAbort
  <1>6. QED BY <1>1, <1>2, <1>3, <1>4, <1>5 DEF Sweep

LEMMA RowsStep == RowsInv /\ [RunNext]_runVars => RowsInv' /\ [Honest]_runVars
  <1>1. RowsInv /\ UNCHANGED runVars => RowsInv'
    <2> SUFFICES ASSUME RowsInv, UNCHANGED runVars PROVE RowsInv'
      OBVIOUS
    <2>1. RowsTyped' /\ SweepAccount'
      BY DEF runVars, RowsInv, RowsTyped, SweepAccount
    <2>2. QED BY <2>1, Bystander DEF runVars, RowsInv
  <1>2. RowsInv /\ RunNext => RowsInv' /\ Honest
    BY RunStep, SweeperStep DEF RunNext
  <1>3. QED BY <1>1, <1>2

(* A row shows how its run ended, for good: what a process wrote itself    *)
(* stands, a good run is shown as failed only when its own close was lost, *)
(* and whoever else closes a run with events leaves a marker (finish_run,  *)
(* _sweep_once, _close_agent_run_if_orphaned).                             *)
THEOREM RowsTellTheEnd == Spec => RowsAreHonest
  <1>1. Init => RowsInv
    BY RunStart DEF Init
  <1>2. [Next]_vars => [RunNext]_runVars
    BY DEF Next, vars, OnlySchema, OnlyPool, OnlyRun, OnlyLive, OnlyHook, OnlyHealth
  <1>3. RowsInv' => GoodRunFailedOnlyIfLost'
    BY DEF RowsInv, RunAccount, RowsTyped, GoodRunFailedOnlyIfLost
  <1>4. RowsInv /\ [RunNext]_runVars =>
           RowsInv' /\ [GoodRunFailedOnlyIfLost' /\ OwnCloseStands /\ OthersLeaveAMarker]_runVars
    BY <1>3, RowsStep DEF Honest
  <1>5. QED BY <1>1, <1>2, <1>4, PTL DEF Spec, RowsAreHonest

(***************************************************************************)
(* The pool.  As long as no tick was misled, every worker that is up has a *)
(* row that says so, and the workers alive and those a tick has still to   *)
(* spawn are no more than the largest target.  Worker itself may be        *)
(* infinite: finitely many have been spawned at any time.                  *)
(***************************************************************************)
Spawned == {w \in Worker : procs[w] # "none"}

PoolTyped ==
    /\ wanted \in 0 .. Most
    /\ procs \in [Worker -> ProcessState]
    /\ rows \in [Worker -> RowState]
    /\ tick \in [at : {"off", "count", "spawn"}, target : 0 .. Most, spawn : 0 .. Most]
    /\ misled \in BOOLEAN
    /\ IsFiniteSet(Spawned)

Rooms == Cardinality(Alive) + tick.spawn <= Most

PoolInv ==
    /\ PoolTyped
    /\ tick.at = "spawn" <=> tick.spawn # 0
    /\ \A w \in Worker : rows[w] # "none" => procs[w] \notin {"none", "booting"}
    /\ ~misled => Rooms /\ \A w \in Up : rows[w] = "running"

LEMMA AliveFinite ==
    ASSUME PoolTyped
    PROVE  IsFiniteSet(Alive) /\ Cardinality(Alive) \in Nat
  <1>1. Alive \in SUBSET Spawned
    BY DEF Alive, Spawned
  <1>2. QED BY <1>1, FS_Subset, FS_CardinalityType DEF PoolTyped

(* Steps that spawn nothing and leave the tick alone.                      *)
LEMMA NoMoreAlive ==
    ASSUME PoolInv, PoolTyped', Alive' \subseteq Alive, tick' = tick, misled => misled',
           \A w \in Worker : rows'[w] # "none" => procs'[w] \notin {"none", "booting"},
           ~misled' => \A w \in Up' : rows'[w] = "running"
    PROVE  PoolInv'
  <1>1. ~misled' => ~misled
    BY DEF PoolInv, PoolTyped
  <1>2. Cardinality(Alive') <= Cardinality(Alive) /\ Cardinality(Alive') \in Nat
    BY AliveFinite, FS_Subset, FS_CardinalityType DEF PoolInv
  <1>3. Cardinality(Alive) \in Nat /\ tick.spawn \in Nat /\ Most \in Nat
    BY AliveFinite, PoolAssumption DEF PoolInv, PoolTyped
  <1>4. ~misled' => Rooms'
    BY <1>1, <1>2, <1>3 DEF PoolInv, Rooms
  <1>5. QED BY <1>4 DEF PoolInv

(* Steps that change neither processes nor rows.                           *)
LEMMA SameWorkers ==
    ASSUME PoolInv, UNCHANGED <<procs, rows>>, wanted' \in 0 .. Most,
           tick' \in [at : {"off", "count", "spawn"}, target : 0 .. Most, spawn : 0 .. Most],
           misled' \in BOOLEAN, misled => misled',
           tick'.at = "spawn" <=> tick'.spawn # 0,
           ~misled' => Cardinality(Alive) + tick'.spawn <= Most
    PROVE  PoolInv'
  <1>1. Alive' = Alive /\ Up' = Up /\ Spawned' = Spawned
    BY DEF Alive, Up, Spawned
  <1>2. QED BY <1>1 DEF PoolInv, PoolTyped, Rooms

LEMMA PoolStep == PoolInv /\ [PoolNext]_poolVars => PoolInv'
  <1> SUFFICES ASSUME PoolInv, [PoolNext]_poolVars PROVE PoolInv'
    OBVIOUS
  <1> USE DEF PoolInv
  <1>0. Most \in Nat /\ \A n \in Targets \cup {1} : n \in 0 .. Most
    BY PoolAssumption
  <1>1. CASE UNCHANGED poolVars
    BY <1>1, SameWorkers DEF poolVars, PoolTyped, Rooms
  <1>2. ASSUME NEW n \in Targets, SetPool(n) PROVE PoolInv'
    <2>1. wanted' \in 0 .. Most
      BY <1>0, <1>2 DEF SetPool, TargetRead
    <2>2. QED BY <1>2, <2>1, SameWorkers DEF SetPool, PoolTyped, Rooms
  <1>3. CASE DropPool
    <2>1. wanted' \in 0 .. Most
      BY <1>0, <1>3 DEF DropPool
    <2>2. QED BY <1>3, <2>1, SameWorkers DEF DropPool, PoolTyped, Rooms
  <1>4. CASE Arrive
    BY <1>4, SameWorkers DEF Arrive, PoolTyped, Rooms
  <1>5. CASE CountTasks
    <2>1. /\ tick'.at = "count" /\ tick'.spawn = tick.spawn /\ tick.at = "off"
          /\ tick' \in [at : {"off", "count", "spawn"}, target : 0 .. Most, spawn : 0 .. Most]
      BY <1>5 DEF CountTasks, PoolTyped
    <2>2. QED BY <1>5, <2>1, SameWorkers DEF CountTasks, PoolTyped, Rooms
  <1>6. CASE CountWorkers
    <2>1. /\ UNCHANGED <<wanted, procs, rows>>
          /\ tick' = IF Deficit = 0 THEN Off ELSE [at |-> "spawn", target |-> 0, spawn |-> Deficit]
          /\ misled' = (misled \/ \E w \in Worker : procs[w] = "booting")
          /\ tick.at = "count" /\ tick.spawn = 0
      BY <1>6 DEF CountWorkers
    <2>2. IsFiniteSet(Counted) /\ Cardinality(Counted) \in Nat
      <3>1. Counted \in SUBSET Spawned
        BY DEF Counted, Spawned
      <3>2. QED BY <3>1, FS_Subset, FS_CardinalityType DEF PoolTyped
    <2>3. /\ Deficit \in 0 .. Most
          /\ Deficit # 0 => Cardinality(Counted) + Deficit <= Most
      BY <1>0, <2>2 DEF Deficit, PoolTyped
    <2>4. ~misled' => Alive \in SUBSET Counted
      BY <2>1 DEF Alive, Counted, Up, PoolTyped, RowState
    <2>5. ~misled' => Cardinality(Alive) <= Cardinality(Counted)
      BY <2>2, <2>4, FS_Subset
    <2>6. CASE Deficit = 0
      <3>1. /\ tick'.at = "off" /\ tick'.spawn = 0
            /\ tick' \in [at : {"off", "count", "spawn"}, target : 0 .. Most, spawn : 0 .. Most]
        BY <1>0, <2>1, <2>6 DEF Off
      <3>2. QED BY <2>1, <3>1, SameWorkers DEF PoolTyped, Rooms
    <2>7. CASE Deficit # 0
      <3>1. /\ tick'.at = "spawn" /\ tick'.spawn = Deficit
            /\ tick' \in [at : {"off", "count", "spawn"}, target : 0 .. Most, spawn : 0 .. Most]
        BY <1>0, <2>1, <2>3, <2>7
      <3>2. ~misled' => Cardinality(Alive) + tick'.spawn <= Most
        BY <1>0, AliveFinite, <2>2, <2>3, <2>5, <2>7, <3>1
      <3>3. QED BY <2>1, <2>7, <3>1, <3>2, SameWorkers DEF PoolTyped
    <2>8. QED BY <2>6, <2>7
  <1>7. ASSUME NEW w \in Worker, SpawnWorker(w) PROVE PoolInv'
    <2>1. /\ tick.at = "spawn" /\ procs[w] = "none" /\ procs' = [procs EXCEPT ![w] = "booting"]
          /\ tick' = IF tick.spawn = 1 THEN Off ELSE [tick EXCEPT !.spawn = @ - 1]
          /\ UNCHANGED <<wanted, rows, misled>>
      BY <1>7 DEF SpawnWorker
    <2>2. Alive' = Alive \cup {w} /\ w \notin Alive /\ Up' = Up /\ Spawned' = Spawned \cup {w}
      BY <2>1 DEF Alive, Up, Spawned, PoolTyped
    <2>3. /\ tick'.spawn = tick.spawn - 1 /\ (tick'.at = "spawn" <=> tick'.spawn # 0)
          /\ tick' \in [at : {"off", "count", "spawn"}, target : 0 .. Most, spawn : 0 .. Most]
      <3>1. tick.spawn \in 1 .. Most
        BY <1>0, <2>1 DEF PoolTyped
      <3>2. CASE tick.spawn = 1
        BY <1>0, <2>1, <3>1, <3>2 DEF Off
      <3>3. CASE tick.spawn # 1
        <4>1. tick' = [tick EXCEPT !.spawn = tick.spawn - 1] /\ tick.spawn - 1 \in 0 .. Most
              /\ tick.spawn - 1 # 0
          BY <1>0, <2>1, <3>1, <3>3
        <4>2. QED BY <2>1, <4>1 DEF PoolTyped
      <3>4. QED BY <3>2, <3>3
    <2>4. Cardinality(Alive') = Cardinality(Alive) + 1 /\ IsFiniteSet(Spawned')
      BY <2>2, AliveFinite, FS_AddElement DEF PoolTyped
    <2>5. ~misled' => Rooms'
      BY <1>0, <2>1, <2>3, <2>4, AliveFinite DEF Rooms, PoolTyped
    <2>6. PoolTyped'
      BY <2>1, <2>3, <2>4 DEF PoolTyped, ProcessState
    <2>7. \A v \in Worker : rows'[v] # "none" => procs'[v] \notin {"none", "booting"}
      BY <2>1 DEF PoolTyped
    <2>8. ~misled' => \A v \in Up' : rows'[v] = "running"
      BY <2>1, <2>2
    <2>9. QED BY <2>3, <2>5, <2>6, <2>7, <2>8
  <1>8. ASSUME NEW w \in Worker,
               \/ MarkDead(w) \/ Register(w) \/ Beat(w) \/ Take(w) \/ FinishTask(w)
               \/ IdleOut(w) \/ Die(w)
        PROVE  PoolInv'
    <2> USE <1>8 DEF MarkDead, Register, Beat, Take, FinishTask, IdleOut, Die
    <2>1. /\ UNCHANGED <<wanted, tick>> /\ misled' \in BOOLEAN /\ (misled => misled')
          /\ procs' \in [Worker -> ProcessState] /\ rows' \in [Worker -> RowState]
          /\ \A v \in Worker \ {w} : procs'[v] = procs[v] /\ rows'[v] = rows[v]
      BY DEF PoolTyped, ProcessState, RowState
    <2>2. Alive' \subseteq Alive /\ Spawned' = Spawned
      BY <2>1 DEF PoolTyped, Alive, Spawned, Up
    <2>3. PoolTyped'
      BY <2>1, <2>2 DEF PoolTyped
    <2>4. \A v \in Worker : rows'[v] # "none" => procs'[v] \notin {"none", "booting"}
      BY <2>1 DEF PoolTyped, Up
    <2>5. ~misled' => \A v \in Up' : rows'[v] = "running"
      BY <2>1 DEF PoolTyped, Up
    <2>6. QED BY <2>1, <2>2, <2>3, <2>4, <2>5, NoMoreAlive
  <1>9. QED
    BY <1>1, <1>2, <1>3, <1>4, <1>5, <1>6, <1>7, <1>8 DEF PoolNext, Reconcile, Work

LEMMA PoolStart == PoolInit => PoolInv
  <1> SUFFICES ASSUME PoolInit PROVE PoolInv
    OBVIOUS
  <1>1. Spawned = {} /\ Alive = {} /\ Up = {}
    BY DEF PoolInit, Spawned, Alive, Up
  <1>2. tick.at = "off" /\ tick.spawn = 0 /\ PoolTyped
    <2>1. 0 \in 0 .. Most
      BY PoolAssumption
    <2>2. tick \in [at : {"off", "count", "spawn"}, target : 0 .. Most, spawn : 0 .. Most]
      BY <2>1 DEF PoolInit, Off
    <2>3. QED BY <1>1, <2>1, <2>2, FS_EmptySet DEF PoolInit, PoolTyped, ProcessState, RowState, Off
  <1>3. Rooms
    BY <1>1, <1>2, FS_EmptySet, PoolAssumption DEF Rooms
  <1>4. QED BY <1>1, <1>2, <1>3 DEF PoolInv, PoolInit

(* A pool never runs more processes than the largest target it was given,  *)
(* unless a tick counted before a worker had registered or a live worker   *)
(* was taken for dead (_reconcile, list_workers).                          *)
THEOREM PoolWithinTarget == Spec => []WithinTarget
  <1>1. Init => PoolInv
    BY PoolStart DEF Init
  <1>2. [Next]_vars => [PoolNext]_poolVars
    BY DEF Next, vars, OnlySchema, OnlyPool, OnlyRun, OnlyLive, OnlyHook, OnlyHealth
  <1>3. PoolInv => WithinTarget
    <2> SUFFICES ASSUME PoolInv, ~misled PROVE Cardinality(Alive) <= Most
      BY DEF WithinTarget
    <2>1. Cardinality(Alive) \in Nat /\ tick.spawn \in Nat /\ Most \in Nat
      BY AliveFinite, PoolAssumption DEF PoolInv, PoolTyped
    <2>2. QED BY <2>1 DEF PoolInv, Rooms
  <1>4. QED BY <1>1, <1>2, <1>3, PoolStep, PTL DEF Spec

(***************************************************************************)
(* The schema.  A process that found a table has added the columns that    *)
(* the statements it ran name, and no statement of another takes one away. *)
(***************************************************************************)
(* What the bootstrap of a process that found a table has added by its     *)
(* next statement, or was refused; nothing that any process does takes it  *)
(* away again.                                                             *)
ColumnsKept ==
    /\ cols \subseteq Column \cup {"id"} /\ (cols = {} \/ "id" \in cols)
    /\ proc \in [Process -> [pc : 0 .. 12, old : BOOLEAN, missed : SUBSET Column]]
    /\ locks \in 0 .. MaxLocks
    /\ \A p \in Process : proc[p].pc = 12 => "kind" \in cols
    /\ \A p \in Process : proc[p].pc > 0 /\ proc[p].old =>
          /\ cols # {}
          /\ proc[p].pc > 1 => "not_before" \in cols \cup proc[p].missed
          /\ proc[p].pc > 2 => "kind" \in cols \cup proc[p].missed
          /\ proc[p].pc > 3 => "retry_count" \in cols \cup proc[p].missed
          /\ proc[p].pc > 4 => "max_retries" \in cols \cup proc[p].missed
          /\ proc[p].pc > 5 => "resources" \in cols \cup proc[p].missed

\* The program, statement by statement.
LEMMA Statements ==
    /\ DOMAIN Program = 1 .. 11 /\ Ready = 12
    /\ Program[1] = Add("not_before") /\ Program[2] = Add("kind")
    /\ Program[3] = Add("retry_count") /\ Program[4] = Add("max_retries")
    /\ Program[5] = Add("resources")
    /\ Program[6] = [op |-> "rename", col |-> "lineage"]
    /\ Program[7] = Drop("scenario_id") /\ Program[8] = Drop("lineage") /\ Program[9] = Drop("mutation_hash")
    /\ Program[10] = [op |-> "backfill", col |-> "resources"]
    /\ Program[11] = [op |-> "create", col |-> "id"]
  BY DEF Program, Ready

\* The column that the k-th statement adds, for those that add one.
Adds(k) == CASE k = 1 -> "not_before" [] k = 2 -> "kind" [] k = 3 -> "retry_count"
             [] k = 4 -> "max_retries" [] k = 5 -> "resources"

(* No statement takes away a column that the queue names, one that adds a  *)
(* column to a table leaves it there, and the script of CREATE statements  *)
(* ends with the columns of the indexes or raises.                         *)
LEMMA StatementKeeps ==
    ASSUME NEW k \in 1 .. 11, cols \subseteq Column \cup {"id"}, cols = {} \/ "id" \in cols
    PROVE  LET after == Altered(Program[k])
           IN  /\ after \subseteq Column \cup {"id"} /\ (after = {} \/ "id" \in after)
               /\ cols # {} => after # {} /\ (cols \cap Needed) \subseteq after
               /\ cols # {} /\ k \in 1 .. 5 => Adds(k) \in after
               /\ k = 11 /\ ~Raises(Program[k]) => "kind" \in after
  <1> USE DEF Add, Drop, Altered, Column, Late, Legacy, Needed, Created, Adds, Raises, Indexed
  <1>1. CASE k \in {1, 2, 3, 4, 5}
    BY <1>1, Statements
  <1>2. CASE k \in {6, 10, 11}
    BY <1>2, Statements
  <1>3. CASE k \in {7, 8, 9}
    BY <1>3, Statements
  <1>4. QED BY <1>1, <1>2, <1>3

(* What one process gains, or is refused, keeps what every other has: the  *)
(* columns the queue names stay, and p is one statement further.           *)
LEMMA OneFurther ==
    ASSUME ColumnsKept, NEW p \in Process, proc[p].pc \in 1 .. 11,
           cols' \subseteq Column \cup {"id"}, cols' = {} \/ "id" \in cols',
           cols # {} => cols' # {}, (cols \cap Needed) \subseteq cols',
           proc' \in [Process -> [pc : 0 .. 12, old : BOOLEAN, missed : SUBSET Column]],
           proc'[p].pc = proc[p].pc + 1, proc'[p].old = proc[p].old,
           proc[p].missed \subseteq proc'[p].missed,
           \A q \in Process \ {p} : proc'[q] = proc[q],
           cols # {} /\ proc[p].pc \in 1 .. 5 => Adds(proc[p].pc) \in cols' \cup proc'[p].missed,
           proc[p].pc = 11 => "kind" \in cols',
           locks' \in 0 .. MaxLocks
    PROVE  ColumnsKept'
  <1> USE DEF ColumnsKept
  <1>1. {"not_before", "kind", "retry_count", "max_retries", "resources"} \subseteq Needed
    BY DEF Needed, Late
  <1>2. ASSUME NEW q \in Process, proc'[q].pc = 12 PROVE "kind" \in cols'
    <2>1. CASE q = p
      BY <1>2, <2>1
    <2>2. CASE q # p
      BY <1>1, <1>2, <2>2
    <2>3. QED BY <2>1, <2>2
  <1>3. ASSUME NEW q \in Process, proc'[q].pc > 0, proc'[q].old
        PROVE  /\ cols' # {}
               /\ proc'[q].pc > 1 => "not_before" \in cols' \cup proc'[q].missed
               /\ proc'[q].pc > 2 => "kind" \in cols' \cup proc'[q].missed
               /\ proc'[q].pc > 3 => "retry_count" \in cols' \cup proc'[q].missed
               /\ proc'[q].pc > 4 => "max_retries" \in cols' \cup proc'[q].missed
               /\ proc'[q].pc > 5 => "resources" \in cols' \cup proc'[q].missed
    <2>1. CASE q = p
      BY <1>1, <1>3, <2>1 DEF Adds
    <2>2. CASE q # p
      BY <1>1, <1>3, <2>2
    <2>3. QED BY <2>1, <2>2
  <1>4. QED BY <1>2, <1>3

LEMMA SchemaStep == ColumnsKept /\ [SchemaNext]_schemaVars => ColumnsKept'
  <1> SUFFICES ASSUME ColumnsKept, [SchemaNext]_schemaVars PROVE ColumnsKept'
    OBVIOUS
  <1>1. CASE UNCHANGED schemaVars
    BY <1>1 DEF schemaVars, ColumnsKept
  <1>2. ASSUME NEW p \in Process, Open(p) PROVE ColumnsKept'
    <2>1. proc' \in [Process -> [pc : 0 .. 12, old : BOOLEAN, missed : SUBSET Column]]
      <3>1. (cols # {}) \in BOOLEAN
        OBVIOUS
      <3>2. QED BY <1>2, <3>1 DEF Open, ColumnsKept
    <2>2. /\ proc'[p].pc = 1 /\ (proc'[p].old => cols # {}) /\ cols' = cols /\ locks' = locks
          /\ \A q \in Process \ {p} : proc'[q] = proc[q]
      BY <1>2 DEF Open, Ended, ColumnsKept
    <2>3. QED BY <2>1, <2>2 DEF ColumnsKept
  <1>3. ASSUME NEW p \in Process, proc' = [proc EXCEPT ![p] = Ended], UNCHANGED <<cols, locks>>
        PROVE  ColumnsKept'
    <2>1. proc' \in [Process -> [pc : 0 .. 12, old : BOOLEAN, missed : SUBSET Column]]
      BY <1>3 DEF Ended, ColumnsKept
    <2>2. /\ proc'[p].pc = 0 /\ cols' = cols /\ locks' = locks
          /\ \A q \in Process \ {p} : proc'[q] = proc[q]
      BY <1>3 DEF Ended, ColumnsKept
    <2>3. QED BY <2>1, <2>2 DEF ColumnsKept
  <1>4. ASSUME NEW p \in Process, Execute(p) PROVE ColumnsKept'
    <2> DEFINE st == Program[proc[p].pc]
    <2>1. CASE Raises(st)
      BY <1>3, <1>4, <2>1 DEF Execute
    <2>2. CASE ~Raises(st)
      <3>1. /\ proc[p].pc \in 1 .. 11 /\ cols' = Altered(st) /\ locks' = locks
            /\ proc' = [proc EXCEPT ![p].pc = @ + 1]
        BY <1>4, <2>2, Statements DEF Execute
      <3>2. /\ proc' \in [Process -> [pc : 0 .. 12, old : BOOLEAN, missed : SUBSET Column]]
            /\ proc'[p].pc = proc[p].pc + 1 /\ proc'[p].old = proc[p].old
            /\ proc'[p].missed = proc[p].missed
            /\ \A q \in Process \ {p} : proc'[q] = proc[q]
        BY <3>1 DEF ColumnsKept
      <3>3. /\ cols' \subseteq Column \cup {"id"} /\ (cols' = {} \/ "id" \in cols')
            /\ cols # {} => cols' # {} /\ (cols \cap Needed) \subseteq cols'
            /\ cols # {} /\ proc[p].pc \in 1 .. 5 => Adds(proc[p].pc) \in cols'
            /\ proc[p].pc = 11 => "kind" \in cols'
        BY <2>2, <3>1, StatementKeeps DEF ColumnsKept
      <3>4. (cols \cap Needed) \subseteq cols' /\ locks' \in 0 .. MaxLocks
        BY <3>1, <3>3 DEF ColumnsKept
      <3>5. QED BY <3>1, <3>2, <3>3, <3>4, OneFurther
    <2>3. QED BY <2>1, <2>2
  <1>5. ASSUME NEW p \in Process, Refused(p) PROVE ColumnsKept'
    <2> DEFINE st == Program[proc[p].pc]
    <2>1. /\ proc[p].pc \in 1 .. 11 /\ st.op # "create" /\ cols' = cols
          /\ locks \in 0 .. MaxLocks /\ locks < MaxLocks /\ locks' = locks + 1
          /\ proc' = [proc EXCEPT ![p] =
                 [pc |-> @.pc + 1, old |-> @.old,
                  missed |-> IF st.op = "add" THEN @.missed \cup {st.col} ELSE @.missed]]
      BY <1>5, Statements DEF Refused, ColumnsKept
    <2>2. st.op = "add" => st.col \in Column
      BY <2>1, Statements DEF Add, Drop, Column, Late, Legacy
    <2>3. /\ proc' \in [Process -> [pc : 0 .. 12, old : BOOLEAN, missed : SUBSET Column]]
          /\ proc'[p].pc = proc[p].pc + 1 /\ proc'[p].old = proc[p].old
          /\ proc[p].missed \subseteq proc'[p].missed
          /\ st.op = "add" => st.col \in proc'[p].missed
          /\ \A q \in Process \ {p} : proc'[q] = proc[q]
      <3> DEFINE missed == IF st.op = "add" THEN proc[p].missed \cup {st.col} ELSE proc[p].missed
                 next == [pc |-> proc[p].pc + 1, old |-> proc[p].old, missed |-> missed]
      <3>1. missed \in SUBSET Column /\ proc[p].missed \subseteq missed
            /\ (st.op = "add" => st.col \in missed)
        BY <2>2 DEF ColumnsKept
      <3>2. proc' = [proc EXCEPT ![p] = next] /\ proc[p] \in [pc : 0 .. 12, old : BOOLEAN, missed : SUBSET Column]
        BY <2>1 DEF ColumnsKept
      <3> HIDE DEF missed, st
      <3>3. proc[p].pc + 1 \in 0 .. 12 /\ proc[p].old \in BOOLEAN
        BY <2>1, <3>2
      <3>4. /\ next \in [pc : 0 .. 12, old : BOOLEAN, missed : SUBSET Column]
            /\ next.pc = proc[p].pc + 1 /\ next.old = proc[p].old /\ next.missed = missed
        BY <3>1, <3>3
      <3> HIDE DEF next
      <3>5. QED BY <3>1, <3>2, <3>4 DEF ColumnsKept
    <2>4. proc[p].pc \in 1 .. 5 => Adds(proc[p].pc) \in proc'[p].missed
      BY <2>1, <2>3, Statements DEF Add, Adds
    <2>5. proc[p].pc # 11 /\ locks' \in 0 .. MaxLocks
      BY <2>1, Statements, SchemaAssumption
    <2>6. QED BY <2>1, <2>3, <2>4, <2>5, OneFurther DEF ColumnsKept
  <1>6. ASSUME NEW p \in Process, Quit(p) PROVE ColumnsKept'
    BY <1>3, <1>6 DEF Quit
  <1>7. QED BY <1>1, <1>2, <1>4, <1>5, <1>6 DEF SchemaNext

(* A process that ends its bootstrap has the columns of the indexes, and   *)
(* one that found a table every column that enqueue(), lease() and         *)
(* finish() name except those a lock has refused it, whatever the other    *)
(* processes alter meanwhile and wherever one dies (_ensure_schema).       *)
THEOREM SchemaIsUsable == Spec => []ReopenedIsUsable
  <1>1. Init => ColumnsKept
    BY SchemaAssumption DEF Init, SchemaInit, ColumnsKept, Ended
  <1>2. [Next]_vars => [SchemaNext]_schemaVars
    BY DEF Next, vars, OnlySchema, OnlyPool, OnlyRun, OnlyLive, OnlyHook, OnlyHealth
  <1>3. ColumnsKept => ReopenedIsUsable
    BY Statements DEF ColumnsKept, ReopenedIsUsable, Needed, Late, Indexed
  <1>4. QED BY <1>1, <1>2, <1>3, SchemaStep, PTL DEF Spec

(***************************************************************************)
(* The routing table.  Whatever the admin API made of it, an event is      *)
(* decided by the first route that decides anything, which is what the     *)
(* search through the table, a fold over it, comes to.                     *)
(***************************************************************************)
RoutedBy(iter, cmds, pr) ==
    iter = [s \in SUBSET (DOMAIN routes) |->
               IF s = {} THEN <<>>
               ELSE IF iter[s \ {Max(s)}] = <<>> /\ pr \in routes[Max(s)].prs
                    THEN Decisions(routes[Max(s)], cmds)
                    ELSE iter[s \ {Max(s)}]]

\* Routed is a fold over the routes, and the fold exists.
LEMMA RoutedIs ==
    ASSUME routes \in Seq(Route), NEW cmds, NEW pr
    PROVE  \E iter : RoutedBy(iter, cmds, pr) /\ Routed(cmds, pr) = iter[1 .. Len(routes)]
  <1> DEFINE n == Len(routes)
             V == {<<>>} \cup {Decisions(routes[i], cmds) : i \in 1 .. n}
             step == [p \in (1 .. n) \X V |->
                        IF p[2] = <<>> /\ pr \in routes[p[1]].prs THEN Decisions(routes[p[1]], cmds) ELSE p[2]]
  <1>1. n \in Nat /\ DOMAIN routes = 1 .. n
    OBVIOUS
  <1>2. <<>> \in V /\ \A i \in 1 .. n : Decisions(routes[i], cmds) \in V
    OBVIOUS
  <1>3. step \in [(1 .. n) \X V -> V]
    <2>1. \A p \in (1 .. n) \X V : p[1] \in 1 .. n /\ p[2] \in V
      OBVIOUS
    <2> HIDE DEF V, n
    <2>2. \A p \in (1 .. n) \X V :
            (IF p[2] = <<>> /\ pr \in routes[p[1]].prs THEN Decisions(routes[p[1]], cmds) ELSE p[2]) \in V
      BY <1>2, <2>1
    <2>3. QED BY <2>2
  <1>4. \A i \in 1 .. n, v \in V :
           step[<<i, v>>] = IF v = <<>> /\ pr \in routes[i].prs THEN Decisions(routes[i], cmds) ELSE v
    <2> HIDE DEF V, n
    <2>1. QED OBVIOUS
  <1> HIDE DEF n, V, step
  <1>5. PICK f \in [SUBSET (1 .. n) -> V] : FoldsTo(f, n, <<>>, step)
    BY <1>1, <1>2, <1>3, FoldExists DEF FoldDefined
  <1>6. RoutedBy(f, cmds, pr)
    <2>1. ASSUME NEW s \in SUBSET (1 .. n)
          PROVE  f[s] = IF s = {} THEN <<>>
                        ELSE IF f[s \ {Max(s)}] = <<>> /\ pr \in routes[Max(s)].prs
                             THEN Decisions(routes[Max(s)], cmds) ELSE f[s \ {Max(s)}]
      <3>1. CASE s = {}
        BY <1>5, <3>1 DEF FoldsTo
      <3>2. CASE s # {}
        <4>1. Max(s) \in 1 .. n /\ f[s \ {Max(s)}] \in V
          BY <1>1, <1>5, <3>2, MaxIs
        <4>2. f[s] = step[<<Max(s), f[s \ {Max(s)}]>>]
          BY <1>5, <3>2 DEF FoldsTo
        <4>3. QED BY <1>4, <3>2, <4>1, <4>2
      <3>3. QED BY <3>1, <3>2
    <2>2. f = [s \in SUBSET (1 .. n) |-> f[s]]
      BY <1>5
    <2>3. QED BY <1>1, <2>1, <2>2 DEF RoutedBy
  <1>7. Routed(cmds, pr) = (CHOOSE iter : RoutedBy(iter, cmds, pr))[DOMAIN routes]
    BY DEF Routed, FoldLeft, MapThenFoldSet, RoutedBy, Max
  <1>8. RoutedBy(CHOOSE iter : RoutedBy(iter, cmds, pr), cmds, pr)
    BY <1>6
  <1>9. QED BY <1>1, <1>7, <1>8 DEF n

\* The first able route of the first k decides.
LEMMA FirstAble ==
    ASSUME routes \in Seq(Route), NEW cmds, NEW pr
    PROVE  LET able == {i \in DOMAIN routes : pr \in routes[i].prs /\ Decisions(routes[i], cmds) # <<>>}
           IN  Routed(cmds, pr) = IF able = {} THEN <<>> ELSE Decisions(routes[Min(able)], cmds)
  <1> DEFINE n == Len(routes)
             Able(k) == {i \in 1 .. k : pr \in routes[i].prs /\ Decisions(routes[i], cmds) # <<>>}
             D(i) == Decisions(routes[i], cmds)
  <1>1. n \in Nat /\ DOMAIN routes = 1 .. n
    OBVIOUS
  <1>2. PICK f : RoutedBy(f, cmds, pr) /\ Routed(cmds, pr) = f[1 .. n]
    BY RoutedIs
  <1>3. f[{}] = <<>>
    BY <1>2 DEF RoutedBy
  <1>4. ASSUME NEW k \in Nat, k + 1 <= n
        PROVE  f[1 .. (k + 1)] = IF f[1 .. k] = <<>> /\ pr \in routes[k + 1].prs THEN D(k + 1) ELSE f[1 .. k]
    <2> HIDE DEF n
    <2>0. k + 1 \in 1 .. (k + 1) /\ \A i \in 1 .. (k + 1) : i \in 1 .. n
      BY <1>1, <1>4
    <2>1. 1 .. (k + 1) \in SUBSET (DOMAIN routes) /\ 1 .. (k + 1) # {}
      BY <1>1, <2>0
    <2>2. Max(1 .. (k + 1)) = k + 1 /\ (1 .. (k + 1)) \ {k + 1} = 1 .. k
      BY MaxUpTo
    <2>3. QED BY <1>2, <2>1, <2>2 DEF RoutedBy
  <1> DEFINE Says(k) ==
        /\ f[1 .. k] = <<>> => Able(k) = {}
        /\ f[1 .. k] # <<>> => \E i \in Able(k) : (\A j \in Able(k) : i <= j) /\ f[1 .. k] = D(i)
             T == {k \in Nat : k <= n => Says(k)}
  <1>5. 0 \in T
    <2>1. 1 .. 0 = {} /\ Able(0) = {}
      OBVIOUS
    <2>2. Says(0)
      BY <1>3, <2>1
    <2>3. QED BY <2>2
  <1>6. ASSUME NEW k \in Nat, k \in T PROVE k + 1 \in T
    <2>1. ASSUME k + 1 <= n PROVE Says(k + 1)
      <3>1. Says(k)
        BY <1>6, <2>1
      <3>2. Able(k + 1) = Able(k) \cup (IF pr \in routes[k + 1].prs /\ D(k + 1) # <<>> THEN {k + 1} ELSE {})
        <4>1. \A i : i \in 1 .. (k + 1) <=> i \in 1 .. k \/ i = k + 1
          OBVIOUS
        <4>2. QED BY <4>1
      <3>3. \A i \in Able(k) : i < k + 1
        OBVIOUS
      <3> HIDE DEF Able, D
      <3>4. CASE f[1 .. k] # <<>>
        <4>1. PICK i \in Able(k) : (\A j \in Able(k) : i <= j) /\ f[1 .. k] = D(i)
          BY <3>1, <3>4
        <4>2. f[1 .. (k + 1)] = D(i)
          BY <1>4, <2>1, <3>4, <4>1
        <4>3. i \in Nat /\ i <= k + 1
          BY <3>3 DEF Able
        <4>4. \A j \in Able(k + 1) : i <= j
          BY <3>2, <4>1, <4>3
        <4>5. i \in Able(k + 1)
          BY <3>2
        <4>6. f[1 .. (k + 1)] # <<>>
          BY <1>4, <2>1, <3>4
        <4>7. QED BY <4>2, <4>4, <4>5, <4>6
      <3>5. CASE f[1 .. k] = <<>> /\ pr \in routes[k + 1].prs /\ D(k + 1) # <<>>
        <4>1. Able(k + 1) = {k + 1} /\ f[1 .. (k + 1)] = D(k + 1)
          BY <1>4, <2>1, <3>1, <3>2, <3>5
        <4>2. QED BY <3>5, <4>1
      <3>6. CASE f[1 .. k] = <<>> /\ ~(pr \in routes[k + 1].prs /\ D(k + 1) # <<>>)
        <4>1. Able(k + 1) = {} /\ f[1 .. (k + 1)] = <<>>
          BY <1>4, <2>1, <3>1, <3>2, <3>6
        <4>2. QED BY <4>1
      <3>7. QED BY <3>4, <3>5, <3>6
    <2> HIDE DEF Says
    <2>2. QED BY <2>1
  <1>7. Says(n)
    <2>1. Nat \subseteq T
      <3> HIDE DEF T
      <3>1. QED BY <1>5, <1>6, EveryNumber
    <2> HIDE DEF Says
    <2>2. QED BY <1>1, <2>1
  <1>8. CASE Able(n) = {}
    <2>1. Routed(cmds, pr) = <<>>
      BY <1>2, <1>7, <1>8
    <2>2. QED BY <1>1, <1>8, <2>1
  <1>9. CASE Able(n) # {}
    <2>1. PICK i \in Able(n) : (\A j \in Able(n) : i <= j) /\ Routed(cmds, pr) = D(i)
      BY <1>2, <1>7, <1>9
    <2>2. Min(Able(n)) = i
      <3>1. \A m \in Able(n) : m \in Nat
        OBVIOUS
      <3> HIDE DEF Able
      <3>2. \E m \in Able(n) : \A j \in Able(n) : m <= j
        BY <2>1
      <3>3. Min(Able(n)) \in Able(n) /\ \A j \in Able(n) : Min(Able(n)) <= j
        BY <3>2 DEF Min
      <3>4. QED BY <2>1, <3>1, <3>3
    <2>3. QED BY <1>1, <1>9, <2>1, <2>2
  <1>10. QED BY <1>8, <1>9

JobsOf == [agent : Agent, cmd : Command \cup {None},
           at : {"accepted", "refused", "running", "ended", "lost"}]

\* A file, and the table the API made of it, repeat no name but the file's own.
OwnNames(table) ==
    \A i, j \in DOMAIN table : i # j /\ table[i].name = table[j].name =>
          \E k, l \in DOMAIN FileRoutes :
             k # l /\ FileRoutes[k].name = table[i].name /\ FileRoutes[l].name = table[i].name

HookInv ==
    /\ routes \in Seq(Route) /\ OwnNames(routes)
    /\ patches \subseteq [name : RouteName, attached : BOOLEAN]
    /\ \A p \in patches : p.attached => p.name \in Names
    /\ jobs \in Seq(JobsOf)
    /\ loop \in 0 .. Len(jobs) /\ (loop # 0 => jobs[loop].at = "running")
    /\ changed \in 0 .. MaxChanges

LEMMA DecisionsType ==
    ASSUME NEW route \in Route, NEW cmds \in Seq(Command)
    PROVE  Decisions(route, cmds) \in Seq([cmd : Command \cup {None}, agent : Agent])
  <1> DEFINE S == [cmd : Command \cup {None}, agent : Agent]
             I == {i \in DOMAIN cmds : RouteTo(route, cmds[i]) \in Agent}
             named == Picked(cmds, I)
  <1>1. I \subseteq DOMAIN cmds /\ DOMAIN cmds = 1 .. Len(cmds) /\ Len(cmds) \in Nat
    OBVIOUS
  <1>2. /\ Cardinality(I) \in Nat /\ DOMAIN named = 1 .. Cardinality(I)
        /\ \A k \in 1 .. Cardinality(I) : Kth(k, I) \in I /\ named[k] = cmds[Kth(k, I)]
    <2> DEFINE n == Len(cmds)
    <2>1. n \in Nat /\ I \subseteq 1 .. n
      BY <1>1
    <2> HIDE DEF I, n
    <2>2. Cardinality(I) \in Nat
      BY <2>1, PickedIs
    <2>3. DOMAIN Picked(cmds, I) = 1 .. Cardinality(I)
      BY <2>1, PickedIs
    <2>4. \A k \in 1 .. Cardinality(I) : Kth(k, I) \in I
      BY <2>1, PickedIs
    <2>5. \A k \in 1 .. Cardinality(I) : Picked(cmds, I)[k] = cmds[Kth(k, I)]
      BY DEF Picked
    <2>6. QED BY <2>2, <2>3, <2>4, <2>5
  <1>3. \A k \in 1 .. Cardinality(I) : named[k] \in Command /\ RouteTo(route, named[k]) \in Agent
    BY <1>2
  <1> DEFINE m == Cardinality(I)
             d == [i \in 1 .. m |-> [cmd |-> named[i], agent |-> RouteTo(route, named[i])]]
  <1>4. d \in Seq(S)
    <2> HIDE DEF named, m
    <2>1. \A i \in 1 .. m : [cmd |-> named[i], agent |-> RouteTo(route, named[i])] \in S
      BY <1>3 DEF m
    <2> HIDE DEF S
    <2>2. m \in Nat /\ d \in [1 .. m -> S]
      BY <1>2, <2>1 DEF m
    <2> HIDE DEF d
    <2>3. QED BY <2>2
  <1>5. [i \in DOMAIN named |-> [cmd |-> named[i], agent |-> RouteTo(route, named[i])]] = d
    <2> HIDE DEF named
    <2>1. QED BY <1>2
  <1>6. <<>> \in Seq(S)
    OBVIOUS
  <1>7. route.forward \in Agent => <<[cmd |-> None, agent |-> route.forward]>> \in Seq(S)
    OBVIOUS
  <1> HIDE DEF S, d
  <1>8. QED BY <1>4, <1>5, <1>6, <1>7 DEF Decisions, S

LEMMA FirstIs ==
    ASSUME HookInv, NEW name \in Names
    PROVE  First(name, routes) \in DOMAIN routes
  <1> DEFINE I == {i \in DOMAIN routes : routes[i].name = name}
  <1>1. I \subseteq Nat /\ I # {} /\ I \subseteq DOMAIN routes
    BY DEF Names, HookInv
  <1> HIDE DEF I
  <1>2. \E m \in I : \A n \in I : m <= n
    BY <1>1, Least
  <1>3. Min(I) \in I
    BY <1>2 DEF Min
  <1>4. QED BY <1>1, <1>3 DEF First, I

\* Steps of the table: the jobs stay.
LEMMA TableKeeps ==
    ASSUME HookInv, UNCHANGED <<jobs, loop>>, changed' \in 0 .. MaxChanges,
           routes' \in Seq(Route), OwnNames(routes'),
           patches' \subseteq [name : RouteName, attached : BOOLEAN],
           \A p \in patches' : p.attached => p.name \in Names'
    PROVE  HookInv'
  BY DEF HookInv, OwnNames, Names

\* Steps of a job: the table stays.
LEMMA JobKeeps ==
    ASSUME HookInv, UNCHANGED <<routes, patches, changed>>, jobs' \in Seq(JobsOf),
           loop' \in 0 .. Len(jobs'), loop' # 0 => jobs'[loop'].at = "running"
    PROVE  HookInv'
  BY DEF HookInv, OwnNames, Names

LEMMA BecameIs ==
    ASSUME HookInv, NEW j \in DOMAIN jobs, NEW at \in {"accepted", "refused", "running", "ended", "lost"}, Became(j, at)
    PROVE  /\ jobs' \in Seq(JobsOf) /\ Len(jobs') = Len(jobs) /\ jobs'[j].at = at
           /\ \A i \in DOMAIN jobs \ {j} : jobs'[i] = jobs[i]
  <1>1. Len(jobs) \in Nat /\ DOMAIN jobs = 1 .. Len(jobs) /\ \A i \in DOMAIN jobs : jobs[i] \in JobsOf
    BY ElementOfSeq DEF HookInv
  <1>2. [jobs[j] EXCEPT !.at = at] \in JobsOf /\ [jobs[j] EXCEPT !.at = at].at = at
    BY <1>1 DEF JobsOf
  <1>3. jobs' = [jobs EXCEPT ![j] = [jobs[j] EXCEPT !.at = at]]
    BY DEF Became
  <1> HIDE DEF JobsOf
  <1>4. QED BY <1>1, <1>2, <1>3 DEF HookInv

LEMMA JobStep == ASSUME HookInv, NEW j \in DOMAIN jobs, Job(j) PROVE HookInv'
  <1>1. Len(jobs) \in Nat /\ DOMAIN jobs = 1 .. Len(jobs) /\ loop \in Nat
    BY DEF HookInv
  <1>2. CASE RefuseJob(j) \/ StartCommand(j) \/ EndCommand(j)
    <2>1. /\ loop = 0 /\ loop' = 0 /\ UNCHANGED <<routes, patches, changed>>
          /\ \E at \in {"refused", "running", "ended"} : Became(j, at)
      BY <1>2 DEF RefuseJob, StartCommand, EndCommand, Free
    <2>2. PICK at \in {"refused", "running", "ended"} : Became(j, at)
      BY <2>1
    <2>3. jobs' \in Seq(JobsOf) /\ Len(jobs') = Len(jobs)
      BY <2>2, BecameIs
    <2>4. QED BY <1>1, <2>1, <2>3, JobKeeps
  <1>3. CASE CallOverHttp(j)
    <2>1. loop' = j /\ Became(j, "running") /\ UNCHANGED <<routes, patches, changed>>
      BY <1>3 DEF CallOverHttp
    <2>2. jobs' \in Seq(JobsOf) /\ Len(jobs') = Len(jobs) /\ jobs'[j].at = "running"
      BY <2>1, BecameIs
    <2>3. QED BY <1>1, <2>1, <2>2, JobKeeps
  <1>4. CASE EndCall(j)
    <2>1. loop' = 0 /\ Became(j, "ended") /\ UNCHANGED <<routes, patches, changed>>
      BY <1>4 DEF EndCall
    <2>2. jobs' \in Seq(JobsOf) /\ Len(jobs') = Len(jobs)
      BY <2>1, BecameIs
    <2>3. QED BY <1>1, <2>1, <2>2, JobKeeps
  <1>5. QED BY <1>2, <1>3, <1>4 DEF Job

LEMMA WebhookStep == ASSUME HookInv, HandleWebhook PROVE HookInv'
  <1>1. PICK pr \in Pr, cmds \in SeqOf(Command, 2) :
           LET decisions == Routed(cmds, pr)
           IN  jobs' = jobs \o [i \in DOMAIN decisions |->
                    [agent |-> decisions[i].agent, cmd |-> decisions[i].cmd, at |-> "accepted"]]
    BY DEF HandleWebhook
  <1>2. cmds \in Seq(Command)
    <2>1. PICK m \in 0 .. 2 : cmds \in [1 .. m -> Command]
      BY DEF SeqOf
    <2>2. m \in Nat
      OBVIOUS
    <2>3. QED BY <2>1, <2>2
  <1> DEFINE d == Routed(cmds, pr)
             D == [cmd : Command \cup {None}, agent : Agent]
             more == [i \in DOMAIN d |-> [agent |-> d[i].agent, cmd |-> d[i].cmd, at |-> "accepted"]]
             able == {i \in DOMAIN routes : pr \in routes[i].prs /\ Decisions(routes[i], cmds) # <<>>}
  <1>3. d \in Seq(D)
    <2>1. d = IF able = {} THEN <<>> ELSE Decisions(routes[Min(able)], cmds)
      BY FirstAble DEF HookInv
    <2>2. <<>> \in Seq(D)
      OBVIOUS
    <2>3. able # {} => Min(able) \in DOMAIN routes
      <3>1. able \subseteq Nat /\ able \subseteq DOMAIN routes
        BY DEF HookInv
      <3> HIDE DEF able
      <3>2. able # {} => \E m \in able : \A n \in able : m <= n
        BY <3>1, Least
      <3>3. able # {} => Min(able) \in able
        BY <3>2 DEF Min
      <3>4. QED BY <3>1, <3>3
    <2>4. able # {} => routes[Min(able)] \in Route
      BY <2>3, ElementOfSeq DEF HookInv
    <2> HIDE DEF d, able, D
    <2>5. QED BY <1>2, <2>1, <2>2, <2>4, DecisionsType DEF D
  <1>4. more \in Seq(JobsOf)
    <2>1. DOMAIN d = 1 .. Len(d) /\ Len(d) \in Nat /\ \A i \in DOMAIN d : d[i] \in D
      <3> HIDE DEF d, D
      <3>1. d \in Seq(D)
        BY <1>3
      <3>2. QED BY <3>1, ElementOfSeq
    <2> HIDE DEF d
    <2>2. \A i \in 1 .. Len(d) : [agent |-> d[i].agent, cmd |-> d[i].cmd, at |-> "accepted"] \in JobsOf
      BY <2>1 DEF JobsOf
    <2>3. more \in [1 .. Len(d) -> JobsOf]
      BY <2>1, <2>2
    <2> DEFINE n == Len(d)
    <2> HIDE DEF more, n
    <2>4. n \in Nat /\ more \in [1 .. n -> JobsOf]
      BY <2>1, <2>3 DEF n
    <2>5. QED BY <2>4
  <1>5. jobs' = jobs \o more
    BY <1>1
  <1> HIDE DEF more
  <1>6. jobs' \in Seq(JobsOf) /\ Len(jobs') = Len(jobs) + Len(more) /\ Len(more) \in Nat /\ Len(jobs) \in Nat
    BY <1>4, <1>5 DEF HookInv
  <1>7. loop' = 0 /\ UNCHANGED <<routes, patches, changed>>
    BY DEF HandleWebhook, Free
  <1>8. QED BY <1>6, <1>7, JobKeeps

LEMMA AdminStep == ASSUME HookInv, Admin PROVE HookInv'
  <1>1. /\ routes \in Seq(Route) /\ Len(routes) \in Nat /\ DOMAIN routes = 1 .. Len(routes)
        /\ \A i \in DOMAIN routes : routes[i] \in Route
        /\ patches \subseteq [name : RouteName, attached : BOOLEAN]
        /\ OwnNames(routes) /\ FileRoutes \in Seq(Route) /\ OwnNames(FileRoutes)
        /\ changed \in 0 .. MaxChanges
    BY ElementOfSeq, HookAssumption DEF HookInv, OwnNames
  <1>2. Names \subseteq RouteName
    BY <1>1 DEF Names, Route
  <1>3. Change => changed' \in 0 .. MaxChanges
    BY <1>1, HookAssumption DEF Change
  <1>4. \A names : Detached(names) \subseteq [name : RouteName, attached : BOOLEAN]
                   /\ \A p \in Detached(names) : p.attached => p.name \in Names \ names
    <2> SUFFICES ASSUME NEW names, NEW q \in patches
                 PROVE  LET p == [q EXCEPT !.attached = @ /\ q.name \notin names]
                        IN  /\ p \in [name : RouteName, attached : BOOLEAN]
                            /\ p.attached => p.name \in Names \ names
      BY DEF Detached
    <2>1. q \in [name : RouteName, attached : BOOLEAN] /\ (q.attached => q.name \in Names)
      BY DEF HookInv
    <2>2. (q.attached /\ q.name \notin names) \in BOOLEAN
      BY <2>1
    <2>3. QED BY <2>1, <2>2
  <1>5. ASSUME NEW name \in Names, FindRoute(name) PROVE HookInv'
    <2>1. /\ routes' = routes /\ UNCHANGED <<jobs, loop>>
          /\ patches' = patches \cup {[name |-> name, attached |-> TRUE]} /\ changed' \in 0 .. MaxChanges
      BY <1>3, <1>5 DEF FindRoute
    <2>2. patches' \subseteq [name : RouteName, attached : BOOLEAN]
      <3>1. name \in RouteName
        BY <1>2
      <3>2. [name |-> name, attached |-> TRUE] \in [name : RouteName, attached : BOOLEAN]
        BY <3>1
      <3>3. QED BY <1>1, <2>1, <3>2
    <2>3. Names' = Names
      BY <2>1 DEF Names
    <2>4. \A p \in patches' : p.attached => p.name \in Names'
      BY <2>1, <2>3 DEF HookInv
    <2>5. QED BY <1>1, <2>1, <2>2, <2>4, TableKeeps
  <1>6. ASSUME NEW name \in Names, DeleteRoute(name) PROVE HookInv'
    <2> DEFINE I == {i \in DOMAIN routes : routes[i].name # name}
    <2>1. /\ routes' = Picked(routes, I) /\ UNCHANGED <<jobs, loop>>
          /\ patches' = Detached({name}) /\ changed' \in 0 .. MaxChanges
      BY <1>3, <1>6 DEF DeleteRoute
    <2>2. I \subseteq DOMAIN routes /\ I \subseteq 1 .. Len(routes)
      BY <1>1
    <2>3. \A i \in DOMAIN routes : i \notin I => routes[i].name = name
      OBVIOUS
    <2> HIDE DEF I
    <2>4. routes' \in Seq(Route) /\ Cardinality(I) \in Nat /\ DOMAIN routes' = 1 .. Cardinality(I)
      <3> DEFINE n == Len(routes)
      <3>1. n \in Nat /\ I \subseteq 1 .. n
        BY <1>1, <2>2
      <3> HIDE DEF n
      <3>2. Cardinality(I) \in Nat /\ DOMAIN Picked(routes, I) = 1 .. Cardinality(I)
        BY <3>1, PickedIs
      <3>3. Picked(routes, I) \in Seq(Route)
        BY <1>1, <2>2, PickedSeq
      <3>4. QED BY <2>1, <3>2, <3>3
    <2>5. /\ \A k \in DOMAIN routes' : Kth(k, I) \in DOMAIN routes /\ routes'[k] = routes[Kth(k, I)]
          /\ \A k, l \in DOMAIN routes' : k < l => Kth(k, I) < Kth(l, I)
          /\ \A i \in I : \E k \in DOMAIN routes' : Kth(k, I) = i
      <3> DEFINE n == Len(routes)
      <3>1. n \in Nat /\ I \subseteq 1 .. n /\ DOMAIN routes = 1 .. n
        BY <1>1, <2>2
      <3> HIDE DEF n
      <3>2. /\ \A k \in 1 .. Cardinality(I) : Kth(k, I) \in I /\ Picked(routes, I)[k] = routes[Kth(k, I)]
            /\ \A k, l \in 1 .. Cardinality(I) : k < l => Kth(k, I) < Kth(l, I)
            /\ \A i \in I : \E k \in 1 .. Cardinality(I) : Kth(k, I) = i
        <4>1. \A k \in 1 .. Cardinality(I) : Kth(k, I) \in I
          BY <3>1, PickedIs
        <4>2. \A k \in 1 .. Cardinality(I) : Picked(routes, I)[k] = routes[Kth(k, I)]
          BY DEF Picked
        <4>3. \A k, l \in 1 .. Cardinality(I) : k < l => Kth(k, I) < Kth(l, I)
          BY <3>1, PickedIs
        <4>4. \A i \in I : \E k \in 1 .. Cardinality(I) : Kth(k, I) = i
          BY <3>1, PickedIs
        <4>5. QED BY <4>1, <4>2, <4>3, <4>4
      <3>3. \A k \in 1 .. Cardinality(I) : Kth(k, I) \in DOMAIN routes
        BY <2>2, <3>2
      <3>4. QED BY <2>1, <2>4, <3>2, <3>3, Zenon
    <2>6. OwnNames(routes')
      <3> SUFFICES ASSUME NEW k \in DOMAIN routes', NEW l \in DOMAIN routes', k # l, routes'[k].name = routes'[l].name
                   PROVE  \E a, b \in DOMAIN FileRoutes :
                             a # b /\ FileRoutes[a].name = routes'[k].name /\ FileRoutes[b].name = routes'[k].name
        BY DEF OwnNames
      <3>1. k \in Nat /\ l \in Nat
        BY <2>4
      <3>2. Kth(k, I) \in Nat /\ Kth(l, I) \in Nat
        BY <1>1, <2>5
      <3>3. Kth(k, I) # Kth(l, I)
        BY <2>5, <3>1, <3>2
      <3>4. QED BY <1>1, <2>5, <3>3 DEF OwnNames
    <2>7. Names \ {name} \subseteq Names'
      <3> SUFFICES ASSUME NEW i \in DOMAIN routes, routes[i].name # name PROVE routes[i].name \in Names'
        BY DEF Names
      <3>1. PICK k \in DOMAIN routes' : Kth(k, I) = i
        BY <2>3, <2>5
      <3>2. QED BY <2>5, <3>1 DEF Names
    <2>8. QED BY <1>4, <2>1, <2>4, <2>6, <2>7, TableKeeps
  <1>7. ASSUME NEW patch \in patches, EditRoute(patch) PROVE HookInv'
    <2>1. PICK edit \in RouteEdit :
             routes' = IF patch.attached
                       THEN [routes EXCEPT ![First(patch.name, routes)] = Edited(@, edit)]
                       ELSE routes
      BY <1>7 DEF EditRoute
    <2>2. UNCHANGED <<jobs, loop, changed>> /\ patches' = patches \ {patch}
      BY <1>7 DEF EditRoute
    <2>3. /\ routes' \in Seq(Route) /\ DOMAIN routes' = DOMAIN routes
          /\ \A i \in DOMAIN routes : routes'[i].name = routes[i].name
      <3>1. CASE ~patch.attached
        BY <1>1, <2>1, <3>1
      <3>2. CASE patch.attached
        <4> DEFINE at == First(patch.name, routes)
        <4>1. at \in DOMAIN routes
          BY <3>2, FirstIs DEF HookInv
        <4> HIDE DEF at
        <4>2. Edited(routes[at], edit) \in Route /\ Edited(routes[at], edit).name = routes[at].name
          <5>1. routes[at] \in Route
            BY <1>1, <4>1
          <5>2. \/ edit.field = "prs" /\ edit.value \in SUBSET Pr
                \/ edit.field \in {"agent", "forward"} /\ edit.value \in Target
            BY HookAssumption
          <5>3. CASE edit.field = "prs"
            BY <5>1, <5>2, <5>3 DEF Edited, Route
          <5>4. CASE edit.field = "agent"
            BY <5>1, <5>2, <5>4 DEF Edited, Route
          <5>5. CASE edit.field = "forward"
            BY <5>1, <5>2, <5>5 DEF Edited, Route
          <5>6. QED BY <5>2, <5>3, <5>4, <5>5
        <4>3. routes' = [routes EXCEPT ![at] = Edited(routes[at], edit)]
          BY <2>1, <3>2 DEF at
        <4> HIDE DEF Route
        <4>4. QED BY <1>1, <4>1, <4>2, <4>3
      <3>3. QED BY <3>1, <3>2
    <2>4. Names' = Names
      BY <2>3 DEF Names
    <2>5. OwnNames(routes')
      BY <1>1, <2>3 DEF OwnNames
    <2>6. \A p \in patches' : p.attached => p.name \in Names'
      BY <2>2, <2>4 DEF HookInv
    <2>7. QED BY <1>1, <2>2, <2>3, <2>5, <2>6, TableKeeps
  <1>8. ASSUME NEW i \in DOMAIN FileRoutes, CreateRoute(FileRoutes[i]) PROVE HookInv'
    <2> DEFINE r == FileRoutes[i]
    <2>1. /\ routes' = Append(routes, r) /\ r.name \notin Names /\ UNCHANGED <<patches, jobs, loop>>
          /\ changed' \in 0 .. MaxChanges
      BY <1>3, <1>8 DEF CreateRoute
    <2>2. r \in Route
      BY <1>1, ElementOfSeq
    <2> HIDE DEF r
    <2>3. /\ routes' \in Seq(Route) /\ DOMAIN routes' = 1 .. (Len(routes) + 1)
          /\ \A k \in DOMAIN routes : routes'[k] = routes[k]
          /\ routes'[Len(routes) + 1] = r
      BY <1>1, <2>1, <2>2
    <2>4. \A k \in DOMAIN routes' : k \in DOMAIN routes \/ k = Len(routes) + 1
      BY <1>1, <2>3
    <2>5. \A k \in DOMAIN routes : routes[k].name \in Names
      BY DEF Names
    <2>6. OwnNames(routes')
      <3> SUFFICES ASSUME NEW k \in DOMAIN routes', NEW l \in DOMAIN routes', k # l, routes'[k].name = routes'[l].name
                   PROVE  \E a, b \in DOMAIN FileRoutes :
                             a # b /\ FileRoutes[a].name = routes'[k].name /\ FileRoutes[b].name = routes'[k].name
        BY DEF OwnNames
      <3>1. k \in DOMAIN routes /\ l \in DOMAIN routes
        BY <2>1, <2>3, <2>4, <2>5
      <3>2. routes'[k] = routes[k] /\ routes'[l] = routes[l]
        BY <2>3, <3>1
      <3>3. QED BY <1>1, <3>1, <3>2 DEF OwnNames
    <2>7. Names \subseteq Names'
      BY <1>1, <2>3 DEF Names
    <2>8. \A p \in patches' : p.attached => p.name \in Names'
      BY <2>1, <2>7 DEF HookInv
    <2>9. QED BY <1>1, <2>1, <2>3, <2>6, <2>8, TableKeeps
  <1>9. CASE Reload
    <2>1. /\ routes' = FileRoutes /\ UNCHANGED <<jobs, loop>>
          /\ patches' = Detached(Names) /\ changed' \in 0 .. MaxChanges
      BY <1>3, <1>9 DEF Reload
    <2>2. QED BY <1>1, <1>4, <2>1, TableKeeps
  <1>10. CASE RestartServer
    <2> DEFINE now(j) == IF jobs[j].at \in {"accepted", "running"} THEN [jobs[j] EXCEPT !.at = "lost"] ELSE jobs[j]
    <2>1. /\ routes' = FileRoutes /\ patches' = {} /\ loop' = 0 /\ changed' \in 0 .. MaxChanges
          /\ jobs' = [j \in DOMAIN jobs |-> now(j)]
      BY <1>1, <1>10, HookAssumption DEF RestartServer
    <2>2. jobs' \in Seq(JobsOf)
      <3>1. Len(jobs) \in Nat /\ DOMAIN jobs = 1 .. Len(jobs) /\ \A j \in DOMAIN jobs : jobs[j] \in JobsOf
        BY ElementOfSeq DEF HookInv
      <3>2. \A j \in DOMAIN jobs : now(j) \in JobsOf
        BY <3>1 DEF JobsOf
      <3> HIDE DEF now
      <3>3. jobs' \in [1 .. Len(jobs) -> JobsOf]
        BY <2>1, <3>1, <3>2
      <3> DEFINE n == Len(jobs)
      <3>4. n \in Nat /\ jobs' \in [1 .. n -> JobsOf]
        BY <3>1, <3>3
      <3> HIDE DEF n
      <3>5. QED BY <3>4
    <2>3. Len(jobs') \in Nat
      BY <2>2
    <2>4. QED BY <1>1, <2>1, <2>2, <2>3 DEF HookInv, OwnNames, Names
  <1>11. QED BY <1>5, <1>6, <1>7, <1>8, <1>9, <1>10 DEF Admin

LEMMA HookStart == HookInit => HookInv
  <1> SUFFICES ASSUME HookInit PROVE HookInv
    OBVIOUS
  <1>1. jobs \in Seq(JobsOf) /\ Len(jobs) = 0
    BY DEF HookInit
  <1>2. QED BY <1>1, HookAssumption DEF HookInit, HookInv, OwnNames

LEMMA HookStep == HookInv /\ [HookNext]_hookVars => HookInv'
  <1>1. HookInv /\ UNCHANGED hookVars => HookInv'
    BY DEF hookVars, HookInv, OwnNames, Names
  <1>2. QED BY <1>1, WebhookStep, AdminStep, JobStep DEF HookNext

(***************************************************************************)
(* The health checks.  Two checks under way started at least an interval   *)
(* apart, and all of them within one limit: time does not go on while one  *)
(* is overdue, and the loop is not blocked then.  The check that starts    *)
(* before the overdue ones are killed is the one exception.                *)
(***************************************************************************)
\* The checks of A were started at least an interval apart, within one limit.
Spaced(A) == \A a, b \in A : a < b => a + Interval <= b
Together(A) == \A a, b \in A : b < a + Limit

ChecksInv ==
    /\ due \in 0 .. Interval /\ stall \in -1 .. MaxStall
    /\ ages \subseteq 0 .. (Limit + MaxStall)
    /\ \A a \in ages : Interval <= a + due /\ (stall # -1 => a < Limit + stall)
    /\ Spaced(ages) /\ Together(ages \ {0})
    /\ Together(ages) \/ (due = Interval /\ stall = -1)

LEMMA DivIs ==
    ASSUME NEW x \in Nat, NEW d \in Nat \ {0}
    PROVE  LET q == x \div d IN q \in Nat /\ q * d <= x /\ x < q * d + d
  OBVIOUS

LEMMA LessTimes ==
    ASSUME NEW p \in Nat, NEW q \in Nat, NEW d \in Nat \ {0}, p * d < q * d
    PROVE  p < q
  OBVIOUS

(* As many checks as intervals begin within a limit.                       *)
LEMMA TogetherAreFew ==
    ASSUME NEW m \in Nat, NEW A \in SUBSET (0 .. m), Spaced(A), Together(A)
    PROVE  /\ IsFiniteSet(A) /\ Cardinality(A) \in Nat
           /\ Cardinality(A) <= (Limit + Interval - 1) \div Interval
  <1> DEFINE c == (Limit + Interval - 1) \div Interval
  <1>1. IsFiniteSet(A) /\ Cardinality(A) \in Nat
    <2>1. IsFiniteSet(0 .. m)
      BY FS_Interval
    <2>2. QED BY <2>1, FS_Subset, FS_CardinalityType
  <1>2. /\ c \in Nat /\ c * Interval \in Nat
        /\ Limit <= c * Interval
        /\ Interval \in Nat \ {0} /\ Limit \in Nat \ {0}
    <2>1. Limit + Interval - 1 \in Nat /\ Interval \in Nat \ {0} /\ Limit \in Nat \ {0}
      BY HealthAssumption
    <2>2. c \in Nat /\ Limit + Interval - 1 < c * Interval + Interval
      BY <2>1, DivIs
    <2> HIDE DEF c
    <2>3. c * Interval \in Nat
      BY <2>1, <2>2
    <2>4. QED BY <2>1, <2>2, <2>3
  <1> HIDE DEF c
  <1>3. CASE A = {}
    BY <1>1, <1>2, <1>3, FS_EmptySet DEF c
  <1>4. CASE A # {}
    <2>1. A \subseteq Nat
      OBVIOUS
    <2>2. PICK low \in A : \A a \in A : low <= a
      BY <1>4, <2>1, Least
    <2> DEFINE turn(a) == (a - low) \div Interval
               f == [a \in A |-> turn(a)]
    <2>3. ASSUME NEW a \in A
          PROVE  /\ a - low \in Nat /\ a - low < Limit
                 /\ turn(a) \in Nat /\ turn(a) * Interval <= a - low /\ a - low < turn(a) * Interval + Interval
      <3>1. a \in Nat /\ low \in Nat /\ low <= a /\ a < low + Limit
        BY <2>1, <2>2 DEF Together
      <3>2. a - low \in Nat /\ a - low < Limit
        BY <1>2, <3>1
      <3> DEFINE x == a - low
      <3>3. x \in Nat
        BY <3>2
      <3> HIDE DEF x
      <3>4. /\ x \div Interval \in Nat /\ (x \div Interval) * Interval <= x
            /\ x < (x \div Interval) * Interval + Interval
        BY <1>2, <3>3, DivIs
      <3>5. QED BY <3>2, <3>4 DEF x
    <2> HIDE DEF turn
    <2>4. ASSUME NEW a \in A PROVE turn(a) \in 0 .. (c - 1)
      <3>1. turn(a) * Interval \in Nat
        BY <1>2, <2>3
      <3>2. turn(a) * Interval < c * Interval
        BY <1>2, <2>3, <3>1
      <3>3. turn(a) < c
        BY <1>2, <2>3, <3>2, LessTimes
      <3>4. QED BY <1>2, <2>3, <3>3
    <2>5. ASSUME NEW a \in A, NEW b \in A, a < b PROVE turn(a) # turn(b)
      <3>1. a \in Nat /\ b \in Nat /\ low \in Nat /\ a + Interval <= b
        BY <2>1, <2>2, <2>5 DEF Spaced
      <3>2. turn(a) * Interval \in Nat
        BY <1>2, <2>3
      <3>3. a - low < turn(a) * Interval + Interval /\ turn(b) * Interval <= b - low
        BY <2>3
      <3>4. SUFFICES ASSUME turn(a) = turn(b) PROVE FALSE
        OBVIOUS
      <3>5. QED
        BY <1>2, <2>3, <3>1, <3>2, <3>3, <3>4
    <2>6. \A a, b \in A : turn(a) = turn(b) => a = b
      <3>1. \A a, b \in A : a < b \/ b < a \/ a = b
        BY <2>1
      <3>2. QED BY <2>5, <3>1
    <2>7. f \in Injection(A, 0 .. (c - 1))
      BY <2>4, <2>6 DEF Injection, IsInjective
    <2>8. IsFiniteSet(0 .. (c - 1)) /\ Cardinality(0 .. (c - 1)) = c
      <3>1. c - 1 \in Int /\ c # 0
        BY <1>2
      <3>2. QED BY <1>2, <3>1, FS_Interval
    <2>9. Cardinality(A) <= c
      <3> HIDE DEF f
      <3>1. QED BY <2>7, <2>8, FS_Injection
    <2>10. QED BY <1>1, <2>9 DEF c
  <1>5. QED BY <1>3, <1>4

LEMMA FewChecks == ChecksInv => ChecksBounded
  <1> SUFFICES ASSUME ChecksInv PROVE ChecksBounded
    OBVIOUS
  <1> DEFINE m == Limit + MaxStall
             c == (Limit + Interval - 1) \div Interval
             A == ages \ {0}
  <1>1. m \in Nat
    BY HealthAssumption
  <1>2. A \in SUBSET (0 .. m) /\ Spaced(A) /\ Together(A)
    BY DEF ChecksInv, Spaced
  <1> HIDE DEF m, A
  <1>3. IsFiniteSet(A) /\ Cardinality(A) \in Nat /\ Cardinality(A) <= c
    BY <1>1, <1>2, TogetherAreFew
  <1>4. ages \subseteq A \cup {0} /\ (0 \notin A)
    BY DEF A
  <1>5. IsFiniteSet(A \cup {0}) /\ Cardinality(A \cup {0}) = Cardinality(A) + 1
    BY <1>3, <1>4, FS_AddElement
  <1>6. IsFiniteSet(ages) /\ Cardinality(ages) <= Cardinality(A \cup {0}) /\ Cardinality(ages) \in Nat
    BY <1>4, <1>5, FS_Subset, FS_CardinalityType
  <1>7. c \in Nat
    <2>1. Limit + Interval - 1 \in Nat /\ Interval \in Nat \ {0}
      BY HealthAssumption
    <2>2. QED BY <2>1, DivIs
  <1> HIDE DEF c
  <1>8. Cardinality(ages) <= c + 1
    BY <1>3, <1>5, <1>6, <1>7
  <1>9. QED BY <1>8 DEF ChecksBounded, c

LEMMA ChecksStep == ChecksInv /\ [HealthNext]_healthVars => ChecksInv'
  <1> SUFFICES ASSUME ChecksInv, [HealthNext]_healthVars PROVE ChecksInv'
    OBVIOUS
  <1>0. /\ Interval \in Nat \ {0} /\ Limit \in Nat \ {0} /\ MaxStall \in Nat
        /\ due \in Nat /\ due <= Interval /\ stall \in Int /\ stall >= -1 /\ stall <= MaxStall
        /\ ages \subseteq Nat
    BY HealthAssumption DEF ChecksInv
  <1>1. CASE UNCHANGED healthVars
    BY <1>1 DEF healthVars, ChecksInv, Spaced, Together
  <1>2. CASE TimePasses
    <2>1. /\ IF stall = -1 THEN due > 0 /\ Overdue = {} ELSE stall < MaxStall
          /\ due' = (IF due > 0 THEN due - 1 ELSE 0)
          /\ ages' = {a + 1 : a \in ages}
          /\ stall' = (IF stall = -1 THEN -1 ELSE stall + 1)
      BY <1>2 DEF TimePasses
    <2>2. Together(ages)
      <3>1. CASE stall = -1
        <4>1. \A a \in ages : a < Limit
          BY <1>0, <2>1, <3>1 DEF Overdue
        <4>2. QED BY <1>0, <4>1 DEF Together
      <3>2. QED BY <3>1 DEF ChecksInv
    <2>3. due' \in 0 .. Interval /\ stall' \in -1 .. MaxStall
      BY <1>0, <2>1
    <2>4. ASSUME NEW a \in ages
          PROVE  /\ a + 1 \in 0 .. (Limit + MaxStall) /\ Interval <= a + 1 + due'
                 /\ stall' # -1 => a + 1 < Limit + stall'
      <3>1. stall = -1 => a < Limit
        BY <1>0, <2>1 DEF Overdue
      <3>2. stall # -1 => a < Limit + stall
        BY DEF ChecksInv
      <3>3. Interval <= a + due
        BY DEF ChecksInv
      <3>4. a \in Nat
        BY <1>0
      <3>5. a + 1 \in 0 .. (Limit + MaxStall)
        BY <1>0, <2>1, <3>1, <3>2, <3>4
      <3>6. Interval <= a + 1 + due'
        BY <1>0, <2>1, <3>3, <3>4
      <3>7. stall' # -1 => a + 1 < Limit + stall'
        BY <1>0, <2>1, <3>2, <3>4
      <3>8. QED BY <3>5, <3>6, <3>7
    <2>5. Spaced(ages') /\ Together(ages')
      BY <1>0, <2>1, <2>2 DEF ChecksInv, Spaced, Together
    <2>6. Together(ages' \ {0})
      BY <2>5 DEF Together
    <2>7. QED BY <2>1, <2>3, <2>4, <2>5, <2>6 DEF ChecksInv
  <1>3. CASE Fire
    <2>1. stall = -1 /\ stall' = -1 /\ due = 0 /\ due' = Interval /\ ages' \in {ages, ages \cup {0}}
      BY <1>3 DEF Fire
    <2>2. Together(ages) /\ Together(ages \ {0})
      BY <1>0, <2>1 DEF ChecksInv
    <2>3. \A a \in ages : Interval <= a /\ a \in Nat
      BY <1>0, <2>1 DEF ChecksInv
    <2>4. ages' \subseteq ages \cup {0} /\ ages' \ {0} \subseteq ages \ {0}
      BY <2>1
    <2>5. Spaced(ages')
      BY <1>0, <2>3, <2>4 DEF ChecksInv, Spaced
    <2>6. Together(ages' \ {0})
      BY <2>2, <2>4 DEF Together
    <2>7. ages' \subseteq 0 .. (Limit + MaxStall)
      BY <1>0, <2>4 DEF ChecksInv
    <2>8. due' \in 0 .. Interval /\ \A a \in ages' : Interval <= a + due'
      BY <1>0, <2>1, <2>3, <2>4
    <2>9. QED BY <1>0, <2>1, <2>5, <2>6, <2>7, <2>8 DEF ChecksInv
  <1>4. CASE Block
    <2>1. stall = -1 /\ stall' = 0 /\ UNCHANGED <<due, ages>> /\ Overdue = {}
      BY <1>4 DEF Block
    <2>2. \A a \in ages : a < Limit
      BY <1>0, <2>1 DEF Overdue
    <2>3. Together(ages)
      BY <1>0, <2>2 DEF Together
    <2>4. stall' \in -1 .. MaxStall
      BY <1>0, <2>1
    <2>5. QED BY <1>0, <2>1, <2>2, <2>3, <2>4 DEF ChecksInv
  <1>5. CASE Unblock
    BY <1>0, <1>5 DEF Unblock, ChecksInv
  <1>6. ASSUME NEW a \in ages, CheckEnds(a) \/ KillOverdue(a) PROVE ChecksInv'
    <2>1. stall = -1 /\ UNCHANGED <<due, stall>> /\ ages' = ages \ {a}
      BY <1>6 DEF CheckEnds, KillOverdue
    <2>2. Spaced(ages') /\ Together(ages' \ {0})
      BY <2>1 DEF ChecksInv, Spaced, Together
    <2>3. Together(ages) => Together(ages')
      BY <2>1 DEF Together
    <2>4. QED BY <2>1, <2>2, <2>3 DEF ChecksInv
  <1>7. QED BY <1>1, <1>2, <1>3, <1>4, <1>5, <1>6 DEF HealthNext

LEMMA ChecksStart == HealthInit => ChecksInv
  BY HealthAssumption DEF HealthInit, ChecksInv, Spaced, Together

(***************************************************************************)
(* The markers of a run: the trace viewer's terminal events.               *)
(***************************************************************************)
(* A run's row is closed from outside at most twice, once by the bench and *)
(* once by a sweep that had read the row before: what a sweep has still to *)
(* test or mark has one marker at most, and a row that is open has none.   *)
Marks(r) ==
    /\ row[r] \in {"none", "running"} => markers[r] = 0
    /\ r \in sweep.todo \cup sweep.chosen \cup sweep.marked => row[r] # "none" /\ markers[r] \in {0, 1}
    /\ r \in sweep.marked /\ row[r] = "running" => r \in sweep.closed
    /\ markers[r] \in 0 .. 2

MarksInv ==
    /\ \A r \in Run : Marks(r)
    /\ sweep.marked # {} => sweep.lock
    /\ sweep.chosen = {} \/ \E r \in Run : sweep.chosen = {r}
    /\ waiting \subseteq Bench /\ aborts \in 0 .. MaxAborts

(* Steps that write no marker and leave the sweep where it is: a row moves *)
(* on, or is closed.                                                       *)
LEMMA RowMoves ==
    ASSUME MarksInv, UNCHANGED <<markers, aborts>>, waiting' \subseteq waiting,
           sweep'.todo = sweep.todo, sweep'.chosen = sweep.chosen, sweep'.marked = sweep.marked,
           sweep'.closed = sweep.closed, sweep'.lock = sweep.lock,
           \A r \in Run : \/ row'[r] = row[r]
                          \/ row'[r] \in {"completed", "failed"}
                          \/ row[r] = "none" /\ row'[r] = "running"
    PROVE  MarksInv'
  <1>1. ASSUME NEW r \in Run PROVE Marks(r)'
    BY DEF MarksInv, Marks
  <1>2. QED BY <1>1 DEF MarksInv

\* Steps of the sweep that change neither rows nor markers.
LEMMA SweepMoves ==
    ASSUME RowsInv, MarksInv, UNCHANGED <<row, markers, waiting>>, aborts' \in 0 .. MaxAborts,
           sweep'.marked # {} => sweep'.lock,
           sweep'.chosen = {} \/ \E r \in Run : sweep'.chosen = {r},
           \A r \in Run :
              /\ r \in sweep'.todo \cup sweep'.chosen \cup sweep'.marked =>
                    row[r] = "running" \/ r \in sweep.todo \cup sweep.chosen \cup sweep.marked
              /\ r \in sweep'.marked /\ row[r] = "running" => r \in sweep'.closed
    PROVE  MarksInv'
  <1>1. ASSUME NEW r \in Run PROVE Marks(r)'
    BY DEF MarksInv, Marks
  <1>2. QED BY <1>1 DEF MarksInv

LEMMA MarksStep == RowsInv /\ MarksInv /\ [RunNext]_runVars => MarksInv'
  <1> SUFFICES ASSUME RowsInv, MarksInv, [RunNext]_runVars PROVE MarksInv'
    OBVIOUS
  <1>0. RowsTyped
    BY DEF RowsInv
  <1>1. CASE UNCHANGED runVars
    BY <1>1, RowMoves DEF runVars
  <1>2. ASSUME NEW r \in Run, \/ InsertRun(r) \/ FallSilent(r) \/ Age(r) \/ Exit(r) \/ Kill(r)
        PROVE  MarksInv'
    <2>1. /\ UNCHANGED <<markers, aborts, sweep>> /\ waiting' \subseteq waiting
          /\ \A q \in Run : row'[q] = row[q] \/ (row[q] = "none" /\ row'[q] = "running")
      BY <1>0, <1>2 DEF InsertRun, FallSilent, Age, Exit, Kill, RowsTyped
    <2>2. QED BY <2>1, RowMoves
  <1>3. ASSUME NEW r \in Run, WriteEvent(r) PROVE MarksInv'
    <2>1. /\ UNCHANGED <<markers, aborts, waiting, row>>
          /\ sweep' = [sweep EXCEPT !.fresh = IF sweep.on THEN @ \cup {r} ELSE @]
      BY <1>3 DEF WriteEvent
    <2>2. /\ sweep'.todo = sweep.todo /\ sweep'.chosen = sweep.chosen /\ sweep'.marked = sweep.marked
          /\ sweep'.closed = sweep.closed /\ sweep'.lock = sweep.lock
      BY <1>0, <2>1 DEF RowsTyped
    <2>3. QED BY <2>1, <2>2, RowMoves
  <1>4. ASSUME NEW r \in Run, Complete(r) \/ FailRun(r) PROVE MarksInv'
    <2>1. UNCHANGED <<markers, aborts, sweep, waiting>>
      BY <1>4 DEF Complete, FailRun
    <2>2. \E status \in {"completed", "failed"} : FinishRun(r, status)
      BY <1>4 DEF Complete, FailRun
    <2>3. \A q \in Run : row'[q] = row[q] \/ row'[q] \in {"completed", "failed"}
      BY <1>0, <2>2 DEF FinishRun, RowsTyped
    <2>4. QED BY <2>1, <2>3, RowMoves
  <1>5. ASSUME NEW r \in Run, BenchClose(r) PROVE MarksInv'
    <2>1. PICK nonzero \in {TRUE, outcome[r] # "ok"} :
             LET closes == nonzero /\ row[r] = "running" /\ ~sweep.lock IN
             /\ row' = [row EXCEPT ![r] = IF closes THEN "failed" ELSE @]
             /\ markers' = [markers EXCEPT ![r] = IF closes /\ r \in evented THEN @ + 1 ELSE @]
      BY <1>5 DEF BenchClose
    <2>2. waiting' = waiting \ {r} /\ UNCHANGED <<sweep, aborts>>
      BY <1>5 DEF BenchClose
    <2> DEFINE closes == nonzero /\ row[r] = "running" /\ ~sweep.lock
    <2>3. CASE ~closes
      <3>1. UNCHANGED <<row, markers>>
        BY <1>0, <2>1, <2>3 DEF RowsTyped
      <3>2. QED BY <2>2, <3>1, RowMoves
    <2>4. CASE closes
      <3>1. row' = [row EXCEPT ![r] = "failed"] /\ row[r] = "running"
        BY <2>1, <2>4
      <3>2. markers' = [markers EXCEPT ![r] = IF r \in evented THEN @ + 1 ELSE @]
        BY <2>1, <2>4
      <3> HIDE DEF closes
      <3>3. markers[r] = 0
        BY <3>1 DEF MarksInv, Marks
      <3>4. row'[r] = "failed" /\ markers'[r] \in {0, 1}
        BY <1>0, <3>1, <3>2, <3>3 DEF RowsTyped
      <3>5. \A q \in Run \ {r} : row'[q] = row[q] /\ markers'[q] = markers[q]
        BY <1>0, <3>1, <3>2 DEF RowsTyped
      <3>6. ASSUME NEW q \in Run PROVE Marks(q)'
        <4>1. CASE q = r
          BY <2>2, <3>4, <4>1 DEF Marks
        <4>2. CASE q # r
          BY <2>2, <3>5, <4>2 DEF MarksInv, Marks
        <4>3. QED BY <4>1, <4>2
      <3>7. QED BY <2>2, <3>6 DEF MarksInv
    <2>5. QED BY <2>3, <2>4
  <1>6. CASE SweepBegin
    <2> DEFINE candidates == {r \in old : row[r] = "running"}
    <2>1. sweep' = [NoSweep EXCEPT !.on = TRUE, !.todo = candidates, !.fresh = recent]
      BY <1>6 DEF SweepBegin
    <2>2. \A r \in candidates : row[r] = "running"
      OBVIOUS
    <2> HIDE DEF candidates
    <2>3. sweep'.todo = candidates /\ sweep'.chosen = {} /\ sweep'.marked = {}
      BY <2>1 DEF NoSweep
    <2>4. UNCHANGED <<row, markers, waiting, aborts>> /\ aborts \in 0 .. MaxAborts
      BY <1>6 DEF SweepBegin, MarksInv
    <2>5. QED BY <2>2, <2>3, <2>4, SweepMoves
  <1>7. ASSUME NEW r \in Run, SweepTest(r) PROVE MarksInv'
    <2>1. /\ sweep'.todo = sweep.todo \ {r} /\ sweep'.chosen = {r} \ sweep.fresh
          /\ sweep'.marked = sweep.marked /\ sweep'.closed = sweep.closed /\ sweep'.lock = sweep.lock
          /\ r \in sweep.todo
      BY <1>0, <1>7 DEF SweepTest, RowsTyped
    <2>2. sweep'.chosen = {} \/ sweep'.chosen = {r}
      BY <2>1
    <2>3. UNCHANGED <<row, markers, waiting, aborts>> /\ aborts \in 0 .. MaxAborts
      BY <1>7 DEF SweepTest, MarksInv
    <2>4. \A q \in Run : q \in sweep.marked /\ row[q] = "running" => q \in sweep.closed
      BY DEF MarksInv, Marks
    <2>5. sweep.marked # {} => sweep.lock
      BY DEF MarksInv
    <2>6. QED BY <2>1, <2>2, <2>3, <2>4, <2>5, SweepMoves
  <1>8. ASSUME NEW r \in Run, SweepClose(r) PROVE MarksInv'
    <2>1. /\ sweep'.todo = sweep.todo /\ sweep'.chosen = {} /\ sweep'.lock = TRUE
          /\ sweep'.marked = sweep.marked \cup ({r} \cap evented)
          /\ sweep'.closed = (IF row[r] = "running" THEN sweep.closed \cup {r} ELSE sweep.closed)
          /\ r \in sweep.chosen
      BY <1>0, <1>8 DEF SweepClose, RowsTyped
    <2>2. UNCHANGED <<row, markers, waiting, aborts>> /\ aborts \in 0 .. MaxAborts
      BY <1>8 DEF SweepClose, MarksInv
    <2>3. \A q \in Run : q \in sweep.marked /\ row[q] = "running" => q \in sweep.closed
      BY DEF MarksInv, Marks
    <2>4. QED BY <2>1, <2>2, <2>3, SweepMoves
  <1>9. CASE SweepCommit
    <2>1. /\ row' = [r \in Run |-> IF r \in sweep.closed THEN "failed" ELSE row[r]]
          /\ markers' = [r \in Run |-> IF r \in sweep.marked THEN markers[r] + 1 ELSE markers[r]]
          /\ sweep' = NoSweep /\ UNCHANGED <<waiting, aborts>>
      BY <1>9 DEF SweepCommit
    <2>2. ASSUME NEW r \in Run PROVE Marks(r)'
      <3>1. Marks(r)
        BY DEF MarksInv
      <3>2. r \in sweep.marked => markers'[r] \in 1 .. 2 /\ row'[r] \notin {"none", "running"}
        <4>1. r \in sweep.marked => markers[r] \in {0, 1} /\ markers'[r] = markers[r] + 1
          BY <2>1, <3>1 DEF Marks
        <4>2. r \in sweep.marked => row'[r] \notin {"none", "running"}
          BY <2>1, <3>1 DEF Marks
        <4>3. QED BY <4>1, <4>2
      <3>3. r \notin sweep.marked => markers'[r] = markers[r]
        BY <2>1
      <3>4. row'[r] \in {"none", "running"} => row[r] \in {"none", "running"}
        BY <2>1
      <3>5. r \notin sweep'.todo \cup sweep'.chosen \cup sweep'.marked
        BY <2>1, NoSweepType
      <3>6. QED BY <3>1, <3>2, <3>3, <3>4, <3>5 DEF Marks
    <2>3. QED BY <2>1, <2>2, NoSweepType DEF MarksInv
  <1>10. CASE SweepAbort
    <2>1. sweep' = NoSweep /\ aborts' = aborts + 1 /\ aborts < MaxAborts /\ UNCHANGED <<row, markers, waiting>>
      BY <1>10 DEF SweepAbort
    <2>2. aborts' \in 0 .. MaxAborts
      BY <2>1, RunAssumption DEF MarksInv
    <2>3. QED BY <2>1, <2>2, NoSweepType, SweepMoves
  <1>11. QED
    BY <1>1, <1>2, <1>3, <1>4, <1>5, <1>6, <1>7, <1>8, <1>9, <1>10 DEF RunNext, Sweep

LEMMA MarksStart == RunInit => MarksInv
  BY NoSweepType, RunAssumption DEF RunInit, MarksInv, Marks

LEMMA RunTyped == RowsInv /\ MarksInv => RunTypeOK
  <1> SUFFICES ASSUME RowsInv, MarksInv PROVE RunTypeOK
    OBVIOUS
  <1>1. markers \in [Run -> 0 .. 2]
    BY DEF RowsInv, RowsTyped, MarksInv, Marks
  <1>2. Cardinality(sweep.chosen) <= 1
    <2>1. CASE sweep.chosen = {}
      BY <2>1, FS_EmptySet
    <2>2. ASSUME NEW r \in Run, sweep.chosen = {r} PROVE Cardinality(sweep.chosen) <= 1
      BY <2>2, FS_Singleton
    <2>3. QED BY <2>1, <2>2 DEF MarksInv
  <1>3. QED BY <1>1, <1>2 DEF RowsInv, RowsTyped, SweepAccount, MarksInv, RunTypeOK

(* The webhook server decides every event by the first route, top to       *)
(* bottom, that matches it and names an agent, whatever PATCH, DELETE and  *)
(* POST requests have made of the table (route_event); and the checks of a *)
(* scheduled health check under way at a time stay within the bound that   *)
(* its interval and its limit fix, however long the loop was blocked       *)
(* (HealthScheduler).                                                      *)
THEOREM WebhookIsKept == Spec => []WebhookKept
  <1>1. Init => HookInv /\ ChecksInv
    BY HookStart, ChecksStart DEF Init
  <1>2. [Next]_vars => [HookNext]_hookVars /\ [HealthNext]_healthVars
    BY DEF Next, vars, OnlySchema, OnlyPool, OnlyRun, OnlyLive, OnlyHook, OnlyHealth
  <1>3. HookInv => OneRouteDecides
    <2> SUFFICES ASSUME HookInv, NEW pr \in Pr, NEW cmds \in SeqOf(Command, 2)
                 PROVE  LET able == {i \in DOMAIN routes :
                                        pr \in routes[i].prs /\ Decisions(routes[i], cmds) # <<>>}
                        IN  Routed(cmds, pr) = IF able = {} THEN <<>> ELSE Decisions(routes[Min(able)], cmds)
      BY DEF OneRouteDecides
    <2>1. routes \in Seq(Route)
      BY DEF HookInv
    <2>2. QED BY <2>1, FirstAble
  <1>4. HookInv /\ ChecksInv => WebhookKept
    BY <1>3, FewChecks DEF WebhookKept
  <1>5. QED BY <1>1, <1>2, <1>4, HookStep, ChecksStep, PTL DEF Spec

(***************************************************************************)
(* The types of all parts.                                                 *)
(***************************************************************************)
LEMMA PartStarts ==
    ASSUME Init
    PROVE  PollInv /\ PoolInv /\ RowsInv /\ ColumnsKept
  <1>1. ColumnsKept
    BY SchemaAssumption DEF Init, SchemaInit, ColumnsKept, Ended
  <1>2. QED BY <1>1, PollStart, PoolStart, RunStart DEF Init

(* What a part's steps never exceed: the events of a run, the tasks that   *)
(* wait.                                                                   *)
Bounded == committed \in 0 .. MaxEvents /\ queued \in 0 .. MaxTasks

LEMMA BoundedStep == Bounded /\ [Next]_vars => Bounded'
  <1> SUFFICES ASSUME Bounded, [Next]_vars PROVE Bounded'
    OBVIOUS
  <1>1. [LiveNext]_liveVars /\ [PoolNext]_poolVars
    BY DEF Next, vars, OnlySchema, OnlyPool, OnlyRun, OnlyLive, OnlyHook, OnlyHealth
  <1>2. committed' \in 0 .. MaxEvents
    <2>1. committed' = committed \/ (committed < MaxEvents /\ committed' = committed + 1)
      BY <1>1 DEF LiveNext, liveVars, Poll, InsertRow, CommitEvent, CloseRow, OpenPage,
                  ReadEvents, ReadStatus, Send, Disconnect
    <2>2. QED BY <2>1, LiveAssumption DEF Bounded
  <1>3. queued' \in 0 .. MaxTasks
    <2>1. \/ queued' = queued
          \/ queued < MaxTasks /\ queued' = queued + 1
          \/ queued > 0 /\ queued' = queued - 1
      BY <1>1 DEF PoolNext, poolVars, Reconcile, Work, SetPool, DropPool, Arrive, CountTasks,
                  CountWorkers, SpawnWorker, MarkDead, Register, Beat, Take, FinishTask, IdleOut, Die
    <2>2. QED BY <2>1, PoolAssumption DEF Bounded
  <1>4. QED BY <1>2, <1>3 DEF Bounded

(* Every part keeps its types; with them: a run's row is marked closed from *)
(* outside at most twice, the sweeper holds the write lock when it has      *)
(* closed a row (_sweep_once), the live page shows no event that is not     *)
(* there (ws_live), the API's table repeats no name but the file's own      *)
(* (create_route), and no health check gets much older than its limit.      *)
THEOREM ServicesAreTyped == Spec => []ServicesTypeOK
  <1> DEFINE Inv == /\ PollInv /\ PoolInv /\ RowsInv /\ ColumnsKept
                    /\ MarksInv /\ HookInv /\ ChecksInv /\ Bounded
  <1>1. Init => Inv
    <2>1. Init => Bounded
      BY LiveAssumption, PoolAssumption DEF Init, LiveInit, PoolInit, Bounded
    <2>2. QED BY <2>1, PartStarts, MarksStart, HookStart, ChecksStart DEF Init
  <1>2. Inv /\ [Next]_vars => Inv'
    <2> SUFFICES ASSUME Inv, [Next]_vars PROVE Inv'
      OBVIOUS
    <2>1. /\ [SchemaNext]_schemaVars /\ [PoolNext]_poolVars /\ [RunNext]_runVars
          /\ [LiveNext]_liveVars /\ [HookNext]_hookVars /\ [HealthNext]_healthVars
      BY DEF Next, vars, OnlySchema, OnlyPool, OnlyRun, OnlyLive, OnlyHook, OnlyHealth
    <2>2. RowsInv'
      BY <2>1, RowsStep
    <2>3. QED
      BY <2>1, <2>2, PollStep, PoolStep, SchemaStep, MarksStep, HookStep, ChecksStep, BoundedStep
  <1>3. Inv => ServicesTypeOK
    <2> SUFFICES ASSUME Inv PROVE ServicesTypeOK
      OBVIOUS
    <2>1. SchemaTypeOK
      BY Statements DEF ColumnsKept, SchemaTypeOK
    <2>2. PoolTypeOK
      BY DEF PoolInv, PoolTyped, PoolTypeOK, Bounded
    <2>3. LiveTypeOK
      BY DEF PollInv, PollTyped, LiveTypeOK, Bounded
    <2>4. HookTypeOK
      <3>1. \A j \in DOMAIN jobs : jobs[j].agent \in Agent
        <4>1. jobs \in Seq(JobsOf)
          BY DEF HookInv
        <4>2. \A j \in DOMAIN jobs : jobs[j] \in JobsOf
          BY <4>1, ElementOfSeq
        <4>3. QED BY <4>2 DEF JobsOf
      <3>2. QED BY <3>1 DEF HookInv, OwnNames, HookTypeOK
    <2>5. HealthTypeOK
      BY DEF ChecksInv, HealthTypeOK
    <2>6. QED BY <2>1, <2>2, <2>3, <2>4, <2>5, RunTyped DEF ServicesTypeOK
  <1> HIDE DEF Inv
  <1>4. QED BY <1>1, <1>2, <1>3, PTL DEF Spec

==============================================================================
