--------------------------- MODULE DiscoveryProofs ---------------------------
(***************************************************************************)
(* Proofs about the planner's halves.  Discovery, for every set of         *)
(* sweepers, branches and commits and every crash: the types, what a row   *)
(* of the ledger promises, and that a sweeper which does not die plans a   *)
(* commit once.  Schedules, for every set of files and servers: what an    *)
(* import that nobody disturbed leaves in the table of configs.            *)
(***************************************************************************)
EXTENDS Planner, DataInduction

PlanRow == [cell : Cell, tasks : 0 .. Cells, by : Sweeper, mode : {"auto", "on_demand"}]
SweepState == [at : {"idle", "pick", "gap", "insert", "fan"}, mode : {"auto", "on_demand"},
               todo : SUBSET Cell, cell : Cell \cup {NoCommit}, plan : Nat]

(* The types, with the plans as a sequence.                                *)
Typed ==
    /\ mode \in Modes
    /\ head \in [Lineage -> Commit \cup {NoCommit}]
    /\ pushed \subseteq Commit
    /\ plans \in Seq(PlanRow)
    /\ ledger \in [Cell -> [plan : Nat, age : Nat]]
    /\ sweep \in [Sweeper -> SweepState]

(* Indices point to rows: the ledger's, and that of a sweep which fans out *)
(* the tasks of the plan it has inserted.                                  *)
Linked ==
    /\ \A c \in Cell : ledger[c].plan <= Len(plans)
    /\ \A s \in Sweeper :
          /\ sweep[s].at \in {"gap", "insert", "fan"} => sweep[s].cell \in Cell
          /\ sweep[s].at = "fan" =>
                /\ sweep[s].plan \in 1 .. Len(plans)
                /\ plans[sweep[s].plan].cell = sweep[s].cell

ByAuto(i, s) == plans[i].by = s /\ plans[i].mode = "auto"

(* Why a sweeper repeats no plan: a plan of its own that is not in the     *)
(* ledger yet is the one it is fanning out, so a commit that passed its    *)
(* test of the ledger has none.                                            *)
Accounted ==
    \A s \in Sweeper \ Crashing : \A i \in DOMAIN plans : ByAuto(i, s) =>
        /\ Recorded(plans[i].cell) \/ (sweep[s].at = "fan" /\ sweep[s].plan = i)
        /\ sweep[s].at \in {"gap", "insert"} /\ sweep[s].mode = "auto"
              => plans[i].cell # sweep[s].cell

Inv == Typed /\ Linked /\ LedgerMeansComplete
OnceInv == Accounted /\ OncePerSweeper

------------------------------------------------------------------------------
LEMMA DiscoveryInit == Init => Inv /\ OnceInv
  <1> SUFFICES ASSUME Init PROVE Inv /\ OnceInv
    OBVIOUS
  <1> USE DiscoveryAssumption
  <1>1. Typed
    BY DEF Init, Typed, NoRow, Idle, SweepState
  <1>2. Linked /\ LedgerMeansComplete
    BY DEF Init, Linked, LedgerMeansComplete, Recorded, NoRow, Idle
  <1>3. Accounted /\ OncePerSweeper
    BY DEF Init, Accounted, OncePerSweeper
  <1>4. QED BY <1>1, <1>2, <1>3 DEF Inv, OnceInv

(* What the sweep of s leaves behind when it is done with a branch.        *)
LEMMA AfterCellType ==
    ASSUME Typed, NEW s \in Sweeper
    PROVE  /\ AfterCell(s) \in SweepState
           /\ AfterCell(s).at \in {"idle", "pick"}
           /\ Idle \in SweepState /\ Idle.at = "idle"
  BY DEF Typed, SweepState, AfterCell, Idle

(* Steps that change one sweep only and do not reach the fan-out.          *)
LEMMA SweepMoves ==
    ASSUME Inv, NEW s \in Sweeper, NEW r \in SweepState,
           sweep' = [sweep EXCEPT ![s] = r],
           r.at \in {"gap", "insert"} => r.cell \in Cell,
           r.at # "fan",
           UNCHANGED <<mode, head, pushed, plans, ledger>>
    PROVE  Inv'
  <1>1. Typed'
    BY DEF Inv, Typed
  <1>2. Linked'
    BY DEF Inv, Linked, Typed
  <1>3. LedgerMeansComplete'
    BY DEF Inv, LedgerMeansComplete, Recorded
  <1>4. QED BY <1>1, <1>2, <1>3 DEF Inv

------------------------------------------------------------------------------
(* Every step keeps the types, the links and the promise of the ledger.    *)
LEMMA InvSweep ==
    ASSUME Inv, NEW s \in Sweeper, SweepStep(s)
    PROVE  Inv'
  <1> USE DiscoveryAssumption
  <1>0. sweep[s] \in SweepState
    BY DEF Inv, Typed
  <1>1. CASE BeginSweep(s)
    <2> DEFINE r == [sweep[s] EXCEPT !.at = "pick",
                       !.todo = {<<l, head[l]>> : l \in {k \in Lineage : head[k] # NoCommit}}]
    <2>1. {<<l, head[l]>> : l \in {k \in Lineage : head[k] # NoCommit}} \subseteq Cell
      BY DEF Inv, Typed, Cell
    <2>2. r \in SweepState /\ r.at = "pick"
      BY <1>0, <2>1 DEF SweepState
    <2>3. sweep' = [sweep EXCEPT ![s] = r]
      BY <1>1 DEF BeginSweep, Inv, Typed
    <2>4. QED BY <1>1, <2>2, <2>3, SweepMoves DEF BeginSweep
  <1>2. CASE CheckLedger(s)
    <2>1. CASE sweep' = [sweep EXCEPT ![s] = Idle]
      BY <1>2, <2>1, SweepMoves, AfterCellType DEF CheckLedger, Inv
    <2>2. ASSUME NEW c \in sweep[s].todo, NEW left, left = [sweep[s] EXCEPT !.todo = @ \ {c}],
                 sweep' = [sweep EXCEPT ![s] =
                            IF Recorded(c) THEN left
                            ELSE [left EXCEPT !.at = IF MinGap > 0 THEN "gap" ELSE "insert",
                                              !.cell = c]]
          PROVE Inv'
      <3>0. c \in Cell /\ sweep[s].at = "pick" /\ UNCHANGED <<mode, head, pushed, plans, ledger>>
        BY <1>0, <1>2 DEF SweepState, CheckLedger, At
      <3>1. left \in SweepState /\ left.at = "pick"
        BY <1>0, <2>2, <3>0 DEF SweepState
      <3>2. CASE Recorded(c)
        BY <2>2, <3>0, <3>1, <3>2, SweepMoves
      <3>3. CASE ~Recorded(c)
        <4> DEFINE r == [left EXCEPT !.at = IF MinGap > 0 THEN "gap" ELSE "insert", !.cell = c]
        <4>1. r \in SweepState /\ r.cell = c /\ r.at # "fan"
          BY <3>0, <3>1 DEF SweepState
        <4>2. QED BY <2>2, <3>0, <3>3, <4>1, SweepMoves
      <3>4. QED BY <3>2, <3>3
    <2>3. QED BY <1>2, <2>1, <2>2 DEF CheckLedger
  <1>3. CASE CheckGap(s)
    <2>1. CASE NextCell(s)
      BY <1>3, <2>1, SweepMoves, AfterCellType DEF CheckGap, NextCell, Inv
    <2>2. CASE sweep' = [sweep EXCEPT ![s].at = "insert"]
      <3> DEFINE r == [sweep[s] EXCEPT !.at = "insert"]
      <3>1. r \in SweepState /\ r.at = "insert" /\ r.cell \in Cell
        BY <1>0, <1>3 DEF SweepState, CheckGap, At, Inv, Linked
      <3>2. sweep' = [sweep EXCEPT ![s] = r]
        BY <2>2 DEF Inv, Typed
      <3>3. QED BY <1>3, <3>1, <3>2, SweepMoves DEF CheckGap
    <2>3. QED BY <1>3, <2>1, <2>2 DEF CheckGap
  <1>4. CASE InsertPlan(s)
    <2> DEFINE p == [cell |-> sweep[s].cell, tasks |-> 0, by |-> s, mode |-> sweep[s].mode]
    <2>1. p \in PlanRow /\ plans \in Seq(PlanRow) /\ sweep[s].cell \in Cell
      BY <1>0, <1>4 DEF InsertPlan, At, Inv, Linked, Typed, SweepState, PlanRow
    <2>2. /\ plans' = Append(plans, p) /\ plans' \in Seq(PlanRow)
          /\ Len(plans') = Len(plans) + 1 /\ plans'[Len(plans) + 1] = p
          /\ \A i \in 1 .. Len(plans) : plans'[i] = plans[i]
      BY <1>4, <2>1 DEF InsertPlan
    <2> HIDE DEF p
    <2>3. sweep' \in [Sweeper -> SweepState]
      <3> DEFINE r == [sweep[s] EXCEPT !.at = "fan", !.plan = Len(plans) + 1]
      <3>0. Len(plans) + 1 \in Nat
        BY <2>1
      <3>1. r \in SweepState
        BY <1>0, <3>0 DEF SweepState
      <3>2. sweep' = [sweep EXCEPT ![s] = r]
        BY <1>4 DEF InsertPlan, Inv, Typed
      <3> HIDE DEF r
      <3>3. QED BY <3>1, <3>2 DEF Inv, Typed
    <2>4. Typed'
      BY <1>4, <2>2, <2>3 DEF InsertPlan, Inv, Typed
    <2>5. ledger' = ledger /\ \A c \in Cell : ledger'[c].plan \in 0 .. Len(plans)
      BY <1>4, <2>1 DEF InsertPlan, Inv, Linked, Typed
    <2>6. /\ sweep'[s].at = "fan" /\ sweep'[s].plan = Len(plans) + 1
          /\ sweep'[s].cell = sweep[s].cell
          /\ \A t \in Sweeper \ {s} : sweep'[t] = sweep[t]
      BY <1>0, <1>4 DEF InsertPlan, Inv, Typed, SweepState
    <2>7. p.cell = sweep[s].cell
      BY DEF p
    <2>8. Linked'
      <3>1. \A c \in Cell : ledger'[c].plan <= Len(plans')
        BY <2>1, <2>2, <2>5
      <3>2. ASSUME NEW t \in Sweeper
            PROVE  /\ sweep'[t].at \in {"gap", "insert", "fan"} => sweep'[t].cell \in Cell
                   /\ sweep'[t].at = "fan" =>
                        /\ sweep'[t].plan \in 1 .. Len(plans')
                        /\ plans'[sweep'[t].plan].cell = sweep'[t].cell
        BY <2>1, <2>2, <2>6, <2>7 DEF Inv, Linked
      <3>3. QED BY <3>1, <3>2 DEF Linked
    <2>9. LedgerMeansComplete'
      BY <2>1, <2>2, <2>5 DEF Inv, LedgerMeansComplete, Recorded
    <2>10. QED BY <2>4, <2>8, <2>9 DEF Inv
  <1>5. CASE FanOut(s)
    <2> DEFINE i == sweep[s].plan
    <2>1. i \in 1 .. Len(plans) /\ plans \in Seq(PlanRow) /\ plans[i] \in PlanRow
      BY <1>5 DEF FanOut, At, Inv, Linked, Typed
    <2>2. /\ plans' = [plans EXCEPT ![i].tasks = @ + 1] /\ plans[i].tasks < Cells
          /\ UNCHANGED <<mode, head, pushed, ledger, sweep>>
      BY <1>5 DEF FanOut
    <2>3. /\ [plans[i] EXCEPT !.tasks = @ + 1] \in PlanRow
          /\ plans' = [plans EXCEPT ![i] = [plans[i] EXCEPT !.tasks = @ + 1]]
      <3>1. plans[i].tasks + 1 \in 0 .. Cells
        BY <2>1, <2>2 DEF PlanRow
      <3>2. QED BY <2>1, <2>2, <3>1 DEF PlanRow
    <2>4. /\ plans' \in Seq(PlanRow) /\ Len(plans') = Len(plans)
          /\ \A j \in 1 .. Len(plans) : plans'[j].cell = plans[j].cell
          /\ \A j \in 1 .. Len(plans) : j # i => plans'[j] = plans[j]
      BY <2>1, <2>3 DEF PlanRow
    <2>5. Typed' /\ Linked'
      BY <2>2, <2>4 DEF Inv, Typed, Linked
    <2>6. \A c \in Cell : Recorded(c) => ledger[c].plan \in 1 .. Len(plans) /\ ledger[c].plan # i
      BY <2>1, <2>2 DEF Inv, Typed, Linked, LedgerMeansComplete, Recorded
    <2>7. LedgerMeansComplete'
      BY <2>2, <2>4, <2>6 DEF Inv, LedgerMeansComplete, Recorded
    <2>8. QED BY <2>5, <2>7 DEF Inv
  <1>6. CASE Record(s)
    <2>1. /\ sweep[s].cell \in Cell /\ sweep[s].plan \in 1 .. Len(plans)
          /\ plans[sweep[s].plan].cell = sweep[s].cell /\ plans[sweep[s].plan].tasks = Cells
      BY <1>6 DEF Record, At, Inv, Linked
    <2>2. /\ \A c \in Cell : ledger'[c] = ledger[c] \/ (c = sweep[s].cell /\ ledger'[c].plan = sweep[s].plan)
          /\ ledger' \in [Cell -> [plan : Nat, age : Nat]]
      BY <1>6, <2>1 DEF Record, Inv, Typed
    <2>3. /\ sweep' \in [Sweeper -> SweepState] /\ sweep'[s].at \in {"idle", "pick"}
          /\ \A t \in Sweeper \ {s} : sweep'[t] = sweep[t]
      BY <1>6, AfterCellType DEF Record, NextCell, Inv, Typed
    <2>4. UNCHANGED <<mode, head, pushed, plans>>
      BY <1>6 DEF Record
    <2>5. Typed'
      BY <2>2, <2>3, <2>4 DEF Inv, Typed
    <2>6. Linked'
      <3>1. \A c \in Cell : ledger'[c].plan <= Len(plans)
        <4>1. sweep[s].plan <= Len(plans) /\ \A c \in Cell : ledger[c].plan <= Len(plans)
          BY <2>1 DEF Inv, Linked
        <4>2. QED BY <2>2, <4>1
      <3>2. QED BY <2>3, <2>4, <3>1 DEF Inv, Linked
    <2>7. LedgerMeansComplete'
      BY <2>1, <2>2, <2>4 DEF Inv, LedgerMeansComplete, Recorded
    <2>8. QED BY <2>5, <2>6, <2>7 DEF Inv
  <1>7. QED BY <1>1, <1>2, <1>3, <1>4, <1>5, <1>6 DEF SweepStep

LEMMA InvStep == Inv /\ [Next]_vars => Inv'
  <1> SUFFICES ASSUME Inv, [Next]_vars PROVE Inv'
    OBVIOUS
  <1>1. CASE UNCHANGED vars
    BY <1>1 DEF vars, Inv, Typed, Linked, LedgerMeansComplete, Recorded
  <1>2. ASSUME NEW l \in Lineage, NEW sha \in Commit, Push(l, sha) PROVE Inv'
    BY <1>2 DEF Push, Inv, Typed, Linked, LedgerMeansComplete, Recorded
  <1>3. ASSUME NEW m \in Modes \ {mode}, SetMode(m) PROVE Inv'
    BY <1>3 DEF SetMode, Inv, Typed, Linked, LedgerMeansComplete, Recorded
  <1>4. ASSUME NEW s \in Sweeper, SweepStep(s) PROVE Inv'
    BY <1>4, InvSweep
  <1>5. ASSUME NEW s \in Sweeper, Crash(s) PROVE Inv'
    BY <1>5, SweepMoves, AfterCellType DEF Crash, Inv
  <1>6. ASSUME NEW s \in Sweeper, NEW c \in Cell, Fire(s, c) PROVE Inv'
    <2> DEFINE r == [Idle EXCEPT !.at = "insert", !.mode = mode, !.cell = c]
    <2>1. mode \in {"auto", "on_demand"}
      BY DiscoveryAssumption DEF Inv, Typed
    <2>2. r \in SweepState /\ r.at = "insert" /\ r.cell = c
      BY <2>1 DEF Idle, SweepState
    <2>3. QED BY <1>6, <2>2, SweepMoves DEF Fire
  <1>7. CASE Tick
    <2>1. /\ ledger' \in [Cell -> [plan : Nat, age : Nat]]
          /\ \A c \in Cell : ledger'[c].plan = ledger[c].plan
      BY <1>7 DEF Tick, Inv, Typed
    <2>2. QED BY <1>7, <2>1 DEF Tick, Inv, Typed, Linked, LedgerMeansComplete, Recorded
  <1>8. QED BY <1>1, <1>2, <1>3, <1>4, <1>5, <1>6, <1>7 DEF Next

------------------------------------------------------------------------------
LEMMA PlanCells ==
    ASSUME Inv, NEW i \in DOMAIN plans
    PROVE  plans[i].cell \in Cell
  <1>1. plans \in Seq(PlanRow) /\ i \in 1 .. Len(plans)
    BY DEF Inv, Typed
  <1>2. plans[i] \in PlanRow
    BY <1>1
  <1>3. QED BY <1>2 DEF PlanRow

(* A step of t that creates no plan keeps OnceInv when t's own plans stay  *)
(* accounted for.                                                          *)
LEMMA OwnPlansOnly ==
    ASSUME Inv, OnceInv, NEW t \in Sweeper,
           DOMAIN plans' = DOMAIN plans,
           \A i \in DOMAIN plans : /\ plans'[i].cell = plans[i].cell
                                   /\ plans'[i].by = plans[i].by
                                   /\ plans'[i].mode = plans[i].mode,
           \A c \in Cell : ledger[c].plan # 0 => ledger'[c].plan # 0,
           \A s \in Sweeper \ {t} : sweep'[s] = sweep[s],
           t \notin Crashing => \A i \in DOMAIN plans : ByAuto(i, t) =>
              /\ ledger'[plans[i].cell].plan # 0 \/ (sweep'[t].at = "fan" /\ sweep'[t].plan = i)
              /\ sweep'[t].at \in {"gap", "insert"} /\ sweep'[t].mode = "auto"
                    => plans[i].cell # sweep'[t].cell
    PROVE  OnceInv'
  <1>1. OncePerSweeper'
    BY DEF OnceInv, OncePerSweeper
  <1>2. \A i \in DOMAIN plans : plans[i].cell \in Cell
    BY PlanCells
  <1>3. ASSUME NEW s \in Sweeper \ Crashing, NEW i \in DOMAIN plans', ByAuto(i, s)'
        PROVE  /\ ledger'[plans'[i].cell].plan # 0 \/ (sweep'[s].at = "fan" /\ sweep'[s].plan = i)
               /\ sweep'[s].at \in {"gap", "insert"} /\ sweep'[s].mode = "auto"
                     => plans'[i].cell # sweep'[s].cell
    <2>1. i \in DOMAIN plans /\ ByAuto(i, s)
      BY <1>3 DEF ByAuto
    <2>2. CASE s = t
      BY <1>3, <2>1, <2>2
    <2>3. CASE s # t
      BY <1>2, <2>1, <2>3 DEF OnceInv, Accounted, Recorded
    <2>4. QED BY <2>2, <2>3
  <1>4. Accounted'
    BY <1>3 DEF Accounted, ByAuto, Recorded
  <1>5. QED BY <1>1, <1>4 DEF OnceInv

(* The steps of a sweep other than the insertion of a plan: a sweeper that *)
(* is not fanning out has all its automatic plans recorded.                *)
LEMMA OnceSweep ==
    ASSUME Inv, OnceInv, NEW s \in Sweeper, SweepStep(s)
    PROVE  InsertPlan(s) \/ OnceInv'
  <1>0. sweep[s] \in SweepState /\ sweep \in [Sweeper -> SweepState]
    BY DEF Inv, Typed
  <1>a. ~At(s, "fan") /\ s \notin Crashing =>
           \A i \in DOMAIN plans : ByAuto(i, s) => Recorded(plans[i].cell)
    BY DEF OnceInv, Accounted, At
  <1>1. CASE BeginSweep(s)
    <2>1. sweep'[s].at = "pick" /\ \A t \in Sweeper \ {s} : sweep'[t] = sweep[t]
      BY <1>0, <1>1 DEF BeginSweep, SweepState
    <2>2. UNCHANGED <<plans, ledger>> /\ ~At(s, "fan")
      BY <1>1 DEF BeginSweep, At
    <2>3. QED BY <1>a, <2>1, <2>2, OwnPlansOnly DEF Recorded
  <1>2. CASE CheckLedger(s)
    <2>1. UNCHANGED <<plans, ledger>> /\ At(s, "pick") /\ ~At(s, "fan")
      BY <1>2 DEF CheckLedger, At
    <2>2. \A t \in Sweeper \ {s} : sweep'[t] = sweep[t]
      BY <1>2 DEF CheckLedger, Inv, Typed
    <2>3. sweep'[s].at \in {"idle", "pick"} \/ ledger[sweep'[s].cell].plan = 0
      <3>1. CASE sweep' = [sweep EXCEPT ![s] = Idle]
        BY <1>0, <3>1 DEF Idle
      <3>2. ASSUME NEW c \in sweep[s].todo, NEW left, left = [sweep[s] EXCEPT !.todo = @ \ {c}],
                   sweep' = [sweep EXCEPT ![s] =
                              IF Recorded(c) THEN left
                              ELSE [left EXCEPT !.at = IF MinGap > 0 THEN "gap" ELSE "insert",
                                                !.cell = c]]
            PROVE  sweep'[s].at \in {"idle", "pick"} \/ ledger[sweep'[s].cell].plan = 0
        <4>1. left \in SweepState /\ left.at = "pick"
          BY <1>0, <2>1, <3>2 DEF SweepState, At
        <4>2. CASE Recorded(c)
          BY <1>0, <3>2, <4>1, <4>2
        <4>3. CASE ~Recorded(c)
          <5> DEFINE r == [left EXCEPT !.at = IF MinGap > 0 THEN "gap" ELSE "insert", !.cell = c]
          <5>1. r.cell = c
            BY <4>1 DEF SweepState
          <5>2. sweep'[s] = r
            BY <1>0, <3>2, <4>3
          <5> HIDE DEF r
          <5>3. QED BY <4>3, <5>1, <5>2 DEF Recorded
        <4>4. QED BY <4>2, <4>3
      <3>3. QED BY <1>2, <3>1, <3>2 DEF CheckLedger
    <2>4. QED BY <1>a, <2>1, <2>2, <2>3, OwnPlansOnly DEF Recorded
  <1>3. CASE CheckGap(s)
    <2>1. UNCHANGED <<plans, ledger>> /\ At(s, "gap") /\ ~At(s, "fan")
      BY <1>3 DEF CheckGap, At
    <2>2. \A t \in Sweeper \ {s} : sweep'[t] = sweep[t]
      BY <1>3 DEF CheckGap, NextCell, Inv, Typed
    <2>3. \/ sweep'[s].at \in {"idle", "pick"}
          \/ sweep'[s].cell = sweep[s].cell /\ sweep'[s].mode = sweep[s].mode
      BY <1>0, <1>3, AfterCellType DEF CheckGap, NextCell, Inv, SweepState
    <2>4. sweep[s].mode = "auto" /\ s \notin Crashing =>
             \A i \in DOMAIN plans : ByAuto(i, s) => plans[i].cell # sweep[s].cell
      BY <2>1 DEF OnceInv, Accounted, At
    <2>5. QED BY <1>a, <2>1, <2>2, <2>3, <2>4, OwnPlansOnly DEF Recorded
  <1>5. CASE FanOut(s)
    <2> DEFINE i == sweep[s].plan
    <2>1. i \in 1 .. Len(plans) /\ plans \in Seq(PlanRow) /\ plans[i] \in PlanRow
      BY <1>5 DEF FanOut, At, Inv, Linked, Typed
    <2>2. /\ plans' = [plans EXCEPT ![i].tasks = @ + 1]
          /\ UNCHANGED <<ledger, sweep>>
      BY <1>5 DEF FanOut
    <2>3. /\ DOMAIN plans' = DOMAIN plans
          /\ \A j \in DOMAIN plans : /\ plans'[j].cell = plans[j].cell
                                     /\ plans'[j].by = plans[j].by
                                     /\ plans'[j].mode = plans[j].mode
      BY <2>1, <2>2 DEF PlanRow
    <2>4. s \notin Crashing => \A j \in DOMAIN plans : ByAuto(j, s) =>
              /\ ledger'[plans[j].cell].plan # 0 \/ (sweep'[s].at = "fan" /\ sweep'[s].plan = j)
              /\ sweep'[s].at \notin {"gap", "insert"}
      BY <1>5, <2>2, <2>3 DEF OnceInv, Accounted, Recorded, FanOut, At
    <2> HIDE DEF i
    <2>5. \A t \in Sweeper \ {s} : sweep'[t] = sweep[t]
      BY <2>2
    <2>6. ledger' = ledger
      BY <2>2
    <2>7. QED BY <2>3, <2>4, <2>5, <2>6, OwnPlansOnly
  <1>6. CASE Record(s)
    <2>1. /\ At(s, "fan") /\ sweep[s].cell \in Cell /\ sweep[s].plan \in 1 .. Len(plans)
          /\ plans[sweep[s].plan].cell = sweep[s].cell /\ UNCHANGED plans
      BY <1>6 DEF Record, At, Inv, Linked
    <2>2. ledger \in [Cell -> [plan : Nat, age : Nat]] /\ sweep[s].plan # 0
      BY <2>1 DEF Inv, Typed
    <2>3. /\ ledger'[sweep[s].cell].plan # 0
          /\ \A c \in Cell \ {sweep[s].cell} : ledger'[c] = ledger[c]
      BY <1>6, <2>1, <2>2 DEF Record, Recorded
    <2>4. /\ sweep'[s].at \in {"idle", "pick"}
          /\ \A t \in Sweeper \ {s} : sweep'[t] = sweep[t]
      BY <1>0, <1>6, AfterCellType DEF Record, NextCell, Inv
    <2>5. s \notin Crashing => \A i \in DOMAIN plans : ByAuto(i, s) => ledger'[plans[i].cell].plan # 0
      <3> SUFFICES ASSUME s \notin Crashing, NEW i \in DOMAIN plans, ByAuto(i, s)
                   PROVE  ledger'[plans[i].cell].plan # 0
        OBVIOUS
      <3>1. plans[i].cell \in Cell
        BY PlanCells
      <3>2. ledger[plans[i].cell].plan # 0 \/ plans[i].cell = sweep[s].cell
        BY <2>1 DEF OnceInv, Accounted, Recorded
      <3>3. QED BY <2>3, <3>1, <3>2
    <2>6. \A c \in Cell : ledger[c].plan # 0 => ledger'[c].plan # 0
      BY <2>3
    <2>7. QED BY <2>1, <2>4, <2>5, <2>6, OwnPlansOnly
  <1>7. QED BY <1>1, <1>2, <1>3, <1>5, <1>6 DEF SweepStep

(* A new plan: its sweeper has passed the test of the ledger, so none of   *)
(* its automatic plans is for the same commit.                             *)
LEMMA OnceInsert ==
    ASSUME Inv, Inv', OnceInv, NEW s \in Sweeper, InsertPlan(s)
    PROVE  OnceInv'
  <1> DEFINE n == Len(plans) + 1
             p == [cell |-> sweep[s].cell, tasks |-> 0, by |-> s, mode |-> sweep[s].mode]
  <1>1. /\ At(s, "insert") /\ sweep[s] \in SweepState /\ plans \in Seq(PlanRow) /\ p \in PlanRow
        /\ ledger' = ledger
    BY DiscoveryAssumption DEF InsertPlan, At, Inv, Linked, Typed, SweepState, PlanRow
  <1>2. /\ DOMAIN plans' = DOMAIN plans \cup {n} /\ n \notin DOMAIN plans /\ plans'[n] = p
        /\ \A i \in DOMAIN plans : plans'[i] = plans[i]
    <2>1. plans' = Append(plans, p)
      BY DEF InsertPlan
    <2> HIDE DEF p
    <2>2. QED BY <1>1, <2>1
  <1>3. p.cell = sweep[s].cell /\ p.by = s /\ p.mode = sweep[s].mode
    OBVIOUS
  <1>4. /\ sweep'[s].at = "fan" /\ sweep'[s].plan = n
        /\ \A t \in Sweeper \ {s} : sweep'[t] = sweep[t]
    BY <1>1 DEF InsertPlan, Inv, Typed, SweepState
  <1> HIDE DEF n, p
  <1>5. s \notin Crashing => \A i \in DOMAIN plans : ByAuto(i, s) =>
           /\ ledger[plans[i].cell].plan # 0
           /\ sweep[s].mode = "auto" => plans[i].cell # sweep[s].cell
    BY <1>1 DEF OnceInv, Accounted, Recorded, At
  <1>6. Accounted'
    <2> SUFFICES ASSUME NEW t \in Sweeper \ Crashing, NEW i \in DOMAIN plans',
                        plans'[i].by = t, plans'[i].mode = "auto"
                 PROVE  /\ ledger'[plans'[i].cell].plan # 0 \/ (sweep'[t].at = "fan" /\ sweep'[t].plan = i)
                        /\ sweep'[t].at \in {"gap", "insert"} /\ sweep'[t].mode = "auto"
                              => plans'[i].cell # sweep'[t].cell
      BY DEF Accounted, ByAuto, Recorded
    <2>1. CASE i = n
      BY <1>2, <1>3, <1>4, <2>1
    <2>2. CASE i \in DOMAIN plans /\ t = s
      BY <1>1, <1>2, <1>4, <1>5, <2>2 DEF ByAuto
    <2>3. CASE i \in DOMAIN plans /\ t # s
      BY <1>1, <1>2, <1>4, <2>3 DEF OnceInv, Accounted, ByAuto, Recorded
    <2>4. QED BY <1>2, <2>1, <2>2, <2>3
  <1>7. OncePerSweeper'
    <2> SUFFICES ASSUME NEW i \in DOMAIN plans', NEW j \in DOMAIN plans',
                        plans'[i].cell = plans'[j].cell, plans'[i].by = plans'[j].by,
                        plans'[i].by \notin Crashing,
                        plans'[i].mode = "auto", plans'[j].mode = "auto"
                 PROVE  i = j
      BY DEF OncePerSweeper
    <2>1. CASE i \in DOMAIN plans /\ j \in DOMAIN plans
      BY <1>2, <2>1 DEF OnceInv, OncePerSweeper
    <2>2. CASE i = n /\ j \in DOMAIN plans
      BY <1>2, <1>3, <1>5, <2>2 DEF ByAuto
    <2>3. CASE j = n /\ i \in DOMAIN plans
      BY <1>2, <1>3, <1>5, <2>3 DEF ByAuto
    <2>4. QED BY <1>2, <2>1, <2>2, <2>3
  <1>8. QED BY <1>6, <1>7 DEF OnceInv

LEMMA OnceStep == Inv /\ Inv' /\ OnceInv /\ [Next]_vars => OnceInv'
  <1> SUFFICES ASSUME Inv, Inv', OnceInv, [Next]_vars PROVE OnceInv'
    OBVIOUS
  <1>1. CASE UNCHANGED <<plans, ledger, sweep>>
    BY <1>1 DEF OnceInv, Accounted, OncePerSweeper, ByAuto, Recorded
  <1>2. ASSUME NEW s \in Sweeper, SweepStep(s) PROVE OnceInv'
    BY <1>2, OnceSweep, OnceInsert
  <1>3. ASSUME NEW s \in Sweeper, Crash(s) PROVE OnceInv'
    <2>1. s \in Crashing /\ UNCHANGED <<plans, ledger>>
      BY <1>3 DEF Crash
    <2>2. \A t \in Sweeper \ {s} : sweep'[t] = sweep[t]
      BY <1>3 DEF Crash, Inv, Typed
    <2>3. QED BY <2>1, <2>2, OwnPlansOnly
  <1>4. ASSUME NEW s \in Sweeper, NEW c \in Cell, Fire(s, c) PROVE OnceInv'
    <2> DEFINE r == [Idle EXCEPT !.at = "insert", !.mode = mode, !.cell = c]
    <2>1. /\ At(s, "idle") /\ UNCHANGED <<plans, ledger>>
          /\ mode = "on_demand" \/ ledger[c].plan = 0
      BY <1>4 DEF Fire, Recorded
    <2>2. r.at = "insert" /\ r.mode = mode /\ r.cell = c
      BY DEF Idle
    <2>3. sweep'[s] = r /\ \A t \in Sweeper \ {s} : sweep'[t] = sweep[t]
      BY <1>4 DEF Fire, Inv, Typed
    <2> HIDE DEF r
    <2>4. s \notin Crashing => \A i \in DOMAIN plans : ByAuto(i, s) => ledger[plans[i].cell].plan # 0
      BY <2>1 DEF OnceInv, Accounted, Recorded, At
    <2>5. QED BY <2>1, <2>2, <2>3, <2>4, OwnPlansOnly
  <1>5. CASE Tick
    <2>1. UNCHANGED <<plans, sweep>> /\ \A c \in Cell : ledger'[c].plan = ledger[c].plan
      BY <1>5 DEF Tick, Inv, Typed
    <2>2. \A i \in DOMAIN plans : plans[i].cell \in Cell
      BY PlanCells
    <2>3. QED BY <2>1, <2>2 DEF OnceInv, Accounted, OncePerSweeper, ByAuto, Recorded
  <1>6. QED BY <1>1, <1>2, <1>3, <1>4, <1>5 DEF Next, vars, Push, SetMode

------------------------------------------------------------------------------
(* Rows, ledger and sweeps keep their types (TypeOK).                      *)
THEOREM DiscoveryTypes == Spec => []TypeOK
  <1>1. Inv => TypeOK
    <2> SUFFICES ASSUME Inv PROVE TypeOK
      OBVIOUS
    <2>1. \A i \in DOMAIN plans : plans[i] \in PlanRow
      BY DEF Inv, Typed
    <2>2. QED BY <2>1 DEF Inv, Typed, TypeOK, PlanRow, SweepState
  <1>2. QED BY <1>1, DiscoveryInit, InvStep, PTL DEF Spec

(* A commit in the ledger has a plan with all its tasks, however many      *)
(* sweepers race and die (_create_plan, _record_planned).                  *)
THEOREM LedgerPromise == Spec => []LedgerMeansComplete
  <1>1. Inv => LedgerMeansComplete
    BY DEF Inv
  <1>2. QED BY <1>1, DiscoveryInit, InvStep, PTL DEF Spec

(* A sweeper that does not die plans a commit at most once in mode auto    *)
(* (_already_planned, _record_planned).                                    *)
THEOREM PlannedOnce == Spec => []OncePerSweeper
  <1>1. OnceInv => OncePerSweeper
    BY DEF OnceInv
  <1>2. QED BY <1>1, DiscoveryInit, InvStep, OnceStep, PTL DEF Spec

------------------------------------------------------------------------------
(***************************************************************************)
(* The schedules.  An import that has the table for itself keeps an        *)
(* account of it: its index says which config of each name is the newest,  *)
(* the definitions written so far have won, and a name without a config    *)
(* when the table was listed has only those it has created itself.         *)
(***************************************************************************)
ConfigRow == [name : ConfigName, rest : Sound \cup Unsound, on : BOOLEAN,
              origin : {"import", "race", "operator", "renamed"}]
Table == Seq({Gone} \cup ConfigRow)
Sounding == [name : ConfigName, rest : Sound \cup Unsound, on : BOOLEAN]
ImportState == [at : {"down", "up", "list", "upsert"}, defs : Seq(Sounding), next : Nat,
                index : {<<>>} \cup [ConfigName -> Nat], failed : SUBSET Nat, alone : BOOLEAN]

\* The newest row of a name in a table, 0 if there is none.
Newest(name, table) ==
    LET ids == {i \in DOMAIN table : table[i].name = name}
    IN IF ids = {} THEN 0 ELSE CHOOSE i \in ids : \A j \in ids : j <= i

\* A row does not lose the name an import found it under, unless it is deleted or an
\* operator renames it.
Pointing(r, table) ==
    r.at = "upsert" => \A n \in ConfigName : r.index[n] # 0 =>
        /\ r.index[n] \in DOMAIN table
        /\ \/ table[r.index[n]] = Gone
           \/ table[r.index[n]].name = n
           \/ table[r.index[n]].origin = "renamed"

\* The definitions an import has written or has given up.
Done(r) == IF r.at = "upsert" THEN 1 .. (r.next - 1) ELSE 1 .. Len(r.defs)

Won(r, table) ==
    \A i \in Done(r) \ r.failed :
        (\A j \in Done(r) \ r.failed : j > i => r.defs[j].name # r.defs[i].name) =>
            /\ Newest(r.defs[i].name, table) # 0
            /\ table[Newest(r.defs[i].name, table)].rest = r.defs[i].rest
            /\ table[Newest(r.defs[i].name, table)].on = r.defs[i].on

Fresh(r, table) ==
    r.at = "upsert" => \A n \in ConfigName :
        /\ r.index[n] # 0 => r.index[n] = Newest(n, table)
        /\ r.index[n] = 0 /\ Newest(n, table) # 0 => \E j \in 1 .. (r.next - 1) : r.defs[j].name = n

Formed(r, table) ==
    /\ r \in ImportState
    /\ r.failed \subseteq 1 .. Len(r.defs)
    /\ r.at = "upsert" => /\ r.next \in 1 .. Len(r.defs) /\ r.failed \subseteq 1 .. (r.next - 1)
                          /\ r.index \in [ConfigName -> Nat]
    /\ r.at = "list" => r.next = 1 /\ r.failed = {}

Good(r, table) ==
    /\ Formed(r, table) /\ Pointing(r, table)
    /\ r.alone => r.at \in {"up", "upsert"} /\ Won(r, table) /\ Fresh(r, table)

Untwinned(table) ==
    \A i, j \in DOMAIN table :
        i < j /\ table[i].name = table[j].name /\ table[i].name # Unnamed =>
            table[j].origin # "import" \/ table[i].origin = "renamed"

SchedulesInv ==
    /\ docs \in Contents /\ edits \in 0 .. MaxEdits
    /\ configs \in Table /\ Untwinned(configs)
    /\ DOMAIN import = Server
    /\ \A s \in Server : Good(import[s], configs)

LEMMA GoneIs == Gone.name = Unnamed /\ Gone.origin = "deleted" /\ Gone \notin ConfigRow /\ Unnamed \notin ConfigName
  <1>1. Gone.name = Unnamed /\ Gone.origin = "deleted"
    BY DEF Gone
  <1>2. \A row \in ConfigRow : row.origin # "deleted"
    BY DEF ConfigRow
  <1>3. Unnamed \notin ConfigName
    BY DEF ConfigName
  <1> HIDE DEF Gone
  <1>4. QED BY <1>1, <1>2, <1>3

LEMMA TableIs ==
    ASSUME NEW table \in Table
    PROVE  /\ Len(table) \in Nat /\ DOMAIN table = 1 .. Len(table)
           /\ \A i \in DOMAIN table : table[i] = Gone \/ table[i] \in ConfigRow
  BY ElementOfSeq DEF Table

LEMMA NewestIs ==
    ASSUME NEW table \in Table, NEW n
    PROVE  LET id == Newest(n, table)
           IN  /\ id \in 0 .. Len(table)
               /\ id = 0 => \A i \in DOMAIN table : table[i].name # n
               /\ id # 0 => id \in DOMAIN table /\ table[id].name = n
                            /\ \A i \in DOMAIN table : table[i].name = n => i <= id
  <1> DEFINE ids == {i \in DOMAIN table : table[i].name = n}
  <1>1. Len(table) \in Nat /\ DOMAIN table = 1 .. Len(table)
    BY TableIs
  <1>2. ids \subseteq Nat /\ \A i \in ids : i <= Len(table)
    BY <1>1
  <1>3. CASE ids = {}
    BY <1>1, <1>3 DEF Newest
  <1>4. CASE ids # {}
    <2>1. \E i \in ids : \A j \in ids : j <= i
      <3> HIDE DEF ids
      <3>1. QED BY <1>1, <1>2, <1>4, Greatest
    <2>2. Newest(n, table) = CHOOSE i \in ids : \A j \in ids : j <= i
      BY <1>4 DEF Newest
    <2>3. Newest(n, table) \in ids /\ \A j \in ids : j <= Newest(n, table)
      BY <2>1, <2>2
    <2>4. QED BY <1>1, <2>3
  <1>5. QED BY <1>3, <1>4

LEMMA NewestUnique ==
    ASSUME NEW table \in Table, NEW n, NEW id \in DOMAIN table, table[id].name = n,
           \A i \in DOMAIN table : table[i].name = n => i <= id
    PROVE  Newest(n, table) = id
  <1>1. id \in Nat /\ Len(table) \in Nat /\ id # 0
    BY TableIs
  <1> DEFINE m == Newest(n, table)
  <1>2. /\ m \in 0 .. Len(table)
        /\ m = 0 => \A i \in DOMAIN table : table[i].name # n
        /\ m # 0 => m \in DOMAIN table /\ table[m].name = n
                    /\ \A i \in DOMAIN table : table[i].name = n => i <= m
    BY NewestIs
  <1> HIDE DEF m
  <1>3. m # 0
    BY <1>2
  <1>4. id <= m /\ m <= id /\ m \in Nat
    BY <1>1, <1>2, <1>3
  <1>5. QED BY <1>1, <1>4 DEF m

\* Names decide which row is the newest.
LEMMA NewestKeeps ==
    ASSUME NEW table \in Table, NEW after \in Table, NEW n,
           DOMAIN table \subseteq DOMAIN after,
           \A i \in DOMAIN after : after[i].name = n <=> i \in DOMAIN table /\ table[i].name = n
    PROVE  Newest(n, after) = Newest(n, table)
  <1>1. CASE Newest(n, table) = 0
    <2>1. \A i \in DOMAIN after : after[i].name # n
      BY <1>1, NewestIs
    <2>2. QED BY <1>1, <2>1 DEF Newest
  <1>2. CASE Newest(n, table) # 0
    BY <1>2, NewestIs, NewestUnique
  <1>3. QED BY <1>1, <1>2

------------------------------------------------------------------------------
(* What somebody's write does to the imports of others: they do not have   *)
(* the table for themselves any more, and what they reported is past.      *)
Later(before, after) ==
    /\ DOMAIN before \subseteq DOMAIN after
    /\ \A i \in DOMAIN before : \/ before[i] = Gone /\ after[i] = Gone
                                \/ after[i] = Gone \/ after[i].origin = "renamed"
                                \/ /\ before[i] # Gone /\ after[i].name = before[i].name
                                   /\ before[i].origin = "renamed" => after[i].origin = "renamed"

Startled(r) == IF r.at = "up" THEN Serving ELSE [r EXCEPT !.alone = FALSE]

LEMMA DownIs ==
    ASSUME NEW table
    PROVE  Good(Down, table) /\ Good(Serving, table)
  <1>1. /\ Down.at = "down" /\ Down.defs = <<>> /\ Down.next = 1 /\ Down.index = <<>>
        /\ Down.failed = {} /\ Down.alone = FALSE /\ Down \in ImportState
    BY DEF Down, ImportState
  <1>2. /\ Serving.at = "up" /\ Serving.defs = <<>> /\ Serving.next = 1 /\ Serving.index = <<>>
        /\ Serving.failed = {} /\ Serving.alone = FALSE /\ Serving \in ImportState
    BY <1>1 DEF Serving, ImportState
  <1>3. QED BY <1>1, <1>2 DEF Good, Formed, Pointing

LEMMA StartledIs ==
    ASSUME NEW r, NEW before \in Table, NEW after \in Table, Good(r, before), Later(before, after)
    PROVE  Good(Startled(r), after)
  <1>1. CASE r.at = "up"
    BY <1>1, DownIs DEF Startled
  <1>2. CASE r.at # "up"
    <2> DEFINE q == [r EXCEPT !.alone = FALSE]
    <2>1. r \in ImportState
      BY DEF Good, Formed
    <2>2. /\ q.at = r.at /\ q.defs = r.defs /\ q.next = r.next /\ q.index = r.index
          /\ q.failed = r.failed /\ q.alone = FALSE /\ q \in ImportState
      BY <2>1 DEF ImportState
    <2> HIDE DEF q
    <2>3. Formed(q, after)
      BY <2>2 DEF Good, Formed
    <2>4. Pointing(q, after)
      <3> SUFFICES ASSUME r.at = "upsert", NEW n \in ConfigName, r.index[n] # 0
                   PROVE  /\ r.index[n] \in DOMAIN after
                          /\ \/ after[r.index[n]] = Gone
                             \/ after[r.index[n]].name = n
                             \/ after[r.index[n]].origin = "renamed"
        BY <2>2 DEF Pointing
      <3> DEFINE id == r.index[n]
      <3>1. id \in DOMAIN before /\ (before[id] = Gone \/ before[id].name = n \/ before[id].origin = "renamed")
        BY DEF Good, Pointing
      <3>2. id \in DOMAIN after
        BY <3>1 DEF Later
      <3> HIDE DEF id
      <3>3. after[id] = Gone \/ after[id].name = n \/ after[id].origin = "renamed"
        BY <3>1 DEF Later
      <3>4. QED BY <3>2, <3>3 DEF id
    <2>5. QED BY <1>2, <2>2, <2>3, <2>4 DEF Good, Startled, q
  <1>3. QED BY <1>1, <1>2
------------------------------------------------------------------------------
(* Rows that are there are edited: one of them is deleted, renamed, or     *)
(* keeps its name and its origin.                                          *)
Edited(before, after) ==
    /\ DOMAIN after = DOMAIN before
    /\ \A i \in DOMAIN before : \/ after[i] = before[i]
                                \/ after[i] = Gone
                                \/ after[i].origin = "renamed"
                                \/ /\ before[i] # Gone /\ after[i].name = before[i].name
                                   /\ after[i].origin = before[i].origin

LEMMA EditedIs ==
    ASSUME NEW before \in Table, NEW after \in Table, Edited(before, after), Untwinned(before)
    PROVE  Later(before, after) /\ Untwinned(after)
  <1>1. Later(before, after)
    BY DEF Edited, Later
  <1>2. ASSUME NEW i \in DOMAIN after, NEW j \in DOMAIN after, i < j,
               after[i].name = after[j].name, after[i].name # Unnamed
        PROVE  after[j].origin # "import" \/ after[i].origin = "renamed"
    <2>1. i \in DOMAIN before /\ j \in DOMAIN before
      BY DEF Edited
    <2>2. after[i] # Gone /\ after[j] # Gone
      BY <1>2, GoneIs
    <2>3. CASE after[j].origin = "renamed" \/ after[i].origin = "renamed"
      BY <2>3
    <2>4. CASE ~(after[j].origin = "renamed" \/ after[i].origin = "renamed")
      <3>1. /\ after[i].name = before[i].name /\ after[i].origin = before[i].origin
            /\ after[j].name = before[j].name /\ after[j].origin = before[j].origin
        BY <2>1, <2>2, <2>4 DEF Edited
      <3>2. QED BY <1>2, <2>1, <3>1 DEF Untwinned
    <2>5. QED BY <2>3, <2>4
  <1>3. QED BY <1>1, <1>2 DEF Untwinned

LEMMA AppendedIs ==
    ASSUME NEW before \in Table, NEW row \in ConfigRow, Untwinned(before),
           row.origin = "import" => \A i \in DOMAIN before : before[i].name = row.name => before[i].origin = "renamed"
    PROVE  LET after == Append(before, row)
           IN  /\ after \in Table /\ Later(before, after) /\ Untwinned(after)
               /\ Len(before) + 1 \in DOMAIN after /\ after[Len(before) + 1] = row
               /\ Newest(row.name, after) = Len(before) + 1
               /\ \A n : n # row.name => Newest(n, after) = Newest(n, before)
               /\ \A i \in DOMAIN before : i \in DOMAIN after /\ after[i] = before[i]
  <1> DEFINE after == Append(before, row)
             k == Len(before) + 1
  <1>1. before \in Seq({Gone} \cup ConfigRow) /\ Len(before) \in Nat /\ DOMAIN before = 1 .. Len(before)
    BY TableIs DEF Table
  <1>2. after \in Table /\ DOMAIN after = 1 .. k /\ k \in DOMAIN after /\ after[k] = row
        /\ \A i \in DOMAIN before : i \in DOMAIN after /\ after[i] = before[i]
    BY <1>1 DEF Table
  <1> HIDE DEF after
  <1>3. \A i \in DOMAIN after : i \in DOMAIN before \/ i = k
    BY <1>1, <1>2
  <1>4. \A i \in DOMAIN before : i < k
    BY <1>1
  <1>5. Newest(row.name, after) = k
    <2>1. \A i \in DOMAIN after : i <= k
      BY <1>1, <1>2
    <2>2. QED BY <1>2, <2>1, NewestUnique
  <1>6. ASSUME NEW n, n # row.name PROVE Newest(n, after) = Newest(n, before)
    <2>1. \A i \in DOMAIN after : after[i].name = n <=> i \in DOMAIN before /\ before[i].name = n
      BY <1>2, <1>3, <1>4, <1>6
    <2>2. QED BY <1>2, <2>1, NewestKeeps
  <1>7. Later(before, after)
    BY <1>2 DEF Later
  <1>8. ASSUME NEW i \in DOMAIN after, NEW j \in DOMAIN after, i < j,
               after[i].name = after[j].name, after[i].name # Unnamed
        PROVE  after[j].origin # "import" \/ after[i].origin = "renamed"
    <2>1. i \in DOMAIN before
      BY <1>1, <1>2, <1>3, <1>8
    <2>2. CASE j \in DOMAIN before
      BY <1>2, <1>8, <2>1, <2>2 DEF Untwinned
    <2>3. CASE j = k
      BY <1>2, <1>8, <2>1, <2>3
    <2>4. QED BY <1>3, <2>2, <2>3
  <1>9. QED BY <1>2, <1>5, <1>6, <1>7, <1>8 DEF Untwinned, after

------------------------------------------------------------------------------
(* An import goes on behind the definition it is at.                       *)
Moved(r, failed) ==
    LET last == r.next = Len(r.defs)
    IN [r EXCEPT !.next = IF last THEN 1 ELSE r.next + 1,
                 !.at = IF last THEN "up" ELSE "upsert",
                 !.index = IF last THEN <<>> ELSE r.index,
                 !.failed = r.failed \cup (IF failed THEN {r.next} ELSE {})]

LEMMA OnwardIs ==
    ASSUME DOMAIN import = Server, NEW s \in Server, import[s] \in ImportState,
           NEW others, others \subseteq Server \ {s}, NEW failed \in BOOLEAN, Onward(s, others, failed)
    PROVE  /\ DOMAIN import' = Server
           /\ import'[s] = Moved(import[s], failed)
           /\ \A t \in Server \ {s} :
                 import'[t] = IF t \in others THEN Startled(import[t]) ELSE import[t]
  <1>1. /\ DOMAIN DisturbedFor(others) = Server /\ DisturbedFor(others)[s] = import[s]
        /\ \A t \in Server \ {s} : DisturbedFor(others)[t] = IF t \in others THEN Startled(import[t]) ELSE import[t]
    BY DEF DisturbedFor, Startled
  <1> DEFINE f == DisturbedFor(others)
             i == import[s].next
             last == i = Len(import[s].defs)
  <1>2. import' = [f EXCEPT ![s].next = IF last THEN 1 ELSE i + 1,
                            ![s].at = IF last THEN "up" ELSE "upsert",
                            ![s].index = IF last THEN <<>> ELSE @,
                            ![s].failed = @ \cup (IF failed THEN {i} ELSE {})]
    BY DEF Onward
  <1>3. DOMAIN f = Server /\ f[s] = import[s]
    BY <1>1
  <1> HIDE DEF f
  <1>4. DOMAIN import' = Server /\ \A t \in Server \ {s} : import'[t] = f[t]
    BY <1>2, <1>3
  <1>5. import'[s] = Moved(import[s], failed)
    BY <1>2, <1>3 DEF Moved, ImportState
  <1>6. QED BY <1>1, <1>4, <1>5 DEF f

LEMMA MovedIs ==
    ASSUME NEW r, NEW table, Formed(r, table), r.at = "upsert", NEW failed \in BOOLEAN
    PROVE  LET q == Moved(r, failed)
           IN  /\ Formed(q, table) /\ q.at \in {"up", "upsert"}
               /\ q.defs = r.defs /\ q.alone = r.alone
               /\ q.failed = r.failed \cup (IF failed THEN {r.next} ELSE {})
               /\ Done(q) = 1 .. r.next
               /\ q.at = "upsert" => q.index = r.index /\ q.next = r.next + 1
  <1> DEFINE q == Moved(r, failed)
             n == r.next
             defs == r.defs
  <1>1. /\ r \in ImportState /\ n \in 1 .. Len(defs) /\ Len(defs) \in Nat /\ n \in Nat
        /\ r.failed \subseteq 1 .. (n - 1) /\ r.index \in [ConfigName -> Nat]
    BY DEF Formed, ImportState
  <1>2. CASE n = Len(defs)
    <2>1. q = [r EXCEPT !.next = 1, !.at = "up", !.index = <<>>,
                        !.failed = r.failed \cup (IF failed THEN {r.next} ELSE {})]
      BY <1>2 DEF Moved
    <2> HIDE DEF q
    <2>2. /\ q.at = "up" /\ q.next = 1 /\ q.index = <<>> /\ q.defs = defs /\ q.alone = r.alone
          /\ q.failed = r.failed \cup (IF failed THEN {n} ELSE {})
      BY <1>1, <2>1 DEF ImportState
    <2>3. q.failed \subseteq 1 .. Len(defs)
      BY <1>1, <1>2, <2>2
    <2>4. q \in ImportState
      <3>1. q.failed \subseteq Nat
        BY <1>1, <2>3
      <3>2. QED BY <1>1, <2>1, <2>2, <3>1 DEF ImportState
    <2>5. Done(q) = 1 .. n
      BY <1>2, <2>2 DEF Done
    <2>6. QED BY <2>2, <2>3, <2>4, <2>5 DEF Formed, q
  <1>3. CASE n # Len(defs)
    <2>1. q = [r EXCEPT !.next = n + 1, !.at = "upsert", !.index = r.index,
                        !.failed = r.failed \cup (IF failed THEN {r.next} ELSE {})]
      BY <1>3 DEF Moved
    <2> HIDE DEF q
    <2>2. /\ q.at = "upsert" /\ q.next = n + 1 /\ q.index = r.index /\ q.defs = defs /\ q.alone = r.alone
          /\ q.failed = r.failed \cup (IF failed THEN {n} ELSE {})
      BY <1>1, <2>1 DEF ImportState
    <2>3. q.failed \subseteq 1 .. Len(defs) /\ q.failed \subseteq 1 .. (q.next - 1) /\ q.next \in 1 .. Len(defs)
      BY <1>1, <1>3, <2>2
    <2>4. q \in ImportState
      <3>1. q.failed \subseteq Nat /\ q.next \in Nat
        BY <1>1, <2>3
      <3>2. QED BY <1>1, <2>1, <2>2, <3>1 DEF ImportState
    <2>5. Done(q) = 1 .. n
      <3>1. (n + 1) - 1 = n
        BY <1>1
      <3>2. QED BY <2>2, <3>1 DEF Done
    <2>6. QED BY <1>1, <2>2, <2>3, <2>4, <2>5 DEF Formed, q
  <1>4. QED BY <1>2, <1>3

------------------------------------------------------------------------------
LEMMA LaterRefl == ASSUME NEW table \in Table PROVE Later(table, table)
  BY DEF Later

LEMMA PointingLater ==
    ASSUME NEW r, NEW q, NEW before, NEW after, Pointing(r, before), Later(before, after),
           q.at = "upsert" => r.at = "upsert" /\ q.index = r.index
    PROVE  Pointing(q, after)
  <1> SUFFICES ASSUME q.at = "upsert", NEW n \in ConfigName, r.index[n] # 0
               PROVE  /\ r.index[n] \in DOMAIN after
                      /\ \/ after[r.index[n]] = Gone
                         \/ after[r.index[n]].name = n
                         \/ after[r.index[n]].origin = "renamed"
    BY DEF Pointing
  <1> DEFINE id == r.index[n]
  <1>1. id \in DOMAIN before /\ (before[id] = Gone \/ before[id].name = n \/ before[id].origin = "renamed")
    BY DEF Pointing
  <1>2. id \in DOMAIN after
    BY <1>1 DEF Later
  <1> HIDE DEF id
  <1>3. after[id] = Gone \/ after[id].name = n \/ after[id].origin = "renamed"
    BY <1>1 DEF Later
  <1>4. QED BY <1>2, <1>3 DEF id

\* A definition that could not be written changes nothing that an import relies on.
LEMMA FailedStep ==
    ASSUME NEW r, NEW table \in Table, Good(r, table), r.at = "upsert"
    PROVE  Good(Moved(r, TRUE), table)
  <1> DEFINE q == Moved(r, TRUE)
             n == r.next
  <1>1. Formed(r, table) /\ Pointing(r, table)
    BY DEF Good
  <1>2. /\ Formed(q, table) /\ q.at \in {"up", "upsert"}
        /\ q.defs = r.defs /\ q.alone = r.alone
        /\ q.failed = r.failed \cup {n}
        /\ Done(q) = 1 .. n
        /\ q.at = "upsert" => q.index = r.index /\ q.next = n + 1
    BY <1>1, MovedIs
  <1>3. n \in Nat /\ n \in 1 .. Len(r.defs) /\ r.failed \subseteq 1 .. (n - 1) /\ Done(r) = 1 .. (n - 1)
    BY <1>1 DEF Formed, ImportState, Done
  <1> HIDE DEF q
  <1>4. Pointing(q, table)
    BY <1>1, <1>2, LaterRefl, PointingLater
  <1>5. Done(q) \ q.failed = Done(r) \ r.failed
    <2> HIDE DEF n
    <2>1. (1 .. n) \ (r.failed \cup {n}) = (1 .. (n - 1)) \ r.failed
      BY <1>3
    <2>2. QED BY <1>2, <1>3, <2>1
  <1>6. ASSUME r.alone PROVE Won(q, table)
    BY <1>2, <1>5, <1>6 DEF Good, Won
  <1>7. ASSUME r.alone PROVE Fresh(q, table)
    <2>1. Fresh(r, table)
      BY <1>7 DEF Good
    <2>2. ASSUME q.at = "upsert" PROVE 1 .. (n - 1) \subseteq 1 .. (q.next - 1)
      BY <1>2, <1>3, <2>2
    <2>3. QED BY <1>2, <2>1, <2>2 DEF Fresh
  <1>8. QED BY <1>2, <1>4, <1>6, <1>7 DEF Good, q

\* A definition that was written has won, and no other name lost its config.
LEMMA WrittenStep ==
    ASSUME NEW r, NEW before \in Table, NEW after \in Table,
           Good(r, before), r.at = "upsert", Later(before, after),
           NEW d, d = r.defs[r.next],
           r.alone => /\ Newest(d.name, after) # 0
                      /\ after[Newest(d.name, after)].rest = d.rest
                      /\ after[Newest(d.name, after)].on = d.on
                      /\ r.index[d.name] # 0 => Newest(d.name, after) = r.index[d.name]
                      /\ \A m \in ConfigName : m # d.name =>
                            /\ Newest(m, after) = Newest(m, before)
                            /\ Newest(m, before) # 0 => after[Newest(m, before)] = before[Newest(m, before)]
    PROVE  Good(Moved(r, FALSE), after)
  <1> DEFINE q == Moved(r, FALSE)
             n == r.next
  <1>1. Formed(r, before) /\ Formed(r, after) /\ Pointing(r, before)
    BY DEF Good, Formed
  <1>2. /\ Formed(q, after) /\ q.at \in {"up", "upsert"}
        /\ q.defs = r.defs /\ q.alone = r.alone
        /\ q.failed = r.failed
        /\ Done(q) = 1 .. n
        /\ q.at = "upsert" => q.index = r.index /\ q.next = n + 1
    <2>1. r.failed \cup {} = r.failed
      OBVIOUS
    <2>2. QED BY <1>1, <2>1, MovedIs
  <1>3. /\ n \in Nat /\ n \in 1 .. Len(r.defs) /\ r.failed \subseteq 1 .. (n - 1) /\ Done(r) = 1 .. (n - 1)
        /\ r.defs \in Seq(Sounding) /\ Len(r.defs) \in Nat
    BY <1>1 DEF Formed, ImportState, Done
  <1> HIDE DEF q
  <1>4. Pointing(q, after)
    BY <1>1, <1>2, PointingLater
  <1>5. ASSUME r.alone PROVE Won(q, after)
    <2> SUFFICES ASSUME NEW i \in (1 .. n) \ r.failed,
                        \A j \in (1 .. n) \ r.failed : j > i => r.defs[j].name # r.defs[i].name
                 PROVE  /\ Newest(r.defs[i].name, after) # 0
                        /\ after[Newest(r.defs[i].name, after)].rest = r.defs[i].rest
                        /\ after[Newest(r.defs[i].name, after)].on = r.defs[i].on
      BY <1>2 DEF Won
    <2>1. CASE i = n
      BY <1>5, <2>1
    <2>2. CASE i # n
      <3>1. i \in 1 .. (n - 1) /\ n > i /\ n \in (1 .. n) \ r.failed
        BY <1>3, <2>2
      <3>2. r.defs[i].name # d.name
        BY <3>1
      <3>3. r.defs[i] \in Sounding
        <4>1. i \in 1 .. Len(r.defs)
          BY <1>3, <3>1
        <4>2. QED BY <1>3, <4>1, ElementOfSeq
      <3>4. r.defs[i].name \in ConfigName
        BY <3>3 DEF Sounding
      <3>5. Won(r, before)
        BY <1>5 DEF Good
      <3>6. \A j \in Done(r) \ r.failed : j > i => r.defs[j].name # r.defs[i].name
        <4>1. 1 .. (n - 1) \subseteq 1 .. n
          BY <1>3
        <4>2. QED BY <1>3, <4>1
      <3>7. /\ Newest(r.defs[i].name, before) # 0
            /\ before[Newest(r.defs[i].name, before)].rest = r.defs[i].rest
            /\ before[Newest(r.defs[i].name, before)].on = r.defs[i].on
        BY <1>3, <3>1, <3>5, <3>6 DEF Won
      <3>8. QED BY <1>5, <3>2, <3>4, <3>7
    <2>3. QED BY <2>1, <2>2
  <1>6. ASSUME r.alone PROVE Fresh(q, after)
    <2> SUFFICES ASSUME q.at = "upsert", NEW m \in ConfigName
                 PROVE  /\ r.index[m] # 0 => r.index[m] = Newest(m, after)
                        /\ r.index[m] = 0 /\ Newest(m, after) # 0 => \E j \in 1 .. n : r.defs[j].name = m
      <3>1. q.at = "upsert" => q.next - 1 = n
        BY <1>2, <1>3
      <3>2. QED BY <1>2, <3>1 DEF Fresh
    <2>1. Fresh(r, before)
      BY <1>6 DEF Good
    <2>2. 1 .. (n - 1) \subseteq 1 .. n /\ n \in 1 .. n
      BY <1>3
    <2>3. CASE m = d.name
      BY <1>6, <2>2, <2>3
    <2>4. CASE m # d.name
      BY <1>6, <2>1, <2>2, <2>4 DEF Fresh
    <2>5. QED BY <2>3, <2>4
  <1>7. QED BY <1>2, <1>4, <1>5, <1>6 DEF Good, q

------------------------------------------------------------------------------
\* A request writes a config: the imports of everybody are disturbed.
LEMMA RequestKeeps ==
    ASSUME SchedulesInv, import' = DisturbedFor(Server), configs' \in Table, Later(configs, configs')
    PROVE  DOMAIN import' = Server /\ \A s \in Server : Good(import'[s], configs')
  <1>1. DOMAIN import' = Server /\ \A s \in Server : import'[s] = Startled(import[s])
    BY DEF DisturbedFor, Startled
  <1>2. configs \in Table /\ \A s \in Server : Good(import[s], configs)
    BY DEF SchedulesInv
  <1>3. QED BY <1>1, <1>2, StartledIs

\* An import goes on: that of s with the next definition, those of others disturbed
\* if it wrote.
LEMMA ImportKeeps ==
    ASSUME SchedulesInv, NEW s \in Server, NEW failed \in BOOLEAN,
           NEW others, others \subseteq Server \ {s}, Onward(s, others, failed),
           configs' \in Table, Later(configs, configs'),
           others = Server \ {s} \/ configs' = configs,
           Good(Moved(import[s], failed), configs')
    PROVE  DOMAIN import' = Server /\ \A t \in Server : Good(import'[t], configs')
  <1>1. configs \in Table /\ DOMAIN import = Server /\ \A t \in Server : Good(import[t], configs)
    BY DEF SchedulesInv
  <1>2. import[s] \in ImportState
    BY <1>1 DEF Good, Formed
  <1>3. /\ DOMAIN import' = Server
        /\ import'[s] = Moved(import[s], failed)
        /\ \A t \in Server \ {s} :
              import'[t] = IF t \in others THEN Startled(import[t]) ELSE import[t]
    BY <1>1, <1>2, OnwardIs
  <1>4. ASSUME NEW t \in Server \ {s} PROVE Good(import'[t], configs')
    <2>1. CASE t \in others
      BY <1>1, <1>3, <2>1, StartledIs
    <2>2. CASE t \notin others
      BY <1>1, <1>3, <2>2
    <2>3. QED BY <2>1, <2>2
  <1>5. QED BY <1>3, <1>4

\* What an import is at: one of its definitions, and the config it takes it for.
LEMMA Current ==
    ASSUME SchedulesInv, NEW s \in Server, import[s].at = "upsert"
    PROVE  LET d == import[s].defs[import[s].next]
           IN  /\ Good(import[s], configs) /\ configs \in Table
               /\ d \in Sounding /\ d.name \in ConfigName
               /\ d.name # Unnamed
               /\ import[s].next \in DOMAIN import[s].defs
  <1> DEFINE r == import[s]
             d == r.defs[r.next]
  <1>1. Good(r, configs) /\ configs \in Table
    BY DEF SchedulesInv
  <1>2. r.defs \in Seq(Sounding) /\ r.next \in 1 .. Len(r.defs)
    BY <1>1 DEF Good, Formed, ImportState
  <1>3. DOMAIN r.defs = 1 .. Len(r.defs)
    BY <1>2
  <1>4. d \in Sounding
    BY <1>2, ElementOfSeq
  <1>5. d.name \in ConfigName
    BY <1>4 DEF Sounding
  <1>6. QED BY <1>1, <1>2, <1>3, <1>4, <1>5, GoneIs

LEMMA UpdateStep ==
    ASSUME SchedulesInv, NEW s \in Server, UpdateFromFile(s)
    PROVE  SchedulesInv'
  <1> DEFINE r == import[s]
             d == r.defs[r.next]
             id == r.index[d.name]
  <1>1. r.at = "upsert" /\ id # 0 /\ Onward(s, Server \ {s}, FALSE) /\ UNCHANGED <<docs, edits>>
        /\ configs' = IF Exists(id) THEN [configs EXCEPT ![id] = Row(d, @.origin)] ELSE configs
    BY DEF UpdateFromFile
  <1>2. /\ Good(r, configs) /\ configs \in Table /\ d \in Sounding /\ d.name \in ConfigName
        /\ d.name # Unnamed /\ Untwinned(configs)
    BY <1>1, Current DEF SchedulesInv
  <1> HIDE DEF r, d
  <1>3. /\ id \in DOMAIN configs
        /\ configs[id] = Gone \/ configs[id].name = d.name \/ configs[id].origin = "renamed"
    BY <1>1, <1>2 DEF Good, Pointing
  <1> HIDE DEF id
  <1>4. DOMAIN configs = 1 .. Len(configs) /\ Len(configs) \in Nat
        /\ configs \in Seq({Gone} \cup ConfigRow)
        /\ \A i \in DOMAIN configs : configs[i] = Gone \/ configs[i] \in ConfigRow
    BY <1>2, TableIs DEF Table
  <1>5. CASE ~Exists(id)
    <2>1. configs' = configs /\ Later(configs, configs')
      BY <1>1, <1>2, <1>5, LaterRefl
    <2>2. ~r.alone
      <3>1. SUFFICES ASSUME r.alone PROVE FALSE
        OBVIOUS
      <3>2. id = Newest(d.name, configs)
        BY <1>1, <1>2, <3>1 DEF Good, Fresh, id
      <3>3. configs[id].name = d.name
        BY <1>1, <1>2, <3>2, NewestIs
      <3>4. configs[id] = Gone
        BY <1>3, <1>5 DEF Exists
      <3>5. QED BY <1>2, <3>3, <3>4, GoneIs
    <2>3. Good(Moved(r, FALSE), configs')
      BY <1>1, <1>2, <2>1, <2>2, WrittenStep DEF d
    <2>4. DOMAIN import' = Server /\ \A t \in Server : Good(import'[t], configs')
      BY <1>1, <1>2, <2>1, <2>3, ImportKeeps DEF r
    <2>5. QED BY <1>1, <2>1, <2>4 DEF SchedulesInv
  <1>6. CASE Exists(id)
    <2> DEFINE row == Row(d, configs[id].origin)
    <2>1. configs[id] \in ConfigRow /\ configs[id] # Gone
      BY <1>3, <1>4, <1>6 DEF Exists
    <2>2. /\ row \in ConfigRow /\ row.name = d.name /\ row.rest = d.rest /\ row.on = d.on
          /\ row.origin = configs[id].origin
      BY <1>2, <2>1 DEF Row, ConfigRow, Sounding
    <2> HIDE DEF row
    <2>3. configs' = [configs EXCEPT ![id] = row]
      BY <1>1, <1>6 DEF row
    <2>4. /\ configs' \in Table /\ DOMAIN configs' = DOMAIN configs /\ configs'[id] = row
          /\ \A i \in DOMAIN configs : i # id => configs'[i] = configs[i]
      BY <1>3, <1>4, <2>2, <2>3 DEF Table
    <2>5. Edited(configs, configs')
      <3>1. configs'[id].origin = "renamed" \/ configs'[id].name = configs[id].name
        BY <1>3, <2>1, <2>2, <2>4
      <3>2. QED BY <2>1, <2>2, <2>4, <3>1 DEF Edited
    <2>6. Later(configs, configs') /\ Untwinned(configs')
      BY <1>2, <2>4, <2>5, EditedIs
    <2>7. ASSUME r.alone
          PROVE  /\ Newest(d.name, configs') # 0
                 /\ configs'[Newest(d.name, configs')].rest = d.rest
                 /\ configs'[Newest(d.name, configs')].on = d.on
                 /\ Newest(d.name, configs') = r.index[d.name]
                 /\ \A m \in ConfigName : m # d.name =>
                       /\ Newest(m, configs') = Newest(m, configs)
                       /\ Newest(m, configs) # 0 => configs'[Newest(m, configs)] = configs[Newest(m, configs)]
      <3>1. id = Newest(d.name, configs)
        BY <1>1, <1>2, <2>7 DEF Good, Fresh, id
      <3>2. configs[id].name = d.name
        BY <1>1, <1>2, <3>1, NewestIs
      <3>3. \A i \in DOMAIN configs : configs'[i].name = configs[i].name
        BY <2>2, <2>4, <3>2
      <3>4. \A m \in ConfigName : Newest(m, configs') = Newest(m, configs)
        BY <1>2, <2>4, <3>3, NewestKeeps
      <3>5. \A m \in ConfigName : m # d.name /\ Newest(m, configs) # 0 =>
                Newest(m, configs) # id /\ Newest(m, configs) \in DOMAIN configs
        BY <1>2, <3>2, NewestIs
      <3>6. \A m \in ConfigName : m # d.name /\ Newest(m, configs) # 0 =>
                configs'[Newest(m, configs)] = configs[Newest(m, configs)]
        BY <2>4, <3>5
      <3>7. Newest(d.name, configs') = id /\ id # 0
        BY <1>1, <1>2, <3>1, <3>4 DEF id
      <3>8. QED BY <2>2, <2>4, <3>4, <3>6, <3>7 DEF id
    <2>8. Good(Moved(r, FALSE), configs')
      <3>1. d = r.defs[r.next]
        BY DEF d
      <3> DEFINE won == /\ Newest(d.name, configs') # 0
                        /\ configs'[Newest(d.name, configs')].rest = d.rest
                        /\ configs'[Newest(d.name, configs')].on = d.on
                        /\ r.index[d.name] # 0 => Newest(d.name, configs') = r.index[d.name]
                        /\ \A m \in ConfigName : m # d.name =>
                              /\ Newest(m, configs') = Newest(m, configs)
                              /\ Newest(m, configs) # 0 => configs'[Newest(m, configs)] = configs[Newest(m, configs)]
      <3>2. r.alone => won
        BY <2>7
      <3>3. Good(r, configs) /\ r.at = "upsert" /\ configs \in Table /\ configs' \in Table /\ Later(configs, configs')
        BY <1>1, <1>2, <2>4, <2>6
      <3>4. QED BY <3>1, <3>2, <3>3, WrittenStep
    <2>9. DOMAIN import' = Server /\ \A t \in Server : Good(import'[t], configs')
      BY <1>1, <2>4, <2>6, <2>8, ImportKeeps DEF r
    <2>10. QED BY <1>1, <2>4, <2>6, <2>9 DEF SchedulesInv
  <1>7. QED BY <1>5, <1>6

LEMMA CreateStep ==
    ASSUME SchedulesInv, NEW s \in Server, CreateFromFile(s)
    PROVE  SchedulesInv'
  <1> DEFINE r == import[s]
             d == r.defs[r.next]
             named == {i \in DOMAIN r.defs : r.defs[i].name = d.name}
             row == Row(d, IF r.alone /\ named = {r.next} THEN "import" ELSE "race")
  <1>1. /\ r.at = "upsert" /\ r.index[d.name] = 0 /\ d.rest \in Sound
        /\ Onward(s, Server \ {s}, FALSE) /\ UNCHANGED <<docs, edits>>
        /\ configs' = Append(configs, row)
    BY DEF CreateFromFile
  <1>2. /\ Good(r, configs) /\ configs \in Table /\ d \in Sounding /\ d.name \in ConfigName
        /\ d.name # Unnamed /\ Untwinned(configs)
    BY <1>1, Current DEF SchedulesInv
  <1>3. /\ row \in ConfigRow /\ row.name = d.name /\ row.rest = d.rest /\ row.on = d.on
        /\ row.origin = "import" => r.alone /\ named = {r.next}
    BY <1>2 DEF Row, ConfigRow, Sounding
  <1>4. r.next \in 1 .. Len(r.defs) /\ DOMAIN r.defs = 1 .. Len(r.defs) /\ Len(r.defs) \in Nat
    BY <1>1, <1>2 DEF Good, Formed, ImportState
  <1>5. d = r.defs[r.next]
    OBVIOUS
  <1> HIDE DEF row, r, d
  <1>6. ASSUME row.origin = "import", NEW i \in DOMAIN configs, configs[i].name = row.name
        PROVE  FALSE
    <2>1. Fresh(r, configs)
      BY <1>2, <1>3, <1>6 DEF Good
    <2>2. Newest(d.name, configs) # 0
      BY <1>2, <1>3, <1>6, NewestIs
    <2>3. PICK j \in 1 .. (r.next - 1) : r.defs[j].name = d.name
      BY <1>1, <1>2, <2>1, <2>2 DEF Fresh
    <2>4. j \in DOMAIN r.defs /\ j # r.next
      BY <1>4, <2>3
    <2>5. QED BY <1>3, <1>6, <2>3, <2>4
  <1> DEFINE k == Len(configs) + 1
  <1>7. /\ configs' \in Table /\ Later(configs, configs') /\ Untwinned(configs')
        /\ k \in DOMAIN configs' /\ configs'[k] = row
        /\ Newest(d.name, configs') = k
        /\ \A n : n # d.name => Newest(n, configs') = Newest(n, configs)
        /\ \A i \in DOMAIN configs : i \in DOMAIN configs' /\ configs'[i] = configs[i]
    BY <1>1, <1>2, <1>3, <1>6, AppendedIs
  <1>8. k # 0
    BY <1>2, TableIs
  <1> HIDE DEF k
  <1>9. \A m \in ConfigName : m # d.name /\ Newest(m, configs) # 0 =>
            configs'[Newest(m, configs)] = configs[Newest(m, configs)]
    BY <1>2, <1>7, NewestIs
  <1>10. Good(Moved(r, FALSE), configs')
    <2> DEFINE won == /\ Newest(d.name, configs') # 0
                      /\ configs'[Newest(d.name, configs')].rest = d.rest
                      /\ configs'[Newest(d.name, configs')].on = d.on
                      /\ r.index[d.name] # 0 => Newest(d.name, configs') = r.index[d.name]
                      /\ \A m \in ConfigName : m # d.name =>
                            /\ Newest(m, configs') = Newest(m, configs)
                            /\ Newest(m, configs) # 0 => configs'[Newest(m, configs)] = configs[Newest(m, configs)]
    <2>1. won
      BY <1>1, <1>3, <1>7, <1>8, <1>9
    <2>2. Good(r, configs) /\ r.at = "upsert" /\ configs \in Table /\ configs' \in Table /\ Later(configs, configs')
      BY <1>1, <1>2, <1>7
    <2>3. QED BY <1>5, <2>1, <2>2, WrittenStep
  <1>11. DOMAIN import' = Server /\ \A t \in Server : Good(import'[t], configs')
    BY <1>1, <1>7, <1>10, ImportKeeps DEF r
  <1>12. QED BY <1>1, <1>7, <1>11 DEF SchedulesInv

LEMMA FailedImport ==
    ASSUME SchedulesInv, NEW s \in Server, import[s].at = "upsert", Onward(s, {}, TRUE),
           UNCHANGED <<docs, configs>>, edits' \in 0 .. MaxEdits
    PROVE  SchedulesInv'
  <1>1. Good(import[s], configs) /\ configs \in Table
    BY Current
  <1>2. Good(Moved(import[s], TRUE), configs') /\ Later(configs, configs') /\ configs' = configs
    BY <1>1, FailedStep, LaterRefl
  <1>3. DOMAIN import' = Server /\ \A t \in Server : Good(import'[t], configs')
    <2>1. {} \subseteq Server \ {s} /\ TRUE \in BOOLEAN
      OBVIOUS
    <2>2. QED BY <1>1, <1>2, <2>1, ImportKeeps
  <1>4. QED BY <1>2, <1>3 DEF SchedulesInv

------------------------------------------------------------------------------
LEMMA BeginStep ==
    ASSUME SchedulesInv, NEW s \in Server, BeginImport(s)
    PROVE  SchedulesInv'
  <1> DEFINE I == {i \in DOMAIN docs : docs[i].name # Unnamed}
             defs == Picked(docs, I)
             r == [Down EXCEPT !.at = "list", !.defs = defs]
             readable == ~ \E i \in DOMAIN defs : defs[i].rest = Garbled
  <1>1. /\ import' = [import EXCEPT ![s] = IF readable THEN r ELSE Serving]
        /\ UNCHANGED <<docs, configs, edits>>
    BY DEF BeginImport
  <1>2. Good(Serving, configs)
    BY DownIs
  <1>3. ASSUME readable PROVE defs \in Seq(Sounding)
    <2>1. docs \in Seq(ScheduleDef)
      BY SchedulesAssumption DEF SchedulesInv
    <2>2. Len(docs) \in Nat /\ DOMAIN docs = 1 .. Len(docs)
      BY <2>1
    <2> DEFINE m == Cardinality(I)
    <2>3. /\ m \in Nat /\ DOMAIN defs = 1 .. m
          /\ \A k \in 1 .. m : Kth(k, I) \in I /\ defs[k] = docs[Kth(k, I)]
      <3>1. I \subseteq 1 .. Len(docs)
        BY <2>2
      <3> HIDE DEF I
      <3>2. m \in Nat /\ \A k \in 1 .. m : Kth(k, I) \in I
        BY <2>2, <3>1, PickedIs
      <3>3. DOMAIN defs = 1 .. m /\ \A k \in 1 .. m : defs[k] = docs[Kth(k, I)]
        BY DEF Picked
      <3>4. QED BY <3>2, <3>3
    <2>4. defs \in Seq(ScheduleDef) /\ Len(defs) = m
      BY <2>1, PickedSeq
    <2> HIDE DEF m, defs
    <2>5. ASSUME NEW k \in 1 .. m PROVE defs[k] \in Sounding
      <3>1. defs[k].name # Unnamed
        BY <2>3, <2>5
      <3>2. defs[k].rest # Garbled
        BY <1>3, <2>3, <2>5
      <3>3. defs[k] \in ScheduleDef
        BY <2>4, <2>5, ElementOfSeq
      <3>4. QED BY <3>1, <3>2, <3>3 DEF ScheduleDef, Sounding
    <2>6. QED BY <2>3, <2>4, <2>5
  <1>4. ASSUME readable PROVE Good(r, configs)
    <2> HIDE DEF defs
    <2>1. /\ r.at = "list" /\ r.defs = defs /\ r.next = 1 /\ r.index = <<>>
          /\ r.failed = {} /\ r.alone = FALSE /\ r \in ImportState
      BY <1>3, <1>4 DEF Down, ImportState
    <2> HIDE DEF r
    <2>2. QED BY <2>1 DEF Good, Formed, Pointing
  <1> HIDE DEF r, readable
  <1>5. DOMAIN import' = Server /\ \A t \in Server : Good(import'[t], configs)
    BY <1>1, <1>2, <1>4 DEF SchedulesInv
  <1>6. QED BY <1>1, <1>5 DEF SchedulesInv

LEMMA ListStep ==
    ASSUME SchedulesInv, NEW s \in Server, ListConfigs(s)
    PROVE  SchedulesInv'
  <1> DEFINE p == import[s]
             index == [n \in ConfigName |-> IndexOf(n)]
             r == [p EXCEPT !.at = IF p.defs = <<>> THEN "up" ELSE "upsert", !.index = index, !.alone = TRUE]
  <1>1. /\ p.at = "list" /\ DOMAIN import = Server /\ Good(p, configs) /\ configs \in Table
        /\ UNCHANGED <<docs, configs, edits>>
    BY DEF ListConfigs, SchedulesInv
  <1>2. p \in ImportState /\ p.next = 1 /\ p.failed = {} /\ p.defs \in Seq(Sounding) /\ Len(p.defs) \in Nat
    BY <1>1 DEF Good, Formed, ImportState
  <1>3. import' = [import EXCEPT ![s] = r]
    BY <1>1, <1>2 DEF ListConfigs, SchedulesInv, ImportState
  <1>4. index \in [ConfigName -> Nat] /\ \A n \in ConfigName : index[n] = Newest(n, configs)
    <2>1. \A n \in ConfigName : index[n] = Newest(n, configs)
      BY DEF IndexOf, Newest
    <2>2. \A n \in ConfigName : Newest(n, configs) \in Nat
      <3>1. Len(configs) \in Nat
        BY <1>1, TableIs
      <3>2. QED BY <1>1, <3>1, NewestIs
    <2>3. QED BY <2>1, <2>2
  <1> HIDE DEF index
  <1>5. /\ r.at = IF p.defs = <<>> THEN "up" ELSE "upsert"
        /\ r.defs = p.defs /\ r.next = 1 /\ r.index = index /\ r.failed = {} /\ r.alone = TRUE
        /\ r \in ImportState
    BY <1>2, <1>4 DEF ImportState
  <1> HIDE DEF r, p
  <1>6. Done(r) = {}
    BY <1>5 DEF Done
  <1>7. Formed(r, configs)
    <2>1. p.defs # <<>> => 1 \in 1 .. Len(p.defs)
      BY <1>2
    <2>2. QED BY <1>4, <1>5, <2>1 DEF Formed
  <1>8. Pointing(r, configs)
    BY <1>1, <1>4, <1>5, NewestIs DEF Pointing
  <1>9. Won(r, configs) /\ Fresh(r, configs)
    BY <1>4, <1>5, <1>6 DEF Won, Fresh
  <1>10. Good(r, configs)
    BY <1>5, <1>7, <1>8, <1>9 DEF Good
  <1>11. DOMAIN import' = Server /\ \A t \in Server : Good(import'[t], configs)
    BY <1>1, <1>3, <1>10 DEF SchedulesInv
  <1>12. QED BY <1>1, <1>11 DEF SchedulesInv

------------------------------------------------------------------------------
(* The requests that write a config.                                       *)
LEMMA RequestStep ==
    ASSUME SchedulesInv, NEW s \in Server, Request(s),
           configs' \in Table, Later(configs, configs'), Untwinned(configs')
    PROVE  SchedulesInv'
  <1>1. import' = DisturbedFor(Server) /\ docs' = docs /\ edits' \in 0 .. MaxEdits
    BY SchedulesAssumption DEF Request, SchedulesInv
  <1>2. QED BY <1>1, RequestKeeps DEF SchedulesInv

\* One row is edited, or goes.
LEMMA RowStep ==
    ASSUME SchedulesInv, NEW s \in Server, Request(s), NEW id, Exists(id),
           NEW row \in {Gone} \cup ConfigRow, configs' = [configs EXCEPT ![id] = row],
           \/ row = Gone \/ row.origin = "renamed"
           \/ row.name = configs[id].name /\ row.origin = configs[id].origin
    PROVE  SchedulesInv'
  <1>1. configs \in Table /\ configs \in Seq({Gone} \cup ConfigRow) /\ Untwinned(configs)
        /\ id \in DOMAIN configs /\ configs[id] # Gone
    BY DEF SchedulesInv, Table, Exists
  <1>2. /\ configs' \in Table /\ DOMAIN configs' = DOMAIN configs /\ configs'[id] = row
        /\ \A i \in DOMAIN configs : i # id => configs'[i] = configs[i]
    BY <1>1 DEF Table
  <1>3. Edited(configs, configs')
    BY <1>1, <1>2 DEF Edited
  <1>4. QED BY <1>1, <1>2, <1>3, EditedIs, RequestStep

LEMMA RequestsStep ==
    ASSUME SchedulesInv, NEW s \in Server,
           \/ \E name \in ConfigName, rest \in Sound \cup Unsound :
                 CreateConfig(s, name, rest) \/ \E id \in DOMAIN configs : EditConfig(s, id, name, rest)
           \/ \E id \in DOMAIN configs : ToggleConfig(s, id) \/ DeleteConfig(s, id)
    PROVE  SchedulesInv'
  <1>1. configs \in Table /\ Untwinned(configs)
        /\ \A i \in DOMAIN configs : configs[i] = Gone \/ configs[i] \in ConfigRow
    BY TableIs DEF SchedulesInv
  <1>2. ASSUME NEW name \in ConfigName, NEW rest \in Sound \cup Unsound, CreateConfig(s, name, rest)
        PROVE  SchedulesInv'
    <2> DEFINE row == [name |-> name, rest |-> rest, on |-> TRUE, origin |-> "operator"]
    <2>1. Request(s) /\ configs' = Append(configs, row)
      BY <1>2 DEF CreateConfig
    <2>2. row \in ConfigRow /\ row.origin # "import"
      BY DEF ConfigRow
    <2> HIDE DEF row
    <2>3. QED BY <1>1, <2>1, <2>2, AppendedIs, RequestStep
  <1>3. ASSUME NEW name \in ConfigName, NEW rest \in Sound \cup Unsound, NEW id \in DOMAIN configs,
               EditConfig(s, id, name, rest)
        PROVE  SchedulesInv'
    <2> DEFINE row == [name |-> name, rest |-> rest, on |-> configs[id].on,
                       origin |-> IF name = configs[id].name THEN configs[id].origin ELSE "renamed"]
    <2>1. Request(s) /\ Exists(id) /\ configs[id] \in ConfigRow
      BY <1>1, <1>3 DEF EditConfig, Exists
    <2>2. configs' = [configs EXCEPT ![id] = row]
      BY <1>3 DEF EditConfig
    <2>3. /\ row \in ConfigRow
          /\ \/ row.origin = "renamed"
             \/ row.name = configs[id].name /\ row.origin = configs[id].origin
      BY <2>1 DEF ConfigRow
    <2> HIDE DEF row
    <2>4. QED BY <2>1, <2>2, <2>3, RowStep
  <1>4. ASSUME NEW id \in DOMAIN configs, ToggleConfig(s, id) PROVE SchedulesInv'
    <2> DEFINE row == [configs[id] EXCEPT !.on = ~@]
    <2>1. Request(s) /\ Exists(id) /\ configs[id] \in ConfigRow
      BY <1>1, <1>4 DEF ToggleConfig, Exists
    <2>2. configs' = [configs EXCEPT ![id] = row]
      BY <1>4, <2>1 DEF ToggleConfig, ConfigRow
    <2>3. row \in ConfigRow /\ row.name = configs[id].name /\ row.origin = configs[id].origin
      BY <2>1 DEF ConfigRow
    <2> HIDE DEF row
    <2>4. QED BY <2>1, <2>2, <2>3, RowStep
  <1>5. ASSUME NEW id \in DOMAIN configs, DeleteConfig(s, id) PROVE SchedulesInv'
    <2>1. Request(s) /\ Exists(id) /\ configs' = [configs EXCEPT ![id] = Gone] /\ Gone \in {Gone} \cup ConfigRow
      BY <1>5 DEF DeleteConfig
    <2>2. QED BY <2>1, RowStep
  <1>6. QED BY <1>2, <1>3, <1>4, <1>5

LEMMA ScheduleStep == SchedulesInv /\ [ScheduleNext]_scheduleVars => SchedulesInv'
  <1> SUFFICES ASSUME SchedulesInv, [ScheduleNext]_scheduleVars PROVE SchedulesInv'
    OBVIOUS
  <1>1. CASE EditFiles
    <2>1. docs' \in Contents /\ edits' \in 0 .. MaxEdits /\ UNCHANGED <<configs, import>>
      BY <1>1, SchedulesAssumption DEF EditFiles, SchedulesInv
    <2>2. QED BY <2>1 DEF SchedulesInv
  <1>2. ASSUME NEW s \in Server, BeginImport(s) \/ ListConfigs(s) \/ UpdateFromFile(s) \/ CreateFromFile(s)
        PROVE  SchedulesInv'
    BY <1>2, BeginStep, ListStep, UpdateStep, CreateStep
  <1>3. ASSUME NEW s \in Server, RefuseDefinition(s) PROVE SchedulesInv'
    <2>1. import[s].at = "upsert" /\ Onward(s, {}, TRUE) /\ UNCHANGED <<docs, configs>> /\ edits' \in 0 .. MaxEdits
      BY <1>3 DEF RefuseDefinition, SchedulesInv
    <2>2. QED BY <2>1, FailedImport
  <1>4. ASSUME NEW s \in Server, UpsertFails(s) PROVE SchedulesInv'
    <2>1. import[s].at = "upsert" /\ Onward(s, {}, TRUE) /\ UNCHANGED <<docs, configs>> /\ edits' \in 0 .. MaxEdits
      <3>1. edits \in Nat /\ MaxEdits \in Nat
        BY SchedulesAssumption DEF SchedulesInv
      <3>2. edits < MaxEdits /\ edits' = edits + 1
        BY <1>4 DEF UpsertFails
      <3>3. edits' \in 0 .. MaxEdits
        BY <3>1, <3>2
      <3>4. QED BY <1>4, <3>3 DEF UpsertFails
    <2>2. QED BY <2>1, FailedImport
  <1>5. ASSUME NEW s \in Server, CrashServer(s) PROVE SchedulesInv'
    <2>1. import' = [import EXCEPT ![s] = Down] /\ UNCHANGED <<docs, configs>> /\ edits' \in 0 .. MaxEdits
      BY <1>5, SchedulesAssumption DEF CrashServer, SchedulesInv
    <2>2. Good(Down, configs)
      BY DownIs
    <2>3. DOMAIN import' = Server /\ \A t \in Server : Good(import'[t], configs)
      BY <2>1, <2>2 DEF SchedulesInv
    <2>4. QED BY <2>1, <2>3 DEF SchedulesInv
  <1>6. CASE UNCHANGED scheduleVars
    BY <1>6 DEF SchedulesInv, scheduleVars
  <1>7. QED BY <1>1, <1>2, <1>3, <1>4, <1>5, <1>6, RequestsStep DEF ScheduleNext

LEMMA ScheduleStart == ScheduleInit => SchedulesInv
  <1> SUFFICES ASSUME ScheduleInit PROVE SchedulesInv
    OBVIOUS
  <1>1. docs \in Contents /\ edits \in 0 .. MaxEdits
    BY SchedulesAssumption DEF ScheduleInit
  <1>2. configs = <<>> /\ configs \in Table /\ Untwinned(configs)
    BY DEF ScheduleInit, Table, Untwinned
  <1>3. DOMAIN import = Server /\ \A s \in Server : Good(import[s], configs)
    BY DownIs DEF ScheduleInit
  <1>4. QED BY <1>1, <1>2, <1>3 DEF SchedulesInv

LEMMA ScheduleFacts == SchedulesInv => ConfigsFollowFiles
  <1> SUFFICES ASSUME SchedulesInv PROVE ConfigsFollowFiles
    OBVIOUS
  <1>1. ScheduleTypeOK
    <2>1. \A i \in DOMAIN configs : configs[i] = Gone \/ configs[i] \in ConfigRow
      BY TableIs DEF SchedulesInv
    <2>2. ASSUME NEW s \in Server
          PROVE  /\ import[s].at \in {"down", "up", "list", "upsert"}
                 /\ import[s].failed \subseteq DOMAIN import[s].defs
                 /\ import[s].at = "upsert" => import[s].next \in DOMAIN import[s].defs
      <3>1. Formed(import[s], configs)
        BY DEF SchedulesInv, Good
      <3>2. DOMAIN import[s].defs = 1 .. Len(import[s].defs)
        BY <3>1 DEF Formed, ImportState
      <3>3. QED BY <3>1, <3>2 DEF Formed, ImportState
    <2>3. QED BY <2>1, <2>2 DEF SchedulesInv, ScheduleTypeOK, ConfigRow
  <1>2. FilesWin
    <2> SUFFICES ASSUME NEW s \in Server, NEW i \in DOMAIN import[s].defs \ import[s].failed,
                        import[s].at = "up", import[s].alone,
                        \A j \in DOMAIN import[s].defs \ import[s].failed :
                            j > i => import[s].defs[j].name # import[s].defs[i].name
                 PROVE  /\ IndexOf(import[s].defs[i].name) # 0
                        /\ configs[IndexOf(import[s].defs[i].name)].rest = import[s].defs[i].rest
                        /\ configs[IndexOf(import[s].defs[i].name)].on = import[s].defs[i].on
      BY DEF FilesWin
    <2> DEFINE r == import[s]
    <2>1. Formed(r, configs) /\ Won(r, configs)
      BY DEF SchedulesInv, Good
    <2>2. DOMAIN r.defs = 1 .. Len(r.defs) /\ Done(r) = 1 .. Len(r.defs)
      BY <2>1 DEF Formed, ImportState, Done
    <2>3. IndexOf(r.defs[i].name) = Newest(r.defs[i].name, configs)
      BY DEF IndexOf, Newest
    <2> HIDE DEF r
    <2>4. QED BY <2>1, <2>2, <2>3 DEF Won, r
  <1>3. NoTwin
    BY DEF SchedulesInv, Untwinned, NoTwin
  <1>4. QED BY <1>1, <1>2, <1>3 DEF ConfigsFollowFiles

(* Rows and imports are well-formed; when an import is over and nobody     *)
(* else wrote meanwhile, the newest config of every name says what the     *)
(* files say last; and an import makes no second config of a name          *)
(* (ConfigsFollowFiles; upsert_into_db).                                   *)
THEOREM ConfigsFollow == PlannerSpec => []ConfigsFollowFiles
  <1>1. PlannerInit => SchedulesInv
    BY ScheduleStart DEF PlannerInit
  <1>2. SchedulesInv /\ [PlannerNext]_plannerVars => SchedulesInv'
    <2> SUFFICES ASSUME SchedulesInv, [PlannerNext]_plannerVars PROVE SchedulesInv'
      OBVIOUS
    <2>1. [ScheduleNext]_scheduleVars
      BY DEF PlannerNext, plannerVars, OnlySweeps, OnlyConfigs
    <2>2. QED BY <2>1, ScheduleStep
  <1>3. QED BY <1>1, <1>2, ScheduleFacts, PTL DEF PlannerSpec
==============================================================================
