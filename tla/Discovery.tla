------------------------------ MODULE Discovery ------------------------------
(***************************************************************************)
(* Auto-planning of quality_api/discovery.py for one config: sweeps over   *)
(* the branch heads (discover), plans fired by hand (fire_on), and the     *)
(* ledger qa_planned_commits that makes them idempotent.  A sweep runs in  *)
(* the server's DiscoverySupervisor thread, in the POST handler or in the  *)
(* CLI; several can be under way.  Every ledger test, plan row, batch of   *)
(* task rows and ledger row is a transaction of its own.                   *)
(***************************************************************************)
EXTENDS Integers, Sequences

CONSTANTS
    Sweeper,    \* threads and processes that call discover or fire_on
    Lineage,    \* branches that match the config's pattern
    Commit,     \* shas; each is the head of at most one branch
    NoCommit,
    Modes,      \* modes the config is given: "auto", "on_demand"
    MinGap,     \* min_gap_seconds in ticks, 0 switches the debounce off
    Cells,      \* agent tasks of a plan: providers x scenarios x attempts
    MaxPlans,   \* bound on the plans created
    Manual,     \* TRUE: operators fire plans by hand
    Crashing,   \* sweepers that may die
    CrashUntil  \* bound: no sweeper dies once this many plans exist

ASSUME DiscoveryAssumption ==
    /\ NoCommit \notin Commit
    /\ Modes \subseteq {"auto", "on_demand"}
    /\ Manual \in BOOLEAN
    /\ MinGap \in Nat
    /\ Cells \in Nat \ {0}
    /\ {MaxPlans, CrashUntil} \subseteq Nat
    /\ Crashing \subseteq Sweeper

VARIABLES
    mode,     \* mode of the config row
    head,     \* sha each branch points to
    pushed,   \* shas that have been a head
    plans,    \* plan rows in order of insertion: commit, tasks, creator, its mode
    ledger,   \* planned commits: the plan recorded for them and the ticks since
    sweep     \* each sweeper: where it is, the mode it read, branches left to look at, its cell

vars == <<mode, head, pushed, plans, ledger, sweep>>

Cell == Lineage \X Commit

NoRow == [plan |-> 0, age |-> 0]
Idle == [at |-> "idle", mode |-> "auto", todo |-> {}, cell |-> NoCommit, plan |-> 0]

Init ==
    /\ mode \in Modes
    /\ head = [l \in Lineage |-> NoCommit]
    /\ pushed = {}
    /\ plans = << >>
    /\ ledger = [c \in Cell |-> NoRow]
    /\ sweep = [s \in Sweeper |-> Idle]

Recorded(c) == ledger[c].plan # 0

\* Mutant: the lineage is planned once and for all.
PlannedBefore(l) == \E c \in Cell : c[1] = l /\ Recorded(c)

\* _has_recent_plan: any row of the lineage, whatever its sha.
RecentPlan(l) == \E c \in Cell : c[1] = l /\ Recorded(c) /\ ledger[c].age <= MinGap

At(s, a) == sweep[s].at = a

\* The cell is done with; a sweep goes on with the branches it has left.
AfterCell(s) == [Idle EXCEPT !.at = IF sweep[s].todo = {} THEN "idle" ELSE "pick",
                             !.todo = sweep[s].todo]
NextCell(s) == sweep' = [sweep EXCEPT ![s] = AfterCell(s)]

------------------------------------------------------------------------------
Push(l, sha) ==
    /\ sha \notin pushed
    /\ head' = [head EXCEPT ![l] = sha]
    /\ pushed' = pushed \cup {sha}
    /\ UNCHANGED <<mode, plans, ledger, sweep>>

\* update_config: sweeps under way go on with the mode they read.
SetMode(m) ==
    /\ mode' = m
    /\ UNCHANGED <<head, pushed, plans, ledger, sweep>>

\* discover(): configs of mode on_demand are filtered out; git_list_branches is read once.
BeginSweep(s) ==
    /\ At(s, "idle")
    /\ mode = "auto"
    /\ sweep' = [sweep EXCEPT ![s].at = "pick",
                              ![s].todo = {<<l, head[l]>> : l \in {k \in Lineage : head[k] # NoCommit}}]
    /\ UNCHANGED <<mode, head, pushed, plans, ledger>>

\* Mutant: no _already_planned test.
TakeNext(s) ==
    /\ At(s, "pick")
    /\ \/ /\ sweep[s].todo = {}
          /\ sweep' = [sweep EXCEPT ![s] = Idle]
       \/ \E c \in sweep[s].todo :
             sweep' = [sweep EXCEPT ![s] = [@ EXCEPT !.todo = @ \ {c}, !.cell = c,
                                                     !.at = IF MinGap > 0 THEN "gap" ELSE "insert"]]
    /\ UNCHANGED <<mode, head, pushed, plans, ledger>>

\* The next branch of the sweep and its _already_planned test.
CheckLedger(s) ==
    /\ At(s, "pick")
    /\ \/ /\ sweep[s].todo = {}
          /\ sweep' = [sweep EXCEPT ![s] = Idle]
       \/ \E c \in sweep[s].todo :
             LET left == [sweep[s] EXCEPT !.todo = @ \ {c}]
             IN sweep' = [sweep EXCEPT ![s] =
                            IF Recorded(c) THEN left
                            ELSE [left EXCEPT !.at = IF MinGap > 0 THEN "gap" ELSE "insert",
                                              !.cell = c]]
    /\ UNCHANGED <<mode, head, pushed, plans, ledger>>

CheckGap(s) ==
    /\ At(s, "gap")
    /\ IF RecentPlan(sweep[s].cell[1]) THEN NextCell(s)
       ELSE sweep' = [sweep EXCEPT ![s].at = "insert"]
    /\ UNCHANGED <<mode, head, pushed, plans, ledger>>

\* fire_on(): no debounce; in on_demand mode no ledger test either.
Fire(s, c) ==
    /\ Manual
    /\ At(s, "idle")
    /\ c[2] \in pushed
    /\ mode = "on_demand" \/ ~Recorded(c)
    /\ sweep' = [sweep EXCEPT ![s] = [Idle EXCEPT !.at = "insert", !.mode = mode, !.cell = c]]
    /\ UNCHANGED <<mode, head, pushed, plans, ledger>>

InsertPlan(s) ==
    /\ At(s, "insert")
    /\ Len(plans) < MaxPlans
    /\ plans' = Append(plans, [cell |-> sweep[s].cell, tasks |-> 0,
                               by |-> s, mode |-> sweep[s].mode])
    /\ sweep' = [sweep EXCEPT ![s].at = "fan", ![s].plan = Len(plans) + 1]
    /\ UNCHANGED <<mode, head, pushed, ledger>>

\* One agent row with its judge row.
FanOut(s) ==
    /\ At(s, "fan")
    /\ plans[sweep[s].plan].tasks < Cells
    /\ plans' = [plans EXCEPT ![sweep[s].plan].tasks = @ + 1]
    /\ UNCHANGED <<mode, head, pushed, ledger, sweep>>

\* Mutant: the ledger row is written before the last task row.
RecordEarly(s) ==
    /\ At(s, "fan")
    /\ ledger' = [ledger EXCEPT ![sweep[s].cell] = [plan |-> sweep[s].plan, age |-> 0]]
    /\ NextCell(s)
    /\ UNCHANGED <<mode, head, pushed, plans>>

\* INSERT OR IGNORE; INSERT OR REPLACE for a plan fired in mode on_demand.
Record(s) ==
    /\ At(s, "fan")
    /\ plans[sweep[s].plan].tasks = Cells
    /\ ledger' = IF sweep[s].mode = "on_demand" \/ ~Recorded(sweep[s].cell)
                 THEN [ledger EXCEPT ![sweep[s].cell] = [plan |-> sweep[s].plan, age |-> 0]]
                 ELSE ledger
    /\ NextCell(s)
    /\ UNCHANGED <<mode, head, pushed, plans>>

Crash(s) ==
    /\ s \in Crashing
    /\ Len(plans) <= CrashUntil
    /\ ~At(s, "idle")
    /\ sweep' = [sweep EXCEPT ![s] = Idle]
    /\ UNCHANGED <<mode, head, pushed, plans, ledger>>

Tick ==
    /\ ledger' = [c \in Cell |-> IF Recorded(c) /\ ledger[c].age <= MinGap
                                 THEN [ledger[c] EXCEPT !.age = @ + 1] ELSE ledger[c]]
    /\ UNCHANGED <<mode, head, pushed, plans, sweep>>

SweepStep(s) ==
    \/ BeginSweep(s) \/ CheckLedger(s) \/ CheckGap(s)
    \/ InsertPlan(s) \/ FanOut(s) \/ Record(s)

Next ==
    \/ \E l \in Lineage, sha \in Commit : Push(l, sha)
    \/ \E m \in Modes \ {mode} : SetMode(m)
    \/ \E s \in Sweeper : SweepStep(s) \/ Crash(s)
    \/ \E s \in Sweeper, c \in Cell : Fire(s, c)
    \/ Tick

Spec == Init /\ [][Next]_vars

\* The supervisor's timer keeps firing and its thread runs; time passes.
FairSpec == Spec /\ WF_vars(Tick) /\ \A s \in Sweeper \ Crashing : WF_vars(SweepStep(s))

------------------------------------------------------------------------------
(* The rows and the sweeps keep their types. *)
TypeOK ==
    /\ mode \in Modes
    /\ head \in [Lineage -> Commit \cup {NoCommit}]
    /\ pushed \subseteq Commit
    /\ \A i \in DOMAIN plans :
          plans[i] \in [cell : Cell, tasks : 0 .. Cells, by : Sweeper,
                        mode : {"auto", "on_demand"}]
    /\ ledger \in [Cell -> [plan : Nat, age : Nat]]
    /\ sweep \in [Sweeper -> [at : {"idle", "pick", "gap", "insert", "fan"},
                              mode : {"auto", "on_demand"}, todo : SUBSET Cell,
                              cell : Cell \cup {NoCommit}, plan : Nat]]

(* A commit in the ledger has a complete plan: the row is written last, so *)
(* a crash or a race loses or repeats work but never hides a plan that is  *)
(* missing tasks (_create_plan, _record_planned).                          *)
LedgerMeansComplete ==
    \A c \in Cell : Recorded(c) =>
        /\ plans[ledger[c].plan].cell = c
        /\ plans[ledger[c].plan].tasks = Cells

(* Whatever is fired, pushed or switched in between, a sweeper that does   *)
(* not die plans a commit at most once in mode auto; a second plan is the  *)
(* work of another sweeper that overlapped with it or of one that died     *)
(* (_already_planned, _record_planned).                                    *)
OncePerSweeper ==
    \A i, j \in DOMAIN plans :
        /\ plans[i].cell = plans[j].cell
        /\ plans[i].by = plans[j].by /\ plans[i].by \notin Crashing
        /\ plans[i].mode = "auto" /\ plans[j].mode = "auto"
        => i = j

(* A head that stays a head of an auto config gets into the ledger, also   *)
(* when the debounce skipped it at first, a sweeper died over it or other  *)
(* plans were fired meanwhile (discover, _has_recent_plan).                *)
HeadIsPlanned ==
    \A l \in Lineage, sha \in Commit :
        <>[](head[l] = sha /\ mode = "auto") => <>(Recorded(<<l, sha>>) \/ Len(plans) = MaxPlans)
==============================================================================
