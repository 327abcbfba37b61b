------------------------------ MODULE BenchPulls ------------------------------
(***************************************************************************)
(* The pull requests a benchmark opens on a Bitbucket server               *)
(* (benchmarks/bitbucket/real_factory.py) for the units its sessions run   *)
(* (benchmarks/cli.py, _run_async and _ab_async).  A session is one        *)
(* process; before its first unit it sweeps away what killed sessions have *)
(* left.  A unit makes a throw-away branch, opens a pull request from it,  *)
(* has it reviewed and judged, and takes both away again.  Sessions share  *)
(* the server and know nothing of each other.                              *)
(*                                                                         *)
(* A branch and a pull request have the name of their unit (the branch     *)
(* name is a fresh uuid).  An answer that is lost after the server acted   *)
(* is sent again by _retry, and the server refuses the second.             *)
(***************************************************************************)
EXTENDS Naturals, FiniteSets

CONSTANTS
    Unit,            \* attempts at a scenario with a provider, of all sessions, numbered
    Session,         \* bench processes
    SessionOf,       \* the session of each unit
    PairOf,          \* its provider and scenario
    ProviderOf,      \* its provider
    Target,          \* the to_branch of its scenario
    Marked,          \* units whose title contains [BENCHMARK]
    ModesOf,         \* the modes a session may be started in
    Watched,         \* the sessions somebody may interrupt (bound)
    MaxPerProvider,  \* units of a provider at a time in mode "aggressive"
    PageLimit,       \* entries of a page of a list
    MaxRefused       \* units with a request that fails (bound)

ASSUME PullsAssumption ==
    /\ SessionOf \in [Unit -> Session] /\ IsFiniteSet(Unit)
    /\ Marked \subseteq Unit
    /\ ModesOf \in [Session -> SUBSET {"gentle", "aggressive", "ab"}]
    /\ {MaxPerProvider, PageLimit} \subseteq Nat \ {0} /\ MaxRefused \in Nat

ASSUME UnitAssumption == Unit \subseteq Nat

VARIABLES
    session,      \* of a session: "new", "up", "stopping", or how it ended
    mode,      \* of a session: how it runs its units
    progress,     \* where a unit is
    branches,  \* throw-away branches on the server
    pulls,     \* pull requests on the server: "none", "open", "declined"
    sweep,     \* the clean-up of a session
    results,   \* verdicts of the units
    refused,   \* history: units with a request that failed
    meddled    \* history: the sessions whose clean-up took something of a unit

pullVars == <<session, mode, progress, branches, pulls, sweep, results, refused, meddled>>

Progress == {"queued", "building", "branched", "abandoned", "open", "closing", "pruning",
             "ended", "cut"}
Judgement == {"pass", "fail", "error"}

UnitsOf(s) == {u \in Unit : SessionOf[u] = s}

NoSweep == [phase |-> "none", todo |-> {}, found |-> {}, live |-> {}, start |-> 0, more |-> TRUE,
            stale |-> {}, to |-> "none"]

PullsInit ==
    /\ session = [s \in Session |-> "new"] /\ mode = [s \in Session |-> "none"]
    /\ progress = [u \in Unit |-> "queued"]
    /\ branches = {} /\ pulls = [u \in Unit |-> "none"]
    /\ sweep = [s \in Session |-> NoSweep]
    /\ results = [u \in Unit |-> "none"]
    /\ refused = {} /\ meddled = [u \in Unit |-> {}]

OnServer == <<branches, pulls>>
History == <<refused, meddled>>

------------------------------------------------------------------------------
(* A session starts its units.                                             *)

Sweeps(s, next) == sweep' = [sweep EXCEPT ![s] = next]

\* A dry run, or one without scenarios, ends at once; a directory, the triggers, the units.
Launch(s) ==
    /\ session[s] = "new"
    /\ \/ session' = [session EXCEPT ![s] = "idle"] /\ UNCHANGED mode
       \/ /\ session' = [session EXCEPT ![s] = "up"]
          /\ \E how \in ModesOf[s] : mode' = [mode EXCEPT ![s] = how]
    /\ UNCHANGED <<progress, OnServer, sweep, results, History>>

Busy(s) == {u \in UnitsOf(s) : progress[u] \notin {"queued", "ended", "cut"}}

\* Units a unit shares a line with: those of its provider, or all of its session.
Rivals(u) ==
    {v \in UnitsOf(SessionOf[u]) : mode[SessionOf[u]] = "aggressive" => ProviderOf[v] = ProviderOf[u]}

\* One after the other, or as many as the semaphore of the provider lets in; in turn.
Start(u) ==
    LET s == SessionOf[u]
        limit == IF mode[s] = "aggressive" THEN MaxPerProvider ELSE 1
    IN
    /\ session[s] = "up" /\ progress[u] = "queued"
    /\ Cardinality(Busy(s) \cap Rivals(u)) < limit
    /\ \A v \in Rivals(u) : v < u => progress[v] # "queued"
    /\ progress' = [progress EXCEPT ![u] = "building"]
    /\ UNCHANGED <<session, mode, OnServer, sweep, results, History>>

\* A session fails: SIGKILL or SIGTERM, a second Ctrl-C, an exception outside the try of a unit;
\* or what was stopped is through.  What it had in memory is gone.
Fail(s) ==
    /\ session[s] \in {"up", "stopping"}
    /\ session' = [session EXCEPT ![s] = "failed"]
    /\ progress' = [u \in Unit |->
           IF SessionOf[u] = s /\ progress[u] # "ended" THEN "cut" ELSE progress[u]]
    /\ results' = [u \in Unit |-> IF SessionOf[u] = s THEN "none" ELSE results[u]]
    /\ Sweeps(s, NoSweep)
    /\ UNCHANGED <<mode, OnServer, History>>

\* Ctrl-C cancels the tasks of the units: one with a proxy still closes it, the others are cut
\* off, and the request such a unit has out may still be done by the thread that sent it.
Interrupt(s) ==
    /\ s \in Watched /\ session[s] = "up"
    /\ session' = [session EXCEPT ![s] = "stopping"]
    /\ progress' = [u \in Unit |->
           IF u \notin Busy(s) THEN progress[u]
           ELSE IF progress[u] = "open" THEN "closing" ELSE "cut"]
    /\ \E late \in SUBSET Busy(s) :
          /\ branches' =
                 {u \in branches \cup late :
                     IF u \in late /\ progress[u] = "building" THEN sweep[s].phase = "done"
                     ELSE /\ u \in branches
                          /\ u \in late => progress[u] \notin {"pruning", "abandoned"}}
          /\ pulls' = [u \in Unit |->
                 IF u \in late /\ progress[u] = "branched" /\ u \in branches THEN "open"
                 ELSE IF u \in late /\ progress[u] = "closing" /\ pulls[u] = "open" THEN "declined"
                 ELSE pulls[u]]
    /\ UNCHANGED <<mode, sweep, results, History>>

------------------------------------------------------------------------------
(* The clean-up, once per session and under its lock.                      *)

Swept(s) == sweep[s].phase = "done"

\* Mutant: _cleanup_done is not asked.
MaySweepAgain(s) == sweep[s].phase \in {"none", "done"}

MaySweep(s) == sweep[s].phase = "none"

BeginSweep(u) ==
    LET s == SessionOf[u] IN
    /\ session[s] = "up" /\ progress[u] = "building" /\ MaySweep(s)
    /\ Sweeps(s, [NoSweep EXCEPT !.phase = "pulls", !.to = Target[u]])
    /\ UNCHANGED <<session, mode, progress, OnServer, results, History>>

\* The thread that sweeps is not stopped by an interrupt.
Sweeping(s, phase) == session[s] \in {"up", "stopping"} /\ sweep[s].phase = phase

\* The pages a list of n entries may answer from an offset on: the order is the server's.
Pages(entries, start) ==
    LET n == Cardinality(entries)
        size == IF n <= start THEN 0 ELSE IF n - start < PageLimit THEN n - start ELSE PageLimit
    IN {page \in SUBSET entries : Cardinality(page) = size}

GoesOn(entries, start, page) == start + Cardinality(page) < Cardinality(entries)

\* A page of the open pull requests into the target branch; declining them shortens the list.
ListPulls(s) ==
    LET listed == {u \in Unit : pulls[u] = "open" /\ Target[u] = sweep[s].to} IN
    /\ Sweeping(s, "pulls") /\ sweep[s].todo = {} /\ sweep[s].more
    /\ \E page \in Pages(listed, sweep[s].start) :
          Sweeps(s, [sweep[s] EXCEPT
              !.todo = page \cap Marked,
              !.more = GoesOn(listed, sweep[s].start, page),
              !.start = sweep[s].start + Cardinality(page),
              !.stale = IF sweep[s].start = 0 /\ page = listed THEN page \cap Marked ELSE {}])
    /\ UNCHANGED <<session, mode, progress, OnServer, results, History>>

\* The list fails: the branches are still looked at.
ListPullsFails(s) ==
    /\ Sweeping(s, "pulls") /\ sweep[s].todo = {} /\ sweep[s].more
    /\ Sweeps(s, [sweep[s] EXCEPT !.more = FALSE, !.stale = {}])
    /\ UNCHANGED <<session, mode, progress, OnServer, results, History>>

\* A decline; one that is closed already is refused by the server, and an answer may be lost.
DeclineStale(s, u) ==
    /\ Sweeping(s, "pulls") /\ u \in sweep[s].todo
    /\ \/ /\ pulls[u] = "open"
          /\ pulls' = [pulls EXCEPT ![u] = "declined"]
          /\ meddled' = [meddled EXCEPT ![u] = meddled[u] \cup {s}]
       \/ UNCHANGED <<pulls, meddled>>
    /\ Sweeps(s, [sweep[s] EXCEPT
           !.todo = sweep[s].todo \ {u},
           !.stale = IF pulls'[u] = "open" THEN {} ELSE sweep[s].stale])
    /\ UNCHANGED <<session, mode, progress, branches, results, refused>>

\* From _decline_open_bench_prs to _delete_orphan_bench_branches.
TurnToBranches(s) ==
    /\ Sweeping(s, "pulls") /\ sweep[s].todo = {} /\ ~sweep[s].more
    /\ Sweeps(s, [sweep[s] EXCEPT !.phase = "branches", !.more = TRUE, !.start = 0])
    /\ UNCHANGED <<session, mode, progress, OnServer, results, History>>

\* A page of the branches under bench/; after the last one they are looked at.
ListBranches(s) ==
    /\ Sweeping(s, "branches")
    /\ \E page \in Pages(branches, sweep[s].start) :
          LET found == sweep[s].found \cup page
              goesOn == GoesOn(branches, sweep[s].start, page)
          IN Sweeps(s, [sweep[s] EXCEPT
              !.found = found,
              !.start = sweep[s].start + Cardinality(page),
              !.todo = IF goesOn THEN {} ELSE found,
              !.phase = IF goesOn THEN "branches" ELSE "checking",
              !.stale = IF branches \subseteq found THEN sweep[s].stale ELSE {}])
    /\ UNCHANGED <<session, mode, progress, OnServer, results, History>>

ListBranchesFails(s) ==
    /\ Sweeping(s, "branches")
    /\ Sweeps(s, [NoSweep EXCEPT !.phase = "done"])
    /\ UNCHANGED <<session, mode, progress, OnServer, results, History>>

\* Is there an open pull request from the branch?  An exception counts as yes, an error
\* status of the server as no.
CheckBranch(s, u) ==
    /\ Sweeping(s, "checking") /\ u \in sweep[s].todo
    /\ \E answer \in {"open", "none", "raised", "status"} :
          /\ answer = "open" => pulls[u] = "open"
          /\ answer = "none" => pulls[u] # "open"
          /\ Sweeps(s, [sweep[s] EXCEPT
                 !.todo = sweep[s].todo \ {u},
                 !.live = IF answer \in {"open", "raised"} THEN sweep[s].live \cup {u}
                         ELSE sweep[s].live,
                 !.stale = IF answer \in {"raised", "status"} THEN {} ELSE sweep[s].stale])
    /\ UNCHANGED <<session, mode, progress, OnServer, results, History>>

DeleteOrphan(s, u) ==
    /\ Sweeping(s, "checking") /\ sweep[s].todo = {} /\ u \in sweep[s].found \ sweep[s].live
    /\ \/ /\ branches' = branches \ {u}
          /\ meddled' = [meddled EXCEPT ![u] = IF u \in branches THEN @ \cup {s} ELSE @]
       \/ UNCHANGED <<branches, meddled>>
    /\ Sweeps(s, [sweep[s] EXCEPT
           !.found = sweep[s].found \ {u},
           !.stale = IF u \in branches' THEN {} ELSE sweep[s].stale])
    /\ UNCHANGED <<session, mode, progress, pulls, results, refused>>

EndSweep(s) ==
    /\ Sweeping(s, "checking") /\ sweep[s].todo = {} /\ sweep[s].found \subseteq sweep[s].live
    /\ Sweeps(s, [NoSweep EXCEPT !.phase = "done", !.stale = sweep[s].stale])
    /\ UNCHANGED <<session, mode, progress, OnServer, results, History>>

SweepSteps(s) ==
    \/ ListPulls(s) \/ ListPullsFails(s) \/ TurnToBranches(s)
    \/ ListBranches(s) \/ ListBranchesFails(s) \/ EndSweep(s)
    \/ \E u \in Unit : DeclineStale(s, u) \/ CheckBranch(s, u) \/ DeleteOrphan(s, u)

------------------------------------------------------------------------------
(* A unit.                                                                 *)

AtWork(u, at) == session[SessionOf[u]] = "up" /\ progress[u] = at

\* Its proxy is closed even when the session is being stopped.
Leaving(u, at) == session[SessionOf[u]] \in {"up", "stopping"} /\ progress[u] = at

Moves(u, next) == progress' = [progress EXCEPT ![u] = next]

\* An attempt that raised: its result is an error, and an A/B comparison goes no further.
Throws(u) ==
    /\ results' = [results EXCEPT ![u] = "error"]
    /\ session' = [session EXCEPT ![SessionOf[u]] =
                       IF mode[SessionOf[u]] = "ab" THEN "stopping" ELSE "up"]

Refuses(u) ==
    /\ Cardinality(refused \cup {u}) <= MaxRefused
    /\ refused' = refused \cup {u} /\ UNCHANGED meddled

CreateBranch(u) ==
    /\ AtWork(u, "building") /\ Swept(SessionOf[u])
    /\ branches' = branches \cup {u}
    /\ Moves(u, "branched")
    /\ UNCHANGED <<session, mode, pulls, sweep, results, History>>

\* build raises, and what the server has made of the request stays.
CreateBranchFails(u) ==
    /\ AtWork(u, "building") /\ Swept(SessionOf[u])
    /\ branches' \in {branches, branches \cup {u}}
    /\ Moves(u, "ended") /\ Throws(u) /\ Refuses(u)
    /\ UNCHANGED <<mode, pulls, sweep>>

CreatePull(u) ==
    /\ AtWork(u, "branched") /\ u \in branches
    /\ pulls' = [pulls EXCEPT ![u] = "open"]
    /\ Moves(u, "open")
    /\ UNCHANGED <<session, mode, branches, sweep, results, History>>

\* An exception gives the branch up; an answer without an id leaves it.
CreatePullFails(u) ==
    /\ AtWork(u, "branched")
    /\ \/ UNCHANGED pulls
       \/ u \in branches /\ pulls' = [pulls EXCEPT ![u] = "open"]
    /\ \E next \in {"abandoned", "ended"} : Moves(u, next)
    /\ Throws(u) /\ Refuses(u)
    /\ UNCHANGED <<mode, branches, sweep>>

Abandon(u) ==
    /\ Leaving(u, "abandoned")
    /\ branches' \in {branches, branches \ {u}}
    /\ Moves(u, "ended")
    /\ UNCHANGED <<session, mode, pulls, sweep, results, History>>

\* The agent has reviewed and the judge has scored; an agent that fails is an error without a
\* judge, and a judge that fails raises.
Judge(u) ==
    /\ AtWork(u, "open")
    /\ \/ Throws(u)
       \/ /\ \E verdict \in Judgement : results' = [results EXCEPT ![u] = verdict]
          /\ UNCHANGED session
    /\ Moves(u, "closing")
    /\ UNCHANGED <<mode, OnServer, sweep, History>>

\* close(): the decline, and then the branch.
Close(u) ==
    /\ Leaving(u, "closing") /\ pulls[u] = "open"
    /\ pulls' = [pulls EXCEPT ![u] = "declined"]
    /\ Moves(u, "pruning")
    /\ UNCHANGED <<session, mode, branches, sweep, results, History>>

\* A decline that raises is swallowed by __aexit__, and the branch stays.
CloseFails(u) ==
    /\ Leaving(u, "closing")
    /\ pulls' \in {pulls, [pulls EXCEPT ![u] = "declined"]}
    /\ Moves(u, "ended")
    /\ IF pulls[u] = "open" THEN Refuses(u) ELSE UNCHANGED History
    /\ UNCHANGED <<session, mode, branches, sweep, results>>

Prune(u) ==
    /\ Leaving(u, "pruning")
    /\ \/ branches' = branches \ {u} /\ UNCHANGED History
       \/ UNCHANGED branches /\ Refuses(u)
    /\ Moves(u, "ended")
    /\ UNCHANGED <<session, mode, pulls, sweep, results>>

UnitSteps(u) ==
    \/ Start(u) \/ BeginSweep(u) \/ CreateBranch(u) \/ CreateBranchFails(u) \/ CreatePull(u)
    \/ CreatePullFails(u) \/ Abandon(u) \/ Judge(u) \/ Close(u) \/ CloseFails(u) \/ Prune(u)

------------------------------------------------------------------------------
(* The report.                                                             *)

\* aggregate_results over the attempts at one scenario with one provider.
Aggregate(attempts) ==
    LET passed == {u \in attempts : results[u] = "pass"} IN
    IF passed = {} /\ (\E u \in attempts : results[u] = "error") THEN "error"
    ELSE IF 2 * Cardinality(passed) >= Cardinality(attempts) THEN "pass" ELSE "fail"

AttemptsLike(u) == {v \in UnitsOf(SessionOf[u]) : PairOf[v] = PairOf[u]}

\* An aggregate that is an error makes the exit code of a run 1; a comparison shows its scores.
Report(s) ==
    /\ session[s] = "up" /\ \A u \in UnitsOf(s) : progress[u] = "ended"
    /\ session' = [session EXCEPT ![s] =
           IF mode[s] # "ab" /\ (\E u \in UnitsOf(s) : Aggregate(AttemptsLike(u)) = "error")
           THEN "failed" ELSE "ok"]
    /\ UNCHANGED <<mode, progress, OnServer, sweep, results, History>>

PullsNext ==
    \/ \E s \in Session : Launch(s) \/ Fail(s) \/ Interrupt(s) \/ SweepSteps(s) \/ Report(s)
    \/ \E u \in Unit : UnitSteps(u)

------------------------------------------------------------------------------
(* Properties.                                                             *)

SweepRecord ==
    [phase : {"none", "pulls", "branches", "checking", "done"}, todo : SUBSET Unit,
     found : SUBSET Unit, live : SUBSET Unit, start : Nat, more : BOOLEAN,
     stale : SUBSET Unit, to : {"none"} \cup {Target[u] : u \in Unit}]

\* The types of what the sessions hold and the server keeps.
PullsTypeOK ==
    /\ session \in [Session -> {"new", "up", "stopping", "idle", "ok", "failed"}]
    /\ mode \in [Session -> {"none", "gentle", "aggressive", "ab"}]
    /\ progress \in [Unit -> Progress]
    /\ branches \subseteq Unit
    /\ pulls \in [Unit -> {"none", "open", "declined"}]
    /\ sweep \in [Session -> SweepRecord]
    /\ results \in [Unit -> Judgement \cup {"none"}]
    /\ refused \subseteq Unit
    /\ meddled \in [Unit -> SUBSET Session]

(* The clean-up of a session takes nothing its own units have made, how    *)
(* many of them may run at a time (real_factory.py:435-441, 484-490).      *)
SparesItsOwn == \A u \in Unit : SessionOf[u] \notin meddled[u]

(* A unit that has ended leaves neither an open pull request nor a branch, *)
(* unless a request of its own failed or another session meddled (close,   *)
(* and the except of build).                                               *)
LeavesNothing ==
    \A u \in Unit :
        progress[u] = "ended" /\ u \notin refused /\ meddled[u] = {} =>
            u \notin branches /\ pulls[u] # "open"

(* The clean-up does what it is there for: the marked pull requests it was *)
(* listed are closed and their branches gone, unless a request of it       *)
(* failed.  It declines first: a branch is kept for an open pull request.  *)
(* A list of more than a page does not count: declining shortens it while  *)
(* it is walked, and entries are skipped (_cleanup_stale_bench_artefacts). *)
SweepClears ==
    \A s \in Session :
        Swept(s) => \A u \in sweep[s].stale : pulls[u] # "open" /\ u \notin branches

(* A run that exits with 0 has an output of every scenario with every      *)
(* provider: an attempt at it that was not an error (cli.py:783-804).      *)
ErrorsAreTold ==
    \A s \in Session :
        session[s] = "ok" /\ mode[s] # "ab" =>
            \A u \in UnitsOf(s) : \E v \in AttemptsLike(u) : results[v] \in {"pass", "fail"}

\* The pull requests of a benchmark are closed once and by their own session, and told of.
PullsKept == SparesItsOwn /\ LeavesNothing /\ SweepClears /\ ErrorsAreTold
==============================================================================
