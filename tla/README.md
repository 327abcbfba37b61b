# Formal models of diff-graph's quality pipeline, review runs and agent runtime

diff-graph runs LLM review agents over code changes, and benchmarks them: a queue of
tasks in SQLite (`quality_api/`), worker processes that lease tasks and run a benchmark
subprocess for each (`quality_cli/main.py`, `benchmarks/`), a server with supervisors and
an HTTP API (`tracing/server/`), a webhook server that starts reviews (`webhook/`), the
review itself (`cli.py`, `diffgraph/`) and the agent runtime below it (`orchestra/`). This
directory holds TLA+ modules for the parts of that system with state that outlives a
call, TLC configurations that check them on small instances, and TLAPS proofs for
instances of any size.

Paths are relative to `src/`.

## 1. Inventory

### Components, their state, their operations

| Component | Source | State | Operations | Module |
|---|---|---|---|---|
| Task queue | `quality_api/queue.py`, endpoints in `tracing/server/app.py` | tables `qa_tasks`, `qa_plans`, `qa_workers` | enqueue, lease, heartbeat, finish, cancel, retry, reap, force-release, list/clean up workers, create/cancel plan | `TaskQueue` |
| Worker loop | `quality_cli/main.py` `worker_loop` | its task `t`, its stop event, one heartbeat thread per task | register, poll, lease, run the bench, finish, stop | `WorkerLoop` |
| Worker pools | `quality_api/pools.py` | pool rows, the processes it started | a tick: read the row, count, spawn the deficit; set or drop a pool | `WorkerPool` |
| Plan discovery | `quality_api/discovery.py` | ledger `qa_planned_commits` | sweep over branch heads, fire by hand, record | `Discovery` |
| Schedules | `quality_api/schedules_yaml.py`, `AutoPlanStore` | table `qa_auto_plan_configs`, schedule files | import of the files, create, edit, toggle, delete | `Schedules` |
| Schema bootstrap | `queue.py` `_ensure_schema` | the schema of the shared database | migrations run by every process that opens it | `SchemaBootstrap` |
| Run rows | `orchestra/trace_db.py`, `tracing/server/orphan_sweeper.py`, `benchmarks/runner/run_unit.py`, `cli.py` | table `runs`, events | start, finish, sweep orphans, close by the bench | `RunLifecycle` |
| Live page | `tracing/server/app.py` `ws_live` | position of a poll, what the page shows | poll events, poll status, send, end | `LiveView` |
| Webhook server | `webhook/` | routing table, background jobs, health checks | accept an event, start jobs, admin API, reload, checks | `Webhook` |
| Agent loop, budget | `orchestra/agent.py`, `orchestra/budget.py` | steps, tokens, latches of the pushers, guards | ask, take the answer, send back, force the end | `AgentLoop`, `ToolDispatch` |
| Open questions | `orchestra/sgr.py` | questions and resolutions | record a reflect | `Sgr` |
| Chat history | `orchestra/condensation.py`, `agent.py` | the message list | a step, a guard's answer, a condensation | `ChatHistory` |
| Delegation, mocks | `orchestra/agent.py`, `agents_runtime.py`, `tool_mocks.py` | tree of agents, cursor per mocked tool | spawn, return, consume | `Delegation` |
| Async children | `orchestra/agent.py` | results, callback queue, collected set, two locks | spawn, finish in a thread, drain, await | `AsyncChildren` |
| Shared tools | `orchestra/tools/shared.py` | a log, a map of claims | append, claim, release | `SharedTools` |
| Tool registry | `orchestra/tools/` | handlers of each agent | clone, register, call, call through `call_tool` | `ToolSurface` |
| Repository access | `diffgraph/orchestrator.py`, `orchestra_tools.py`, `cli.py` | shared context, clone, VFS cache | ensure the clone, build a VFS, read, clean up | `RepoAccess` |
| Comment threads | `diffgraph/comment_tools.py`, `orchestra_tools.py` | snapshot of comments, cut-off id | start, list pages, read a thread | `CommentThreads` |
| Posting, end of a run | `cli.py`, `orchestra_tools.py`, `bitbucket.py` | posted comments, verdict, row, `output.json` | post with retries, set the verdict, finalize, publish, signals | `Posting` |
| Recording | `diffgraph/recording.py` | `pr.json`, invocation directories, bundle, manifest | scan, snapshot, fetch the prior bundle, swap, list | `Recording` |
| Replay | `benchmarks/runner/replay.py`, `bitbucket_fake.py` | timeline, replay state | record, apply a difference, run, post | `Replay` |
| Bench attempts | `benchmarks/cli.py`, `runner/run_unit.py`, `run.py`, `judge.py` | rows and links of agents and judges, attempt directory, clone | start, wait, time out, judge, link, clear away | `BenchAttempts` |
| Bench pull requests | `benchmarks/cli.py`, `benchmarks/bitbucket/real_factory.py` | branches and pull requests on a shared server, the sweep of a session, results | sweep, branch, open, judge, close, prune, interrupt, report | `BenchPulls` |
| Diff view | `diffsearch/`, `diffgraph/diff_parser.py`, `orchestra_tools.py` | lines of a virtual file with marks and numbers, changed lines, listing | take a line of the diff, write, read, search, outline, list a page | `DiffView` |
| Views, Jira, prompt compiler, checkpointer, evolution | see `PROJECT.json` | none that is shared, or files of one process | read, render, call remote APIs | - |

### How they interact

Everything of the quality pipeline meets in one SQLite file. The server process
(supervisor threads, HTTP handlers), every worker process (a main thread and heartbeat
threads), and the CLI issue transactions on it independently; the `threading.Lock` of a
`TaskQueue` orders the threads of one process only. A Python `with connection:` block
commits where the code says `commit()`: most operations are one transaction, and those
that are not (`finish`, `_maybe_finish_plan`, `PlanStore.create`, `_discover_one`,
`_ensure_schema`) are cut at their commits in the models.

A worker starts one bench process per task, the bench starts one `cli.py` per attempt,
and each of those writes a row into the trace database, which the judge, the sweeper and
the live page read. Inside `cli.py` one root agent runs; its domain tools share one
context (`_Ctx`) and run in the threads of a step, and asynchronous children bring
threads of their own. What the review leaves behind is comments and a verdict on
Bitbucket, a row and, when recording is on (`cli.py:542`), an invocation directory with its
`output.json`. A write of the recording that fails is logged and disables it
(`recording.py:456-466`); the run goes on and publishes its verdict.

Agents exchange data through calls only: the result of a spawn, messages injected into
the list, answers of shared tools.

### What is hard here

- many processes interleave at transaction granularity, and time decides who owns a row:
  leases, grace periods, stale heartbeats, sleep of the host;
- a worker is two threads that share Python variables, and `join(timeout=1)` may leave an
  old heartbeat thread behind;
- processes die between the commits of one operation, or between a guard and the write it
  guards;
- several sweeps plan the same commits, several servers import the same files, and the
  check is a read before the write;
- three parties close a run's row, and SQLite's lock makes the loser's error disappear in
  an `except`;
- tool calls of one step run in parallel over an unlocked context that the first of them
  fills;
- child agents finish at any moment, between the two locks that guard their result, and
  also after their parent's run is over;
- posts are retried over a network that may have applied them;
- the recording writers share files and hold no lock;
- benchmark sessions share a server: one sweeps what looks left over while another works;
- the diff view is counted out of git's text line by line, and its tools cut their answers;
- a model may answer anything: text, malformed arguments, `done` beside other calls.

`PROJECT.json` lists each of these hazards with its line and the properties that watch
over it.

### What makes each component correct

- *Queue*: a row has one owner, an outcome is recorded by the owner alone; a plan is done
  when its rows are, and not before; a judge row follows its agent row.
- *Worker*: it holds no lease it is not working on; while it is on time nobody takes its
  task; if it dies the task comes back; every task is closed in the end.
- *Pools*: no more processes than the largest target as long as rows and processes agree,
  and some while tasks wait.
- *Discovery and schedules*: a recorded commit has a complete plan, a sweeper does not
  repeat its own plans, heads are not forgotten; after an import the table says what the
  files say.
- *Bootstrap*: whoever reopens the database can use it, but for what a lock made it skip.
- *Run rows*: the row and its markers say how the run ended, and it ends.
- *Live page, webhook*: what was committed is shown, what was accepted is run, one route
  decides an event, checks do not pile up.
- *Agents*: a run ends, is told before it does, respects its guards; questions, results
  and mocks are neither lost nor mixed up; the history stays acceptable to the endpoint.
- *Review*: all tools read one revision and one state of the comments; pull request,
  output and row tell the same story; nothing is left on disk; the diff view shows what the
  branch changes.
- *Recording, replay, bench*: what is recorded can be replayed and is shown as it was; an
  attempt is judged and recorded as the run it made; a session closes its own pull requests
  and branches, once, and its exit code tells of errors.

## 2. Modules

Components that share no state are checked in one run each by a *suite*: a module that
extends them, with a variable `part` that picks one for a behaviour. The others stay in
an initial state, so the state spaces add up instead of multiplying.

| Module | Contains | Notes |
|---|---|---|
| `TaskQueue` | the three tables, one action per transaction; at its end the refinement of `TaskOwnership` | open environment: any caller at any moment |
| `TaskQueueAudit` | `TaskQueue` with history variables | the properties about plans and judges |
| `TaskOwnership` | abstract specification: a lock per task with an outcome on record | |
| `WorkerLoop` | worker processes, their threads, the server behind them, on the actions of `TaskQueue` | composition; time, fairness |
| `Planner` | suite of `Discovery`, `Schedules` | |
| `Services` | suite of `SchemaBootstrap`, `WorkerPool`, `RunLifecycle`, `LiveView`, `Webhook` | fairness |
| `AgentParts` | suite of `AgentLoop` (on `ToolDispatch`), `Sgr`, `ChatHistory`, `Delegation`, `SharedTools`, `ToolSurface`, `AsyncChildren` | |
| `Review` | suite of `RepoAccess`, `CommentThreads`, `Posting`, `Recording`, `Replay`, `BenchAttempts`, `BenchPulls`, `DiffView` | |
| `Subsequences` | entries of a sequence at a set of positions, in order | used by `Webhook`, `Schedules`, `Replay` |
| `MC*` | constants of the small instances | |
| `*Proofs` | theorems | section 5 |
| `DataInduction` | induction over numbers, ranks, folds | for the proofs |

### Correspondence, module by module

**TaskQueue.** `task[a]` is the row of an agent task: `state`, `lease_owner` (`owner`), the
ticks until `lease_expires_at` (`ttl`, which may become negative), `retry_count` and the
ticks until `not_before` (`due`). `judge[a]` is the state of its companion row: it is
never leased (`kind='agent'` in `lease`), so it has no owner. Rows without a plan have no
companion. `lease` takes a row of the lowest `priority`; which one of those is earliest by
`enqueued_at` is left open. `finish` is `FinishRetry`, or `FinishTerminal` followed by
`CascadeJudge`, `CountPlan` and `ClosePlan`, each a transaction of its own, tied together
by a record in `cont`; `LoseContinuation` is the death of the caller in between. The
SELECT and the UPDATE of the retry branch are one action: the UPDATE repeats the owner
test, and nothing but the owner's own report changes `retry_count` of a row that keeps
its owner. `RetryTask` accepts a queued row since the endpoint's test and its UPDATE are
two transactions. `ListWorkers(fresh)` is the four statements of one self-healing pass in
one transaction; `fresh` are the owners whose run emitted an event in the stale window,
any subset of the owners. `Tick` lets time pass for leases, delays and heartbeats
together.

**WorkerLoop.** `proc[w]` is the program point of the main thread and its variable `t`;
`hb[w]` are the heartbeat threads. A thread is `top` (waiting, about to look at the
event), `row` (between the test and `worker_heartbeat`) or `beat` (it has read `t.id` and
is about to call `heartbeat`). The closure reads the *variables* `t` and `hb_stop`: `Wake`
and `BeatRow` look at what these name now, which after the next `lease` is the next task
and the next event. `hbStop[w]` is therefore one value per worker. `Joined` is
`join(timeout=1)`: with `JoinTimesOut` the main thread goes on. A crash takes a
continuation of `finish()` with it. `Serve` is the supervisor and the reaping endpoints,
`Operate` the producers and, with `Admin`, the operators.

**WorkerPool.** The row of a worker and its process are separate; `MarkDead` is what
`list_workers` does to a row whose heartbeat is stale, and time is left out: it may take
any row, and a process may register at any later moment. `wanted` is the pool's row
(`SetPool`, `DropPool`; 0 stands for disabled or deleted) and a tick counts and spawns for
the target it read. `misled` is a history variable: a tick counted rows while a spawned
process had none yet, or a row was marked dead over a live process. `WithinTarget` says
these are the only ways to exceed the largest target (`Most`).

**Discovery.** A sweep reads the heads once (`BeginSweep`), then per branch tests the ledger
(`CheckLedger`), the debounce (`CheckGap`), inserts the plan, its rows one cell at a time,
and the ledger row (`Record`). `Fire` is `fire_on`. The mode of the config can be switched
at any moment (`SetMode`); a sweep or a fire under way goes on with the mode it read. A
crash leaves the plan as far as it got.

**Schedules.** `import[s]` is the upsert of a server: `BeginImport` reads the files
(`load_files` raises on a value that `int()` does not take: `Garbled`), `ListConfigs` lists
the rows by name, then `UpdateFromFile` or `CreateFromFile` per definition, each a
transaction. A name is not unique: `IndexOf` is the newest row of a name, which is what
the dict comprehension of the import keeps. `alone` is a history field: nobody else wrote
since the list. Operators create, edit, toggle and delete in between.

**SchemaBootstrap.** `Program` is the list of statements in their order; `Altered` gives the
columns after a statement, and one that fails changes nothing, as the
`except sqlite3.OperationalError: pass` around each does. `Refused` is the ALTER that meets a lock
for longer than `busy_timeout`: the same `except` skips over it, and `missed` remembers the column
for that process (`MaxLocks` bounds them). The script of CREATE statements at the end stands outside
of any `except`: an index of a column that is missing raises (`Raises`), and the process ends.
`Quit` is the end of a process at any point, after which it may be started again; a start that no
lock disturbs adds what an earlier one has missed.

**RunLifecycle.** `row[r]` is `runs.status`. The run's process inserts the row, works,
publishes and calls `finish_run` (an unconditional UPDATE); `finish[r]` becomes `lost` when
the sweeper holds the write lock. The sweeper reads its candidates (started before the
cutoff, no recent span) in one transaction, then updates and marks row by row and commits
at the end; `Sweep` is one of these steps, `SweepAbort` an error in the middle. The bench
closes the row of a process that is gone under `status='running'`. Time is the two sets
`old` and `recent`.

**LiveView.** A poll is `ReadEvents` (one transaction), `ReadStatus` (another) and `Send`.
Events are numbered as they commit. `between` is a history variable: events committed
between the two reads of this poll.

**Webhook.** A route is its sample of pull requests, its commands and its agents; `Routed` is
`route_event`: the decisions of the first route that has any. A decision becomes a
job; a job of a `cli` agent leaves the event loop free, one of an `http` agent holds it
(`loop`) until `urlopen()` returns. PATCH looks the route up, awaits the body and then
writes to the object it found (`patches`, which a reload detaches from the table).
The health check (`due`, `ages`, `stall`) is one check with its runner and the ages of the
commands under way; a stall of the event loop delays both the runner and the kills.

**AgentLoop.** A step is `Ask` (pushers, narrowing of the tools, the request) and the answer:
`AnswerText`, `AnswerCalls`, `HandlerRaises` or `LlmFails`; `ForceDone` is `_force_done`.
Budget axes are percentages of limits; a level latches in `fired`. Calls go through
`ToolDispatch`, which says what becomes of the arguments of a call: parsed, repaired by
the first repair of the chain that applies, refused by validation, or passed on. The
cadence counter is cut where no comparison can tell values apart (`CounterTop`). `request` counts the
attempts of `_llm_call_with_retry` at the request that is out. An agent in mode single (`single`) makes
one request without tools, guards or budget (`AskSingle`, `EndSingle`).

**Sgr.** `Record` is one `reflect`: resolve answers by id or text, number items without an id,
drop what is left out, count staleness. **ChatHistory** keeps role, step and size of each
message and applies one of the four strategies at the end of a step that trips the
trigger. **Delegation** has the tree of agents with the thread each runs on, both runtimes
(`fixture`), and the mocks' cursors. Outside meta mode the spawns of a step run one after the other on
the parent's thread (`agent_spawn` is one of the inline tools, `agent.py:767-782`). An agent in meta
mode (`Meta`) reaches `agent_spawn` through `call_tool`, which goes to the executor of
`_dispatch_tools`: its children run side by side (`pooling`, `Pooled`), the step ends when all have
(`LeavePool`), and an exception in one of them ends as the text "error: ..." of its call (`Raise`,
`told` = "error"). A mocked call is one of an agent outside meta mode (`Calls`): the interception
looks at the name of the call, `call_tool` in meta mode, and no fixture is assumed to name that.
`ServeSemantic` answers with the fixture that a judge's verdict names (`MatchOf`), or with the stub. **SharedTools** has one action per locked call.
**ToolSurface** keeps, per agent, whose handler its registry holds for a name (`bound`) and
what the model was offered; meta mode calls any name of the registry.

**AsyncChildren.** A section under `_children_lock` or `_async_lock` is an action. The wait of
`agent_await` may end at any moment (all results, a pusher about to fire, the timeout), so
`Gather` is enabled throughout. A child's thread stores its result (`Store`) and queues it (`Enqueue`) under
two locks; `overtaken` is a history variable: the children that a call gathered in between.

**RepoAccess.** A call looks up `repo_path` (`CallTool`) before `_ensure()`, then finds the context
ready (`EnsureRepo`) or clones: read the pull request (`FetchMeta`), clone the branch by name
(`CloneBranch`), set the path and then the refs (`InstallRepo`, `InstallRefs`). `vfs` and `cached` are the directories and
`vfs_cache`. `Push` moves the branch. `SweepRepo` is the cleanup at the end of a run that
succeeds.

**CommentThreads.** `existing` is the snapshot of the start, `highest` the cut-off computed by
the first comment tool; `Rows` is the grouping of a list into threads by walking up the
parents, `Thread` the walk down that reading one shows, and `Rendered` what is shown of it: the loop
stops behind the comment that exceeds the cap, and the answer says how many are held back (`rest`).
`Leads` is the order of the rows for each `sort`; the next page (`ListThreads` with `start > 0`) is the
one the continuation line proposes, which names no order, so the agent keeps the one it asked for or
gets the default. Both hints are followed as they are written: reading a thread by any of its comments
begins at the root. The second pull request is fetched afresh and cut at the id of the first. The pages
of the server are one step (`FetchComments`), and the cut of one long comment at 2000 characters is
left out.

**Posting.** A post is `trying`, `applied` (the server has it, the caller does not know) and
`posted` or `error`; `_with_retry` sends it again on transport errors. The end of a run is
`Collect` (lists copied), `EnterFinalize` (the guard), `FinishRow`, `WriteResult` (which leaves no
`output.json` when the run is not recorded or the write fails: `untold`), `Publish` and `Leave`; a failure or a signal goes to `_finalize("failed")` (`FailRun`), which returns at its
guard when that is set (`SignalLate`).

**Recording.** Each file operation is a step: scan for the next index, create the directory,
clone, fetch the prior bundle, write `repo.bundle.new`, swap, read and write the manifest,
read and write `pr.json`. A commit is named by the writer that cloned it.

**Replay.** The first half makes a recording (people comment, resolve, remove, push and
merge; invocations take snapshots and post), the second walks it: `apply` the difference to
the runtime state, `run` an agent, `next`. A snapshot whose comments could not be read is recorded
without any (`unread`; `read` is a note of the model, the recording does not keep it): the differences
take them all as removed, which the driver ignores, and as added again by the next snapshot, which it
does not check for duplicates (`Repeated`).

**BenchAttempts.** Both tiers: an attempt starts `cli.py` (`agent`), which writes its row under
an id of its own, waits or times out, stores `run.json`, judges, links the two rows and
clears away. Two attempts of a task run at a time; the bench itself may die. `EndJudge` is
`JudgeTraceWriter.finish`, which a locked database leaves with the judge's row running. Of the
triggers of the integration tier the one through the command line is modelled.

**BenchPulls.** A session is one `bench` process and a unit one attempt at a scenario; the branch
and the pull request of a unit bear its name. `sweep[s]` is `_cleanup_stale_bench_artefacts`,
run once under its lock before the first branch: pages of open pull requests into the target
branch (`ListPulls`; any page of the right size, since the order is the server's), declines of the
marked ones, pages of branches, the check of each for an open pull request, the deletes. A
unit goes `building`, `branched`, `open`, `closing`, `pruning`, `ended`. A request that fails may
have been done by the server (`CreateBranchFails`, `CreatePullFails`, `CloseFails`). `Interrupt` is
the first Ctrl-C: a unit whose proxy is open still closes it, the others are cut off, and a request
that is out may still be done by its thread (`late`). A killed session loses its results. `refused`
and `meddled` are history: units with a failed request, and whose clean-up took something of a unit.
Mode "gentle" stands for one unit at a time. Units of a session start in their turn, as many at once as
the semaphore of their provider lets in; `Watched` are the sessions that somebody may interrupt.

**DiffView.** `raw` is what git prints of one file as one hunk (`-U99999`), under the rules of
unified diffs (`MayFollow`): removed lines come first in a block, the note on a missing newline
follows the last line of a side. `GitEmits` prints a line and both parsers take it:
`build_virtual_file` (`TakeIntoView`), and `_parse_file_section` on the same diff with three
lines of context, in which lines away from changes may be left out (`hunked`; a new hunk starts
at the true number, `HunkStart`). Of a line's text the model keeps what the code tells apart:
a text that makes the marked line look like a header (`Dashes`), the name of a symbol it opens,
anything else. `WriteView` is the end of the parse; then `ReadRows`, `ChangesOnly`, `SearchRows`
and `Starred` are the answers of the tools as sets of lines. For the listing (`work = "list"`)
a file is its content at the merge base and in the source and whether the base branch still
has it; `Left` is what `materialize_vfs` leaves on disk for its path.

## 3. Runs

Passing runs:

| Run | Question | Instance and bounds | Distinct states |
|---|---|---|---|
| `queue_plan` | Is a plan closed in time, and never over an open row nobody put back? | 2 agents + judges of 1 plan, 1 worker id, no reap by time (`ForceReleaseAll` and `ListWorkers` release at any moment instead) | 1 460 000 |
| `worker_safe` | Does a heartbeat thread ever take back a lease its worker does not work on? | 1 worker, 2 tasks, threads that outlive their task, operators, crash, sleep | 1 960 000 |
| `worker_live` | Is a timely worker left alone, does the task of a dead one come back, is every task closed; do the tables implement the ownership lock? | 2 workers (one may die or leave), 1 task, lease 4 ticks, lag 1, graces 0/1/6 | 202 000 |
| `planner` | Is a recorded commit complete, does a sweeper repeat itself, is a head forgotten; does the table of configs follow the files? | 2 sweepers (one may die while at most 1 plan exists), 1 branch, 2 commits, 3 plans of 2 cells, both modes, manual fires; 2 servers, 3 contents of the files with a name repeated, left out, refused or garbled, 2 rows, 2 edits | 1 820 000 |
| `services` | Do the services around the queue keep their promises? | 2 processes on no table or one of the `branch` era, 1 refused statement; 3 worker ids, target 0 or 2, 1 task; 2 runs, one with a bench, 1 abort of a sweep; 5 events, 2 per poll; 3 agents (one per trigger), 2 routes, 2 jobs, 2 changes; interval 3, limit 7, stalls up to 8 | 169 000 |
| `agent_parts` | Do the parts of an agent? | see below | 546 000 |
| `review` | Does what surrounds the agents of a review? | 1 thread of the root, 1 of a child, 1 push; 4 comments on 2 pull requests, pages of 1 in 3 orders, a cap of 2 comments; a post of each, 2 attempts; 3 writers, 2 at a time; 2 comments, 3 invocations, the first id below the floor of the fake and the second at it, 1 change; 2 attempts of 1 task; a diff of 5 lines, windows of 2, 2 hits; 2 files, pages of 1; 2 sessions with 3 units, 1 marked, pages of 2, 1 unit with failing requests, interrupts of one session | 1 220 000 |

`agent_parts`: the loop has 10 steps (the smallest number at which a step is a tenth of
the budget), 6 tokens, a context of 4, 2 wall ticks, a reflect interval of 2, one guarded
tool and the text guard, against 15 replies of one or two calls that cover every shape a
repair recognises; the questions have 2 texts, 2 ids, lists of 2, 3 reflects; the history
4 steps of up to 2 calls with two sizes, all four strategies, 3 messages preserved; the
tree has 6 agents, depth 2, one agent in meta mode with two children, an ordinal mock with and without
a sticky entry and a semantic one, 3 answers; 3 callers of the shared tools, of which two sign with the same name; 4 agents of 3
kinds for the registry; 3 child threads (2 with a callback), 2 parallel awaits, 2 steps
of the parent. The loop also runs in mode single, and a request is tried twice.

What the properties of the suites say:

- `services`: `ReopenedIsUsable` (the bootstrap leaves what the statements need, but the columns whose
  ALTER a lock refused this very process), `WithinTarget` and `TasksAreServed` (the
  pool), `RowsAreHonest` (run rows: a good run is failed only when its write was lost, an own
  close stands, whoever else closes a run with events leaves a marker), `EndShowsAll` (live
  page), `WebhookKept` (one route decides; checks are bounded), `RunsPagesAndJobsEnd` (the row
  of a dead process is closed, a page ends, an accepted job is run).
- `planner`: `ConfigsFollowFiles` is well-formedness, `FilesWin` (after an undisturbed
  import the newest row of a name says what the last accepted definition says) and
  `NoTwin` (a name is doubled only by a race, by files that double it, or by hand).
- `agent_parts`: `GuardsRespected`, `BudgetIsTold`, `AgentEnds` (loop), `QuestionsKept`,
  `HistoryKept`, `DelegationKept` (mocks served in order over all threads, exhaustion
  fails the thread that met it, one runner per thread, no agent in meta mode outruns its pool),
  `ToolsKnowTheirCaller` (log, claims, builtins, depth), `ResultsReportedOnce` (async children: a result is
  not lost, and reaches the parent twice by a call that names its run, by two calls that both wait for it or
  by one that overtook the child's thread, in no other way).
- `review`: `RepoKept` (`OneRevision` and `NothingLeftBehind`), `ThreadsAgree` (pages asked for in one
  order cover all threads once, a thread reads as it was listed but for what it says it held back, and
  reading it again shows no more), `OutcomeIsTold` (posts; output and verdict of a recorded run),
  `RecordingStands`, `ReplayShowsRecording` (the agent sees its snapshot; a comment is there twice only after
  a snapshot that could not be read),
  `AttemptsAreTold` (rows paired, row says the exit, disk tidy), `PullsKept` (`SparesItsOwn`: a
  clean-up takes nothing its own units made; `LeavesNothing`: an undisturbed unit that ended
  leaves neither branch nor open pull request; `SweepClears`: what one page listed is cleared;
  `ErrorsAreTold`: a run that exits with 0 has an output of every scenario), `ViewTellsTruth` (the lines
  of the view and the changed lines of the source are those of the diff; a symbol without a
  star is untouched; answers and pages leave out no change).

Several of these have exceptions for histories the code does not rule out ("unless two
threads cloned", "unless updates overlapped", "unless an answer was lost", "unless a lock refused
the ALTER", "unless the run was not recorded", "unless a call overtook the thread", "unless a
snapshot was not read"). Each exception is a history variable that only the named event sets, so
the property says that there is no other way within what section 6 leaves in; the observations
below say what the exceptions mean for a user.

Runs that are expected to find a violation check one sentence of the code base each, on
the smallest instance that can break it; the findings in `PROJECT.json` quote the
sentence and say what happens:

- `queue_cancel`: a cancelled row is reopened or overwritten by the late report of its
  owner;
- `worker_latebeat`: the heartbeat of a running task is silenced by the thread of the task
  before it, and the task is reaped under its worker;
- `stale_path`: the first domain tool call of a run, if it asks for `ref="source"`, works on
  the working directory of the process: the path is read before the call that clones;
- `exit_row`: a signal between the guard of `_finalize` and the write behind it leaves the
  row `running`;
- `task_run`: the run id the worker stamps into the task names no row, since `cli.py` takes
  an id of its own before the writer reads the environment; `store.py` and
  `/api/runs/{id}/bench-log` look runs up by it.

### Observations

The models contain more behaviour that a reader of the code may not expect. These have no
run of their own; most are exceptions in a property above, or follow from a step a
definition takes.

*Queue, worker, pool.* A judge row cancelled by a failed attempt stays cancelled when a
manual retry succeeds. Cancelling a plan cancels its running rows, and the worker goes on
until it reports. A plan whose last open row is cancelled alone stays `running`. Between
the COUNT and the UPDATE of `_maybe_finish_plan` a row can be put back (`DoneMeansDrained`
excepts these plans). A lost lease stops the heartbeat thread of a worker, not its work.
`update()` of a pool accepts target 0, which is read back as 1; two pools of one queue each
spawn their deficit before the first's workers register; a failed `Popen` is only logged.

*Bootstrap.* The comment at `queue.py:200-201`, "table doesn't exist yet", names one of two reasons: a
database that stays locked for 5 s raises the same error, the migration is skipped over, and the
process works without the column until some process starts undisturbed (`Refused`).

*Planner.* A sweep that dies between plan and ledger leaves a plan that is planned again,
and two sweeps that overlap plan a commit twice. `update_config` and the import neither
validate nor resolve paths, `add_config` does; one value that `int()` does not take makes
`load_files` raise, and no schedule is imported; two definitions of one name are both
inserted when new, and later imports update only the newest; twins of racing imports have
ledgers of their own, so every commit is planned twice; an import re-enables what an
operator disabled; rows of removed files stay; an update of a row deleted meanwhile is
reported as done.

*Run rows.* Spans of asynchronous child threads carry no run id, so the sweeper does not see
them; a model call longer than the idle grace looks like an orphan; the marker of a swept
run is written whether or not the UPDATE changed a row.

*Live page.* Events committed together with the close, between the two reads of the last
poll, are not shown; an unknown status never ends the stream; a run that somebody else
closes while it goes on ends its page early.

*Webhook.* A forward to an agent that is not triggered by webhook is answered "accepted" and
raises; triggers over HTTP block the event loop for as long as the call takes; PATCH
answers "updated" for a route deleted or reloaded meanwhile; two commands routed to a
webhook agent forward the event twice; a restart loses accepted jobs and admin changes;
the timeout of a command kills its shell only.

*Agents.* "Multiple agent_spawn calls in the same step run in parallel" (the description of the tool,
`builtin.py:220-221`; `tool_mocks.py:68-70` speaks of "parallel agent_spawn dispatches") holds in meta
mode and for asynchronous spawns only: a native call with `sched='sync'` runs inline, one after the
other. In the pool of meta mode a `MockExhaustedError` becomes the text of a call and the parent goes on,
and a mocked tool that is called through `call_tool` is not mocked. "Drop what we just returned from the
callback queue so AsyncChildCallbackPusher won't re-inject it" (`agent.py:1520-1522`) fails when the call
gathers a result between the two locks of the child's thread (1311-1312 and 1319-1322): it is returned
and injected as well. A fixture runtime reports failed spawns as completed; `list_spawned()` says
"spawned" for good; an exhausted mock in an asynchronous child is lost with it; `done` with
malformed JSON is accepted; `done` refused by a guard on the last step is lost; the last
level of the step axis needs at least ten steps to be told; a question reopened after its
resolution is not dropped when it is left out; a condensation can leave tool messages
without their call behind its header; the map of claims knows names that the model writes,
not callers; a handler that raises in the sequential path ends the run; a handler raising
`TypeError` is run a second time by the fallback of the registry.

*Review.* Two parallel first calls clone twice, and the first clone is never removed; a run
that fails or is killed leaves its clone; a `materialize_vfs` that fails leaves its
directory; `fetch_pr` reads the branch's commit over the API and clones by name. Comments
of another pull request are cut at the highest id of the current one. The line of `pr_list_threads` that
proposes the next page (`comment_tools.py:217-222`) names no `sort`: an agent that follows it literally
after asking for another order repeats some threads and misses others. A thread longer than the cap
proposes `pr_read_thread(<sub_id>)` for the rest (247-249, 312-319, also `orchestra_tools.py:980-981`), and
that call begins at the root again (260) and is cut at the same place: the comments held back are to be
had from `pr_read_comment` only (`CutStaysCut`). `output.json` exists only when the run is recorded, and a
verdict is published whether or not it could be written. A POST repeated
after a lost answer may post twice; the `output.json` of a failed run lists no posted
comment; children may post after the end; the verdict a child sets after the lists were
collected is published but not recorded.

*Recording and replay.* Two runs that record at once may share an index and a revision id
(the docstring says there is no collision), overwrite each other's `repo.bundle.new`, and
lose each other's manifest entries; a failed fetch of the prior bundle is ignored. The
recorded status is always "open"; the root parent 0 of the fake is recorded as "c-0", so a
lifecycle replay of a recording of the fake skips all comments; an id a replayed agent is
given can equal a later recorded one; removed comments stay in the replay. When `get_pr_comments` fails,
`cli.py:164-168` goes on and a snapshot without comments is recorded; a lifecycle replay then adds every
comment a second time at the next snapshot (`replay.py:490-505`; `_on_comment_added`, 780-812, does not
look for one that is there).

*Bench.* On a timeout of the subprocess `run_unit_fixture` raises before the row is closed
and the clone removed; `replay-single` never judges; two tasks may share an attempt
directory of one second; a kill of the integration tier hits the shell and then waits for
the agent; a failed `mkdir` of an attempt ends the whole bench; an answer of the judge that
cannot be read leaves its row "completed"; a locked database when the judge ends leaves its row
`running` (`trace_writer.py:197-209`), and the row of the agent is linked to it all the same.

*Bench pull requests.* The sweep looks for `[BENCHMARK]` in titles, and the real factory opens
pull requests under the title of the scenario, which no scenario marks that way; the comment in
`__aexit__` of `base.py` that what is left is declined by the next run holds for marked titles only.
An error status of the server in the check for an open pull request counts as "none", and the branch
of a live pull request is deleted (the comment above the check says it is kept); an exception there
counts as "open". The sweep walks a list by offset and shortens it as it declines, so entries are
skipped. A decline that fails leaves the branch too. A sweep takes live pull requests of other
sessions. A comparison (`ab`) stops at the first exception, and errors count as score 0 there: it exits
with 0.

*Diff view.* A removed line that starts with `--`, or an added one with `++`, is taken for a header
and dropped, and every later line of that side has a number too small; the note on a missing
newline becomes a line of both sides and shifts what follows (`LinesAreTrue` speaks of the lines
before the first of these). The description of `diff_read_file` says "without a range, returns
the full file annotated"; it returns the first 100 lines. A range of 101 lines is not cut, one
of 102 lines is cut to 100. A change of the mode only, or of an empty file, is shown as
"(binary file)". Of overloads of one name only the last is in the outline. The old path of a
rename is missing from the listing when the base branch has dropped it too, or when git prints
no lines for it (`Untold`).

*Prompt evolution* (not modelled). `_save_state` writes a shared file in place; a corrupt
file loads as an empty population and is overwritten.

### Why the bounds are enough

- *Queue*: the properties of a plan relate two rows (one that finishes and one that is
  still open), so two agents; ownership relates a row and two workers. The proofs of
  section 5 remove these bounds.
- *Time*: `ttl` and `age` stop counting where no comparison can tell them apart any more
  (`Floor`, `MaxAge`), which loses nothing. The ratios of the code (lease 120 s, heartbeat
  30 s, stale 90 s, grace 180 s, host ticks) are kept in order in `worker_live`: a lease
  outlasts a heartbeat period with its lag, and a stale worker is noticed before its lease
  runs out.
- *Planner*: a double plan needs two sweepers and one commit, the debounce a second commit.
  `HeadIsPlanned` holds up to `MaxPlans`: a behaviour that has used up its plans is excused.
  An import race needs two servers; a twin two rows.
- *Services*: five events are more than two polls of two; a sweep concerns a run that it
  takes and one that it leaves; the limit of a check is longer than two intervals, so that
  checks overlap, and a stall longer than the limit.
- *Agents*: three preserved messages cut in the middle of a step with two calls; the
  replies hold every combination of terminator, guard tool and reflect that the code tells
  apart; a result handed over and injected needs a step for the call and one for the drain; a pool
  two children; `_llm_call_with_retry` makes three attempts by default, the instance two.
- *Review*: races need two threads; `_with_retry` makes five attempts by default (`bitbucket.py:81`), two
  suffice for a copy too many, and the proof is for any number; a thread that is cut needs two comments
  and one more, an order that matters two threads; a
  third writer sees what two that overlapped left behind; a comment is there twice when a second
  snapshot lacks it and a third has it. Five lines of diff hold a block of changes on both sides between two
  lines of context, a note and a line that looks like a header; two files make a rename, and
  a listing of two pages. A sweep meets its own session's units only when two run at a time, and
  another session's with one more: three units; with pages of two the lists have two pages.
- `Slot`: at most two heartbeat threads of a worker. `MaxPlans`, `CrashUntil`, `MaxSteps`,
  `MaxTasks`, `MaxEvents`, `MaxJobs`, `MaxChanges`, `MaxEdits`, `MaxConfigs`, `MaxServed`,
  `MaxLog`, `MaxReflects`, `MaxChat`, `MaxAborts`, `MaxRefused`, `MaxLocks`, `MaxRequests`, `MaxChildSteps`
  and the sets of ids bound counters.
- Deadlock is checked in the runs of the queue and the workers. In the suites it is not: runs,
  recordings, attempts and agents end, and ids are used up.

### Fairness

`WorkerLoop.FairSpec`: main threads and heartbeat threads that can take a step do (operating
system scheduling), the supervisor's timer keeps reaping (`WorkerSupervisor._loop` never ends
and catches every exception), and time passes (`SF` on `Pass`: a tick is held up by a timely
thread only until that thread moves). Nothing makes a worker crash or leave, a producer
insert, or an operator act.

`Planner`: the supervisor's loop takes steps and time passes; the sweeper that may crash is
not fair. Imports need no fairness, their properties are safety properties.

`Services`: the supervisor reconciles, some worker that is up runs, and a row whose process is
gone is marked dead in the end (`list_workers` on every tick, after the stale window); time
passes and the sweeper's thread goes on after an error; the server polls and the browser runs
its script; some job of the webhook server moves on, since every call of an agent has a
timeout. Nothing makes a run's process close its row: that a dead run closes is the sweeper's
work.

`AgentParts`: the thread of the loop runs on, and a request is answered or fails (the client
has a timeout and the retries are three). What the model answers is left open.

`Review` has safety properties only, and no fairness.

## 4. What the passing runs rule out

Each property has a mutant in `PROJECT.json`: a plausible bug of the code under which TLC finds
the property violated in the same run. Examples: the WHERE clause of `heartbeat` without its
state test revives a lease (`NoForgottenLease`); looking at the plan only after a success
leaves plans open (`RunningPlanWillSettle`); writing the ledger before the last task row hides
an incomplete plan (`LedgerMeansComplete`); an import that looks at enabled rows only makes
twins (`ConfigsFollowFiles`); a live page that ends with the first closed status drops a batch
(`EndShowsAll`); setting `initialized` before the refs shows a call an empty context
(`ReviewTypeOK`); collecting the posted comments before the last tool returned loses one
(`OutcomeIsTold`); linking the newest row instead of the attempt's own pairs the wrong runs
(`AttemptsAreTold`); emptying the callback queue in `agent_await` instead of filtering it loses
another child's result (`ResultsReportedOnce`); a removed line that moves the number of the source
shifts every line after it (`ViewTellsTruth`).

## 5. Proofs

The proof modules are checked by TLAPS to the last leaf. They assume the named assumptions of
the modules they extend and nothing else; the sets of tasks, workers, commits, children and so
on may be of any size, infinite ones included unless the argument counts them. Every safety
property a passing run checks, invariant or action property, is stated by a theorem below;
the liveness properties are not (see the end of this section).

A suite's variables that do not belong to the component are left alone by its steps, which is
how a theorem about the suite follows from the steps of one part. Most proofs have the same
shape: a strengthening `XInv` with the property as a conjunct or a consequence, `XStart` (the
initial state has it), one lemma per action or group of actions (`...Keeps`), and the theorem.

**Task queue** (from `TablesAssumption` and `TimingAssumption`):

- `TaskQueueProofs.TypeCorrect`: `Spec => []TypeOK`. `TypeOK` is inductive; the proof has one
  step per action.
- `TaskQueueProofs.OwnerCorrect`: `Spec => []OwnerMatchesState`, inductive together with `TypeOK`:
  a row leaves the held states by `Requeued`, which clears the owner, or by `Closed`, which
  keeps it.
- `TaskQueueProofs.QueueImplementsOwnership`: `Spec => OwnershipSpec`. The initial state maps to the
  initial state and each action to a `Grant` (lease), a `Record` (the terminal UPDATE), a
  `Discard` (cancellations), a `GiveUp` (requeueing) or a stutter; `OwnerMatchesState` supplies
  what the abstract guards ask for.
- `TaskQueuePlanProofs.JudgeCorrect`: `AuditSpec => []JudgedAgentSucceeded`. Not inductive as it
  stands, since `CascadeJudge` acts on what a continuation remembers: the strengthening adds
  that a continuation with `ok` belongs to a task in `succeeded`.
- `TaskQueuePlanProofs.DoneCorrect`: `AuditSpec => []DoneMeansDrained`. `DrainInv` says the same of
  plans somebody is about to close: once a `finish()` has counted no open row (stage `close`),
  there is none, unless the plan is in `reopened`.
- `TaskQueuePlanProofs.SettleCorrect`: `AuditSpec => []RunningPlanWillSettle`. Every way a row leaves
  the open states creates a continuation, and a continuation that gives up has seen an open row
  or hands over to one that closes the plan (`SettleInv`).

**Worker loop** (adding `WorkerLoopAssumption`), of `WorkerLoop.WSpec`, for any number of workers;
but for the last theorem whatever the values of `JoinTimesOut`, `Timely`, `Admin` and `Sleeps`:

- `WorkerLoopProofs.LoopTypeCorrect`: `WSpec => []WTypeOK`, inductive with `TaskInHand`: between
  `lease()` and `finish()` the variable `t` names a row.
- `WorkerLoopProofs.LoopRunsTheTables` and `LoopImplementsOwnership`: `WSpec => Spec` and
  `WSpec => OwnershipSpec`. Every step of a main thread, a heartbeat thread, the server or an operator
  is one statement of `TaskQueue` or none, so what is proved of the tables holds of the loop.
- `WorkerLoopProofs.NothingForgotten`: `WSpec => []NoForgottenLease`. `LeaseInv` adds that a worker that
  exits leaves nothing behind, only a killed one does. Only `lease()` gives a row away
  (`QuietTakesNone`: no other statement does, a late heartbeat included), and the worker that
  calls it holds nothing at that point (`TakeKeeps`); `finish()` leaves the row requeued, closed
  or with somebody else (`ReportKeeps`); every other step of a main thread is `Careful`.
- `WorkerLoopProofs.TimelyKeepsTask`: `Prompt => (WSpec => TimelyNeverReaped)`. `Prompt` names the
  circumstances: threads take their next step within `MaxLag` ticks, `join()` waits for the
  thread, and three times `MaxLag` fits into a lease and into the stale window (`worker_live` meets it; so do the
  constants of the code, 120 s and 90 s, when no stage takes longer than the period of 30 s). A heartbeat thread goes
  round in three stages (`top`, `row`, `beat`), so `BeatInv` bounds the age of the lease and of the
  worker's row by what each stage leaves (`Spent`, `Aged`): `OnBeat` of the one thread that works for
  the task, `WorkerOnTime` of the main thread before there is one and after the join. `NoTimeLost`:
  nothing but the clock takes ticks from a lease; `ListingKeepsFresh`: a pass of `list_workers`
  declares nobody dead whose row is within the window.

**Planner** (from `DiscoveryAssumption` and `SchedulesAssumption`):

- `DiscoveryProofs.DiscoveryTypes`: `Spec => []TypeOK`.
- `DiscoveryProofs.LedgerPromise`: `Spec => []LedgerMeansComplete`. `Typed`, `Linked` (indices of the
  ledger and of sweeps that fan out name plans, and the plan a sweep fans out is of its cell)
  and the property itself are inductive together: `Record` is reached only when the plan of
  the sweep is full, and plans never lose rows.
- `DiscoveryProofs.PlannedOnce`: `Spec => []OncePerSweeper`. `Accounted`: a plan of a sweeper that does
  not die is in the ledger or is the one it is fanning out, so a commit that has passed its test
  of the ledger has none of its own.
- `DiscoveryProofs.ConfigsFollow`: `PlannerSpec => []ConfigsFollowFiles`. `SchedulesInv` follows each
  import: which definitions it has still to write, where the index it made of the listed rows
  points (`Pointing`), and, while it is alone, that the rows it has written are the newest of
  their names and say what the last accepted definition says (`Won`, `Fresh`). `Untwinned` says
  where a pair of rows with one name comes from.

**Services**, of the suite's `Spec`:

- `ServicesProofs.PageShowsAll`: `Spec => []EndShowsAll`. `PollInv`: what a poll has read and not yet
  sent, together with what is shown, is everything committed, unless the batch is full or
  events came `between`.
- `ServicesProofs.RowsTellTheEnd`: `Spec => RowsAreHonest`, an action property. `RowsInv` gives each run
  an account of its row, its finish and its process (`RunAccount`), and the sweeper's
  transaction one of the rows it has closed and marked under the lock (`SweepAccount`).
- `ServicesProofs.PoolWithinTarget`: `Spec => []WithinTarget`. `Rooms`: unless the pool was misled,
  the living processes and those still to spawn in this tick fit into the largest target.
  `Worker` may be infinite; the proof carries the finiteness of the spawned ones.
- `ServicesProofs.SchemaIsUsable`: `Spec => []ReopenedIsUsable`. `ColumnsKept`: what the statements a
  process ran have added by its next statement is there or was refused to that process by a lock,
  whoever runs his in between; `StatementKeeps` goes through the program. A process that has ended the
  bootstrap has passed the script that raises without the column of its index.
- `ServicesProofs.WebhookIsKept`: `Spec => []WebhookKept`. `HookInv` types the routing table under every
  admin change and reload and says which of its names may repeat; that the first route with a
  decision decides alone is a fact about `Routed`, by `Picked`. `ChecksInv`: checks under way were
  started at least an interval apart (`Spaced`) and, but for the one that starts before overdue ones
  are killed, within one limit (`Together`), which bounds their number by a division.
- `ServicesProofs.ServicesAreTyped`: `Spec => []ServicesTypeOK`. The parts with something to prove:
  `MarksInv` (at most two markers per run: a sweep that had read the row before marks it a second
  time), `ChecksInv`, and the finiteness of the pool.

**Agents**, of the suite's `Spec`:

- `AgentProofs.GuardsHold`: `Spec => []GuardsRespected`. `GuardInv` adds that a run has no ending before
  it is over.
- `AgentProofs.BudgetSpeaks`: `Spec => BudgetIsTold`. `StepsTold`: a request made at 90% of the steps
  has the last level of the step axis latched, and that level never latches without a request
  for `done` alone; in mode single no step is counted. `Cycle`: until the model reflects again, the counter is not below the value of
  the last push, so the pusher is not armed again.
- `AgentProofs.ResultsReachTheParent`: `Spec => []ResultsReportedOnce`. `ChildInv`: no call is under way
  outside of the parent's tool phase, a child in the queue has ended and was not injected, an
  injected one is in `collected`, and a child in the queue that a call has gathered is one the call
  is about to drop or has overtaken.
- `AgentProofs.QuestionsStay`: `Spec => []QuestionsKept`. `SgrInv` is nearly the property; the work is in
  `LastItem` and in what `Record` makes of a reflect whose items repeat an id or lack one.
- `AgentProofs.HistoryStays`: `Spec => HistoryKept`, an action property. `ChatInv`: every tool message has
  its opener before it with nothing but tool messages between (`Opened`), an assistant message
  of its step or a header that a condensation left in its place. Each strategy returns a `List`
  again, by lemmas on concatenation, prefixes, suffixes and picked messages.
- `AgentProofs.CallersAreKnown`: `Spec => []ToolsKnowTheirCaller`, from `SharedInv` (log and claims) and
  `SurfaceInv` (each builtin of an agent's own set is bound to that agent).
- `AgentProofs.DelegationStays`: `Spec => []DelegationKept`. `TreeInv`: an agent waits for exactly one
  child of its thread, or for a pool while any of its children there is alive; threads nest, and from every agent that has started a chain of waiting
  agents leads to one that runs or drives a pool (`LeafToRoot`, by induction on the rank of
  `DelegationAssumption`, which says that the parents form a tree). `ServeInv`: a cursor counts
  the answers of its tool or has stopped at a sticky entry.
- `AgentProofs.PartsAreTyped`: `Spec => []PartsTypeOK`.

**Review**, of the suite's `Spec`:

- `ReviewProofs.OutcomeTold`: `Spec => []OutcomeIsTold`. `PostInv` knows how many copies each state of a
  post allows, that the list of the root is complete once its calls are over (`ListComplete`), and
  the order in which row, output and verdict are written, if they are (`RecordsInOrder`).
- `ReviewProofs.RevisionIsOne` and `RepoIsCleaned`: `Spec => []OneRevision`, `Spec => []NothingLeftBehind`,
  together `RepoIsKept`: `Spec => []RepoKept`.
  `RepoInv` has one conjunct per race that may be absent: `ReadyFirst` always, `OneClone` unless two
  threads cloned, `CloneIsMeta` unless a push fell between the two reads, `SweptClean` unless there
  was any race or a child was still at work.
- `ReviewProofs.RecordingKept`: `Spec => RecordingStands`. `BundleKept`: without an overlap or a lost fetch
  one writer is at the bundle, and what it is about to swap in extends what is there.
- `ReviewProofs.AttemptsTold`: `Spec => []AttemptsAreTold`. `BenchInv` gives each attempt an account of its
  agent (`AgentTold`), of where the bench is with it (`BenchTold`) and of its two rows (`PairTold`).
- `ReviewProofs.ThreadsShowOneState`: `Spec => []ThreadsAgree`. In a table of comments every parent is older
  than its reply (`Tree`); by induction on the ids the walk up (`RootOf`) ends at a root, and the
  walk down from a root meets the comments that climb to it. Roots have distinct places in the
  list in each of the three orders, so pages put together show every thread once; what is shown of a
  thread depends on its root alone. `ThreadsInv` says what the snapshot, the pages and the open thread
  are of.
- `ReviewProofs.ReplayShown`: `Spec => []ReplayShowsRecording`. `TapeKept`: over the snapshots of a recording
  a comment keeps its parent, and once missing from a snapshot that was read does not come back (`Lasting`). `DriverInv`: the replay
  state tells what the last applied snapshot shows, comment for comment, which `apply` keeps because
  the difference of two snapshots adds parents before replies; an orphan is skipped in a recording
  of the fake only.
- `ReviewProofs.ViewIsTrue`: `Spec => []ViewTellsTruth`. `ViewInv`: as long as no line misled it, the
  view is as long as the diff and its counters are the numbers of the last lines (`CountersAreTrue`),
  and inside a hunk `after_no` is the number of the next line of the source (`HunkIsTrue`). That a
  symbol without a star has the same lines on both sides (`OutlineHolds`) is a fact about any view;
  the windows follow from division, the pages from the ranks of `DataInduction`.
- `ReviewProofs.PullsAreKept`: `Spec => []PullsKept`. `PullsInv`: no unit of a session has anything on
  the server before its session has swept (`Untouched`); `UnitsTold` says for every place a unit can
  be at what it has on the server if nothing disturbed it; `StaleInHand` follows a listed pull request
  through the phases of a sweep (to decline, declined, its branch found and not live, deleted);
  `ResultsKept`: a unit that has ended in a session that is up has a result.
- `ReviewProofs.ReviewIsTyped`: `Spec => []ReviewTypeOK`.

**Induction over data.** The library's induction theorems take an operator and cannot be used
here, so `DataInduction` states what these proofs need of numbers with a *set* in the place of the
predicate: a non-empty set of numbers has a least and, when bounded, a greatest member (`Least`,
`Greatest`), a set that holds the successor of each of its members holds all (`EveryNumber`), a
value is defined for every rank (`EveryRank`), a fold over numbered entries exists (`FoldExists`). Two facts about
`Picked` (`Subsequences`: the entries of a sequence at a set of positions, in order) serve routes,
schedules and recorded comments. With them what the walks over comments, the difference of two
snapshots, the strategies of a condensation and the routing of an event compute is proved for every
input of the models.

**Assumptions on constants** that more than a bound rests on: `DelegationAssumption` (parents form a
tree: `_child_factory` makes a child for the agent that spawns it), `SchedulesAssumption` (contents of
files are sequences of definitions), `HookAssumption` (an edit has the shape of a PATCH body, a route
names targets), `RepoAssumption` (threads of root and children are distinct),
`WorkerLoopAssumption` (the `None` of the worker's variable is no task). TLC evaluates all of them.

Only model-checked: the liveness properties `QueuedTaskCloses`, `DeadLeaseReleased`, `HeadIsPlanned`,
`TasksAreServed`, `RunsPagesAndJobsEnd` and `AgentEnds` (fairness and `ENABLED` are out of the prover's
reach).

## 6. Not modelled

See the components with status `not_modelled`, each with its reason. Inside the modelled ones:
payloads, results, resource URIs, log files and spans; SQLite errors other than those
`_ensure_schema` skips over and the lock of the trace database (a lock on the queue that stays
for more than 5 s ends a worker: that is `Crash`; in `_ensure_schema` it is skipped over: `Refused`); reads that change nothing (`get`, `list`,
`progress`, `eta`, `live_score`); the `except Exception: pass` of `list_workers`, whose effect is a
pass that does not happen; `max_retries` set in a second transaction by the generic enqueue
endpoint (a constant of the row here).

Also left out: the resolution of scenario names by tag; `FORCE_REFLECT`, which no agent
switches on; `allocate_child`, `record_step` and `FailedReflectGuard`, which nothing calls;
`debit_child`, whose unlocked addition the parent's next `update_tokens` overwrites; what the
argument repairs do to the characters of a string; `Blackboard`, where the last write wins;
signatures, headers and placeholders of the webhook; scoring, reports and the comparison of
findings; triggers of the benchmark other than the command line; `_entry_matches`, the guard of a
mock's entry, which nothing calls; views of files without a diff, regular expressions and globs, nested symbols.

## 7. Plan

What is left, in order of what it would add:

1. Composition: `Discovery` creating plans in `TaskQueue`; `WorkerPool` spawning the workers of
   `WorkerLoop` (its `MarkDead` then follows from time); `BenchAttempts` under a worker that is
   reaped while its bench runs.
2. Proofs: `WithinTarget` and `PlannedOnce` carried over to those compositions.
3. `TaskQueue`: a `max_retries` column set in a second transaction; the life of queued judge rows.
4. A refinement of `RunLifecycle` by the processes of `BenchAttempts` and `Posting`.
