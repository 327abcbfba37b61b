-------------------------------- MODULE Webhook --------------------------------
(***************************************************************************)
(* The webhook server (webhook/): Bitbucket's events are routed to agents  *)
(* by a table that the admin API changes, and every decision becomes a     *)
(* task of the event loop.  All handlers and tasks share that loop: an     *)
(* agent run as a command leaves it free, an agent triggered over HTTP     *)
(* blocks it until urlopen() returns.  One scheduled health check shares   *)
(* the loop too: its runner starts the command at every interval without   *)
(* waiting for the last one, and each command has a time limit of its own. *)
(* The routes and the check share no state: a behaviour is of one or the   *)
(* other, and the check has a stall of the loop of its own.                *)
(*                                                                         *)
(* A route's condition and its sample of pull requests are one set of pull *)
(* requests; an event is its pull request and the commands found in it.    *)
(***************************************************************************)
EXTENDS Integers, Sequences, SequencesExt, FiniteSetsExt, Subsequences

CONSTANTS
    Agent,        \* the configured agents
    Trigger,      \* how each is triggered: "cli", "http", "webhook"
    None,         \* no agent, no command
    RouteName,    \* the names routes may have
    Target,       \* what a route may name as its agent: some of them, None, anything else
    Pr, Command,
    FileRoutes,   \* the routes of the config file
    RouteEdit,    \* what the admin API sets in a route: a field and its value
    MaxJobs,      \* bound on the accepted decisions
    MaxChanges,   \* bound on admin requests and restarts
    Interval,     \* interval_seconds of the health check
    Limit,        \* its timeout_seconds
    MaxStall      \* bound on one stall of the event loop (an agent's timeout)

Route == [name : RouteName, prs : SUBSET Pr, agent : Target, forward : Target,
          commands : UNION {[named -> Target] : named \in SUBSET Command}]

ASSUME HookAssumption ==
    /\ FileRoutes \in Seq(Route)
    /\ RouteEdit \subseteq [field : {"prs"}, value : SUBSET Pr]
                          \cup [field : {"agent", "forward"}, value : Target]
    /\ MaxChanges \in Nat

ASSUME HealthAssumption ==
    Interval \in Nat \ {0} /\ Limit \in Nat \ {0} /\ MaxStall \in Nat

VARIABLES
    routes,    \* the routing table
    patches,   \* PATCH requests that wait for their body: the route each looked up
    jobs,      \* the tasks of the accepted decisions
    loop,      \* the task that blocks the event loop, 0 when it is free
    changed,   \* admin requests and restarts so far
    due,       \* time to the next turn of the health check's runner
    ages,      \* the checks under way, by the time since each started
    stall      \* how long the event loop has been blocked; -1 when it is free

hookVars == <<routes, patches, jobs, loop, changed>>
healthVars == <<due, ages, stall>>

HookInit ==
    /\ routes = FileRoutes
    /\ patches = {} /\ jobs = <<>> /\ loop = 0 /\ changed = 0

------------------------------------------------------------------------------
\* route_event()

RouteTo(route, cmd) == IF cmd \in DOMAIN route.commands THEN route.commands[cmd] ELSE route.agent

(* What one route does with an event: forward it as it is, or send each    *)
(* command for which it names a configured agent to that agent.            *)
Decisions(route, cmds) ==
    IF route.forward # None
    THEN IF route.forward \in Agent THEN <<[cmd |-> None, agent |-> route.forward]>> ELSE <<>>
    ELSE IF route.agent = None THEN <<>>
    ELSE LET named == Picked(cmds, {i \in DOMAIN cmds : RouteTo(route, cmds[i]) \in Agent})
         IN  [i \in DOMAIN named |-> [cmd |-> named[i], agent |-> RouteTo(route, named[i])]]

\* Mutant: a route that could serve some of the commands does not end the search.
RoutedByAll(cmds, pr) ==
    FoldLeft(LAMBDA found, route : IF pr \in route.prs THEN found \o Decisions(route, cmds) ELSE found,
             <<>>, routes)

\* The first route that matches and decides anything.
Routed(cmds, pr) ==
    FoldLeft(LAMBDA found, route :
                IF found = <<>> /\ pr \in route.prs THEN Decisions(route, cmds) ELSE found,
             <<>>, routes)

Free == loop = 0

(* handle_webhook() awaits the body first and decides without another      *)
(* await.  An event carries the commands configured for its kind, the one  *)
(* command parsed from a comment, or none.                                 *)
HandleWebhook ==
    /\ Free
    /\ \E pr \in Pr, cmds \in SeqOf(Command, 2) :
          LET decisions == Routed(cmds, pr)
          IN  /\ decisions # <<>> /\ Len(jobs) + Len(decisions) <= MaxJobs
              /\ jobs' = jobs \o [i \in DOMAIN decisions |->
                    [agent |-> decisions[i].agent, cmd |-> decisions[i].cmd, at |-> "accepted"]]
    /\ UNCHANGED <<routes, patches, loop, changed>>

------------------------------------------------------------------------------
\* trigger_agent(), one task

Became(j, at) == jobs' = [jobs EXCEPT ![j].at = at]

(* A forwarded event has no command, and the two triggers that name the    *)
(* command they run raise.                                                 *)
RefuseJob(j) ==
    /\ Free /\ jobs[j].at = "accepted"
    /\ jobs[j].cmd = None /\ Trigger[jobs[j].agent] # "webhook"
    /\ Became(j, "refused")
    /\ UNCHANGED <<routes, patches, loop, changed>>

StartCommand(j) ==
    /\ Free /\ jobs[j].at = "accepted"
    /\ jobs[j].cmd # None /\ Trigger[jobs[j].agent] = "cli"
    /\ Became(j, "running")
    /\ UNCHANGED <<routes, patches, loop, changed>>

CallOverHttp(j) ==
    /\ Free /\ jobs[j].at = "accepted"
    /\ \/ Trigger[jobs[j].agent] = "webhook"
       \/ Trigger[jobs[j].agent] = "http" /\ jobs[j].cmd # None
    /\ Became(j, "running")
    /\ loop' = j
    /\ UNCHANGED <<routes, patches, changed>>

\* urlopen() returns, fails or times out.
EndCall(j) ==
    /\ loop = j
    /\ Became(j, "ended")
    /\ loop' = 0
    /\ UNCHANGED <<routes, patches, changed>>

\* The command exits, or wait_for() gives up and kills it: both need the event loop.
EndCommand(j) ==
    /\ Free /\ jobs[j].at = "running"
    /\ Became(j, "ended")
    /\ UNCHANGED <<routes, patches, loop, changed>>

Job(j) == RefuseJob(j) \/ StartCommand(j) \/ CallOverHttp(j) \/ EndCall(j) \/ EndCommand(j)

------------------------------------------------------------------------------
\* The admin API and a restart

Change == Free /\ changed < MaxChanges /\ changed' = changed + 1

First(name, table) == Min({i \in DOMAIN table : table[i].name = name})
Names == {routes[i].name : i \in DOMAIN routes}

\* PATCH finds the route, then awaits the body.
FindRoute(name) ==
    /\ Change /\ name \in Names
    /\ patches' = patches \cup {[name |-> name, attached |-> TRUE]}
    /\ UNCHANGED <<routes, jobs, loop>>

Edited(route, edit) ==
    CASE edit.field = "prs" -> [route EXCEPT !.prs = edit.value]
      [] edit.field = "agent" -> [route EXCEPT !.agent = edit.value]
      [] edit.field = "forward" -> [route EXCEPT !.forward = edit.value]

\* The route object may have left the table in the meantime; the answer is "updated".
EditRoute(patch) ==
    /\ Free
    /\ \E edit \in RouteEdit :
          routes' = IF patch.attached
                    THEN [routes EXCEPT ![First(patch.name, routes)] = Edited(@, edit)]
                    ELSE routes
    /\ patches' = patches \ {patch}
    /\ UNCHANGED <<jobs, loop, changed>>

Detached(names) == {[p EXCEPT !.attached = @ /\ p.name \notin names] : p \in patches}

DeleteRoute(name) ==
    /\ Change /\ name \in Names
    /\ routes' = Picked(routes, {i \in DOMAIN routes : routes[i].name # name})
    /\ patches' = Detached({name})
    /\ UNCHANGED <<jobs, loop>>

\* POST awaits the body and then looks the name up: a route goes to the end.
CreateRoute(route) ==
    /\ Change /\ route.name \notin Names
    /\ routes' = Append(routes, route)
    /\ UNCHANGED <<patches, jobs, loop>>

Reload ==
    /\ Change
    /\ routes' = FileRoutes
    /\ patches' = Detached(Names)
    /\ UNCHANGED <<jobs, loop>>

\* Tasks live in memory only, and what the admin API changed too.
RestartServer ==
    /\ changed < MaxChanges /\ changed' = changed + 1
    /\ routes' = FileRoutes /\ patches' = {} /\ loop' = 0
    /\ jobs' = [j \in DOMAIN jobs |->
            IF jobs[j].at \in {"accepted", "running"} THEN [jobs[j] EXCEPT !.at = "lost"] ELSE jobs[j]]

Admin ==
    \/ \E name \in Names : FindRoute(name) \/ DeleteRoute(name)
    \/ \E p \in patches : EditRoute(p)
    \/ \E i \in DOMAIN FileRoutes : CreateRoute(FileRoutes[i])
    \/ Reload \/ RestartServer

HookNext == HandleWebhook \/ Admin \/ \E j \in DOMAIN jobs : Job(j)

------------------------------------------------------------------------------
\* webhook/health.py, one check

HealthInit == due = 0 /\ ages = {} /\ stall = -1

Overdue == {a \in ages : a >= Limit}

\* A free event loop serves every timer that is due before time goes on.
TimePasses ==
    /\ IF stall = -1 THEN due > 0 /\ Overdue = {} ELSE stall < MaxStall
    /\ due' = IF due > 0 THEN due - 1 ELSE 0
    /\ ages' = {a + 1 : a \in ages}
    /\ stall' = IF stall = -1 THEN -1 ELSE stall + 1

\* The runner's turn: a new check inside the active window, then it sleeps.
Fire ==
    /\ stall = -1 /\ due = 0
    /\ ages' \in {ages, ages \cup {0}}
    /\ due' = Interval
    /\ UNCHANGED stall

\* The command exits, or could not be launched.
CheckEnds(a) ==
    /\ stall = -1
    /\ ages' = ages \ {a}
    /\ UNCHANGED <<due, stall>>

\* wait_for() gives up and kills the command.
KillOverdue(a) ==
    /\ stall = -1 /\ a \in Overdue
    /\ ages' = ages \ {a}
    /\ UNCHANGED <<due, stall>>

\* A webhook handler's task enters urlopen(), and comes back.
Block ==
    /\ stall = -1 /\ due > 0 /\ Overdue = {}
    /\ stall' = 0
    /\ UNCHANGED <<due, ages>>

Unblock ==
    /\ stall # -1
    /\ stall' = -1
    /\ UNCHANGED <<due, ages>>

HealthNext ==
    \/ TimePasses \/ Fire \/ Block \/ Unblock
    \/ \E a \in ages : CheckEnds(a) \/ KillOverdue(a)

------------------------------------------------------------------------------

\* Type correctness; a route keeps its name for itself, unless the file repeats it.
HookTypeOK ==
    /\ routes \in Seq(Route)
    /\ \A i, j \in DOMAIN routes : i # j /\ routes[i].name = routes[j].name =>
          \E k, l \in DOMAIN FileRoutes :
             k # l /\ FileRoutes[k].name = routes[i].name /\ FileRoutes[l].name = routes[i].name
    /\ \A p \in patches : p.attached => p.name \in Names
    /\ \A j \in DOMAIN jobs : jobs[j].agent \in Agent
    /\ loop \in 0 .. Len(jobs) /\ (loop # 0 => jobs[loop].at = "running")
    /\ changed \in 0 .. MaxChanges

(* "Routes evaluated top to bottom, first match wins": whatever the admin  *)
(* API made of the table, one route decides an event, the commands that it *)
(* does not decide reach nobody, and no route above it decides any.        *)
OneRouteDecides ==
    \A pr \in Pr : \A cmds \in SeqOf(Command, 2) :
        LET able == {i \in DOMAIN routes : pr \in routes[i].prs /\ Decisions(routes[i], cmds) # <<>>}
        IN  Routed(cmds, pr) = IF able = {} THEN <<>> ELSE Decisions(routes[Min(able)], cmds)

(* Every decision that was answered "accepted" reaches its agent, whatever *)
(* other agents do; except in a restart, and for a forward to an agent     *)
(* that is not triggered by webhook.                                       *)
AcceptedRuns ==
    \A j \in 1 .. MaxJobs : (Len(jobs) >= j) ~>
        /\ Len(jobs) >= j
        /\ \/ jobs[j].at \in {"ended", "lost"}
           \/ jobs[j].at = "refused" /\ jobs[j].cmd = None /\ Trigger[jobs[j].agent] # "webhook"

\* Type correctness; no check is much older than its limit and one stall.
HealthTypeOK ==
    /\ due \in 0 .. Interval /\ stall \in -1 .. MaxStall
    /\ ages \subseteq 0 .. (Limit + MaxStall)

(* Checks overlap, since the limit is longer than the interval, but their  *)
(* number stays below a bound that the two settings fix, however long the  *)
(* event loop was blocked; one of them is the check that starts before     *)
(* those that became overdue in the meantime are killed.                   *)
ChecksBounded == Cardinality(ages) <= ((Limit + Interval - 1) \div Interval) + 1
==============================================================================
