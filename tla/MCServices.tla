------------------------------ MODULE MCServices ------------------------------
(* A small instance of Services: a new database and one of the branch era  *)
(* opened by two processes; three worker ids for a pool of two; two runs,  *)
(* of which a bench process waits for one, and a sweep that is cut short   *)
(* once; a run of five events shown two at a time; a webhook server with   *)
(* one agent of each kind and a file of two routes, the second of which    *)
(* forwards, and a health check whose limit is longer than its interval.   *)
EXTENDS Services

NewOrOld == { {}, {"id", "scenario_id", "branch", "mutation_hash"} }

HowTriggered == [a \in Agent |-> a]

TableOfFile == <<
    [name |-> "sampled", prs |-> {"p"}, forward |-> None, agent |-> "cli",
     commands |-> [c \in {"ask"} |-> "absent"]],
    [name |-> "rest", prs |-> {"p", "q"}, forward |-> "webhook", agent |-> None,
     commands |-> <<>>] >>

Edits == [field : {"agent", "forward"}, value : {"http", "cli"}] \cup {[field |-> "prs", value |-> {}]}
==============================================================================
