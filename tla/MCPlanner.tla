----------------------------- MODULE MCPlanner -----------------------------
(* A small instance of Planner: one branch and two commits, two sweepers   *)
(* of which one may die, a config that is switched between its modes; and  *)
(* two servers that import schedule files in which a name is repeated,     *)
(* left out, refused or unreadable.                                        *)
EXTENDS Planner

CONSTANTS l1, c1, c2, s1, s2

MCModes == {"auto", "on_demand"}

Definition(n, settings, enabled) == [name |-> n, rest |-> settings, on |-> enabled]

ScheduleFiles == {
    <<Definition("a", "v1", FALSE), Definition("b", "empty", TRUE)>>,
    <<Definition("", "v1", TRUE), Definition("a", "v2", FALSE), Definition("a", "v1", TRUE)>>,
    <<Definition("b", "word", TRUE)>> }
==============================================================================
