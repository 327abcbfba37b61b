------------------------------- MODULE MCReview -------------------------------
(* A small instance of Review: one thread of the root agent and one of a   *)
(* child, with a push; four comments on two pull requests, listed one      *)
(* thread at a time in any order and cut after two; a post of the root and *)
(* one of a child, tried twice; three recordings, two of them at a time;   *)
(* recordings of two comments and three invocations with one change        *)
(* between them, the ids below the floor of the fake; two attempts of one  *)
(* task of a benchmark; a diff of up to five lines, read in windows of     *)
(* two; two files, listed one per page; two sessions of a benchmark on one *)
(* server, one of them with two attempts at a scenario at a time, which    *)
(* may be interrupted, and one that compares two agents.                   *)
EXTENDS Review

\* Two comments of a thread fill the answer of pr_read_thread.
OneEach == [id \in 1 .. MaxId |-> 1]

OneTask == [a \in Attempt |-> "t1"]

TwoSessions == [u \in Unit |-> IF u \in {1, 2} THEN "s1" ELSE "s2"]
SamePair == [u \in Unit |-> "x"]
ModesOfSession == [s \in Session |-> IF s = "s1" THEN {"aggressive"} ELSE {"ab"}]
==============================================================================
