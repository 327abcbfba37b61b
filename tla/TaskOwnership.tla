---------------------------- MODULE TaskOwnership ----------------------------
(***************************************************************************)
(* What the task queue promises about a single task, with leases, retries, *)
(* plans, judges and time left out: a task has at most one owner, an owner *)
(* is granted only to a task nobody owns, and an outcome is recorded only  *)
(* while the task has an owner - the one the outcome is attributed to.     *)
(* The specification of lease() / finish() / reap in quality_api/queue.py  *)
(* as a user of the queue sees them.                                       *)
(***************************************************************************)
CONSTANTS Agent, Worker, None

VARIABLES
    owner,    \* lease_owner of each task
    done      \* the worker whose outcome is on record, None while there is none

ownVars == <<owner, done>>

OwnInit ==
    /\ owner = [a \in Agent |-> None]
    /\ done = [a \in Agent |-> None]

Grant(a, w) ==
    /\ owner[a] = None
    /\ done[a] = None
    /\ owner' = [owner EXCEPT ![a] = w]
    /\ UNCHANGED done

Record(a, w) ==
    /\ owner[a] = w
    /\ done' = [done EXCEPT ![a] = w]
    /\ UNCHANGED owner

\* A cancellation takes the outcome off the record; the owner column stays.
Discard(S) ==
    /\ done' = [a \in Agent |-> IF a \in S THEN None ELSE done[a]]
    /\ UNCHANGED owner

\* Reaping, retrying: ownership is given up together with the outcome on record,
\* of several tasks at once in the bulk updates.
GiveUp(S) ==
    /\ owner' = [a \in Agent |-> IF a \in S THEN None ELSE owner[a]]
    /\ done' = [a \in Agent |-> IF a \in S THEN None ELSE done[a]]

OwnNext ==
    \/ \E a \in Agent, w \in Worker : Grant(a, w) \/ Record(a, w)
    \/ \E S \in SUBSET Agent : Discard(S) \/ GiveUp(S)

OwnSpec == OwnInit /\ [][OwnNext]_ownVars
==============================================================================
