----------------------------- MODULE SharedTools -----------------------------
(***************************************************************************)
(* The tools agents share while they run side by side: AppendLog and       *)
(* MutexMap of orchestra/tools/shared.py.  Every call takes the lock of    *)
(* its object.  The agent_id of a call is what the model writes, not who   *)
(* the caller is: each caller signs with a name.                           *)
(***************************************************************************)
EXTENDS Integers, FiniteSets, SequencesExt

CONSTANTS
    Caller,     \* the agents that hold the tools
    Signature,  \* what each of them writes as its agent_id
    Key,        \* keys of the MutexMap
    Nobody,     \* no claim
    MaxLog      \* bound: entries of the log

ASSUME SharedAssumption ==
    /\ Nobody \notin {Signature[c] : c \in Caller}
    /\ MaxLog \in Nat

VARIABLES
    entries,   \* AppendLog._entries: who wrote each, and its index
    claims,    \* MutexMap._claims
    indexes,   \* history: the indexes each caller got back
    holding    \* history: the keys each caller was told it claimed

sharedVars == <<entries, claims, indexes, holding>>

SharedInit ==
    /\ entries = <<>>
    /\ claims = [k \in Key |-> Nobody]
    /\ indexes = [c \in Caller |-> {}]
    /\ holding = [c \in Caller |-> {}]

NextIndex(c) == Len(entries)

AppendEntry(c) ==
    /\ Len(entries) < MaxLog
    /\ entries' = Append(entries, [by |-> Signature[c], index |-> NextIndex(c)])
    /\ indexes' = [indexes EXCEPT ![c] = @ \cup {NextIndex(c)}]
    /\ UNCHANGED <<claims, holding>>

Claimable(c, k) == claims[k] \in {Nobody, Signature[c]}

\* claim(): one caller may claim again what it holds.
Claim(c, k) ==
    /\ Claimable(c, k)
    /\ claims' = [claims EXCEPT ![k] = Signature[c]]
    /\ holding' = [holding EXCEPT ![c] = @ \cup {k}]
    /\ UNCHANGED <<entries, indexes>>

\* Mutant: anyone releases.
ReleaseAny(c, k) ==
    /\ claims[k] # Nobody
    /\ claims' = [claims EXCEPT ![k] = Nobody]
    /\ holding' = [holding EXCEPT ![c] = @ \ {k}]
    /\ UNCHANGED <<entries, indexes>>

\* release(): "not_owned" changes nothing.
Release(c, k) ==
    /\ claims[k] = Signature[c]
    /\ claims' = [claims EXCEPT ![k] = Nobody]
    /\ holding' = [holding EXCEPT ![c] = @ \ {k}]
    /\ UNCHANGED <<entries, indexes>>

SharedNext ==
    \/ \E c \in Caller : AppendEntry(c)
    \/ \E c \in Caller, k \in Key : Claim(c, k)
    \/ \E c \in Caller, k \in Key : Release(c, k)

------------------------------------------------------------------------------

(* An index names one entry: no two callers get the same one back, and the *)
(* entry at it is the caller's (append in shared.py).                      *)
IndexNamesEntry ==
    \A c \in Caller : \A i \in indexes[c] :
        /\ i + 1 \in DOMAIN entries /\ entries[i + 1] = [by |-> Signature[c], index |-> i]
        /\ \A d \in Caller \ {c} : i \notin indexes[d]

(* Who was told "claimed" holds the key until it releases it, unless       *)
(* another agent signs with the same name: the lock knows names only.      *)
ClaimHolds ==
    \A c \in Caller : \A k \in holding[c] :
        \/ claims[k] = Signature[c]
        \/ \E d \in Caller \ {c} : Signature[d] = Signature[c]
==============================================================================
