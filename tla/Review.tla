-------------------------------- MODULE Review --------------------------------
(***************************************************************************)
(* What surrounds the agents of one review, side by side: the clone and    *)
(* the virtual file system its tools read, the comment threads they show,  *)
(* the diff view itself, what they post and how cli.py ends, the recording *)
(* of the invocation, the replay of recordings in the benchmark, the       *)
(* benchmark's attempts themselves, and the pull requests they are about.  *)
(* The parts share no state, so a behaviour takes the steps of one of them *)
(* only and the state spaces add up instead of multiplying.                *)
(***************************************************************************)
EXTENDS RepoAccess, CommentThreads, Posting, Recording, Replay, BenchAttempts,
        DiffView, BenchPulls

VARIABLE part   \* the component whose steps this behaviour takes

vars == <<part, repoVars, threadVars, postVars, recVars, replayVars, benchVars, viewVars,
          pullVars>>

Init ==
    /\ part \in {"repo", "threads", "post", "record", "replay", "bench", "view", "pulls"}
    /\ RepoInit /\ ThreadsInit /\ PostInit /\ RecInit /\ ReplayInit /\ BenchInit
    /\ part # "replay" => nextId = Min(FirstIds) /\ origin = "server"
    /\ part # "bench" => tier = "unit"
    /\ ViewInit
    /\ part # "view" => work = "diff" /\ filled = Side
    /\ PullsInit

Next ==
    /\ UNCHANGED part
    /\ \/ part = "repo" /\ RepoNext
          /\ UNCHANGED <<threadVars, postVars, recVars, replayVars, benchVars, viewVars, pullVars>>
       \/ part = "threads" /\ ThreadsNext
          /\ UNCHANGED <<repoVars, postVars, recVars, replayVars, benchVars, viewVars, pullVars>>
       \/ part = "post" /\ PostNext
          /\ UNCHANGED <<repoVars, threadVars, recVars, replayVars, benchVars, viewVars, pullVars>>
       \/ part = "record" /\ RecNext
          /\ UNCHANGED <<repoVars, threadVars, postVars, replayVars, benchVars, viewVars, pullVars>>
       \/ part = "replay" /\ ReplayNext
          /\ UNCHANGED <<repoVars, threadVars, postVars, recVars, benchVars, viewVars, pullVars>>
       \/ part = "bench" /\ BenchNext
          /\ UNCHANGED <<repoVars, threadVars, postVars, recVars, replayVars, viewVars, pullVars>>
       \/ part = "view" /\ ViewNext
          /\ UNCHANGED <<repoVars, threadVars, postVars, recVars, replayVars, benchVars, pullVars>>
       \/ part = "pulls" /\ PullsNext
          /\ UNCHANGED <<repoVars, threadVars, postVars, recVars, replayVars, benchVars, viewVars>>

Spec == Init /\ [][Next]_vars

\* Every part keeps the types of its variables.
ReviewTypeOK == RepoTypeOK /\ ThreadsTypeOK /\ PostTypeOK /\ RecTypeOK /\ ReplayTypeOK
                /\ BenchTypeOK /\ ViewTypeOK /\ PullsTypeOK
==============================================================================
