------------------------------ MODULE RepoAccess ------------------------------
(***************************************************************************)
(* How the tools of one cli.py invocation reach the repository: the clone  *)
(* is made by the first domain tool (_Ctx.ensure_repo), the virtual file   *)
(* system of the diff by the first one that wants it (_get_vfs), and both  *)
(* are removed at the end of a run that succeeds.  The calls of one step   *)
(* run in parallel threads, those of asynchronous child agents beside      *)
(* them, and nothing is locked.  The branch may be pushed to meanwhile.    *)
(***************************************************************************)
EXTENDS Naturals, FiniteSets, Functions

CONSTANTS
    RootCall,    \* threads of the root agent's tool calls
    ChildCall,   \* threads of asynchronous children, which may outlive the root
    NoClone,     \* not a thread
    MaxPushes    \* bound on the pushes to the branch

Caller == RootCall \cup ChildCall

ASSUME RepoAssumption ==
    NoClone \notin Caller /\ RootCall \cap ChildCall = {} /\ MaxPushes \in Nat

VARIABLES
    head,     \* commit of the pull request's branch on the server
    call,     \* per thread: where its tool call is, its ref, the repo_path it looked up
    meta,     \* per thread: the source commit fetch_pr() read
    clones,   \* clones on disk, named by the thread that made them: the commit checked out
    ctx,      \* the shared context: initialized, repo_path, source_ref; and the cleanup of cli.py
    vfs,      \* directories on disk: what each was built from
    cached,   \* vfs_cache: for a source commit, the directory
    result,   \* per thread: what its last call read
    life,     \* "running", "over", "swept", "exited", "failed"
    twice,    \* history: what a thread began to make while another made it: "clone", "vfs"
    pushed,   \* history: a push fell between fetch_pr()'s two reads of the branch
    tardy     \* history: a child called a tool, or was in one, when the run was over

repoVars == <<head, call, meta, clones, ctx, vfs, cached, result, life, twice, pushed, tardy>>
notes == <<twice, pushed, tardy>>

Idle == [at |-> "idle", ref |-> "diff", path |-> NoClone]
Cloning == {"cloning", "fetched", "cloned", "installing"}
Nothing == [from |-> "nothing", repo |-> NoClone, source |-> 0]

RepoInit ==
    /\ head = 1
    /\ call = [t \in Caller |-> Idle]
    /\ meta = [t \in Caller |-> 0]
    /\ clones = <<>> /\ vfs = <<>> /\ cached = <<>>
    /\ ctx = [ready |-> FALSE, repo |-> NoClone, source |-> 0, cleanup |-> NoClone]
    /\ result = [t \in Caller |-> Nothing]
    /\ life = "running"
    /\ twice = {} /\ pushed = FALSE /\ tardy = FALSE

Alive == life \in {"running", "over", "swept"}
Move(t, here, there) == call[t].at = here /\ call' = [call EXCEPT ![t].at = there]
Put(key, value, table) == [k \in DOMAIN table \cup {key} |-> IF k = key THEN value ELSE table[k]]
Without(keys, table) == Restrict(table, DOMAIN table \ keys)

Push ==
    /\ Alive /\ head <= MaxPushes
    /\ head' = head + 1
    /\ pushed' = (pushed \/ \E t \in Caller : call[t].at = "fetched")
    /\ UNCHANGED <<call, meta, clones, ctx, vfs, cached, result, life, twice, tardy>>

(* A diff_* tool looks the repository's path up first and makes sure of    *)
(* the clone afterwards.                                                   *)
CallTool(t) ==
    /\ call[t].at = "idle"
    /\ IF t \in RootCall THEN life = "running" ELSE Alive
    /\ \E ref \in {"diff", "source"} :
          call' = [call EXCEPT ![t] = [at |-> "called", ref |-> ref, path |-> ctx.repo]]
    /\ result' = [result EXCEPT ![t] = Nothing]
    /\ tardy' = (tardy \/ life # "running")
    /\ UNCHANGED <<head, meta, clones, ctx, vfs, cached, life, twice, pushed>>

\* Threads that make the clone, or a directory, at the same time.
Together(name, stages) ==
    twice' = IF \E x \in Caller : call[x].at \in stages THEN twice \cup {name} ELSE twice

\* Mutant: the context is marked initialized before its init function runs.
EnsureRepoFlagFirst(t) ==
    /\ Alive
    /\ \/ ctx.ready /\ Move(t, "called", "ensured") /\ UNCHANGED <<twice, ctx>>
       \/ ~ctx.ready /\ Move(t, "called", "cloning")
          /\ ctx' = [ctx EXCEPT !.ready = TRUE]
          /\ Together("clone", Cloning)
    /\ UNCHANGED <<head, meta, clones, vfs, cached, result, life, pushed, tardy>>

\* ensure_repo(): test, without a lock.
EnsureRepo(t) ==
    /\ Alive
    /\ \/ ctx.ready /\ Move(t, "called", "ensured") /\ UNCHANGED twice
       \/ ~ctx.ready /\ Move(t, "called", "cloning")
          /\ Together("clone", Cloning)
    /\ UNCHANGED <<head, meta, clones, ctx, vfs, cached, result, life, pushed, tardy>>

\* fetch_pr(): the branch's commit by the API, then a clone of the branch by its name.
FetchMeta(t) ==
    /\ Alive /\ Move(t, "cloning", "fetched")
    /\ meta' = [meta EXCEPT ![t] = head]
    /\ UNCHANGED <<head, clones, ctx, vfs, cached, result, life, notes>>

CloneBranch(t) ==
    /\ Alive /\ Move(t, "fetched", "cloned")
    /\ clones' = Put(t, head, clones)
    /\ UNCHANGED <<head, meta, ctx, vfs, cached, result, life, notes>>

\* fetch_pr() raises and removes its clone: the tool returns an error, a later call tries again.
CloneFails(t) ==
    /\ Alive /\ call[t].at \in {"cloning", "fetched", "cloned"}
    /\ call' = [call EXCEPT ![t] = Idle]
    /\ clones' = Without({t}, clones)
    /\ UNCHANGED <<head, meta, ctx, vfs, cached, result, life, notes>>

\* _lazy_init(): the cleanup and the path, then the refs, then the flag.
InstallRepo(t) ==
    /\ Alive /\ Move(t, "cloned", "installing")
    /\ ctx' = [ctx EXCEPT !.repo = t, !.cleanup = t]
    /\ UNCHANGED <<head, meta, clones, vfs, cached, result, life, notes>>

\* Mutant: the branch's commit is asked for again when the refs are installed.
InstallRefsOfNow(t) ==
    /\ Alive /\ Move(t, "installing", "ensured")
    /\ ctx' = [ctx EXCEPT !.source = head, !.ready = TRUE]
    /\ UNCHANGED <<head, meta, clones, vfs, cached, result, life, notes>>

InstallRefs(t) ==
    /\ Alive /\ Move(t, "installing", "ensured")
    /\ ctx' = [ctx EXCEPT !.source = meta[t], !.ready = TRUE]
    /\ UNCHANGED <<head, meta, clones, vfs, cached, result, life, notes>>

Read(t, from, repo, source) ==
    /\ result' = [result EXCEPT ![t] = [from |-> from, repo |-> repo, source |-> source]]
    /\ call' = [call EXCEPT ![t] = Idle]

(* ref="source": plain reads under the path that was looked up; the empty  *)
(* path is the working directory of the process.                           *)
ReadPlain(t) ==
    /\ Alive /\ call[t].at = "ensured" /\ call[t].ref = "source"
    /\ LET path == call[t].path IN
       CASE path = NoClone -> Read(t, "cwd", NoClone, 0)
         [] path \in DOMAIN clones -> Read(t, "clone", path, clones[path])
         [] OTHER -> Read(t, "gone", path, 0)
    /\ UNCHANGED <<head, meta, clones, ctx, vfs, cached, life, notes>>

ReadVfs(t) ==
    /\ Alive /\ call[t].at = "ensured" /\ call[t].ref = "diff" /\ ctx.source \in DOMAIN cached
    /\ LET dir == cached[ctx.source] IN
       IF dir \in DOMAIN vfs THEN Read(t, "vfs", vfs[dir].repo, vfs[dir].source)
                             ELSE Read(t, "gone", NoClone, 0)
    /\ UNCHANGED <<head, meta, clones, ctx, vfs, cached, life, notes>>

\* Not in the cache: a new directory, built from the clone and the refs of now.
BuildVfs(t) ==
    /\ Alive /\ call[t].ref = "diff" /\ ctx.source \notin DOMAIN cached
    /\ Move(t, "ensured", "building")
    /\ vfs' = Put(t, [repo |-> ctx.repo, source |-> ctx.source], vfs)
    /\ Together("vfs", {"building"})
    /\ UNCHANGED <<head, meta, clones, ctx, cached, result, life, pushed, tardy>>

(* The directory goes into the cache; when the clone is gone git fails     *)
(* and the directory stays where it is.                                    *)
CacheVfs(t) ==
    /\ Alive /\ call[t].at = "building"
    /\ IF vfs[t].repo \in DOMAIN clones
       THEN /\ cached' = Put(vfs[t].source, t, cached)
            /\ Read(t, "vfs", vfs[t].repo, vfs[t].source)
       ELSE UNCHANGED cached /\ Read(t, "gone", NoClone, 0)
    /\ UNCHANGED <<head, meta, clones, ctx, vfs, life, notes>>

\* The root agent returns: its own calls have ended.
RunEnds ==
    /\ life = "running" /\ \A t \in RootCall : call[t].at = "idle"
    /\ life' = "over"
    /\ tardy' = (\E t \in ChildCall : call[t].at # "idle")
    /\ UNCHANGED <<head, call, meta, clones, ctx, vfs, cached, result, twice, pushed>>

\* Mutant: the clone is kept for the next run.
SweepRepoKept ==
    /\ life = "over" /\ life' = "swept"
    /\ UNCHANGED <<head, call, meta, clones, ctx, vfs, cached, result, notes>>

SweepRepo ==
    /\ life = "over" /\ life' = "swept"
    /\ clones' = Without({ctx.cleanup}, clones)
    /\ UNCHANGED <<head, call, meta, ctx, vfs, cached, result, notes>>

\* The last thing the process does; threads of children die with it.
SweepVfs ==
    /\ life = "swept" /\ life' = "exited"
    /\ vfs' = Without(Range(cached), vfs)
    /\ UNCHANGED <<head, call, meta, clones, ctx, cached, result, notes>>

\* An exception or a signal: cli.py leaves without either cleanup.
FailRepo ==
    /\ life = "running" /\ life' = "failed"
    /\ UNCHANGED <<head, call, meta, clones, ctx, vfs, cached, result, notes>>

RepoNext ==
    \/ Push \/ RunEnds \/ SweepRepo \/ SweepVfs \/ FailRepo
    \/ \E t \in Caller :
          \/ CallTool(t) \/ EnsureRepo(t) \/ FetchMeta(t) \/ CloneBranch(t) \/ CloneFails(t)
          \/ InstallRepo(t) \/ InstallRefs(t)
          \/ ReadPlain(t) \/ ReadVfs(t) \/ BuildVfs(t) \/ CacheVfs(t)

------------------------------------------------------------------------------

CallStages == {"idle", "called", "ensured", "building"} \cup Cloning

\* Type correctness; an initialized context names a clone and a commit.
RepoTypeOK ==
    /\ head \in 1 .. MaxPushes + 1
    /\ \A t \in Caller : call[t].at \in CallStages /\ meta[t] \in 0 .. head
    /\ DOMAIN clones \subseteq Caller /\ DOMAIN vfs \subseteq Caller
    /\ Range(cached) \cup {ctx.repo, ctx.cleanup} \subseteq Caller \cup {NoClone}
    /\ ctx.ready => ctx.repo # NoClone /\ ctx.source # 0
    /\ life \in {"running", "over", "swept", "exited", "failed"}

(* All tools of an invocation that read the diff read one revision, and    *)
(* the files that the diff leaves unchanged are those of the same one;     *)
(* unless the repository was cloned twice, or the branch was pushed to     *)
(* between fetch_pr()'s reads of it.                                       *)
OneRevision ==
    \A t \in Caller : result[t].from = "vfs" /\ "clone" \notin twice /\ ~pushed =>
        /\ result[t].source = ctx.source
        /\ result[t].repo \in DOMAIN clones => clones[result[t].repo] = ctx.source

(* A run that ends well leaves neither a clone nor a virtual file system   *)
(* behind; unless threads raced to make them, or a child was at work.      *)
NothingLeftBehind ==
    life = "exited" /\ twice = {} /\ ~tardy => clones = <<>> /\ vfs = <<>>

\* One revision is read, and nothing of it stays.
RepoKept == OneRevision /\ NothingLeftBehind

(* "With ref="source", returns plain file content" of the repository       *)
(* (orchestra_tools.py:689): no call reads the process's own directory.    *)
SourceIsTheClone == \A t \in Caller : result[t].from # "cwd"
==============================================================================
