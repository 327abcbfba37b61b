----------------------------- MODULE ReviewProofs -----------------------------
(***************************************************************************)
(* Proofs about Review, one component after the other: what a run leaves   *)
(* on the pull request is what its records say; its tools read one         *)
(* revision, and a run that ends well leaves no clone behind; a recording  *)
(* can be replayed, and the replay shows what was recorded; the attempts   *)
(* of a benchmark are told as they went; the comment threads are read as   *)
(* they were listed; and the diff view shows the diff.                     *)
(***************************************************************************)
EXTENDS Review, DataInduction

EndingRow == [exit : {"none", "completed", "failed"}, posted : SUBSET Post,
          verdict : Verdict \cup {NoVerdict}]

PostTyped ==
    /\ sent \in [Post -> {"unasked", "trying", "applied", "posted", "error"}]
    /\ tries \in [Post -> Nat] /\ copies \in [Post -> Nat]
    /\ unheard \subseteq Post /\ noted \subseteq Post
    /\ {verdict, served} \subseteq Verdict \cup {NoVerdict}
    /\ phase \in {"running", "collected", "failing", "closing", "closed", "saved", "published",
                  "gone"}
    /\ ending \in EndingRow /\ output \in EndingRow
    /\ row \in {"running", "completed", "failed"}
    /\ {late, locked, untold, killed} \subseteq BOOLEAN

(* What the state of a post says about the comments on the server: a call  *)
(* under way has failed less than Attempts times, every failure may have   *)
(* left a comment, and each that did is one whose answer was lost.         *)
CopiesKnown(p) ==
    /\ sent[p] = "unasked" => tries[p] = 0 /\ copies[p] = 0
    /\ sent[p] = "trying" => tries[p] < Attempts /\ copies[p] <= tries[p]
    /\ sent[p] = "applied" => tries[p] < Attempts /\ copies[p] <= tries[p] + 1
    /\ copies[p] <= Attempts
    /\ p \notin unheard => /\ copies[p] <= 1
                           /\ copies[p] = 1 => sent[p] \in {"applied", "posted"}
    /\ sent[p] = "posted" => p \in noted
    /\ tries[p] <= Attempts /\ (sent[p] = "applied" \/ p \in noted => copies[p] > 0)

(* Once the lists are collected, the posts of the root are at an end and   *)
(* are in the list.                                                        *)
ListComplete ==
    ending.exit = "completed" =>
        /\ phase # "running"
        /\ \A p \in RootPost :
              /\ sent[p] \notin {"trying", "applied"}
              /\ copies[p] > 0 /\ p \notin unheard => p \in ending.posted
        /\ ~late => verdict = ending.verdict

(* What each phase of cli.py has written.                                  *)
RecordsInOrder ==
    /\ phase \in {"running", "collected", "failing", "closing"} => row = "running" /\ ~locked
    /\ phase \in {"running", "collected", "failing", "closing", "closed"} => output = NoOutput
    /\ phase \in {"running", "collected", "failing", "closing", "closed", "saved"} => served = NoVerdict
    /\ phase \in {"collected", "saved", "published"} => ending.exit = "completed"
    /\ phase = "failing" => ending.exit = "failed"
    /\ phase \in {"closing", "closed"} => ending.exit # "none"
    /\ phase \in {"closed", "saved", "published"} =>
          row \in {"running", ending.exit} /\ (~locked => row = ending.exit)
    /\ phase \in {"saved", "published"} => (~untold => output = ending)
    /\ output # NoOutput => output = ending

PostInv ==
    /\ PostTyped /\ ListComplete /\ RecordsInOrder /\ VerdictIsRecorded
    /\ \A p \in Post : CopiesKnown(p)

LEMMA PostStart == PostInit => PostInv
  <1> SUFFICES ASSUME PostInit PROVE PostInv
    OBVIOUS
  <1>1. NoOutput \in EndingRow /\ NoOutput.exit = "none"
    BY DEF NoOutput, EndingRow
  <1>2. PostTyped
    BY <1>1 DEF PostInit, PostTyped
  <1>3. ListComplete /\ RecordsInOrder /\ VerdictIsRecorded
    BY <1>1 DEF PostInit, ListComplete, RecordsInOrder, VerdictIsRecorded
  <1>4. \A p \in Post : CopiesKnown(p)
    BY PostingAssumption DEF PostInit, CopiesKnown
  <1>5. QED BY <1>2, <1>3, <1>4 DEF PostInv

------------------------------------------------------------------------------
(* A step of one post while the process is up; a post of the root takes    *)
(* one only in the phase "running" or when it is under way.                *)
LEMMA PostMoves ==
    ASSUME PostInv, NEW p \in Post, UNCHANGED End,
           \A q \in Post \ {p} : /\ sent'[q] = sent[q] /\ tries'[q] = tries[q]
                                 /\ copies'[q] = copies[q]
                                 /\ (q \in unheard' <=> q \in unheard)
                                 /\ (q \in noted <=> q \in noted'),
           PostTyped', CopiesKnown(p)',
           phase = "running" \/ p \notin RootPost \/ sent[p] \in {"trying", "applied"}
    PROVE  PostInv'
  <1>1. \A q \in Post \ {p} : CopiesKnown(q)'
    BY DEF PostInv, CopiesKnown
  <1>2. ListComplete'
    <2> SUFFICES ASSUME ending.exit = "completed"
                 PROVE  /\ \A q \in RootPost :
                             /\ sent'[q] \notin {"trying", "applied"}
                             /\ copies'[q] > 0 /\ q \notin unheard' => q \in ending.posted
      BY DEF PostInv, ListComplete, End
    <2>1. p \notin RootPost
      BY DEF PostInv, ListComplete
    <2>2. QED BY <2>1 DEF PostInv, ListComplete, Post
  <1>3. RecordsInOrder' /\ VerdictIsRecorded'
    BY DEF PostInv, RecordsInOrder, VerdictIsRecorded, End, record
  <1>4. QED BY <1>1, <1>2, <1>3 DEF PostInv

LEMMA PostCalls ==
    ASSUME PostInv, NEW p \in Post,
           \/ Ask(p) \/ Apply(p) \/ Answer(p) \/ RequestLost(p) \/ AnswerLost(p) \/ HttpError(p)
    PROVE  PostInv'
  <1>0. /\ UNCHANGED End
        /\ phase = "running" \/ p \notin RootPost \/ sent[p] \in {"trying", "applied"}
    BY DEF Ask, Apply, Answer, RequestLost, AnswerLost, HttpError, Moved
  <1>1. /\ sent \in [Post -> {"unasked", "trying", "applied", "posted", "error"}]
        /\ tries \in [Post -> Nat] /\ copies \in [Post -> Nat] /\ CopiesKnown(p)
        /\ Attempts \in Nat
    BY PostingAssumption DEF PostInv, PostTyped
  <1>2. /\ \A q \in Post \ {p} : /\ sent'[q] = sent[q] /\ tries'[q] = tries[q]
                                 /\ copies'[q] = copies[q]
                                 /\ (q \in unheard' <=> q \in unheard)
                                 /\ (q \in noted <=> q \in noted')
    BY <1>1 DEF Ask, Apply, Answer, RequestLost, AnswerLost, HttpError, Moved, Retry
  <1>3. /\ sent' \in [Post -> {"unasked", "trying", "applied", "posted", "error"}]
        /\ tries' \in [Post -> Nat] /\ copies' \in [Post -> Nat]
        /\ unheard' \subseteq Post /\ noted' \subseteq Post
    BY <1>1 DEF Ask, Apply, Answer, RequestLost, AnswerLost, HttpError, Moved, Retry, PostInv, PostTyped
  <1>4. PostTyped'
    BY <1>0, <1>3 DEF PostInv, PostTyped, End, record
  <1>5. CopiesKnown(p)'
    <2> USE <1>1 DEF CopiesKnown
    <2>1. CASE Ask(p)
      BY <2>1, PostingAssumption DEF Ask, Moved
    <2>2. CASE Apply(p)
      BY <2>2 DEF Apply, Moved
    <2>3. CASE Answer(p)
      BY <2>3 DEF Answer, Moved
    <2>4. CASE RequestLost(p)
      BY <2>4 DEF RequestLost, Retry
    <2>5. CASE AnswerLost(p)
      BY <2>5 DEF AnswerLost, Retry
    <2>6. CASE HttpError(p)
      BY <2>6 DEF HttpError
    <2>7. QED BY <2>1, <2>2, <2>3, <2>4, <2>5, <2>6
  <1>6. QED BY <1>0, <1>2, <1>4, <1>5, PostMoves

(* Steps of cli.py that leave the posts alone.                             *)
LEMMA SameCalls ==
    ASSUME PostInv, UNCHANGED calls, PostTyped', ListComplete', RecordsInOrder', VerdictIsRecorded'
    PROVE  PostInv'
  BY DEF PostInv, CopiesKnown, calls

LEMMA PostStep == PostInv /\ [PostNext]_postVars => PostInv'
  <1> SUFFICES ASSUME PostInv, [PostNext]_postVars PROVE PostInv'
    OBVIOUS
  <1> USE DEF PostInv
  <1>1. CASE UNCHANGED postVars
    BY <1>1 DEF postVars, PostTyped, ListComplete, RecordsInOrder, VerdictIsRecorded, CopiesKnown
  <1>2. ASSUME NEW p \in Post,
               Ask(p) \/ Apply(p) \/ Answer(p) \/ RequestLost(p) \/ AnswerLost(p) \/ HttpError(p)
        PROVE PostInv'
    BY <1>2, PostCalls
  <1>3. CASE SetVerdict
    <2>1. PostTyped'
      BY <1>3 DEF SetVerdict, PostTyped, calls, record
    <2>2. ListComplete' /\ RecordsInOrder' /\ VerdictIsRecorded'
      BY <1>3 DEF SetVerdict, PostTyped, ListComplete, RecordsInOrder, VerdictIsRecorded, calls, record
    <2>3. QED BY <1>3, <2>1, <2>2, SameCalls DEF SetVerdict
  <1>4. CASE Collect
    <2>1. ending' \in EndingRow /\ ending'.exit = "completed" /\ ending'.posted = noted /\ ending'.verdict = verdict
      BY <1>4 DEF Collect, EndingRow, PostTyped
    <2>2. PostTyped'
      BY <1>4, <2>1 DEF Collect, PostTyped, calls, record
    <2>3. \A p \in RootPost : copies[p] > 0 /\ p \notin unheard => p \in noted
      BY <1>4 DEF Collect, PostTyped, CopiesKnown, Post
    <2>4. ListComplete'
      BY <1>4, <2>1, <2>3 DEF Collect, ListComplete, calls, record
    <2>5. RecordsInOrder' /\ VerdictIsRecorded'
      BY <1>4, <2>1 DEF Collect, RecordsInOrder, VerdictIsRecorded, record
    <2>6. QED BY <1>4, <2>2, <2>4, <2>5, SameCalls DEF Collect
  <1>5. CASE EnterFinalize
    <2>1. PostTyped' /\ ListComplete'
      BY <1>5 DEF EnterFinalize, PostTyped, ListComplete, calls, record
    <2>2. RecordsInOrder' /\ VerdictIsRecorded'
      BY <1>5 DEF EnterFinalize, RecordsInOrder, VerdictIsRecorded, record
    <2>3. QED BY <1>5, <2>1, <2>2, SameCalls DEF EnterFinalize
  <1>6. CASE FinishRow
    <2>1. row' \in {"running", ending.exit} /\ (~locked' => row' = ending.exit) /\ ending.exit # "none"
      BY <1>6 DEF FinishRow, RecordsInOrder
    <2>2. PostTyped' /\ ListComplete'
      BY <1>6, <2>1 DEF FinishRow, PostTyped, ListComplete, calls, EndingRow
    <2>3. RecordsInOrder' /\ VerdictIsRecorded'
      BY <1>6, <2>1 DEF FinishRow, RecordsInOrder, VerdictIsRecorded
    <2>4. QED BY <1>6, <2>2, <2>3, SameCalls DEF FinishRow
  <1>7. CASE WriteResult
    <2>1. PostTyped' /\ ListComplete'
      BY <1>7 DEF WriteResult, PostTyped, ListComplete, calls
    <2>2. RecordsInOrder' /\ VerdictIsRecorded'
      BY <1>7 DEF WriteResult, RecordsInOrder, VerdictIsRecorded
    <2>3. QED BY <1>7, <2>1, <2>2, SameCalls DEF WriteResult
  <1>8. CASE Publish
    <2>1. PostTyped' /\ ListComplete'
      BY <1>8 DEF Publish, PostTyped, ListComplete, calls, record
    <2>2. RecordsInOrder'
      BY <1>8 DEF Publish, RecordsInOrder, record
    <2>3. /\ ending.exit = "completed" /\ (~late => verdict = ending.verdict)
          /\ output \in {NoOutput, ending} /\ (~untold => output = ending) /\ NoOutput.exit = "none"
          /\ row \in {"running", "completed"} /\ (~locked => row = "completed") /\ served = NoVerdict
          /\ UNCHANGED <<row, output, late, locked, untold>> /\ served' \in {NoVerdict, verdict}
      BY <1>8 DEF Publish, RecordsInOrder, ListComplete, record, NoOutput
    <2>4. VerdictIsRecorded'
      BY <2>3 DEF VerdictIsRecorded
    <2>5. QED BY <1>8, <2>1, <2>2, <2>4, SameCalls DEF Publish
  <1>9. CASE FailRun
    <2>1. ending' \in EndingRow /\ ending'.exit = "failed"
      BY <1>9 DEF FailRun, EndingRow
    <2>2. PostTyped' /\ ListComplete'
      BY <1>9, <2>1 DEF FailRun, PostTyped, ListComplete, calls, record
    <2>3. RecordsInOrder' /\ VerdictIsRecorded'
      BY <1>9, <2>1 DEF FailRun, RecordsInOrder, VerdictIsRecorded, record
    <2>4. QED BY <1>9, <2>2, <2>3, SameCalls DEF FailRun
  <1>10. CASE Leave \/ SignalLate \/ Sigkill
    <2>1. /\ phase' = "gone" /\ killed' \in BOOLEAN
          /\ UNCHANGED <<calls, verdict, served, ending, row, output, late, locked, untold>>
      BY <1>10 DEF Leave, SignalLate, Sigkill, record, PostTyped
    <2>2. PostTyped' /\ ListComplete'
      BY <2>1 DEF PostTyped, ListComplete, calls
    <2>3. RecordsInOrder' /\ VerdictIsRecorded'
      BY <2>1 DEF RecordsInOrder, VerdictIsRecorded
    <2>4. QED BY <2>1, <2>2, <2>3, SameCalls
  <1>11. QED
    BY <1>1, <1>2, <1>3, <1>4, <1>5, <1>6, <1>7, <1>8, <1>9, <1>10 DEF PostNext

(* The pull request, output.json and the row of a run tell the same story: *)
(* no comment is there twice or behind an error unless an answer was lost, *)
(* the output of a run that ended well lists what its root agent posted,   *)
(* and a verdict on the server is that of the row of its run and, if the   *)
(* recording was written, of its output (post_comment_tool, _with_retry,   *)
(* _finalize, _publish_to_pr).                                             *)
THEOREM OutcomeTold == Spec => []OutcomeIsTold
  <1>1. Init => PostInv
    BY PostStart DEF Init
  <1>2. [Next]_vars => [PostNext]_postVars
    BY DEF Next, vars
  <1>3. PostInv => OutcomeIsTold
    <2> SUFFICES ASSUME PostInv PROVE OutcomeIsTold
      OBVIOUS
    <2>1. PostedOnce
      BY DEF PostInv, PostTyped, CopiesKnown, PostedOnce
    <2>2. OutputTellsAll
      BY DEF PostInv, ListComplete, RecordsInOrder, OutputTellsAll, NoOutput
    <2>3. QED BY <2>1, <2>2 DEF PostInv, OutcomeIsTold
  <1>4. QED BY <1>1, <1>2, <1>3, PostStep, PTL DEF Spec

------------------------------------------------------------------------------
(* The repository of an invocation (RepoAccess): typing, with the order in *)
(* which a context becomes ready; without a race one clone, of the commit  *)
(* fetch_pr() read; and what the cleanups know.                            *)

\* The empty sequence as a table: no entries, of any type.
LEMMA EmptyTable == DOMAIN <<>> = {} /\ \A S : <<>> \in [{} -> S]
  <1>1. ASSUME NEW S PROVE DOMAIN <<>> = {} /\ <<>> \in [{} -> S]
    <2>1. <<>> \in Seq(S) /\ Len(<<>>) = 0
      BY EmptySeq
    <2>2. <<>> \in [1 .. 0 -> S]
      BY <2>1, LenProperties
    <2>3. QED BY <2>2
  <1>2. QED BY <1>1

RepoTyped ==
    /\ head \in Nat
    /\ call \in [Caller -> [at : CallStages, ref : {"diff", "source"}, path : Caller \cup {NoClone}]]
    /\ meta \in [Caller -> Nat]
    /\ clones \in [DOMAIN clones -> Nat] /\ DOMAIN clones \subseteq Caller
    /\ vfs \in [DOMAIN vfs -> [repo : Caller \cup {NoClone}, source : Nat]] /\ DOMAIN vfs \subseteq Caller
    /\ cached \in [DOMAIN cached -> Caller]
    /\ ctx \in [ready : BOOLEAN, repo : Caller \cup {NoClone}, source : Nat, cleanup : Caller \cup {NoClone}]
    /\ result \in [Caller -> [from : {"nothing", "cwd", "clone", "vfs", "gone"},
                              repo : Caller \cup {NoClone}, source : Nat]]
    /\ life \in {"running", "over", "swept", "exited", "failed"}
    /\ twice \subseteq {"clone", "vfs"}
    /\ {pushed, tardy} \subseteq BOOLEAN

\* An initialized context is ready for good, and nothing reads the diff before.
ReadyFirst ==
    /\ \A t \in Caller : call[t].at \in {"ensured", "building"} => ctx.ready
    /\ \A t \in Caller : result[t].from = "vfs" => ctx.ready
    /\ DOMAIN vfs # {} \/ DOMAIN cached # {} => ctx.ready
    /\ \A t \in Caller : Alive /\ call[t].at = "building" => t \in DOMAIN vfs

(* Without a race to make it there is one clone, made by one thread before *)
(* the context is ready, and all that the tools have read is of it.        *)
OneClone ==
    /\ \A t, u \in Caller : call[t].at \in Cloning /\ call[u].at \in Cloning => t = u
    /\ ctx.ready => \A t \in Caller : call[t].at \notin Cloning
    /\ \A t \in Caller : call[t].at = "installing" => ctx.repo = t /\ ctx.cleanup = t
    /\ ctx.cleanup = ctx.repo
    /\ \A t \in Caller : t = ctx.repo => ctx.ready \/ call[t].at = "installing"
    /\ \A t \in DOMAIN clones : t \in Caller /\ (call[t].at \in {"cloned", "installing"} \/ t = ctx.cleanup)
    /\ \A d \in DOMAIN vfs : vfs[d] = [repo |-> ctx.repo, source |-> ctx.source]
    /\ \A t \in Caller : result[t].from = "vfs" =>
          result[t].repo = ctx.repo /\ result[t].source = ctx.source
    /\ DOMAIN cached \subseteq {ctx.source}

\* Without a push between its two reads, a clone is of the commit fetch_pr() read.
CloneIsMeta ==
    /\ \A t \in Caller : call[t].at = "fetched" => meta[t] = head
    /\ \A t \in Caller : call[t].at \in {"cloned", "installing"} /\ t \in DOMAIN clones =>
          clones[t] = meta[t]
    /\ ctx.ready /\ ctx.repo \in DOMAIN clones => clones[ctx.repo] = ctx.source

(* Without any race, and with no child at work when the run is over, every *)
(* clone and every directory is one that the cleanups know.                *)
SweptClean ==
    /\ life \in {"over", "swept", "exited"} => \A t \in Caller : call[t].at = "idle"
    /\ life \in {"running", "over"} =>
          /\ \A t \in Caller : call[t].at \in {"cloned", "installing"} => t \in DOMAIN clones
          /\ ctx.ready => ctx.repo \in DOMAIN clones
    /\ DOMAIN vfs \subseteq Range(cached) \cup {t \in Caller : call[t].at = "building"}
                  \/ life = "exited"
    /\ \A t, u \in Caller : call[t].at = "building" /\ call[u].at = "building" => t = u
    /\ \A t \in Caller : call[t].at = "building" => ctx.source \notin DOMAIN cached
    /\ life \in {"swept", "exited"} => DOMAIN clones = {}
    /\ life = "exited" => DOMAIN vfs = {}

RepoInv ==
    /\ RepoTyped /\ ReadyFirst
    /\ "clone" \notin twice => OneClone
    /\ "clone" \notin twice /\ ~pushed => CloneIsMeta
    /\ life = "running" => ~tardy
    /\ twice = {} /\ ~tardy => SweptClean

(* A call that moves on keeps the types of the calls.                      *)
LEMMA MoveTyped ==
    ASSUME RepoTyped, NEW t \in Caller, NEW here, NEW there \in CallStages, Move(t, here, there)
    PROVE  call' \in [Caller -> [at : CallStages, ref : {"diff", "source"}, path : Caller \cup {NoClone}]]
  <1>1. call \in [Caller -> [at : CallStages, ref : {"diff", "source"}, path : Caller \cup {NoClone}]]
    BY DEF RepoTyped
  <1>2. QED BY <1>1 DEF Move

LEMMA RepoStart == RepoInit => RepoInv
  <1> SUFFICES ASSUME RepoInit PROVE RepoInv
    OBVIOUS
  <1> USE RepoAssumption
  <1>1. RepoTyped
    BY EmptyTable DEF RepoInit, RepoTyped, Idle, Nothing, CallStages
  <1>2. DOMAIN clones = {} /\ DOMAIN vfs = {} /\ DOMAIN cached = {}
    BY EmptyTable DEF RepoInit
  <1>3. ReadyFirst /\ OneClone
    BY <1>2 DEF RepoInit, ReadyFirst, OneClone, Idle, Nothing, Cloning
  <1>4. CloneIsMeta /\ SweptClean
    BY <1>2 DEF RepoInit, CloneIsMeta, SweptClean, Idle
  <1>5. QED BY <1>1, <1>3, <1>4 DEF RepoInv, RepoInit

LEMMA RepoTypedStep == RepoTyped /\ ReadyFirst /\ RepoNext => RepoTyped'
  <1> SUFFICES ASSUME RepoTyped, ReadyFirst, RepoNext PROVE RepoTyped'
    OBVIOUS
  <1> USE DEF RepoTyped
  <1>1. CASE Push \/ RunEnds \/ FailRepo
    <2>1. CASE Push
      <3>1. pushed' \in BOOLEAN /\ head' \in Nat
        BY <2>1 DEF Push
      <3>2. QED BY <2>1, <3>1 DEF Push
    <2>2. CASE RunEnds
      <3>1. tardy' \in BOOLEAN
        BY <2>2 DEF RunEnds
      <3>2. QED BY <2>2, <3>1 DEF RunEnds
    <2>3. CASE FailRepo
      BY <2>3 DEF FailRepo, notes
    <2>4. QED BY <1>1, <2>1, <2>2, <2>3
  <1>2. CASE SweepRepo \/ SweepVfs
    <2>1. CASE SweepRepo
      <3>1. clones' = [x \in DOMAIN clones \ {ctx.cleanup} |-> clones[x]]
        BY <2>1 DEF SweepRepo, Without, Restrict
      <3>2. QED BY <2>1, <3>1 DEF SweepRepo, notes
    <2>2. CASE SweepVfs
      <3>1. vfs' = [x \in DOMAIN vfs \ Range(cached) |-> vfs[x]]
        BY <2>2 DEF SweepVfs, Without, Restrict
      <3>2. QED BY <2>2, <3>1 DEF SweepVfs, notes
    <2>3. QED BY <1>2, <2>1, <2>2
  <1>3. ASSUME NEW t \in Caller, CallTool(t) PROVE RepoTyped'
    BY <1>3 DEF CallTool, Nothing, CallStages
  <1>4. ASSUME NEW t \in Caller, EnsureRepo(t) PROVE RepoTyped'
    <2>1. /\ call' \in [Caller -> [at : CallStages, ref : {"diff", "source"}, path : Caller \cup {NoClone}]]
      BY <1>4, MoveTyped DEF EnsureRepo, CallStages, Cloning
    <2>2. twice' \subseteq {"clone", "vfs"}
      BY <1>4 DEF EnsureRepo, Together
    <2>3. QED BY <1>4, <2>1, <2>2 DEF EnsureRepo
  <1>5. ASSUME NEW t \in Caller, FetchMeta(t) \/ InstallRepo(t) \/ InstallRefs(t) PROVE RepoTyped'
    <2>1. /\ call' \in [Caller -> [at : CallStages, ref : {"diff", "source"}, path : Caller \cup {NoClone}]]
      BY <1>5, MoveTyped DEF FetchMeta, InstallRepo, InstallRefs, CallStages, Cloning
    <2>2. CASE FetchMeta(t)
      BY <2>1, <2>2 DEF FetchMeta, notes
    <2>3. CASE InstallRepo(t)
      BY <2>1, <2>3 DEF InstallRepo, notes
    <2>4. CASE InstallRefs(t)
      BY <2>1, <2>4 DEF InstallRefs, notes
    <2>5. QED BY <1>5, <2>2, <2>3, <2>4
  <1>6. ASSUME NEW t \in Caller, CloneBranch(t) PROVE RepoTyped'
    <2>1. /\ call' \in [Caller -> [at : CallStages, ref : {"diff", "source"}, path : Caller \cup {NoClone}]]
      BY <1>6, MoveTyped DEF CloneBranch, CallStages, Cloning
    <2>2. clones' \in [DOMAIN clones' -> Nat] /\ DOMAIN clones' \subseteq Caller
      BY <1>6 DEF CloneBranch, Put
    <2>3. QED BY <1>6, <2>1, <2>2 DEF CloneBranch, notes
  <1>7. ASSUME NEW t \in Caller, CloneFails(t) PROVE RepoTyped'
    <2>1. clones' = [x \in DOMAIN clones \ {t} |-> clones[x]]
      BY <1>7 DEF CloneFails, Without, Restrict
    <2>2. QED BY <1>7, <2>1 DEF CloneFails, Idle, CallStages, notes
  <1>8. ASSUME NEW t \in Caller, ReadPlain(t) PROVE RepoTyped'
    <2>1. PICK from \in {"cwd", "clone", "gone"}, repo \in Caller \cup {NoClone}, source \in Nat :
              Read(t, from, repo, source)
      BY <1>8 DEF ReadPlain
    <2>2. QED BY <1>8, <2>1 DEF ReadPlain, Read, Idle, CallStages, notes
  <1>9. ASSUME NEW t \in Caller, ReadVfs(t) PROVE RepoTyped'
    <2>1. PICK from \in {"vfs", "gone"}, repo \in Caller \cup {NoClone}, source \in Nat :
              Read(t, from, repo, source)
      BY <1>9 DEF ReadVfs
    <2>2. QED BY <1>9, <2>1 DEF ReadVfs, Read, Idle, CallStages, notes
  <1>10. ASSUME NEW t \in Caller, BuildVfs(t) PROVE RepoTyped'
    <2>1. /\ call' \in [Caller -> [at : CallStages, ref : {"diff", "source"}, path : Caller \cup {NoClone}]]
          /\ twice' \subseteq {"clone", "vfs"}
      BY <1>10, MoveTyped DEF BuildVfs, CallStages, Together
    <2>2. /\ vfs' \in [DOMAIN vfs' -> [repo : Caller \cup {NoClone}, source : Nat]]
          /\ DOMAIN vfs' \subseteq Caller
      BY <1>10 DEF BuildVfs, Put
    <2>3. QED BY <1>10, <2>1, <2>2 DEF BuildVfs
  <1>11. ASSUME NEW t \in Caller, CacheVfs(t) PROVE RepoTyped'
    <2>1. /\ cached' \in [DOMAIN cached' -> Caller]
          /\ \E from \in {"vfs", "gone"}, repo \in Caller \cup {NoClone}, source \in Nat :
              Read(t, from, repo, source)
      <3>1. CASE vfs[t].repo \in DOMAIN clones
        <4>1. t \in DOMAIN vfs /\ vfs[t].repo \in Caller \cup {NoClone} /\ vfs[t].source \in Nat
          BY <1>11 DEF CacheVfs, ReadyFirst
        <4>2. cached' \in [DOMAIN cached' -> Caller]
          BY <1>11, <3>1 DEF CacheVfs, Put
        <4>3. QED BY <1>11, <3>1, <4>1, <4>2 DEF CacheVfs
      <3>2. CASE vfs[t].repo \notin DOMAIN clones
        BY <1>11, <3>2 DEF CacheVfs
      <3>3. QED BY <3>1, <3>2
    <2>2. QED BY <1>11, <2>1 DEF CacheVfs, Read, Idle, CallStages, notes
  <1>12. QED BY <1>1, <1>2, <1>3, <1>4, <1>5, <1>6, <1>7, <1>8, <1>9, <1>10, <1>11 DEF RepoNext

(* What the steps do to the calls and the context.                         *)
LEMMA CallEffects ==
    ASSUME RepoTyped, NEW t \in Caller, NEW entry, call' = [call EXCEPT ![t] = entry]
    PROVE  call'[t] = entry /\ \A u \in Caller \ {t} : call'[u] = call[u]
  BY DEF RepoTyped

LEMMA ResultEffects ==
    ASSUME RepoTyped, NEW t \in Caller, NEW entry, result' = [result EXCEPT ![t] = entry]
    PROVE  result'[t] = entry /\ \A u \in Caller \ {t} : result'[u] = result[u]
  BY DEF RepoTyped

LEMMA MoveEffects ==
    ASSUME RepoTyped, NEW t \in Caller, NEW here, NEW there, Move(t, here, there)
    PROVE  call[t].at = here /\ call'[t].at = there /\ \A u \in Caller \ {t} : call'[u] = call[u]
  BY DEF RepoTyped, Move

LEMMA ReadyFirstStep == RepoTyped /\ ReadyFirst /\ RepoNext => ReadyFirst'
  <1> SUFFICES ASSUME RepoTyped, ReadyFirst, RepoNext PROVE ReadyFirst'
    OBVIOUS
  <1> USE DEF ReadyFirst
  <1>1. CASE Push \/ RunEnds \/ FailRepo
    BY <1>1 DEF Push, RunEnds, FailRepo, notes, Alive
  <1>2. CASE SweepRepo
    BY <1>2 DEF SweepRepo, notes, Alive
  <1>3. CASE SweepVfs
    <2>1. DOMAIN vfs' \subseteq DOMAIN vfs /\ ~Alive'
      BY <1>3 DEF SweepVfs, Without, Restrict, Alive
    <2>2. QED BY <1>3, <2>1 DEF SweepVfs, notes
  <1>4. ASSUME NEW t \in Caller, CallTool(t) PROVE ReadyFirst'
    BY <1>4 DEF CallTool, Nothing, Alive, RepoTyped
  <1>5. ASSUME NEW t \in Caller, EnsureRepo(t) PROVE ReadyFirst'
    <2>1. /\ (call'[t].at = "ensured" /\ ctx.ready) \/ call'[t].at = "cloning"
          /\ \A u \in Caller \ {t} : call'[u] = call[u]
      BY <1>5, MoveEffects DEF EnsureRepo
    <2>2. QED BY <1>5, <2>1 DEF EnsureRepo, Alive
  <1>6. ASSUME NEW t \in Caller, FetchMeta(t) \/ CloneBranch(t) PROVE ReadyFirst'
    <2>1. call'[t].at \in {"fetched", "cloned"} /\ \A u \in Caller \ {t} : call'[u] = call[u]
      BY <1>6, MoveEffects DEF FetchMeta, CloneBranch
    <2>2. QED BY <1>6, <2>1 DEF FetchMeta, CloneBranch, notes, Alive
  <1>7. ASSUME NEW t \in Caller, CloneFails(t) PROVE ReadyFirst'
    BY <1>7, CallEffects DEF CloneFails, Idle, notes, Alive
  <1>8. ASSUME NEW t \in Caller, InstallRepo(t) \/ InstallRefs(t) PROVE ReadyFirst'
    <2>1. /\ call'[t].at = "installing" \/ (call'[t].at = "ensured" /\ ctx'.ready)
          /\ \A u \in Caller \ {t} : call'[u] = call[u]
          /\ ctx.ready => ctx'.ready
      BY <1>8, MoveEffects DEF InstallRepo, InstallRefs, RepoTyped
    <2>2. QED BY <1>8, <2>1 DEF InstallRepo, InstallRefs, notes, Alive
  <1>9. ASSUME NEW t \in Caller, ReadPlain(t) PROVE ReadyFirst'
    <2>1. PICK from \in {"cwd", "clone", "gone"}, repo \in Caller \cup {NoClone}, source \in Nat :
              Read(t, from, repo, source)
      BY <1>9 DEF ReadPlain, RepoTyped
    <2>2. /\ call'[t].at = "idle" /\ \A u \in Caller \ {t} : call'[u] = call[u]
          /\ result'[t].from # "vfs" /\ \A u \in Caller \ {t} : result'[u] = result[u]
      <3>1. /\ call' = [call EXCEPT ![t] = Idle]
            /\ result' = [result EXCEPT ![t] = [from |-> from, repo |-> repo, source |-> source]]
        BY <2>1 DEF Read
      <3>2. QED BY <2>1, <3>1 DEF RepoTyped, Idle
    <2>3. QED BY <1>9, <2>2 DEF ReadPlain, notes, Alive
  <1>10. ASSUME NEW t \in Caller, ReadVfs(t) \/ CacheVfs(t) PROVE ReadyFirst'
    <2>0. t \in DOMAIN vfs \/ ~CacheVfs(t)
      BY <1>10 DEF CacheVfs
    <2>1. PICK from \in {"vfs", "gone"}, repo \in Caller \cup {NoClone}, source \in Nat :
              Read(t, from, repo, source)
      <3>1. CASE ReadVfs(t)
        BY <3>1 DEF ReadVfs, RepoTyped
      <3>2. CASE CacheVfs(t)
        BY <3>2, <2>0 DEF CacheVfs, RepoTyped
      <3>3. QED BY <1>10, <3>1, <3>2
    <2>2. /\ call'[t].at = "idle" /\ \A u \in Caller \ {t} : call'[u] = call[u]
          /\ \A u \in Caller \ {t} : result'[u] = result[u]
      <3>1. /\ call' = [call EXCEPT ![t] = Idle]
            /\ result' = [result EXCEPT ![t] = [from |-> from, repo |-> repo, source |-> source]]
        BY <2>1 DEF Read
      <3>2. QED BY <2>1, <3>1 DEF RepoTyped, Idle
    <2>3. ctx.ready
      BY <1>10 DEF ReadVfs, CacheVfs
    <2>4. UNCHANGED <<ctx, vfs, life>>
      BY <1>10 DEF ReadVfs, CacheVfs
    <2>5. QED BY <2>2, <2>3, <2>4 DEF Alive
  <1>11. ASSUME NEW t \in Caller, BuildVfs(t) PROVE ReadyFirst'
    <2>1. /\ call[t].at = "ensured" /\ call'[t].at = "building" /\ \A u \in Caller \ {t} : call'[u] = call[u]
      BY <1>11, MoveEffects DEF BuildVfs
    <2>2. DOMAIN vfs' = DOMAIN vfs \cup {t} /\ UNCHANGED <<ctx, result, life, cached>>
      BY <1>11 DEF BuildVfs, Put
    <2>3. QED BY <2>1, <2>2 DEF Alive
  <1>12. QED BY <1>1, <1>2, <1>3, <1>4, <1>5, <1>6, <1>7, <1>8, <1>9, <1>10, <1>11 DEF RepoNext


LEMMA OneCloneStep ==
    ASSUME RepoTyped, ReadyFirst, OneClone, RepoNext, "clone" \notin twice'
    PROVE  OneClone'
  <1> USE RepoAssumption
  <1>1. CASE Push \/ RunEnds \/ FailRepo
    <2>1. UNCHANGED <<call, ctx, clones, vfs, result, cached>>
      BY <1>1 DEF Push, RunEnds, FailRepo
    <2>2. QED BY <2>1 DEF OneClone
  <1>2. CASE SweepRepo
    <2>1. DOMAIN clones' \subseteq DOMAIN clones /\ UNCHANGED <<call, ctx, vfs, result, cached>>
      BY <1>2 DEF SweepRepo, Without, Restrict
    <2>2. QED BY <2>1 DEF OneClone
  <1>3. CASE SweepVfs
    <2>1. vfs' = [x \in DOMAIN vfs \ Range(cached) |-> vfs[x]] /\ UNCHANGED <<call, ctx, clones, result, cached>>
      BY <1>3 DEF SweepVfs, Without, Restrict
    <2>2. QED BY <2>1 DEF OneClone
  <1>4. ASSUME NEW t \in Caller, CallTool(t) PROVE OneClone'
    <2>1. /\ call[t].at = "idle" /\ call'[t].at = "called" /\ \A u \in Caller \ {t} : call'[u] = call[u]
          /\ result'[t].from = "nothing" /\ \A u \in Caller \ {t} : result'[u] = result[u]
          /\ UNCHANGED <<ctx, clones, vfs, cached>>
      BY <1>4 DEF CallTool, Nothing, RepoTyped
    <2>2. QED BY <2>1 DEF OneClone, Cloning
  <1>5. ASSUME NEW t \in Caller, EnsureRepo(t) PROVE OneClone'
    <2>1. /\ call[t].at = "called"
          /\ \/ ctx.ready /\ call'[t].at = "ensured"
             \/ ~ctx.ready /\ call'[t].at = "cloning" /\ \A x \in Caller : call[x].at \notin Cloning
          /\ \A u \in Caller \ {t} : call'[u] = call[u]
      BY <1>5, MoveEffects DEF EnsureRepo, Together
    <2>2. UNCHANGED <<ctx, clones, vfs, result, cached>>
      BY <1>5 DEF EnsureRepo
    <2>3. QED BY <2>1, <2>2 DEF OneClone, Cloning
  <1>6. ASSUME NEW t \in Caller, FetchMeta(t) PROVE OneClone'
    <2>1. call[t].at = "cloning" /\ call'[t].at = "fetched" /\ \A u \in Caller \ {t} : call'[u] = call[u]
      BY <1>6, MoveEffects DEF FetchMeta
    <2>2. UNCHANGED <<ctx, clones, vfs, result, cached>>
      BY <1>6 DEF FetchMeta
    <2>3. QED BY <2>1, <2>2 DEF OneClone, Cloning
  <1>7. ASSUME NEW t \in Caller, CloneBranch(t) PROVE OneClone'
    <2>1. call[t].at = "fetched" /\ call'[t].at = "cloned" /\ \A u \in Caller \ {t} : call'[u] = call[u]
      BY <1>7, MoveEffects DEF CloneBranch
    <2>2. DOMAIN clones' = DOMAIN clones \cup {t} /\ UNCHANGED <<ctx, vfs, result, cached>>
      BY <1>7 DEF CloneBranch, Put
    <2>3. QED BY <2>1, <2>2 DEF OneClone, Cloning
  <1>8. ASSUME NEW t \in Caller, CloneFails(t) PROVE OneClone'
    <2>1. /\ call[t].at \in {"cloning", "fetched", "cloned"} /\ call'[t].at = "idle"
          /\ \A u \in Caller \ {t} : call'[u] = call[u]
      BY <1>8 DEF CloneFails, Idle, RepoTyped
    <2>2. DOMAIN clones' = DOMAIN clones \ {t} /\ UNCHANGED <<ctx, vfs, result, cached>>
      BY <1>8 DEF CloneFails, Without, Restrict
    <2>3. QED BY <2>1, <2>2 DEF OneClone, Cloning
  <1>9. ASSUME NEW t \in Caller, InstallRepo(t) PROVE OneClone'
    <2>1. call[t].at = "cloned" /\ call'[t].at = "installing" /\ \A u \in Caller \ {t} : call'[u] = call[u]
      BY <1>9, MoveEffects DEF InstallRepo
    <2>2. /\ ctx'.repo = t /\ ctx'.cleanup = t /\ ctx'.ready = ctx.ready /\ ctx'.source = ctx.source
          /\ UNCHANGED <<clones, vfs, result, cached>>
      BY <1>9 DEF InstallRepo, RepoTyped
    <2>3. ~ctx.ready /\ ctx.repo \notin Caller
      BY <2>1 DEF OneClone, Cloning, RepoTyped
    <2>4. QED BY <2>1, <2>2, <2>3 DEF OneClone, Cloning, ReadyFirst
  <1>10. ASSUME NEW t \in Caller, InstallRefs(t) PROVE OneClone'
    <2>1. call[t].at = "installing" /\ call'[t].at = "ensured" /\ \A u \in Caller \ {t} : call'[u] = call[u]
      BY <1>10, MoveEffects DEF InstallRefs
    <2>2. /\ ctx'.repo = ctx.repo /\ ctx'.cleanup = ctx.cleanup /\ ctx'.ready /\ UNCHANGED <<clones, vfs, result, cached>>
      BY <1>10 DEF InstallRefs, RepoTyped
    <2>3. ~ctx.ready /\ ctx.repo = t
      BY <2>1 DEF OneClone, Cloning
    <2>4. QED BY <2>1, <2>2, <2>3 DEF OneClone, Cloning, ReadyFirst
  <1>11. ASSUME NEW t \in Caller, ReadPlain(t) PROVE OneClone'
    <2>1. PICK from \in {"cwd", "clone", "gone"}, repo \in Caller \cup {NoClone}, source \in Nat :
              Read(t, from, repo, source)
      BY <1>11 DEF ReadPlain, RepoTyped
    <2>2. /\ call' = [call EXCEPT ![t] = Idle]
          /\ result' = [result EXCEPT ![t] = [from |-> from, repo |-> repo, source |-> source]]
      BY <2>1 DEF Read
    <2>3. /\ call'[t].at = "idle" /\ \A u \in Caller \ {t} : call'[u] = call[u]
          /\ result'[t].from # "vfs" /\ \A u \in Caller \ {t} : result'[u] = result[u]
      BY <2>1, <2>2 DEF RepoTyped, Idle
    <2>4. call[t].at = "ensured" /\ UNCHANGED <<ctx, clones, vfs, cached>>
      BY <1>11 DEF ReadPlain
    <2>5. QED BY <2>3, <2>4 DEF OneClone, Cloning
  <1>12. ASSUME NEW t \in Caller, ReadVfs(t) \/ CacheVfs(t) PROVE OneClone'
    <2>0. t \in DOMAIN vfs \/ ~CacheVfs(t)
      BY <1>12 DEF CacheVfs, ReadyFirst
    <2>1. \/ Read(t, "gone", NoClone, 0)
          \/ \E dir \in DOMAIN vfs : Read(t, "vfs", vfs[dir].repo, vfs[dir].source)
      <3>1. CASE ReadVfs(t)
        BY <3>1 DEF ReadVfs, RepoTyped
      <3>2. CASE CacheVfs(t)
        BY <3>2, <2>0 DEF CacheVfs, RepoTyped
      <3>3. QED BY <1>12, <3>1, <3>2
    <2>2. /\ call'[t].at = "idle" /\ \A u \in Caller \ {t} : call'[u] = call[u]
          /\ \A u \in Caller \ {t} : result'[u] = result[u]
          /\ result'[t].from = "vfs" => result'[t].repo = ctx.repo /\ result'[t].source = ctx.source
      <3>1. CASE Read(t, "gone", NoClone, 0)
        BY <3>1 DEF RepoTyped, Idle, Read
      <3>2. ASSUME NEW dir \in DOMAIN vfs, Read(t, "vfs", vfs[dir].repo, vfs[dir].source)
            PROVE  /\ call'[t].at = "idle" /\ \A u \in Caller \ {t} : call'[u] = call[u]
                   /\ \A u \in Caller \ {t} : result'[u] = result[u]
                   /\ result'[t].from = "vfs" => /\ result'[t].repo = ctx.repo
                                                 /\ result'[t].source = ctx.source
        BY <3>2 DEF RepoTyped, Idle, Read, OneClone
      <3>3. QED BY <2>1, <3>1, <3>2
    <2>3. call[t].at \in {"ensured", "building"} /\ UNCHANGED <<ctx, clones, vfs>>
      BY <1>12 DEF ReadVfs, CacheVfs
    <2>4. DOMAIN cached' \subseteq {ctx.source}
      <3>1. CASE ReadVfs(t)
        BY <3>1 DEF ReadVfs, OneClone
      <3>2. CASE CacheVfs(t)
        BY <3>2, <2>0 DEF CacheVfs, OneClone, Put
      <3>3. QED BY <1>12, <3>1, <3>2
    <2>5. QED BY <2>2, <2>3, <2>4 DEF OneClone, Cloning
  <1>13. ASSUME NEW t \in Caller, BuildVfs(t) PROVE OneClone'
    <2>1. /\ call[t].at = "ensured" /\ call'[t].at = "building" /\ \A u \in Caller \ {t} : call'[u] = call[u]
      BY <1>13, MoveEffects DEF BuildVfs
    <2>2. /\ \A d \in DOMAIN vfs' : vfs'[d] = [repo |-> ctx.repo, source |-> ctx.source]
          /\ UNCHANGED <<ctx, clones, result, cached>>
      BY <1>13 DEF BuildVfs, Put, OneClone
    <2>3. QED BY <2>1, <2>2 DEF OneClone, Cloning
  <1>14. QED
    BY <1>1, <1>2, <1>3, <1>4, <1>5, <1>6, <1>7, <1>8, <1>9, <1>10, <1>11, <1>12, <1>13 DEF RepoNext

LEMMA CloneIsMetaStep ==
    ASSUME RepoTyped, OneClone, CloneIsMeta, RepoNext, "clone" \notin twice', ~pushed'
    PROVE  CloneIsMeta'
  <1>1. CASE Push
    <2>1. \A t \in Caller : call[t].at # "fetched"
      BY <1>1 DEF Push
    <2>2. QED BY <1>1, <2>1 DEF Push, CloneIsMeta
  <1>2. CASE RunEnds \/ FailRepo \/ SweepVfs
    <2>1. UNCHANGED <<head, call, meta, clones, ctx>>
      BY <1>2 DEF RunEnds, FailRepo, SweepVfs
    <2>2. QED BY <2>1 DEF CloneIsMeta
  <1>3. CASE SweepRepo
    <2>1. clones' = [x \in DOMAIN clones \ {ctx.cleanup} |-> clones[x]] /\ UNCHANGED <<head, call, meta, ctx>>
      BY <1>3 DEF SweepRepo, Without, Restrict
    <2>2. QED BY <2>1 DEF CloneIsMeta
  <1>4. ASSUME NEW t \in Caller, CallTool(t) \/ EnsureRepo(t) \/ BuildVfs(t) PROVE CloneIsMeta'
    <2>1. /\ call'[t].at \notin {"fetched", "cloned", "installing"}
          /\ \A u \in Caller \ {t} : call'[u] = call[u]
      <3>1. CASE CallTool(t)
        BY <3>1 DEF CallTool, RepoTyped
      <3>2. CASE EnsureRepo(t)
        BY <3>2, MoveEffects DEF EnsureRepo
      <3>3. CASE BuildVfs(t)
        BY <3>3, MoveEffects DEF BuildVfs
      <3>4. QED BY <1>4, <3>1, <3>2, <3>3
    <2>2. UNCHANGED <<head, meta, clones, ctx>>
      BY <1>4 DEF CallTool, EnsureRepo, BuildVfs
    <2>3. QED BY <2>1, <2>2 DEF CloneIsMeta
  <1>5. ASSUME NEW t \in Caller, FetchMeta(t) PROVE CloneIsMeta'
    <2>1. call[t].at = "cloning" /\ call'[t].at = "fetched" /\ \A u \in Caller \ {t} : call'[u] = call[u]
      BY <1>5, MoveEffects DEF FetchMeta
    <2>2. /\ meta'[t] = head /\ \A u \in Caller \ {t} : meta'[u] = meta[u]
          /\ UNCHANGED <<head, clones, ctx>>
      BY <1>5 DEF FetchMeta, RepoTyped
    <2>3. QED BY <2>1, <2>2 DEF CloneIsMeta
  <1>6. ASSUME NEW t \in Caller, CloneBranch(t) PROVE CloneIsMeta'
    <2>1. call[t].at = "fetched" /\ call'[t].at = "cloned" /\ \A u \in Caller \ {t} : call'[u] = call[u]
      BY <1>6, MoveEffects DEF CloneBranch
    <2>2. /\ clones'[t] = head /\ DOMAIN clones' = DOMAIN clones \cup {t}
          /\ \A u \in DOMAIN clones \ {t} : clones'[u] = clones[u]
          /\ UNCHANGED <<head, meta, ctx>>
      BY <1>6 DEF CloneBranch, Put
    <2>3. ~ctx.ready
      BY <2>1 DEF OneClone, Cloning
    <2>4. QED BY <2>1, <2>2, <2>3 DEF CloneIsMeta
  <1>7. ASSUME NEW t \in Caller, CloneFails(t) PROVE CloneIsMeta'
    <2>1. call'[t].at = "idle" /\ \A u \in Caller \ {t} : call'[u] = call[u]
      BY <1>7 DEF CloneFails, Idle, RepoTyped
    <2>2. clones' = [x \in DOMAIN clones \ {t} |-> clones[x]] /\ UNCHANGED <<head, meta, ctx>>
      BY <1>7 DEF CloneFails, Without, Restrict
    <2>3. QED BY <2>1, <2>2 DEF CloneIsMeta
  <1>8. ASSUME NEW t \in Caller, InstallRepo(t) PROVE CloneIsMeta'
    <2>1. call[t].at = "cloned" /\ call'[t].at = "installing" /\ \A u \in Caller \ {t} : call'[u] = call[u]
      BY <1>8, MoveEffects DEF InstallRepo
    <2>2. ctx'.ready = ctx.ready /\ UNCHANGED <<head, meta, clones>>
      BY <1>8 DEF InstallRepo, RepoTyped
    <2>3. ~ctx.ready
      BY <2>1 DEF OneClone, Cloning
    <2>4. QED BY <2>1, <2>2, <2>3 DEF CloneIsMeta
  <1>9. ASSUME NEW t \in Caller, InstallRefs(t) PROVE CloneIsMeta'
    <2>1. call[t].at = "installing" /\ call'[t].at = "ensured" /\ \A u \in Caller \ {t} : call'[u] = call[u]
      BY <1>9, MoveEffects DEF InstallRefs
    <2>2. ctx'.source = meta[t] /\ ctx'.repo = ctx.repo /\ UNCHANGED <<head, meta, clones>>
      BY <1>9 DEF InstallRefs, RepoTyped
    <2>3. ctx.repo = t
      BY <2>1 DEF OneClone
    <2>4. QED BY <2>1, <2>2, <2>3 DEF CloneIsMeta
  <1>10. ASSUME NEW t \in Caller, ReadPlain(t) \/ ReadVfs(t) \/ CacheVfs(t) PROVE CloneIsMeta'
    <2>1. call' = [call EXCEPT ![t] = Idle]
      BY <1>10 DEF ReadPlain, ReadVfs, CacheVfs, Read
    <2>2. call'[t].at = "idle" /\ \A u \in Caller \ {t} : call'[u] = call[u]
      BY <2>1 DEF RepoTyped, Idle
    <2>3. UNCHANGED <<head, meta, clones, ctx>>
      BY <1>10 DEF ReadPlain, ReadVfs, CacheVfs
    <2>4. QED BY <2>2, <2>3 DEF CloneIsMeta
  <1>11. QED BY <1>1, <1>2, <1>3, <1>4, <1>5, <1>6, <1>7, <1>8, <1>9, <1>10 DEF RepoNext

LEMMA SweptCleanStep ==
    ASSUME RepoTyped, ReadyFirst, OneClone, SweptClean, RepoNext,
           "clone" \notin twice', "vfs" \notin twice', ~tardy', ~tardy
    PROVE  SweptClean'
  <1> USE RepoAssumption
  <1>1. CASE Push \/ RunEnds \/ FailRepo
    <2>1. UNCHANGED <<call, ctx, clones, vfs, cached>>
      BY <1>1 DEF Push, RunEnds, FailRepo
    <2>2. \/ life' = life
          \/ life = "running" /\ life' = "failed"
          \/ life = "running" /\ life' = "over" /\ \A t \in Caller : call[t].at = "idle"
      <3>1. CASE RunEnds
        BY <3>1 DEF RunEnds, Caller
      <3>2. CASE Push \/ FailRepo
        BY <3>2 DEF Push, FailRepo
      <3>3. QED BY <1>1, <3>1, <3>2
    <2>3. QED BY <2>1, <2>2 DEF SweptClean
  <1>2. CASE SweepRepo
    <2>1. /\ DOMAIN clones' = DOMAIN clones \ {ctx.cleanup} /\ UNCHANGED <<call, ctx, vfs, cached>>
          /\ life = "over" /\ life' = "swept"
      BY <1>2 DEF SweepRepo, Without, Restrict
    <2>2. DOMAIN clones' = {}
      BY <2>1 DEF SweptClean, OneClone
    <2>3. QED BY <2>1, <2>2 DEF SweptClean
  <1>3. CASE SweepVfs
    <2>1. /\ DOMAIN vfs' = DOMAIN vfs \ Range(cached) /\ UNCHANGED <<call, ctx, clones, cached>>
          /\ life = "swept" /\ life' = "exited"
      BY <1>3 DEF SweepVfs, Without, Restrict
    <2>2. DOMAIN vfs' = {}
      BY <2>1 DEF SweptClean
    <2>3. QED BY <2>1, <2>2 DEF SweptClean
  <1>4. ASSUME NEW t \in Caller, CallTool(t) PROVE SweptClean'
    <2>1. /\ call[t].at = "idle" /\ call'[t].at = "called" /\ \A u \in Caller \ {t} : call'[u] = call[u]
          /\ UNCHANGED <<ctx, clones, vfs, cached, life>>
      BY <1>4 DEF CallTool, RepoTyped
    <2>2. life = "running"
      BY <1>4 DEF CallTool
    <2>3. QED BY <2>1, <2>2 DEF SweptClean
  <1>5. ASSUME NEW t \in Caller, EnsureRepo(t) \/ FetchMeta(t) PROVE SweptClean'
    <2>1. /\ call[t].at \notin {"idle", "building"}
          /\ call'[t].at \notin {"building", "cloned", "installing"}
          /\ \A u \in Caller \ {t} : call'[u] = call[u]
      <3>1. CASE EnsureRepo(t)
        BY <3>1, MoveEffects DEF EnsureRepo
      <3>2. CASE FetchMeta(t)
        BY <3>2, MoveEffects DEF FetchMeta
      <3>3. QED BY <1>5, <3>1, <3>2
    <2>2. UNCHANGED <<ctx, clones, vfs, cached, life>>
      BY <1>5 DEF EnsureRepo, FetchMeta
    <2>3. QED BY <2>1, <2>2 DEF SweptClean
  <1>6. ASSUME NEW t \in Caller, CloneBranch(t) PROVE SweptClean'
    <2>1. call[t].at = "fetched" /\ call'[t].at = "cloned" /\ \A u \in Caller \ {t} : call'[u] = call[u]
      BY <1>6, MoveEffects DEF CloneBranch
    <2>2. DOMAIN clones' = DOMAIN clones \cup {t} /\ UNCHANGED <<ctx, vfs, cached, life>>
      BY <1>6 DEF CloneBranch, Put
    <2>3. life \notin {"over", "swept", "exited"}
      BY <2>1 DEF SweptClean
    <2>4. QED BY <2>1, <2>2, <2>3 DEF SweptClean
  <1>7. ASSUME NEW t \in Caller, CloneFails(t) PROVE SweptClean'
    <2>1. /\ call[t].at \in {"cloning", "fetched", "cloned"} /\ call'[t].at = "idle"
          /\ \A u \in Caller \ {t} : call'[u] = call[u]
      BY <1>7 DEF CloneFails, Idle, RepoTyped
    <2>2. DOMAIN clones' = DOMAIN clones \ {t} /\ UNCHANGED <<ctx, vfs, cached, life>>
      BY <1>7 DEF CloneFails, Without, Restrict
    <2>3. ~ctx.ready /\ life \notin {"over", "swept", "exited"}
      BY <2>1 DEF OneClone, SweptClean, Cloning
    <2>4. QED BY <2>1, <2>2, <2>3 DEF SweptClean
  <1>8. ASSUME NEW t \in Caller, InstallRepo(t) \/ InstallRefs(t) PROVE SweptClean'
    <2>1. /\ call[t].at \in {"cloned", "installing"} /\ call'[t].at \in {"installing", "ensured"}
          /\ \A u \in Caller \ {t} : call'[u] = call[u]
      <3>1. CASE InstallRepo(t)
        BY <3>1, MoveEffects DEF InstallRepo
      <3>2. CASE InstallRefs(t)
        BY <3>2, MoveEffects DEF InstallRefs
      <3>3. QED BY <1>8, <3>1, <3>2
    <2>2. ctx'.repo = t /\ UNCHANGED <<clones, vfs, cached, life>>
      <3>1. CASE InstallRepo(t)
        BY <3>1 DEF InstallRepo, RepoTyped
      <3>2. CASE InstallRefs(t)
        <4>1. call[t].at = "installing" /\ ctx'.repo = ctx.repo
          BY <3>2 DEF InstallRefs, Move, RepoTyped
        <4>2. QED BY <3>2, <4>1 DEF InstallRefs, OneClone
      <3>3. QED BY <1>8, <3>1, <3>2
    <2>3. /\ life \notin {"over", "swept", "exited"}
          /\ life = "running" => t \in DOMAIN clones
          /\ ~ctx.ready
      BY <2>1 DEF SweptClean, OneClone, Cloning
    <2>4. \A u \in Caller : call[u].at # "building"
      BY <2>3 DEF ReadyFirst
    <2>5. QED BY <2>1, <2>2, <2>3, <2>4 DEF SweptClean
  <1>9. ASSUME NEW t \in Caller, ReadPlain(t) \/ ReadVfs(t) PROVE SweptClean'
    <2>1. call' = [call EXCEPT ![t] = Idle] /\ call[t].at = "ensured"
      BY <1>9 DEF ReadPlain, ReadVfs, Read
    <2>2. call'[t].at = "idle" /\ \A u \in Caller \ {t} : call'[u] = call[u]
      BY <2>1 DEF RepoTyped, Idle
    <2>3. UNCHANGED <<clones, ctx, vfs, cached, life>>
      BY <1>9 DEF ReadPlain, ReadVfs
    <2>4. QED BY <2>1, <2>2, <2>3 DEF SweptClean
  <1>10. ASSUME NEW t \in Caller, BuildVfs(t) PROVE SweptClean'
    <2>1. call[t].at = "ensured" /\ call'[t].at = "building" /\ \A u \in Caller \ {t} : call'[u] = call[u]
      BY <1>10, MoveEffects DEF BuildVfs
    <2>2. /\ DOMAIN vfs' = DOMAIN vfs \cup {t} /\ UNCHANGED <<ctx, clones, cached, life>>
          /\ ctx.source \notin DOMAIN cached /\ \A u \in Caller : call[u].at # "building"
      BY <1>10 DEF BuildVfs, Put, Together
    <2>3. life \notin {"over", "swept", "exited"}
      BY <2>1 DEF SweptClean
    <2>4. QED BY <2>1, <2>2, <2>3 DEF SweptClean
  <1>11. ASSUME NEW t \in Caller, CacheVfs(t) PROVE SweptClean'
    <2>1. call' = [call EXCEPT ![t] = Idle] /\ call[t].at = "building"
      BY <1>11 DEF CacheVfs, Read
    <2>2. call'[t].at = "idle" /\ \A u \in Caller \ {t} : call'[u] = call[u]
      BY <2>1 DEF RepoTyped, Idle
    <2>3. life = "running" /\ ctx.ready /\ t \in DOMAIN vfs
      BY <1>11, <2>1 DEF CacheVfs, Alive, SweptClean, ReadyFirst
    <2>4. vfs[t].repo \in DOMAIN clones /\ vfs[t].source = ctx.source
      BY <2>3 DEF SweptClean, OneClone
    <2>5. cached' = Put(ctx.source, t, cached) /\ ctx.source \notin DOMAIN cached
      BY <1>11, <2>1, <2>4 DEF CacheVfs, SweptClean
    <2>6. Range(cached) \cup {t} \subseteq Range(cached')
      BY <2>5 DEF Put, Range
    <2>7. \A u \in Caller : call'[u].at # "building"
      BY <2>1, <2>2 DEF SweptClean
    <2>8. UNCHANGED <<clones, ctx, vfs, life>>
      BY <1>11 DEF CacheVfs
    <2>9. QED BY <2>1, <2>2, <2>3, <2>6, <2>7, <2>8 DEF SweptClean
  <1>12. QED BY <1>1, <1>2, <1>3, <1>4, <1>5, <1>6, <1>7, <1>8, <1>9, <1>10, <1>11 DEF RepoNext

(* What was raced for, pushed to or late stays so; no call is late before  *)
(* the run is over.                                                        *)
LEMMA NotesKept ==
    ASSUME RepoInv, RepoNext
    PROVE  /\ twice \subseteq twice' /\ (pushed => pushed')
           /\ ~tardy' => ~tardy
           /\ life' = "running" => ~tardy'
  <1>1. CASE Push \/ RunEnds \/ FailRepo \/ SweepRepo \/ SweepVfs
    <2>1. CASE Push
      <3>1. pushed => pushed'
        BY <2>1 DEF Push
      <3>2. QED BY <2>1, <3>1 DEF Push, RepoInv
    <2>2. CASE RunEnds
      BY <2>2 DEF RunEnds, RepoInv
    <2>3. CASE FailRepo \/ SweepRepo \/ SweepVfs
      BY <2>3 DEF FailRepo, SweepRepo, SweepVfs, notes, RepoInv
    <2>4. QED BY <1>1, <2>1, <2>2, <2>3
  <1>2. ASSUME NEW t \in Caller,
               \/ CallTool(t) \/ EnsureRepo(t) \/ FetchMeta(t) \/ CloneBranch(t) \/ CloneFails(t)
               \/ InstallRepo(t) \/ InstallRefs(t)
               \/ ReadPlain(t) \/ ReadVfs(t) \/ BuildVfs(t) \/ CacheVfs(t)
        PROVE  /\ twice \subseteq twice' /\ (pushed => pushed') /\ life' = life
               /\ (~tardy' => ~tardy) /\ (life = "running" => (tardy' => tardy))
    <2>1. CASE CallTool(t)
      BY <2>1 DEF CallTool
    <2>2. CASE EnsureRepo(t) \/ BuildVfs(t)
      BY <2>2 DEF EnsureRepo, BuildVfs, Together
    <2>3. CASE \/ FetchMeta(t) \/ CloneBranch(t) \/ CloneFails(t) \/ InstallRepo(t) \/ InstallRefs(t)
               \/ ReadPlain(t) \/ ReadVfs(t) \/ CacheVfs(t)
      <3>1. UNCHANGED <<notes, life>>
        BY <2>3 DEF FetchMeta, CloneBranch, CloneFails, InstallRepo, InstallRefs, ReadPlain, ReadVfs, CacheVfs
      <3>2. QED BY <3>1 DEF notes
    <2>4. QED BY <1>2, <2>1, <2>2, <2>3
  <1>3. QED BY <1>1, <1>2 DEF RepoNext, RepoInv

LEMMA RepoStep == RepoInv /\ [RepoNext]_repoVars => RepoInv'
  <1>1. CASE RepoInv /\ UNCHANGED repoVars
    <2>1. (RepoTyped => RepoTyped') /\ (ReadyFirst => ReadyFirst')
      BY <1>1 DEF repoVars, RepoTyped, ReadyFirst, Alive
    <2>2. (OneClone => OneClone') /\ (CloneIsMeta => CloneIsMeta')
      BY <1>1 DEF repoVars, OneClone, CloneIsMeta
    <2>3. (SweptClean => SweptClean') /\ UNCHANGED <<twice, pushed, tardy, life>>
      BY <1>1 DEF repoVars, SweptClean
    <2>4. QED BY <1>1, <2>1, <2>2, <2>3 DEF RepoInv
  <1>2. CASE RepoInv /\ RepoNext
    <2>1. RepoTyped' /\ ReadyFirst'
      BY <1>2, RepoTypedStep, ReadyFirstStep DEF RepoInv
    <2>2. "clone" \notin twice' => OneClone'
      BY <1>2, NotesKept, OneCloneStep DEF RepoInv
    <2>3. "clone" \notin twice' /\ ~pushed' => CloneIsMeta'
      BY <1>2, NotesKept, CloneIsMetaStep DEF RepoInv
    <2>4. twice' = {} /\ ~tardy' => SweptClean'
      BY <1>2, NotesKept, SweptCleanStep DEF RepoInv
    <2>5. QED BY <1>2, <2>1, <2>2, <2>3, <2>4, NotesKept DEF RepoInv
  <1>3. QED BY <1>1, <1>2

LEMMA RepoAlways == Spec => []RepoInv
  <1>1. Init => RepoInv
    BY RepoStart DEF Init
  <1>2. [Next]_vars => [RepoNext]_repoVars
    BY DEF Next, vars
  <1>3. QED BY <1>1, <1>2, RepoStep, PTL DEF Spec

(* All tools of an invocation read one revision of the pull request,       *)
(* unless the repository was cloned twice or the branch was pushed to      *)
(* between fetch_pr()'s two reads of it (_Ctx.ensure_repo, _get_vfs).      *)
THEOREM RevisionIsOne == Spec => []OneRevision
  <1>1. RepoInv => OneRevision
    BY DEF RepoInv, OneRevision, OneClone, CloneIsMeta, ReadyFirst
  <1>2. QED BY <1>1, RepoAlways, PTL

(* A run that ends well has removed its clone and its virtual file         *)
(* systems, unless threads raced to make them or a child was still at work *)
(* (cli.py's cleanup of the context and of vfs_cache).                     *)
THEOREM RepoIsCleaned == Spec => []NothingLeftBehind
  <1>1. RepoInv => NothingLeftBehind
    <2> SUFFICES ASSUME RepoInv, life = "exited", twice = {}, ~tardy
                 PROVE  clones = <<>> /\ vfs = <<>>
      BY DEF NothingLeftBehind
    <2>1. DOMAIN clones = {} /\ DOMAIN vfs = {}
      BY DEF RepoInv, SweptClean
    <2>2. clones = <<>>
      BY <2>1, EmptyTable DEF RepoInv, RepoTyped
    <2>3. vfs = <<>>
      BY <2>1, EmptyTable DEF RepoInv, RepoTyped
    <2>4. QED BY <2>2, <2>3
  <1>2. QED BY <1>1, RepoAlways, PTL

(* What the tools show of the repository, and what is left of it in the    *)
(* end (RepoKept).                                                         *)
THEOREM RepoIsKept == Spec => []RepoKept
  BY RevisionIsOne, RepoIsCleaned, PTL DEF RepoKept

------------------------------------------------------------------------------
(* The recording of invocations (Recording): numbers grow, a writer knows  *)
(* the title it writes, and the bundle only grows where nothing overlaps.  *)

RecTyped ==
    /\ stage \in [Writer -> Stages]
    /\ number \in [Writer -> Nat]
    /\ dirs \subseteq Writer /\ IsFiniteSet(dirs)
    /\ snapped \subseteq Writer
    /\ title \in Writer \cup {Missing} /\ titleRead \in [Writer -> Writer \cup {Missing}]
    /\ DOMAIN mirror = Writer /\ mirror = [w \in Writer |-> mirror[w]]
    /\ DOMAIN listed = Writer /\ listed = [w \in Writer |-> listed[w]]
    /\ {overlap, lost, retitled} \subseteq BOOLEAN

(* Numbers are given once, from 1 on, and the directories have a highest   *)
(* one.                                                                    *)
Numbered ==
    /\ \A w \in Writer : stage[w] \in {"idle", "opened"} => number[w] = 0
    /\ \A w \in Writer : stage[w] \notin {"idle", "opened", "stopped"} => number[w] # 0
    /\ \A w \in Writer : stage[w] \in {"idle", "opened", "scanned", "started", "metaRead", "metaWritten"} =>
          w \notin snapped
    /\ \A w \in Writer : stage[w] \in {"idle", "opened", "scanned"} => w \notin dirs
    /\ \E top \in Nat : /\ \A x \in dirs : number[x] <= top
                        /\ top = 0 \/ \E x \in dirs : number[x] = top

(* A writer between its two accesses to pr.json knows the title, or is the *)
(* only one that does not.                                                 *)
TitleKnown ==
    /\ title = Missing => \A w \in Writer : titleRead[w] = Missing
    /\ ~retitled => \A w \in Writer : stage[w] = "metaRead" =>
          /\ title # Missing => titleRead[w] = title
          /\ title = Missing => \A x \in Writer : stage[x] = "metaRead" => x = w

\* What a writer makes of the bundle: its own revision beside those it found.
Stamps(w, table) ==
    /\ number[w] \in DOMAIN table /\ table[number[w]] = w
    /\ DOMAIN bundle \subseteq DOMAIN table
    /\ \A n \in DOMAIN bundle \ {number[w]} : table[n] = bundle[n]

(* Without an overlap or a lost fetch one writer at a time is at the       *)
(* bundle, and what it is about to put there only adds to it.              *)
BundleKept ==
    /\ \A w, x \in Writer : stage[w] \in InBundle /\ stage[x] \in InBundle => w = x
    /\ \A w \in Writer : stage[w] = "fetched" => Stamps(w, mirror[w])
    /\ \A w \in Writer : stage[w] = "built" => \A t \in fresh : Stamps(w, t)
    /\ \A w \in snapped : stage[w] \in {"swapped", "manifestRead", "done"} =>
          SharedNumber(w) \/ (number[w] \in DOMAIN bundle /\ bundle[number[w]] = w)
    /\ \A w \in Writer : stage[w] \in {"swapped", "manifestRead"} => number[w] \in DOMAIN bundle
    /\ \A w \in Writer : stage[w] = "manifestRead" => DOMAIN listed[w] \subseteq DOMAIN bundle
    /\ DOMAIN manifest \subseteq DOMAIN bundle

RecInv == RecTyped /\ Numbered /\ TitleKnown /\ (~overlap /\ ~lost => BundleKept)

LEMMA StageMoves ==
    ASSUME RecTyped, NEW w \in Writer, NEW here, NEW there, GoTo(w, here, there)
    PROVE  stage[w] = here /\ stage'[w] = there /\ \A x \in Writer \ {w} : stage'[x] = stage[x]
  BY DEF RecTyped, GoTo

LEMMA StageTyped ==
    ASSUME RecTyped, NEW w \in Writer, NEW here, NEW there \in Stages, GoTo(w, here, there)
    PROVE  stage' \in [Writer -> Stages]
  <1>1. stage \in [Writer -> Stages]
    BY DEF RecTyped
  <1>2. QED BY <1>1 DEF GoTo

\* The next number is greater than every number in the directory.
LEMMA NextNumber ==
    ASSUME RecTyped, Numbered
    PROVE  1 + Max({Cardinality(dirs)} \cup {number[x] : x \in dirs}) \in Nat \ {0}
  <1> DEFINE Given == {Cardinality(dirs)} \cup {number[x] : x \in dirs}
  <1>1. Cardinality(dirs) \in Nat
    BY FS_CardinalityType DEF RecTyped
  <1>2. Given \subseteq Nat
    BY <1>1 DEF RecTyped
  <1>3. PICK top \in Nat : /\ \A x \in dirs : number[x] <= top
                           /\ top = 0 \/ \E x \in dirs : number[x] = top
    BY DEF Numbered
  <1>4. \E m \in Given : \A n \in Given : m >= n
    <2>1. CASE top > Cardinality(dirs)
      <3>1. top \in Given
        BY <1>1, <1>3, <2>1
      <3>2. \A n \in Given : top >= n
        BY <1>1, <1>3, <2>1 DEF RecTyped
      <3>3. QED BY <3>1, <3>2
    <2>2. CASE top <= Cardinality(dirs)
      <3>1. \A n \in Given : Cardinality(dirs) >= n
        BY <1>1, <1>3, <2>2 DEF RecTyped
      <3>2. QED BY <3>1
    <2>3. QED BY <1>1, <1>3, <2>1, <2>2
  <1>5. Max(Given) \in Given
    BY <1>4 DEF Max
  <1>6. QED BY <1>2, <1>5

LEMMA RecStart == RecInit => RecInv
  <1> SUFFICES ASSUME RecInit PROVE RecInv
    OBVIOUS
  <1>1. RecTyped
    BY FS_EmptySet DEF RecInit, RecTyped, Stages
  <1>2. Numbered
    <2>1. \A x \in dirs : number[x] <= 0
      BY DEF RecInit
    <2>2. QED BY <2>1 DEF RecInit, Numbered
  <1>3. TitleKnown
    BY DEF RecInit, TitleKnown
  <1>4. BundleKept
    BY DEF RecInit, BundleKept, InBundle
  <1>5. QED BY <1>1, <1>2, <1>3, <1>4 DEF RecInv

LEMMA RecTypedStep == RecTyped /\ Numbered /\ RecNext => RecTyped'
  <1> SUFFICES ASSUME RecTyped, Numbered, NEW w \in Writer,
                      \/ OpenWriter(w) \/ ScanInvocations(w) \/ MakeDir(w)
                      \/ ReadMeta(w) \/ WriteMeta(w) \/ WriteSnapshot(w) \/ WriteOutput(w)
                      \/ FetchPrior(w) \/ BuildBundle(w) \/ SwapBundle(w)
                      \/ ReadManifest(w) \/ WriteManifest(w) \/ StopWriter(w)
               PROVE  RecTyped'
    BY DEF RecNext
  <1> USE DEF diskVars, localVars, noteVars
  <1>1. stage' \in [Writer -> Stages]
    <2>1. CASE StopWriter(w)
      BY <2>1 DEF StopWriter, Stages, RecTyped
    <2>2. CASE ~StopWriter(w)
      BY <2>2, StageTyped DEF OpenWriter, ScanInvocations, MakeDir, ReadMeta, WriteMeta, WriteSnapshot, WriteOutput,
         FetchPrior, BuildBundle, SwapBundle, ReadManifest, WriteManifest, Stages
    <2>3. QED BY <2>1, <2>2
  <1>2. CASE OpenWriter(w) \/ WriteOutput(w)
    BY <1>1, <1>2 DEF OpenWriter, WriteOutput, RecTyped
  <1>3. CASE ScanInvocations(w)
    BY <1>1, <1>3, NextNumber DEF ScanInvocations, RecTyped
  <1>4. CASE MakeDir(w)
    <2>1. IsFiniteSet(dirs')
      BY <1>4, FS_AddElement DEF MakeDir, RecTyped
    <2>2. QED BY <1>1, <1>4, <2>1 DEF MakeDir, RecTyped
  <1>5. CASE ReadMeta(w)
    <2>1. retitled' \in BOOLEAN
      BY <1>5 DEF ReadMeta
    <2>2. QED BY <1>1, <1>5, <2>1 DEF ReadMeta, RecTyped
  <1>6. CASE WriteMeta(w) \/ WriteSnapshot(w)
    BY <1>1, <1>6 DEF WriteMeta, WriteSnapshot, RecTyped
  <1>7. CASE FetchPrior(w)
    <2>1. lost' \in BOOLEAN /\ overlap' \in BOOLEAN
      BY <1>7 DEF FetchPrior
    <2>2. DOMAIN mirror' = Writer /\ mirror' = [x \in Writer |-> mirror'[x]]
      BY <1>7 DEF FetchPrior, RecTyped
    <2>3. QED BY <1>1, <1>7, <2>1, <2>2 DEF FetchPrior, RecTyped
  <1>8. CASE BuildBundle(w)
    BY <1>1, <1>8 DEF BuildBundle, RecTyped
  <1>9. CASE SwapBundle(w)
    BY <1>1, <1>9 DEF SwapBundle, RecTyped
  <1>10. CASE ReadManifest(w) \/ WriteManifest(w)
    BY <1>1, <1>10 DEF ReadManifest, WriteManifest, RecTyped
  <1>11. CASE StopWriter(w)
    BY <1>1, <1>11 DEF StopWriter, RecTyped
  <1>12. QED BY <1>2, <1>3, <1>4, <1>5, <1>6, <1>7, <1>8, <1>9, <1>10, <1>11

(* A number that two invocations share stays shared.                       *)
LEMMA NumbersStay ==
    ASSUME RecTyped, Numbered, RecNext
    PROVE  \A w \in Writer : number[w] # 0 => /\ number'[w] = number[w]
                                              /\ SharedNumber(w) => SharedNumber(w)'
  <1>1. \A w \in Writer : number[w] # 0 => number'[w] = number[w]
    <2> SUFFICES ASSUME NEW v \in Writer, number[v] # 0, NEW w \in Writer, ScanInvocations(w)
                 PROVE  number'[v] = number[v]
      BY DEF RecNext, OpenWriter, MakeDir, ReadMeta, WriteMeta, WriteSnapshot, WriteOutput,
         FetchPrior, BuildBundle, SwapBundle, ReadManifest, WriteManifest, StopWriter, localVars
    <2>1. number[w] = 0
      BY StageMoves DEF ScanInvocations, Numbered
    <2>2. QED BY <2>1 DEF ScanInvocations, RecTyped
  <1>2. QED BY <1>1 DEF SharedNumber

LEMMA NumberedStep == RecTyped /\ Numbered /\ RecNext => Numbered'
  <1> SUFFICES ASSUME RecTyped, Numbered, NEW w \in Writer,
                      \/ OpenWriter(w) \/ ScanInvocations(w) \/ MakeDir(w)
                      \/ ReadMeta(w) \/ WriteMeta(w) \/ WriteSnapshot(w) \/ WriteOutput(w)
                      \/ FetchPrior(w) \/ BuildBundle(w) \/ SwapBundle(w)
                      \/ ReadManifest(w) \/ WriteManifest(w) \/ StopWriter(w)
               PROVE  Numbered'
    BY DEF RecNext
  <1> USE DEF diskVars, localVars, noteVars
  <1>1. CASE OpenWriter(w)
    <2>1. stage[w] = "idle" /\ stage'[w] = "opened" /\ \A x \in Writer \ {w} : stage'[x] = stage[x]
      BY <1>1, StageMoves DEF OpenWriter
    <2>2. QED BY <1>1, <2>1 DEF OpenWriter, Numbered
  <1>2. CASE ScanInvocations(w)
    <2>1. stage[w] = "opened" /\ stage'[w] = "scanned" /\ \A x \in Writer \ {w} : stage'[x] = stage[x]
      BY <1>2, StageMoves DEF ScanInvocations
    <2>2. number'[w] # 0 /\ \A x \in Writer \ {w} : number'[x] = number[x]
      BY <1>2, NextNumber DEF ScanInvocations, RecTyped
    <2>3. w \notin dirs
      BY <2>1 DEF Numbered
    <2>4. QED BY <1>2, <2>1, <2>2, <2>3 DEF ScanInvocations, Numbered, RecTyped
  <1>3. CASE MakeDir(w)
    <2>1. stage[w] = "scanned" /\ stage'[w] = "started" /\ \A x \in Writer \ {w} : stage'[x] = stage[x]
      BY <1>3, StageMoves DEF MakeDir
    <2>2. PICK top \in Nat : /\ \A x \in dirs : number[x] <= top
                             /\ top = 0 \/ \E x \in dirs : number[x] = top
      BY DEF Numbered
    <2>3. \E high \in Nat : /\ \A x \in dirs' : number[x] <= high
                            /\ high = 0 \/ \E x \in dirs' : number[x] = high
      <3>1. CASE number[w] >= top
        <4>1. number[w] \in Nat /\ \A x \in dirs' : number[x] <= number[w]
          BY <1>3, <2>2, <3>1 DEF MakeDir, RecTyped
        <4>2. QED BY <1>3, <4>1 DEF MakeDir
      <3>2. CASE number[w] < top
        BY <1>3, <2>2, <3>2 DEF MakeDir, RecTyped
      <3>3. QED BY <2>2, <3>1, <3>2 DEF RecTyped
    <2>4. number' = number /\ snapped' = snapped /\ dirs' = dirs \cup {w}
      BY <1>3 DEF MakeDir
    <2>5. QED BY <2>1, <2>3, <2>4 DEF Numbered
  <1>4. CASE ReadMeta(w) \/ WriteMeta(w)
    <2>1. /\ stage[w] \in {"started", "metaRead"} /\ stage'[w] \in {"metaRead", "metaWritten"}
          /\ \A x \in Writer \ {w} : stage'[x] = stage[x]
      BY <1>4, StageMoves DEF ReadMeta, WriteMeta
    <2>2. UNCHANGED <<number, dirs, snapped>>
      BY <1>4 DEF ReadMeta, WriteMeta
    <2>3. QED BY <2>1, <2>2 DEF Numbered
  <1>5. CASE WriteSnapshot(w)
    <2>1. stage[w] = "metaWritten" /\ stage'[w] = "running" /\ \A x \in Writer \ {w} : stage'[x] = stage[x]
      BY <1>5, StageMoves DEF WriteSnapshot
    <2>2. QED BY <1>5, <2>1 DEF WriteSnapshot, Numbered
  <1>6. CASE \/ WriteOutput(w) \/ FetchPrior(w) \/ BuildBundle(w) \/ SwapBundle(w)
             \/ ReadManifest(w) \/ WriteManifest(w)
    <2>1. /\ stage[w] \notin {"idle", "opened", "stopped"}
          /\ stage'[w] \notin {"idle", "opened", "scanned", "started", "metaRead", "metaWritten"}
          /\ \A x \in Writer \ {w} : stage'[x] = stage[x]
      BY <1>6, StageMoves DEF WriteOutput, FetchPrior, BuildBundle, SwapBundle, ReadManifest, WriteManifest
    <2>2. UNCHANGED <<number, dirs, snapped>>
      BY <1>6 DEF WriteOutput, FetchPrior, BuildBundle, SwapBundle, ReadManifest, WriteManifest
    <2>3. QED BY <2>1, <2>2 DEF Numbered
  <1>7. CASE StopWriter(w)
    BY <1>7 DEF StopWriter, Numbered, RecTyped
  <1>8. QED BY <1>1, <1>2, <1>3, <1>4, <1>5, <1>6, <1>7

LEMMA TitleStep == RecTyped /\ TitleKnown /\ RecNext => TitleKnown' /\ TitleStands
  <1> SUFFICES ASSUME RecTyped, TitleKnown, NEW w \in Writer,
                      \/ OpenWriter(w) \/ ScanInvocations(w) \/ MakeDir(w)
                      \/ ReadMeta(w) \/ WriteMeta(w) \/ WriteSnapshot(w) \/ WriteOutput(w)
                      \/ FetchPrior(w) \/ BuildBundle(w) \/ SwapBundle(w)
                      \/ ReadManifest(w) \/ WriteManifest(w) \/ StopWriter(w)
               PROVE  TitleKnown' /\ TitleStands
    BY DEF RecNext
  <1> USE MissingAssumption DEF diskVars, localVars, noteVars
  <1>1. CASE ReadMeta(w)
    <2>1. stage[w] = "started" /\ stage'[w] = "metaRead" /\ \A x \in Writer \ {w} : stage'[x] = stage[x]
      BY <1>1, StageMoves DEF ReadMeta
    <2>2. /\ title' = title /\ titleRead'[w] = title /\ \A x \in Writer \ {w} : titleRead'[x] = titleRead[x]
          /\ ~retitled' => ~retitled /\ ~(title = Missing /\ \E x \in Writer : stage[x] = "metaRead")
      BY <1>1 DEF ReadMeta, RecTyped
    <2>3. QED BY <2>1, <2>2 DEF TitleKnown, TitleStands
  <1>2. CASE WriteMeta(w)
    <2>1. stage[w] = "metaRead" /\ stage'[w] = "metaWritten" /\ \A x \in Writer \ {w} : stage'[x] = stage[x]
      BY <1>2, StageMoves DEF WriteMeta
    <2>2. /\ title' = (IF titleRead[w] = Missing THEN w ELSE titleRead[w])
          /\ titleRead'[w] = Missing /\ \A x \in Writer \ {w} : titleRead'[x] = titleRead[x]
          /\ title' # Missing /\ retitled' = retitled
      BY <1>2 DEF WriteMeta, RecTyped
    <2>3. QED BY <2>1, <2>2 DEF TitleKnown, TitleStands
  <1>3. CASE StopWriter(w)
    BY <1>3 DEF StopWriter, TitleKnown, TitleStands, RecTyped
  <1>4. CASE \/ OpenWriter(w) \/ ScanInvocations(w) \/ MakeDir(w) \/ WriteSnapshot(w) \/ WriteOutput(w)
             \/ FetchPrior(w) \/ BuildBundle(w) \/ SwapBundle(w) \/ ReadManifest(w) \/ WriteManifest(w)
    <2>1. stage'[w] # "metaRead" /\ \A x \in Writer \ {w} : stage'[x] = stage[x]
      BY <1>4, StageMoves DEF OpenWriter, ScanInvocations, MakeDir, WriteSnapshot, WriteOutput,
         FetchPrior, BuildBundle, SwapBundle, ReadManifest, WriteManifest
    <2>2. UNCHANGED <<title, titleRead, retitled>>
      BY <1>4 DEF OpenWriter, ScanInvocations, MakeDir, WriteSnapshot, WriteOutput,
         FetchPrior, BuildBundle, SwapBundle, ReadManifest, WriteManifest
    <2>3. QED BY <2>1, <2>2 DEF TitleKnown, TitleStands
  <1>5. QED BY <1>1, <1>2, <1>3, <1>4

LEMMA BundleStep ==
    ASSUME RecTyped, Numbered, BundleKept, RecNext, ~overlap', ~lost'
    PROVE  BundleKept'
  <1> SUFFICES ASSUME NEW w \in Writer,
                      \/ OpenWriter(w) \/ ScanInvocations(w) \/ MakeDir(w)
                      \/ ReadMeta(w) \/ WriteMeta(w) \/ WriteSnapshot(w) \/ WriteOutput(w)
                      \/ FetchPrior(w) \/ BuildBundle(w) \/ SwapBundle(w)
                      \/ ReadManifest(w) \/ WriteManifest(w) \/ StopWriter(w)
               PROVE  BundleKept'
    BY DEF RecNext
  <1> USE DEF diskVars, localVars, noteVars
  <1>0. /\ \A v \in Writer : number[v] # 0 => number'[v] = number[v] /\ (SharedNumber(v) => SharedNumber(v)')
        /\ \A v \in Writer : stage[v] \in InBundle \cup {"done"} => number[v] # 0
    BY NumbersStay DEF Numbered, InBundle
  <1>1. CASE \/ OpenWriter(w) \/ ScanInvocations(w) \/ MakeDir(w) \/ ReadMeta(w) \/ WriteMeta(w)
             \/ WriteSnapshot(w) \/ WriteOutput(w)
    <2>1. /\ stage'[w] \notin InBundle /\ (stage'[w] = "done" => w \notin snapped')
          /\ \A x \in Writer \ {w} : stage'[x] = stage[x]
          /\ snapped' \subseteq snapped \cup {w}
      <3>1. CASE WriteOutput(w)
        BY <1>1, <3>1, StageMoves DEF WriteOutput, InBundle, Numbered
      <3>2. CASE ~WriteOutput(w)
        BY <1>1, <3>2, StageMoves DEF OpenWriter, ScanInvocations, MakeDir, ReadMeta, WriteMeta, WriteSnapshot, InBundle
      <3>3. QED BY <3>1, <3>2
    <2>2. UNCHANGED <<mirror, listed, fresh, bundle, manifest>>
      BY <1>1 DEF OpenWriter, ScanInvocations, MakeDir, ReadMeta, WriteMeta, WriteSnapshot, WriteOutput
    <2>3. \A x \in Writer : stage[x] = "fetched" /\ x # w => Stamps(x, mirror[x])'
      BY <1>0, <2>2 DEF BundleKept, Stamps, InBundle
    <2>4. \A x \in Writer : stage[x] = "built" /\ x # w => \A t \in fresh' : Stamps(x, t)'
      BY <1>0, <2>2 DEF BundleKept, Stamps, InBundle
    <2>5. QED BY <1>0, <2>1, <2>2, <2>3, <2>4 DEF BundleKept, InBundle, RecTyped
  <1>2. CASE FetchPrior(w)
    <2>1. stage[w] = "output" /\ stage'[w] = "fetched" /\ \A x \in Writer \ {w} : stage'[x] = stage[x]
      BY <1>2, StageMoves DEF FetchPrior
    <2>2. mirror'[w] = Stamped(w, bundle) /\ \A x \in Writer : stage[x] \notin InBundle
      BY <1>2 DEF FetchPrior, RecTyped
    <2>3. UNCHANGED <<number, snapped, listed, fresh, bundle, manifest>>
      BY <1>2 DEF FetchPrior
    <2>4. Stamps(w, mirror[w])'
      BY <2>2, <2>3 DEF Stamps, Stamped
    <2>5. QED BY <2>1, <2>2, <2>3, <2>4 DEF BundleKept, InBundle, SharedNumber, RecTyped
  <1>3. CASE BuildBundle(w)
    <2>1. stage[w] = "fetched" /\ stage'[w] = "built" /\ \A x \in Writer \ {w} : stage'[x] = stage[x]
      BY <1>3, StageMoves DEF BuildBundle
    <2>2. fresh' = {mirror[w]} /\ UNCHANGED <<number, snapped, listed, bundle, manifest>>
      BY <1>3 DEF BuildBundle
    <2>3. \A t \in fresh' : Stamps(w, t)'
      BY <2>1, <2>2 DEF BundleKept, Stamps
    <2>4. \A x \in Writer \ {w} : stage[x] \notin InBundle
      BY <2>1 DEF BundleKept, InBundle
    <2>5. QED BY <2>1, <2>2, <2>3, <2>4 DEF BundleKept, InBundle, SharedNumber, RecTyped
  <1>4. CASE SwapBundle(w)
    <2>1. stage[w] = "built" /\ stage'[w] \in {"swapped", "stopped"} /\ \A x \in Writer \ {w} : stage'[x] = stage[x]
      BY <1>4, StageMoves DEF SwapBundle
    <2>2. /\ \/ stage'[w] = "stopped" /\ bundle' = bundle
             \/ stage'[w] = "swapped" /\ Stamps(w, bundle')
          /\ UNCHANGED <<number, snapped, listed, manifest>>
      BY <1>4, StageMoves DEF SwapBundle, BundleKept
    <2>3. \A x \in Writer \ {w} : stage[x] \notin InBundle
      BY <2>1 DEF BundleKept, InBundle
    <2>4. CASE stage'[w] = "stopped"
      BY <2>1, <2>2, <2>3, <2>4 DEF BundleKept, InBundle, SharedNumber, RecTyped
    <2>5. CASE stage'[w] = "swapped"
      <3>1. Stamps(w, bundle')
        BY <2>2, <2>5
      <3>2. ASSUME NEW x \in snapped, stage'[x] = "done"
            PROVE  SharedNumber(x)' \/ (number[x] \in DOMAIN bundle' /\ bundle'[number[x]] = x)
        <4>1. x \in Writer /\ x # w /\ stage[x] = "done"
          BY <2>1, <2>5, <3>2 DEF RecTyped
        <4>2. CASE number[x] = number[w]
          BY <2>2, <4>1, <4>2 DEF SharedNumber
        <4>3. CASE number[x] # number[w]
          BY <2>2, <3>1, <4>1, <4>3 DEF BundleKept, Stamps, SharedNumber
        <4>4. QED BY <4>2, <4>3
      <3>3. QED BY <2>1, <2>2, <2>3, <2>5, <3>1, <3>2 DEF BundleKept, InBundle, SharedNumber, Stamps, RecTyped
    <2>6. QED BY <2>2, <2>4, <2>5
  <1>5. CASE ReadManifest(w) \/ WriteManifest(w)
    <2>1. /\ \/ stage[w] = "swapped" /\ stage'[w] = "manifestRead" /\ listed'[w] = manifest /\ manifest' = manifest
             \/ stage[w] = "manifestRead" /\ stage'[w] = "done" /\ manifest' = Stamped(w, listed[w])
          /\ \A x \in Writer \ {w} : stage'[x] = stage[x]
      <3>1. CASE ReadManifest(w)
        BY <3>1, StageMoves DEF ReadManifest, RecTyped
      <3>2. CASE WriteManifest(w)
        BY <3>2, StageMoves DEF WriteManifest
      <3>3. QED BY <1>5, <3>1, <3>2
    <2>2. UNCHANGED <<number, snapped, fresh, bundle>>
      BY <1>5 DEF ReadManifest, WriteManifest
    <2>3. \A x \in Writer \ {w} : stage[x] \notin InBundle
      BY <2>1 DEF BundleKept, InBundle
    <2>4. DOMAIN manifest' \subseteq DOMAIN bundle
      BY <2>1 DEF BundleKept, Stamped
    <2>5. QED BY <2>1, <2>2, <2>3, <2>4 DEF BundleKept, InBundle, SharedNumber, RecTyped
  <1>6. CASE StopWriter(w)
    <2>1. stage'[w] = "stopped" /\ \A x \in Writer \ {w} : stage'[x] = stage[x]
      BY <1>6 DEF StopWriter, RecTyped
    <2>2. /\ UNCHANGED <<number, snapped, fresh, bundle, manifest>>
          /\ \A x \in Writer \ {w} : mirror'[x] = mirror[x] /\ listed'[x] = listed[x]
      BY <1>6 DEF StopWriter, RecTyped
    <2>3. QED BY <2>1, <2>2 DEF BundleKept, InBundle, SharedNumber, Stamps, RecTyped
  <1>7. QED BY <1>1, <1>2, <1>3, <1>4, <1>5, <1>6

LEMMA RecStep == RecInv /\ [RecNext]_recVars => RecInv' /\ (TitleStands \/ UNCHANGED recVars)
  <1>1. CASE RecInv /\ UNCHANGED recVars
    BY <1>1 DEF recVars, diskVars, localVars, noteVars, RecInv, RecTyped, Numbered, TitleKnown, BundleKept,
       Stamps, SharedNumber
  <1>2. CASE RecInv /\ RecNext
    <2>1. RecTyped' /\ Numbered' /\ TitleKnown' /\ TitleStands
      BY <1>2, RecTypedStep, NumberedStep, TitleStep DEF RecInv
    <2>2. ~overlap' /\ ~lost' => ~overlap /\ ~lost
      BY <1>2 DEF RecNext, OpenWriter, ScanInvocations, MakeDir, ReadMeta, WriteMeta, WriteSnapshot, WriteOutput,
         FetchPrior, BuildBundle, SwapBundle, ReadManifest, WriteManifest, StopWriter, noteVars
    <2>3. ~overlap' /\ ~lost' => BundleKept'
      BY <1>2, <2>2, BundleStep DEF RecInv
    <2>4. QED BY <2>1, <2>3 DEF RecInv
  <1>3. QED BY <1>1, <1>2

(* A recording can be replayed: the commit of a finished invocation is in  *)
(* the bundle, the bundle has every revision that the manifest lists and   *)
(* the first title stays; unless updates overlapped, a fetch failed, two   *)
(* invocations share a number, or two writers found no pr.json             *)
(* (start_invocation, write_pr_meta, update_bundle of recording.py).       *)
THEOREM RecordingKept == Spec => RecordingStands
  <1>1. Init => RecInv
    BY RecStart DEF Init
  <1>2. [Next]_vars => [RecNext]_recVars
    BY DEF Next, vars
  <1>3. RecInv => SnapshotInBundle /\ ManifestInBundle
    BY DEF RecInv, BundleKept, SnapshotInBundle, ManifestInBundle
  <1>4. RecInv /\ [RecNext]_recVars => [TitleStands]_recVars
    BY RecStep
  <1>5. QED BY <1>1, <1>2, <1>3, <1>4, RecStep, PTL DEF Spec, RecordingStands

------------------------------------------------------------------------------
(* The attempts of a benchmark (BenchAttempts).  Attempts only share the   *)
(* bench process, so what is true of each is kept by its own steps; the    *)
(* parts are the agent, the bench with the disk, and the two rows.         *)

JudgeRow == [result : {"none", "completed", "error"}, status : {"running", "completed", "error"},
             link : Attempt \cup {NoRow}, stored : BOOLEAN]

BenchTyped ==
    /\ tier \in {"unit", "integration"}
    /\ place \in [Attempt -> {"idle"} \cup Running \cup Over]
    /\ agent \in [Attempt -> {"none", "started", "rowed", "up", "closing", "gone"}]
    /\ exit \in [Attempt -> {"none", "ok", "bad", "killed"}]
    /\ traces \in [DOMAIN traces -> [status : {"running", "completed", "failed"}, link : SUBSET Attempt]]
    /\ verdicts \in [DOMAIN verdicts -> JudgeRow]
    /\ DOMAIN traces \subseteq Attempt /\ DOMAIN verdicts \subseteq Attempt
    /\ runJson \in [Attempt -> Attempt \cup {NoRow}]
    /\ checkouts \subseteq Attempt /\ temps \subseteq Attempt /\ unwritten \subseteq Attempt
    /\ scoring \in [Attempt -> {"none", "scored", "unjudged", "error"}]

(* How far the agent of an attempt is, and what it has written by then: its *)
(* row before run.json, both before it ends well, and a row that says how   *)
(* it ended unless the database was locked.                                *)
AgentTold(a) ==
    /\ agent[a] \in {"none", "started"} => a \notin DOMAIN traces /\ runJson[a] = NoRow
    /\ agent[a] \in {"rowed", "up", "closing"} => a \in DOMAIN traces
    /\ agent[a] \in {"up", "closing"} => runJson[a] = a
    /\ runJson[a] \in {a, NoRow} /\ (runJson[a] = a => a \in DOMAIN traces)
    /\ agent[a] \in {"none", "started", "rowed", "up"} <=> exit[a] = "none"
    /\ exit[a] = "ok" => runJson[a] = a /\ (a \notin unwritten => traces[a].status = "completed")
    /\ exit[a] = "bad" /\ runJson[a] = a /\ a \notin unwritten => traces[a].status = "failed"

\* A judge that has ended, and a row that says how.
JudgeTold(a) ==
    verdicts[a].result # "none" /\ (verdicts[a].stored => verdicts[a].status = verdicts[a].result)

(* Where the bench is with an attempt, and what its agent, its judge and    *)
(* the disk look like there.                                               *)
BenchTold(a) ==
    /\ place[a] \in {"idle", "prepared"} => agent[a] = "none"
    /\ place[a] \in {"judging", "linking"} => agent[a] = "gone" /\ exit[a] = "ok"
    /\ place[a] \in {"done", "raised"} => agent[a] \in {"gone", "none"}
    /\ place[a] = "linking" => a \in DOMAIN verdicts /\ JudgeTold(a)
    /\ place[a] = "done" /\ tier = "unit" /\ runJson[a] = a /\ a \notin unwritten =>
          traces[a].status # "running"
    /\ tier = "unit" /\ place[a] \in Running => a \in checkouts
    /\ tier = "integration" => a \notin checkouts
    /\ place[a] \in {"idle", "prepared", "done", "raised"} => a \notin temps
    /\ place[a] = "done" /\ exit[a] = "ok" => a \notin checkouts

\* A judge is linked to the row of its attempt, and a row to the judge of its own.
PairTold(a) ==
    /\ a \in DOMAIN verdicts => verdicts[a].link = a
    /\ a \in DOMAIN traces => traces[a].link \subseteq {a}
    /\ a \in DOMAIN traces /\ a \in traces[a].link => a \in DOMAIN verdicts /\ JudgeTold(a)
    /\ scoring[a] = "scored" => /\ place[a] = "done" /\ a \in DOMAIN traces
                                /\ a \notin unwritten => traces[a].link = {a}

BenchInv == BenchTyped /\ \A a \in Attempt : AgentTold(a) /\ BenchTold(a) /\ PairTold(a)

\* An action of another attempt.
SameAttempt(a) ==
    /\ place'[a] = place[a] /\ agent'[a] = agent[a] /\ exit'[a] = exit[a]
    /\ runJson'[a] = runJson[a] /\ scoring'[a] = scoring[a] /\ tier' = tier
    /\ (a \in unwritten' <=> a \in unwritten)
    /\ (a \in checkouts' <=> a \in checkouts) /\ (a \in temps' <=> a \in temps)
    /\ (a \in DOMAIN traces' <=> a \in DOMAIN traces)
    /\ a \in DOMAIN traces => traces'[a] = traces[a]
    /\ (a \in DOMAIN verdicts' <=> a \in DOMAIN verdicts)
    /\ a \in DOMAIN verdicts => verdicts'[a] = verdicts[a]

Told(a) == AgentTold(a) /\ BenchTold(a) /\ PairTold(a)

LEMMA OthersTold ==
    ASSUME BenchInv, NEW a \in Attempt, \A b \in Attempt \ {a} : SameAttempt(b), BenchTyped', Told(a)'
    PROVE  BenchInv'
  <1>1. ASSUME NEW b \in Attempt \ {a} PROVE Told(b)'
    <2>1. Told(b) /\ SameAttempt(b)
      BY DEF BenchInv, Told
    <2>2. QED BY <2>1 DEF Told, AgentTold, BenchTold, PairTold, JudgeTold, SameAttempt
  <1>2. QED BY <1>1 DEF BenchInv, Told


LEMMA BenchStart == BenchInit => BenchInv
  <1> SUFFICES ASSUME BenchInit PROVE BenchInv
    OBVIOUS
  <1>0. DOMAIN traces = {} /\ DOMAIN verdicts = {}
    BY EmptyTable DEF BenchInit
  <1>1. BenchTyped
    BY <1>0, EmptyTable DEF BenchInit, BenchTyped, Running, Over
  <1>2. \A a \in Attempt : AgentTold(a) /\ BenchTold(a) /\ PairTold(a)
    BY <1>0, BenchAssumption DEF BenchInit, AgentTold, BenchTold, PairTold, Running
  <1>3. QED BY <1>1, <1>2 DEF BenchInv

LEMMA MoveOn ==
    ASSUME BenchTyped, NEW a \in Attempt, NEW there, Goes(a, there)
    PROVE  place'[a] = there /\ \A b \in Attempt \ {a} : place'[b] = place[b]
  BY DEF BenchTyped, Goes

LEMMA PrepareTold == 
    ASSUME BenchInv, NEW a \in Attempt, Prepare(a) PROVE BenchInv'
  <1> USE DEF BenchInv
  <1>1. BenchTyped'
    BY DEF Prepare, BenchTyped, Goes, Running, Over
  <1>2. \A b \in Attempt \ {a} : SameAttempt(b)
    BY DEF Prepare, SameAttempt, Goes, BenchTyped
  <1>3. Told(a)'
    BY BenchAssumption DEF Prepare, Goes, BenchTyped, Told, AgentTold, BenchTold, PairTold, JudgeTold, Running
  <1>4. QED BY <1>1, <1>2, <1>3, OthersTold


LEMMA SpawnTold ==
    ASSUME BenchInv, NEW a \in Attempt, Spawn(a) PROVE BenchInv'
  <1> USE DEF BenchInv
  <1>1. BenchTyped'
    BY DEF Spawn, BenchTyped, Goes, Running, Over
  <1>2. \A b \in Attempt \ {a} : SameAttempt(b)
    BY DEF Spawn, SameAttempt, Goes, BenchTyped
  <1>3. Told(a)'
    BY DEF Spawn, Goes, BenchTyped, Told, AgentTold, BenchTold, PairTold, JudgeTold, Running
  <1>4. QED BY <1>1, <1>2, <1>3, OthersTold

LEMMA ReturnUnitTold ==
    ASSUME BenchInv, NEW a \in Attempt, NEW written \in BOOLEAN, ReturnUnit(a, written) PROVE BenchInv'
  <1> USE DEF BenchInv
  <1>1. BenchTyped'
    BY BenchAssumption DEF ReturnUnit, BenchTyped, Goes, Running, Over, Leaves, ClosedIfOrphaned
  <1>2. \A b \in Attempt \ {a} : SameAttempt(b)
    BY BenchAssumption DEF ReturnUnit, SameAttempt, Goes, BenchTyped, Leaves, ClosedIfOrphaned, AgentTold
  <1>3. Told(a)'
    BY BenchAssumption DEF ReturnUnit, Goes, BenchTyped, Told, AgentTold, BenchTold, PairTold, JudgeTold, Running, Leaves, ClosedIfOrphaned
  <1>4. QED BY <1>1, <1>2, <1>3, OthersTold

LEMMA ReturnScenarioTold ==
    ASSUME BenchInv, NEW a \in Attempt, ReturnScenario(a) PROVE BenchInv'
  <1> USE DEF BenchInv
  <1>1. BenchTyped'
    BY DEF ReturnScenario, BenchTyped, Goes, Running, Over, Leaves
  <1>2. \A b \in Attempt \ {a} : SameAttempt(b)
    BY DEF ReturnScenario, SameAttempt, Goes, BenchTyped, Leaves
  <1>3. Told(a)'
    BY DEF ReturnScenario, Goes, BenchTyped, Told, AgentTold, BenchTold, PairTold, JudgeTold, Running, Leaves
  <1>4. QED BY <1>1, <1>2, <1>3, OthersTold

LEMMA TimeoutUnitTold ==
    ASSUME BenchInv, NEW a \in Attempt, TimeoutUnit(a) PROVE BenchInv'
  <1> USE DEF BenchInv
  <1>1. BenchTyped'
    BY DEF TimeoutUnit, BenchTyped, Goes, Running, Over, Raises
  <1>2. \A b \in Attempt \ {a} : SameAttempt(b)
    BY DEF TimeoutUnit, SameAttempt, Goes, BenchTyped, Raises
  <1>3. Told(a)'
    BY DEF TimeoutUnit, Goes, BenchTyped, Told, AgentTold, BenchTold, PairTold, JudgeTold, Running, Raises
  <1>4. QED BY <1>1, <1>2, <1>3, OthersTold

LEMMA TimeoutScenarioTold ==
    ASSUME BenchInv, NEW a \in Attempt, TimeoutScenario(a) PROVE BenchInv'
  <1> USE DEF BenchInv
  <1>1. BenchTyped'
    BY DEF TimeoutScenario, BenchTyped, Goes, Running, Over
  <1>2. \A b \in Attempt \ {a} : SameAttempt(b)
    BY DEF TimeoutScenario, SameAttempt, Goes, BenchTyped
  <1>3. Told(a)'
    BY DEF TimeoutScenario, Goes, BenchTyped, Told, AgentTold, BenchTold, PairTold, JudgeTold, Running
  <1>4. QED BY <1>1, <1>2, <1>3, OthersTold

LEMMA JudgeFailsEarlyTold ==
    ASSUME BenchInv, NEW a \in Attempt, JudgeFailsEarly(a) PROVE BenchInv'
  <1> USE DEF BenchInv
  <1>1. BenchTyped'
    BY DEF JudgeFailsEarly, BenchTyped, Goes, Running, Over, Leaves
  <1>2. \A b \in Attempt \ {a} : SameAttempt(b)
    BY DEF JudgeFailsEarly, SameAttempt, Goes, BenchTyped, Leaves
  <1>3. Told(a)'
    BY DEF JudgeFailsEarly, Goes, BenchTyped, Told, AgentTold, BenchTold, PairTold, JudgeTold, Running, Leaves
  <1>4. QED BY <1>1, <1>2, <1>3, OthersTold

LEMMA StartJudgeTold ==
    ASSUME BenchInv, NEW a \in Attempt, NEW stored \in BOOLEAN, StartJudge(a, stored) PROVE BenchInv'
  <1> USE DEF BenchInv
  <1>0. /\ a \notin DOMAIN verdicts /\ runJson[a] = a
        /\ verdicts' = [x \in DOMAIN verdicts \cup {a} |->
              IF x = a THEN [result |-> "none", status |-> "running", link |-> a, stored |-> stored]
              ELSE verdicts[x]]
    <2>1. runJson[a] = a /\ a \notin DOMAIN verdicts
      BY DEF StartJudge, BenchTold, AgentTold
    <2>2. QED BY <2>1 DEF StartJudge, LinkOf
  <1>1. BenchTyped'
    <2>1. verdicts' \in [DOMAIN verdicts' -> JudgeRow] /\ DOMAIN verdicts' \subseteq Attempt
      BY <1>0 DEF BenchTyped, JudgeRow
    <2>2. QED BY <2>1 DEF StartJudge, BenchTyped
  <1>2. \A b \in Attempt \ {a} : SameAttempt(b)
    BY <1>0 DEF StartJudge, SameAttempt
  <1>3. Told(a)'
    BY <1>0 DEF StartJudge, Told, AgentTold, BenchTold, PairTold, JudgeTold
  <1>4. QED BY <1>1, <1>2, <1>3, OthersTold

LEMMA EndJudgeTold ==
    ASSUME BenchInv, NEW a \in Attempt, NEW outcome \in {"completed", "error"}, NEW written \in BOOLEAN,
           EndJudge(a, outcome, written)
    PROVE  BenchInv'
  <1> USE DEF BenchInv
  <1>0. PICK entry \in JudgeRow :
            /\ a \in DOMAIN verdicts /\ verdicts' = [verdicts EXCEPT ![a] = entry]
            /\ entry.result = outcome /\ entry.link = verdicts[a].link
            /\ entry.stored => entry.status = entry.result
    <2>1. a \in DOMAIN verdicts /\ verdicts[a] \in JudgeRow
      BY DEF EndJudge, BenchTyped
    <2> DEFINE entry == [result |-> outcome,
                         status |-> IF written THEN outcome ELSE verdicts[a].status,
                         link |-> verdicts[a].link, stored |-> verdicts[a].stored /\ written]
    <2>2. (verdicts[a].stored /\ written) \in BOOLEAN
      OBVIOUS
    <2>3. entry \in JudgeRow
      BY <2>1, <2>2 DEF JudgeRow
    <2>4. verdicts' = [verdicts EXCEPT ![a] = entry]
      BY DEF EndJudge
    <2>5. QED BY <2>1, <2>3, <2>4
  <1>1. BenchTyped'
    BY <1>0 DEF EndJudge, BenchTyped, Goes, Running
  <1>2. \A b \in Attempt \ {a} : SameAttempt(b)
    BY <1>0 DEF EndJudge, SameAttempt, Goes, BenchTyped
  <1>3. Told(a)'
    BY <1>0 DEF EndJudge, Goes, BenchTyped, Told, AgentTold, BenchTold, PairTold, JudgeTold, Running
  <1>4. QED BY <1>1, <1>2, <1>3, OthersTold

LEMMA LinkBackTold ==
    ASSUME BenchInv, NEW a \in Attempt, NEW written \in BOOLEAN, LinkBack(a, written) PROVE BenchInv'
  <1> USE DEF BenchInv
  <1>0. a \in DOMAIN verdicts /\ verdicts[a].link = a /\ a \in DOMAIN traces /\ traces[a].link \subseteq {a}
    BY DEF LinkBack, AgentTold, BenchTold, PairTold, JudgeTold
  <1>a. /\ traces' = traces \/ traces' = [traces EXCEPT ![a].link = {a}]
        /\ a \notin unwritten' => traces'[a].link = {a}
    BY <1>0 DEF LinkBack, Backfilled, BenchTyped
  <1>1. BenchTyped'
    <2>1. /\ traces' \in [DOMAIN traces' -> [status : {"running", "completed", "failed"}, link : SUBSET Attempt]]
          /\ DOMAIN traces' \subseteq Attempt
      <3>1. CASE traces' = traces
        BY <3>1 DEF BenchTyped
      <3>2. CASE traces' = [traces EXCEPT ![a].link = {a}]
        <4>1. DOMAIN traces' = DOMAIN traces /\ {a} \in SUBSET Attempt
          BY <3>2
        <4>2. ASSUME NEW x \in DOMAIN traces
              PROVE  traces'[x] \in [status : {"running", "completed", "failed"}, link : SUBSET Attempt]
          <5>1. traces[x] \in [status : {"running", "completed", "failed"}, link : SUBSET Attempt]
            BY DEF BenchTyped
          <5>2. QED BY <3>2, <4>1, <5>1
        <4>3. traces' = [x \in DOMAIN traces |-> traces'[x]]
          BY <3>2
        <4>4. QED BY <4>1, <4>2, <4>3 DEF BenchTyped
      <3>3. QED BY <1>a, <3>1, <3>2
    <2>2. QED BY <2>1 DEF LinkBack, BenchTyped, Goes, Over, Leaves
  <1>2. \A b \in Attempt \ {a} : SameAttempt(b)
    BY <1>a DEF LinkBack, SameAttempt, Goes, BenchTyped, Leaves
  <1>3. Told(a)'
    <2>1. JudgeTold(a)' /\ a \in DOMAIN verdicts' /\ verdicts'[a].link = a
      BY <1>0 DEF LinkBack, BenchTold, JudgeTold
    <2>2. AgentTold(a)' /\ BenchTold(a)'
      BY <1>0, <1>a DEF LinkBack, Goes, BenchTyped, AgentTold, BenchTold, Running, Leaves
    <2>3. PairTold(a)'
      BY <1>0, <1>a, <2>1 DEF LinkBack, Goes, BenchTyped, PairTold, Leaves
    <2>4. QED BY <2>2, <2>3 DEF Told
  <1>4. QED BY <1>1, <1>2, <1>3, OthersTold

LEMMA WriteRowTold ==
    ASSUME BenchInv, NEW a \in Attempt, WriteRow(a) PROVE BenchInv'
  <1> USE DEF BenchInv
  <1>0. /\ a \notin DOMAIN traces
        /\ traces' = [x \in DOMAIN traces \cup {a} |->
              IF x = a THEN [status |-> "running", link |-> {}] ELSE traces[x]]
    <2>1. a \notin DOMAIN traces
      BY DEF WriteRow, AgentTold
    <2>2. QED BY <2>1 DEF WriteRow, RowOf
  <1>1. BenchTyped'
    <2>1. /\ traces' \in [DOMAIN traces' -> [status : {"running", "completed", "failed"}, link : SUBSET Attempt]]
          /\ DOMAIN traces' \subseteq Attempt
      BY <1>0 DEF BenchTyped
    <2>2. QED BY <2>1 DEF WriteRow, BenchTyped
  <1>2. \A b \in Attempt \ {a} : SameAttempt(b)
    BY <1>0 DEF WriteRow, SameAttempt, BenchTyped
  <1>3. Told(a)'
    BY <1>0, BenchAssumption DEF WriteRow, BenchTyped, Told, AgentTold, BenchTold, PairTold, JudgeTold
  <1>4. QED BY <1>1, <1>2, <1>3, OthersTold

LEMMA WriteRunJsonTold ==
    ASSUME BenchInv, NEW a \in Attempt, WriteRunJson(a) PROVE BenchInv'
  <1> USE DEF BenchInv
  <1>1. BenchTyped'
    BY BenchAssumption DEF WriteRunJson, BenchTyped, Goes, Running, Over, RowOf
  <1>2. \A b \in Attempt \ {a} : SameAttempt(b)
    BY BenchAssumption DEF WriteRunJson, SameAttempt, Goes, BenchTyped, RowOf
  <1>3. Told(a)'
    BY BenchAssumption DEF WriteRunJson, Goes, BenchTyped, Told, AgentTold, BenchTold, PairTold, JudgeTold, Running, RowOf
  <1>4. QED BY <1>1, <1>2, <1>3, OthersTold

LEMMA FinishTold ==
    ASSUME BenchInv, NEW a \in Attempt, NEW ok \in BOOLEAN, NEW written \in BOOLEAN, Finish(a, ok, written)
    PROVE  BenchInv'
  <1> USE DEF BenchInv
  <1>0. a \in DOMAIN traces /\ runJson[a] = a
    BY DEF Finish, AgentTold
  <1>a. PICK status \in {"completed", "failed"} :
            /\ status = (IF ok THEN "completed" ELSE "failed")
            /\ traces' = IF written THEN [traces EXCEPT ![a].status = status] ELSE traces
    BY DEF Finish, RowOf
  <1>1. BenchTyped'
    <2>1. traces' \in [DOMAIN traces' -> [status : {"running", "completed", "failed"}, link : SUBSET Attempt]]
      <3>1. CASE written
        <4>1. traces' = [traces EXCEPT ![a].status = status]
          BY <1>a, <3>1
        <4>2. QED BY <1>0, <4>1 DEF BenchTyped
      <3>2. CASE ~written
        <4>1. traces' = traces
          BY <1>a, <3>2
        <4>2. QED BY <4>1 DEF BenchTyped
      <3>3. QED BY <3>1, <3>2
    <2>2. DOMAIN traces' = DOMAIN traces
      BY <1>a DEF BenchTyped
    <2>3. QED BY <2>1, <2>2 DEF Finish, BenchTyped
  <1>2. \A b \in Attempt \ {a} : SameAttempt(b)
    BY <1>a DEF Finish, SameAttempt, BenchTyped
  <1>3. Told(a)'
    BY <1>0, <1>a, BenchAssumption DEF Finish, BenchTyped, Told, AgentTold, BenchTold, PairTold, JudgeTold, Running
  <1>4. QED BY <1>1, <1>2, <1>3, OthersTold

LEMMA AgentExitsTold ==
    ASSUME BenchInv, NEW a \in Attempt, AgentExits(a) PROVE BenchInv'
  <1> USE DEF BenchInv
  <1>1. BenchTyped'
    BY DEF AgentExits, BenchTyped, Goes, Running, Over
  <1>2. \A b \in Attempt \ {a} : SameAttempt(b)
    BY DEF AgentExits, SameAttempt, Goes, BenchTyped
  <1>3. Told(a)'
    BY DEF AgentExits, Goes, BenchTyped, Told, AgentTold, BenchTold, PairTold, JudgeTold, Running
  <1>4. QED BY <1>1, <1>2, <1>3, OthersTold

LEMMA AgentDiesTold ==
    ASSUME BenchInv, NEW a \in Attempt, AgentDies(a) PROVE BenchInv'
  <1> USE DEF BenchInv
  <1>1. BenchTyped'
    BY DEF AgentDies, BenchTyped, Goes, Running, Over
  <1>2. \A b \in Attempt \ {a} : SameAttempt(b)
    BY DEF AgentDies, SameAttempt, Goes, BenchTyped
  <1>3. Told(a)'
    BY DEF AgentDies, Goes, BenchTyped, Told, AgentTold, BenchTold, PairTold, JudgeTold, Running
  <1>4. QED BY <1>1, <1>2, <1>3, OthersTold

LEMMA BenchStep == BenchInv /\ [BenchNext]_benchVars => BenchInv'
  <1> SUFFICES ASSUME BenchInv, [BenchNext]_benchVars PROVE BenchInv'
    OBVIOUS
  <1>1. CASE UNCHANGED benchVars
    BY <1>1 DEF BenchInv, benchVars, BenchTyped, AgentTold, BenchTold, PairTold, JudgeTold
  <1>2. ASSUME NEW a \in Attempt, BenchSteps(a) PROVE BenchInv'
    BY <1>2, PrepareTold, SpawnTold, ReturnScenarioTold, JudgeFailsEarlyTold, ReturnUnitTold, StartJudgeTold,
       LinkBackTold, EndJudgeTold DEF BenchSteps
  <1>3. ASSUME NEW a \in Attempt, AgentSteps(a) \/ TimeoutUnit(a) \/ TimeoutScenario(a) PROVE BenchInv'
    BY <1>3, WriteRowTold, WriteRunJsonTold, AgentExitsTold, AgentDiesTold, FinishTold, TimeoutUnitTold,
       TimeoutScenarioTold DEF AgentSteps
  <1>4. ASSUME NEW t \in Task, Stamp(t) PROVE BenchInv'
    BY <1>4 DEF Stamp, BenchInv, BenchTyped, AgentTold, BenchTold, PairTold, JudgeTold
  <1>5. ASSUME NEW t \in Task, BenchDies(t) PROVE BenchInv'
    <2>1. /\ \A a \in Attempt : place'[a] = place[a] \/ (place'[a] = "lost" /\ place[a] \notin Over)
          /\ place' \in [Attempt -> {"idle"} \cup Running \cup Over]
          /\ UNCHANGED <<tier, agent, exit, unwritten, traces, verdicts, runJson, checkouts, temps, scoring>>
      BY <1>5 DEF BenchDies, BenchInv, BenchTyped, Over
    <2>2. QED BY <2>1 DEF BenchInv, BenchTyped, AgentTold, BenchTold, PairTold, JudgeTold, Running, Over
  <1>6. QED BY <1>1, <1>2, <1>3, <1>4, <1>5 DEF BenchNext

(* An attempt is judged, recorded and cleared away as the run it made: the *)
(* rows of a run and of its judge point at each other, the run's row says  *)
(* how the agent ended, and the disk keeps only what a failure leaves      *)
(* (run_unit_fixture, runner/run.py, judge.py's two links).                *)
THEOREM AttemptsTold == Spec => []AttemptsAreTold
  <1>1. Init => BenchInv
    BY BenchStart DEF Init
  <1>2. [Next]_vars => [BenchNext]_benchVars
    BY DEF Next, vars
  <1>3. BenchInv => AttemptsAreTold
    <2> SUFFICES ASSUME BenchInv PROVE AttemptsAreTold
      OBVIOUS
    <2>1. RowsArePaired
      BY DEF BenchInv, BenchTyped, PairTold, JudgeTold, RowsArePaired, RowOf
    <2>2. RowSaysExit
      BY DEF BenchInv, BenchTyped, AgentTold, BenchTold, RowSaysExit, RowOf
    <2>3. DiskIsTidy
      BY DEF BenchInv, BenchTold, DiskIsTidy
    <2>4. QED BY <2>1, <2>2, <2>3 DEF AttemptsAreTold
  <1>4. QED BY <1>1, <1>2, <1>3, BenchStep, PTL DEF Spec

------------------------------------------------------------------------------
(***************************************************************************)
(* The comment threads.  In a table of comments every parent is older than *)
(* its reply, so the walk up ends at a root and the walk down from there   *)
(* meets the comments whose walk up ends at it, and no other.              *)
(***************************************************************************)
Tree(table) ==
    /\ table \in [DOMAIN table -> Nat]
    /\ DOMAIN table \subseteq 1 .. MaxId
    /\ \A id \in DOMAIN table : table[id] < id

\* What the walks up from the comments with an id of at most n arrive at.
Climbs(f, n, table) ==
    /\ DOMAIN f = {c \in DOMAIN table : c <= n}
    /\ \A c \in DOMAIN f : f[c] = IF table[c] \in DOMAIN table THEN f[table[c]] ELSE c

Climbable(n, table) == \E f : Climbs(f, n, table)

LEMMA ClimbExists ==
    ASSUME NEW table, Tree(table), NEW n \in Nat
    PROVE  Climbable(n, table)
  <1> DEFINE D == DOMAIN table
             T == {k \in Nat : Climbable(k, table)}
  <1>0. D \subseteq Nat /\ (\A c \in D : c # 0) /\ \A c \in D : table[c] \in Nat /\ table[c] < c
    BY ThreadsAssumption DEF Tree
  <1>1. 0 \in T
    <2> DEFINE f == [c \in {} |-> 0]
    <2>1. {c \in D : c <= 0} = {}
      BY <1>0
    <2>2. DOMAIN f = {}
      OBVIOUS
    <2> HIDE DEF f
    <2>3. Climbs(f, 0, table)
      BY <2>1, <2>2 DEF Climbs
    <2>4. QED BY <2>3 DEF Climbable
  <1>2. ASSUME NEW k \in Nat, k \in T PROVE k + 1 \in T
    <2>1. PICK f : Climbs(f, k, table)
      BY <1>2 DEF Climbable
    <2> DEFINE E == {c \in D : c <= k + 1}
               g == [c \in E |-> IF c <= k THEN f[c] ELSE IF table[c] \in D THEN f[table[c]] ELSE c]
    <2>2. ASSUME NEW c \in E PROVE g[c] = IF table[c] \in D THEN g[table[c]] ELSE c
      <3>1. c \in Nat /\ table[c] \in Nat /\ table[c] < c /\ c <= k + 1
        BY <1>0, <2>2
      <3>2. table[c] <= k
        BY <3>1
      <3>3. table[c] \in D => table[c] \in E /\ g[table[c]] = f[table[c]]
        BY <3>1, <3>2
      <3>4. CASE c <= k
        <4>1. f[c] = IF table[c] \in D THEN f[table[c]] ELSE c
          BY <2>1, <2>2, <3>4 DEF Climbs
        <4>2. QED BY <2>2, <3>3, <3>4, <4>1
      <3>5. CASE ~(c <= k)
        BY <2>2, <3>3, <3>5
      <3>6. QED BY <3>4, <3>5
    <2>3. DOMAIN g = E
      OBVIOUS
    <2> HIDE DEF g
    <2>4. Climbs(g, k + 1, table)
      BY <2>2, <2>3 DEF Climbs
    <2>5. QED BY <2>4 DEF Climbable
  <1>3. Nat \subseteq T
    <2> HIDE DEF T
    <2>1. QED BY <1>1, <1>2, EveryNumber
  <1>4. QED BY <1>3

\* The walk up from a comment goes on from its parent, if that is there.
LEMMA RootStep ==
    ASSUME NEW table, Tree(table), NEW id \in DOMAIN table
    PROVE  RootOf(table, id) = IF table[id] \in DOMAIN table THEN RootOf(table, table[id]) ELSE id
  <1> DEFINE g == CHOOSE g : g = [c \in DOMAIN table |-> IF table[c] \in DOMAIN table THEN g[table[c]] ELSE c]
  <1>1. \A i : RootOf(table, i) = g[i]
    BY DEF RootOf
  <1>2. \E f : f = [c \in DOMAIN table |-> IF table[c] \in DOMAIN table THEN f[table[c]] ELSE c]
    <2>1. PICK f : Climbs(f, MaxId, table)
      BY ThreadsAssumption, ClimbExists DEF Climbable
    <2>2. {c \in DOMAIN table : c <= MaxId} = DOMAIN table
      BY DEF Tree
    <2> DEFINE h == [c \in DOMAIN table |-> f[c]]
    <2>3. \A c \in DOMAIN table : f[c] = IF table[c] \in DOMAIN table THEN f[table[c]] ELSE c
      BY <2>1, <2>2 DEF Climbs
    <2>4. \A c \in DOMAIN table : f[c] = IF table[c] \in DOMAIN table THEN h[table[c]] ELSE c
      BY <2>3
    <2>5. h = [c \in DOMAIN table |-> IF table[c] \in DOMAIN table THEN h[table[c]] ELSE c]
      BY <2>4
    <2>6. QED BY <2>5
  <1>3. g = [c \in DOMAIN table |-> IF table[c] \in DOMAIN table THEN g[table[c]] ELSE c]
    BY <1>2
  <1> HIDE DEF g
  <1>4. QED BY <1>1, <1>3

\* It ends at a comment of the table that is no reply to another one of it.
LEMMA RootIs ==
    ASSUME NEW table, Tree(table), NEW id \in DOMAIN table
    PROVE  RootOf(table, id) \in DOMAIN table /\ table[RootOf(table, id)] \notin DOMAIN table
  <1> DEFINE D == DOMAIN table
             T == {k \in Nat : \A c \in D : c <= k =>
                      RootOf(table, c) \in D /\ table[RootOf(table, c)] \notin D}
  <1>0. D \subseteq Nat /\ (\A c \in D : c # 0) /\ \A c \in D : table[c] \in Nat /\ table[c] < c
    BY ThreadsAssumption DEF Tree
  <1>1. 0 \in T
    BY <1>0
  <1>2. ASSUME NEW k \in Nat, k \in T PROVE k + 1 \in T
    <2> SUFFICES ASSUME NEW c \in D, c <= k + 1
                 PROVE  RootOf(table, c) \in D /\ table[RootOf(table, c)] \notin D
      OBVIOUS
    <2>1. RootOf(table, c) = IF table[c] \in D THEN RootOf(table, table[c]) ELSE c
      BY RootStep
    <2>2. table[c] <= k
      BY <1>0
    <2>3. QED BY <1>2, <2>1, <2>2
  <1>3. Nat \subseteq T
    <2> HIDE DEF T
    <2>1. QED BY <1>1, <1>2, EveryNumber
  <1>4. id \in T
    BY <1>0, <1>3
  <1>5. QED BY <1>0, <1>4

\* The comments of the thread with this root.
Group(table, root) == {c \in DOMAIN table : RootOf(table, c) = root}

\* The levels of a walk down: each adds the replies to the one before.
Level(b, n, table, root) ==
    b[n] = IF n = 0 THEN {root} ELSE b[n - 1] \cup {c \in DOMAIN table : table[c] \in b[n - 1]}

Levels(b, m, table, root) == DOMAIN b = 0 .. m /\ \A n \in 0 .. m : Level(b, n, table, root)

Descends(m, table, root) == \E b : Levels(b, m, table, root)

LEMMA DescentExists ==
    ASSUME NEW table, NEW root, NEW m \in Nat
    PROVE  Descends(m, table, root)
  <1> DEFINE T == {k \in Nat : Descends(k, table, root)}
  <1>1. 0 \in T
    <2> DEFINE b == [n \in 0 .. 0 |-> {root}]
    <2>1. DOMAIN b = 0 .. 0 /\ b[0] = {root} /\ \A n \in 0 .. 0 : n = 0
      OBVIOUS
    <2> HIDE DEF b
    <2>2. Levels(b, 0, table, root)
      BY <2>1 DEF Levels, Level
    <2>3. QED BY <2>2 DEF Descends
  <1>2. ASSUME NEW k \in Nat, k \in T PROVE k + 1 \in T
    <2>1. PICK b : Levels(b, k, table, root)
      BY <1>2 DEF Descends
    <2> DEFINE a == [n \in 0 .. (k + 1) |-> IF n <= k THEN b[n]
                                           ELSE b[k] \cup {c \in DOMAIN table : table[c] \in b[k]}]
    <2>2. DOMAIN a = 0 .. (k + 1) /\ \A n \in 0 .. k : a[n] = b[n]
      OBVIOUS
    <2>3. a[k + 1] = b[k] \cup {c \in DOMAIN table : table[c] \in b[k]} /\ a[k] = b[k]
      OBVIOUS
    <2> HIDE DEF a
    <2>4. ASSUME NEW n \in 0 .. (k + 1) PROVE Level(a, n, table, root)
      <3>1. CASE n = k + 1
        <4>1. n # 0 /\ n - 1 = k
          BY <3>1
        <4>2. QED BY <2>3, <3>1, <4>1 DEF Level
      <3>2. CASE n # k + 1
        <4>1. n \in 0 .. k /\ (n # 0 => n - 1 \in 0 .. k)
          BY <3>2
        <4>2. Level(b, n, table, root)
          BY <2>1, <4>1 DEF Levels
        <4>3. a[n] = b[n] /\ (n # 0 => a[n - 1] = b[n - 1])
          BY <2>2, <4>1
        <4>4. QED BY <4>2, <4>3 DEF Level
      <3>3. QED BY <3>1, <3>2
    <2>5. Levels(a, k + 1, table, root)
      BY <2>2, <2>4 DEF Levels
    <2>6. QED BY <2>5 DEF Descends
  <1>3. Nat \subseteq T
    <2> HIDE DEF T
    <2>1. QED BY <1>1, <1>2, EveryNumber
  <1>4. QED BY <1>3

\* The walk down from a root shows the comments whose walk up ends at it.
LEMMA ThreadIs ==
    ASSUME NEW table, Tree(table), NEW root \in DOMAIN table, table[root] \notin DOMAIN table
    PROVE  Thread(table, root) = Group(table, root)
  <1> DEFINE D == DOMAIN table
             N == Cardinality(D)
             b == CHOOSE b : b = [n \in 0 .. N |-> IF n = 0 THEN {root}
                                     ELSE b[n - 1] \cup {c \in D : table[c] \in b[n - 1]}]
             G == Group(table, root)
  <1>1. Thread(table, root) = b[N]
    BY DEF Thread
  <1>2. N \in Nat /\ (\A c \in D : RankIn(c, D) \in 1 .. N)
        /\ \A c, d \in D : c < d => RankIn(c, D) < RankIn(d, D)
    <2>1. D \subseteq 1 .. MaxId /\ MaxId \in Nat
      BY ThreadsAssumption DEF Tree
    <2>2. QED BY <2>1, RanksGrow
  <1>3. \A n \in 0 .. N : Level(b, n, table, root)
    <2>1. PICK a : Levels(a, N, table, root)
      BY <1>2, DescentExists DEF Descends
    <2> DEFINE e == [n \in 0 .. N |-> a[n]]
    <2>2. \A n \in 0 .. N : a[n] = IF n = 0 THEN {root} ELSE a[n - 1] \cup {c \in D : table[c] \in a[n - 1]}
      BY <2>1 DEF Levels, Level
    <2>3. \A n \in 0 .. N : n # 0 => e[n - 1] = a[n - 1]
      BY <1>2
    <2>4. \A n \in 0 .. N : a[n] = IF n = 0 THEN {root} ELSE e[n - 1] \cup {c \in D : table[c] \in e[n - 1]}
      BY <2>2, <2>3
    <2>5. e = [n \in 0 .. N |-> IF n = 0 THEN {root} ELSE e[n - 1] \cup {c \in D : table[c] \in e[n - 1]}]
      BY <2>4
    <2> HIDE DEF e, N
    <2>6. b = [n \in 0 .. N |-> IF n = 0 THEN {root} ELSE b[n - 1] \cup {c \in D : table[c] \in b[n - 1]}]
      BY <2>5
    <2> HIDE DEF b
    <2>7. QED BY <2>6 DEF Level
  <1>4. \A c \in D : table[c] \in Nat /\ c \in Nat /\ table[c] < c
    BY ThreadsAssumption DEF Tree
  <1>5. RootOf(table, root) = root
    BY RootStep
  <1> HIDE DEF b, N
  <1> DEFINE T == {n \in Nat : n <= N => /\ root \in b[n] /\ b[n] \subseteq G
                                         /\ \A c \in G : RankIn(c, D) <= n => c \in b[n]}
  <1>6. 0 \in T
    <2>1. b[0] = {root}
      <3>1. 0 \in 0 .. N
        BY <1>2
      <3>2. Level(b, 0, table, root)
        BY <1>3, <3>1
      <3>3. QED BY <3>2 DEF Level
    <2>2. \A c \in G : ~(RankIn(c, D) <= 0)
      BY <1>2 DEF Group
    <2>3. QED BY <1>5, <2>1, <2>2 DEF Group
  <1>7. ASSUME NEW n \in Nat, n \in T PROVE n + 1 \in T
    <2> SUFFICES ASSUME n + 1 <= N
                 PROVE  /\ root \in b[n + 1] /\ b[n + 1] \subseteq G
                        /\ \A c \in G : RankIn(c, D) <= n + 1 => c \in b[n + 1]
      OBVIOUS
    <2>1. root \in b[n] /\ b[n] \subseteq G /\ \A c \in G : RankIn(c, D) <= n => c \in b[n]
      BY <1>2, <1>7
    <2>2. b[n + 1] = b[n] \cup {c \in D : table[c] \in b[n]}
      <3>1. n + 1 \in 0 .. N /\ n + 1 # 0 /\ (n + 1) - 1 = n
        BY <1>2
      <3>2. QED BY <1>3, <3>1 DEF Level
    <2>3. \A c \in D : table[c] \in b[n] => c \in G
      <3> SUFFICES ASSUME NEW c \in D, table[c] \in b[n] PROVE c \in G
        OBVIOUS
      <3>1. table[c] \in D /\ RootOf(table, table[c]) = root
        BY <2>1 DEF Group
      <3>2. QED BY <3>1, RootStep DEF Group
    <2>4. ASSUME NEW c \in G, RankIn(c, D) <= n + 1 PROVE c \in b[n + 1]
      <3>1. c \in D /\ RootOf(table, c) = root
        BY DEF Group
      <3>2. CASE table[c] \in D
        <4>1. RootOf(table, table[c]) = root /\ table[c] \in G
          BY <3>1, <3>2, RootStep DEF Group
        <4>2. RankIn(table[c], D) < RankIn(c, D) /\ RankIn(table[c], D) \in Nat /\ RankIn(c, D) \in Nat
          BY <1>2, <1>4, <3>1, <3>2
        <4>3. RankIn(table[c], D) <= n
          BY <2>4, <4>2
        <4>4. QED BY <2>1, <2>2, <3>1, <4>1, <4>3
      <3>3. CASE table[c] \notin D
        <4>1. c = root
          BY <3>1, <3>3, RootStep
        <4>2. QED BY <2>1, <2>2, <4>1
      <3>4. QED BY <3>2, <3>3
    <2>5. QED BY <2>1, <2>2, <2>3, <2>4
  <1>8. Nat \subseteq T
    <2> HIDE DEF T
    <2>1. QED BY <1>6, <1>7, EveryNumber
  <1>9. b[N] \subseteq G /\ \A c \in G : RankIn(c, D) <= N => c \in b[N]
    BY <1>2, <1>8
  <1>10. \A c \in G : RankIn(c, D) <= N
    BY <1>2 DEF Group
  <1>11. b[N] = G
    BY <1>9, <1>10
  <1>12. QED BY <1>1, <1>11

------------------------------------------------------------------------------
(* The rows of a listing, in any of its orders.                            *)
Place(sort, rows) == [entry \in rows |-> Before(sort, entry, rows)]

Sized(rows) == \A e \in rows : e.root \in Nat /\ Cardinality(e.group) \in Nat

\* Each order is a strict one in which no two threads are level.
LEMMA LeadsOrders ==
    ASSUME NEW sort, NEW rows, Sized(rows)
    PROVE  /\ \A e \in rows : ~Leads(sort, e, e)
           /\ \A e, f, g \in rows : Leads(sort, e, f) /\ Leads(sort, f, g) => Leads(sort, e, g)
           /\ \A e, f \in rows : e.root # f.root => Leads(sort, e, f) \/ Leads(sort, f, e)
  <1> DEFINE size(e) == Cardinality(e.group)
  <1>0. \A e \in rows : e.root \in Nat /\ size(e) \in Nat
    BY DEF Sized
  <1>1. CASE sort = "oldest"
    <2>1. \A e, f \in rows : Leads(sort, e, f) <=> e.root < f.root
      BY <1>1 DEF Leads
    <2>2. QED BY <1>0, <2>1
  <1>2. CASE sort = "newest"
    <2>1. \A e, f \in rows : Leads(sort, e, f) <=> e.root > f.root
      BY <1>2 DEF Leads
    <2>2. QED BY <1>0, <2>1
  <1>3. CASE sort # "oldest" /\ sort # "newest"
    <2>1. \A e, f \in rows : Leads(sort, e, f) <=>
              size(e) > size(f) \/ (size(e) = size(f) /\ e.root > f.root)
      BY <1>3 DEF Leads
    <2> HIDE DEF size
    <2>2. QED BY <1>0, <2>1
  <1>4. QED BY <1>1, <1>2, <1>3

\* Every comment is in the row of its root, and rows differ by their roots.
LEMMA RowsAre ==
    ASSUME NEW table, Tree(table)
    PROVE  /\ \A entry \in Rows(table) : entry.root \in DOMAIN table /\ entry.group = Group(table, entry.root)
           /\ \A e, f \in Rows(table) : e.root = f.root => e = f
           /\ Sized(Rows(table))
           /\ IsFiniteSet(Rows(table)) /\ Cardinality(Rows(table)) \in 0 .. MaxId
  <1> DEFINE rows == Rows(table)
             heads == [entry \in rows |-> entry.root]
  <1>1. \A entry \in rows : /\ entry = [root |-> entry.root, group |-> Group(table, entry.root)]
                            /\ entry.root \in DOMAIN table
    <2> SUFFICES ASSUME NEW entry \in rows
                 PROVE  /\ entry = [root |-> entry.root, group |-> Group(table, entry.root)]
                        /\ entry.root \in DOMAIN table
      OBVIOUS
    <2>1. PICK c \in DOMAIN table :
              entry = [root |-> RootOf(table, c),
                       group |-> {d \in DOMAIN table : RootOf(table, d) = RootOf(table, c)}]
      BY DEF Rows
    <2>2. RootOf(table, c) \in DOMAIN table
      BY RootIs
    <2>3. QED BY <2>1, <2>2 DEF Group
  <1>2. \A e, f \in rows : e.root = f.root => e = f
    BY <1>1
  <1>3. DOMAIN table \subseteq 1 .. MaxId /\ MaxId \in Nat
    BY ThreadsAssumption DEF Tree
  <1> HIDE DEF rows
  <1>4. heads \in Injection(rows, 1 .. MaxId)
    BY <1>1, <1>2, <1>3 DEF Injection, IsInjective
  <1>5. IsFiniteSet(1 .. MaxId) /\ Cardinality(1 .. MaxId) = MaxId
    BY <1>3, FS_Interval
  <1>6. IsFiniteSet(rows) /\ Cardinality(rows) <= MaxId
    BY <1>4, <1>5, FS_Injection
  <1>7. Cardinality(rows) \in 0 .. MaxId
    BY <1>3, <1>6, FS_CardinalityType
  <1>8. Sized(rows)
    <2> SUFFICES ASSUME NEW e \in rows PROVE e.root \in Nat /\ Cardinality(e.group) \in Nat
      BY DEF Sized
    <2>1. e.root \in DOMAIN table /\ e.group = Group(table, e.root)
      BY <1>1
    <2> DEFINE G == Group(table, e.root)
    <2>2. G \subseteq 1 .. MaxId /\ e.root \in Nat
      BY <1>3, <2>1 DEF Group
    <2> HIDE DEF G
    <2>3. IsFiniteSet(G) /\ Cardinality(G) \in Nat
      BY <1>5, <2>2, FS_Subset, FS_CardinalityType
    <2>4. QED BY <2>1, <2>2, <2>3 DEF G
  <1>9. QED BY <1>1, <1>2, <1>6, <1>7, <1>8 DEF rows

\* A listing numbers its rows from 0, without a gap.
LEMMA PlacesAre ==
    ASSUME NEW sort, NEW rows, IsFiniteSet(rows), Sized(rows),
           \A e, f \in rows : e.root = f.root => e = f
    PROVE  Place(sort, rows) \in Bijection(rows, 0 .. (Cardinality(rows) - 1))
  <1> DEFINE Ahead(e) == {f \in rows : Leads(sort, f, e)}
             n == Cardinality(rows)
             p == Place(sort, rows)
  <1>0. /\ \A e \in rows : ~Leads(sort, e, e)
        /\ \A e, f, g \in rows : Leads(sort, e, f) /\ Leads(sort, f, g) => Leads(sort, e, g)
        /\ \A e, f \in rows : e.root # f.root => Leads(sort, e, f) \/ Leads(sort, f, e)
    BY LeadsOrders
  <1>1. \A S \in SUBSET rows : IsFiniteSet(S) /\ Cardinality(S) \in Nat
    BY FS_Subset, FS_CardinalityType
  <1>2. n \in Nat
    BY <1>1
  <1>3. \A S, T \in SUBSET rows : S \subseteq T /\ S # T => Cardinality(S) < Cardinality(T)
    <2> SUFFICES ASSUME NEW S \in SUBSET rows, NEW T \in SUBSET rows, S \subseteq T, S # T
                 PROVE  Cardinality(S) < Cardinality(T)
      OBVIOUS
    <2>1. Cardinality(S) <= Cardinality(T) /\ Cardinality(T) # Cardinality(S)
      BY <1>1, FS_Subset
    <2>2. QED BY <1>1, <2>1
  <1>4. ASSUME NEW e \in rows PROVE Before(sort, e, rows) \in 0 .. (n - 1)
    <2>1. e \notin Ahead(e) /\ Ahead(e) \in SUBSET rows /\ Ahead(e) # rows
      BY <1>0
    <2> HIDE DEF Ahead
    <2>2. Cardinality(Ahead(e)) \in Nat /\ Cardinality(Ahead(e)) < n
      BY <1>1, <1>3, <2>1
    <2>3. Before(sort, e, rows) = Cardinality(Ahead(e))
      BY DEF Before, Ahead
    <2> HIDE DEF n
    <2>4. QED BY <1>2, <2>2, <2>3
  <1>5. ASSUME NEW e \in rows, NEW f \in rows, Leads(sort, f, e)
        PROVE  Before(sort, f, rows) < Before(sort, e, rows)
    <2>1. Ahead(f) \subseteq Ahead(e) /\ f \in Ahead(e) /\ f \notin Ahead(f)
      BY <1>0, <1>5
    <2>2. Ahead(e) \in SUBSET rows /\ Ahead(f) \in SUBSET rows
      OBVIOUS
    <2>3. Before(sort, e, rows) = Cardinality(Ahead(e)) /\ Before(sort, f, rows) = Cardinality(Ahead(f))
      BY DEF Before
    <2> HIDE DEF Ahead
    <2>4. QED BY <1>3, <2>1, <2>2, <2>3
  <1>6. p \in Injection(rows, 0 .. (n - 1))
    <2>1. p \in [rows -> 0 .. (n - 1)] /\ \A e \in rows : p[e] = Before(sort, e, rows)
      BY <1>4 DEF Place
    <2> HIDE DEF p
    <2>2. \A e, f \in rows : p[e] = p[f] => e = f
      <3> SUFFICES ASSUME NEW e \in rows, NEW f \in rows, e # f PROVE p[e] # p[f]
        OBVIOUS
      <3>1. Leads(sort, e, f) \/ Leads(sort, f, e)
        BY <1>0
      <3>2. p[e] \in Nat /\ p[f] \in Nat /\ (p[e] < p[f] \/ p[f] < p[e])
        BY <1>2, <1>4, <1>5, <2>1, <3>1
      <3>3. QED BY <3>2
    <2>3. QED BY <2>1, <2>2 DEF Injection, IsInjective
  <1>7. IsFiniteSet(0 .. (n - 1)) /\ Cardinality(0 .. (n - 1)) = n
    <2> HIDE DEF n
    <2>1. QED BY <1>2, FS_Interval
  <1>8. p \in Surjection(rows, 0 .. (n - 1))
    <2> HIDE DEF p
    <2>1. QED BY <1>6, <1>7, FS_Injection
  <1>9. QED BY <1>6, <1>8 DEF Bijection

\* A page holds the next rows, as many as there are.
LEMMA PageIs ==
    ASSUME NEW sort, NEW rows, IsFiniteSet(rows), Sized(rows),
           \A e, f \in rows : e.root = f.root => e = f, NEW start \in Nat
    PROVE  LET n == Cardinality(rows)
           IN  /\ n \in Nat
               /\ \A e \in rows : Before(sort, e, rows) \in Nat /\ Before(sort, e, rows) < n
               /\ Cardinality(Page(sort, rows, start)) =
                     IF n <= start THEN 0 ELSE IF n <= start + PageSize THEN n - start ELSE PageSize
  <1> DEFINE n == Cardinality(rows)
             p == Place(sort, rows)
             page == Page(sort, rows, start)
             top == IF n <= start + PageSize THEN n - 1 ELSE start + PageSize - 1
             q == [e \in page |-> p[e]]
  <1>1. n \in Nat /\ PageSize \in Nat /\ PageSize # 0
    BY ThreadsAssumption, FS_CardinalityType
  <1>2. p \in Bijection(rows, 0 .. (n - 1)) /\ \A e \in rows : p[e] = Before(sort, e, rows)
    BY PlacesAre DEF Place
  <1> HIDE DEF n, p
  <1>3. \A e \in rows : p[e] \in 0 .. (n - 1)
    BY <1>2 DEF Bijection, Injection, IsInjective
  <1>4. page = {e \in rows : p[e] \in start .. top}
    <2>1. \A k \in 0 .. (n - 1) : k \in start .. (start + PageSize - 1) <=> k \in start .. top
      BY <1>1
    <2>2. page = {e \in rows : p[e] \in start .. (start + PageSize - 1)}
      BY <1>2 DEF Page
    <2> HIDE DEF page, top
    <2>3. QED BY <1>3, <2>1, <2>2
  <1>5. top \in Int /\ start .. top \subseteq 0 .. (n - 1)
    BY <1>1
  <1> HIDE DEF top, page
  <1>6. q \in Bijection(page, start .. top)
    <2>1. \A e, f \in rows : p[e] = p[f] => e = f
      BY <1>2 DEF Bijection, Injection, IsInjective
    <2>2. q \in [page -> start .. top] /\ \A e, f \in page : q[e] = q[f] => e = f
      BY <1>4, <2>1
    <2>3. ASSUME NEW k \in start .. top PROVE \E e \in page : q[e] = k
      <3>1. k \in 0 .. (n - 1)
        BY <1>5
      <3>2. PICK e \in rows : p[e] = k
        BY <1>2, <3>1 DEF Bijection, Surjection
      <3>3. QED BY <1>4, <3>2
    <2> HIDE DEF q
    <2>4. QED BY <2>2, <2>3 DEF Bijection, Injection, IsInjective, Surjection
  <1> HIDE DEF q
  <1>7. IsFiniteSet(page)
    BY <1>4, FS_Subset
  <1>8. Cardinality(start .. top) = Cardinality(page)
    <2>1. ExistsBijection(page, start .. top)
      BY <1>6 DEF ExistsBijection
    <2>2. QED BY <1>7, <2>1, FS_Bijection
  <1>9. Cardinality(start .. top) = IF start > top THEN 0 ELSE top - start + 1
    BY <1>5, FS_Interval
  <1>10. Cardinality(page) = IF n <= start THEN 0 ELSE IF n <= start + PageSize THEN n - start ELSE PageSize
    BY <1>1, <1>8, <1>9 DEF top
  <1>11. \A e \in rows : Before(sort, e, rows) \in Nat /\ Before(sort, e, rows) < n
    BY <1>1, <1>2, <1>3
  <1>12. QED BY <1>1, <1>10, <1>11 DEF n, page

------------------------------------------------------------------------------
(* What the tools rely on: ids grow over both pull requests, the comments  *)
(* fetched at the start stay as they were, the cut at the highest of them  *)
(* spares them all, and the pages so far hold the first rows.              *)
IdsGrow == \A p \in Pr : Tree(posted[p]) /\ DOMAIN posted[p] \subseteq 1 .. (NextId - 1)

Fetched ==
    IF Started
    THEN /\ Tree(existing) /\ DOMAIN existing \subseteq DOMAIN posted[Own]
         /\ mine \cap DOMAIN existing = {}
         /\ highest \in {-1, MaxOf(DOMAIN existing)}
    ELSE mine = {} /\ highest = -1 /\ paging = NoPage /\ reading = NoRead

Listed(page, table) ==
    LET rows == Rows(table)
    IN  /\ page.start <= Cardinality(rows)
        /\ page.rows \subseteq rows
        /\ page.kept => /\ page.rows = {entry \in rows : Before(page.sort, entry, rows) < page.start}
                        /\ ~page.twice
        /\ page.start > 0 => (page.more <=> page.start < Cardinality(rows))

PagesKept ==
    /\ paging.start \in 0 .. MaxId /\ paging.sort \in Sort
    /\ Started /\ paging.pr = Own => Listed(paging, existing)

ReadWhole(table, root) ==
    /\ reading.shown = Rendered(table, root)
    /\ reading.rest = Cardinality(Group(table, root)) - Cardinality(reading.shown)

ReadingKept ==
    /\ reading.focus \in 0 .. MaxId
    /\ Started => /\ reading.seen \subseteq DOMAIN existing
                  /\ \A c \in reading.seen : c \in Rendered(existing, RootOf(existing, c))
    /\ Started /\ reading.pr = Own /\ reading.focus # 0 =>
          /\ reading.focus \in DOMAIN existing
          /\ reading.shown \subseteq reading.seen
          /\ ReadWhole(existing, RootOf(existing, reading.focus))

ThreadsInv ==
    /\ DOMAIN posted = Pr /\ IdsGrow /\ mine \subseteq DOMAIN posted[Own]
    /\ Fetched /\ PagesKept /\ ReadingKept

LEMMA OldestFirst ==
    ASSUME NEW table, Tree(table)
    PROVE  /\ IsFiniteSet(DOMAIN table) /\ Cardinality(DOMAIN table) \in Nat
           /\ MaxOf(DOMAIN table) \in 0 .. MaxId
           /\ \A id \in DOMAIN table : id <= MaxOf(DOMAIN table)
  <1> DEFINE D == DOMAIN table
  <1>1. D \in SUBSET (1 .. MaxId) /\ D \subseteq 1 .. MaxId /\ MaxId \in Nat
    BY ThreadsAssumption DEF Tree
  <1> HIDE DEF D
  <1>2. IsFiniteSet(D) /\ Cardinality(D) \in Nat
    BY <1>1, RanksGrow
  <1>3. CASE D = {}
    BY <1>1, <1>2, <1>3 DEF MaxOf, D
  <1>4. CASE D # {}
    <2>1. Max(D) \in D /\ \A y \in D : Max(D) >= y
      BY <1>1, <1>4, MaxIs
    <2> DEFINE top == Max(D)
    <2>2. top \in D /\ \A y \in D : top >= y
      BY <2>1
    <2> HIDE DEF top
    <2>3. top \in 0 .. MaxId /\ \A y \in D : y <= top
      BY <1>1, <2>2
    <2>4. MaxOf(D) = top
      BY <1>4 DEF MaxOf, top
    <2>5. QED BY <1>2, <2>3, <2>4 DEF D
  <1>5. QED BY <1>3, <1>4

LEMMA NextIs ==
    ASSUME ThreadsInv
    PROVE  NextId \in Nat /\ NextId # 0 /\ \A p \in Pr : NextId \notin DOMAIN posted[p]
  <1>1. Own \in Pr /\ Other \in Pr
    BY DEF Pr
  <1>2. Cardinality(DOMAIN posted[Own]) \in Nat /\ Cardinality(DOMAIN posted[Other]) \in Nat
    BY <1>1, OldestFirst DEF ThreadsInv, IdsGrow
  <1>3. NextId \in Nat /\ NextId # 0
    BY <1>2 DEF NextId
  <1> DEFINE n == NextId
  <1>4. \A p \in Pr : DOMAIN posted[p] \subseteq 1 .. (n - 1)
    BY DEF ThreadsInv, IdsGrow
  <1> HIDE DEF n
  <1>5. n \in Nat => n \notin 1 .. (n - 1)
    OBVIOUS
  <1>6. QED BY <1>3, <1>4, <1>5 DEF n

\* The table of its own pull request that a tool reads is the one fetched at the start.
LEMMA VisibleIs ==
    ASSUME ThreadsInv, Started
    PROVE  /\ Visible(Own) = existing /\ Snapshot = MaxOf(DOMAIN existing)
           /\ \A p \in Pr : Tree(Visible(p))
  <1>1. Tree(existing) /\ highest \in {-1, MaxOf(DOMAIN existing)}
    BY DEF ThreadsInv, Fetched
  <1>2. Snapshot = MaxOf(DOMAIN existing)
    BY <1>1 DEF Snapshot
  <1>3. Visible(Own) = existing
    <2>1. {id \in DOMAIN existing : id <= Snapshot} = DOMAIN existing
      BY <1>1, <1>2, OldestFirst
    <2>2. Restrict(existing, DOMAIN existing) = existing
      BY <1>1 DEF Restrict, Tree
    <2>3. QED BY <2>1, <2>2 DEF Visible, Cut, Source
  <1>4. ASSUME NEW p \in Pr PROVE Tree(Visible(p))
    <2>1. CASE p = Own
      BY <1>1, <1>3, <2>1
    <2>2. CASE p # Own
      <3> DEFINE t == posted[p]
                 K == {id \in DOMAIN t : id <= Snapshot}
      <3>1. Tree(t)
        BY DEF ThreadsInv, IdsGrow
      <3>2. Visible(p) = t \/ Visible(p) = [x \in K |-> t[x]]
        BY <2>2 DEF Visible, Cut, Source, Restrict
      <3> HIDE DEF t
      <3>3. Tree([x \in K |-> t[x]])
        BY <3>1 DEF Tree
      <3>4. QED BY <3>1, <3>2, <3>3
    <2>3. QED BY <2>1, <2>2
  <1>5. QED BY <1>2, <1>3, <1>4

LEMMA WriteStep ==
    ASSUME ThreadsInv, NEW p \in Pr, Write(p)
    PROVE  /\ DOMAIN posted' = Pr /\ IdsGrow'
           /\ \A q \in Pr : DOMAIN posted[q] \subseteq DOMAIN posted'[q]
           /\ p = Own => NextId \in DOMAIN posted'[Own]
           /\ existing = NotYet \/ NextId \notin DOMAIN existing
  <1> DEFINE n == NextId
             D == DOMAIN posted[p]
  <1>1. n \in Nat /\ n # 0 /\ \A q \in Pr : n \notin DOMAIN posted[q]
    BY NextIs
  <1>2. PICK parent \in D \cup {0} :
            posted' = [posted EXCEPT ![p] = [id \in D \cup {n} |-> IF id = n THEN parent ELSE posted[p][id]]]
    BY DEF Write
  <1>3. n <= MaxId /\ DOMAIN posted = Pr /\ Tree(posted[p]) /\ D \subseteq 1 .. (n - 1)
    BY DEF Write, ThreadsInv, IdsGrow
  <1> DEFINE t == [id \in D \cup {n} |-> IF id = n THEN parent ELSE posted[p][id]]
  <1>4. /\ DOMAIN posted' = Pr /\ posted'[p] = t /\ DOMAIN t = D \cup {n}
        /\ \A q \in Pr \ {p} : posted'[q] = posted[q]
    BY <1>2, <1>3
  <1>5. Tree(t)
    <2>1. n \in 1 .. MaxId /\ parent \in Nat /\ parent < n
      BY <1>1, <1>3, ThreadsAssumption
    <2>2. \A id \in D : posted[p][id] \in Nat /\ posted[p][id] < id /\ id \in 1 .. MaxId
      BY <1>3 DEF Tree
    <2>3. QED BY <2>1, <2>2 DEF Tree
  <1>6. NextId' = n + 1
    <2>1. Cardinality(D \cup {n}) = Cardinality(D) + 1 /\ Cardinality(D) \in Nat
      <3>1. IsFiniteSet(D) /\ Cardinality(D) \in Nat
        BY <1>3, OldestFirst
      <3>2. n \notin D
        BY <1>1
      <3> HIDE DEF n, D
      <3>3. QED BY <3>1, <3>2, FS_AddElement
    <2>2. \A q \in Pr : Cardinality(DOMAIN posted[q]) \in Nat
      BY OldestFirst DEF ThreadsInv, IdsGrow
    <2>3. Own \in Pr /\ Other \in Pr /\ Own # Other /\ (p = Own \/ p = Other)
      BY ThreadsAssumption DEF Pr
    <2> HIDE DEF t
    <2>4. CASE p = Own
      <3>1. posted'[Own] = t /\ posted'[Other] = posted[Other]
        BY <1>4, <2>3, <2>4
      <3>2. Cardinality(DOMAIN posted'[Own]) = Cardinality(DOMAIN posted[Own]) + 1
        BY <1>4, <2>1, <2>4, <3>1
      <3>3. QED BY <2>2, <2>3, <3>1, <3>2 DEF NextId
    <2>5. CASE p = Other
      <3>1. posted'[Other] = t /\ posted'[Own] = posted[Own]
        BY <1>4, <2>3, <2>5
      <3>2. Cardinality(DOMAIN posted'[Other]) = Cardinality(DOMAIN posted[Other]) + 1
        BY <1>4, <2>1, <2>5, <3>1
      <3>3. QED BY <2>2, <2>3, <3>1, <3>2 DEF NextId
    <2>6. QED BY <2>3, <2>4, <2>5
  <1>7. \A q \in Pr : DOMAIN posted[q] \subseteq 1 .. (n - 1)
    BY DEF ThreadsInv, IdsGrow
  <1> HIDE DEF n, t
  <1>8. (n + 1) - 1 = n /\ 1 .. (n - 1) \subseteq 1 .. n /\ n \in 1 .. n
    BY <1>1
  <1>9. \A q \in Pr : Tree(posted'[q]) /\ DOMAIN posted'[q] \subseteq 1 .. n
    <2> SUFFICES ASSUME NEW q \in Pr PROVE Tree(posted'[q]) /\ DOMAIN posted'[q] \subseteq 1 .. n
      OBVIOUS
    <2>1. CASE q = p
      BY <1>3, <1>4, <1>5, <1>8, <2>1
    <2>2. CASE q # p
      BY <1>4, <1>7, <1>8, <2>2 DEF ThreadsInv, IdsGrow
    <2>3. QED BY <2>1, <2>2
  <1>10. IdsGrow'
    BY <1>6, <1>8, <1>9 DEF IdsGrow
  <1>11. existing = NotYet \/ n \notin DOMAIN existing
    BY <1>1 DEF ThreadsInv, Fetched, Started, Pr
  <1>12. QED BY <1>4, <1>10, <1>11 DEF n

LEMMA ListStep ==
    ASSUME ThreadsInv, NEW p \in Pr, NEW sort \in Sort, NEW start, start \in {0, paging.start},
           ListThreads(p, sort, start)
    PROVE  ThreadsInv'
  <1> DEFINE table == Visible(p)
             rows == Rows(table)
             n == Cardinality(rows)
             page == Page(sort, rows, start)
             k == Cardinality(page)
             sofar == IF start = 0 THEN {} ELSE paging.rows
  <1>1. /\ Started /\ highest' = Snapshot
        /\ start = 0 \/ (paging.more /\ paging.pr = p /\ start = paging.start)
        /\ paging' = [pr |-> p, sort |-> sort, kept |-> start = 0 \/ (paging.kept /\ sort = paging.sort),
                      start |-> start + k, rows |-> sofar \cup page, more |-> start + k < n,
                      twice |-> page \cap sofar # {} \/ (start > 0 /\ paging.twice)]
        /\ UNCHANGED <<posted, mine, existing, reading>>
    BY DEF ListThreads
  <1>2. Tree(table)
    BY <1>1, VisibleIs
  <1>3. /\ Sized(rows)
        /\ \A e, f \in rows : e.root = f.root => e = f
        /\ IsFiniteSet(rows) /\ n \in 0 .. MaxId
    BY <1>2, RowsAre
  <1>4. start \in Nat /\ start \in 0 .. MaxId /\ MaxId \in Nat /\ PageSize \in Nat \ {0}
    BY ThreadsAssumption DEF ThreadsInv, PagesKept
  <1> HIDE DEF table, rows
  <1>5. /\ \A e \in rows : Before(sort, e, rows) \in Nat /\ Before(sort, e, rows) < n
        /\ k = IF n <= start THEN 0 ELSE IF n <= start + PageSize THEN n - start ELSE PageSize
    BY <1>3, <1>4, PageIs
  <1> HIDE DEF n, k
  <1>6. /\ start + k \in 0 .. MaxId
        /\ start <= n => start + k <= n /\ (start + k < n => k = PageSize)
        /\ k \in Nat
    BY <1>3, <1>4, <1>5
  <1>7. page = {e \in rows : Before(sort, e, rows) \in start .. (start + PageSize - 1)}
    BY DEF Page
  <1> HIDE DEF page, sofar
  <1>8. (Snapshot = MaxOf(DOMAIN existing)) /\ (p = Own => table = existing)
    BY <1>1, VisibleIs DEF table
  <1>9. Fetched'
    BY <1>1, <1>8 DEF ThreadsInv, Fetched, Started, MaxOf
  <1>10. PagesKept'
    <2>1. paging'.start \in 0 .. MaxId /\ paging'.sort \in Sort
      BY <1>1, <1>6
    <2>2. ASSUME p = Own PROVE Listed(paging', existing)
      <3>1. rows = Rows(existing)
        BY <1>8, <2>2 DEF rows
      <3>2. sofar \subseteq rows /\ start <= n
        <4>1. CASE start = 0
          BY <1>3, <4>1 DEF sofar
        <4>2. CASE start # 0
          <5>1. Listed(paging, existing) /\ start = paging.start
            BY <1>1, <2>2, <4>2 DEF ThreadsInv, PagesKept
          <5>2. QED BY <3>1, <4>2, <5>1 DEF Listed, sofar, n
        <4>3. QED BY <4>1, <4>2
      <3>3. ASSUME paging'.kept
            PROVE  sofar = {e \in rows : Before(sort, e, rows) < start} /\ ~(start > 0 /\ paging.twice)
        <4>1. CASE start = 0
          <5>1. {e \in rows : Before(sort, e, rows) < start} = {}
            BY <1>5, <4>1
          <5>2. QED BY <4>1, <5>1 DEF sofar
        <4>2. CASE start # 0
          <5>1. Listed(paging, existing) /\ start = paging.start
            BY <1>1, <2>2, <4>2 DEF ThreadsInv, PagesKept
          <5>2. paging.kept /\ sort = paging.sort
            BY <1>1, <3>3, <4>2
          <5>3. QED BY <3>1, <4>2, <5>1, <5>2 DEF Listed, sofar
        <4>3. QED BY <4>1, <4>2
      <3>4. ASSUME paging'.kept PROVE page \cap sofar = {}
        BY <1>4, <1>5, <1>7, <3>3, <3>4
      <3>5. ASSUME paging'.kept
            PROVE  sofar \cup page = {e \in rows : Before(sort, e, rows) < start + k}
        <4>1. \A b \in Nat : b < n => (b < start + k <=> b < start \/ b \in start .. (start + PageSize - 1))
          BY <1>3, <1>4, <1>5, <3>2
        <4>2. \A e \in rows : Before(sort, e, rows) < start + k
                <=> Before(sort, e, rows) < start \/ Before(sort, e, rows) \in start .. (start + PageSize - 1)
          BY <1>5, <4>1
        <4>3. QED BY <1>7, <3>3, <3>5, <4>2
      <3>6. sofar \cup page \subseteq rows
        BY <1>7, <3>2
      <3>7. /\ paging'.start = start + k /\ paging'.sort = sort /\ paging'.rows = sofar \cup page
            /\ paging'.more = (start + k < n)
            /\ paging'.twice = (page \cap sofar # {} \/ (start > 0 /\ paging.twice))
        BY <1>1
      <3>8. paging'.kept => ~paging'.twice
        BY <3>3, <3>4, <3>7
      <3>9. QED BY <1>6, <3>1, <3>2, <3>5, <3>6, <3>7, <3>8 DEF Listed, n
    <2>3. paging'.pr = p /\ existing' = existing
      BY <1>1
    <2>4. QED BY <2>1, <2>2, <2>3 DEF PagesKept
  <1>11. QED BY <1>1, <1>9, <1>10 DEF ThreadsInv, IdsGrow, NextId, ReadingKept, ReadWhole, Started

\* What is shown of a thread is of the thread.
LEMMA RenderedIs ==
    ASSUME NEW table, Tree(table), NEW id \in DOMAIN table
    PROVE  LET root == RootOf(table, id)
           IN  /\ Thread(table, root) = Group(table, root)
               /\ Rendered(table, root) \subseteq Group(table, root)
  <1>1. Thread(table, RootOf(table, id)) = Group(table, RootOf(table, id))
    BY RootIs, ThreadIs
  <1>2. QED BY <1>1 DEF Rendered

LEMMA ReadStep ==
    ASSUME ThreadsInv, NEW p \in Pr, NEW focus \in 1 .. MaxId, ReadThread(p, focus)
    PROVE  ThreadsInv'
  <1> DEFINE table == Visible(p)
             root == RootOf(table, focus)
             shown == Rendered(table, root)
             rest == Cardinality(Thread(table, root)) - Cardinality(shown)
             seen == IF p = Own THEN reading.seen \cup shown ELSE reading.seen
  <1>1. /\ Started /\ highest' = Snapshot /\ focus \in DOMAIN table
        /\ reading' = [pr |-> p, focus |-> focus, shown |-> shown, rest |-> rest, seen |-> seen]
        /\ UNCHANGED <<posted, mine, existing, paging>>
    BY DEF ReadThread
  <1>2. Tree(table) /\ Snapshot = MaxOf(DOMAIN existing) /\ (p = Own => table = existing)
    BY <1>1, VisibleIs
  <1> HIDE DEF table
  <1>3. Thread(table, root) = Group(table, root) /\ shown \subseteq Group(table, root)
    BY <1>1, <1>2, RenderedIs
  <1>4. Fetched'
    BY <1>1, <1>2 DEF ThreadsInv, Fetched, Started, MaxOf
  <1>5. ReadingKept'
    <2>1. /\ reading'.pr = p /\ reading'.focus = focus /\ reading'.shown = shown
          /\ reading'.rest = rest /\ reading'.seen = seen
          /\ rest = Cardinality(Group(table, root)) - Cardinality(shown)
      BY <1>1, <1>3
    <2>2. focus \in 0 .. MaxId /\ focus # 0
      BY ThreadsAssumption
    <2>3. \A c \in shown : c \in DOMAIN table /\ RootOf(table, c) = root
      BY <1>3 DEF Group
    <2>4. seen \subseteq DOMAIN existing /\ \A c \in seen : c \in Rendered(existing, RootOf(existing, c))
      <3>1. /\ reading.seen \subseteq DOMAIN existing
            /\ \A c \in reading.seen : c \in Rendered(existing, RootOf(existing, c))
        BY <1>1 DEF ThreadsInv, ReadingKept
      <3>2. ASSUME p = Own, NEW c \in shown
            PROVE  c \in DOMAIN existing /\ c \in Rendered(existing, RootOf(existing, c))
        <4>1. table = existing /\ RootOf(table, c) = root
          BY <1>2, <2>3, <3>2
        <4>2. c \in Rendered(table, root)
          BY <3>2
        <4>3. QED BY <2>3, <3>2, <4>1, <4>2
      <3>3. QED BY <3>1, <3>2
    <2>5. p = Own => /\ focus \in DOMAIN existing /\ shown \subseteq seen
                     /\ shown = Rendered(existing, RootOf(existing, focus))
                     /\ rest = Cardinality(Group(existing, RootOf(existing, focus))) - Cardinality(shown)
      BY <1>1, <1>2, <2>1
    <2> HIDE DEF root, shown, rest, seen
    <2>6. QED BY <1>1, <2>1, <2>2, <2>4, <2>5 DEF ReadingKept, ReadWhole, Started
  <1>6. QED BY <1>1, <1>4, <1>5 DEF ThreadsInv, IdsGrow, NextId, PagesKept, Started

LEMMA FetchStep ==
    ASSUME ThreadsInv, FetchComments
    PROVE  ThreadsInv'
  <1>1. ~Started /\ existing' = posted[Own] /\ UNCHANGED <<posted, mine, highest, paging, reading>>
    BY DEF FetchComments
  <1>2. mine = {} /\ highest = -1 /\ paging = NoPage /\ reading = NoRead
    BY <1>1 DEF ThreadsInv, Fetched
  <1>3. Tree(posted[Own])
    BY DEF ThreadsInv, IdsGrow, Pr
  <1>4. Fetched'
    BY <1>1, <1>2, <1>3 DEF Fetched, Started
  <1>5. PagesKept'
    <2> DEFINE rows == Rows(posted[Own])
    <2>1. /\ Sized(rows)
          /\ \A e, f \in rows : e.root = f.root => e = f
          /\ IsFiniteSet(rows) /\ Cardinality(rows) \in 0 .. MaxId
      BY <1>3, RowsAre
    <2> HIDE DEF rows
    <2>2. \A e \in rows : Before("newest", e, rows) \in Nat
      BY <2>1, PageIs
    <2>3. {e \in rows : Before("newest", e, rows) < 0} = {}
      BY <2>2
    <2>4. /\ paging'.start = 0 /\ paging'.rows = {} /\ ~paging'.twice /\ 0 \in 0 .. MaxId
          /\ paging'.sort = "newest" /\ "newest" \in Sort
      BY <1>1, <1>2, ThreadsAssumption DEF NoPage, Sort
    <2>5. Listed(paging', posted[Own])
      BY <2>1, <2>3, <2>4 DEF Listed, rows
    <2>6. QED BY <1>1, <2>4, <2>5 DEF PagesKept
  <1>6. ReadingKept'
    BY <1>1, <1>2, ThreadsAssumption DEF ReadingKept, NoRead
  <1>7. QED BY <1>1, <1>4, <1>5, <1>6 DEF ThreadsInv, IdsGrow, NextId

LEMMA ThreadsStart == ThreadsInit => ThreadsInv
  <1> SUFFICES ASSUME ThreadsInit PROVE ThreadsInv
    OBVIOUS
  <1>1. \A p \in Pr : posted[p] = Empty /\ DOMAIN posted[p] = {}
    BY DEF ThreadsInit, Empty
  <1>2. Tree(Empty)
    BY DEF Tree, Empty
  <1>3. DOMAIN posted = Pr /\ IdsGrow /\ mine \subseteq DOMAIN posted[Own]
    BY <1>1, <1>2 DEF ThreadsInit, IdsGrow
  <1>4. Fetched /\ ~Started
    BY DEF ThreadsInit, Fetched, Started
  <1>5. PagesKept /\ ReadingKept
    BY <1>4, ThreadsAssumption DEF ThreadsInit, PagesKept, ReadingKept, NoPage, NoRead, Sort
  <1>6. QED BY <1>3, <1>4, <1>5 DEF ThreadsInv

LEMMA ThreadsStep == ThreadsInv /\ [ThreadsNext]_threadVars => ThreadsInv'
  <1> SUFFICES ASSUME ThreadsInv, [ThreadsNext]_threadVars PROVE ThreadsInv'
    OBVIOUS
  <1>1. CASE HumanWrites
    <2>1. PICK p \in Pr : Write(p) /\ UNCHANGED <<mine, existing, highest, paging, reading>>
      BY <1>1 DEF HumanWrites
    <2>2. QED BY <2>1, WriteStep DEF ThreadsInv, Fetched, Started, PagesKept, ReadingKept, ReadWhole, Pr
  <1>2. CASE AgentWrites
    <2>1. /\ Started /\ Write(Own) /\ mine' = mine \cup {NextId} /\ Own \in Pr
          /\ UNCHANGED <<existing, highest, paging, reading>>
      BY <1>2 DEF AgentWrites, Pr
    <2>2. QED BY <2>1, WriteStep DEF ThreadsInv, Fetched, Started, PagesKept, ReadingKept, ReadWhole
  <1>3. CASE FetchComments
    BY <1>3, FetchStep
  <1>4. ASSUME NEW p \in Pr, NEW sort \in Sort, NEW start \in {0, paging.start},
               ListThreads(p, sort, start)
        PROVE  ThreadsInv'
    BY <1>4, ListStep
  <1>5. ASSUME NEW p \in Pr, NEW focus \in 1 .. MaxId, ReadThread(p, focus) PROVE ThreadsInv'
    BY <1>5, ReadStep
  <1>6. CASE UNCHANGED threadVars
    BY <1>6 DEF threadVars, ThreadsInv, IdsGrow, NextId, Fetched, Started, PagesKept, ReadingKept, ReadWhole
  <1>7. QED BY <1>1, <1>2, <1>3, <1>4, <1>5, <1>6 DEF ThreadsNext

LEMMA ThreadsFacts == ThreadsInv => ThreadsTypeOK /\ ThreadsAgree
  <1> SUFFICES ASSUME ThreadsInv PROVE ThreadsTypeOK /\ ThreadsAgree
    OBVIOUS
  <1>1. CASE ~Started
    <2>1. mine = {} /\ highest = -1 /\ paging = NoPage /\ reading = NoRead
      BY <1>1 DEF ThreadsInv, Fetched
    <2>2. ThreadsAgree
      BY <1>1, <2>1 DEF ThreadsAgree, ReadAsListed, PagesCoverAll, OwnPostsUnseen, NoPage, NoRead
    <2>3. ThreadsTypeOK
      <3>1. \A p \in Pr, id \in 1 .. MaxId : id \in DOMAIN posted[p] => posted[p][id] \in 0 .. id - 1
        BY DEF ThreadsInv, IdsGrow, Tree
      <3>2. QED BY <1>1, <2>1, <3>1, ThreadsAssumption DEF ThreadsTypeOK, NoPage, NoRead, Sort
    <2>4. QED BY <2>2, <2>3
  <1>2. CASE Started
    <2> DEFINE rows == Rows(existing)
    <2>1. Tree(existing) /\ mine \cap DOMAIN existing = {} /\ highest \in {-1, MaxOf(DOMAIN existing)}
          /\ DOMAIN existing \subseteq DOMAIN posted[Own]
      BY <1>2 DEF ThreadsInv, Fetched
    <2>2. /\ \A entry \in rows : entry.root \in DOMAIN existing /\ entry.group = Group(existing, entry.root)
          /\ \A e, f \in rows : e.root = f.root => e = f
          /\ Sized(rows) /\ IsFiniteSet(rows) /\ Cardinality(rows) \in 0 .. MaxId
      BY <2>1, RowsAre
    <2> HIDE DEF rows
    <2>3. paging.pr = Own => Listed(paging, existing)
      BY <1>2 DEF ThreadsInv, PagesKept
    <2>4. paging.pr = Own => paging.rows \subseteq rows
      BY <2>3 DEF Listed, rows
    <2>5. ASSUME NEW entry \in rows, reading.pr = Own, reading.focus \in entry.group
          PROVE  /\ reading.shown = Rendered(existing, entry.root) /\ reading.shown \subseteq entry.group
                 /\ reading.shown \subseteq reading.seen
                 /\ reading.rest = Cardinality(entry.group) - Cardinality(reading.shown)
      <3>1. entry.group = Group(existing, entry.root)
        BY <2>2
      <3>2. reading.focus \in DOMAIN existing /\ RootOf(existing, reading.focus) = entry.root
        BY <2>5, <3>1 DEF Group
      <3>3. reading.focus # 0
        BY <2>1, <3>2 DEF Tree
      <3>4. ReadWhole(existing, entry.root) /\ reading.shown \subseteq reading.seen
        BY <1>2, <2>5, <3>2, <3>3 DEF ThreadsInv, ReadingKept
      <3>5. Rendered(existing, entry.root) \subseteq Group(existing, entry.root)
        BY <2>1, <3>2, RenderedIs
      <3>6. QED BY <3>1, <3>4, <3>5 DEF ReadWhole
    <2>6. ReadAsListed
      <3> SUFFICES ASSUME NEW entry \in paging.rows, reading.pr = Own, paging.pr = Own,
                          reading.focus \in entry.group
                   PROVE  /\ reading.shown \subseteq entry.group
                          /\ reading.rest = Cardinality(entry.group \ reading.shown)
        BY DEF ReadAsListed
      <3> DEFINE S == reading.shown
                 G == entry.group
      <3>1. entry \in rows
        BY <2>4
      <3>2. S \subseteq G /\ reading.rest = Cardinality(G) - Cardinality(S)
        BY <2>5, <3>1
      <3>3. IsFiniteSet(G)
        <4>1. G \subseteq DOMAIN existing
          BY <2>2, <3>1 DEF Group
        <4>2. QED BY <2>1, <4>1, OldestFirst, FS_Subset
      <3> HIDE DEF S, G
      <3>4. IsFiniteSet(S) /\ G \cap S = S
        BY <3>2, <3>3, FS_Subset
      <3>5. Cardinality(G \ S) = Cardinality(G) - Cardinality(S)
        BY <3>3, <3>4, FS_Difference
      <3>6. QED BY <3>2, <3>5 DEF S, G
    <2>7. CutStaysCut
      <3> SUFFICES ASSUME NEW entry \in rows, reading.pr = Own, reading.focus \in entry.group
                   PROVE  reading.seen \cap entry.group = reading.shown
        BY DEF CutStaysCut, rows
      <3>1. ASSUME NEW c \in reading.seen, c \in entry.group PROVE c \in reading.shown
        <4>1. c \in Rendered(existing, RootOf(existing, c))
          BY <1>2 DEF ThreadsInv, ReadingKept
        <4>2. RootOf(existing, c) = entry.root
          BY <2>2, <3>1 DEF Group
        <4>3. QED BY <2>5, <4>1, <4>2
      <3>2. QED BY <2>5, <3>1
    <2>8. PagesCoverAll
      <3> SUFFICES ASSUME paging.pr = Own, paging.start > 0, paging.kept
                   PROVE  ~paging.twice /\ (~paging.more => paging.rows = rows)
        BY DEF PagesCoverAll, rows
      <3>1. ~paging.twice
        BY <2>3 DEF Listed
      <3>2. ASSUME ~paging.more PROVE paging.rows = rows
        <4>1. paging.rows = {entry \in rows : Before(paging.sort, entry, rows) < paging.start}
              /\ paging.start <= Cardinality(rows) /\ ~(paging.start < Cardinality(rows))
          BY <2>3, <3>2 DEF Listed, rows
        <4>2. \A e \in rows : /\ Before(paging.sort, e, rows) \in Nat
                              /\ Before(paging.sort, e, rows) < Cardinality(rows)
          BY <2>2, PageIs
        <4>3. paging.start \in Nat /\ Cardinality(rows) \in Nat
          BY <2>2 DEF ThreadsInv, PagesKept
        <4>4. paging.start = Cardinality(rows)
          BY <4>1, <4>3
        <4>5. QED BY <4>1, <4>2, <4>4
      <3>3. QED BY <3>1, <3>2
    <2>9. OwnPostsUnseen
      <3>1. reading.seen \subseteq DOMAIN existing
        BY <1>2 DEF ThreadsInv, ReadingKept
      <3>2. paging.pr = Own => \A entry \in paging.rows : entry.group \subseteq DOMAIN existing
        BY <2>2, <2>4 DEF Group
      <3>3. QED BY <2>1, <3>1, <3>2 DEF OwnPostsUnseen
    <2>10. ThreadsTypeOK
      <3>1. \A p \in Pr, id \in 1 .. MaxId : id \in DOMAIN posted[p] => posted[p][id] \in 0 .. id - 1
        BY DEF ThreadsInv, IdsGrow, Tree
      <3>2. MaxOf(DOMAIN existing) \in 0 .. MaxId /\ MaxId \in Nat
        BY <2>1, OldestFirst, ThreadsAssumption
      <3>3. highest \in -1 .. MaxId
        BY <2>1, <3>2
      <3>4. QED BY <2>1, <3>1, <3>3 DEF ThreadsTypeOK, ThreadsInv, PagesKept, ReadingKept
    <2>11. QED BY <2>6, <2>7, <2>8, <2>9, <2>10 DEF ThreadsAgree
  <1>3. QED BY <1>1, <1>2

(* Listing, paging and reading the threads of the pull request under       *)
(* review show one state of it, the one at the start of the run, without   *)
(* the agent's own comments (ThreadsAgree; _filter_snapshot, walk).        *)
THEOREM ThreadsShowOneState == Spec => []ThreadsAgree
  <1>1. Init => ThreadsInv
    BY ThreadsStart DEF Init
  <1>2. [Next]_vars => [ThreadsNext]_threadVars
    BY DEF Next, vars
  <1>3. QED BY <1>1, <1>2, ThreadsFacts, ThreadsStep, PTL DEF Spec

------------------------------------------------------------------------------
(***************************************************************************)
(* The replay.  While a pull request lives its comments keep their place   *)
(* in their thread, and a comment that is gone does not come back, unless  *)
(* it was gone because the comments could not be read.  So the driver,     *)
(* which adds what a snapshot has and its predecessor lacks, knows after   *)
(* each snapshot every comment of it, under its own id, and twice only     *)
(* when it was missed between.                                             *)
(***************************************************************************)
ThreadRow == [parent : Nat, bot : BOOLEAN, resolved : BOOLEAN]
Talk == UNION {[D -> ThreadRow] : D \in SUBSET Nat}
TapeRow == [index : Nat, sha : Nat, status : {"open", "merged"}, read : BOOLEAN,
            comments : Talk]
ReplayRow == [id : Nat, sid : Nat, parent : Nat, resolved : BOOLEAN]

\* The comments at one time: a reply is younger than its parent, which is there.
Conversation(t, next) ==
    /\ t \in Talk
    /\ \A c \in DOMAIN t : /\ c \in Nat /\ c # 0 /\ c < next
                           /\ t[c].parent < c
                           /\ t[c].parent # 0 => t[c].parent \in DOMAIN t

\* The snapshots in a row, and the pull request as it is now behind them.
Time(k) == IF k = Len(tape) + 1 THEN thread ELSE tape[k].comments

Lasting ==
    /\ \A k \in 1 .. (Len(tape) + 1) : Conversation(Time(k), nextId)
    /\ \A k, l \in 1 .. (Len(tape) + 1) : \A c \in DOMAIN Time(k) \cap DOMAIN Time(l) :
          Time(k)[c].parent = Time(l)[c].parent
    /\ \A k, l, m \in 1 .. (Len(tape) + 1) : k < l /\ l < m /\ tape[l].read =>
          DOMAIN Time(k) \cap DOMAIN Time(m) \subseteq DOMAIN Time(l)

TapeKept ==
    /\ origin \in Origin /\ nextId \in Nat /\ nextId # 0 /\ changes \in 0 .. MaxChanges
    /\ IsFiniteSet(Comments) /\ Cardinality(Comments) <= MaxComments
    /\ tape \in Seq(TapeRow)
    /\ \A k \in DOMAIN tape : tape[k].index \in 1 .. k /\ tape[k].sha \in 1 .. k
    /\ Lasting

LEMMA NoTalk == <<>> \in Talk /\ DOMAIN <<>> = {} /\ \A n : Conversation(<<>>, n)
  <1>1. DOMAIN <<>> = {}
    OBVIOUS
  <1>2. <<>> \in [{} -> ThreadRow]
    OBVIOUS
  <1>3. <<>> \in Talk
    BY <1>2 DEF Talk
  <1>4. QED BY <1>1, <1>3 DEF Conversation

LEMMA TalkIs ==
    ASSUME NEW t
    PROVE  t \in Talk <=> t \in [DOMAIN t -> ThreadRow] /\ DOMAIN t \subseteq Nat
  BY DEF Talk

\* Only the talk of today changes, and only by a new comment, a flag, or a removal.
LEMMA TimeGoesOn ==
    ASSUME TapeKept, UNCHANGED tape, nextId' \in Nat, nextId <= nextId',
           Conversation(thread', nextId'),
           \A c \in DOMAIN thread' : \/ c = nextId
                                     \/ c \in DOMAIN thread /\ thread'[c].parent = thread[c].parent
    PROVE  Lasting'
  <1>0. Len(tape) \in Nat
    BY DEF TapeKept
  <1>1. PICK n \in Nat : n = Len(tape) + 1
    BY <1>0
  <1>2. Time(n)' = thread' /\ Time(n) = thread /\ \A k \in 1 .. n : k # n => Time(k)' = Time(k)
    BY <1>1 DEF Time
  <1>3. \A k \in 1 .. n : Conversation(Time(k), nextId) /\ nextId \notin DOMAIN Time(k)
    BY <1>1 DEF TapeKept, Lasting, Conversation
  <1>4. \A k \in 1 .. n : Conversation(Time(k)', nextId')
    <2> SUFFICES ASSUME NEW k \in 1 .. n PROVE Conversation(Time(k)', nextId')
      OBVIOUS
    <2>1. CASE k = n
      BY <1>2, <2>1
    <2>2. CASE k # n
      <3>1. \A c \in Nat : c < nextId => c < nextId'
        BY DEF TapeKept
      <3>2. QED BY <1>2, <1>3, <2>2, <3>1 DEF Conversation
    <2>3. QED BY <2>1, <2>2
  <1>5. \A k \in 1 .. n : \A c \in DOMAIN Time(k)' :
            \/ k = n /\ c = nextId
            \/ c \in DOMAIN Time(k) /\ Time(k)'[c].parent = Time(k)[c].parent
    BY <1>2
  <1>6. ASSUME NEW k \in 1 .. n, NEW l \in 1 .. n, NEW c \in DOMAIN Time(k)' \cap DOMAIN Time(l)'
        PROVE  Time(k)'[c].parent = Time(l)'[c].parent
    <2>1. CASE c = nextId
      BY <1>3, <1>5, <2>1
    <2>2. CASE c # nextId
      BY <1>1, <1>5, <2>2 DEF TapeKept, Lasting
    <2>3. QED BY <2>1, <2>2
  <1>7. ASSUME NEW k \in 1 .. n, NEW l \in 1 .. n, NEW m \in 1 .. n, k < l, l < m, tape[l].read,
               NEW c \in DOMAIN Time(k)' \cap DOMAIN Time(m)'
        PROVE  c \in DOMAIN Time(l)'
    <2>1. k # n /\ l # n
      BY <1>1, <1>7
    <2>2. c \in DOMAIN Time(k) /\ c # nextId
      BY <1>2, <1>3, <2>1
    <2>3. c \in DOMAIN Time(m)
      BY <1>5, <2>2
    <2>4. QED BY <1>1, <1>2, <1>7, <2>1, <2>2, <2>3 DEF TapeKept, Lasting
  <1>8. Len(tape)' + 1 = n
    BY <1>1
  <1>9. QED BY <1>4, <1>6, <1>7, <1>8 DEF Lasting

LEMMA CommentJoins ==
    ASSUME TapeKept, Cardinality(Comments) < MaxComments,
           NEW parent \in Comments \cup {0}, NEW bot \in BOOLEAN
    PROVE  LET t == With(nextId, parent, bot)
           IN  /\ Conversation(t, nextId + 1)
               /\ IsFiniteSet(DOMAIN t) /\ Cardinality(DOMAIN t) <= MaxComments
               /\ DOMAIN t = Comments \cup {nextId}
               /\ \A c \in Comments : t[c].parent = thread[c].parent
  <1> DEFINE t == With(nextId, parent, bot)
             n == nextId
  <1>1. Conversation(thread, n) /\ n \in Nat /\ n # 0
    <2>1. Len(tape) + 1 \in 1 .. (Len(tape) + 1)
      BY DEF TapeKept
    <2>2. QED BY <2>1 DEF TapeKept, Lasting, Time
  <1>2. n \notin Comments /\ parent \in Nat /\ parent < n /\ \A c \in Comments : c < n + 1
    BY <1>1 DEF Conversation, Comments
  <1>3. DOMAIN t = Comments \cup {n} /\ t[n] = [parent |-> parent, bot |-> bot, resolved |-> FALSE]
        /\ \A c \in Comments : t[c] = thread[c]
    BY <1>2 DEF With
  <1>4. thread \in [Comments -> ThreadRow] /\ Comments \subseteq Nat
    BY <1>1, TalkIs DEF Conversation, Comments
  <1>5. t \in [Comments \cup {n} -> ThreadRow]
    BY <1>1, <1>2, <1>4 DEF With, ThreadRow
  <1> HIDE DEF t
  <1>6. t \in Talk
    BY <1>1, <1>3, <1>4, <1>5, TalkIs
  <1>7. ASSUME NEW c \in DOMAIN t
        PROVE  /\ c \in Nat /\ c # 0 /\ c < n + 1 /\ t[c].parent < c
               /\ t[c].parent # 0 => t[c].parent \in DOMAIN t
    <2>1. CASE c = n
      BY <1>1, <1>2, <1>3, <2>1
    <2>2. CASE c # n
      BY <1>1, <1>2, <1>3, <2>2 DEF Conversation, Comments
    <2>3. QED BY <2>1, <2>2
  <1>8. IsFiniteSet(Comments \cup {n}) /\ Cardinality(Comments \cup {n}) <= MaxComments
    <2>1. IsFiniteSet(Comments) /\ Cardinality(Comments) \in Nat /\ MaxComments \in Nat
      BY FS_CardinalityType, ReplayAssumption DEF TapeKept
    <2> HIDE DEF n
    <2>2. IsFiniteSet(Comments \cup {n}) /\ Cardinality(Comments \cup {n}) = Cardinality(Comments) + 1
      BY <1>2, <2>1, FS_AddElement
    <2>3. QED BY <2>1, <2>2
  <1>9. QED BY <1>3, <1>6, <1>7, <1>8 DEF Conversation, t

LEMMA Today ==
    ASSUME TapeKept
    PROVE  /\ Conversation(thread, nextId) /\ thread \in [Comments -> ThreadRow] /\ Comments \subseteq Nat
           /\ Len(tape) \in Nat /\ DOMAIN tape = 1 .. Len(tape) /\ DOMAIN thread = Comments
           /\ \A k \in DOMAIN tape : tape[k] \in TapeRow
  <1>1. Len(tape) \in Nat /\ DOMAIN tape = 1 .. Len(tape)
    BY DEF TapeKept
  <1>2. Conversation(thread, nextId)
    BY <1>1 DEF TapeKept, Lasting, Time
  <1>3. \A k \in DOMAIN tape : tape[k] \in TapeRow
    BY <1>1, ElementOfSeq DEF TapeKept
  <1>4. QED BY <1>1, <1>2, <1>3, TalkIs DEF Conversation, Comments

LEMMA HumanStep == ASSUME TapeKept, HumanComment PROVE TapeKept'
  <1>1. PICK parent \in Comments \cup {0} : thread' = With(nextId, parent, FALSE)
    BY DEF HumanComment
  <1>2. /\ Cardinality(Comments) < MaxComments /\ nextId' = nextId + 1
        /\ UNCHANGED <<origin, changes, tape>>
    BY DEF HumanComment, Recorded
  <1>3. /\ Conversation(thread', nextId') /\ IsFiniteSet(Comments') /\ Cardinality(Comments') <= MaxComments
        /\ DOMAIN thread' = Comments \cup {nextId} /\ \A c \in Comments : thread'[c].parent = thread[c].parent
    BY <1>1, <1>2, CommentJoins DEF Comments
  <1>4. nextId' \in Nat /\ nextId' # 0 /\ nextId <= nextId'
    BY <1>2 DEF TapeKept
  <1>5. Lasting'
    BY <1>2, <1>3, <1>4, TimeGoesOn DEF Comments
  <1>6. QED BY <1>2, <1>3, <1>4, <1>5 DEF TapeKept

LEMMA ToggleStep == ASSUME TapeKept, NEW c \in Comments, ToggleResolved(c) PROVE TapeKept'
  <1>1. /\ thread' = [thread EXCEPT ![c].resolved = ~@] /\ changes < MaxChanges /\ changes' = changes + 1
        /\ UNCHANGED <<origin, nextId, tape>>
    BY DEF ToggleResolved, Recorded
  <1>2. /\ DOMAIN thread' = DOMAIN thread /\ thread' \in [Comments -> ThreadRow]
        /\ \A d \in DOMAIN thread : thread'[d].parent = thread[d].parent
    BY <1>1, Today DEF ThreadRow
  <1>3. Conversation(thread', nextId')
    BY <1>1, <1>2, Today, TalkIs DEF Conversation
  <1>4. Lasting'
    BY <1>1, <1>2, <1>3, TimeGoesOn DEF TapeKept
  <1>5. changes' \in 0 .. MaxChanges
    BY <1>1, ReplayAssumption DEF TapeKept
  <1>6. QED BY <1>1, <1>2, <1>4, <1>5 DEF TapeKept, Comments

LEMMA RemoveStep == ASSUME TapeKept, NEW c \in Comments, RemoveComment(c) PROVE TapeKept'
  <1>1. /\ thread' = [x \in Comments \ {c} |-> thread[x]] /\ changes < MaxChanges /\ changes' = changes + 1
        /\ \A x \in Comments : thread[x].parent # c
        /\ UNCHANGED <<origin, nextId, tape>>
    BY DEF RemoveComment, Recorded
  <1>2. /\ DOMAIN thread' = Comments \ {c} /\ thread' \in [Comments \ {c} -> ThreadRow]
        /\ \A d \in Comments \ {c} : thread'[d] = thread[d]
    BY <1>1, Today
  <1>3. thread' \in Talk
    BY <1>2, Today, TalkIs
  <1>4. Conversation(thread', nextId')
    BY <1>1, <1>2, <1>3, Today DEF Conversation
  <1>5. Lasting'
    BY <1>1, <1>2, <1>4, Today, TimeGoesOn DEF TapeKept
  <1>6. changes' \in 0 .. MaxChanges
    BY <1>1, ReplayAssumption DEF TapeKept
  <1>7. IsFiniteSet(Comments') /\ Cardinality(Comments') <= MaxComments
    <2>1. IsFiniteSet(Comments) /\ Cardinality(Comments) \in Nat /\ MaxComments \in Nat
          /\ Cardinality(Comments) <= MaxComments
      BY FS_CardinalityType, ReplayAssumption DEF TapeKept
    <2>2. IsFiniteSet(Comments \ {c}) /\ Cardinality(Comments \ {c}) = Cardinality(Comments) - 1
      BY <2>1, FS_RemoveElement
    <2>3. Comments' = Comments \ {c}
      BY <1>2 DEF Comments
    <2>4. QED BY <2>1, <2>2, <2>3
  <1>8. QED BY <1>1, <1>5, <1>6, <1>7 DEF TapeKept

LEMMA RecordStep == ASSUME TapeKept, RecordInvocation PROVE TapeKept'
  <1>0. /\ Len(tape) \in Nat /\ DOMAIN tape = 1 .. Len(tape) /\ tape \in Seq(TapeRow)
        /\ \A k \in DOMAIN tape : tape[k] \in TapeRow /\ tape[k].index \in 1 .. k /\ tape[k].sha \in 1 .. k
        /\ thread \in Talk
    BY Today DEF TapeKept, Conversation
  <1>1. PICK n \in Nat : n = Len(tape) + 1
    BY <1>0
  <1>2. PICK happened \in SUBSET {"overlap", "push", "merge", "unread"} :
          /\ tape = <<>> => happened \cap {"overlap", "push"} = {}
          /\ IF happened = {} THEN UNCHANGED changes
             ELSE changes < MaxChanges /\ changes' = changes + 1
          /\ tape' = Append(tape,
                [index |-> IF "overlap" \in happened THEN Last(tape).index ELSE Len(tape) + 1,
                 sha |-> IF tape = <<>> THEN 1
                         ELSE IF "push" \in happened THEN Last(tape).sha + 1 ELSE Last(tape).sha,
                 status |-> IF "merge" \in happened THEN "merged"
                            ELSE IF tape = <<>> THEN "open" ELSE Last(tape).status,
                 read |-> "unread" \notin happened,
                 comments |-> IF "unread" \in happened THEN <<>> ELSE thread])
    BY DEF RecordInvocation
  <1> DEFINE index == IF "overlap" \in happened THEN Last(tape).index ELSE Len(tape) + 1
             sha == IF tape = <<>> THEN 1
                    ELSE IF "push" \in happened THEN Last(tape).sha + 1 ELSE Last(tape).sha
             status == IF "merge" \in happened THEN "merged"
                       ELSE IF tape = <<>> THEN "open" ELSE Last(tape).status
             talk == IF "unread" \in happened THEN <<>> ELSE thread
             entry == [index |-> index, sha |-> sha, status |-> status,
                       read |-> "unread" \notin happened, comments |-> talk]
  <1>3. /\ tape' = Append(tape, entry) /\ entry.comments \in {thread, <<>>}
        /\ entry.read => entry.comments = thread
        /\ entry \in TapeRow /\ entry.index \in 1 .. n /\ entry.sha \in 1 .. n
    <2>1. tape' = Append(tape, entry) /\ talk \in {thread, <<>>} /\ talk \in Talk
      BY <1>0, <1>2, NoTalk
    <2>2. ("unread" \notin happened) \in BOOLEAN /\ ("unread" \notin happened => talk = thread)
      OBVIOUS
    <2>3. index \in 1 .. n /\ sha \in 1 .. n /\ status \in {"open", "merged"}
      <3>1. CASE tape = <<>>
        BY <1>1, <1>2, <3>1
      <3>2. CASE tape # <<>>
        <4> DEFINE last == tape[Len(tape)]
        <4>1. Len(tape) \in DOMAIN tape /\ Last(tape) = last
          BY <1>0, <3>2 DEF Last
        <4>2. last \in TapeRow /\ last.index \in 1 .. (n - 1) /\ last.sha \in 1 .. (n - 1)
          BY <1>0, <1>1, <4>1
        <4> HIDE DEF last
        <4>3. index \in 1 .. n /\ sha \in 1 .. n
          BY <1>1, <3>2, <4>1, <4>2
        <4>4. status \in {"open", "merged"}
          BY <3>2, <4>1, <4>2 DEF TapeRow
        <4>5. QED BY <4>3, <4>4
      <3>3. QED BY <3>1, <3>2
    <2> HIDE DEF index, sha, status, talk
    <2>4. index \in Nat /\ sha \in Nat
      BY <2>3
    <2>5. entry \in TapeRow
      BY <2>1, <2>2, <2>3, <2>4 DEF TapeRow
    <2>6. QED BY <2>1, <2>2, <2>3, <2>5
  <1> HIDE DEF entry
  <1>4. /\ tape' \in Seq(TapeRow) /\ DOMAIN tape' = 1 .. n /\ tape'[n] = entry /\ Len(tape') = n
        /\ \A k \in DOMAIN tape : tape'[k] = tape[k]
    BY <1>0, <1>1, <1>3
  <1>5. \A k \in DOMAIN tape' : tape'[k].index \in 1 .. k /\ tape'[k].sha \in 1 .. k
    <2> SUFFICES ASSUME NEW k \in 1 .. n PROVE tape'[k].index \in 1 .. k /\ tape'[k].sha \in 1 .. k
      BY <1>4
    <2>1. k = n \/ k \in DOMAIN tape
      BY <1>0, <1>1
    <2>2. QED BY <1>0, <1>3, <1>4, <2>1
  <1>6. /\ UNCHANGED origin /\ nextId' \in Nat /\ nextId' # 0 /\ nextId <= nextId'
        /\ Conversation(thread', nextId')
        /\ IsFiniteSet(Comments') /\ Cardinality(Comments') <= MaxComments
        /\ \A c \in DOMAIN thread' : \/ c = nextId
                                     \/ c \in DOMAIN thread /\ thread'[c].parent = thread[c].parent
    <2>1. CASE UNCHANGED <<thread, nextId>>
      BY <2>1, Today DEF RecordInvocation, Recorded, TapeKept, Comments
    <2>2. CASE Cardinality(Comments) < MaxComments /\ thread' = With(nextId, 0, TRUE) /\ nextId' = nextId + 1
      <3>1. /\ Conversation(thread', nextId + 1) /\ IsFiniteSet(DOMAIN thread')
            /\ Cardinality(DOMAIN thread') <= MaxComments /\ DOMAIN thread' = Comments \cup {nextId}
            /\ \A c \in Comments : thread'[c].parent = thread[c].parent
        <4>1. 0 \in Comments \cup {0} /\ TRUE \in BOOLEAN
          OBVIOUS
        <4>2. QED BY <2>2, <4>1, CommentJoins
      <3>2. nextId' \in Nat /\ nextId' # 0 /\ nextId <= nextId'
        BY <2>2 DEF TapeKept
      <3>3. QED BY <2>2, <3>1, <3>2 DEF RecordInvocation, Recorded, Comments
    <2>3. QED BY <2>1, <2>2 DEF RecordInvocation
  <1>7. /\ Time(n) = thread /\ Time(n)' \in {thread, <<>>} /\ (tape'[n].read => Time(n)' = thread)
        /\ \A k \in 1 .. n : k # n => Time(k)' = Time(k) /\ tape'[k] = tape[k]
    <2>1. Time(n) = thread
      BY <1>1 DEF Time
    <2>2. ASSUME NEW k \in 1 .. n
          PROVE  /\ k = n => Time(n)' \in {thread, <<>>} /\ (tape'[n].read => Time(n)' = thread)
                 /\ k # n => Time(k)' = Time(k) /\ tape'[k] = tape[k]
      <3>1. k # n + 1 /\ Time(k)' = tape'[k].comments
        BY <1>4 DEF Time
      <3>2. CASE k = n
        BY <1>3, <1>4, <2>1, <3>1, <3>2
      <3>3. CASE k # n
        <4>1. k \in DOMAIN tape /\ Time(k) = tape[k].comments
          BY <1>0, <1>1, <3>3 DEF Time
        <4>2. QED BY <1>4, <3>1, <3>3, <4>1
      <3>4. QED BY <3>2, <3>3
    <2>3. n \in 1 .. n
      BY <1>0, <1>1
    <2>4. QED BY <2>1, <2>2, <2>3
  <1>8. Time(n + 1)' = thread'
    BY <1>4 DEF Time
  <1>9. \A k \in 1 .. n : Conversation(Time(k), nextId) /\ nextId \notin DOMAIN Time(k)
    BY <1>1 DEF TapeKept, Lasting, Conversation
  <1>10. \A k \in 1 .. (n + 1) : k = n + 1 \/ k \in 1 .. n
    OBVIOUS
  <1>11. \A k \in 1 .. (n + 1) : \A c \in DOMAIN Time(k)' :
            \/ k = n + 1 /\ c = nextId
            \/ k = n + 1 /\ c \in DOMAIN Time(n) /\ Time(k)'[c].parent = Time(n)[c].parent
            \/ k \in 1 .. n /\ c \in DOMAIN Time(k) /\ Time(k)'[c].parent = Time(k)[c].parent
    BY <1>6, <1>7, <1>8, <1>10, NoTalk
  <1>12. \A k \in 1 .. (n + 1) : Conversation(Time(k)', nextId')
    <2> SUFFICES ASSUME NEW k \in 1 .. (n + 1) PROVE Conversation(Time(k)', nextId')
      OBVIOUS
    <2>1. CASE k = n + 1
      BY <1>6, <1>8, <2>1
    <2>2. CASE k \in 1 .. n
      <3>1. \A c \in Nat : c < nextId => c < nextId'
        BY <1>6 DEF TapeKept
      <3>2. Conversation(Time(k), nextId')
        BY <1>9, <2>2, <3>1 DEF Conversation
      <3>3. Conversation(<<>>, nextId')
        BY NoTalk
      <3>4. Time(k)' = Time(k) \/ Time(k)' = <<>>
        BY <1>7, <2>2
      <3>5. QED BY <3>2, <3>3, <3>4
    <2>3. QED BY <1>10, <2>1, <2>2
  <1>13. n \in 1 .. n
    BY <1>0, <1>1
  <1>14. ASSUME NEW k \in 1 .. (n + 1), NEW l \in 1 .. (n + 1), NEW c \in DOMAIN Time(k)' \cap DOMAIN Time(l)'
         PROVE  Time(k)'[c].parent = Time(l)'[c].parent
    <2>1. CASE c = nextId
      BY <1>9, <1>11, <1>13, <2>1
    <2>2. CASE c # nextId
      <3>1. \A i, j \in 1 .. n : \A x \in DOMAIN Time(i) \cap DOMAIN Time(j) :
               Time(i)[x].parent = Time(j)[x].parent
        BY <1>1 DEF TapeKept, Lasting
      <3>2. QED BY <1>11, <1>13, <2>2, <3>1
    <2>3. QED BY <2>1, <2>2
  <1>15. ASSUME NEW k \in 1 .. (n + 1), NEW l \in 1 .. (n + 1), NEW m \in 1 .. (n + 1), k < l, l < m,
                tape'[l].read, NEW c \in DOMAIN Time(k)' \cap DOMAIN Time(m)'
         PROVE  c \in DOMAIN Time(l)'
    <2>1. k \in 1 .. n /\ l \in 1 .. n
      BY <1>15
    <2>2. c \in DOMAIN Time(k) /\ c # nextId
      BY <1>7, <1>9, <2>1, NoTalk
    <2>3. \A i, j, h \in 1 .. n : i < j /\ j < h /\ tape[j].read =>
             DOMAIN Time(i) \cap DOMAIN Time(h) \subseteq DOMAIN Time(j)
      BY <1>1 DEF TapeKept, Lasting
    <2>4. CASE m = n + 1
      <3>1. c \in DOMAIN Time(n)
        BY <1>11, <2>2, <2>4
      <3>2. l = n \/ (l < n /\ l # n)
        BY <2>1
      <3>3. QED BY <1>7, <1>13, <1>15, <2>1, <2>2, <2>3, <3>1, <3>2
    <2>5. CASE m \in 1 .. n
      <3>1. c \in DOMAIN Time(m) /\ l # n
        BY <1>7, <1>15, <2>1, <2>5, NoTalk
      <3>2. QED BY <1>7, <1>15, <2>1, <2>2, <2>3, <2>5, <3>1
    <2>6. QED BY <1>10, <2>4, <2>5
  <1>16. Lasting'
    <2>1. Len(tape') + 1 = n + 1
      BY <1>4
    <2>2. QED BY <1>12, <1>14, <1>15, <2>1 DEF Lasting
  <1>17. changes' \in 0 .. MaxChanges
    BY <1>2, ReplayAssumption DEF TapeKept
  <1>18. QED BY <1>4, <1>5, <1>6, <1>16, <1>17 DEF TapeKept

LEMMA TapeStart == ReplayInit => TapeKept
  <1> SUFFICES ASSUME ReplayInit PROVE TapeKept
    OBVIOUS
  <1>1. thread = <<>> /\ tape = <<>> /\ nextId \in Nat /\ nextId # 0 /\ changes \in 0 .. MaxChanges
        /\ origin \in Origin /\ MaxComments \in Nat
    BY ReplayAssumption DEF ReplayInit
  <1>2. Comments = {} /\ IsFiniteSet(Comments) /\ Cardinality(Comments) = 0
    BY <1>1, NoTalk, FS_EmptySet DEF Comments
  <1>3. Len(tape) = 0 /\ tape \in Seq(TapeRow) /\ DOMAIN tape = {}
    BY <1>1
  <1>4. Lasting
    <2>1. \A k \in 1 .. (Len(tape) + 1) : k = 1 /\ Time(k) = <<>>
      BY <1>1, <1>3 DEF Time
    <2>2. QED BY <2>1, NoTalk DEF Lasting
  <1>5. QED BY <1>1, <1>2, <1>3, <1>4 DEF TapeKept

LEMMA StartTape == ASSUME TapeKept, StartReplay PROVE TapeKept'
  <1>1. thread' = <<>> /\ changes' = 0 /\ UNCHANGED <<origin, nextId, tape>>
    BY DEF StartReplay
  <1>2. Comments' = {} /\ IsFiniteSet(Comments') /\ Cardinality(Comments') = 0 /\ MaxComments \in Nat
    BY <1>1, NoTalk, FS_EmptySet, ReplayAssumption DEF Comments
  <1>3. Lasting'
    <2>1. Conversation(thread', nextId') /\ DOMAIN thread' = {}
      BY <1>1, NoTalk
    <2>2. nextId' \in Nat /\ nextId <= nextId'
      BY <1>1 DEF TapeKept
    <2>3. QED BY <1>1, <2>1, <2>2, TimeGoesOn
  <1>4. changes' \in 0 .. MaxChanges
    BY <1>1, ReplayAssumption
  <1>5. QED BY <1>1, <1>2, <1>3, <1>4 DEF TapeKept

(***************************************************************************)
(* The driver.  The rows of its state: those of replayed agents count up   *)
(* from the floor of the fake, those of the recording keep their id, and a *)
(* comment has two only if it was missed.                                  *)
(***************************************************************************)
StateRows(cs) ==
    /\ cs \in Seq(ReplayRow)
    /\ \E top \in Nat : \A i \in DOMAIN cs : cs[i].id <= top
    /\ \A i \in DOMAIN cs : /\ cs[i].sid \in {0, cs[i].id}
                            /\ cs[i].sid = 0 => AutoFloor <= cs[i].id
    /\ \A i, j \in DOMAIN cs : i < j /\ cs[j].sid = 0 => cs[i].id < cs[j].id

\* A row of a replayed agent has the id.
Lent(cs, c) == \E i \in DOMAIN cs : cs[i].id = c /\ cs[i].sid = 0

\* A row has the flag that snapshot k shows of a comment.
Tells(cs, c, k) ==
    \E i \in DOMAIN cs : cs[i].sid = c /\ (Lent(cs, c) \/ cs[i].resolved = Shown(k)[c].resolved)

\* The comments of the first snapshots.
Earlier(k) == {c \in Nat : \E l \in 1 .. k : c \in DOMAIN Shown(l)}
From(cs, ids) == \A i \in DOMAIN cs : cs[i].sid # 0 => cs[i].sid \in ids

\* Those of them that a later one of the first snapshots could not read.
Missed(k) == {c \in Nat : \E j \in 1 .. k :
                 ~tape[j].read /\ \E i \in 1 .. (j - 1) : c \in DOMAIN Shown(i)}
Unique(cs, but) ==
    \A i, j \in DOMAIN cs : i # j /\ cs[i].sid = cs[j].sid /\ cs[i].sid # 0 => cs[i].sid \in but

\* Every row is in the thread where the snapshots have its comment.
Placed(cs) ==
    \A i \in DOMAIN cs : cs[i].sid # 0 =>
        \A k \in 0 .. Len(tape) : cs[i].sid \in DOMAIN Shown(k) =>
            cs[i].parent = Shown(k)[cs[i].sid].parent

Traced(cs, k) == From(cs, Earlier(k)) /\ Unique(cs, Missed(k)) /\ Placed(cs)

ReplayState == [sha : Nat, status : {"open", "merged", "approved"}, comments : Seq(ReplayRow),
                skipped : SUBSET Nat]

\* The snapshot whose comments the state has taken in, and that of its commit.
Seen == IF turn = "apply" THEN at - 1 ELSE at
Held == IF turn = "apply" /\ at > 1 THEN at - 1 ELSE at

DriverInv ==
    /\ at \in 0 .. Len(tape) /\ turn \in {"record", "apply", "run", "next", "end"}
    /\ turn = "record" <=> at = 0
    /\ state \in ReplayState /\ state.sha \in 0 .. Len(tape)
    /\ at = 0 => state.comments = <<>> /\ state.skipped = {}
    /\ at > 0 => state.sha = tape[Held].sha
    /\ checkout \in 0 .. Len(tape)
    /\ turn = "next" /\ (\A k \in 1 .. (at - 1) : tape[k].index # tape[at].index) => checkout = state.sha
    /\ StateRows(state.comments) /\ Traced(state.comments, Seen)
    /\ origin = "server" => /\ state.skipped = {}
                            /\ \A c \in DOMAIN Shown(Seen) : Tells(state.comments, c, Seen)

\* What the recording says of a snapshot.
LEMMA ShownIs ==
    ASSUME TapeKept, NEW k \in 0 .. Len(tape)
    PROVE  /\ \A c \in DOMAIN Shown(k) :
                 /\ c \in Nat /\ c # 0 /\ c < nextId /\ Shown(k)[c] \in ThreadRow
                 /\ Shown(k)[c].parent < c
                 /\ Shown(k)[c].parent # 0 => Shown(k)[c].parent \in DOMAIN Shown(k)
           /\ \A l \in 0 .. Len(tape) : \A c \in DOMAIN Shown(k) \cap DOMAIN Shown(l) :
                 Shown(k)[c].parent = Shown(l)[c].parent
           /\ \A l, m \in 1 .. Len(tape) : \A c \in DOMAIN Shown(l) \cap DOMAIN Shown(k) :
                 l < m /\ m < k /\ tape[m].read => c \in DOMAIN Shown(m)
  <1>0. Len(tape) \in Nat
    BY Today
  <1>1. \A l \in 0 .. Len(tape) : (l = 0 /\ Shown(l) = <<>>) \/ (l \in 1 .. (Len(tape) + 1) /\ Shown(l) = Time(l))
    BY <1>0 DEF Shown, Time
  <1>2. CASE k = 0
    BY <1>1, <1>2, NoTalk
  <1>3. CASE k # 0
    <2>1. k \in 1 .. (Len(tape) + 1) /\ Shown(k) = Time(k)
      BY <1>1, <1>3
    <2>2. Conversation(Shown(k), nextId)
      BY <2>1 DEF TapeKept, Lasting
    <2>3. \A c \in DOMAIN Shown(k) : Shown(k)[c] \in ThreadRow
      BY <2>2, TalkIs DEF Conversation
    <2>4. \A l \in 0 .. Len(tape) : \A c \in DOMAIN Shown(k) \cap DOMAIN Shown(l) :
             Shown(k)[c].parent = Shown(l)[c].parent
      BY <1>1, <2>1, NoTalk DEF TapeKept, Lasting
    <2>5. ASSUME NEW l \in 1 .. Len(tape), NEW m \in 1 .. Len(tape),
                 NEW c \in DOMAIN Shown(l) \cap DOMAIN Shown(k), l < m, m < k, tape[m].read
          PROVE  c \in DOMAIN Shown(m)
      <3>1. l \in 1 .. (Len(tape) + 1) /\ Shown(l) = Time(l) /\ m \in 1 .. (Len(tape) + 1) /\ Shown(m) = Time(m)
        BY <1>0, <1>1
      <3>2. QED BY <2>1, <2>5, <3>1 DEF TapeKept, Lasting
    <2>6. QED BY <2>2, <2>3, <2>4, <2>5 DEF Conversation
  <1>4. QED BY <1>2, <1>3

\* A comment that a snapshot adds was in none before, or was missed.
LEMMA AddedAreNew ==
    ASSUME TapeKept, at \in 1 .. Len(tape)
    PROVE  /\ nextId - 1 \in Nat /\ Added(at) \subseteq 1 .. (nextId - 1)
           /\ \A c \in Added(at) : c \in DOMAIN Shown(at) /\ (c \in Earlier(at - 1) => c \in Missed(at))
           /\ \A c \in Missed(at - 1) : c \in Missed(at)
  <1>0. Len(tape) \in Nat /\ nextId \in Nat /\ nextId - 1 \in Nat /\ at \in 0 .. Len(tape)
    BY Today DEF TapeKept
  <1>1. \A c \in Added(at) : c \in DOMAIN Shown(at) /\ c \notin DOMAIN Shown(at - 1)
    BY DEF Added
  <1>2. \A c \in Added(at) : c \in 1 .. (nextId - 1)
    BY <1>0, <1>1, ShownIs
  <1>3. ASSUME NEW c \in Added(at), c \in Earlier(at - 1) PROVE c \in Missed(at)
    <2>1. PICK l \in 1 .. (at - 1) : c \in DOMAIN Shown(l)
      BY <1>3 DEF Earlier
    <2>2. l # at - 1
      BY <1>1, <2>1
    <2>3. /\ l \in 1 .. Len(tape) /\ at - 1 \in 1 .. Len(tape) /\ l < at - 1 /\ at - 1 < at
          /\ at - 1 \in 1 .. at /\ l \in 1 .. (at - 1 - 1)
      BY <1>0, <2>2
    <2>4. ~tape[at - 1].read
      BY <1>0, <1>1, <2>1, <2>3, ShownIs
    <2>5. c \in Nat
      BY <1>0, <1>2
    <2>6. QED BY <2>1, <2>3, <2>4, <2>5 DEF Missed
  <1>4. \A c \in Missed(at - 1) : c \in Missed(at)
    <2>1. \A j \in 1 .. (at - 1) : j \in 1 .. at
      BY <1>0
    <2>2. QED BY <2>1 DEF Missed
  <1>5. QED BY <1>0, <1>1, <1>2, <1>3, <1>4

\* A row may join the others.
LEMMA RowJoins ==
    ASSUME NEW cs, StateRows(cs), NEW entry \in ReplayRow, entry.sid \in {0, entry.id},
           entry.sid = 0 => AutoFloor <= entry.id /\ \A i \in DOMAIN cs : cs[i].id < entry.id
    PROVE  /\ StateRows(Append(cs, entry))
           /\ Len(cs) + 1 \in DOMAIN Append(cs, entry) /\ Append(cs, entry)[Len(cs) + 1] = entry
           /\ \A i \in DOMAIN cs : i \in DOMAIN Append(cs, entry) /\ Append(cs, entry)[i] = cs[i]
           /\ \A i \in DOMAIN Append(cs, entry) : i \in DOMAIN cs \/ i = Len(cs) + 1
  <1>0. cs \in Seq(ReplayRow) /\ Len(cs) \in Nat /\ DOMAIN cs = 1 .. Len(cs)
    BY DEF StateRows
  <1>1. PICK n \in Nat : n = Len(cs) + 1
    BY <1>0
  <1> DEFINE new == Append(cs, entry)
  <1>2. /\ new \in Seq(ReplayRow) /\ DOMAIN new = 1 .. n /\ new[n] = entry
        /\ \A i \in DOMAIN cs : i \in 1 .. n /\ i < n /\ new[i] = cs[i]
    BY <1>0, <1>1
  <1>3. \A i \in 1 .. n : i = n \/ i \in DOMAIN cs
    BY <1>0, <1>1
  <1> HIDE DEF new
  <1>4. \E top \in Nat : \A i \in 1 .. n : new[i].id <= top
    <2>1. PICK top \in Nat : \A i \in DOMAIN cs : cs[i].id <= top
      BY DEF StateRows
    <2>2. entry.id \in Nat /\ \A i \in DOMAIN cs : cs[i].id \in Nat
      <3>1. \A i \in DOMAIN cs : cs[i] \in ReplayRow
        BY <1>0, ElementOfSeq
      <3>2. QED BY <3>1 DEF ReplayRow
    <2>3. PICK both \in Nat : top <= both /\ entry.id <= both
      <3>1. top + entry.id \in Nat /\ top <= top + entry.id /\ entry.id <= top + entry.id
        BY <2>2
      <3>2. QED BY <3>1
    <2>4. \A i \in 1 .. n : new[i].id <= both
      <3> SUFFICES ASSUME NEW i \in 1 .. n PROVE new[i].id <= both
        OBVIOUS
      <3>1. CASE i = n
        BY <1>2, <2>3, <3>1
      <3>2. CASE i \in DOMAIN cs
        <4>1. new[i].id = cs[i].id /\ cs[i].id \in Nat /\ cs[i].id <= top
          BY <1>2, <2>1, <2>2, <3>2
        <4>2. QED BY <2>3, <4>1
      <3>3. QED BY <1>3, <3>1, <3>2
    <2>5. QED BY <2>4
  <1>5. \A i \in 1 .. n : new[i].sid \in {0, new[i].id} /\ (new[i].sid = 0 => AutoFloor <= new[i].id)
    BY <1>2, <1>3 DEF StateRows
  <1>6. \A i, j \in 1 .. n : i < j /\ new[j].sid = 0 => new[i].id < new[j].id
    <2> SUFFICES ASSUME NEW i \in 1 .. n, NEW j \in 1 .. n, i < j, new[j].sid = 0
                 PROVE  new[i].id < new[j].id
      OBVIOUS
    <2>1. i \in DOMAIN cs
      BY <1>1, <1>3
    <2>2. QED BY <1>2, <1>3, <2>1 DEF StateRows
  <1>7. StateRows(new)
    BY <1>2, <1>4, <1>5, <1>6 DEF StateRows
  <1>8. QED BY <1>1, <1>2, <1>3, <1>7 DEF new

\* f is the recursion of AddComments.
AddsUp(f, n, s, ids) ==
    \A m \in 0 .. n : f[m] = IF m = 0 THEN s ELSE AddComment(f[m - 1], Kth(m, ids))
Addable(n, s, ids) == \E f : AddsUp(f, n, s, ids)

LEMMA AddsExist ==
    ASSUME NEW s, NEW ids, NEW n \in Nat
    PROVE  Addable(n, s, ids)
  <1> DEFINE T == {k \in Nat : Addable(k, s, ids)}
  <1>1. 0 \in T
    <2> DEFINE f == [m \in 0 .. 0 |-> s]
    <2>1. f[0] = s /\ \A m \in 0 .. 0 : m = 0
      OBVIOUS
    <2> HIDE DEF f
    <2>2. AddsUp(f, 0, s, ids)
      BY <2>1 DEF AddsUp
    <2>3. QED BY <2>2 DEF Addable
  <1>2. ASSUME NEW k \in Nat, k \in T PROVE k + 1 \in T
    <2>1. PICK g : AddsUp(g, k, s, ids)
      BY <1>2 DEF Addable
    <2> DEFINE f == [m \in 0 .. (k + 1) |-> IF m <= k THEN g[m] ELSE AddComment(g[k], Kth(k + 1, ids))]
    <2>2. (\A m \in 0 .. k : f[m] = g[m]) /\ f[k + 1] = AddComment(g[k], Kth(k + 1, ids))
      OBVIOUS
    <2> HIDE DEF f
    <2>3. ASSUME NEW m \in 0 .. (k + 1)
          PROVE  f[m] = IF m = 0 THEN s ELSE AddComment(f[m - 1], Kth(m, ids))
      <3>1. CASE m = k + 1
        <4>1. m # 0 /\ m - 1 = k /\ k \in 0 .. k
          BY <3>1
        <4>2. QED BY <2>2, <3>1, <4>1
      <3>2. CASE m \in 0 .. k
        <4>1. m # 0 => m - 1 \in 0 .. k
          BY <3>2
        <4>2. QED BY <2>1, <2>2, <3>2, <4>1 DEF AddsUp
      <3>3. m = k + 1 \/ m \in 0 .. k
        OBVIOUS
      <3>4. QED BY <3>1, <3>2, <3>3
    <2>4. AddsUp(f, k + 1, s, ids)
      BY <2>3 DEF AddsUp
    <2>5. QED BY <2>4 DEF Addable
  <1>3. Nat \subseteq T
    <2> HIDE DEF T
    <2>1. QED BY <1>1, <1>2, EveryNumber
  <1>4. QED BY <1>3

\* What AddComments yields is the last state of that recursion.
LEMMA AddCommentsIs ==
    ASSUME NEW s, NEW ids, Cardinality(ids) \in Nat
    PROVE  \E f : AddsUp(f, Cardinality(ids), s, ids) /\ AddComments(s, ids) = f[Cardinality(ids)]
  <1> DEFINE N == Cardinality(ids)
             Step(f, n) == IF n = 0 THEN s ELSE AddComment(f[n - 1], Kth(n, ids))
             b == CHOOSE f : f = [n \in 0 .. N |-> Step(f, n)]
  <1>1. AddComments(s, ids) = b[N]
    BY DEF AddComments
  <1>2. N \in Nat
    OBVIOUS
  <1> HIDE DEF N
  <1>3. b = [n \in 0 .. N |-> Step(b, n)]
    <2>1. PICK a : AddsUp(a, N, s, ids)
      BY <1>2, AddsExist DEF Addable
    <2> DEFINE e == [n \in 0 .. N |-> a[n]]
    <2>2. \A n \in 0 .. N : n # 0 => e[n - 1] = a[n - 1]
      BY <1>2
    <2>3. \A n \in 0 .. N : a[n] = Step(a, n)
      BY <2>1 DEF AddsUp
    <2>4. \A n \in 0 .. N : a[n] = Step(e, n)
      BY <2>2, <2>3
    <2>5. e = [n \in 0 .. N |-> Step(e, n)]
      BY <2>4
    <2> HIDE DEF e
    <2>6. QED BY <2>5
  <1> HIDE DEF b
  <1>4. AddsUp(b, N, s, ids)
    BY <1>3 DEF AddsUp
  <1>5. QED BY <1>1, <1>4 DEF N

(***************************************************************************)
(* What the events of one snapshot do to the state, the first n of them.   *)
(***************************************************************************)
Row(c) == [id |-> c, sid |-> c, parent |-> Shown(at)[c].parent, resolved |-> Shown(at)[c].resolved]
First(n) == {Kth(m, Added(at)) : m \in 1 .. n}

Taken(s, n) ==
    /\ s \in ReplayState /\ s.sha = state.sha /\ s.status = state.status
    /\ StateRows(s.comments) /\ From(s.comments, Earlier(at - 1) \cup First(n))
    /\ Unique(s.comments, Missed(at)) /\ Placed(s.comments)
    /\ \A i \in DOMAIN state.comments : i \in DOMAIN s.comments /\ s.comments[i] = state.comments[i]
    /\ origin = "server" => /\ s.skipped = {}
                            /\ \A c \in First(n) : \E i \in DOMAIN s.comments : s.comments[i] = Row(c)

LEMMA OneTaken ==
    ASSUME TapeKept, DriverInv, turn = "apply", at \in 1 .. Len(tape),
           NEW n \in 0 .. (Cardinality(Added(at)) - 1), NEW s, Taken(s, n)
    PROVE  Taken(AddComment(s, Kth(n + 1, Added(at))), n + 1)
  <1> DEFINE ids == Added(at)
             c == Kth(n + 1, ids)
             known == {s.comments[i].sid : i \in DOMAIN s.comments} \ {0}
             parent == Shown(at)[c].parent
             next == AddComment(s, c)
  <1>1. /\ Cardinality(ids) \in Nat
        /\ \A k \in 1 .. Cardinality(ids) : Kth(k, ids) \in ids
        /\ \A k, l \in 1 .. Cardinality(ids) : k < l => Kth(k, ids) < Kth(l, ids)
        /\ \A i \in ids : \E k \in 1 .. Cardinality(ids) : Kth(k, ids) = i
    <2>1. nextId - 1 \in Nat /\ Added(at) \subseteq 1 .. (nextId - 1)
      BY AddedAreNew
    <2>2. QED BY <2>1, PickedIs
  <1>2. n \in Nat /\ n + 1 \in 1 .. Cardinality(ids) /\ \A m \in 1 .. n : m \in 1 .. Cardinality(ids) /\ m < n + 1
    BY <1>1
  <1>3. c \in Added(at) /\ c \in Nat /\ c # 0 /\ c \in DOMAIN Shown(at)
        /\ (c \in Earlier(at - 1) => c \in Missed(at))
    BY <1>1, <1>2, AddedAreNew
  <1>4. First(n + 1) = First(n) \cup {c} /\ c \notin First(n)
    <2>1. \A m \in 1 .. (n + 1) : m \in 1 .. n \/ m = n + 1
      BY <1>2
    <2>2. \A m \in 1 .. n : m \in 1 .. (n + 1)
      BY <1>2
    <2>3. n + 1 \in 1 .. (n + 1)
      BY <1>2
    <2>4. First(n + 1) = First(n) \cup {c}
      BY <2>1, <2>2, <2>3 DEF First
    <2>5. ASSUME NEW m \in 1 .. n, c = Kth(m, ids) PROVE FALSE
      <3>1. Kth(m, ids) < c /\ Kth(m, ids) \in ids
        BY <1>1, <1>2
      <3>2. QED BY <1>3, <2>5, <3>1
    <2>6. QED BY <2>4, <2>5 DEF First
  <1>5. at \in 0 .. Len(tape) /\ Shown(at)[c] \in ThreadRow /\ parent < c /\ (parent # 0 => parent \in DOMAIN Shown(at))
    <2>1. at \in 0 .. Len(tape)
      BY Today
    <2>2. QED BY <1>3, <2>1, ShownIs
  <1>6. next = IF Orphan(parent, known) THEN [s EXCEPT !.skipped = @ \cup {c}]
               ELSE [s EXCEPT !.comments = Append(s.comments, Row(c))]
    BY DEF AddComment, Row
  <1>7. /\ s \in ReplayState /\ StateRows(s.comments) /\ From(s.comments, Earlier(at - 1) \cup First(n))
        /\ Unique(s.comments, Missed(at)) /\ Placed(s.comments)
    BY DEF Taken
  <1>8. origin = "server" => ~Orphan(parent, known)
    <2> SUFFICES ASSUME origin = "server", parent # 0 PROVE parent \in known
      BY DEF Orphan
    <2>1. parent \in DOMAIN Shown(at)
      BY <1>5
    <2>2. CASE parent \in DOMAIN Shown(at - 1)
      <3>1. Tells(state.comments, parent, at - 1)
        BY <2>2 DEF DriverInv, Seen
      <3>2. PICK i \in DOMAIN state.comments : state.comments[i].sid = parent
        BY <3>1 DEF Tells
      <3>3. QED BY <3>2 DEF Taken
    <2>3. CASE parent \notin DOMAIN Shown(at - 1)
      <3>1. parent \in ids
        BY <2>1, <2>3 DEF Added
      <3>2. PICK k \in 1 .. Cardinality(ids) : Kth(k, ids) = parent
        BY <1>1, <3>1
      <3>3. parent \in Nat /\ k \in Nat
        BY <1>1, <1>5 DEF ThreadRow
      <3>4. k # n + 1 /\ ~(n + 1 < k)
        <4>1. n + 1 < k => c < parent
          BY <1>1, <1>2, <3>2
        <4>2. QED BY <1>3, <1>5, <3>2, <3>3, <4>1
      <3>5. k \in 1 .. n
        BY <1>2, <3>3, <3>4
      <3>6. parent \in First(n)
        BY <3>2, <3>5 DEF First
      <3>7. PICK i \in DOMAIN s.comments : s.comments[i] = Row(parent)
        BY <3>6 DEF Taken
      <3>8. s.comments[i].sid = parent
        BY <3>7 DEF Row
      <3>9. QED BY <3>8
    <2>4. QED BY <2>2, <2>3
  <1> HIDE DEF c, known, parent, next
  <1>9. CASE Orphan(parent, known)
    <2>1. origin # "server" /\ next = [s EXCEPT !.skipped = @ \cup {c}]
      BY <1>6, <1>8, <1>9
    <2>2. next \in ReplayState /\ next.sha = s.sha /\ next.status = s.status /\ next.comments = s.comments
      BY <1>3, <1>7, <2>1 DEF ReplayState
    <2>3. From(s.comments, Earlier(at - 1) \cup First(n + 1))
      BY <1>4, <1>7 DEF From
    <2>4. QED BY <1>7, <2>1, <2>2, <2>3 DEF Taken, c, next
  <1>10. CASE ~Orphan(parent, known)
    <2> DEFINE cs == s.comments
               entry == Row(c)
               more == Append(cs, entry)
    <2>1. entry \in ReplayRow /\ entry.sid = c /\ entry.id = c
      BY <1>3, <1>5 DEF Row, ReplayRow, ThreadRow
    <2>2. \A i \in DOMAIN cs : cs[i].sid = c => c \in Missed(at)
      BY <1>3, <1>4, <1>7 DEF From
    <2>12. \A k \in 0 .. Len(tape) : c \in DOMAIN Shown(k) => entry.parent = Shown(k)[c].parent
      <3>1. entry.parent = Shown(at)[c].parent
        BY DEF Row
      <3>2. QED BY <1>3, <1>5, <3>1, ShownIs
    <2>3. StateRows(cs)
      BY <1>7
    <2> HIDE DEF cs, entry
    <2>4. /\ StateRows(more)
          /\ Len(cs) + 1 \in DOMAIN more /\ more[Len(cs) + 1] = entry
          /\ \A i \in DOMAIN cs : i \in DOMAIN more /\ more[i] = cs[i]
          /\ \A i \in DOMAIN more : i \in DOMAIN cs \/ i = Len(cs) + 1
      BY <1>3, <2>1, <2>3, RowJoins
    <2>5. next = [s EXCEPT !.comments = more]
      BY <1>6, <1>10 DEF cs, entry
    <2> HIDE DEF more
    <2>6. more \in Seq(ReplayRow)
      BY <2>4 DEF StateRows
    <2>7. next \in ReplayState /\ next.sha = s.sha /\ next.status = s.status /\ next.comments = more
          /\ next.skipped = s.skipped
      BY <1>7, <2>5, <2>6 DEF ReplayState
    <2>8. From(more, Earlier(at - 1) \cup First(n + 1))
      BY <1>4, <1>7, <2>1, <2>4 DEF From, cs
    <2>13. Unique(more, Missed(at))
      BY <1>7, <2>1, <2>2, <2>4 DEF Unique, cs
    <2>14. Placed(more)
      BY <1>7, <2>1, <2>4, <2>12 DEF Placed, cs
    <2>9. \A i \in DOMAIN state.comments : i \in DOMAIN more /\ more[i] = state.comments[i]
      BY <2>4 DEF Taken, cs
    <2>10. origin = "server" => /\ s.skipped = {}
                                /\ \A d \in First(n + 1) : \E i \in DOMAIN more : more[i] = Row(d)
      <3> SUFFICES ASSUME origin = "server"
                   PROVE  /\ s.skipped = {}
                          /\ \A d \in First(n + 1) : \E i \in DOMAIN more : more[i] = Row(d)
        OBVIOUS
      <3>1. s.skipped = {} /\ \A d \in First(n) : \E i \in DOMAIN cs : cs[i] = Row(d)
        BY DEF Taken, cs
      <3>2. \E i \in DOMAIN more : more[i] = Row(c)
        BY <2>4 DEF entry
      <3>3. QED BY <1>4, <2>4, <3>1, <3>2
    <2>11. QED BY <2>4, <2>7, <2>8, <2>9, <2>10, <2>13, <2>14 DEF Taken, c, next
  <1>11. QED BY <1>9, <1>10

LEMMA AllTaken ==
    ASSUME TapeKept, DriverInv, turn = "apply", at \in 1 .. Len(tape)
    PROVE  /\ Taken(AddComments(state, Added(at)), Cardinality(Added(at)))
           /\ First(Cardinality(Added(at))) = Added(at)
  <1> DEFINE ids == Added(at)
             N == Cardinality(ids)
  <1>1. N \in Nat /\ First(N) = ids
    <2>1. nextId - 1 \in Nat /\ ids \subseteq 1 .. (nextId - 1)
      BY AddedAreNew
    <2> HIDE DEF ids
    <2>2. N \in Nat /\ (\A k \in 1 .. N : Kth(k, ids) \in ids) /\ \A i \in ids : \E k \in 1 .. N : Kth(k, ids) = i
      BY <2>1, PickedIs
    <2>3. {Kth(m, ids) : m \in 1 .. N} = ids
      BY <2>2
    <2>4. QED BY <2>2, <2>3 DEF First, ids
  <1>2. PICK f : AddsUp(f, N, state, ids) /\ AddComments(state, ids) = f[N]
    BY <1>1, AddCommentsIs
  <1> DEFINE T == {n \in Nat : n <= N => Taken(f[n], n)}
  <1>3. 0 \in T
    <2>1. f[0] = state
      BY <1>1, <1>2 DEF AddsUp
    <2>2. First(0) = {}
      BY DEF First
    <2>3. StateRows(state.comments) /\ From(state.comments, Earlier(at - 1) \cup First(0)) /\ state \in ReplayState
          /\ (origin = "server" => state.skipped = {})
          /\ Unique(state.comments, Missed(at - 1)) /\ Placed(state.comments)
      BY <2>2 DEF DriverInv, Seen, Traced
    <2>4. Unique(state.comments, Missed(at))
      BY <2>3, AddedAreNew DEF Unique
    <2>6. Taken(state, 0)
      BY <2>2, <2>3, <2>4 DEF Taken
    <2>5. QED BY <2>1, <2>6
  <1>4. ASSUME NEW n \in Nat, n \in T PROVE n + 1 \in T
    <2> SUFFICES ASSUME n + 1 <= N PROVE Taken(f[n + 1], n + 1)
      OBVIOUS
    <2>1. n \in 0 .. (N - 1) /\ Taken(f[n], n)
      BY <1>1, <1>4
    <2>2. n + 1 \in 0 .. N /\ n + 1 # 0 /\ n + 1 - 1 = n
      BY <1>1
    <2>3. f[n + 1] = AddComment(f[n], Kth(n + 1, ids))
      BY <1>2, <2>2 DEF AddsUp
    <2>4. QED BY <2>1, <2>3, OneTaken
  <1>5. Nat \subseteq T
    <2> HIDE DEF T
    <2>1. QED BY <1>3, <1>4, EveryNumber
  <1>6. Taken(f[N], N)
    BY <1>1, <1>5
  <1>7. QED BY <1>1, <1>2, <1>6

\* A flag changes nothing else of a row.
LEMMA FlipIs ==
    ASSUME TapeKept, at \in 1 .. Len(tape), NEW cs, StateRows(cs)
    PROVE  LET flipped == Flip(cs, Flipped(at))
           IN  /\ StateRows(flipped) /\ DOMAIN flipped = DOMAIN cs
               /\ \A i \in DOMAIN cs : /\ flipped[i].id = cs[i].id /\ flipped[i].sid = cs[i].sid
                                       /\ flipped[i].parent = cs[i].parent
               /\ \A i \in DOMAIN cs : cs[i].id \notin Flipped(at) => flipped[i] = cs[i]
               /\ \A c \in Flipped(at) : (\E i \in DOMAIN cs : cs[i].sid = c) /\ ~Lent(cs, c) =>
                     \E i \in DOMAIN cs : flipped[i].sid = c /\ flipped[i].resolved = Shown(at)[c].resolved
  <1> DEFINE new == Flip(cs, Flipped(at))
  <1>0. cs \in Seq(ReplayRow) /\ Len(cs) \in Nat /\ DOMAIN cs = 1 .. Len(cs)
    BY DEF StateRows
  <1>1. \A i \in DOMAIN cs : cs[i] \in ReplayRow
    BY <1>0, ElementOfSeq
  <1>2. \A c \in Flipped(at) : Shown(at)[c].resolved \in BOOLEAN
    <2>1. at \in 0 .. Len(tape)
      BY Today
    <2>2. \A c \in Flipped(at) : Shown(at)[c] \in ThreadRow
      BY <2>1, ShownIs DEF Flipped
    <2>3. QED BY <2>2 DEF ThreadRow
  <1>3. DOMAIN new = DOMAIN cs
    BY DEF Flip
  <1>4. ASSUME NEW i \in DOMAIN cs
        PROVE  /\ new[i] \in ReplayRow /\ new[i].id = cs[i].id /\ new[i].sid = cs[i].sid /\ new[i].parent = cs[i].parent
               /\ cs[i].id \notin Flipped(at) => new[i] = cs[i]
               /\ /\ cs[i].id \in Flipped(at) /\ \E j \in DOMAIN cs : cs[j].sid = cs[i].id
                  /\ \A j \in DOMAIN cs : j < i => cs[j].id # cs[i].id
                  => new[i].resolved = Shown(at)[cs[i].id].resolved
    <2> DEFINE turns == /\ cs[i].id \in Flipped(at)
                        /\ \E j \in DOMAIN cs : cs[j].sid = cs[i].id
                        /\ \A j \in DOMAIN cs : j < i => cs[j].id # cs[i].id
    <2>1. new[i] = IF turns THEN [cs[i] EXCEPT !.resolved = Shown(at)[cs[i].id].resolved] ELSE cs[i]
      BY DEF Flip
    <2>2. CASE turns
      <3>1. new[i] = [cs[i] EXCEPT !.resolved = Shown(at)[cs[i].id].resolved] /\ cs[i].id \in Flipped(at)
        BY <2>1, <2>2
      <3>2. Shown(at)[cs[i].id].resolved \in BOOLEAN /\ cs[i] \in ReplayRow
        BY <1>1, <1>2, <3>1
      <3> HIDE DEF new
      <3>3. QED BY <3>1, <3>2 DEF ReplayRow
    <2>3. CASE ~turns
      <3>1. new[i] = cs[i]
        BY <2>1, <2>3
      <3>2. QED BY <1>1, <2>3, <3>1
    <2>4. QED BY <2>2, <2>3
  <1>5. new \in Seq(ReplayRow)
    <2>1. new = [i \in 1 .. Len(cs) |-> new[i]]
      BY <1>0 DEF Flip
    <2> HIDE DEF new
    <2>2. new \in [1 .. Len(cs) -> ReplayRow]
      BY <1>0, <1>4, <2>1
    <2>3. QED BY <1>0, <2>2
  <1> HIDE DEF new
  <1>6. StateRows(new)
    BY <1>3, <1>4, <1>5 DEF StateRows
  <1>7. ASSUME NEW c \in Flipped(at), NEW k \in DOMAIN cs, cs[k].sid = c, ~Lent(cs, c)
        PROVE  \E i \in DOMAIN cs : new[i].sid = c /\ new[i].resolved = Shown(at)[c].resolved
    <2> DEFINE S == {i \in DOMAIN cs : cs[i].id = c}
    <2>1. c # 0
      <3>1. at \in 0 .. Len(tape) /\ c \in DOMAIN Shown(at)
        BY <1>7, Today DEF Flipped
      <3>2. QED BY <3>1, ShownIs
    <2>2. k \in S /\ S \subseteq Nat
      BY <1>0, <1>7, <2>1 DEF StateRows
    <2>3. PICK i \in S : \A j \in S : i <= j
      <3> HIDE DEF S
      <3>1. S # {} /\ S \subseteq Nat
        BY <2>2
      <3>2. QED BY <3>1, Least
    <2>4. i \in DOMAIN cs /\ cs[i].id = c /\ cs[i].sid = c
      BY <1>7, <2>3 DEF Lent, StateRows
    <2>5. \A j \in DOMAIN cs : j < i => cs[j].id # c
      BY <1>0, <2>3
    <2>6. new[i].sid = c /\ new[i].resolved = Shown(at)[c].resolved
      BY <1>4, <1>7, <2>4, <2>5
    <2>7. QED BY <2>4, <2>6
  <1>8. QED BY <1>3, <1>4, <1>6, <1>7 DEF new

LEMMA ApplyStep == ASSUME TapeKept, DriverInv, ApplyDelta PROVE DriverInv'
  <1> DEFINE added == AddComments(state, Added(at))
             cs == added.comments
             flipped == Flip(cs, Flipped(at))
  <1>0. /\ turn = "apply" /\ turn' = "run" /\ UNCHANGED <<prVars, at, checkout>>
        /\ state' = [added EXCEPT
                !.comments = flipped,
                !.sha = PushedSha(at),
                !.status = IF at > 1 /\ tape[at].status # tape[at - 1].status
                           THEN tape[at].status ELSE added.status]
    BY DEF ApplyDelta
  <1>1. at \in 1 .. Len(tape) /\ Len(tape) \in Nat /\ at \in 0 .. Len(tape) /\ at - 1 \in 0 .. Len(tape)
        /\ DOMAIN tape = 1 .. Len(tape) /\ at \in Nat
    BY <1>0, Today DEF DriverInv
  <1>2. Taken(added, Cardinality(Added(at))) /\ First(Cardinality(Added(at))) = Added(at)
    BY <1>0, <1>1, AllTaken
  <1>3. /\ added \in ReplayState /\ added.status = state.status /\ StateRows(cs)
        /\ From(cs, Earlier(at - 1) \cup Added(at)) /\ Unique(cs, Missed(at)) /\ Placed(cs)
        /\ \A i \in DOMAIN state.comments : i \in DOMAIN cs /\ cs[i] = state.comments[i]
        /\ origin = "server" => /\ added.skipped = {}
                                /\ \A c \in Added(at) : \E i \in DOMAIN cs : cs[i] = Row(c)
    BY <1>2 DEF Taken
  <1> HIDE DEF added
  <1>4. /\ StateRows(flipped) /\ DOMAIN flipped = DOMAIN cs
        /\ \A i \in DOMAIN cs : /\ flipped[i].id = cs[i].id /\ flipped[i].sid = cs[i].sid
                                /\ flipped[i].parent = cs[i].parent
        /\ \A i \in DOMAIN cs : cs[i].id \notin Flipped(at) => flipped[i] = cs[i]
        /\ \A c \in Flipped(at) : (\E i \in DOMAIN cs : cs[i].sid = c) /\ ~Lent(cs, c) =>
              \E i \in DOMAIN cs : flipped[i].sid = c /\ flipped[i].resolved = Shown(at)[c].resolved
    BY <1>1, <1>3, FlipIs
  <1> HIDE DEF flipped, cs
  <1>5. tape[at].status \in {"open", "merged"} /\ tape[at].sha \in Nat /\ tape[at].sha \in 0 .. Len(tape)
    <2>1. tape[at] \in TapeRow /\ tape[at].sha \in 1 .. at
      BY <1>1, Today DEF TapeKept
    <2>2. QED BY <1>1, <2>1 DEF TapeRow
  <1>6. PushedSha(at) = tape[at].sha
    BY <1>0, <1>1 DEF PushedSha, DriverInv, Held
  <1>7. /\ state' \in ReplayState /\ state'.comments = flipped /\ state'.sha = tape[at].sha
        /\ state'.skipped = added.skipped
    <2>1. flipped \in Seq(ReplayRow)
      BY <1>4 DEF StateRows
    <2>2. added.status \in {"open", "merged", "approved"}
      BY <1>3 DEF ReplayState
    <2>3. QED BY <1>0, <1>3, <1>5, <1>6, <2>1, <2>2 DEF ReplayState
  <1>8. Seen' = at /\ Seen = at - 1 /\ Held' = at /\ tape' = tape /\ at' = at /\ origin' = origin
    BY <1>0 DEF Seen, Held, prVars
  <1>9. \A k : Shown(k)' = Shown(k)
    BY <1>8 DEF Shown
  <1>10. StateRows(state.comments)' /\ Traced(state.comments, Seen)'
    <2>1. Earlier(at)' = Earlier(at)
      BY <1>8, <1>9 DEF Earlier
    <2>2. \A c \in Nat : c \in Earlier(at - 1) => c \in Earlier(at)
      <3>1. \A l \in 1 .. (at - 1) : l \in 1 .. at
        BY <1>1
      <3>2. QED BY <3>1 DEF Earlier
    <2>3. \A c \in Added(at) : c \in Earlier(at)
      <3>1. at \in 1 .. at /\ \A c \in Added(at) : c \in Nat /\ c \in DOMAIN Shown(at)
        BY <1>1, AddedAreNew
      <3>2. QED BY <3>1 DEF Earlier
    <2>4. From(flipped, Earlier(at))
      <3>1. Earlier(at - 1) \subseteq Nat
        BY DEF Earlier
      <3>2. QED BY <1>3, <1>4, <2>2, <2>3, <3>1 DEF From
    <2>5. Traced(state.comments, Seen)'
      <3>1. Missed(at)' = Missed(at)
        BY <1>8, <1>9 DEF Missed
      <3>2. Unique(flipped, Missed(at))
        BY <1>3, <1>4 DEF Unique
      <3>3. Placed(flipped)
        BY <1>3, <1>4 DEF Placed
      <3>4. From(state.comments, Earlier(Seen))' /\ Unique(state.comments, Missed(Seen))'
        BY <1>7, <1>8, <2>1, <2>4, <3>1, <3>2 DEF From, Unique
      <3>5. Placed(state.comments)'
        BY <1>7, <1>8, <1>9, <3>3 DEF Placed
      <3>6. QED BY <3>4, <3>5 DEF Traced
    <2>6. StateRows(state.comments)'
      BY <1>4, <1>7 DEF StateRows
    <2>7. QED BY <2>5, <2>6
  <1>11. ASSUME origin = "server", NEW c \in DOMAIN Shown(at) PROVE Tells(flipped, c, at)
    <2>1. \A i \in DOMAIN cs : cs[i].sid \in {0, cs[i].id}
      BY <1>3 DEF StateRows
    <2>2. c # 0 /\ c \in Nat
      BY <1>1, ShownIs
    <2>3. CASE c \in Added(at)
      <3>1. PICK i \in DOMAIN cs : cs[i] = Row(c)
        BY <1>3, <1>11, <2>3
      <3>2. c \notin Flipped(at)
        BY <2>3 DEF Added, Flipped
      <3>3. flipped[i] = cs[i] /\ cs[i].sid = c /\ cs[i].resolved = Shown(at)[c].resolved
        BY <1>4, <3>1, <3>2 DEF Row
      <3>4. QED BY <1>4, <3>3 DEF Tells
    <2>4. CASE c \notin Added(at)
      <3>1. c \in DOMAIN Shown(at - 1)
        BY <2>4 DEF Added
      <3>2. Tells(state.comments, c, at - 1)
        BY <1>8, <1>11, <3>1 DEF DriverInv
      <3>3. PICK i \in DOMAIN state.comments :
               /\ state.comments[i].sid = c
               /\ Lent(state.comments, c) \/ state.comments[i].resolved = Shown(at - 1)[c].resolved
        BY <3>2 DEF Tells
      <3>4. i \in DOMAIN cs /\ cs[i] = state.comments[i] /\ cs[i].sid = c /\ flipped[i].sid = c
        BY <1>3, <1>4, <3>3
      <3>5. CASE Lent(cs, c)
        <4>1. Lent(flipped, c)
          BY <1>4, <3>5 DEF Lent
        <4>2. QED BY <1>4, <3>4, <4>1 DEF Tells
      <3>6. CASE ~Lent(cs, c)
        <4>1. cs[i].resolved = Shown(at - 1)[c].resolved
          BY <1>3, <3>3, <3>4, <3>6 DEF Lent
        <4>2. CASE c \in Flipped(at)
          BY <1>4, <3>4, <3>6, <4>2 DEF Tells
        <4>3. CASE c \notin Flipped(at)
          <5>1. Shown(at)[c].resolved = Shown(at - 1)[c].resolved
            BY <1>11, <3>1, <4>3 DEF Flipped
          <5>2. cs[i].id = c
            BY <2>1, <2>2, <3>4
          <5>3. QED BY <1>4, <3>4, <4>1, <4>3, <5>1, <5>2 DEF Tells
        <4>4. QED BY <4>2, <4>3
      <3>7. QED BY <3>5, <3>6
    <2>5. QED BY <2>3, <2>4
  <1>12. (origin = "server" => /\ state.skipped = {}
                               /\ \A c \in DOMAIN Shown(Seen) : Tells(state.comments, c, Seen))'
    <2>1. \A c : Tells(flipped, c, at) => Tells(state.comments, c, Seen)'
      BY <1>7, <1>8, <1>9 DEF Tells, Lent
    <2>2. QED BY <1>3, <1>7, <1>8, <1>9, <1>11, <2>1
  <1>13. QED BY <1>0, <1>1, <1>5, <1>7, <1>8, <1>10, <1>12 DEF DriverInv, prVars

\* The fake hands out an id above all others.
LEMMA FreshIs ==
    ASSUME NEW cs, StateRows(cs)
    PROVE  LET ids == {cs[i].id : i \in DOMAIN cs}
               free == Max({AutoFloor} \cup {c + 1 : c \in ids})
           IN  free \in Nat /\ AutoFloor <= free /\ \A i \in DOMAIN cs : cs[i].id < free
  <1> DEFINE ids == {cs[i].id : i \in DOMAIN cs}
             S == {AutoFloor} \cup {c + 1 : c \in ids}
             free == Max(S)
  <1>1. PICK top \in Nat : \A i \in DOMAIN cs : cs[i].id <= top
    BY DEF StateRows
  <1>2. \A i \in DOMAIN cs : cs[i].id \in Nat
    <2>1. \A i \in DOMAIN cs : cs[i] \in ReplayRow
      BY ElementOfSeq DEF StateRows
    <2>2. QED BY <2>1 DEF ReplayRow
  <1>3. AutoFloor \in Nat /\ AutoFloor \in S /\ S \subseteq Nat
    BY <1>2, ReplayAssumption
  <1>4. \A x \in S : x <= top + 1 + AutoFloor
    BY <1>1, <1>2, <1>3
  <1>5. top + 1 + AutoFloor \in Nat
    BY <1>3
  <1>6. \A i \in DOMAIN cs : cs[i].id + 1 \in S
    OBVIOUS
  <1> HIDE DEF S
  <1>7. \E m \in S : \A x \in S : x <= m
    BY <1>3, <1>4, <1>5, Greatest
  <1>8. \E m \in S : \A x \in S : m >= x
    BY <1>3, <1>7
  <1>9. free \in S /\ \A x \in S : free >= x
    BY <1>8 DEF Max
  <1> HIDE DEF free
  <1>10. free \in Nat /\ AutoFloor <= free /\ \A i \in DOMAIN cs : cs[i].id < free
    BY <1>2, <1>3, <1>6, <1>9
  <1>11. QED BY <1>10 DEF free, S

\* The driver finds an invocation with the index, its own where it is the only one.
LEMMA ByIndexIs ==
    ASSUME TapeKept, at \in 1 .. Len(tape)
    PROVE  /\ \E k \in DOMAIN tape : ByIndex(at) = tape[k]
           /\ (\A k \in 1 .. (at - 1) : tape[k].index # tape[at].index) => ByIndex(at) = tape[at]
  <1> DEFINE S == {i \in DOMAIN tape : tape[i].index = tape[at].index}
  <1>1. Len(tape) \in Nat /\ DOMAIN tape = 1 .. Len(tape) /\ at \in S /\ S \subseteq 1 .. Len(tape)
    BY Today
  <1>2. \A i \in S : tape[i].index = tape[at].index
    OBVIOUS
  <1>3. ByIndex(at) = tape[Min(S)]
    BY DEF ByIndex
  <1> HIDE DEF S
  <1>4. S \subseteq Nat /\ S # {}
    BY <1>1
  <1>5. Min(S) \in S /\ \A y \in S : Min(S) <= y
    <2>1. \E m \in S : \A n \in S : m <= n
      BY <1>4, Least
    <2>2. QED BY <2>1 DEF Min
  <1>6. ASSUME \A k \in 1 .. (at - 1) : tape[k].index # tape[at].index PROVE Min(S) = at
    <2> DEFINE m == Min(S)
    <2>1. m \in S /\ m <= at
      BY <1>1, <1>5
    <2> HIDE DEF m
    <2>2. m \in 1 .. Len(tape) /\ at \in Nat
      BY <1>1, <2>1
    <2>3. tape[m].index = tape[at].index
      BY <1>2, <2>1
    <2>4. m = at
      BY <1>6, <2>1, <2>2, <2>3
    <2>5. QED BY <2>4 DEF m
  <1>7. QED BY <1>1, <1>3, <1>5, <1>6

LEMMA RunStep == ASSUME TapeKept, DriverInv, RunAgent PROVE DriverInv'
  <1>1. /\ turn = "run" /\ turn' = "next" /\ checkout' = ByIndex(at).sha /\ UNCHANGED <<prVars, at>>
    BY DEF RunAgent
  <1>2. /\ at \in 1 .. Len(tape) /\ Len(tape) \in Nat /\ DOMAIN tape = 1 .. Len(tape) /\ at > 0
        /\ \A k \in DOMAIN tape : tape[k].sha \in 0 .. Len(tape)
    BY <1>1, Today DEF DriverInv, TapeKept
  <1>3. Held = at /\ Held' = at /\ Seen = at /\ Seen' = at /\ tape' = tape /\ at' = at /\ origin' = origin
    BY <1>1 DEF Held, Seen, prVars
  <1>4. \A k : Shown(k)' = Shown(k)
    BY <1>3 DEF Shown
  <1>5. checkout' \in 0 .. Len(tape)
    BY <1>1, <1>2, ByIndexIs
  <1>6. (\A k \in 1 .. (at - 1) : tape[k].index # tape[at].index) => checkout' = state.sha
    BY <1>1, <1>2, <1>3, ByIndexIs DEF DriverInv
  <1>7. /\ StateRows(state.comments) /\ Traced(state.comments, at) /\ state \in ReplayState
        /\ state.sha \in 0 .. Len(tape) /\ state.sha = tape[at].sha
        /\ origin = "server" => state.skipped = {} /\ \A c \in DOMAIN Shown(at) : Tells(state.comments, c, at)
    BY <1>2, <1>3 DEF DriverInv
  <1>8. /\ StateRows(state'.comments) /\ Traced(state'.comments, at) /\ state' \in ReplayState
        /\ state'.sha = state.sha /\ state'.skipped = state.skipped
        /\ \A c \in DOMAIN Shown(at) : Tells(state.comments, c, at) => Tells(state'.comments, c, at)
    <2>1. CASE UNCHANGED state
      BY <1>7, <2>1
    <2>2. CASE state' = [state EXCEPT !.status = "approved"]
      <3>1. state'.comments = state.comments /\ state' \in ReplayState /\ state'.sha = state.sha
            /\ state'.skipped = state.skipped
        BY <1>7, <2>2 DEF ReplayState
      <3>2. QED BY <1>7, <3>1
    <2>3. CASE state' = [state EXCEPT !.comments =
                Append(@, [id |-> FreshId, sid |-> 0, parent |-> 0, resolved |-> FALSE])]
      <3> DEFINE cs == state.comments
                 free == FreshId
                 entry == [id |-> free, sid |-> 0, parent |-> 0, resolved |-> FALSE]
                 more == Append(cs, entry)
      <3>1. free \in Nat /\ AutoFloor <= free /\ \A i \in DOMAIN cs : cs[i].id < free
        BY <1>7, FreshIs DEF FreshId, Ids
      <3> HIDE DEF free
      <3>2. entry \in ReplayRow /\ entry.sid = 0 /\ entry.id = free
        BY <3>1 DEF ReplayRow
      <3>3. StateRows(cs)
        BY <1>7
      <3> HIDE DEF entry, cs
      <3>4. /\ StateRows(more)
            /\ Len(cs) + 1 \in DOMAIN more /\ more[Len(cs) + 1] = entry
            /\ \A i \in DOMAIN cs : i \in DOMAIN more /\ more[i] = cs[i]
            /\ \A i \in DOMAIN more : i \in DOMAIN cs \/ i = Len(cs) + 1
        BY <3>1, <3>2, <3>3, RowJoins
      <3>5. state' = [state EXCEPT !.comments = more]
        BY <2>3 DEF more, cs, entry, free
      <3> HIDE DEF more
      <3>6. more \in Seq(ReplayRow)
        BY <3>4 DEF StateRows
      <3>7. state' \in ReplayState /\ state'.comments = more /\ state'.sha = state.sha
            /\ state'.skipped = state.skipped
        BY <1>7, <3>5, <3>6 DEF ReplayState
      <3>8. Traced(more, at)
        <4>1. From(cs, Earlier(at)) /\ Unique(cs, Missed(at)) /\ Placed(cs)
          BY <1>7 DEF Traced, cs
        <4>2. From(more, Earlier(at))
          BY <3>2, <3>4, <4>1 DEF From
        <4>3. Unique(more, Missed(at))
          BY <3>2, <3>4, <4>1 DEF Unique
        <4>4. Placed(more)
          BY <3>2, <3>4, <4>1 DEF Placed
        <4>5. QED BY <4>2, <4>3, <4>4 DEF Traced
      <3>9. ASSUME NEW c \in DOMAIN Shown(at), Tells(cs, c, at) PROVE Tells(more, c, at)
        <4>1. Lent(cs, c) => Lent(more, c)
          BY <3>4 DEF Lent
        <4>2. QED BY <3>4, <3>9, <4>1 DEF Tells
      <3>10. QED BY <3>4, <3>7, <3>8, <3>9 DEF cs
    <2>4. QED BY <2>1, <2>2, <2>3 DEF RunAgent
  <1>9. Earlier(at)' = Earlier(at) /\ Missed(at)' = Missed(at)
    BY <1>3, <1>4 DEF Earlier, Missed
  <1>10. \A c : Tells(state'.comments, c, at) => Tells(state.comments, c, Seen)'
    BY <1>3, <1>4 DEF Tells, Lent
  <1>11. (origin = "server" => /\ state.skipped = {}
                               /\ \A c \in DOMAIN Shown(Seen) : Tells(state.comments, c, Seen))'
    BY <1>3, <1>4, <1>7, <1>8, <1>10
  <1>12. StateRows(state.comments)' /\ Traced(state.comments, Seen)'
    <2>1. From(state.comments, Earlier(Seen))' /\ Unique(state.comments, Missed(Seen))'
      BY <1>3, <1>8, <1>9 DEF Traced, From, Unique
    <2>2. Placed(state.comments)'
      BY <1>3, <1>4, <1>8 DEF Traced, Placed
    <2>3. QED BY <1>8, <2>1, <2>2 DEF StateRows, Traced
  <1>13. QED BY <1>1, <1>2, <1>3, <1>5, <1>6, <1>7, <1>8, <1>11, <1>12 DEF DriverInv

\* A step that leaves the comments, and what the state has seen of the recording.
LEMMA StillTold ==
    ASSUME DriverInv, UNCHANGED <<origin, tape>>, state'.comments = state.comments,
           state'.skipped = state.skipped, Seen' = Seen
    PROVE  /\ StateRows(state.comments)' /\ Traced(state.comments, Seen)'
           /\ (origin = "server" => /\ state.skipped = {}
                                    /\ \A c \in DOMAIN Shown(Seen) : Tells(state.comments, c, Seen))'
  <1>1. \A k : Shown(k)' = Shown(k)
    BY DEF Shown
  <1>2. Earlier(Seen)' = Earlier(Seen) /\ Missed(Seen)' = Missed(Seen)
    BY <1>1 DEF Earlier, Missed
  <1>3. \A c : Tells(state.comments, c, Seen)' <=> Tells(state.comments, c, Seen)
    BY <1>1 DEF Tells, Lent
  <1>4. StateRows(state.comments)' /\ Traced(state.comments, Seen)'
    <2>1. StateRows(state.comments) /\ Traced(state.comments, Seen)
      BY DEF DriverInv
    <2>2. From(state.comments, Earlier(Seen))' /\ Unique(state.comments, Missed(Seen))'
      BY <1>2, <2>1 DEF Traced, From, Unique
    <2>3. Placed(state.comments)'
      BY <1>1, <2>1 DEF Traced, Placed
    <2>4. QED BY <2>1, <2>2, <2>3 DEF StateRows, Traced
  <1>5. (origin = "server" => /\ state.skipped = {}
                              /\ \A c \in DOMAIN Shown(Seen) : Tells(state.comments, c, Seen))'
    BY <1>1, <1>3 DEF DriverInv
  <1>6. QED BY <1>4, <1>5

LEMMA NextEventStep == ASSUME TapeKept, DriverInv, NextEvent PROVE DriverInv'
  <1>1. turn = "next" /\ UNCHANGED <<prVars, checkout>> /\ tape' = tape /\ origin' = origin
    BY DEF NextEvent, prVars
  <1>2. /\ at \in 1 .. Len(tape) /\ Len(tape) \in Nat /\ DOMAIN tape = 1 .. Len(tape) /\ at > 0 /\ at \in Nat
        /\ state \in ReplayState /\ state.sha = tape[at].sha /\ Seen = at /\ state.sha \in 0 .. Len(tape)
        /\ checkout \in 0 .. Len(tape)
    BY <1>1, Today DEF DriverInv, Held, Seen
  <1>3. CASE at < Len(tape)
    <2>1. at' = at + 1 /\ turn' = "apply" /\ UNCHANGED state
      BY <1>3 DEF NextEvent
    <2>2. Seen' = at /\ Held' = at /\ at' # 0 /\ at' \in 0 .. Len(tape)
      BY <1>2, <1>3, <2>1 DEF Seen, Held
    <2>3. /\ StateRows(state.comments)' /\ Traced(state.comments, Seen)'
          /\ (origin = "server" => /\ state.skipped = {}
                                   /\ \A c \in DOMAIN Shown(Seen) : Tells(state.comments, c, Seen))'
      BY <1>1, <1>2, <2>1, <2>2, StillTold
    <2>4. QED BY <1>1, <1>2, <2>1, <2>2, <2>3 DEF DriverInv
  <1>4. CASE ~(at < Len(tape))
    <2>1. /\ turn' = "end" /\ UNCHANGED at
          /\ state' = [state EXCEPT !.status = IF Last(tape).status = "merged" THEN "merged" ELSE state.status]
      BY <1>4 DEF NextEvent
    <2>2. /\ state' \in ReplayState /\ state'.comments = state.comments /\ state'.skipped = state.skipped
          /\ state'.sha = state.sha
      BY <1>2, <2>1 DEF ReplayState
    <2>3. Seen' = at /\ Held' = at
      BY <2>1 DEF Seen, Held
    <2>4. /\ StateRows(state.comments)' /\ Traced(state.comments, Seen)'
          /\ (origin = "server" => /\ state.skipped = {}
                                   /\ \A c \in DOMAIN Shown(Seen) : Tells(state.comments, c, Seen))'
      BY <1>1, <1>2, <2>2, <2>3, StillTold
    <2>5. QED BY <1>1, <1>2, <2>1, <2>2, <2>3, <2>4 DEF DriverInv
  <1>5. QED BY <1>3, <1>4

\* While the driver waits its state is empty.
LEMMA NothingSeen ==
    ASSUME at = 0, turn = "record" \/ turn = "apply", state.comments = <<>>, state.skipped = {}
    PROVE  /\ StateRows(state.comments) /\ Traced(state.comments, Seen)
           /\ DOMAIN state.comments = {}
  <1>1. DOMAIN state.comments = {} /\ state.comments \in Seq(ReplayRow)
    BY NoTalk
  <1>2. \E top \in Nat : \A i \in DOMAIN state.comments : state.comments[i].id <= top
    <2>1. 0 \in Nat /\ \A i \in DOMAIN state.comments : state.comments[i].id <= 0
      BY <1>1
    <2>2. QED BY <2>1
  <1>3. QED BY <1>1, <1>2 DEF StateRows, Traced, From, Unique, Placed

LEMMA StartStep == ASSUME TapeKept, DriverInv, StartReplay PROVE DriverInv'
  <1>1. /\ turn = "record" /\ tape # <<>> /\ at' = 1 /\ turn' = "apply" /\ state' = [state EXCEPT !.sha = tape[1].sha]
        /\ UNCHANGED <<origin, nextId, tape, checkout>> /\ at = 0
    BY DEF StartReplay, DriverInv
  <1>2. Len(tape) \in Nat /\ 1 \in 1 .. Len(tape) /\ DOMAIN tape = 1 .. Len(tape) /\ tape[1].sha \in 1 .. 1
    BY <1>1, Today DEF TapeKept
  <1>3. tape[1].sha \in 0 .. Len(tape) /\ tape[1].sha \in Nat
    BY <1>2
  <1>4. /\ state \in ReplayState /\ checkout \in 0 .. Len(tape)
    BY DEF DriverInv
  <1>5. state' \in ReplayState /\ state'.sha = tape[1].sha /\ state'.comments = state.comments
        /\ state'.skipped = state.skipped
    BY <1>1, <1>3, <1>4 DEF ReplayState
  <1>6. Seen = 0 /\ Seen' = 0 /\ Held' = 1
    BY <1>1 DEF Seen, Held
  <1>7. /\ StateRows(state.comments)' /\ Traced(state.comments, Seen)'
        /\ (origin = "server" => /\ state.skipped = {}
                                 /\ \A c \in DOMAIN Shown(Seen) : Tells(state.comments, c, Seen))'
    BY <1>1, <1>5, <1>6, StillTold
  <1>8. at' \in 0 .. Len(tape) /\ at' # 0
    BY <1>1, <1>2
  <1>9. QED BY <1>1, <1>3, <1>4, <1>5, <1>6, <1>7, <1>8 DEF DriverInv

\* While the recording goes on the driver waits.
LEMMA WaitStep ==
    ASSUME TapeKept, TapeKept', DriverInv, Recorded, Len(tape) <= Len(tape')
    PROVE  DriverInv'
  <1>1. turn = "record" /\ at = 0 /\ UNCHANGED <<origin, at, turn, state, checkout>>
    BY DEF Recorded, DriverInv
  <1>2. Len(tape) \in Nat /\ Len(tape') \in Nat
    BY DEF TapeKept
  <1>3. /\ state \in ReplayState /\ state.sha \in 0 .. Len(tape) /\ checkout \in 0 .. Len(tape)
        /\ state.comments = <<>> /\ state.skipped = {}
    BY <1>1 DEF DriverInv
  <1>4. state'.sha \in 0 .. Len(tape') /\ checkout' \in 0 .. Len(tape') /\ at' \in 0 .. Len(tape')
    BY <1>1, <1>2, <1>3
  <1>5. StateRows(state.comments)' /\ Traced(state.comments, Seen)'
    <2>1. StateRows(state.comments) /\ DOMAIN state.comments = {}
      BY <1>1, <1>3, NothingSeen
    <2>2. DOMAIN state'.comments = {}
      BY <1>1, <2>1
    <2>3. Traced(state.comments, Seen)'
      BY <2>2 DEF Traced, From, Unique, Placed
    <2>4. QED BY <1>1, <2>1, <2>3 DEF StateRows
  <1>6. DOMAIN Shown(Seen)' = {}
    BY <1>1, NoTalk DEF Shown, Seen
  <1>7. QED BY <1>1, <1>3, <1>4, <1>5, <1>6 DEF DriverInv

ReplayInv == TapeKept /\ DriverInv

LEMMA ReplayStart == ReplayInit => ReplayInv
  <1> SUFFICES ASSUME ReplayInit PROVE DriverInv
    BY TapeStart DEF ReplayInv
  <1>1. /\ tape = <<>> /\ at = 0 /\ turn = "record" /\ checkout = 0
        /\ state = [sha |-> 0, status |-> "open", comments |-> <<>>, skipped |-> {}]
    BY DEF ReplayInit
  <1>2. /\ state.sha = 0 /\ state.comments = <<>> /\ state.skipped = {} /\ state.status = "open"
        /\ Len(tape) = 0
    BY <1>1
  <1>3. /\ StateRows(state.comments) /\ Traced(state.comments, Seen) /\ DOMAIN state.comments = {}
    BY <1>1, <1>2, NothingSeen
  <1>4. state \in ReplayState
    BY <1>1, <1>2 DEF ReplayState
  <1>5. DOMAIN Shown(Seen) = {}
    BY <1>1, NoTalk DEF Shown, Seen
  <1>6. QED BY <1>1, <1>2, <1>3, <1>4, <1>5 DEF DriverInv

LEMMA ReplayStep == ReplayInv /\ [ReplayNext]_replayVars => ReplayInv'
  <1> SUFFICES ASSUME TapeKept, DriverInv, [ReplayNext]_replayVars PROVE ReplayInv'
    BY DEF ReplayInv
  <1>0. Len(tape) \in Nat
    BY DEF TapeKept
  <1>1. CASE HumanComment
    <2>1. TapeKept'
      BY <1>1, HumanStep
    <2>2. Recorded /\ tape' = tape
      BY <1>1 DEF HumanComment
    <2>3. QED BY <1>0, <2>1, <2>2, WaitStep DEF ReplayInv
  <1>2. CASE RecordInvocation
    <2>1. TapeKept'
      BY <1>2, RecordStep
    <2>2. Recorded
      BY <1>2 DEF RecordInvocation
    <2>3. Len(tape) <= Len(tape')
      <3>1. \E entry : tape' = Append(tape, entry)
        BY <1>2 DEF RecordInvocation
      <3>2. tape \in Seq(TapeRow)
        BY DEF TapeKept
      <3>3. Len(tape') = Len(tape) + 1
        BY <1>0, <3>1, <3>2
      <3>4. QED BY <1>0, <3>3
    <2>4. QED BY <2>1, <2>2, <2>3, WaitStep DEF ReplayInv
  <1>3. ASSUME NEW c \in Comments, ToggleResolved(c) PROVE ReplayInv'
    <2>1. TapeKept'
      BY <1>3, ToggleStep
    <2>2. Recorded /\ tape' = tape
      BY <1>3 DEF ToggleResolved
    <2>3. QED BY <1>0, <2>1, <2>2, WaitStep DEF ReplayInv
  <1>4. ASSUME NEW c \in Comments, RemoveComment(c) PROVE ReplayInv'
    <2>1. TapeKept'
      BY <1>4, RemoveStep
    <2>2. Recorded /\ tape' = tape
      BY <1>4 DEF RemoveComment
    <2>3. QED BY <1>0, <2>1, <2>2, WaitStep DEF ReplayInv
  <1>5. CASE StartReplay
    BY <1>5, StartTape, StartStep DEF ReplayInv
  <1>6. ASSUME UNCHANGED prVars PROVE TapeKept'
    <2>1. UNCHANGED <<origin, nextId, thread, changes, tape>>
      BY <1>6 DEF prVars
    <2>2. Lasting'
      <3>1. Conversation(thread, nextId)
        BY Today
      <3>2. QED BY <2>1, <3>1, TimeGoesOn DEF TapeKept
    <2>3. QED BY <2>1, <2>2 DEF TapeKept, Comments
  <1>7. CASE ApplyDelta
    BY <1>6, <1>7, ApplyStep DEF ReplayInv, ApplyDelta
  <1>8. CASE RunAgent
    BY <1>6, <1>8, RunStep DEF ReplayInv, RunAgent
  <1>9. CASE NextEvent
    BY <1>6, <1>9, NextEventStep DEF ReplayInv, NextEvent
  <1>10. CASE UNCHANGED replayVars
    <2>1. UNCHANGED prVars /\ UNCHANGED <<origin, tape, at, turn, state, checkout>>
      BY <1>10 DEF replayVars, prVars
    <2>2. Seen' = Seen /\ Held' = Held
      BY <2>1 DEF Seen, Held
    <2>3. /\ StateRows(state.comments)' /\ Traced(state.comments, Seen)'
          /\ (origin = "server" => /\ state.skipped = {}
                                   /\ \A c \in DOMAIN Shown(Seen) : Tells(state.comments, c, Seen))'
      BY <2>1, <2>2, StillTold
    <2>4. DriverInv'
      BY <2>1, <2>2, <2>3 DEF DriverInv
    <2>5. QED BY <1>6, <2>1, <2>4 DEF ReplayInv
  <1>11. QED BY <1>1, <1>2, <1>3, <1>4, <1>5, <1>7, <1>8, <1>9, <1>10 DEF ReplayNext

LEMMA ReplayFacts == ReplayInv => ReplayTypeOK /\ ReplayShowsRecording
  <1> SUFFICES ASSUME TapeKept, DriverInv PROVE ReplayTypeOK /\ ReplayShowsRecording
    BY DEF ReplayInv
  <1> DEFINE cs == state.comments
  <1>0. Len(tape) \in Nat /\ at \in 0 .. Len(tape) /\ DOMAIN tape = 1 .. Len(tape) /\ StateRows(cs)
        /\ (turn # "record" => at \in 1 .. Len(tape))
    BY Today DEF DriverInv
  <1>1. ReplayTypeOK
    <2>1. \A i \in DOMAIN cs : cs[i].sid \in {0, cs[i].id}
      BY <1>0 DEF StateRows
    <2>2. state.status \in {"open", "merged", "approved"}
      BY DEF DriverInv, ReplayState
    <2>3. QED BY <2>1, <2>2 DEF ReplayTypeOK, TapeKept, DriverInv
  <1>2. \A c : c # 0 => (c \in Clashes <=> Lent(cs, c) /\ \E j \in DOMAIN cs : cs[j].sid = c)
    BY DEF Clashes, Known, Lent
  <1>3. LifecycleShowsSnapshot
    <2> SUFFICES ASSUME turn = "run", origin = "server", NEW c \in DOMAIN Shown(at),
                        c \notin Clashes
                 PROVE  [id |-> c, parent |-> Shown(at)[c].parent, resolved |-> Shown(at)[c].resolved]
                           \in LifecycleView
      BY DEF LifecycleShowsSnapshot, SingleView
    <2>1. Tells(cs, c, at) /\ c # 0
      BY <1>0, ShownIs DEF DriverInv, Seen
    <2>6. PICK i \in DOMAIN cs : cs[i].sid = c /\ cs[i].resolved = Shown(at)[c].resolved
      BY <1>2, <2>1 DEF Tells
    <2>2. cs[i].sid = c /\ cs[i].resolved = Shown(at)[c].resolved /\ cs[i].parent = Shown(at)[c].parent
      BY <1>0, <2>1, <2>6 DEF DriverInv, Traced, Placed
    <2>3. cs[i].id = c
      BY <1>0, <2>1, <2>2 DEF StateRows
    <2>4. cs[i] \in Range(cs)
      BY DEF Range
    <2>5. QED BY <2>2, <2>3, <2>4 DEF LifecycleView
  <1>4. CheckoutIsCurrent
    BY DEF DriverInv, CheckoutIsCurrent
  <1>5. ClashesAreHigh
    <2> SUFFICES ASSUME NEW c \in Clashes PROVE ~(nextId <= AutoFloor)
      BY DEF ClashesAreHigh
    <2>1. c # 0
      BY DEF Clashes, Known
    <2>2. PICK i \in DOMAIN cs, j \in DOMAIN cs : cs[i].id = c /\ cs[i].sid = 0 /\ cs[j].sid = c
      BY <1>2, <2>1 DEF Lent
    <2>4. cs[j].sid # 0 /\ cs[j].sid = c
      BY <2>1, <2>2
    <2>6. AutoFloor <= c
      BY <1>0, <2>2 DEF StateRows
    <2>7. c \in Earlier(Seen)
      BY <2>4 DEF DriverInv, Traced, From
    <2>8. PICK l \in 1 .. Seen : c \in DOMAIN Shown(l)
      BY <2>7 DEF Earlier
    <2>9. Seen \in 0 .. Len(tape)
      BY <1>0 DEF Seen, DriverInv
    <2>10. c < nextId /\ c \in Nat /\ nextId \in Nat /\ AutoFloor \in Nat
      BY <1>0, <2>8, <2>9, ShownIs, ReplayAssumption DEF TapeKept
    <2>11. QED BY <2>6, <2>10
  <1>6. OrphansOnlyFromFake
    BY DEF DriverInv, OrphansOnlyFromFake
  <1>7. RepeatsWereUnread
    <2> SUFFICES ASSUME NEW c \in Repeated
                 PROVE  \E j \in 1 .. at :
                          ~tape[j].read /\ \E i \in 1 .. (j - 1) : c \in DOMAIN Shown(i)
      BY DEF RepeatsWereUnread
    <2>1. c \in Missed(Seen)
      BY DEF Repeated, Known, DriverInv, Traced, Unique
    <2>2. \A j \in 1 .. Seen : j \in 1 .. at
      BY <1>0 DEF Seen
    <2>3. QED BY <2>1, <2>2 DEF Missed
  <1>8. QED BY <1>1, <1>3, <1>4, <1>5, <1>6, <1>7 DEF ReplayShowsRecording

(* A replayed agent works on what the recorded one saw: every comment in   *)
(* its thread and with its flag, and once unless a snapshot between could  *)
(* not read the comments, its commit checked out, but for an id that both  *)
(* used, which takes ids of the server in the range of the fake, and for   *)
(* invocations that share an index (compute_world_events and the event     *)
(* handlers of replay.py).                                                 *)
THEOREM ReplayShown == Spec => []ReplayShowsRecording
  <1>1. Init => ReplayInv
    BY ReplayStart DEF Init
  <1>2. [Next]_vars => [ReplayNext]_replayVars
    BY DEF Next, vars
  <1>3. QED BY <1>1, <1>2, ReplayFacts, ReplayStep, PTL DEF Spec

------------------------------------------------------------------------------
(* The types of the parts, where the invariants above leave them open.     *)

\* An initialized context names a clone and a commit that fetch_pr() read.
ContextNamed ==
    /\ head \in 1 .. MaxPushes + 1
    /\ \A t \in Caller : /\ meta[t] \in 0 .. head
                         /\ call[t].at \in {"fetched", "cloned", "installing"} => meta[t] # 0
                         /\ call[t].at = "installing" => ctx.repo # NoClone
    /\ ctx.ready => ctx.repo # NoClone /\ ctx.source # 0

LEMMA ContextStart == RepoInit => ContextNamed
  BY RepoAssumption DEF RepoInit, ContextNamed, Idle

LEMMA ContextStep == RepoTyped /\ ContextNamed /\ RepoNext => ContextNamed'
  <1> SUFFICES ASSUME RepoTyped, ContextNamed, RepoNext PROVE ContextNamed'
    OBVIOUS
  <1>0. head \in Nat /\ MaxPushes \in Nat /\ head # 0 /\ head \in 0 .. head
    BY RepoAssumption DEF ContextNamed
  \* Steps that leave what ContextNamed speaks of: a thread may leave its place or stay.
  <1>1. ASSUME UNCHANGED <<head, meta, ctx>>,
               \A t \in Caller : call'[t].at \in {"fetched", "cloned", "installing"} =>
                                    \/ call'[t].at = call[t].at
                                    \/ call'[t].at = "cloned" /\ call[t].at = "fetched"
        PROVE  ContextNamed'
    BY <1>1 DEF ContextNamed
  <1>2. CASE Push
    <2>1. head' = head + 1 /\ head <= MaxPushes /\ UNCHANGED <<call, meta, ctx>>
      BY <1>2 DEF Push
    <2>2. head' \in 1 .. MaxPushes + 1 /\ \A n \in 0 .. head : n \in 0 .. head'
      BY <1>0, <2>1
    <2>3. QED BY <2>1, <2>2 DEF ContextNamed
  <1>3. CASE RunEnds \/ SweepRepo \/ SweepVfs \/ FailRepo
    BY <1>1, <1>3 DEF RunEnds, SweepRepo, SweepVfs, FailRepo
  <1>4. ASSUME NEW t \in Caller, CallTool(t) \/ CloneFails(t) \/ ReadPlain(t) \/ ReadVfs(t) \/ CacheVfs(t)
        PROVE  ContextNamed'
    <2>1. UNCHANGED <<head, meta, ctx>>
      BY <1>4 DEF CallTool, CloneFails, ReadPlain, ReadVfs, CacheVfs, notes
    <2>2. \E entry : call' = [call EXCEPT ![t] = entry] /\ entry.at \in {"called", "idle"}
      <3>1. Idle.at = "idle"
        BY DEF Idle
      <3>2. CASE CallTool(t)
        BY <3>2 DEF CallTool
      <3>3. CASE CloneFails(t)
        BY <3>1, <3>3 DEF CloneFails
      <3>4. CASE ReadPlain(t) \/ ReadVfs(t) \/ CacheVfs(t)
        BY <3>1, <3>4 DEF ReadPlain, ReadVfs, CacheVfs, Read
      <3>5. QED BY <1>4, <3>2, <3>3, <3>4
    <2>3. PICK entry : call' = [call EXCEPT ![t] = entry] /\ entry.at \in {"called", "idle"}
      BY <2>2
    <2>4. QED BY <1>1, <2>1, <2>3, CallEffects
  <1>5. ASSUME NEW t \in Caller, EnsureRepo(t) \/ CloneBranch(t) \/ BuildVfs(t) PROVE ContextNamed'
    <2>1. UNCHANGED <<head, meta, ctx>>
      BY <1>5 DEF EnsureRepo, CloneBranch, BuildVfs, notes
    <2>2. \/ Move(t, "called", "ensured") \/ Move(t, "called", "cloning")
          \/ Move(t, "fetched", "cloned") \/ Move(t, "ensured", "building")
      BY <1>5 DEF EnsureRepo, CloneBranch, BuildVfs
    <2>3. /\ \A u \in Caller \ {t} : call'[u] = call[u]
          /\ \/ call'[t].at \in {"ensured", "cloning", "building"}
             \/ call'[t].at = "cloned" /\ call[t].at = "fetched"
      BY <2>2, MoveEffects
    <2>4. QED BY <1>1, <2>1, <2>3
  <1>6. ASSUME NEW t \in Caller, FetchMeta(t) PROVE ContextNamed'
    <2>1. /\ meta' = [meta EXCEPT ![t] = head] /\ UNCHANGED <<head, ctx>>
          /\ call'[t].at = "fetched" /\ \A u \in Caller \ {t} : call'[u] = call[u]
      BY <1>6, MoveEffects DEF FetchMeta
    <2>2. meta'[t] = head /\ \A u \in Caller \ {t} : meta'[u] = meta[u]
      BY <2>1 DEF RepoTyped
    <2>3. QED BY <1>0, <2>1, <2>2 DEF ContextNamed
  <1>7. ASSUME NEW t \in Caller, InstallRepo(t) PROVE ContextNamed'
    <2>1. /\ ctx' = [ctx EXCEPT !.repo = t, !.cleanup = t] /\ UNCHANGED <<head, meta>>
          /\ call[t].at = "cloned" /\ \A u \in Caller \ {t} : call'[u] = call[u]
      BY <1>7, MoveEffects DEF InstallRepo
    <2>2. ctx'.repo = t /\ ctx'.ready = ctx.ready /\ ctx'.source = ctx.source /\ t # NoClone
      BY <2>1, RepoAssumption DEF RepoTyped
    <2>3. QED BY <2>1, <2>2 DEF ContextNamed
  <1>8. ASSUME NEW t \in Caller, InstallRefs(t) PROVE ContextNamed'
    <2>1. /\ ctx' = [ctx EXCEPT !.source = meta[t], !.ready = TRUE] /\ UNCHANGED <<head, meta>>
          /\ call[t].at = "installing" /\ call'[t].at = "ensured" /\ \A u \in Caller \ {t} : call'[u] = call[u]
      BY <1>8, MoveEffects DEF InstallRefs
    <2>2. ctx'.repo = ctx.repo /\ ctx'.source = meta[t]
      BY <2>1 DEF RepoTyped
    <2>3. QED BY <2>1, <2>2 DEF ContextNamed
  <1>9. QED BY <1>2, <1>3, <1>4, <1>5, <1>6, <1>7, <1>8, RepoAssumption DEF RepoNext

\* The files of a recording, and what the writers hold of them, are tables of revisions.
TablesKept ==
    /\ \A w \in Writer : RevTable(mirror[w]) /\ RevTable(listed[w])
    /\ Cardinality(fresh) <= 1 /\ (\A t \in fresh : RevTable(t))
    /\ RevTable(bundle) /\ RevTable(manifest)
    /\ snapped \subseteq dirs
    /\ \A w \in Writer : stage[w] \notin {"idle", "opened", "scanned", "stopped"} => w \in dirs

LEMMA NoRevisions == RevTable(<<>>)
  BY EmptyTable DEF RevTable, Range

LEMMA StampedIs ==
    ASSUME NEW w \in Writer, number[w] \in Nat, number[w] # 0, NEW table, RevTable(table)
    PROVE  RevTable(Stamped(w, table))
  BY DEF RevTable, Stamped, Range

LEMMA TablesStart == RecInit => TablesKept
  <1> SUFFICES ASSUME RecInit PROVE TablesKept
    OBVIOUS
  <1>1. Cardinality(fresh) = 0 /\ fresh = {}
    BY FS_EmptySet DEF RecInit
  <1>2. QED BY <1>1, NoRevisions DEF RecInit, TablesKept

LEMMA TablesStep == RecTyped /\ Numbered /\ TablesKept /\ RecNext => TablesKept'
  <1> SUFFICES ASSUME RecTyped, Numbered, TablesKept, NEW w \in Writer,
                      \/ OpenWriter(w) \/ ScanInvocations(w) \/ MakeDir(w)
                      \/ ReadMeta(w) \/ WriteMeta(w) \/ WriteSnapshot(w) \/ WriteOutput(w)
                      \/ FetchPrior(w) \/ BuildBundle(w) \/ SwapBundle(w)
                      \/ ReadManifest(w) \/ WriteManifest(w) \/ StopWriter(w)
               PROVE  TablesKept'
    BY DEF RecNext
  <1> USE DEF diskVars, localVars, noteVars
  <1> DEFINE Undone == {"idle", "opened", "scanned", "stopped"}
  <1>1. CASE OpenWriter(w) \/ ScanInvocations(w) \/ ReadMeta(w) \/ WriteMeta(w) \/ WriteOutput(w)
    <2>1. UNCHANGED <<mirror, listed, fresh, bundle, manifest, snapped, dirs>>
      BY <1>1 DEF OpenWriter, ScanInvocations, ReadMeta, WriteMeta, WriteOutput
    <2>2. /\ \A x \in Writer \ {w} : stage'[x] = stage[x]
          /\ stage'[w] \in Undone \/ stage[w] \notin Undone
      BY <1>1, StageMoves DEF OpenWriter, ScanInvocations, ReadMeta, WriteMeta, WriteOutput
    <2>3. QED BY <2>1, <2>2 DEF TablesKept
  <1>2. CASE MakeDir(w)
    <2>1. /\ UNCHANGED <<mirror, listed, fresh, bundle, manifest, snapped>> /\ dirs' = dirs \cup {w}
          /\ \A x \in Writer \ {w} : stage'[x] = stage[x]
      BY <1>2, StageMoves DEF MakeDir
    <2>2. QED BY <2>1 DEF TablesKept
  <1>3. CASE WriteSnapshot(w)
    <2>1. /\ UNCHANGED <<mirror, listed, fresh, bundle, manifest, dirs>> /\ snapped' = snapped \cup {w}
          /\ stage[w] = "metaWritten" /\ \A x \in Writer \ {w} : stage'[x] = stage[x]
      BY <1>3, StageMoves DEF WriteSnapshot
    <2>2. w \in dirs
      BY <2>1 DEF TablesKept
    <2>3. QED BY <2>1, <2>2 DEF TablesKept
  <1>4. ASSUME UNCHANGED <<snapped, dirs>>, stage[w] \notin Undone, \A x \in Writer \ {w} : stage'[x] = stage[x]
        PROVE  /\ snapped' \subseteq dirs'
               /\ \A x \in Writer : stage'[x] \notin Undone => x \in dirs'
    BY <1>4 DEF TablesKept
  <1>5. CASE FetchPrior(w)
    <2>1. /\ UNCHANGED <<listed, fresh, bundle, manifest, snapped, dirs>>
          /\ stage[w] = "output" /\ \A x \in Writer \ {w} : stage'[x] = stage[x]
      BY <1>5, StageMoves DEF FetchPrior
    <2>2. PICK fetched \in BOOLEAN : mirror' = [mirror EXCEPT ![w] = Stamped(w, IF fetched THEN bundle ELSE <<>>)]
      BY <1>5 DEF FetchPrior
    <2>3. number[w] \in Nat /\ number[w] # 0
      BY <2>1 DEF Numbered, RecTyped
    <2>4. RevTable(Stamped(w, IF fetched THEN bundle ELSE <<>>))
      BY <2>3, NoRevisions, StampedIs DEF TablesKept
    <2>5. \A x \in Writer : RevTable(mirror'[x])
      BY <2>2, <2>4 DEF TablesKept, RecTyped
    <2>6. QED BY <1>4, <2>1, <2>5 DEF TablesKept
  <1>6. CASE BuildBundle(w)
    <2>1. /\ UNCHANGED <<listed, bundle, manifest, snapped, dirs>> /\ fresh' = {mirror[w]}
          /\ mirror' = [mirror EXCEPT ![w] = <<>>]
          /\ stage[w] = "fetched" /\ \A x \in Writer \ {w} : stage'[x] = stage[x]
      BY <1>6, StageMoves DEF BuildBundle
    <2>2. Cardinality(fresh') = 1
      BY <2>1, FS_Singleton
    <2>3. \A x \in Writer : RevTable(mirror'[x])
      BY <2>1, NoRevisions DEF TablesKept, RecTyped
    <2>4. QED BY <1>4, <2>1, <2>2, <2>3 DEF TablesKept
  <1>7. CASE SwapBundle(w)
    <2>1. /\ UNCHANGED <<mirror, listed, manifest, snapped, dirs>> /\ fresh' = {}
          /\ bundle' = bundle \/ bundle' \in fresh
          /\ stage[w] = "built" /\ \A x \in Writer \ {w} : stage'[x] = stage[x]
      BY <1>7, StageMoves DEF SwapBundle
    <2>2. Cardinality(fresh') = 0
      BY <2>1, FS_EmptySet
    <2>3. QED BY <1>4, <2>1, <2>2 DEF TablesKept
  <1>8. CASE ReadManifest(w)
    <2>1. /\ UNCHANGED <<mirror, fresh, bundle, manifest, snapped, dirs>>
          /\ listed' = [listed EXCEPT ![w] = manifest]
          /\ stage[w] = "swapped" /\ \A x \in Writer \ {w} : stage'[x] = stage[x]
      BY <1>8, StageMoves DEF ReadManifest
    <2>2. \A x \in Writer : RevTable(listed'[x])
      BY <2>1 DEF TablesKept, RecTyped
    <2>3. QED BY <1>4, <2>1, <2>2 DEF TablesKept
  <1>9. CASE WriteManifest(w)
    <2>1. /\ UNCHANGED <<mirror, fresh, bundle, snapped, dirs>>
          /\ manifest' = Stamped(w, listed[w]) /\ listed' = [listed EXCEPT ![w] = <<>>]
          /\ stage[w] = "manifestRead" /\ \A x \in Writer \ {w} : stage'[x] = stage[x]
      BY <1>9, StageMoves DEF WriteManifest
    <2>2. \A x \in Writer : RevTable(listed'[x])
      BY <2>1, NoRevisions DEF TablesKept, RecTyped
    <2>3. number[w] \in Nat /\ number[w] # 0
      BY <2>1 DEF Numbered, RecTyped
    <2>4. RevTable(manifest')
      BY <2>1, <2>3, StampedIs DEF TablesKept
    <2>5. QED BY <1>4, <2>1, <2>2, <2>4 DEF TablesKept
  <1>10. CASE StopWriter(w)
    <2>1. /\ UNCHANGED <<fresh, bundle, manifest, snapped, dirs>>
          /\ mirror' = [mirror EXCEPT ![w] = <<>>] /\ listed' = [listed EXCEPT ![w] = <<>>]
          /\ stage'[w] = "stopped" /\ \A x \in Writer \ {w} : stage'[x] = stage[x]
      BY <1>10 DEF StopWriter, RecTyped
    <2>2. \A x \in Writer : RevTable(mirror'[x]) /\ RevTable(listed'[x])
      BY <2>1, NoRevisions DEF TablesKept, RecTyped
    <2>3. QED BY <2>1, <2>2 DEF TablesKept
  <1>11. QED BY <1>1, <1>2, <1>3, <1>5, <1>6, <1>7, <1>8, <1>9, <1>10

------------------------------------------------------------------------------
(* The diff view.  A line of the diff is taken by both parsers: their      *)
(* counters and lists grow as the diff does (ViewInv), as long as no line  *)
(* looks like something else; the answers of the tools follow from that.   *)

ViewText == {Plain, Dashes, EndNote} \cup SymbolName
ViewLine == [mark : {" ", "-", "+"}, text : ViewText, old : Int, new : Int]
GitLine == DiffLine \cup {Note}

\* The sides that a line of the diff is on have lines.
SidesKnown == \A j \in DOMAIN raw : \A side \in Side : raw[j].mark \in Marks(side) => side \in filled

ViewTyped ==
    /\ work \in {"diff", "read", "list"}
    /\ filled \in SUBSET Side /\ filled # {}
    /\ raw \in Seq(GitLine) /\ Len(raw) <= MaxRaw
    /\ view \in Seq(ViewLine) /\ Len(view) <= Len(raw)
    /\ baseNo \in -1 .. Len(raw) /\ sourceNo \in -1 .. Len(raw)
    /\ hunked \in BOOLEAN /\ afterNo \in 0 .. Len(raw) + 1
    /\ changedLines \subseteq 1 .. Len(raw) + 1
    /\ SidesKnown

\* Where the counters of build_virtual_file() stand after i lines.
CounterOn(side, i) == IF side \in filled THEN Number(side, i) ELSE -1

\* Without a line it misreads, build_virtual_file() has counted right.
CountersAreTrue ==
    CleanUpTo(Len(raw)) =>
        /\ Len(view) = Len(raw)
        /\ baseNo = CounterOn("old", Len(raw)) /\ sourceNo = CounterOn("new", Len(raw))

\* Inside a hunk, after_no is the number of the next line of the source.
HunkIsTrue == hunked => afterNo = HunkStart

\* What git has printed when the view is written.
DiffIsWhole ==
    work = "read" =>
        /\ \A side \in filled : Number(side, Len(raw)) > 0
        /\ view # <<>>

FilesKnown ==
    /\ files \in [Path -> [fork : Content, source : Content, inBase : BOOLEAN]]
    /\ renamed \in Renames(files)
    /\ onlyChanges \in BOOLEAN /\ offset \in Nat
    /\ rowsRead = {p \in ListedPaths : PlaceOf(p) <= offset}

ViewInv ==
    /\ ViewTyped /\ CountersAreTrue /\ LinesAreTrue /\ HunkIsTrue /\ ChangedLinesAreTrue
    /\ DiffIsWhole /\ FilesKnown

------------------------------------------------------------------------------
\* The numbers of the lines.

LEMMA NumberIs ==
    ASSUME ViewTyped, NEW side \in Side, NEW i \in 0 .. Len(raw)
    PROVE  /\ IsFiniteSet(LinesOf(side, i)) /\ Number(side, i) \in 0 .. i
  <1>1. Len(raw) \in Nat /\ i \in Nat
    BY DEF ViewTyped
  <1>2. IsFiniteSet(1 .. i) /\ Cardinality(1 .. i) = i
    BY <1>1, FS_Interval
  <1>3. LinesOf(side, i) \subseteq 1 .. i
    BY DEF LinesOf
  <1>4. IsFiniteSet(LinesOf(side, i)) /\ Cardinality(LinesOf(side, i)) <= i
    BY <1>2, <1>3, FS_Subset
  <1>5. Cardinality(LinesOf(side, i)) \in Nat
    BY <1>4, FS_CardinalityType
  <1> QED
    BY <1>1, <1>4, <1>5 DEF Number

\* One more line.
LEMMA NumberGrows ==
    ASSUME ViewTyped, NEW side \in Side, NEW r \in GitLine, raw' = Append(raw, r)
    PROVE  /\ Len(raw') = Len(raw) + 1 /\ raw'[Len(raw) + 1] = r
           /\ \A i \in DOMAIN raw : raw'[i] = raw[i]
           /\ \A i \in 0 .. Len(raw) : Number(side, i)' = Number(side, i)
           /\ \A k : k = Len(raw) + 1 => Number(side, k)' =
                 Number(side, Len(raw)) + (IF r.mark \in Marks(side) THEN 1 ELSE 0)
  <1>1. Len(raw) \in Nat /\ DOMAIN raw = 1 .. Len(raw) /\ raw \in Seq(GitLine)
    BY DEF ViewTyped
  <1>n. PICK n \in Nat : n = Len(raw)
    BY <1>1
  <1>2. Len(raw') = n + 1 /\ raw'[n + 1] = r /\ \A i \in 1 .. n : raw'[i] = raw[i]
    BY <1>1, <1>n
  <1>3. ASSUME NEW i \in 0 .. n PROVE LinesOf(side, i)' = LinesOf(side, i)
    <2>1. \A j \in 1 .. i : j \in 1 .. n /\ raw'[j] = raw[j]
      BY <1>2
    <2> QED
      BY <2>1 DEF LinesOf, Marks
  <1>4. LinesOf(side, n + 1)' =
           IF r.mark \in Marks(side) THEN LinesOf(side, n) \cup {n + 1} ELSE LinesOf(side, n)
    <2>1. 1 .. (n + 1) = 1 .. n \cup {n + 1}
      OBVIOUS
    <2>2. LinesOf(side, n + 1)' = {j \in 1 .. n \cup {n + 1} : raw'[j].mark \in Marks(side)}
      BY <2>1 DEF LinesOf, Marks
    <2> QED
      BY <2>2, <1>2 DEF LinesOf, Marks
  <1>5. IsFiniteSet(LinesOf(side, n)) /\ n + 1 \notin LinesOf(side, n)
    BY <1>1, <1>n, NumberIs DEF LinesOf
  <1>6. Cardinality(LinesOf(side, n) \cup {n + 1}) = Cardinality(LinesOf(side, n)) + 1
    BY <1>5, FS_AddElement
  <1>7. Number(side, n) \in Nat
    BY <1>1, <1>n, NumberIs
  <1>8. ASSUME NEW i \in 0 .. n PROVE Number(side, i)' = Number(side, i)
    BY <1>3 DEF Number
  <1>9. Number(side, n + 1)' = Number(side, n) + (IF r.mark \in Marks(side) THEN 1 ELSE 0)
    BY <1>4, <1>6, <1>7 DEF Number
  <1> QED
    BY <1>1, <1>n, <1>2, <1>8, <1>9

------------------------------------------------------------------------------
\* git prints a line, and both parsers take it.

LEMMA GitLineIs ==
    ASSUME NEW r \in GitLine
    PROVE  /\ r.mark \in {" ", "-", "+", "note"} /\ r.text \in ViewText
           /\ r.mark = "note" <=> r = Note
           /\ MarkOf(r) \in {" ", "-", "+"}
           /\ r # Note => r.mark \in {" ", "-", "+"} /\ MarkOf(r) = r.mark /\ r \in DiffLine
  <1>1. CASE r = Note
    BY <1>1 DEF Note, MarkOf, ViewText
  <1>2. CASE r \in DiffLine
    <2>1. r.mark \in {" ", "-", "+"} /\ r.text \in {Plain, Dashes} \cup SymbolName
      BY <1>2 DEF DiffLine
    <2>2. r # Note
      <3>1. Note.mark = "note" /\ Note.mark \notin {" ", "-", "+"}
        BY DEF Note
      <3> QED
        BY <2>1, <3>1
    <2> QED
      BY <1>2, <2>1, <2>2 DEF MarkOf, ViewText
  <1> QED
    BY <1>1, <1>2 DEF GitLine

LEMMA ViewGrows ==
    ASSUME ViewTyped, NEW r \in GitLine, raw' = Append(raw, r), TakeIntoView(r)
    PROVE  /\ view' \in Seq(ViewLine) /\ Len(view') <= Len(raw')
           /\ baseNo' \in -1 .. Len(raw') /\ sourceNo' \in -1 .. Len(raw')
  <1>1. /\ raw \in Seq(GitLine) /\ Len(raw) \in Nat /\ Len(raw') = Len(raw) + 1
        /\ view \in Seq(ViewLine) /\ Len(view) \in Nat /\ Len(view) <= Len(raw)
        /\ baseNo \in -1 .. Len(raw) /\ sourceNo \in -1 .. Len(raw)
    BY DEF ViewTyped
  <1>2. CASE Headlike(r)
    BY <1>1, <1>2 DEF TakeIntoView
  <1>3. CASE ~Headlike(r)
    <2> DEFINE m == MarkOf(r)
               line == [mark |-> m, text |-> r.text,
                        old |-> IF m \in Marks("old") THEN baseNo + 1 ELSE NoNumber,
                        new |-> IF m \in Marks("new") THEN sourceNo + 1 ELSE NoNumber]
    <2>1. /\ baseNo' = IF m \in Marks("old") THEN baseNo + 1 ELSE baseNo
          /\ sourceNo' = IF m \in Marks("new") THEN sourceNo + 1 ELSE sourceNo
          /\ view' = Append(view, line)
      BY <1>3 DEF TakeIntoView
    <2>2. m \in {" ", "-", "+"} /\ r.text \in ViewText
      BY GitLineIs
    <2>o. (IF m \in Marks("old") THEN baseNo + 1 ELSE NoNumber) \in Int
      BY <1>1 DEF NoNumber
    <2>n. (IF m \in Marks("new") THEN sourceNo + 1 ELSE NoNumber) \in Int
      BY <1>1 DEF NoNumber
    <2>3. line \in ViewLine
      BY <2>2, <2>o, <2>n DEF ViewLine
    <2> HIDE DEF line, m
    <2>4. view' \in Seq(ViewLine) /\ Len(view') = Len(view) + 1
      BY <1>1, <2>1, <2>3
    <2> QED
      BY <1>1, <2>1, <2>4
  <1> QED
    BY <1>2, <1>3

LEMMA HunkStartIs ==
    ASSUME ViewTyped
    PROVE  HunkStart \in 0 .. Len(raw) + 1 /\ (HunkStart > 0 <=> "new" \in filled)
           /\ ("new" \in filled => HunkStart = Number("new", Len(raw)) + 1)
  <1>1. Len(raw) \in Nat /\ Len(raw) \in 0 .. Len(raw)
    BY DEF ViewTyped
  <1>2. Number("new", Len(raw)) \in 0 .. Len(raw)
    BY <1>1, NumberIs DEF Side
  <1> QED
    BY <1>1, <1>2 DEF HunkStart

LEMMA HunkGrows ==
    ASSUME ViewTyped, HunkIsTrue, NEW r \in GitLine, raw' = Append(raw, r), TakeIntoHunk(r)
    PROVE  /\ changedLines' = IF r.mark = "+" \/ (r.mark = "-" /\ HunkStart > 0)
                              THEN changedLines \cup {HunkStart} ELSE changedLines
           /\ afterNo' = IF r.mark \in Marks("new") THEN HunkStart + 1 ELSE HunkStart
  <1>1. (IF hunked THEN afterNo ELSE HunkStart) = HunkStart
    BY DEF HunkIsTrue
  <1> QED
    BY <1>1 DEF TakeIntoHunk

LEMMA SidesStay ==
    ASSUME ViewTyped, NEW r \in GitLine, MayFollow(r), raw' = Append(raw, r), filled' = filled
    PROVE  SidesKnown' /\ \A side \in Side : r.mark \in Marks(side) => side \in filled
  <1>1. raw \in Seq(GitLine) /\ Len(raw) \in Nat /\ DOMAIN raw = 1 .. Len(raw) /\ SidesKnown
    BY DEF ViewTyped
  <1>2. \A side \in Side : r.mark \in Marks(side) => side \in filled
    <2>1. CASE r = Note
      BY <2>1 DEF Note, Marks
    <2>2. CASE r # Note
      BY <2>2 DEF MayFollow
    <2> QED
      BY <2>1, <2>2
  <1>3. ASSUME NEW j \in DOMAIN raw', NEW side \in Side, raw'[j].mark \in Marks(side)
        PROVE  side \in filled'
    <2>1. DOMAIN raw' = 1 .. Len(raw) + 1 /\ raw'[Len(raw) + 1] = r
          /\ \A k \in DOMAIN raw : raw'[k] = raw[k]
      BY <1>1
    <2>2. CASE j = Len(raw) + 1
      BY <1>2, <1>3, <2>1, <2>2
    <2>3. CASE j # Len(raw) + 1
      <3>1. j \in DOMAIN raw /\ raw[j].mark \in Marks(side)
        BY <1>1, <1>3, <2>1, <2>3
      <3> QED
        BY <1>1, <3>1 DEF SidesKnown
    <2> QED
      BY <2>2, <2>3
  <1> QED
    BY <1>2, <1>3 DEF SidesKnown, Marks, Side

LEMMA EmitTyped ==
    ASSUME ViewTyped, HunkIsTrue, NEW r \in GitLine, GitEmits(r)
    PROVE  ViewTyped'
  <1>1. /\ raw \in Seq(GitLine) /\ Len(raw) \in Nat /\ raw' = Append(raw, r) /\ MayFollow(r)
        /\ TakeIntoView(r) /\ filled' = filled /\ work' = work /\ Len(raw) < MaxRaw
    BY DEF ViewTyped, GitEmits
  <1>2. raw' \in Seq(GitLine) /\ Len(raw') = Len(raw) + 1 /\ Len(raw') <= MaxRaw
    BY <1>1, ViewAssumption
  <1>3. HunkStart \in 0 .. Len(raw) + 1
    BY HunkStartIs
  <1>4. /\ hunked' \in BOOLEAN /\ afterNo' \in 0 .. Len(raw') + 1
        /\ changedLines' \subseteq 1 .. Len(raw') + 1
    <2>1. \/ (hunked' = TRUE /\ TakeIntoHunk(r))
          \/ (hunked' = FALSE /\ UNCHANGED <<afterNo, changedLines>>)
      BY DEF GitEmits
    <2>2. afterNo \in 0 .. Len(raw) + 1 /\ changedLines \subseteq 1 .. Len(raw) + 1
      BY DEF ViewTyped
    <2>3. CASE hunked' = FALSE /\ UNCHANGED <<afterNo, changedLines>>
      <3>1. hunked' = FALSE /\ afterNo' = afterNo /\ changedLines' = changedLines
        BY <2>3
      <3>2. 0 .. Len(raw) + 1 \subseteq 0 .. Len(raw') + 1 /\ 1 .. Len(raw) + 1 \subseteq 1 .. Len(raw') + 1
        BY <1>1, <1>2
      <3> QED
        BY <2>2, <3>1, <3>2
    <2>4. CASE hunked' = TRUE /\ TakeIntoHunk(r)
      <3>1. /\ changedLines' = IF r.mark = "+" \/ (r.mark = "-" /\ HunkStart > 0)
                               THEN changedLines \cup {HunkStart} ELSE changedLines
            /\ afterNo' = IF r.mark \in Marks("new") THEN HunkStart + 1 ELSE HunkStart
        BY <1>1, <2>4, HunkGrows
      <3>2. r.mark = "+" => HunkStart > 0
        BY <1>1, HunkStartIs, SidesStay DEF Marks, Side
      <3> QED
        BY <1>1, <1>2, <1>3, <2>2, <2>4, <3>1, <3>2
    <2> QED
      BY <2>1, <2>3, <2>4
  <1>5. SidesKnown'
    BY <1>1, SidesStay
  <1>6. view' \in Seq(ViewLine) /\ Len(view') <= Len(raw')
        /\ baseNo' \in -1 .. Len(raw') /\ sourceNo' \in -1 .. Len(raw')
    BY <1>1, ViewGrows
  <1> QED
    BY <1>1, <1>2, <1>4, <1>5, <1>6 DEF ViewTyped

\* A line that is read rightly is the next line of the view.
LEMMA LineIsTaken ==
    ASSUME ViewTyped, CountersAreTrue, NEW r \in GitLine, GitEmits(r), CleanUpTo(Len(raw))'
    PROVE  /\ CleanUpTo(Len(raw)) /\ r # Note /\ ~Headlike(r)
           /\ Len(view) = Len(raw) /\ Len(view') = Len(raw')
           /\ \A i \in DOMAIN raw : view'[i] = view[i]
           /\ \A side \in Side : Number(side, Len(raw))' =
                 Number(side, Len(raw)) + (IF r.mark \in Marks(side) THEN 1 ELSE 0)
           /\ baseNo' = CounterOn("old", Len(raw))' /\ sourceNo' = CounterOn("new", Len(raw))'
           /\ \A k : k = Len(raw) + 1 =>
                 view'[k] = [mark |-> r.mark, text |-> r.text,
                             old |-> IF r.mark \in Marks("old") THEN Number("old", k)' ELSE NoNumber,
                             new |-> IF r.mark \in Marks("new") THEN Number("new", k)' ELSE NoNumber]
  <1>1. /\ raw \in Seq(GitLine) /\ Len(raw) \in Nat /\ raw' = Append(raw, r) /\ MayFollow(r)
        /\ TakeIntoView(r) /\ filled' = filled /\ view \in Seq(ViewLine)
    BY DEF ViewTyped, GitEmits
  <1>2. /\ Len(raw') = Len(raw) + 1 /\ raw'[Len(raw) + 1] = r
        /\ \A i \in DOMAIN raw : raw'[i] = raw[i]
    BY <1>1
  <1>3. CleanUpTo(Len(raw)) /\ r # Note /\ ~Headlike(r)
    <2>1. \A j \in 1 .. Len(raw) + 1 : raw'[j] # Note /\ ~Headlike(raw'[j])
      BY <1>2 DEF CleanUpTo, Headlike
    <2>2. Len(raw) + 1 \in 1 .. Len(raw) + 1 /\ \A j \in 1 .. Len(raw) : j \in 1 .. Len(raw) + 1 /\ j \in DOMAIN raw
      BY <1>1
    <2> QED
      BY <1>2, <2>1, <2>2 DEF CleanUpTo
  <1>4. /\ Len(view) = Len(raw) /\ baseNo = CounterOn("old", Len(raw))
        /\ sourceNo = CounterOn("new", Len(raw))
    BY <1>3 DEF CountersAreTrue
  <1>5. ASSUME NEW side \in Side
        PROVE  /\ Number(side, Len(raw))' =
                     Number(side, Len(raw)) + (IF r.mark \in Marks(side) THEN 1 ELSE 0)
               /\ \A k : k = Len(raw) + 1 => Number(side, k)' = Number(side, Len(raw))'
               /\ r.mark \in Marks(side) => side \in filled
               /\ Number(side, Len(raw)) \in Nat
    <2>n. PICK k \in Nat : k = Len(raw) + 1
      BY <1>1
    <2>1. Number(side, k)' = Number(side, Len(raw)) + (IF r.mark \in Marks(side) THEN 1 ELSE 0)
      BY <1>1, <2>n, NumberGrows
    <2>2. Number(side, Len(raw))' = Number(side, k)'
      BY <1>2, <2>n DEF Number, LinesOf
    <2>3. r.mark \in Marks(side) => side \in filled
      BY <1>1, SidesStay
    <2>4. Number(side, Len(raw)) \in Nat
      BY <1>1, NumberIs
    <2> QED
      BY <2>n, <2>1, <2>2, <2>3, <2>4
  <1>6. MarkOf(r) = r.mark
    BY <1>3, GitLineIs
  <1>7. /\ baseNo' = IF r.mark \in Marks("old") THEN baseNo + 1 ELSE baseNo
        /\ sourceNo' = IF r.mark \in Marks("new") THEN sourceNo + 1 ELSE sourceNo
        /\ view' = Append(view, [mark |-> r.mark, text |-> r.text,
                old |-> IF r.mark \in Marks("old") THEN baseNo + 1 ELSE NoNumber,
                new |-> IF r.mark \in Marks("new") THEN sourceNo + 1 ELSE NoNumber])
    BY <1>1, <1>3, <1>6 DEF TakeIntoView
  <1>8. "old" \in Side /\ "new" \in Side
    BY DEF Side
  <1>9. baseNo' = CounterOn("old", Len(raw))' /\ sourceNo' = CounterOn("new", Len(raw))'
    <2>1. CounterOn("old", Len(raw))' = IF "old" \in filled THEN Number("old", Len(raw))' ELSE -1
      BY <1>1 DEF CounterOn
    <2>2. CounterOn("new", Len(raw))' = IF "new" \in filled THEN Number("new", Len(raw))' ELSE -1
      BY <1>1 DEF CounterOn
    <2> QED
      BY <1>4, <1>5, <1>7, <1>8, <2>1, <2>2 DEF CounterOn
  <1>10. /\ Len(view') = Len(raw') /\ \A i \in DOMAIN raw : view'[i] = view[i]
         /\ \A k : k = Len(raw) + 1 =>
                view'[k] = [mark |-> r.mark, text |-> r.text,
                old |-> IF r.mark \in Marks("old") THEN baseNo + 1 ELSE NoNumber,
                new |-> IF r.mark \in Marks("new") THEN sourceNo + 1 ELSE NoNumber]
    BY <1>1, <1>2, <1>4, <1>7
  <1>11. ASSUME NEW k, k = Len(raw) + 1
         PROVE  /\ r.mark \in Marks("old") => baseNo + 1 = Number("old", k)'
                /\ r.mark \in Marks("new") => sourceNo + 1 = Number("new", k)'
    BY <1>4, <1>5, <1>8, <1>11 DEF CounterOn
  <1> QED
    BY <1>3, <1>4, <1>5, <1>9, <1>10, <1>11

LEMMA LinesStep ==
    ASSUME ViewTyped, CountersAreTrue, LinesAreTrue, NEW r \in GitLine, GitEmits(r)
    PROVE  CountersAreTrue' /\ LinesAreTrue'
  <1>1. /\ raw \in Seq(GitLine) /\ Len(raw) \in Nat /\ DOMAIN raw = 1 .. Len(raw)
        /\ raw' = Append(raw, r)
    BY DEF ViewTyped, GitEmits
  <1>2. CountersAreTrue'
    BY LineIsTaken DEF CountersAreTrue
  <1>n. PICK n \in Nat : n = Len(raw)
    BY <1>1
  <1>3. Len(raw') = n + 1 /\ raw'[n + 1] = r /\ \A i \in 1 .. n : raw'[i] = raw[i]
    BY <1>1, <1>n
  <1>4. ASSUME NEW i \in 1 .. n + 1, CleanUpTo(i)'
        PROVE  /\ i \in DOMAIN view'
               /\ view'[i] = [mark |-> raw'[i].mark, text |-> raw'[i].text,
                              old |-> NumberOn("old", i)', new |-> NumberOn("new", i)']
    <2>1. CASE i = n + 1
      <3>1. CleanUpTo(Len(raw))'
        BY <1>3, <1>4, <2>1 DEF CleanUpTo
      <3>2. /\ Len(view') = Len(raw')
            /\ view'[i] = [mark |-> r.mark, text |-> r.text,
                         old |-> IF r.mark \in Marks("old") THEN Number("old", i)' ELSE NoNumber,
                         new |-> IF r.mark \in Marks("new") THEN Number("new", i)' ELSE NoNumber]
        BY <1>n, <2>1, <3>1, LineIsTaken
      <3>3. view' \in Seq(ViewLine)
        BY <1>1, ViewGrows DEF GitEmits
      <3>4. i \in DOMAIN view'
        BY <1>3, <2>1, <3>2, <3>3
      <3> QED
        BY <1>3, <2>1, <3>2, <3>4 DEF NumberOn
    <2>2. CASE i \in 1 .. n
      <3>1. CleanUpTo(i)
        BY <1>3, <1>4, <2>2 DEF CleanUpTo, Headlike
      <3>2. /\ i \in DOMAIN view
            /\ view[i] = [mark |-> raw[i].mark, text |-> raw[i].text,
                          old |-> NumberOn("old", i), new |-> NumberOn("new", i)]
        BY <1>1, <1>n, <2>2, <3>1 DEF LinesAreTrue
      <3>3. i \in DOMAIN view' /\ view'[i] = view[i]
        <4>1. view \in Seq(ViewLine) /\ TakeIntoView(r)
          BY DEF ViewTyped, GitEmits
        <4>2. view' = view \/ \E e : view' = Append(view, e)
          BY <4>1 DEF TakeIntoView
        <4> QED
          BY <3>2, <4>1, <4>2
      <3>4. NumberOn("old", i)' = NumberOn("old", i) /\ NumberOn("new", i)' = NumberOn("new", i)
        <4>1. "old" \in Side /\ "new" \in Side /\ i \in 0 .. Len(raw)
          BY <1>n, <2>2 DEF Side
        <4>2. Number("old", i)' = Number("old", i) /\ Number("new", i)' = Number("new", i)
          BY <1>1, <4>1, NumberGrows
        <4> QED
          BY <1>3, <2>2, <4>2 DEF NumberOn, Marks
      <3> QED
        BY <1>3, <2>2, <3>2, <3>3, <3>4
    <2> QED
      BY <1>4, <2>1, <2>2
  <1>5. DOMAIN raw' = 1 .. n + 1
    BY <1>1, <1>n
  <1> QED
    BY <1>2, <1>4, <1>5 DEF LinesAreTrue

\* What the diff parser adds for a line, and where it stands then.
LEMMA HunkStep ==
    ASSUME ViewTyped, HunkIsTrue, NEW r \in GitLine, GitEmits(r)
    PROVE  /\ HunkIsTrue'
           /\ changedLines' = IF r.mark = "+" \/ (r.mark = "-" /\ "new" \in filled)
                              THEN changedLines \cup {Number("new", Len(raw)) + 1} ELSE changedLines
  <1>1. /\ raw \in Seq(GitLine) /\ Len(raw) \in Nat /\ raw' = Append(raw, r) /\ MayFollow(r)
        /\ filled' = filled /\ "new" \in Side
    BY DEF ViewTyped, GitEmits, Side
  <1>2. /\ HunkStart > 0 <=> "new" \in filled
        /\ "new" \in filled => HunkStart = Number("new", Len(raw)) + 1
        /\ Number("new", Len(raw)) \in Nat
    BY <1>1, HunkStartIs, NumberIs
  <1>3. r.mark \in Marks("new") => "new" \in filled
    BY <1>1, SidesStay
  <1>4. HunkStart' = IF r.mark \in Marks("new") THEN HunkStart + 1 ELSE HunkStart
    <2>n. PICK k \in Nat : k = Len(raw) + 1
      BY <1>1
    <2>1. Number("new", k)' =
             Number("new", Len(raw)) + (IF r.mark \in Marks("new") THEN 1 ELSE 0)
      BY <1>1, <2>n, NumberGrows
    <2>2. Number("new", Len(raw))' = Number("new", k)'
      <3>1. Len(raw') = k
        BY <1>1, <2>n
      <3> QED
        BY <3>1 DEF Number, LinesOf
    <2>3. HunkStart' = IF "new" \in filled THEN Number("new", Len(raw))' + 1 ELSE 0
      BY <1>1 DEF HunkStart
    <2> QED
      BY <1>2, <1>3, <2>1, <2>2, <2>3 DEF HunkStart
  <1>5. \/ (hunked' = TRUE /\ TakeIntoHunk(r))
        \/ ((MayLeaveOut(r) \/ r = Note) /\ hunked' = FALSE /\ changedLines' = changedLines)
    BY DEF GitEmits
  <1>6. CASE (MayLeaveOut(r) \/ r = Note) /\ hunked' = FALSE /\ changedLines' = changedLines
    <2>1. r.mark \in {" ", "note"}
      BY <1>6, GitLineIs DEF MayLeaveOut
    <2> QED
      BY <1>6, <2>1 DEF HunkIsTrue
  <1>7. CASE hunked' = TRUE /\ TakeIntoHunk(r)
    <2>1. /\ changedLines' = IF r.mark = "+" \/ (r.mark = "-" /\ HunkStart > 0)
                             THEN changedLines \cup {HunkStart} ELSE changedLines
          /\ afterNo' = IF r.mark \in Marks("new") THEN HunkStart + 1 ELSE HunkStart
      BY <1>1, <1>7, HunkGrows
    <2>2. HunkIsTrue'
      BY <1>4, <1>7, <2>1 DEF HunkIsTrue
    <2>3. r.mark = "+" => "new" \in filled
      BY <1>3 DEF Marks
    <2> QED
      BY <1>2, <2>1, <2>2, <2>3
  <1> QED
    BY <1>5, <1>6, <1>7

LEMMA ChangedLinesStep ==
    ASSUME ViewTyped, HunkIsTrue, ChangedLinesAreTrue, NEW r \in GitLine, GitEmits(r)
    PROVE  ChangedLinesAreTrue'
  <1> DEFINE Plus == {Number("new", i) : i \in {j \in DOMAIN raw : raw[j].mark = "+"}}
             Minus == {Number("new", i) + 1 :
                          i \in {j \in DOMAIN raw : raw[j].mark = "-" /\ "new" \in filled}}
  <1>1. /\ raw \in Seq(GitLine) /\ Len(raw) \in Nat /\ DOMAIN raw = 1 .. Len(raw)
        /\ raw' = Append(raw, r) /\ filled' = filled /\ "new" \in Side
    BY DEF ViewTyped, GitEmits, Side
  <1>n. PICK n \in Nat : n = Len(raw)
    BY <1>1
  <1>2. /\ raw'[n + 1] = r /\ DOMAIN raw' = 1 .. n + 1 /\ \A i \in 1 .. n : raw'[i] = raw[i]
    BY <1>1, <1>n
  <1>3. /\ \A i \in 1 .. n : Number("new", i)' = Number("new", i)
        /\ Number("new", n + 1)' =
              Number("new", Len(raw)) + (IF r.mark \in Marks("new") THEN 1 ELSE 0)
    BY <1>1, <1>n, NumberGrows
  <1>4. Number("new", Len(raw)) \in Nat
    BY <1>1, NumberIs
  <1> DEFINE next == Number("new", Len(raw)) + 1
             plus1 == {Number("new", i)' : i \in {j \in 1 .. n + 1 : raw'[j].mark = "+"}}
             minus1 == {Number("new", i)' + 1 :
                           i \in {j \in 1 .. n + 1 : raw'[j].mark = "-" /\ "new" \in filled}}
  <1>5. changedLines = Plus \cup Minus
    BY DEF ChangedLinesAreTrue
  <1>6. plus1 = IF r.mark = "+" THEN Plus \cup {next} ELSE Plus
    <2>1. {j \in 1 .. n + 1 : raw'[j].mark = "+"} =
             {j \in DOMAIN raw : raw[j].mark = "+"} \cup (IF r.mark = "+" THEN {n + 1} ELSE {})
      <3>1. 1 .. n + 1 = 1 .. n \cup {n + 1}
        OBVIOUS
      <3> QED
        BY <3>1, <1>1, <1>n, <1>2
    <2>2. r.mark = "+" => Number("new", n + 1)' = next
      BY <1>3, <1>4 DEF Marks
    <2>3. \A i \in {j \in DOMAIN raw : raw[j].mark = "+"} : Number("new", i)' = Number("new", i)
      BY <1>1, <1>n, <1>3
    <2> HIDE DEF next
    <2> QED
      BY <2>1, <2>2, <2>3
  <1>7. minus1 = IF r.mark = "-" /\ "new" \in filled THEN Minus \cup {next} ELSE Minus
    <2>1. {j \in 1 .. n + 1 : raw'[j].mark = "-" /\ "new" \in filled} =
             {j \in DOMAIN raw : raw[j].mark = "-" /\ "new" \in filled}
             \cup (IF r.mark = "-" /\ "new" \in filled THEN {n + 1} ELSE {})
      <3>1. 1 .. n + 1 = 1 .. n \cup {n + 1}
        OBVIOUS
      <3> QED
        BY <3>1, <1>1, <1>n, <1>2
    <2>2. r.mark = "-" => Number("new", n + 1)' + 1 = next
      BY <1>3, <1>4 DEF Marks
    <2>3. \A i \in {j \in DOMAIN raw : raw[j].mark = "-" /\ "new" \in filled} :
             Number("new", i)' = Number("new", i)
      BY <1>1, <1>n, <1>3
    <2> HIDE DEF next
    <2> QED
      BY <2>1, <2>2, <2>3
  <1>8. changedLines' = plus1 \cup minus1
    <2>1. changedLines' = IF r.mark = "+" \/ (r.mark = "-" /\ "new" \in filled)
                         THEN changedLines \cup {next} ELSE changedLines
      BY HunkStep
    <2> HIDE DEF next, Plus, Minus, plus1, minus1
    <2> QED
      BY <1>5, <1>6, <1>7, <2>1
  <1>9. ChangedLinesAreTrue' <=> changedLines' = plus1 \cup minus1
    BY <1>1, <1>2 DEF ChangedLinesAreTrue
  <1> QED
    BY <1>8, <1>9

------------------------------------------------------------------------------
\* The outline.

LEMMA MinIs ==
    ASSUME NEW n \in Nat, NEW s \in SUBSET (1 .. n), s # {}
    PROVE  Min(s) \in s /\ \A y \in s : Min(s) <= y
  <1>1. s \subseteq Nat
    OBVIOUS
  <1>2. \E x \in s : \A y \in s : x <= y
    BY <1>1, Least
  <1> QED
    BY <1>2 DEF Min

LEMMA SymbolIs ==
    ASSUME view \in Seq(ViewLine), NEW s \in SymbolName, NEW side \in Sides(s)
    PROVE  /\ LastOpening(side, s) \in Openings(side, s)
           /\ \A L \in Openings(side, s) : L <= LastOpening(side, s)
           /\ Max(Extent(side, s)) \in Extent(side, s)
           /\ \A L \in Extent(side, s) : L <= Max(Extent(side, s))
  <1>1. PICK n \in Nat : n = Len(view) /\ DOMAIN view = 1 .. n
    OBVIOUS
  <1>2. Openings(side, s) \in SUBSET (1 .. n) /\ Openings(side, s) # {}
    BY <1>1 DEF Openings, SideRows, Sides
  <1>3. /\ LastOpening(side, s) \in Openings(side, s)
        /\ \A L \in Openings(side, s) : LastOpening(side, s) >= L
    BY <1>2, MaxIs DEF LastOpening
  <1>4. LastOpening(side, s) \in Extent(side, s)
    <2>1. LastOpening(side, s) \in SideRows(side) /\ LastOpening(side, s) \in 1 .. n
      BY <1>2, <1>3 DEF Openings
    <2>2. \A K \in SideRows(side) : K \in 1 .. n
      BY <1>1 DEF SideRows
    <2> QED
      BY <2>1, <2>2 DEF Extent
  <1>5. Extent(side, s) \in SUBSET (1 .. n)
    BY <1>1 DEF Extent, SideRows
  <1>6. /\ Max(Extent(side, s)) \in Extent(side, s)
        /\ \A L \in Extent(side, s) : Max(Extent(side, s)) >= L
    BY <1>4, <1>5, MaxIs
  <1> QED
    BY <1>2, <1>3, <1>5, <1>6

\* Without a star, no line between the ends of the symbol has changed.
LEMMA NothingChanged ==
    ASSUME view \in Seq(ViewLine), NEW s \in SymbolName, ~Starred(s),
           NEW side \in Sides(s), NEW other \in Sides(s), NEW L \in DOMAIN view,
           LastOpening(side, s) <= L, L <= Max(Extent(other, s))
    PROVE  view[L].mark = " "
  <1>1. PICK n \in Nat : n = Len(view) /\ DOMAIN view = 1 .. n
    OBVIOUS
  <1>2. \A d \in Sides(s) : LastOpening(d, s) \in 1 .. n /\ Max(Extent(d, s)) \in 1 .. n
    BY <1>1, SymbolIs DEF Openings, Extent, SideRows
  <1>3. Min(Starts(s)) \in 1 .. n /\ Min(Starts(s)) <= LastOpening(side, s)
    <2>1. Starts(s) \in SUBSET (1 .. n) /\ LastOpening(side, s) \in Starts(s)
      BY <1>2 DEF Starts
    <2> QED
      BY <2>1, MinIs
  <1>4. Max(Ends(s)) \in 1 .. n /\ Max(Ends(s)) >= Max(Extent(other, s))
    <2>1. Ends(s) \in SUBSET (1 .. n) /\ Max(Extent(other, s)) \in Ends(s)
      BY <1>2 DEF Ends
    <2> QED
      BY <2>1, MaxIs
  <1>5. Min(Starts(s)) <= L /\ L <= Max(Ends(s))
    <2>1. L \in 1 .. n /\ LastOpening(side, s) \in 1 .. n /\ Max(Extent(other, s)) \in 1 .. n
      BY <1>1, <1>2
    <2> QED
      BY <2>1, <1>3, <1>4
  <1> QED
    BY <1>5 DEF Starred, ChangedRows

LEMMA OnBothSides ==
    ASSUME view \in Seq(ViewLine), NEW s \in SymbolName, ~Starred(s),
           NEW side \in Sides(s), NEW other \in Side
    PROVE  other \in Sides(s) /\ LastOpening(side, s) \in Openings(other, s)
  <1>1. LastOpening(side, s) \in Openings(side, s)
    BY SymbolIs
  <1>2. LastOpening(side, s) \in DOMAIN view /\ view[LastOpening(side, s)].text = s
    BY <1>1 DEF Openings, SideRows
  <1>3. LastOpening(side, s) <= LastOpening(side, s)
        /\ LastOpening(side, s) <= Max(Extent(side, s))
    <2>1. LastOpening(side, s) \in Extent(side, s)
      <3>1. LastOpening(side, s) \in SideRows(side) /\ LastOpening(side, s) \in Nat
        BY <1>1 DEF Openings, SideRows
      <3>2. \A K \in SideRows(side) : K \in Nat
        BY DEF SideRows
      <3> QED
        BY <3>1, <3>2 DEF Extent
    <2>2. LastOpening(side, s) \in Nat
      BY <1>2
    <2> QED
      BY <2>1, <2>2, SymbolIs
  <1>4. view[LastOpening(side, s)].mark = " "
    BY <1>2, <1>3, NothingChanged
  <1>5. LastOpening(side, s) \in Openings(other, s)
    BY <1>2, <1>4 DEF Openings, SideRows, Marks
  <1> QED
    BY <1>5 DEF Sides

LEMMA SameExtent ==
    ASSUME view \in Seq(ViewLine), NEW s \in SymbolName, ~Starred(s),
           NEW side \in Sides(s), NEW other \in Sides(s),
           LastOpening(side, s) = LastOpening(other, s)
    PROVE  Extent(side, s) \subseteq Extent(other, s)
  <1>1. SUFFICES ASSUME NEW L \in Extent(side, s) PROVE L \in Extent(other, s)
    OBVIOUS
  <1>2. /\ L \in SideRows(side) /\ L \in DOMAIN view /\ L \in Nat /\ L >= LastOpening(side, s)
        /\ \A K \in SideRows(side) : LastOpening(side, s) < K /\ K <= L => view[K].text \notin SymbolName
    BY <1>1 DEF Extent, SideRows
  <1>3. LastOpening(side, s) \in Nat /\ Max(Extent(side, s)) \in Nat /\ L <= Max(Extent(side, s))
    <2>1. /\ LastOpening(side, s) \in Openings(side, s)
          /\ Max(Extent(side, s)) \in Extent(side, s) /\ L <= Max(Extent(side, s))
      BY SymbolIs
    <2>2. Openings(side, s) \subseteq Nat /\ Extent(side, s) \subseteq Nat
      BY DEF Openings, Extent, SideRows
    <2> QED
      BY <2>1, <2>2
  <1>4. ASSUME NEW K \in DOMAIN view, LastOpening(side, s) <= K, K <= L
        PROVE  view[K].mark = " "
    <2>1. K \in Nat /\ K <= Max(Extent(side, s))
      BY <1>2, <1>3, <1>4
    <2> QED
      BY <1>4, <2>1, NothingChanged
  <1>5. L \in SideRows(other)
    <2>1. LastOpening(side, s) <= L /\ L <= L
      BY <1>2, <1>3
    <2>2. view[L].mark = " "
      BY <1>2, <1>4, <2>1
    <2> QED
      BY <1>2, <2>2 DEF SideRows, Marks
  <1>6. ASSUME NEW K \in SideRows(other), LastOpening(other, s) < K, K <= L
        PROVE  view[K].text \notin SymbolName
    <2>1. K \in DOMAIN view /\ K \in Nat
      BY <1>6 DEF SideRows
    <2>2. view[K].mark = " "
      <3>1. LastOpening(side, s) <= K
        BY <1>3, <1>6, <2>1
      <3> QED
        BY <1>4, <1>6, <2>1, <3>1
    <2>3. K \in SideRows(side)
      BY <2>1, <2>2 DEF SideRows, Marks
    <2> QED
      BY <1>2, <1>6, <2>3
  <1> QED
    BY <1>2, <1>5, <1>6 DEF Extent

LEMMA OutlineHolds == ASSUME view \in Seq(ViewLine) PROVE OutlineIsTrue
  <1>1. SUFFICES ASSUME NEW s \in SymbolName, Sides(s) # {}, ~Starred(s)
                 PROVE  /\ Sides(s) = Side /\ Extent("old", s) = Extent("new", s)
                        /\ Extent("new", s) \cap ChangedRows = {}
    BY DEF OutlineIsTrue
  <1>2. PICK side \in Sides(s) : TRUE
    BY <1>1
  <1>3. Sides(s) = Side
    BY <1>1, <1>2, OnBothSides DEF Sides
  <1>4. "old" \in Sides(s) /\ "new" \in Sides(s)
    BY <1>3 DEF Side
  <1>5. LastOpening("old", s) = LastOpening("new", s)
    <2>1. LastOpening("old", s) \in Openings("new", s) /\ LastOpening("new", s) \in Openings("old", s)
      BY <1>1, <1>3, <1>4, OnBothSides
    <2>2. LastOpening("old", s) <= LastOpening("new", s) /\ LastOpening("new", s) <= LastOpening("old", s)
      BY <1>4, <2>1, SymbolIs
    <2>3. LastOpening("old", s) \in Nat /\ LastOpening("new", s) \in Nat
      BY <2>1 DEF Openings, SideRows
    <2> QED
      BY <2>2, <2>3
  <1>6. Extent("old", s) = Extent("new", s)
    <2>1. Extent("old", s) \subseteq Extent("new", s)
      BY <1>1, <1>4, <1>5, SameExtent
    <2>2. Extent("new", s) \subseteq Extent("old", s)
      BY <1>1, <1>4, <1>5, SameExtent
    <2> QED
      BY <2>1, <2>2
  <1>7. ASSUME NEW L \in Extent("new", s) PROVE L \notin ChangedRows
    <2>1. L \in DOMAIN view /\ LastOpening("new", s) <= L
      <3>1. L \in DOMAIN view /\ L >= LastOpening("new", s)
        BY <1>7 DEF Extent, SideRows
      <3>2. LastOpening("new", s) \in Nat /\ L \in Nat
        BY <1>4, <3>1, SymbolIs DEF Openings, SideRows
      <3> QED
        BY <3>1, <3>2
    <2>2. L <= Max(Extent("new", s))
      BY <1>4, <1>7, SymbolIs
    <2>3. view[L].mark = " "
      BY <1>1, <1>4, <2>1, <2>2, NothingChanged
    <2> QED
      BY <2>3 DEF ChangedRows
  <1> QED
    BY <1>3, <1>6, <1>7

------------------------------------------------------------------------------
\* The answers of the tools.

DivIs ==
    \A x \in Nat : \A d \in Nat \ {0} :
        LET q == x \div d IN q \in Nat /\ q * d <= x /\ x < q * d + d

LEMMA Division == DivIs
  BY DEF DivIs

LEMMA AnswersHold ==
    ASSUME ViewTyped, CountersAreTrue, LinesAreTrue, DiffIsWhole
    PROVE  AnswersAreTrue
  <1> SUFFICES ASSUME work = "read", CleanUpTo(Len(raw)) PROVE
        /\ {i \in DOMAIN raw : raw[i].mark # " "} \subseteq ChangesOnly(0, 0)
        /\ ChangesTag = "new file" <=> filled = {"new"}
        /\ ChangesTag = "deleted" <=> filled = {"old"}
        /\ \A t \in {Plain} \cup SymbolName :
              Cardinality(Matches(t)) <= MaxHits =>
                  {i \in DOMAIN raw : raw[i].text = t} \subseteq SearchRows(t, 0, 0)
        /\ \A i \in DOMAIN raw :
              i \in ReadRows(((i - 1) \div WindowSize) * WindowSize + 1, NoNumber)
    BY DEF AnswersAreTrue
  <1>1. /\ raw \in Seq(GitLine) /\ view \in Seq(ViewLine) /\ Len(view) = Len(raw) /\ Len(raw) \in Nat
        /\ DOMAIN raw = 1 .. Len(raw) /\ DOMAIN view = 1 .. Len(raw)
    BY DEF ViewTyped, CountersAreTrue
  <1>2. \A i \in DOMAIN raw : /\ view[i].mark = raw[i].mark /\ view[i].text = raw[i].text
                              /\ raw[i].mark \in {" ", "-", "+"}
    <2>1. SUFFICES ASSUME NEW i \in DOMAIN raw
                   PROVE  /\ view[i].mark = raw[i].mark /\ view[i].text = raw[i].text
                          /\ raw[i].mark \in {" ", "-", "+"}
      OBVIOUS
    <2>2. CleanUpTo(i)
      BY <1>1 DEF CleanUpTo
    <2>3. view[i] = [mark |-> raw[i].mark, text |-> raw[i].text,
                     old |-> NumberOn("old", i), new |-> NumberOn("new", i)]
      BY <2>2 DEF LinesAreTrue
    <2>4. raw[i] \in GitLine /\ raw[i] # Note
      BY <1>1, <2>2 DEF CleanUpTo
    <2>5. raw[i].mark \in {" ", "-", "+"}
      BY <2>4, GitLineIs
    <2>6. view[i].mark = raw[i].mark /\ view[i].text = raw[i].text
      BY <2>3
    <2> QED
      BY <2>5, <2>6
  <1>3. ASSUME NEW i \in DOMAIN raw, raw[i].mark # " " PROVE i \in ChangesOnly(0, 0)
    <2>1. i \in DOMAIN view /\ i \in Nat
      BY <1>1
    <2>2. i \in ChangedRows
      BY <1>2, <1>3, <2>1 DEF ChangedRows
    <2> QED
      BY <2>1, <2>2 DEF ChangesOnly, Near
  <1>4. \A side \in filled : \E i \in DOMAIN view : view[i].mark \in Marks(side)
    <2>1. SUFFICES ASSUME NEW side \in filled, \A i \in DOMAIN view : view[i].mark \notin Marks(side)
                   PROVE  FALSE
      OBVIOUS
    <2>2. LinesOf(side, Len(raw)) = {}
      BY <1>1, <1>2, <2>1 DEF LinesOf
    <2>3. Number(side, Len(raw)) = 0
      BY <2>2, FS_EmptySet DEF Number
    <2>4. Number(side, Len(raw)) > 0
      BY DEF DiffIsWhole
    <2> QED
      BY <2>3, <2>4
  <1>5. \A i \in DOMAIN view : \A side \in Side : view[i].mark \in Marks(side) => side \in filled
    BY <1>1, <1>2 DEF ViewTyped, SidesKnown
  <1>6. /\ filled \in SUBSET Side /\ filled # {}
        /\ \A i \in DOMAIN view : view[i].mark \in {" ", "-", "+"}
        /\ DOMAIN view # {}
    <2>1. filled \in SUBSET Side /\ filled # {}
      BY DEF ViewTyped
    <2>2. DOMAIN view # {}
      BY <1>4, <2>1
    <2> QED
      BY <1>1, <1>2, <2>1, <2>2
  <1>7. (\A i \in DOMAIN view : view[i].mark = "+") <=> filled = {"new"}
    BY <1>4, <1>5, <1>6 DEF Marks, Side
  <1>8. (\A i \in DOMAIN view : view[i].mark = "-") <=> filled = {"old"}
    BY <1>4, <1>5, <1>6 DEF Marks, Side
  <1>9. /\ ChangesTag = "new file" <=> filled = {"new"}
        /\ ChangesTag = "deleted" <=> filled = {"old"}
    BY <1>7, <1>8 DEF ChangesTag
  <1>10. ASSUME NEW t \in {Plain} \cup SymbolName, Cardinality(Matches(t)) <= MaxHits,
                NEW i \in DOMAIN raw, raw[i].text = t
         PROVE  i \in SearchRows(t, 0, 0)
    <2>1. i \in Matches(t) /\ Matches(t) \subseteq 1 .. Len(raw)
      BY <1>1, <1>2, <1>10 DEF Matches
    <2>2. IsFiniteSet(Matches(t))
      <3>1. IsFiniteSet(1 .. Len(raw))
        BY <1>1, FS_Interval
      <3> QED
        BY <2>1, <3>1, FS_Subset
    <2> DEFINE upTo == {K \in Matches(t) : K <= i}
    <2>3. IsFiniteSet(upTo) /\ Cardinality(upTo) <= Cardinality(Matches(t))
      BY <2>2, FS_Subset
    <2>4. Cardinality(upTo) \in Nat /\ Cardinality(Matches(t)) \in Nat /\ MaxHits \in Nat
      BY <2>2, <2>3, FS_CardinalityType, ViewAssumption
    <2>5. Cardinality(upTo) <= MaxHits
      BY <1>10, <2>3, <2>4
    <2>6. i \in Hits(t)
      BY <2>1, <2>5 DEF Hits
    <2> QED
      BY <1>1, <2>6 DEF SearchRows, Near
  <1>11. ASSUME NEW i \in DOMAIN raw
         PROVE  i \in ReadRows(((i - 1) \div WindowSize) * WindowSize + 1, NoNumber)
    <2>1. i - 1 \in Nat /\ i \in Nat /\ WindowSize \in Nat \ {0}
      BY <1>1, ViewAssumption
    <2> DEFINE q == (i - 1) \div WindowSize
               start == q * WindowSize + 1
    <2>2. q \in Nat /\ q * WindowSize <= i - 1 /\ i - 1 < q * WindowSize + WindowSize
      BY <2>1, Division DEF DivIs
    <2> HIDE DEF q
    <2>3. q * WindowSize \in Nat
      BY <2>1, <2>2
    <2>4. start \in Nat /\ start # 0 /\ start # NoNumber /\ start <= i /\ i <= start + WindowSize - 1
      BY <2>1, <2>2, <2>3 DEF NoNumber
    <2> HIDE DEF start
    <2>5. i \in ReadRows(start, NoNumber)
      BY <1>1, <2>4 DEF ReadRows
    <2> QED
      BY <2>5 DEF start, q
  <1> QED
    BY <1>3, <1>9, <1>10, <1>11

------------------------------------------------------------------------------
\* The listing.

LEMMA RenamedAre ==
    ASSUME FilesKnown
    PROVE  /\ \A p \in MovedAway : p \in Path /\ files[p].fork # "absent" /\ files[p].source = "absent"
           /\ \A p \in MovedTo : p \in Path /\ files[p].fork = "absent" /\ files[p].source # "absent"
  BY DEF FilesKnown, Renames, MayMove, MovedAway, MovedTo

LEMMA ListedIs ==
    ASSUME FilesKnown, NEW p \in Path \ Vendored
    PROVE  p \in ListedPaths <=> \/ (Differs(p) /\ p \notin Untold)
                                \/ (~onlyChanges /\ files[p].source # "absent")
  <1>1. /\ p \in MovedAway => files[p].fork # "absent" /\ files[p].source = "absent"
        /\ p \in MovedTo => files[p].fork = "absent" /\ files[p].source # "absent"
    BY RenamedAre
  <1>2. CASE Differs(p) /\ p \notin MovedAway
    <2>1. Left(p) # "nothing"
      BY <1>2 DEF Left, NameOnly
    <2>2. Status(p) # " "
      BY <1>2 DEF Status
    <2> QED
      BY <1>2, <2>1, <2>2 DEF ListedPaths, Untold
  <1>3. CASE p \in MovedAway
    <2>1. Differs(p) /\ files[p].source = "absent"
      BY <1>1, <1>3 DEF Differs
    <2>2. Left(p) # "nothing" <=> files[p].inBase /\ HasLines(p)
      BY <1>3, <2>1 DEF Left, NameOnly
    <2>3. Status(p) # " "
      BY <1>1, <1>3, <2>1 DEF Status
    <2> QED
      BY <1>3, <2>1, <2>2, <2>3 DEF ListedPaths, Untold
  <1>4. CASE ~Differs(p)
    <2>1. p \notin MovedAway /\ p \notin MovedTo /\ p \notin NameOnly
      BY <1>1, <1>4 DEF Differs, NameOnly
    <2>2. ~HasLines(p)
      BY <1>4 DEF HasLines, Differs
    <2>3. Left(p) # "nothing" <=> files[p].source # "absent"
      BY <2>1, <2>2 DEF Left
    <2>4. Status(p) = " "
      BY <1>4, <2>1 DEF Status
    <2> QED
      BY <1>4, <2>3, <2>4 DEF ListedPaths
  <1> QED
    BY <1>2, <1>3, <1>4

LEMMA ListedPlaces ==
    /\ Cardinality(ListedPaths) \in Nat
    /\ \A p \in ListedPaths : PlaceOf(p) \in 1 .. Cardinality(ListedPaths)
  <1>1. LastPath \in Nat /\ ListedPaths \subseteq 1 .. LastPath
    BY ViewAssumption DEF ListedPaths, Path
  <1>2. \A p \in ListedPaths : PlaceOf(p) = RankIn(p, ListedPaths)
    BY DEF PlaceOf, RankIn
  <1> QED
    BY <1>1, <1>2, RanksGrow

LEMMA ListingHolds == ASSUME FilesKnown PROVE ListingIsTrue
  <1> SUFFICES ASSUME offset >= Cardinality(ListedPaths)
               PROVE  rowsRead = {p \in Path \ Vendored :
                                     \/ Differs(p) /\ p \notin Untold
                                     \/ ~onlyChanges /\ files[p].source # "absent"}
    BY DEF ListingIsTrue
  <1>1. rowsRead = ListedPaths
    <2>1. rowsRead = {p \in ListedPaths : PlaceOf(p) <= offset} /\ offset \in Nat
      BY DEF FilesKnown
    <2>2. \A p \in ListedPaths : PlaceOf(p) <= offset
      BY <2>1, ListedPlaces
    <2> QED
      BY <2>1, <2>2
  <1>2. ListedPaths \subseteq Path \ Vendored
    BY DEF ListedPaths
  <1> QED
    BY <1>1, <1>2, ListedIs

LEMMA PageStep == ASSUME FilesKnown, ListPage PROVE FilesKnown'
  <1>1. /\ files' = files /\ renamed' = renamed /\ onlyChanges' = onlyChanges
        /\ rowsRead' = rowsRead \cup PageFrom(offset) /\ offset' = offset + RowsPerPage
        /\ offset \in Nat /\ RowsPerPage \in Nat
        /\ rowsRead = {p \in ListedPaths : PlaceOf(p) <= offset}
    BY ViewAssumption DEF ListPage, FilesKnown
  <1>2. \A p \in ListedPaths : PlaceOf(p) \in Nat
    BY ListedPlaces
  <1>3. rowsRead' = {p \in ListedPaths : PlaceOf(p) <= offset + RowsPerPage}
    BY <1>1, <1>2 DEF PageFrom
  <1>4. ListedPaths' = ListedPaths
    BY <1>1 DEF ListedPaths, Left, Status, NameOnly, MovedAway, MovedTo, Differs, HasLines
  <1>5. \A p : PlaceOf(p)' = PlaceOf(p)
    BY <1>4 DEF PlaceOf
  <1>6. offset' \in Nat /\ rowsRead' = {p \in ListedPaths' : PlaceOf(p)' <= offset'}
    BY <1>1, <1>3, <1>4, <1>5
  <1> QED
    BY <1>1, <1>6 DEF FilesKnown

------------------------------------------------------------------------------
\* The diff view as a whole.

LEMMA ViewStart == ViewInit => ViewInv
  <1> SUFFICES ASSUME ViewInit PROVE ViewInv
    OBVIOUS
  <1>1. /\ raw = <<>> /\ view = <<>> /\ Len(raw) = 0 /\ Len(view) = 0
        /\ DOMAIN raw = {} /\ hunked = FALSE /\ afterNo = 0 /\ changedLines = {}
        /\ work \in {"diff", "list"} /\ filled \in SUBSET Side /\ filled # {}
    <2>1. raw = <<>> /\ view = <<>> /\ hunked = FALSE /\ afterNo = 0 /\ changedLines = {}
      BY DEF ViewInit
    <2>2. work \in {"diff", "list"} /\ filled \in SUBSET Side /\ filled # {}
      BY DEF ViewInit, Side
    <2> QED
      BY <2>1, <2>2
  <1>2. /\ baseNo = (IF "old" \in filled THEN 0 ELSE -1)
        /\ sourceNo = (IF "new" \in filled THEN 0 ELSE -1)
    BY DEF ViewInit
  <1>3. \A side \in Side : Number(side, 0) = 0
    <2>1. \A side \in Side : LinesOf(side, 0) = {}
      BY DEF LinesOf
    <2> QED
      BY <2>1, FS_EmptySet DEF Number
  <1>4. ViewTyped
    <2>1. raw \in Seq(GitLine) /\ view \in Seq(ViewLine)
      BY <1>1
    <2>2. SidesKnown
      BY <1>1 DEF SidesKnown
    <2>3. baseNo \in -1 .. 0 /\ sourceNo \in -1 .. 0 /\ afterNo \in 0 .. 0 + 1 /\ MaxRaw \in Nat
      BY <1>1, <1>2, ViewAssumption
    <2>4. /\ baseNo \in -1 .. Len(raw) /\ sourceNo \in -1 .. Len(raw) /\ afterNo \in 0 .. Len(raw) + 1
          /\ Len(raw) <= MaxRaw /\ Len(view) <= Len(raw)
      BY <1>1, <2>3
    <2>5. /\ work \in {"diff", "read", "list"} /\ hunked \in BOOLEAN
          /\ changedLines \subseteq 1 .. Len(raw) + 1 /\ filled \in SUBSET Side /\ filled # {}
      BY <1>1
    <2> QED
      BY <2>1, <2>2, <2>4, <2>5 DEF ViewTyped
  <1>5. CountersAreTrue
    BY <1>1, <1>2, <1>3 DEF CountersAreTrue, CounterOn, Side
  <1>6. LinesAreTrue /\ HunkIsTrue /\ ChangedLinesAreTrue /\ DiffIsWhole
    BY <1>1 DEF LinesAreTrue, HunkIsTrue, ChangedLinesAreTrue, DiffIsWhole
  <1>7. FilesKnown
    <2>1. /\ files \in [Path -> [fork : Content, source : Content, inBase : BOOLEAN]]
          /\ renamed \in Renames(files) /\ onlyChanges \in BOOLEAN /\ offset = 0 /\ rowsRead = {}
      <3>1. renamed \in Renames(files) /\ onlyChanges \in BOOLEAN /\ offset = 0 /\ rowsRead = {}
        BY DEF ViewInit
      <3>2. NoFiles \in [Path -> [fork : Content, source : Content, inBase : BOOLEAN]]
        BY DEF NoFiles, Content
      <3>3. files \in [Path -> [fork : Content, source : Content, inBase : BOOLEAN]]
        BY <3>2 DEF ViewInit
      <3> QED
        BY <3>1, <3>3
    <2>2. \A p \in ListedPaths : ~(PlaceOf(p) <= 0)
      BY ListedPlaces
    <2> QED
      BY <2>1, <2>2 DEF FilesKnown
  <1> QED
    BY <1>4, <1>5, <1>6, <1>7 DEF ViewInv

\* The listing does not see the diff, nor the diff the listing.
LEMMA FilesStay == ASSUME FilesKnown, UNCHANGED listVars PROVE FilesKnown'
  <1>1. /\ files' = files /\ renamed' = renamed /\ onlyChanges' = onlyChanges
        /\ offset' = offset /\ rowsRead' = rowsRead
    BY DEF listVars
  <1>2. ListedPaths' = ListedPaths
    BY <1>1 DEF ListedPaths, Left, Status, NameOnly, MovedAway, MovedTo, Differs, HasLines
  <1>3. \A p : PlaceOf(p)' = PlaceOf(p)
    BY <1>2 DEF PlaceOf
  <1>4. rowsRead' = {p \in ListedPaths' : PlaceOf(p)' <= offset'}
    BY <1>1, <1>2, <1>3 DEF FilesKnown
  <1> QED
    BY <1>1, <1>4 DEF FilesKnown

DiffInv ==
    ViewTyped /\ CountersAreTrue /\ LinesAreTrue /\ HunkIsTrue /\ ChangedLinesAreTrue /\ DiffIsWhole

LEMMA DiffStays ==
    ASSUME DiffInv, UNCHANGED diffVars, work' \in {"diff", "read", "list"},
           work' = "read" => work = "read" \/ WriteView
    PROVE  DiffInv'
  <1>1. /\ filled' = filled /\ raw' = raw /\ baseNo' = baseNo /\ sourceNo' = sourceNo /\ view' = view
        /\ hunked' = hunked /\ afterNo' = afterNo /\ changedLines' = changedLines
    BY DEF diffVars
  <1>2. ViewTyped'
    BY <1>1 DEF DiffInv, ViewTyped, SidesKnown
  <1>3. \A side, i : Number(side, i)' = Number(side, i)
    BY <1>1 DEF Number, LinesOf, Marks
  <1>4. CleanUpTo(Len(raw))' = CleanUpTo(Len(raw)) /\ \A i : CleanUpTo(i)' = CleanUpTo(i)
    BY <1>1 DEF CleanUpTo, Headlike
  <1>5. CountersAreTrue'
    <2>1. /\ CounterOn("old", Len(raw))' = CounterOn("old", Len(raw))
          /\ CounterOn("new", Len(raw))' = CounterOn("new", Len(raw))
      BY <1>1, <1>3 DEF CounterOn
    <2> QED
      BY <1>1, <1>4, <2>1 DEF DiffInv, CountersAreTrue
  <1>6. LinesAreTrue'
    <2>1. \A side, i : NumberOn(side, i)' = NumberOn(side, i)
      BY <1>1, <1>3 DEF NumberOn, Marks
    <2> QED
      BY <1>1, <1>4, <2>1 DEF DiffInv, LinesAreTrue
  <1>7. HunkIsTrue'
    BY <1>1, <1>3 DEF DiffInv, HunkIsTrue, HunkStart
  <1>8. ChangedLinesAreTrue'
    BY <1>1, <1>3 DEF DiffInv, ChangedLinesAreTrue
  <1>9. DiffIsWhole'
    BY <1>1, <1>3 DEF DiffInv, DiffIsWhole, WriteView
  <1> QED
    BY <1>2, <1>5, <1>6, <1>7, <1>8, <1>9 DEF DiffInv

LEMMA ViewStep == ASSUME ViewInv, [ViewNext]_viewVars PROVE ViewInv'
  <1>1. DiffInv /\ FilesKnown
    BY DEF ViewInv, DiffInv
  <1>2. SUFFICES DiffInv' /\ FilesKnown'
    BY DEF ViewInv, DiffInv
  <1>3. ASSUME NEW r \in GitLine, GitEmits(r) PROVE DiffInv' /\ FilesKnown'
    <2>1. work' = work /\ work = "diff" /\ UNCHANGED listVars
      BY <1>3 DEF GitEmits
    <2>2. ViewTyped' /\ CountersAreTrue' /\ LinesAreTrue' /\ HunkIsTrue' /\ ChangedLinesAreTrue'
      BY <1>1, <1>3, EmitTyped, LinesStep, HunkStep, ChangedLinesStep DEF DiffInv
    <2>3. DiffIsWhole'
      BY <2>1 DEF DiffIsWhole
    <2> QED
      BY <1>1, <2>1, <2>2, <2>3, FilesStay DEF DiffInv
  <1>4. CASE WriteView
    <2>1. UNCHANGED diffVars /\ UNCHANGED listVars /\ work' = "read"
      BY <1>4 DEF WriteView
    <2> QED
      BY <1>1, <1>4, <2>1, DiffStays, FilesStay
  <1>5. CASE ListPage
    <2>1. UNCHANGED diffVars /\ work' = work
      BY <1>5 DEF ListPage
    <2>2. work \in {"diff", "read", "list"}
      BY <1>1 DEF DiffInv, ViewTyped
    <2> QED
      BY <1>1, <1>5, <2>1, <2>2, DiffStays, PageStep
  <1>6. CASE UNCHANGED viewVars
    <2>1. UNCHANGED diffVars /\ UNCHANGED listVars /\ work' = work
      BY <1>6 DEF viewVars
    <2>2. work \in {"diff", "read", "list"}
      BY <1>1 DEF DiffInv, ViewTyped
    <2> QED
      BY <1>1, <2>1, <2>2, DiffStays, FilesStay
  <1> QED
    BY <1>3, <1>4, <1>5, <1>6 DEF ViewNext, GitLine

LEMMA ViewFacts == ViewInv => ViewTypeOK /\ ViewTellsTruth
  <1> SUFFICES ASSUME ViewInv PROVE ViewTypeOK /\ ViewTellsTruth
    OBVIOUS
  <1>1. /\ ViewTyped /\ CountersAreTrue /\ LinesAreTrue /\ ChangedLinesAreTrue
        /\ DiffIsWhole /\ FilesKnown
    BY DEF ViewInv
  <1>2. OutlineIsTrue
    BY <1>1, OutlineHolds DEF ViewTyped
  <1>3. rowsRead \subseteq Path /\ offset \in Nat
    BY <1>1 DEF FilesKnown, ListedPaths
  <1>4. ViewTypeOK
    BY <1>1, <1>3 DEF ViewTypeOK, ViewTyped, GitLine
  <1> QED
    BY <1>1, <1>2, <1>4, AnswersHold, ListingHolds DEF ViewTellsTruth

(* What the diff tools show is what the branch changes (ViewTellsTruth),   *)
(* for any diff, any files and any sizes of windows and pages.             *)
THEOREM ViewIsTrue == Spec => []ViewTellsTruth
  <1>1. Init => ViewInv
    BY ViewStart DEF Init
  <1>2. ViewInv /\ [Next]_vars => ViewInv'
    <2>1. [Next]_vars => [ViewNext]_viewVars
      BY DEF Next, vars
    <2> QED
      BY <2>1, ViewStep
  <1>3. ViewInv => ViewTellsTruth
    BY ViewFacts
  <1> QED
    BY <1>1, <1>2, <1>3, PTL DEF Spec

------------------------------------------------------------------------------
(* The pull requests of a benchmark.                                       *)

(* What a session knows of its own units before it has swept.              *)
Untouched ==
    \A u \in Unit :
        sweep[SessionOf[u]].phase # "done" /\ session[SessionOf[u]] \in {"new", "up", "stopping"} =>
            /\ progress[u] \in {"queued", "building", "cut"}
            /\ u \notin branches /\ pulls[u] = "none"

(* What its stage says of a unit's pull request.                           *)
UnitsTold ==
    \A u \in Unit :
        /\ progress[u] \in {"queued", "building", "branched"} => pulls[u] = "none"
        /\ progress[u] = "abandoned" => u \in refused
        /\ progress[u] \in {"open", "closing"} /\ meddled[u] = {} => pulls[u] = "open"
        /\ progress[u] = "pruning" => pulls[u] # "open"

(* What a clean-up has still to do about the pull requests it was shown.  *)
StaleInHand ==
    \A s \in Session :
        /\ sweep[s].phase \in {"pulls", "branches"} => sweep[s].live = {}
        /\ \A u \in sweep[s].stale :
              /\ pulls[u] # "none"
              /\ sweep[s].phase = "pulls" => u \in sweep[s].todo \/ pulls[u] # "open"
              /\ sweep[s].phase = "branches" => pulls[u] # "open"
              /\ sweep[s].phase = "checking" =>
                    /\ pulls[u] # "open" /\ u \notin sweep[s].live
                    /\ u \in branches => u \in sweep[s].found
              /\ sweep[s].phase \in {"none", "done"} => pulls[u] # "open" /\ u \notin branches

(* A unit of a session that goes on has a result as soon as it is done.    *)
ResultsKept ==
    \A u \in Unit :
        /\ session[SessionOf[u]] \in {"new", "up"}
        /\ progress[u] \in {"abandoned", "closing", "pruning", "ended"}
        => results[u] # "none"

PullsInv ==
    /\ PullsTypeOK /\ Untouched /\ UnitsTold /\ StaleInHand /\ ResultsKept
    /\ SparesItsOwn /\ LeavesNothing /\ ErrorsAreTold

LEMMA PagesAre ==
  ASSUME NEW entries \in SUBSET Unit, NEW start \in Nat, NEW page \in Pages(entries, start)
  PROVE  page \in SUBSET entries /\ Cardinality(page) \in Nat
  <1>1. page \in SUBSET entries
    BY DEF Pages
  <1>2. IsFiniteSet(page)
    BY <1>1, PullsAssumption, FS_Subset
  <1> QED
    BY <1>1, <1>2, FS_CardinalityType

LEMMA SweepsTyped ==
  ASSUME PullsTypeOK, NEW s \in Session, NEW next \in SweepRecord, Sweeps(s, next)
  PROVE  sweep' \in [Session -> SweepRecord]
  BY DEF PullsTypeOK, Sweeps


LEMMA PullsTypeStep == ASSUME PullsTypeOK, PullsNext PROVE PullsTypeOK'
  <1> USE PullsAssumption
  <1>1. ASSUME NEW s \in Session, Launch(s) PROVE PullsTypeOK'
    <2>1. UNCHANGED <<progress, branches, pulls, sweep, results, refused, meddled>>
      BY <1>1 DEF Launch, OnServer, History, Moves, Throws, Refuses
    <2>2. session' \in [Session -> {"new", "up", "stopping", "idle", "ok", "failed"}]
      BY <1>1 DEF PullsTypeOK, Launch, Throws
    <2>3. mode' \in [Session -> {"none", "gentle", "aggressive", "ab"}]
      BY <1>1 DEF PullsTypeOK, Launch
    <2>4. QED BY <2>1, <2>2, <2>3 DEF PullsTypeOK
  <1>2. ASSUME NEW s \in Session, Fail(s) PROVE PullsTypeOK'
    <2>1. UNCHANGED <<mode, branches, pulls, refused, meddled>>
      BY <1>2 DEF Fail, OnServer, History
    <2>2. session' \in [Session -> {"new", "up", "stopping", "idle", "ok", "failed"}]
      BY <1>2 DEF PullsTypeOK, Fail, Throws
    <2>3. sweep' \in [Session -> SweepRecord]
      <3>1. s \in Session /\ sweep[s] \in SweepRecord
        BY DEF PullsTypeOK
      <3>2. NoSweep \in SweepRecord
        BY <3>1 DEF SweepRecord, NoSweep
      <3>3. Sweeps(s, NoSweep)
        BY <1>2 DEF Fail
      <3>4. QED BY <3>1, <3>2, <3>3, SweepsTyped
    <2>4. progress' \in [Unit -> Progress]
      BY <1>2 DEF PullsTypeOK, Fail, Progress
    <2>5. results' \in [Unit -> Judgement \cup {"none"}]
      BY <1>2 DEF PullsTypeOK, Fail, Judgement
    <2>6. QED BY <2>1, <2>2, <2>3, <2>4, <2>5 DEF PullsTypeOK
  <1>3. ASSUME NEW s \in Session, Interrupt(s) PROVE PullsTypeOK'
    <2>1. UNCHANGED <<mode, sweep, results, refused, meddled>>
      BY <1>3 DEF Interrupt, OnServer, History, Moves, Throws, Refuses
    <2>2. session' \in [Session -> {"new", "up", "stopping", "idle", "ok", "failed"}]
      BY <1>3 DEF PullsTypeOK, Interrupt, Throws, Busy, UnitsOf
    <2>3. progress' \in [Unit -> Progress]
      BY <1>3 DEF PullsTypeOK, Interrupt, Progress, Moves, Busy, UnitsOf
    <2>4. branches' \subseteq Unit
      BY <1>3 DEF PullsTypeOK, Interrupt, Busy, UnitsOf
    <2>5. pulls' \in [Unit -> {"none", "open", "declined"}]
      BY <1>3 DEF PullsTypeOK, Interrupt, Busy, UnitsOf
    <2>6. QED BY <2>1, <2>2, <2>3, <2>4, <2>5 DEF PullsTypeOK
  <1>4. ASSUME NEW s \in Session, Report(s) PROVE PullsTypeOK'
    <2>1. UNCHANGED <<mode, progress, branches, pulls, sweep, results, refused, meddled>>
      BY <1>4 DEF Report, OnServer, History, Moves, Throws, Refuses
    <2>2. session' \in [Session -> {"new", "up", "stopping", "idle", "ok", "failed"}]
      BY <1>4 DEF PullsTypeOK, Report, Throws
    <2>3. QED BY <2>1, <2>2 DEF PullsTypeOK
  <1>5. ASSUME NEW s \in Session, ListPulls(s) PROVE PullsTypeOK'
    <2>1. UNCHANGED <<session, mode, progress, branches, pulls, results, refused, meddled>>
      BY <1>5 DEF ListPulls, OnServer, History, Moves, Throws, Refuses
    <2>2. sweep' \in [Session -> SweepRecord]
      <3> DEFINE shown == {u \in Unit : pulls[u] = "open" /\ Target[u] = sweep[s].to}
                 after(page) ==
                   [sweep[s] EXCEPT
                      !.todo = page \cap Marked,
                      !.more = GoesOn(shown, sweep[s].start, page),
                      !.start = sweep[s].start + Cardinality(page),
                      !.stale = IF sweep[s].start = 0 /\ page = shown THEN page \cap Marked ELSE {}]
      <3>1. PICK page \in Pages(shown, sweep[s].start) : Sweeps(s, after(page))
        BY <1>5 DEF ListPulls
      <3>2. shown \in SUBSET Unit /\ sweep[s] \in SweepRecord /\ sweep[s].start \in Nat
        BY DEF PullsTypeOK, SweepRecord
      <3> HIDE DEF shown
      <3>3. page \in SUBSET Unit /\ Cardinality(page) \in Nat
        BY <3>2, PagesAre
      <3>4. sweep[s].start + Cardinality(page) \in Nat
        BY <3>2, <3>3
      <3>5. GoesOn(shown, sweep[s].start, page) \in BOOLEAN
        BY DEF GoesOn
      <3>6. after(page) \in SweepRecord
        BY <3>2, <3>3, <3>4, <3>5 DEF SweepRecord
      <3> HIDE DEF after
      <3>7. QED BY <3>1, <3>6, SweepsTyped
    <2>3. QED BY <2>1, <2>2 DEF PullsTypeOK
  <1>6. ASSUME NEW s \in Session, ListPullsFails(s) PROVE PullsTypeOK'
    <2>1. UNCHANGED <<session, mode, progress, branches, pulls, results, refused, meddled>>
      BY <1>6 DEF ListPullsFails, OnServer, History, Moves, Throws, Refuses
    <2>2. sweep' \in [Session -> SweepRecord]
      <3>1. s \in Session /\ sweep[s] \in SweepRecord
        BY DEF PullsTypeOK
      <3>2. [sweep[s] EXCEPT !.more = FALSE, !.stale = {}] \in SweepRecord
        BY <3>1 DEF SweepRecord, NoSweep
      <3>3. Sweeps(s, [sweep[s] EXCEPT !.more = FALSE, !.stale = {}])
        BY <1>6 DEF ListPullsFails
      <3>4. QED BY <3>1, <3>2, <3>3, SweepsTyped
    <2>3. QED BY <2>1, <2>2 DEF PullsTypeOK
  <1>7. ASSUME NEW s \in Session, TurnToBranches(s) PROVE PullsTypeOK'
    <2>1. UNCHANGED <<session, mode, progress, branches, pulls, results, refused, meddled>>
      BY <1>7 DEF TurnToBranches, OnServer, History, Moves, Throws, Refuses
    <2>2. sweep' \in [Session -> SweepRecord]
      <3>1. s \in Session /\ sweep[s] \in SweepRecord
        BY DEF PullsTypeOK
      <3>2. [sweep[s] EXCEPT !.phase = "branches", !.more = TRUE, !.start = 0] \in SweepRecord
        BY <3>1 DEF SweepRecord, NoSweep
      <3>3. Sweeps(s, [sweep[s] EXCEPT !.phase = "branches", !.more = TRUE, !.start = 0])
        BY <1>7 DEF TurnToBranches
      <3>4. QED BY <3>1, <3>2, <3>3, SweepsTyped
    <2>3. QED BY <2>1, <2>2 DEF PullsTypeOK
  <1>8. ASSUME NEW s \in Session, ListBranches(s) PROVE PullsTypeOK'
    <2>1. UNCHANGED <<session, mode, progress, branches, pulls, results, refused, meddled>>
      BY <1>8 DEF ListBranches, OnServer, History, Moves, Throws, Refuses
    <2>2. sweep' \in [Session -> SweepRecord]
      <3> DEFINE after(page) ==
                   [sweep[s] EXCEPT
                      !.found = sweep[s].found \cup page,
                      !.start = sweep[s].start + Cardinality(page),
                      !.todo = IF GoesOn(branches, sweep[s].start, page) THEN {}
                               ELSE sweep[s].found \cup page,
                      !.phase = IF GoesOn(branches, sweep[s].start, page) THEN "branches"
                                ELSE "checking",
                      !.stale = IF branches \subseteq sweep[s].found \cup page THEN sweep[s].stale
                                ELSE {}]
      <3>1. PICK page \in Pages(branches, sweep[s].start) : Sweeps(s, after(page))
        BY <1>8 DEF ListBranches
      <3>2. branches \in SUBSET Unit /\ sweep[s] \in SweepRecord /\ sweep[s].start \in Nat
        BY DEF PullsTypeOK, SweepRecord
      <3>3. page \in SUBSET Unit /\ Cardinality(page) \in Nat
        BY <3>2, PagesAre
      <3>4. sweep[s].start + Cardinality(page) \in Nat
        BY <3>2, <3>3
      <3>5. after(page) \in SweepRecord
        BY <3>2, <3>3, <3>4 DEF SweepRecord
      <3> HIDE DEF after
      <3>6. QED BY <3>1, <3>5, SweepsTyped
    <2>3. QED BY <2>1, <2>2 DEF PullsTypeOK
  <1>9. ASSUME NEW s \in Session, ListBranchesFails(s) PROVE PullsTypeOK'
    <2>1. UNCHANGED <<session, mode, progress, branches, pulls, results, refused, meddled>>
      BY <1>9 DEF ListBranchesFails, OnServer, History, Moves, Throws, Refuses
    <2>2. sweep' \in [Session -> SweepRecord]
      <3>1. s \in Session /\ sweep[s] \in SweepRecord
        BY DEF PullsTypeOK
      <3>2. [NoSweep EXCEPT !.phase = "done"] \in SweepRecord
        BY <3>1 DEF SweepRecord, NoSweep
      <3>3. Sweeps(s, [NoSweep EXCEPT !.phase = "done"])
        BY <1>9 DEF ListBranchesFails
      <3>4. QED BY <3>1, <3>2, <3>3, SweepsTyped
    <2>3. QED BY <2>1, <2>2 DEF PullsTypeOK
  <1>10. ASSUME NEW s \in Session, EndSweep(s) PROVE PullsTypeOK'
    <2>1. UNCHANGED <<session, mode, progress, branches, pulls, results, refused, meddled>>
      BY <1>10 DEF EndSweep, OnServer, History, Moves, Throws, Refuses
    <2>2. sweep' \in [Session -> SweepRecord]
      <3>1. s \in Session /\ sweep[s] \in SweepRecord
        BY DEF PullsTypeOK
      <3>2. [NoSweep EXCEPT !.phase = "done", !.stale = sweep[s].stale] \in SweepRecord
        BY <3>1 DEF SweepRecord, NoSweep
      <3>3. Sweeps(s, [NoSweep EXCEPT !.phase = "done", !.stale = sweep[s].stale])
        BY <1>10 DEF EndSweep
      <3>4. QED BY <3>1, <3>2, <3>3, SweepsTyped
    <2>3. QED BY <2>1, <2>2 DEF PullsTypeOK
  <1>11. ASSUME NEW s \in Session, NEW u \in Unit, DeclineStale(s, u) PROVE PullsTypeOK'
    <2>1. UNCHANGED <<session, mode, progress, branches, results, refused>>
      BY <1>11 DEF DeclineStale, OnServer, History, Moves, Throws, Refuses
    <2>2. pulls' \in [Unit -> {"none", "open", "declined"}]
      BY <1>11 DEF PullsTypeOK, DeclineStale, History
    <2>3. meddled' \in [Unit -> SUBSET Session]
      BY <1>11 DEF PullsTypeOK, DeclineStale, History
    <2>4. sweep' \in [Session -> SweepRecord]
      <3>1. s \in Session /\ sweep[s] \in SweepRecord
        BY DEF PullsTypeOK
      <3>2. [sweep[s] EXCEPT
           !.todo = sweep[s].todo \ {u},
           !.stale = IF pulls'[u] = "open" THEN {} ELSE sweep[s].stale] \in SweepRecord
        BY <3>1 DEF SweepRecord, NoSweep
      <3>3. Sweeps(s, [sweep[s] EXCEPT
           !.todo = sweep[s].todo \ {u},
           !.stale = IF pulls'[u] = "open" THEN {} ELSE sweep[s].stale])
        BY <1>11 DEF DeclineStale
      <3>4. QED BY <3>1, <3>2, <3>3, SweepsTyped
    <2>5. QED BY <2>1, <2>2, <2>3, <2>4 DEF PullsTypeOK
  <1>12. ASSUME NEW s \in Session, NEW u \in Unit, CheckBranch(s, u) PROVE PullsTypeOK'
    <2>1. UNCHANGED <<session, mode, progress, branches, pulls, results, refused, meddled>>
      BY <1>12 DEF CheckBranch, OnServer, History, Moves, Throws, Refuses
    <2>2. sweep' \in [Session -> SweepRecord]
      <3> DEFINE after(answer) ==
                   [sweep[s] EXCEPT
                      !.todo = sweep[s].todo \ {u},
                      !.live = IF answer \in {"open", "raised"} THEN sweep[s].live \cup {u}
                               ELSE sweep[s].live,
                      !.stale = IF answer \in {"raised", "status"} THEN {} ELSE sweep[s].stale]
      <3>1. PICK answer \in {"open", "none", "raised", "status"} : Sweeps(s, after(answer))
        BY <1>12 DEF CheckBranch
      <3>2. sweep[s] \in SweepRecord
        BY DEF PullsTypeOK
      <3>3. after(answer) \in SweepRecord
        BY <3>2 DEF SweepRecord
      <3> HIDE DEF after
      <3>4. QED BY <3>1, <3>3, SweepsTyped
    <2>3. QED BY <2>1, <2>2 DEF PullsTypeOK
  <1>13. ASSUME NEW s \in Session, NEW u \in Unit, DeleteOrphan(s, u) PROVE PullsTypeOK'
    <2>1. UNCHANGED <<session, mode, progress, pulls, results, refused>>
      BY <1>13 DEF DeleteOrphan, OnServer, History, Moves, Throws, Refuses
    <2>2. branches' \subseteq Unit
      BY <1>13 DEF PullsTypeOK, DeleteOrphan, History
    <2>3. meddled' \in [Unit -> SUBSET Session]
      BY <1>13 DEF PullsTypeOK, DeleteOrphan, History
    <2>4. sweep' \in [Session -> SweepRecord]
      <3>1. s \in Session /\ sweep[s] \in SweepRecord
        BY DEF PullsTypeOK
      <3>2. [sweep[s] EXCEPT
           !.found = sweep[s].found \ {u},
           !.stale = IF u \in branches' THEN {} ELSE sweep[s].stale] \in SweepRecord
        BY <3>1 DEF SweepRecord, NoSweep
      <3>3. Sweeps(s, [sweep[s] EXCEPT
           !.found = sweep[s].found \ {u},
           !.stale = IF u \in branches' THEN {} ELSE sweep[s].stale])
        BY <1>13 DEF DeleteOrphan
      <3>4. QED BY <3>1, <3>2, <3>3, SweepsTyped
    <2>5. QED BY <2>1, <2>2, <2>3, <2>4 DEF PullsTypeOK
  <1>14. ASSUME NEW u \in Unit, Start(u) PROVE PullsTypeOK'
    <2>1. UNCHANGED <<session, mode, branches, pulls, sweep, results, refused, meddled>>
      BY <1>14 DEF Start, OnServer, History, Moves, Throws, Refuses
    <2>2. progress' \in [Unit -> Progress]
      BY <1>14 DEF PullsTypeOK, Start, Progress, Moves
    <2>3. QED BY <2>1, <2>2 DEF PullsTypeOK
  <1>15. ASSUME NEW u \in Unit, BeginSweep(u) PROVE PullsTypeOK'
    <2>1. UNCHANGED <<session, mode, progress, branches, pulls, results, refused, meddled>>
      BY <1>15 DEF BeginSweep, OnServer, History, Moves, Throws, Refuses
    <2>2. sweep' \in [Session -> SweepRecord]
      <3>1. SessionOf[u] \in Session /\ sweep[SessionOf[u]] \in SweepRecord
        BY DEF PullsTypeOK
      <3>2. [NoSweep EXCEPT !.phase = "pulls", !.to = Target[u]] \in SweepRecord
        BY <3>1 DEF SweepRecord, NoSweep
      <3>3. Sweeps(SessionOf[u], [NoSweep EXCEPT !.phase = "pulls", !.to = Target[u]])
        BY <1>15 DEF BeginSweep
      <3>4. QED BY <3>1, <3>2, <3>3, SweepsTyped
    <2>3. QED BY <2>1, <2>2 DEF PullsTypeOK
  <1>16. ASSUME NEW u \in Unit, CreateBranch(u) PROVE PullsTypeOK'
    <2>1. UNCHANGED <<session, mode, pulls, sweep, results, refused, meddled>>
      BY <1>16 DEF CreateBranch, OnServer, History, Moves, Throws, Refuses
    <2>2. branches' \subseteq Unit
      BY <1>16 DEF PullsTypeOK, CreateBranch
    <2>3. progress' \in [Unit -> Progress]
      BY <1>16 DEF PullsTypeOK, CreateBranch, Progress, Moves
    <2>4. QED BY <2>1, <2>2, <2>3 DEF PullsTypeOK
  <1>17. ASSUME NEW u \in Unit, CreateBranchFails(u) PROVE PullsTypeOK'
    <2>1. UNCHANGED <<mode, pulls, sweep, meddled>>
      BY <1>17 DEF CreateBranchFails, OnServer, History, Moves, Throws, Refuses
    <2>2. branches' \subseteq Unit
      BY <1>17 DEF PullsTypeOK, CreateBranchFails
    <2>3. progress' \in [Unit -> Progress]
      BY <1>17 DEF PullsTypeOK, CreateBranchFails, Progress, Moves
    <2>4. results' \in [Unit -> Judgement \cup {"none"}]
      BY <1>17 DEF PullsTypeOK, CreateBranchFails, Judgement, Throws
    <2>5. session' \in [Session -> {"new", "up", "stopping", "idle", "ok", "failed"}]
      BY <1>17 DEF PullsTypeOK, CreateBranchFails, Throws
    <2>6. refused' \subseteq Unit
      BY <1>17 DEF PullsTypeOK, CreateBranchFails, Refuses
    <2>7. QED BY <2>1, <2>2, <2>3, <2>4, <2>5, <2>6 DEF PullsTypeOK
  <1>18. ASSUME NEW u \in Unit, CreatePull(u) PROVE PullsTypeOK'
    <2>1. UNCHANGED <<session, mode, branches, sweep, results, refused, meddled>>
      BY <1>18 DEF CreatePull, OnServer, History, Moves, Throws, Refuses
    <2>2. pulls' \in [Unit -> {"none", "open", "declined"}]
      BY <1>18 DEF PullsTypeOK, CreatePull
    <2>3. progress' \in [Unit -> Progress]
      BY <1>18 DEF PullsTypeOK, CreatePull, Progress, Moves
    <2>4. QED BY <2>1, <2>2, <2>3 DEF PullsTypeOK
  <1>19. ASSUME NEW u \in Unit, CreatePullFails(u) PROVE PullsTypeOK'
    <2>1. UNCHANGED <<mode, branches, sweep, meddled>>
      BY <1>19 DEF CreatePullFails, OnServer, History, Moves, Throws, Refuses
    <2>2. pulls' \in [Unit -> {"none", "open", "declined"}]
      BY <1>19 DEF PullsTypeOK, CreatePullFails
    <2>3. progress' \in [Unit -> Progress]
      BY <1>19 DEF PullsTypeOK, CreatePullFails, Progress, Moves
    <2>4. results' \in [Unit -> Judgement \cup {"none"}]
      BY <1>19 DEF PullsTypeOK, CreatePullFails, Judgement, Throws
    <2>5. session' \in [Session -> {"new", "up", "stopping", "idle", "ok", "failed"}]
      BY <1>19 DEF PullsTypeOK, CreatePullFails, Throws
    <2>6. refused' \subseteq Unit
      BY <1>19 DEF PullsTypeOK, CreatePullFails, Refuses
    <2>7. QED BY <2>1, <2>2, <2>3, <2>4, <2>5, <2>6 DEF PullsTypeOK
  <1>20. ASSUME NEW u \in Unit, Abandon(u) PROVE PullsTypeOK'
    <2>1. UNCHANGED <<session, mode, pulls, sweep, results, refused, meddled>>
      BY <1>20 DEF Abandon, OnServer, History, Moves, Throws, Refuses
    <2>2. branches' \subseteq Unit
      BY <1>20 DEF PullsTypeOK, Abandon
    <2>3. progress' \in [Unit -> Progress]
      BY <1>20 DEF PullsTypeOK, Abandon, Progress, Moves
    <2>4. QED BY <2>1, <2>2, <2>3 DEF PullsTypeOK
  <1>21. ASSUME NEW u \in Unit, Judge(u) PROVE PullsTypeOK'
    <2>1. UNCHANGED <<mode, branches, pulls, sweep, refused, meddled>>
      BY <1>21 DEF Judge, OnServer, History, Moves, Throws, Refuses
    <2>2. results' \in [Unit -> Judgement \cup {"none"}]
      BY <1>21 DEF PullsTypeOK, Judge, Judgement, Throws
    <2>3. session' \in [Session -> {"new", "up", "stopping", "idle", "ok", "failed"}]
      BY <1>21 DEF PullsTypeOK, Judge, Throws
    <2>4. progress' \in [Unit -> Progress]
      BY <1>21 DEF PullsTypeOK, Judge, Progress, Moves
    <2>5. QED BY <2>1, <2>2, <2>3, <2>4 DEF PullsTypeOK
  <1>22. ASSUME NEW u \in Unit, Close(u) PROVE PullsTypeOK'
    <2>1. UNCHANGED <<session, mode, branches, sweep, results, refused, meddled>>
      BY <1>22 DEF Close, OnServer, History, Moves, Throws, Refuses
    <2>2. pulls' \in [Unit -> {"none", "open", "declined"}]
      BY <1>22 DEF PullsTypeOK, Close
    <2>3. progress' \in [Unit -> Progress]
      BY <1>22 DEF PullsTypeOK, Close, Progress, Moves
    <2>4. QED BY <2>1, <2>2, <2>3 DEF PullsTypeOK
  <1>23. ASSUME NEW u \in Unit, CloseFails(u) PROVE PullsTypeOK'
    <2>1. UNCHANGED <<session, mode, branches, sweep, results, meddled>>
      BY <1>23 DEF CloseFails, OnServer, History, Moves, Throws, Refuses
    <2>2. pulls' \in [Unit -> {"none", "open", "declined"}]
      BY <1>23 DEF PullsTypeOK, CloseFails, History
    <2>3. progress' \in [Unit -> Progress]
      BY <1>23 DEF PullsTypeOK, CloseFails, Progress, Moves, History
    <2>4. refused' \subseteq Unit
      BY <1>23 DEF PullsTypeOK, CloseFails, Refuses, History
    <2>5. QED BY <2>1, <2>2, <2>3, <2>4 DEF PullsTypeOK
  <1>24. ASSUME NEW u \in Unit, Prune(u) PROVE PullsTypeOK'
    <2>1. UNCHANGED <<session, mode, pulls, sweep, results, meddled>>
      BY <1>24 DEF Prune, OnServer, History, Moves, Throws, Refuses
    <2>2. branches' \subseteq Unit
      BY <1>24 DEF PullsTypeOK, Prune, History
    <2>3. progress' \in [Unit -> Progress]
      BY <1>24 DEF PullsTypeOK, Prune, Progress, Moves, History
    <2>4. refused' \subseteq Unit
      BY <1>24 DEF PullsTypeOK, Prune, Refuses, History
    <2>5. QED BY <2>1, <2>2, <2>3, <2>4 DEF PullsTypeOK
  <1> QED
    BY <1>1, <1>2, <1>3, <1>4, <1>5, <1>6, <1>7, <1>8, <1>9, <1>10, <1>11, <1>12, <1>13, <1>14,
       <1>15, <1>16, <1>17, <1>18, <1>19, <1>20, <1>21, <1>22, <1>23, <1>24
    DEF PullsNext, SweepSteps, UnitSteps

(* Looking at the server changes nothing but what the session knows.       *)
LEMMA LooksOn ==
  ASSUME \/ \E s \in Session :
                \/ ListPulls(s) \/ ListPullsFails(s) \/ TurnToBranches(s) \/ ListBranches(s)
                \/ ListBranchesFails(s) \/ EndSweep(s) \/ \E u \in Unit : CheckBranch(s, u)
         \/ \E u \in Unit : BeginSweep(u)
  PROVE  UNCHANGED <<session, mode, progress, branches, pulls, results, refused, meddled>>
  BY DEF ListPulls, ListPullsFails, TurnToBranches, ListBranches, ListBranchesFails, EndSweep,
         CheckBranch, BeginSweep, OnServer, History

(* What a clean-up takes from a unit it is remembered for, and it is never *)
(* that of a unit of its own session.                                      *)
LEMMA Meddles ==
  ASSUME PullsTypeOK, Untouched, NEW s \in Session, NEW u \in Unit,
         DeclineStale(s, u) \/ DeleteOrphan(s, u)
 
       PROVE   /\ UNCHANGED <<session, mode, progress, results, refused>> /\ branches' \subseteq branches
         /\ \A v \in Unit :
               /\ meddled[v] \subseteq meddled'[v]
               /\ SessionOf[v] \in meddled'[v] => SessionOf[v] \in meddled[v]
               /\ \/ pulls'[v] = pulls[v]
                  \/ pulls[v] = "open" /\ pulls'[v] = "declined" /\ meddled'[v] # {}
  <1>1. CASE DeclineStale(s, u)
    <2>1. UNCHANGED <<session, mode, progress, results, refused, branches>>
      BY <1>1 DEF DeclineStale
    <2>2. CASE UNCHANGED <<pulls, meddled>>
      BY <2>1, <2>2
    <2>3. CASE /\ pulls[u] = "open" /\ pulls' = [pulls EXCEPT ![u] = "declined"]
               /\ meddled' = [meddled EXCEPT ![u] = meddled[u] \cup {s}]
      <3>1. SessionOf[u] # s
        BY <1>1, <2>3, PullsAssumption DEF Untouched, DeclineStale, Sweeping
      <3>2. meddled'[u] = meddled[u] \cup {s} /\ pulls'[u] = "declined"
        BY <2>3 DEF PullsTypeOK
      <3>3. \A v \in Unit : v # u => meddled'[v] = meddled[v] /\ pulls'[v] = pulls[v]
        BY <2>3 DEF PullsTypeOK
      <3>4. QED BY <2>1, <2>3, <3>1, <3>2, <3>3
    <2>4. QED BY <1>1, <2>2, <2>3 DEF DeclineStale
  <1>2. CASE DeleteOrphan(s, u)
    <2>1. UNCHANGED <<session, mode, progress, results, refused, pulls>>
      BY <1>2 DEF DeleteOrphan
    <2>2. CASE UNCHANGED <<branches, meddled>>
      BY <2>1, <2>2
    <2>3. CASE branches' = branches \ {u} /\ u \notin branches /\ meddled' = meddled
      BY <2>1, <2>3
    <2>4. CASE /\ branches' = branches \ {u} /\ u \in branches
               /\ meddled' = [meddled EXCEPT ![u] = meddled[u] \cup {s}]
      <3>1. SessionOf[u] # s
        BY <1>2, <2>4, PullsAssumption DEF Untouched, DeleteOrphan, Sweeping
      <3>2. meddled'[u] = meddled[u] \cup {s}
        BY <2>4 DEF PullsTypeOK
      <3>3. \A v \in Unit : v # u => meddled'[v] = meddled[v]
        BY <2>4 DEF PullsTypeOK
      <3>4. QED BY <2>1, <2>4, <3>1, <3>2, <3>3
    <2>5. QED BY <1>2, <2>2, <2>3, <2>4 DEF DeleteOrphan, PullsTypeOK
  <1>3. QED BY <1>1, <1>2

(* A branch that a clean-up takes is remembered too.                       *)
LEMMA MeddlesBranch ==
  ASSUME PullsTypeOK, NEW s \in Session, NEW u \in Unit, DeleteOrphan(s, u)
  PROVE  \A v \in branches : v \notin branches' => s \in meddled'[v]
  BY DEF DeleteOrphan, PullsTypeOK

LEMMA UnitsToldStep ==
  ASSUME PullsTypeOK, Untouched, UnitsTold, PullsNext
  PROVE  UnitsTold'
  <1> USE PullsAssumption DEF PullsTypeOK, UnitsTold
  <1>1. ASSUME (\E s \in Session : SweepSteps(s)) \/ (\E u \in Unit : BeginSweep(u))
        PROVE  UnitsTold'
    <2>1. CASE UNCHANGED <<session, mode, progress, branches, pulls, results, refused, meddled>>
      BY <2>1
    <2>2. ASSUME NEW s \in Session, NEW v \in Unit, DeclineStale(s, v) \/ DeleteOrphan(s, v)
          PROVE  UnitsTold'
      BY <2>2, Meddles
    <2>3. QED BY <1>1, <2>1, <2>2, LooksOn DEF SweepSteps
  <1>2. ASSUME NEW s \in Session, Launch(s) \/ Fail(s) PROVE UnitsTold'
    BY <1>2 DEF Launch, Fail, Sweeps, NoSweep, OnServer, History
  <1>3. ASSUME NEW s \in Session, Report(s) PROVE UnitsTold'
    BY <1>3 DEF Report, OnServer, History
  <1>4. ASSUME NEW s \in Session, Interrupt(s) PROVE UnitsTold'
    BY <1>4 DEF Interrupt, Busy, UnitsOf, OnServer, History
  <1>5. ASSUME NEW u \in Unit, Start(u) \/ CreateBranch(u) PROVE UnitsTold'
    BY <1>5 DEF Start, CreateBranch, Moves, AtWork, Swept, OnServer, History
  <1>6. ASSUME NEW u \in Unit, CreateBranchFails(u) PROVE UnitsTold'
    BY <1>6 DEF CreateBranchFails, Moves, AtWork, Swept, Throws, Refuses, OnServer, History
  <1>7. ASSUME NEW u \in Unit, CreatePull(u) PROVE UnitsTold'
    BY <1>7 DEF CreatePull, Moves, AtWork, OnServer, History
  <1>8. ASSUME NEW u \in Unit, CreatePullFails(u) PROVE UnitsTold'
    BY <1>8 DEF CreatePullFails, Moves, AtWork, Throws, Refuses, OnServer, History
  <1>9. ASSUME NEW u \in Unit, Abandon(u) PROVE UnitsTold'
    BY <1>9 DEF Abandon, Moves, Leaving, OnServer, History
  <1>10. ASSUME NEW u \in Unit, Judge(u) PROVE UnitsTold'
    BY <1>10 DEF Judge, Moves, AtWork, Throws, OnServer, History
  <1>11. ASSUME NEW u \in Unit, Close(u) \/ CloseFails(u) \/ Prune(u) PROVE UnitsTold'
    BY <1>11 DEF Close, Moves, Leaving, CloseFails, Refuses, Prune, OnServer, History
  <1> QED
    BY <1>1, <1>2, <1>3, <1>4, <1>5, <1>6, <1>7, <1>8, <1>9, <1>10, <1>11 DEF PullsNext,
      SweepSteps, UnitSteps

LEMMA ResultsKeptStep ==
  ASSUME PullsTypeOK, Untouched, ResultsKept, PullsNext
  PROVE  ResultsKept'
  <1> USE PullsAssumption DEF PullsTypeOK, ResultsKept
  <1>1. ASSUME (\E s \in Session : SweepSteps(s)) \/ (\E u \in Unit : BeginSweep(u))
        PROVE  ResultsKept'
    <2>1. UNCHANGED <<session, mode, progress, results>>
      BY <1>1, LooksOn, Meddles DEF SweepSteps
    <2>2. QED BY <2>1
  <1>2. ASSUME NEW s \in Session, Launch(s) \/ Fail(s) PROVE ResultsKept'
    BY <1>2 DEF Launch, Fail, Sweeps, NoSweep, OnServer, History
  <1>3. ASSUME NEW s \in Session, Report(s) PROVE ResultsKept'
    BY <1>3 DEF Report, OnServer, History
  <1>4. ASSUME NEW s \in Session, Interrupt(s) PROVE ResultsKept'
    BY <1>4 DEF Interrupt, Busy, UnitsOf, OnServer, History
  <1>5. ASSUME NEW u \in Unit, Start(u) \/ CreateBranch(u) PROVE ResultsKept'
    BY <1>5 DEF Start, CreateBranch, Moves, AtWork, Swept, OnServer, History
  <1>6. ASSUME NEW u \in Unit, CreateBranchFails(u) PROVE ResultsKept'
    BY <1>6 DEF CreateBranchFails, Moves, AtWork, Swept, Throws, Refuses, OnServer, History
  <1>7. ASSUME NEW u \in Unit, CreatePull(u) PROVE ResultsKept'
    BY <1>7 DEF CreatePull, Moves, AtWork, OnServer, History
  <1>8. ASSUME NEW u \in Unit, CreatePullFails(u) PROVE ResultsKept'
    BY <1>8 DEF CreatePullFails, Moves, AtWork, Throws, Refuses, OnServer, History
  <1>9. ASSUME NEW u \in Unit, Abandon(u) PROVE ResultsKept'
    BY <1>9 DEF Abandon, Moves, Leaving, OnServer, History
  <1>10. ASSUME NEW u \in Unit, Judge(u) PROVE ResultsKept'
    BY <1>10 DEF Judge, Moves, AtWork, Throws, OnServer, History, Judgement
  <1>11. ASSUME NEW u \in Unit, Close(u) \/ CloseFails(u) \/ Prune(u) PROVE ResultsKept'
    BY <1>11 DEF Close, Moves, Leaving, CloseFails, Refuses, Prune, OnServer, History
  <1> QED
    BY <1>1, <1>2, <1>3, <1>4, <1>5, <1>6, <1>7, <1>8, <1>9, <1>10, <1>11 DEF PullsNext,
      SweepSteps, UnitSteps

LEMMA SparesItsOwnStep ==
  ASSUME PullsTypeOK, Untouched, SparesItsOwn, PullsNext
  PROVE  SparesItsOwn'
  <1> USE PullsAssumption DEF PullsTypeOK, SparesItsOwn
  <1>1. ASSUME (\E s \in Session : SweepSteps(s)) \/ (\E u \in Unit : BeginSweep(u))
        PROVE  SparesItsOwn'
    <2>1. CASE UNCHANGED <<session, mode, progress, branches, pulls, results, refused, meddled>>
      BY <2>1
    <2>2. ASSUME NEW s \in Session, NEW v \in Unit, DeclineStale(s, v) \/ DeleteOrphan(s, v)
          PROVE  SparesItsOwn'
      BY <2>2, Meddles
    <2>3. QED BY <1>1, <2>1, <2>2, LooksOn DEF SweepSteps
  <1>2. ASSUME NEW s \in Session, Launch(s) \/ Fail(s) PROVE SparesItsOwn'
    BY <1>2 DEF Launch, Fail, Sweeps, NoSweep, OnServer, History
  <1>3. ASSUME NEW s \in Session, Report(s) PROVE SparesItsOwn'
    BY <1>3 DEF Report, OnServer, History
  <1>4. ASSUME NEW s \in Session, Interrupt(s) PROVE SparesItsOwn'
    BY <1>4 DEF Interrupt, Busy, UnitsOf, OnServer, History
  <1>5. ASSUME NEW u \in Unit, Start(u) \/ CreateBranch(u) PROVE SparesItsOwn'
    BY <1>5 DEF Start, CreateBranch, Moves, AtWork, Swept, OnServer, History
  <1>6. ASSUME NEW u \in Unit, CreateBranchFails(u) PROVE SparesItsOwn'
    BY <1>6 DEF CreateBranchFails, Moves, AtWork, Swept, Throws, Refuses, OnServer, History
  <1>7. ASSUME NEW u \in Unit, CreatePull(u) PROVE SparesItsOwn'
    BY <1>7 DEF CreatePull, Moves, AtWork, OnServer, History
  <1>8. ASSUME NEW u \in Unit, CreatePullFails(u) PROVE SparesItsOwn'
    BY <1>8 DEF CreatePullFails, Moves, AtWork, Throws, Refuses, OnServer, History
  <1>9. ASSUME NEW u \in Unit, Abandon(u) PROVE SparesItsOwn'
    BY <1>9 DEF Abandon, Moves, Leaving, OnServer, History
  <1>10. ASSUME NEW u \in Unit, Judge(u) PROVE SparesItsOwn'
    BY <1>10 DEF Judge, Moves, AtWork, Throws, OnServer, History
  <1>11. ASSUME NEW u \in Unit, Close(u) \/ CloseFails(u) \/ Prune(u) PROVE SparesItsOwn'
    BY <1>11 DEF Close, Moves, Leaving, CloseFails, Refuses, Prune, OnServer, History
  <1> QED
    BY <1>1, <1>2, <1>3, <1>4, <1>5, <1>6, <1>7, <1>8, <1>9, <1>10, <1>11 DEF PullsNext,
      SweepSteps, UnitSteps

LEMMA LeavesNothingStep ==
  ASSUME PullsTypeOK, Untouched, UnitsTold, LeavesNothing, PullsNext
  PROVE  LeavesNothing'
  <1> USE PullsAssumption DEF PullsTypeOK, UnitsTold, LeavesNothing
  <1>1. ASSUME (\E s \in Session : SweepSteps(s)) \/ (\E u \in Unit : BeginSweep(u))
        PROVE  LeavesNothing'
    <2>1. CASE UNCHANGED <<session, mode, progress, branches, pulls, results, refused, meddled>>
      BY <2>1
    <2>2. ASSUME NEW s \in Session, NEW v \in Unit, DeclineStale(s, v) \/ DeleteOrphan(s, v)
          PROVE  LeavesNothing'
      BY <2>2, Meddles
    <2>3. QED BY <1>1, <2>1, <2>2, LooksOn DEF SweepSteps
  <1>2. ASSUME NEW s \in Session, Launch(s) \/ Fail(s) PROVE LeavesNothing'
    BY <1>2 DEF Launch, Fail, Sweeps, NoSweep, OnServer, History
  <1>3. ASSUME NEW s \in Session, Report(s) PROVE LeavesNothing'
    BY <1>3 DEF Report, OnServer, History
  <1>4. ASSUME NEW s \in Session, Interrupt(s) PROVE LeavesNothing'
    BY <1>4 DEF Interrupt, Busy, UnitsOf, OnServer, History
  <1>5. ASSUME NEW u \in Unit, Start(u) \/ CreateBranch(u) PROVE LeavesNothing'
    BY <1>5 DEF Start, CreateBranch, Moves, AtWork, Swept, OnServer, History
  <1>6. ASSUME NEW u \in Unit, CreateBranchFails(u) PROVE LeavesNothing'
    BY <1>6 DEF CreateBranchFails, Moves, AtWork, Swept, Throws, Refuses, OnServer, History
  <1>7. ASSUME NEW u \in Unit, CreatePull(u) PROVE LeavesNothing'
    BY <1>7 DEF CreatePull, Moves, AtWork, OnServer, History
  <1>8. ASSUME NEW u \in Unit, CreatePullFails(u) PROVE LeavesNothing'
    BY <1>8 DEF CreatePullFails, Moves, AtWork, Throws, Refuses, OnServer, History
  <1>9. ASSUME NEW u \in Unit, Abandon(u) PROVE LeavesNothing'
    BY <1>9 DEF Abandon, Moves, Leaving, OnServer, History
  <1>10. ASSUME NEW u \in Unit, Judge(u) PROVE LeavesNothing'
    BY <1>10 DEF Judge, Moves, AtWork, Throws, OnServer, History
  <1>11. ASSUME NEW u \in Unit, Close(u) \/ CloseFails(u) \/ Prune(u) PROVE LeavesNothing'
    BY <1>11 DEF Close, Moves, Leaving, CloseFails, Refuses, Prune, OnServer, History
  <1> QED
    BY <1>1, <1>2, <1>3, <1>4, <1>5, <1>6, <1>7, <1>8, <1>9, <1>10, <1>11 DEF PullsNext,
      SweepSteps, UnitSteps

LEMMA ErrorsAreToldStep ==
  ASSUME PullsTypeOK, Untouched, ResultsKept, ErrorsAreTold, PullsNext
  PROVE  ErrorsAreTold'
  <1> USE PullsAssumption DEF PullsTypeOK
  <1>1. ASSUME (\E s \in Session : SweepSteps(s)) \/ (\E u \in Unit : BeginSweep(u))
        PROVE  ErrorsAreTold'
    <2>1. UNCHANGED <<session, mode, progress, results>>
      BY <1>1, LooksOn, Meddles DEF SweepSteps
    <2>2. QED BY <2>1 DEF ErrorsAreTold, UnitsOf, AttemptsLike
  <1>2. ASSUME NEW s \in Session, Launch(s) \/ Fail(s) \/ Interrupt(s) PROVE ErrorsAreTold'
    BY <1>2 DEF ErrorsAreTold, UnitsOf, AttemptsLike, Launch, Fail, Interrupt
  <1>3. ASSUME NEW s \in Session, Report(s) PROVE ErrorsAreTold'
    <2>1. UNCHANGED <<mode, results>> /\ \A t \in Session : t # s => session'[t] = session[t]
      BY <1>3 DEF Report
    <2>2. ASSUME session'[s] = "ok", mode[s] # "ab", NEW u \in UnitsOf(s)
          PROVE  \E v \in AttemptsLike(u) : results[v] \in {"pass", "fail"}
      <3>1. u \in Unit /\ SessionOf[u] = s /\ u \in AttemptsLike(u)
        BY <2>2 DEF UnitsOf, AttemptsLike
      <3>2. Aggregate(AttemptsLike(u)) # "error"
        BY <1>3, <2>2 DEF Report
      <3>3. results[u] \in {"pass", "fail", "error"}
        BY <1>3, <2>2, <3>1 DEF Report, ResultsKept, Judgement
      <3>4. CASE \E v \in AttemptsLike(u) : results[v] = "pass"
        BY <3>4
      <3>5. CASE \A v \in AttemptsLike(u) : results[v] # "pass"
        <4>1. {v \in AttemptsLike(u) : results[v] = "pass"} = {}
          BY <3>5
        <4>2. results[u] # "error"
          BY <3>1, <3>2, <4>1 DEF Aggregate
        <4>3. QED BY <3>1, <3>3, <4>2
      <3>6. QED BY <3>4, <3>5
    <2>3. QED BY <2>1, <2>2 DEF ErrorsAreTold, UnitsOf, AttemptsLike
  <1>4. ASSUME NEW u \in Unit,
               \/ Start(u) \/ CreateBranch(u) \/ CreatePull(u) \/ Abandon(u)
               \/ Close(u) \/ CloseFails(u) \/ Prune(u)
        PROVE  ErrorsAreTold'
    <2>1. UNCHANGED <<session, mode, results>>
      BY <1>4 DEF Start, CreateBranch, CreatePull, Abandon, Close, CloseFails, Prune
    <2>2. QED BY <2>1 DEF ErrorsAreTold, UnitsOf, AttemptsLike
  <1>5. ASSUME NEW u \in Unit, CreateBranchFails(u) \/ CreatePullFails(u) \/ Judge(u)
        PROVE  ErrorsAreTold'
    <2>1. session[SessionOf[u]] = "up" /\ UNCHANGED mode
      BY <1>5 DEF CreateBranchFails, CreatePullFails, Judge, AtWork
    <2>2. /\ \A t \in Session : session'[t] = "ok" => session[t] = "ok" /\ t # SessionOf[u]
          /\ \A v \in Unit : v # u => results'[v] = results[v]
      BY <1>5, <2>1 DEF CreateBranchFails, CreatePullFails, Judge, Throws
    <2>3. QED BY <2>1, <2>2 DEF ErrorsAreTold, UnitsOf, AttemptsLike
  <1> QED
    BY <1>1, <1>2, <1>3, <1>4, <1>5 DEF PullsNext, UnitSteps

LEMMA UntouchedStep == ASSUME PullsTypeOK, Untouched, PullsNext PROVE Untouched'
  <1> USE PullsAssumption DEF PullsTypeOK, Untouched
  <1>1. ASSUME NEW s \in Session, Launch(s) PROVE Untouched'
    BY <1>1 DEF Launch, OnServer, History, SweepRecord
  <1>2. ASSUME NEW s \in Session, Fail(s) PROVE Untouched'
    BY <1>2 DEF Fail, Sweeps, NoSweep, OnServer, History, SweepRecord
  <1>3. ASSUME NEW s \in Session, Interrupt(s) PROVE Untouched'
    BY <1>3 DEF Interrupt, Busy, UnitsOf, OnServer, History, SweepRecord
  <1>4. ASSUME NEW s \in Session, Report(s) PROVE Untouched'
    BY <1>4 DEF Report, OnServer, History, SweepRecord
  <1>5. ASSUME NEW s \in Session, ListPulls(s) PROVE Untouched'
    BY <1>5 DEF ListPulls, Sweeps, Sweeping, OnServer, History, SweepRecord
  <1>6. ASSUME NEW s \in Session, ListPullsFails(s) PROVE Untouched'
    BY <1>6 DEF ListPullsFails, Sweeps, Sweeping, OnServer, History, SweepRecord
  <1>7. ASSUME NEW s \in Session, TurnToBranches(s) PROVE Untouched'
    BY <1>7 DEF TurnToBranches, Sweeps, Sweeping, OnServer, History, SweepRecord
  <1>8. ASSUME NEW s \in Session, ListBranches(s) PROVE Untouched'
    BY <1>8 DEF ListBranches, Sweeps, Sweeping, OnServer, History, SweepRecord
  <1>9. ASSUME NEW s \in Session, ListBranchesFails(s) PROVE Untouched'
    BY <1>9 DEF ListBranchesFails, Sweeps, Sweeping, NoSweep, OnServer, History, SweepRecord
  <1>10. ASSUME NEW s \in Session, EndSweep(s) PROVE Untouched'
    BY <1>10 DEF EndSweep, Sweeps, Sweeping, NoSweep, OnServer, History, SweepRecord
  <1>11. ASSUME NEW s \in Session, NEW u \in Unit, DeclineStale(s, u) PROVE Untouched'
    BY <1>11 DEF DeclineStale, Sweeps, Sweeping, OnServer, History, SweepRecord
  <1>12. ASSUME NEW s \in Session, NEW u \in Unit, CheckBranch(s, u) PROVE Untouched'
    BY <1>12 DEF CheckBranch, Sweeps, Sweeping, OnServer, History, SweepRecord
  <1>13. ASSUME NEW s \in Session, NEW u \in Unit, DeleteOrphan(s, u) PROVE Untouched'
    BY <1>13 DEF DeleteOrphan, Sweeps, Sweeping, OnServer, History, SweepRecord
  <1>14. ASSUME NEW u \in Unit, Start(u) PROVE Untouched'
    BY <1>14 DEF Start, OnServer, History, SweepRecord
  <1>15. ASSUME NEW u \in Unit, BeginSweep(u) PROVE Untouched'
    BY <1>15 DEF BeginSweep, Sweeps, NoSweep, MaySweep, OnServer, History, SweepRecord
  <1>16. ASSUME NEW u \in Unit, CreateBranch(u) PROVE Untouched'
    BY <1>16 DEF CreateBranch, Moves, AtWork, Swept, OnServer, History, SweepRecord
  <1>17. ASSUME NEW u \in Unit, CreateBranchFails(u) PROVE Untouched'
    BY <1>17 DEF CreateBranchFails, Moves, AtWork, Swept, Throws, Refuses, OnServer, History,
       SweepRecord
  <1>18. ASSUME NEW u \in Unit, CreatePull(u) PROVE Untouched'
    BY <1>18 DEF CreatePull, Moves, AtWork, OnServer, History, SweepRecord
  <1>19. ASSUME NEW u \in Unit, CreatePullFails(u) PROVE Untouched'
    BY <1>19 DEF CreatePullFails, Moves, AtWork, Throws, Refuses, OnServer, History, SweepRecord
  <1>20. ASSUME NEW u \in Unit, Abandon(u) PROVE Untouched'
    BY <1>20 DEF Abandon, Moves, Leaving, OnServer, History, SweepRecord
  <1>21. ASSUME NEW u \in Unit, Judge(u) PROVE Untouched'
    BY <1>21 DEF Judge, Moves, AtWork, Throws, OnServer, History, SweepRecord
  <1>22. ASSUME NEW u \in Unit, Close(u) PROVE Untouched'
    BY <1>22 DEF Close, Moves, Leaving, OnServer, History, SweepRecord
  <1>23. ASSUME NEW u \in Unit, CloseFails(u) PROVE Untouched'
    BY <1>23 DEF CloseFails, Moves, Leaving, Refuses, OnServer, History, SweepRecord
  <1>24. ASSUME NEW u \in Unit, Prune(u) PROVE Untouched'
    BY <1>24 DEF Prune, Moves, Leaving, Refuses, OnServer, History, SweepRecord
  <1> QED
    BY <1>1, <1>2, <1>3, <1>4, <1>5, <1>6, <1>7, <1>8, <1>9, <1>10, <1>11, <1>12, <1>13, <1>14,
       <1>15, <1>16, <1>17, <1>18, <1>19, <1>20, <1>21, <1>22, <1>23, <1>24
    DEF PullsNext, SweepSteps, UnitSteps

LEMMA StaleStep ==
  ASSUME PullsTypeOK, UnitsTold, StaleInHand, PullsNext
  PROVE  StaleInHand'
  <1> USE PullsAssumption DEF PullsTypeOK, UnitsTold, StaleInHand
  <1>1. ASSUME NEW s \in Session, Launch(s) PROVE StaleInHand'
    BY <1>1 DEF Launch, OnServer, History, SweepRecord
  <1>2. ASSUME NEW s \in Session, Fail(s) PROVE StaleInHand'
    BY <1>2 DEF Fail, Sweeps, NoSweep, OnServer, History, SweepRecord
  <1>3. ASSUME NEW s \in Session, Interrupt(s) PROVE StaleInHand'
    BY <1>3 DEF Interrupt, Busy, UnitsOf, OnServer, History, SweepRecord
  <1>4. ASSUME NEW s \in Session, Report(s) PROVE StaleInHand'
    BY <1>4 DEF Report, OnServer, History, SweepRecord
  <1>5. ASSUME NEW s \in Session, ListPulls(s) PROVE StaleInHand'
    BY <1>5 DEF ListPulls, Sweeps, Sweeping, OnServer, History, SweepRecord
  <1>6. ASSUME NEW s \in Session, ListPullsFails(s) PROVE StaleInHand'
    BY <1>6 DEF ListPullsFails, Sweeps, Sweeping, OnServer, History, SweepRecord
  <1>7. ASSUME NEW s \in Session, TurnToBranches(s) PROVE StaleInHand'
    BY <1>7 DEF TurnToBranches, Sweeps, Sweeping, OnServer, History, SweepRecord
  <1>8. ASSUME NEW s \in Session, ListBranches(s) PROVE StaleInHand'
    <2> DEFINE after(page) ==
                 [sweep[s] EXCEPT
                    !.found = sweep[s].found \cup page,
                    !.start = sweep[s].start + Cardinality(page),
                    !.todo = IF GoesOn(branches, sweep[s].start, page) THEN {}
                             ELSE sweep[s].found \cup page,
                    !.phase = IF GoesOn(branches, sweep[s].start, page) THEN "branches"
                              ELSE "checking",
                    !.stale = IF branches \subseteq sweep[s].found \cup page THEN sweep[s].stale
                              ELSE {}]
    <2>1. PICK page \in Pages(branches, sweep[s].start) : Sweeps(s, after(page))
      BY <1>8 DEF ListBranches
    <2>2. sweep[s].phase = "branches" /\ UNCHANGED <<branches, pulls>>
      BY <1>8 DEF ListBranches, Sweeping, OnServer
    <2>3. \A t \in Session : t # s => sweep'[t] = sweep[t]
      BY <2>1 DEF Sweeps
    <2>4. sweep'[s] = after(page)
      BY <2>1 DEF Sweeps
    <2>5. /\ sweep'[s].live = {} /\ sweep'[s].stale \subseteq sweep[s].stale
          /\ sweep'[s].phase \in {"branches", "checking"}
          /\ sweep'[s].stale # {} => branches \subseteq sweep'[s].found
      BY <2>2, <2>4 DEF SweepRecord
    <2> HIDE DEF after
    <2>6. QED BY <2>2, <2>3, <2>5
  <1>9. ASSUME NEW s \in Session, ListBranchesFails(s) PROVE StaleInHand'
    BY <1>9 DEF ListBranchesFails, Sweeps, Sweeping, NoSweep, OnServer, History, SweepRecord
  <1>10. ASSUME NEW s \in Session, EndSweep(s) PROVE StaleInHand'
    BY <1>10 DEF EndSweep, Sweeps, Sweeping, NoSweep, OnServer, History, SweepRecord
  <1>11. ASSUME NEW s \in Session, NEW u \in Unit, DeclineStale(s, u) PROVE StaleInHand'
    BY <1>11 DEF DeclineStale, Sweeps, Sweeping, OnServer, History, SweepRecord
  <1>12. ASSUME NEW s \in Session, NEW u \in Unit, CheckBranch(s, u) PROVE StaleInHand'
    BY <1>12 DEF CheckBranch, Sweeps, Sweeping, OnServer, History, SweepRecord
  <1>13. ASSUME NEW s \in Session, NEW u \in Unit, DeleteOrphan(s, u) PROVE StaleInHand'
    BY <1>13 DEF DeleteOrphan, Sweeps, Sweeping, OnServer, History, SweepRecord
  <1>14. ASSUME NEW u \in Unit, Start(u) PROVE StaleInHand'
    BY <1>14 DEF Start, OnServer, History, SweepRecord
  <1>15. ASSUME NEW u \in Unit, BeginSweep(u) PROVE StaleInHand'
    BY <1>15 DEF BeginSweep, Sweeps, NoSweep, MaySweep, OnServer, History, SweepRecord
  <1>16. ASSUME NEW u \in Unit, CreateBranch(u) PROVE StaleInHand'
    BY <1>16 DEF CreateBranch, Moves, AtWork, Swept, OnServer, History, SweepRecord
  <1>17. ASSUME NEW u \in Unit, CreateBranchFails(u) PROVE StaleInHand'
    BY <1>17 DEF CreateBranchFails, Moves, AtWork, Swept, Throws, Refuses, OnServer, History,
       SweepRecord
  <1>18. ASSUME NEW u \in Unit, CreatePull(u) PROVE StaleInHand'
    BY <1>18 DEF CreatePull, Moves, AtWork, OnServer, History, SweepRecord
  <1>19. ASSUME NEW u \in Unit, CreatePullFails(u) PROVE StaleInHand'
    BY <1>19 DEF CreatePullFails, Moves, AtWork, Throws, Refuses, OnServer, History, SweepRecord
  <1>20. ASSUME NEW u \in Unit, Abandon(u) PROVE StaleInHand'
    BY <1>20 DEF Abandon, Moves, Leaving, OnServer, History, SweepRecord
  <1>21. ASSUME NEW u \in Unit, Judge(u) PROVE StaleInHand'
    BY <1>21 DEF Judge, Moves, AtWork, Throws, OnServer, History, SweepRecord
  <1>22. ASSUME NEW u \in Unit, Close(u) PROVE StaleInHand'
    BY <1>22 DEF Close, Moves, Leaving, OnServer, History, SweepRecord
  <1>23. ASSUME NEW u \in Unit, CloseFails(u) PROVE StaleInHand'
    BY <1>23 DEF CloseFails, Moves, Leaving, Refuses, OnServer, History, SweepRecord
  <1>24. ASSUME NEW u \in Unit, Prune(u) PROVE StaleInHand'
    BY <1>24 DEF Prune, Moves, Leaving, Refuses, OnServer, History, SweepRecord
  <1> QED
    BY <1>1, <1>2, <1>3, <1>4, <1>5, <1>6, <1>7, <1>8, <1>9, <1>10, <1>11, <1>12, <1>13, <1>14,
       <1>15, <1>16, <1>17, <1>18, <1>19, <1>20, <1>21, <1>22, <1>23, <1>24
    DEF PullsNext, SweepSteps, UnitSteps

LEMMA PullsStart == PullsInit => PullsInv
  <1> SUFFICES ASSUME PullsInit PROVE PullsInv
    OBVIOUS
  <1>1. PullsTypeOK
    BY PullsAssumption DEF PullsInit, PullsTypeOK, SweepRecord, NoSweep, Progress, Judgement
  <1>2. Untouched /\ UnitsTold /\ ResultsKept
    BY PullsAssumption DEF PullsInit, Untouched, UnitsTold, ResultsKept
  <1>3. StaleInHand /\ SparesItsOwn /\ LeavesNothing /\ ErrorsAreTold
    BY PullsAssumption DEF PullsInit, StaleInHand, NoSweep, SparesItsOwn, LeavesNothing,
       ErrorsAreTold
  <1>4. QED BY <1>1, <1>2, <1>3 DEF PullsInv

LEMMA PullsStep == ASSUME PullsInv, [PullsNext]_pullVars PROVE PullsInv'
  <1>1. CASE PullsNext
    BY <1>1, PullsTypeStep, UntouchedStep, UnitsToldStep, StaleStep, ResultsKeptStep,
       SparesItsOwnStep, LeavesNothingStep, ErrorsAreToldStep DEF PullsInv
  <1>2. CASE UNCHANGED pullVars
    BY <1>2 DEF pullVars, PullsInv, PullsTypeOK, Untouched, UnitsTold, StaleInHand, ResultsKept,
       SparesItsOwn, LeavesNothing, ErrorsAreTold, UnitsOf, AttemptsLike
  <1>3. QED BY <1>1, <1>2

(* The pull requests of a benchmark (PullsKept), for any number of         *)
(* sessions and units, however they overlap, are interrupted or killed.    *)
THEOREM PullsAreKept == Spec => []PullsKept
  <1>1. Init => PullsInv
    BY PullsStart DEF Init
  <1>2. PullsInv /\ [Next]_vars => PullsInv'
    <2>1. [Next]_vars => [PullsNext]_pullVars
      BY DEF Next, vars
    <2> QED
      BY <2>1, PullsStep
  <1>3. PullsInv => PullsKept
    BY DEF PullsInv, PullsKept, SweepClears, StaleInHand, Swept, PullsTypeOK
  <1> QED
    BY <1>1, <1>2, <1>3, PTL DEF Spec

------------------------------------------------------------------------------
(* Every part of the model keeps the types of its variables                *)
(* (ReviewTypeOK): those of the pull request, of the clones and the        *)
(* context, of the recording's files, of the runtime state of a replay,    *)
(* of the rows of a benchmark and of its pull requests.                    *)
THEOREM ReviewIsTyped == Spec => []ReviewTypeOK
  <1> DEFINE Inv == /\ RepoInv /\ ContextNamed /\ ThreadsInv /\ PostInv
                    /\ RecInv /\ TablesKept /\ ReplayInv /\ BenchInv /\ ViewInv
                    /\ PullsInv
  <1>1. Init => Inv
    BY RepoStart, ContextStart, ThreadsStart, PostStart, RecStart, TablesStart, ReplayStart, BenchStart,
       ViewStart, PullsStart DEF Init
  <1>2. Inv /\ [Next]_vars => Inv'
    <2> SUFFICES ASSUME Inv, [Next]_vars PROVE Inv'
      OBVIOUS
    <2>1. /\ [RepoNext]_repoVars /\ [ThreadsNext]_threadVars /\ [PostNext]_postVars
          /\ [RecNext]_recVars /\ [ReplayNext]_replayVars /\ [BenchNext]_benchVars
          /\ [ViewNext]_viewVars /\ [PullsNext]_pullVars
      BY DEF Next, vars
    <2>2. /\ RepoInv' /\ ThreadsInv' /\ PostInv' /\ RecInv' /\ ReplayInv' /\ BenchInv' /\ ViewInv'
          /\ PullsInv'
      BY <2>1, RepoStep, ThreadsStep, PostStep, RecStep, ReplayStep, BenchStep, ViewStep, PullsStep
    <2>3. ContextNamed'
      <3>1. CASE UNCHANGED repoVars
        BY <3>1 DEF repoVars, ContextNamed
      <3>2. QED BY <2>1, <3>1, ContextStep DEF RepoInv
    <2>4. TablesKept'
      <3>1. CASE UNCHANGED recVars
        BY <3>1 DEF recVars, diskVars, localVars, noteVars, TablesKept
      <3>2. QED BY <2>1, <3>1, TablesStep DEF RecInv
    <2>5. QED BY <2>2, <2>3, <2>4
  <1>3. Inv => ReviewTypeOK
    <2> SUFFICES ASSUME Inv PROVE ReviewTypeOK
      OBVIOUS
    <2>1. RepoTypeOK
      <3>1. \A t \in Caller : call[t].at \in CallStages
        BY DEF RepoInv, RepoTyped
      <3>2. Range(cached) \subseteq Caller
        BY DEF RepoInv, RepoTyped, Range
      <3>3. {ctx.repo, ctx.cleanup} \subseteq Caller \cup {NoClone}
        BY DEF RepoInv, RepoTyped
      <3>4. QED BY <3>1, <3>2, <3>3 DEF RepoInv, RepoTyped, ContextNamed, RepoTypeOK
    <2>2. ThreadsTypeOK /\ ReplayTypeOK
      BY ThreadsFacts, ReplayFacts
    <2>3. PostTypeOK
      <3>1. \A p \in Post : sent[p] \in {"unasked", "trying", "applied", "posted", "error"}
        BY DEF PostInv, PostTyped
      <3>2. ASSUME NEW p \in Post
            PROVE  tries[p] \in 0 .. Attempts /\ (p \in noted => copies[p] > 0)
        <4>1. tries[p] \in Nat /\ Attempts \in Nat /\ CopiesKnown(p)
          BY PostingAssumption DEF PostInv, PostTyped
        <4>2. QED BY <4>1 DEF CopiesKnown
      <3>3. QED BY <3>1, <3>2 DEF PostInv, PostTyped, PostTypeOK
    <2>4. RecTypeOK
      BY DEF RecInv, RecTyped, TablesKept, RecTypeOK
    <2>5. BenchTypeOK
      <3>1. ASSUME NEW r \in DOMAIN traces
            PROVE  /\ traces[r].status \in {"running", "completed", "failed"}
                   /\ Cardinality(traces[r].link) <= 1 /\ traces[r].link \subseteq Attempt
        <4>1. r \in Attempt /\ traces[r] \in [status : {"running", "completed", "failed"}, link : SUBSET Attempt]
          BY DEF BenchInv, BenchTyped
        <4>2. traces[r].link \subseteq {r}
          BY <4>1 DEF BenchInv, PairTold
        <4>3. traces[r].link = {} \/ traces[r].link = {r}
          BY <4>2
        <4>4. Cardinality(traces[r].link) <= 1
          <5>1. Cardinality({}) = 0 /\ Cardinality({r}) = 1
            BY FS_EmptySet, FS_Singleton
          <5>2. Cardinality(traces[r].link) = 0 \/ Cardinality(traces[r].link) = 1
            BY <4>3, <5>1
          <5>3. QED BY <5>2
        <4>5. QED BY <4>1, <4>4
      <3>2. \A a \in DOMAIN verdicts : /\ verdicts[a].status \in {"running", "completed", "error"}
                                       /\ verdicts[a].result \in {"none", "completed", "error"}
                                       /\ verdicts[a].link \in Attempt \cup {NoRow}
        BY DEF BenchInv, BenchTyped, JudgeRow
      <3>3. QED BY <3>1, <3>2 DEF BenchInv, BenchTyped, BenchTypeOK
    <2>6. ViewTypeOK
      BY ViewFacts
    <2>7. PullsTypeOK
      BY DEF PullsInv
    <2>8. QED BY <2>1, <2>2, <2>3, <2>4, <2>5, <2>6, <2>7 DEF ReviewTypeOK
  <1> HIDE DEF Inv
  <1>4. QED BY <1>1, <1>2, <1>3, PTL DEF Spec
==============================================================================
