---------------------------- MODULE CommentThreads ----------------------------
(***************************************************************************)
(* The comment tools of a review: pr_list_threads, pr_read_thread and      *)
(* pr_read_comment over the comments fetched when the run started, or over *)
(* those of another pull request, both cut at the highest id of the first. *)
(* People and the agent go on commenting meanwhile.                        *)
(***************************************************************************)
EXTENDS Integers, FiniteSets, Functions, FiniteSetsExt

CONSTANTS
    MaxId,      \* bound on the ids, which the two pull requests share
    PageSize,   \* n of pr_list_threads
    Length,     \* of the body of each comment
    ThreadCap,  \* per_thread_cap_chars
    Own, Other  \* the pull request under review and another one

Pr == {Own, Other}

ASSUME ThreadsAssumption ==
    /\ Own # Other /\ MaxId \in Nat \ {0} /\ PageSize \in Nat \ {0}
    /\ Length \in [1..MaxId -> Nat] /\ ThreadCap \in Nat

VARIABLES
    posted,    \* the server: per pull request, for each comment id its parent (0 for a root)
    mine,      \* ids of the agent's own comments of this run
    existing,  \* ctx.existing_comments; NotYet before the run starts
    highest,   \* ctx._comment_snapshot_max_id; -1 before a comment tool is called
    paging,    \* pull request whose threads are listed page by page: the order and whether
               \* all pages were asked in it, the offset, the rows so far
    reading    \* the last thread read: its pull request, the focus, the comments shown and
               \* how many were held back; and all the comments of Own ever shown

threadVars == <<posted, mine, existing, highest, paging, reading>>

NotYet == [id \in {0} |-> 0]
Empty == [id \in {} |-> 0]
NoPage == [pr |-> Own, sort |-> "newest", kept |-> TRUE, start |-> 0, rows |-> {},
           more |-> FALSE, twice |-> FALSE]
NoRead == [pr |-> Own, focus |-> 0, shown |-> {}, rest |-> 0, seen |-> {}]

ThreadsInit ==
    /\ posted = [p \in Pr |-> Empty] /\ mine = {}
    /\ existing = NotYet /\ highest = -1
    /\ paging = NoPage /\ reading = NoRead

Started == existing # NotYet
NextId == Cardinality(DOMAIN posted[Own]) + Cardinality(DOMAIN posted[Other]) + 1

Write(p) ==
    /\ NextId <= MaxId
    /\ \E parent \in DOMAIN posted[p] \cup {0} :
          posted' = [posted EXCEPT ![p] =
              [id \in DOMAIN @ \cup {NextId} |-> IF id = NextId THEN parent ELSE @[id]]]

\* A person comments, on either pull request.
HumanWrites ==
    /\ \E p \in Pr : Write(p)
    /\ UNCHANGED <<mine, existing, highest, paging, reading>>

\* pr_post_comment.
AgentWrites ==
    /\ Started /\ Write(Own) /\ mine' = mine \cup {NextId}
    /\ UNCHANGED <<existing, highest, paging, reading>>

\* get_pr_comments(), once, before the agent runs.
FetchComments ==
    /\ ~Started /\ existing' = posted[Own]
    /\ UNCHANGED <<posted, mine, highest, paging, reading>>

MaxOf(ids) == IF ids = {} THEN 0 ELSE Max(ids)
Snapshot == IF highest = -1 THEN MaxOf(DOMAIN existing) ELSE highest

\* _resolve_thread_source(): another pull request is read as it is now.
Source(p) == IF p = Own THEN existing ELSE posted[p]

\* _filter_snapshot(): no cut when there was no comment at the start.
Cut(table, max) == IF max = 0 THEN table ELSE Restrict(table, {id \in DOMAIN table : id <= max})
Visible(p) == Cut(Source(p), Snapshot)

\* Mutant: the parent of a comment is taken for the root of its thread.
RootOfParent(table, id) == IF table[id] \in DOMAIN table THEN table[id] ELSE id

\* _root_of(): up through the parents that are there.
RootOf(table, id) ==
    LET root[c \in DOMAIN table] == IF table[c] \in DOMAIN table THEN root[table[c]] ELSE c
    IN  root[id]

\* walk(): down through the children.
Thread(table, root) ==
    LET Replies(ids) == {c \in DOMAIN table : table[c] \in ids}
        below[n \in 0 .. Cardinality(DOMAIN table)] ==
            IF n = 0 THEN {root} ELSE below[n - 1] \cup Replies(below[n - 1])
    IN  below[Cardinality(DOMAIN table)]

\* Depth-first, replies by id: b comes before the ones below it, and before those
\* below a younger sibling of an ancestor of its own, or of b.
Precedes(table, b, c) ==
    /\ b # c
    /\ \/ c \in Thread(table, b)
       \/ \E x, y \in DOMAIN table :
              x < y /\ table[x] = table[y] /\ b \in Thread(table, x) /\ c \in Thread(table, y)

\* The loop that renders: it stops behind the comment that exceeds the cap.
Rendered(table, root) ==
    LET walk == Thread(table, root)
        CharsBefore(c) == SumFunctionOnSet(Length, {b \in walk : Precedes(table, b, c)})
    IN  {c \in walk : CharsBefore(c) <= ThreadCap}

\* The rows of pr_list_threads: the root and the comments counted for it.
Rows(table) ==
    LET roots == {RootOf(table, c) : c \in DOMAIN table}
    IN  {[root |-> r, group |-> {c \in DOMAIN table : RootOf(table, c) = r}] : r \in roots}

Sort == {"newest", "oldest", "most_active"}

\* The order of the rows; of two threads with as many replies the newer one is
\* first, as in the activities the server sends.
Leads(sort, one, other) ==
    LET more == Cardinality(one.group) > Cardinality(other.group)
        same == Cardinality(one.group) = Cardinality(other.group)
    IN  CASE sort = "oldest" -> one.root < other.root
          [] sort = "newest" -> one.root > other.root
          [] OTHER           -> more \/ (same /\ one.root > other.root)

Before(sort, entry, rows) == Cardinality({other \in rows : Leads(sort, other, entry)})

Page(sort, rows, start) == {entry \in rows : Before(sort, entry, rows) \in start .. start + PageSize - 1}

\* pr_list_threads(): the first page, or the one that the line "[n more]" names,
\* which says nothing of the order: the agent repeats it, or gets the default.
ListThreads(p, sort, start) ==
    LET rows == Rows(Visible(p))
        page == Page(sort, rows, start)
        sofar == IF start = 0 THEN {} ELSE paging.rows
    IN  /\ Started /\ highest' = Snapshot
        /\ start = 0 \/ (paging.more /\ paging.pr = p /\ start = paging.start
                        /\ sort \in {paging.sort, "newest"})
        /\ paging' = [pr |-> p, sort |-> sort,
                      kept |-> start = 0 \/ (paging.kept /\ sort = paging.sort),
                      start |-> start + Cardinality(page), rows |-> sofar \cup page,
                      more |-> start + Cardinality(page) < Cardinality(rows),
                      twice |-> page \cap sofar # {} \/ (start > 0 /\ paging.twice)]
        /\ UNCHANGED <<posted, mine, existing, reading>>

\* pr_read_thread(): any comment of the thread names it, and the walk always
\* begins at the root.
ReadThread(p, focus) ==
    LET table == Visible(p)
        root == RootOf(table, focus)
        shown == Rendered(table, root)
    IN  /\ Started /\ highest' = Snapshot
        /\ focus \in DOMAIN table
        /\ reading' = [pr |-> p, focus |-> focus, shown |-> shown,
                       rest |-> Cardinality(Thread(table, root)) - Cardinality(shown),
                       seen |-> IF p = Own THEN reading.seen \cup shown ELSE reading.seen]
        /\ UNCHANGED <<posted, mine, existing, paging>>

ThreadsNext ==
    \/ HumanWrites \/ AgentWrites \/ FetchComments
    \/ \E p \in Pr : \/ \E sort \in Sort, start \in {0, paging.start} : ListThreads(p, sort, start)
                     \/ \E focus \in 1 .. MaxId : ReadThread(p, focus)

------------------------------------------------------------------------------

\* Type correctness; ids grow, so a parent is older than its reply.
ThreadsTypeOK ==
    /\ \A p \in Pr, id \in 1 .. MaxId : id \in DOMAIN posted[p] => posted[p][id] \in 0 .. id - 1
    /\ Started => DOMAIN existing \subseteq DOMAIN posted[Own]
    /\ highest \in -1 .. MaxId
    /\ paging.start \in 0 .. MaxId /\ paging.sort \in Sort
    /\ reading.focus \in 0 .. MaxId

(* A thread of the pull request under review is read as it was listed: for *)
(* any of its comments the walk down shows those that the walks up counted *)
(* for its row, whatever is written meanwhile, except for as many as it    *)
(* says it held back at the cap.                                           *)
ReadAsListed ==
    \A entry \in paging.rows :
        reading.pr = Own /\ paging.pr = Own /\ reading.focus \in entry.group =>
            /\ reading.shown \subseteq entry.group
            /\ reading.rest = Cardinality(entry.group \ reading.shown)

(* Reading a thread again, by whatever comment of it, shows what the first *)
(* reading showed: the comments held back are not shown by the call the    *)
(* tool proposes for them.                                                 *)
CutStaysCut ==
    \A entry \in Rows(existing) :
        reading.pr = Own /\ reading.focus \in entry.group =>
            reading.seen \cap entry.group = reading.shown

(* Paging through the threads of the pull request under review, all pages  *)
(* in one order, shows every thread once, whatever is written meanwhile.   *)
PagesCoverAll ==
    paging.pr = Own /\ paging.start > 0 /\ paging.kept =>
        /\ ~paging.twice
        /\ ~paging.more => paging.rows = Rows(existing)

\* The agent never reads its own comments of this run as comments of others.
OwnPostsUnseen ==
    /\ reading.seen \cap mine = {}
    /\ paging.pr = Own => \A entry \in paging.rows : entry.group \cap mine = {}

\* Listing, paging and reading show one state of the pull request.
ThreadsAgree == ReadAsListed /\ (Started => CutStaysCut) /\ PagesCoverAll /\ OwnPostsUnseen
==============================================================================
