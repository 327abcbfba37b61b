------------------------------- MODULE DiffView -------------------------------
(***************************************************************************)
(* The diff view that the agents of a review read (diffsearch/).           *)
(* materialize_vfs() turns "git diff -U99999" of a changed file into a     *)
(* file of the lines of both sides, numbered L = 1, 2, ..., with a mark    *)
(* and the line number on each side; diff_parser.py takes the changed      *)
(* lines of the source from the diff with three lines of context.  Here    *)
(* git prints a diff line by line and both parsers take each line as it    *)
(* comes; then the tools answer from the view.  Next to it, the listing    *)
(* of the files of a view, page by page.                                   *)
(*                                                                         *)
(* One file is printed as one hunk (-U99999).  Its lines hold no separator *)
(* of str.splitlines() other than the newline.                             *)
(***************************************************************************)
EXTENDS Integers, Sequences, FiniteSets, FiniteSetsExt

CONSTANTS
    Plain,      \* the text of an ordinary line
    Dashes,     \* a text that starts with "--" or "++", as the mark before it
    SymbolName, \* texts that open a symbol of that name
    EndNote,    \* the text of "\ No newline at end of file"
    MaxRaw,     \* bound on the lines git prints
    WindowSize, \* lines of a window (100)
    MaxHits,    \* max_results of a search (30)
    RowsPerPage, \* n of diff_list_files (50)
    LastPath,   \* the paths of the repository are 1 .. LastPath, in the order of their names
    Vendored    \* the paths inside a directory of _SKIP_DIRS

ASSUME ViewAssumption ==
    /\ {Plain, Dashes, EndNote} \cap SymbolName = {}
    /\ Plain # Dashes
    /\ {MaxRaw, MaxHits, LastPath} \subseteq Nat
    /\ {WindowSize, RowsPerPage} \subseteq Nat \ {0}

Side == {"old", "new"}
Marks(side) == IF side = "old" THEN {" ", "-"} ELSE {" ", "+"}

DiffLine == [mark : {" ", "-", "+"}, text : {Plain, Dashes} \cup SymbolName]
Note == [mark |-> "note", text |-> EndNote]

NoNumber == -1    \* None: a line that is not on that side

Path == 1 .. LastPath
(* What a file is in a commit: "exec" is "text" with another mode. *)
Content == {"absent", "empty", "text", "exec", "other", "binary"}

VARIABLES
    work,      \* "diff": git prints; "read": the view is on disk; "list": files are listed
    filled,    \* the sides of the file that have lines, as the hunk header tells
    raw,       \* what git has printed after the hunk header
    baseNo,    \* old_n of build_virtual_file()
    sourceNo,  \* new_n
    view,      \* VirtualFile.lines: the index of a line is its L
    hunked,    \* the last line is in a hunk of the diff with three lines of context
    afterNo,   \* after_no of _parse_file_section()
    changedLines,  \* after_changed_lines
    files,     \* per path: its content at the merge base, in the source, and whether base has it now
    renamed,   \* renames that git detects: <<old path, new path>>
    onlyChanges,   \* changes_only of diff_list_files
    offset,    \* start of the next page
    rowsRead   \* the paths listed so far

diffVars == <<filled, raw, baseNo, sourceNo, view, hunked, afterNo, changedLines>>
listVars == <<files, renamed, onlyChanges, offset, rowsRead>>
viewVars == <<work, diffVars, listVars>>

NoFiles == [p \in Path |-> [fork |-> "absent", source |-> "absent", inBase |-> FALSE]]

\* git pairs paths that were deleted with paths that were added, by similarity.
MayMove(f, r) ==
    /\ f[r[1]].fork # "absent" /\ f[r[1]].source = "absent"
    /\ f[r[2]].fork = "absent" /\ f[r[2]].source # "absent"
Renames(f) ==
    {R \in SUBSET {r \in Path \X Path : MayMove(f, r)} :
        \A r, s \in R : r[1] = s[1] \/ r[2] = s[2] => r = s}

\* "@@ -1,n +1,m @@", with a 0 for the start of a side without lines.
ViewInit ==
    /\ \/ /\ work = "diff" /\ filled \in (SUBSET Side) \ {{}}
          /\ files = NoFiles /\ onlyChanges = TRUE
       \/ /\ work = "list" /\ filled = Side
          /\ files \in [Path -> [fork : Content, source : Content, inBase : BOOLEAN]]
          /\ onlyChanges \in BOOLEAN
    /\ raw = <<>> /\ view = <<>>
    /\ baseNo = (IF "old" \in filled THEN 0 ELSE -1)
    /\ sourceNo = (IF "new" \in filled THEN 0 ELSE -1)
    /\ hunked = FALSE /\ afterNo = 0 /\ changedLines = {}
    /\ renamed \in Renames(files)
    /\ offset = 0 /\ rowsRead = {}

------------------------------------------------------------------------------
\* The diff of one file.

LinesOf(side, i) == {j \in 1 .. i : raw[j].mark \in Marks(side)}

\* The number of the last line of a side among the first i lines of the diff.
Number(side, i) == Cardinality(LinesOf(side, i))

\* The last line of the side has no newline, and git has said so.
Closed(side) == \E i \in 2 .. Len(raw) : raw[i] = Note /\ raw[i - 1].mark \in Marks(side)

\* The mark of the line before; the start of the file is like a line of context.
LastMark == IF raw = <<>> THEN " " ELSE raw[Len(raw)].mark

\* In a block of changes the removed lines come first.
MayFollow(r) ==
    IF r = Note
    THEN raw # <<>> /\ LastMark # Note.mark
    ELSE /\ \A side \in Side : r.mark \in Marks(side) => side \in filled /\ ~Closed(side)
         /\ r.mark = "-" => LastMark \in {" ", "-"}

\* A changed line that looks like a header of the diff: "--- ..." or "+++ ...".
Headlike(r) == r.mark \in {"-", "+"} /\ r.text = Dashes

MarkOf(r) == IF r.mark \in {"-", "+"} THEN r.mark ELSE " "

\* Mutant: a removed line moves the number of the source too.
TakeIntoViewBoth(r) ==
    IF Headlike(r)
    THEN UNCHANGED <<view, baseNo, sourceNo>>
    ELSE LET m == MarkOf(r)
         IN  /\ baseNo' = IF m \in Marks("old") THEN baseNo + 1 ELSE baseNo
             /\ sourceNo' = sourceNo + 1
             /\ view' = Append(view,
                    [mark |-> m, text |-> r.text,
                     old |-> IF m \in Marks("old") THEN baseNo + 1 ELSE NoNumber,
                     new |-> IF m \in Marks("new") THEN sourceNo + 1 ELSE NoNumber])

(* build_virtual_file(), one line of its loop: what does not start with a  *)
(* sign is a line of context, the note on the missing newline too.         *)
TakeIntoView(r) ==
    IF Headlike(r)
    THEN UNCHANGED <<view, baseNo, sourceNo>>
    ELSE LET m == MarkOf(r)
         IN  /\ baseNo' = IF m \in Marks("old") THEN baseNo + 1 ELSE baseNo
             /\ sourceNo' = IF m \in Marks("new") THEN sourceNo + 1 ELSE sourceNo
             /\ view' = Append(view,
                    [mark |-> m, text |-> r.text,
                     old |-> IF m \in Marks("old") THEN baseNo + 1 ELSE NoNumber,
                     new |-> IF m \in Marks("new") THEN sourceNo + 1 ELSE NoNumber])

\* The start of a hunk in the source: its header tells the true number.
HunkStart == IF "new" \in filled THEN Number("new", Len(raw)) + 1 ELSE 0

(* _parse_file_section(), one line of a hunk.  A removed line counts as a  *)
(* change of the line that takes its place, and not at all where the       *)
(* source has no lines.                                                    *)
TakeIntoHunk(r) ==
    LET n == IF hunked THEN afterNo ELSE HunkStart
    IN  /\ changedLines' = IF r.mark = "+" \/ (r.mark = "-" /\ n > 0)
                           THEN changedLines \cup {n} ELSE changedLines
        /\ afterNo' = IF r.mark \in Marks("new") THEN n + 1 ELSE n

\* The lines next to a change are in its hunk.
MayLeaveOut(r) == r.mark = " " /\ LastMark = " "

GitEmits(r) ==
    /\ work = "diff" /\ Len(raw) < MaxRaw /\ MayFollow(r)
    /\ raw' = Append(raw, r)
    /\ TakeIntoView(r)
    /\ \/ /\ r = Note \/ (r.mark \in {"-", "+"} /\ raw # <<>>) => hunked
          /\ hunked' = TRUE
          /\ TakeIntoHunk(r)
       \/ /\ MayLeaveOut(r) \/ (r = Note /\ ~hunked)
          /\ hunked' = FALSE
          /\ UNCHANGED <<afterNo, changedLines>>
    /\ UNCHANGED <<work, filled, listVars>>

(* materialize_vfs() writes the text of the lines, and their marks beside  *)
(* it; a view without lines is written as "(binary file)".                 *)
WriteView ==
    /\ work = "diff" /\ work' = "read"
    /\ \A side \in filled : Number(side, Len(raw)) > 0
    /\ \E i \in DOMAIN raw : raw[i].mark \in {"-", "+"}
    /\ view # <<>>
    /\ UNCHANGED <<diffVars, listVars>>

------------------------------------------------------------------------------
\* The tools that read the view.  An answer is the set of its lines, by L.

(* diff_read_file with a range; NoNumber where an end of it is not given.  *)
(* Only a range with both ends is cut to the size of a window.             *)
ReadRows(start, end) ==
    LET wide == start # NoNumber /\ end # NoNumber /\ end - start > WindowSize
        low == IF start \in {NoNumber, 0} THEN 1 ELSE start
        high == IF wide THEN start + WindowSize - 1
                ELSE IF end = NoNumber THEN low + WindowSize - 1 ELSE end
    IN  {L \in DOMAIN view : low <= L /\ L <= high}

Near(Ls, before, after) ==
    {L \in DOMAIN view : \E c \in Ls : c - before <= L /\ L <= c + after}

ChangedRows == {L \in DOMAIN view : view[L].mark # " "}

\* diff_read_file with changes_only.
ChangesOnly(before, after) == Near(ChangedRows, before, after)

\* Its header.
ChangesTag ==
    IF \A L \in DOMAIN view : view[L].mark = "+" THEN "new file"
    ELSE IF \A L \in DOMAIN view : view[L].mark = "-" THEN "deleted"
    ELSE "old=base, new=source"

\* diff_search: the first hits, each with the lines around it.
Matches(text) == {L \in DOMAIN view : view[L].text = text}
Hits(text) == {L \in Matches(text) : Cardinality({K \in Matches(text) : K <= L}) <= MaxHits}
SearchRows(text, before, after) == Near(Hits(text), before, after)

(* diff_outline parses each side with the lines of the other blanked out.  *)
(* Of the symbols of one name the last is kept.                            *)
SideRows(side) == {L \in DOMAIN view : view[L].mark \in Marks(side)}
Openings(side, s) == {L \in SideRows(side) : view[L].text = s}
LastOpening(side, s) == Max(Openings(side, s))
\* A symbol ends on the last line of its side before the next symbol.
Extent(side, s) ==
    {L \in SideRows(side) :
        /\ L >= LastOpening(side, s)
        /\ \A K \in SideRows(side) : LastOpening(side, s) < K /\ K <= L => view[K].text \notin SymbolName}

Sides(s) == {side \in Side : Openings(side, s) # {}}
Starts(s) == {LastOpening(side, s) : side \in Sides(s)}
Ends(s) == {Max(Extent(side, s)) : side \in Sides(s)}

\* _merge_symbols(): a symbol is starred if any line of both its ranges changed.
Starred(s) == \E L \in ChangedRows : Min(Starts(s)) <= L /\ L <= Max(Ends(s))

------------------------------------------------------------------------------
\* The files of a view.

TextOf(content) ==
    CASE content \in {"absent", "empty"} -> "" [] content = "exec" -> "text" [] OTHER -> content

Differs(p) == files[p].fork # files[p].source
MovedAway == {r[1] : r \in renamed}
MovedTo == {r[2] : r \in renamed}

\* get_path_status(): git diff --name-status.
Status(p) ==
    IF p \in MovedTo THEN "R"
    ELSE IF ~Differs(p) THEN " "
    ELSE IF files[p].fork = "absent" THEN "A"
    ELSE IF files[p].source = "absent" THEN "D"
    ELSE "M"

\* get_changed_files(): --name-only tells the new path of a rename only.
NameOnly == {p \in Path : Differs(p)} \ MovedAway

\* git diff -- path prints lines: of a rename too, since it sees one path.
HasLines(p) ==
    "binary" \notin {files[p].fork, files[p].source} /\ TextOf(files[p].fork) # TextOf(files[p].source)

(* What materialize_vfs() leaves for a path: the view of a diff, the line  *)
(* "(binary file)", a copy from the working tree, or nothing.              *)
Left(p) ==
    IF p \in NameOnly
    THEN IF HasLines(p) THEN "diff" ELSE "binary"
    ELSE IF files[p].source = "absent"
    THEN IF files[p].inBase /\ HasLines(p) THEN "diff" ELSE "nothing"
    ELSE IF files[p].source = "binary" THEN "binary" ELSE "copy"

\* list_files_vfs(), then _filter_and_page_listing().
ListedPaths ==
    {p \in Path \ Vendored : Left(p) # "nothing" /\ (onlyChanges => Status(p) # " ")}

PlaceOf(p) == Cardinality({q \in ListedPaths : q <= p})
PageFrom(start) == {p \in ListedPaths : start < PlaceOf(p) /\ PlaceOf(p) <= start + RowsPerPage}

\* The agent asks for the page that the footer names, while there are rows.
ListPage ==
    /\ work = "list"
    /\ offset = 0 \/ offset < Cardinality(ListedPaths)
    /\ rowsRead' = rowsRead \cup PageFrom(offset)
    /\ offset' = offset + RowsPerPage
    /\ UNCHANGED <<work, diffVars, files, renamed, onlyChanges>>

ViewNext ==
    \/ \E r \in DiffLine \cup {Note} : GitEmits(r)
    \/ WriteView
    \/ ListPage

------------------------------------------------------------------------------

ViewTypeOK ==
    /\ work \in {"diff", "read", "list"} /\ filled \subseteq Side
    /\ raw \in Seq(DiffLine \cup {Note}) /\ Len(raw) <= MaxRaw
    /\ Len(view) <= Len(raw)
    /\ baseNo \in -1 .. Len(raw) /\ sourceNo \in -1 .. Len(raw)
    /\ hunked \in BOOLEAN /\ afterNo \in 0 .. Len(raw) + 1
    /\ changedLines \subseteq 1 .. Len(raw) + 1
    /\ rowsRead \subseteq Path /\ offset \in Nat

\* No line so far looks like a header, nor is the note on the missing newline.
CleanUpTo(i) == \A j \in 1 .. i : raw[j] # Note /\ ~Headlike(raw[j])

NumberOn(side, i) == IF raw[i].mark \in Marks(side) THEN Number(side, i) ELSE NoNumber

(* Up to the first line that looks like a header or the note on a missing  *)
(* newline, a line of the diff is the line of the view with its mark, its  *)
(* text and its true number on each side.                                  *)
LinesAreTrue ==
    \A i \in DOMAIN raw :
        CleanUpTo(i) =>
            /\ i \in DOMAIN view
            /\ view[i] = [mark |-> raw[i].mark, text |-> raw[i].text,
                          old |-> NumberOn("old", i), new |-> NumberOn("new", i)]

(* after_changed_lines are the added lines, and for each removed one the   *)
(* line of the source that comes next, whatever git prints and whatever    *)
(* context it leaves out.                                                  *)
ChangedLinesAreTrue ==
    changedLines =
        {Number("new", i) : i \in {j \in DOMAIN raw : raw[j].mark = "+"}}
        \cup {Number("new", i) + 1 :
                i \in {j \in DOMAIN raw : raw[j].mark = "-" /\ "new" \in filled}}

\* A symbol without a star is on both sides, with the same lines, none changed.
OutlineIsTrue ==
    work = "read" => \A s \in SymbolName :
        Sides(s) # {} /\ ~Starred(s) =>
            /\ Sides(s) = Side
            /\ Extent("old", s) = Extent("new", s)
            /\ Extent("new", s) \cap ChangedRows = {}

(* Of a diff without such lines, the answer with changes only holds every  *)
(* changed line of it and says whether the file is new or deleted; a       *)
(* search with room for its hits shows every line with the text, added,    *)
(* removed or neither; windows one after the other show the whole file.    *)
AnswersAreTrue ==
    work = "read" /\ CleanUpTo(Len(raw)) =>
        /\ {i \in DOMAIN raw : raw[i].mark # " "} \subseteq ChangesOnly(0, 0)
        /\ ChangesTag = "new file" <=> filled = {"new"}
        /\ ChangesTag = "deleted" <=> filled = {"old"}
        /\ \A t \in {Plain} \cup SymbolName :
              Cardinality(Matches(t)) <= MaxHits =>
                  {i \in DOMAIN raw : raw[i].text = t} \subseteq SearchRows(t, 0, 0)
        /\ \A i \in DOMAIN raw :
              i \in ReadRows(((i - 1) \div WindowSize) * WindowSize + 1, NoNumber)

\* A rename source that git prints no lines for, or that base has dropped too.
Untold == {p \in MovedAway : ~HasLines(p) \/ ~files[p].inBase}

(* The pages of a listing show, after the last of them, every file the     *)
(* pull request changes, but for those above, and nothing that only base   *)
(* has changed; every file of the source too where they were asked for.    *)
ListingIsTrue ==
    work = "list" /\ offset > 0 /\ offset >= Cardinality(ListedPaths) =>
        rowsRead = {p \in Path \ Vendored :
                       \/ Differs(p) /\ p \notin Untold
                       \/ ~onlyChanges /\ files[p].source # "absent"}

\* What an agent reads through the diff tools is what the branch changes.
ViewTellsTruth ==
    LinesAreTrue /\ ChangedLinesAreTrue /\ OutlineIsTrue /\ AnswersAreTrue /\ ListingIsTrue
==============================================================================
