------------------------------ MODULE Recording ------------------------------
(***************************************************************************)
(* The capture layer: cli.py processes that record their invocation of one *)
(* pull request in one directory (diffgraph/recording.py).  The writers    *)
(* share pr.json, the listing of invocations/, repo.bundle.new,            *)
(* repo.bundle and manifest.json and hold no lock, so every file operation *)
(* is a step.  The branch is force-pushed between any two clones: a commit *)
(* is named by the writer that cloned it, and only a ref keeps it in the   *)
(* bundle.                                                                 *)
(***************************************************************************)
EXTENDS Naturals, FiniteSets, Functions, FiniteSetsExt

CONSTANTS
    Writer,    \* the cli.py processes that record this pull request, numbered as they start
    Missing,   \* what pr.json says before it is written; not a writer
    MaxActive  \* bound on the processes that run at one time

ASSUME MissingAssumption == Writer \subseteq Nat /\ Missing \notin Writer

VARIABLES
    stage,      \* where each writer is
    number,     \* the invocation index of each writer, 0 before the scan
    dirs,       \* the writers whose invocation directory exists
    snapped,    \* the writers whose snapshot.json exists
    title,      \* pr.json: the writer whose title it holds
    titleRead,  \* what each writer read of pr.json
    mirror,     \* refs of the scratch clone of each writer: index -> commit
    fresh,      \* repo.bundle.new: at most one table of refs
    bundle,     \* repo.bundle, the refs it carries
    manifest,   \* bundle_revs of manifest.json
    listed,     \* what each writer read of manifest.json
    overlap,    \* history: a writer entered update_bundle while one was in it
    lost,       \* history: a fetch of the prior bundle failed
    retitled    \* history: two writers found pr.json absent

diskVars == <<dirs, snapped, title, fresh, bundle, manifest>>
localVars == <<number, titleRead, mirror, listed>>
noteVars == <<overlap, lost, retitled>>
recVars == <<stage, diskVars, localVars, noteVars>>

Stages == {"idle", "opened", "scanned", "started", "metaRead", "metaWritten", "running",
           "output", "fetched", "built", "swapped", "manifestRead", "done", "stopped"}
InBundle == {"fetched", "built", "swapped", "manifestRead"}
Ended == {"idle", "done", "stopped"}

RecInit ==
    /\ stage = [w \in Writer |-> "idle"]
    /\ number = [w \in Writer |-> 0]
    /\ dirs = {} /\ snapped = {}
    /\ title = Missing /\ titleRead = [w \in Writer |-> Missing]
    /\ mirror = [w \in Writer |-> <<>>]
    /\ fresh = {} /\ bundle = <<>>
    /\ manifest = <<>> /\ listed = [w \in Writer |-> <<>>]
    /\ overlap = FALSE /\ lost = FALSE /\ retitled = FALSE

GoTo(w, here, there) == stage[w] = here /\ stage' = [stage EXCEPT ![w] = there]

\* Mutant: only the revision of this invocation.
StampedAlone(w, table) == [n \in {number[w]} |-> w]

\* A table of refs with the revision of w stamped over it.
Stamped(w, table) ==
    [n \in DOMAIN table \cup {number[w]} |-> IF n = number[w] THEN w ELSE table[n]]

\* cli.py opens the writer.
OpenWriter(w) ==
    /\ GoTo(w, "idle", "opened")
    /\ \A x \in Writer : x < w => stage[x] # "idle"
    /\ Cardinality({x \in Writer : stage[x] \notin Ended}) < MaxActive
    /\ UNCHANGED <<diskVars, localVars, noteVars>>

(* start_invocation lists the directory and takes the next number: one     *)
(* more than the highest and than the count.                               *)
ScanInvocations(w) ==
    /\ GoTo(w, "opened", "scanned")
    /\ number' = [number EXCEPT ![w] = 1 + Max({Cardinality(dirs)} \cup {number[x] : x \in dirs})]
    /\ UNCHANGED <<diskVars, titleRead, mirror, listed, noteVars>>

\* The random tail makes the directory unique whatever its number.
MakeDir(w) ==
    /\ GoTo(w, "scanned", "started")
    /\ dirs' = dirs \cup {w}
    /\ UNCHANGED <<snapped, title, fresh, bundle, manifest, localVars, noteVars>>

\* The first domain tool clones the repository; write_pr_meta reads pr.json.
ReadMeta(w) ==
    /\ GoTo(w, "started", "metaRead")
    /\ titleRead' = [titleRead EXCEPT ![w] = title]
    /\ retitled' = (retitled \/ (title = Missing /\ \E x \in Writer : stage[x] = "metaRead"))
    /\ UNCHANGED <<diskVars, number, mirror, listed, overlap, lost>>

\* The first title wins, and the file is replaced by a rename.
WriteMeta(w) ==
    /\ GoTo(w, "metaRead", "metaWritten")
    /\ title' = IF titleRead[w] = Missing THEN w ELSE titleRead[w]
    /\ titleRead' = [titleRead EXCEPT ![w] = Missing]
    /\ UNCHANGED <<dirs, snapped, fresh, bundle, manifest, number, mirror, listed, noteVars>>

WriteSnapshot(w) ==
    /\ GoTo(w, "metaWritten", "running")
    /\ snapped' = snapped \cup {w}
    /\ UNCHANGED <<dirs, title, fresh, bundle, manifest, localVars, noteVars>>

(* The run is over: output.json, and the bundle unless the repository was  *)
(* never cloned.                                                           *)
WriteOutput(w) ==
    /\ GoTo(w, "running", "output") \/ GoTo(w, "started", "done")
    /\ UNCHANGED <<diskVars, localVars, noteVars>>

(* A mirror of the clone, the refs of the prior bundle and the refs of     *)
(* this revision.  The result of the fetch is not checked.                 *)
FetchPrior(w) ==
    /\ GoTo(w, "output", "fetched")
    /\ \E fetched \in BOOLEAN :
          /\ mirror' = [mirror EXCEPT ![w] = Stamped(w, IF fetched THEN bundle ELSE <<>>)]
          /\ lost' = (lost \/ ~fetched)
    /\ overlap' = (overlap \/ \E x \in Writer : stage[x] \in InBundle)
    /\ UNCHANGED <<diskVars, number, titleRead, listed, retitled>>

\* git bundle create: all writers use the same temporary name.
BuildBundle(w) ==
    /\ GoTo(w, "fetched", "built")
    /\ fresh' = {mirror[w]}
    /\ mirror' = [mirror EXCEPT ![w] = <<>>]
    /\ UNCHANGED <<dirs, snapped, title, bundle, manifest, number, titleRead, listed, noteVars>>

\* os.replace fails when another writer has moved the file away.
SwapBundle(w) ==
    /\ \/ fresh = {} /\ GoTo(w, "built", "stopped") /\ UNCHANGED bundle
       \/ GoTo(w, "built", "swapped") /\ bundle' \in fresh
    /\ fresh' = {}
    /\ UNCHANGED <<dirs, snapped, title, manifest, localVars, noteVars>>

ReadManifest(w) ==
    /\ GoTo(w, "swapped", "manifestRead")
    /\ listed' = [listed EXCEPT ![w] = manifest]
    /\ UNCHANGED <<diskVars, number, titleRead, mirror, noteVars>>

WriteManifest(w) ==
    /\ GoTo(w, "manifestRead", "done")
    /\ manifest' = Stamped(w, listed[w])
    /\ listed' = [listed EXCEPT ![w] = <<>>]
    /\ UNCHANGED <<dirs, snapped, title, fresh, bundle, number, titleRead, mirror, noteVars>>

(* The process is killed, or a write fails: a failed write disables the    *)
(* writer and a failed git command ends update_bundle, so that in every    *)
(* case nothing more is written.                                           *)
StopWriter(w) ==
    /\ stage[w] \notin Ended
    /\ stage' = [stage EXCEPT ![w] = "stopped"]
    /\ titleRead' = [titleRead EXCEPT ![w] = Missing]
    /\ mirror' = [mirror EXCEPT ![w] = <<>>]
    /\ listed' = [listed EXCEPT ![w] = <<>>]
    /\ UNCHANGED <<diskVars, number, noteVars>>

RecNext == \E w \in Writer :
    \/ OpenWriter(w) \/ ScanInvocations(w) \/ MakeDir(w)
    \/ ReadMeta(w) \/ WriteMeta(w) \/ WriteSnapshot(w) \/ WriteOutput(w)
    \/ FetchPrior(w) \/ BuildBundle(w) \/ SwapBundle(w)
    \/ ReadManifest(w) \/ WriteManifest(w) \/ StopWriter(w)

------------------------------------------------------------------------------

RevTable(t) == DOMAIN t \subseteq Nat \ {0} /\ Range(t) \subseteq Writer

\* Type correctness of the files and of what the writers hold of them.
RecTypeOK ==
    /\ stage \in [Writer -> Stages] /\ number \in [Writer -> Nat]
    /\ snapped \subseteq dirs /\ dirs \subseteq Writer
    /\ title \in Writer \cup {Missing} /\ titleRead \in [Writer -> Writer \cup {Missing}]
    /\ \A w \in Writer : RevTable(mirror[w]) /\ RevTable(listed[w])
    /\ Cardinality(fresh) <= 1 /\ (\A t \in fresh : RevTable(t))
    /\ RevTable(bundle) /\ RevTable(manifest)
    /\ {overlap, lost, retitled} \subseteq BOOLEAN

SharedNumber(w) == \E x \in Writer \ {w} : number[x] = number[w]

(* A recording is replayable: the commit that the snapshot of a finished   *)
(* invocation names is in the bundle under the revision of the invocation, *)
(* unless updates of the bundle overlapped, a fetch of the prior bundle    *)
(* failed, or another invocation was given the same number.                *)
SnapshotInBundle ==
    \A w \in snapped : stage[w] = "done" =>
        \/ overlap \/ lost \/ SharedNumber(w)
        \/ number[w] \in DOMAIN bundle /\ bundle[number[w]] = w

(* The manifest names no revision that the bundle lacks, unless updates    *)
(* overlapped or a fetch failed: a writer that stops between the swap and  *)
(* the manifest only leaves a revision unlisted.                           *)
ManifestInBundle == overlap \/ lost \/ DOMAIN manifest \subseteq DOMAIN bundle

(* The title of the pull request as it was first recorded stays, unless    *)
(* two writers both found no pr.json.                                      *)
TitleStands == title # Missing /\ title' # title => retitled

\* What is recorded can be replayed, the bundle has what the manifest lists,
\* and the title stays.
RecordingStands == [][SnapshotInBundle' /\ ManifestInBundle' /\ TitleStands]_recVars
==============================================================================
