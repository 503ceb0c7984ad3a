----------------------------- MODULE MCStores -----------------------------
(***************************************************************************)
(* The stores of one backend, in one run: the outbox, the uploads and      *)
(* their search documents, the recordings, the artifacts and the files of  *)
(* the workspace.  A behaviour is one part; the variables of the other     *)
(* parts keep their initial values.                                        *)
(***************************************************************************)
EXTENDS WorkflowOutbox, DurableFiles, TLC

CONSTANTS m1, m2,        \* interchangeable: processes, workers, chunks, contents
          s1, s2,        \* outbox: scopes
          a, b, q1, q2,  \* uploads: owners and requests
          c3,            \* recordings: a third chunk
          g1,            \* search index: a segment
          fa, ed         \* workspace: a file, a request

VARIABLES
    part,
    acl, run, blob, tombs, act, view, docs, req, hand, del, rec, orphan, stolen, torn, starts,
    deletes, upFaults,
    meeting, seg, store, file, writer, job, cache, answer, dropped, released, ragFaults,
    fs, dirs, index, disk, scan, wants, ghost, edit, runs, changes, scanFaults

upVars == <<acl, run, blob, tombs, act, view, docs, req, hand, del, rec, orphan, stolen, torn, starts,
            deletes, upFaults>>
ragVars == <<meeting, seg, store, file, writer, job, cache, answer, dropped, released, ragFaults>>
scanVars == <<fs, dirs, index, disk, scan, wants, ghost, edit, runs, changes, scanFaults>>
allVars == <<part, vars, upVars, wavVars, artVars, ragVars, scanVars>>

\* Two requests of one owner with the same bytes, one request of each of two owners while another
\* instance starts, and one request with crashes, a deletion and a start.
Twins == INSTANCE UploadOwnership WITH
    Owners <- {a}, Requests <- {q1, q2}, Home <- (q1 :> a @@ q2 :> a),
    MaxRuns <- 2, MaxReconciles <- 0, MaxDeletes <- 1, MaxFaults <- 1, faults <- upFaults
Pairs == INSTANCE UploadOwnership WITH
    Owners <- {a, b}, Requests <- {q1, q2}, Home <- (q1 :> a @@ q2 :> b),
    MaxRuns <- 2, MaxReconciles <- 1, MaxDeletes <- 0, MaxFaults <- 1, faults <- upFaults
Lone == INSTANCE UploadOwnership WITH
    Owners <- {a}, Requests <- {q1}, Home <- (q1 :> a),
    MaxRuns <- 2, MaxReconciles <- 1, MaxDeletes <- 1, MaxFaults <- 2, faults <- upFaults
Rag == INSTANCE RagProjection WITH
    Workers <- {m1, m2}, Segments <- {g1}, MaxIntents <- 2, MaxFaults <- 1,
    row <- meeting, lock <- writer, missed <- released, faults <- ragFaults
Scan == INSTANCE WorkspaceScan WITH
    Files <- {fa}, Contents <- {m1, m2}, Edits <- {ed}, MaxRuns <- 3, MaxChanges <- 2,
    MaxFaults <- 2, job <- scan, faults <- scanFaults

Parts == {"outbox", "twins", "pairs", "lone", "ambient", "artifacts", "rag", "scan"}

\* The variables of a part that does not move.
NoUp == /\ acl = None /\ run = None /\ blob = None /\ tombs = None /\ act = None /\ view = None
        /\ docs = None /\ req = None /\ hand = None /\ del = None /\ rec = None /\ orphan = None
        /\ stolen = None /\ torn = None /\ starts = None /\ deletes = None /\ upFaults = None
NoRag == /\ meeting = None /\ seg = None /\ store = None /\ file = None /\ writer = None /\ job = None
         /\ cache = None /\ answer = None /\ dropped = None /\ released = None /\ ragFaults = None

\* A page is made by processes that have been up for a while, which do not crash.
PageIsMade ==
    /\ lease = [term |-> 0, live |-> FALSE] /\ build = "active" /\ kind = "page"
    /\ maker = [p \in Builders |-> Artifacts!Idle] /\ private = {} /\ marker = 0
    /\ dir = [f \in Artifacts!Artifacts |-> IF f = "old" THEN Artifacts!Old ELSE 0]
    /\ artifact = dir /\ linked = {"old"}
    /\ clear = [at |-> "none", todo |-> {}, ids |-> {}, gone |-> {}, left |-> {}]
    /\ boot = [p \in Builders |-> [Artifacts!Booting EXCEPT !.at = "up"]]
    /\ late = FALSE /\ crashes = MaxCrashes

SuiteInit ==
    /\ part \in Parts
    /\ Init
    /\ CASE part = "twins" -> Twins!Init
         [] part = "pairs" -> Pairs!Init
         [] part = "lone" -> Lone!Init
         [] OTHER -> NoUp
    /\ Ambient!Init
    /\ \/ Artifacts!Init /\ kind = "text"
       \/ part = "artifacts" /\ PageIsMade
    /\ IF part = "rag" THEN Rag!Init ELSE NoRag
    /\ Scan!Init
    /\ part # "scan" => fs = [f \in {fa} |-> None]

SuiteNext ==
    \/ /\ part = "outbox" /\ Next
       /\ UNCHANGED <<part, upVars, wavVars, artVars, ragVars, scanVars>>
    \/ /\ part = "twins" /\ Twins!Next
       /\ UNCHANGED <<part, vars, wavVars, artVars, ragVars, scanVars>>
    \/ /\ part = "pairs" /\ Pairs!Next
       /\ UNCHANGED <<part, vars, wavVars, artVars, ragVars, scanVars>>
    \/ /\ part = "lone" /\ Lone!Next
       /\ UNCHANGED <<part, vars, wavVars, artVars, ragVars, scanVars>>
    \/ /\ part = "ambient" /\ Ambient!Next
       /\ UNCHANGED <<part, vars, upVars, artVars, ragVars, scanVars>>
    \/ /\ part = "artifacts" /\ Artifacts!Next
       /\ UNCHANGED <<part, vars, upVars, wavVars, ragVars, scanVars>>
    \/ /\ part = "rag" /\ Rag!Next
       /\ UNCHANGED <<part, vars, upVars, wavVars, artVars, scanVars>>
    \/ /\ part = "scan" /\ Scan!Next
       /\ UNCHANGED <<part, vars, upVars, wavVars, artVars, ragVars>>

SuiteSpec == SuiteInit /\ [][SuiteNext]_allVars

\* Within a part the values m1 and m2 mean the same kind of thing; no part tells them apart.
Symmetry == Permutations({m1, m2})

-----------------------------------------------------------------------------
(* Properties. *)

\* Every part keeps its types.
SuiteTypeOK ==
    CASE part = "outbox" -> TypeOK
      [] part = "twins" -> Twins!TypeOK
      [] part = "pairs" -> Pairs!TypeOK
      [] part = "lone" -> Lone!TypeOK
      [] part = "ambient" -> Ambient!TypeOK
      [] part = "artifacts" -> Artifacts!TypeOK
      [] part = "rag" -> Rag!TypeOK
      [] part = "scan" -> Scan!TypeOK

\* Bytes and owners of an upload agree although uploads of the same bytes, deletions, crashes and
\* the reconciliation of a starting instance interleave: no owner's row is left without its bytes,
\* no reconciliation leaves bytes without owner or takes a row in use, and an indexed document has
\* its owner's row (UploadOwnership).
UploadsAreOwned ==
    /\ part = "twins" => /\ Twins!BytesNotLost /\ Twins!NoUnownedBlob
                         /\ Twins!NothingStolen /\ Twins!IndexedIsOwned
    /\ part = "pairs" => /\ Pairs!BytesNotLost /\ Pairs!NoUnownedBlob
                         /\ Pairs!NothingStolen /\ Pairs!IndexedIsOwned
    /\ part = "lone" => /\ Lone!BytesNotLost /\ Lone!NoUnownedBlob
                        /\ Lone!NothingStolen /\ Lone!IndexedIsOwned

\* The search index follows the database although several processes project, repair and read
\* it: a query shows the current minutes, a row that says "indexed" is, no segment is indexed
\* twice unless the lookup of its old copy failed, no process keeps an old snapshot and released
\* uploads are forgotten (RagProjection).
IndexIsFaithful ==
    part = "rag" => /\ Rag!QueryShowsCurrent /\ Rag!RowTellsTruth /\ Rag!SegmentOnce
                    /\ Rag!CacheIsCurrent /\ Rag!ReleasedIsForgotten

\* A scan without failures leaves the index with the files of the directories, documents of files
\* that could not be seen are kept, and nothing is deleted that was not recorded as to be
\* deleted first (WorkspaceScan).
ScanIsExact ==
    [](part = "scan" => Scan!CleanRunIsExact /\ Scan!HiddenIsKept) /\ Scan!DeleteHasIntent

=============================================================================
