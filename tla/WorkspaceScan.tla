---------------------------- MODULE WorkspaceScan ----------------------------
(***************************************************************************)
(* The scanner of the authorised workspace directories                     *)
(* (adapters/rag/workspace_scanner.py) and the requests that start it      *)
(* (api/workspace.py).                                                     *)
(*                                                                         *)
(* A scan compares three things that nothing keeps consistent: the files   *)
(* on disk, which the user changes at any time; the search index, the      *)
(* authority on what is indexed; and the scanner's own state file, which   *)
(* remembers for each file the document made of it and, for documents that *)
(* have to go, a cleanup intent.  Every delete and every write of the      *)
(* state file may fail, the process may stop anywhere, and a run that is   *)
(* cancelled leaves its index thread running.                              *)
(*                                                                         *)
(* A document's id is a hash of path and bytes, so <<file, content>> names *)
(* it, and the same bytes give the same id again.  The index refuses two   *)
(* documents of one path.                                                  *)
(***************************************************************************)
EXTENDS Naturals, FiniteSets

CONSTANTS Files,      \* each file is the one file of a directory of its own
          Contents, None,
          Edits,      \* add-dir and remove-dir requests
          MaxRuns, MaxChanges, MaxFaults   \* bounds

VARIABLES
  fs,       \* file -> its bytes, or None
  dirs,     \* settings.workspace_dirs
  index,    \* documents of the search index
  disk,     \* the state file: [files, pend]
  job,      \* the scan or clear that holds the scanner's lock
  wants,    \* runs asked for and not finished
  ghost,    \* index threads whose run was cancelled
  edit,     \* add-dir and remove-dir requests
  runs, changes, faults

vars == <<fs, dirs, index, disk, job, wants, ghost, edit, runs, changes, faults>>

Docs == Files \X Contents
Reasons == {"orphan", "replaced", "missing", "clear"}

\* A cleanup intent names a document and why it has to go.
Intent(d, why) == [doc |-> d, why |-> why]
Pending(st) == {p.doc : p \in st.pend}

\* _queue_cleanup: a document that has an intent keeps it.
Queued(st, docs, why) == st.pend \cup {Intent(d, why) : d \in docs \ Pending(st)}

\* _FileState: the document and the digest it was made of (None: unproved).
Cursor(c, digest) == [doc |-> c, digest |-> digest]
NoCursor == [doc |-> None, digest |-> None]
Tracked(st) == {<<f, st.files[f].doc>> : f \in {g \in Files : st.files[g] # NoCursor}}

EmptyState == [files |-> [f \in Files |-> NoCursor], pend |-> {}]

Resting == [op |-> "none", at |-> "idle", mem |-> EmptyState, listed |-> {},
          broken |-> FALSE, cleaned |-> {}, failed |-> {}, todo |-> {},
          file |-> None, bytes |-> None, kept |-> {}, clean |-> FALSE, doomed |-> {}]

NoEdit == [at |-> "idle", add |-> FALSE, file |-> None, base |-> {}]

Init ==
  /\ fs \in [Files -> Contents \cup {None}]
  /\ dirs = Files
  /\ index = {} /\ disk = EmptyState
  /\ job = Resting /\ wants = {} /\ ghost = {}
  /\ edit = [e \in Edits |-> NoEdit]
  /\ runs = 0 /\ changes = 0 /\ faults = 0

Fault == faults < MaxFaults /\ faults' = faults + 1

\* _save_workspace_state: the rename may have happened when it fails.
Save(mem) == disk' = mem /\ UNCHANGED faults
SaveFails(mem) == Fault /\ disk' \in {disk, mem}

\* rag.delete: deleting what is not there succeeds; an error may follow the
\* commit.
Delete(d) == index' = index \ {d} /\ UNCHANGED faults
DeleteFails(d) == Fault /\ index' \in {index, index \ {d}}

Expected == {<<f, fs[f]>> : f \in {g \in dirs : fs[g] # None}}

-----------------------------------------------------------------------------
(* Requests: a run that is active is joined (active_key).                  *)

Ask(op) ==
  /\ op \notin wants /\ runs < MaxRuns
  /\ wants' = wants \cup {op} /\ runs' = runs + 1
  /\ UNCHANGED <<fs, dirs, index, disk, job, ghost, edit, changes, faults>>

\* workspace_add_dir, workspace_remove_dir: the new list is computed here ...
ReadDirs(e, f, add) ==
  /\ edit[e].at = "idle" /\ runs < MaxRuns
  /\ f \in dirs <=> ~add
  /\ edit' = [edit EXCEPT ![e] = [at |-> "read", add |-> add, file |-> f, base |-> dirs]]
  /\ UNCHANGED <<fs, dirs, index, disk, job, wants, ghost, runs, changes, faults>>

NewDirs(e) == IF edit[e].add THEN edit[e].base \cup {edit[e].file}
                             ELSE edit[e].base \ {edit[e].file}

\* ... and written by config_handler, which then asks for a scan.
WriteDirs(e) ==
  /\ edit[e].at = "read"
  /\ dirs' = NewDirs(e)
  /\ wants' = wants \cup {"scan"}
  /\ runs' = IF "scan" \in wants \/ runs = MaxRuns THEN runs ELSE runs + 1
  /\ edit' = [edit EXCEPT ![e] = NoEdit]
  /\ job' = [job EXCEPT !.clean = FALSE]
  /\ UNCHANGED <<fs, index, disk, ghost, changes, faults>>

\* The user writes or removes a file.
Change(f, c) ==
  /\ changes < MaxChanges /\ c # fs[f]
  /\ changes' = changes + 1
  /\ fs' = [fs EXCEPT ![f] = c]
  /\ job' = [job EXCEPT !.clean = FALSE]
  /\ UNCHANGED <<dirs, index, disk, wants, ghost, edit, runs, faults>>

-----------------------------------------------------------------------------
(* _scan_impl.                                                             *)

\* A scan that gives up returns what it counted.
GiveUp == job' = [job EXCEPT !.at = "done", !.clean = FALSE]

\* _load_workspace_state.
Loaded == disk

\* _iter_files.  A file the walk trips over, or a
\* root that is no directory any more, leaves the listing broken.
Begin ==
  /\ job.at = "idle" /\ "scan" \in wants
  /\ \/ /\ UNCHANGED faults
        /\ job' = [Resting EXCEPT !.op = "scan", !.at = "list", !.mem = Loaded, !.clean = TRUE,
                     !.doomed = Tracked(Loaded) \cap
                                {p.doc : p \in {x \in Loaded.pend : x.why # "replaced"}},
                     !.listed = {f \in dirs : fs[f] # None}]
     \/ /\ Fault
        /\ \E seen \in SUBSET {f \in dirs : fs[f] # None} :
             job' = [Resting EXCEPT !.op = "scan", !.at = "list", !.mem = Loaded,
                       !.broken = TRUE, !.listed = seen]
     \/ /\ Fault
        /\ job' = [Resting EXCEPT !.op = "scan", !.at = "done"]
  /\ UNCHANGED <<fs, dirs, index, disk, wants, ghost, edit, runs, changes>>

\* Mutant of List: a cursor is trusted although its document is gone.
TrustsCursor ==
  /\ job.at = "list" /\ job.op = "scan"
  /\ LET old == job.mem
         orphans == index \ (Tracked(old) \cup Pending(old))
         mem == [old EXCEPT !.pend = Queued(old, orphans, "orphan")]
         next == [job EXCEPT !.at = "retry", !.mem = mem, !.todo = Pending(mem)]
     IN  \/ orphans = {} /\ job' = next /\ UNCHANGED <<disk, faults>>
         \/ orphans # {} /\ Save(mem) /\ job' = next
         \/ orphans # {} /\ SaveFails(mem) /\ GiveUp
         \/ Fault /\ UNCHANGED disk /\ GiveUp
  /\ UNCHANGED <<fs, dirs, index, wants, ghost, edit, runs, changes>>

\* Reconciliation with rag.list_docs: a cursor whose document is gone proves
\* nothing, a document without cursor becomes a durable intent.
List ==
  /\ job.at = "list" /\ job.op = "scan"
  /\ LET old == job.mem
         orphans == index \ (Tracked(old) \cup Pending(old))
         mem == [files |-> [f \in Files |->
                    IF old.files[f] # NoCursor /\ <<f, old.files[f].doc>> \notin index
                    THEN [old.files[f] EXCEPT !.digest = None] ELSE old.files[f]],
                 pend |-> Queued(old, orphans, "orphan")]
         next == [job EXCEPT !.at = "retry", !.mem = mem, !.todo = Pending(mem),
                    !.kept = {d \in Tracked(old) \cap index :
                                d \notin Pending(old) /\ d[1] \notin job.listed}]
     IN  \/ orphans = {} /\ job' = next /\ UNCHANGED <<disk, faults>>
         \/ orphans # {} /\ Save(mem) /\ job' = next
         \/ orphans # {} /\ SaveFails(mem) /\ GiveUp
         \/ Fault /\ UNCHANGED disk /\ GiveUp
  /\ UNCHANGED <<fs, dirs, index, wants, ghost, edit, runs, changes>>

\* _attempt_cleanup for every intent the state file had.
Retry(d) ==
  /\ job.at = "retry" /\ d \in job.todo
  /\ LET replaced == Intent(d, "replaced") \in job.mem.pend
     IN  \/ /\ Delete(d)
            /\ job' = [job EXCEPT !.todo = @ \ {d},
                         !.mem.pend = {p \in @ : p.doc # d},
                         !.cleaned = IF replaced THEN @ \cup {d} ELSE @]
         \/ /\ DeleteFails(d)
            /\ job' = [job EXCEPT !.todo = @ \ {d}, !.clean = FALSE,
                         !.failed = IF replaced THEN @ \cup {d} ELSE @]
  /\ UNCHANGED <<fs, dirs, disk, wants, ghost, edit, runs, changes>>

\* Mutant of Missing: a broken listing counts as proof.
MissingAnyway == {f \in Files : job.mem.files[f] # NoCursor /\ f \notin job.listed}

\* Files that are gone: their cursors become intents, durable before a delete.
\* A broken listing proves no absence.
Missing == IF job.broken THEN {}
           ELSE {f \in Files : job.mem.files[f] # NoCursor /\ f \notin job.listed}

\* Mutant of FindGone: the deletes go ahead although the save failed.
DeletesAnyway ==
  /\ job.at = "retry" /\ job.todo = {}
  /\ LET docs == {<<f, job.mem.files[f].doc>> : f \in Missing}
         mem == [files |-> [f \in Files |-> IF f \in Missing THEN NoCursor ELSE job.mem.files[f]],
                 pend |-> Queued(job.mem, docs, "missing")]
     IN  /\ Save(mem) \/ SaveFails(mem)
         /\ job' = [job EXCEPT !.at = "gone", !.mem = mem, !.todo = docs]
  /\ UNCHANGED <<fs, dirs, index, wants, ghost, edit, runs, changes>>

FindGone ==
  /\ job.at = "retry" /\ job.todo = {}
  /\ LET docs == {<<f, job.mem.files[f].doc>> : f \in Missing}
         mem == [files |-> [f \in Files |-> IF f \in Missing THEN NoCursor ELSE job.mem.files[f]],
                 pend |-> Queued(job.mem, docs, "missing")]
     IN  \/ /\ docs = {} /\ job' = [job EXCEPT !.at = "gone"]
            /\ UNCHANGED <<disk, faults>>
         \/ /\ docs # {} /\ Save(mem)
            /\ job' = [job EXCEPT !.at = "gone", !.mem = mem, !.todo = docs]
         \/ /\ docs # {} /\ SaveFails(mem)
            /\ job' = [job EXCEPT !.at = "gone", !.mem = mem, !.clean = FALSE]
  /\ UNCHANGED <<fs, dirs, index, wants, ghost, edit, runs, changes>>

RemoveGone(d) ==
  /\ job.at = "gone" /\ d \in job.todo
  /\ \/ /\ Delete(d)
        /\ job' = [job EXCEPT !.todo = @ \ {d}, !.mem.pend = {p \in @ : p.doc # d}]
     \/ /\ DeleteFails(d)
        /\ job' = [job EXCEPT !.todo = @ \ {d}, !.clean = FALSE]
  /\ UNCHANGED <<fs, dirs, disk, wants, ghost, edit, runs, changes>>

ToFiles ==
  /\ job.at = "gone" /\ job.todo = {}
  /\ job' = [job EXCEPT !.at = "files", !.todo = job.listed]
  /\ UNCHANGED <<fs, dirs, index, disk, wants, ghost, edit, runs, changes, faults>>

Prev(f) == job.mem.files[f]
PrevDoc(f) == <<f, Prev(f).doc>>
HasPrev(f) == Prev(f) # NoCursor
Blocked == {p.doc[1] : p \in {x \in job.mem.pend : x.why # "replaced"}}

Skip(f) == job' = [job EXCEPT !.at = "files", !.todo = @ \ {f}, !.file = None, !.bytes = None]
SkipFailed(f) == job' = [job EXCEPT !.at = "files", !.todo = @ \ {f}, !.file = None,
                                    !.bytes = None, !.clean = FALSE]

\* Mutant of Look: a file whose old document must go first is waited for.
WaitsForCleanup(f) ==
  /\ job.at = "files" /\ f \in job.todo
  /\ HasPrev(f) \/ f \notin Blocked
  /\ \/ /\ fs[f] = None /\ SkipFailed(f) /\ UNCHANGED faults
     \/ /\ fs[f] # None /\ UNCHANGED faults
        /\ IF \/ HasPrev(f) /\ PrevDoc(f) \in job.failed
              \/ HasPrev(f) /\ PrevDoc(f) \notin job.cleaned /\ Prev(f).digest = fs[f]
           THEN Skip(f)
           ELSE job' = [job EXCEPT !.at = "snapshot", !.file = f]
  /\ UNCHANGED <<fs, dirs, index, disk, wants, ghost, edit, runs, changes>>

\* The start of the loop over the listed files, up to _secure_digest.
Look(f) ==
  /\ job.at = "files" /\ f \in job.todo
  /\ \/ /\ fs[f] = None /\ SkipFailed(f) /\ UNCHANGED faults
     \/ /\ fs[f] # None /\ UNCHANGED faults
        /\ IF \/ ~HasPrev(f) /\ f \in Blocked
              \/ HasPrev(f) /\ PrevDoc(f) \in job.failed
              \/ HasPrev(f) /\ PrevDoc(f) \notin job.cleaned /\ Prev(f).digest = fs[f]
           THEN Skip(f)
           ELSE job' = [job EXCEPT !.at = "snapshot", !.file = f]
     \/ Fault /\ SkipFailed(f)
  /\ UNCHANGED <<fs, dirs, index, disk, wants, ghost, edit, runs, changes>>

\* _snapshot_for_ingest copies the bytes as they are now.
Snapped(f) == fs[f]

\* A changed file's old document becomes a durable intent before it is deleted.
Snapshot ==
  /\ job.at = "snapshot"
  /\ LET f == job.file
         c == Snapped(f)
         mem == [job.mem EXCEPT !.pend = Queued(job.mem, {PrevDoc(f)}, "replaced")]
         old == HasPrev(f) /\ PrevDoc(f) \notin job.cleaned
     IN  \/ /\ c = None /\ SkipFailed(f) /\ UNCHANGED <<disk, faults>>
         \/ /\ c # None /\ old /\ Prev(f).digest = c /\ Skip(f) /\ UNCHANGED <<disk, faults>>
         \/ /\ c # None /\ old /\ Prev(f).digest # c
            /\ \/ /\ Save(mem)
                  /\ job' = [job EXCEPT !.at = "replace", !.bytes = c, !.mem = mem]
               \/ /\ SaveFails(mem)
                  /\ job' = [job EXCEPT !.at = "files", !.todo = @ \ {f}, !.file = None,
                                        !.mem = mem, !.clean = FALSE]
         \/ /\ c # None /\ ~old
            /\ job' = [job EXCEPT !.at = "ingest", !.bytes = c,
                         !.mem.files[f] = IF HasPrev(f) THEN Cursor(@.doc, None) ELSE @]
            /\ UNCHANGED <<disk, faults>>
         \/ /\ Fault /\ SkipFailed(f) /\ UNCHANGED disk
  /\ UNCHANGED <<fs, dirs, index, wants, ghost, edit, runs, changes>>

Replace ==
  /\ job.at = "replace"
  /\ LET f == job.file
         d == PrevDoc(f)
     IN  \/ /\ Delete(d)
            /\ job' = [job EXCEPT !.at = "ingest", !.mem.pend = {p \in @ : p.doc # d},
                                  !.mem.files[f] = Cursor(@.doc, None)]
         \/ /\ DeleteFails(d) /\ SkipFailed(f)
  /\ UNCHANGED <<fs, dirs, disk, wants, ghost, edit, runs, changes>>

\* rag.ingest_file: the index accepts one document of a path.
Accepts(d) == \A x \in index : x[1] = d[1] => x = d

Ingest ==
  /\ job.at = "ingest"
  /\ LET f == job.file
         d == <<f, job.bytes>>
     IN  \/ /\ Accepts(d)
            /\ index' = index \cup {d}
            /\ job' = [job EXCEPT !.at = "files", !.todo = @ \ {f}, !.file = None,
                         !.bytes = None, !.mem.files[f] = Cursor(d[2], d[2])]
            /\ UNCHANGED faults
         \/ /\ ~Accepts(d) /\ SkipFailed(f) /\ UNCHANGED <<index, faults>>
         \/ /\ Fault /\ SkipFailed(f)
            /\ index' \in {index, IF Accepts(d) THEN index \cup {d} ELSE index}
  /\ UNCHANGED <<fs, dirs, disk, wants, ghost, edit, runs, changes>>

\* The last save of a scan and of a clear.
LastSave ==
  /\ \/ job.at = "files" /\ job.todo = {}
     \/ job.at = "clear" /\ job.todo = {}
  /\ \/ Save(job.mem) /\ job' = [job EXCEPT !.at = "done"]
     \/ SaveFails(job.mem) /\ GiveUp
  /\ UNCHANGED <<fs, dirs, index, wants, ghost, edit, runs, changes>>

-----------------------------------------------------------------------------
(* clear.                                                                  *)

BeginClear ==
  /\ job.at = "idle" /\ "clear" \in wants
  /\ \/ /\ UNCHANGED faults
        /\ job' = [Resting EXCEPT !.op = "clear", !.at = "list", !.mem = Loaded, !.clean = TRUE]
     \/ /\ Fault
        /\ job' = [Resting EXCEPT !.op = "clear", !.at = "done"]
  /\ UNCHANGED <<fs, dirs, index, disk, wants, ghost, edit, runs, changes>>

\* Everything the index or the cursors know becomes an intent, durably.
ListForClear ==
  /\ job.at = "list" /\ job.op = "clear"
  /\ LET mem == [files |-> EmptyState.files,
                 pend |-> Queued(job.mem, index \cup Tracked(job.mem), "clear")]
     IN  \/ /\ Save(mem)
            /\ job' = [job EXCEPT !.at = "clear", !.mem = mem, !.todo = Pending(mem)]
         \/ SaveFails(mem) /\ GiveUp
  /\ UNCHANGED <<fs, dirs, index, wants, ghost, edit, runs, changes>>

ClearOne(d) ==
  /\ job.at = "clear" /\ d \in job.todo
  /\ \/ /\ Delete(d)
        /\ job' = [job EXCEPT !.todo = @ \ {d}, !.mem.pend = {p \in @ : p.doc # d}]
     \/ /\ DeleteFails(d)
        /\ job' = [job EXCEPT !.todo = @ \ {d}, !.clean = FALSE]
  /\ UNCHANGED <<fs, dirs, disk, wants, ghost, edit, runs, changes>>

\* The lock is released and the run is over.
Done ==
  /\ job.at = "done"
  /\ wants' = wants \ {job.op}
  /\ job' = Resting
  /\ UNCHANGED <<fs, dirs, index, disk, ghost, edit, runs, changes, faults>>

-----------------------------------------------------------------------------
(* Faults.                                                                 *)

\* The index call the job is waiting for.
Waiting ==
  CASE job.at \in {"retry", "gone", "clear"} -> {[op |-> "delete", doc |-> d] : d \in job.todo}
    [] job.at = "replace" -> {[op |-> "delete", doc |-> PrevDoc(job.file)]}
    [] job.at = "ingest" -> {[op |-> "ingest", doc |-> <<job.file, job.bytes>>]}
    [] OTHER -> {}

\* The run times out: its task is cancelled and the lock released, but a call
\* of the index goes on in its thread.  State writes are waited for.
Cancel ==
  /\ job.at \notin {"idle", "done"} /\ Fault
  /\ ghost' \in {ghost} \cup {ghost \cup {g} : g \in Waiting}
  /\ wants' = wants \ {job.op}
  /\ job' = Resting
  /\ UNCHANGED <<fs, dirs, index, disk, edit, runs, changes>>

GhostActs(g) ==
  /\ g \in ghost
  /\ ghost' = ghost \ {g}
  /\ index' = CASE g.op = "delete" -> index \ {g.doc}
                [] g.op = "ingest" -> IF Accepts(g.doc) THEN index \cup {g.doc} ELSE index
  /\ job' = [job EXCEPT !.clean = FALSE, !.kept = @ \ {g.doc}]
  /\ UNCHANGED <<fs, dirs, disk, wants, edit, runs, changes, faults>>

\* The process stops; the state file, the index and the configuration stay.
Crash ==
  /\ Fault
  /\ job' = Resting /\ wants' = {} /\ ghost' = {}
  /\ edit' = [e \in Edits |-> NoEdit]
  /\ UNCHANGED <<fs, dirs, index, disk, runs, changes>>

-----------------------------------------------------------------------------
ScanStep ==
  \/ List \/ FindGone \/ ToFiles \/ Snapshot \/ Replace \/ Ingest \/ LastSave
  \/ \E d \in Docs : Retry(d) \/ RemoveGone(d) \/ ClearOne(d)
  \/ \E f \in Files : Look(f)
  \/ ListForClear \/ Done

Next ==
  \/ \E op \in {"scan", "clear"} : Ask(op)
  \/ \E e \in Edits, f \in Files, add \in BOOLEAN : ReadDirs(e, f, add)
  \/ \E e \in Edits : WriteDirs(e)
  \/ \E f \in Files, c \in Contents \cup {None} : Change(f, c)
  \/ Begin \/ BeginClear \/ ScanStep
  \/ Cancel \/ Crash
  \/ \E g \in ghost : GhostActs(g)

Spec == Init /\ [][Next]_vars

\* The dispatcher starts what was asked for, and a job runs on.
FairSpec == /\ Spec
            /\ WF_vars(Begin) /\ WF_vars(BeginClear) /\ WF_vars(ScanStep)

-----------------------------------------------------------------------------
(* Properties.                                                             *)

StateFiles == [files : [Files -> [doc : Contents \cup {None}, digest : Contents \cup {None}]],
               pend : SUBSET [doc : Docs, why : Reasons]]

\* Every variable keeps its type.
TypeOK ==
  /\ fs \in [Files -> Contents \cup {None}] /\ dirs \subseteq Files
  /\ index \subseteq Docs
  /\ disk \in StateFiles /\ job.mem \in StateFiles
  /\ job.todo \subseteq Docs \cup Files
  /\ wants \subseteq {"scan", "clear"}
  /\ faults \in 0..MaxFaults

\* A run in which nothing failed (clear() swallows the deletes that do,
\* workspace_scanner.py:791-795), with nobody changing files or directories
\* meanwhile, leaves the index exactly right, whatever crashes, failed deletes,
\* lost state writes and late index threads came before: a scan leaves one
\* document of the present bytes of each file and no other, a clear leaves
\* none.  The exception is a file whose document the state file names both as
\* current and as to be removed (see the README).
CleanRunIsExact ==
  (job.at = "done" /\ job.clean /\ ghost = {}) =>
    IF job.op = "clear" THEN index = {}
    ELSE index \subseteq Expected /\ Expected \ index \subseteq job.doomed

\* No document leaves the index by the scanner's hand before the state file on
\* disk says that it has to go: a crash right after a delete, or a delete whose
\* answer is lost, always leaves the handle to finish the work.
DeleteHasIntent ==
  [][\A d \in index \ index' : d \in Pending(disk) \/ \E g \in ghost : g.doc = d]_vars

\* A scan whose walk failed somewhere keeps the documents of the files it could
\* not see.
HiddenIsKept == job.broken /\ job.op = "scan" => job.kept \subseteq index

\* Every run that was asked for ends.
RunEnds == []<>(wants = {})

=============================================================================
