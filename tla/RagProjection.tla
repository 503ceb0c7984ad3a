--------------------------- MODULE RagProjection ---------------------------
(***************************************************************************)
(* The search index as a projection of the database.  The rows of one      *)
(* meeting and of ambient segments say what should be indexed              *)
(* (adapters/repo/sqlite.py); workers bring the index there and record it  *)
(* (use_cases/meeting_pipeline.py); the index keeps documents in SQLite    *)
(* with a JSON cache file and a manifest row for each                      *)
(* (adapters/rag/index_store.py), and a snapshot in each process           *)
(* (adapters/rag/bm25.py).                                                 *)
(***************************************************************************)
EXTENDS Naturals, Sequences, FiniteSets, SequencesExt

CONSTANTS
    Workers,    \* requests and repair loops, each in a process of its own
    Segments,   \* ambient segments
    None,
    MaxIntents, \* bound: commits of minutes, segments and releases that ask for a projection
    MaxFaults   \* bound: failures and crashes

VARIABLES
    row,     \* the meeting: generation, rag_projection_state, generation of the minutes (0: none)
    seg,     \* rag_projection_state of each ambient segment, "none" before it exists
    store,   \* bm25_index_documents, their manifest rows, the fence and the revision
    file,    \* the JSON cache file of each document
    lock,    \* the worker inside BEGIN IMMEDIATE
    job,     \* what each worker is doing
    cache,   \* the snapshot each process keeps
    answer,  \* what the last query returned, with the minutes at that moment
    dropped, \* the upload's projection: "no", "manifest" (row deleted) or "done" (file unlinked)
    missed,  \* history: "upload" when a snapshot fell between these two, a segment whose lookup failed
    faults

vars == <<row, seg, store, file, lock, job, cache, answer, dropped, missed, faults>>

Docs == {"meeting", "ambient", "upload"}
Absent == <<>>
Idle == [what |-> "idle", gen |-> 0, seg |-> None, at |-> "idle", found |-> Absent]
NoCache == [rev |-> None, docs |-> [d \in Docs |-> Absent]]

\* A chunk of the ambient document; those written before migration 038 have no operation id.
Chunk(s, op) == [seg |-> s, op |-> op]

\* Segments may stem from before the projection states, indexed or not (reconcile_pending).
Init ==
    /\ row = [gen |-> 0, state |-> "none", minutes |-> 0]
    /\ \E old \in SUBSET Segments : \E indexed \in SUBSET old :
        /\ seg = [s \in Segments |-> IF s \in old THEN "reconcile_pending" ELSE "none"]
        /\ LET docs == [d \in Docs |-> CASE d = "meeting" -> Absent [] d = "upload" -> <<1>>
                          [] OTHER -> SetToSeq({Chunk(s, FALSE) : s \in indexed})]
           IN /\ store = [docs |-> docs, manifest |-> {d \in Docs : docs[d] # Absent},
                          fence |-> [gen |-> 0, op |-> "none"], rev |-> 1]
              /\ file = docs
    /\ lock = None
    /\ job = [w \in Workers |-> Idle] /\ cache = [w \in Workers |-> NoCache]
    /\ answer = [got |-> 0, minutes |-> 0]
    /\ dropped = "no" /\ missed = {} /\ faults = 0

At(w, place) == job[w].at = place
GoesTo(w, place) == job' = [job EXCEPT ![w].at = place]
Room == row.gen + Cardinality({s \in Segments : seg[s] # "none"}) + (IF dropped = "no" THEN 0 ELSE 1) < MaxIntents
Fault == faults < MaxFaults /\ faults' = faults + 1
Starts(w, what, gen, s, at) ==
    /\ At(w, "idle")
    /\ job' = [job EXCEPT ![w] = [Idle EXCEPT !.what = what, !.gen = gen, !.seg = s, !.at = at]]

----------------------------------------------------------------------------
\* Intent.  Minutes are committed (update_meeting_state, write_success): the same worker goes on
\* with after_finalize_committed().
CommitMinutes(w) ==
    /\ Room
    /\ row' = [gen |-> row.gen + 1, state |-> "index_pending", minutes |-> row.gen + 1]
    /\ Starts(w, "index", row.gen + 1, None, "mutate")
    /\ UNCHANGED <<seg, store, file, lock, cache, answer, dropped, missed, faults>>

\* Minutes are cleared (clear_meeting_outputs): the worker goes on with
\* delete_meeting_projection().
ClearMinutes(w) ==
    /\ Room
    /\ row' = [gen |-> row.gen + 1, state |-> "delete_pending", minutes |-> 0]
    /\ Starts(w, "delete", row.gen + 1, None, "check")
    /\ UNCHANGED <<seg, store, file, lock, cache, answer, dropped, missed, faults>>

\* delete_meeting_projection() first looks whether its intent still stands.
CheckIntent(w) ==
    /\ At(w, "check")
    /\ GoesTo(w, IF row.gen = job[w].gen /\ row.state \in {"delete_pending", "delete_failed"}
                 THEN "mutate" ELSE "idle")
    /\ UNCHANGED <<row, seg, store, file, lock, cache, answer, dropped, missed, faults>>

\* append_ambient_segment(), then ingest_ambient_segment() by the same request.
StoreSegment(w, s) ==
    /\ seg[s] = "none" /\ Room
    /\ seg' = [seg EXCEPT ![s] = "index_pending"]
    /\ Starts(w, "ambient", 0, s, "mutate")
    /\ UNCHANGED <<row, store, file, lock, cache, answer, dropped, missed, faults>>

\* Variant: a deletion that failed is not listed.
NeedsProjectionNotDeleted == row.state \in {"index_pending", "index_failed", "delete_pending"}

\* list_meetings_needing_rag_projection(), once the retry time has come.
NeedsProjection == row.state \in {"index_pending", "index_failed", "delete_pending", "delete_failed"}

\* repair_rag_projections(): a meeting that is due, with the generation of its row.
RepairMeeting(w) ==
    /\ NeedsProjection
    /\ Starts(w, IF row.state \in {"delete_pending", "delete_failed"} THEN "delete" ELSE "index",
              row.gen, None, "mutate")
    /\ UNCHANGED <<row, seg, store, file, lock, cache, answer, dropped, missed, faults>>

\* A segment from before the states is looked up first.
RepairPlace(s) == IF seg[s] = "reconcile_pending" THEN "lookup" ELSE "mutate"

RepairSegment(w, s) ==
    /\ seg[s] \in {"reconcile_pending", "index_pending", "index_failed"}
    /\ Starts(w, "ambient", 0, s, RepairPlace(s))
    /\ UNCHANGED <<row, seg, store, file, lock, cache, answer, dropped, missed, faults>>

----------------------------------------------------------------------------
\* BM25IndexStore.snapshot(), one transaction.  A document without file and manifest was
\* deleted by somebody else and goes; for the others the file is written again and the manifest
\* row restored; files of documents that are not there are removed.  Variant DeletedNever: missing files are just written again.
DeletedNever == {}
Deleted == {d \in Docs : store.docs[d] # Absent /\ file[d] = Absent /\ d \notin store.manifest}
Kept == [d \in Docs |-> IF d \in Deleted THEN Absent ELSE store.docs[d]]
SnapshotRev == IF Deleted = {} THEN store.rev ELSE store.rev + 1
TakeSnapshot ==
    /\ lock = None
    /\ store' = [store EXCEPT !.docs = Kept, !.rev = SnapshotRev,
                              !.manifest = {d \in Docs : Kept[d] # Absent}]
    /\ file' = Kept
    /\ missed' = IF dropped = "manifest" /\ Kept["upload"] # Absent THEN missed \cup {"upload"} ELSE missed

\* _snapshot_for_scope(): the snapshot of the process is used while its revision is the current
\* one.
Fresh(w) == cache[w].rev = store.rev
Snapshots(w) ==
    IF Fresh(w) THEN UNCHANGED <<store, file, missed, cache>>
    ELSE TakeSnapshot /\ cache' = [cache EXCEPT ![w] = [rev |-> SnapshotRev, docs |-> Kept]]

\* _load_index(force=True) after a mutation.
Load(w) ==
    /\ At(w, "load")
    /\ TakeSnapshot
    /\ cache' = [cache EXCEPT ![w] = [rev |-> SnapshotRev, docs |-> Kept]]
    /\ GoesTo(w, "report")
    /\ UNCHANGED <<row, seg, lock, answer, dropped, faults>>

\* contains_ambient_segment().
Lookup(w) ==
    /\ At(w, "lookup")
    /\ Snapshots(w)
    /\ LET docs == IF Fresh(w) THEN cache[w].docs ELSE Kept
       IN GoesTo(w, IF \E i \in DOMAIN docs["ambient"] : docs["ambient"][i].seg = job[w].seg
                    THEN "report" ELSE "mutate")
    /\ UNCHANGED <<row, seg, lock, answer, dropped, faults>>

\* The lookup fails: the segment becomes "index_failed", and no later repair looks it up.
LookupFails(w) ==
    /\ At(w, "lookup") /\ Fault
    /\ GoesTo(w, "failed")
    /\ missed' = missed \cup {job[w].seg}
    /\ UNCHANGED <<row, seg, store, file, lock, cache, answer, dropped>>

----------------------------------------------------------------------------
\* mutate_document().  Variant: the fence lets everything pass.
FencedNever(w) == FALSE

\* A projection of the meeting is refused when a later generation, or the other operation of
\* the same generation, was projected before.
Fenced(w) ==
    /\ job[w].what \in {"index", "delete"}
    /\ \/ store.fence.gen > job[w].gen
       \/ store.fence.gen = job[w].gen /\ store.fence.op # job[w].what /\ store.fence.op # "none"

Target(w) == IF job[w].what = "ambient" THEN "ambient" ELSE "meeting"

\* Variant: the chunk is appended beside the one of an earlier attempt.
ProposedTwice(w) ==
    CASE job[w].what = "index" -> <<job[w].gen>>
      [] job[w].what = "delete" -> Absent
      [] OTHER -> Append(store.docs["ambient"], Chunk(job[w].seg, TRUE))

\* The mutators: the minutes, nothing, or the chunks with the one of this operation id replaced.
Proposed(w) ==
    CASE job[w].what = "index" -> <<job[w].gen>>
      [] job[w].what = "delete" -> Absent
      [] OTHER -> Append(SelectSeq(store.docs["ambient"], LAMBDA c : c # Chunk(job[w].seg, TRUE)),
                         Chunk(job[w].seg, TRUE))

\* BEGIN IMMEDIATE, the fence, and the file, which changes before the commit.
WriteFile(w) ==
    /\ At(w, "mutate") /\ lock = None
    /\ IF Fenced(w) THEN GoesTo(w, "load") /\ UNCHANGED <<file, lock>>
       ELSE /\ lock' = w
            /\ file' = [file EXCEPT ![Target(w)] = Proposed(w)]
            /\ GoesTo(w, "commit")
    /\ UNCHANGED <<row, seg, store, cache, answer, dropped, missed, faults>>

\* Variant: a deletion leaves the revision as it is.
NextRevisionOfWrites(w) == IF Proposed(w) = Absent THEN store.rev ELSE store.rev + 1

\* Every change of the documents has a revision of its own.
NextRevision(w) == IF store.docs[Target(w)] = Absent /\ Proposed(w) = Absent THEN store.rev ELSE store.rev + 1

\* The documents, the manifest, the fence and the revision are committed together.
CommitDocument(w) ==
    /\ At(w, "commit")
    /\ store' = [docs |-> [store.docs EXCEPT ![Target(w)] = Proposed(w)],
                 manifest |-> IF Proposed(w) = Absent THEN store.manifest \ {Target(w)}
                              ELSE store.manifest \cup {Target(w)},
                 fence |-> IF job[w].what = "ambient" THEN store.fence
                           ELSE [gen |-> job[w].gen, op |-> job[w].what],
                 rev |-> NextRevision(w)]
    /\ lock' = None
    /\ GoesTo(w, "load")
    /\ UNCHANGED <<row, seg, file, cache, answer, dropped, missed, faults>>

\* An error before the commit: rollback, and a snapshot to repair the files.
MutationFails(w) ==
    /\ At(w, "commit") /\ Fault
    /\ lock' = None
    /\ file' = Kept /\ store' = [store EXCEPT !.docs = Kept, !.rev = SnapshotRev,
                                              !.manifest = {d \in Docs : Kept[d] # Absent}]
    /\ missed' = IF dropped = "manifest" /\ Kept["upload"] # Absent THEN missed \cup {"upload"} ELSE missed
    /\ GoesTo(w, "failed")
    /\ UNCHANGED <<row, seg, cache, answer, dropped>>

\* The snapshot after the commit fails.
LoadFails(w) ==
    /\ At(w, "load") /\ Fault
    /\ GoesTo(w, "failed")
    /\ UNCHANGED <<row, seg, store, file, lock, cache, answer, dropped, missed>>

\* Variant: the transaction of the dead process stays open.
LockAfterCrashKept(w) == lock

LockAfterCrash(w) == IF lock = w THEN None ELSE lock

\* A process dies: its transaction is rolled back, the file stays as it is.
Crash(w) ==
    /\ ~At(w, "idle") /\ Fault
    /\ job' = [job EXCEPT ![w] = Idle] /\ cache' = [cache EXCEPT ![w] = NoCache]
    /\ lock' = LockAfterCrash(w)
    /\ UNCHANGED <<row, seg, store, file, answer, dropped, missed>>

----------------------------------------------------------------------------
Sources(state) ==
    CASE state = "indexed" -> {"reconcile_pending", "index_pending", "index_failed", "indexed"}
      [] state = "index_failed" -> {"reconcile_pending", "index_pending", "index_failed"}
      [] state = "deleted" -> {"delete_pending", "delete_failed", "deleted"}
      [] OTHER -> {"delete_pending", "delete_failed"}

\* set_meeting_rag_projection(): the row still has the generation and a state that fits.
MayRecord(w, state) == row.gen = job[w].gen /\ row.state \in Sources(state)

Records(w, state) ==
    /\ IF job[w].what = "ambient"
       THEN /\ seg' = [seg EXCEPT ![job[w].seg] = IF @ \in Sources(state) THEN state ELSE @]
            /\ UNCHANGED row
       ELSE /\ row' = IF MayRecord(w, state) THEN [row EXCEPT !.state = state] ELSE row
            /\ UNCHANGED seg
    /\ job' = [job EXCEPT ![w] = Idle]
    /\ UNCHANGED <<store, file, lock, cache, answer, dropped, missed, faults>>

Report(w) == At(w, "report") /\ Records(w, IF job[w].what = "delete" THEN "deleted" ELSE "indexed")
ReportFailed(w) ==
    At(w, "failed") /\ Records(w, IF job[w].what = "delete" THEN "delete_failed" ELSE "index_failed")

----------------------------------------------------------------------------
\* _query_sync(): the snapshot of the process first,
Query(w) ==
    /\ At(w, "idle")
    /\ Snapshots(w)
    /\ job' = [job EXCEPT ![w] = [Idle EXCEPT !.what = "query", !.at = "visible",
                !.found = IF Fresh(w) THEN cache[w].docs["meeting"] ELSE Kept["meeting"]]]
    /\ UNCHANGED <<row, seg, lock, answer, dropped, faults>>

\* Variant: a document is hidden while a deletion is wanted, whatever its generation.
VisibleByState(w) == job[w].found # Absent /\ row.state \notin {"delete_pending", "delete_failed", "deleted"}

\* and then visible_meeting_documents() against the row as it is now.
Visible(w) ==
    /\ job[w].found # Absent
    /\ row.state \notin {"delete_pending", "delete_failed", "deleted"}
    /\ job[w].found = <<row.gen>>

Answer(w) ==
    /\ At(w, "visible")
    /\ answer' = [got |-> IF Visible(w) THEN job[w].found[1] ELSE 0, minutes |-> row.minutes]
    /\ job' = [job EXCEPT ![w] = Idle]
    /\ UNCHANGED <<row, seg, store, file, lock, cache, dropped, missed, faults>>

\* reconcile_rag_content_storage() of another process (external here): the manifest row of a
\* released upload is deleted, then its file.  The document goes with the next snapshot.
DropManifest ==
    /\ dropped = "no" /\ lock = None /\ Room
    /\ dropped' = "manifest"
    /\ store' = [store EXCEPT !.manifest = @ \ {"upload"}]
    /\ UNCHANGED <<row, seg, file, lock, job, cache, answer, missed, faults>>

UnlinkProjection ==
    /\ dropped = "manifest"
    /\ dropped' = "done"
    /\ file' = [file EXCEPT !["upload"] = Absent]
    /\ UNCHANGED <<row, seg, store, lock, job, cache, answer, missed, faults>>

----------------------------------------------------------------------------
Progress(w) ==
    \/ CheckIntent(w) \/ Lookup(w) \/ WriteFile(w) \/ CommitDocument(w) \/ Load(w)
    \/ Report(w) \/ ReportFailed(w) \/ Answer(w)
Repair(w) == RepairMeeting(w) \/ \E s \in Segments : RepairSegment(w, s)

Next ==
    \/ DropManifest \/ UnlinkProjection
    \/ \E w \in Workers :
        \/ CommitMinutes(w) \/ ClearMinutes(w) \/ \E s \in Segments : StoreSegment(w, s)
        \/ Repair(w) \/ Progress(w) \/ Query(w)
        \/ MutationFails(w) \/ LoadFails(w) \/ LookupFails(w) \/ Crash(w)

Spec == Init /\ [][Next]_vars

\* Workers go on, and the repair loop comes round again and again however busy the others are
\* (_meeting_rag_projection_repair_loop).
FairSpec ==
    Spec /\ \A w \in Workers : /\ WF_vars(Progress(w)) /\ SF_vars(RepairMeeting(w))
                               /\ \A s \in Segments : SF_vars(RepairSegment(w, s))

----------------------------------------------------------------------------
TypeOK ==
    /\ row.gen \in 0 .. MaxIntents /\ row.minutes \in 0 .. row.gen
    /\ seg \in [Segments -> {"none"} \cup Sources("indexed")]
    /\ lock \in Workers \cup {None} /\ (lock # None => At(lock, "commit"))
    /\ missed \subseteq Segments \cup {"upload"} /\ store.rev \in Nat /\ store.manifest \subseteq Docs

\* A query never returns minutes that were cleared or replaced, although index, cache and row
\* change in transactions of their own (_visible_chunks_for_scope).
QueryShowsCurrent == answer.got # 0 => answer.got = answer.minutes

\* What the meeting's row says of the index is true: a late worker cannot bring back what a
\* later intent removed, or remove what it indexed (bm25_document_projection_fences,
\* set_meeting_rag_projection).
RowTellsTruth ==
    /\ row.state = "indexed" => store.docs["meeting"] = <<row.gen>>
    /\ row.state = "deleted" => store.docs["meeting"] = Absent

\* A segment is in the index when its row says so, and once, although the request and repairs
\* ingest it at the same time and after crashes (operation_id).  Only a segment from before the
\* operation ids is there twice, when its lookup failed (contains_ambient_segment).
SegmentOnce ==
    \A s \in Segments :
        LET n == Cardinality({i \in DOMAIN store.docs["ambient"] : store.docs["ambient"][i].seg = s})
        IN n <= (IF s \in missed THEN 2 ELSE 1) /\ (seg[s] = "indexed" => n # 0)

\* A process whose snapshot has the current revision has the current documents
\* (_snapshot_for_scope).
CacheIsCurrent == \A w \in Workers : Fresh(w) => cache[w].docs = store.docs

\* A released upload leaves the index with the next snapshot, unless a snapshot was taken between
\* the deletion of its manifest row and that of its file (snapshot, _upsert_manifest).
ReleasedIsForgotten ==
    dropped = "done" /\ store.docs["upload"] # Absent => "upload" \in missed \cup Deleted

\* What was asked for is done in the end, whatever fails on the way (repair_rag_projections).
Settled == row.state \in {"none", "indexed", "deleted"} /\ \A s \in Segments : seg[s] \in {"none", "indexed"}
ProjectionSettles == <>[]Settled

=============================================================================
