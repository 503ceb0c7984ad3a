-------------------------- MODULE UploadOwnership --------------------------
(***************************************************************************)
(* One uploaded file on its way into the search index                      *)
(* (upload/ownership.py, api/retrieval.py).  Every owner has a row (the    *)
(* ACL) for the content; the bytes are stored once, under their digest,    *)
(* for all owners.  A request claims, stages and dispatches a workflow run *)
(* whose handler parses the bytes, indexes them and binds the document to  *)
(* the row.  An instance that starts reconciles rows, bytes and runs while *)
(* the others go on working; activity rows (leases) tell it what to leave  *)
(* alone.                                                                  *)
(***************************************************************************)
EXTENDS Naturals, FiniteSets, FiniteSetsExt

CONSTANTS
    Owners,
    Requests,       \* uploads of the same bytes
    Home,           \* Home[q]: the owner whose request q is
    MaxRuns,        \* bound: workflow run ids
    MaxReconciles,  \* bound: starts of another instance
    MaxDeletes,     \* bound: deletions of the document
    MaxFaults       \* bound: crashes and lost heartbeats

VARIABLES
    acl,    \* rag_content_owners: state and workflow_run_id of each owner's row
    run,    \* workflow_runs: state and owner
    blob,   \* rag/<digest> exists
    tombs,  \* .rag-gc files, named by who moved them
    act,    \* rag-upload leases of each run: none, live or old, and the holder
    view,   \* rag-view leases of each run
    docs,   \* runs whose document is indexed
    req,    \* the upload requests
    hand,   \* the ingest handler of each run
    del,    \* the deletion of a document
    rec,    \* the instance that starts: where it is and what it has seen
    orphan, \* history: a pass of the reconciliation left the bytes without owner
    stolen, \* history: it removed a row whose activity had not expired
    torn,   \* history: runs whose row the clean-up of an identical request removed after they
            \* were indexed, or before a crash of their handler
    starts, deletes, faults

vars == <<acl, run, blob, tombs, act, view, docs, req, hand, del, rec, orphan, stolen, torn,
          starts, deletes, faults>>
rows == <<acl, run, act, view>>
files == <<blob, tombs, docs>>
history == <<orphan, stolen, torn>>
counts == <<starts, deletes, faults>>

Runs == 1..MaxRuns
NoRow == [state |-> "none", run |-> 0]
NoLease == [row |-> "none", by |-> "nobody"]
Ended == {"idle", "returned", "raised"}
Terminal == {"succeeded", "failed"}

Init ==
    /\ acl = [o \in Owners |-> NoRow]
    /\ run = [r \in Runs |-> [state |-> "none", owner |-> CHOOSE o \in Owners : TRUE]]
    /\ blob = FALSE /\ tombs = {} /\ docs = {}
    /\ act = [r \in Runs |-> NoLease] /\ view = [r \in Runs |-> "none"]
    /\ req = [q \in Requests |-> [at |-> "idle", run |-> 0, claimed |-> "look", staged |-> "create", released |-> "raised"]]
    /\ hand = [r \in Runs |-> "none"]
    /\ del = [at |-> "idle", run |-> 0]
    /\ rec = [at |-> "idle", owned |-> FALSE, valid |-> FALSE, busy |-> FALSE]
    /\ orphan = FALSE /\ stolen = FALSE /\ torn = {}
    /\ starts = 0 /\ deletes = 0 /\ faults = 0

Goes(q, place) == req' = [req EXCEPT ![q].at = place]
Fault == faults < MaxFaults /\ faults' = faults + 1
Owned == \E o \in Owners : acl[o] # NoRow
HasActivity == \E r \in Runs : act[r].row # "none" \/ view[r] # "none"

\* A run id nobody uses (new_workflow_run_id()).
Used == {acl[o].run : o \in Owners} \union {req[q].run : q \in Requests} \union {r \in Runs : run[r].state # "none" \/ r \in docs}
Fresh == Runs \ Used # {}
FreshRun == Min(Runs \ Used)

\* get_active_by_active_key(): 0 for none.
ActiveRun(o) ==
    LET active == {r \in Runs : run[r].state = "active" /\ run[r].owner = o}
    IN IF active = {} THEN 0 ELSE Min(active)

----------------------------------------------------------------------------
\* POST /rag/ingest: an active run with this key, or a new id.
Propose(q) ==
    /\ req[q].at = "idle"
    /\ ActiveRun(Home[q]) # 0 \/ Fresh
    /\ req' = [req EXCEPT ![q].at = "claim",
                          ![q].run = IF ActiveRun(Home[q]) # 0 THEN ActiveRun(Home[q]) ELSE FreshRun]
    /\ UNCHANGED <<rows, files, hand, del, rec, history, counts>>

\* _register_activity_tx() of a claim: the live term is renewed, else a new one begins.
Registers(r) ==
    [act EXCEPT ![r] = [row |-> "live", by |-> IF act[r].row = "live" THEN act[r].by ELSE "claim"]]

\* claim_rag_content(), one transaction: a new row with the proposed run, or the row that is
\* there with the run it has.
Claim(q) ==
    LET o == Home[q]  r == IF acl[o] = NoRow THEN req[q].run ELSE acl[o].run IN
    /\ req[q].at = "claim"
    /\ acl' = IF acl[o] = NoRow THEN [acl EXCEPT ![o] = [state |-> "claimed", run |-> r]] ELSE acl
    /\ act' = IF acl[o].state = "ready" THEN act ELSE Registers(r)
    /\ req' = [req EXCEPT ![q].run = r,
                          ![q].at = IF acl[o].state = "ready" /\ req[q].claimed = "look" THEN "returned"
                                    ELSE req[q].claimed]
    /\ orphan' = (orphan /\ acl[o] # NoRow)
    /\ UNCHANGED <<run, view, files, hand, del, rec, stolen, torn, counts>>

\* get_run() of the claimed run: finished well, the bytes are staged and bound; finished badly,
\* the row is released and claimed again for a new run; else the bytes are staged.
LookAtRun(q) ==
    LET state == run[req[q].run].state IN
    /\ req[q].at = "look"
    /\ \/ state = "succeeded" /\ req' = [req EXCEPT ![q].at = "stage", ![q].staged = "bind"]
       \/ /\ state = "failed" /\ Fresh
          /\ req' = [req EXCEPT ![q].at = "release", ![q].released = "claim", ![q].claimed = "stage", ![q].run = FreshRun]
       \/ state \notin Terminal /\ Goes(q, "stage")
    /\ UNCHANGED <<rows, files, hand, del, rec, history, counts>>

MayStage(q) == acl[Home[q]].run = req[q].run /\ acl[Home[q]].state \in {"claimed", "staged"}

\* The request's first staging is undone when it fails, a later one is not.
StageFails(q) == Goes(q, IF req[q].staged = "create" THEN "release" ELSE "raised")

\* stage_rag_content_blob(), first transaction: a new term of the activity.
StageBegins(q) ==
    /\ req[q].at = "stage"
    /\ IF MayStage(q)
       THEN act' = [act EXCEPT ![req[q].run] = [row |-> "live", by |-> q]] /\ Goes(q, "publish")
       ELSE StageFails(q) /\ UNCHANGED act
    /\ UNCHANGED <<acl, run, view, files, hand, del, rec, history, counts>>

\* assert_owned() of the activity.
Holds(q) == act[req[q].run] = [row |-> "live", by |-> q]

\* Second transaction: row and fence are checked, the bytes published, the row staged; the
\* activity stays until it expires.  On failure the activity is released.
Publish(q) ==
    /\ req[q].at = "publish"
    /\ IF MayStage(q) /\ Holds(q)
       THEN /\ blob' = TRUE
            /\ acl' = [acl EXCEPT ![Home[q]].state = "staged"]
            /\ Goes(q, req[q].staged) /\ UNCHANGED act
       ELSE /\ act' = IF Holds(q) THEN [act EXCEPT ![req[q].run].row = "old"] ELSE act
            /\ StageFails(q) /\ UNCHANGED <<acl, blob>>
    /\ UNCHANGED <<run, view, tombs, docs, hand, del, rec, history, counts>>

\* create_run() with the claimed id: an active run with the key is returned instead, and the row
\* is claimed again when it is another one; an id that has run before is refused.
CreateRun(q) ==
    LET active == ActiveRun(Home[q])  mine == req[q].run IN
    /\ req[q].at = "create"
    /\ \/ /\ active = 0 /\ run[mine].state = "none"
          /\ run' = [run EXCEPT ![mine] = [state |-> "active", owner |-> Home[q]]] /\ Goes(q, "dispatch")
       \/ active = mine /\ Goes(q, "dispatch") /\ UNCHANGED run
       \/ active = 0 /\ run[mine].state \in Terminal /\ Goes(q, "raised") /\ UNCHANGED run
       \/ /\ active \notin {0, mine}
          /\ req' = [req EXCEPT ![q].at = "release", ![q].released = "claim", ![q].claimed = "stage",
                                ![q].staged = "dispatch", ![q].run = active]
          /\ UNCHANGED run
    /\ UNCHANGED <<acl, act, view, files, hand, del, rec, history, counts>>

\* dispatch(): the active run with the key, else a new one; wait_succeeded() for it.
Dispatch(q) ==
    LET active == ActiveRun(Home[q])  r == IF active # 0 THEN active ELSE FreshRun IN
    /\ req[q].at = "dispatch" /\ (active # 0 \/ Fresh)
    /\ run' = [run EXCEPT ![r] = [state |-> "active", owner |-> Home[q]]]
    /\ hand' = [hand EXCEPT ![r] = IF @ = "none" THEN "open" ELSE @]
    /\ req' = [req EXCEPT ![q].run = r, ![q].at = "wait"]
    /\ UNCHANGED <<acl, act, view, files, del, rec, history, counts>>

\* Variant: a run that failed is waited for.
WaitedWell(q) ==
    /\ req[q].at = "wait" /\ run[req[q].run].state = "succeeded" /\ Goes(q, "bind")
    /\ UNCHANGED <<rows, files, hand, del, rec, history, counts>>
\* The run is over.  After a failure the row is released unless it is ready.
Waited(q) ==
    /\ req[q].at = "wait"
    /\ \/ run[req[q].run].state = "succeeded" /\ Goes(q, "bind")
       \/ /\ run[req[q].run].state = "failed"
          /\ IF acl[Home[q]].state = "ready" THEN Goes(q, "returned")
             ELSE req' = [req EXCEPT ![q].at = "release", ![q].released = "raised"]
    /\ UNCHANGED <<rows, files, hand, del, rec, history, counts>>

\* bind_rag_content_doc(), one transaction.
MayBind(o, r) == acl[o].run = r /\ acl[o].state \in {"staged", "ready"}
Binds(o, r) ==
    /\ acl' = [acl EXCEPT ![o].state = "ready"]
    /\ act' = [act EXCEPT ![r].row = IF @ = "none" THEN @ ELSE "old"]

Bind(q) ==
    /\ req[q].at = "bind"
    /\ IF MayBind(Home[q], req[q].run) THEN Binds(Home[q], req[q].run) /\ Goes(q, "returned")
       ELSE Goes(q, "raised") /\ UNCHANGED <<acl, act>>
    /\ UNCHANGED <<run, view, files, hand, del, rec, history, counts>>

\* Variant: the bytes go although another owner has them.
LastOwnerAnyway(o) == TRUE
\* No other owner has the content.
LastOwner(o) == \A p \in Owners \ {o} : acl[p] = NoRow

\* Variant: the bytes stay.
ReleasesRowOnly(o, mover) == acl' = [acl EXCEPT ![o] = NoRow] /\ UNCHANGED <<blob, tombs>>
\* release_rag_content_claim(): the row goes and, with the last one, the bytes are moved away,
\* in one transaction; they are unlinked after it.
Releases(o, mover) ==
    /\ acl' = [acl EXCEPT ![o] = NoRow]
    /\ IF LastOwner(o) /\ blob THEN blob' = FALSE /\ tombs' = tombs \union {mover} ELSE UNCHANGED <<blob, tombs>>

\* The request asks by content, whichever run has the row by now.
Release(q) ==
    LET o == Home[q] IN
    /\ req[q].at = "release"
    /\ IF acl[o] = NoRow THEN UNCHANGED <<acl, blob, tombs>> ELSE Releases(o, q)
    /\ torn' = torn \union ({acl[o].run} \intersect docs)
    /\ Goes(q, "unlink")
    /\ UNCHANGED <<run, act, view, docs, hand, del, rec, orphan, stolen, counts>>

Unlink(q) ==
    /\ req[q].at = "unlink"
    /\ tombs' = tombs \ {q} /\ Goes(q, req[q].released)
    /\ UNCHANGED <<rows, blob, docs, hand, del, rec, history, counts>>

Upload(q) ==
    \/ Claim(q) \/ LookAtRun(q) \/ StageBegins(q) \/ Publish(q) \/ CreateRun(q) \/ Dispatch(q)
    \/ Waited(q) \/ Bind(q) \/ Release(q) \/ Unlink(q)

----------------------------------------------------------------------------
Steps(r, place) == hand' = [hand EXCEPT ![r] = place]
Fails(r) == Steps(r, "none") /\ run' = [run EXCEPT ![r].state = "failed"]

\* ingest_handler(): open_rag_parser_input() checks the row and announces the view ...
OpenView(r) ==
    /\ hand[r] = "open"
    /\ IF MayBind(run[r].owner, r)
       THEN view' = [view EXCEPT ![r] = "live"] /\ Steps(r, "copy") /\ UNCHANGED run
       ELSE Fails(r) /\ UNCHANGED view
    /\ UNCHANGED <<acl, act, files, req, del, rec, history, counts>>

\* ... and links the bytes, which must be there.
CopyView(r) ==
    /\ hand[r] = "copy"
    /\ IF blob THEN Steps(r, "index") /\ UNCHANGED <<run, view>>
       ELSE Fails(r) /\ view' = [view EXCEPT ![r] = "old"]
    /\ UNCHANGED <<acl, act, files, req, del, rec, history, counts>>

\* rag.ingest_file(); the view is released.  Parsing may fail.
Index(r) ==
    /\ hand[r] = "index"
    /\ view' = [view EXCEPT ![r] = "old"]
    /\ \/ docs' = docs \union {r} /\ Steps(r, "bind") /\ UNCHANGED run
       \/ Fails(r) /\ UNCHANGED docs
    /\ UNCHANGED <<acl, act, blob, tombs, req, del, rec, history, counts>>

\* Variant: the document stays.
UnbindKeeps(r) == docs
\* rag.delete() when the row is gone.
Unbind(r) == docs \ {r}

HandlerBinds(r) ==
    /\ hand[r] = "bind"
    /\ IF MayBind(run[r].owner, r)
       THEN /\ Binds(run[r].owner, r) /\ Steps(r, "none")
            /\ run' = [run EXCEPT ![r].state = "succeeded"] /\ UNCHANGED docs
       ELSE docs' = Unbind(r) /\ Fails(r) /\ UNCHANGED <<acl, act>>
    /\ UNCHANGED <<view, blob, tombs, req, del, rec, history, counts>>

Handler(r) == OpenView(r) \/ CopyView(r) \/ Index(r) \/ HandlerBinds(r)

\* delete_handler(): rag.delete(), then the row by its document.
DeleteBegins(o) ==
    /\ del.at = "idle" /\ deletes < MaxDeletes /\ acl[o].state = "ready"
    /\ del' = [at |-> "doc", run |-> acl[o].run] /\ deletes' = deletes + 1
    /\ UNCHANGED <<rows, files, req, hand, rec, history, starts, faults>>

DeleteDoc ==
    /\ del.at = "doc"
    /\ docs' = docs \ {del.run} /\ del' = [del EXCEPT !.at = "row"]
    /\ UNCHANGED <<rows, blob, tombs, req, hand, rec, history, counts>>

DeleteRow ==
    LET o == run[del.run].owner IN
    /\ del.at = "row"
    /\ IF acl[o].run = del.run /\ acl[o].state = "ready" THEN Releases(o, "del") ELSE UNCHANGED <<acl, blob, tombs>>
    /\ del' = [del EXCEPT !.at = "unlink"]
    /\ UNCHANGED <<run, act, view, docs, req, hand, rec, history, counts>>

DeleteUnlinks ==
    /\ del.at = "unlink"
    /\ tombs' = tombs \ {"del"} /\ del' = [at |-> "idle", run |-> 0]
    /\ UNCHANGED <<rows, blob, docs, req, hand, rec, history, counts>>

Delete == DeleteDoc \/ DeleteRow \/ DeleteUnlinks

----------------------------------------------------------------------------
\* reconcile_rag_content_storage() of an instance that starts: activities that have expired are
\* removed first (_reap_stale_rag_activities()).
Reap ==
    /\ rec.at = "idle" /\ starts < MaxReconciles /\ starts' = starts + 1
    /\ act' = [r \in Runs |-> IF act[r].row = "old" THEN NoLease ELSE act[r]]
    /\ view' = [r \in Runs |-> IF view[r] = "old" THEN "none" ELSE view[r]]
    /\ rec' = [rec EXCEPT !.at = "tombs"]
    /\ UNCHANGED <<acl, run, files, req, hand, del, history, deletes, faults>>

\* _recover_gc_tombstones(): what it reads ...
SeeTombs ==
    /\ rec.at = "tombs"
    /\ rec' = [rec EXCEPT !.at = IF tombs = {} \/ HasActivity THEN "observe" ELSE "restore", !.owned = Owned]
    /\ UNCHANGED <<rows, files, req, hand, del, history, counts>>

\* ... and what it does: bytes that are owned and missing come back, the rest is removed.
RestoreTombs ==
    /\ rec.at = "restore"
    /\ blob' = (blob \/ (rec.owned /\ tombs # {})) /\ tombs' = {}
    /\ orphan' = (orphan \/ (blob' /\ ~Owned))
    /\ rec' = [rec EXCEPT !.at = "observe"]
    /\ UNCHANGED <<rows, docs, req, hand, del, stolen, torn, counts>>

\* The page of rows and, without activity, whether the bytes are there.
Observe ==
    /\ rec.at = "observe"
    /\ rec' = [rec EXCEPT !.at = IF Owned THEN "apply" ELSE "orphans", !.valid = blob, !.busy = HasActivity]
    /\ UNCHANGED <<rows, files, req, hand, del, history, counts>>

\* Variant: the activity that began since the look at the bytes is not seen.
DeferredByLook == rec.busy
\* Activity then or now defers the content to the next pass.
Deferred == rec.busy \/ HasActivity

\* _apply_owner_page(), one transaction: rows without bytes, without a run or with a failed one
\* go, with their document; a row whose run succeeded becomes ready.
Doomed(o) ==
    /\ acl[o] # NoRow
    /\ \/ acl[o].state = "claimed" \/ ~rec.valid
       \/ acl[o].state = "staged" /\ run[acl[o].run].state \in {"none", "failed"}
Apply ==
    /\ rec.at = "apply" /\ rec' = [rec EXCEPT !.at = "orphans"]
    /\ IF Deferred THEN UNCHANGED <<acl, docs, orphan, stolen>>
       ELSE /\ acl' = [o \in Owners |->
                         IF Doomed(o) THEN NoRow
                         ELSE IF acl[o].state = "staged" /\ run[acl[o].run].state = "succeeded"
                              THEN [acl[o] EXCEPT !.state = "ready"] ELSE acl[o]]
            /\ docs' = docs \ {acl[o].run : o \in {p \in Owners : Doomed(p)}}
            /\ orphan' = (orphan \/ (blob /\ \A o \in Owners : acl'[o] = NoRow))
            /\ stolen' = (stolen \/ \E o \in Owners : Doomed(o) /\ act[acl[o].run].row = "live")
    /\ UNCHANGED <<run, act, view, blob, tombs, req, hand, del, torn, counts>>

\* _collect_orphan_blobs(): bytes without activity and owner are moved away ...
SeeOrphans ==
    /\ rec.at = "orphans"
    /\ rec' = [rec EXCEPT !.at = IF blob /\ ~HasActivity /\ ~Owned THEN "move" ELSE "idle"]
    /\ UNCHANGED <<rows, files, req, hand, del, history, counts>>

MoveOrphan ==
    /\ rec.at = "move"
    /\ tombs' = (IF blob THEN tombs \union {"rec"} ELSE tombs) /\ blob' = FALSE
    /\ rec' = [rec EXCEPT !.at = "recheck"]
    /\ UNCHANGED <<rows, docs, req, hand, del, history, counts>>

\* ... and come back when somebody has claimed them since.
BackWanted == Owned \/ HasActivity
RecheckOrphan ==
    /\ rec.at = "recheck"
    /\ rec' = [rec EXCEPT !.at = IF BackWanted THEN "back" ELSE "drop"]
    /\ UNCHANGED <<rows, files, req, hand, del, history, counts>>

PutBack ==
    /\ rec.at = "back" /\ rec' = [rec EXCEPT !.at = "idle"]
    /\ IF "rec" \in tombs /\ ~blob THEN blob' = TRUE /\ tombs' = tombs \ {"rec"}
       ELSE UNCHANGED <<blob, tombs>>
    /\ orphan' = (orphan \/ (blob' /\ ~Owned))
    /\ UNCHANGED <<rows, docs, req, hand, del, stolen, torn, counts>>

DropOrphan ==
    /\ rec.at = "drop" /\ rec' = [rec EXCEPT !.at = "idle"]
    /\ tombs' = tombs \ {"rec"}
    /\ UNCHANGED <<rows, blob, docs, req, hand, del, history, counts>>

Reconcile ==
    \/ SeeTombs \/ RestoreTombs \/ Observe \/ Apply \/ SeeOrphans \/ MoveOrphan \/ RecheckOrphan
    \/ PutBack \/ DropOrphan

\* The instance then executes runs nobody executes.
Replay(r) ==
    /\ rec.at = "idle" /\ starts > 0 /\ run[r].state = "active" /\ hand[r] = "none"
    /\ Steps(r, "open")
    /\ UNCHANGED <<rows, files, req, del, rec, history, counts>>

----------------------------------------------------------------------------
\* 30 seconds without heartbeat: the request that claimed or staged has moved on or is gone;
\* within stage_rag_content_blob() only when the heartbeats are lost.
Expire(r) ==
    /\ act[r].row = "live"
    /\ IF \E q \in Requests : act[r].by = q /\ req[q].at = "publish" /\ req[q].run = r THEN Fault ELSE UNCHANGED faults
    /\ act' = [act EXCEPT ![r].row = "old"]
    /\ UNCHANGED <<acl, run, view, files, req, hand, del, rec, history, starts, deletes>>

\* The instance that serves the requests and executes the handlers stops.
Crash ==
    /\ Fault
    /\ req' = [q \in Requests |-> IF req[q].at \in Ended THEN req[q] ELSE [req[q] EXCEPT !.at = "raised"]]
    /\ hand' = [r \in Runs |-> "none"] /\ del' = [at |-> "idle", run |-> 0]
    /\ view' = [r \in Runs |-> IF view[r] = "live" THEN "old" ELSE view[r]]
    /\ torn' = torn \union {r \in docs : acl[run[r].owner].run # r}
    /\ UNCHANGED <<acl, run, act, files, rec, orphan, stolen, starts, deletes>>

Next ==
    \/ \E q \in Requests : Propose(q) \/ Upload(q)
    \/ \E r \in Runs : Handler(r) \/ Replay(r) \/ Expire(r)
    \/ (\E o \in Owners : DeleteBegins(o)) \/ Delete
    \/ Reap \/ Reconcile \/ Crash

----------------------------------------------------------------------------
TypeOK ==
    /\ acl \in [Owners -> [state : {"none", "claimed", "staged", "ready"}, run : 0..MaxRuns]]
    /\ \A o \in Owners : acl[o].state = "none" <=> acl[o].run = 0
    /\ \A r \in Runs : run[r].state \in {"none", "active"} \union Terminal /\ run[r].owner \in Owners
    /\ blob \in BOOLEAN /\ tombs \subseteq Requests \union {"del", "rec"} /\ docs \subseteq Runs
    /\ \A r \in Runs : act[r].row \in {"none", "live", "old"} /\ view[r] \in {"none", "live", "old"}
    /\ hand \in [Runs -> {"none", "open", "copy", "index", "bind"}]
    /\ \A r \in Runs : hand[r] # "none" => run[r].state = "active"

\* The bytes of a row that is staged or ready are never lost, whatever the other owners, the
\* deletions and the starts do: they are there, or moved away where the next start restores
\* them (release_rag_content_claim(), _collect_orphan_blobs(), _recover_gc_tombstones()).
BytesNotLost == (\E o \in Owners : acl[o].state \in {"staged", "ready"}) => blob \/ tombs # {}

\* A stage and a release that race never leave bytes nobody owns
\* (test_stage_release_race_never_leaves_an_unowned_blob); only a reconciliation may, until the
\* next one.
NoUnownedBlob == blob => Owned \/ orphan

\* reconcile_rag_content_storage() does not take a row from an upload of another instance whose
\* activity is alive.
NothingStolen == ~stolen

\* A document in the index belongs to a row of its run, or its handler will bind or remove it;
\* the only others are those whose row an identical request released when it failed.
IndexedIsOwned ==
    \A r \in docs : acl[run[r].owner].run = r \/ hand[r] = "bind" \/ r \in torn

AllReturned == \A q \in Requests : req[q].at \in {"idle", "returned", "raised"}

\* Every upload request is answered (ingest in api/retrieval.py).
UploadReturns == []<>AllReturned

Spec == Init /\ [][Next]_vars
FairSpec == Spec /\ (\A q \in Requests : WF_vars(Upload(q))) /\ \A r \in Runs : WF_vars(Handler(r))

=============================================================================
