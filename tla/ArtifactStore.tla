--------------------------- MODULE ArtifactStore ---------------------------
(***************************************************************************)
(* The bytes of generated artifacts and the rows that name them            *)
(* (artifacts/staging.py, recovery.py, repository.py, the handlers of      *)
(* artifact.generate and meeting.outputs.clear, SkillExecutor.generate).   *)
(* Bytes are no part of a SQLite transaction: a run builds in a private    *)
(* directory under a marker that names its lease term, publishes it by one *)
(* rename, writes a manifest, and registers the row in the transaction     *)
(* that ends the run.  Clearing a meeting deletes rows first and files     *)
(* after the commit.  A starting process removes abandoned builds,         *)
(* registers the directories of versions that kept no rows, and tries the  *)
(* deletions of clears that ended again.  A deletion may fail: the clear   *)
(* ends all the same, its receipt lists the artifact, and the next request *)
(* tries what the receipt lists.                                           *)
(*                                                                         *)
(* One run, whose artifact is "new", and one directory of an old version,  *)
(* "old".  A private directory and the published bytes are named by the    *)
(* lease term of the handler that made them.  Several processes share the  *)
(* database and the disk.  An entry without a marker is stale only when no *)
(* handler builds in it: the grace of an hour exceeds every build timeout. *)
(***************************************************************************)
EXTENDS Integers, FiniteSets

CONSTANTS
    Procs,       \* backend processes
    MaxTerms,    \* bound on the lease terms of the run
    MaxCrashes   \* bound on the crashes

Artifacts == {"new", "old"}
Kinds == {"text", "page", "deck"}
Old == -1        \* the bytes of the old version

VARIABLES
    lease,    \* the execution lease of the run: [term, live]
    run,      \* the state of the run
    kind,     \* what the run makes: a text, a page or a deck
    hand,     \* the artifact.generate handler of each process: [at, fence]
    private,  \* the private build directories, by term
    marker,   \* the term in the active marker, 0 without one
    dir,      \* the published bytes of an artifact, 0 when there are none
    row,      \* the bytes an artifacts row was registered for, 0 without a row
    linked,   \* the artifacts linked to the meeting
    clear,    \* the meeting.outputs.clear run: artifacts it has still to try, found gone in this
              \* pass, and not known to be gone by the receipt
    boot,     \* the startup of each process
    late,     \* history: the bytes were published after the clear
    crashes

vars == <<lease, run, kind, hand, private, marker, dir, row, linked, clear, boot, late, crashes>>

Idle == [at |-> "idle", fence |-> 0]
Booting == [at |-> "cleanup", seen |-> 0, live |-> FALSE, todo |-> {}]

Init ==
    /\ lease = [term |-> 0, live |-> FALSE]
    /\ run = "active" /\ kind \in Kinds
    /\ hand = [p \in Procs |-> Idle]
    /\ private = {} /\ marker = 0
    /\ dir = [a \in Artifacts |-> IF a = "old" THEN Old ELSE 0]
    /\ row = [a \in Artifacts |-> 0]
    /\ linked = {}
    /\ clear = [at |-> "none", todo |-> {}, ids |-> {}, gone |-> {}, left |-> {}]
    /\ boot = [p \in Procs |-> Booting]
    /\ late = FALSE /\ crashes = 0

Up(p) == boot[p].at = "up"
Goes(p, at) == hand' = [hand EXCEPT ![p].at = at]
Ends(p) == hand' = [hand EXCEPT ![p] = Idle]

-----------------------------------------------------------------------------
(* The handler of artifact.generate.                                       *)

Acquire(p) ==
    /\ Up(p) /\ hand[p].at = "idle" /\ run = "active" /\ ~lease.live
    /\ lease.term < MaxTerms
    /\ lease' = [term |-> lease.term + 1, live |-> TRUE]
    /\ hand' = [hand EXCEPT ![p] = [at |-> "load", fence |-> lease.term + 1]]
    /\ UNCHANGED <<kind, run, private, marker, dir, row, linked, clear, boot, late, crashes>>

\* The renewals of the holder fail or it is dead; the holder may go on, late.
Expire ==
    /\ lease.live
    /\ lease' = [lease EXCEPT !.live = FALSE]
    /\ UNCHANGED <<kind, run, hand, private, marker, dir, row, linked, clear, boot, late, crashes>>

\* load_workflow_artifact: the bytes a crashed term published are used again.
LoadArtifact(p) ==
    /\ hand[p].at = "load"
    /\ Goes(p, IF dir["new"] # 0 THEN "manifest" ELSE "mark")
    /\ UNCHANGED <<kind, lease, run, private, marker, dir, row, linked, clear, boot, late, crashes>>

Mark(p) ==
    /\ hand[p].at = "mark"
    /\ marker' = hand[p].fence
    /\ Goes(p, "mkdir")
    /\ UNCHANGED <<kind, lease, run, private, dir, row, linked, clear, boot, late, crashes>>

MakeDir(p) ==
    /\ hand[p].at = "mkdir"
    /\ private' = private \cup {hand[p].fence}
    /\ Goes(p, "ask")
    /\ UNCHANGED <<kind, lease, run, marker, dir, row, linked, clear, boot, late, crashes>>

\* _call_llm: the model answers.
AskModel(p) ==
    /\ hand[p].at \in {"ask", "ask again"}
    /\ Goes(p, IF hand[p].at = "ask" THEN "render" ELSE "render again")
    /\ UNCHANGED <<kind, lease, run, private, marker, dir, row, linked, clear, boot, late, crashes>>

\* _generate_via_default_pipeline: a text that fails its checks is asked for once more.
RenderText(p) ==
    /\ kind = "text" /\ hand[p].at \in {"render", "render again"} /\ hand[p].fence \in private
    /\ Goes(p, "build") \/ (hand[p].at = "render" /\ Goes(p, "ask again"))
    /\ UNCHANGED <<kind, lease, run, private, marker, dir, row, linked, clear, boot, late, crashes>>

\* _generate_html_one_pager
RenderPage(p) ==
    /\ kind = "page" /\ hand[p].at = "render" /\ hand[p].fence \in private
    /\ Goes(p, "build")
    /\ UNCHANGED <<kind, lease, run, private, marker, dir, row, linked, clear, boot, late, crashes>>

\* _generate_ib_pptx, with the renderer of _run_ib_render
RenderDeck(p) ==
    /\ kind = "deck" /\ hand[p].at = "render" /\ hand[p].fence \in private
    /\ Goes(p, "build")
    /\ UNCHANGED <<kind, lease, run, private, marker, dir, row, linked, clear, boot, late, crashes>>

\* A mutant: the rename replaces what is published.
PublishOver(p) ==
    /\ hand[p].at = "build"
    /\ hand[p].fence \in private
    /\ private' = private \ {hand[p].fence}
    /\ dir' = [dir EXCEPT !["new"] = hand[p].fence]
    /\ late' = (late \/ "new" \in clear.ids)
    /\ Goes(p, "unmark")
    /\ UNCHANGED <<kind, lease, run, marker, row, linked, clear, boot, crashes>>

\* The output is complete: the directory is renamed.  When another term published first the
\* rename fails, its bytes are used, and the private directory is removed.
Publish(p) ==
    /\ hand[p].at = "build"
    /\ hand[p].fence \in private
    /\ private' = private \ {hand[p].fence}
    /\ dir' = [dir EXCEPT !["new"] = IF @ = 0 THEN hand[p].fence ELSE @]
    /\ late' = (late \/ (dir["new"] = 0 /\ "new" \in clear.ids))
    /\ Goes(p, "unmark")
    /\ UNCHANGED <<kind, lease, run, marker, row, linked, clear, boot, crashes>>

Building == {"ask", "render", "ask again", "render again", "build"}

\* The model or the skill fails (SkillError, LLMError); or the directory is gone (an OSError).
BuildFails(p) ==
    /\ hand[p].at \in Building
    /\ private' = private \ {hand[p].fence}
    /\ Goes(p, "unmark failed") \/ (hand[p].fence \notin private /\ Goes(p, "unmark lost"))
    /\ UNCHANGED <<kind, lease, run, marker, dir, row, linked, clear, boot, late, crashes>>

Unmarking == {"unmark", "unmark failed", "unmark lost"}
AfterUnmark(at) ==
    CASE at \in {"unmark", "unlink"} -> "manifest"
      [] at \in {"unmark failed", "unlink failed"} -> "fail"
      [] OTHER -> "idle"
Unlinking(at) ==
    CASE at = "unmark" -> "unlink" [] at = "unmark failed" -> "unlink failed" [] OTHER -> "unlink lost"

\* The marker is removed if it is still this term's: read ...
ReadMarker(p) ==
    /\ hand[p].at \in Unmarking
    /\ Goes(p, IF marker = hand[p].fence THEN Unlinking(hand[p].at) ELSE AfterUnmark(hand[p].at))
    /\ UNCHANGED <<kind, lease, run, private, marker, dir, row, linked, clear, boot, late, crashes>>

\* ... and unlinked, whatever it holds by then.
UnlinkMarker(p) ==
    /\ hand[p].at \in {"unlink", "unlink failed", "unlink lost"}
    /\ marker' = 0
    /\ Goes(p, AfterUnmark(hand[p].at))
    /\ UNCHANGED <<kind, lease, run, private, dir, row, linked, clear, boot, late, crashes>>

\* write_workflow_artifact_manifest: raises when the output is not there.
Manifest(p) ==
    /\ hand[p].at = "manifest"
    /\ IF dir["new"] # 0 THEN Goes(p, "commit") ELSE Ends(p)
    /\ UNCHANGED <<kind, lease, run, private, marker, dir, row, linked, clear, boot, late, crashes>>

Owns(p) == run = "active" /\ lease = [term |-> hand[p].fence, live |-> TRUE]

\* save_artifact_tx and link_artifact_tx.
Register(p) ==
    /\ dir["new"] # 0
    /\ row' = [row EXCEPT !["new"] = dir["new"]]
    /\ linked' = linked \cup {"new"}

\* complete_run_atomic with write_domain: fenced by the lease, and by the file.
Commit(p) ==
    /\ hand[p].at = "commit" /\ Owns(p)
    /\ Register(p)
    /\ run' = "succeeded"
    /\ lease' = [lease EXCEPT !.live = FALSE]
    /\ Ends(p)
    /\ UNCHANGED <<kind, private, marker, dir, clear, boot, late, crashes>>

\* fail_run_atomic after a failed build.
FailRun(p) ==
    /\ hand[p].at = "fail" /\ Owns(p)
    /\ run' = "failed"
    /\ lease' = [lease EXCEPT !.live = FALSE]
    /\ Ends(p)
    /\ UNCHANGED <<kind, private, marker, dir, row, linked, clear, boot, late, crashes>>

\* The transaction is refused: the term is over, or the file is gone.
Fenced(p) ==
    /\ hand[p].at \in {"commit", "fail"}
    /\ ~Owns(p) \/ (hand[p].at = "commit" /\ dir["new"] = 0)
    /\ Ends(p)
    /\ UNCHANGED <<kind, lease, run, private, marker, dir, row, linked, clear, boot, late, crashes>>

-----------------------------------------------------------------------------
(* Clearing the outputs of the meeting.                                    *)

\* artifact_file_cleanup_target: what is linked to the meeting has a place on the disk.
Targets == linked

\* write_cleanup: links and rows go in one transaction that records the targets.
ClearCommit ==
    /\ clear.at = "none" /\ \E p \in Procs : Up(p)
    /\ clear' = [at |-> "committed", todo |-> Targets, ids |-> Targets, gone |-> {}, left |-> Targets]
    /\ row' = [a \in Artifacts |-> IF a \in linked THEN 0 ELSE row[a]]
    /\ linked' = {}
    /\ UNCHANGED <<lease, run, kind, hand, private, marker, dir, boot, late, crashes>>

\* _protected_cleanup_paths_for_scope: the path of a row is not deleted.
Protected(a) == row[a] # 0

\* replay_artifact_file_cleanup_target: under the write lock the rows are looked at again.
Replayed(a) == dir' = IF Protected(a) THEN dir ELSE [dir EXCEPT ![a] = 0]

\* A mutant: an error is not told from a deletion.
TriedUnreported(a, gone) == Replayed(a) \/ UNCHANGED dir

\* One target is tried: found gone unless a row protects it, or an error before or after the bytes
\* are removed (an OSError, or an outcome "unsafe").
Tried(a, gone) == \/ Replayed(a) /\ (gone => ~Protected(a))
                  \/ UNCHANGED dir /\ ~gone

\* A mutant: a protected target is tried until it is not.
ClearDeleteRetries(a) ==
    /\ clear.at # "none" /\ a \in clear.todo /\ \E p \in Procs : Up(p)
    /\ Replayed(a)
    /\ clear' = [clear EXCEPT !.todo = IF Protected(a) THEN @ ELSE @ \ {a}]
    /\ UNCHANGED <<lease, run, kind, hand, private, marker, row, linked, boot, late, crashes>>

\* One target of the handler, or of a later request that reads the receipt.
ClearDelete(a) ==
    /\ clear.at # "none" /\ a \in clear.todo /\ \E p \in Procs : Up(p)
    /\ \E gone \in BOOLEAN :
          /\ Tried(a, gone)
          /\ clear' = [clear EXCEPT !.todo = @ \ {a}, !.gone = IF gone THEN @ \cup {a} ELSE @]
    /\ UNCHANGED <<lease, run, kind, hand, private, marker, row, linked, boot, late, crashes>>

\* _merge_file_cleanup_output: what was found gone is no error of the receipt any more.
Merged == [clear EXCEPT !.at = "done", !.left = @ \ clear.gone, !.gone = {}]

\* The run of the clear is completed with the receipt, which lists the errors.
ClearDone ==
    /\ clear.at = "committed" /\ clear.todo = {} /\ \E p \in Procs : Up(p)
    /\ clear' = Merged
    /\ UNCHANGED <<lease, run, kind, hand, private, marker, dir, row, linked, boot, late, crashes>>

\* clear_meeting_outputs() again: with nothing linked it finds the receipt of the clear that
\* succeeded and tries its errors (_replay_cleanup_receipt_files) ...
RetryAsk ==
    /\ clear.at = "done" /\ clear.left # {} /\ linked = {} /\ \E p \in Procs : Up(p)
    /\ clear' = [clear EXCEPT !.todo = clear.left]
    /\ UNCHANGED <<lease, run, kind, hand, private, marker, dir, row, linked, boot, late, crashes>>

\* ... and merges what it finds into the receipt as it is by then.
RetryMerge ==
    /\ clear.at = "done" /\ clear.gone # {} /\ \E p \in Procs : Up(p)
    /\ clear' = Merged
    /\ UNCHANGED <<lease, run, kind, hand, private, marker, dir, row, linked, boot, late, crashes>>

-----------------------------------------------------------------------------
(* Startup.                                                                *)

BootGoes(p, b) == boot' = [boot EXCEPT ![p] = b]

\* _cleanup_building_root: the marker is read and its lease looked up ...
CleanupSnapshot(p) ==
    /\ boot[p].at = "cleanup"
    /\ BootGoes(p, [at |-> "list", seen |-> marker, todo |-> {},
                    live |-> lease = [term |-> marker, live |-> TRUE]])
    /\ UNCHANGED <<lease, run, kind, hand, private, marker, dir, row, linked, clear, late, crashes>>

\* ... then the entries are listed ...
CleanupList(p) ==
    /\ boot[p].at = "list"
    /\ BootGoes(p, [boot[p] EXCEPT !.at = "entries", !.todo = private])
    /\ UNCHANGED <<lease, run, kind, hand, private, marker, dir, row, linked, clear, late, crashes>>

Stale(d) == \A p \in Procs : hand[p].fence # d

\* A mutant: the marker's lease decided at the snapshot is not looked up again.
AbandonedBySnapshot(p, d) ==
    IF boot[p].seen # 0 THEN ~boot[p].live ELSE marker = 0 /\ Stale(d)

\* _delete_entry_for_inactive_marker_generation: under the write lock the marker is the one
\* seen and no term is live; an entry that had no marker has none now and is stale.
Abandoned(p, d) ==
    IF boot[p].seen # 0 THEN ~boot[p].live /\ marker = boot[p].seen /\ ~lease.live
    ELSE marker = 0 /\ Stale(d)

\* ... and each abandoned one is moved to the quarantine and deleted.
CleanupEntry(p, d) ==
    /\ boot[p].at = "entries" /\ d \in boot[p].todo
    /\ private' = IF Abandoned(p, d) THEN private \ {d} ELSE private
    /\ BootGoes(p, [boot[p] EXCEPT !.todo = @ \ {d}])
    /\ UNCHANGED <<kind, lease, run, hand, marker, dir, row, linked, clear, late, crashes>>

\* _unlink_inactive_marker_generation, by content and term under the write lock.
CleanupMarker(p) ==
    /\ boot[p].at = "entries" /\ boot[p].todo = {}
    /\ marker' = IF boot[p].seen # 0 /\ ~boot[p].live /\ marker = boot[p].seen /\ ~lease.live
                 THEN 0 ELSE marker
    /\ BootGoes(p, [Booting EXCEPT !.at = "recover"])
    /\ UNCHANGED <<lease, run, kind, hand, private, dir, row, linked, clear, late, crashes>>

\* _candidate: a complete directory that is not the publication of a run.
Recoverable == dir["old"] # 0

\* recover_skill_build_artifacts: a directory of an old version gets its row and its link.
Recover(p) ==
    /\ boot[p].at = "recover"
    /\ IF Recoverable
       THEN /\ row' = [row EXCEPT !["old"] = dir["old"]]
            /\ linked' = linked \cup {"old"}
       ELSE UNCHANGED <<row, linked>>
    /\ BootGoes(p, [boot[p] EXCEPT !.at = "replay"])
    /\ UNCHANGED <<lease, run, kind, hand, private, marker, dir, clear, late, crashes>>

\* replay_succeeded_artifact_file_cleanups: the targets of clears that ended, without the
\* artifacts that have a row.
ReplaySnapshot(p) ==
    /\ boot[p].at = "replay"
    /\ BootGoes(p, [boot[p] EXCEPT !.at = "targets",
          !.todo = IF clear.at = "done" THEN {a \in clear.ids : row[a] = 0} ELSE {}])
    /\ UNCHANGED <<lease, run, kind, hand, private, marker, dir, row, linked, clear, late, crashes>>

ReplayTarget(p, a) ==
    /\ boot[p].at = "targets" /\ a \in boot[p].todo
    /\ \E gone \in BOOLEAN : Tried(a, gone)
    /\ BootGoes(p, [boot[p] EXCEPT !.todo = @ \ {a}])
    /\ UNCHANGED <<lease, run, kind, hand, private, marker, row, linked, clear, late, crashes>>

BootDone(p) ==
    /\ boot[p].at = "targets" /\ boot[p].todo = {}
    /\ BootGoes(p, [Booting EXCEPT !.at = "up"])
    /\ UNCHANGED <<lease, run, kind, hand, private, marker, dir, row, linked, clear, late, crashes>>

\* An error ends the recovery, and the process starts without it.
BootFails(p) ==
    /\ boot[p].at # "up"
    /\ BootGoes(p, [Booting EXCEPT !.at = "up"])
    /\ UNCHANGED <<lease, run, kind, hand, private, marker, dir, row, linked, clear, late, crashes>>

\* What the clear, or a request that retries it, had found is lost with its process; the run is
\* taken up again from its list, a request is not.
Dropped == [clear EXCEPT !.todo = IF clear.at = "committed" THEN clear.ids ELSE {}, !.gone = {}]
Crash(p) ==
    /\ crashes < MaxCrashes
    /\ crashes' = crashes + 1
    /\ Ends(p)
    /\ BootGoes(p, Booting)
    /\ clear' \in {clear, Dropped}
    /\ UNCHANGED <<kind, lease, run, private, marker, dir, row, linked, late>>

HandlerStep(p) ==
    \/ LoadArtifact(p) \/ Mark(p) \/ MakeDir(p) \/ AskModel(p)
    \/ RenderText(p) \/ RenderPage(p) \/ RenderDeck(p) \/ Publish(p) \/ BuildFails(p)
    \/ ReadMarker(p) \/ UnlinkMarker(p) \/ Manifest(p) \/ Commit(p) \/ FailRun(p) \/ Fenced(p)
BootStep(p) ==
    \/ CleanupSnapshot(p) \/ CleanupList(p) \/ CleanupMarker(p) \/ Recover(p) \/ ReplaySnapshot(p) \/ BootDone(p)
    \/ BootFails(p)
    \/ \E d \in 1 .. MaxTerms : CleanupEntry(p, d)
    \/ \E a \in Artifacts : ReplayTarget(p, a)
ClearStep == ClearDone \/ \E a \in Artifacts : ClearDelete(a)

Next ==
    \/ \E p \in Procs : Acquire(p) \/ HandlerStep(p) \/ BootStep(p) \/ Crash(p)
    \/ Expire \/ ClearCommit \/ ClearStep \/ RetryAsk \/ RetryMerge

Spec == Init /\ [][Next]_vars

\* Handlers, startup, the clear run and the recovery of the run go on; a lease that is not
\* renewed runs out.  Nobody has to clear, and nothing has to crash.
FairSpec ==
    /\ Spec
    /\ \A p \in Procs : WF_vars(Acquire(p)) /\ WF_vars(HandlerStep(p)) /\ WF_vars(BootStep(p))
    /\ WF_vars(Expire) /\ WF_vars(ClearStep)

-----------------------------------------------------------------------------
(* Properties.                                                             *)

HandlerPlaces ==
    {"idle", "load", "mark", "mkdir", "unlink", "unlink failed", "unlink lost",
     "manifest", "commit", "fail"} \cup Unmarking \cup Building

TypeOK ==
    /\ lease \in [term : 0 .. MaxTerms, live : BOOLEAN]
    /\ run \in {"active", "succeeded", "failed"} /\ kind \in Kinds
    /\ hand \in [Procs -> [at : HandlerPlaces, fence : 0 .. MaxTerms]]
    /\ private \subseteq 1 .. lease.term /\ marker \in 0 .. lease.term
    /\ dir \in [Artifacts -> {Old} \cup 0 .. lease.term]
    /\ row \in [Artifacts -> {Old} \cup 0 .. lease.term]
    /\ linked \subseteq {a \in Artifacts : row[a] # 0}
    /\ clear.at \in {"none", "committed", "done"} /\ clear.ids \subseteq Artifacts
    /\ clear.todo \cup clear.gone \cup clear.left \subseteq clear.ids
    /\ \A p \in Procs :
           /\ boot[p].at \in {"cleanup", "list", "entries", "recover", "replay", "targets", "up"}
           /\ boot[p].seen \in 0 .. lease.term /\ boot[p].live \in BOOLEAN
           /\ boot[p].todo \subseteq IF boot[p].at = "targets" THEN Artifacts ELSE 1 .. lease.term
    /\ crashes \in 0 .. MaxCrashes

\* A registered artifact has its bytes, and they are the bytes it was registered for: no
\* late publication replaces them and no cleanup, online or at startup, deletes them.
RowHasItsBytes == \A a \in Artifacts : row[a] # 0 => dir[a] = row[a]

\* The build of the term that holds the lease is never removed by a process that starts up
\* meanwhile, whatever markers of earlier terms it has seen.
LiveBuildKept ==
    \A p \in Procs : hand[p].at \in Building /\ Owns(p) => hand[p].fence \in private

\* When a clear has ended, an artifact is gone from the disk or its receipt says that it is not,
\* except the bytes that a late handler published after the commit: deletions that fail, requests
\* that try them again, an old directory that a startup registers meanwhile and a handler that dies
\* between a deletion and the receipt included.
ClearedIsGone ==
    \A a \in clear.ids : clear.at = "done" => dir[a] = 0 \/ (a = "new" /\ late) \/ a \in clear.left

\* A clear that has committed comes to its end.
ClearSettles == clear.at = "committed" ~> clear.at = "done"

=============================================================================
