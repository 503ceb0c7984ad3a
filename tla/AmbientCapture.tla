--------------------------- MODULE AmbientCapture ---------------------------
(***************************************************************************)
(* Ambient recording of one public owner (use_cases/ambient_capture.py).   *)
(* A chunk that passes the audio gate is kept as a WAV: under the storage  *)
(* lock old files are collected, a byte of the durable budget is reserved  *)
(* (security/governor.py), the file is written and registered.  Then it is *)
(* transcribed, one call at a time, and the transcript row that names the  *)
(* file is written, outside the lock.  Uploads charge the same ledger row  *)
(* (upload/ownership.py).  A file, a charge and an upload have size 1.     *)
(***************************************************************************)
EXTENDS Naturals, Sequences, FiniteSets, SequencesExt

CONSTANTS
    Chunks,     \* captured chunks; each names its WAV and its transcript row
    Cap,        \* ambient_audio_owner_max_bytes
    Quota,      \* quota_storage_bytes
    None,
    MaxUploads, \* bound: uploads the owner holds
    MaxFaults   \* bound: failed calls and crashes

VARIABLES
    disk,      \* the WAV files, oldest first
    rec,       \* ambient_audio_files: the registered ones
    ref,       \* ambient_segments: "none" (no row), "file" (names the WAV), "cleared"
    ledger,    \* principal_quota_ledger, storage_bytes / lifetime
    uploads,   \* rag_content_owners of this owner
    lock,      \* the chunk inside _storage_lock
    gc,        \* its collection: pass, registered files that are missing, files past their
               \* retention, files it could not unlink
    at,        \* where each chunk is in ingest_chunk()
    stt,       \* the chunk inside _stt_lock
    overtaken, \* history: files released before their transcript row was written
    leaked,    \* history: charges whose release failed
    rewritten, \* history: an upload or a start wrote the ledger
    faults

vars == <<disk, rec, ref, ledger, uploads, lock, gc, at, stt, overtaken, leaked, rewritten, faults>>
storage == <<disk, rec, ref, ledger, uploads, overtaken, leaked, rewritten>>

Places == {"idle", "gated", "quality", "collect", "release", "reserve", "write", "register",
           "stt", "transcribing", "store", "returned", "raised"}
NoGc == [pass |-> 0, only |-> FALSE, missing |-> {}, expired |-> {}, stuck |-> {}, victim |-> None]

Init ==
    /\ disk = <<>> /\ rec = {} /\ ref = [c \in Chunks |-> "none"]
    /\ ledger = 0 /\ uploads = 0
    /\ lock = None /\ gc = NoGc /\ at = [c \in Chunks |-> "idle"] /\ stt = None
    /\ overtaken = {} /\ leaked = 0 /\ rewritten = FALSE /\ faults = 0

Goes(c, place) == at' = [at EXCEPT ![c] = place]
Fault == faults < MaxFaults /\ faults' = faults + 1
OnDisk == ToSet(disk)

\* Variant: the new file is not counted.
OverWithoutNew(required) == Len(disk) > Cap
\* The owner's files and the new one exceed the cap.
Over(required) == Len(disk) + required > Cap

----------------------------------------------------------------------------
\* ingest_chunk() up to pre_stt_gate().
Arrive(c) ==
    /\ at[c] = "idle"
    /\ \E place \in {"gated", "quality"} : Goes(c, place)
    /\ UNCHANGED <<storage, lock, gc, stt, faults>>

\* collect_garbage() and _persist_quality_wav() take the lock and scan the owner's files; those
\* past the retention are the oldest ones.
Lock(c) ==
    /\ at[c] \in {"gated", "quality"} /\ lock = None
    /\ lock' = c
    /\ \E n \in 0..Len(disk) :
        gc' = [NoGc EXCEPT !.pass = 1, !.only = (at[c] = "gated"), !.missing = rec \ OnDisk,
                           !.expired = ToSet(SubSeq(disk, 1, n))]
    /\ Goes(c, "collect")
    /\ UNCHANGED <<storage, stt, faults>>

Required == IF gc.only THEN 0 ELSE 1

\* Variants: the lock is kept when the chunk is refused; the scan of the last one stays.
UnlockUnlessRaised(c, place) ==
    /\ (IF place = "raised" THEN UNCHANGED <<lock, gc>> ELSE lock' = None /\ gc' = NoGc)
    /\ Goes(c, IF gc.only THEN "returned" ELSE place)
UnlockScanKept(c, place) == lock' = None /\ gc' = gc /\ Goes(c, IF gc.only THEN "returned" ELSE place)

\* The end of the locked part: a chunk that only collects returns, the other goes on or raises.
Unlock(c, place) ==
    /\ lock' = None /\ gc' = NoGc
    /\ Goes(c, IF gc.only THEN "returned" ELSE place)

\* _garbage_collect_locked() cannot scan the directory, or cannot list the registry.
ScanFails(c) ==
    /\ lock = c /\ at[c] = "collect" /\ gc.pass = 1 /\ gc.missing = rec \ OnDisk /\ gc.stuck = {} /\ Fault
    /\ \/ Unlock(c, "raised")
       \/ Over(Required) /\ Unlock(c, "raised")
       \/ ~Over(Required) /\ ~gc.only /\ Goes(c, "reserve") /\ UNCHANGED <<lock, gc>>
    /\ UNCHANGED <<storage, stt>>

\* Variants: the row stays; the reference stays.
ReleasedRowKept(f) ==
    /\ rec' = rec /\ ledger' = IF f \in rec /\ ledger > 0 THEN ledger - 1 ELSE ledger
    /\ UNCHANGED <<ref, overtaken>>
ReleasedRefKept(f) ==
    /\ rec' = rec \ {f} /\ ledger' = IF f \in rec /\ ledger > 0 THEN ledger - 1 ELSE ledger
    /\ ref' = ref
    /\ overtaken' = IF ref[f] = "none" THEN overtaken \union {f} ELSE overtaken

\* release_registered_ambient_storage(), one transaction: the row, the reference in the
\* transcript and the charge.  Without a row only the reference goes
\* (delete_ambient_audio_file()).
Released(f) ==
    /\ rec' = rec \ {f}
    /\ ledger' = IF f \in rec /\ ledger > 0 THEN ledger - 1 ELSE ledger
    /\ ref' = [ref EXCEPT ![f] = IF @ = "file" THEN "cleared" ELSE @]
    /\ overtaken' = IF ref[f] = "none" THEN overtaken \union {f} ELSE overtaken

\* _reconcile_missing_audio(): a registered file that is no longer there.
ReconcileMissing(c, f) ==
    /\ lock = c /\ at[c] = "collect" /\ f \in gc.missing
    /\ gc' = [gc EXCEPT !.missing = @ \ {f}]
    /\ \/ Released(f) /\ UNCHANGED faults
       \/ Fault /\ UNCHANGED <<rec, ref, ledger, overtaken>>
    /\ UNCHANGED <<disk, uploads, leaked, rewritten, lock, at, stt>>

\* The files to delete, by age: in the first pass those past their retention, in the second all,
\* until the new file fits.
Deletable(f) == f \notin gc.stuck /\ (IF gc.pass = 1 THEN f \in gc.expired ELSE Over(Required))
Candidates == {i \in DOMAIN disk : Deletable(disk[i])}

\* _delete_owner_audio(): the file goes first ...
DeleteFile(c) ==
    /\ lock = c /\ at[c] = "collect"
    /\ gc.missing = {} /\ Candidates # {}
    /\ gc' = [gc EXCEPT !.victim = disk[Min(Candidates)]]
    /\ disk' = RemoveAt(disk, Min(Candidates))
    /\ Goes(c, "release")
    /\ UNCHANGED <<rec, ref, ledger, uploads, overtaken, leaked, rewritten, lock, stt, faults>>

\* ... or cannot be removed, and the next one is tried.
DeleteFileFails(c) ==
    /\ lock = c /\ at[c] = "collect" /\ gc.missing = {} /\ Candidates # {} /\ Fault
    /\ gc' = [gc EXCEPT !.stuck = @ \union {disk[Min(Candidates)]}]
    /\ UNCHANGED <<storage, lock, at, stt>>

\* ... then the rows and the charge; when that fails the row stays for a later collection.
DeleteRows(c) ==
    /\ lock = c /\ at[c] = "release"
    /\ \/ Released(gc.victim) /\ UNCHANGED faults
       \/ Fault /\ UNCHANGED <<rec, ref, ledger, overtaken>>
    /\ gc' = [gc EXCEPT !.victim = None] /\ Goes(c, "collect")
    /\ UNCHANGED <<disk, uploads, leaked, rewritten, lock, stt>>

NextPass(c) ==
    /\ lock = c /\ at[c] = "collect" /\ gc.pass = 1 /\ gc.missing = {} /\ Candidates = {}
    /\ gc' = [gc EXCEPT !.pass = 2, !.stuck = {}]
    /\ UNCHANGED <<storage, lock, at, stt, faults>>

\* QuotaExceeded when the file does not fit, else the collection is over.
CollectEnds(c) ==
    /\ lock = c /\ at[c] = "collect" /\ gc.pass = 2 /\ Candidates = {}
    /\ IF Over(Required) \/ gc.only THEN Unlock(c, "raised") ELSE Goes(c, "reserve") /\ UNCHANGED <<lock, gc>>
    /\ UNCHANGED <<storage, stt, faults>>

----------------------------------------------------------------------------
\* reserve_storage(): the durable budget has room, or QuotaExceeded.
Reserve(c) ==
    /\ at[c] = "reserve"
    /\ IF ledger + 1 > Quota THEN Unlock(c, "raised") /\ UNCHANGED ledger
       ELSE ledger' = ledger + 1 /\ Goes(c, "write") /\ UNCHANGED <<lock, gc>>
    /\ UNCHANGED <<disk, rec, ref, uploads, overtaken, leaked, rewritten, stt, faults>>

\* _cleanup_failed_store(): reservation.release(); when it fails the charge stays.
CleansUp(c) ==
    /\ \/ ledger' = (IF ledger > 0 THEN ledger - 1 ELSE 0) /\ UNCHANGED leaked
       \/ ledger' = ledger /\ leaked' = leaked + 1
    /\ Unlock(c, "raised")

\* _write_wav_atomic().
Write(c) ==
    /\ at[c] = "write"
    /\ \/ disk' = Append(disk, c) /\ Goes(c, "register") /\ UNCHANGED <<ledger, leaked, lock, gc, faults>>
       \/ Fault /\ CleansUp(c) /\ UNCHANGED disk
    /\ UNCHANGED <<rec, ref, uploads, overtaken, rewritten, stt>>

\* register_ambient_audio_file() and settle(); when it fails the file is removed if possible.
Register(c) ==
    /\ at[c] = "register"
    /\ \/ rec' = rec \union {c} /\ Unlock(c, "stt") /\ UNCHANGED <<disk, ledger, leaked, faults>>
       \/ /\ Fault /\ CleansUp(c) /\ UNCHANGED rec
          /\ disk' \in {disk, Front(disk)}
    /\ UNCHANGED <<ref, uploads, overtaken, rewritten, stt>>

----------------------------------------------------------------------------
\* _safe_stt(): a call that is running makes this one fail at once.
Transcribe(c) ==
    /\ at[c] = "stt"
    /\ IF stt = None THEN stt' = c /\ Goes(c, "transcribing")
       ELSE Goes(c, "returned") /\ UNCHANGED stt
    /\ UNCHANGED <<storage, lock, gc, faults>>

\* The call ends: with text that passes the filters, with nothing to store (failed, empty,
\* hallucinated, repeated), or with a typed error that ingest_chunk() does not catch.
Transcribed(c) ==
    /\ stt = c /\ stt' = None
    /\ \E place \in {"store", "returned", "raised"} : Goes(c, place)
    /\ UNCHANGED <<storage, lock, gc, faults>>

\* append_ambient_segment() with the reference of the file, or its failure.
StoreSegment(c) ==
    /\ at[c] = "store" /\ Goes(c, "returned")
    /\ \/ ref' = [ref EXCEPT ![c] = "file"] /\ UNCHANGED faults
       \/ Fault /\ UNCHANGED ref
    /\ UNCHANGED <<disk, rec, ledger, uploads, overtaken, leaked, rewritten, lock, gc, stt>>

----------------------------------------------------------------------------
\* claim_rag_content() and release_rag_content_claim() write the ledger from the uploads alone
\* (_actual_storage_usage()).
Upload ==
    /\ \/ uploads < MaxUploads /\ uploads + 1 <= Quota /\ uploads' = uploads + 1
       \/ uploads > 0 /\ uploads' = uploads - 1
    /\ ledger' = uploads' /\ rewritten' = TRUE
    /\ UNCHANGED <<disk, rec, ref, overtaken, leaked, lock, gc, at, stt, faults>>

\* The process stops; the next start rebuilds the ledger (_rebuild_storage_ledgers()).
Restart ==
    /\ Fault
    /\ lock' = None /\ gc' = NoGc /\ stt' = None
    /\ at' = [c \in Chunks |-> IF at[c] \in {"idle", "returned"} THEN at[c] ELSE "raised"]
    /\ ledger' = uploads /\ rewritten' = TRUE
    /\ UNCHANGED <<disk, rec, ref, uploads, overtaken, leaked>>

Step(c) ==
    \/ Lock(c) \/ DeleteFile(c) \/ DeleteRows(c) \/ NextPass(c) \/ CollectEnds(c)
    \/ Reserve(c) \/ Write(c) \/ Register(c) \/ Transcribe(c) \/ Transcribed(c) \/ StoreSegment(c)
    \/ \E f \in Chunks : ReconcileMissing(c, f)

Next ==
    \/ \E c \in Chunks : Arrive(c) \/ Step(c) \/ ScanFails(c) \/ DeleteFileFails(c)
    \/ Upload \/ Restart

----------------------------------------------------------------------------
Charged == Cardinality(rec) + Cardinality({c \in Chunks : at[c] \in {"write", "register"}}) + uploads + leaked

TypeOK ==
    /\ disk \in Seq(Chunks) /\ IsInjective(disk) /\ rec \subseteq Chunks
    /\ ref \in [Chunks -> {"none", "file", "cleared"}]
    /\ ledger \in Nat /\ uploads \in 0..MaxUploads
    /\ lock \in Chunks \union {None} /\ stt \in Chunks \union {None}
    /\ gc.pass \in 0..2 /\ (gc = NoGc <=> lock = None)
    /\ at \in [Chunks -> Places] /\ overtaken \subseteq Chunks
    /\ leaked \in Nat /\ rewritten \in BOOLEAN /\ faults \in 0..MaxFaults

\* The durable ledger (governor.py) never counts a file, a reservation in flight or an upload
\* twice, whatever fails between the unlink, the row and the charge; as long as neither an
\* upload nor a start has rewritten it, it counts each of them.
LedgerIsExact == ledger <= Charged /\ (~rewritten => ledger = Charged)

\* The collection under the storage lock keeps the owner's files within the cap, the new file
\* and the files no row knows of included (_garbage_collect_locked()).
CapHolds == Len(disk) <= Cap

\* A transcript that names a WAV which is gone is repaired by the next collection, because the
\* row is still registered; the only others are those whose file was collected before the
\* transcript was written (_delete_owner_audio(), append_ambient_segment()).
RefIsRepairable == \A c \in Chunks : ref[c] = "file" /\ c \notin OnDisk => c \in rec \union overtaken

\* What the comment on ambient_audio_owner_max_bytes says (config.py): the audio, too, stays
\* within the total persistence budget quota_storage_bytes.
StorageWithinBudget == Cardinality(rec) + uploads <= Quota

AllReturned == \A c \in Chunks : at[c] \in {"idle", "returned", "raised"}

\* Every chunk that is posted is answered, whatever the storage does (ingest_chunk()).
ChunkReturns == []<>AllReturned

Spec == Init /\ [][Next]_vars
FairSpec == Spec /\ \A c \in Chunks : WF_vars(Step(c))

=============================================================================
