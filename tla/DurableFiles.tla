---------------------------- MODULE DurableFiles ----------------------------
(***************************************************************************)
(* The files that rows of the database account for: the recordings of an   *)
(* owner, which are charged to a durable ledger (AmbientCapture), and the  *)
(* bytes of generated artifacts, which are registered for a run            *)
(* (ArtifactStore).  No transaction covers a row and its file.             *)
(***************************************************************************)
EXTENDS Integers

CONSTANTS
    Chunks, Cap, Quota, None, MaxUploads, MaxWavFaults,
    Builders, MaxTerms, MaxCrashes

\* The bounds are numbers.
ASSUME FileBounds ==
    /\ Cap \in Nat /\ Quota \in Nat /\ MaxUploads \in Nat /\ MaxWavFaults \in Nat
    /\ MaxTerms \in Nat /\ MaxCrashes \in Nat

\* None is no chunk.
ASSUME NoneIsNoChunk == None \notin Chunks

VARIABLES
    wavs, files, ref, ledger, uploads, storage, gc, chunk, stt, overtaken, leaked, rewritten,
    wavFaults,
    lease, build, kind, maker, private, marker, dir, artifact, linked, clear, boot, late,
    crashes

wavVars == <<wavs, files, ref, ledger, uploads, storage, gc, chunk, stt, overtaken, leaked, rewritten,
             wavFaults>>
artVars == <<lease, build, kind, maker, private, marker, dir, artifact, linked, clear, boot, late,
             crashes>>

Ambient == INSTANCE AmbientCapture WITH
    disk <- wavs, rec <- files, lock <- storage, at <- chunk, faults <- wavFaults,
    MaxFaults <- MaxWavFaults
Artifacts == INSTANCE ArtifactStore WITH
    Procs <- Builders, run <- build, hand <- maker, row <- artifact

\* What the recordings cost is charged and released exactly, they stay within their cap, and a
\* transcript row that names a collected recording can be repaired (AmbientCapture).
ChargesAreExact == Ambient!LedgerIsExact /\ Ambient!CapHolds /\ Ambient!RefIsRepairable

\* A registered artifact has the bytes it was registered for, no cleanup removes a build that is
\* alive, and what a clear could not remove is in its receipt (ArtifactStore).
ArtifactsAreKept == Artifacts!RowHasItsBytes /\ Artifacts!LiveBuildKept /\ Artifacts!ClearedIsGone

=============================================================================
