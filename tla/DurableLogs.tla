---------------------------- MODULE DurableLogs ----------------------------
(***************************************************************************)
(* The three numbered logs of the backend that grow while others read      *)
(* them: the events of an agent's session, which its workers write and     *)
(* resume from (SessionCheckpoints); the changes of an owner, which the    *)
(* sockets of /sync/events send on (ChangeWaiters); and schema_version,    *)
(* which processes of several builds bring up to date (Migrator).          *)
(***************************************************************************)
EXTENDS Naturals

CONSTANTS
    Workers, Identity, None, MaxEvents, MaxSaves, MaxLosses,
    Sockets, Page, MaxChanges, MaxDrops,
    Migrators, Builds, MaxStarts, MaxBreaks

\* The builds are known by their catalogs (Migrator).
ASSUME BuildsExist == Builds # {} /\ Builds \subseteq {"now", "older", "without", "drifted"}

VARIABLES
    session, events, stored, work, acked, late, over, losses,
    log, unsaid, event, sock, revoked, taken, drops,
    db, proc, ran, backwards, starts, breaks

Session == INSTANCE SessionCheckpoints WITH faults <- losses, MaxFaults <- MaxLosses
Waiters == INSTANCE ChangeWaiters
Schema == INSTANCE Migrator WITH Procs <- Migrators, MaxFaults <- MaxBreaks, faults <- breaks
schemaVars == <<db, proc, ran, backwards, starts, breaks>>

\* A worker of an agent's session and its successor, at work at the same time, leave a log without
\* gaps and checkpoints that it covers; the successor resumes with the newest one; no worker of
\* another identity gets in; and a finalized session stays finalized (SessionCheckpoints).
CheckpointsAreSound ==
    /\ Session!EventsAreDense /\ Session!CheckpointIsCovered /\ Session!OneIdentity
    /\ Session!LatestIsNewest /\ Session!FinalizedStays

\* A socket sends the changes in order and without a gap, and sleeps beside an announced change
\* only if another socket cleared the event that they share (ChangeWaiters).
WaitersMissNothing == Waiters!NoGap /\ Waiters!MissedOnlyByOthers

\* Processes of several builds that start together run every migration once and in order, open
\* only a database they know, lose nothing the user had, and fail only for a cause (Migrator).
MigrationIsSafe ==
    /\ [](Schema!RunsOnce /\ Schema!NeverBackwards /\ Schema!OpensOnlyKnown)
    /\ [][Schema!UserDataStays /\ Schema!FailureHasACause]_schemaVars

=============================================================================
