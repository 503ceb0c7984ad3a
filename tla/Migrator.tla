------------------------------- MODULE Migrator -------------------------------
(***************************************************************************)
(* The schema migrations (adapters/repo/migrator.py).  Processes of        *)
(* several builds, each with its catalog of migration files, open one      *)
(* database at the same time; each version runs in a transaction that      *)
(* looks at schema_version again, and any process may die between two of   *)
(* them.  Of the files only the versions the code treats specially are     *)
(* kept, under their numbers.                                              *)
(***************************************************************************)
EXTENDS Naturals, FiniteSets, FiniteSetsExt

CONSTANTS
    Procs,     \* processes that run run_migrations()
    Builds,    \* builds, a subset of the domain of Catalogs
    MaxStarts, \* bound: starts of processes
    MaxFaults  \* bound: transactions that fail (busy, disk) and deaths

VARIABLES
    db,     \* rows: version -> description and bound file; the schema the versions act on
    proc,   \* place, build, versions read as applied, files left, (history) unknown versions
    ran,    \* history: version -> how often its statements were committed
    backwards, \* history: versions that ran on a database with a later one
    starts, faults

vars == <<db, proc, ran, backwards, starts, faults>>

----------------------------------------------------------------------------
Restored == {6, 7, 8, 9}  \* _RESTORED_HISTORICAL_VERSIONS
Checksums == 30           \* 030_migration_checksums
Versions == {5} \cup Restored \cup {12, 13, 18, Checksums, 37}
NoFile == "none"

\* _discover(): the files of a build, by version.  An older release, one that was built before
\* the historical files came back, and one whose file 12 was changed.
Catalogs ==
    [now     |-> [v \in Versions |-> "a"],
     older   |-> [v \in Versions \ {37} |-> "a"],
     without |-> [v \in Versions \ Restored |-> "a"],
     drifted |-> [v \in Versions |-> IF v = 12 THEN "b" ELSE "a"]]
Catalog(p) == Catalogs[proc[p].build]
Files(p) == DOMAIN Catalog(p)

Row(desc, file) == [desc |-> desc, file |-> file]
\* The databases that exist: a new one, one of the published v0.2 lineage (whose version 5 was
\* another file), one of the consolidated lineage, and one that has the checksums.
Database(rows, control, label, custom) ==
    [rows |-> rows, device |-> control # "none", control |-> control, archived |-> FALSE,
     label |-> label, custom |-> custom]
Fresh == Database([v \in {} |-> Row("file", NoFile)], "none", "none", {})
Merged(applied, file) == Database([v \in applied |-> Row("file", file)], "new", "none", {})
Published(custom) ==
    Database([v \in {5} \cup Restored |-> Row(IF v = 5 THEN "published" ELSE "file", NoFile)],
             "legacy", "user", custom)
Databases == {Fresh, Merged({5, 12, 13, 18}, NoFile), Merged({5, 12, 13, 18, Checksums}, "a")}
             \cup {Published(own) : own \in {{}, {"view"}, {"index"}}}

Place(at, build, applied, todo) ==
    [at |-> at, build |-> build, applied |-> applied, todo |-> todo, unknown |-> {}]
NoProc == Place("down", CHOOSE b \in Builds : TRUE, {}, {})
Init ==
    /\ db \in Databases
    /\ proc = [p \in Procs |-> NoProc]
    /\ ran = [v \in Versions |-> 0] /\ backwards = {}
    /\ starts = 0 /\ faults = 0

Applied == DOMAIN db.rows
HasChecksums(rows) == Checksums \in DOMAIN rows
Goes(p, place) == proc' = [proc EXCEPT ![p].at = place]
Fault == faults < MaxFaults /\ faults' = faults + 1

----------------------------------------------------------------------------
\* run_migrations(): the versions are read, and their registrations with the next statement.
Start(p, b) ==
    /\ proc[p].at \in {"down", "open", "failed"} /\ starts < MaxStarts
    /\ starts' = starts + 1
    /\ proc' = [proc EXCEPT ![p] = Place("check", b, Applied, DOMAIN Catalogs[b])]
    /\ UNCHANGED <<db, ran, backwards, faults>>

Unbound(row) == row.file = NoFile
Agrees(p, v) == v \in Files(p) /\ db.rows[v].file = Catalog(p)[v]
PublishedUnbound(v, row) == v = 5 /\ row.desc = "published" /\ Unbound(row)
\* _assert_applied_catalog()
CatalogHolds(p) ==
    HasChecksums(db.rows) =>
        \A v \in Applied :
            \/ PublishedUnbound(v, db.rows[v])
            \/ Unbound(db.rows[v]) /\ v \notin Files(p)
            \/ Agrees(p, v)

Newer(p) == {v \in proc[p].applied : v > Max(Files(p))}
PartlyRestored(applied) ==
    /\ \E v \in applied : v > Max(Restored)
    /\ applied \cap Restored \notin {{}, Restored}
Check(p) ==
    /\ proc[p].at = "check"
    /\ Goes(p, IF Newer(p) = {} /\ ~PartlyRestored(proc[p].applied) /\ CatalogHolds(p) THEN "apply" ELSE "failed")
    /\ UNCHANGED <<db, ran, backwards, starts, faults>>

----------------------------------------------------------------------------
\* The statements of one version, with what is prepared before and finished after them; an empty
\* set when one fails and the transaction is rolled back.
\* Variant: the column is added again.
DeviceColumnTwice(d) == IF d.device THEN {} ELSE {[d EXCEPT !.device = TRUE]}
\* _v12_statement_already_satisfied(): a column that version 6 added is accepted.
DeviceColumn(d) ==
    IF d.device /\ 6 \notin DOMAIN d.rows THEN {} ELSE {[d EXCEPT !.device = TRUE]}

\* Variant: the labels of the published lineage are not put back.
LabelsDropped(d) == [d EXCEPT !.label = "none"]
\* _prepare_published_v13_tx(), _finalize_published_legacy_schema_tx()
LabelsRestored(d) ==
    IF 5 \in DOMAIN d.rows /\ d.rows[5].desc = "published" THEN d ELSE [d EXCEPT !.label = "none"]
\* Variant: the objects that go with the table are not looked for.
RebuiltBlind(d) == {[d EXCEPT !.custom = {}]}
\* _rebuild_dependents() and the two assertions: a view is found before, an index after.
Rebuilt(d) == IF d.custom = {} THEN {d} ELSE {}

\* _prepare_published_v18_tx(): the control tables of version 8 are put aside under another name.
ControlTables(d) ==
    CASE 8 \in DOMAIN d.rows -> IF d.control = "legacy" /\ ~d.archived
                                THEN {[[d EXCEPT !.control = "new"] EXCEPT !.archived = TRUE]} ELSE {}
      [] OTHER -> IF d.control = "none" THEN {[d EXCEPT !.control = "new"]} ELSE {}

Statements(v, d) ==
    CASE v = 6  -> IF d.device THEN {} ELSE {[d EXCEPT !.device = TRUE]}
      [] v = 8  -> {[d EXCEPT !.control = IF @ = "none" THEN "legacy" ELSE @]}
      [] v = 12 -> DeviceColumn(d)
      [] v = 13 -> {LabelsRestored(e) : e \in Rebuilt(d)}
      [] v = 18 -> ControlTables(d)
      [] v = 37 -> {[d EXCEPT !.label = IF @ = "none" THEN "default" ELSE @]}
      [] OTHER  -> {d}

\* _insert_schema_version_tx() and _backfill_migration_checksums_tx(): from version 30 on, every
\* row with a file in the catalog is bound to it, the published version 5 never.
Registered(p, v, rows) ==
    LET more == [w \in DOMAIN rows \cup {v} |->
                    IF w = v THEN Row("file", IF HasChecksums(rows) \/ v = Checksums THEN Catalog(p)[v] ELSE NoFile)
                    ELSE rows[w]]
    IN [w \in DOMAIN more |->
           IF HasChecksums(more) /\ Unbound(more[w]) /\ w \in Files(p) /\ ~PublishedUnbound(w, more[w])
           THEN Row(more[w].desc, Catalog(p)[w]) ELSE more[w]]
Bindable(p, rows) ==
    HasChecksums(rows) => \A w \in DOMAIN rows \cap Files(p) :
        Unbound(rows[w]) \/ rows[w].file = Catalog(p)[w]

\* Variant: what was read at the start is not read again under the lock.
AlreadyThereStale(p, v) == v \in proc[p].applied
AlreadyThere(p, v) == v \in Applied
\* Variant: historical files run whenever they have not.
NotApplicableNever(v, applied) == FALSE
\* _restored_history_not_applicable()
NotApplicable(v, applied) ==
    /\ v \in Restored \ applied /\ applied \cap Restored = {}
    /\ \E w \in applied : w > Max(Restored)

Done(p, v) == proc' = [proc EXCEPT ![p].todo = @ \ {v}]

\* The loop of run_migrations() and _apply_one(): files in the order of their numbers, each in a
\* transaction, and the end at the first error.
Skip(p, v) == (v \in proc[p].applied \/ NotApplicable(v, proc[p].applied)) /\ Done(p, v) /\ UNCHANGED <<db, ran, backwards>>
Confirm(p, v) ==
    /\ AlreadyThere(p, v)
    /\ IF v \in Applied /\ HasChecksums(db.rows) /\ db.rows[v].file # Catalog(p)[v] THEN Goes(p, "failed") ELSE Done(p, v)
    /\ UNCHANGED <<db, ran, backwards>>
Run(p, v) ==
    /\ ~AlreadyThere(p, v)
    /\ IF Statements(v, db) = {} \/ ~Bindable(p, db.rows)
       THEN Goes(p, "failed") /\ UNCHANGED <<db, ran, backwards>>
       ELSE /\ \E d \in Statements(v, db) : db' = [d EXCEPT !.rows = Registered(p, v, db.rows)]
            /\ ran' = [ran EXCEPT ![v] = @ + 1]
            /\ backwards' = IF \E w \in Applied : w > v THEN backwards \cup {v} ELSE backwards
            /\ Done(p, v)
\* Variant: the files are not in the order of their numbers.
NextFileLast(p) == Max(proc[p].todo)
NextFile(p) == Min(proc[p].todo)
Apply(p) ==
    LET v == NextFile(p) IN
    /\ proc[p].at = "apply" /\ proc[p].todo # {}
    /\ \/ Skip(p, v)
       \/ /\ v \notin proc[p].applied /\ ~NotApplicable(v, proc[p].applied)
          /\ Confirm(p, v) \/ Run(p, v)
    /\ UNCHANGED <<starts, faults>>

\* BEGIN IMMEDIATE waits too long, or the disk is full.
Busy(p) ==
    /\ Fault /\ proc[p].at = "apply" /\ proc[p].todo # {}
    /\ Goes(p, "failed")
    /\ UNCHANGED <<db, ran, backwards, starts>>

Die(p) ==
    /\ Fault /\ proc[p].at \in {"check", "apply"}
    /\ Goes(p, "down")
    /\ UNCHANGED <<db, ran, backwards, starts>>

\* Variant: the catalog is compared only at the start.
KnownAtTheEndNot(p) == TRUE
KnownAtTheEnd(p) == CatalogHolds(p)
\* The versions that are bound to a file the process does not have.
Unknown(p) == {v \in Applied \ Files(p) : ~Unbound(db.rows[v])}
\* The last comparison, after which the caller starts or gives up (main._run_db_migrations).
Open(p) ==
    /\ proc[p].at = "apply" /\ proc[p].todo = {}
    /\ proc' = [proc EXCEPT ![p] = [[@ EXCEPT !.at = IF KnownAtTheEnd(p) THEN "open" ELSE "failed"]
                                       EXCEPT !.unknown = Unknown(p)]]
    /\ UNCHANGED <<db, ran, backwards, starts, faults>>

----------------------------------------------------------------------------
Migrates(p) == Check(p) \/ Apply(p) \/ Open(p)
Next ==
    \E p \in Procs :
        \/ Migrates(p)
        \/ Busy(p) \/ Die(p)
        \/ \E b \in Builds : Start(p, b)

Spec == Init /\ [][Next]_vars

----------------------------------------------------------------------------
TypeOK ==
    /\ Applied \subseteq Versions
    /\ \A v \in Applied : db.rows[v].file \in {NoFile, "a", "b"}
    /\ db.control \in {"none", "legacy", "new"} /\ db.label \in {"none", "default", "user"}
    /\ \A p \in Procs : proc[p].at \in {"down", "check", "apply", "open", "failed"} /\ proc[p].todo \subseteq Versions

\* Two processes that start together, whatever they had read before, commit the statements of a
\* version once (the second look under BEGIN IMMEDIATE in _apply_one).
RunsOnce == \A v \in Versions : ran[v] <= 1

\* No version runs on a database that is past it: only a historical one may, and only beside a
\* process of a build that does not have those files (_restored_history_not_applicable).
NeverBackwards ==
    /\ backwards \subseteq Restored
    /\ backwards # {} => \E b \in Builds : Restored \cap DOMAIN Catalogs[b] = {}

\* A process opens the database only if it knows every version registered at that moment, also
\* those that a newer build applied while it was migrating (the last _assert_applied_catalog).
OpensOnlyKnown == \A p \in Procs : proc[p].at = "open" => proc[p].unknown = {}

UserDataStays == db.label = "user" => db'.label = "user" /\ db.custom \subseteq db'.custom

\* What the user had is there after every step: names given to speakers in the published version,
\* and indexes or views that no migration knows (_finalize_published_legacy_schema_tx,
\* _assert_rebuild_dependents_preserved).
UserDataKept == [][UserDataStays]_vars

\* Process p is about to run the statements of version v.
Faces(p, v) == proc[p].at = "apply" /\ proc[p].todo # {} /\ NextFile(p) = v
\* A registration that the build of p does not share: a later version, one that is bound to
\* another file than its own, or one that a build without the file left unbound.
Disowned(p) ==
    \E v \in Applied :
        \/ v > Max(Files(p))
        \/ /\ HasChecksums(db.rows) /\ ~PublishedUnbound(v, db.rows[v])
           /\ db.rows[v].file # IF v \in Files(p) THEN Catalog(p)[v] ELSE NoFile

FailureHasACause ==
    \A p \in Procs : proc[p].at # "failed" /\ proc'[p].at = "failed" =>
        \/ faults' # faults \/ Disowned(p)
        \/ Faces(p, 13) /\ db.custom # {}
        \/ proc[p].at = "check" /\ PartlyRestored(proc[p].applied)
        \/ Faces(p, 6) /\ NotApplicable(6, Applied) /\ ~NotApplicable(6, proc[p].applied)

\* A start fails only for a cause: a fault; a registration that its build does not share; an object
\* that no migration knows, when version 13 rebuilds its table; historical files that were left half
\* done, or that the database passed between the reading of the versions and their turn.  So a
\* fresh database and both lineages reach the end (the statements that are already satisfied).
FailsForACause == [][FailureHasACause]_vars

=============================================================================
