------------------------------ MODULE SyncHub ------------------------------
(***************************************************************************)
(* The sync hub (sync_hub/store.py) for one owner: the log of changes with *)
(* its cursors, the operations it remembers, and the rows it writes.       *)
(* A hub is a record; the operators below are its transactions and reads.  *)
(***************************************************************************)
EXTENDS Naturals, Sequences, FiniteSets, FiniteSetsExt, SequencesExt, TLC

CONSTANTS
    Devices,   \* device ids of one owner
    Docs,      \* meetings with a summary and memories: rows with a global id
    Memories,  \* those of Docs that are memories
    Hub,       \* stands for the entity ids and the source of a snapshot row
    None,      \* no row
    MaxRow     \* bound: transcript segments of a device

\* What the constants are; the type invariant of HubSync checks it for every instance.
HubConstants ==
    /\ Memories \subseteq Docs /\ MaxRow \in Nat
    /\ Hub \notin Devices /\ None \notin Devices \cup Docs

Rows == 1 .. MaxRow

\* An entity id is the device and the row id that device gave it.
Entities == (Devices \cup {Hub}) \X (Rows \cup Docs)
IsSegment(e) == e[2] \notin Docs
IsMemory(e) == e[2] \in Memories

EmptyHub == [log |-> <<>>, ops |-> <<>>, seg |-> [r \in Rows |-> None],
             doc |-> [m \in Docs |-> None]]

\* _latest_event_tx and _current_entity_tx: entity ids of devices are prefixed, so an entity
\* without an event never matches a row of the hub and has revision 0.
Versions(h, e) == {i \in 1 .. Len(h.log) : h.log[i].ent = e}
CurrentRevision(h, e) == IF Versions(h, e) = {} THEN 0 ELSE h.log[Max(Versions(h, e))].rev

\* _apply_transcript_tx: the segment id of the device is taken as the row id of the hub.
ApplyTranscript(h, op) == [h EXCEPT !.seg[op.ent[2]] = op.val]

\* _apply_summary_tx and _apply_memory_tx: rows with global ids; the row keeps the device that
\* pushed it first.
ApplyDoc(h, op) ==
    [h EXCEPT !.doc[op.ent[2]] = [val |-> op.val, by |-> IF @ = None THEN op.ent[1] ELSE @.by]]

ApplyEntity(h, op) == IF IsSegment(op.ent) THEN ApplyTranscript(h, op) ELSE ApplyDoc(h, op)

\* The change of an applied push, and the operation row.
Recorded(h, op, status, rev, cursor) ==
    [h EXCEPT !.ops = @ @@ (op.id :> [status |-> status, rev |-> rev, cursor |-> cursor])]

LogEntry(op, rev) == [source |-> op.ent[1], ent |-> op.ent, rev |-> rev, val |-> op.val, op |-> op.id]

\* Variant: the operation row is not looked up.
PushStatusUnchecked(h, op) ==
    IF op.base # CurrentRevision(h, op.ent) THEN "conflict" ELSE "applied"

\* push(): what the hub answers to an operation.
PushStatus(h, op) ==
    IF op.id \in DOMAIN h.ops THEN "duplicate"
    ELSE IF op.base # CurrentRevision(h, op.ent) THEN "conflict" ELSE "applied"

\* push(): one transaction.
Pushed(h, op) ==
    LET rev == CurrentRevision(h, op.ent)
        last == IF Versions(h, op.ent) = {} THEN 0 ELSE Max(Versions(h, op.ent))
    IN CASE PushStatus(h, op) = "duplicate" -> h
         [] PushStatus(h, op) = "conflict" -> Recorded(h, op, "conflict", rev, last)
         [] OTHER -> [Recorded(ApplyEntity(h, op), op, "applied", rev + 1, Len(h.log) + 1)
                      EXCEPT !.log = Append(@, LogEntry(op, rev + 1))]

\* list_changes(), first statement: the cursors after c, one page.
ChangesAfter(h, c, limit) == [i \in 1 .. Min({limit, Len(h.log) - c}) |-> c + i]

\* Variant: the cursor is the next one to be given out.
ReturnedCursorBeyond(h, page) == IF page = <<>> THEN Len(h.log) + 1 ELSE Last(page)

\* list_changes(), second statement: the cursor that is returned.
ReturnedCursor(h, page) == IF page = <<>> THEN Len(h.log) ELSE Last(page)

\* A change on the wire (_change_from_row): it carries no operation id and no base revision.
Change(h, i) == [cursor |-> i, source |-> h.log[i].source, ent |-> h.log[i].ent,
                 rev |-> h.log[i].rev, val |-> h.log[i].val]

\* snapshot(), the segments: each row gives the newest event that has its row id or its text,
\* and the other events that match the row are dropped (_snapshot_transcripts).
NewestSegments(h) ==
    {i \in 1 .. Len(h.log) : IsSegment(h.log[i].ent) /\ i = Max(Versions(h, h.log[i].ent))}
MatchingRow(h, r) ==
    {i \in NewestSegments(h) : h.seg[r] # None /\ (h.log[i].ent[2] = r \/ h.log[i].val = h.seg[r])}
SnapshotTranscripts(h) ==
    LET consumed == UNION {MatchingRow(h, r) : r \in Rows}
        emitted == {Max(MatchingRow(h, r)) : r \in {x \in Rows : MatchingRow(h, x) # {}}}
    IN emitted \cup (NewestSegments(h) \ consumed)

\* snapshot(), the rows with global ids: their entity id is the bare row id, which no event of
\* a device has (_snapshot_summary, _snapshot_memory).
SnapshotDocs(h) ==
    {[cursor |-> 0, source |-> IF m \in Memories THEN Hub ELSE h.doc[m].by, ent |-> <<Hub, m>>,
      rev |-> 0, val |-> h.doc[m].val] : m \in {x \in Docs : h.doc[x] # None}}

\* snapshot() without the cursor, which is read by a later statement.
Snapshot(h) ==
    [i \in 1 .. Cardinality(SnapshotTranscripts(h)) |->
        Change(h, SetToSortSeq(SnapshotTranscripts(h), <)[i])] \o SetToSeq(SnapshotDocs(h))

=============================================================================
