----------------------------- MODULE HubClient -----------------------------
(***************************************************************************)
(* The device side of the sync protocol (hub/sync.py): the local rows, the *)
(* table hub_sync_entities and the outbox, as operators on the record of a *)
(* device.  Every operator is one transaction.                             *)
(***************************************************************************)
EXTENDS SyncHub

CONSTANTS
    ReconcileLimit,  \* rows looked at by a reconciliation, per table (200 in the code)
    BatchLimit,      \* operations pushed in one cycle (50 in the code)
    MaxAttempts      \* claims of an operation before it is left alone (10 in the code)

\* What the constants are; the type invariant of HubSync checks it for every instance.
ClientConstants ==
    /\ ReconcileLimit \in Nat \ {0} /\ BatchLimit \in Nat \ {0} /\ MaxAttempts \in Nat \ {0}
    /\ Cardinality(Docs) <= ReconcileLimit

\* rows[i] is the segment with local id i; docs are the rows with global ids.
EmptyDevice == [rows |-> <<>>, docs |-> [m \in Docs |-> None],
                ents |-> [e \in Entities |-> None], outbox |-> <<>>, made |-> 0, saved |-> None]

\* Variant: a remote copy of the row is not looked for.
KnownById(n, e, val) == n.ents[e] # None /\ n.ents[e].val = val /\ n.ents[e].form = "local"

\* _queue_local_entity: nothing is queued for a row that is recorded as it stands, or that has
\* no record of its own and equals another entity.  A segment is compared without its id, so a
\* copy that came from the hub counts; a payload that came from the hub has other columns than
\* the local row of a meeting or a memory, and never equals it.
Known(n, e, val) ==
    IF n.ents[e] # None THEN n.ents[e].val = val /\ n.ents[e].form = "local"
    ELSE \E x \in Entities : /\ n.ents[x] # None /\ n.ents[x].val = val
                             /\ IsSegment(x) = IsSegment(e)
                             /\ IsSegment(e) \/ n.ents[x].form = "local"

Queued(n, d, e, val) ==
    IF Known(n, e, val) THEN n
    ELSE LET base == IF n.ents[e] = None THEN 0 ELSE n.ents[e].rev
             op == [id |-> <<d, n.made + 1>>, ent |-> e, base |-> base, val |-> val,
                    state |-> "pending", attempts |-> 0]
         IN [n EXCEPT !.outbox = Append(@, op), !.made = @ + 1,
                      !.ents[e] = [rev |-> base + 1, val |-> val, source |-> d, form |-> "local"]]

\* _reconcile_segments: the first rows by id.
ReconcileSegments(n, d) ==
    FoldLeftDomain(LAMBDA acc, r : IF r > ReconcileLimit THEN acc ELSE Queued(acc, d, <<d, r>>, n.rows[r]),
                   n, n.rows)

\* _reconcile_summaries and _reconcile_memories; there are no more rows than the limit.
ReconcileDocs(n, d) ==
    FoldSet(LAMBDA m, acc : Queued(acc, d, <<d, m>>, n.docs[m]), n,
            {m \in Docs : n.docs[m] # None})

\* reconcile_local_changes(): one transaction.
Reconciled(n, d) == ReconcileDocs(ReconcileSegments(n, d), d)

\* Variant BatchOfFresh: what an earlier cycle left in sending is not looked at.
\* claim_pending(): everything pending is claimed; the batch is the oldest of what is claimed,
\* operations of an earlier cycle that failed included.
Claimable(op) == op.state \in {"pending", "failed"} /\ op.attempts < MaxAttempts
Claimed(n) ==
    [n EXCEPT !.outbox = [i \in DOMAIN @ |->
        IF Claimable(@[i]) THEN [@[i] EXCEPT !.state = "sending", !.attempts = @ + 1] ELSE @[i]]]
BatchOfFresh(n) ==
    LET fresh == SelectSeq(n.outbox, LAMBDA op : op.state = "sending" /\ op.attempts = 1)
    IN SubSeq(fresh, 1, Min({BatchLimit, Len(fresh)}))
Batch(n) ==
    LET sending == SelectSeq(n.outbox, LAMBDA op : op.state = "sending")
    IN SubSeq(sending, 1, Min({BatchLimit, Len(sending)}))

\* mark_push_results(): each operation takes the status the hub answered.  push() of the client
\* answers for every operation or raises, so mark_failed() never has one to mark.
Marked(n, answers) ==
    [n EXCEPT !.outbox = [i \in DOMAIN @ |->
        IF @[i].id \in DOMAIN answers THEN [@[i] EXCEPT !.state = answers[n.outbox[i].id]] ELSE @[i]]]

\* init(): operations a crash left in sending go back to pending.
Reinitialised(n) ==
    [n EXCEPT !.outbox = [i \in DOMAIN @ |->
        IF @[i].state = "sending" THEN [@[i] EXCEPT !.state = "pending"] ELSE @[i]]]

(***************************************************************************)
(* Applying changes of the hub.                                            *)
(***************************************************************************)
\* The record of the change's entity, if it has the same source.
Canonical(n, c) ==
    IF n.ents[c.ent] # None /\ n.ents[c.ent].source = c.source THEN n.ents[c.ent] ELSE None

\* _find_local_transcript_aliases: entities of this device with the text of the change.
Aliases(n, d, c) ==
    IF ~IsSegment(c.ent) THEN {}
    ELSE {e \in Entities : /\ e # c.ent /\ IsSegment(e) /\ n.ents[e] # None
                           /\ n.ents[e].source = d /\ n.ents[e].val = c.val}

\* _remove_local_transcript_aliases: their records and their operations go.
WithoutAliases(n, d, c) ==
    [n EXCEPT !.ents = [e \in Entities |-> IF e \in Aliases(n, d, c) THEN None ELSE @[e]],
              !.outbox = SelectSeq(@, LAMBDA op : op.ent \notin Aliases(n, d, c))]

\* _apply_segment_tx: the first row that holds the text applied before is updated; without one
\* a row is added, with an id of its own.
SegmentApplied(n, previous, val) ==
    LET same == {i \in DOMAIN n.rows : previous # None /\ n.rows[i] = previous.val}
    IN IF same = {} THEN [n EXCEPT !.rows = Append(@, val)]
       ELSE [n EXCEPT !.rows[Min(same)] = val]

\* _apply_summary_tx and _apply_memory_tx: insert or overwrite.
DocApplied(n, m, val) == [n EXCEPT !.docs[m] = val]

\* Variant: an older revision of a segment is applied like a newer one.
OutcomeOfAnyRevision(n, c, snapshot) ==
    IF Canonical(n, c) # None /\ ~snapshot /\ 0 >= Canonical(n, c).rev THEN "conflict" ELSE "applied"

\* _apply_change_tx, the decision.  The change has no operation id and no base revision, so the
\* operation is never found applied and the base revision is 0.
Outcome(n, c, snapshot) ==
    LET cur == Canonical(n, c)
    IN IF cur = None THEN "applied"
       ELSE IF IsSegment(c.ent) /\ Max({1, c.rev}) <= cur.rev THEN "duplicate"
       ELSE IF cur.val = c.val /\ cur.form = "hub" THEN "duplicate"
       ELSE IF ~snapshot /\ 0 < cur.rev THEN "conflict"
       ELSE "applied"

\* _apply_memory_tx raises: the hub's payload of a memory has no created_at.
Raises(n, c, snapshot) == IsMemory(c.ent) /\ Outcome(n, c, snapshot) = "applied"

AppliedChange(n, d, c, snapshot) ==
    LET cur == IF Canonical(n, c) # None THEN Canonical(n, c)
               ELSE IF Aliases(n, d, c) # {} THEN [val |-> c.val] ELSE None
        old == IF n.ents[c.ent] = None \/ Canonical(n, c) = None THEN 0 ELSE n.ents[c.ent].rev
        rev == IF IsSegment(c.ent) THEN Max({1, c.rev}) ELSE old + 1
        row == IF IsSegment(c.ent) THEN SegmentApplied(n, cur, c.val) ELSE DocApplied(n, c.ent[2], c.val)
        bare == WithoutAliases(row, d, c)
    IN CASE Outcome(n, c, snapshot) = "conflict" -> n
         [] Outcome(n, c, snapshot) = "duplicate" -> IF IsSegment(c.ent) /\ Max({1, c.rev}) <= n.ents[c.ent].rev
                                                     THEN WithoutAliases(n, d, c) ELSE n
         [] OTHER -> [bare EXCEPT !.ents[c.ent] =
                        [rev |-> rev, val |-> c.val, source |-> c.source, form |-> "hub"]]

\* apply_changes(): one transaction for the page.
AppliedAll(n, d, page, snapshot) ==
    FoldLeft(LAMBDA acc, c : AppliedChange(acc, d, c, snapshot), n, page)

\* The transaction is rolled back as a whole when a change raises.
AnyRaises(n, d, page, snapshot) ==
    \E i \in DOMAIN page : Raises(AppliedAll(n, d, SubSeq(page, 1, i - 1), snapshot), page[i], snapshot)

=============================================================================
