----------------------------- MODULE MemoryStore -----------------------------
(***************************************************************************)
(* What the assistant remembers of one owner (memory/service.py and        *)
(* memory/repository.py).  A background extraction reads the memories that *)
(* are active, asks a small model what the text adds to them, and writes   *)
(* each candidate in a transaction of its own; meanwhile the user edits,   *)
(* confirms and deletes memories, and a chat recalls them.  All memories   *)
(* are of one kind (kind only partitions the keys).                        *)
(***************************************************************************)
EXTENDS Naturals, Sequences, FiniteSets, SequencesExt

CONSTANTS
    Runs,      \* extractions (extract_text)
    Edits,     \* PATCH requests of the user (update_node)
    Recalls,   \* recalls of the chat (recall)
    Texts,     \* contents
    Keys,      \* canonical keys
    MaxCands,  \* candidates of one answer (memory_extraction_max_items)
    MaxNodes,  \* bound: rows of memory_nodes
    MaxDeletes,\* bound: deletions by the user
    MaxFaults  \* bound: failures of the model and of the database, stops of the process

VARIABLES
    nodes,   \* rows of memory_nodes: status, content, key, by (superseded_by, 0: none), count
             \* (source_count), sources (its rows of memory_provenance), confirmed
    rel,     \* memory_relations: <<source, target>>
    run,     \* the extractions: place, what they read, candidates left, rows written
    row,     \* memory_extraction_runs: state and memory_ids
    edit,    \* the edits: place, node, the row that was read, what is to change
    recall,  \* the recalls: place, memories read, and (history) those gone before they began
    wanted,  \* history: node -> the text the user gave last ("none": none)
    raced,   \* history: nodes whose edit was overtaken by another one
    astray,  \* history: nodes replaced unread while the one named was active
    deletes, faults

vars == <<nodes, rel, run, row, edit, recall, wanted, raced, astray, deletes, faults>>

Ids == 1 .. Len(nodes)
ActiveIds == {i \in Ids : nodes[i].status = "active"}
NoRow == [state |-> "none", ids |-> {}]
NoEdit == [at |-> "new", node |-> 0, read |-> 0, moved |-> FALSE]
NewNode(text, key, source) ==
    [status |-> "active", content |-> text, key |-> key, by |-> 0, count |-> 1,
     sources |-> {source}, confirmed |-> FALSE]

Init ==
    /\ nodes = <<>> /\ rel = {}
    /\ run = [r \in Runs |-> [at |-> "new", seen |-> {}, left |-> 0, ids |-> {}, ended |-> "none"]]
    /\ row = [r \in Runs |-> NoRow]
    /\ edit = [e \in Edits |-> NoEdit]
    /\ recall = [q \in Recalls |-> [at |-> "new", found |-> {}, gone |-> {}]]
    /\ wanted = <<>> /\ raced = {} /\ astray = {}
    /\ deletes = 0 /\ faults = 0

Fault == faults < MaxFaults /\ faults' = faults + 1
Users == <<edit, recall, deletes>>
Table == <<nodes, rel, wanted, raced, astray>>

----------------------------------------------------------------------------
\* The read of the memories or a write of the run's own row fails: nothing in extract_text() catches
\* that, and the task's callback logs it.
Unrecorded(r) ==
    /\ Fault
    /\ run' = [run EXCEPT ![r].at = "lost"]
    /\ UNCHANGED row

\* extract_text(): a text that is too short is only recorded; else the active memories are read.
Snapshot(r) ==
    /\ run[r].at = "new"
    /\ \/ /\ run' = [run EXCEPT ![r].at = "done"]
          /\ row' = [row EXCEPT ![r].state = "skipped"]
          /\ UNCHANGED faults
       \/ run' = [run EXCEPT ![r].at = "open", ![r].seen = ActiveIds] /\ UNCHANGED <<row, faults>>
       \/ Unrecorded(r)
    /\ UNCHANGED <<Table, Users>>

Open(r) ==
    /\ run[r].at = "open"
    /\ \/ /\ run' = [run EXCEPT ![r].at = "ask"]
          /\ row' = [row EXCEPT ![r].state = "running"]
          /\ UNCHANGED faults
       \/ Unrecorded(r)
    /\ UNCHANGED <<Table, Users>>

\* _extract_candidates(): the model answers, times out or answers nonsense.
Ask(r) ==
    /\ run[r].at = "ask"
    /\ \/ \E n \in 0 .. MaxCands : run' = [run EXCEPT ![r].at = "write", ![r].left = n] /\ UNCHANGED faults
       \/ Fault /\ run' = [run EXCEPT ![r].at = "close", ![r].ended = "failed"]
    /\ UNCHANGED <<Table, row, Users>>

----------------------------------------------------------------------------
\* _validate_candidates(): only memories that were read may be named, and a replacement names one.
Candidates(r) ==
    {c \in [text : Texts, key : Keys, action : {"add", "supersede"},
            target : run[r].seen \cup {0}, related : SUBSET run[r].seen] :
        (c.action = "supersede" => c.target # 0) /\ Cardinality(c.related) <= 1}

\* Variant: the key is looked up first and the memory that was named only then.
ExistingByKey(c) ==
    LET same == {i \in ActiveIds : nodes[i].key = c.key \/ nodes[i].content = c.text}
    IN IF same # {} THEN same ELSE {c.target} \cap ActiveIds
\* _select_existing_tx(): the memory named if it is still active, else one with the key or the
\* text, those the user confirmed first.
Existing(c) ==
    LET same == {i \in ActiveIds : nodes[i].key = c.key \/ nodes[i].content = c.text}
        sure == {i \in same : nodes[i].confirmed}
    IN IF c.target \in ActiveIds THEN {c.target} ELSE IF sure # {} THEN sure ELSE same

\* Variant: a merge takes the candidate's text.
MergedText(node, c, source) ==
    [node EXCEPT !.sources = @ \cup {source}, !.count = @ + (IF source \in node.sources THEN 0 ELSE 1),
                 !.content = c.text]
\* Variant: every merge counts as a source.
MergedAgain(node, c, source) == [node EXCEPT !.sources = @ \cup {source}, !.count = @ + 1]
\* INSERT OR IGNORE of the provenance, and source_count + rowcount.
Merged(node, c, source) ==
    [node EXCEPT !.sources = @ \cup {source}, !.count = @ + (IF source \in node.sources THEN 0 ELSE 1)]

\* Variant: the relation is written without a look at its target.
RelatableAny(rows) == 1 .. Len(rows)
\* _insert_relation_tx(): WHERE EXISTS (... status != 'deleted').
Relatable(rows) == {i \in 1 .. Len(rows) : rows[i].status # "deleted"}
Relations(i, targets, rows) == {<<i, t>> : t \in (targets \cap Relatable(rows)) \ {i}}

\* Variant: the memory that is replaced does not say by which.
ReplacedBlind(node, new) == [node EXCEPT !.status = "superseded"]
Replaced(node, new) == [node EXCEPT !.status = "superseded", !.by = new]

KeyFree(key, others) == \A i \in others : nodes[i].key # key
Fails(r) == run' = [run EXCEPT ![r].at = "close", ![r].ended = "failed"]
Stores(r, i) ==
    run' = [run EXCEPT ![r].left = @ - 1, ![r].ids = @ \cup {i}]

\* upsert_candidate(), one transaction; the unique index on active keys may refuse the new row, and
\* any statement may fail.
Merge(r, c, i) ==
    /\ c.action = "add"
    /\ nodes' = [nodes EXCEPT ![i] = Merged(@, c, <<r, c.text>>)]
    /\ rel' = rel \cup Relations(i, c.related, nodes')
    /\ Stores(r, i)
    /\ UNCHANGED <<wanted, raced, astray>>

Replace(r, c, old) ==
    LET new == Len(nodes) + 1 IN
    /\ old = {} \/ c.action = "supersede"
    /\ IF KeyFree(c.key, ActiveIds \ old)
       THEN /\ Len(nodes) < MaxNodes
            /\ nodes' = Append([i \in Ids |-> IF i \in old THEN Replaced(nodes[i], new) ELSE nodes[i]],
                               NewNode(c.text, c.key, <<r, c.text>>))
            /\ rel' = rel \cup Relations(new, c.related, nodes') \cup Relations(new, old, nodes')
            /\ wanted' = Append(wanted, "none")
            /\ astray' = IF c.target \in ActiveIds THEN astray \cup (old \ {c.target}) ELSE astray
            /\ Stores(r, new)
            /\ UNCHANGED raced
       ELSE Fails(r) /\ UNCHANGED Table

Persist(r) ==
    /\ run[r].at = "write" /\ run[r].left > 0
    /\ \/ /\ \E c \in Candidates(r) :
                \/ \E i \in Existing(c) : Merge(r, c, i) \/ Replace(r, c, {i})
                \/ Existing(c) = {} /\ Replace(r, c, {})
          /\ UNCHANGED faults
       \/ Fault /\ Fails(r) /\ UNCHANGED Table
    /\ UNCHANGED <<row, Users>>

Finish(r) ==
    /\ run[r].at = "write" /\ run[r].left = 0
    /\ run' = [run EXCEPT ![r].at = "close", ![r].ended = "succeeded"]
    /\ UNCHANGED <<Table, row, Users, faults>>

\* Variant: only a success is recorded.
RecordedSuccess(r) == IF run[r].ended = "failed" THEN row[r] ELSE [state |-> run[r].ended, ids |-> run[r].ids]
\* _record_extraction(): a run that failed lists no memories, whatever it wrote before.
Recorded(r) == [state |-> run[r].ended, ids |-> IF run[r].ended = "failed" THEN {} ELSE run[r].ids]
Close(r) ==
    /\ run[r].at = "close"
    /\ \/ /\ run' = [run EXCEPT ![r].at = "done"]
          /\ row' = [row EXCEPT ![r] = Recorded(r)]
          /\ UNCHANGED faults
       \/ Unrecorded(r)
    /\ UNCHANGED <<Table, Users>>

\* aclose(): the tasks are cancelled, which no handler of extract_text() catches.
Stop ==
    /\ Fault /\ \E r \in Runs : run[r].at \notin {"new", "done", "lost", "gone"}
    /\ run' = [r \in Runs |-> IF run[r].at \in {"new", "done", "lost"} THEN run[r] ELSE [run[r] EXCEPT !.at = "gone"]]
    /\ UNCHANGED <<Table, row, Users>>

----------------------------------------------------------------------------
\* The user.  update_node() reads the row with one connection and writes it with another: the
\* fields that were not given are those it read.
ReadNode(e, i) ==
    /\ edit[e].at = "new" /\ i \in ActiveIds
    /\ edit' = [edit EXCEPT ![e] = [at |-> "write", node |-> i, read |-> nodes[i], moved |-> FALSE]]
    /\ UNCHANGED <<Table, run, row, recall, deletes, faults>>

\* Variant: the row is written whatever became of it.
WritableAny(i) == nodes[i].status # "none"
Writable(i) == nodes[i].status = "active"
Edited(node, text, key, e) ==
    [node EXCEPT !.content = text, !.key = key, !.confirmed = TRUE, !.sources = @ \cup {<<e, text>>}]
OthersMoved(e, i) ==
    [f \in Edits |-> IF f = e THEN [edit[f] EXCEPT !.at = "done", !.read = 0]
                     ELSE [edit[f] EXCEPT !.moved = @ \/ (edit[f].at = "write" /\ edit[f].node = i)]]

WriteNode(e) ==
    LET i == edit[e].node
        \* the provenance of the edit is inserted even if no row was updated
        traced == [nodes EXCEPT ![i].sources = @ \cup {<<e, "late">>}]
    IN /\ edit[e].at = "write"
       /\ \E text \in Texts \cup {"same"}, key \in Keys \cup {"same"} :
            LET t == IF text = "same" THEN edit[e].read.content ELSE text
                k == IF key = "same" THEN edit[e].read.key ELSE key
            IN /\ text = "same" <=> key # "same"
               /\ IF ~Writable(i) THEN nodes' = traced /\ UNCHANGED <<wanted, raced>>
                  ELSE IF ~KeyFree(k, ActiveIds \ {i}) THEN UNCHANGED <<nodes, wanted, raced>>
                  ELSE /\ nodes' = [nodes EXCEPT ![i] = Edited(@, t, k, e)]
                       /\ wanted' = IF text = "same" THEN wanted ELSE [wanted EXCEPT ![i] = t]
                       /\ raced' = IF edit[e].moved THEN raced \cup {i} ELSE raced
       /\ edit' = OthersMoved(e, i)
       /\ UNCHANGED <<rel, astray, run, row, recall, deletes, faults>>

Confirm(i) ==
    /\ i \in ActiveIds /\ ~nodes[i].confirmed
    /\ nodes' = [nodes EXCEPT ![i].confirmed = TRUE]
    /\ UNCHANGED <<rel, wanted, raced, astray, run, row, Users, faults>>

\* Variant: the relations that lead to the memory are left.
CutFrom(i) == {p \in rel : p[1] # i}
Cut(i) == {p \in rel : i \notin {p[1], p[2]}}
\* delete_node(): one transaction; the text, the key, provenance and relations go, and the runs
\* that list the memory forget what they listed.
Delete(i) ==
    /\ i \in Ids /\ nodes[i].status # "deleted" /\ deletes < MaxDeletes
    /\ deletes' = deletes + 1
    /\ nodes' = [nodes EXCEPT ![i].status = "deleted", ![i].content = "deleted",
                              ![i].key = <<"deleted", i>>, ![i].sources = {}]
    /\ rel' = Cut(i)
    /\ row' = [r \in Runs |-> IF i \in row[r].ids THEN [row[r] EXCEPT !.ids = {}] ELSE row[r]]
    /\ UNCHANGED <<wanted, raced, astray, run, edit, recall, faults>>

----------------------------------------------------------------------------
\* recall(): the memories are read while the other layers are, a layer may fail, and the model
\* (or the fallback) picks among them.
Begin(q) ==
    /\ recall[q].at = "new"
    /\ recall' = [recall EXCEPT ![q].at = "read", ![q].gone = Ids \ ActiveIds]
    /\ UNCHANGED <<Table, run, row, edit, deletes, faults>>

\* Variant: memories that were replaced are candidates too.
RecallableKept == {i \in Ids : nodes[i].status # "deleted"}
\* semantic_candidates()
Recallable == ActiveIds
ReadLayers(q) ==
    /\ recall[q].at = "read"
    /\ \/ recall' = [recall EXCEPT ![q].at = "pick", ![q].found = Recallable] /\ UNCHANGED faults
       \/ Fault /\ recall' = [recall EXCEPT ![q].at = "pick"]
    /\ UNCHANGED <<Table, run, row, edit, deletes>>

\* _associate(), _validated_matches(): an answer names candidates only.
Associate(q) ==
    /\ recall[q].at = "pick"
    /\ \E picked \in SUBSET recall[q].found :
         recall' = [recall EXCEPT ![q].at = "answered", ![q].found = picked]
    /\ UNCHANGED <<Table, run, row, edit, deletes, faults>>

----------------------------------------------------------------------------
Extracts(r) == Snapshot(r) \/ Open(r) \/ Ask(r) \/ Persist(r) \/ Finish(r) \/ Close(r)
Next ==
    \/ \E r \in Runs : Extracts(r)
    \/ Stop
    \/ \E e \in Edits : WriteNode(e) \/ \E i \in Ids : ReadNode(e, i)
    \/ \E i \in Ids : Confirm(i) \/ Delete(i)
    \/ \E q \in Recalls : Begin(q) \/ ReadLayers(q) \/ Associate(q)

Spec == Init /\ [][Next]_vars
\* The event loop runs every task that is scheduled.
FairSpec == Spec /\ \A r \in Runs : WF_vars(Extracts(r))

----------------------------------------------------------------------------
TypeOK ==
    /\ \A i \in Ids : /\ nodes[i].status \in {"active", "superseded", "deleted"}
                      /\ nodes[i].content \in Texts \cup {"deleted"} /\ nodes[i].by \in 0 .. Len(nodes)
    /\ rel \subseteq Ids \X Ids
    /\ \A r \in Runs : row[r].state \in {"none", "skipped", "running", "succeeded", "failed"}
                       /\ row[r].ids \subseteq Ids /\ run[r].left \in 0 .. MaxCands
    /\ Len(wanted) = Len(nodes) /\ \A q \in Recalls : recall[q].found \subseteq Ids

\* No relation leads to or from a memory the user deleted, whichever extraction had read it before
\* (_insert_relation_tx against delete_node); what is left of its sources is only the provenance
\* of an edit that read the memory before the deletion (update_node).
DeletedIsCut ==
    \A i \in Ids : nodes[i].status = "deleted" =>
        /\ \A p \in rel : i \notin {p[1], p[2]}
        /\ nodes[i].sources \subseteq Edits \X {"late"}

\* source_count is the number of extractions' quotes that support the memory: a text extracted twice
\* or a candidate that repeats another does not make it look better supported (_write_candidate_tx).
SourcesAreCounted ==
    \A i \in Ids : nodes[i].status # "deleted" =>
        nodes[i].count = Cardinality({s \in nodes[i].sources : s[1] \in Runs})

\* A memory that was replaced leads, over later ones, to one that is active or that the user
\* deleted; and the one replaced is the one the model named, unless that was no longer active.
ReplacedLeadsOn ==
    /\ \A i \in Ids : nodes[i].status = "superseded" => nodes[i].by > i
    /\ astray = {}

\* The text of a memory the user edited stays the text the user gave, whatever extractions find in
\* their sources, unless a second edit was under way when the first was written (update_node).
TextIsTheUsers ==
    \A i \in ActiveIds : wanted[i] # "none" /\ i \notin raced => nodes[i].content = wanted[i]

\* A recall answers with no memory that was replaced or deleted before it began.
RecallIsFresh == \A q \in Recalls : recall[q].found \cap recall[q].gone = {}

AllRecorded ==
    \A r \in Runs : run[r].at \in {"new", "lost", "gone"} \/ row[r].state \in {"skipped", "succeeded", "failed"}

\* Every extraction is recorded as finished unless the process stopped under it or the write of
\* that record failed: a failure of the model, a timeout, a candidate the index refuses or a memory
\* that cannot be written do not leave the run "running" (extract_text).
RunIsRecorded == []<>AllRecorded

=============================================================================
