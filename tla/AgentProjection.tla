-------------------------- MODULE AgentProjection --------------------------
(***************************************************************************)
(* How the events of one Agent task reach its workflow run, its artifacts  *)
(* and the clients (backend/app/agents/service.py: record_task_event(),    *)
(* _project_event() and what they call).                                   *)
(*                                                                         *)
(* An event is first appended to agent_task_events in one transaction with *)
(* the task and, for an end, the run.  Then it is projected: the workflow  *)
(* event, the import of each listed artifact, the run's output and the     *)
(* domain event agent.task.event are written by transactions of their own, *)
(* with a download between them, and the last one sets projected_at.  A    *)
(* projection that broke off is repeated by whoever holds the task, so     *)
(* each effect carries a delivery key, and a lease per event (the resource *)
(* agent_projection) fences the worker that lost it.  A context runs one   *)
(* flow at a time, so the context named in a lease row identifies its      *)
(* fence; the row of a crashed context stays until the term ends.          *)
(***************************************************************************)
EXTENDS Naturals, Sequences, WorkflowStates

CONSTANTS
    Contexts,  \* execution contexts of the backend processes
    Free,      \* a lease row without a live term
    Items,     \* artifacts, by relative path
    Bad,       \* those whose path is absolute or leaves the directory of the task
    Ends,      \* the ends a task may come to
    MaxEvents, \* bound: events recorded
    MaxFaults  \* bound: failed calls, ended terms of live workers, crashes

ASSUME ProjectionAssumption ==
    /\ Free \notin Contexts /\ Bad \subseteq Items /\ Ends \subseteq TerminalStates
    /\ MaxEvents \in Nat /\ MaxFaults \in Nat

VARIABLES
    task,       \* agent_tasks: the state and the artifacts of its snapshot
    run,        \* the linked workflow run: the state and the artifacts of its output
    events,     \* agent_task_events in order, each with the effects of its projection
    files,      \* artifacts whose downloaded file is in the cache
    registered, \* rows of artifacts
    bridge,     \* holder of the lease agent_task
    lease,      \* holder of the lease agent_projection, per event
    flow,       \* where each context stands
    overrun,    \* history: artifacts whose removal was decided under a term that has ended since
    faults

vars == <<task, run, events, files, registered, bridge, lease, flow, overrun, faults>>

Kinds == {"progress", "artifacts", "ending", "ignored"}

AgentStates == RunStates \cup {"waiting_permission"}

\* The effects are counted: the delivery key of each is the event with the type of the effect
\* and the artifact it is about.  A failure has its reason in the key too; the reasons are left out.
Events == [kind : Kinds, state : AgentStates, items : SUBSET Items, projected : BOOLEAN,
           noted : Nat,                \* the workflow event agent.task...
           imported : [Items -> Nat],  \* agent.artifact_imported
           ready : [Items -> Nat],     \* the domain event artifact.ready
           failed : SUBSET Items,      \* those with agent.artifact_import_failed, once per reason
           merged : Nat,               \* agent.artifacts_projected, with the output of the run
           told : Nat]                 \* the domain event agent.task.event

Modes == {"none", "alone", "replay", "stream"}

Pcs == {"ready", "recorded", "claimed", "starting", "importing", "fetching", "fetched", "spoiled",
        "removing", "failing", "marking"}

Flows == [mode : Modes, pc : Pcs, seq : Nat, queue : SUBSET Nat, todo : SUBSET Items,
          item : SUBSET Items]

Rows == 1..MaxEvents

TypeOK ==
    /\ task \in [state : AgentStates, items : SUBSET Items]
    /\ run \in [state : RunStates, items : SUBSET Items]
    /\ events \in Seq(Events) /\ Len(events) <= MaxEvents
    /\ files \subseteq Items /\ registered \subseteq Items
    /\ bridge \in Contexts \cup {Free}
    /\ lease \in [Rows -> Contexts \cup {Free}]
    /\ flow \in [Contexts -> Flows]
    /\ overrun \subseteq Items
    /\ faults \in Nat

Idle == [mode |-> "none", pc |-> "ready", seq |-> 0, queue |-> {}, todo |-> {}, item |-> {}]

\* The task and its run as one transaction creates them.
Init ==
    /\ task = [state |-> "pending", items |-> {}]
    /\ run = [state |-> "pending", items |-> {}]
    /\ events = <<>>
    /\ files = {} /\ registered = {}
    /\ bridge = Free
    /\ lease = [s \in Rows |-> Free]
    /\ flow = [p \in Contexts |-> Idle]
    /\ overrun = {} /\ faults = 0

-----------------------------------------------------------------------------

Fault == faults < MaxFaults /\ faults' = faults + 1

\* Events without projected_at.
Pending == {s \in DOMAIN events : ~events[s].projected}

\* _assert_record_projection(): the term of this event's projection is p's and has not ended.
Owned(p) == lease[flow[p].seq] = p

Event(p) == events[flow[p].seq]

At(p, pc) == flow[p].mode # "none" /\ flow[p].pc = pc

Goto(p, pc) == flow' = [flow EXCEPT ![p].pc = pc]

\* The effect of p's event changes by the transaction of the step.
Effect(p, event) == events' = [events EXCEPT ![flow[p].seq] = event]

\* Variant: the effect is written without looking for its delivery key.
Again(n) == n + 1

\* record_agent_delivery_once_in_transaction(): a delivery key is written once.
Once(n) == IF n = 0 THEN 1 ELSE n

-----------------------------------------------------------------------------
(* Recording. *)

Late(state) == task.state \in TerminalStates /\ state # task.state

NewEvent(kind, state, items) ==
    [kind |-> kind, state |-> state, items |-> items, projected |-> FALSE, noted |-> 0,
     imported |-> [i \in Items |-> 0], ready |-> [i \in Items |-> 0],
     failed |-> {}, merged |-> 0, told |-> 0]

\* The run's state when the event's transaction is over: the first end stands.
RunState(kind, state) ==
    IF /\ run.state \notin TerminalStates
       /\ kind # "artifacts" /\ state \in TerminalStates \cup {"cancel_requested"}
    THEN state ELSE run.state

\* reduce_snapshot(): the artifacts of the task after an event.
Reduced(kind, state, items) ==
    IF kind = "artifacts" \/ (kind = "ending" /\ state = "succeeded") THEN items ELSE task.items

\* record_task_event(), one transaction.  The end that a task has come to stands: a late event is
\* kept without its content, a late list of artifacts with the state of the task.  A success
\* hands the run the artifacts of the event, else those of the task.
Record(p, mode, kind, state, items) ==
    LET late == Late(state)
        now == IF late THEN task.state ELSE state
        what == IF late /\ kind # "artifacts" THEN "ignored" ELSE kind
        list == CASE what = "artifacts" -> items
                  [] what = "ending" /\ now = "succeeded" -> IF items = {} THEN task.items ELSE items
                  [] OTHER -> {}
        seq == Len(events) + 1
    IN  /\ seq <= MaxEvents
        /\ events' = Append(events, NewEvent(what, now, list))
        /\ task' = [state |-> now, items |-> Reduced(what, now, list)]
        /\ run' = [state |-> RunState(what, now),
                   items |-> IF run.state \notin TerminalStates /\ what = "ending" /\ now = "succeeded"
                             THEN list ELSE run.items]
        /\ flow' = [flow EXCEPT ![p].mode = mode, ![p].pc = "recorded", ![p].seq = seq]
        /\ UNCHANGED <<files, registered, bridge, lease, faults, overrun>>

\* The bridge records a frame of the runner under the lease of the task.
RecordFrame(p) ==
    /\ flow[p].mode = "stream" /\ flow[p].pc = "ready" /\ bridge = p
    /\ \/ Record(p, "stream", "progress", "running", {})
       \/ \E items \in SUBSET Items : Record(p, "stream", "artifacts", "running", items)
       \/ \E end \in Ends, items \in SUBSET Items : Record(p, "stream", "ending", end, items)

\* The other callers record what they know of without that lease: a prompt, a queued or a
\* cancelled task, a rejected submit, the outcome of a cancel command.
RecordAlone(p) ==
    /\ flow[p].mode = "none"
    /\ \/ \E state \in {"waiting_permission", "pending", "cancel_requested"} :
             Record(p, "alone", "progress", state, {})
       \/ \E end \in Ends \ {"succeeded"} : Record(p, "alone", "ending", end, {})

-----------------------------------------------------------------------------
(* The flows. *)

\* The lease of the task: for the bridge, or for a repetition by the recovery loop.
StartBridge(p) ==
    /\ flow[p].mode = "none"
    /\ bridge = Free
    /\ bridge' = p
    /\ flow' = [flow EXCEPT ![p] = [Idle EXCEPT !.mode = "replay", !.queue = Pending]]
    /\ UNCHANGED <<task, run, events, files, registered, lease, faults, overrun>>

\* _replay_pending_projections(): the events that were pending, in their order.
ReplayNext(p) ==
    /\ flow[p].mode = "replay" /\ flow[p].pc = "ready"
    /\ \E s \in flow[p].queue :
          /\ \A t \in flow[p].queue : s <= t
          /\ flow' = [flow EXCEPT ![p].pc = "recorded", ![p].seq = s, ![p].queue = @ \ {s}]
    /\ UNCHANGED <<task, run, events, files, registered, bridge, lease, faults, overrun>>

\* Variant: the bridge reads the runner's frames before the pending events are projected.
StreamAtOnce(p) ==
    /\ flow[p].mode = "replay" /\ flow[p].pc = "ready"
    /\ flow' = [flow EXCEPT ![p].mode = "stream", ![p].queue = {}]
    /\ UNCHANGED <<task, run, events, files, registered, bridge, lease, faults, overrun>>

\* Nothing is left to repeat: the bridge goes on to the runner's frames.
Stream(p) ==
    /\ flow[p].mode = "replay" /\ flow[p].pc = "ready" /\ flow[p].queue = {}
    /\ flow' = [flow EXCEPT ![p].mode = "stream"]
    /\ UNCHANGED <<task, run, events, files, registered, bridge, lease, faults, overrun>>

\* release() of both leases, which matches live terms of this context only.
Releases(p) ==
    /\ lease' = [s \in Rows |-> IF s = flow[p].seq /\ lease[s] = p THEN Free ELSE lease[s]]
    /\ bridge' = IF flow[p].mode \in {"replay", "stream"} /\ bridge = p THEN Free ELSE bridge

\* The end of a replay by the recovery loop, and of the runner's stream.
EndFlow(p) ==
    /\ flow[p].mode \in {"replay", "stream"} /\ flow[p].pc = "ready" /\ flow[p].queue = {}
    /\ flow' = [flow EXCEPT ![p] = Idle]
    /\ bridge' = IF bridge = p THEN Free ELSE bridge
    /\ UNCHANGED <<task, run, events, files, registered, lease, faults, overrun>>

\* A flow breaks off at an exception, its leases are released: a term it no longer holds, a
\* transition of the run that has become illegal, or any failed call.
Stop(p) ==
    /\ flow[p].mode # "none"
    /\ \/ /\ \/ flow[p].pc = "ready" /\ bridge # p
             \/ /\ flow[p].pc = "recorded"
                /\ \/ flow[p].mode # "alone" /\ bridge # p
                   \/ lease[flow[p].seq] # Free
             \/ flow[p].pc \notin {"ready", "recorded"} /\ ~Owned(p)
             \/ flow[p].pc = "starting" /\ run.state \notin {"pending", "running"}
          /\ UNCHANGED faults
       \/ Fault
    /\ Releases(p)
    /\ flow' = [flow EXCEPT ![p] = Idle]
    /\ UNCHANGED <<task, run, events, files, registered, overrun>>

-----------------------------------------------------------------------------
(* Projecting. *)

\* What follows on the projection of an event.
Continued(p) ==
    flow' = [flow EXCEPT ![p] =
        IF @.mode = "alone" THEN Idle
        ELSE [@ EXCEPT !.pc = "ready", !.seq = 0, !.todo = {}, !.item = {}]]

\* _claim_event_projection(), one transaction: the lease of the task is checked by those who work
\* under it, a projected event is left alone, the lease of the projection is taken.
Claim(p) ==
    /\ At(p, "recorded")
    /\ flow[p].mode # "alone" => bridge = p
    /\ \/ /\ Event(p).projected
          /\ Continued(p)
          /\ UNCHANGED lease
       \/ /\ ~Event(p).projected /\ lease[flow[p].seq] = Free
          /\ lease' = [lease EXCEPT ![flow[p].seq] = p]
          /\ Goto(p, "claimed")
    /\ UNCHANGED <<task, run, events, files, registered, bridge, faults, overrun>>

NeedsStart(p) ==
    Event(p).kind # "ignored" /\ Event(p).state = "running" /\ run.state = "pending"

\* _project_workflow_event(): a run that is read as pending will be started, after the fence was
\* checked and without it.
SeePending(p) ==
    /\ At(p, "claimed") /\ NeedsStart(p) /\ Owned(p)
    /\ Goto(p, "starting")
    /\ UNCHANGED <<task, run, events, files, registered, bridge, lease, faults, overrun>>

StartRun(p) ==
    /\ At(p, "starting")
    /\ run.state \in {"pending", "running"}
    /\ run' = [run EXCEPT !.state = "running"]
    /\ Goto(p, "claimed")
    /\ UNCHANGED <<task, events, files, registered, bridge, lease, faults, overrun>>

\* The workflow event of the Agent event, once.
Note(p) ==
    /\ At(p, "claimed") /\ ~NeedsStart(p) /\ Owned(p)
    /\ Effect(p, [Event(p) EXCEPT !.noted = Once(@)])
    /\ IF Event(p).kind = "artifacts" /\ Event(p).items # {}
       THEN flow' = [flow EXCEPT ![p].pc = "importing", ![p].todo = Event(p).items]
       ELSE Goto(p, "marking")
    /\ UNCHANGED <<task, run, files, registered, bridge, lease, faults, overrun>>

\* The artifact leaves the list of those still to import.
Done(p, i) ==
    flow' = [flow EXCEPT ![p].pc = "importing", ![p].todo = @ \ {i}, ![p].item = {}]

\* A path that is not legal fails at once.
Reject(p) ==
    /\ At(p, "importing")
    /\ \E i \in flow[p].todo \cap Bad :
          flow' = [flow EXCEPT ![p].pc = "failing", ![p].item = {i}]
    /\ UNCHANGED <<task, run, events, files, registered, bridge, lease, faults, overrun>>

\* _record_artifact_import_failure().
Fail(p) ==
    /\ At(p, "failing") /\ Owned(p)
    /\ \E i \in flow[p].item :
          /\ Effect(p, [Event(p) EXCEPT !.failed = @ \cup {i}])
          /\ Done(p, i)
    /\ UNCHANGED <<task, run, files, registered, bridge, lease, faults, overrun>>

\* _workflow_delivery_exists(): the artifact was imported for this event; otherwise, once the fence
\* was checked, its download begins.
Fetch(p) ==
    /\ At(p, "importing")
    /\ \E i \in flow[p].todo \ Bad :
          IF Event(p).imported[i] > 0
          THEN Done(p, i)
          ELSE /\ Owned(p)
               /\ flow' = [flow EXCEPT ![p].pc = "fetching", ![p].item = {i}]
    /\ UNCHANGED <<task, run, events, files, registered, bridge, lease, faults, overrun>>

\* The file is put in place, whoever holds the lease by then, or the download has failed.
Download(p) ==
    /\ At(p, "fetching")
    /\ \E i \in flow[p].item :
          \/ /\ files' = files \cup {i}
             /\ Goto(p, "fetched")
             /\ UNCHANGED faults
          \/ /\ Fault
             /\ Goto(p, "failing")
             /\ UNCHANGED files
    /\ UNCHANGED <<task, run, events, registered, bridge, lease, overrun>>

\* The row, its link, the delivery and artifact.ready in one transaction, or none of them.
Register(p) ==
    /\ At(p, "fetched") /\ Owned(p)
    /\ \E i \in flow[p].item :
          \/ /\ i \in files
             /\ registered' = registered \cup {i}
             /\ Effect(p, [Event(p) EXCEPT !.imported[i] = Once(@),
                              !.ready[i] = IF Event(p).imported[i] = 0 THEN @ + 1 ELSE @])
             /\ Done(p, i)
             /\ UNCHANGED faults
          \/ /\ IF i \in files THEN Fault ELSE UNCHANGED faults
             /\ Goto(p, "spoiled")
             /\ UNCHANGED <<registered, events>>
    /\ UNCHANGED <<task, run, files, bridge, lease, overrun>>

\* Variant: the file of a registration that failed is removed by whoever comes to it.
SpoilAnyway(p) ==
    /\ At(p, "spoiled")
    /\ Goto(p, "removing")
    /\ UNCHANGED <<task, run, events, files, registered, bridge, lease, faults, overrun>>

\* After a registration that failed the term is looked at, as of the clock that was read before
\* the row,
Spoil(p) ==
    /\ At(p, "spoiled") /\ Owned(p)
    /\ Goto(p, "removing")
    /\ UNCHANGED <<task, run, events, files, registered, bridge, lease, faults, overrun>>

\* and the file is removed, whoever holds the lease by then.
Remove(p) ==
    /\ At(p, "removing")
    /\ files' = files \ flow[p].item
    /\ Goto(p, "failing")
    /\ UNCHANGED <<task, run, events, registered, bridge, lease, faults, overrun>>

\* _merge_workflow_output_once(): the artifacts become those of the run's output, once.
Merge(p) ==
    /\ At(p, "importing") /\ flow[p].todo = {} /\ Owned(p)
    /\ Effect(p, [Event(p) EXCEPT !.merged = Once(@)])
    /\ run' = [run EXCEPT !.items = IF Event(p).merged = 0 THEN Event(p).items ELSE @]
    /\ Goto(p, "marking")
    /\ UNCHANGED <<task, files, registered, bridge, lease, faults, overrun>>

\* complete_run() and the others, which find the run as the event's own transaction left it.
Settled(p) ==
    Event(p).kind # "ignored" /\ Event(p).state \in TerminalStates => run.state = Event(p).state

\* Variant: the worker that lost the projection completes it as well.
MarkAnyway(p) ==
    /\ At(p, "marking")
    /\ Effect(p, [Event(p) EXCEPT !.projected = TRUE,
                     !.told = IF Event(p).kind = "ignored" THEN @ ELSE @ + 1])
    /\ lease' = [lease EXCEPT ![flow[p].seq] = IF @ = p THEN Free ELSE @]
    /\ Continued(p)
    /\ UNCHANGED <<task, run, files, registered, bridge, faults, overrun>>

\* The last transaction: agent.task.event is handed to the clients, unless it stands for a late
\* event, and the event is projected.
Mark(p) ==
    /\ At(p, "marking") /\ Owned(p) /\ Settled(p) /\ ~Event(p).projected
    /\ Effect(p, [Event(p) EXCEPT !.projected = TRUE,
                     !.told = IF Event(p).kind = "ignored" THEN @ ELSE @ + 1])
    /\ lease' = [lease EXCEPT ![flow[p].seq] = Free]
    /\ Continued(p)
    /\ UNCHANGED <<task, run, files, registered, bridge, faults, overrun>>

\* _reconcile_workflow_projection(): after a restart the run of a running task is started.  A
\* requested cancellation and an end it finds where the event's transaction put them.
Reconcile ==
    /\ task.state = "running" /\ run.state = "pending"
    /\ run' = [run EXCEPT !.state = "running"]
    /\ UNCHANGED <<task, events, files, registered, bridge, lease, flow, faults, overrun>>

-----------------------------------------------------------------------------

\* The term of a lease ends: of a live worker only by a fault.
BusyWith(p, s) == flow[p].mode # "none" /\ flow[p].seq = s

\* What the holder of an ended term is about to remove.
Removes(p, s) == IF BusyWith(p, s) /\ flow[p].pc = "removing" THEN flow[p].item ELSE {}

ExpireProjection(s) ==
    /\ lease[s] # Free
    /\ IF BusyWith(lease[s], s) THEN Fault ELSE UNCHANGED faults
    /\ lease' = [lease EXCEPT ![s] = Free]
    /\ overrun' = overrun \cup Removes(lease[s], s)
    /\ UNCHANGED <<task, run, events, files, registered, bridge, flow>>

ExpireBridge ==
    /\ bridge # Free
    /\ IF flow[bridge].mode \in {"replay", "stream"} THEN Fault ELSE UNCHANGED faults
    /\ bridge' = Free
    /\ UNCHANGED <<task, run, events, files, registered, lease, flow, overrun>>

\* The process dies: what is in memory is gone, the lease rows stay.
Crash(p) ==
    /\ flow[p].mode # "none"
    /\ Fault
    /\ flow' = [flow EXCEPT ![p] = Idle]
    /\ UNCHANGED <<task, run, events, files, registered, bridge, lease, overrun>>

\* _list_recoverable_tasks(): a task with pending events is taken up again.
Recover(p) == Pending # {} /\ StartBridge(p)

\* What a flow does of its own accord.
FlowStep(p) ==
    \/ ReplayNext(p) \/ EndFlow(p) \/ Claim(p) \/ SeePending(p) \/ StartRun(p) \/ Note(p)
    \/ Reject(p) \/ Fail(p) \/ Fetch(p) \/ Download(p) \/ Register(p) \/ Spoil(p) \/ Remove(p)
    \/ Merge(p) \/ Mark(p)

Next ==
    \/ \E p \in Contexts :
          \/ RecordFrame(p) \/ RecordAlone(p) \/ StartBridge(p) \/ Stream(p) \/ FlowStep(p)
          \/ Stop(p) \/ Crash(p)
    \/ \E s \in Rows : ExpireProjection(s)
    \/ ExpireBridge
    \/ Reconcile

Spec == Init /\ [][Next]_vars

\* What the recovery loop and the workers of live processes keep doing; the runner need not send
\* anything, its stream ends at the latest at its deadline, and terms end.
Fairness ==
    /\ \A p \in Contexts :
          /\ WF_vars(FlowStep(p))
          /\ WF_vars(Stop(p) /\ UNCHANGED faults)
          /\ WF_vars(Recover(p))
    /\ \A s \in Rows : WF_vars(ExpireProjection(s) /\ UNCHANGED faults)
    /\ WF_vars(ExpireBridge /\ UNCHANGED faults)

FairSpec == Spec /\ Fairness

-----------------------------------------------------------------------------
(* Properties. *)

\* An effect of an event takes place at most once, however often its projection is repeated, and
\* artifact.ready is sent with each import and only then.
EffectsAreOnce ==
    \A s \in DOMAIN events :
        /\ events[s].noted <= 1 /\ events[s].merged <= 1 /\ events[s].told <= 1
        /\ \A i \in Items : /\ events[s].imported[i] <= 1
                            /\ events[s].ready[i] = events[s].imported[i]

\* Whoever completed the projection of an event, all of its effects are there: the clients are
\* told of nothing that the run does not show, neither an artifact nor the end of the task.
ProjectedIsComplete ==
    \A s \in DOMAIN events :
        events[s].projected =>
            /\ events[s].noted = 1
            /\ events[s].told = IF events[s].kind = "ignored" THEN 0 ELSE 1
            /\ events[s].kind # "ignored" /\ events[s].state \in TerminalStates =>
                   run.state = events[s].state
            /\ events[s].kind = "artifacts" /\ events[s].items # {} =>
                   /\ events[s].merged = 1
                   /\ \A i \in events[s].items : events[s].imported[i] = 1 \/ i \in events[s].failed

\* The event whose transaction brought the run to a success.
Succeeds(s) ==
    /\ events[s].kind = "ending" /\ events[s].state = "succeeded"
    /\ \A t \in 1..(s - 1) : events[t].kind # "ending"

Lists(s) == (events[s].kind = "artifacts" /\ events[s].items # {}) \/ Succeeds(s)

\* The output of the run shows the artifacts of the last event that listed them: no list that was
\* projected late, by another worker or after the end of the task replaces a later one.
OutputIsLatest ==
    \A s \in DOMAIN events :
        /\ Lists(s) /\ (Succeeds(s) \/ events[s].merged > 0)
        /\ \A t \in (s + 1)..Len(events) : ~Lists(t)
        => run.items = events[s].items

\* An imported artifact is registered, and a registered one has its file unless an event that
\* lists it failed to register it again: a worker that finds its term ended removes no file.  The
\* one that finds it live may lose it before the removal, and then the file of an artifact that
\* its successor has registered is gone.
FilesAreKept ==
    /\ \A s \in DOMAIN events, i \in Items : events[s].imported[i] > 0 => i \in registered
    /\ \A i \in registered \ (files \cup overrun) :
          \E s \in DOMAIN events : /\ events[s].kind = "artifacts" /\ i \in events[s].items
                                  /\ events[s].projected => i \in events[s].failed

\* The projection of agent events is exact.
ProjectionIsExact ==
    EffectsAreOnce /\ ProjectedIsComplete /\ OutputIsLatest /\ FilesAreKept

\* Every event is projected in the end.
AllProjected == Pending = {}

=============================================================================
