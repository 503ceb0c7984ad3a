-------------------------- MODULE MeetingLifecycle --------------------------
(***************************************************************************)
(* Meetings as the backend processes of one owner see them: the pointer to *)
(* the current meeting and its lock (use_cases/meeting_state.py), the      *)
(* automatic detector (use_cases/auto_meeting_detector.py), the segments   *)
(* in memory and the gate that closes them (use_cases/meeting_pipeline.py) *)
(* and the rows all processes share (adapters/repo/sqlite.py).  Times are  *)
(* abstract: a timeout that may have passed is a choice.                   *)
(***************************************************************************)
EXTENDS Naturals, Sequences, FiniteSets, SequencesExt

CONSTANTS
    Procs,       \* backend processes
    Tasks,       \* requests, chunks and watchdogs, each in its process
    Home,        \* the process of each task
    Segs,        \* transcript segments
    None,
    Listed,      \* ended meetings that a recovery looks at
    MaxMeetings, \* bound: meetings created or announced by a detector
    MaxRequests, \* bound: requests and chunks
    MaxFaults    \* bound: crashes, failing writes and failing summaries

VARIABLES
    row,     \* meetings table: state, auto_started, minutes and their status, stored segments, and
             \* whether the low-level start inserted it (history)
    proc,    \* memory of each process
    task,    \* what each task is doing
    finals,  \* finalize tasks in the background: process, meeting and the segments read
    made,    \* ids given out
    asked,   \* requests and chunks so far
    failed,  \* history: segments whose write failed
    faults

vars == <<row, proc, task, finals, made, asked, failed, faults>>

Meetings == 1 .. MaxMeetings
NoRow == [state |-> "none", auto |-> FALSE, loose |-> FALSE, segs |-> {}, minutes |-> None, status |-> "none"]
\* known, mem and gate are _wall_clock_start, _segments and _finalized of the pipeline.
Fresh == [hydrated |-> "no", found |-> None, cur |-> None, active |-> None, cool |-> FALSE,
          queue |-> <<>>, known |-> {}, mem |-> [m \in Meetings |-> {}], gate |-> {}, recovered |-> FALSE]
Resting == [at |-> "idle", then |-> "idle", m |-> None, seg |-> None]

\* Both processes have started on an empty database.
Init ==
    /\ row = [m \in Meetings |-> NoRow]
    /\ proc = [p \in Procs |-> [Fresh EXCEPT !.hydrated = "yes", !.recovered = TRUE]]
    /\ task = [t \in Tasks |-> Resting]
    /\ finals = {} /\ made = 0 /\ asked = 0 /\ failed = {} /\ faults = 0

----------------------------------------------------------------------------
Active == {m \in Meetings : row[m].state = "in_meeting"}
IsAuto(m) == m # None /\ row[m].auto
At(t, place) == task[t].at = place
Goes(t, place) == task' = [task EXCEPT ![t].at = place]
Rests(t) == task' = [task EXCEPT ![t] = Resting]
Asks == asked < MaxRequests /\ asked' = asked + 1
Fault == faults < MaxFaults /\ faults' = faults + 1
Ready(t) == At(t, "idle") /\ proc[Home[t]].hydrated = "yes"
Begins(t, place, m, then) == task' = [task EXCEPT ![t] = [Resting EXCEPT !.at = place, !.m = m, !.then = then]]
\* asyncio.Lock wakes its waiters in order: the head of the queue holds it.
Holds(t) == proc[Home[t]].queue # <<>> /\ Head(proc[Home[t]].queue) = t
Waits(P, t) == [P EXCEPT !.queue = Append(@, t)]
\* Variant: the lock is never released.
LeavesNot(P) == P
Leaves(P) == [P EXCEPT !.queue = Tail(@)]
Set(p, P) == proc' = [proc EXCEPT ![p] = P]

\* _adopt_current_auto_meeting(): the detector follows the current automatic meeting.
Adopted(P) == IF IsAuto(P.cur) THEN [P EXCEPT !.active = P.cur, !.cool = FALSE] ELSE P
\* enter_cooldown()
Cooled(P) == [P EXCEPT !.active = None, !.cool = TRUE]

----------------------------------------------------------------------------
Schedules(p, m) == finals \cup {[p |-> p, m |-> m, at |-> "read", snap |-> {}]}
\* load_meeting_for_retry()
Reloads(P, m) == [P EXCEPT !.mem[m] = row[m].segs, !.gate = @ \ {m}, !.known = @ \cup {m}]

----------------------------------------------------------------------------
\* hydrate(): the durable active meeting is read once per process.
HydrateRead(p) ==
    /\ proc[p].hydrated = "no"
    /\ IF Active = {} THEN Set(p, [proc[p] EXCEPT !.hydrated = "yes"])
       ELSE \E m \in Active : Set(p, [proc[p] EXCEPT !.hydrated = "found", !.found = m])
    /\ UNCHANGED <<row, task, finals, made, asked, failed, faults>>

\* The meeting is too old: it is ended durably and its minutes are scheduled.
HydrateExpired(p) ==
    LET m == proc[p].found
        P == [Cooled(proc[p]) EXCEPT !.hydrated = "yes", !.found = None]
    IN /\ proc[p].hydrated = "found"
       /\ row' = [row EXCEPT ![m].state = "ended"]
       /\ IF row[m].segs = {} THEN Set(p, P) /\ UNCHANGED finals
          ELSE Set(p, Reloads(P, m)) /\ finals' = Schedules(p, m)
       /\ UNCHANGED <<task, made, asked, failed, faults>>

\* Otherwise, or when ending it failed, it becomes current; the pipeline loads what is active
\* by now.
HydrateKeep(p) ==
    /\ proc[p].hydrated = "found"
    /\ Set(p, Adopted([proc[p] EXCEPT !.hydrated = "yes", !.cur = proc[p].found, !.found = None,
                           !.mem = [m \in Meetings |-> IF m \in Active THEN row[m].segs ELSE @[m]],
                           !.known = @ \cup Active, !.gate = @ \ Active]))
    /\ UNCHANGED <<row, task, finals, made, asked, failed, faults>>

\* recover_stuck_minutes(), once after a start.
\* Variant: only summaries that failed are tried again.
StuckFailed == {m \in Meetings : row[m].state = "ended" /\ row[m].status = "generation_failed"}
\* list_meetings(state="ended", limit): the newest ones, whatever became of their minutes.
Newer(m) == {x \in Meetings : x > m /\ row[x].state = "ended"}
BeyondList(m) == row[m].state = "ended" /\ Cardinality(Newer(m)) >= Listed
Stuck == {m \in Meetings : /\ row[m].state = "ended" /\ row[m].minutes = None /\ row[m].segs # {}
                           /\ ~BeyondList(m)}
Recover(p) ==
    /\ proc[p].hydrated = "yes" /\ ~proc[p].recovered
    /\ Set(p, [proc[p] EXCEPT !.recovered = TRUE,
                   !.mem = [m \in Meetings |-> IF m \in Stuck THEN row[m].segs ELSE @[m]],
                   !.known = @ \cup Stuck, !.gate = @ \ Stuck])
    /\ finals' = finals \cup {[p |-> p, m |-> m, at |-> "read", snap |-> {}] : m \in Stuck}
    /\ UNCHANGED <<row, task, made, asked, failed, faults>>

----------------------------------------------------------------------------
\* manual_start(): an automatic meeting is closed first.
UserStart(t) ==
    LET p == Home[t] IN
    /\ Ready(t) /\ Asks
    /\ \/ /\ IsAuto(proc[p].cur)
          /\ Begins(t, "title", proc[p].cur, "start") /\ UNCHANGED proc
       \/ /\ ~IsAuto(proc[p].cur)
          /\ Begins(t, "start", None, "idle") /\ Set(p, Waits(proc[p], t))
    /\ UNCHANGED <<row, finals, made, failed, faults>>

\* manual_end()
UserEnd(t) ==
    /\ Ready(t) /\ proc[Home[t]].cur # None /\ Asks
    /\ Begins(t, "title", proc[Home[t]].cur, "idle")
    /\ UNCHANGED <<row, proc, finals, made, failed, faults>>

\* end_without_finalize() of any meeting.
LowLevelEnd(t, m) ==
    /\ Ready(t) /\ row[m].state # "none" /\ Asks
    /\ Begins(t, "end_only", m, "idle") /\ Set(Home[t], Waits(proc[Home[t]], t))
    /\ UNCHANGED <<row, finals, made, failed, faults>>

\* POST /meetings/{id}/finalize, for a meeting in any state.
FinalizeRequest(p, m) ==
    /\ row[m].state # "none" /\ proc[p].hydrated = "yes" /\ Asks
    /\ finals' = Schedules(p, m)
    /\ UNCHANGED <<row, proc, task, made, failed, faults>>

\* _check_lifecycle(): the hard limit, the silence of a manual meeting, or (the detector then
\* forgets it first) the silence of an automatic one.
Timeout(t) ==
    LET P == proc[Home[t]] IN
    /\ Ready(t) /\ P.cur # None
    /\ Begins(t, "title", P.cur, "idle")
    /\ \/ UNCHANGED proc
       \/ IsAuto(P.cur) /\ Set(Home[t], Cooled(P))
    /\ UNCHANGED <<row, finals, made, asked, failed, faults>>

\* observe_chunk(), without a timeout: the detector is fed and may announce a start or an end.
DetectsEnd(P) == P.active # None
DetectsStart(P) == P.cur = None /\ P.active = None /\ ~P.cool
Observe(t) ==
    LET p == Home[t]
        P == Adopted(proc[p])
    IN /\ Ready(t) /\ Asks
       /\ \/ /\ DetectsEnd(P)
             /\ Begins(t, "title", P.active, "ingest") /\ Set(p, Cooled(P)) /\ UNCHANGED made
          \/ /\ DetectsStart(P) /\ made < MaxMeetings
             /\ made' = made + 1
             /\ Begins(t, "auto_start", made + 1, "ingest")
             /\ Set(p, Waits([P EXCEPT !.active = made + 1], t))
          \/ /\ P.cur # None /\ (P.active = None \/ IsAuto(P.cur))
             /\ Begins(t, "ingest", None, "idle") /\ Set(p, P) /\ UNCHANGED made
       /\ UNCHANGED <<row, finals, failed, faults>>

CooldownOver(p) ==
    /\ proc[p].cool /\ \A t \in Tasks : Home[t] = p => At(t, "idle")
    /\ Set(p, [proc[p] EXCEPT !.cool = FALSE])
    /\ UNCHANGED <<row, task, finals, made, asked, failed, faults>>

----------------------------------------------------------------------------
\* Variant: the process that lost keeps the id it wanted.
AuthoritativeIsMine(m) == m
\* create_meeting(): the row that is active, whoever made it.
Authoritative(m) == IF Active = {} THEN m ELSE CHOOSE x \in Active : TRUE
Inserted(m, auto, loose) ==
    IF Active = {} THEN [row EXCEPT ![m] = [NoRow EXCEPT !.state = "in_meeting", !.auto = auto, !.loose = loose]]
    ELSE row
\* start_meeting() of the pipeline loads the row that is active and opens its gate.
Knows(P, r) == [P EXCEPT !.known = @ \cup {r}, !.gate = @ \ {r},
                         !.mem[r] = IF r \in P.known THEN @ ELSE row[r].segs]

\* start_meeting() under the lock, for manual_start() and _apply_auto_start().
Start(t) ==
    LET p == Home[t]
        auto == At(t, "auto_start")
        m == IF auto THEN task[t].m ELSE made + 1
        r == Authoritative(m)
        P == [Knows(Leaves(proc[p]), r) EXCEPT !.cur = r]
    IN /\ Holds(t) /\ (auto \/ At(t, "start"))
       /\ IF proc[p].cur # None THEN Set(p, Leaves(proc[p])) /\ UNCHANGED <<row, made>>
          ELSE /\ r \in Meetings
               /\ row' = Inserted(m, auto, FALSE)
               /\ made' = IF auto \/ Active # {} THEN made ELSE made + 1
               /\ Set(p, IF auto /\ row'[r].auto THEN [P EXCEPT !.active = r, !.cool = FALSE] ELSE P)
       /\ Goes(t, task[t].then)
       /\ UNCHANGED <<finals, asked, failed, faults>>

StartFails(t) ==
    /\ Holds(t) /\ task[t].at \in {"start", "auto_start"} /\ proc[Home[t]].cur = None
    /\ Fault /\ Set(Home[t], Leaves(proc[Home[t]])) /\ Rests(t)
    /\ UNCHANGED <<row, finals, made, asked, failed>>

\* POST /meetings/{id}/start calls the pipeline alone: no MeetingState points to the meeting.
LowLevelStart(p) ==
    LET r == Authoritative(made + 1) IN
    /\ Asks /\ r \in Meetings
    /\ row' = Inserted(made + 1, FALSE, TRUE)
    /\ made' = IF Active = {} THEN made + 1 ELSE made
    /\ Set(p, Knows(proc[p], r))
    /\ UNCHANGED <<task, finals, failed, faults>>

\* _end_current(): the title is read, then the lock taken.
JoinEnd(t) ==
    /\ At(t, "title")
    /\ Goes(t, "end") /\ Set(Home[t], Waits(proc[Home[t]], t))
    /\ UNCHANGED <<row, finals, made, asked, failed, faults>>

\* The continuation of a task that ended a meeting; manual_start() queues again.
Continues(t, P) ==
    IF task[t].then = "start"
    THEN Begins(t, "start", None, "idle") /\ Set(Home[t], Waits(P, t))
    ELSE Goes(t, task[t].then) /\ Set(Home[t], P)

\* Another task ended it already.
EndMissed(t) ==
    /\ Holds(t) /\ At(t, "end") /\ proc[Home[t]].cur # task[t].m
    /\ Continues(t, Leaves(proc[Home[t]]))
    /\ UNCHANGED <<row, finals, made, asked, failed, faults>>

\* end_meeting() closes the gate of this process, then writes the row.
CloseGate(t) ==
    LET p == Home[t] IN
    /\ Holds(t) /\ task[t].at \in {"end", "end_only"} /\ task[t].m \notin proc[p].gate
    /\ At(t, "end") => proc[p].cur = task[t].m
    /\ Set(p, [proc[p] EXCEPT !.gate = @ \cup {task[t].m}])
    /\ Goes(t, IF At(t, "end") THEN "fence" ELSE "fence_only")
    /\ UNCHANGED <<row, finals, made, asked, failed, faults>>

\* The row is written; the process is idle, cools down and, for _end_current(), summarises.
\* Nothing is written when the gate was closed already.
Ended(P, m) == Cooled([Leaves(P) EXCEPT !.cur = IF @ = m THEN None ELSE @])
Fence(t) ==
    LET p == Home[t]
        m == task[t].m
        only == task[t].at \in {"fence_only", "end_only"}
        closed == task[t].at \in {"end", "end_only"}
    IN /\ Holds(t) /\ task[t].at \in {"end", "end_only", "fence", "fence_only"}
       /\ closed => m \in proc[p].gate /\ (only \/ proc[p].cur = m)
       /\ row' = IF closed THEN row ELSE [row EXCEPT ![m].state = "ended"]
       /\ finals' = IF only THEN finals ELSE Schedules(p, m)
       /\ Continues(t, Ended(proc[p], m))
       /\ UNCHANGED <<made, asked, failed, faults>>

\* Variant: the gate stays closed and the process is idle although the row says in_meeting.
AfterFenceFailedIdle(P, m) == [Leaves(P) EXCEPT !.cur = None]
\* The write failed: the gate opens again and the meeting stays current.
AfterFenceFailed(P, m) == [Leaves(P) EXCEPT !.gate = @ \ {m}]
FenceFails(t) ==
    /\ Holds(t) /\ task[t].at \in {"fence", "fence_only"}
    /\ Fault /\ Set(Home[t], AfterFenceFailed(proc[Home[t]], task[t].m)) /\ Rests(t)
    /\ UNCHANGED <<row, finals, made, asked, failed>>

----------------------------------------------------------------------------
\* A meeting the pipeline does not know is started; what is active then may be another one, and
\* an ended one is not started again.
Learns(P, m) == IF m \in P.known \/ Active = {} THEN P ELSE Knows(P, Authoritative(m))
Unused(s) == /\ \A x \in Meetings : s \notin row[x].segs
             /\ \A u \in Tasks : task[u].seg # s
             /\ s \notin failed
Takes(t, m) == \E s \in Segs : /\ Unused(s)
                              /\ task' = [task EXCEPT ![t] = [Resting EXCEPT !.at = "speaker", !.m = m, !.seg = s]]

\* ingest_from_stt() for the current meeting: the gate is looked at, then the speaker.
Ingest(t) ==
    LET p == Home[t]
        m == proc[p].cur
        open == m # None /\ m \notin proc[p].gate
        P == IF open THEN Learns(proc[p], m) ELSE proc[p]
    IN /\ At(t, "ingest")
       /\ Set(p, P)
       /\ IF open /\ m \in P.known THEN Takes(t, m) ELSE Rests(t)
       /\ UNCHANGED <<row, finals, made, asked, failed, faults>>

\* add_audio_chunk() and append_segment() of any meeting; the second does not look at the gate.
ChunkRequest(t, m) ==
    LET p == Home[t]
        P == Learns(proc[p], m)
    IN /\ At(t, "idle") /\ row[m].state # "none" /\ Asks
       /\ Set(p, P)
       /\ IF m \in P.known THEN Takes(t, m) ELSE Rests(t)
       /\ UNCHANGED <<row, finals, made, failed, faults>>

NoSegmentLeft(t) ==
    /\ At(t, "ingest") /\ Rests(t)
    /\ UNCHANGED <<row, proc, finals, made, asked, failed, faults>>

Remember(t) ==
    /\ At(t, "speaker")
    /\ Set(Home[t], [proc[Home[t]] EXCEPT !.mem[task[t].m] = @ \cup {task[t].seg}])
    /\ Goes(t, "persist")
    /\ UNCHANGED <<row, finals, made, asked, failed, faults>>

\* Variant: rows are appended whatever the state of the meeting.
AcceptsAlways(m) == TRUE
\* append_meeting_segment() inserts only into a meeting that is active.
Accepts(m) == row[m].state = "in_meeting"
\* Variant: memory is left as it is.
ReconciledNot(P, m) == [P EXCEPT !.gate = @ \cup {m}]
\* _persist_active_segments(): memory takes what is stored, and the gate closes.
Reconciled(P, m) == [P EXCEPT !.gate = @ \cup {m}, !.mem[m] = row[m].segs]
Persist(t) ==
    LET p == Home[t]
        m == task[t].m
    IN /\ At(t, "persist")
       /\ IF Accepts(m) THEN row' = [row EXCEPT ![m].segs = @ \cup {task[t].seg}] /\ UNCHANGED proc
          ELSE Set(p, Reconciled(proc[p], m)) /\ UNCHANGED row
       /\ Rests(t)
       /\ UNCHANGED <<finals, made, asked, failed, faults>>

\* The database raises: the segment stays in memory.
PersistFails(t) ==
    /\ At(t, "persist") /\ Fault
    /\ failed' = failed \cup {task[t].seg} /\ Rests(t)
    /\ UNCHANGED <<row, proc, finals, made, asked>>

----------------------------------------------------------------------------
\* Variant: the rows are read and the meeting stays open for segments.
CutOffOpen(m) == row
\* snapshot_meeting_segments_for_finalize(): one transaction ends the meeting and reads.
CutOff(m) == IF row[m].state = "in_meeting" THEN [row EXCEPT ![m].state = "ended"] ELSE row
FinalRead(f) ==
    /\ f.at = "read"
    /\ row' = IF row[f.m].segs = {} THEN [row EXCEPT ![f.m].state = "ended", ![f.m].status = "generation_failed"]
              ELSE CutOff(f.m)
    /\ Set(f.p, [proc[f.p] EXCEPT !.mem[f.m] = row[f.m].segs, !.gate = @ \cup {f.m}])
    /\ finals' = (finals \ {f}) \cup
                    (IF row[f.m].segs = {} THEN {} ELSE {[f EXCEPT !.at = "written", !.snap = row[f.m].segs]})
    /\ UNCHANGED <<task, made, asked, failed, faults>>

\* The summary is there: finalize_meeting() commits it.
FinalCommit(f) ==
    /\ f.at = "written"
    /\ row' = [row EXCEPT ![f.m].state = "finalized", ![f.m].minutes = f.snap, ![f.m].status = "ok"]
    /\ finals' = finals \ {f}
    /\ UNCHANGED <<proc, task, made, asked, failed, faults>>

\* The model failed: _mark_minutes_failed().
FinalFails(f) ==
    /\ f.at = "written" /\ Fault
    /\ row' = [row EXCEPT ![f.m].state = "ended", ![f.m].status = "generation_failed"]
    /\ finals' = finals \ {f}
    /\ UNCHANGED <<proc, task, made, asked, failed>>

\* A process dies and is started again with nothing in memory.
Crash(p) ==
    /\ Fault
    /\ Set(p, Fresh)
    /\ task' = [t \in Tasks |-> IF Home[t] = p THEN Resting ELSE task[t]]
    /\ finals' = {f \in finals : f.p # p}
    /\ UNCHANGED <<row, made, asked, failed>>

----------------------------------------------------------------------------
Hydrates(p) == HydrateRead(p) \/ HydrateExpired(p) \/ HydrateKeep(p)
Works(t) ==
    \/ Start(t) \/ JoinEnd(t) \/ EndMissed(t) \/ CloseGate(t) \/ Fence(t)
    \/ Ingest(t) \/ NoSegmentLeft(t) \/ Remember(t) \/ Persist(t)
Finalizes(p) == \E f \in finals : f.p = p /\ (FinalRead(f) \/ FinalCommit(f))

Next ==
    \/ \E p \in Procs : Hydrates(p) \/ Recover(p) \/ CooldownOver(p) \/ Finalizes(p) \/ Crash(p)
    \/ \E t \in Tasks :
        \/ UserStart(t) \/ UserEnd(t) \/ Timeout(t) \/ Observe(t) \/ Works(t)
        \/ StartFails(t) \/ FenceFails(t) \/ PersistFails(t)
        \/ \E m \in Meetings : LowLevelEnd(t, m) \/ ChunkRequest(t, m)
    \/ \E p \in Procs : LowLevelStart(p)
    \/ \E p \in Procs, m \in Meetings : FinalizeRequest(p, m)
    \/ \E f \in finals : FinalFails(f)

Spec == Init /\ [][Next]_vars

----------------------------------------------------------------------------
TypeOK ==
    /\ \A m \in Meetings :
        /\ row[m].state \in {"none", "in_meeting", "ended", "finalized"} /\ row[m].segs \subseteq Segs
        /\ row[m].status \in {"none", "ok", "generation_failed"} /\ {row[m].auto, row[m].loose} \subseteq BOOLEAN
    /\ \A p \in Procs :
        /\ proc[p].hydrated \in {"no", "found", "yes"} /\ proc[p].cur \in Meetings \cup {None}
        /\ proc[p].active \in Meetings \cup {None} /\ IsInjective(proc[p].queue)
        /\ \A t \in Tasks : t \in ToSet(proc[p].queue)
              <=> Home[t] = p /\ task[t].at \in {"start", "auto_start", "end", "end_only", "fence", "fence_only"}
    /\ made \in 0 .. MaxMeetings /\ faults \in 0 .. MaxFaults

\* Minutes are about the whole transcript: no process stores a segment in a meeting after its
\* segments were read for the summary (snapshot_meeting_segments_for_finalize).
MinutesCoverTranscript == \A m \in Meetings : row[m].minutes # None => row[m].minutes = row[m].segs

\* A segment in the memory of a process is stored, is being stored, or its write failed
\* (_persist_active_segments after another process closed the meeting).
MemoryIsStored == \A p \in Procs, m \in Meetings : \A s \in proc[p].mem[m] :
    s \in row[m].segs \cup failed \/ \E t \in Tasks : Home[t] = p /\ At(t, "persist") /\ task[t].seg = s

\* No process points to a meeting the database does not have: one that lost the race to create
\* it takes the winner's (create_meeting).
NoPhantomMeeting == \A p \in Procs : proc[p].cur # None => row[proc[p].cur].state # "none"

\* A meeting the database holds open is somebody's: the current one of a process that will time
\* it out, or one a process has yet to load.  Only the low-level start opens one for nobody
\* (start_meeting without MeetingState).
OpenMeetingIsOwned ==
    \A m \in Active : row[m].loose \/ \E p \in Procs : proc[p].cur = m \/ proc[p].hydrated # "yes"

\* The minutes of a meeting are made from its whole transcript, a segment a process keeps is stored
\* unless its write failed, no process takes a meeting for its own that the database does not
\* have, and an open meeting that MeetingState started has a process that will end it, although
\* requests of both kinds, restarts and the recovery interleave.
MeetingsAreWhole == MinutesCoverTranscript /\ MemoryIsStored /\ NoPhantomMeeting /\ OpenMeetingIsOwned

----------------------------------------------------------------------------
\* Background tasks go on, the watchdog fires once a limit has passed, and asyncio lets
\* every request go on.
Fairness ==
    /\ \A p \in Procs : WF_vars(Hydrates(p)) /\ WF_vars(Recover(p)) /\ WF_vars(Finalizes(p))
    /\ \A t \in Tasks : WF_vars(Works(t)) /\ WF_vars(Timeout(t))
FairSpec == Spec /\ Fairness

NoneOpen == \A m \in Meetings : row[m].state = "in_meeting" => row[m].loose

\* Every meeting that MeetingState started ends although processes die and writes fail.
EveryMeetingEnds == []<>NoneOpen

Finishing(m) == row[m].segs # {} /\ \E f \in finals : f.m = m
HasOutcome(m) == row[m].status # "none" \/ BeyondList(m)

\* A meeting with segments that _end_current() ended has minutes or says that they failed, although the
\* process died in between (recover_stuck_minutes), unless newer ended ones fill the list of the
\* recovery.
MinutesSettle == \A m \in Meetings : Finishing(m) ~> HasOutcome(m)

=============================================================================
