-------------------------- MODULE SessionCheckpoints --------------------------
(***************************************************************************)
(* The durable session of the embedded agent runtime                       *)
(* (runtime/session_checkpoint_persistence.py) behind the port its workers *)
(* use (B13SessionCheckpointPort in runtime/b13_composition.py).  A worker *)
(* starts the session, appends events, saves and resumes checkpoints; its  *)
(* successor may start while it is still at work, and each call reads with *)
(* one connection and writes with another.                                 *)
(***************************************************************************)
EXTENDS Naturals, Sequences, FiniteSets

CONSTANTS
    Workers,   \* workers of one session id
    Identity,  \* worker -> its ResumeIdentity (task, operation, model, grant, kernel build)
    None,      \* no row, no checkpoint
    MaxEvents, \* bound: rows of agent_runtime_events
    MaxSaves,  \* bound: checkpoints a worker builds
    MaxFaults  \* bound: workers that die, answers that are lost

VARIABLES
    session, \* the row of agent_runtime_sessions: identity, state, latest checkpoint
    events,  \* agent_runtime_events, by event_seq: who appended it
    stored,  \* agent_runtime_checkpoints: who built it, its number and its durable sequence
    work,    \* the workers: place, sequence read, checkpoint at hand, resumed checkpoint
    acked,   \* history: <<worker, sequence>> that append_durable_event() returned
    late,    \* history: a worker saved although another one had since it started
    over,    \* history: the session was finalized while no other worker was past reading its state
    faults

vars == <<session, events, stored, work, acked, late, over, faults>>

Idle == [at |-> "down", seq |-> 0, known |-> 0, built |-> 0, point |-> None, overtaken |-> FALSE]
Init ==
    /\ session = None
    /\ events = <<>> /\ stored = {}
    /\ work = [w \in Workers |-> Idle]
    /\ acked = {} /\ late = FALSE /\ over = FALSE
    /\ faults = 0

Durable == Len(events)  \* last_durable_event_seq, see EventsAreDense
At(w, place) == work[w].at = place
Goes(w, place) == work' = [work EXCEPT ![w].at = place]
Fault == faults < MaxFaults /\ faults' = faults + 1
History == <<acked, late, over>>

----------------------------------------------------------------------------
\* startup(): create_session() is an INSERT ... DO NOTHING and a comparison with what is there.
\* Variant: a session that is there is taken as it is.
BoundToAny(w) == TRUE
BoundTo(w) == session.identity = Identity[w]
Create(w) ==
    /\ At(w, "down")
    /\ \/ /\ session = None
          /\ session' = [identity |-> Identity[w], state |-> "open", latest |-> None]
          /\ work' = [work EXCEPT ![w] = [Idle EXCEPT !.at = "state", !.built = work[w].built]]
       \/ /\ session # None /\ UNCHANGED session
          /\ work' = [work EXCEPT ![w] = [Idle EXCEPT !.at = IF BoundTo(w) THEN "state" ELSE "refused",
                                                      !.built = work[w].built]]
    /\ UNCHANGED <<events, stored, History, faults>>

\* Variant: the state is not looked at.
StartableAny(state) == TRUE
Startable(state) == state \notin {"closed", "stale"}
ReadState(w) ==
    /\ At(w, "state")
    /\ Goes(w, IF Startable(session.state) THEN "open" ELSE "refused")
    /\ UNCHANGED <<session, events, stored, History, faults>>

SetOpen(w) ==
    /\ At(w, "open")
    /\ session' = [session EXCEPT !.state = "open"]
    /\ Goes(w, "resume")
    /\ UNCHANGED <<events, stored, History, faults>>

----------------------------------------------------------------------------
\* resume(): the durable sequence, then the session and its latest checkpoint.
ReadSeq(w, from, to) ==
    /\ At(w, from)
    /\ work' = [work EXCEPT ![w].at = to, ![w].seq = Durable]
    /\ UNCHANGED <<session, events, stored, History, faults>>

Resumable == session.state \in {"open", "paused"} /\ session.latest # None
Fresh == session.state \in {"open", "paused"} /\ session.latest = None
NotAhead(w) == session.latest.seq <= work[w].seq
Resume(w) ==
    /\ At(w, "resuming")
    /\ IF Resumable /\ BoundTo(w) /\ NotAhead(w)
       THEN work' = [work EXCEPT ![w].at = "idle", ![w].known = session.latest.seq, ![w].point = session.latest]
       ELSE Goes(w, IF Fresh THEN "idle" ELSE "down")
    /\ UNCHANGED <<session, events, stored, History, faults>>

\* append_durable_event(): current + 1 is written if nobody has written it; the loser's call raises.
\* Variant: the event that is there is replaced.
TakesAny(w) == TRUE
Takes(w) == work[w].seq = Durable
AppendEvent(w) ==
    LET n == work[w].seq + 1 IN
    /\ At(w, "append") /\ n <= MaxEvents
    /\ IF Takes(w)
       THEN /\ events' = [i \in 1 .. (IF n > Durable THEN n ELSE Durable) |-> IF i = n THEN w ELSE events[i]]
            /\ acked' = acked \cup {<<w, n>>}
            /\ work' = [work EXCEPT ![w].at = "idle", ![w].known = n]
       ELSE UNCHANGED <<events, acked>> /\ Goes(w, "idle")
    /\ UNCHANGED <<session, stored, late, over, faults>>

\* The kernel builds a checkpoint; it may count the event it is about to append, and it does not
\* go back behind the one it has.
Build(w) ==
    /\ At(w, "idle") /\ work[w].built < MaxSaves
    /\ \E seq \in {work[w].known, work[w].known + 1} :
         /\ work[w].point # None => seq >= work[w].point.seq
         /\ work' = [work EXCEPT ![w].at = "save", ![w].built = @ + 1,
                                 ![w].point = [by |-> w, n |-> work[w].built + 1, seq |-> seq]]
    /\ UNCHANGED <<session, events, stored, History, faults>>

\* Variant: the sequence of the checkpoint is not compared.
CoveredAny(point) == TRUE
Covered(point) == point.seq <= Durable
\* Variant: the first checkpoint stays the latest one.
LatestFirst(point) == IF session.latest = None THEN point ELSE session.latest
Latest(point) == point
\* save_checkpoint(), one transaction: the row, which a repeated call finds there, and the session's
\* latest_checkpoint_id, whatever was latest before.
Overtaken(w, place) ==
    [v \in Workers |-> IF v = w THEN [work[w] EXCEPT !.at = place]
                       ELSE [work[v] EXCEPT !.overtaken = @ \/ work[v].at \notin {"down", "refused"}]]
Save(w) ==
    /\ At(w, "save")
    /\ \/ UNCHANGED faults /\ work' = Overtaken(w, "idle")
       \/ Fault /\ work' = Overtaken(w, "save")
    /\ IF BoundTo(w) /\ Covered(work[w].point)
       THEN /\ stored' = stored \cup {work[w].point}
            /\ session' = [session EXCEPT !.latest = Latest(work[w].point)]
            /\ late' = (late \/ work[w].overtaken)
       ELSE UNCHANGED <<session, stored, late>>
    /\ UNCHANGED <<events, acked, over>>

----------------------------------------------------------------------------
SetState(w, state) ==
    /\ At(w, "idle")
    /\ session' = [session EXCEPT !.state = state]
    /\ Goes(w, "down")
    /\ UNCHANGED <<events, stored, acked, late, faults>>
Close(w) == SetState(w, "paused") /\ UNCHANGED over
Finalize(w) ==
    /\ SetState(w, "closed")
    /\ over' = (over \/ \A v \in Workers \ {w} : work[v].at \in {"down", "refused", "state"})

Die(w) ==
    /\ Fault /\ work[w].at \notin {"down", "refused"}
    /\ Goes(w, "down")
    /\ UNCHANGED <<session, events, stored, History>>

Works(w) ==
    \/ Create(w) \/ ReadState(w) \/ SetOpen(w)
    \/ ReadSeq(w, "resume", "resuming") \/ Resume(w)
    \/ ReadSeq(w, "idle", "append") \/ AppendEvent(w)
    \/ Build(w) \/ Save(w)
    \/ Close(w) \/ Finalize(w)
Next == \E w \in Workers : Works(w) \/ Die(w)
Spec == Init /\ [][Next]_vars

----------------------------------------------------------------------------
TypeOK ==
    /\ session # None => session.state \in {"open", "paused", "closed"} /\ session.latest \in stored \cup {None}
    /\ \A i \in 1 .. Len(events) : events[i] \in Workers
    /\ \A w \in Workers : work[w].seq \in 0 .. MaxEvents /\ work[w].known \in 0 .. MaxEvents

\* An event whose sequence was returned to a worker is in the log for good: two workers that read
\* the same sequence do not both get it (append_durable_event, PERSISTENCE_CONFLICT).
EventsAreDense == \A a \in acked : a[2] <= Durable /\ events[a[2]] = a[1]

\* No checkpoint is ahead of the events that are durable, and none is resumed that is: what a
\* worker resumes with can always be replayed (CHECKPOINT_EVENT_SEQ_AHEAD).
CheckpointIsCovered ==
    /\ \A c \in stored : c.seq <= Durable
    /\ \A w \in Workers : work[w].known <= Durable

\* Only workers of the identity the session was created with append, save or resume, whichever
\* worker came first (CHECKPOINT_IDENTITY_MISMATCH).
OneIdentity ==
    \A w \in Workers : work[w].at \notin {"down", "refused"} => Identity[w] = session.identity

\* A worker resumes where the last one left off: the latest checkpoint covers all that any saved one
\* does, as long as no worker saves although its successor has saved since it started.
LatestIsNewest ==
    ~late => \A c \in stored : c.seq <= session.latest.seq

\* A session that was finalized stays so, unless a worker was past reading its state when
\* finalize() came: that one sets it "open" or "paused" again (startup, close).
FinalizedStays == over => session.state = "closed"

=============================================================================
