---------------------------- MODULE EventStream ----------------------------
(***************************************************************************)
(* The event stream between the backend and a desktop window: the in-      *)
(* memory bus (adapters/event_bus/inmemory.py), the socket handler         *)
(* (api/ws.py) and the window's cursor (desktop/src/ws.ts, store.ts,       *)
(* hooks/useMeetingHistory.ts).  Every owner (a scope) has one stream with *)
(* its own epoch and sequence and a bounded history; at most MaxStreams    *)
(* streams are kept, an idle one is evicted for a new one, and a socket    *)
(* that finds no slot queues for one.  A slow socket's queue is emptied    *)
(* and the socket is fenced.  A window reconnects with the epoch and the   *)
(* sequence of the last event it applied, and reloads over REST when the   *)
(* backend says that the history does not reach back to it.                *)
(*                                                                         *)
(* The sections under the bus lock contain no await, so each is one step.  *)
(* One window per owner.  A frame the socket sent and the network lost is  *)
(* one it did not send: neither side acts on an acknowledgement.           *)
(***************************************************************************)
EXTENDS Integers, Sequences, FiniteSets, SequencesExt

CONSTANTS
    Scopes,        \* the owners, each with one window
    Conns,         \* socket handlers
    MaxStreams,    \* max_scope_streams
    MaxWaiters,    \* max_admission_waiters
    QueueCap,      \* per_subscriber_queue
    ReplayCap,     \* replay_buffer
    None,
    MaxEvents,     \* bound on the events published
    MaxEpochs,     \* bound on the streams made
    MaxFaults      \* bound on broken sockets, restarts, reloads and late pings

VARIABLES
    bus,     \* the InMemoryEventBus
    conn,    \* the running ws_echo handlers
    win,     \* the windows
    log,     \* history: the events published for each owner, <<epoch, seq>>
    unseen,  \* history: events older than a hello that named no epoch
    faults

vars == <<bus, conn, win, log, unseen, faults>>

-----------------------------------------------------------------------------
(* The bus.                                                                *)

NoBus(epochs) ==
    [streams |-> [s \in Scopes |-> None], order |-> << >>, waiters |-> << >>,
     grants |-> {}, epochs |-> epochs]

Kept(b) == {s \in Scopes : b.streams[s] # None}

Idle(b, s) ==
    /\ b.streams[s] # None
    /\ b.streams[s].subs = {}
    /\ \A g \in b.grants : g[1] # s

HasSlot(b) == Cardinality(Kept(b)) < MaxStreams \/ \E s \in Scopes : Idle(b, s)

\* A mutant: the evicted stream keeps its place in the order.
StreamOrderKept(b, s) ==
    LET old == SelectInSeq(b.order, LAMBDA t : Idle(b, t))
        gone == IF s \in Kept(b) \/ Cardinality(Kept(b)) < MaxStreams THEN {} ELSE {b.order[old]}
        fresh == [epoch |-> b.epochs + 1, seq |-> 0, oldest |-> 0, subs |-> {}]
    IN [b EXCEPT
          !.streams = [t \in Scopes |->
              IF t = s /\ s \notin Kept(b) THEN fresh
              ELSE IF t \in gone THEN None ELSE b.streams[t]],
          !.order = Append(SelectSeq(b.order, LAMBDA t : t # s), s),
          !.epochs = IF s \in Kept(b) THEN @ ELSE @ + 1]

\* _stream_locked: the stream of s moves to the end of the order; a new one takes a free
\* slot or the slot of the idle stream used longest ago.
Stream(b, s) ==
    LET old == SelectInSeq(b.order, LAMBDA t : Idle(b, t))
        gone == IF s \in Kept(b) \/ Cardinality(Kept(b)) < MaxStreams
                THEN {} ELSE {b.order[old]}
        fresh == [epoch |-> b.epochs + 1, seq |-> 0, oldest |-> 0, subs |-> {}]
    IN [b EXCEPT
          !.streams = [t \in Scopes |->
              IF t = s /\ s \notin Kept(b) THEN fresh
              ELSE IF t \in gone THEN None ELSE b.streams[t]],
          !.order = Append(SelectSeq(b.order, LAMBDA t : t \notin gone \cup {s}), s),
          !.epochs = IF s \in Kept(b) THEN @ ELSE @ + 1]

GrantOne(b) ==
    LET s == Head(b.waiters)[1]
    IN IF b.waiters # << >> /\ (s \in Kept(b) \/ HasSlot(b))
       THEN [Stream(b, s) EXCEPT !.waiters = Tail(@), !.grants = @ \cup {Head(b.waiters)}]
       ELSE b

Grant(b) ==
    LET g[n \in 0 .. Len(b.waiters)] == IF n = 0 THEN b ELSE GrantOne(g[n - 1])
    IN g[Len(b.waiters)]

\* A mutant: the slot is given up and nobody is told.
LeaveQuietly(b, k) ==
    LET s == conn[k].scope
    IN [b EXCEPT !.waiters = Remove(@, <<s, k>>), !.grants = @ \ {<<s, k>>},
                 !.streams[s] = IF @ = None THEN None ELSE [@ EXCEPT !.subs = @ \ {k}]]

\* _close_fenced_subscription and _cancel_scope_admission.
Leave(b, k) ==
    LET s == conn[k].scope
        c == [b EXCEPT !.waiters = Remove(@, <<s, k>>), !.grants = @ \ {<<s, k>>},
                       !.streams[s] = IF @ = None THEN None ELSE [@ EXCEPT !.subs = @ \ {k}]]
    IN Grant(c)

-----------------------------------------------------------------------------
(* The window.                                                             *)

NoConn == [at |-> "free", scope |-> None, hello |-> None, frames |-> << >>, queue |-> << >>, live |-> FALSE]

\* A mutant: a window trusts the stored cursor and loads nothing when it opens.
OpenedUnloaded(saved) ==
    [epoch |-> saved.epoch, seq |-> saved.seq, saved |-> saved, sock |-> None,
     known |-> {}, lost |-> {}, top |-> 0, last |-> None, rev |-> 0, fence |-> 0, retry |-> 0,
     ran |-> <<0, 0, 0>>, load |-> "idle", answer |-> {}, skipped |-> FALSE]

\* A window that has just been opened: the cursor comes from localStorage, the list of
\* meetings is loaded once (the effect has not run with any dependencies yet).  known is what
\* the list shows, top the newest event applied to it (the greatest of meetingEventSeq), and
\* lost is history: what a load took back or passed over.
Opened(saved) ==
    [epoch |-> saved.epoch, seq |-> saved.seq, saved |-> saved, sock |-> None,
     known |-> {}, lost |-> {}, top |-> 0, last |-> None, rev |-> 0, fence |-> 0, retry |-> 0,
     ran |-> None, load |-> "idle", answer |-> {}, skipped |-> FALSE]

Init ==
    /\ bus = NoBus(0)
    /\ conn = [k \in Conns |-> NoConn]
    /\ win = [s \in Scopes |-> Opened([epoch |-> None, seq |-> 0])]
    /\ log = [s \in Scopes |-> {}]
    /\ unseen = [s \in Scopes |-> {}]
    /\ faults = 0

\* The dependencies of the reload effect of useMeetingHistory: rehydrateRevision,
\* rehydrateFenceSeq and meetingListRetryRevision.
Deps(w) == <<w.rev, w.fence, w.retry>>

\* The effect is due, it runs, or it gave up and the list shows its error.
Reloading(w) == w.load # "idle" \/ w.ran # Deps(w)

\* requestRehydrate of ws.ts and of the store.
Request(w, epoch, fence) ==
    IF w.last = <<epoch, fence>> THEN w
    ELSE [w EXCEPT !.last = <<epoch, fence>>, !.rev = @ + 1, !.fence = fence]

\* reset of the store and a request: everything shown is dropped and the revisions start
\* again.  Both calls come before the next render, which sees the last values only.
ResetRequest(w, epoch, fence) ==
    LET clean == [w EXCEPT !.known = {}, !.lost = {}, !.top = 0, !.rev = 0, !.fence = 0, !.retry = 0,
                           !.load = IF @ = "failed" THEN "idle" ELSE @]
        r == Request(clean, epoch, fence)
    IN [r EXCEPT !.skipped = @ \/ r.ran = Deps(r)]

Save(w) == [w EXCEPT !.saved = [epoch |-> w.epoch, seq |-> w.seq]]

\* handleProtocol.
OnResync(w, f) ==
    LET r == [w EXCEPT !.epoch = f.epoch, !.seq = 0]
    IN IF f.changed \/ w.epoch \notin {None, f.epoch} THEN ResetRequest(r, f.epoch, f.seq)
       ELSE Request(r, f.epoch, f.seq)

OnSync(w, f) == Request(Save([w EXCEPT !.epoch = f.epoch, !.seq = f.seq]), f.epoch, f.seq)

OnHello(w, f) ==
    LET r == IF w.epoch \in {None, f.epoch} THEN w
             ELSE ResetRequest([w EXCEPT !.seq = 0], f.epoch, f.seq)
    IN Save([r EXCEPT !.epoch = f.epoch, !.seq = IF f.seq < @ THEN f.seq ELSE @])

\* onmessage of a business event: the window closes the socket itself when the event is
\* of another epoch or does not follow the last one.
Refuses(w, f) ==
    f.kind = "event" /\ (w.epoch \notin {None, f.epoch} \/ f.seq > w.seq + 1)

OnEvent(w, f) ==
    IF f.seq <= w.seq THEN [w EXCEPT !.epoch = f.epoch]
    ELSE Save([w EXCEPT !.epoch = f.epoch, !.seq = f.seq, !.top = IF f.seq > @ THEN f.seq ELSE @,
                        !.known = @ \cup {<<f.epoch, f.seq>>}, !.lost = @ \ {<<f.epoch, f.seq>>}])

Handled(w, f) ==
    CASE f.kind = "resync" -> OnResync(w, f)
      [] f.kind = "sync" -> OnSync(w, f)
      [] f.kind = "hello" -> OnHello(w, f)
      [] f.kind = "event" -> OnEvent(w, f)
      [] f.kind = "slow" -> w

\* The effect of useMeetingHistory runs with the dependencies of this render, ...
Render(s) ==
    /\ win[s].ran # Deps(win[s])
    /\ win' = [win EXCEPT ![s].ran = Deps(win[s]), ![s].load = "asked",
                          ![s].answer = {}, ![s].skipped = FALSE]
    /\ UNCHANGED <<bus, conn, log, unseen, faults>>

\* ... the backend answers with what is committed, ...
Answer(s) ==
    /\ win[s].load = "asked"
    /\ win' = [win EXCEPT ![s].load = "answered", ![s].answer = log[s]]
    /\ UNCHANGED <<bus, conn, log, unseen, faults>>

\* What showing the answer may lose, by the meetings the events are about.  The first load
\* (hydrateMeetings) lets the answer's state replace that of a card and drops a card that has
\* ended and is not in the answer: the events applied since the answer was made may go with it.
\* A reload (rehydrateMeetings) keeps a card to which an event after the fence was applied and
\* passes over its row: what only the answer has of that meeting is not taken in.
Loses(w) ==
    IF w.ran[1] = 0 THEN SUBSET (w.known \ w.answer)
    ELSE IF w.top > w.ran[2] THEN SUBSET (w.answer \ w.known) ELSE {{}}

\* ... and the answer is shown, over the events applied meanwhile.
Load(s) ==
    /\ win[s].load = "answered"
    /\ \E gone \in Loses(win[s]) :
           LET known == (win[s].known \cup win[s].answer) \ gone
           IN win' = [win EXCEPT ![s].load = "idle", ![s].known = known, ![s].answer = {},
                                 ![s].lost = (@ \cup gone) \ known]
    /\ UNCHANGED <<bus, conn, log, unseen, faults>>

\* The user asks again, with the button of the list that could not be loaded.
RetryLoad(s) ==
    /\ win[s].load = "failed"
    /\ win' = [win EXCEPT ![s].retry = @ + 1, ![s].load = "idle"]
    /\ UNCHANGED <<bus, conn, log, unseen, faults>>

-----------------------------------------------------------------------------
(* The socket handler.                                                     *)

\* A mutant: a history that no longer reaches back is not a gap.
GapNoExpiry(st, w) ==
    IF w.epoch # None /\ w.epoch # st.epoch THEN "stream_epoch_changed"
    ELSE IF w.seq > st.seq THEN "client_ahead_of_stream" ELSE "none"

\* _gap_reason_for_state.
Gap(st, w) ==
    IF w.epoch # None /\ w.epoch # st.epoch THEN "stream_epoch_changed"
    ELSE IF w.seq > st.seq THEN "client_ahead_of_stream"
    ELSE IF st.oldest # 0 /\ w.seq + 1 < st.oldest THEN "history_expired" ELSE "none"

Frame(kind, st, n) == [kind |-> kind, epoch |-> st.epoch, seq |-> n, changed |-> FALSE]

\* The events of the history after from.
Replay(st, from) ==
    LET first == IF from + 1 < st.oldest THEN st.oldest ELSE from + 1
    IN [n \in 1 .. (st.seq - first + 1) |-> Frame("event", st, first + n - 1)]

\* _send_handshake_frames, then the replay.
Handshake(st, w) ==
    LET gap == Gap(st, w)
        hello == Frame("hello", st, st.seq)
    IN IF gap = "none" THEN <<hello>> \o Replay(st, w.seq)
       ELSE << [Frame("resync", st, st.seq) EXCEPT !.changed = (gap = "stream_epoch_changed")],
               Frame("sync", st, st.seq), hello >>

\* open_fenced_subscription, from the lock on: replay and registration in one section.
Open(b, k, s, w, live) ==
    LET c == Stream(b, s)
        st == c.streams[s]
    IN /\ conn' = [conn EXCEPT ![k] = [NoConn EXCEPT
              !.at = "open", !.scope = s, !.frames = Handshake(st, w), !.live = live]]
       /\ bus' = Grant([c EXCEPT !.streams[s].subs = @ \cup {k}, !.grants = @ \ {<<s, k>>}])
       /\ unseen' = [unseen EXCEPT ![s] =
              IF w.epoch = None /\ Gap(st, w) = "none"
              THEN @ \cup {e \in log[s] : e[1] # st.epoch} ELSE @]

Free(k) == conn[k].at = "free"

\* A window connects; the scope has a stream.
ConnectAdmitted(s, k) ==
    /\ win[s].sock = None /\ Free(k) /\ bus.streams[s] # None
    /\ win' = [win EXCEPT ![s].sock = k]
    /\ Open(bus, k, s, win[s], TRUE)
    /\ UNCHANGED <<log, faults>>

\* A window connects and its scope has no stream: it queues, unless the scope queues
\* already or the queue is full (_await_scope_admission; the socket is closed with 4429).
ConnectQueued(s, k) ==
    /\ win[s].sock = None /\ Free(k) /\ bus.streams[s] = None
    /\ \A w \in Range(bus.waiters) : w[1] # s
    /\ Len(bus.waiters) < MaxWaiters
    /\ win' = [win EXCEPT ![s].sock = k]
    /\ conn' = [conn EXCEPT ![k] = [NoConn EXCEPT !.at = "waiting", !.scope = s, !.live = TRUE,
                                    !.hello = [epoch |-> win[s].epoch, seq |-> win[s].seq]]]
    /\ bus' = Grant([bus EXCEPT !.waiters = Append(@, <<s, k>>)])
    /\ UNCHANGED <<log, unseen, faults>>

\* The admission future is set and the handler goes on with the cursor of its hello.
Admitted(k) ==
    /\ conn[k].at = "waiting" /\ <<conn[k].scope, k>> \in bus.grants
    /\ Open(bus, k, conn[k].scope, conn[k].hello, conn[k].live)
    /\ UNCHANGED <<win, log, faults>>

\* The handler of k ends: its subscription, its place in the queue and its grant are given up.
Ends(k) ==
    /\ bus' = Leave(bus, k)
    /\ conn' = [conn EXCEPT ![k] = NoConn]

\* admission_wait_timeout_s is over; the grant may have been made meanwhile.
TimesOut(k) ==
    /\ conn[k].at = "waiting"
    /\ Ends(k)
    /\ win' = [win EXCEPT ![conn[k].scope].sock = IF @ = k THEN None ELSE @]
    /\ UNCHANGED <<log, unseen, faults>>

\* sender: the next frame of the handshake, the replay or the queue.  After the frame that
\* fences a slow consumer the handler closes the socket (4409).
Send(k) ==
    LET s == conn[k].scope
        all == conn[k].frames \o conn[k].queue
        f == Head(all)
        ends == f.kind = "slow" \/ Refuses(win[s], f)
    IN /\ conn[k].at = "open" /\ conn[k].live /\ all # << >>
       /\ win' = [win EXCEPT ![s] =
              IF ends THEN [win[s] EXCEPT !.sock = None] ELSE Handled(win[s], f)]
       /\ IF ends THEN Ends(k)
          ELSE /\ conn' = [conn EXCEPT
                     ![k].frames = IF @ = << >> THEN @ ELSE Tail(@),
                     ![k].queue = IF conn[k].frames = << >> THEN Tail(@) ELSE @]
               /\ bus' = bus
       /\ UNCHANGED <<log, unseen, faults>>

\* The receiver, or the sender of an admitted socket, finds that the window is gone.
HangsUp(k) ==
    /\ conn[k].at = "open" /\ ~conn[k].live
    /\ Ends(k)
    /\ UNCHANGED <<win, log, unseen, faults>>

\* A mutant: an event that finds a full queue is dropped, the socket is not fenced.
PublishDropsNewest(s) ==
    LET d == Grant(bus)
        c == Stream(d, s)
        st == c.streams[s]
        n == st.seq + 1
        old == IF n > ReplayCap THEN n - ReplayCap + 1 ELSE 1
        full == {k \in st.subs : Len(conn[k].queue) >= QueueCap}
        up == [st EXCEPT !.seq = n, !.oldest = old]
    IN /\ Cardinality(UNION {log[t] : t \in Scopes}) < MaxEvents
       /\ s \in Kept(d) \/ HasSlot(d)
       /\ bus' = [c EXCEPT !.streams[s] = up]
       /\ conn' = [k \in Conns |->
              IF k \notin st.subs THEN conn[k]
              ELSE IF k \in full THEN conn[k]
              ELSE [conn[k] EXCEPT !.queue = Append(@, Frame("event", up, n))]]
       /\ log' = [log EXCEPT ![s] = @ \cup {<<st.epoch, n>>}]
       /\ UNCHANGED <<win, unseen, faults>>

\* publish_to and _fan_out_locked.  With no slot the publication raises (the outbox retries).
Publish(s) ==
    LET d == Grant(bus)
        c == Stream(d, s)
        st == c.streams[s]
        n == st.seq + 1
        old == IF n > ReplayCap THEN n - ReplayCap + 1 ELSE 1
        full == {k \in st.subs : Len(conn[k].queue) >= QueueCap}
        up == [st EXCEPT !.seq = n, !.oldest = old, !.subs = @ \ full]
    IN /\ Cardinality(UNION {log[t] : t \in Scopes}) < MaxEvents
       /\ s \in Kept(d) \/ HasSlot(d)
       /\ bus' = [c EXCEPT !.streams[s] = up]
       /\ conn' = [k \in Conns |->
              IF k \notin st.subs THEN conn[k]
              ELSE IF k \in full THEN [conn[k] EXCEPT !.queue = <<Frame("slow", st, 0)>>]
              ELSE [conn[k] EXCEPT !.queue = Append(@, Frame("event", up, n))]]
       /\ log' = [log EXCEPT ![s] = @ \cup {<<st.epoch, n>>}]
       /\ UNCHANGED <<win, unseen, faults>>

-----------------------------------------------------------------------------
(* What goes wrong.                                                        *)

Fault == faults < MaxFaults /\ faults' = faults + 1

\* The network breaks, or the window's watchdog closes an idle socket.
Breaks(s) ==
    LET k == win[s].sock
    IN /\ Fault /\ k # None
       /\ win' = [win EXCEPT ![s].sock = None]
       /\ conn' = [conn EXCEPT ![k].live = FALSE]
       /\ UNCHANGED <<bus, log, unseen>>

\* listMeetings failed six times: the effect gives up and the list says so.
LoadGivesUp(s) ==
    /\ Fault
    /\ win[s].load = "asked"
    /\ win' = [win EXCEPT ![s].load = "failed"]
    /\ UNCHANGED <<bus, conn, log, unseen>>

\* The window is reloaded: only the stored cursor survives.
WindowReload(s) ==
    LET k == win[s].sock
    IN /\ Fault
       /\ win' = [win EXCEPT ![s] = Opened(win[s].saved)]
       /\ conn' = IF k = None THEN conn ELSE [conn EXCEPT ![k].live = FALSE]
       /\ UNCHANGED <<bus, log, unseen>>

\* aclose, or a crash: the bus lives in memory.
BackendRestart ==
    /\ Fault
    /\ bus' = NoBus(bus.epochs)
    /\ conn' = [k \in Conns |-> NoConn]
    /\ win' = [s \in Scopes |-> [win[s] EXCEPT !.sock = None]]
    /\ UNCHANGED <<log, unseen>>

\* _send_ping of a fenced socket asks for a stream that was evicted meanwhile and makes one.
LatePing(k) ==
    /\ Fault
    /\ conn[k].at = "open" /\ bus.streams[conn[k].scope] = None /\ HasSlot(bus)
    /\ bus' = Stream(bus, conn[k].scope)
    /\ UNCHANGED <<conn, win, log, unseen>>

Next ==
    /\ \/ \E s \in Scopes :
              \/ Render(s) \/ Answer(s) \/ Load(s) \/ LoadGivesUp(s) \/ RetryLoad(s)
              \/ Publish(s) \/ Breaks(s) \/ WindowReload(s)
       \/ \E s \in Scopes, k \in Conns : ConnectAdmitted(s, k) \/ ConnectQueued(s, k)
       \/ \E k \in Conns : Admitted(k) \/ TimesOut(k) \/ Send(k) \/ HangsUp(k) \/ LatePing(k)
       \/ BackendRestart
    /\ bus'.epochs <= MaxEpochs

Spec == Init /\ [][Next]_vars

\* What runs without being asked: the handlers, the window's reconnection and its reload.
WindowStep(s) ==
    \/ Render(s) \/ Answer(s) \/ Load(s)
    \/ \E k \in Conns : ConnectAdmitted(s, k) \/ ConnectQueued(s, k)
ConnStep(k) == Admitted(k) \/ TimesOut(k) \/ Send(k) \/ HangsUp(k)
FairSpec ==
    /\ Spec
    /\ \A s \in Scopes : WF_vars(WindowStep(s))
    /\ \A k \in Conns : WF_vars(ConnStep(k))

-----------------------------------------------------------------------------
(* Properties.                                                             *)

Cursor == [epoch : Nat \cup {None}, seq : Nat]
FrameType == [kind : {"hello", "resync", "sync", "event", "slow"}, epoch : Nat, seq : Nat, changed : BOOLEAN]

\* The shape of the bus, the handlers and the windows.
TypeOK ==
    /\ \A s \in Scopes : bus.streams[s] # None =>
           bus.streams[s] \in [epoch : Nat, seq : Nat, oldest : Nat, subs : SUBSET Conns]
    /\ Range(bus.order) = Kept(bus) /\ Len(bus.order) = Cardinality(Kept(bus))
    /\ Range(bus.waiters) \cup bus.grants \subseteq Scopes \X Conns
    /\ \A k \in Conns :
           /\ conn[k].at \in {"free", "waiting", "open"} /\ conn[k].live \in BOOLEAN
           /\ conn[k].hello \in Cursor \cup {None}
           /\ Range(conn[k].frames) \cup Range(conn[k].queue) \subseteq FrameType
           /\ Len(conn[k].queue) <= QueueCap
    /\ \A s \in Scopes :
           /\ [epoch |-> win[s].epoch, seq |-> win[s].seq] \in Cursor /\ win[s].saved \in Cursor
           /\ win[s].sock \in Conns \cup {None} 
           /\ win[s].load \in {"idle", "asked", "answered", "failed"}
           /\ win[s].known \cup win[s].answer \cup win[s].lost \cup unseen[s] \subseteq log[s]
           /\ win[s].lost \cap win[s].known = {}
    /\ faults \in 0 .. MaxFaults

Fenced(k) == conn[k].at = "open"
    /\ (bus.streams[conn[k].scope] = None \/ k \notin bus.streams[conn[k].scope].subs)

Connected(s) ==
    /\ win[s].sock # None
    /\ conn[win[s].sock].at = "open"
    /\ conn[win[s].sock].frames \o conn[win[s].sock].queue = << >>
    /\ ~Fenced(win[s].sock)

CaughtUp(s) == Connected(s) /\ ~Reloading(win[s])

\* A window that is connected, has handled every frame and whose last load succeeded shows
\* every event published for its owner: through evictions, restarts, fenced queues, broken
\* sockets and window reloads none is missed without the window being told.  Three cases are
\* out: an event of an earlier epoch that the very first hello, which names no epoch, cannot ask
\* for, the reload that the effect skips (ResetIsReloaded), and what a load that overlapped with
\* events took back or passed over (Loses).
NothingMissed ==
    \A s \in Scopes :
        CaughtUp(s) /\ ~win[s].skipped => log[s] \ win[s].known \subseteq unseen[s] \cup win[s].lost

\* After the handshake the frames of a socket continue the window's cursor without a gap, in
\* one epoch, up to the head of the stream: the window never has to refuse an event.
Continuity ==
    \A s \in Scopes :
        LET k == win[s].sock
            todo == conn[k].frames \o conn[k].queue
        IN (k # None /\ conn[k].at = "open" /\ ~Fenced(k) /\ \A i \in DOMAIN todo : todo[i].kind = "event") =>
              /\ \A i \in DOMAIN todo :
                     todo[i].epoch = win[s].epoch /\ todo[i].seq = win[s].seq + i
              /\ win[s].epoch = bus.streams[s].epoch
              /\ win[s].seq + Len(todo) = bus.streams[s].seq

\* The bus keeps to its bound, a granted slot stays with the socket it was granted to, and a
\* socket does not queue beside a free slot, unless a fenced socket, whose closing hands the
\* slot on, has not closed yet.
SlotsAreHandedOn ==
    /\ Cardinality(Kept(bus)) <= MaxStreams
    /\ \A g \in bus.grants : bus.streams[g[1]] # None /\ conn[g[2]].at = "waiting"
    /\ (bus.waiters # << >> /\ (Head(bus.waiters)[1] \in Kept(bus) \/ HasSlot(bus)))
           => \E k \in Conns : Fenced(k)

\* docs/0.3/README.md: after a resync the window reloads everything over REST.
ResetIsReloaded == \A s \in Scopes : ~win[s].skipped

\* The window shows everything but what a load lost, or says that it could not load.
UpToDate ==
    \A s \in Scopes :
        /\ Connected(s)
        /\ win[s].load # "failed" =>
               CaughtUp(s) /\ log[s] \ win[s].known \subseteq unseen[s] \cup win[s].lost

\* A window ends up connected and showing everything, or with the error of its last load, once
\* the faults are over.
WindowCatchesUp == <>[]UpToDate

=============================================================================
