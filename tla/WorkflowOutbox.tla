--------------------------- MODULE WorkflowOutbox ---------------------------
(***************************************************************************)
(* The transactional outbox (backend/app/workflows/service.py): committed  *)
(* rows of workflow_outbox are projected to the in-memory event bus of     *)
(* every backend process.                                                  *)
(*                                                                         *)
(* A process registers as a consumer with a cursor.  flush_outbox() first  *)
(* takes part in the recovery of ancient unpublished rows, which one       *)
(* process at a time scans under a fenced lease, then delivers the rows    *)
(* beyond its cursor in order, then retries the heads of its own recovery  *)
(* lanes.  A scope (tenant, owner) whose delivery fails is queued in a     *)
(* lane so that other scopes go on.  prune_outbox() deletes old rows.      *)
(*                                                                         *)
(* Retry delays and lease terms are clocks: a lane is tried or left, and a *)
(* term may end, at any moment.  The sparse rows of migration 034 that an  *)
(* upgraded database drains first are left out.                            *)
(***************************************************************************)
EXTENDS Integers, Sequences, FiniteSets

CONSTANTS
    Consumers,   \* one per process incarnation, the ids are random
    NoOwner,     \* lease_owner is NULL
    Scopes,      \* tenant and owner of a row
    Broken,      \* scopes the bus of every process keeps refusing
    Window,      \* workflow_outbox_replay_window_rows
    Limit,       \* rows per page of a flush
    MaxRows,     \* bound: rows appended
    MaxFaults    \* bound: refused deliveries, crashes, expired terms, dropped consumers

ASSUME OutboxAssumption ==
    /\ IsFiniteSet(Consumers) /\ NoOwner \notin Consumers /\ Broken \subseteq Scopes
    /\ Window \in Nat /\ Limit \in Nat \ {0} /\ MaxRows \in Nat /\ MaxFaults \in Nat

VARIABLES
    outbox,   \* workflow_outbox, by outbox_id: scope and status
    consumer, \* workflow_outbox_consumers and their scope_recovery lanes
    global,   \* the singleton workflow_outbox_global_recovery_state
    lanes,    \* workflow_outbox_global_scope_recovery: head per scope, 0 if none
    flush,    \* where flush_outbox() of each process stands
    heard,    \* rows the bus of each process has carried
    skipped,  \* rows that were before the cursor or gone when a consumer registered
    faults

vars == <<outbox, consumer, global, lanes, flush, heard, skipped, faults>>

Ids == 1 .. MaxRows

Rows == [scope : Scopes, status : {"unpublished", "published", "pruned"}]

Pcs == {"idle", "register", "acquire", "normalize", "discover", "page", "mark", "global_lanes",
        "global_mark", "release", "main", "scope_lanes", "prune", "dead"}

\* id and ok: the row a recovery step has handed to the bus and the outcome;
\* page, upto and blocked: what one discovery pass has read; left: rows the
\* present part of the flush may still handle; floor: the cursor read before
\* registering; complete: discovery_complete.
Flushes == [pc : Pcs, floor : Nat, fence : Nat, page : SUBSET Ids, upto : Nat, left : Nat,
            blocked : SUBSET Scopes, id : Nat, ok : BOOLEAN, complete : BOOLEAN]

Idle == [pc |-> "idle", floor |-> 0, fence |-> 0, page |-> {}, upto |-> 0, left |-> 0,
         blocked |-> {}, id |-> 0, ok |-> FALSE, complete |-> FALSE]

TypeOK ==
    /\ outbox \in Seq(Rows)
    /\ consumer \in [Consumers -> [registered : BOOLEAN, cursor : Nat, lane : [Scopes -> Nat]]]
    /\ global \in [scan : Nat, through : Nat, owner : Consumers \cup {NoOwner}, fence : Nat,
                   live : BOOLEAN, failed : Consumers \cup {NoOwner}]
    /\ lanes \in [Scopes -> Nat]
    /\ flush \in [Consumers -> Flushes]
    /\ heard \in [Consumers -> SUBSET Ids]
    /\ skipped \in [Consumers -> SUBSET Ids]
    /\ faults \in Nat

NoLanes == [s \in Scopes |-> 0]

Init ==
    /\ outbox = <<>>
    /\ consumer = [c \in Consumers |-> [registered |-> FALSE, cursor |-> 0, lane |-> NoLanes]]
    /\ global = [scan |-> 0, through |-> 0, owner |-> NoOwner, fence |-> 0, live |-> FALSE,
                 failed |-> NoOwner]
    /\ lanes = NoLanes
    /\ flush = [c \in Consumers |-> Idle]
    /\ heard = [c \in Consumers |-> {}]
    /\ skipped = [c \in Consumers |-> {}]
    /\ faults = 0

-----------------------------------------------------------------------------

Kept == {i \in DOMAIN outbox : outbox[i].status # "pruned"}

Unpublished == {i \in DOMAIN outbox : outbox[i].status = "unpublished"}

Scope(i) == outbox[i].scope

Least(S) == CHOOSE i \in S : \A j \in S : i <= j

\* _outbox_replay_floor(): the id at OFFSET Window from the newest row, else 0.
ReplayFloor ==
    LET older == {i \in Kept : Cardinality({j \in Kept : j > i}) = Window}
    IN  IF older = {} THEN 0 ELSE Least(older)

\* The head a lane moves to: the least of the given rows, or 0 and no lane.
Head0(S) == IF S = {} THEN 0 ELSE Least(S)

\* _queue_scope_recovery(), _queue_global_scope_recovery(): a lane keeps its
\* earliest row.
Queued(lane, i) == [lane EXCEPT ![Scope(i)] = IF @ = 0 \/ i < @ THEN i ELSE @]

\* Variant: an ended term still counts.
OwnsScanExpired(c) == global.owner = c /\ global.fence = flush[c].fence

\* The lease term is held by this process, by this fence, and has not ended.
OwnsScan(c) == global.owner = c /\ global.fence = flush[c].fence /\ global.live

Fault == faults < MaxFaults /\ faults' = faults + 1

\* publish_to() of this process accepts or refuses the row.
Accepts(i) == Scope(i) \notin Broken /\ UNCHANGED faults

Refuses(i) == IF Scope(i) \in Broken THEN UNCHANGED faults ELSE Fault

SetFlush(c, f) == flush' = [flush EXCEPT ![c] = f]

Goto(c, pc) == flush' = [flush EXCEPT ![c].pc = pc]

\* published_at is set once; a row deleted meanwhile stays deleted.
Publish(i) ==
    outbox' = [outbox EXCEPT ![i].status = IF @ = "pruned" THEN @ ELSE "published"]

Hear(c, i) == heard' = [heard EXCEPT ![c] = @ \cup {i}]

\* Recent rows may pass only once every ancient row has been discovered.
AfterRecovery(complete) ==
    IF complete THEN [Idle EXCEPT !.pc = "main", !.left = Limit] ELSE [Idle EXCEPT !.pc = "prune"]

ScanComplete == global.scan >= global.through

\* _append_event_tx() and _append_domain_outbox_tx(), as the commit shows them.
AppendRow(s) ==
    /\ Len(outbox) < MaxRows
    /\ outbox' = Append(outbox, [scope |-> s, status |-> "unpublished"])
    /\ UNCHANGED <<consumer, global, lanes, flush, heard, skipped, faults>>

-----------------------------------------------------------------------------
(* _ensure_outbox_consumer(). *)

\* A known consumer only refreshes its heartbeat; a new one reads its cursor
\* before it takes the write lock.
Ensure(c) ==
    /\ flush[c].pc = "idle"
    /\ IF consumer[c].registered
         THEN Goto(c, "acquire")
         ELSE SetFlush(c, [Idle EXCEPT !.pc = "register", !.floor = ReplayFloor])
    /\ UNCHANGED <<outbox, consumer, global, lanes, heard, skipped, faults>>

\* Under the lock: the row is created at the floor, and the rows at or before it
\* become the business of the shared scan.
Register(c) ==
    LET floor == flush[c].floor IN
    /\ flush[c].pc = "register"
    /\ consumer' = [consumer EXCEPT ![c] = [registered |-> TRUE, cursor |-> floor, lane |-> NoLanes]]
    /\ global' = [global EXCEPT !.through = IF @ < floor THEN floor ELSE @]
    /\ skipped' = [skipped EXCEPT ![c] = {i \in DOMAIN outbox : i <= floor \/ i \notin Kept}]
    /\ Goto(c, "acquire")
    /\ UNCHANGED <<outbox, lanes, heard, faults>>

-----------------------------------------------------------------------------
(* _flush_global_recovery_rows(): the ancient rows. *)

\* lease_fence + 1, renamed: fences are only compared for equality, so the least
\* one that no process remembers stands for the next.
NextFence ==
    Least({n \in 1 .. Cardinality(Consumers) + 1 : \A d \in Consumers : flush[d].fence # n})

\* A free or ended term is taken, unless this process was the last to fail a
\* delivery and its retry time has not come.
TryAcquire(c) ==
    LET free == global.owner \in {NoOwner, c} \/ ~global.live IN
    /\ flush[c].pc = "acquire"
    /\ \/ /\ free
          /\ LET fence == IF global.owner = c THEN global.fence ELSE NextFence IN
               /\ global' = [global EXCEPT !.owner = c, !.fence = fence, !.live = TRUE]
               /\ SetFlush(c, [Idle EXCEPT !.pc = "normalize", !.fence = fence])
       \/ /\ ~free \/ global.failed = c
          /\ SetFlush(c, AfterRecovery(ScanComplete))
          /\ UNCHANGED global
    /\ UNCHANGED <<outbox, consumer, lanes, heard, skipped, faults>>

\* The next step of the page writes: it passes a blocked row or ends a short page.
PageWrites(f) == IF f.page = {} THEN f.left > 0 ELSE Scope(Least(f.page)) \in f.blocked

\* The term ended or was taken over: the open transaction is rolled back.
LoseScan(c) ==
    /\ ~OwnsScan(c)
    /\ \/ flush[c].pc \in {"normalize", "mark", "global_mark"}
       \/ flush[c].pc = "page" /\ PageWrites(flush[c])
    /\ SetFlush(c, [Idle EXCEPT !.pc = "release", !.fence = flush[c].fence, !.complete = ScanComplete])
    /\ UNCHANGED <<outbox, consumer, global, lanes, heard, skipped, faults>>

\* _normalize_global_scope_recovery(): heads that others published move on.
Normalize(c) ==
    /\ flush[c].pc = "normalize" /\ OwnsScan(c)
    /\ lanes' = [s \in Scopes |->
                   IF lanes[s] = 0 THEN 0
                   ELSE Head0({i \in Unpublished : Scope(i) = s /\ i >= lanes[s] /\ i <= global.through})]
    /\ Goto(c, "discover")
    /\ UNCHANGED <<outbox, consumer, global, heard, skipped, faults>>

\* One page of unpublished rows and the scopes that are blocked, read once.
Discover(c) ==
    LET found == {i \in Unpublished : i > global.scan /\ i <= global.through}
        page == {i \in found : Cardinality({j \in found : j < i}) < Limit}
    IN  /\ flush[c].pc = "discover"
        /\ IF ScanComplete
             THEN SetFlush(c, [flush[c] EXCEPT !.pc = "global_lanes", !.left = Limit, !.complete = TRUE])
             ELSE SetFlush(c, [flush[c] EXCEPT
                    !.pc = "page",
                    !.page = page,
                    !.upto = global.through,
                    !.left = Limit,
                    !.blocked = {s \in Scopes : lanes[s] # 0}])
        /\ UNCHANGED <<outbox, consumer, global, lanes, heard, skipped, faults>>

\* The next row of the page goes to the bus of this process.
PublishAncient(c) ==
    LET i == Least(flush[c].page) IN
    /\ flush[c].pc = "page" /\ flush[c].page # {}
    /\ Scope(i) \notin flush[c].blocked
    /\ \/ /\ Accepts(i) /\ Hear(c, i)
          /\ SetFlush(c, [flush[c] EXCEPT !.pc = "mark", !.id = i, !.ok = TRUE])
       \/ /\ Refuses(i) /\ UNCHANGED heard
          /\ SetFlush(c, [flush[c] EXCEPT !.pc = "mark", !.id = i, !.ok = FALSE])
    /\ UNCHANGED <<outbox, consumer, global, lanes, skipped>>

ScanTo(i) == [global EXCEPT !.scan = IF @ < i THEN i ELSE @]

\* _mark_global_outbox_published() or _failed(), with the scan cursor, in one
\* fenced transaction.
MarkAncient(c) ==
    LET f == flush[c]
        s == Scope(f.id)
    IN  /\ f.pc = "mark" /\ OwnsScan(c)
        /\ \/ /\ f.ok
              /\ global' = ScanTo(f.id)
              /\ Publish(f.id)
              /\ UNCHANGED lanes
              /\ SetFlush(c, [f EXCEPT !.pc = "page", !.page = @ \ {f.id}, !.left = @ - 1, !.id = 0, !.ok = FALSE])
           \/ /\ ~f.ok
              /\ global' = [ScanTo(f.id) EXCEPT !.failed = c]
              /\ lanes' = Queued(lanes, f.id)
              /\ UNCHANGED outbox
              /\ SetFlush(c, [f EXCEPT !.pc = "page", !.page = @ \ {f.id}, !.left = @ - 1, !.id = 0,
                                       !.blocked = @ \cup {s}])
        /\ UNCHANGED <<consumer, heard, skipped, faults>>

\* A row of a blocked scope is left to the lane of the scope.
PassBlocked(c) ==
    LET f == flush[c]
        i == Least(f.page)
    IN
    /\ f.pc = "page" /\ f.page # {} /\ OwnsScan(c)
    /\ Scope(i) \in f.blocked
    /\ global' = ScanTo(i)
    /\ SetFlush(c, [f EXCEPT !.page = @ \ {i}, !.left = @ - 1])
    /\ UNCHANGED <<outbox, consumer, lanes, heard, skipped, faults>>

\* Variant: a full page is taken for the whole range.
EndPageAlwaysWhole(c) ==
    LET f == flush[c] IN
    /\ f.pc = "page" /\ f.page = {} /\ OwnsScan(c)
    /\ global' = ScanTo(f.upto)
    /\ SetFlush(c, [Idle EXCEPT !.pc = "release", !.fence = f.fence, !.complete = TRUE])
    /\ UNCHANGED <<outbox, consumer, lanes, heard, skipped, faults>>

\* The page is done; a short one covers the whole range it was read for and
\* leaves room for the lanes.
EndPage(c) ==
    LET f == flush[c] IN
    /\ f.pc = "page" /\ f.page = {}
    /\ f.left > 0 => OwnsScan(c)
    /\ global' = IF f.left > 0 THEN ScanTo(f.upto) ELSE global
    /\ SetFlush(c, [Idle EXCEPT !.pc = IF f.left > 0 THEN "global_lanes" ELSE "release",
                                !.fence = f.fence, !.left = f.left,
                                !.complete = global'.scan >= global'.through])
    /\ UNCHANGED <<outbox, consumer, lanes, heard, skipped, faults>>

\* Variant: the lanes do not count against the page of the flush.
PublishLaneUncounted(c, s) ==
    LET i == lanes[s] IN
    /\ flush[c].pc = "global_lanes" /\ i \in Kept
    /\ Accepts(i) /\ Hear(c, i)
    /\ SetFlush(c, [flush[c] EXCEPT !.pc = "global_mark", !.id = i, !.ok = TRUE])
    /\ UNCHANGED <<outbox, consumer, global, lanes, skipped>>

\* The head of a global lane goes to the bus.
PublishLane(c, s) ==
    LET i == lanes[s] IN
    /\ flush[c].pc = "global_lanes" /\ flush[c].left > 0 /\ i \in Kept
    /\ \/ /\ Accepts(i) /\ Hear(c, i)
          /\ SetFlush(c, [flush[c] EXCEPT !.pc = "global_mark", !.id = i, !.ok = TRUE])
       \/ /\ Refuses(i) /\ UNCHANGED heard
          /\ SetFlush(c, [flush[c] EXCEPT !.pc = "global_mark", !.id = i, !.ok = FALSE])
    /\ UNCHANGED <<outbox, consumer, global, lanes, skipped>>

MarkLane(c) ==
    LET f == flush[c]
        s == Scope(f.id)
    IN  /\ f.pc = "global_mark" /\ OwnsScan(c)
        /\ \/ /\ f.ok
              /\ Publish(f.id)
              /\ lanes' = [lanes EXCEPT ![s] =
                   Head0({i \in Unpublished : Scope(i) = s /\ i > f.id /\ i <= global.through})]
              /\ UNCHANGED global
           \/ /\ ~f.ok
              /\ global' = [global EXCEPT !.failed = c]
              /\ lanes' = Queued(lanes, f.id)
              /\ UNCHANGED outbox
        /\ SetFlush(c, [f EXCEPT !.pc = "global_lanes", !.left = @ - 1, !.id = 0, !.ok = FALSE])
        /\ UNCHANGED <<consumer, heard, skipped, faults>>

\* No further lane is due: the exact term is given back, if it is still held.
ReleaseScan(c) ==
    LET f == flush[c] IN
    /\ f.pc \in {"global_lanes", "release"}
    /\ global' = IF global.owner = c /\ global.fence = f.fence
                   THEN [global EXCEPT !.owner = NoOwner, !.live = FALSE]
                   ELSE global
    /\ SetFlush(c, AfterRecovery(f.complete))
    /\ UNCHANGED <<outbox, consumer, lanes, heard, skipped, faults>>

-----------------------------------------------------------------------------
(* _flush_outbox_main_rows() and _flush_scope_recovery_rows(). *)

Ahead(c) == {i \in Kept : i > consumer[c].cursor}

\* Variant: only the global lanes hold a row back.
WaitsGlobalOnly(c, i) == lanes[Scope(i)] # 0 /\ lanes[Scope(i)] < i

\* _has_earlier_scope_recovery(): an own or a global lane of the scope is behind i.
Waits(c, i) ==
    \/ consumer[c].lane[Scope(i)] # 0 /\ consumer[c].lane[Scope(i)] < i
    \/ lanes[Scope(i)] # 0 /\ lanes[Scope(i)] < i

\* The row cannot be delivered now.
Held(c, i) == IF Waits(c, i) THEN UNCHANGED faults ELSE Refuses(i)

\* Variant: a row that is held stops the main page of every scope.
MainRowStops(c) ==
    LET i == Least(Ahead(c)) IN
    /\ flush[c].pc = "main" /\ flush[c].left > 0 /\ Ahead(c) # {}
    /\ \/ /\ ~Waits(c, i) /\ Accepts(i)
          /\ Hear(c, i)
          /\ Publish(i)
          /\ consumer' = [consumer EXCEPT ![c].cursor = i]
          /\ flush' = [flush EXCEPT ![c].left = @ - 1]
       \/ /\ Held(c, i)
          /\ SetFlush(c, Idle)
          /\ UNCHANGED <<outbox, consumer, heard>>
    /\ UNCHANGED <<global, lanes, skipped>>

\* The next row beyond the cursor is delivered or queued; the cursor passes it
\* either way.  A consumer that was dropped meanwhile has no row to queue under.
MainRow(c) ==
    LET i == Least(Ahead(c))
        me == consumer[c]
        queue == consumer' = [consumer EXCEPT ![c] = [me EXCEPT !.cursor = i, !.lane = Queued(me.lane, i)]]
        next == flush' = [flush EXCEPT ![c].left = @ - 1]
    IN  /\ flush[c].pc = "main" /\ flush[c].left > 0 /\ Ahead(c) # {}
        /\ \/ /\ ~Waits(c, i) /\ Accepts(i)
              /\ Hear(c, i)
              /\ Publish(i)
              /\ consumer' = [consumer EXCEPT ![c].cursor = i]
              /\ next
           \/ /\ me.registered /\ Held(c, i)
              /\ queue /\ next
              /\ UNCHANGED <<outbox, heard>>
           \/ /\ ~me.registered /\ Held(c, i)
              /\ SetFlush(c, Idle)
              /\ UNCHANGED <<outbox, consumer, heard>>
        /\ UNCHANGED <<global, lanes, skipped>>

EndMain(c) ==
    /\ flush[c].pc = "main"
    /\ flush[c].left = 0 \/ Ahead(c) = {}
    /\ SetFlush(c, [Idle EXCEPT !.pc = "scope_lanes", !.left = Limit])
    /\ UNCHANGED <<outbox, consumer, global, lanes, heard, skipped, faults>>

\* A due head of an own lane, unless a global lane of the scope is behind it.
ScopeRow(c, s) ==
    LET me == consumer[c]
        i == me.lane[s]
        rest == {j \in Kept : Scope(j) = s /\ j > i /\ j <= me.cursor}
    IN  /\ flush[c].pc = "scope_lanes" /\ flush[c].left > 0
        /\ me.registered /\ i # 0
        /\ ~(lanes[s] # 0 /\ lanes[s] < i)
        /\ \/ /\ Accepts(i) /\ Hear(c, i)
              /\ Publish(i)
              /\ consumer' = [consumer EXCEPT ![c].lane[s] = Head0(rest)]
           \/ /\ Refuses(i)
              /\ UNCHANGED <<outbox, consumer, heard>>
        /\ flush' = [flush EXCEPT ![c].left = @ - 1]
        /\ UNCHANGED <<global, lanes, skipped>>

\* No further head is due.
EndScopeLanes(c) ==
    /\ flush[c].pc = "scope_lanes"
    /\ SetFlush(c, [Idle EXCEPT !.pc = "prune"])
    /\ UNCHANGED <<outbox, consumer, global, lanes, heard, skipped, faults>>

-----------------------------------------------------------------------------
(* prune_outbox() and the end of a process. *)

\* Variant: lanes protect nothing.
InLaneIgnored(cons, i) == FALSE

\* A lane of a registered consumer still needs the row.
InLane(cons, i) ==
    \E c \in Consumers : LET l == cons[c].lane[Scope(i)] IN
        cons[c].registered /\ l # 0 /\ l <= i /\ i <= cons[c].cursor

\* Consumers without a recent heartbeat are dropped, their lanes with them; then
\* published rows that every remaining consumer has passed and that are outside
\* the replay window go, up to the age or count cutoff k.
Prune(c) ==
    /\ flush[c].pc = "prune" /\ consumer[c].registered
    /\ \E stale \in SUBSET (Consumers \ {c}) :
         LET cons == [d \in Consumers |-> IF d \in stale THEN [consumer[d] EXCEPT !.registered = FALSE, !.lane = NoLanes]
                                                         ELSE consumer[d]]
             safe == Least({cons[d].cursor : d \in {e \in Consumers : cons[e].registered}})
             floor == ReplayFloor
         IN  /\ \/ (\A d \in stale : flush[d].pc = "dead") /\ UNCHANGED faults
                \/ (\E d \in stale : flush[d].pc # "dead") /\ Fault
             /\ consumer' = cons
             /\ \E k \in 0 .. (IF safe < floor THEN safe ELSE floor) :
                  outbox' = [i \in DOMAIN outbox |->
                               IF outbox[i].status = "published" /\ i <= k /\ ~InLane(cons, i)
                                 THEN [outbox[i] EXCEPT !.status = "pruned"] ELSE outbox[i]]
    /\ SetFlush(c, Idle)
    /\ UNCHANGED <<global, lanes, heard, skipped>>

\* The cleanup interval has not passed.
SkipPrune(c) ==
    /\ flush[c].pc = "prune"
    /\ SetFlush(c, Idle)
    /\ UNCHANGED <<outbox, consumer, global, lanes, heard, skipped, faults>>

OtherAlive(c) == \E d \in Consumers \ {c} : flush[d].pc # "dead"

\* aclose(): between two flushes the consumer and its lease are removed.
Close(c) ==
    /\ flush[c].pc = "idle" /\ consumer[c].registered /\ OtherAlive(c)
    /\ Fault
    /\ consumer' = [consumer EXCEPT ![c].registered = FALSE, ![c].lane = NoLanes]
    /\ global' = IF global.owner = c THEN [global EXCEPT !.owner = NoOwner, !.live = FALSE] ELSE global
    /\ Goto(c, "dead")
    /\ UNCHANGED <<outbox, lanes, heard, skipped>>

\* The process dies at any point; its registration and its term stay behind.
Crash(c) ==
    /\ flush[c].pc # "dead" /\ OtherAlive(c)
    /\ Fault
    /\ SetFlush(c, [Idle EXCEPT !.pc = "dead"])
    /\ UNCHANGED <<outbox, consumer, global, lanes, heard, skipped>>

\* The term ends: always after its owner died, or because the owner is slow.
Expire ==
    /\ global.live
    /\ IF flush[global.owner].pc = "dead" THEN UNCHANGED faults ELSE Fault
    /\ global' = [global EXCEPT !.live = FALSE]
    /\ UNCHANGED <<outbox, consumer, lanes, flush, heard, skipped>>

-----------------------------------------------------------------------------

FlushOutbox(c) ==
    \/ Ensure(c) \/ Register(c) \/ TryAcquire(c) \/ LoseScan(c) \/ Normalize(c) \/ Discover(c)
    \/ PublishAncient(c) \/ MarkAncient(c) \/ PassBlocked(c) \/ EndPage(c)
    \/ MarkLane(c) \/ ReleaseScan(c) \/ MainRow(c) \/ EndMain(c) \/ EndScopeLanes(c)
    \/ Prune(c) \/ SkipPrune(c)

Next ==
    \/ \E s \in Scopes : AppendRow(s)
    \/ \E c \in Consumers : FlushOutbox(c) \/ Close(c) \/ Crash(c)
    \/ \E c \in Consumers, s \in Scopes : PublishLane(c, s) \/ ScopeRow(c, s)
    \/ Expire

Spec == Init /\ [][Next]_vars

\* Every process keeps polling: a flush goes on, comes to the free term once its
\* retry time has passed, and tries the due heads of the lanes whose scopes are
\* not refused.  The term of a dead owner ends.  Rows are not obliged to arrive.
Fairness ==
    /\ \A c \in Consumers :
         /\ WF_vars(FlushOutbox(c))
         /\ SF_vars(TryAcquire(c) /\ flush'[c].pc = "normalize")
         /\ SF_vars(\E s \in Scopes \ Broken : PublishLane(c, s) \/ ScopeRow(c, s))
    /\ WF_vars(Expire /\ UNCHANGED faults)

FairSpec == Spec /\ Fairness

-----------------------------------------------------------------------------
(* Properties. *)

\* The scan of ancient rows never leaves an unpublished row behind: a row the
\* scan cursor has passed is published, or a global lane of its scope will come
\* to it.  Otherwise no later consumer would ever look at the row again.
NothingLeftBehind ==
    \A i \in Unpublished : i <= global.scan => lanes[Scope(i)] # 0 /\ lanes[Scope(i)] <= i

\* A registered consumer carries every row from its registration on: what its
\* cursor has passed was on its bus or waits in its lane, and pruning by another
\* process never takes a row it still needs.
NoRowSkipped ==
    \A c \in Consumers : consumer[c].registered =>
        \A i \in DOMAIN outbox \ (heard[c] \cup skipped[c]) :
            /\ i \in Kept
            /\ i <= consumer[c].cursor => consumer[c].lane[Scope(i)] # 0 /\ consumer[c].lane[Scope(i)] <= i

\* Only the process that holds the current term of the scan moves the scan
\* cursor or a global lane: a slow process that was replaced changes nothing.
OnlyScannerMoves ==
    [][global'.scan # global.scan \/ lanes' # lanes =>
         \E c \in Consumers : /\ flush'[c] # flush[c]
                              /\ global.live /\ global.owner = c /\ global.fence = flush[c].fence]_vars

\* Rows of one scope that c's bus carries for the first time come after those it
\* has carried before.
InOrder(c) ==
    \A i \in heard'[c] \ heard[c], j \in heard[c] : Scope(j) = Scope(i) => j < i

\* As long as no other process has published anything, is registered or flushes,
\* the bus of a process carries the rows of each scope in the order they were
\* committed, although rows are refused, retried from a lane or left to the scan
\* of ancient rows.
OrderWhileAlone ==
    [][\A c \in Consumers :
         (\A d \in Consumers \ {c} :
            heard[d] = {} /\ ~consumer[d].registered /\ flush[d].pc = "idle") => InOrder(c)]_vars

\* The docstring of flush_outbox() promises that order to every principal, on
\* each bus and however many processes share the table.
ScopeOrderOnBus == [][\A c \in Consumers : InOrder(c)]_vars

OnlyBrokenLeft == \A i \in Unpublished : Scope(i) \in Broken

\* However often rows are committed, refused or left by a process that died, a
\* moment comes again at which every row of a scope the buses accept is
\* published: no such row waits for ever, although other scopes stay refused.
EventuallyPublished == []<>OnlyBrokenLeft

\* What the flushes of all processes leave behind is still published, and what a consumer passed
\* was on its bus: the two cursors of the outbox skip nothing.
OutboxIsComplete == NothingLeftBehind /\ NoRowSkipped

=============================================================================
