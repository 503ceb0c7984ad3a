----------------------------- MODULE RequestGate -----------------------------
(***************************************************************************)
(* What one HTTP request of a public deployment takes on its way in and    *)
(* has to give back on every way out:                                      *)
(*                                                                         *)
(*   UploadIngressMiddleware   a place and bytes of the process-wide body  *)
(*                             budget (upload/ingress.py);                 *)
(*   PreAuthAdmission          a lease of the gate before authentication,  *)
(*                             and for /session routes a second one that   *)
(*                             is handed over to the middleware            *)
(*                             (security/access.py, main.py);              *)
(*   PrincipalGovernor         a reservation of the day's upload bytes and *)
(*                             the concurrency leases (governor.py);       *)
(*   ScopedRuntimeRegistry     a lease on the owner's runtime, kept in an  *)
(*                             LRU of bounded size (scoped_registry.py).   *)
(*                                                                         *)
(* The response of a stream request is sent after the middleware returned, *)
(* so its governor and runtime leases change hands a second time           *)
(* (_defer_sse_lifecycle).  A request reaches its own end through refusal, *)
(* failure, time-out or success, and any SQLite statement may fail.        *)
(***************************************************************************)
EXTENDS Naturals, Sequences, FiniteSets, SequencesExt

CONSTANTS Reqs, Peers, Owners, Kinds,
          MaxBodies, MaxBytes,            \* upload ingress budget
          GlobalActive, PeerActive, GlobalTries, PeerTries, MaxPeers,
          Concurrent, DayBytes,           \* governor limits
          MaxRuntimes,                    \* LRU size
          MaxValues, MaxPending,          \* bounds: runtimes alive at once, and
                                          \* evictions background work leaves open
          MaxDay, MaxFaults               \* bounds

AllKinds == {"plain", "upload", "session", "stream"}

VARIABLES
  req,        \* request -> where it is and what it holds
  ingress,    \* bodies arriving: how many and how many bytes
  http, body, \* the two pre-authentication gates
  quota,      \* owner -> [requests, expensive] concurrency counts
  day, spent, \* the current day; <<owner, day>> -> bytes charged
  entries,    \* the registry: LRU sequence of [owner, value, leases]
  pending,    \* runtimes evicted and not yet taken by flush_closures
  closed,     \* runtimes closed while the registry or a request still has them
  janitor,    \* the sweeping task: [at, mine]
  accepted, stuck, leaked,   \* history, see the properties
  faults

vars == <<req, ingress, http, body, quota, day, spent, entries, pending,
          closed, janitor, accepted, stuck, leaked, faults>>

registry == <<entries, pending>>
ledger == <<day, spent>>
history == <<accepted, stuck, leaked>>
gates == <<http, body>>

NoReservation == [bytes |-> 0, day |-> 0, open |-> FALSE]

Idle == [at |-> "idle", kind |-> "plain", peer |-> "none",
         owner |-> "none", holds |-> {}, bytes |-> 0,
         res |-> NoReservation, value |-> 0, mine |-> {}, sse |-> FALSE]

EmptyGate == [peers |-> <<>>, active |-> 0, tries |-> 0]

Init ==
  /\ req = [r \in Reqs |-> Idle]
  /\ ingress = [n |-> 0, bytes |-> 0]
  /\ http = EmptyGate /\ body = EmptyGate
  /\ quota = [o \in Owners |-> [requests |-> 0, expensive |-> 0]]
  /\ day = 0 /\ spent = [x \in Owners \X (0..MaxDay) |-> 0]
  /\ entries = <<>> /\ pending = {} /\ closed = {}
  /\ janitor = [at |-> "asleep", mine |-> {}]
  /\ accepted = [x \in Owners \X (0..MaxDay) |-> 0]
  /\ stuck = [x \in Owners \X (0..MaxDay) |-> 0]
  /\ leaked = [o \in Owners |-> 0]
  /\ faults = 0

-----------------------------------------------------------------------------
(* PreAuthAdmission: acquire answers whether the caller got a lease and    *)
(* what the gate looks like then; a refusal for capacity still costs an    *)
(* attempt, and a peer is forgotten only while it holds no lease.          *)

PeerAt(g, p) == {i \in DOMAIN g.peers : g.peers[i].who = p}

\* _peer_locked: the peer's record and the others, least recent first.
PeerLocked(g, p) ==
  LET here == PeerAt(g, p)
      idle == {i \in DOMAIN g.peers : g.peers[i].active = 0}
      new == [who |-> p, active |-> 0, tries |-> 0]
  IN  CASE here # {} -> LET i == CHOOSE i \in here : TRUE
                        IN  [me |-> g.peers[i], rest |-> RemoveAt(g.peers, i)]
        [] here = {} /\ Len(g.peers) < MaxPeers -> [me |-> new, rest |-> g.peers]
        [] OTHER -> [me |-> new, rest |-> RemoveAt(g.peers, Min(idle))]

CanTrack(g, p) ==
  \/ PeerAt(g, p) # {} \/ Len(g.peers) < MaxPeers
  \/ \E i \in DOMAIN g.peers : g.peers[i].active = 0

Acquire(g, p) ==
  LET found == PeerLocked(g, p)
      with(n, k) == [peers |-> Append(found.rest, [found.me EXCEPT !.tries = @ + n,
                                                                   !.active = @ + k]),
                     active |-> g.active + k, tries |-> g.tries + n]
  IN  CASE ~CanTrack(g, p) -> [ok |-> FALSE, gate |-> g]
        [] CanTrack(g, p) /\ (g.tries >= GlobalTries \/ found.me.tries >= PeerTries)
             -> [ok |-> FALSE, gate |-> with(0, 0)]
        [] CanTrack(g, p) /\ g.tries < GlobalTries /\ found.me.tries < PeerTries
           /\ (g.active >= GlobalActive \/ found.me.active >= PeerActive)
             -> [ok |-> FALSE, gate |-> with(1, 0)]
        [] OTHER -> [ok |-> TRUE, gate |-> with(1, 1)]

\* _release: nothing is given back for a peer the gate does not know.
Release(g, p) ==
  IF \E i \in PeerAt(g, p) : g.peers[i].active > 0
  THEN LET i == CHOOSE i \in PeerAt(g, p) : TRUE
       IN  [g EXCEPT !.peers[i].active = @ - 1, !.active = @ - 1]
  ELSE g

\* The rate window of both gates passes (the clock).
Tick ==
  /\ http.tries > 0 \/ body.tries > 0
  /\ LET fresh(g) == [g EXCEPT !.tries = 0,
                       !.peers = [i \in DOMAIN g.peers |-> [g.peers[i] EXCEPT !.tries = 0]]]
     IN  http' = fresh(http) /\ body' = fresh(body)
  /\ UNCHANGED <<req, ingress, quota, ledger, registry, closed, janitor, history, faults>>

Midnight ==
  /\ day < MaxDay
  /\ day' = day + 1
  /\ UNCHANGED <<req, ingress, gates, quota, spent, registry, closed, janitor, history, faults>>

-----------------------------------------------------------------------------
(* The registry.                                                           *)

EntryOf(o) == {i \in DOMAIN entries : entries[i].owner = o}
IdleEntries == {i \in DOMAIN entries : entries[i].leases = 0}

InUse == {entries[i].value : i \in DOMAIN entries} \cup {req[r].value : r \in Reqs}

\* Closing a runtime harms whoever still works with it.
Closing(v) == closed \cup ({v} \cap InUse)

\* Runtimes somebody may still refer to.
Alive == InUse \cup pending \cup janitor.mine \cup UNION {req[r].mine : r \in Reqs}

\* Mutant of GetOrCreate: the least recently used runtime is evicted, leased or not.
EvictsLeased(o, n) ==
  \/ \E i \in EntryOf(o) :
       /\ entries' = Append(RemoveAt(entries, i), [entries[i] EXCEPT !.leases = @ + n])
       /\ UNCHANGED pending
  \/ /\ EntryOf(o) = {} /\ (1..MaxValues) \ Alive # {}
     /\ LET new == [owner |-> o, value |-> Min((1..MaxValues) \ Alive), leases |-> n]
        IN  IF Len(entries) < MaxRuntimes
            THEN entries' = Append(entries, new) /\ pending' = pending
            ELSE /\ entries' = Append(Tail(entries), new)
                 /\ pending' = pending \cup {Head(entries).value}

\* get_or_create and then the lease of acquire: n leases more on o's runtime.
GetOrCreate(o, n) ==
  \/ \E i \in EntryOf(o) :
       /\ entries' = Append(RemoveAt(entries, i), [entries[i] EXCEPT !.leases = @ + n])
       /\ UNCHANGED pending
  \/ /\ EntryOf(o) = {} /\ (1..MaxValues) \ Alive # {}
     /\ Len(entries) < MaxRuntimes \/ IdleEntries # {}
     /\ LET v == Min((1..MaxValues) \ Alive)
            new == [owner |-> o, value |-> v, leases |-> n]
        IN  IF Len(entries) < MaxRuntimes
            THEN entries' = Append(entries, new) /\ pending' = pending
            ELSE LET i == Min(IdleEntries)
                 IN  /\ entries' = Append(RemoveAt(entries, i), new)
                     /\ pending' = pending \cup {entries[i].value}

ValueOf(o, es) == es[CHOOSE i \in DOMAIN es : es[i].owner = o].value

AllActive(o) == EntryOf(o) = {} /\ Len(entries) >= MaxRuntimes /\ IdleEntries = {}

\* RuntimeLease.release, then the swap at the start of flush_closures.
Unlease(o) ==
  entries' = [i \in DOMAIN entries |->
                IF entries[i].owner = o
                THEN [entries[i] EXCEPT !.leases = IF @ = 0 THEN 0 ELSE @ - 1]
                ELSE entries[i]]

-----------------------------------------------------------------------------
(* The way in.                                                             *)

Step(r, at) == [req[r] EXCEPT !.at = at]

\* _BodyGuard.run: whatever is still held of the body budget is given back
\* when the application returns.
BodyGone(r) ==
  ingress' = IF "ingress" \in req[r].holds
             THEN [n |-> ingress.n - 1, bytes |-> ingress.bytes - req[r].bytes]
             ELSE ingress

\* UploadIngressMiddleware.__call__: d is the declared length (0: none given).
Arrive(r, p, o, k, d) ==
  /\ req[r].at = "idle" /\ k \in Kinds
  /\ d > 0 => k = "upload"
  /\ LET new == [Idle EXCEPT !.peer = p, !.owner = o, !.kind = k]
     IN  IF k = "plain"
         THEN req' = [req EXCEPT ![r] = [new EXCEPT !.at = "gate"]] /\ UNCHANGED ingress
         ELSE /\ ingress.n < MaxBodies /\ ingress.bytes + d <= MaxBytes
              /\ ingress' = [n |-> ingress.n + 1, bytes |-> ingress.bytes + d]
              /\ req' = [req EXCEPT ![r] = [new EXCEPT !.at = "gate", !.bytes = d,
                                                       !.holds = {"ingress"}]]
  /\ UNCHANGED <<gates, quota, ledger, registry, closed, janitor, history, faults>>

\* A request answered before the middleware bound anything.
Refused(r) == BodyGone(r) /\ req' = [req EXCEPT ![r] = Idle]

\* admit_session_body, only for the session routes.
AdmitBody(r) ==
  /\ req[r].at = "gate" /\ req[r].kind = "session" /\ "body" \notin req[r].holds
  /\ LET g == Acquire(body, req[r].peer)
     IN  /\ body' = g.gate
         /\ IF g.ok THEN /\ req' = [req EXCEPT ![r].holds = @ \cup {"body"}]
                         /\ UNCHANGED ingress
                    ELSE Refused(r)
  /\ UNCHANGED <<http, quota, ledger, registry, closed, janitor, history, faults>>

\* Mutant of AdmitHttp: the session gate's lease is forgotten in the refusal.
ForgetsBody(r) ==
  /\ req[r].at = "gate"
  /\ req[r].kind = "session" => "body" \in req[r].holds
  /\ LET g == Acquire(http, req[r].peer)
     IN  /\ http' = g.gate
         /\ IF g.ok THEN /\ req' = [req EXCEPT ![r].at = "auth", ![r].holds = @ \cup {"pre"}]
                         /\ UNCHANGED ingress
                    ELSE Refused(r)
  /\ UNCHANGED <<body, quota, ledger, registry, closed, janitor, history, faults>>

AdmitHttp(r) ==
  /\ req[r].at = "gate"
  /\ req[r].kind = "session" => "body" \in req[r].holds
  /\ LET g == Acquire(http, req[r].peer)
     IN  /\ http' = g.gate
         /\ IF g.ok THEN /\ req' = [req EXCEPT ![r].at = "auth", ![r].holds = @ \cup {"pre"}]
                         /\ UNCHANGED <<ingress, body>>
                    ELSE /\ Refused(r)
                         /\ body' = IF "body" \in req[r].holds
                                    THEN Release(body, req[r].peer) ELSE body
  /\ UNCHANGED <<quota, ledger, registry, closed, janitor, history, faults>>

\* _resolve_request_principal after the look-up: a principal, or a refusal of
\* the origin, the version or the session; the finally block runs either way.
Resolve(r, ok) ==
  /\ req[r].at = "auth"
  /\ http' = Release(http, req[r].peer)
  /\ IF ok
     THEN /\ req' = [req EXCEPT ![r].at = "reserve", ![r].holds = @ \ {"pre"}]
          /\ UNCHANGED <<ingress, body>>
     ELSE /\ Refused(r)
          /\ body' = IF "body" \in req[r].holds THEN Release(body, req[r].peer) ELSE body
  /\ UNCHANGED <<quota, ledger, registry, closed, janitor, history, faults>>

Fault == faults < MaxFaults /\ faults' = faults + 1

\* _reserve_request_upload: the declared bytes, against the day's budget.
Reserve(r) ==
  /\ req[r].at = "reserve"
  /\ LET z == <<req[r].owner, day>>
         n == req[r].bytes
     IN  \/ /\ n = 0 /\ req' = [req EXCEPT ![r] = Step(r, "runtime")]
            /\ UNCHANGED <<spent, faults>>
         \/ /\ n > 0 /\ spent[z] + n <= DayBytes
            /\ spent' = [spent EXCEPT ![z] = @ + n]
            /\ req' = [req EXCEPT ![r] = [Step(r, "runtime") EXCEPT
                                            !.res = [bytes |-> n, day |-> day, open |-> TRUE]]]
            /\ UNCHANGED faults
         \/ /\ n > 0
            /\ \/ spent[z] + n > DayBytes /\ UNCHANGED faults
               \/ Fault
            /\ req' = [req EXCEPT ![r] = Step(r, "finish")]
            /\ UNCHANGED spent
  /\ UNCHANGED <<ingress, gates, quota, day, registry, closed, janitor, history>>

\* runtime_registry.acquire, or RuntimeCapacityExceeded.
TakeRuntime(r) ==
  /\ req[r].at = "runtime"
  /\ LET o == req[r].owner
     IN  \/ /\ GetOrCreate(o, 1)
            /\ req' = [req EXCEPT ![r] = [Step(r, "quota") EXCEPT
                         !.holds = @ \cup {"runtime"}, !.value = ValueOf(o, entries')]]
         \/ /\ AllActive(o)
            /\ req' = [req EXCEPT ![r] = Step(r, "finish")]
            /\ UNCHANGED registry
  /\ UNCHANGED <<ingress, gates, quota, ledger, closed, janitor, history, faults>>

\* Mutant of EnterQuota: a request over the limit waits instead of being refused.
WaitsForQuota(r) ==
  /\ req[r].at = "quota"
  /\ LET o == req[r].owner
         costly == req[r].kind = "stream"
     IN  /\ quota[o].requests < Concurrent
         /\ costly => quota[o].expensive < 1
         /\ quota' = [quota EXCEPT ![o].requests = @ + 1,
                                   ![o].expensive = IF costly THEN @ + 1 ELSE @]
  /\ req' = [req EXCEPT ![r].at = "body", ![r].holds = @ \cup {"quota"}]
  /\ UNCHANGED <<ingress, gates, ledger, registry, closed, janitor, history, faults>>

\* PrincipalGovernor.request up to its yield.  The minute's request budget is
\* a ledger row of its own: it may refuse or fail, and then nothing is held.
EnterQuota(r) ==
  /\ req[r].at = "quota"
  /\ LET o == req[r].owner
         costly == req[r].kind = "stream"
         room == /\ quota[o].requests < Concurrent
                 /\ costly => quota[o].expensive < 1
     IN  \/ /\ room
            /\ quota' = [quota EXCEPT ![o].requests = @ + 1,
                                      ![o].expensive = IF costly THEN @ + 1 ELSE @]
            /\ req' = [req EXCEPT ![r].at = "body", ![r].holds = @ \cup {"quota"}]
            /\ UNCHANGED faults
         \/ /\ UNCHANGED faults \/ Fault
            /\ req' = [req EXCEPT ![r] = Step(r, "finish")]
            /\ UNCHANGED quota
  /\ UNCHANGED <<ingress, gates, ledger, registry, closed, janitor, history>>

-----------------------------------------------------------------------------
(* The handler.                                                            *)

\* _BodyGuard.receive: the whole body arrives (n bytes), and its budget is
\* free again; or it is too long, too late, or does not fit the budget.
ReadBody(r, n) ==
  /\ req[r].at = "body"
  /\ IF "ingress" \notin req[r].holds
     THEN n = 0 /\ req' = [req EXCEPT ![r] = Step(r, "handle")] /\ UNCHANGED ingress
     ELSE /\ n > 0 <=> req[r].kind = "upload"
          /\ \/ /\ ingress.bytes + (n - req[r].bytes) <= MaxBytes
                /\ ingress' = [n |-> ingress.n - 1, bytes |-> ingress.bytes - req[r].bytes]
                /\ req' = [req EXCEPT ![r] = [Step(r, "handle") EXCEPT
                                                !.holds = @ \ {"ingress"}, !.bytes = n]]
             \/ /\ req' = [req EXCEPT ![r] = Step(r, "finish")]
                /\ UNCHANGED ingress
  /\ UNCHANGED <<gates, quota, ledger, registry, closed, janitor, history, faults>>

\* read_limited_upload: a of the bytes are the file.  A reservation is settled
\* to what was read, in its own day; without one the bytes are charged now.
ReadUpload(r, a) ==
  /\ req[r].at = "handle" /\ req[r].kind = "upload" /\ a <= req[r].bytes
  /\ LET o == req[r].owner
         z == <<o, IF req[r].res.open THEN req[r].res.day ELSE day>>
         owed == IF req[r].res.open THEN req[r].res.bytes ELSE 0
         done(at) == req' = [req EXCEPT ![r].at = at, ![r].res.open = FALSE]
     IN  \/ /\ spent[z] - owed + a <= DayBytes
            /\ spent' = [spent EXCEPT ![z] = @ - owed + a]
            /\ accepted' = [accepted EXCEPT ![z] = @ + a]
            /\ done("finish") /\ UNCHANGED <<stuck, faults>>
         \/ /\ spent[z] - owed + a > DayBytes
            /\ done("finish") /\ UNCHANGED <<spent, accepted, stuck, faults>>
         \/ /\ Fault
            /\ stuck' = [stuck EXCEPT ![z] = @ + owed]
            /\ done("finish") /\ UNCHANGED <<spent, accepted>>
  /\ UNCHANGED <<ingress, gates, quota, day, registry, closed, janitor, leaked>>

\* Any other handler answers; the leases of a stream go to its body iterator.
Respond(r) ==
  /\ req[r].at = "handle" /\ req[r].kind # "upload"
  /\ req' = [req EXCEPT ![r].at = "finish", ![r].sse = req[r].kind = "stream"]
  /\ UNCHANGED <<ingress, gates, quota, ledger, registry, closed, janitor, history, faults>>

-----------------------------------------------------------------------------
(* The way out: the finally block of bind_request_identity.                *)

ExitQuota(r) ==
  quota' = IF "quota" \in req[r].holds
           THEN [quota EXCEPT ![req[r].owner] =
                   [requests |-> @.requests - 1,
                    expensive |-> IF req[r].kind = "stream" THEN @.expensive - 1
                                                            ELSE @.expensive]]
           ELSE quota

\* quota_context.__aexit__ and the session gate's lease.
Finish(r) ==
  /\ req[r].at = "finish"
  /\ IF req[r].sse THEN UNCHANGED quota ELSE ExitQuota(r)
  /\ body' = IF "body" \in req[r].holds THEN Release(body, req[r].peer) ELSE body
  /\ req' = [req EXCEPT ![r].at = "settle",
               ![r].holds = @ \ (IF req[r].sse THEN {"body"} ELSE {"body", "quota"})]
  /\ UNCHANGED <<ingress, http, ledger, registry, closed, janitor, history, faults>>

\* Mutants of Settle: an open reservation is not refunded; the list of runtimes
\* to close is read but not taken.
KeepsCharge(r) ==
  /\ req[r].at = "settle"
  /\ LET mine == ~req[r].sse /\ "runtime" \in req[r].holds
     IN  /\ IF mine THEN Unlease(req[r].owner) ELSE UNCHANGED entries
         /\ pending' = {}
         /\ req' = [req EXCEPT ![r] = [Step(r, "close") EXCEPT !.res.open = FALSE,
                      !.mine = pending, !.holds = IF mine THEN @ \ {"runtime"} ELSE @,
                      !.value = IF mine THEN 0 ELSE @]]
  /\ UNCHANGED <<ingress, gates, quota, ledger, closed, janitor, history, faults>>

LeavesPending(r) ==
  /\ req[r].at = "settle"
  /\ LET z == <<req[r].owner, req[r].res.day>>
         n == IF req[r].res.open THEN req[r].res.bytes ELSE 0
         mine == ~req[r].sse /\ "runtime" \in req[r].holds
     IN  /\ spent' = [spent EXCEPT ![z] = @ - n]
         /\ IF mine THEN Unlease(req[r].owner) ELSE UNCHANGED entries
         /\ req' = [req EXCEPT ![r] = [Step(r, "close") EXCEPT !.res.open = FALSE,
                      !.mine = pending, !.holds = IF mine THEN @ \ {"runtime"} ELSE @,
                      !.value = IF mine THEN 0 ELSE @]]
  /\ UNCHANGED <<ingress, gates, quota, day, pending, closed, janitor, history, faults>>

\* _release_request_leases and the swap of flush_closures.  The ledger write
\* comes first: when it fails the runtime lease is never released.
Settle(r) ==
  /\ req[r].at = "settle"
  /\ LET z == <<req[r].owner, req[r].res.day>>
         n == IF req[r].res.open THEN req[r].res.bytes ELSE 0
         mine == ~req[r].sse /\ "runtime" \in req[r].holds
     IN  \/ /\ spent' = [spent EXCEPT ![z] = @ - n]
            /\ IF mine THEN Unlease(req[r].owner) ELSE UNCHANGED entries
            /\ pending' = {}
            /\ req' = [req EXCEPT ![r] = [Step(r, "close") EXCEPT !.res.open = FALSE,
                         !.mine = pending, !.holds = IF mine THEN @ \ {"runtime"} ELSE @,
                         !.value = IF mine THEN 0 ELSE @]]
            /\ UNCHANGED <<ingress, stuck, leaked, faults>>
         \/ /\ n > 0 /\ Fault
            /\ stuck' = [stuck EXCEPT ![z] = @ + n]
            /\ leaked' = [leaked EXCEPT ![req[r].owner] = IF mine THEN @ + 1 ELSE @]
            /\ BodyGone(r)
            /\ req' = [req EXCEPT ![r] = Idle]
            /\ UNCHANGED <<spent, entries, pending>>
  /\ UNCHANGED <<gates, quota, day, closed, janitor, accepted>>

\* flush_closures: one runtime after the other, outside the lock.  When a close
\* fails the rest are not closed and the error answers the request; if its leases
\* were handed to a stream's body, that body never starts and the lease on the
\* runtime is never released.
CloseOne(r, v) ==
  /\ req[r].at = "close" /\ v \in req[r].mine
  /\ \/ /\ closed' = Closing(v)
        /\ req' = [req EXCEPT ![r].mine = @ \ {v}]
        /\ UNCHANGED <<ingress, leaked, faults>>
     \/ /\ Fault /\ ~req[r].sse
        /\ req' = [req EXCEPT ![r].mine = {}]
        /\ UNCHANGED <<ingress, closed, leaked>>
     \/ /\ Fault /\ req[r].sse
        /\ BodyGone(r)
        /\ leaked' = [leaked EXCEPT ![req[r].owner] = @ + 1]
        /\ req' = [req EXCEPT ![r].at = "dropped", ![r].sse = FALSE, ![r].mine = {},
                              ![r].value = 0, ![r].holds = {"quota"}]
        /\ UNCHANGED closed
  /\ UNCHANGED <<gates, quota, ledger, registry, janitor, accepted, stuck>>

\* The iterator that never started is collected, and with it the governor's
\* generator, whose finally block gives the concurrency leases back.
Collect(r) ==
  /\ req[r].at = "dropped"
  /\ ExitQuota(r)
  /\ req' = [req EXCEPT ![r] = Idle]
  /\ UNCHANGED <<ingress, gates, ledger, registry, closed, janitor, history, faults>>

\* The response leaves; a stream's body starts now.
Return(r) ==
  /\ req[r].at = "close" /\ req[r].mine = {}
  /\ IF req[r].sse
     THEN req' = [req EXCEPT ![r] = Step(r, "stream")] /\ UNCHANGED ingress
     ELSE Refused(r)
  /\ UNCHANGED <<gates, quota, ledger, registry, closed, janitor, history, faults>>

\* _guard_sse_body's finally: the iterator ended or its client went away.
StreamEnds(r) ==
  /\ req[r].at = "stream"
  /\ ExitQuota(r)
  /\ Unlease(req[r].owner)
  /\ pending' = {}
  /\ req' = [req EXCEPT ![r].at = "close", ![r].sse = FALSE,
                        ![r].mine = pending, ![r].value = 0,
                        ![r].holds = @ \ {"quota", "runtime"}]
  /\ UNCHANGED <<ingress, gates, ledger, closed, janitor, history, faults>>

-----------------------------------------------------------------------------
(* Work without a request, and the janitor.                                *)

\* A background task asks for its owner's runtime (get_scope_runtime).
Background(o) ==
  /\ Cardinality(pending) < MaxPending
  /\ GetOrCreate(o, 0)
  /\ UNCHANGED <<req, ingress, gates, quota, ledger, closed, janitor, history, faults>>

\* sweep: the idle entries past their time leave the registry, and what was evicted before
\* is closed with them.
Sweep(idle) ==
  /\ janitor.at = "asleep" /\ idle \in SUBSET IdleEntries
  /\ idle # {} \/ pending # {}
  /\ entries' = SelectSeq(entries, LAMBDA e : \A i \in idle : e # entries[i])
  /\ pending' = {}
  /\ janitor' = [at |-> "closing", mine |-> pending \cup {entries[i].value : i \in idle}]
  /\ UNCHANGED <<req, ingress, gates, quota, ledger, closed, history, faults>>

\* run_registry_janitor has no handler: a failing close ends the task.
JanitorCloses(v) ==
  /\ janitor.at = "closing" /\ v \in janitor.mine
  /\ \/ /\ closed' = Closing(v)
        /\ janitor' = [janitor EXCEPT !.mine = @ \ {v},
                         !.at = IF janitor.mine = {v} THEN "asleep" ELSE @]
        /\ UNCHANGED faults
     \/ /\ Fault
        /\ janitor' = [at |-> "dead", mine |-> {}]
        /\ UNCHANGED closed
  /\ UNCHANGED <<req, ingress, gates, quota, ledger, registry, history>>

-----------------------------------------------------------------------------
Serve(r) ==
  \/ AdmitBody(r) \/ AdmitHttp(r) \/ \E ok \in BOOLEAN : Resolve(r, ok)
  \/ Reserve(r) \/ TakeRuntime(r) \/ EnterQuota(r)
  \/ \E n \in 0..1 : ReadBody(r, n) \/ ReadUpload(r, n)
  \/ Respond(r) \/ Finish(r) \/ Settle(r)
  \/ \E v \in 1..MaxValues : CloseOne(r, v)
  \/ Collect(r) \/ Return(r) \/ StreamEnds(r)

Next ==
  \/ \E r \in Reqs, p \in Peers, o \in Owners, k \in AllKinds, d \in 0..1 : Arrive(r, p, o, k, d)
  \/ \E r \in Reqs : Serve(r)
  \/ Tick \/ Midnight
  \/ \E o \in Owners : Background(o)
  \/ \E idle \in SUBSET (1..MaxRuntimes) : Sweep(idle)
  \/ \E v \in 1..MaxValues : JanitorCloses(v)

Spec == Init /\ [][Next]_vars

\* Every request runs on: bodies arrive or time out, handlers and streams end,
\* and the event loop serves each of them.
FairSpec == Spec /\ \A r \in Reqs : WF_vars(Serve(r))

-----------------------------------------------------------------------------
(* Properties.                                                             *)

Stages == {"idle", "gate", "auth", "reserve", "runtime", "quota", "body",
           "handle", "finish", "settle", "close", "stream", "dropped"}

Gate == [peers : Seq([who : Peers, active : Nat, tries : Nat]), active : Nat, tries : Nat]

\* Every variable keeps its type and every count stays within its limit.
TypeOK ==
  /\ \A r \in Reqs :
       /\ req[r].at \in Stages /\ req[r].kind \in AllKinds
       /\ req[r].at # "idle" => req[r].peer \in Peers /\ req[r].owner \in Owners
       /\ req[r].holds \subseteq {"ingress", "body", "pre", "quota", "runtime"}
       /\ req[r].mine \subseteq 1..MaxValues
  /\ ingress.n \in 0..MaxBodies /\ ingress.bytes \in 0..MaxBytes
  /\ \A g \in {http, body} :
       /\ g \in Gate /\ Len(g.peers) <= MaxPeers
       /\ g.active <= GlobalActive /\ g.tries <= GlobalTries
  /\ \A o \in Owners : quota[o].requests \in 0..Concurrent /\ quota[o].expensive \in 0..1
  /\ \A x \in DOMAIN spent : spent[x] \in 0..DayBytes
  /\ Len(entries) <= MaxRuntimes
  /\ janitor.at \in {"asleep", "closing", "dead"}
  /\ faults \in 0..MaxFaults

Holders(what) == {r \in Reqs : what \in req[r].holds}

PeerCountIs(g, what) ==
  /\ g.active = Cardinality(Holders(what))
  /\ \A p \in Peers :
       Cardinality({r \in Holders(what) : req[r].peer = p}) =
         IF PeerAt(g, p) = {} THEN 0 ELSE g.peers[CHOOSE i \in PeerAt(g, p) : TRUE].active

\* Whatever way requests end - refused at any of the four stations, failed in
\* SQLite, timed out or streamed to the end by an iterator that outlives the
\* middleware - every counter is the number of requests that hold its lease:
\* nothing is lost and nothing is given back twice, and evicting a peer never
\* forgets a lease.
CountsAreExact ==
  /\ ingress.n = Cardinality(Holders("ingress"))
  /\ PeerCountIs(http, "pre") /\ PeerCountIs(body, "body")
  /\ \A o \in Owners :
       /\ quota[o].requests = Cardinality({r \in Holders("quota") : req[r].owner = o})
       /\ quota[o].expensive =
            Cardinality({r \in Holders("quota") : req[r].owner = o /\ req[r].kind = "stream"})

\* A request that holds its owner's runtime, in the handler or in a stream whose
\* middleware is long gone, works with the one runtime the registry has for
\* that owner, and nobody closed or evicted it; leases are lost only where the
\* release of the upload reservation failed before them, or where a failing close
\* replaced the response whose body should have released them (history leaked).
LeasedRuntimeIsOpen ==
  /\ \A r \in Holders("runtime") :
       /\ \E i \in EntryOf(req[r].owner) : entries[i].value = req[r].value
       /\ req[r].value \notin closed \cup pending \cup janitor.mine
                                \cup UNION {req[q].mine : q \in Reqs}
  /\ \A i \in DOMAIN entries :
       entries[i].leases = leaked[entries[i].owner]
         + Cardinality({r \in Holders("runtime") : req[r].owner = entries[i].owner})

\* The day's ledger is what was accepted that day plus the reservations still
\* open, in the day they were made, plus what a failed statement left charged
\* (history stuck): a refusal or a failure after the reservation refunds it,
\* once, even when it is settled on the next day.
BytesAreCharged ==
  \A x \in DOMAIN spent :
    spent[x] = accepted[x] + stuck[x]
      + Cardinality({r \in Reqs : /\ req[r].res.open /\ req[r].res.bytes = 1
                                  /\ <<req[r].owner, req[r].res.day>> = x})

\* An evicted runtime is closed by exactly one flush: it waits in the list, is
\* in the hands of one request or of the janitor, and none of these while the
\* registry still hands it out.
ClosedByOne ==
  LET hands == {<<r, v>> \in Reqs \X (1..MaxValues) : v \in req[r].mine}
      open == {entries[i].value : i \in DOMAIN entries}
  IN  /\ \A h, k \in hands : h[2] = k[2] => h = k
      /\ \A h \in hands : h[2] \notin janitor.mine \cup pending \cup open
      /\ janitor.mine \cap (pending \cup open) = {}
      /\ pending \cap open = {}
      /\ closed = {}

\* Every request that entered is answered and gives back what it took.
RequestReturns == \A r \in Reqs : []<>(req[r].at = "idle")

=============================================================================
