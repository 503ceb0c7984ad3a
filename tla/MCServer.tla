------------------------------ MODULE MCServer ------------------------------
(***************************************************************************)
(* What stands between a client and the backend, in one run: the gate that *)
(* admits requests, the identities and sessions of the devices, the queue  *)
(* for speech recognition and the events sent to the windows.  A behaviour *)
(* is one part; the variables of the other parts keep their initial        *)
(* values.                                                                 *)
(***************************************************************************)
EXTENDS AsrScheduler, Identities, TLC

CONSTANTS m1, m2, o1, o2,  \* interchangeable within a part
          k1,              \* an idempotency key, a peer, an owner, a device
          r1, r2, r3, p1, s1, f1,  \* speech: requests, provider, scope (an owner), print
          None

VARIABLES
    part,
    bus, conn, win, log, unseen, busFaults,
    request, ingress, http, body, quota, day, spent, entries, pending, closed, janitor, accepted,
    stuck, leaked, gateFaults

busVars == <<bus, conn, win, log, unseen, busFaults>>
gateVars == <<request, ingress, http, body, quota, day, spent, entries, pending, closed, janitor,
              accepted, stuck, leaked, gateFaults>>
allVars == <<part, vars, busVars, sessVars, gateVars>>

AllOneScope == [r \in Requests |-> s1]
FirstTwoShareKey == [r \in Requests |-> IF r \in {r1, r2} THEN k1 ELSE NoKey]
SamePrint == [r \in Requests |-> f1]
OneProvider == <<p1>>
EvenWeights == [p \in Providers |-> 1]
DoubleWidth == [p \in Providers |-> 2]

\* Two owners that compete for one stream, and one owner with a longer replay buffer.
Shared == INSTANCE EventStream WITH
    Scopes <- {o1, o2}, Conns <- {m1, m2}, MaxStreams <- 1, MaxWaiters <- 2, QueueCap <- 1,
    ReplayCap <- 1, MaxEvents <- 2, MaxEpochs <- 3, MaxFaults <- 1, faults <- busFaults
Single == INSTANCE EventStream WITH
    Scopes <- {k1}, Conns <- {m1, m2}, MaxStreams <- 1, MaxWaiters <- 2, QueueCap <- 1,
    ReplayCap <- 2, MaxEvents <- 3, MaxEpochs <- 3, MaxFaults <- 2, faults <- busFaults
\* Requests before authentication, event streams of two owners, and uploads across midnight.
Front == INSTANCE RequestGate WITH
    Reqs <- {m1, m2}, Peers <- {o1, o2}, Owners <- {k1}, Kinds <- {"session", "plain"}, MaxBodies <- 2,
    MaxBytes <- 1, GlobalActive <- 2, PeerActive <- 1, GlobalTries <- 2, PeerTries <- 2,
    MaxPeers <- 1, Concurrent <- 1, DayBytes <- 1, MaxRuntimes <- 1, MaxValues <- 5,
    MaxPending <- 1, MaxDay <- 0, MaxFaults <- 0, req <- request, faults <- gateFaults
Streams == INSTANCE RequestGate WITH
    Reqs <- {m1, m2}, Peers <- {k1}, Owners <- {o1, o2}, Kinds <- {"stream"}, MaxBodies <- 2,
    MaxBytes <- 1, GlobalActive <- 2, PeerActive <- 2, GlobalTries <- 1, PeerTries <- 1,
    MaxPeers <- 1, Concurrent <- 1, DayBytes <- 1, MaxRuntimes <- 1, MaxValues <- 3,
    MaxPending <- 1, MaxDay <- 0, MaxFaults <- 1, req <- request, faults <- gateFaults
Uploads == INSTANCE RequestGate WITH
    Reqs <- {m1, m2}, Peers <- {k1}, Owners <- {s1}, Kinds <- {"upload"}, MaxBodies <- 2,
    MaxBytes <- 1, GlobalActive <- 2, PeerActive <- 2, GlobalTries <- 1, PeerTries <- 1,
    MaxPeers <- 1, Concurrent <- 2, DayBytes <- 1, MaxRuntimes <- 1, MaxValues <- 4,
    MaxPending <- 1, MaxDay <- 1, MaxFaults <- 1, req <- request, faults <- gateFaults

Parts == {"speech", "shared", "single", "device", "devices", "front", "streams", "uploads"}

\* The variables of a part that does not move.
NoBus == bus = None /\ conn = None /\ win = None /\ log = None /\ unseen = None /\ busFaults = None
NoGate == /\ request = None /\ ingress = None /\ http = None /\ body = None /\ quota = None
          /\ day = None /\ spent = None /\ entries = None /\ pending = None /\ closed = None
          /\ janitor = None /\ accepted = None /\ stuck = None /\ leaked = None /\ gateFaults = None

SuiteInit ==
    /\ part \in Parts
    /\ Init
    /\ CASE part = "shared" -> Shared!Init [] part = "single" -> Single!Init [] OTHER -> NoBus
    /\ Sessions!Init
    /\ CASE part = "front" -> Front!Init
         [] part = "streams" -> Streams!Init
         [] part = "uploads" -> Uploads!Init
         [] OTHER -> NoGate

\* One device that renews and rotates its key, and two that share one window of admissions.
OneRotates ==
    /\ \A d \in {m1, m2} : client'[d] = client[d]
    /\ client'[k1].made + 2 * sessFaults' <= 4 /\ ids' <= 1
TwoEnroll ==
    /\ client'[k1] = client[k1]
    /\ \A d \in {m1, m2} : client'[d].made = 0 /\ fam'[d].gen = 0
    /\ sessFaults' = 0

SuiteNext ==
    \/ part = "speech" /\ Next /\ UNCHANGED <<part, busVars, sessVars, gateVars>>
    \/ part = "shared" /\ Shared!Next /\ UNCHANGED <<part, vars, sessVars, gateVars>>
    \/ part = "single" /\ Single!Next /\ UNCHANGED <<part, vars, sessVars, gateVars>>
    \/ part = "device" /\ Sessions!Next /\ OneRotates /\ UNCHANGED <<part, vars, busVars, gateVars>>
    \/ part = "devices" /\ Sessions!Next /\ TwoEnroll /\ UNCHANGED <<part, vars, busVars, gateVars>>
    \/ part = "front" /\ Front!Next /\ UNCHANGED <<part, vars, busVars, sessVars>>
    \/ part = "streams" /\ Streams!Next /\ UNCHANGED <<part, vars, busVars, sessVars>>
    \/ part = "uploads" /\ Uploads!Next /\ UNCHANGED <<part, vars, busVars, sessVars>>

SuiteSpec == SuiteInit /\ [][SuiteNext]_allVars

\* Within a part the values m1 and m2 mean the same kind of thing, and so do o1 and o2; no part
\* tells them apart.
Symmetry == Permutations({m1, m2}) \cup Permutations({o1, o2})

-----------------------------------------------------------------------------
(* Properties. *)

\* Every part keeps its types.
SuiteTypeOK ==
    CASE part = "speech" -> TypeOK
      [] part = "shared" -> Shared!TypeOK
      [] part = "single" -> Single!TypeOK
      [] part \in {"device", "devices"} -> Sessions!TypeOK
      [] part = "front" -> Front!TypeOK
      [] part = "streams" -> Streams!TypeOK
      [] part = "uploads" -> Uploads!TypeOK

\* A window that is up to date with its socket shows every event although streams are evicted,
\* sockets break and the backend restarts, except those that a load which overlapped with them
\* took back or passed over; its frames continue its cursor without a gap; and a freed slot of the
\* bus goes to the socket that waits for it (EventStream).
StreamIsContinuous ==
    /\ part = "shared" => Shared!NothingMissed /\ Shared!Continuity /\ Shared!SlotsAreHandedOn
    /\ part = "single" => Single!NothingMissed /\ Single!Continuity /\ Single!SlotsAreHandedOn

\* However a request ends, the counters of the gate equal the requests they stand for and the
\* leases that a failing close leaves behind, the bytes of the day are those of the requests that
\* were accepted, a runtime in use is open, and a runtime is closed by one request only
\* (RequestGate).
GateIsExact ==
    /\ part = "front" => /\ Front!CountsAreExact /\ Front!LeasedRuntimeIsOpen
                         /\ Front!BytesAreCharged /\ Front!ClosedByOne
    /\ part = "streams" => /\ Streams!CountsAreExact /\ Streams!LeasedRuntimeIsOpen
                           /\ Streams!BytesAreCharged /\ Streams!ClosedByOne
    /\ part = "uploads" => /\ Uploads!CountsAreExact /\ Uploads!LeasedRuntimeIsOpen
                           /\ Uploads!BytesAreCharged /\ Uploads!ClosedByOne

=============================================================================
