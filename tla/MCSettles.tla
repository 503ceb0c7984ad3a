----------------------------- MODULE MCSettles -----------------------------
(***************************************************************************)
(* What must come to an end, in one run with small bounds: calls, scans,   *)
(* repairs and recoveries of the parts of one backend, each under the      *)
(* fairness of its own specification.  A behaviour is one part; the        *)
(* variables of the other parts keep their initial values.                 *)
(***************************************************************************)
EXTENDS AsrScheduler, TLC

CONSTANTS r1, r3, p1, s1, k1, f1,  \* speech: requests, provider, scope, key, print
          x, y,                    \* values that a part uses as it likes
          None

VARIABLES
    part,
    row, proc, task, finals, made, asked, failed, meetFaults,
    meeting, runs, req, clears, minFaults,
    nodes, rel, extraction, runRow, patch, recall, wanted, raced, astray, removals, memFaults,
    bus, conn, win, log, unseen, busFaults,
    fam, creds, sess, res, paired, admitted, net, client, sock, writes, gone, overtaken, blocked,
    ids, sessFaults,
    request, ingress, http, body, quota, day, spent, entries, pending, closed, janitor, accepted,
    stuck, leaked, gateFaults,
    acl, upRun, blob, tombs, act, view, docs, upload, hand, del, rec, orphan, stolen, torn, starts,
    deletes, upFaults,
    wavs, files, ref, ledger, uploads, storage, gc, chunk, stt, passed, lost, rewritten, wavFaults,
    lease, build, kind, maker, private, marker, dir, artifact, linked, clear, boot, tardy,
    crashes,
    record, seg, store, file, writer, job, copy, answer, dropped, released, ragFaults,
    fs, dirs, index, disk, scan, wants, ghost, edit, scans, changes, scanFaults

meetVars == <<row, proc, task, finals, made, asked, failed, meetFaults>>
minVars == <<meeting, runs, req, clears, minFaults>>
memVars == <<nodes, rel, extraction, runRow, patch, recall, wanted, raced, astray, removals, memFaults>>
busVars == <<bus, conn, win, log, unseen, busFaults>>
sessVars == <<fam, creds, sess, res, paired, admitted, net, client, sock, writes, gone, overtaken,
              blocked, ids, sessFaults>>
gateVars == <<request, ingress, http, body, quota, day, spent, entries, pending, closed, janitor,
              accepted, stuck, leaked, gateFaults>>
upVars == <<acl, upRun, blob, tombs, act, view, docs, upload, hand, del, rec, orphan, stolen, torn,
            starts, deletes, upFaults>>
wavVars == <<wavs, files, ref, ledger, uploads, storage, gc, chunk, stt, passed, lost, rewritten,
             wavFaults>>
artVars == <<lease, build, kind, maker, private, marker, dir, artifact, linked, clear, boot, tardy,
             crashes>>
ragVars == <<record, seg, store, file, writer, job, copy, answer, dropped, released, ragFaults>>
scanVars == <<fs, dirs, index, disk, scan, wants, ghost, edit, scans, changes, scanFaults>>

AllOneScope == [r \in Requests |-> s1]
NoKeys == [r \in Requests |-> NoKey]
SamePrint == [r \in Requests |-> f1]
OneProvider == <<p1>>
EvenWeights == [p \in Providers |-> 1]
DoubleWidth == [p \in Providers |-> 2]

Meetings == INSTANCE MeetingLifecycle WITH
    Procs <- {x}, Tasks <- {x, y}, Home <- [t \in {x, y} |-> x], Segs <- {s1},
    Listed <- 1, MaxMeetings <- 1, MaxRequests <- 2, MaxFaults <- 1, faults <- meetFaults
Minutes == INSTANCE MinutesGeneration WITH
    Requests <- {x, y}, MaxClears <- 0, MaxFaults <- 1, faults <- minFaults
Memory == INSTANCE MemoryStore WITH
    Runs <- {x, y}, Edits <- {}, Recalls <- {}, Texts <- {s1}, Keys <- {k1}, MaxCands <- 1,
    MaxNodes <- 2, MaxDeletes <- 1, MaxFaults <- 1,
    run <- extraction, row <- runRow, edit <- patch, deletes <- removals, faults <- memFaults
Events == INSTANCE EventStream WITH
    Scopes <- {s1}, Conns <- {x, y}, MaxStreams <- 1, MaxWaiters <- 2, QueueCap <- 1,
    ReplayCap <- 1, MaxEvents <- 2, MaxEpochs <- 9, MaxFaults <- 1, faults <- busFaults
Sessions == INSTANCE DeviceSessions WITH
    Devs <- {x}, MaxKey <- 1, MaxGen <- 1, MaxFams <- 1, WindowLimit <- 1, TotalActive <- 1,
    MaxFaults <- 1, faults <- sessFaults
Gate == INSTANCE RequestGate WITH
    Reqs <- {x, y}, Peers <- {s1}, Owners <- {k1}, Kinds <- {"upload"}, MaxBodies <- 2,
    MaxBytes <- 1, GlobalActive <- 2, PeerActive <- 2, GlobalTries <- 1, PeerTries <- 1,
    MaxPeers <- 1, Concurrent <- 1, DayBytes <- 1, MaxRuntimes <- 1, MaxValues <- 4,
    MaxPending <- 1, MaxDay <- 0, MaxFaults <- 0, req <- request, faults <- gateFaults
Uploads == INSTANCE UploadOwnership WITH
    Owners <- {s1}, Requests <- {x, y}, Home <- [q \in {x, y} |-> s1],
    MaxRuns <- 4, MaxReconciles <- 0, MaxDeletes <- 0, MaxFaults <- 1,
    run <- upRun, req <- upload, faults <- upFaults
Ambient == INSTANCE AmbientCapture WITH
    Chunks <- {x, y}, Cap <- 2, Quota <- 2, MaxUploads <- 1, MaxFaults <- 1,
    disk <- wavs, rec <- files, lock <- storage, at <- chunk, overtaken <- passed, leaked <- lost,
    faults <- wavFaults
Artifacts == INSTANCE ArtifactStore WITH
    Procs <- {x, y}, MaxTerms <- 1, MaxCrashes <- 1,
    run <- build, hand <- maker, row <- artifact, late <- tardy
Rag == INSTANCE RagProjection WITH
    Workers <- {x, y}, Segments <- {s1}, MaxIntents <- 1, MaxFaults <- 1,
    row <- record, lock <- writer, cache <- copy, missed <- released, faults <- ragFaults
Scan == INSTANCE WorkspaceScan WITH
    Files <- {s1}, Contents <- {x, y}, Edits <- {}, MaxRuns <- 2, MaxChanges <- 2,
    MaxFaults <- 2, job <- scan, runs <- scans, faults <- scanFaults


Parts == {"speech", "meetings", "minutes", "memory", "events", "sessions", "gate", "uploads", "ambient", "artifacts", "rag", "scan"}
allVars == <<part, vars, meetVars, minVars, memVars, busVars, sessVars, gateVars, upVars, wavVars, artVars, ragVars, scanVars>>

\* The variables of a part that does not move.
NoMeet == /\ row = None /\ proc = None /\ task = None /\ finals = None /\ made = None /\ asked = None
          /\ failed = None /\ meetFaults = None
NoMin == meeting = None /\ runs = None /\ req = None /\ clears = None /\ minFaults = None
NoMem == /\ nodes = None /\ rel = None /\ extraction = None /\ runRow = None /\ patch = None
         /\ recall = None /\ wanted = None /\ raced = None /\ astray = None /\ removals = None
         /\ memFaults = None
NoBus == bus = None /\ conn = None /\ win = None /\ log = None /\ unseen = None /\ busFaults = None
NoSess == /\ fam = None /\ creds = None /\ sess = None /\ res = None /\ paired = None
          /\ admitted = None /\ net = None /\ client = None /\ sock = None /\ writes = None
          /\ gone = None /\ overtaken = None /\ blocked = None /\ ids = None /\ sessFaults = None
NoGate == /\ request = None /\ ingress = None /\ http = None /\ body = None /\ quota = None
          /\ day = None /\ spent = None /\ entries = None /\ pending = None /\ closed = None
          /\ janitor = None /\ accepted = None /\ stuck = None /\ leaked = None /\ gateFaults = None
NoUp == /\ acl = None /\ upRun = None /\ blob = None /\ tombs = None /\ act = None /\ view = None
        /\ docs = None /\ upload = None /\ hand = None /\ del = None /\ rec = None /\ orphan = None
        /\ stolen = None /\ torn = None /\ starts = None /\ deletes = None /\ upFaults = None
NoWav == /\ wavs = None /\ files = None /\ ref = None /\ ledger = None /\ uploads = None
         /\ storage = None /\ gc = None /\ chunk = None /\ stt = None /\ passed = None /\ lost = None
         /\ rewritten = None /\ wavFaults = None
NoArt == /\ lease = None /\ build = None /\ kind = None /\ maker = None /\ private = None
         /\ marker = None /\ dir = None /\ artifact = None /\ linked = None /\ clear = None
         /\ boot = None /\ tardy = None /\ crashes = None
NoRag == /\ record = None /\ seg = None /\ store = None /\ file = None /\ writer = None /\ job = None
         /\ copy = None /\ answer = None /\ dropped = None /\ released = None /\ ragFaults = None
NoScan == /\ fs = None /\ dirs = None /\ index = None /\ disk = None /\ scan = None /\ wants = None
          /\ ghost = None /\ edit = None /\ scans = None /\ changes = None /\ scanFaults = None

SuiteInit ==
    /\ part \in Parts
    /\ Init
    /\ IF part = "meetings" THEN Meetings!Init ELSE NoMeet
    /\ IF part = "minutes" THEN Minutes!Init ELSE NoMin
    /\ IF part = "memory" THEN Memory!Init ELSE NoMem
    /\ IF part = "events" THEN Events!Init ELSE NoBus
    /\ IF part = "sessions" THEN Sessions!Init ELSE NoSess
    /\ IF part = "gate" THEN Gate!Init ELSE NoGate
    /\ IF part = "uploads" THEN Uploads!Init ELSE NoUp
    /\ IF part = "ambient" THEN Ambient!Init ELSE NoWav
    /\ IF part = "artifacts" THEN Artifacts!Init /\ kind = "deck" ELSE NoArt
    /\ IF part = "rag" THEN Rag!Init ELSE NoRag
    /\ IF part = "scan" THEN Scan!Init ELSE NoScan

\* The part that moves.
Speech == /\ part = "speech"
          /\ UNCHANGED <<part, meetVars, minVars, memVars, busVars, sessVars, gateVars, upVars, wavVars, artVars, ragVars, scanVars>>
Meeting == /\ part = "meetings"
           /\ UNCHANGED <<part, vars, minVars, memVars, busVars, sessVars, gateVars, upVars, wavVars, artVars, ragVars, scanVars>>
Summing == /\ part = "minutes"
           /\ UNCHANGED <<part, vars, meetVars, memVars, busVars, sessVars, gateVars, upVars, wavVars, artVars, ragVars, scanVars>>
Learning == /\ part = "memory"
            /\ UNCHANGED <<part, vars, meetVars, minVars, busVars, sessVars, gateVars, upVars, wavVars, artVars, ragVars, scanVars>>
Sending == /\ part = "events"
           /\ UNCHANGED <<part, vars, meetVars, minVars, memVars, sessVars, gateVars, upVars, wavVars, artVars, ragVars, scanVars>>
Identifying == /\ part = "sessions"
               /\ UNCHANGED <<part, vars, meetVars, minVars, memVars, busVars, gateVars, upVars, wavVars, artVars, ragVars, scanVars>>
Admitting == /\ part = "gate"
             /\ UNCHANGED <<part, vars, meetVars, minVars, memVars, busVars, sessVars, upVars, wavVars, artVars, ragVars, scanVars>>
Uploading == /\ part = "uploads"
             /\ UNCHANGED <<part, vars, meetVars, minVars, memVars, busVars, sessVars, gateVars, wavVars, artVars, ragVars, scanVars>>
Recording == /\ part = "ambient"
             /\ UNCHANGED <<part, vars, meetVars, minVars, memVars, busVars, sessVars, gateVars, upVars, artVars, ragVars, scanVars>>
Making == /\ part = "artifacts"
          /\ UNCHANGED <<part, vars, meetVars, minVars, memVars, busVars, sessVars, gateVars, upVars, wavVars, ragVars, scanVars>>
Indexing == /\ part = "rag"
            /\ UNCHANGED <<part, vars, meetVars, minVars, memVars, busVars, sessVars, gateVars, upVars, wavVars, artVars, scanVars>>
Scanning == /\ part = "scan"
            /\ UNCHANGED <<part, vars, meetVars, minVars, memVars, busVars, sessVars, gateVars, upVars, wavVars, artVars, ragVars>>

SuiteNext ==
    \/ Speech /\ Next
    \/ Meeting /\ Meetings!Next
    \/ Summing /\ Minutes!Next
    \/ Learning /\ Memory!Next
    \/ Sending /\ Events!Next
    \/ Identifying /\ Sessions!Next
    \/ Admitting /\ Gate!Next
    \/ Uploading /\ Uploads!Next
    \/ Recording /\ Ambient!Next
    \/ Making /\ Artifacts!Next
    \/ Indexing /\ Rag!Next
    \/ Scanning /\ Scan!Next

\* The fairness of each part is that of its specification, while that part moves.
SuiteSpec ==
    /\ SuiteInit /\ [][SuiteNext]_allVars
    /\ \A w \in Workers : WF_vars(part = "speech" /\ WorkerStep(w)) /\ WF_vars(part = "speech" /\ CallEnds(w))
    /\ \A r \in Requests : WF_vars(part = "speech" /\ DeadlinePasses(r))
    /\ WF_vars(part = "speech" /\ (Drained \/ GraceOver \/ Closed))
    /\ WF_meetVars(part = "meetings" /\ Meetings!Hydrates(x))
    /\ WF_meetVars(part = "meetings" /\ Meetings!Recover(x))
    /\ WF_meetVars(part = "meetings" /\ Meetings!Finalizes(x))
    /\ \A p \in {x, y} : /\ WF_meetVars(part = "meetings" /\ Meetings!Works(p))
                         /\ WF_meetVars(part = "meetings" /\ Meetings!Timeout(p))
    /\ \A r \in {x, y} : WF_minVars(part = "minutes" /\ Minutes!Steps(r))
    /\ WF_minVars(part = "minutes" /\ \E i \in Minutes!RunIds : Minutes!Handles(i))
    /\ \A r \in {x, y} : WF_memVars(part = "memory" /\ Memory!Extracts(r))
    /\ WF_busVars(part = "events" /\ Events!WindowStep(s1))
    /\ \A k \in {x, y} : WF_busVars(part = "events" /\ Events!ConnStep(k))
    /\ WF_sessVars(part = "sessions" /\ Sessions!ClientStep(x))
    /\ WF_sessVars(part = "sessions" /\ Sessions!Serve(x))
    /\ WF_sessVars(part = "sessions" /\ Sessions!Revalidate(x))
    /\ \A r \in {x, y} : WF_gateVars(part = "gate" /\ Gate!Serve(r))
    /\ \A q \in {x, y} : WF_upVars(part = "uploads" /\ Uploads!Upload(q))
    /\ \A r \in Uploads!Runs : WF_upVars(part = "uploads" /\ Uploads!Handler(r))
    /\ \A c \in {x, y} : WF_wavVars(part = "ambient" /\ Ambient!Step(c))
    /\ \A p \in {x, y} : /\ WF_artVars(part = "artifacts" /\ Artifacts!Acquire(p))
                         /\ WF_artVars(part = "artifacts" /\ Artifacts!HandlerStep(p))
                         /\ WF_artVars(part = "artifacts" /\ Artifacts!BootStep(p))
    /\ WF_artVars(part = "artifacts" /\ Artifacts!Expire)
    /\ WF_artVars(part = "artifacts" /\ Artifacts!ClearStep)
    /\ \A w \in {x, y} : /\ WF_ragVars(part = "rag" /\ Rag!Progress(w))
                         /\ SF_ragVars(part = "rag" /\ Rag!RepairMeeting(w))
                         /\ SF_ragVars(part = "rag" /\ Rag!RepairSegment(w, s1))
    /\ WF_scanVars(part = "scan" /\ Scan!Begin) /\ WF_scanVars(part = "scan" /\ Scan!BeginClear)
    /\ WF_scanVars(part = "scan" /\ Scan!ScanStep)

-----------------------------------------------------------------------------
(* Properties. *)

\* Every call is answered although deadlines pass, other calls hold what it waits for and parts of
\* it fail: transcriptions (AsrScheduler), requests for minutes (MinutesGeneration), captured chunks
\* (AmbientCapture), uploads (UploadOwnership) and requests at the gate (RequestGate).
CallsReturn ==
    []<>CASE part = "speech" -> NobodyWaits
          [] part = "minutes" -> Minutes!AllAnswered
          [] part = "ambient" -> Ambient!AllReturned
          [] part = "uploads" -> Uploads!AllReturned
          [] part = "gate" -> request[x].at = "idle"
          [] OTHER -> TRUE

\* What was started comes to an end although processes die in between: meetings end and get their
\* minutes (MeetingLifecycle), the index catches up (RagProjection), a window does or says that
\* its list could not be loaded (EventStream), a clear of outputs is carried out (ArtifactStore),
\* sockets of revoked sessions close and rotations settle (DeviceSessions), extractions are recorded
\* unless that very write fails (MemoryStore) and scans end (WorkspaceScan).
WorkComesToAnEnd ==
    /\ <>[]CASE part = "meetings" -> Meetings!NoneOpen
             [] part = "rag" -> Rag!Settled
             [] part = "events" -> Events!UpToDate
             [] part = "artifacts" -> clear.at # "committed"
             [] part = "sessions" -> Sessions!SocketsAreValid /\ Sessions!RotationsAreDecided
             [] part = "memory" -> Memory!AllRecorded
             [] part = "scan" -> wants = {}
             [] OTHER -> TRUE
    /\ (part = "meetings" /\ Meetings!Finishing(1)) ~> (part = "meetings" /\ Meetings!HasOutcome(1))

=============================================================================
