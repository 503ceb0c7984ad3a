----------------------------- MODULE MCDelivery -----------------------------
(***************************************************************************)
(* What must get through, in one run with small bounds: the events of an   *)
(* agent task, the operations of a device and the changes of the hub, the  *)
(* end of a workflow run, the events of the outbox and the cancel command  *)
(* of an agent task, each under the fairness of its own specification.     *)
(* What gets through of an agent's events does so exactly.  A behaviour is *)
(* one part; the variables of the other parts keep their initial values.   *)
(***************************************************************************)
EXTENDS AgentProjection, TLC

CONSTANTS x, y,       \* devices, sockets, processes
          memory,     \* a row with a global id
          r1, s1, s2, \* a run, two scopes, two artifacts
          Hub, None

VARIABLES
    part,
    hub, access, node, cycle, stream, raced, written, syncFaults,
    log, unsaid, event, sock, revoked, taken, drops,
    dispatched, generation, owner, now, mode, worker, runFaults, cancelling,
    outbox, consumer, global, lanes, flush, heard, skipped, boxFaults,
    agent, agentRun, command, leases, submit, cancel, follower, prompt, projecting, runner, told,
    refusals, asks, agentFaults

syncVars == <<hub, access, node, cycle, stream, raced, written, syncFaults>>
sockVars == <<log, unsaid, event, sock, revoked, taken, drops>>
runVars == <<dispatched, generation, owner, now, mode, worker, runFaults, cancelling>>
boxVars == <<outbox, consumer, global, lanes, flush, heard, skipped, boxFaults>>
agentVars == <<agent, agentRun, command, leases, submit, cancel, follower, prompt, projecting, runner,
               told, refusals, asks, agentFaults>>
allVars == <<part, vars, syncVars, sockVars, runVars, boxVars, agentVars>>

\* Two events of a task without a fault, and one event whose worker dies, or loses its leases and
\* goes on.
Stale == INSTANCE AgentProjection WITH Ends <- {"succeeded"}, MaxEvents <- 1, MaxFaults <- 3
Cycles == INSTANCE HubSync WITH
    Devices <- {x, y}, First <- x, Listeners <- {}, Authors <- {x}, DocAuthors <- {},
    Docs <- {memory}, Memories <- {memory}, MaxRow <- 2, ReconcileLimit <- 2,
    BatchLimit <- 1, MaxAttempts <- 2, StreamPage <- 1, MaxWrites <- 2, MaxVersion <- 1,
    MaxFaults <- 1, faults <- syncFaults
Waiters == INSTANCE ChangeWaiters WITH
    Sockets <- {x, y}, Page <- 2, MaxChanges <- 2, MaxDrops <- 0
\* Two processes of which one may die, and a run that is cancelled, or that has a deadline.
Cancelled == INSTANCE WorkflowDispatch WITH
    Workers <- {x, y}, Runs <- {r1}, Cancellers <- {x}, Unregistered <- {}, Deadlines <- {None},
    NoDeadline <- None, NoHolder <- None, TTL <- 1, MaxClock <- 1, FaultClock <- 0,
    MaxFaults <- 1, MaxFence <- 3,
    run <- dispatched, lease <- owner, task <- worker, faults <- runFaults
Timed == INSTANCE WorkflowDispatch WITH
    Workers <- {x, y}, Runs <- {r1}, Cancellers <- {}, Unregistered <- {}, Deadlines <- {1},
    NoDeadline <- None, NoHolder <- None, TTL <- 1, MaxClock <- 1, FaultClock <- 0,
    MaxFaults <- 1, MaxFence <- 3,
    run <- dispatched, lease <- owner, task <- worker, faults <- runFaults
\* Two processes of which one may die, and one process beside a scope that is always refused.
Shared == INSTANCE WorkflowOutbox WITH
    NoOwner <- None, Consumers <- {x, y}, Scopes <- {s1}, Broken <- {}, Window <- 0,
    Limit <- 1, MaxRows <- 1, MaxFaults <- 1, faults <- boxFaults
Refused == INSTANCE WorkflowOutbox WITH
    NoOwner <- None, Consumers <- {x}, Scopes <- {s1, s2}, Broken <- {s2}, Window <- 0,
    Limit <- 1, MaxRows <- 2, MaxFaults <- 1, faults <- boxFaults
Agent == INSTANCE AgentTask WITH
    Contexts <- {x}, Free <- s1, Gone <- s2, Prompts <- {FALSE}, MaxAttempts <- 2, MaxReports <- 1,
    MaxAsks <- 1, MaxFaults <- 1,
    task <- agent, run <- agentRun, lease <- leases, bridge <- follower, faults <- agentFaults

Parts == {"events", "stale", "cycles", "sockets", "cancelled", "timed", "shared", "refused", "agent"}

\* The variables of a part that does not move.
NoSync == /\ hub = None /\ access = None /\ node = None /\ cycle = None /\ stream = None
          /\ raced = None /\ written = None /\ syncFaults = None
NoSock == /\ log = None /\ unsaid = None /\ event = None /\ sock = None /\ revoked = None
          /\ taken = None /\ drops = None
NoRun == /\ dispatched = None /\ generation = None /\ owner = None /\ now = None /\ mode = None
         /\ worker = None /\ runFaults = None /\ cancelling = None
NoBox == /\ outbox = None /\ consumer = None /\ global = None /\ lanes = None /\ flush = None
         /\ heard = None /\ skipped = None /\ boxFaults = None
NoAgent == /\ agent = None /\ agentRun = None /\ command = None /\ leases = None /\ submit = None
           /\ cancel = None /\ follower = None /\ prompt = None /\ projecting = None
           /\ runner = None /\ told = None /\ refusals = None /\ asks = None /\ agentFaults = None

SuiteInit ==
    /\ part \in Parts
    /\ IF part = "stale" THEN Stale!Init ELSE Init
    /\ IF part = "cycles" THEN Cycles!Init ELSE NoSync
    /\ IF part = "sockets" THEN Waiters!Init ELSE NoSock
    /\ CASE part = "cancelled" -> Cancelled!Init [] part = "timed" -> Timed!Init [] OTHER -> NoRun
    /\ CASE part = "shared" -> Shared!Init [] part = "refused" -> Refused!Init [] OTHER -> NoBox
    /\ IF part = "agent" THEN Agent!Init ELSE NoAgent

SuiteNext ==
    \/ /\ part = "events" /\ Next
       /\ UNCHANGED <<part, syncVars, sockVars, runVars, boxVars, agentVars>>
    \/ /\ part = "stale" /\ Stale!Next
       /\ UNCHANGED <<part, syncVars, sockVars, runVars, boxVars, agentVars>>
    \/ /\ part = "cycles" /\ Cycles!Next
       /\ UNCHANGED <<part, vars, sockVars, runVars, boxVars, agentVars>>
    \/ /\ part = "sockets" /\ Waiters!Next
       /\ UNCHANGED <<part, vars, syncVars, runVars, boxVars, agentVars>>
    \/ /\ part = "cancelled" /\ Cancelled!Next
       /\ UNCHANGED <<part, vars, syncVars, sockVars, boxVars, agentVars>>
    \/ /\ part = "timed" /\ Timed!Next
       /\ UNCHANGED <<part, vars, syncVars, sockVars, boxVars, agentVars>>
    \/ /\ part = "shared" /\ Shared!Next
       /\ UNCHANGED <<part, vars, syncVars, sockVars, runVars, agentVars>>
    \/ /\ part = "refused" /\ Refused!Next
       /\ UNCHANGED <<part, vars, syncVars, sockVars, runVars, agentVars>>
    \/ /\ part = "agent" /\ Agent!Next
       /\ UNCHANGED <<part, vars, syncVars, sockVars, runVars, boxVars>>

\* The variables of the part that moves.
moving ==
    CASE part \in {"events", "stale"} -> vars
      [] part = "cycles" -> syncVars
      [] part = "sockets" -> sockVars
      [] part \in {"cancelled", "timed"} -> runVars
      [] part \in {"shared", "refused"} -> boxVars
      [] part = "agent" -> agentVars

\* The fairness of each part is that of its specification.  Only one part moves in a behaviour, so
\* actions of different parts share a condition.  Weak, for each process, socket and device:
Works(w) ==
    /\ part' = part
    /\ \/ part = "events" /\ FlowStep(w)
       \/ part = "stale" /\ Stale!FlowStep(w)
       \/ part = "cycles" /\ Cycles!CycleStep(w)
       \/ part = "sockets" /\ Waiters!Loop(w)
       \/ part = "cancelled" /\ Cancelled!Execute(w, r1)
       \/ part = "timed" /\ Timed!Execute(w, r1)
       \/ part = "shared" /\ Shared!FlushOutbox(w)
       \/ part = "refused" /\ w = x /\ Refused!FlushOutbox(w)
       \/ part = "agent" /\ w = x /\ Agent!SubmitStep(w)
Attends(w) ==
    /\ part' = part
    /\ \/ part = "events" /\ Recover(w)
       \/ part = "stale" /\ Stale!Recover(w)
       \/ part = "cancelled" /\ Cancelled!Claim(w, r1)
       \/ part = "timed" /\ Timed!Claim(w, r1)
       \/ part = "agent" /\ w = x /\ Agent!CancelStep(w)
Watches(w) ==
    /\ part' = part
    /\ \/ part = "cancelled" /\ Cancelled!Heartbeat(w, r1)
       \/ part = "timed" /\ Timed!Heartbeat(w, r1)
       \/ part = "agent" /\ w = x /\ Agent!BridgeStep(w)
Stops(w) ==
    /\ part' = part
    /\ \/ part = "events" /\ Stop(w) /\ UNCHANGED faults
       \/ part = "stale" /\ Stale!Stop(w) /\ UNCHANGED faults
       \/ part = "cancelled" /\ Cancelled!HandlerCancelled(w, r1)
       \/ part = "timed" /\ Timed!HandlerCancelled(w, r1)
Signals(w) == part' = part /\ part = "cancelled" /\ Cancelled!SignalCancel(w, r1)
Exits(w) ==
    /\ part' = part
    /\ \/ part = "cancelled" /\ Cancelled!Exit(w)
       \/ part = "timed" /\ Timed!Exit(w)
       \/ part = "events" /\ ExpireProjection(IF w = x THEN 1 ELSE 2) /\ UNCHANGED faults
       \/ part = "stale" /\ w = x /\ Stale!ExpireProjection(1) /\ UNCHANGED faults

\* weak, once: the clock and the end of terms, the notice of a commit, the projection and the end
\* of an agent's run;
Passes ==
    /\ part' = part
    /\ \/ part = "sockets" /\ Waiters!Notify
       \/ part = "cancelled" /\ Cancelled!Tick
       \/ part = "timed" /\ Timed!Tick
       \/ part = "shared" /\ Shared!Expire /\ UNCHANGED boxFaults
       \/ part = "refused" /\ Refused!Expire /\ UNCHANGED boxFaults
       \/ part = "agent" /\ Agent!Project
Finishes ==
    /\ part' = part
    /\ \/ part = "events" /\ ExpireBridge /\ UNCHANGED faults
       \/ part = "stale" /\ Stale!ExpireBridge /\ UNCHANGED faults
       \/ part = "agent" /\ Agent!Finish
Expires(k) == part' = part /\ part = "agent" /\ Agent!Expire(k)

\* and strong: a process that keeps polling comes to a free term, to a lane that is due and to a
\* command whose retry time has passed.
Takes(w) ==
    /\ part' = part
    /\ \/ part = "shared" /\ Shared!TryAcquire(w) /\ flush'[w].pc = "normalize"
       \/ part = "refused" /\ w = x /\ Refused!TryAcquire(w) /\ flush'[w].pc = "normalize"
       \/ part = "agent" /\ w = x /\ Agent!TakeCommand(w)
Turns(w) ==
    /\ part' = part
    /\ \/ part = "shared" /\ (Shared!PublishLane(w, s1) \/ Shared!ScopeRow(w, s1))
       \/ part = "refused" /\ w = x /\ (Refused!PublishLane(w, s1) \/ Refused!ScopeRow(w, s1))
       \/ part = "agent" /\ w = x /\ Agent!StartBridge(w)

SuiteSpec ==
    /\ SuiteInit /\ [][SuiteNext]_allVars
    /\ \A w \in {x, y} :
          /\ WF_moving(Works(w)) /\ WF_moving(Attends(w)) /\ WF_moving(Watches(w))
          /\ WF_moving(Stops(w)) /\ WF_moving(Signals(w)) /\ WF_moving(Exits(w))
          /\ SF_moving(Takes(w)) /\ SF_moving(Turns(w))
    /\ WF_moving(Passes) /\ WF_moving(Finishes)
    /\ \A k \in Agent!Kinds : WF_moving(Expires(k))

-----------------------------------------------------------------------------
(* Properties. *)

\* What was accepted gets through although processes die, notices and answers are lost and a
\* neighbour stays broken: the events of an agent task are projected (AgentProjection), the
\* operations of a device are settled (HubSync), changes reach every open socket (ChangeWaiters),
\* a run that is cancelled or has a deadline ends (WorkflowDispatch), the rows of a scope that is
\* not refused are published (WorkflowOutbox), and a cancel command is completed (AgentTask).
EverythingGetsThrough ==
    []<>CASE part \in {"events", "stale"} -> AllProjected
          [] part = "cycles" -> Cycles!AllSettled
          [] part = "sockets" -> Waiters!AllSent
          [] part = "cancelled" -> Cancelled!AllSettled
          [] part = "timed" -> Timed!AllSettled
          [] part = "shared" -> Shared!OnlyBrokenLeft
          [] part = "refused" -> Refused!OnlyBrokenLeft
          [] part = "agent" -> command.status # "open"

=============================================================================
