-------------------------- MODULE WorkflowDispatch --------------------------
(***************************************************************************)
(* WorkflowDispatcher (backend/app/workflows/kernel.py): several backend   *)
(* processes execute the runs of one shared SQLite table.                  *)
(*                                                                         *)
(* A process claims a run by taking its execution lease, then drives it    *)
(* through _execute() while a heartbeat task renews the lease and watches  *)
(* for cancellation.  Every durable write of an execution asserts the      *)
(* lease inside its own transaction.  Processes crash, close, fall behind  *)
(* the clock and meet storage errors at any point between two awaits.      *)
(*                                                                         *)
(* One action is one stretch of code between awaits, or one transaction.   *)
(* The handler is the recoverable kind (meeting.finalize): it reads the    *)
(* recovery marker of the run, commits its domain step together with the   *)
(* marker, projects the tail and returns.                                  *)
(***************************************************************************)
EXTENDS ExecutionLease, WorkflowStates

CONSTANTS
    Runs,          \* run ids, already created and not agent tasks
    Cancellers,    \* the processes that are asked to cancel runs
    Unregistered,  \* runs of a kind with no handler in the registry
    Deadlines,     \* the values deadline_at may take; NoDeadline for timeout_s = None
    NoDeadline,
    MaxClock,      \* bound: the clock stops here
    FaultClock,    \* bound: crashes, closes and storage errors happen up to here
    MaxFaults,     \* bound: and there are at most this many of them
    MaxFence       \* bound: no term beyond this one is granted

ASSUME RunsAssumption == Unregistered \subseteq Runs /\ Cancellers \subseteq Workers
ASSUME DeadlineAssumption ==
    Deadlines \subseteq Nat \cup {NoDeadline} /\ NoDeadline \notin Nat
ASSUME BoundsAssumption == MaxClock \in Nat /\ FaultClock \in Nat /\ MaxFaults \in Nat /\ MaxFence \in Nat

VARIABLES
    run,         \* workflow_runs: state, started_at set?, domain_commit marker, deadline
    generation,  \* rag_projection_generation: how often the domain step was applied
    lease,       \* execution_leases of kind "workflow"
    now,         \* time.time()
    mode,        \* "up", "closing" (aclose ran) or "dead", per process
    task,        \* _tasks[run_id] of each process and its heartbeat and handler
    faults,      \* how many faults happened so far
    cancelling   \* cancel() calls between request_cancel and cancel_event.set()

vars == <<run, generation, lease, now, mode, task, faults, cancelling>>

\* Where _execute() stands.
Pcs == {"none", "claimed", "begin", "start", "launch", "wait", "stopping", "settle", "finally", "abandon"}
\* What follows "stopping" or "settle": the state to write, or "exit" for none.
Goals == {"exit", "succeeded", "failed", "timeout", "cancelled"}
\* The heartbeat task; "off" once cancelled.  A renewal has read the clock (seen) and waits
\* for its transaction.
Beats == {"sleep", "renew", "check", "done", "error", "off"}
\* The handler task: how far it is, then how it ended.
HandlerBusy == {"start", "work", "tail"}
HandlerEnds == {"ok", "error", "timeout", "lease_error", "cancelled"}

Tasks == [pc : Pcs, goal : Goals, fence : Nat, cancel_event : BOOLEAN,
          lease_lost : BOOLEAN, heartbeat : Beats, seen : Nat,
          handler : {"none"} \cup HandlerBusy \cup HandlerEnds]

NoTask == [pc |-> "none", goal |-> "exit", fence |-> 0, cancel_event |-> FALSE,
           lease_lost |-> FALSE, heartbeat |-> "off", seen |-> 0, handler |-> "none"]

RunRows == [state : RunStates, started : BOOLEAN, marker : BOOLEAN,
            deadline : Nat \cup {NoDeadline}]

TypeOK ==
    /\ run \in [Runs -> RunRows]
    /\ generation \in [Runs -> Nat]
    /\ lease \in [Runs -> LeaseRow]
    /\ now \in Nat
    /\ mode \in [Workers -> {"up", "closing", "dead"}]
    /\ task \in [Workers -> [Runs -> Tasks]]
    /\ faults \in Nat
    /\ cancelling \subseteq Workers \X Runs

Init ==
    /\ run \in [Runs -> [state : {"pending"}, started : {FALSE}, marker : {FALSE},
                         deadline : Deadlines]]
    /\ generation = [r \in Runs |-> 0]
    /\ lease = [r \in Runs |-> FreshLease]
    /\ now = 0
    /\ mode = [w \in Workers |-> "up"]
    /\ task = [w \in Workers |-> [r \in Runs |-> NoTask]]
    /\ faults = 0
    /\ cancelling = {}

-----------------------------------------------------------------------------

Owns(w, r) == Owned(lease[r], w, task[w][r].fence, now)

Terminal(r) == run[r].state \in TerminalStates

HandlerRunning(w, r) == task[w][r].handler \in HandlerBusy

\* _remaining_timeout(): the absolute deadline, whichever process executes.
DeadlinePassed(r) == run[r].deadline # NoDeadline /\ run[r].deadline <= now

\* Another process can take over: the faults below never stop the last one.
OtherUp(w) == \E v \in Workers \ {w} : mode[v] = "up"

\* A step of the environment that the bounds limit.
Fault ==
    /\ now <= FaultClock
    /\ faults < MaxFaults
    /\ faults' = faults + 1

SetTask(w, r, t) == task' = [task EXCEPT ![w][r] = t]

\* Past asyncio.wait() only the term, a live heartbeat and an unfinished handler
\* matter: the events and the way the handler ended have been looked at, and an
\* unfinished handler finds cancel_event set.
Past(t, pc, goal) ==
    [pc |-> pc, goal |-> goal, fence |-> t.fence, cancel_event |-> TRUE, lease_lost |-> FALSE,
     heartbeat |-> IF t.heartbeat \in {"sleep", "renew", "check"} THEN t.heartbeat ELSE "off",
     seen |-> IF t.heartbeat = "renew" THEN t.seen ELSE 0,
     handler |-> IF t.handler \in HandlerBusy THEN t.handler ELSE "none"]

ToSettle(t, goal) == Past(t, "settle", goal)

ToFinally(t) == Past(t, "finally", "exit")

\* Variant: _set_state() without the lease assertion.
CanSetUnfenced(w, r, s) == s \in LegalTransitions(run[r].state)

\* _set_state(): assert the lease, then write only a legal transition.
CanSet(w, r, s) == Owns(w, r) /\ s \in LegalTransitions(run[r].state)

WriteState(r, s) == run' = [run EXCEPT ![r].state = s, ![r].started = @ \/ s = "running"]

-----------------------------------------------------------------------------
(* _ensure_scheduled() and claim_run_for_execution(). *)

\* dispatch, retry, wait and the recovery reaper all end here.  The caller's
\* copy of the run may be stale: a claim on a run that is already terminal
\* takes a term and gives it back in the same transaction.
Claim(w, r) ==
    LET term == Acquire(lease[r], w, now)
        fresh == [NoTask EXCEPT !.fence = term.fence, !.heartbeat = "sleep"]
    IN  /\ mode[w] = "up"
        /\ task[w][r].pc = "none"
        /\ CanAcquire(lease[r], now)
        /\ lease[r].fence < MaxFence
        /\ IF Terminal(r)
             THEN /\ lease' = [lease EXCEPT ![r] = Release(term, w, term.fence, now)]
                  /\ UNCHANGED task
             ELSE /\ lease' = [lease EXCEPT ![r] = term]
                  /\ \E entry \in {"begin", "claimed"} : SetTask(w, r, [fresh EXCEPT !.pc = entry])
        /\ UNCHANGED <<run, generation, now, mode, cancelling, faults>>

\* The workflow.restored event of a recovered run is a fenced write of its own;
\* if the term is over by then no task is created and nothing is released.
RecordRestored(w, r) ==
    /\ task[w][r].pc = "claimed"
    /\ SetTask(w, r, IF Owns(w, r) THEN [task[w][r] EXCEPT !.pc = "begin"] ELSE NoTask)
    /\ UNCHANGED <<run, generation, lease, now, mode, cancelling, faults>>

-----------------------------------------------------------------------------
(* _execute(). *)

Begin(w, r) ==
    LET t == task[w][r]
        entry == CASE run[r].state = "cancel_requested" -> ToSettle(t, "cancelled")
                   [] run[r].state = "pending" -> [t EXCEPT !.pc = "start"]
                   [] run[r].state = "running" -> [t EXCEPT !.pc = "launch"]
                   [] Terminal(r) -> ToFinally(t)
    IN  /\ t.pc = "begin"
        /\ SetTask(w, r, IF r \in Unregistered THEN ToSettle(t, "failed") ELSE entry)
        /\ UNCHANGED <<run, generation, lease, now, mode, cancelling, faults>>

\* start_run() on the state as it is now, which may no longer be pending.
Start(w, r) ==
    LET t == task[w][r] IN
    /\ t.pc = "start"
    /\ \/ /\ ~Owns(w, r)
          /\ SetTask(w, r, ToFinally(t))
          /\ UNCHANGED run
       \/ /\ CanSet(w, r, "running")
          /\ WriteState(r, "running")
          /\ SetTask(w, r, [t EXCEPT !.pc = "launch"])
       \/ /\ Owns(w, r) /\ ~CanSet(w, r, "running")
          /\ SetTask(w, r, ToSettle(t, "failed"))
          /\ UNCHANGED run
    /\ UNCHANGED <<generation, lease, now, mode, cancelling, faults>>

Launch(w, r) ==
    LET t == task[w][r] IN
    /\ t.pc = "launch"
    /\ SetTask(w, r,
         IF DeadlinePassed(r)
           THEN ToSettle(t, "timeout")
           ELSE [t EXCEPT !.pc = "wait", !.handler = "start"])
    /\ UNCHANGED <<run, generation, lease, now, mode, cancelling, faults>>

\* asyncio.wait() returned because ownership, cancellation or the heartbeat
\* says stop.  The code tests them in this order.
WakeToStop(w, r) ==
    LET t == task[w][r] IN
    /\ t.pc = "wait"
    /\ t.lease_lost \/ t.cancel_event \/ t.heartbeat \in {"done", "error"}
    /\ SetTask(w, r, Past(t, "stopping",
                         IF ~t.lease_lost /\ t.cancel_event THEN "cancelled" ELSE "exit"))
    /\ UNCHANGED <<run, generation, lease, now, mode, cancelling, faults>>

Undisturbed(t) == ~t.lease_lost /\ ~t.cancel_event /\ t.heartbeat \notin {"done", "error"}

\* asyncio.wait() timed out; a handler that ends just after is still stopped.
WakeToTimeout(w, r) ==
    LET t == task[w][r] IN
    /\ t.pc = "wait" /\ Undisturbed(t)
    /\ DeadlinePassed(r)
    /\ SetTask(w, r, Past(t, "stopping", "timeout"))
    /\ UNCHANGED <<run, generation, lease, now, mode, cancelling, faults>>

\* The handler ended first: the heartbeat is cancelled, then its result or
\* exception decides.  A handler's own CancelledError settles the run only if
\* somebody asked for the cancellation.
WakeToResult(w, r) ==
    LET t == [task[w][r] EXCEPT !.heartbeat = "off"]
        settle(goal) == SetTask(w, r, ToSettle(t, goal))
        leave == SetTask(w, r, ToFinally(t))
    IN  /\ t.pc = "wait" /\ Undisturbed(task[w][r])
        /\ \/ t.handler = "ok" /\ settle("succeeded")
           \/ t.handler = "error" /\ settle("failed")
           \/ t.handler = "timeout" /\ settle("timeout")
           \/ t.handler = "lease_error" /\ leave
           \/ t.handler = "cancelled" /\ run[r].state = "cancel_requested" /\ settle("cancelled")
           \/ t.handler = "cancelled" /\ run[r].state # "cancel_requested" /\ leave
        /\ UNCHANGED <<run, generation, lease, now, mode, cancelling, faults>>

\* _stop_handler() returned.
Stopped(w, r) ==
    LET t == task[w][r] IN
    /\ t.pc = "stopping"
    /\ ~HandlerRunning(w, r)
    /\ SetTask(w, r, IF t.goal = "exit" THEN ToFinally(t) ELSE ToSettle(t, t.goal))
    /\ UNCHANGED <<run, generation, lease, now, mode, cancelling, faults>>

\* complete_run, mark_cancelled, timeout_run or fail_run.  An illegal
\* transition raised in the body of the try becomes a fail_run of its own.
Settle(w, r) ==
    LET t == task[w][r]
        leave == SetTask(w, r, ToFinally(t))
        toFailed == SetTask(w, r, ToSettle(t, "failed"))
        refused == Owns(w, r) /\ ~CanSet(w, r, t.goal) /\ run[r].state # t.goal
    IN  /\ t.pc = "settle"
        /\ \/ ~Owns(w, r) /\ leave /\ UNCHANGED run
           \/ Owns(w, r) /\ run[r].state = t.goal /\ leave /\ UNCHANGED run
           \/ CanSet(w, r, t.goal) /\ WriteState(r, t.goal) /\ leave
           \/ refused /\ t.goal \in {"succeeded", "cancelled"} /\ toFailed /\ UNCHANGED run
           \/ refused /\ t.goal \in {"failed", "timeout"} /\ leave /\ UNCHANGED run
        /\ UNCHANGED <<generation, lease, now, mode, cancelling, faults>>

\* Variant: the term is given back before the handler has stopped.
FinallyReleaseFirst(w, r) ==
    /\ task[w][r].pc = "finally"
    /\ lease' = [lease EXCEPT ![r] = Release(lease[r], w, task[w][r].fence, now)]
    /\ SetTask(w, r, IF HandlerRunning(w, r) THEN task[w][r] ELSE NoTask)
    /\ UNCHANGED <<run, generation, now, mode, cancelling, faults>>

\* The finally block: the handler has stopped, the heartbeat is cancelled, the
\* exact term is released and the task leaves _tasks.
Finally(w, r) ==
    /\ task[w][r].pc = "finally"
    /\ ~HandlerRunning(w, r)
    /\ lease' = [lease EXCEPT ![r] = Release(lease[r], w, task[w][r].fence, now)]
    /\ SetTask(w, r, NoTask)
    /\ UNCHANGED <<run, generation, now, mode, cancelling, faults>>

-----------------------------------------------------------------------------
(* _heartbeat_lease(): runs from the creation of the task to its finally. *)

Beating(w, r) == task[w][r].pc \notin {"none", "claimed"}

\* The heartbeat returns: its outcome is looked at up to asyncio.wait() only.
HeartbeatEnds(w, r, how, lost, cancel) ==
    LET t == task[w][r] IN
    SetTask(w, r, IF t.pc \in {"begin", "start", "launch", "wait"}
                    THEN [t EXCEPT !.heartbeat = how, !.seen = 0, !.lease_lost = @ \/ lost,
                                   !.cancel_event = @ \/ cancel]
                    ELSE [t EXCEPT !.heartbeat = "off", !.seen = 0])

\* renew() reads the clock, then opens a connection and waits for BEGIN IMMEDIATE.
HeartbeatWakes(w, r) ==
    LET t == task[w][r] IN
    /\ Beating(w, r) /\ t.heartbeat = "sleep"
    /\ SetTask(w, r, [t EXCEPT !.heartbeat = "renew", !.seen = now])
    /\ UNCHANGED <<run, generation, lease, now, mode, cancelling, faults>>

\* Variant: renew() matches holder and fence but not expires_at > now.
MayRenewLate(w, r) == lease[r].holder = w /\ lease[r].fence = task[w][r].fence

\* The UPDATE of renew() compares the row with the clock as it was read.
MayRenew(w, r) == Owned(lease[r], w, task[w][r].fence, task[w][r].seen)

HeartbeatRenew(w, r) ==
    LET t == task[w][r] IN
    /\ Beating(w, r) /\ t.heartbeat = "renew"
    /\ IF MayRenew(w, r)
         THEN /\ lease' = [lease EXCEPT ![r] = Renew(lease[r], t.seen)]
              /\ SetTask(w, r, [t EXCEPT !.heartbeat = "check", !.seen = 0])
         ELSE /\ HeartbeatEnds(w, r, "done", TRUE, TRUE)
              /\ UNCHANGED lease
    /\ UNCHANGED <<run, generation, now, mode, cancelling, faults>>

\* Variant: the heartbeat ends on terminal runs only and misses a cancellation
\* that another process requested.
HeartbeatCheckTerminalOnly(w, r) ==
    LET t == task[w][r] IN
    /\ Beating(w, r) /\ t.heartbeat = "check"
    /\ IF Terminal(r) THEN HeartbeatEnds(w, r, "done", FALSE, FALSE)
                      ELSE SetTask(w, r, [t EXCEPT !.heartbeat = "sleep"])
    /\ UNCHANGED <<run, generation, lease, now, mode, cancelling, faults>>

HeartbeatCheck(w, r) ==
    LET t == task[w][r] IN
    /\ Beating(w, r) /\ t.heartbeat = "check"
    /\ \/ Terminal(r) /\ HeartbeatEnds(w, r, "done", FALSE, FALSE)
       \/ run[r].state = "cancel_requested" /\ HeartbeatEnds(w, r, "done", FALSE, TRUE)
       \/ run[r].state \in {"pending", "running"} /\ SetTask(w, r, [t EXCEPT !.heartbeat = "sleep"])
    /\ UNCHANGED <<run, generation, lease, now, mode, cancelling, faults>>

\* Any storage exception in the heartbeat counts as a lost lease.
HeartbeatError(w, r) ==
    LET t == task[w][r] IN
    /\ Fault
    /\ Beating(w, r) /\ t.heartbeat \in {"renew", "check"}
    /\ HeartbeatEnds(w, r, "error", TRUE, TRUE)
    /\ UNCHANGED <<run, generation, lease, now, mode, cancelling>>

-----------------------------------------------------------------------------
(* The handler (finalize_handler of backend/app/api/meetings.py). *)

SetHandler(w, r, h) == SetTask(w, r, [task[w][r] EXCEPT !.handler = h])

\* Reads the run again and looks for the marker an earlier execution left.
HandlerRead(w, r) ==
    /\ task[w][r].handler = "start"
    /\ SetHandler(w, r, IF task[w][r].cancel_event THEN "cancelled"
                        ELSE IF run[r].marker THEN "tail" ELSE "work")
    /\ UNCHANGED <<run, generation, lease, now, mode, cancelling, faults>>

\* Variant: the progress transaction does not assert the lease.
HandlerCommitUnfenced(w, r) ==
    /\ task[w][r].handler = "work"
    /\ ~Terminal(r)
    /\ run' = [run EXCEPT ![r].marker = TRUE]
    /\ generation' = [generation EXCEPT ![r] = @ + 1]
    /\ SetHandler(w, r, "tail")
    /\ UNCHANGED <<lease, now, mode, cancelling, faults>>

\* commit_run_progress_atomic(): domain write and marker in one fenced transaction.
HandlerCommit(w, r) ==
    /\ task[w][r].handler = "work"
    /\ \/ /\ Owns(w, r) /\ ~Terminal(r)
          /\ run' = [run EXCEPT ![r].marker = TRUE]
          /\ generation' = [generation EXCEPT ![r] = @ + 1]
          /\ SetHandler(w, r, "tail")
       \/ /\ ~Owns(w, r)
          /\ SetHandler(w, r, "lease_error")
          /\ UNCHANGED <<run, generation>>
       \/ /\ Owns(w, r) /\ Terminal(r)
          /\ SetHandler(w, r, "error")
          /\ UNCHANGED <<run, generation>>
    /\ UNCHANGED <<lease, now, mode, cancelling, faults>>

\* The projection tail ends with the fenced merge_output() of its receipt.
HandlerReturn(w, r) ==
    /\ task[w][r].handler = "tail"
    /\ SetHandler(w, r, CASE ~Owns(w, r) -> "lease_error"
                          [] Owns(w, r) /\ Terminal(r) -> "error"
                          [] Owns(w, r) /\ ~Terminal(r) -> "ok")
    /\ UNCHANGED <<run, generation, lease, now, mode, cancelling, faults>>

\* The model call, the transcript load or the projection raises.
HandlerRaise(w, r) ==
    /\ HandlerRunning(w, r)
    /\ \E e \in {"error", "timeout"} : SetHandler(w, r, e)
    /\ UNCHANGED <<run, generation, lease, now, mode, cancelling, faults>>

\* handler_task.cancel() takes effect; until then the handler may go on.
HandlerCancelled(w, r) ==
    /\ HandlerRunning(w, r)
    /\ task[w][r].pc \in {"stopping", "finally", "abandon"}
    /\ SetHandler(w, r, "cancelled")
    /\ UNCHANGED <<run, generation, lease, now, mode, cancelling, faults>>

-----------------------------------------------------------------------------
(* WorkflowDispatcher.cancel(), called on any process. *)

\* request_cancel() carries no lease; a second request changes nothing.
RequestCancel(w, r) ==
    /\ w \in Cancellers
    /\ mode[w] = "up"
    /\ <<w, r>> \notin cancelling
    /\ ~Terminal(r)
    /\ run' = [run EXCEPT ![r].state = "cancel_requested"]
    /\ cancelling' = cancelling \cup {<<w, r>>}
    /\ UNCHANGED <<generation, lease, now, mode, task, faults>>

\* The local cancel_event, when this process executes the run itself.
SignalCancel(w, r) ==
    /\ <<w, r>> \in cancelling
    /\ cancelling' = cancelling \ {<<w, r>>}
    /\ IF Beating(w, r)
         THEN SetTask(w, r, [task[w][r] EXCEPT !.cancel_event = TRUE])
         ELSE UNCHANGED task
    /\ UNCHANGED <<run, generation, lease, now, mode, faults>>

-----------------------------------------------------------------------------
(* Faults and the clock. *)

\* A database error.  In the try body of _execute() it becomes fail_run, in the
\* except and finally blocks it ends the task, and before the task exists it
\* leaves the claimed term to expire.
StoreError(w, r) ==
    LET t == task[w][r] IN
    /\ Fault
    /\ \/ /\ t.pc \in {"begin", "start"} \/ (t.pc = "settle" /\ t.goal \in {"succeeded", "cancelled"})
          /\ SetTask(w, r, ToSettle(t, "failed"))
       \/ /\ t.pc = "settle" /\ t.goal \in {"failed", "timeout"}
          /\ SetTask(w, r, ToFinally(t))
       \/ /\ t.pc = "claimed" \/ (t.pc = "finally" /\ ~HandlerRunning(w, r))
          /\ SetTask(w, r, NoTask)
    /\ UNCHANGED <<run, generation, lease, now, mode, cancelling>>

\* The process dies: its tasks vanish, its leases stay in the table.
Crash(w) ==
    /\ Fault
    /\ mode[w] # "dead" /\ OtherUp(w)
    /\ mode' = [mode EXCEPT ![w] = "dead"]
    /\ task' = [task EXCEPT ![w] = [r \in Runs |-> NoTask]]
    /\ cancelling' = {c \in cancelling : c[1] # w}
    /\ UNCHANGED <<run, generation, lease, now>>

\* aclose() cancels every task where it stands.  The task goes to its finally
\* block and leaves the run as it is.  A task already in that block abandons it:
\* its term is not released, and if it was waiting for the handler its heartbeat
\* is not stopped either.  A restore that is interrupted leaks its claim.
CancelledByClose(w, r) ==
    LET t == task[w][r] IN
    CASE t.pc \in {"none", "claimed"} -> NoTask
      [] t.pc = "finally" -> [t EXCEPT !.pc = "abandon",
                                       !.heartbeat = IF HandlerRunning(w, r) THEN @ ELSE "off"]
      [] OTHER -> ToFinally(t)

Close(w) ==
    /\ Fault
    /\ mode[w] = "up" /\ OtherUp(w)
    /\ mode' = [mode EXCEPT ![w] = "closing"]
    /\ task' = [task EXCEPT ![w] = [r \in Runs |-> CancelledByClose(w, r)]]
    /\ cancelling' = {c \in cancelling : c[1] # w}
    /\ UNCHANGED <<run, generation, lease, now>>

\* aclose() returned and the process exits.
Exit(w) ==
    /\ mode[w] = "closing"
    /\ \A r \in Runs : task[w][r].pc \in {"none", "abandon"} /\ ~HandlerRunning(w, r)
    /\ mode' = [mode EXCEPT ![w] = "dead"]
    /\ task' = [task EXCEPT ![w] = [r \in Runs |-> NoTask]]
    /\ UNCHANGED <<run, generation, lease, now, cancelling, faults>>

\* A process that closes does so before the fault window is over.
Tick ==
    /\ now < MaxClock
    /\ now = FaultClock => \A w \in Workers : mode[w] # "closing"
    /\ now' = now + 1
    /\ UNCHANGED <<run, generation, lease, mode, task, cancelling, faults>>

-----------------------------------------------------------------------------

Execute(w, r) ==
    \/ RecordRestored(w, r) \/ Begin(w, r) \/ Start(w, r) \/ Launch(w, r)
    \/ WakeToStop(w, r) \/ WakeToTimeout(w, r) \/ WakeToResult(w, r)
    \/ Stopped(w, r) \/ Settle(w, r) \/ Finally(w, r)

Heartbeat(w, r) == HeartbeatWakes(w, r) \/ HeartbeatRenew(w, r) \/ HeartbeatCheck(w, r)

Handler(w, r) ==
    \/ HandlerRead(w, r) \/ HandlerCommit(w, r) \/ HandlerReturn(w, r) \/ HandlerRaise(w, r)

Next ==
    \/ \E w \in Workers, r \in Runs :
         \/ Claim(w, r) \/ Execute(w, r) \/ Heartbeat(w, r) \/ HeartbeatError(w, r)
         \/ Handler(w, r) \/ HandlerCancelled(w, r)
         \/ RequestCancel(w, r) \/ SignalCancel(w, r) \/ StoreError(w, r)
    \/ \E w \in Workers : Crash(w) \/ Close(w) \/ Exit(w)
    \/ Tick

Spec == Init /\ [][Next]_vars

\* The event loop runs what is runnable, the reaper keeps claiming, a cancelled
\* handler stops and time passes.  Nothing is promised about a handler that
\* nobody cancels: it may block for ever on a model call.
Fairness ==
    /\ WF_vars(Tick)
    /\ \A w \in Workers : WF_vars(Exit(w))
    /\ \A w \in Workers, r \in Runs :
         /\ WF_vars(Claim(w, r)) /\ WF_vars(Execute(w, r)) /\ WF_vars(Heartbeat(w, r))
         /\ WF_vars(HandlerCancelled(w, r)) /\ WF_vars(SignalCancel(w, r))

FairSpec == Spec /\ Fairness

-----------------------------------------------------------------------------
(* Properties. *)

\* The domain step of a run takes effect at most once, whatever number of
\* processes executed the run and however far a superseded one got: the marker
\* and the domain write of commit_run_progress_atomic() share one fenced
\* transaction, and a new execution reads the marker after it took the term.
DomainAppliedOnce ==
    \A r \in Runs : generation[r] = (IF run[r].marker THEN 1 ELSE 0)

\* Two executions of a run never share a fence token: the token handed to the
\* handler (WorkflowContext.fence_token) names one execution for ever.
OneExecutionPerTerm ==
    \A r \in Runs : \A v, w \in Workers :
        /\ task[v][r].pc # "none" /\ task[w][r].pc # "none"
        /\ task[v][r].fence = task[w][r].fence
        => v = w

\* The holder of r's last term asked for a renewal while the term still ran.
RenewalUnderWay(w, r) ==
    task[w][r].heartbeat = "renew" /\ MayRenew(w, r) /\ task[w][r].seen < lease[r].expires_at

\* A term that was given back or taken over never comes back.  One that ended by time comes back
\* only by a renewal of its own execution that had read the clock before the end and then waited
\* for the database, and for no longer than a term from that reading: renew() compares with that
\* reading (execution_lease.py:111), so its docstring's "expired terms cannot revive" is too much.
LostTermStaysLost ==
    [][\A r \in Runs :
         lease[r].expires_at <= now /\ lease'[r].expires_at > now' =>
           \/ lease'[r].fence > lease[r].fence
           \/ \E w \in Workers : /\ RenewalUnderWay(w, r) /\ lease[r].expires_at > 0
                               /\ lease'[r] = Renew(lease[r], task[w][r].seen)]_vars

\* While the handler of an execution runs, only the passing of time can end its
\* term: _execute() stops the handler before it gives the lease back, so the
\* next process never overlaps with a handler that a release let through.
ReleaseAfterHandlerStopped ==
    [][\A w \in Workers, r \in Runs :
         HandlerRunning(w, r) /\ Owns(w, r) /\ HandlerRunning(w, r)' /\ now' = now
         => Owns(w, r)']_vars

\* An execution that stopped because it lost its lease leaves the run to the
\* next owner: no step of a process that is not the current owner writes the run,
\* except a cancellation request.
OnlyOwnerWrites ==
    [][\A r \in Runs :
         run'[r] # run[r] =>
           \/ run'[r] = [run[r] EXCEPT !.state = "cancel_requested"]
           \/ \E w \in Workers : Owns(w, r) /\ task'[w][r] # task[w][r]]_vars

\* A process acts on a run only as its owner: it lets go only of a run whose handler has stopped,
\* and writes no run that another process has taken over.
OwnersAreExclusive == ReleaseAfterHandlerStopped /\ OnlyOwnerWrites

\* The refinement mapping: what the row of a run says of its outcome.
PhaseOf(s) == CASE s = "pending" -> "queued"
                [] s = "running" -> "executing"
                [] s = "cancel_requested" -> "stopping"
                [] OTHER -> s

PhaseBar == [r \in Runs |-> PhaseOf(run[r].state)]

BegunBar == [r \in Runs |-> run[r].started]

Outcome == INSTANCE RunOutcome WITH phase <- PhaseBar, begun <- BegunBar, applied <- generation

\* The execution kernel implements the promise of a run: begin once, apply the
\* domain step at most once and only after beginning, settle once and for good.
ImplementsRunOutcome == Outcome!AbsSpec

AllSettled ==
    \A r \in Runs : run[r].state = "cancel_requested" \/ run[r].deadline # NoDeadline => Terminal(r)

\* A run whose cancellation was accepted, or that has a deadline, eventually
\* settles: although its handler never returns, and although the process that
\* executed it crashes, closes or loses its lease on the way.
RunSettles == []<>AllSettled

=============================================================================
