---------------------------- MODULE AsrScheduler ----------------------------
(***************************************************************************)
(* The bounded speech recognition scheduler (adapters/stt/scheduler.py):   *)
(* admission by key, scope and capacity, a dispatch queue and a backlog,   *)
(* worker tasks that try providers behind circuit breakers, cancellation   *)
(* by the caller, deadlines and shutdown.                                  *)
(*                                                                         *)
(* One event loop runs everything.  A task keeps the loop until it awaits  *)
(* something that is not ready, and no body under _state_lock awaits, so   *)
(* the lock is never found taken: a step below reaches from one await to   *)
(* the next, and a worker at "next" or "try" still holds the loop.         *)
(***************************************************************************)
EXTENDS Naturals, Sequences, FiniteSets

CONSTANTS
    Requests,    \* calls of transcribe(); an admitted one names its job
    Workers,     \* the max_concurrency worker tasks
    Scopes, Keys, Prints,
    ScopeOf, KeyOf, PrintOf,  \* context of a request and its fingerprint
    NoKey, NoJob,
    Order,       \* eligible_providers in order, each with a usable binding; Settings requires one
    Weight,      \* of each provider
    Width,       \* max_concurrency of each provider's binding
    QueueSize, ScopeMax, ScopeRate, MaxAttempts, Threshold,
    MaxCancels   \* bound on callers that give up

Providers == {Order[i] : i \in 1 .. Len(Order)}

ASSUME SizesAssumption ==
    /\ QueueSize \in Nat /\ ScopeRate \in Nat /\ MaxCancels \in Nat
    /\ ScopeMax \in Nat \ {0} /\ MaxAttempts \in Nat \ {0} /\ Threshold \in Nat \ {0}
    /\ IsFiniteSet(Workers) /\ Workers # {} /\ IsFiniteSet(Requests)

ASSUME ContextAssumption ==
    /\ ScopeOf \in [Requests -> Scopes] /\ PrintOf \in [Requests -> Prints]
    /\ KeyOf \in [Requests -> Keys \cup {NoKey}] /\ NoKey \notin Keys /\ NoJob \notin Requests

ASSUME BindingsAssumption ==
    /\ Order \in Seq(Providers) /\ Order # <<>>
    /\ \A i, j \in 1 .. Len(Order) : Order[i] = Order[j] => i = j
    /\ Weight \in [Providers -> Nat \ {0}] /\ Width \in [Providers -> Nat \ {0}]

VARIABLES
    caller,     \* what became of each call
    awaits,     \* the job whose future a call awaits
    future,     \* of each job
    late,       \* jobs whose deadline_at has passed
    dispatch,   \* _dispatch_queue
    backlog,    \* _queue
    available,  \* _work_available
    count,      \* _accepted_count, _active_jobs, _dispatch_reserved
    inFlight,   \* per scope: in_flight
    recent,     \* per scope: request_times of the last minute
    known,      \* _idempotency: the job of a scope's key
    provider,   \* _ProviderState of each provider
    worker,     \* where each worker task stands
    phase,      \* open, or how far close() has come
    cancels

queues == <<dispatch, backlog, available>>
admission == <<caller, awaits, inFlight, recent, known, cancels>>
vars == <<caller, awaits, future, late, dispatch, backlog, available, count, inFlight,
          recent, known, provider, worker, phase, cancels>>

Closed0 == [circuit |-> "closed", failures |-> 0, cooled |-> FALSE, probe |-> FALSE,
            calls |-> 0, waiting |-> 0]

Idle == [at |-> "idle", job |-> NoJob, on |-> Order[1], tried |-> {}, attempt |-> 0, cut |-> FALSE]

Init ==
    /\ caller = [r \in Requests |-> "new"]
    /\ awaits = [r \in Requests |-> NoJob]
    /\ future = [r \in Requests |-> "none"]
    /\ late = {}
    /\ dispatch = <<>> /\ backlog = <<>> /\ available = FALSE
    /\ count = [accepted |-> 0, active |-> 0, reserved |-> 0]
    /\ inFlight = [s \in Scopes |-> 0]
    /\ recent = [s \in Scopes |-> 0]
    /\ known = [k \in Scopes \X Keys |-> NoJob]
    /\ provider = [p \in Providers |-> Closed0]
    /\ worker = [w \in Workers |-> Idle]
    /\ phase = "open"
    /\ cancels = 0

-----------------------------------------------------------------------------

\* max(0, n - 1)
Less(n) == IF n = 0 THEN 0 ELSE n - 1

\* No worker holds the event loop.
Yielded == \A w \in Workers : worker[w].at \notin {"next", "try"}

Busy == {w \in Workers : worker[w].at \in {"try", "permit", "call"}}

Working == phase \in {"open", "closing"}

Slot(r) == <<ScopeOf[r], KeyOf[r]>>

Pending(r) == future[r] = "pending"

\* set_result() and set_exception(), skipped when the future is done.
Resolved(f, j, end) == IF f[j] = "pending" THEN [f EXCEPT ![j] = end] ELSE f

\* _is_state_eligible()
Eligible(p) ==
    /\ ~(provider[p].circuit = "open" /\ ~provider[p].cooled)
    /\ ~(provider[p].circuit = "half_open" /\ provider[p].probe)

-----------------------------------------------------------------------------
(* Callers. *)

Capacity == Cardinality(Workers) + QueueSize

\* The conditions of _admit() under which a new job is refused.
Refused(r) ==
    \/ \A p \in Providers : ~Eligible(p)
    \/ inFlight[ScopeOf[r]] >= ScopeMax
    \/ ScopeRate > 0 /\ recent[ScopeOf[r]] >= ScopeRate
    \/ count.accepted >= Capacity

Joins(r) == KeyOf[r] # NoKey /\ known[Slot(r)] # NoJob

Answer(r, end) == caller' = [caller EXCEPT ![r] = end]

\* _enqueue_admitted_job(): what follows once a queue has taken the job.
Admit(r) ==
    /\ Answer(r, "waiting")
    /\ awaits' = [awaits EXCEPT ![r] = r]
    /\ future' = [future EXCEPT ![r] = "pending"]
    /\ inFlight' = [inFlight EXCEPT ![ScopeOf[r]] = @ + 1]
    /\ recent' = [recent EXCEPT ![ScopeOf[r]] = @ + 1]
    /\ known' = IF KeyOf[r] = NoKey THEN known ELSE [known EXCEPT ![Slot(r)] = r]
    /\ available' = TRUE
    /\ UNCHANGED <<late, provider, worker, phase, cancels>>

\* Variant: the jobs on their way to a worker are not counted.
RunningSlotFreeUnreserved == count.active < Cardinality(Workers)

RunningSlotFree == count.active + count.reserved < Cardinality(Workers)

EnqueueDispatch(r) ==
    /\ RunningSlotFree /\ Len(dispatch) < Cardinality(Workers)
    /\ dispatch' = Append(dispatch, r)
    /\ count' = [count EXCEPT !.accepted = @ + 1, !.reserved = @ + 1]
    /\ Admit(r)
    /\ UNCHANGED backlog

BacklogRoom == Len(backlog) < (IF QueueSize = 0 THEN 1 ELSE QueueSize)

EnqueueBacklog(r) ==
    /\ ~RunningSlotFree /\ BacklogRoom
    /\ backlog' = Append(backlog, r)
    /\ count' = [count EXCEPT !.accepted = @ + 1]
    /\ Admit(r)
    /\ UNCHANGED dispatch

\* put_nowait() raises QueueFull although the capacity test let the job pass.
Overflow(r) ==
    /\ IF RunningSlotFree THEN Len(dispatch) >= Cardinality(Workers) ELSE ~BacklogRoom
    /\ Answer(r, "overflow")
    /\ UNCHANGED <<awaits, future, late, queues, count, inFlight, recent, known, provider, worker,
                   phase, cancels>>

\* transcribe() up to the wait for the future.
Transcribe(r) ==
    /\ caller[r] = "new" /\ Yielded
    /\ \/ /\ \/ phase # "open"
             \/ phase = "open" /\ Joins(r) /\ PrintOf[known[Slot(r)]] # PrintOf[r]
             \/ phase = "open" /\ ~Joins(r) /\ Refused(r)
          /\ Answer(r, "refused")
          /\ UNCHANGED <<awaits, future, late, queues, count, inFlight, recent, known, provider,
                         worker, phase, cancels>>
       \/ /\ phase = "open" /\ Joins(r) /\ PrintOf[known[Slot(r)]] = PrintOf[r]
          /\ Answer(r, "waiting")
          /\ awaits' = [awaits EXCEPT ![r] = known[Slot(r)]]
          /\ UNCHANGED <<future, late, queues, count, inFlight, recent, known, provider, worker,
                         phase, cancels>>
       \/ /\ phase = "open" /\ ~Joins(r) /\ ~Refused(r)
          /\ EnqueueDispatch(r) \/ EnqueueBacklog(r) \/ Overflow(r)

\* The caller gives up while it awaits the future.  The owner of a job cancels
\* it: the provider task too, unless the answer is already there.
Cancel(r) ==
    /\ caller[r] = "waiting" /\ Pending(awaits[r]) /\ Yielded
    /\ cancels < MaxCancels
    /\ cancels' = cancels + 1
    /\ Answer(r, "cancelled")
    /\ IF awaits[r] = r
         THEN /\ future' = [future EXCEPT ![r] = "cancelled"]
              /\ \/ worker' = [w \in Workers |-> IF worker[w].job = r /\ worker[w].at = "call"
                                                   THEN [worker[w] EXCEPT !.cut = TRUE] ELSE worker[w]]
                 \/ UNCHANGED worker
         ELSE UNCHANGED <<future, worker>>
    /\ UNCHANGED <<awaits, late, queues, count, inFlight, recent, known, provider, phase>>

-----------------------------------------------------------------------------
(* Workers. *)

\* Variant: a job that failed keeps the place of its scope.
FinishKeepsScope(j) ==
    /\ count' = [count EXCEPT !.accepted = Less(@), !.active = Less(@)]
    /\ inFlight' = IF future'[j] = "error" THEN inFlight ELSE [inFlight EXCEPT ![ScopeOf[j]] = Less(@)]
    /\ UNCHANGED <<caller, awaits, recent, known, cancels>>

\* _finish_job(): the job leaves every count, however it ended.
Finish(j) ==
    /\ count' = [count EXCEPT !.accepted = Less(@), !.active = Less(@)]
    /\ inFlight' = [inFlight EXCEPT ![ScopeOf[j]] = Less(@)]
    /\ UNCHANGED <<caller, awaits, recent, known, cancels>>

\* The worker ends its job and, still holding the loop, asks for the next.
EndJob(w, end) ==
    /\ future' = Resolved(future, worker[w].job, end)
    /\ Finish(worker[w].job)
    /\ worker' = [worker EXCEPT ![w] = [Idle EXCEPT !.at = "next"]]
    /\ UNCHANGED <<late, queues, phase>>

\* _worker_loop() and _next_job() around a job: it goes to _run_job() unless the
\* caller has cancelled it meanwhile.
Begin(w, j, reserved) ==
    IF future[j] = "cancelled"
      THEN /\ count' = [count EXCEPT !.accepted = Less(@), !.reserved = reserved]
           /\ inFlight' = [inFlight EXCEPT ![ScopeOf[j]] = Less(@)]
           /\ worker' = [worker EXCEPT ![w] = [Idle EXCEPT !.at = "next"]]
           /\ UNCHANGED <<caller, awaits, recent, known, cancels>>
      ELSE /\ count' = [count EXCEPT !.active = @ + 1, !.reserved = reserved]
           /\ worker' = [worker EXCEPT ![w] = [Idle EXCEPT !.at = "try", !.job = j]]
           /\ UNCHANGED admission

\* A worker that waits on _work_available wakes up, or goes on after its job.
Ready(w) == Working /\ (worker[w].at = "next" \/ (worker[w].at = "idle" /\ available /\ Yielded))

\* Variant: the event is cleared with the last dispatched job.
TakeDispatchClears(w) ==
    /\ Ready(w) /\ available /\ dispatch # <<>>
    /\ dispatch' = Tail(dispatch)
    /\ available' = (Len(dispatch) > 1)
    /\ Begin(w, Head(dispatch), Less(count.reserved))
    /\ UNCHANGED <<future, late, backlog, provider, phase>>

TakeDispatch(w) ==
    /\ Ready(w) /\ available /\ dispatch # <<>>
    /\ dispatch' = Tail(dispatch)
    /\ Begin(w, Head(dispatch), Less(count.reserved))
    /\ UNCHANGED <<future, late, backlog, available, provider, phase>>

TakeBacklog(w) ==
    /\ Ready(w) /\ available /\ dispatch = <<>> /\ backlog # <<>>
    /\ backlog' = Tail(backlog)
    /\ Begin(w, Head(backlog), count.reserved)
    /\ UNCHANGED <<future, late, dispatch, available, provider, phase>>

\* Nothing to take: the event is cleared and the worker waits for it.
Rest(w) ==
    /\ Ready(w) /\ (available => dispatch = <<>> /\ backlog = <<>>)
    /\ available' = FALSE
    /\ worker' = [worker EXCEPT ![w] = Idle]
    /\ UNCHANGED <<future, late, dispatch, backlog, count, admission, provider, phase>>

\* _select_provider(), first half: an open circuit whose cooldown has passed
\* becomes half open, and every half open candidate is marked as probed.
Surveyed(tried) ==
    [p \in Providers |->
       LET s == provider[p]
           c == IF s.circuit = "open" /\ s.cooled
                  THEN [s EXCEPT !.circuit = "half_open", !.cooled = FALSE, !.probe = FALSE] ELSE s
       IN  IF p \in tried THEN s
           ELSE IF c.circuit = "half_open" /\ ~c.probe THEN [c EXCEPT !.probe = TRUE] ELSE c]

Candidates(tried) == {p \in Providers \ tried : Eligible(p)}

Load(p) == provider[p].calls + provider[p].waiting

Position(p) == CHOOSE i \in 1 .. Len(Order) : Order[i] = p

\* Second half: the least loaded by weight, the first of equals.
Before(p, q) ==
    LET a == (Load(p) + 1) * Weight[q]
        b == (Load(q) + 1) * Weight[p]
    IN  a < b \/ (a = b /\ Position(p) < Position(q))

Selected(c) ==
    LET free == {p \in c : Load(p) < Width[p]}
        from == IF free = {} THEN c ELSE free
    IN  CHOOSE p \in from : \A q \in from \ {p} : Before(p, q)

\* The head of the loop in _execute(): deadline, selection, and the wait for the
\* permit of the provider.
TryProvider(w) ==
    LET me == worker[w]
        c == Candidates(me.tried)
        p == Selected(c)
    IN  /\ me.at = "try" /\ me.job \notin late /\ c # {}
        /\ provider' = [Surveyed(me.tried) EXCEPT ![p].waiting = @ + 1]
        /\ worker' = [worker EXCEPT ![w] = [me EXCEPT !.at = "permit", !.on = p, !.tried = @ \cup {p}]]
        /\ UNCHANGED <<future, late, queues, count, admission, phase>>

\* ASRDeadlineExceeded or ASRNoEligibleProvider.
GiveUp(w) ==
    /\ worker[w].at = "try" /\ (worker[w].job \in late \/ Candidates(worker[w].tried) = {})
    /\ EndJob(w, "error")
    /\ UNCHANGED provider

On(w) == provider[worker[w].on]

\* _call_provider(): the semaphore admits the call.
Permit(w) ==
    /\ Working /\ Yielded
    /\ worker[w].at = "permit" /\ On(w).calls < Width[worker[w].on]
    /\ provider' = [provider EXCEPT ![worker[w].on].calls = @ + 1, ![worker[w].on].waiting = @ - 1]
    /\ worker' = [worker EXCEPT ![w].at = "call"]
    /\ UNCHANGED <<future, late, queues, count, admission, phase>>

\* _record_provider_success()
Succeeded(s) == [s EXCEPT !.circuit = "closed", !.failures = 0, !.cooled = FALSE, !.probe = FALSE]

\* _record_provider_failure(); failures beyond the threshold are not told apart.
Failed(s) ==
    LET n == IF s.failures < Threshold THEN s.failures + 1 ELSE Threshold
    IN  IF s.circuit = "half_open" \/ n >= Threshold
          THEN [s EXCEPT !.failures = n, !.circuit = "open", !.cooled = FALSE, !.probe = FALSE]
          ELSE [s EXCEPT !.failures = n]

LeaveCall(s) == [s EXCEPT !.calls = @ - 1]

LeaveQueue(s) == [s EXCEPT !.waiting = Less(@)]

\* The wait for the permit outlasts the deadline: it counts as a failure.
PermitTimeout(w) ==
    /\ Working /\ Yielded
    /\ worker[w].at = "permit" /\ worker[w].job \in late
    /\ provider' = [provider EXCEPT ![worker[w].on] = Failed(LeaveQueue(@))]
    /\ EndJob(w, "error")

InCall(w) == Working /\ Yielded /\ worker[w].at = "call" /\ ~worker[w].cut

CallSucceeds(w) ==
    /\ InCall(w)
    /\ provider' = [provider EXCEPT ![worker[w].on] = Succeeded(LeaveCall(@))]
    /\ EndJob(w, "result")

\* Variant: one attempt too many.
FailoverOnceMore(w) ==
    LET me == worker[w] IN
    /\ InCall(w) /\ me.attempt < MaxAttempts
    /\ provider' = [provider EXCEPT ![me.on] = Failed(LeaveCall(@))]
    /\ worker' = [worker EXCEPT ![w] =
                    [me EXCEPT !.at = "try", !.attempt = @ + 1,
                               !.tried = IF Cardinality(@) >= Len(Order) THEN {} ELSE @]]
    /\ UNCHANGED <<future, late, queues, count, admission, phase>>

\* A transient error with attempts left: the next provider, in the same step of
\* the loop, and all of them again once each has been tried.
Failover(w) ==
    LET me == worker[w] IN
    /\ InCall(w) /\ me.attempt + 1 < MaxAttempts
    /\ provider' = [provider EXCEPT ![me.on] = Failed(LeaveCall(@))]
    /\ worker' = [worker EXCEPT ![w] =
                    [me EXCEPT !.at = "try", !.attempt = @ + 1,
                               !.tried = IF Cardinality(@) >= Len(Order) THEN {} ELSE @]]
    /\ UNCHANGED <<future, late, queues, count, admission, phase>>

\* A permanent error, a transient one with no attempt left, or the deadline.
CallFails(w) ==
    /\ InCall(w)
    /\ provider' = [provider EXCEPT ![worker[w].on] = Failed(LeaveCall(@))]
    /\ EndJob(w, "error")

\* The provider task was cancelled by the caller: CancelledError passes through
\* _execute() and _run_job() and ends the worker task after its finally block.
CutOff(w) ==
    /\ Working /\ Yielded
    /\ worker[w].at = "call" /\ worker[w].cut
    /\ provider' = [provider EXCEPT ![worker[w].on] = LeaveCall(@)]
    /\ future' = Resolved(future, worker[w].job, "error")
    /\ Finish(worker[w].job)
    /\ worker' = [worker EXCEPT ![w] = [Idle EXCEPT !.at = "gone"]]
    /\ UNCHANGED <<late, queues, phase>>

-----------------------------------------------------------------------------
(* Time. *)

DeadlinePasses(j) ==
    /\ future[j] # "none" /\ j \notin late /\ Yielded
    /\ late' = late \cup {j}
    /\ UNCHANGED <<future, queues, count, admission, provider, worker, phase>>

CooldownPasses(p) ==
    /\ provider[p].circuit = "open" /\ ~provider[p].cooled /\ Yielded
    /\ provider' = [provider EXCEPT ![p].cooled = TRUE]
    /\ UNCHANGED <<future, late, queues, count, admission, worker, phase>>

\* _prune_scope(): the oldest request of a scope is a minute old.
MinutePasses(s) ==
    /\ recent[s] > 0 /\ Yielded
    /\ recent' = [recent EXCEPT ![s] = @ - 1]
    /\ UNCHANGED <<caller, awaits, future, late, queues, count, inFlight, known, provider, worker,
                   phase, cancels>>

\* Variant: a record lives as long as the deadline of its job.
KeyExpiresWithDeadline(k) ==
    /\ known[k] # NoJob /\ known[k] \in late /\ Yielded
    /\ known' = [known EXCEPT ![k] = NoJob]
    /\ UNCHANGED <<caller, awaits, future, late, queues, count, inFlight, recent, provider, worker,
                   phase, cancels>>

\* _prune_idempotency(): a record lives four deadlines, longer than its job can
\* be in the hands of a worker.
KeyExpires(k) ==
    /\ known[k] # NoJob /\ known[k] \in late /\ Yielded
    /\ \A w \in Workers : worker[w].job # known[k]
    /\ known' = [known EXCEPT ![k] = NoJob]
    /\ UNCHANGED <<caller, awaits, future, late, queues, count, inFlight, recent, provider, worker,
                   phase, cancels>>

-----------------------------------------------------------------------------
(* close() *)

Close ==
    /\ phase = "open" /\ Yielded
    /\ phase' = "closing"
    /\ UNCHANGED <<future, late, queues, count, admission, provider, worker>>

Queued == {dispatch[i] : i \in 1 .. Len(dispatch)} \cup {backlog[i] : i \in 1 .. Len(backlog)}

\* Both queues are joined within the grace period.
Drained ==
    /\ phase = "closing" /\ Yielded /\ Queued = {} /\ Busy = {}
    /\ phase' = "stopping"
    /\ UNCHANGED <<future, late, queues, count, admission, provider, worker>>

\* Variant: only the dispatch queue is emptied.
GraceOverForgetsBacklog ==
    /\ phase = "closing" /\ Yielded
    /\ future' = [j \in Requests |->
                    IF j \in {dispatch[i] : i \in 1 .. Len(dispatch)} /\ Pending(j) THEN "error" ELSE future[j]]
    /\ dispatch' = <<>> /\ phase' = "stopping"
    /\ UNCHANGED <<late, backlog, available, count, admission, provider, worker>>

\* _fail_queued_jobs(): every queued job fails and leaves the counts, the one of
\* the active jobs too.
GraceOver ==
    /\ phase = "closing" /\ Yielded
    /\ future' = [j \in Requests |-> IF j \in Queued /\ Pending(j) THEN "error" ELSE future[j]]
    /\ LET n == Len(dispatch) + Len(backlog)
           minus(a) == IF a < n THEN 0 ELSE a - n
       IN  count' = [accepted |-> minus(count.accepted), active |-> minus(count.active), reserved |-> 0]
    /\ inFlight' = [s \in Scopes |-> inFlight[s] - Cardinality({j \in Queued : ScopeOf[j] = s})]
    /\ dispatch' = <<>> /\ backlog' = <<>>
    /\ phase' = "stopping"
    /\ UNCHANGED <<caller, awaits, late, available, recent, known, provider, worker, cancels>>

\* The cancelled worker leaves its await; a job in its hands fails.  The finally
\* block of _worker_loop() reads outcome_success, which this job has not set: a
\* worker that has completed no job raises there and never calls _finish_job().
StopWorker(w) ==
    LET me == worker[w] IN
    /\ phase = "stopping" /\ me.at # "gone"
    /\ worker' = [worker EXCEPT ![w] = [Idle EXCEPT !.at = "gone"]]
    /\ IF me.job = NoJob THEN UNCHANGED <<future, count, admission, provider>>
       ELSE /\ future' = Resolved(future, me.job, "error")
            /\ Finish(me.job) \/ (future[me.job] # "cancelled" /\ UNCHANGED <<count, admission>>)
            /\ provider' = [provider EXCEPT ![me.on] = IF me.at = "call" THEN LeaveCall(@) ELSE LeaveQueue(@)]
    /\ UNCHANGED <<late, queues, phase>>

Closed ==
    /\ phase = "stopping" /\ \A w \in Workers : worker[w].at = "gone"
    /\ phase' = "closed"
    /\ UNCHANGED <<future, late, queues, count, admission, provider, worker>>

-----------------------------------------------------------------------------

WorkerStep(w) ==
    \/ TakeDispatch(w) \/ TakeBacklog(w) \/ Rest(w) \/ TryProvider(w) \/ GiveUp(w)
    \/ Permit(w) \/ PermitTimeout(w) \/ CutOff(w) \/ StopWorker(w)

CallEnds(w) == CallSucceeds(w) \/ Failover(w) \/ CallFails(w)

Next ==
    \/ \E r \in Requests : Transcribe(r) \/ Cancel(r) \/ DeadlinePasses(r)
    \/ \E w \in Workers : WorkerStep(w) \/ CallEnds(w)
    \/ \E p \in Providers : CooldownPasses(p)
    \/ \E s \in Scopes : MinutePasses(s)
    \/ \E k \in Scopes \X Keys : KeyExpires(k)
    \/ Close \/ Drained \/ GraceOver \/ Closed

Spec == Init /\ [][Next]_vars

\* The event loop runs every task that can go on, deadlines pass, a call ends by
\* its timeout at the latest, and a close() that began goes on.  Nobody has to
\* call, to cancel or to close.
Fairness ==
    /\ \A w \in Workers : WF_vars(WorkerStep(w)) /\ WF_vars(CallEnds(w))
    /\ \A r \in Requests : WF_vars(DeadlinePasses(r))
    /\ WF_vars(Drained \/ GraceOver \/ Closed)

FairSpec == Spec /\ Fairness

-----------------------------------------------------------------------------
(* Properties. *)

Ends == {"none", "pending", "result", "error", "cancelled"}

TypeOK ==
    /\ caller \in [Requests -> {"new", "waiting", "refused", "overflow", "cancelled"}]
    /\ awaits \in [Requests -> Requests \cup {NoJob}]
    /\ future \in [Requests -> Ends]
    /\ late \subseteq Requests
    /\ dispatch \in Seq(Requests) /\ backlog \in Seq(Requests) /\ available \in BOOLEAN
    /\ count \in [accepted : Nat, active : Nat, reserved : Nat]
    /\ inFlight \in [Scopes -> Nat] /\ recent \in [Scopes -> Nat]
    /\ known \in [Scopes \X Keys -> Requests \cup {NoJob}]
    /\ provider \in [Providers -> [circuit : {"closed", "open", "half_open"}, failures : 0 .. Threshold,
                                   cooled : BOOLEAN, probe : BOOLEAN, calls : Nat, waiting : Nat]]
    /\ worker \in [Workers -> [at : {"idle", "next", "try", "permit", "call", "gone"},
                               job : Requests \cup {NoJob}, on : Providers, tried : SUBSET Providers,
                               attempt : 0 .. MaxAttempts - 1, cut : BOOLEAN]]
    /\ phase \in {"open", "closing", "stopping", "closed"}
    /\ cancels \in 0 .. MaxCancels

\* No path through admission, failover, timeout, cancellation or the end of a
\* worker leaks a place: every counter that admits or selects equals the jobs it
\* stands for (_accepted_count, _active_jobs, _dispatch_reserved, the in_flight
\* of scopes and the in_flight and waiting of providers).
CountsAreExact ==
    Working =>
      /\ count.accepted = Cardinality(Queued) + Cardinality(Busy)
      /\ count.active = Cardinality(Busy)
      /\ count.reserved = Len(dispatch)
      /\ \A s \in Scopes :
           inFlight[s] = Cardinality({j \in Queued \cup {worker[w].job : w \in Busy} : ScopeOf[j] = s})
      /\ \A p \in Providers :
           /\ provider[p].calls = Cardinality({w \in Busy : worker[w].at = "call" /\ worker[w].on = p})
           /\ provider[p].waiting = Cardinality({w \in Busy : worker[w].at = "permit" /\ worker[w].on = p})

\* A job that passes the capacity test finds room in the queue it is put into,
\* although jobs end, workers die and bursts arrive in any order.
AdmittedJobFits == \A r \in Requests : caller[r] # "overflow"

\* Two workers never transcribe for the same idempotency key of a scope at the
\* same time (_reuse_idempotent_job() and the life of its records).
OneCallPerKey ==
    \A v, w \in Busy :
        v # w /\ {worker[v].at, worker[w].at} = {"call"} /\ KeyOf[worker[v].job] # NoKey
        => Slot(worker[v].job) # Slot(worker[w].job)

\* When close() returns, no call is left waiting and no provider is left busy.
CloseLeavesNobody ==
    phase = "closed" =>
      /\ \A r \in Requests : ~Pending(r)
      /\ \A p \in Providers : provider[p].calls = 0 /\ provider[p].waiting = 0

\* Admission, failover, timeouts, cancellation and the end of workers leak no place of the
\* scheduler, a job that was admitted has room, two workers never transcribe for one key, and
\* close() leaves no caller waiting.
SpeechIsExact == CountsAreExact /\ AdmittedJobFits /\ OneCallPerKey /\ CloseLeavesNobody

NobodyWaits == (\A r \in Requests : ~Pending(r)) \/ (\A w \in Workers : worker[w].at = "gone")

\* Every admitted job ends, in a result or in an error, unless every worker task
\* has come to its end: again and again no caller is left waiting for a job.
JobEnds == []<>NobodyWaits

\* Contract A4 of docs/0.3/ASR_SCHEDULER_CONTRACT.md: an admitted caller never
\* waits without bound.
NoUnboundedWait == \A r \in Requests : Pending(r) ~> ~Pending(r)

=============================================================================
