----------------------------- MODULE AgentTask -----------------------------
(***************************************************************************)
(* One Agent task, from the grant to its end, with its durable cancel      *)
(* command (backend/app/agents/service.py and agents/command_outbox.py).   *)
(*                                                                         *)
(* The row of agent_tasks, the row of its workflow run and the row of      *)
(* agent_command_outbox change in single BEGIN IMMEDIATE transactions; the *)
(* calls to the runner happen between them.  Three fenced leases keep      *)
(* processes apart: agent_submit, agent_command and agent_task (the event  *)
(* bridge).  A context runs each of the three flows at most once at a      *)
(* time, so the context named in a lease row identifies the fence; a row   *)
(* whose term ended, or whose holder is gone, names nobody alive.          *)
(*                                                                         *)
(* The runner is external.  It answers the replay of an operation key as   *)
(* the first time, its answers may be lost, and it ends by its deadline.   *)
(***************************************************************************)
EXTENDS Naturals, WorkflowStates

CONSTANTS
    Contexts,    \* execution contexts of the backend processes
    Free,        \* a lease row without a live term
    Gone,        \* the holder of a live term whose process died
    Prompts,     \* whether the task is created before a grant exists: TRUE, FALSE or either
    MaxAttempts, \* agent_cancel_command_max_attempts
    MaxReports,  \* bound: progress events of the runner
    MaxAsks,     \* bound: calls of cancel_task()
    MaxFaults    \* bound: lost answers, rejected submits, ended terms, crashes

ASSUME AgentAssumption ==
    /\ Free \notin Contexts /\ Gone \notin Contexts /\ Free # Gone
    /\ Prompts \subseteq BOOLEAN
    /\ MaxAttempts \in Nat \ {0} /\ MaxReports \in Nat /\ MaxAsks \in Nat /\ MaxFaults \in Nat

VARIABLES
    task,       \* agent_tasks: state, whether runner_task_id and bridge_completed_at are set
    run,        \* state of the linked workflow run
    command,    \* the cancel row of agent_command_outbox
    lease,      \* holder per resource kind
    submit,     \* where resume_with_grant() of each context stands
    cancel,     \* where _execute_cancel_command() stands, with the row it was given
    bridge,     \* where _run_bridge() of each context stands
    prompt,     \* task.permission_required is still to be recorded
    projecting, \* a task event "running" waits for its workflow projection
    runner,     \* the runner: its state, frames not yet read, frames sent
    told,       \* the runner was sent a cancel
    refusals,   \* cancels the runner refused since the command was last reset
    asks, faults

vars == <<task, run, command, lease, submit, cancel, bridge, prompt, projecting, runner, told,
          refusals, asks, faults>>

Kinds == {"agent_submit", "agent_command", "agent_task"}

AgentStates == RunStates \cup {"waiting_permission"}

SubmitPcs == {"idle", "leased", "accepted", "rejected", "queued"}

CancelPcs == {"idle", "listed", "leased", "calling", "confirmed", "refused", "giving_up"}

RunnerStates == {"none", "working", "succeeded", "failed", "timeout", "cancelled"}

Tasks == [state : AgentStates, runner : BOOLEAN, bridged : BOOLEAN]

Commands == [status : {"none", "open", "done"}, attempts : Nat, force : BOOLEAN, runner : BOOLEAN,
             outcome : {"none", "cancelled", "cancel_failed", "terminal_won"}]

CancelFlows == [pc : CancelPcs, force : BOOLEAN, runner : BOOLEAN]

Runners == [state : RunnerStates, frames : Nat, sent : Nat]

Leases == [Kinds -> Contexts \cup {Free, Gone}]

TypeOK ==
    /\ task \in Tasks
    /\ run \in RunStates
    /\ command \in Commands
    /\ lease \in Leases
    /\ submit \in [Contexts -> SubmitPcs]
    /\ cancel \in [Contexts -> CancelFlows]
    /\ bridge \in [Contexts -> {"idle", "checking", "streaming"}]
    /\ prompt \in BOOLEAN /\ projecting \in BOOLEAN /\ told \in BOOLEAN
    /\ runner \in Runners
    /\ refusals \in Nat /\ asks \in Nat /\ faults \in Nat

NoCancel == [pc |-> "idle", force |-> FALSE, runner |-> FALSE]

\* submit_task() without a grant creates the task waiting for one and then
\* records the prompt; with a grant it creates the task pending.
Init ==
    /\ prompt \in Prompts
    /\ task = [state |-> IF prompt THEN "waiting_permission" ELSE "pending", runner |-> FALSE,
               bridged |-> FALSE]
    /\ run = "pending"
    /\ command = [status |-> "none", attempts |-> 0, force |-> FALSE, runner |-> FALSE,
                  outcome |-> "none"]
    /\ lease = [k \in Kinds |-> Free]
    /\ submit = [p \in Contexts |-> "idle"]
    /\ cancel = [p \in Contexts |-> NoCancel]
    /\ bridge = [p \in Contexts |-> "idle"]
    /\ projecting = FALSE /\ told = FALSE
    /\ runner = [state |-> "none", frames |-> 0, sent |-> 0]
    /\ refusals = 0 /\ asks = 0 /\ faults = 0

-----------------------------------------------------------------------------

Fault == faults < MaxFaults /\ faults' = faults + 1

Ended == task.state \in TerminalStates

\* Variant: the fence is not checked.
OwnedIgnored(p, k) == p \in Contexts

\* assert_owned(): the term is this context's and has not ended.
Owned(p, k) == lease[k] = p

\* release() matches a live term of this context only.
Released(p, k) == [lease EXCEPT ![k] = IF @ = p THEN Free ELSE @]

\* Variant: a late event may overwrite a terminal task.
StoredAsSent(s) == s

\* record_task_event(): a terminal task keeps its state (task.terminal_ignored).
Stored(s) == IF Ended THEN task.state ELSE s

\* Variant: the run takes over whatever state the Agent row is given.
ArbitratedAgentState(s) == IF run \in TerminalStates THEN run ELSE s

\* settle_agent_terminal_in_transaction() and request_cancel_in_transaction(): the run's
\* state after the transaction; a terminal run stays as it is.
Arbitrated(s) ==
    CASE s \in TerminalStates -> IF run \in TerminalStates THEN run ELSE s
      [] s = "cancel_requested" -> s
      [] OTHER -> run

\* The transition is legal, through the intermediate state the code writes first.
Legal(s) ==
    LET via == CASE s = "succeeded" /\ run = "pending" -> "running"
                 [] s \in {"cancelled", "cancel_failed"} -> "cancel_requested"
                 [] OTHER -> run
    IN  /\ s \in TerminalStates /\ run \notin TerminalStates =>
             /\ s \in LegalTransitions(via)
             /\ via = run \/ via \in LegalTransitions(run)
        /\ s = "cancel_requested" => run = s \/ s \in LegalTransitions(run)

\* record_task_event(), one transaction; the agent row follows the run's terminal.
Record(s) ==
    LET e == Stored(s)
    IN  /\ Legal(e)
        /\ run' = Arbitrated(e)
        /\ task' = [task EXCEPT !.state = IF e \in TerminalStates THEN run' ELSE e]

\* Variant: the outcome is the one that was asked for.
OutcomeAsAsked(s) == IF s = "cancel_failed" THEN s ELSE "cancelled"

OutcomeOf(s) == IF s \in {"cancelled", "cancel_failed"} THEN s ELSE "terminal_won"

\* mark_completed_in_transaction(): changes an open row only.
Completed(outcome) ==
    IF command.status # "open" THEN command
    ELSE [command EXCEPT !.status = "done", !.outcome = outcome, !.force = FALSE]

-----------------------------------------------------------------------------
(* Submitting: resume_with_grant(). *)

\* _record_permission_required_event(), after the task was created.
RecordPrompt ==
    /\ prompt /\ prompt' = FALSE
    /\ Record("waiting_permission")
    /\ UNCHANGED <<command, lease, submit, cancel, bridge, projecting, runner, told, refusals,
                   asks, faults>>

\* The first reads and the acquisition of the agent_submit lease.
StartSubmit(p) ==
    /\ submit[p] = "idle"
    /\ task.state \in {"waiting_permission", "pending"} /\ ~task.runner
    /\ lease["agent_submit"] = Free
    /\ lease' = [lease EXCEPT !["agent_submit"] = p]
    /\ submit' = [submit EXCEPT ![p] = "leased"]
    /\ UNCHANGED <<task, run, command, cancel, bridge, prompt, projecting, runner, told, refusals,
                   asks, faults>>

\* The task is read again under the lease; unless it moved on, backend.submit() is called.
\* A rejection may follow a lost connection, hence after the runner has started.
SendSubmit(p) ==
    /\ submit[p] = "leased"
    /\ \/ /\ task.state \notin {"waiting_permission", "pending"} \/ task.runner
          /\ submit' = [submit EXCEPT ![p] = "idle"]
          /\ lease' = Released(p, "agent_submit")
          /\ UNCHANGED <<runner, faults>>
       \/ /\ task.state \in {"waiting_permission", "pending"} /\ ~task.runner
          /\ \/ /\ runner' = [runner EXCEPT !.state = IF @ = "none" THEN "working" ELSE @]
                /\ \/ submit' = [submit EXCEPT ![p] = "accepted"] /\ UNCHANGED <<lease, faults>>
                   \/ submit' = [submit EXCEPT ![p] = "rejected"] /\ Fault /\ UNCHANGED lease
                   \/ /\ submit' = [submit EXCEPT ![p] = "idle"] \* TimeoutError leaves the task pending
                      /\ lease' = Released(p, "agent_submit")
                      /\ Fault
             \/ /\ submit' = [submit EXCEPT ![p] = "rejected"]
                /\ Fault
                /\ UNCHANGED <<runner, lease>>
    /\ UNCHANGED <<task, run, command, cancel, bridge, prompt, projecting, told, refusals, asks>>

\* A rejected submit is recorded as task.failed under the submit lease.
RecordRejected(p) ==
    /\ submit[p] = "rejected"
    /\ submit' = [submit EXCEPT ![p] = "idle"]
    /\ lease' = Released(p, "agent_submit")
    /\ IF Owned(p, "agent_submit") /\ ~Ended THEN Record("failed") ELSE UNCHANGED <<task, run>>
    /\ UNCHANGED <<command, cancel, bridge, prompt, projecting, runner, told, refusals, asks, faults>>

\* Variant: the runner id is bound whatever became of the task meanwhile.
BindAnyway(p) ==
    /\ submit[p] = "accepted"
    /\ task' = [task EXCEPT !.state = "pending", !.runner = TRUE]
    /\ submit' = [submit EXCEPT ![p] = "queued"]
    /\ lease' = Released(p, "agent_submit")
    /\ UNCHANGED <<run, command, cancel, bridge, prompt, projecting, runner, told, refusals, asks,
                   faults>>

\* The transaction that binds the runner id: a compare-and-set on an unbound task, else the id
\* is added to the row and an open cancel command is reset and forced to the runner.
BindRunner(p) ==
    /\ submit[p] = "accepted"
    /\ lease' = Released(p, "agent_submit")
    /\ \/ /\ ~Owned(p, "agent_submit")
          /\ submit' = [submit EXCEPT ![p] = "idle"]
          /\ UNCHANGED <<task, command, refusals>>
       \/ /\ Owned(p, "agent_submit")
          /\ task.state \in {"waiting_permission", "pending"} /\ ~task.runner
          /\ task' = [task EXCEPT !.state = "pending", !.runner = TRUE]
          /\ submit' = [submit EXCEPT ![p] = "queued"]
          /\ UNCHANGED <<command, refusals>>
       \/ /\ Owned(p, "agent_submit")
          /\ task.state \notin {"waiting_permission", "pending"} \/ task.runner
          /\ task' = [task EXCEPT !.runner = TRUE]
          /\ submit' = [submit EXCEPT ![p] = "idle"]
          /\ IF command.status = "open"
             THEN /\ command' = [command EXCEPT !.runner = TRUE, !.attempts = 0, !.force = TRUE]
                  /\ refusals' = 0
             ELSE UNCHANGED <<command, refusals>>
    /\ UNCHANGED <<run, cancel, bridge, prompt, projecting, runner, told, asks, faults>>

\* The event task.queued of a submit that bound the runner id.
RecordQueued(p) ==
    /\ submit[p] = "queued"
    /\ submit' = [submit EXCEPT ![p] = "idle"]
    /\ Record("pending")
    /\ UNCHANGED <<command, lease, cancel, bridge, prompt, projecting, runner, told, refusals,
                   asks, faults>>

-----------------------------------------------------------------------------
(* Cancelling: cancel_task() and the recovery loop run _execute_cancel_command(). *)

\* enqueue_cancel_in_transaction(): one row per task, a completed one stays completed.
Enqueued ==
    CASE command.status = "none" -> [command EXCEPT !.status = "open", !.runner = task.runner]
      [] command.status = "open" -> [command EXCEPT !.runner = @ \/ task.runner]
      [] OTHER -> command

\* cancel_task(): state, run and command in the transaction of task.cancel_requested.
RequestCancel ==
    /\ asks < MaxAsks /\ asks' = asks + 1
    /\ ~Ended
    /\ Record("cancel_requested")
    /\ command' = Enqueued
    /\ UNCHANGED <<lease, submit, cancel, bridge, prompt, projecting, runner, told, refusals, faults>>

\* list_due(): the row as it is now; retry delays are left to chance.
ListDue(p) ==
    /\ cancel[p].pc = "idle" /\ command.status = "open"
    /\ cancel' = [cancel EXCEPT ![p] = [pc |-> "listed", force |-> command.force,
                                        runner |-> command.runner]]
    /\ UNCHANGED <<task, run, command, lease, submit, bridge, prompt, projecting, runner, told,
                   refusals, asks, faults>>

TakeCommand(p) ==
    /\ cancel[p].pc = "listed" /\ lease["agent_command"] = Free
    /\ lease' = [lease EXCEPT !["agent_command"] = p]
    /\ cancel' = [cancel EXCEPT ![p].pc = "leased"]
    /\ UNCHANGED <<task, run, command, submit, bridge, prompt, projecting, runner, told, refusals,
                   asks, faults>>

SkipCommand(p) ==
    /\ cancel[p].pc = "listed" /\ lease["agent_command"] # Free
    /\ cancel' = [cancel EXCEPT ![p] = NoCancel]
    /\ UNCHANGED <<task, run, command, lease, submit, bridge, prompt, projecting, runner, told,
                   refusals, asks, faults>>

\* Variant: a command whose task has ended is refused like any other without a request.
ReadTaskUnended(p) ==
    /\ cancel[p].pc = "leased"
    /\ IF task.state # "cancel_requested" /\ ~cancel[p].force
       THEN /\ cancel' = [cancel EXCEPT ![p] = NoCancel]
            /\ lease' = Released(p, "agent_command")
       ELSE /\ cancel' = [cancel EXCEPT ![p].pc = IF @ = "leased" /\ (cancel[p].runner \/ task.runner)
                                                  THEN "calling" ELSE "confirmed"]
            /\ UNCHANGED lease
    /\ UNCHANGED <<task, run, command, submit, bridge, prompt, projecting, runner, told, refusals,
                   asks, faults>>

\* Under the lease: an ended task completes the command; a task that is not in
\* cancel_requested raises; without a runner id there is nobody to call.
ReadTask(p) ==
    /\ cancel[p].pc = "leased"
    /\ \/ /\ Ended /\ ~cancel[p].force
          /\ command' = IF Owned(p, "agent_command") THEN Completed(OutcomeOf(task.state)) ELSE command
          /\ cancel' = [cancel EXCEPT ![p] = NoCancel]
          /\ lease' = Released(p, "agent_command")
       \/ /\ ~Ended /\ task.state # "cancel_requested" /\ ~cancel[p].force
          /\ cancel' = [cancel EXCEPT ![p] = NoCancel]
          /\ lease' = Released(p, "agent_command")
          /\ UNCHANGED command
       \/ /\ task.state = "cancel_requested" \/ cancel[p].force
          /\ cancel' = [cancel EXCEPT ![p].pc =
                            IF cancel[p].runner \/ task.runner THEN "calling" ELSE "confirmed"]
          /\ UNCHANGED <<command, lease>>
    /\ UNCHANGED <<task, run, submit, bridge, prompt, projecting, runner, told, refusals, asks, faults>>

\* backend.cancel(): confirmed, or refused; a lost answer counts as a refusal.
CallRunner(p) ==
    LET stopped == [runner EXCEPT !.state = IF @ = "working" THEN "cancelled" ELSE @]
    IN  /\ cancel[p].pc = "calling"
        /\ told' = TRUE
        /\ \/ /\ runner' = stopped
              /\ cancel' = [cancel EXCEPT ![p].pc = "confirmed"]
              /\ UNCHANGED refusals
           \/ /\ runner' \in {runner, stopped}
              /\ cancel' = [cancel EXCEPT ![p].pc = "refused"]
              /\ refusals' = refusals + 1
        /\ UNCHANGED <<task, run, command, lease, submit, bridge, prompt, projecting, asks, faults>>

\* The runner confirmed: task.cancelled is recorded and the command completed in one fenced
\* transaction, which a task that ended meanwhile turns into its own outcome; the
\* context's bridge is stopped.
RecordCancelled(p) ==
    LET free == Released(p, "agent_command")
        stop == Owned(p, "agent_command") /\ task'.state = "cancelled"
    IN  /\ cancel[p].pc = "confirmed"
        /\ IF Owned(p, "agent_command") /\ command.status = "open"
           THEN /\ Record("cancelled")
                /\ command' = Completed(OutcomeOf(task'.state))
           ELSE UNCHANGED <<task, run, command>>
        /\ bridge' = [bridge EXCEPT ![p] = IF stop THEN "idle" ELSE @]
        /\ lease' = [free EXCEPT !["agent_task"] = IF stop /\ @ = p THEN Free ELSE @]
        /\ cancel' = [cancel EXCEPT ![p] = NoCancel]
        /\ UNCHANGED <<submit, prompt, projecting, runner, told, refusals, asks, faults>>

\* Variant: the last attempt is not made.
SpentEarly(attempts) == attempts + 1 >= MaxAttempts

Spent(attempts) == attempts >= MaxAttempts

\* _defer_cancel_command(): mark_retry() counts the attempt.
Defer(p) ==
    LET counted == IF command.status = "open" THEN [command EXCEPT !.attempts = @ + 1] ELSE command
        owned == Owned(p, "agent_command")
        spent == owned /\ Spent(counted.attempts)
    IN  /\ cancel[p].pc = "refused"
        /\ command' = IF owned THEN counted ELSE command
        /\ cancel' = [cancel EXCEPT ![p] = IF spent
                                           THEN [@ EXCEPT !.pc = "giving_up", !.force = counted.force]
                                           ELSE NoCancel]
        /\ lease' = IF spent THEN lease ELSE Released(p, "agent_command")
        /\ UNCHANGED <<task, run, submit, bridge, prompt, projecting, runner, told, refusals, asks,
                       faults>>

\* The rest of _defer_cancel_command() once the attempts are spent.
GiveUp(p) ==
    /\ cancel[p].pc = "giving_up"
    /\ IF Owned(p, "agent_command") /\ command.status = "open"
       THEN /\ IF Ended THEN UNCHANGED <<task, run>> ELSE Record("cancel_failed")
            /\ command' = Completed(IF Ended /\ cancel[p].force THEN "cancel_failed"
                                    ELSE OutcomeOf(task'.state))
       ELSE UNCHANGED <<task, run, command>>
    /\ cancel' = [cancel EXCEPT ![p] = NoCancel]
    /\ lease' = Released(p, "agent_command")
    /\ UNCHANGED <<submit, bridge, prompt, projecting, runner, told, refusals, asks, faults>>

-----------------------------------------------------------------------------
(* The bridge: _run_bridge() records what the runner reports. *)

StartBridge(p) ==
    /\ bridge[p] = "idle" /\ task.runner /\ ~task.bridged /\ task.state # "waiting_permission"
    /\ lease["agent_task"] = Free
    /\ lease' = [lease EXCEPT !["agent_task"] = p]
    /\ bridge' = [bridge EXCEPT ![p] = "checking"]
    /\ UNCHANGED <<task, run, command, submit, cancel, prompt, projecting, runner, told, refusals,
                   asks, faults>>

\* The runner's end, from the stream or from a snapshot; _mark_bridge_completed() waits until
\* every event is projected.
RecordEnd(p) ==
    /\ bridge' = [bridge EXCEPT ![p] = "idle"]
    /\ lease' = Released(p, "agent_task")
    /\ IF Owned(p, "agent_task")
       THEN LET e == Stored(runner.state)
            IN  /\ Legal(e)
                /\ run' = Arbitrated(e)
                /\ task' = [task EXCEPT !.state = run', !.bridged = ~projecting]
       ELSE UNCHANGED <<task, run>>
    /\ UNCHANGED <<command, submit, cancel, prompt, projecting, runner, told, refusals, asks, faults>>

\* _reconcile_runner_http_state() at the start of the bridge.
CheckSnapshot(p) ==
    /\ bridge[p] = "checking"
    /\ \/ runner.state \in TerminalStates /\ RecordEnd(p)
       \/ /\ runner.state \notin TerminalStates
          /\ bridge' = [bridge EXCEPT ![p] = "streaming"]
          /\ UNCHANGED <<task, run, command, lease, submit, cancel, prompt, projecting, runner, told,
                         refusals, asks, faults>>

StreamFrame(p) ==
    /\ bridge[p] = "streaming" /\ runner.frames > 0
    /\ runner' = [runner EXCEPT !.frames = @ - 1]
    /\ IF Owned(p, "agent_task")
       THEN /\ Record("running")
            /\ projecting' = (projecting \/ ~Ended)
            /\ UNCHANGED <<lease, bridge>>
       ELSE /\ bridge' = [bridge EXCEPT ![p] = "idle"]
            /\ lease' = Released(p, "agent_task")
            /\ UNCHANGED <<task, run, projecting>>
    /\ UNCHANGED <<command, submit, cancel, prompt, told, refusals, asks, faults>>

StreamEnd(p) ==
    /\ bridge[p] = "streaming" /\ runner.frames = 0 /\ runner.state \in TerminalStates
    /\ RecordEnd(p)

\* _heartbeat_bridge_lease() found the term lost and ends the bridge.
LoseBridge(p) ==
    /\ bridge[p] # "idle" /\ ~Owned(p, "agent_task")
    /\ bridge' = [bridge EXCEPT ![p] = "idle"]
    /\ UNCHANGED <<task, run, command, lease, submit, cancel, prompt, projecting, runner, told,
                   refusals, asks, faults>>

\* _project_workflow_event() for a state "running": only a pending run is started.
Project ==
    /\ projecting /\ projecting' = FALSE
    /\ run' = IF run = "pending" THEN "running" ELSE run
    /\ UNCHANGED <<task, command, lease, submit, cancel, bridge, prompt, runner, told, refusals,
                   asks, faults>>

-----------------------------------------------------------------------------
(* The runner, the clock and crashes. *)

Report ==
    /\ runner.state = "working" /\ runner.sent < MaxReports
    /\ runner' = [runner EXCEPT !.frames = @ + 1, !.sent = @ + 1]
    /\ UNCHANGED <<task, run, command, lease, submit, cancel, bridge, prompt, projecting, told,
                   refusals, asks, faults>>

Finish ==
    /\ runner.state = "working"
    /\ \E s \in {"succeeded", "failed", "timeout"} : runner' = [runner EXCEPT !.state = s]
    /\ UNCHANGED <<task, run, command, lease, submit, cancel, bridge, prompt, projecting, told,
                   refusals, asks, faults>>

\* A term ends under its holder: a late heartbeat, or a call longer than the term.
Overrun(k) ==
    /\ lease[k] \in Contexts
    /\ lease' = [lease EXCEPT ![k] = Free]
    /\ Fault
    /\ UNCHANGED <<task, run, command, submit, cancel, bridge, prompt, projecting, runner, told,
                   refusals, asks>>

\* The term of a dead holder ends.
Expire(k) ==
    /\ lease[k] = Gone
    /\ lease' = [lease EXCEPT ![k] = Free]
    /\ UNCHANGED <<task, run, command, submit, cancel, bridge, prompt, projecting, runner, told,
                   refusals, asks, faults>>

\* A process dies and is replaced; what it held in memory, unread frames included, is lost.
Crash(p) ==
    /\ submit[p] # "idle" \/ cancel[p].pc # "idle" \/ bridge[p] # "idle"
    /\ Fault
    /\ submit' = [submit EXCEPT ![p] = "idle"]
    /\ cancel' = [cancel EXCEPT ![p] = NoCancel]
    /\ bridge' = [bridge EXCEPT ![p] = "idle"]
    /\ lease' = [k \in Kinds |-> IF lease[k] = p THEN Gone ELSE lease[k]]
    /\ runner' = [runner EXCEPT !.frames = 0]
    /\ UNCHANGED <<task, run, command, prompt, projecting, told, refusals, asks>>

SubmitStep(p) == SendSubmit(p) \/ RecordRejected(p) \/ BindRunner(p) \/ RecordQueued(p)

CancelStep(p) ==
    \/ ListDue(p) \/ SkipCommand(p) \/ ReadTask(p)
    \/ CallRunner(p) \/ RecordCancelled(p) \/ Defer(p) \/ GiveUp(p)

BridgeStep(p) == CheckSnapshot(p) \/ StreamFrame(p) \/ StreamEnd(p) \/ LoseBridge(p)

Next ==
    \/ RecordPrompt \/ RequestCancel \/ Project \/ Report \/ Finish
    \/ \E p \in Contexts :
          StartSubmit(p) \/ SubmitStep(p) \/ TakeCommand(p) \/ CancelStep(p)
             \/ StartBridge(p) \/ BridgeStep(p) \/ Crash(p)
    \/ \E k \in Kinds : Overrun(k) \/ Expire(k)

Spec == Init /\ [][Next]_vars

\* The recovery loop of a live process runs again and again, so a command or a bridge whose lease
\* is free often enough is taken; calls return by their timeouts; the runner ends by the
\* deadline it was given; terms end.  Nobody has to grant, ask or resubmit.
FairSpec ==
    /\ Spec
    /\ WF_vars(Project) /\ WF_vars(Finish)
    /\ \A p \in Contexts :
          /\ WF_vars(SubmitStep(p)) /\ WF_vars(CancelStep(p)) /\ WF_vars(BridgeStep(p))
          /\ SF_vars(TakeCommand(p)) /\ SF_vars(StartBridge(p))
    /\ \A k \in Kinds : WF_vars(Expire(k))

-----------------------------------------------------------------------------
(* Properties *)

\* There is no window in which the Agent row and its workflow run show different ends:
\* whichever of a cancel, a runner's result and a failed submit commits first decides both
\* rows, and the losers converge on it (record_task_event with
\* settle_agent_terminal_in_transaction).
TerminalAgrees ==
    task.state \in TerminalStates \/ run \in TerminalStates => task.state = run

\* A task that ended stays as it ended, whatever arrives late: a submit's answer, its
\* task.queued event, the prompt, a progress frame, a result, a confirmed cancel.
TerminalIsFinal == [][Ended => task'.state = task.state]_vars

\* A completed cancel command tells what became of its task, also when the task ended during the
\* remote call; only a command forced to a late runner may report that the runner refused.
OutcomeMatchesTask ==
    command.status = "done" =>
        /\ command.outcome = "cancelled" => task.state = "cancelled"
        /\ command.outcome = "terminal_won" => task.state \in {"succeeded", "failed", "timeout"}
        /\ command.outcome = "cancel_failed" =>
               task.state = "cancel_failed" \/ (Ended /\ command.runner)

\* A task bound to a runner fails, succeeds or times out only as the runner did: the late
\* rejection of an overtaken submit does not end it (submit_lease_token of record_task_event).
BoundTaskEndsLikeRunner ==
    task.runner /\ task.state \in {"succeeded", "failed", "timeout"} => runner.state = task.state

\* The rows of a task tell one story of how it ended: the task and its run, the cancel command and
\* the task, and the task and its runner.
OutcomesAgree == TerminalAgrees /\ OutcomeMatchesTask /\ BoundTaskEndsLikeRunner

\* A cancel is given up only after the runner refused it MaxAttempts times since it was
\* last reset (_defer_cancel_command).
GivesUpWhenSpent == command.outcome = "cancel_failed" => refusals >= MaxAttempts

\* Every durable cancel command is completed in the end, across crashes, refusals, ended terms
\* and events that move the task out of cancel_requested.
CommandSettles == (command.status = "open") ~> (command.status = "done")

\* The assertion of _execute_cancel_command ("durable cancel command has no cancel_requested
\* task"): an open command that is not forced finds its task in cancel_requested or ended.
OpenCommandHasRequest ==
    command.status = "open" /\ ~command.force => Ended \/ task.state = "cancel_requested"

\* The contract for late runner ids: when a task cancelled without a runner gets one, the runner is
\* really sent the cancel.
LateRunnerIsCancelled ==
    (task.state = "cancelled" /\ task.runner /\ runner.state = "working") ~> told

=============================================================================
