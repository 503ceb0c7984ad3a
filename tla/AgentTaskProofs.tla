-------------------------- MODULE AgentTaskProofs --------------------------
(***************************************************************************)
(* The Agent task and its workflow run end together, once, and as the      *)
(* runner ended where one was bound, for any number of contexts, attempts, *)
(* requests, frames and faults.                                            *)
(*                                                                         *)
(* Terminal agreement is inductive by itself.  That a bound task ends like *)
(* its runner needs what the submit lease and the bridge guarantee, and    *)
(* that a completed command tells the truth needs that a forced command    *)
(* knows its runner.                                                       *)
(*                                                                         *)
(* The second part is about the session of the embedded runtime            *)
(* (SessionCheckpoints).                                                   *)
(***************************************************************************)
EXTENDS AgentTask, SequenceTheorems, TLAPS

RunnerEnds == {"succeeded", "failed", "timeout"}

\* A command is forced only together with the id of the late runner.
ForceKnowsRunner ==
    /\ command.status = "none" => ~command.runner
    /\ command.force => command.runner
    /\ \A p \in Contexts : cancel[p].force => command.runner

\* A runner id is known only of a runner that exists, and the bridge needs one; the holder of
\* the submit lease that has called the runner finds the task unbound and not ended like a
\* runner ends.
RunnerInv ==
    /\ task.runner => runner.state # "none"
    /\ \A p \in Contexts :
          /\ submit[p] = "accepted" => runner.state # "none"
          /\ bridge[p] # "idle" => task.runner
          /\ Owned(p, "agent_submit") /\ submit[p] \in {"accepted", "rejected"} => ~task.runner
          /\ Owned(p, "agent_submit") /\ submit[p] = "accepted" => task.state \notin RunnerEnds

\* A runner that nobody knows is not called, so a late runner id finds no attempt to forget.
UnknownIsUncalled ==
    ~task.runner =>
        /\ command.attempts = 0 /\ ~command.runner
        /\ \A p \in Contexts :
              ~cancel[p].runner /\ cancel[p].pc \notin {"calling", "refused", "giving_up"}

\* Every attempt that was counted stands for a refusal, and so does the one that the owner of the
\* command is about to count; whoever gives up has spent them all.
AttemptsAreRefusals ==
    /\ command.attempts <= refusals
    /\ \A p \in Contexts :
          /\ cancel[p].pc = "refused" /\ Owned(p, "agent_command") => command.attempts < refusals
          /\ cancel[p].pc = "giving_up" => command.attempts >= MaxAttempts
    /\ task.state = "cancel_failed" \/ command.outcome = "cancel_failed" =>
          command.attempts >= MaxAttempts

CountInv == UnknownIsUncalled /\ AttemptsAreRefusals

IInv ==
    TypeOK /\ TerminalAgrees /\ ForceKnowsRunner /\ OutcomeMatchesTask /\ RunnerInv
           /\ BoundTaskEndsLikeRunner /\ CountInv

\* A step keeps the end of a task that has one.
SameEnd == Ended => task'.state = task.state

Stay == TerminalAgrees /\ ForceKnowsRunner /\ OutcomeMatchesTask /\ RunnerInv /\ BoundTaskEndsLikeRunner

-----------------------------------------------------------------------------

\* What one transaction of record_task_event() does to the two rows.
LEMMA RecordFacts ==
    ASSUME TypeOK, TerminalAgrees, NEW s \in AgentStates, Record(s)
    PROVE  /\ task' \in Tasks
           /\ run' \in RunStates
           /\ task'.runner = task.runner
           /\ TerminalAgrees'
           /\ Ended => task'.state = task.state
           /\ ~Ended => task'.state = s
<1>1. CASE Ended
    BY <1>1 DEF Record, Stored, Arbitrated, TypeOK, Tasks, TerminalAgrees, Ended, AgentStates
<1>2. CASE ~Ended
    <2>1. run \notin TerminalStates
        BY <1>2 DEF TerminalAgrees, Ended
    <2>2. CASE s \in TerminalStates
        BY <1>2, <2>1, <2>2 DEF Record, Stored, Arbitrated, TypeOK, Tasks, TerminalAgrees, Ended,
           AgentStates, RunStates
    <2>3. CASE s = "cancel_requested"
        BY <1>2, <2>1, <2>3 DEF Record, Stored, Arbitrated, TypeOK, Tasks, TerminalAgrees, Ended,
           AgentStates, RunStates, ActiveStates, TerminalStates
    <2>4. CASE s \notin TerminalStates /\ s # "cancel_requested"
        BY <1>2, <2>1, <2>4 DEF Record, Stored, Arbitrated, TypeOK, Tasks, TerminalAgrees, Ended,
           AgentStates, RunStates
    <2> QED BY <2>2, <2>3, <2>4
<1> QED BY <1>1, <1>2

LEMMA InitInv == Init => IInv
<1> SUFFICES ASSUME Init PROVE IInv
    OBVIOUS
<1>1. TypeOK
    BY AgentAssumption DEF Init, NoCancel, TypeOK, Tasks, Commands, Leases, CancelFlows,
       Runners, AgentStates, RunStates, ActiveStates, Kinds, SubmitPcs, CancelPcs, RunnerStates
<1>2. Stay
    BY DEF Init, NoCancel, Stay, TerminalAgrees, ForceKnowsRunner, OutcomeMatchesTask, RunnerInv,
           BoundTaskEndsLikeRunner, TerminalStates
<1>3. CountInv
    BY AgentAssumption DEF Init, NoCancel, CountInv, UnknownIsUncalled, AttemptsAreRefusals, Owned
<1> QED BY <1>1, <1>2, <1>3 DEF IInv, Stay

-----------------------------------------------------------------------------
(* The rows an operation writes keep their types. *)

LEMMA ReleasedType ==
    ASSUME TypeOK, NEW p \in Contexts, NEW k \in Kinds
    PROVE  Released(p, k) \in Leases
BY DEF Released, TypeOK, Leases

LEMMA TakenType ==
    ASSUME TypeOK, NEW h \in Contexts \cup {Free, Gone}, NEW k \in Kinds
    PROVE  [lease EXCEPT ![k] = h] \in Leases
BY DEF TypeOK, Leases

LEMMA KindNames == "agent_submit" \in Kinds /\ "agent_command" \in Kinds /\ "agent_task" \in Kinds
BY DEF Kinds

LEMMA CompletedType ==
    ASSUME TypeOK, NEW o \in {"cancelled", "cancel_failed", "terminal_won"}
    PROVE  Completed(o) \in Commands
BY DEF Completed, TypeOK, Commands

LEMMA OutcomeType ==
    ASSUME NEW s
    PROVE  OutcomeOf(s) \in {"cancelled", "cancel_failed", "terminal_won"}
BY DEF OutcomeOf

LEMMA NoCancelType == NoCancel \in CancelFlows
BY DEF NoCancel, CancelFlows, CancelPcs

LEMMA CancelPcType ==
    ASSUME TypeOK, NEW p \in Contexts, NEW c \in CancelPcs
    PROVE  [cancel EXCEPT ![p].pc = c] \in [Contexts -> CancelFlows]
BY DEF TypeOK, CancelFlows

LEMMA RunnerStateType ==
    ASSUME TypeOK, NEW s \in RunnerStates
    PROVE  [runner EXCEPT !.state = s] \in Runners
BY DEF TypeOK, Runners

\* The runner's end is recorded like any other event.
LEMMA EndFacts ==
    ASSUME TypeOK, TerminalAgrees, NEW p \in Contexts, RecordEnd(p), runner.state \in TerminalStates
    PROVE  /\ task' \in Tasks
           /\ run' \in RunStates
           /\ task'.runner = task.runner
           /\ TerminalAgrees'
           /\ Ended => task'.state = task.state
           /\ ~Ended => task'.state \in {task.state, runner.state}
<1>1. CASE ~Owned(p, "agent_task")
    BY <1>1 DEF RecordEnd, TypeOK, TerminalAgrees, Ended
<1>2. CASE Owned(p, "agent_task") /\ Ended
    BY <1>2 DEF RecordEnd, Stored, Arbitrated, TypeOK, Tasks, TerminalAgrees, Ended, AgentStates
<1>3. CASE Owned(p, "agent_task") /\ ~Ended
    BY <1>3 DEF RecordEnd, Stored, Arbitrated, TypeOK, Tasks, TerminalAgrees, Ended, AgentStates,
                RunStates
<1> QED BY <1>1, <1>2, <1>3

-----------------------------------------------------------------------------

\* Type correctness, one step per action.
LEMMA TypeStep ==
    ASSUME TypeOK, TerminalAgrees, Next
    PROVE  TypeOK'
<1>a. \A s \in AgentStates : Record(s) => task' \in Tasks /\ run' \in RunStates
    BY RecordFacts
<1>b. \A s \in RunStates \cup {"waiting_permission"} : s \in AgentStates
    BY DEF AgentStates
<1>c. {"pending", "running", "cancel_requested", "failed", "cancelled", "cancel_failed"} \subseteq RunStates
    BY DEF RunStates, ActiveStates, TerminalStates
<1>d. \A p \in Contexts : runner.state \in TerminalStates /\ RecordEnd(p) => TypeOK'
    <2> SUFFICES ASSUME NEW p \in Contexts, runner.state \in TerminalStates, RecordEnd(p) PROVE TypeOK'
        OBVIOUS
    <2>1. task' \in Tasks /\ run' \in RunStates
        BY EndFacts
    <2>2. lease' \in Leases
        BY ReleasedType, KindNames DEF RecordEnd
    <2> QED BY <2>1, <2>2 DEF RecordEnd, TypeOK
<1>1. ASSUME RecordPrompt PROVE TypeOK'
    BY <1>1, <1>a, <1>b DEF RecordPrompt, TypeOK
<1>2. ASSUME RequestCancel PROVE TypeOK'
    <2>1. command' \in Commands
        BY <1>2 DEF RequestCancel, Enqueued, TypeOK, Commands, Tasks
    <2> QED BY <1>2, <2>1, <1>a, <1>b, <1>c DEF RequestCancel, TypeOK
<1>3. ASSUME Project PROVE TypeOK'
    BY <1>3, <1>c DEF Project, TypeOK
<1>4. ASSUME Report PROVE TypeOK'
    <2>1. runner.frames + 1 \in Nat /\ runner.sent + 1 \in Nat
        BY <1>4 DEF Report, TypeOK, Runners
    <2>2. runner' \in Runners
        BY <1>4, <2>1 DEF Report, TypeOK, Runners
    <2> QED BY <1>4, <2>1, <2>2 DEF Report, TypeOK
<1>5. ASSUME Finish PROVE TypeOK'
    <2>1. runner' \in Runners
        BY <1>5, RunnerStateType DEF Finish, RunnerStates
    <2> QED BY <1>5, <2>1 DEF Finish, TypeOK
<1>6. ASSUME NEW p \in Contexts, StartSubmit(p) PROVE TypeOK'
    <2>1. lease' \in Leases
        BY <1>6, TakenType, KindNames DEF StartSubmit
    <2> QED BY <1>6, <2>1 DEF StartSubmit, SubmitPcs, TypeOK
<1>7. ASSUME NEW p \in Contexts, SendSubmit(p) PROVE TypeOK'
    <2>1. lease' \in Leases
        BY <1>7, ReleasedType, KindNames DEF SendSubmit, TypeOK
    <2>2. runner' \in Runners
        BY <1>7 DEF SendSubmit, TypeOK, Runners, RunnerStates
    <2>3. faults' \in Nat
        BY <1>7 DEF SendSubmit, Fault, TypeOK
    <2>4. submit' \in [Contexts -> SubmitPcs]
        BY <1>7 DEF SendSubmit, SubmitPcs, TypeOK
    <2> QED BY <1>7, <2>1, <2>2, <2>3, <2>4 DEF SendSubmit, TypeOK
<1>8. ASSUME NEW p \in Contexts, RecordRejected(p) PROVE TypeOK'
    <2>1. lease' \in Leases
        BY <1>8, ReleasedType, KindNames DEF RecordRejected
    <2> QED BY <1>8, <2>1, <1>a, <1>b, <1>c DEF RecordRejected, SubmitPcs, TypeOK
<1>9. ASSUME NEW p \in Contexts, BindRunner(p) PROVE TypeOK'
    <2>1. lease' \in Leases
        BY <1>9, ReleasedType, KindNames DEF BindRunner
    <2>2. task' \in Tasks
        BY <1>9, <1>b, <1>c DEF BindRunner, TypeOK, Tasks
    <2>3. [command EXCEPT !.runner = TRUE, !.attempts = 0, !.force = TRUE] \in Commands
        BY <1>9 DEF BindRunner, TypeOK, Commands
    <2>4. command' \in Commands
        BY <1>9, <2>3 DEF BindRunner, TypeOK
    <2>5. refusals' \in Nat
        BY <1>9 DEF BindRunner, TypeOK
    <2>6. submit' \in [Contexts -> SubmitPcs]
        BY <1>9 DEF BindRunner, SubmitPcs, TypeOK
    <2> QED BY <1>9, <2>1, <2>2, <2>3, <2>4, <2>5, <2>6 DEF BindRunner, TypeOK
<1>10. ASSUME NEW p \in Contexts, RecordQueued(p) PROVE TypeOK'
    BY <1>10, <1>a, <1>b, <1>c DEF RecordQueued, TypeOK, SubmitPcs
<1>11. ASSUME NEW p \in Contexts, TakeCommand(p) PROVE TypeOK'
    <2>1. lease' \in Leases
        BY <1>11, TakenType, KindNames DEF TakeCommand
    <2>2. cancel' \in [Contexts -> CancelFlows]
        BY <1>11, CancelPcType DEF TakeCommand, CancelPcs
    <2> QED BY <1>11, <2>1, <2>2 DEF TakeCommand, TypeOK
<1>12. ASSUME NEW p \in Contexts, ListDue(p) PROVE TypeOK'
    <2>1. cancel' \in [Contexts -> CancelFlows]
        BY <1>12 DEF ListDue, CancelFlows, CancelPcs, TypeOK, Commands
    <2> QED BY <1>12, <2>1 DEF ListDue, TypeOK
<1>13. ASSUME NEW p \in Contexts, SkipCommand(p) PROVE TypeOK'
    BY <1>13, NoCancelType DEF SkipCommand, TypeOK
<1>14. ASSUME NEW p \in Contexts, ReadTask(p) PROVE TypeOK'
    <2>1. lease' \in Leases
        BY <1>14, ReleasedType, KindNames DEF ReadTask, TypeOK
    <2>2. cancel' \in [Contexts -> CancelFlows]
        BY <1>14, NoCancelType DEF ReadTask, CancelFlows, CancelPcs, TypeOK
    <2>3. command' \in Commands
        BY <1>14, CompletedType, OutcomeType DEF ReadTask, TypeOK
    <2> QED BY <1>14, <2>1, <2>2, <2>3 DEF ReadTask, TypeOK
<1>15. ASSUME NEW p \in Contexts, CallRunner(p) PROVE TypeOK'
    <2>1. runner' \in Runners
        BY <1>15 DEF CallRunner, TypeOK, Runners, RunnerStates
    <2>2. cancel' \in [Contexts -> CancelFlows]
        BY <1>15 DEF CallRunner, CancelFlows, CancelPcs, TypeOK
    <2>3. refusals' \in Nat
        BY <1>15 DEF CallRunner, TypeOK
    <2> QED BY <1>15, <2>1, <2>2, <2>3 DEF CallRunner, TypeOK
<1>16. ASSUME NEW p \in Contexts, RecordCancelled(p) PROVE TypeOK'
    <2>1. task' \in Tasks /\ run' \in RunStates
        BY <1>16, <1>a, <1>b, <1>c DEF RecordCancelled, TypeOK
    <2>2. lease' \in Leases
        BY <1>16, ReleasedType, KindNames DEF RecordCancelled, Leases
    <2>3. command' \in Commands
        BY <1>16, CompletedType, OutcomeType DEF RecordCancelled, TypeOK
    <2> QED BY <1>16, <2>1, <2>2, <2>3, NoCancelType DEF RecordCancelled, TypeOK
<1>17. ASSUME NEW p \in Contexts, Defer(p) PROVE TypeOK'
    <2>1. lease' \in Leases
        BY <1>17, ReleasedType, KindNames DEF Defer, TypeOK
    <2>2. command' \in Commands
        BY <1>17 DEF Defer, TypeOK, Commands
    <2>3. cancel' \in [Contexts -> CancelFlows]
        BY ZenonT(60), <1>17, NoCancelType DEF Defer, TypeOK, CancelFlows, CancelPcs, Commands
    <2> QED BY <1>17, <2>1, <2>2, <2>3 DEF Defer, TypeOK
<1>18. ASSUME NEW p \in Contexts, GiveUp(p) PROVE TypeOK'
    <2>1. task' \in Tasks /\ run' \in RunStates
        BY <1>18, <1>a, <1>b, <1>c DEF GiveUp, TypeOK
    <2>2. lease' \in Leases
        BY <1>18, ReleasedType, KindNames DEF GiveUp
    <2>3. command' \in Commands
        BY <1>18, CompletedType, OutcomeType DEF GiveUp, TypeOK
    <2> QED BY <1>18, <2>1, <2>2, <2>3, NoCancelType DEF GiveUp, TypeOK
<1>19. ASSUME NEW p \in Contexts, StartBridge(p) PROVE TypeOK'
    <2>1. lease' \in Leases
        BY <1>19, TakenType, KindNames DEF StartBridge
    <2> QED BY <1>19, <2>1 DEF StartBridge, TypeOK
<1>20. ASSUME NEW p \in Contexts, CheckSnapshot(p) PROVE TypeOK'
    BY <1>20, <1>d DEF CheckSnapshot, TypeOK
<1>21. ASSUME NEW p \in Contexts, StreamFrame(p) PROVE TypeOK'
    <2>1. task' \in Tasks /\ run' \in RunStates
        BY <1>21, <1>a, <1>b, <1>c DEF StreamFrame, TypeOK
    <2>2. lease' \in Leases
        BY <1>21, ReleasedType, KindNames DEF StreamFrame, TypeOK
    <2>3. runner' \in Runners
        BY <1>21 DEF StreamFrame, TypeOK, Runners
    <2>4. projecting' \in BOOLEAN
        BY <1>21 DEF StreamFrame, TypeOK
    <2> QED BY <1>21, <2>1, <2>2, <2>3, <2>4 DEF StreamFrame, TypeOK
<1>22. ASSUME NEW p \in Contexts, StreamEnd(p) PROVE TypeOK'
    BY <1>22, <1>d DEF StreamEnd
<1>23. ASSUME NEW p \in Contexts, LoseBridge(p) PROVE TypeOK'
    BY <1>23 DEF LoseBridge, TypeOK
<1>24. ASSUME NEW p \in Contexts, Crash(p) PROVE TypeOK'
    <2>1. lease' \in Leases
        BY <1>24 DEF Crash, Leases, TypeOK
    <2>2. runner' \in Runners
        BY <1>24 DEF Crash, TypeOK, Runners
    <2>3. faults' \in Nat
        BY <1>24 DEF Crash, Fault, TypeOK
    <2> QED BY <1>24, <2>1, <2>2, <2>3, NoCancelType DEF Crash, SubmitPcs, TypeOK
<1>25. ASSUME NEW k \in Kinds, Overrun(k) PROVE TypeOK'
    <2>1. lease' \in Leases
        BY <1>25, TakenType DEF Overrun
    <2>2. faults' \in Nat
        BY <1>25 DEF Overrun, Fault, TypeOK
    <2> QED BY <1>25, <2>1, <2>2 DEF Overrun, TypeOK
<1>26. ASSUME NEW k \in Kinds, Expire(k) PROVE TypeOK'
    <2>1. lease' \in Leases
        BY <1>26, TakenType DEF Expire
    <2> QED BY <1>26, <2>1 DEF Expire, TypeOK
<1> QED BY <1>1, <1>2, <1>3, <1>4, <1>5, <1>6, <1>7, <1>8, <1>9, <1>10, <1>11, <1>12, <1>13,
           <1>14, <1>15, <1>16, <1>17, <1>18, <1>19, <1>20, <1>21, <1>22, <1>23, <1>24, <1>25,
           <1>26
        DEF Next, SubmitStep, CancelStep, BridgeStep

-----------------------------------------------------------------------------

\* A step keeps the two ends equal and never changes an end.
LEMMA AgreesStep ==
    ASSUME TypeOK, TerminalAgrees, Next
    PROVE  TerminalAgrees' /\ SameEnd
<1>a. \A s \in AgentStates : Record(s) => TerminalAgrees' /\ SameEnd
    BY RecordFacts DEF SameEnd
<1>b. {"waiting_permission", "pending", "running", "cancel_requested", "failed", "cancelled",
       "cancel_failed"} \subseteq AgentStates
    BY DEF AgentStates, RunStates, ActiveStates, TerminalStates
<1>c. \A p \in Contexts : runner.state \in TerminalStates /\ RecordEnd(p) =>
          TerminalAgrees' /\ SameEnd
    BY EndFacts DEF SameEnd
<1>d. UNCHANGED <<task, run>> => TerminalAgrees' /\ SameEnd
    BY DEF TerminalAgrees, SameEnd
<1>1. ASSUME RecordPrompt PROVE TerminalAgrees' /\ SameEnd
    BY <1>1, <1>a, <1>b, <1>d DEF RecordPrompt
<1>2. ASSUME RequestCancel PROVE TerminalAgrees' /\ SameEnd
    BY <1>2, <1>a, <1>b, <1>d DEF RequestCancel
<1>3. ASSUME Project PROVE TerminalAgrees' /\ SameEnd
    BY <1>3 DEF Project, TerminalAgrees, TerminalStates, Ended, SameEnd
<1>4. ASSUME Report PROVE TerminalAgrees' /\ SameEnd
    BY <1>4, <1>d DEF Report
<1>5. ASSUME Finish PROVE TerminalAgrees' /\ SameEnd
    BY <1>5, <1>d DEF Finish
<1>6. ASSUME NEW p \in Contexts, StartSubmit(p) PROVE TerminalAgrees' /\ SameEnd
    BY <1>6, <1>d DEF StartSubmit
<1>7. ASSUME NEW p \in Contexts, SendSubmit(p) PROVE TerminalAgrees' /\ SameEnd
    BY <1>7, <1>d DEF SendSubmit
<1>8. ASSUME NEW p \in Contexts, RecordRejected(p) PROVE TerminalAgrees' /\ SameEnd
    BY <1>8, <1>a, <1>b, <1>d DEF RecordRejected
<1>9. ASSUME NEW p \in Contexts, BindRunner(p) PROVE TerminalAgrees' /\ SameEnd
    BY <1>9, <1>d DEF BindRunner, TerminalAgrees, TerminalStates, Ended, TypeOK, Tasks, SameEnd
<1>10. ASSUME NEW p \in Contexts, RecordQueued(p) PROVE TerminalAgrees' /\ SameEnd
    BY <1>10, <1>a, <1>b, <1>d DEF RecordQueued
<1>11. ASSUME NEW p \in Contexts, TakeCommand(p) PROVE TerminalAgrees' /\ SameEnd
    BY <1>11, <1>d DEF TakeCommand
<1>12. ASSUME NEW p \in Contexts, ListDue(p) PROVE TerminalAgrees' /\ SameEnd
    BY <1>12, <1>d DEF ListDue
<1>13. ASSUME NEW p \in Contexts, SkipCommand(p) PROVE TerminalAgrees' /\ SameEnd
    BY <1>13, <1>d DEF SkipCommand
<1>14. ASSUME NEW p \in Contexts, ReadTask(p) PROVE TerminalAgrees' /\ SameEnd
    BY <1>14, <1>d DEF ReadTask
<1>15. ASSUME NEW p \in Contexts, CallRunner(p) PROVE TerminalAgrees' /\ SameEnd
    BY <1>15, <1>d DEF CallRunner
<1>16. ASSUME NEW p \in Contexts, RecordCancelled(p) PROVE TerminalAgrees' /\ SameEnd
    BY <1>16, <1>a, <1>b, <1>d DEF RecordCancelled
<1>17. ASSUME NEW p \in Contexts, Defer(p) PROVE TerminalAgrees' /\ SameEnd
    BY <1>17, <1>d DEF Defer
<1>18. ASSUME NEW p \in Contexts, GiveUp(p) PROVE TerminalAgrees' /\ SameEnd
    BY <1>18, <1>a, <1>b, <1>d DEF GiveUp
<1>19. ASSUME NEW p \in Contexts, StartBridge(p) PROVE TerminalAgrees' /\ SameEnd
    BY <1>19, <1>d DEF StartBridge
<1>20. ASSUME NEW p \in Contexts, CheckSnapshot(p) PROVE TerminalAgrees' /\ SameEnd
    BY <1>20, <1>c, <1>d DEF CheckSnapshot
<1>21. ASSUME NEW p \in Contexts, StreamFrame(p) PROVE TerminalAgrees' /\ SameEnd
    BY <1>21, <1>a, <1>b, <1>d DEF StreamFrame
<1>22. ASSUME NEW p \in Contexts, StreamEnd(p) PROVE TerminalAgrees' /\ SameEnd
    BY <1>22, <1>c, <1>d DEF StreamEnd
<1>23. ASSUME NEW p \in Contexts, LoseBridge(p) PROVE TerminalAgrees' /\ SameEnd
    BY <1>23, <1>d DEF LoseBridge
<1>24. ASSUME NEW p \in Contexts, Crash(p) PROVE TerminalAgrees' /\ SameEnd
    BY <1>24, <1>d DEF Crash
<1>25. ASSUME NEW k \in Kinds, Overrun(k) PROVE TerminalAgrees' /\ SameEnd
    BY <1>25, <1>d DEF Overrun
<1>26. ASSUME NEW k \in Kinds, Expire(k) PROVE TerminalAgrees' /\ SameEnd
    BY <1>26, <1>d DEF Expire
<1> QED BY <1>1, <1>2, <1>3, <1>4, <1>5, <1>6, <1>7, <1>8, <1>9, <1>10, <1>11, <1>12, <1>13,
           <1>14, <1>15, <1>16, <1>17, <1>18, <1>19, <1>20, <1>21, <1>22, <1>23, <1>24, <1>25,
           <1>26
        DEF Next, SubmitStep, CancelStep, BridgeStep

LEMMA CompletedFacts ==
    ASSUME TypeOK, NEW out
    PROVE  /\ Completed(out).runner = command.runner
           /\ Completed(out).force => command.force
           /\ command.status # "open" => Completed(out) = command
           /\ (Completed(out).status = "none") = (command.status = "none")
           /\ command.status = "open" => Completed(out).outcome = out /\ Completed(out).status = "done"
BY DEF Completed, TypeOK, Commands

LEMMA EnqueuedFacts ==
    ASSUME TypeOK, ForceKnowsRunner
    PROVE  /\ Enqueued.force = command.force
           /\ command.runner => Enqueued.runner
           /\ command.status = "done" => Enqueued = command
           /\ command.status # "done" => Enqueued.status = "open"
<1>1. CASE command.status = "none"
    BY <1>1 DEF Enqueued, TypeOK, Commands, Tasks, ForceKnowsRunner
<1>2. CASE command.status = "open"
    BY <1>2 DEF Enqueued, TypeOK, Commands, Tasks
<1>3. CASE command.status = "done"
    BY <1>3 DEF Enqueued, TypeOK, Commands
<1> QED BY <1>1, <1>2, <1>3 DEF TypeOK, Commands

\* A forced command knows its runner after any step.
LEMMA ForceStep ==
    ASSUME TypeOK, ForceKnowsRunner, Next
    PROVE  ForceKnowsRunner'
<1>1. ASSUME RecordPrompt PROVE ForceKnowsRunner'
    BY <1>1 DEF RecordPrompt, ForceKnowsRunner, NoCancel, TypeOK, CancelFlows
<1>2. ASSUME RequestCancel PROVE ForceKnowsRunner'
    BY <1>2, EnqueuedFacts DEF RequestCancel, ForceKnowsRunner, NoCancel, TypeOK, CancelFlows
<1>3. ASSUME Project PROVE ForceKnowsRunner'
    BY <1>3 DEF Project, ForceKnowsRunner, NoCancel, TypeOK, CancelFlows
<1>4. ASSUME Report PROVE ForceKnowsRunner'
    BY <1>4 DEF Report, ForceKnowsRunner, NoCancel, TypeOK, CancelFlows
<1>5. ASSUME Finish PROVE ForceKnowsRunner'
    BY <1>5 DEF Finish, ForceKnowsRunner, NoCancel, TypeOK, CancelFlows
<1>6. ASSUME NEW p \in Contexts, StartSubmit(p) PROVE ForceKnowsRunner'
    BY <1>6 DEF StartSubmit, ForceKnowsRunner, NoCancel, TypeOK, CancelFlows
<1>7. ASSUME NEW p \in Contexts, SendSubmit(p) PROVE ForceKnowsRunner'
    BY <1>7 DEF SendSubmit, ForceKnowsRunner, NoCancel, TypeOK, CancelFlows
<1>8. ASSUME NEW p \in Contexts, RecordRejected(p) PROVE ForceKnowsRunner'
    BY <1>8 DEF RecordRejected, ForceKnowsRunner, NoCancel, TypeOK, CancelFlows
<1>9. ASSUME NEW p \in Contexts, BindRunner(p) PROVE ForceKnowsRunner'
    BY <1>9 DEF BindRunner, Commands, ForceKnowsRunner, NoCancel, TypeOK, CancelFlows
<1>10. ASSUME NEW p \in Contexts, RecordQueued(p) PROVE ForceKnowsRunner'
    BY <1>10 DEF RecordQueued, ForceKnowsRunner, NoCancel, TypeOK, CancelFlows
<1>11. ASSUME NEW p \in Contexts, TakeCommand(p) PROVE ForceKnowsRunner'
    BY <1>11 DEF TakeCommand, ForceKnowsRunner, NoCancel, TypeOK, CancelFlows
<1>12. ASSUME NEW p \in Contexts, ListDue(p) PROVE ForceKnowsRunner'
    BY <1>12 DEF ListDue, ForceKnowsRunner, NoCancel, TypeOK, CancelFlows
<1>13. ASSUME NEW p \in Contexts, SkipCommand(p) PROVE ForceKnowsRunner'
    BY <1>13 DEF SkipCommand, ForceKnowsRunner, NoCancel, TypeOK, CancelFlows
<1>14. ASSUME NEW p \in Contexts, ReadTask(p) PROVE ForceKnowsRunner'
    BY <1>14, CompletedFacts DEF ReadTask, ForceKnowsRunner, NoCancel, TypeOK, CancelFlows
<1>15. ASSUME NEW p \in Contexts, CallRunner(p) PROVE ForceKnowsRunner'
    BY SMTT(60), <1>15 DEF CallRunner, ForceKnowsRunner, NoCancel, TypeOK, CancelFlows
<1>16. ASSUME NEW p \in Contexts, RecordCancelled(p) PROVE ForceKnowsRunner'
    BY <1>16
       DEF RecordCancelled, Completed, Commands, ForceKnowsRunner, NoCancel, TypeOK, CancelFlows
<1>17. ASSUME NEW p \in Contexts, Defer(p) PROVE ForceKnowsRunner'
    BY <1>17 DEF Defer, Commands, ForceKnowsRunner, NoCancel, TypeOK, CancelFlows
<1>18. ASSUME NEW p \in Contexts, GiveUp(p) PROVE ForceKnowsRunner'
    BY <1>18 DEF GiveUp, Completed, Commands, ForceKnowsRunner, NoCancel, TypeOK, CancelFlows
<1>19. ASSUME NEW p \in Contexts, StartBridge(p) PROVE ForceKnowsRunner'
    BY <1>19 DEF StartBridge, ForceKnowsRunner, NoCancel, TypeOK, CancelFlows
<1>20. ASSUME NEW p \in Contexts, CheckSnapshot(p) PROVE ForceKnowsRunner'
    BY <1>20 DEF CheckSnapshot, RecordEnd, ForceKnowsRunner, NoCancel, TypeOK, CancelFlows
<1>21. ASSUME NEW p \in Contexts, StreamFrame(p) PROVE ForceKnowsRunner'
    BY <1>21 DEF StreamFrame, ForceKnowsRunner, NoCancel, TypeOK, CancelFlows
<1>22. ASSUME NEW p \in Contexts, StreamEnd(p) PROVE ForceKnowsRunner'
    BY <1>22 DEF StreamEnd, RecordEnd, ForceKnowsRunner, NoCancel, TypeOK, CancelFlows
<1>23. ASSUME NEW p \in Contexts, LoseBridge(p) PROVE ForceKnowsRunner'
    BY <1>23 DEF LoseBridge, ForceKnowsRunner, NoCancel, TypeOK, CancelFlows
<1>24. ASSUME NEW p \in Contexts, Crash(p) PROVE ForceKnowsRunner'
    BY <1>24 DEF Crash, ForceKnowsRunner, NoCancel, TypeOK, CancelFlows
<1>25. ASSUME NEW k \in Kinds, Overrun(k) PROVE ForceKnowsRunner'
    BY <1>25 DEF Overrun, ForceKnowsRunner, NoCancel, TypeOK, CancelFlows
<1>26. ASSUME NEW k \in Kinds, Expire(k) PROVE ForceKnowsRunner'
    BY <1>26 DEF Expire, ForceKnowsRunner, NoCancel, TypeOK, CancelFlows
<1> QED BY <1>1, <1>2, <1>3, <1>4, <1>5, <1>6, <1>7, <1>8, <1>9, <1>10, <1>11, <1>12, <1>13,
           <1>14, <1>15, <1>16, <1>17, <1>18, <1>19, <1>20, <1>21, <1>22, <1>23, <1>24, <1>25,
           <1>26
        DEF Next, SubmitStep, CancelStep, BridgeStep

\* A completed command keeps telling what became of its task.
LEMMA OutcomeStep ==
    ASSUME TypeOK, TerminalAgrees, ForceKnowsRunner, OutcomeMatchesTask, Next
    PROVE  OutcomeMatchesTask'
<1>a. \A s \in AgentStates : Record(s) =>
          (Ended => task'.state = task.state) /\ (~Ended => task'.state = s)
    BY RecordFacts
<1>b. {"waiting_permission", "pending", "running", "cancel_requested", "failed", "cancelled",
       "cancel_failed"} \subseteq AgentStates
    BY DEF AgentStates, RunStates, ActiveStates, TerminalStates
<1>c. (Ended => task'.state = task.state) /\ command' = command => OutcomeMatchesTask'
    BY DEF OutcomeMatchesTask, Ended, TerminalStates
<1>d. Ended => task'.state = task.state
    BY AgreesStep DEF SameEnd
<1>e. (Ended => task'.state = task.state) /\ command'.status # "done" => OutcomeMatchesTask'
    BY DEF OutcomeMatchesTask
<1>f. Ended' => OutcomeOf(task'.state) \in {"cancelled", "cancel_failed", "terminal_won"}
                /\ (OutcomeOf(task'.state) = "cancelled" => task'.state = "cancelled")
                /\ (OutcomeOf(task'.state) = "cancel_failed" => task'.state = "cancel_failed")
                /\ (OutcomeOf(task'.state) = "terminal_won" => task'.state \in RunnerEnds)
    BY DEF OutcomeOf, Ended, TerminalStates, RunnerEnds
<1>1. ASSUME RecordPrompt PROVE OutcomeMatchesTask'
    BY <1>1, <1>c, <1>d DEF RecordPrompt
<1>2. ASSUME RequestCancel PROVE OutcomeMatchesTask'
    BY <1>2, <1>c, <1>d, <1>e, EnqueuedFacts DEF RequestCancel
<1>3. ASSUME Project PROVE OutcomeMatchesTask'
    BY <1>3, <1>c, <1>d DEF Project
<1>4. ASSUME Report PROVE OutcomeMatchesTask'
    BY <1>4, <1>c, <1>d DEF Report
<1>5. ASSUME Finish PROVE OutcomeMatchesTask'
    BY <1>5, <1>c, <1>d DEF Finish
<1>6. ASSUME NEW p \in Contexts, StartSubmit(p) PROVE OutcomeMatchesTask'
    BY <1>6, <1>c, <1>d DEF StartSubmit
<1>7. ASSUME NEW p \in Contexts, SendSubmit(p) PROVE OutcomeMatchesTask'
    BY <1>7, <1>c, <1>d DEF SendSubmit
<1>8. ASSUME NEW p \in Contexts, RecordRejected(p) PROVE OutcomeMatchesTask'
    BY <1>8, <1>c, <1>d DEF RecordRejected
<1>9. ASSUME NEW p \in Contexts, BindRunner(p) PROVE OutcomeMatchesTask'
    BY <1>9, <1>c, <1>d, <1>e DEF BindRunner, TypeOK, Commands
<1>10. ASSUME NEW p \in Contexts, RecordQueued(p) PROVE OutcomeMatchesTask'
    BY <1>10, <1>c, <1>d DEF RecordQueued
<1>11. ASSUME NEW p \in Contexts, TakeCommand(p) PROVE OutcomeMatchesTask'
    BY <1>11, <1>c, <1>d DEF TakeCommand
<1>12. ASSUME NEW p \in Contexts, ListDue(p) PROVE OutcomeMatchesTask'
    BY <1>12, <1>c, <1>d DEF ListDue
<1>13. ASSUME NEW p \in Contexts, SkipCommand(p) PROVE OutcomeMatchesTask'
    BY <1>13, <1>c, <1>d DEF SkipCommand
<1>14. ASSUME NEW p \in Contexts, ReadTask(p) PROVE OutcomeMatchesTask'
    BY <1>14, <1>c, <1>d, <1>f, CompletedFacts DEF ReadTask, OutcomeMatchesTask, RunnerEnds, Ended
<1>15. ASSUME NEW p \in Contexts, CallRunner(p) PROVE OutcomeMatchesTask'
    BY <1>15, <1>c, <1>d DEF CallRunner
<1>16. ASSUME NEW p \in Contexts, RecordCancelled(p) PROVE OutcomeMatchesTask'
    BY <1>16, <1>a, <1>b, <1>c, <1>d, <1>f, CompletedFacts
       DEF RecordCancelled, OutcomeMatchesTask, RunnerEnds, Ended, TerminalStates
<1>17. ASSUME NEW p \in Contexts, Defer(p) PROVE OutcomeMatchesTask'
    BY <1>17, <1>c, <1>d, <1>e DEF Defer, TypeOK, Commands
<1>18. ASSUME NEW p \in Contexts, GiveUp(p) PROVE OutcomeMatchesTask'
    BY <1>18, <1>a, <1>b, <1>c, <1>d, <1>f, CompletedFacts
       DEF GiveUp, OutcomeMatchesTask, RunnerEnds, Ended, TerminalStates, ForceKnowsRunner
<1>19. ASSUME NEW p \in Contexts, StartBridge(p) PROVE OutcomeMatchesTask'
    BY <1>19, <1>c, <1>d DEF StartBridge
<1>20. ASSUME NEW p \in Contexts, CheckSnapshot(p) PROVE OutcomeMatchesTask'
    BY <1>20, <1>c, <1>d DEF CheckSnapshot, RecordEnd
<1>21. ASSUME NEW p \in Contexts, StreamFrame(p) PROVE OutcomeMatchesTask'
    BY <1>21, <1>c, <1>d DEF StreamFrame
<1>22. ASSUME NEW p \in Contexts, StreamEnd(p) PROVE OutcomeMatchesTask'
    BY <1>22, <1>c, <1>d DEF StreamEnd, RecordEnd
<1>23. ASSUME NEW p \in Contexts, LoseBridge(p) PROVE OutcomeMatchesTask'
    BY <1>23, <1>c, <1>d DEF LoseBridge
<1>24. ASSUME NEW p \in Contexts, Crash(p) PROVE OutcomeMatchesTask'
    BY <1>24, <1>c, <1>d DEF Crash
<1>25. ASSUME NEW k \in Kinds, Overrun(k) PROVE OutcomeMatchesTask'
    BY <1>25, <1>c, <1>d DEF Overrun
<1>26. ASSUME NEW k \in Kinds, Expire(k) PROVE OutcomeMatchesTask'
    BY <1>26, <1>c, <1>d DEF Expire
<1> QED BY <1>1, <1>2, <1>3, <1>4, <1>5, <1>6, <1>7, <1>8, <1>9, <1>10, <1>11, <1>12, <1>13,
           <1>14, <1>15, <1>16, <1>17, <1>18, <1>19, <1>20, <1>21, <1>22, <1>23, <1>24, <1>25,
           <1>26
        DEF Next, SubmitStep, CancelStep, BridgeStep

\* What the submit lease and the bridge guarantee, and how a bound task ends.
LEMMA RunnerStep ==
    ASSUME TypeOK, TerminalAgrees, RunnerInv, BoundTaskEndsLikeRunner, Next
    PROVE  RunnerInv' /\ BoundTaskEndsLikeRunner'
<1>a. \A s \in AgentStates : Record(s) =>
          (Ended => task'.state = task.state) /\ (~Ended => task'.state = s) /\ task'.runner = task.runner
    BY RecordFacts
<1>b. {"waiting_permission", "pending", "running", "cancel_requested", "failed", "cancelled",
       "cancel_failed"} \subseteq AgentStates
    BY DEF AgentStates, RunStates, ActiveStates, TerminalStates
<1>c. \A p \in Contexts : runner.state \in TerminalStates /\ RecordEnd(p) =>
          /\ Ended => task'.state = task.state
          /\ ~Ended => task'.state \in {task.state, runner.state}
          /\ task'.runner = task.runner
    BY EndFacts
<1>d. RunnerEnds \subseteq TerminalStates
    BY DEF RunnerEnds, TerminalStates
<1>e. Free \notin Contexts /\ Gone \notin Contexts
    BY AgentAssumption
<1>1. ASSUME RecordPrompt PROVE RunnerInv' /\ BoundTaskEndsLikeRunner'
    BY <1>1, <1>a, <1>b, <1>d, <1>e
       DEF RecordPrompt, Released, Ended, Kinds, Leases, RunnerEnds, RunnerInv,
           BoundTaskEndsLikeRunner, Owned, TypeOK
<1>2. ASSUME RequestCancel PROVE RunnerInv' /\ BoundTaskEndsLikeRunner'
    BY <1>2, <1>a, <1>b, <1>d, <1>e
       DEF RequestCancel, Released, Ended, Kinds, Leases, RunnerEnds, RunnerInv,
           BoundTaskEndsLikeRunner, Owned, TypeOK
<1>3. ASSUME Project PROVE RunnerInv' /\ BoundTaskEndsLikeRunner'
    BY <1>3 DEF Project, RunnerInv, BoundTaskEndsLikeRunner, Owned, TypeOK
<1>4. ASSUME Report PROVE RunnerInv' /\ BoundTaskEndsLikeRunner'
    BY <1>4, <1>e
       DEF Report, Released, Kinds, Leases, RunnerEnds, Runners, RunnerStates, Tasks, RunnerInv,
           BoundTaskEndsLikeRunner, Owned, TypeOK
<1>5. ASSUME Finish PROVE RunnerInv' /\ BoundTaskEndsLikeRunner'
    BY <1>5, <1>e
       DEF Finish, Released, Kinds, Leases, RunnerEnds, Runners, RunnerStates, Tasks, RunnerInv,
           BoundTaskEndsLikeRunner, Owned, TypeOK
<1>6. ASSUME NEW p \in Contexts, StartSubmit(p) PROVE RunnerInv' /\ BoundTaskEndsLikeRunner'
    BY <1>6, <1>e
       DEF StartSubmit, Released, Kinds, Leases, RunnerEnds, RunnerInv, BoundTaskEndsLikeRunner,
           Owned, TypeOK
<1>7. ASSUME NEW p \in Contexts, SendSubmit(p) PROVE RunnerInv' /\ BoundTaskEndsLikeRunner'
    BY <1>7, <1>e
       DEF SendSubmit, Released, Kinds, Leases, RunnerEnds, Runners, RunnerStates, Tasks,
           RunnerInv, BoundTaskEndsLikeRunner, Owned, TypeOK
<1>8. ASSUME NEW p \in Contexts, RecordRejected(p) PROVE RunnerInv' /\ BoundTaskEndsLikeRunner'
    BY <1>8, <1>a, <1>b, <1>d, <1>e
       DEF RecordRejected, Released, Ended, Kinds, Leases, RunnerEnds, RunnerInv,
           BoundTaskEndsLikeRunner, Owned, TypeOK
<1>9. ASSUME NEW p \in Contexts, BindRunner(p) PROVE RunnerInv' /\ BoundTaskEndsLikeRunner'
    <2>1. /\ Owned(p, "agent_submit") => lease'["agent_submit"] = Free
          /\ ~Owned(p, "agent_submit") => lease'["agent_submit"] = lease["agent_submit"]
        BY <1>9, KindNames DEF BindRunner, Released, Owned, Leases, TypeOK
    <2>a. \A q \in Contexts : submit'[q] = submit[q] \/ submit'[q] \in {"idle", "queued"}
        BY <1>9 DEF BindRunner, TypeOK
    <2>2. runner.state # "none" /\ runner' = runner /\ bridge' = bridge
        BY <1>9 DEF BindRunner, RunnerInv
    <2>3. CASE task' = task
        BY <2>1, <2>a, <2>2, <2>3, <1>e DEF RunnerInv, BoundTaskEndsLikeRunner, Owned
    <2>4. CASE Owned(p, "agent_submit")
        <3>1. task.state \notin RunnerEnds
            BY <1>9, <2>4 DEF BindRunner, RunnerInv
        <3>2. task'.runner /\ task'.state \notin RunnerEnds
            BY <1>9, <2>4, <3>1 DEF BindRunner, TypeOK, Tasks, RunnerEnds
        <3>3. \A q \in Contexts : ~Owned(q, "agent_submit")'
            BY <2>1, <2>4, <1>e DEF Owned
        <3> QED BY <2>2, <3>2, <3>3 DEF RunnerInv, BoundTaskEndsLikeRunner, RunnerEnds
    <2> QED BY <1>9, <2>3, <2>4 DEF BindRunner
<1>10. ASSUME NEW p \in Contexts, RecordQueued(p) PROVE RunnerInv' /\ BoundTaskEndsLikeRunner'
    BY <1>10, <1>a, <1>b, <1>d, <1>e
       DEF RecordQueued, Released, Ended, Kinds, Leases, RunnerEnds, RunnerInv,
           BoundTaskEndsLikeRunner, Owned, TypeOK
<1>11. ASSUME NEW p \in Contexts, TakeCommand(p) PROVE RunnerInv' /\ BoundTaskEndsLikeRunner'
    BY <1>11, <1>e
       DEF TakeCommand, Released, Kinds, Leases, RunnerEnds, RunnerInv, BoundTaskEndsLikeRunner,
           Owned, TypeOK
<1>12. ASSUME NEW p \in Contexts, ListDue(p) PROVE RunnerInv' /\ BoundTaskEndsLikeRunner'
    BY <1>12 DEF ListDue, RunnerInv, BoundTaskEndsLikeRunner, Owned, TypeOK
<1>13. ASSUME NEW p \in Contexts, SkipCommand(p) PROVE RunnerInv' /\ BoundTaskEndsLikeRunner'
    BY <1>13 DEF SkipCommand, RunnerInv, BoundTaskEndsLikeRunner, Owned, TypeOK
<1>14. ASSUME NEW p \in Contexts, ReadTask(p) PROVE RunnerInv' /\ BoundTaskEndsLikeRunner'
    BY <1>14, <1>e
       DEF ReadTask, Released, Kinds, Leases, RunnerEnds, RunnerInv, BoundTaskEndsLikeRunner,
           Owned, TypeOK
<1>15. ASSUME NEW p \in Contexts, CallRunner(p) PROVE RunnerInv' /\ BoundTaskEndsLikeRunner'
    BY <1>15, <1>e
       DEF CallRunner, Released, Kinds, Leases, RunnerEnds, Runners, RunnerStates, Tasks,
           RunnerInv, BoundTaskEndsLikeRunner, Owned, TypeOK
<1>16. ASSUME NEW p \in Contexts, RecordCancelled(p) PROVE RunnerInv' /\ BoundTaskEndsLikeRunner'
    BY <1>16, <1>a, <1>b, <1>d, <1>e
       DEF RecordCancelled, Released, Ended, Kinds, Leases, RunnerEnds, RunnerInv,
           BoundTaskEndsLikeRunner, Owned, TypeOK
<1>17. ASSUME NEW p \in Contexts, Defer(p) PROVE RunnerInv' /\ BoundTaskEndsLikeRunner'
    BY <1>17, <1>e
       DEF Defer, Released, Kinds, Leases, RunnerEnds, RunnerInv, BoundTaskEndsLikeRunner,
           Owned, TypeOK
<1>18. ASSUME NEW p \in Contexts, GiveUp(p) PROVE RunnerInv' /\ BoundTaskEndsLikeRunner'
    BY <1>18, <1>a, <1>b, <1>d, <1>e
       DEF GiveUp, Released, Ended, Kinds, Leases, RunnerEnds, RunnerInv,
           BoundTaskEndsLikeRunner, Owned, TypeOK
<1>19. ASSUME NEW p \in Contexts, StartBridge(p) PROVE RunnerInv' /\ BoundTaskEndsLikeRunner'
    BY <1>19, <1>e
       DEF StartBridge, Released, Kinds, Leases, RunnerEnds, RunnerInv, BoundTaskEndsLikeRunner,
           Owned, TypeOK
<1>20. ASSUME NEW p \in Contexts, CheckSnapshot(p) PROVE RunnerInv' /\ BoundTaskEndsLikeRunner'
    BY <1>20, <1>c, <1>d, <1>e
       DEF CheckSnapshot, RecordEnd, Released, Kinds, Leases, Ended, RunnerInv,
           BoundTaskEndsLikeRunner, Owned, TypeOK
<1>21. ASSUME NEW p \in Contexts, StreamFrame(p) PROVE RunnerInv' /\ BoundTaskEndsLikeRunner'
    BY <1>21, <1>a, <1>b, <1>d, <1>e
       DEF StreamFrame, Released, Ended, Kinds, Leases, RunnerEnds, RunnerInv,
           BoundTaskEndsLikeRunner, Owned, TypeOK
<1>22. ASSUME NEW p \in Contexts, StreamEnd(p) PROVE RunnerInv' /\ BoundTaskEndsLikeRunner'
    BY <1>22, <1>c, <1>d, <1>e
       DEF StreamEnd, RecordEnd, Released, Kinds, Leases, Ended, RunnerInv,
           BoundTaskEndsLikeRunner, Owned, TypeOK
<1>23. ASSUME NEW p \in Contexts, LoseBridge(p) PROVE RunnerInv' /\ BoundTaskEndsLikeRunner'
    BY <1>23 DEF LoseBridge, RunnerInv, BoundTaskEndsLikeRunner, Owned, TypeOK
<1>24. ASSUME NEW p \in Contexts, Crash(p) PROVE RunnerInv' /\ BoundTaskEndsLikeRunner'
    BY <1>24, <1>e
       DEF Crash, Released, Kinds, Leases, RunnerEnds, Runners, RunnerStates, Tasks, RunnerInv,
           BoundTaskEndsLikeRunner, Owned, TypeOK
<1>25. ASSUME NEW k \in Kinds, Overrun(k) PROVE RunnerInv' /\ BoundTaskEndsLikeRunner'
    BY <1>25, <1>e
       DEF Overrun, Released, Kinds, Leases, RunnerEnds, RunnerInv, BoundTaskEndsLikeRunner,
           Owned, TypeOK
<1>26. ASSUME NEW k \in Kinds, Expire(k) PROVE RunnerInv' /\ BoundTaskEndsLikeRunner'
    BY <1>26, <1>e
       DEF Expire, Released, Kinds, Leases, RunnerEnds, RunnerInv, BoundTaskEndsLikeRunner,
           Owned, TypeOK
<1> QED BY <1>1, <1>2, <1>3, <1>4, <1>5, <1>6, <1>7, <1>8, <1>9, <1>10, <1>11, <1>12, <1>13,
           <1>14, <1>15, <1>16, <1>17, <1>18, <1>19, <1>20, <1>21, <1>22, <1>23, <1>24, <1>25,
           <1>26
        DEF Next, SubmitStep, CancelStep, BridgeStep

\* A step that counts no attempt and no refusal keeps the count when it calls no unknown runner,
\* makes nobody the owner of a refusal and ends nothing as cancel_failed that was not given up.
LEMMA CountKept ==
    ASSUME TypeOK, CountInv,
           command'.attempts = command.attempts,
           command'.runner => command.runner \/ task.runner,
           refusals' = refusals,
           task.runner => task'.runner,
           task'.state = "cancel_failed" => task.state = "cancel_failed"
                                                \/ command.attempts >= MaxAttempts,
           command'.outcome = "cancel_failed" => command.outcome = "cancel_failed"
               \/ task.state = "cancel_failed" \/ command.attempts >= MaxAttempts,
           \A p \in Contexts :
               \/ /\ cancel'[p].pc \in {"idle", "listed", "leased", "confirmed"}
                  /\ cancel'[p].runner => cancel[p].runner \/ command.runner
               \/ /\ cancel'[p] = cancel[p]
                  /\ Owned(p, "agent_command")' => Owned(p, "agent_command")
    PROVE  CountInv'
<1>1. UnknownIsUncalled'
    <2>1. SUFFICES ASSUME ~task'.runner
                   PROVE  /\ command'.attempts = 0 /\ ~command'.runner
                          /\ \A p \in Contexts : /\ ~cancel'[p].runner
                                                 /\ cancel'[p].pc \notin {"calling", "refused", "giving_up"}
        BY DEF UnknownIsUncalled
    <2>2. ~task.runner /\ UnknownIsUncalled
        BY <2>1 DEF CountInv
    <2>3. command.attempts = 0 /\ ~command.runner
        BY <2>2 DEF UnknownIsUncalled
    <2>4. ASSUME NEW p \in Contexts
          PROVE  ~cancel'[p].runner /\ cancel'[p].pc \notin {"calling", "refused", "giving_up"}
        BY <2>2, <2>3 DEF UnknownIsUncalled
    <2> QED BY <2>2, <2>3, <2>4
<1>2. AttemptsAreRefusals'
    <2>1. ASSUME NEW p \in Contexts
          PROVE  /\ cancel'[p].pc = "refused" /\ Owned(p, "agent_command")'
                        => command'.attempts < refusals'
                 /\ cancel'[p].pc = "giving_up" => command'.attempts >= MaxAttempts
        BY DEF CountInv, AttemptsAreRefusals
    <2>2. command'.attempts <= refusals'
        BY DEF CountInv, AttemptsAreRefusals
    <2>3. task'.state = "cancel_failed" \/ command'.outcome = "cancel_failed"
              => command'.attempts >= MaxAttempts
        BY DEF CountInv, AttemptsAreRefusals
    <2> QED BY <2>1, <2>2, <2>3 DEF AttemptsAreRefusals
<1> QED BY <1>1, <1>2 DEF CountInv

\* The owner of the command is the same, or the lease has no owner any more.
LEMMA CommandOwner ==
    ASSUME TypeOK, lease'["agent_command"] \in {lease["agent_command"], Free, Gone}
    PROVE  \A p \in Contexts : Owned(p, "agent_command")' => Owned(p, "agent_command")
BY AgentAssumption DEF Owned

LEMMA ReleasedOwner ==
    ASSUME TypeOK, NEW p \in Contexts, NEW k \in Kinds
    PROVE  Released(p, k)["agent_command"] \in {lease["agent_command"], Free}
BY DEF Released, TypeOK, Leases, Kinds

\* Each step counts a refusal before it counts the attempt, and gives up after the last one.
LEMMA CountStep ==
    ASSUME TypeOK, TerminalAgrees, ForceKnowsRunner, RunnerInv, CountInv, Next
    PROVE  CountInv'
<1> DEFINE Kept == /\ task.runner => task'.runner
                   /\ task'.state = "cancel_failed" => task.state = "cancel_failed"
           SameOwner == \A p \in Contexts : Owned(p, "agent_command")' => Owned(p, "agent_command")
<1>a. \A s \in AgentStates \ {"cancel_failed"} : Record(s) => Kept
    BY RecordFacts DEF Ended
<1>b. {"waiting_permission", "pending", "running", "cancel_requested", "failed", "cancelled"}
          \subseteq AgentStates \ {"cancel_failed"}
    BY DEF AgentStates, RunStates, ActiveStates, TerminalStates
<1>c. \A p \in Contexts : runner.state \in TerminalStates /\ RecordEnd(p) => Kept
    <2> SUFFICES ASSUME NEW p \in Contexts, runner.state \in TerminalStates, RecordEnd(p) PROVE Kept
        OBVIOUS
    <2>1. runner.state # "cancel_failed"
        BY DEF TypeOK, Runners, RunnerStates
    <2> QED BY <2>1, EndFacts DEF Ended
<1>d. Kept /\ SameOwner /\ UNCHANGED <<command, cancel, refusals>> => CountInv'
    BY CountKept
<1>e. UNCHANGED task => Kept
    OBVIOUS
<1>f. UNCHANGED lease => SameOwner
    BY DEF Owned
<1>g. \A p \in Contexts, k \in Kinds : lease' = Released(p, k) => SameOwner
    BY ReleasedOwner, CommandOwner
<1>h. \A k \in Kinds \ {"agent_command"}, h \in Contexts \cup {Free, Gone} :
          lease' = [lease EXCEPT ![k] = h] => SameOwner
    BY CommandOwner, KindNames DEF TypeOK, Leases
<1>i. "agent_submit" \in Kinds \ {"agent_command"} /\ "agent_task" \in Kinds \ {"agent_command"}
          /\ "agent_command" \in Kinds
    BY DEF Kinds
<1>j. NoCancel.pc = "idle" /\ ~NoCancel.runner
    BY DEF NoCancel
<1> HIDE DEF SameOwner
<1>1. ASSUME RecordPrompt PROVE CountInv'
    BY <1>1, <1>a, <1>b, <1>d, <1>f DEF RecordPrompt
<1>2. ASSUME RequestCancel PROVE CountInv'
    <2>1. Kept
        BY <1>2, <1>a, <1>b DEF RequestCancel
    <2>2. /\ Enqueued.attempts = command.attempts
          /\ Enqueued.outcome = command.outcome
          /\ Enqueued.runner => command.runner \/ task.runner
        BY DEF Enqueued, TypeOK, Commands
    <2> QED BY <1>2, <2>1, <2>2, CountKept DEF RequestCancel, Owned
<1>3. ASSUME Project PROVE CountInv'
    BY <1>3, <1>d, <1>e, <1>f DEF Project
<1>4. ASSUME Report PROVE CountInv'
    BY <1>4, <1>d, <1>e, <1>f DEF Report
<1>5. ASSUME Finish PROVE CountInv'
    BY <1>5, <1>d, <1>e, <1>f DEF Finish
<1>6. ASSUME NEW p \in Contexts, StartSubmit(p) PROVE CountInv'
    BY <1>6, <1>d, <1>e, <1>h, <1>i DEF StartSubmit
<1>7. ASSUME NEW p \in Contexts, SendSubmit(p) PROVE CountInv'
    BY <1>7, <1>d, <1>e, <1>f, <1>g, <1>i DEF SendSubmit
<1>8. ASSUME NEW p \in Contexts, RecordRejected(p) PROVE CountInv'
    BY <1>8, <1>a, <1>b, <1>d, <1>e, <1>g, <1>i DEF RecordRejected
<1>9. ASSUME NEW p \in Contexts, BindRunner(p) PROVE CountInv'
    <2>1. SameOwner
        BY <1>9, <1>g, <1>i DEF BindRunner
    <2>2. CASE UNCHANGED <<command, refusals>>
        <3>1. Kept
            BY <1>9 DEF BindRunner, TypeOK, Tasks
        <3> QED BY <1>9, <2>1, <2>2, <3>1, <1>d DEF BindRunner
    <2>3. CASE Owned(p, "agent_submit") /\ command' = [command EXCEPT !.runner = TRUE, !.attempts = 0, !.force = TRUE]
               /\ task' = [task EXCEPT !.runner = TRUE] /\ refusals' = 0
        <3>1. ~task.runner
            BY <1>9, <2>3 DEF BindRunner, RunnerInv
        <3>2. command.attempts = 0
              /\ \A q \in Contexts : cancel[q].pc \notin {"calling", "refused", "giving_up"}
            BY <3>1 DEF CountInv, UnknownIsUncalled
        <3>3. task.state # "cancel_failed" /\ command.outcome # "cancel_failed"
            BY <3>2, AgentAssumption DEF CountInv, AttemptsAreRefusals
        <3>4. task'.runner /\ task'.state = task.state /\ command'.attempts = 0
              /\ command'.outcome = command.outcome /\ cancel' = cancel
            BY <1>9, <2>3 DEF BindRunner, TypeOK, Tasks, Commands
        <3>5. UnknownIsUncalled'
            BY <3>4 DEF UnknownIsUncalled
        <3>6. AttemptsAreRefusals'
            BY <2>3, <3>2, <3>3, <3>4 DEF AttemptsAreRefusals
        <3> QED BY <3>5, <3>6 DEF CountInv
    <2> QED BY <1>9, <2>2, <2>3 DEF BindRunner
<1>10. ASSUME NEW p \in Contexts, RecordQueued(p) PROVE CountInv'
    BY <1>10, <1>a, <1>b, <1>d, <1>f DEF RecordQueued
<1>11. ASSUME NEW p \in Contexts, TakeCommand(p) PROVE CountInv'
    <2>1. cancel'[p].pc = "leased" /\ cancel'[p].runner = cancel[p].runner
        BY <1>11 DEF TakeCommand, TypeOK, CancelFlows
    <2>2. \A q \in Contexts : q # p =>
              cancel'[q] = cancel[q] /\ (Owned(q, "agent_command")' => Owned(q, "agent_command"))
        BY <1>11, KindNames DEF TakeCommand, TypeOK, Leases, Owned
    <2> QED BY <1>11, <2>1, <2>2, CountKept DEF TakeCommand
<1>12. ASSUME NEW p \in Contexts, ListDue(p) PROVE CountInv'
    <2>1. cancel'[p].pc = "listed" /\ cancel'[p].runner = command.runner
        BY <1>12 DEF ListDue, TypeOK
    <2>2. \A q \in Contexts : q # p =>
              cancel'[q] = cancel[q] /\ (Owned(q, "agent_command")' => Owned(q, "agent_command"))
        BY <1>12 DEF ListDue, TypeOK, Owned
    <2> QED BY <1>12, <2>1, <2>2, CountKept DEF ListDue
<1>13. ASSUME NEW p \in Contexts, SkipCommand(p) PROVE CountInv'
    <2>1. cancel'[p] = NoCancel
        BY <1>13 DEF SkipCommand, TypeOK
    <2>2. \A q \in Contexts : q # p =>
              cancel'[q] = cancel[q] /\ (Owned(q, "agent_command")' => Owned(q, "agent_command"))
        BY <1>13 DEF SkipCommand, TypeOK, Owned
    <2> QED BY <1>13, <1>j, <2>1, <2>2, CountKept DEF SkipCommand
<1>14. ASSUME NEW p \in Contexts, ReadTask(p) PROVE CountInv'
    <2>1. SameOwner
        BY <1>14, <1>f, <1>g, <1>i DEF ReadTask
    <2>2. \A q \in Contexts : q # p => cancel'[q] = cancel[q]
        BY <1>14 DEF ReadTask, TypeOK
    <2>3. /\ command'.attempts = command.attempts /\ command'.runner = command.runner
          /\ command'.outcome = "cancel_failed" =>
                 command.outcome = "cancel_failed" \/ task.state = "cancel_failed"
        BY <1>14 DEF ReadTask, Completed, OutcomeOf, TypeOK, Commands
    <2>4. CASE cancel' = [cancel EXCEPT ![p] = NoCancel]
        <3>1. cancel'[p] = NoCancel
            BY <2>4 DEF TypeOK
        <3> QED BY <1>14, <1>j, <2>1, <2>2, <2>3, <3>1, CountKept DEF ReadTask, SameOwner
    <2>5. CASE cancel' = [cancel EXCEPT ![p].pc =
                              IF cancel[p].runner \/ task.runner THEN "calling" ELSE "confirmed"]
               /\ UNCHANGED <<command, lease>>
        <3>1. /\ cancel'[p].runner = cancel[p].runner
              /\ cancel'[p].pc \in {"calling", "confirmed"}
              /\ cancel'[p].pc = "calling" => cancel[p].runner \/ task.runner
            BY <2>5 DEF TypeOK, CancelFlows
        <3>2. UNCHANGED <<task, refusals>>
            BY <1>14 DEF ReadTask
        <3>3. UnknownIsUncalled'
            BY <2>2, <2>5, <3>1, <3>2 DEF CountInv, UnknownIsUncalled
        <3>4. AttemptsAreRefusals'
            BY <2>2, <2>5, <3>1, <3>2 DEF CountInv, AttemptsAreRefusals, Owned
        <3> QED BY <3>3, <3>4 DEF CountInv
    <2> QED BY <1>14, <2>4, <2>5 DEF ReadTask
<1>15. ASSUME NEW p \in Contexts, CallRunner(p) PROVE CountInv'
    <2>1. \A q \in Contexts : q # p => cancel'[q] = cancel[q]
        BY <1>15 DEF CallRunner, TypeOK
    <2>2. cancel'[p].runner = cancel[p].runner /\ cancel'[p].pc \in {"confirmed", "refused"}
        BY <1>15 DEF CallRunner, TypeOK, CancelFlows
    <2>3. task.runner
        BY <1>15 DEF CallRunner, CountInv, UnknownIsUncalled
    <2>4. UNCHANGED <<task, command, lease>>
        BY <1>15 DEF CallRunner
    <2>5. UnknownIsUncalled'
        BY <2>3, <2>4 DEF UnknownIsUncalled
    <2>6. refusals' = refusals \/ refusals' = refusals + 1
        BY <1>15 DEF CallRunner
    <2>7. cancel'[p].pc = "refused" => refusals' = refusals + 1
        BY <1>15 DEF CallRunner, TypeOK, CancelFlows
    <2>8. command.attempts \in Nat /\ refusals \in Nat
        BY DEF TypeOK, Commands
    <2>9. AttemptsAreRefusals'
        BY <2>1, <2>2, <2>4, <2>6, <2>7, <2>8 DEF CountInv, AttemptsAreRefusals, Owned
    <2> QED BY <2>5, <2>9 DEF CountInv
<1>16. ASSUME NEW p \in Contexts, RecordCancelled(p) PROVE CountInv'
    <2>1. Kept
        BY <1>16, <1>a, <1>b, <1>e DEF RecordCancelled
    <2>2. /\ command'.attempts = command.attempts /\ command'.runner = command.runner
          /\ command'.outcome = "cancel_failed" =>
                 command.outcome = "cancel_failed" \/ task'.state = "cancel_failed"
        BY <1>16 DEF RecordCancelled, Completed, OutcomeOf, TypeOK, Commands
    <2>3. lease'["agent_command"] \in {lease["agent_command"], Free}
        BY <1>16, ReleasedOwner, <1>i DEF RecordCancelled, Released, TypeOK, Leases, Kinds
    <2>4. cancel'[p] = NoCancel /\ \A q \in Contexts : q # p => cancel'[q] = cancel[q]
        BY <1>16 DEF RecordCancelled, TypeOK
    <2> QED BY <1>16, <1>j, <2>1, <2>2, <2>3, <2>4, CommandOwner, CountKept DEF RecordCancelled
<1>17. ASSUME NEW p \in Contexts, Defer(p) PROVE CountInv'
    <2>1. task.runner /\ UNCHANGED <<task, refusals>>
        BY <1>17 DEF Defer, CountInv, UnknownIsUncalled
    <2>2. UnknownIsUncalled'
        BY <2>1 DEF UnknownIsUncalled
    <2>3. \A q \in Contexts : q # p => cancel'[q] = cancel[q]
        BY <1>17 DEF Defer, TypeOK
    <2>4. SameOwner
        BY <1>17, <1>f, <1>g, <1>i DEF Defer
    <2>5. command.attempts \in Nat /\ refusals \in Nat /\ MaxAttempts \in Nat
        BY AgentAssumption DEF TypeOK, Commands
    <2>6. CASE ~Owned(p, "agent_command")
        <3>1. command' = command /\ cancel'[p] = NoCancel
            BY <1>17, <2>6 DEF Defer, TypeOK
        <3>2. AttemptsAreRefusals'
            BY <1>j, <2>1, <2>3, <2>4, <3>1 DEF CountInv, AttemptsAreRefusals, SameOwner
        <3> QED BY <2>2, <3>2 DEF CountInv
    <2>7. CASE Owned(p, "agent_command")
        <3>1. command.attempts < refusals
            BY <1>17, <2>7 DEF Defer, CountInv, AttemptsAreRefusals
        <3>2. /\ command'.attempts \in {command.attempts, command.attempts + 1}
              /\ command'.outcome = command.outcome
            BY <1>17, <2>7 DEF Defer, TypeOK, Commands
        <3>3. cancel'[p].pc \in {"idle", "giving_up"}
              /\ (cancel'[p].pc = "giving_up" => command'.attempts >= MaxAttempts)
            BY <1>17, <1>j, <2>7 DEF Defer, Spent, TypeOK, CancelFlows
        <3>4. \A q \in Contexts : q # p => ~Owned(q, "agent_command")'
            BY <2>4, <2>7 DEF SameOwner, Owned
        <3>5. \A q \in Contexts : cancel'[q].pc = "giving_up" => command'.attempts >= MaxAttempts
            BY <2>3, <2>5, <3>2, <3>3 DEF CountInv, AttemptsAreRefusals
        <3>6. \A q \in Contexts : ~(cancel'[q].pc = "refused" /\ Owned(q, "agent_command")')
            BY <3>3, <3>4
        <3>7. task'.state = "cancel_failed" \/ command'.outcome = "cancel_failed"
                  => command'.attempts >= MaxAttempts
            BY <2>1, <2>5, <3>2 DEF CountInv, AttemptsAreRefusals
        <3>8. command'.attempts <= refusals'
            BY <2>1, <2>5, <3>1, <3>2
        <3> QED BY <2>2, <3>5, <3>6, <3>7, <3>8 DEF CountInv, AttemptsAreRefusals
    <2> QED BY <2>6, <2>7
<1>18. ASSUME NEW p \in Contexts, GiveUp(p) PROVE CountInv'
    <2>1. command.attempts >= MaxAttempts
        BY <1>18 DEF GiveUp, CountInv, AttemptsAreRefusals
    <2>2. task.runner => task'.runner
        BY <1>18, RecordFacts DEF GiveUp, AgentStates, RunStates, TerminalStates
    <2>3. command'.attempts = command.attempts /\ command'.runner = command.runner
        BY <1>18 DEF GiveUp, Completed, TypeOK, Commands
    <2>4. SameOwner
        BY <1>18, <1>g, <1>i DEF GiveUp
    <2>5. cancel'[p] = NoCancel /\ \A q \in Contexts : q # p => cancel'[q] = cancel[q]
        BY <1>18 DEF GiveUp, TypeOK
    <2> QED BY <1>18, <1>j, <2>1, <2>2, <2>3, <2>4, <2>5, CountKept DEF GiveUp, SameOwner
<1>19. ASSUME NEW p \in Contexts, StartBridge(p) PROVE CountInv'
    BY <1>19, <1>d, <1>e, <1>h, <1>i DEF StartBridge
<1>20. ASSUME NEW p \in Contexts, CheckSnapshot(p) PROVE CountInv'
    BY <1>20, <1>c, <1>d, <1>e, <1>f, <1>g, <1>i DEF CheckSnapshot, RecordEnd
<1>21. ASSUME NEW p \in Contexts, StreamFrame(p) PROVE CountInv'
    BY <1>21, <1>a, <1>b, <1>d, <1>e, <1>f, <1>g, <1>i DEF StreamFrame
<1>22. ASSUME NEW p \in Contexts, StreamEnd(p) PROVE CountInv'
    BY <1>22, <1>c, <1>d, <1>g, <1>i DEF StreamEnd, RecordEnd
<1>23. ASSUME NEW p \in Contexts, LoseBridge(p) PROVE CountInv'
    BY <1>23, <1>d, <1>e, <1>f DEF LoseBridge
<1>24. ASSUME NEW p \in Contexts, Crash(p) PROVE CountInv'
    <2>1. lease'["agent_command"] \in {lease["agent_command"], Gone}
        BY <1>24, KindNames DEF Crash
    <2>2. cancel'[p] = NoCancel /\ \A q \in Contexts : q # p => cancel'[q] = cancel[q]
        BY <1>24 DEF Crash, TypeOK
    <2> QED BY <1>24, <1>j, <2>1, <2>2, CommandOwner, CountKept DEF Crash
<1>25. ASSUME NEW k \in Kinds, Overrun(k) PROVE CountInv'
    <2>1. lease'["agent_command"] \in {lease["agent_command"], Free}
        BY <1>25, KindNames DEF Overrun, TypeOK, Leases
    <2> QED BY <1>25, <2>1, CommandOwner, <1>d, <1>e DEF Overrun, SameOwner
<1>26. ASSUME NEW k \in Kinds, Expire(k) PROVE CountInv'
    <2>1. lease'["agent_command"] \in {lease["agent_command"], Free}
        BY <1>26, KindNames DEF Expire, TypeOK, Leases
    <2> QED BY <1>26, <2>1, CommandOwner, <1>d, <1>e DEF Expire, SameOwner
<1> QED BY <1>1, <1>2, <1>3, <1>4, <1>5, <1>6, <1>7, <1>8, <1>9, <1>10, <1>11, <1>12, <1>13,
           <1>14, <1>15, <1>16, <1>17, <1>18, <1>19, <1>20, <1>21, <1>22, <1>23, <1>24, <1>25,
           <1>26
        DEF Next, SubmitStep, CancelStep, BridgeStep

\* The inductive invariant: every initial state satisfies it and every step keeps it.
LEMMA StepInv == IInv /\ [Next]_vars => IInv'
<1>1. ASSUME IInv, Next PROVE IInv'
    BY <1>1, TypeStep, AgreesStep, ForceStep, OutcomeStep, RunnerStep, CountStep DEF IInv
<1>2. ASSUME IInv, UNCHANGED vars PROVE IInv'
    BY <1>2
       DEF IInv, vars, TypeOK, TerminalAgrees, ForceKnowsRunner, OutcomeMatchesTask, RunnerInv,
                BoundTaskEndsLikeRunner, CountInv, UnknownIsUncalled, AttemptsAreRefusals, Owned, Ended
<1> QED BY <1>1, <1>2

\* The rows of the task, the run, the command and the leases are well formed, and the facts that
\* the flows of one task rely on hold, in every state.
THEOREM AgentInvariant == Spec => []IInv
BY InitInv, StepInv, PTL DEF Spec

\* The Agent row and its workflow run never show different ends (record_task_event with
\* settle_agent_terminal_in_transaction).
THEOREM TerminalAgreesHolds == Spec => []TerminalAgrees
<1>1. IInv => TerminalAgrees
    BY DEF IInv
<1> QED BY <1>1, AgentInvariant, PTL

\* A task that ended is never revived or ended differently by anything that arrives late.
THEOREM TerminalIsFinalHolds == Spec => TerminalIsFinal
<1>1. IInv /\ [Next]_vars => [Ended => task'.state = task.state]_vars
    BY AgreesStep DEF IInv, SameEnd
<1> QED BY <1>1, AgentInvariant, PTL DEF Spec, TerminalIsFinal

\* A completed cancel command tells what became of its task.
THEOREM OutcomeMatchesTaskHolds == Spec => []OutcomeMatchesTask
<1>1. IInv => OutcomeMatchesTask
    BY DEF IInv
<1> QED BY <1>1, AgentInvariant, PTL

\* A task bound to a runner succeeds, fails or times out only as the runner did: the submit fence
\* keeps the rejection of an overtaken submit out.
THEOREM BoundTaskEndsLikeRunnerHolds == Spec => []BoundTaskEndsLikeRunner
<1>1. IInv => BoundTaskEndsLikeRunner
    BY DEF IInv
<1> QED BY <1>1, AgentInvariant, PTL

\* The rows of a task tell one story of how it ended: the task and its run, the cancel command and
\* the task, and the task and the runner it was bound to.
THEOREM OutcomesAgreeHolds == Spec => []OutcomesAgree
<1>1. IInv => OutcomesAgree
    BY DEF IInv, OutcomesAgree
<1> QED BY <1>1, AgentInvariant, PTL

\* A cancel is given up only after the runner refused it MaxAttempts times since the command was
\* last reset (_defer_cancel_command): the reset by a late runner id finds no attempt to forget.
THEOREM GivesUpWhenSpentHolds == Spec => []GivesUpWhenSpent
<1>1. ASSUME IInv PROVE GivesUpWhenSpent
    <2>1. command.attempts \in Nat /\ refusals \in Nat /\ MaxAttempts \in Nat
        BY <1>1, AgentAssumption DEF IInv, TypeOK, Commands
    <2>2. command.attempts <= refusals
        BY <1>1 DEF IInv, CountInv, AttemptsAreRefusals
    <2>3. command.outcome = "cancel_failed" => command.attempts >= MaxAttempts
        BY <1>1 DEF IInv, CountInv, AttemptsAreRefusals
    <2> QED BY <2>1, <2>2, <2>3 DEF GivesUpWhenSpent
<1> QED BY <1>1, AgentInvariant, PTL

=============================================================================
