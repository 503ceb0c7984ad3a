----------------------- MODULE WorkflowDispatchProofs -----------------------
(***************************************************************************)
(* Machine-checked proofs about WorkflowDispatch, for every set of         *)
(* processes and runs and every value of the bounds.                       *)
(***************************************************************************)
EXTENDS WorkflowDispatch, TLAPS

-----------------------------------------------------------------------------
(* Typing of the operators the actions are built from. *)

LEMMA NoTaskType == NoTask \in Tasks
BY DEF NoTask, Tasks, Pcs, Goals, Beats

LEMMA PastType ==
    ASSUME NEW t \in Tasks, NEW pc \in Pcs, NEW goal \in Goals
    PROVE  Past(t, pc, goal) \in Tasks
BY DEF Past, NoTask, Tasks, Pcs, Goals, Beats, HandlerBusy, HandlerEnds

LEMMA LeaseType ==
    ASSUME NEW row \in LeaseRow, NEW w \in Workers, NEW t \in Nat, NEW f \in Nat
    PROVE  /\ Acquire(row, w, t) \in LeaseRow
           /\ Renew(row, t) \in LeaseRow
           /\ Release(row, w, f, t) \in LeaseRow
BY LeaseAssumption DEF LeaseRow, Acquire, Renew, Release, Owned

LEMMA TaskUpdateType ==
    ASSUME NEW t \in Tasks
    PROVE  /\ \A x \in Pcs : [t EXCEPT !.pc = x] \in Tasks
           /\ \A x \in Beats : [t EXCEPT !.heartbeat = x] \in Tasks
           /\ \A x \in {"none"} \cup HandlerBusy \cup HandlerEnds : [t EXCEPT !.handler = x] \in Tasks
           /\ [t EXCEPT !.cancel_event = TRUE] \in Tasks
           /\ \A x \in Beats, n \in Nat : [t EXCEPT !.heartbeat = x, !.seen = n] \in Tasks
           /\ \A x \in Beats, l \in BOOLEAN, c \in BOOLEAN :
                [t EXCEPT !.heartbeat = x, !.seen = 0, !.lease_lost = @ \/ l,
                          !.cancel_event = @ \/ c] \in Tasks
           /\ \A x \in Pcs, h \in Beats : [t EXCEPT !.pc = x, !.heartbeat = h] \in Tasks
           /\ \A x \in Pcs : [t EXCEPT !.pc = x, !.handler = "start"] \in Tasks
<1>1. \A x \in Pcs : [t EXCEPT !.pc = x] \in Tasks
  BY DEF Tasks
<1>2. \A x \in Beats : [t EXCEPT !.heartbeat = x] \in Tasks
  BY DEF Tasks
<1>3. \A x \in {"none"} \cup HandlerBusy \cup HandlerEnds : [t EXCEPT !.handler = x] \in Tasks
  BY DEF Tasks
<1>4. [t EXCEPT !.cancel_event = TRUE] \in Tasks
  BY DEF Tasks
<1>5. \A x \in Beats, l \in BOOLEAN, c \in BOOLEAN :
        [t EXCEPT !.heartbeat = x, !.seen = 0, !.lease_lost = @ \/ l,
                  !.cancel_event = @ \/ c] \in Tasks
  BY DEF Tasks
<1>8. \A x \in Beats, n \in Nat : [t EXCEPT !.heartbeat = x, !.seen = n] \in Tasks
  BY DEF Tasks
<1>6. \A x \in Pcs, h \in Beats : [t EXCEPT !.pc = x, !.heartbeat = h] \in Tasks
  BY DEF Tasks
<1>7. \A x \in Pcs : [t EXCEPT !.pc = x, !.handler = "start"] \in Tasks
  BY DEF Tasks, HandlerBusy
<1> QED BY <1>1, <1>2, <1>3, <1>4, <1>5, <1>6, <1>7, <1>8

LEMMA RunUpdateType ==
    ASSUME NEW f \in [Runs -> RunRows], NEW r \in Runs
    PROVE  /\ [f EXCEPT ![r].marker = TRUE] \in [Runs -> RunRows]
           /\ \A s \in RunStates : [f EXCEPT ![r].state = s] \in [Runs -> RunRows]
BY DEF RunRows

LEMMA SetTaskType ==
    ASSUME TypeOK, NEW w \in Workers, NEW r \in Runs, NEW t \in Tasks, SetTask(w, r, t)
    PROVE  task' \in [Workers -> [Runs -> Tasks]]
BY DEF TypeOK, SetTask

LEMMA WriteStateType ==
    ASSUME TypeOK, NEW r \in Runs, NEW s \in RunStates, WriteState(r, s)
    PROVE  run' \in [Runs -> RunRows]
<1> DEFINE b == run[r].started \/ s = "running"
           row == [run[r] EXCEPT !.state = s, !.started = b]
<1>1. run[r] \in RunRows /\ run \in [Runs -> RunRows]
  BY DEF TypeOK
<1>2. b \in BOOLEAN
  OBVIOUS
<1>3. run' = [run EXCEPT ![r] = row]
  BY <1>1 DEF WriteState, RunRows
<1>4. row \in RunRows
  <2> HIDE DEF b
  <2> QED BY <1>1, <1>2 DEF RunRows
<1> HIDE DEF row
<1> QED BY <1>1, <1>3, <1>4

-----------------------------------------------------------------------------
(* Type correctness. *)

LEMMA InitTypeOK == Init => TypeOK
<1> SUFFICES ASSUME Init PROVE TypeOK
  OBVIOUS
<1>1. run \in [Runs -> RunRows]
  BY DeadlineAssumption DEF Init, RunRows, RunStates, ActiveStates
<1>2. lease \in [Runs -> LeaseRow]
  BY DEF Init, LeaseRow, FreshLease
<1>3. task \in [Workers -> [Runs -> Tasks]]
  BY NoTaskType DEF Init
<1> QED BY <1>1, <1>2, <1>3 DEF Init, TypeOK

LEMMA TypeInductive == TypeOK /\ [Next]_vars => TypeOK'
<1> SUFFICES ASSUME TypeOK, [Next]_vars PROVE TypeOK'
  OBVIOUS
<1>1. ASSUME NEW w \in Workers, NEW r \in Runs, Claim(w, r) PROVE TypeOK'
  <2>1. lease[r] \in LeaseRow /\ now \in Nat
    BY DEF TypeOK
  <2> DEFINE term == Acquire(lease[r], w, now)
             fresh == [NoTask EXCEPT !.fence = term.fence, !.heartbeat = "sleep"]
  <2>2. term \in LeaseRow /\ term.fence \in Nat
    <3>1. term \in LeaseRow
      BY <2>1, LeaseType
    <3> QED BY <3>1 DEF LeaseRow
  <2>3. fresh \in Tasks
    BY <2>2, NoTaskType DEF Tasks, Beats
  <2>4. \A e \in {"begin", "claimed"} : [fresh EXCEPT !.pc = e] \in Tasks
    BY <2>3, TaskUpdateType DEF Pcs
  <2>5. task' \in [Workers -> [Runs -> Tasks]]
    BY <1>1, <2>4, SetTaskType DEF Claim, TypeOK
  <2>6. lease' \in [Runs -> LeaseRow]
    <3>1. Release(term, w, term.fence, now) \in LeaseRow
      BY <2>1, <2>2, LeaseType
    <3> QED BY <1>1, <2>2, <3>1 DEF Claim, TypeOK
  <2> QED BY <1>1, <2>5, <2>6 DEF Claim, TypeOK
<1>2. ASSUME NEW w \in Workers, NEW r \in Runs, RecordRestored(w, r) PROVE TypeOK'
  <2>1. task[w][r] \in Tasks
    BY DEF TypeOK
  <2>2. \E t \in Tasks : SetTask(w, r, t)
    BY <1>2, <2>1, NoTaskType, TaskUpdateType DEF RecordRestored, Pcs
  <2> QED BY <1>2, <2>2, SetTaskType DEF RecordRestored, TypeOK
<1>3. ASSUME NEW w \in Workers, NEW r \in Runs, Begin(w, r) PROVE TypeOK'
  <2>1. task[w][r] \in Tasks
    BY DEF TypeOK
  <2>2. \E t \in Tasks : SetTask(w, r, t)
    BY <1>3, <2>1, PastType, TaskUpdateType DEF Begin, Pcs, Goals, ToSettle, ToFinally, TypeOK, RunRows, RunStates, ActiveStates, Terminal
  <2> QED BY <1>3, <2>2, SetTaskType DEF Begin, TypeOK
<1>4. ASSUME NEW w \in Workers, NEW r \in Runs, Start(w, r) PROVE TypeOK'
  <2>1. task[w][r] \in Tasks
    BY DEF TypeOK
  <2>2. \E t \in Tasks : SetTask(w, r, t)
    BY <1>4, <2>1, PastType, TaskUpdateType DEF Start, Pcs, Goals, ToSettle, ToFinally
  <2>3. run' \in [Runs -> RunRows]
    BY <1>4, WriteStateType DEF Start, TypeOK, RunStates, ActiveStates
  <2> QED BY <1>4, <2>2, <2>3, SetTaskType DEF Start, TypeOK
<1>5. ASSUME NEW w \in Workers, NEW r \in Runs, Launch(w, r) PROVE TypeOK'
  <2>1. task[w][r] \in Tasks
    BY DEF TypeOK
  <2>2. \E t \in Tasks : SetTask(w, r, t)
    BY <1>5, <2>1, PastType, TaskUpdateType DEF Launch, Pcs, Goals, ToSettle
  <2> QED BY <1>5, <2>2, SetTaskType DEF Launch, TypeOK
<1>6. ASSUME NEW w \in Workers, NEW r \in Runs, WakeToStop(w, r) PROVE TypeOK'
  <2>1. task[w][r] \in Tasks
    BY DEF TypeOK
  <2>2. \E t \in Tasks : SetTask(w, r, t)
    BY <1>6, <2>1, PastType DEF WakeToStop, Pcs, Goals
  <2> QED BY <1>6, <2>2, SetTaskType DEF WakeToStop, TypeOK
<1>7. ASSUME NEW w \in Workers, NEW r \in Runs, WakeToTimeout(w, r) PROVE TypeOK'
  <2>1. task[w][r] \in Tasks
    BY DEF TypeOK
  <2>2. \E t \in Tasks : SetTask(w, r, t)
    BY <1>7, <2>1, PastType DEF WakeToTimeout, Pcs, Goals
  <2> QED BY <1>7, <2>2, SetTaskType DEF WakeToTimeout, TypeOK
<1>8. ASSUME NEW w \in Workers, NEW r \in Runs, WakeToResult(w, r) PROVE TypeOK'
  <2>1. [task[w][r] EXCEPT !.heartbeat = "off"] \in Tasks
    <3>1. task[w][r] \in Tasks
      BY DEF TypeOK
    <3> QED BY <3>1, TaskUpdateType DEF Beats
  <2>2. \E t \in Tasks : SetTask(w, r, t)
    BY <1>8, <2>1, PastType DEF WakeToResult, Pcs, Goals, ToSettle, ToFinally
  <2> QED BY <1>8, <2>2, SetTaskType DEF WakeToResult, TypeOK
<1>9. ASSUME NEW w \in Workers, NEW r \in Runs, Stopped(w, r) PROVE TypeOK'
  <2>1. task[w][r] \in Tasks /\ task[w][r].goal \in Goals
    BY DEF TypeOK, Tasks
  <2>2. \E t \in Tasks : SetTask(w, r, t)
    BY <1>9, <2>1, PastType DEF Stopped, Pcs, Goals, ToSettle, ToFinally
  <2> QED BY <1>9, <2>2, SetTaskType DEF Stopped, TypeOK
<1>10. ASSUME NEW w \in Workers, NEW r \in Runs, Settle(w, r) PROVE TypeOK'
  <2>1. task[w][r] \in Tasks
    BY DEF TypeOK
  <2>2. \E t \in Tasks : SetTask(w, r, t)
    BY <1>10, <2>1, PastType DEF Settle, Pcs, Goals, ToSettle, ToFinally
  <2>3. CASE CanSet(w, r, task[w][r].goal) /\ WriteState(r, task[w][r].goal)
    <3>1. task[w][r].goal \in RunStates
      BY <2>3 DEF CanSet, LegalTransitions, RunStates, ActiveStates, TerminalStates
    <3>2. run' \in [Runs -> RunRows]
      BY <2>3, <3>1, WriteStateType
    <3> QED BY <1>10, <2>2, <3>2, SetTaskType DEF Settle, TypeOK
  <2>4. CASE UNCHANGED run
    BY <1>10, <2>2, <2>4, SetTaskType DEF Settle, TypeOK
  <2> QED BY <1>10, <2>3, <2>4 DEF Settle
<1>11. ASSUME NEW w \in Workers, NEW r \in Runs, Finally(w, r) PROVE TypeOK'
  <2>1. task[w][r].fence \in Nat /\ lease[r] \in LeaseRow /\ now \in Nat
    BY DEF TypeOK, Tasks
  <2>2. Release(lease[r], w, task[w][r].fence, now) \in LeaseRow
    BY <2>1, LeaseType
  <2> QED BY <1>11, <2>2, NoTaskType, SetTaskType DEF Finally, TypeOK
<1>12. ASSUME NEW w \in Workers, NEW r \in Runs, HeartbeatRenew(w, r) PROVE TypeOK'
  <2>1. task[w][r] \in Tasks /\ lease[r] \in LeaseRow /\ now \in Nat
    BY DEF TypeOK
  <2>2. \E t \in Tasks : SetTask(w, r, t)
    BY <1>12, <2>1, TaskUpdateType DEF HeartbeatRenew, HeartbeatEnds, Beats
  <2>3. Renew(lease[r], task[w][r].seen) \in LeaseRow
    BY <2>1, LeaseType DEF Tasks
  <2> QED BY <1>12, <2>2, <2>3, SetTaskType DEF HeartbeatRenew, TypeOK
<1>28. ASSUME NEW w \in Workers, NEW r \in Runs, HeartbeatWakes(w, r) PROVE TypeOK'
  <2>1. task[w][r] \in Tasks /\ now \in Nat
    BY DEF TypeOK
  <2>2. \E t \in Tasks : SetTask(w, r, t)
    BY <1>28, <2>1, TaskUpdateType DEF HeartbeatWakes, Beats
  <2> QED BY <1>28, <2>2, SetTaskType DEF HeartbeatWakes, TypeOK
<1>13. ASSUME NEW w \in Workers, NEW r \in Runs, HeartbeatCheck(w, r) PROVE TypeOK'
  <2>1. task[w][r] \in Tasks
    BY DEF TypeOK
  <2>2. \E t \in Tasks : SetTask(w, r, t)
    BY <1>13, <2>1, TaskUpdateType DEF HeartbeatCheck, HeartbeatEnds, Beats
  <2> QED BY <1>13, <2>2, SetTaskType DEF HeartbeatCheck, TypeOK
<1>14. ASSUME NEW w \in Workers, NEW r \in Runs, HeartbeatError(w, r) PROVE TypeOK'
  <2>1. task[w][r] \in Tasks
    BY DEF TypeOK
  <2>2. \E t \in Tasks : SetTask(w, r, t)
    BY <1>14, <2>1, TaskUpdateType DEF HeartbeatError, HeartbeatEnds, Beats
  <2> QED BY <1>14, <2>2, SetTaskType DEF HeartbeatError, TypeOK, Fault
<1>15. ASSUME NEW w \in Workers, NEW r \in Runs, HandlerRead(w, r) PROVE TypeOK'
  <2>1. task[w][r] \in Tasks
    BY DEF TypeOK
  <2>2. \E t \in Tasks : SetTask(w, r, t)
    BY <1>15, <2>1, TaskUpdateType DEF HandlerRead, SetHandler, HandlerBusy, HandlerEnds
  <2> QED BY <1>15, <2>2, SetTaskType DEF HandlerRead, TypeOK
<1>16. ASSUME NEW w \in Workers, NEW r \in Runs, HandlerCommit(w, r) PROVE TypeOK'
  <2>1. task[w][r] \in Tasks
    BY DEF TypeOK
  <2>2. \E t \in Tasks : SetTask(w, r, t)
    BY <1>16, <2>1, TaskUpdateType DEF HandlerCommit, SetHandler, HandlerBusy, HandlerEnds
  <2>3. run' \in [Runs -> RunRows]
    BY SMTT(60), <1>16, RunUpdateType DEF HandlerCommit, TypeOK
  <2>4. generation' \in [Runs -> Nat]
    BY <1>16 DEF HandlerCommit, TypeOK
  <2> QED BY <1>16, <2>2, <2>3, <2>4, SetTaskType DEF HandlerCommit, TypeOK
<1>17. ASSUME NEW w \in Workers, NEW r \in Runs, HandlerReturn(w, r) PROVE TypeOK'
  <2>1. task[w][r] \in Tasks
    BY DEF TypeOK
  <2>2. \E t \in Tasks : SetTask(w, r, t)
    BY <1>17, <2>1, TaskUpdateType DEF HandlerReturn, SetHandler, HandlerBusy, HandlerEnds
  <2> QED BY <1>17, <2>2, SetTaskType DEF HandlerReturn, TypeOK
<1>18. ASSUME NEW w \in Workers, NEW r \in Runs, HandlerRaise(w, r) PROVE TypeOK'
  <2>1. task[w][r] \in Tasks
    BY DEF TypeOK
  <2>2. \E t \in Tasks : SetTask(w, r, t)
    BY <1>18, <2>1, TaskUpdateType DEF HandlerRaise, SetHandler, HandlerBusy, HandlerEnds
  <2> QED BY <1>18, <2>2, SetTaskType DEF HandlerRaise, TypeOK
<1>19. ASSUME NEW w \in Workers, NEW r \in Runs, HandlerCancelled(w, r) PROVE TypeOK'
  <2>1. task[w][r] \in Tasks
    BY DEF TypeOK
  <2>2. \E t \in Tasks : SetTask(w, r, t)
    BY <1>19, <2>1, TaskUpdateType DEF HandlerCancelled, SetHandler, HandlerBusy, HandlerEnds
  <2> QED BY <1>19, <2>2, SetTaskType DEF HandlerCancelled, TypeOK
<1>20. ASSUME NEW w \in Workers, NEW r \in Runs, RequestCancel(w, r) PROVE TypeOK'
  <2>1. run' \in [Runs -> RunRows]
    BY <1>20, RunUpdateType DEF RequestCancel, TypeOK, RunStates, ActiveStates
  <2> QED BY <1>20, <2>1 DEF RequestCancel, TypeOK
<1>21. ASSUME NEW w \in Workers, NEW r \in Runs, SignalCancel(w, r) PROVE TypeOK'
  <2>1. [task[w][r] EXCEPT !.cancel_event = TRUE] \in Tasks
    <3>1. task[w][r] \in Tasks
      BY DEF TypeOK
    <3> QED BY <3>1, TaskUpdateType
  <2>2. task' \in [Workers -> [Runs -> Tasks]]
    BY <1>21, <2>1, SetTaskType DEF SignalCancel, TypeOK
  <2> QED BY <1>21, <2>2 DEF SignalCancel, TypeOK
<1>22. ASSUME NEW w \in Workers, NEW r \in Runs, StoreError(w, r) PROVE TypeOK'
  <2>1. task[w][r] \in Tasks
    BY DEF TypeOK
  <2>2. \E t \in Tasks : SetTask(w, r, t)
    BY <1>22, <2>1, PastType, NoTaskType DEF StoreError, Pcs, Goals, ToSettle, ToFinally
  <2> QED BY <1>22, <2>2, SetTaskType DEF StoreError, TypeOK, Fault
<1>23. ASSUME NEW w \in Workers, Crash(w) PROVE TypeOK'
  BY <1>23, NoTaskType DEF Crash, TypeOK, Fault
<1>24. ASSUME NEW w \in Workers, Close(w) PROVE TypeOK'
  <2>1. ASSUME NEW r \in Runs PROVE CancelledByClose(w, r) \in Tasks
    <3>1. task[w][r] \in Tasks /\ task[w][r].heartbeat \in Beats
      BY DEF TypeOK, Tasks
    <3>2. ToFinally(task[w][r]) \in Tasks
      BY <3>1, PastType DEF ToFinally, Pcs, Goals
    <3>3. \A h \in Beats : [task[w][r] EXCEPT !.pc = "abandon", !.heartbeat = h] \in Tasks
      BY <3>1, TaskUpdateType DEF Pcs
    <3>4. [task[w][r] EXCEPT !.pc = "abandon",
             !.heartbeat = IF HandlerRunning(w, r) THEN @ ELSE "off"] \in Tasks
      BY <3>1, <3>3 DEF Beats
    <3> QED BY <3>2, <3>4, NoTaskType DEF CancelledByClose
  <2> QED BY <1>24, <2>1 DEF Close, TypeOK, Fault
<1>25. ASSUME NEW w \in Workers, Exit(w) PROVE TypeOK'
  BY <1>25, NoTaskType DEF Exit, TypeOK
<1>26. CASE Tick
  BY <1>26 DEF Tick, TypeOK
<1>27. CASE UNCHANGED vars
  BY <1>27 DEF vars, TypeOK
<1> QED
  BY <1>1, <1>2, <1>3, <1>4, <1>5, <1>6, <1>7, <1>8, <1>9, <1>10, <1>11, <1>12, <1>13, <1>14,
     <1>15, <1>16, <1>17, <1>18, <1>19, <1>20, <1>21, <1>22, <1>23, <1>24, <1>25, <1>26, <1>27, <1>28
  DEF Next, Execute, Heartbeat, Handler

\* Every reachable state is well typed: the rows, tasks and leases the
\* dispatcher processes build are records of the shapes the code declares.
THEOREM TypeCorrect == Spec => []TypeOK
BY InitTypeOK, TypeInductive, PTL DEF Spec

-----------------------------------------------------------------------------
(* The inductive invariant. *)

\* Tasks that exist only because the run left the state pending under a lease.
NeedsStart(t) == t.pc \in {"launch", "wait"} \/ t.goal = "succeeded" \/ t.handler # "none"

\* What ties a task to the lease row and the run row.  An execution whose term
\* is still the last one granted and whose handler saw no marker is right about
\* that: nobody else could have written the marker since.
TaskInv(w, r) ==
    /\ task[w][r].pc = "none" => ~NeedsStart(task[w][r])
    /\ task[w][r].pc # "none" =>
         /\ task[w][r].fence <= lease[r].fence
         /\ task[w][r].fence = lease[r].fence => lease[r].holder = w
    /\ task[w][r].handler = "work" /\ task[w][r].fence = lease[r].fence => ~run[r].marker
    /\ NeedsStart(task[w][r]) => run[r].started

RunInv(r) ==
    /\ generation[r] = (IF run[r].marker THEN 1 ELSE 0)
    /\ run[r].state = "running" => run[r].started
    /\ run[r].started => run[r].state # "pending"

IInv ==
    /\ TypeOK
    /\ \A r \in Runs : RunInv(r)
    /\ \A w \in Workers, r \in Runs : TaskInv(w, r)
    /\ OneExecutionPerTerm

\* A step that replaces one task, grants no term and writes no marker.
LEMMA TaskStep ==
    ASSUME IInv, TypeOK', NEW w \in Workers, NEW r \in Runs, NEW t, SetTask(w, r, t),
           \A q \in Runs : lease'[q].fence = lease[q].fence /\ lease'[q].holder = lease[q].holder,
           \A q \in Runs : run'[q].marker = run[q].marker /\ (run[q].started => run'[q].started),
           \A q \in Runs : RunInv(q)',
           t.pc = "none" => ~NeedsStart(t),
           t.pc # "none" => task[w][r].pc # "none" /\ t.fence = task[w][r].fence,
           t.handler = "work" => t.pc # "none" /\ (task[w][r].handler = "work" \/ ~run[r].marker),
           NeedsStart(t) => run'[r].started
    PROVE  IInv'
<1>1. task'[w][r] = t
  BY DEF IInv, TypeOK, SetTask
<1>2. \A v \in Workers, q \in Runs : v # w \/ q # r => task'[v][q] = task[v][q]
  BY DEF IInv, TypeOK, SetTask
<1>3. ASSUME NEW v \in Workers, NEW q \in Runs PROVE TaskInv(v, q)'
  <2>1. CASE v = w /\ q = r
    <3>1. TaskInv(w, r)
      BY DEF IInv
    <3> QED BY <1>1, <2>1, <3>1 DEF TaskInv, NeedsStart
  <2>2. CASE v # w \/ q # r
    <3>1. TaskInv(v, q)
      BY DEF IInv
    <3> QED BY <1>2, <2>2, <3>1 DEF TaskInv, NeedsStart
  <2> QED BY <2>1, <2>2
<1>4. OneExecutionPerTerm'
  BY <1>1, <1>2 DEF IInv, OneExecutionPerTerm
<1> QED BY <1>3, <1>4 DEF IInv


\* The shape of the task a step may leave when no row changes.
TaskOk(w, r, t) ==
    /\ t.pc = "none" => ~NeedsStart(t)
    /\ t.pc # "none" => task[w][r].pc # "none" /\ t.fence = task[w][r].fence
    /\ t.handler = "work" => t.pc # "none" /\ (task[w][r].handler = "work" \/ ~run[r].marker)
    /\ NeedsStart(t) => run[r].started

LEMMA QuietStep ==
    ASSUME IInv, TypeOK', NEW w \in Workers, NEW r \in Runs, NEW t, SetTask(w, r, t),
           UNCHANGED <<run, generation, lease>>, TaskOk(w, r, t)
    PROVE  IInv'
<1>1. \A q \in Runs : RunInv(q)'
  BY DEF IInv, RunInv
<1> QED BY <1>1, TaskStep DEF TaskOk

LEMMA PastOk ==
    ASSUME NEW t \in Tasks, NEW pc \in Pcs, NEW goal \in Goals
    PROVE  /\ Past(t, pc, goal) \in Tasks
           /\ Past(t, pc, goal).pc = pc
           /\ Past(t, pc, goal).goal = goal
           /\ Past(t, pc, goal).fence = t.fence
           /\ Past(t, pc, goal).handler = t.handler \/ Past(t, pc, goal).handler = "none"
BY PastType DEF Past

\* Tasks in which only one field, or the heartbeat's fields, changed.
LEMMA UpdateOk ==
    ASSUME NEW w \in Workers, NEW r \in Runs, task[w][r] \in Tasks, TaskInv(w, r),
           task[w][r].pc # "none"
    PROVE  /\ \A x \in Pcs \ {"none", "launch", "wait"} : TaskOk(w, r, [task[w][r] EXCEPT !.pc = x])
           /\ \A x \in Beats : TaskOk(w, r, [task[w][r] EXCEPT !.heartbeat = x])
           /\ \A x \in Beats, n \in Nat : TaskOk(w, r, [task[w][r] EXCEPT !.heartbeat = x, !.seen = n])
           /\ TaskOk(w, r, [task[w][r] EXCEPT !.cancel_event = TRUE])
           /\ \A x \in Beats, l \in BOOLEAN, c \in BOOLEAN :
                TaskOk(w, r, [task[w][r] EXCEPT !.heartbeat = x, !.seen = 0, !.lease_lost = @ \/ l,
                                                !.cancel_event = @ \/ c])
           /\ \A x \in {"none"} \cup HandlerBusy \cup HandlerEnds :
                /\ task[w][r].handler # "none"
                /\ x = "work" => ~run[r].marker
                => TaskOk(w, r, [task[w][r] EXCEPT !.handler = x])
<1>1. \A x \in Pcs \ {"none", "launch", "wait"} : TaskOk(w, r, [task[w][r] EXCEPT !.pc = x])
  BY DEF TaskOk, TaskInv, NeedsStart, Tasks
<1>2. \A x \in Beats : TaskOk(w, r, [task[w][r] EXCEPT !.heartbeat = x])
  BY DEF TaskOk, TaskInv, NeedsStart, Tasks
<1>3. TaskOk(w, r, [task[w][r] EXCEPT !.cancel_event = TRUE])
  BY DEF TaskOk, TaskInv, NeedsStart, Tasks
<1>4. \A x \in Beats, l \in BOOLEAN, c \in BOOLEAN :
        TaskOk(w, r, [task[w][r] EXCEPT !.heartbeat = x, !.seen = 0, !.lease_lost = @ \/ l,
                                        !.cancel_event = @ \/ c])
  BY DEF TaskOk, TaskInv, NeedsStart, Tasks
<1>5. ASSUME NEW x \in {"none"} \cup HandlerBusy \cup HandlerEnds,
             task[w][r].handler # "none", x = "work" => ~run[r].marker
      PROVE  TaskOk(w, r, [task[w][r] EXCEPT !.handler = x])
  BY <1>5 DEF TaskOk, TaskInv, NeedsStart, Tasks
<1>6. \A x \in Beats, n \in Nat : TaskOk(w, r, [task[w][r] EXCEPT !.heartbeat = x, !.seen = n])
  BY DEF TaskOk, TaskInv, NeedsStart, Tasks
<1> QED BY <1>1, <1>2, <1>3, <1>4, <1>5, <1>6

LEMMA NoTaskOk ==
    ASSUME NEW w \in Workers, NEW r \in Runs
    PROVE  TaskOk(w, r, NoTask)
BY DEF TaskOk, NoTask, NeedsStart

LEMMA PastTaskOk ==
    ASSUME NEW w \in Workers, NEW r \in Runs, task[w][r] \in Tasks, TaskInv(w, r),
           task[w][r].pc # "none", NEW pc \in Pcs \ {"none", "launch", "wait"}, NEW goal \in Goals,
           goal = "succeeded" => run[r].started
    PROVE  TaskOk(w, r, Past(task[w][r], pc, goal))
<1>1. pc \in Pcs
  OBVIOUS
<1> QED BY <1>1, PastOk DEF TaskOk, TaskInv, NeedsStart

\* What the control steps of _execute() leave behind.
LEMMA BeginOk ==
    ASSUME IInv, NEW w \in Workers, NEW r \in Runs, task[w][r] \in Tasks, TaskInv(w, r),
           task[w][r].pc # "none", Begin(w, r)
    PROVE  \E t : SetTask(w, r, t) /\ TaskOk(w, r, t)
<1>1. TaskOk(w, r, ToSettle(task[w][r], "failed")) /\ TaskOk(w, r, ToSettle(task[w][r], "cancelled"))
  BY PastTaskOk DEF ToSettle, Pcs, Goals
<1>2. TaskOk(w, r, ToFinally(task[w][r]))
  BY PastTaskOk DEF ToFinally, Pcs, Goals
<1>3. TaskOk(w, r, [task[w][r] EXCEPT !.pc = "start"])
  BY UpdateOk DEF Pcs
<1>4. run[r].state = "running" => TaskOk(w, r, [task[w][r] EXCEPT !.pc = "launch"])
  <2>1. run[r].state = "running" => run[r].started
    BY DEF IInv, RunInv
  <2> QED BY <2>1 DEF TaskOk, TaskInv, NeedsStart, Tasks
<1>5. run[r].state \in RunStates
  BY DEF IInv, TypeOK, RunRows
<1> QED BY <1>1, <1>2, <1>3, <1>4, <1>5 DEF Begin, Terminal, RunStates, ActiveStates

LEMMA LaunchOk ==
    ASSUME IInv, NEW w \in Workers, NEW r \in Runs, task[w][r] \in Tasks, TaskInv(w, r),
           task[w][r].pc # "none", Launch(w, r)
    PROVE  \E t : SetTask(w, r, t) /\ TaskOk(w, r, t)
<1>1. TaskOk(w, r, ToSettle(task[w][r], "timeout"))
  BY PastTaskOk DEF ToSettle, Pcs, Goals
<1>2. run[r].started
  BY DEF Launch, TaskInv, NeedsStart
<1>3. TaskOk(w, r, [task[w][r] EXCEPT !.pc = "wait", !.handler = "start"])
  BY <1>2 DEF TaskOk, TaskInv, NeedsStart, Tasks
<1> QED BY <1>1, <1>3 DEF Launch

LEMMA ResultOk ==
    ASSUME IInv, NEW w \in Workers, NEW r \in Runs, task[w][r] \in Tasks, TaskInv(w, r),
           task[w][r].pc # "none", WakeToResult(w, r)
    PROVE  \E t : SetTask(w, r, t) /\ TaskOk(w, r, t)
<1> DEFINE off == [task[w][r] EXCEPT !.heartbeat = "off"]
<1>1. /\ off \in Tasks
      /\ off.pc = "wait" /\ off.fence = task[w][r].fence /\ off.handler = task[w][r].handler
  <2>1. off \in Tasks
    BY TaskUpdateType DEF Beats
  <2>2. off.pc = task[w][r].pc /\ off.fence = task[w][r].fence /\ off.handler = task[w][r].handler
    BY DEF Tasks
  <2>3. off.pc = "wait"
    BY DEF WakeToResult
  <2> QED BY <2>1, <2>2, <2>3
<1>2. run[r].started
  BY <1>1 DEF WakeToResult, TaskInv, NeedsStart, Tasks
<1> HIDE DEF off
<1>3. ASSUME NEW goal \in Goals PROVE TaskOk(w, r, ToSettle(off, goal))
  <2> DEFINE t == Past(off, "settle", goal)
  <2>1. t.pc = "settle" /\ t.fence = off.fence /\ (t.handler = off.handler \/ t.handler = "none")
    BY <1>1, PastOk DEF Pcs
  <2> HIDE DEF t
  <2>2. TaskOk(w, r, t)
    BY <1>1, <1>2, <2>1 DEF TaskOk, TaskInv, NeedsStart
  <2> QED BY <2>2 DEF t, ToSettle
<1>4. TaskOk(w, r, ToFinally(off))
  BY <1>1, <1>2, PastOk DEF ToFinally, Pcs, Goals, TaskOk, TaskInv, NeedsStart
<1>5. \/ \E goal \in Goals : SetTask(w, r, ToSettle(off, goal))
      \/ SetTask(w, r, ToFinally(off))
  BY DEF WakeToResult, Goals, off
<1> QED BY <1>3, <1>4, <1>5

LEMMA StoppedOk ==
    ASSUME IInv, NEW w \in Workers, NEW r \in Runs, task[w][r] \in Tasks, TaskInv(w, r),
           task[w][r].pc # "none", Stopped(w, r)
    PROVE  \E t : SetTask(w, r, t) /\ TaskOk(w, r, t)
<1>1. task[w][r].goal \in Goals
  BY DEF Tasks
<1>2. TaskOk(w, r, ToSettle(task[w][r], task[w][r].goal))
  BY <1>1, PastTaskOk DEF ToSettle, Pcs, TaskInv, NeedsStart
<1>3. TaskOk(w, r, ToFinally(task[w][r]))
  BY PastTaskOk DEF ToFinally, Pcs, Goals
<1> QED BY <1>2, <1>3 DEF Stopped

\* A step that replaces all tasks of one process.
LEMMA ClearStep ==
    ASSUME IInv, TypeOK', NEW w \in Workers, UNCHANGED <<run, generation, lease>>,
           \A v \in Workers : v # w => task'[v] = task[v],
           \A x \in Runs : TaskOk(w, x, task'[w][x]) \/ task'[w][x] = NoTask
    PROVE  IInv'
<1>1. \A x \in Runs : TaskOk(w, x, task'[w][x])
  BY NoTaskOk
<1>2. \A x \in Runs : RunInv(x)'
  BY DEF IInv, RunInv
<1>3. ASSUME NEW v \in Workers, NEW x \in Runs PROVE TaskInv(v, x)'
  <2>1. TaskInv(v, x)
    BY DEF IInv
  <2>2. CASE v = w
    BY <1>1, <2>1, <2>2 DEF TaskInv, TaskOk, NeedsStart
  <2>3. CASE v # w
    BY <2>1, <2>3 DEF TaskInv, NeedsStart
  <2> QED BY <2>2, <2>3
<1>4. OneExecutionPerTerm'
  BY <1>1 DEF IInv, OneExecutionPerTerm, TaskOk
<1> QED BY <1>2, <1>3, <1>4 DEF IInv

LEMMA Inductive == IInv /\ [Next]_vars => IInv'
<1> SUFFICES ASSUME IInv, [Next]_vars PROVE IInv'
  OBVIOUS
<1>0. TypeOK'
  BY TypeInductive DEF IInv
<1> USE <1>0
<1>1. ASSUME NEW w \in Workers, NEW r \in Runs, Claim(w, r) PROVE IInv'
  <2>1. lease[r] \in LeaseRow /\ lease[r].fence \in Nat /\ now \in Nat /\ TTL \in Nat \ {0}
    BY LeaseAssumption DEF IInv, TypeOK, LeaseRow
  <2>2. UNCHANGED <<run, generation>>
    BY <1>1 DEF Claim
  <2>3. \A q \in Runs : RunInv(q)'
    BY <2>2 DEF IInv, RunInv
  <2>4. \A q \in Runs : q # r => lease'[q] = lease[q]
    BY <1>1 DEF Claim, IInv, TypeOK
  <2>5. lease'[r].fence = lease[r].fence + 1 /\ lease'[r].holder = w
    BY <1>1, <2>1 DEF Claim, IInv, TypeOK, Acquire, Release, LeaseRow
  <2>6. task'[w][r].pc # "none" =>
          task'[w][r].fence = lease[r].fence + 1 /\ ~NeedsStart(task'[w][r])
    <3>1. CASE UNCHANGED task
      BY <1>1, <3>1 DEF Claim
    <3>2. CASE ~Terminal(r)
      <4> DEFINE fresh == [NoTask EXCEPT !.fence = Acquire(lease[r], w, now).fence,
                                         !.heartbeat = "sleep"]
      <4>1. PICK e \in {"begin", "claimed"} : SetTask(w, r, [fresh EXCEPT !.pc = e])
        BY <1>1, <3>2 DEF Claim
      <4>2. task'[w][r] = [fresh EXCEPT !.pc = e]
        BY <4>1 DEF SetTask, IInv, TypeOK
      <4>3. /\ [fresh EXCEPT !.pc = e].fence = lease[r].fence + 1
            /\ [fresh EXCEPT !.pc = e].pc = e /\ [fresh EXCEPT !.pc = e].goal = "exit"
            /\ [fresh EXCEPT !.pc = e].handler = "none"
        BY DEF NoTask, Acquire
      <4> HIDE DEF fresh
      <4> QED BY <4>2, <4>3 DEF NeedsStart
    <3> QED BY <1>1, <3>1, <3>2 DEF Claim
  <2>7. task'[w][r].pc = "none" => task'[w][r] = task[w][r]
    <3>1. CASE UNCHANGED task
      BY <3>1
    <3>2. CASE ~Terminal(r)
      <4> DEFINE fresh == [NoTask EXCEPT !.fence = Acquire(lease[r], w, now).fence,
                                         !.heartbeat = "sleep"]
      <4>1. PICK e \in {"begin", "claimed"} : SetTask(w, r, [fresh EXCEPT !.pc = e])
        BY <1>1, <3>2 DEF Claim
      <4>2. task'[w][r] = [fresh EXCEPT !.pc = e]
        BY <4>1 DEF SetTask, IInv, TypeOK
      <4>3. [fresh EXCEPT !.pc = e].pc = e
        BY DEF NoTask
      <4> HIDE DEF fresh
      <4> QED BY <4>2, <4>3
    <3> QED BY <1>1, <3>1, <3>2 DEF Claim
  <2>8. \A v \in Workers, q \in Runs : v # w \/ q # r => task'[v][q] = task[v][q]
    BY <1>1 DEF Claim, IInv, TypeOK, SetTask
  <2>9. \A v \in Workers, q \in Runs : task[v][q].fence \in Nat /\ lease[q].fence \in Nat
    BY DEF IInv, TypeOK, Tasks, LeaseRow
  <2>10. ASSUME NEW v \in Workers, NEW q \in Runs PROVE TaskInv(v, q)'
    <3>1. TaskInv(v, q)
      BY DEF IInv
    <3>2. CASE v = w /\ q = r
      BY <2>2, <2>5, <2>6, <2>7, <2>9, <3>1, <3>2 DEF TaskInv, NeedsStart
    <3>3. CASE v # w /\ q = r
      <4>1. task'[v][q] = task[v][q] /\ lease'[q].fence = lease[q].fence + 1
        BY <2>5, <2>8, <3>3
      <4>2. task[v][q].pc # "none" => task[v][q].fence < lease'[q].fence
        BY <2>9, <3>1, <4>1 DEF TaskInv
      <4> QED BY <2>2, <2>9, <3>1, <4>1, <4>2 DEF TaskInv, NeedsStart
    <3>4. CASE q # r
      BY <2>2, <2>4, <2>8, <3>1, <3>4 DEF TaskInv, NeedsStart
    <3> QED BY <3>2, <3>3, <3>4
  <2>11. OneExecutionPerTerm'
    <3>1. \A v \in Workers : v # w /\ task[v][r].pc # "none" => task[v][r].fence < lease[r].fence + 1
      BY <2>9 DEF IInv, TaskInv
    <3> QED BY <2>6, <2>8, <2>9, <3>1 DEF IInv, OneExecutionPerTerm
  <2> QED BY <2>3, <2>10, <2>11 DEF IInv
<1>2. ASSUME NEW w \in Workers, NEW r \in Runs, RecordRestored(w, r) PROVE IInv'
  <2>1. task[w][r] \in Tasks /\ TaskInv(w, r) /\ task[w][r].pc # "none"
    BY <1>2 DEF RecordRestored, IInv, TypeOK
  <2>2. \E t : SetTask(w, r, t) /\ TaskOk(w, r, t)
    BY <1>2, <2>1, NoTaskOk, UpdateOk DEF RecordRestored, Pcs
  <2>3. UNCHANGED <<run, generation, lease>>
    BY <1>2 DEF RecordRestored
  <2> QED BY <2>2, <2>3, QuietStep
<1>3. ASSUME NEW w \in Workers, NEW r \in Runs, Begin(w, r) PROVE IInv'
  <2>1. task[w][r] \in Tasks /\ TaskInv(w, r) /\ task[w][r].pc # "none"
    BY <1>3 DEF Begin, IInv, TypeOK
  <2>2. \E t : SetTask(w, r, t) /\ TaskOk(w, r, t)
    BY <1>3, <2>1, BeginOk
  <2>3. UNCHANGED <<run, generation, lease>>
    BY <1>3 DEF Begin
  <2> QED BY <2>2, <2>3, QuietStep
<1>4. ASSUME NEW w \in Workers, NEW r \in Runs, Start(w, r) PROVE IInv'
  <2>1. task[w][r] \in Tasks /\ TaskInv(w, r) /\ task[w][r].pc # "none" /\ run \in [Runs -> RunRows]
    BY <1>4 DEF Start, IInv, TypeOK
  <2>2. UNCHANGED <<generation, lease>>
    BY <1>4 DEF Start
  <2>3. CASE UNCHANGED run
    <3>1. \E t : SetTask(w, r, t) /\ TaskOk(w, r, t)
      <4>1. CASE SetTask(w, r, ToFinally(task[w][r]))
        BY <2>1, <4>1, PastTaskOk DEF ToFinally, Pcs, Goals
      <4>2. CASE SetTask(w, r, ToSettle(task[w][r], "failed"))
        BY <2>1, <4>2, PastTaskOk DEF ToSettle, Pcs, Goals
      <4>3. CASE CanSet(w, r, "running") /\ WriteState(r, "running")
        BY <2>1, <2>3, <4>3 DEF CanSet, WriteState, LegalTransitions, RunRows
      <4> QED BY <1>4, <4>1, <4>2, <4>3 DEF Start
    <3> QED BY <2>2, <2>3, <3>1, QuietStep
  <2>4. CASE WriteState(r, "running") /\ SetTask(w, r, [task[w][r] EXCEPT !.pc = "launch"])
    <3> DEFINE t == [task[w][r] EXCEPT !.pc = "launch"]
    <3>1. /\ t.pc = "launch" /\ t.fence = task[w][r].fence
          /\ t.handler = task[w][r].handler /\ t.goal = task[w][r].goal
      BY <2>1 DEF Tasks
    <3>2. /\ \A x \in Runs : run'[x].marker = run[x].marker /\ (run[x].started => run'[x].started)
          /\ run'[r].started /\ run'[r].state = "running"
          /\ \A x \in Runs : x # r => run'[x] = run[x]
      BY <2>1, <2>4 DEF WriteState, RunRows
    <3>3. \A x \in Runs : RunInv(x)'
      BY <2>2, <3>2 DEF IInv, RunInv
    <3> HIDE DEF t
    <3> QED BY <2>1, <2>2, <2>4, <3>1, <3>2, <3>3, TaskStep DEF t
  <2> QED BY <1>4, <2>3, <2>4 DEF Start
<1>5. ASSUME NEW w \in Workers, NEW r \in Runs, Launch(w, r) PROVE IInv'
  <2>1. task[w][r] \in Tasks /\ TaskInv(w, r) /\ task[w][r].pc # "none"
    BY <1>5 DEF Launch, IInv, TypeOK
  <2>2. \E t : SetTask(w, r, t) /\ TaskOk(w, r, t)
    BY <1>5, <2>1, LaunchOk
  <2>3. UNCHANGED <<run, generation, lease>>
    BY <1>5 DEF Launch
  <2> QED BY <2>2, <2>3, QuietStep
<1>6. ASSUME NEW w \in Workers, NEW r \in Runs, WakeToStop(w, r) PROVE IInv'
  <2>1. task[w][r] \in Tasks /\ TaskInv(w, r) /\ task[w][r].pc # "none"
    BY <1>6 DEF WakeToStop, IInv, TypeOK
  <2>2. \E t : SetTask(w, r, t) /\ TaskOk(w, r, t)
    BY <1>6, <2>1, PastTaskOk DEF WakeToStop, Pcs, Goals
  <2>3. UNCHANGED <<run, generation, lease>>
    BY <1>6 DEF WakeToStop
  <2> QED BY <2>2, <2>3, QuietStep
<1>7. ASSUME NEW w \in Workers, NEW r \in Runs, WakeToTimeout(w, r) PROVE IInv'
  <2>1. task[w][r] \in Tasks /\ TaskInv(w, r) /\ task[w][r].pc # "none"
    BY <1>7 DEF WakeToTimeout, IInv, TypeOK
  <2>2. \E t : SetTask(w, r, t) /\ TaskOk(w, r, t)
    BY <1>7, <2>1, PastTaskOk DEF WakeToTimeout, Pcs, Goals
  <2>3. UNCHANGED <<run, generation, lease>>
    BY <1>7 DEF WakeToTimeout
  <2> QED BY <2>2, <2>3, QuietStep
<1>8. ASSUME NEW w \in Workers, NEW r \in Runs, WakeToResult(w, r) PROVE IInv'
  <2>1. task[w][r] \in Tasks /\ TaskInv(w, r) /\ task[w][r].pc # "none"
    BY <1>8 DEF WakeToResult, IInv, TypeOK
  <2>2. \E t : SetTask(w, r, t) /\ TaskOk(w, r, t)
    BY <1>8, <2>1, ResultOk
  <2>3. UNCHANGED <<run, generation, lease>>
    BY <1>8 DEF WakeToResult
  <2> QED BY <2>2, <2>3, QuietStep
<1>9. ASSUME NEW w \in Workers, NEW r \in Runs, Stopped(w, r) PROVE IInv'
  <2>1. task[w][r] \in Tasks /\ TaskInv(w, r) /\ task[w][r].pc # "none"
    BY <1>9 DEF Stopped, IInv, TypeOK
  <2>2. \E t : SetTask(w, r, t) /\ TaskOk(w, r, t)
    BY <1>9, <2>1, StoppedOk
  <2>3. UNCHANGED <<run, generation, lease>>
    BY <1>9 DEF Stopped
  <2> QED BY <2>2, <2>3, QuietStep
<1>10. ASSUME NEW w \in Workers, NEW r \in Runs, Settle(w, r) PROVE IInv'
  <2>1. task[w][r] \in Tasks /\ TaskInv(w, r) /\ task[w][r].pc # "none" /\ run \in [Runs -> RunRows]
    BY <1>10 DEF Settle, IInv, TypeOK
  <2>2. UNCHANGED <<generation, lease>>
    BY <1>10 DEF Settle
  <2>3. CASE UNCHANGED run
    <3>1. \E t : SetTask(w, r, t) /\ TaskOk(w, r, t)
      <4>1. CASE SetTask(w, r, ToFinally(task[w][r]))
        BY <2>1, <4>1, PastTaskOk DEF ToFinally, Pcs, Goals
      <4>2. CASE SetTask(w, r, ToSettle(task[w][r], "failed"))
        BY <2>1, <4>2, PastTaskOk DEF ToSettle, Pcs, Goals
      <4> QED BY <1>10, <4>1, <4>2 DEF Settle
    <3> QED BY <2>2, <2>3, <3>1, QuietStep
  <2>4. CASE /\ CanSet(w, r, task[w][r].goal) /\ WriteState(r, task[w][r].goal)
             /\ SetTask(w, r, ToFinally(task[w][r]))
    <3> DEFINE t == ToFinally(task[w][r])
    <3>1. TaskOk(w, r, t)
      BY <2>1, PastTaskOk DEF ToFinally, Pcs, Goals
    <3>2. task[w][r].goal \notin {"running", "pending"}
      BY <2>1 DEF Tasks, Goals
    <3>3. /\ \A x \in Runs : run'[x].marker = run[x].marker /\ run'[x].started = run[x].started
          /\ run'[r].state = task[w][r].goal
          /\ \A x \in Runs : x # r => run'[x] = run[x]
      BY <2>1, <2>4, <3>2 DEF WriteState, RunRows
    <3>4. \A x \in Runs : RunInv(x)'
      BY <2>2, <3>2, <3>3 DEF IInv, RunInv
    <3> HIDE DEF t
    <3> QED BY <2>1, <2>2, <2>4, <3>1, <3>3, <3>4, TaskStep DEF t, TaskOk
  <2> QED BY <1>10, <2>3, <2>4 DEF Settle
<1>11. ASSUME NEW w \in Workers, NEW r \in Runs, Finally(w, r) PROVE IInv'
  <2>1. UNCHANGED <<run, generation>>
    BY <1>11 DEF Finally
  <2>2. \A x \in Runs : lease'[x].fence = lease[x].fence /\ lease'[x].holder = lease[x].holder
    BY <1>11 DEF Finally, Release, IInv, TypeOK, LeaseRow
  <2>3. \A x \in Runs : RunInv(x)'
    BY <2>1 DEF IInv, RunInv
  <2>4. SetTask(w, r, NoTask) /\ TaskOk(w, r, NoTask)
    BY <1>11, NoTaskOk DEF Finally
  <2> QED BY <2>1, <2>2, <2>3, <2>4, TaskStep DEF TaskOk
<1>12. ASSUME NEW w \in Workers, NEW r \in Runs, HeartbeatRenew(w, r) PROVE IInv'
  <2>1. task[w][r] \in Tasks /\ TaskInv(w, r) /\ task[w][r].pc # "none"
    BY <1>12 DEF HeartbeatRenew, IInv, TypeOK, Beating
  <2>2. PICK t : SetTask(w, r, t) /\ TaskOk(w, r, t)
    BY <1>12, <2>1, UpdateOk DEF HeartbeatRenew, HeartbeatEnds, Beats
  <2>3. UNCHANGED <<run, generation>>
    BY <1>12 DEF HeartbeatRenew
  <2>4. \A x \in Runs : lease'[x].fence = lease[x].fence /\ lease'[x].holder = lease[x].holder
    <3> DEFINE s == task[w][r].seen
    <3>1. UNCHANGED lease \/ lease' = [lease EXCEPT ![r] = Renew(lease[r], s)]
      BY <1>12 DEF HeartbeatRenew
    <3>2. Renew(lease[r], s).fence = lease[r].fence /\ Renew(lease[r], s).holder = lease[r].holder
      BY DEF Renew, IInv, TypeOK, LeaseRow
    <3> QED BY <3>1, <3>2 DEF IInv, TypeOK
  <2>5. \A x \in Runs : RunInv(x)'
    BY <2>3 DEF IInv, RunInv
  <2> QED BY <2>2, <2>3, <2>4, <2>5, TaskStep DEF TaskOk
<1>28. ASSUME NEW w \in Workers, NEW r \in Runs, HeartbeatWakes(w, r) PROVE IInv'
  <2>1. task[w][r] \in Tasks /\ TaskInv(w, r) /\ task[w][r].pc # "none" /\ now \in Nat
    BY <1>28 DEF HeartbeatWakes, IInv, TypeOK, Beating
  <2>2. \E t : SetTask(w, r, t) /\ TaskOk(w, r, t)
    BY <1>28, <2>1, UpdateOk DEF HeartbeatWakes, Beats
  <2>3. UNCHANGED <<run, generation, lease>>
    BY <1>28 DEF HeartbeatWakes
  <2> QED BY <2>2, <2>3, QuietStep
<1>13. ASSUME NEW w \in Workers, NEW r \in Runs, HeartbeatCheck(w, r) PROVE IInv'
  <2>1. task[w][r] \in Tasks /\ TaskInv(w, r) /\ task[w][r].pc # "none"
    BY <1>13 DEF HeartbeatCheck, IInv, TypeOK, Beating
  <2>2. \E t : SetTask(w, r, t) /\ TaskOk(w, r, t)
    BY <1>13, <2>1, UpdateOk DEF HeartbeatCheck, HeartbeatEnds, Beats, Beating
  <2>3. UNCHANGED <<run, generation, lease>>
    BY <1>13 DEF HeartbeatCheck
  <2> QED BY <2>2, <2>3, QuietStep
<1>14. ASSUME NEW w \in Workers, NEW r \in Runs, HeartbeatError(w, r) PROVE IInv'
  <2>1. task[w][r] \in Tasks /\ TaskInv(w, r) /\ task[w][r].pc # "none"
    BY <1>14 DEF HeartbeatError, IInv, TypeOK, Beating
  <2>2. \E t : SetTask(w, r, t) /\ TaskOk(w, r, t)
    BY <1>14, <2>1, UpdateOk DEF HeartbeatError, HeartbeatEnds, Beats, Beating
  <2>3. UNCHANGED <<run, generation, lease>>
    BY <1>14 DEF HeartbeatError
  <2> QED BY <2>2, <2>3, QuietStep
<1>15. ASSUME NEW w \in Workers, NEW r \in Runs, HandlerRead(w, r) PROVE IInv'
  <2>1. task[w][r] \in Tasks /\ TaskInv(w, r) /\ task[w][r].pc # "none"
    BY <1>15 DEF HandlerRead, IInv, TypeOK, TaskInv, NeedsStart, HandlerRunning, HandlerBusy
  <2>2. \E t : SetTask(w, r, t) /\ TaskOk(w, r, t)
    BY <1>15, <2>1, UpdateOk DEF HandlerRead, SetHandler, HandlerBusy, HandlerEnds, HandlerRunning
  <2>3. UNCHANGED <<run, generation, lease>>
    BY <1>15 DEF HandlerRead
  <2> QED BY <2>2, <2>3, QuietStep
<1>16. ASSUME NEW w \in Workers, NEW r \in Runs, HandlerCommit(w, r) PROVE IInv'
  <2>1. task[w][r] \in Tasks /\ TaskInv(w, r) /\ task[w][r].pc # "none" /\ task[w][r].handler = "work"
    BY <1>16 DEF HandlerCommit, IInv, TypeOK, TaskInv, NeedsStart
  <2>2. CASE UNCHANGED <<run, generation>>
    <3>1. \E t : SetTask(w, r, t) /\ TaskOk(w, r, t)
      BY <1>16, <2>1, UpdateOk DEF HandlerCommit, SetHandler, HandlerBusy, HandlerEnds
    <3>2. UNCHANGED lease
      BY <1>16 DEF HandlerCommit
    <3> QED BY <2>2, <3>1, <3>2, QuietStep
  <2>3. CASE /\ Owns(w, r) /\ ~Terminal(r)
             /\ run' = [run EXCEPT ![r].marker = TRUE]
             /\ generation' = [generation EXCEPT ![r] = @ + 1]
             /\ SetHandler(w, r, "tail")
             /\ UNCHANGED lease
    <3>1. lease[r].holder = w /\ lease[r].fence = task[w][r].fence
      BY <2>3 DEF Owns, Owned
    <3>2. ~run[r].marker
      BY <2>1, <3>1 DEF TaskInv
    <3>3. /\ run'[r].marker /\ run'[r].state = run[r].state /\ run'[r].started = run[r].started
          /\ \A x \in Runs : x # r => run'[x] = run[x]
          /\ \A x \in Runs : run'[x].started = run[x].started
      BY <2>3 DEF IInv, TypeOK, RunRows
    <3>4. generation'[r] = generation[r] + 1 /\ \A x \in Runs : x # r => generation'[x] = generation[x]
      BY <2>3 DEF IInv, TypeOK
    <3>5. \A x \in Runs : RunInv(x)'
      BY <3>2, <3>3, <3>4 DEF IInv, RunInv
    <3>6. /\ task'[w][r] = [task[w][r] EXCEPT !.handler = "tail"]
          /\ \A v \in Workers, x \in Runs : v # w \/ x # r => task'[v][x] = task[v][x]
      BY <2>3 DEF SetHandler, SetTask, IInv, TypeOK
    <3>7. /\ task'[w][r].pc = task[w][r].pc /\ task'[w][r].fence = task[w][r].fence
          /\ task'[w][r].handler = "tail" /\ task'[w][r].goal = task[w][r].goal
      BY <2>1, <3>6 DEF Tasks
    <3>8. ASSUME NEW v \in Workers, NEW x \in Runs PROVE TaskInv(v, x)'
      <4>1. TaskInv(v, x)
        BY DEF IInv
      <4>2. CASE v = w /\ x = r
        BY <2>1, <2>3, <3>3, <3>7, <4>1, <4>2 DEF TaskInv, NeedsStart
      <4>3. CASE v # w /\ x = r
        <5>1. task[v][x].pc # "none" => task[v][x].fence # lease[x].fence
          BY <3>1, <4>1, <4>3 DEF TaskInv
        <5>2. task'[v][x] = task[v][x] /\ lease'[x] = lease[x]
          BY <2>3, <3>6, <4>3
        <5> QED BY <3>3, <4>1, <4>3, <5>1, <5>2 DEF TaskInv, NeedsStart
      <4>4. CASE x # r
        BY <2>3, <3>3, <3>6, <4>1, <4>4 DEF TaskInv, NeedsStart
      <4> QED BY <4>2, <4>3, <4>4
    <3>9. OneExecutionPerTerm'
      <4>1. \A v \in Workers, x \in Runs :
              task'[v][x].pc = task[v][x].pc /\ task'[v][x].fence = task[v][x].fence
        BY <3>6, <3>7
      <4> QED BY <4>1 DEF IInv, OneExecutionPerTerm
    <3> QED BY <3>5, <3>8, <3>9 DEF IInv
  <2> QED BY <1>16, <2>2, <2>3 DEF HandlerCommit
<1>17. ASSUME NEW w \in Workers, NEW r \in Runs, HandlerReturn(w, r) PROVE IInv'
  <2>1. task[w][r] \in Tasks /\ TaskInv(w, r) /\ task[w][r].pc # "none"
    BY <1>17 DEF HandlerReturn, IInv, TypeOK, TaskInv, NeedsStart, HandlerRunning, HandlerBusy
  <2>2. \E t : SetTask(w, r, t) /\ TaskOk(w, r, t)
    BY <1>17, <2>1, UpdateOk DEF HandlerReturn, SetHandler, HandlerBusy, HandlerEnds, HandlerRunning
  <2>3. UNCHANGED <<run, generation, lease>>
    BY <1>17 DEF HandlerReturn
  <2> QED BY <2>2, <2>3, QuietStep
<1>18. ASSUME NEW w \in Workers, NEW r \in Runs, HandlerRaise(w, r) PROVE IInv'
  <2>1. task[w][r] \in Tasks /\ TaskInv(w, r) /\ task[w][r].pc # "none"
    BY <1>18 DEF HandlerRaise, IInv, TypeOK, TaskInv, NeedsStart, HandlerRunning, HandlerBusy
  <2>2. \E t : SetTask(w, r, t) /\ TaskOk(w, r, t)
    BY <1>18, <2>1, UpdateOk DEF HandlerRaise, SetHandler, HandlerBusy, HandlerEnds, HandlerRunning
  <2>3. UNCHANGED <<run, generation, lease>>
    BY <1>18 DEF HandlerRaise
  <2> QED BY <2>2, <2>3, QuietStep
<1>19. ASSUME NEW w \in Workers, NEW r \in Runs, HandlerCancelled(w, r) PROVE IInv'
  <2>1. task[w][r] \in Tasks /\ TaskInv(w, r) /\ task[w][r].pc # "none"
    BY <1>19 DEF HandlerCancelled, IInv, TypeOK, TaskInv, NeedsStart, HandlerRunning, HandlerBusy
  <2>2. \E t : SetTask(w, r, t) /\ TaskOk(w, r, t)
    BY <1>19, <2>1, UpdateOk DEF HandlerCancelled, SetHandler, HandlerBusy, HandlerEnds, HandlerRunning
  <2>3. UNCHANGED <<run, generation, lease>>
    BY <1>19 DEF HandlerCancelled
  <2> QED BY <2>2, <2>3, QuietStep
<1>20. ASSUME NEW w \in Workers, NEW r \in Runs, RequestCancel(w, r) PROVE IInv'
  <2>1. UNCHANGED <<generation, lease, task>>
    BY <1>20 DEF RequestCancel
  <2>2. /\ \A x \in Runs : run'[x].marker = run[x].marker /\ run'[x].started = run[x].started
        /\ run'[r].state = "cancel_requested"
        /\ \A x \in Runs : x # r => run'[x] = run[x]
    BY <1>20 DEF RequestCancel, IInv, TypeOK, RunRows
  <2>3. \A x \in Runs : RunInv(x)'
    BY <2>1, <2>2 DEF IInv, RunInv
  <2>4. \A v \in Workers, x \in Runs : TaskInv(v, x)'
    BY <2>1, <2>2 DEF IInv, TaskInv, NeedsStart
  <2> QED BY <2>1, <2>3, <2>4 DEF IInv, OneExecutionPerTerm
<1>21. ASSUME NEW w \in Workers, NEW r \in Runs, SignalCancel(w, r) PROVE IInv'
  <2>1. UNCHANGED <<run, generation, lease>>
    BY <1>21 DEF SignalCancel
  <2>2. CASE UNCHANGED task
    BY <2>1, <2>2 DEF IInv, RunInv, TaskInv, NeedsStart, OneExecutionPerTerm
  <2>3. CASE Beating(w, r)
    <3>1. task[w][r] \in Tasks /\ TaskInv(w, r) /\ task[w][r].pc # "none"
      BY <2>3 DEF IInv, TypeOK, Beating
    <3>2. \E t : SetTask(w, r, t) /\ TaskOk(w, r, t)
      BY <1>21, <2>3, <3>1, UpdateOk DEF SignalCancel
    <3> QED BY <2>1, <3>2, QuietStep
  <2> QED BY <1>21, <2>2, <2>3 DEF SignalCancel
<1>22. ASSUME NEW w \in Workers, NEW r \in Runs, StoreError(w, r) PROVE IInv'
  <2>1. task[w][r] \in Tasks /\ TaskInv(w, r) /\ task[w][r].pc # "none"
    BY <1>22 DEF StoreError, IInv, TypeOK
  <2>2. \E t : SetTask(w, r, t) /\ TaskOk(w, r, t)
    BY <1>22, <2>1, PastTaskOk, NoTaskOk DEF StoreError, Pcs, Goals, ToSettle, ToFinally
  <2>3. UNCHANGED <<run, generation, lease>>
    BY <1>22 DEF StoreError
  <2> QED BY <2>2, <2>3, QuietStep
<1>23. ASSUME NEW w \in Workers, Crash(w) PROVE IInv'
  <2>1. \A x \in Runs : task'[w][x] = NoTask
    BY <1>23 DEF Crash, IInv, TypeOK
  <2>2. \A v \in Workers : v # w => task'[v] = task[v]
    BY <1>23 DEF Crash, IInv, TypeOK
  <2>3. UNCHANGED <<run, generation, lease>>
    BY <1>23 DEF Crash
  <2> QED BY <2>1, <2>2, <2>3, ClearStep
<1>24. ASSUME NEW w \in Workers, Close(w) PROVE IInv'
  <2>1. \A x \in Runs : task'[w][x] = CancelledByClose(w, x)
    BY <1>24 DEF Close, IInv, TypeOK
  <2>2. \A v \in Workers : v # w => task'[v] = task[v]
    BY <1>24 DEF Close, IInv, TypeOK
  <2>3. UNCHANGED <<run, generation, lease>>
    BY <1>24 DEF Close
  <2>4. ASSUME NEW x \in Runs PROVE TaskOk(w, x, CancelledByClose(w, x))
    <3>1. task[w][x] \in Tasks /\ TaskInv(w, x)
      BY DEF IInv, TypeOK
    <3>2. CASE task[w][x].pc \in {"none", "claimed"}
      BY <3>2, NoTaskOk DEF CancelledByClose
    <3>3. CASE task[w][x].pc = "finally"
      <4> DEFINE t == [task[w][x] EXCEPT !.pc = "abandon",
                         !.heartbeat = IF HandlerRunning(w, x) THEN @ ELSE "off"]
      <4>1. t.pc = "abandon" /\ t.fence = task[w][x].fence /\ t.goal = task[w][x].goal
            /\ t.handler = task[w][x].handler
        BY <3>1 DEF Tasks
      <4>2. CancelledByClose(w, x) = t
        BY <3>3 DEF CancelledByClose
      <4> HIDE DEF t
      <4> QED BY <3>1, <3>3, <4>1, <4>2 DEF TaskOk, TaskInv, NeedsStart
    <3>4. CASE task[w][x].pc \notin {"none", "claimed", "finally"}
      BY <3>1, <3>4, PastTaskOk DEF CancelledByClose, ToFinally, Pcs, Goals
    <3> QED BY <3>2, <3>3, <3>4
  <2> QED BY <2>1, <2>2, <2>3, <2>4, ClearStep
<1>25. ASSUME NEW w \in Workers, Exit(w) PROVE IInv'
  <2>1. \A x \in Runs : task'[w][x] = NoTask
    BY <1>25 DEF Exit, IInv, TypeOK
  <2>2. \A v \in Workers : v # w => task'[v] = task[v]
    BY <1>25 DEF Exit, IInv, TypeOK
  <2>3. UNCHANGED <<run, generation, lease>>
    BY <1>25 DEF Exit
  <2> QED BY <2>1, <2>2, <2>3, ClearStep
<1>26. CASE Tick
  BY <1>26 DEF Tick, IInv, RunInv, TaskInv, NeedsStart, OneExecutionPerTerm
<1>27. CASE UNCHANGED vars
  BY <1>27 DEF vars, IInv, RunInv, TaskInv, NeedsStart, OneExecutionPerTerm
<1> QED
  BY <1>1, <1>2, <1>3, <1>4, <1>5, <1>6, <1>7, <1>8, <1>9, <1>10, <1>11, <1>12, <1>13, <1>14,
     <1>15, <1>16, <1>17, <1>18, <1>19, <1>20, <1>21, <1>22, <1>23, <1>24, <1>25, <1>26, <1>27, <1>28
  DEF Next, Execute, Heartbeat, Handler

LEMMA InitIInv == Init => IInv
<1> SUFFICES ASSUME Init PROVE IInv
  OBVIOUS
<1>1. \A w \in Workers, r \in Runs : task[w][r] = NoTask
  BY DEF Init
<1>2. NoTask.pc = "none" /\ ~NeedsStart(NoTask) /\ NoTask.handler # "work"
  BY DEF NoTask, NeedsStart
<1>3. \A r \in Runs : /\ run[r].state = "pending" /\ ~run[r].started /\ ~run[r].marker
                      /\ generation[r] = 0
  BY DEF Init
<1>4. \A r \in Runs : RunInv(r)
  BY <1>3 DEF RunInv
<1>5. \A w \in Workers, r \in Runs : TaskInv(w, r)
  BY <1>1, <1>2 DEF TaskInv
<1>6. OneExecutionPerTerm
  BY <1>1, <1>2 DEF OneExecutionPerTerm
<1> QED BY <1>4, <1>5, <1>6, InitTypeOK DEF IInv

LEMMA Invariance == Spec => []IInv
BY InitIInv, Inductive, PTL DEF Spec

-----------------------------------------------------------------------------
(* The safety properties. *)

\* The domain step of a run is applied at most once, for any number of
\* processes, executions, expiries, crashes and closes.
THEOREM DomainAppliedOnceHolds == Spec => []DomainAppliedOnce
<1>1. IInv => DomainAppliedOnce
  BY DEF IInv, RunInv, DomainAppliedOnce
<1> QED BY <1>1, Invariance, PTL

\* No two executions of a run ever carry the same fence token.
THEOREM OneExecutionPerTermHolds == Spec => []OneExecutionPerTerm
<1>1. IInv => OneExecutionPerTerm
  BY DEF IInv
<1> QED BY <1>1, Invariance, PTL

\* Which steps touch the runs, their domain state and the leases.
Writes(w, r) ==
    \/ Claim(w, r) \/ Start(w, r) \/ Settle(w, r) \/ Finally(w, r)
    \/ HeartbeatRenew(w, r) \/ HandlerCommit(w, r) \/ RequestCancel(w, r)

LEMMA WritingSteps ==
    ASSUME [Next]_vars
    PROVE  \/ Tick
           \/ UNCHANGED <<run, generation, lease, now>>
           \/ UNCHANGED now /\ \E w \in Workers, r \in Runs : Writes(w, r)
<1> DEFINE Quiet == UNCHANGED <<run, generation, lease, now>>
<1>1. ASSUME NEW w \in Workers, NEW r \in Runs, RecordRestored(w, r) PROVE Quiet
  BY <1>1 DEF RecordRestored
<1>2. ASSUME NEW w \in Workers, NEW r \in Runs, Begin(w, r) PROVE Quiet
  BY <1>2 DEF Begin
<1>3. ASSUME NEW w \in Workers, NEW r \in Runs, Launch(w, r) PROVE Quiet
  BY <1>3 DEF Launch
<1>4. ASSUME NEW w \in Workers, NEW r \in Runs, WakeToStop(w, r) PROVE Quiet
  BY <1>4 DEF WakeToStop
<1>5. ASSUME NEW w \in Workers, NEW r \in Runs, WakeToTimeout(w, r) PROVE Quiet
  BY <1>5 DEF WakeToTimeout
<1>6. ASSUME NEW w \in Workers, NEW r \in Runs, WakeToResult(w, r) PROVE Quiet
  BY <1>6 DEF WakeToResult
<1>7. ASSUME NEW w \in Workers, NEW r \in Runs, Stopped(w, r) PROVE Quiet
  BY <1>7 DEF Stopped
<1>8. ASSUME NEW w \in Workers, NEW r \in Runs, HeartbeatCheck(w, r) PROVE Quiet
  BY <1>8 DEF HeartbeatCheck
<1>27. ASSUME NEW w \in Workers, NEW r \in Runs, HeartbeatWakes(w, r) PROVE Quiet
  BY <1>27 DEF HeartbeatWakes
<1>9. ASSUME NEW w \in Workers, NEW r \in Runs, HeartbeatError(w, r) PROVE Quiet
  BY <1>9 DEF HeartbeatError
<1>10. ASSUME NEW w \in Workers, NEW r \in Runs, HandlerRead(w, r) PROVE Quiet
  BY <1>10 DEF HandlerRead
<1>11. ASSUME NEW w \in Workers, NEW r \in Runs, HandlerReturn(w, r) PROVE Quiet
  BY <1>11 DEF HandlerReturn
<1>12. ASSUME NEW w \in Workers, NEW r \in Runs, HandlerRaise(w, r) PROVE Quiet
  BY <1>12 DEF HandlerRaise
<1>13. ASSUME NEW w \in Workers, NEW r \in Runs, HandlerCancelled(w, r) PROVE Quiet
  BY <1>13 DEF HandlerCancelled
<1>14. ASSUME NEW w \in Workers, NEW r \in Runs, SignalCancel(w, r) PROVE Quiet
  BY <1>14 DEF SignalCancel
<1>15. ASSUME NEW w \in Workers, NEW r \in Runs, StoreError(w, r) PROVE Quiet
  BY <1>15 DEF StoreError
<1>16. ASSUME NEW w \in Workers, Crash(w) PROVE Quiet
  BY <1>16 DEF Crash
<1>17. ASSUME NEW w \in Workers, Close(w) PROVE Quiet
  BY <1>17 DEF Close
<1>18. ASSUME NEW w \in Workers, Exit(w) PROVE Quiet
  BY <1>18 DEF Exit
<1>19. CASE UNCHANGED vars
  BY <1>19 DEF vars
<1>20. ASSUME NEW w \in Workers, NEW r \in Runs, Claim(w, r) PROVE UNCHANGED now /\ Writes(w, r)
  BY <1>20 DEF Claim, Writes
<1>21. ASSUME NEW w \in Workers, NEW r \in Runs, Start(w, r) PROVE UNCHANGED now /\ Writes(w, r)
  BY <1>21 DEF Start, Writes
<1>22. ASSUME NEW w \in Workers, NEW r \in Runs, Settle(w, r) PROVE UNCHANGED now /\ Writes(w, r)
  BY <1>22 DEF Settle, Writes
<1>23. ASSUME NEW w \in Workers, NEW r \in Runs, Finally(w, r) PROVE UNCHANGED now /\ Writes(w, r)
  BY <1>23 DEF Finally, Writes
<1>24. ASSUME NEW w \in Workers, NEW r \in Runs, HeartbeatRenew(w, r) PROVE UNCHANGED now /\ Writes(w, r)
  BY <1>24 DEF HeartbeatRenew, Writes
<1>25. ASSUME NEW w \in Workers, NEW r \in Runs, HandlerCommit(w, r) PROVE UNCHANGED now /\ Writes(w, r)
  BY <1>25 DEF HandlerCommit, Writes
<1>26. ASSUME NEW w \in Workers, NEW r \in Runs, RequestCancel(w, r) PROVE UNCHANGED now /\ Writes(w, r)
  BY <1>26 DEF RequestCancel, Writes
<1> HIDE DEF Quiet
<1> QED
  BY <1>1, <1>2, <1>3, <1>4, <1>5, <1>6, <1>7, <1>8, <1>9, <1>10, <1>11, <1>12, <1>13, <1>14, <1>15, <1>16, <1>17, <1>18, <1>19, <1>20, <1>21, <1>22, <1>23, <1>24, <1>25, <1>26, <1>27
  DEF Next, Execute, Heartbeat, Handler, Quiet

LEMMA LeaseSteps ==
    ASSUME [Next]_vars
    PROVE  \/ UNCHANGED lease
           \/ \E w \in Workers, r \in Runs : Claim(w, r) \/ Finally(w, r) \/ HeartbeatRenew(w, r)
<1>1. \A w \in Workers, r \in Runs :
        Start(w, r) \/ Settle(w, r) \/ HandlerCommit(w, r) \/ RequestCancel(w, r) => UNCHANGED lease
  <2>1. \A w \in Workers, r \in Runs : Start(w, r) => UNCHANGED lease
    BY DEF Start
  <2>2. \A w \in Workers, r \in Runs : Settle(w, r) => UNCHANGED lease
    BY DEF Settle
  <2>3. \A w \in Workers, r \in Runs : HandlerCommit(w, r) => UNCHANGED lease
    BY DEF HandlerCommit
  <2>4. \A w \in Workers, r \in Runs : RequestCancel(w, r) => UNCHANGED lease
    BY DEF RequestCancel
  <2> QED BY <2>1, <2>2, <2>3, <2>4
<1>2. Tick => UNCHANGED lease
  BY DEF Tick
<1> QED BY <1>1, <1>2, WritingSteps DEF Writes

LEMMA RunSteps ==
    ASSUME [Next]_vars
    PROVE  \/ UNCHANGED <<run, generation>>
           \/ \E w \in Workers, r \in Runs :
                Start(w, r) \/ Settle(w, r) \/ HandlerCommit(w, r) \/ RequestCancel(w, r)
BY ZenonT(60), WritingSteps DEF Writes, Tick, Claim, Finally, HeartbeatRenew

LEMMA ClockSteps ==
    ASSUME TypeOK, [Next]_vars
    PROVE  now' \in Nat /\ now' >= now
BY WritingSteps DEF TypeOK, Tick

\* A term given back or taken over stays lost; one that ended by time comes back only by a
\* renewal of its own execution that had read the clock before the end.
THEOREM LostTermStaysLostHolds == Spec => LostTermStaysLost
<1> DEFINE Back(r) == \/ lease'[r].fence > lease[r].fence
                      \/ \E w \in Workers : /\ RenewalUnderWay(w, r) /\ lease[r].expires_at > 0
                                          /\ lease'[r] = Renew(lease[r], task[w][r].seen)
<1>1. ASSUME TypeOK, [Next]_vars, NEW r \in Runs,
             lease[r].expires_at <= now, lease'[r].expires_at > now'
      PROVE  Back(r)
  <2>1. /\ lease[r].fence \in Nat /\ lease[r].expires_at \in Nat /\ now \in Nat
        /\ lease \in [Runs -> LeaseRow]
    BY <1>1 DEF TypeOK, LeaseRow
  <2>2. now' \in Nat /\ now' >= now
    BY <1>1, ClockSteps
  <2>3. CASE UNCHANGED lease
    BY <1>1, <2>1, <2>2, <2>3
  <2>4. ASSUME NEW w \in Workers, NEW q \in Runs, Claim(w, q) PROVE lease'[r].fence > lease[r].fence
    <3>1. CASE q # r
      BY <1>1, <2>1, <2>2, <2>4, <3>1 DEF Claim
    <3>2. CASE q = r
      BY <1>1, <2>1, <2>4, <3>2 DEF Claim, Acquire, Release, LeaseRow
    <3> QED BY <3>1, <3>2
  <2>5. ASSUME NEW w \in Workers, NEW q \in Runs, Finally(w, q) PROVE lease'[r].fence > lease[r].fence
    <3>1. lease'[r] = lease[r] \/ lease'[r].expires_at = 0
      BY <2>1, <2>5 DEF Finally, Release, LeaseRow
    <3> QED BY <1>1, <2>1, <2>2, <3>1
  <2>6. ASSUME NEW w \in Workers, NEW q \in Runs, HeartbeatRenew(w, q) PROVE Back(r)
    <3>1. lease'[r] # lease[r]
      BY <1>1, <2>1, <2>2
    <3>2. q = r /\ MayRenew(w, r) /\ task[w][r].heartbeat = "renew"
      BY <2>1, <2>6, <3>1 DEF HeartbeatRenew
    <3>3. lease'[r] = Renew(lease[r], task[w][r].seen)
      BY <2>1, <2>6, <3>2 DEF HeartbeatRenew
    <3>4. task[w][r].seen \in Nat /\ task[w][r].seen < lease[r].expires_at
      BY <1>1, <2>1, <3>2 DEF MayRenew, Owned, TypeOK, Tasks
    <3> QED BY <2>1, <3>2, <3>3, <3>4 DEF RenewalUnderWay
  <2> QED BY <1>1, <2>3, <2>4, <2>5, <2>6, LeaseSteps
<1>2. TypeOK /\ [Next]_vars =>
        [\A r \in Runs : lease[r].expires_at <= now /\ lease'[r].expires_at > now' => Back(r)]_vars
  BY <1>1
<1> QED BY <1>2, TypeCorrect, PTL DEF Spec, LostTermStaysLost

-----------------------------------------------------------------------------
(* Owners are exclusive. *)

\* A handler that still runs after a step belongs to the execution it belonged to before, and so
\* does a renewal that has read the clock, in this step or before it.
Follows(t, s) ==
    /\ s.handler \in HandlerBusy => s.fence = t.fence
    /\ s.heartbeat = "renew" =>
         /\ s.fence = t.fence
         /\ s.pc = t.pc \/ s.pc # "none"
         /\ (t.heartbeat = "renew" /\ s.seen = t.seen) \/ (t.pc # "none" /\ s.seen = now)

LEMMA NoTaskFollows == ASSUME NEW t PROVE Follows(t, NoTask)
BY DEF Follows, NoTask, HandlerBusy

AllFollow == \A w \in Workers, r \in Runs : Follows(task[w][r], task'[w][r])

OthersKept(w, r) == \A v \in Workers, q \in Runs : v # w \/ q # r => task'[v][q] = task[v][q]

\* A step that replaces the task of one execution.
LEMMA SetOne ==
    ASSUME TypeOK, NEW w \in Workers, NEW r \in Runs
    PROVE  \A t : SetTask(w, r, t) => task'[w][r] = t /\ OthersKept(w, r)
BY DEF TypeOK, SetTask, OthersKept

LEMMA OneFollows ==
    ASSUME NEW w \in Workers, NEW r \in Runs, OthersKept(w, r), Follows(task[w][r], task'[w][r])
    PROVE  AllFollow
BY DEF OthersKept, AllFollow, Follows

LEMMA FollowStep ==
    ASSUME TypeOK, [Next]_vars
    PROVE  AllFollow
<1>a. UNCHANGED task => AllFollow
  BY DEF AllFollow, Follows
<1>b. \A w \in Workers, r \in Runs : task[w][r] \in Tasks /\ task[w][r].goal \in Goals
  BY DEF TypeOK, Tasks
<1>c. \A w \in Workers, r \in Runs, how \in Beats \ {"renew"}, lost \in BOOLEAN, cancel \in BOOLEAN :
        HeartbeatEnds(w, r, how, lost, cancel) => Follows(task[w][r], task'[w][r])
  <2> SUFFICES ASSUME NEW w \in Workers, NEW r \in Runs, NEW how \in Beats \ {"renew"},
                      NEW lost \in BOOLEAN, NEW cancel \in BOOLEAN,
                      HeartbeatEnds(w, r, how, lost, cancel)
               PROVE  Follows(task[w][r], task'[w][r])
    OBVIOUS
  <2> DEFINE t == task[w][r]
             early == [t EXCEPT !.heartbeat = how, !.seen = 0, !.lease_lost = @ \/ lost,
                                !.cancel_event = @ \/ cancel]
             late == [t EXCEPT !.heartbeat = "off", !.seen = 0]
  <2>1. Follows(t, early) /\ Follows(t, late)
    BY <1>b DEF Follows, Tasks
  <2>2. task'[w][r] \in {early, late}
    BY SetOne DEF HeartbeatEnds
  <2> HIDE DEF t, early, late
  <2> QED BY <2>1, <2>2 DEF t
<1>1. ASSUME NEW w \in Workers, NEW r \in Runs, Claim(w, r) PROVE AllFollow
  <2> DEFINE fresh == [NoTask EXCEPT !.fence = Acquire(lease[r], w, now).fence, !.heartbeat = "sleep"]
  <2>1. \A e \in {"begin", "claimed"} : Follows(task[w][r], [fresh EXCEPT !.pc = e])
    BY DEF Follows, NoTask, HandlerBusy
  <2> HIDE DEF fresh
  <2>2. UNCHANGED task \/ \E e \in {"begin", "claimed"} : SetTask(w, r, [fresh EXCEPT !.pc = e])
    BY <1>1 DEF Claim, fresh
  <2> QED BY <1>a, <2>1, <2>2, SetOne, OneFollows
<1>2. ASSUME NEW w \in Workers, NEW r \in Runs, RecordRestored(w, r) PROVE AllFollow
  <2>1. UNCHANGED task \/ OthersKept(w, r)
    BY <1>2, SetOne DEF RecordRestored
  <2>2. Follows(task[w][r], task'[w][r])
    BY <1>2, <1>b, SetOne DEF Follows, RecordRestored, ToSettle, ToFinally, Past, NoTask, Tasks, HandlerBusy
  <2> QED BY <1>a, <2>1, <2>2, OneFollows
<1>3. ASSUME NEW w \in Workers, NEW r \in Runs, Begin(w, r) PROVE AllFollow
  <2>1. UNCHANGED task \/ OthersKept(w, r)
    BY <1>3, SetOne DEF Begin
  <2>2. Follows(task[w][r], task'[w][r])
    <3> DEFINE t == task[w][r]
    <3>1. /\ \A x \in {"start", "launch"} : Follows(t, [t EXCEPT !.pc = x])
          /\ \A g \in Goals : Follows(t, ToSettle(t, g))
          /\ Follows(t, ToFinally(t))
      BY <1>b DEF Follows, ToSettle, ToFinally, Past, Tasks
    <3>2. task'[w][r] \in {[t EXCEPT !.pc = "start"], [t EXCEPT !.pc = "launch"],
                          ToSettle(t, "failed"), ToSettle(t, "cancelled"), ToFinally(t)}
      BY <1>3, SetOne DEF Begin, Terminal, TypeOK, RunRows, RunStates, ActiveStates
    <3> HIDE DEF t
    <3> QED BY <3>1, <3>2 DEF Goals, t
  <2> QED BY <1>a, <2>1, <2>2, OneFollows
<1>4. ASSUME NEW w \in Workers, NEW r \in Runs, Start(w, r) PROVE AllFollow
  <2>1. UNCHANGED task \/ OthersKept(w, r)
    BY <1>4, SetOne DEF Start
  <2>2. Follows(task[w][r], task'[w][r])
    BY <1>4, <1>b, SetOne DEF Follows, Start, ToSettle, ToFinally, Past, NoTask, Tasks, HandlerBusy
  <2> QED BY <1>a, <2>1, <2>2, OneFollows
<1>5. ASSUME NEW w \in Workers, NEW r \in Runs, Launch(w, r) PROVE AllFollow
  <2>1. UNCHANGED task \/ OthersKept(w, r)
    BY <1>5, SetOne DEF Launch
  <2>2. Follows(task[w][r], task'[w][r])
    <3> DEFINE t == task[w][r]
    <3>1. Follows(t, ToSettle(t, "timeout")) /\ Follows(t, [t EXCEPT !.pc = "wait", !.handler = "start"])
      BY <1>b DEF Follows, ToSettle, Past, Tasks
    <3>2. task'[w][r] \in {ToSettle(t, "timeout"), [t EXCEPT !.pc = "wait", !.handler = "start"]}
      BY <1>5, SetOne DEF Launch
    <3> HIDE DEF t
    <3> QED BY <3>1, <3>2 DEF t
  <2> QED BY <1>a, <2>1, <2>2, OneFollows
<1>6. ASSUME NEW w \in Workers, NEW r \in Runs, WakeToStop(w, r) PROVE AllFollow
  <2>1. UNCHANGED task \/ OthersKept(w, r)
    BY <1>6, SetOne DEF WakeToStop
  <2>2. Follows(task[w][r], task'[w][r])
    BY <1>6, <1>b, SetOne DEF Follows, WakeToStop, ToSettle, ToFinally, Past, NoTask, Tasks, HandlerBusy
  <2> QED BY <1>a, <2>1, <2>2, OneFollows
<1>7. ASSUME NEW w \in Workers, NEW r \in Runs, WakeToTimeout(w, r) PROVE AllFollow
  <2>1. UNCHANGED task \/ OthersKept(w, r)
    BY <1>7, SetOne DEF WakeToTimeout
  <2>2. Follows(task[w][r], task'[w][r])
    BY <1>7, <1>b, SetOne DEF Follows, WakeToTimeout, ToSettle, ToFinally, Past, NoTask, Tasks, HandlerBusy
  <2> QED BY <1>a, <2>1, <2>2, OneFollows
<1>8. ASSUME NEW w \in Workers, NEW r \in Runs, WakeToResult(w, r) PROVE AllFollow
  <2>1. UNCHANGED task \/ OthersKept(w, r)
    BY <1>8, SetOne DEF WakeToResult
  <2>2. Follows(task[w][r], task'[w][r])
    BY <1>8, <1>b, SetOne DEF Follows, WakeToResult, ToSettle, ToFinally, Past, NoTask, Tasks, HandlerBusy
  <2> QED BY <1>a, <2>1, <2>2, OneFollows
<1>9. ASSUME NEW w \in Workers, NEW r \in Runs, Stopped(w, r) PROVE AllFollow
  <2>1. UNCHANGED task \/ OthersKept(w, r)
    BY <1>9, SetOne DEF Stopped
  <2>2. Follows(task[w][r], task'[w][r])
    BY <1>9, <1>b, SetOne DEF Follows, Stopped, ToSettle, ToFinally, Past, NoTask, Tasks, HandlerBusy
  <2> QED BY <1>a, <2>1, <2>2, OneFollows
<1>10. ASSUME NEW w \in Workers, NEW r \in Runs, Settle(w, r) PROVE AllFollow
  <2>1. UNCHANGED task \/ OthersKept(w, r)
    BY <1>10, SetOne DEF Settle
  <2>2. Follows(task[w][r], task'[w][r])
    BY <1>10, <1>b, SetOne DEF Follows, Settle, ToSettle, ToFinally, Past, NoTask, Tasks, HandlerBusy
  <2> QED BY <1>a, <2>1, <2>2, OneFollows
<1>11. ASSUME NEW w \in Workers, NEW r \in Runs, Finally(w, r) PROVE AllFollow
  <2>1. UNCHANGED task \/ OthersKept(w, r)
    BY <1>11, SetOne DEF Finally
  <2>2. Follows(task[w][r], task'[w][r])
    BY <1>11, <1>b, SetOne DEF Follows, Finally, ToSettle, ToFinally, Past, NoTask, Tasks, HandlerBusy
  <2> QED BY <1>a, <2>1, <2>2, OneFollows
<1>28. ASSUME NEW w \in Workers, NEW r \in Runs, HeartbeatWakes(w, r) PROVE AllFollow
  <2>1. UNCHANGED task \/ OthersKept(w, r)
    BY <1>28, SetOne DEF HeartbeatWakes
  <2>2. Follows(task[w][r], task'[w][r])
    <3> DEFINE t == task[w][r]
               s == [t EXCEPT !.heartbeat = "renew", !.seen = now]
    <3>1. t.pc # "none" => Follows(t, s)
      BY <1>b DEF Follows, Tasks
    <3>2. t.pc # "none" /\ SetTask(w, r, s)
      BY <1>28 DEF HeartbeatWakes, Beating
    <3> HIDE DEF t, s
    <3> QED BY <3>1, <3>2, SetOne DEF t
  <2> QED BY <1>a, <2>1, <2>2, OneFollows
<1>12. ASSUME NEW w \in Workers, NEW r \in Runs, HeartbeatRenew(w, r) PROVE AllFollow
  <2>1. UNCHANGED task \/ OthersKept(w, r)
    BY <1>12, SetOne DEF HeartbeatRenew, HeartbeatEnds
  <2>2. Follows(task[w][r], task'[w][r])
    <3>1. Follows(task[w][r], [task[w][r] EXCEPT !.heartbeat = "check", !.seen = 0])
      BY <1>b DEF Follows, Tasks
    <3>2. \/ task'[w][r] = [task[w][r] EXCEPT !.heartbeat = "check", !.seen = 0]
          \/ HeartbeatEnds(w, r, "done", TRUE, TRUE)
      <4>1. CASE MayRenew(w, r)
        <5>1. SetTask(w, r, [task[w][r] EXCEPT !.heartbeat = "check", !.seen = 0])
          BY <1>12, <4>1 DEF HeartbeatRenew
        <5> QED BY ZenonT(60), <5>1, SetOne
      <4>2. CASE ~MayRenew(w, r)
        BY <1>12, <4>2 DEF HeartbeatRenew
      <4> QED BY <4>1, <4>2
    <3> QED BY <1>c, <3>1, <3>2 DEF Beats
  <2> QED BY <1>a, <2>1, <2>2, OneFollows
<1>13. ASSUME NEW w \in Workers, NEW r \in Runs, HeartbeatCheck(w, r) PROVE AllFollow
  <2>1. UNCHANGED task \/ OthersKept(w, r)
    BY <1>13, SetOne DEF HeartbeatCheck, HeartbeatEnds
  <2>2. Follows(task[w][r], task'[w][r])
    <3>1. Follows(task[w][r], [task[w][r] EXCEPT !.heartbeat = "sleep"])
      BY <1>b DEF Follows, Tasks
    <3>2. \/ SetTask(w, r, [task[w][r] EXCEPT !.heartbeat = "sleep"])
          \/ HeartbeatEnds(w, r, "done", FALSE, FALSE)
          \/ HeartbeatEnds(w, r, "done", FALSE, TRUE)
      BY <1>13, Zenon DEF HeartbeatCheck
    <3>3. SetTask(w, r, [task[w][r] EXCEPT !.heartbeat = "sleep"])
            => task'[w][r] = [task[w][r] EXCEPT !.heartbeat = "sleep"]
      BY SetOne
    <3> QED BY <1>c, <3>1, <3>2, <3>3 DEF Beats
  <2> QED BY <1>a, <2>1, <2>2, OneFollows
<1>14. ASSUME NEW w \in Workers, NEW r \in Runs, HeartbeatError(w, r) PROVE AllFollow
  <2>1. UNCHANGED task \/ OthersKept(w, r)
    BY <1>14, SetOne DEF HeartbeatError, HeartbeatEnds
  <2>2. Follows(task[w][r], task'[w][r])
    BY <1>14, <1>c DEF HeartbeatError, Beats
  <2> QED BY <1>a, <2>1, <2>2, OneFollows
<1>15. ASSUME NEW w \in Workers, NEW r \in Runs, HandlerRead(w, r) PROVE AllFollow
  <2>1. UNCHANGED task \/ OthersKept(w, r)
    BY <1>15, SetOne DEF HandlerRead, SetHandler
  <2>2. Follows(task[w][r], task'[w][r])
    BY <1>15, <1>b, SetOne DEF Follows, HandlerRead, SetHandler, ToSettle, ToFinally, Past, NoTask, Tasks, HandlerBusy
  <2> QED BY <1>a, <2>1, <2>2, OneFollows
<1>16. ASSUME NEW w \in Workers, NEW r \in Runs, HandlerCommit(w, r) PROVE AllFollow
  <2>1. UNCHANGED task \/ OthersKept(w, r)
    BY <1>16, SetOne DEF HandlerCommit, SetHandler
  <2>2. Follows(task[w][r], task'[w][r])
    BY <1>16, <1>b, SetOne DEF Follows, HandlerCommit, SetHandler, ToSettle, ToFinally, Past, NoTask, Tasks, HandlerBusy
  <2> QED BY <1>a, <2>1, <2>2, OneFollows
<1>17. ASSUME NEW w \in Workers, NEW r \in Runs, HandlerReturn(w, r) PROVE AllFollow
  <2>1. UNCHANGED task \/ OthersKept(w, r)
    BY <1>17, SetOne DEF HandlerReturn, SetHandler
  <2>2. Follows(task[w][r], task'[w][r])
    BY <1>17, <1>b, SetOne DEF Follows, HandlerReturn, SetHandler, ToSettle, ToFinally, Past, NoTask, Tasks, HandlerBusy
  <2> QED BY <1>a, <2>1, <2>2, OneFollows
<1>18. ASSUME NEW w \in Workers, NEW r \in Runs, HandlerRaise(w, r) PROVE AllFollow
  <2>1. UNCHANGED task \/ OthersKept(w, r)
    BY <1>18, SetOne DEF HandlerRaise, SetHandler
  <2>2. Follows(task[w][r], task'[w][r])
    BY <1>18, <1>b, SetOne DEF Follows, HandlerRaise, SetHandler, ToSettle, ToFinally, Past, NoTask, Tasks, HandlerBusy
  <2> QED BY <1>a, <2>1, <2>2, OneFollows
<1>19. ASSUME NEW w \in Workers, NEW r \in Runs, HandlerCancelled(w, r) PROVE AllFollow
  <2>1. UNCHANGED task \/ OthersKept(w, r)
    BY <1>19, SetOne DEF HandlerCancelled, SetHandler
  <2>2. Follows(task[w][r], task'[w][r])
    BY <1>19, <1>b, SetOne DEF Follows, HandlerCancelled, SetHandler, ToSettle, ToFinally, Past, NoTask, Tasks, HandlerBusy
  <2> QED BY <1>a, <2>1, <2>2, OneFollows
<1>20. ASSUME NEW w \in Workers, NEW r \in Runs, SignalCancel(w, r) PROVE AllFollow
  <2>1. UNCHANGED task \/ OthersKept(w, r)
    BY <1>20, SetOne DEF SignalCancel
  <2>2. Follows(task[w][r], task'[w][r])
    BY <1>20, <1>b, SetOne DEF Follows, SignalCancel, ToSettle, ToFinally, Past, NoTask, Tasks, HandlerBusy
  <2> QED BY <1>a, <2>1, <2>2, OneFollows
<1>21. ASSUME NEW w \in Workers, NEW r \in Runs, StoreError(w, r) PROVE AllFollow
  <2>1. UNCHANGED task \/ OthersKept(w, r)
    BY <1>21, SetOne DEF StoreError
  <2>2. Follows(task[w][r], task'[w][r])
    BY <1>21, <1>b, SetOne DEF Follows, StoreError, ToSettle, ToFinally, Past, NoTask, Tasks, HandlerBusy
  <2> QED BY <1>a, <2>1, <2>2, OneFollows
<1>22. ASSUME NEW w \in Workers, NEW r \in Runs, RequestCancel(w, r) PROVE AllFollow
  BY <1>22, <1>a DEF RequestCancel
<1>23. ASSUME NEW w \in Workers, Crash(w) PROVE AllFollow
  BY <1>23, NoTaskFollows DEF Crash, AllFollow, Follows, TypeOK
<1>24. ASSUME NEW w \in Workers, Exit(w) PROVE AllFollow
  BY <1>24, NoTaskFollows DEF Exit, AllFollow, Follows, TypeOK
<1>25. ASSUME NEW w \in Workers, Close(w) PROVE AllFollow
  <2>1. ASSUME NEW r \in Runs PROVE Follows(task[w][r], CancelledByClose(w, r))
    <3>1. task[w][r] \in Tasks /\ task[w][r].heartbeat \in Beats
      BY DEF TypeOK, Tasks
    <3>2. Follows(task[w][r], ToFinally(task[w][r]))
      BY DEF Follows, ToFinally, Past
    <3>3. \A h \in {task[w][r].heartbeat, "off"} : Follows(task[w][r], [task[w][r] EXCEPT !.pc = "abandon", !.heartbeat = h])
      BY <3>1 DEF Follows, Tasks
    <3>4. Follows(task[w][r], [task[w][r] EXCEPT !.pc = "abandon",
             !.heartbeat = IF HandlerRunning(w, r) THEN @ ELSE "off"])
      BY <3>1, <3>3 DEF Beats
    <3> QED BY <3>2, <3>4, NoTaskFollows DEF CancelledByClose
  <2> QED BY <1>25, <2>1 DEF Close, TypeOK, AllFollow, Follows
<1>26. CASE Tick
  BY <1>26, <1>a DEF Tick
<1>27. CASE UNCHANGED vars
  BY <1>27, <1>a DEF vars
<1> QED
  BY <1>1, <1>2, <1>3, <1>4, <1>5, <1>6, <1>7, <1>8, <1>9, <1>10, <1>11, <1>12, <1>13, <1>14, <1>15, <1>16, <1>17, <1>18, <1>19, <1>20, <1>21, <1>22, <1>23, <1>24, <1>25, <1>26, <1>27, <1>28
  DEF Next, Execute, Heartbeat, Handler

\* No term ends later than a full length from now, and the one a pending renewal is about no
\* later than a full length from the clock it has read: a renewal never shortens a term.
SeenInv ==
    /\ \A r \in Runs : lease[r].expires_at <= now + TTL
    /\ \A w \in Workers, r \in Runs :
         task[w][r].heartbeat = "renew" =>
           /\ task[w][r].pc # "none" /\ task[w][r].seen <= now
           /\ lease[r].holder = w /\ lease[r].fence = task[w][r].fence =>
                lease[r].expires_at <= task[w][r].seen + TTL

\* What a step does to one lease: nothing, an end, the next term, or a renewal by its holder.
LeaseMove(r) ==
    \/ lease'[r] = lease[r]
    \/ lease'[r].expires_at = 0 /\ lease'[r].holder = lease[r].holder /\ lease'[r].fence = lease[r].fence
    \/ lease'[r].expires_at <= now + TTL /\ lease'[r].fence = lease[r].fence + 1
    \/ \E w \in Workers :
         /\ lease[r].holder = w /\ lease[r].fence = task[w][r].fence
         /\ task[w][r].heartbeat = "renew" /\ task'[w][r].heartbeat # "renew"
         /\ lease'[r] = Renew(lease[r], task[w][r].seen)

LEMMA LeaseMoves ==
    ASSUME TypeOK, [Next]_vars, NEW r \in Runs
    PROVE  LeaseMove(r)
<1>1. /\ lease \in [Runs -> LeaseRow] /\ now \in Nat /\ TTL \in Nat
      /\ lease[r].fence \in Nat /\ task \in [Workers -> [Runs -> Tasks]]
  BY LeaseAssumption DEF TypeOK, LeaseRow
<1>2. CASE UNCHANGED lease
  BY <1>2 DEF LeaseMove
<1>3. ASSUME NEW v \in Workers, NEW q \in Runs, Claim(v, q) PROVE LeaseMove(r)
  <2>1. CASE q # r
    BY <1>1, <1>3, <2>1 DEF Claim, LeaseMove
  <2>2. CASE q = r
    BY <1>1, <1>3, <2>2 DEF Claim, LeaseMove, Acquire, Release, LeaseRow
  <2> QED BY <2>1, <2>2
<1>4. ASSUME NEW v \in Workers, NEW q \in Runs, Finally(v, q) PROVE LeaseMove(r)
  BY <1>1, <1>4 DEF Finally, LeaseMove, Release, LeaseRow
<1>5. ASSUME NEW v \in Workers, NEW q \in Runs, HeartbeatRenew(v, q) PROVE LeaseMove(r)
  <2>1. CASE q # r \/ UNCHANGED lease
    BY <1>1, <1>5, <2>1 DEF HeartbeatRenew, LeaseMove
  <2>2. CASE q = r /\ lease' # lease
    <3>1. /\ MayRenew(v, r) /\ task[v][r].heartbeat = "renew"
          /\ lease' = [lease EXCEPT ![r] = Renew(lease[r], task[v][r].seen)]
          /\ SetTask(v, r, [task[v][r] EXCEPT !.heartbeat = "check", !.seen = 0])
      BY <1>5, <2>2 DEF HeartbeatRenew
    <3>2. task'[v][r].heartbeat = "check"
      BY <1>1, <3>1 DEF SetTask, Tasks
    <3> QED BY <1>1, <3>1, <3>2 DEF LeaseMove, MayRenew, Owned
  <2> QED BY <2>1, <2>2
<1> QED BY <1>2, <1>3, <1>4, <1>5, LeaseSteps

LEMMA SeenInductive == IInv /\ SeenInv /\ [Next]_vars => SeenInv'
<1> SUFFICES ASSUME IInv, SeenInv, [Next]_vars PROVE SeenInv'
  OBVIOUS
<1>1. TypeOK /\ TypeOK' /\ now \in Nat /\ now' \in Nat /\ now' >= now /\ TTL \in Nat
  BY TypeInductive, ClockSteps, LeaseAssumption DEF IInv, TypeOK
<1>2. AllFollow /\ \A r \in Runs : LeaseMove(r)
  BY <1>1, FollowStep, LeaseMoves
<1>3. \A r \in Runs : /\ lease[r].expires_at \in Nat /\ lease[r].fence \in Nat
                     /\ lease'[r].expires_at \in Nat /\ lease'[r].fence \in Nat
                     /\ lease[r].expires_at <= now + TTL
  BY <1>1 DEF TypeOK, LeaseRow, SeenInv
<1>4. \A w \in Workers, r \in Runs : task[w][r].seen \in Nat /\ task[w][r].fence \in Nat
  BY <1>1 DEF TypeOK, Tasks
<1>5. ASSUME NEW r \in Runs, NEW w \in Workers, lease'[r] = Renew(lease[r], task[w][r].seen)
      PROVE  /\ lease'[r].expires_at = task[w][r].seen + TTL
             /\ lease'[r].holder = lease[r].holder /\ lease'[r].fence = lease[r].fence
  BY <1>1, <1>5 DEF Renew, TypeOK, LeaseRow
<1>6. ASSUME NEW r \in Runs PROVE lease'[r].expires_at <= now' + TTL
  <2>1. lease'[r].expires_at <= now + TTL
    BY <1>1, <1>2, <1>3, <1>4, <1>5 DEF LeaseMove, SeenInv
  <2> QED BY <1>1, <1>3, <2>1
<1>7. ASSUME NEW w \in Workers, NEW r \in Runs, task'[w][r].heartbeat = "renew"
      PROVE  /\ task'[w][r].pc # "none" /\ task'[w][r].seen <= now'
             /\ lease'[r].holder = w /\ lease'[r].fence = task'[w][r].fence =>
                  lease'[r].expires_at <= task'[w][r].seen + TTL
  <2>1. /\ task'[w][r].fence = task[w][r].fence
        /\ task'[w][r].pc = task[w][r].pc \/ task'[w][r].pc # "none"
        /\ \/ task[w][r].heartbeat = "renew" /\ task'[w][r].seen = task[w][r].seen
           \/ task[w][r].pc # "none" /\ task'[w][r].seen = now
    BY <1>2, <1>7 DEF AllFollow, Follows
  <2>2. task[w][r].pc # "none"
    BY <2>1 DEF SeenInv
  <2>3. task'[w][r].seen <= now'
    BY <1>1, <1>4, <2>1 DEF SeenInv
  <2>4. task[w][r].fence <= lease[r].fence
    BY <2>2 DEF IInv, TaskInv
  <2>5. ASSUME lease'[r].holder = w, lease'[r].fence = task'[w][r].fence
        PROVE  lease'[r].expires_at <= task'[w][r].seen + TTL
    <3>1. CASE lease'[r].fence = lease[r].fence + 1
      BY <1>3, <1>4, <2>1, <2>4, <2>5, <3>1
    <3>2. CASE \E v \in Workers :
                 /\ lease[r].holder = v /\ lease'[r] = Renew(lease[r], task[v][r].seen)
                 /\ task'[v][r].heartbeat # "renew"
      BY <1>5, <1>7, <2>5, <3>2
    <3>3. CASE lease'[r].expires_at = 0
      BY <1>1, <1>4, <2>1, <3>3
    <3>4. CASE lease'[r] = lease[r]
      BY <1>1, <1>3, <1>4, <2>1, <2>5, <3>4 DEF SeenInv
    <3> QED BY <1>2, <3>1, <3>2, <3>3, <3>4 DEF LeaseMove
  <2> QED BY <2>1, <2>2, <2>3, <2>5
<1> QED BY <1>6, <1>7 DEF SeenInv

LEMMA SeenInvariance == Spec => []SeenInv
<1>1. Init => SeenInv
  BY LeaseAssumption DEF Init, SeenInv, FreshLease, NoTask
<1> QED BY <1>1, SeenInductive, Invariance, PTL DEF Spec

\* The term of a running handler outlives every step but the passing of time.
LEMMA OwnerKept ==
    ASSUME TypeOK, SeenInv, [Next]_vars, NEW w \in Workers, NEW r \in Runs,
           HandlerRunning(w, r), Owns(w, r), HandlerRunning(w, r)', now' = now
    PROVE  Owns(w, r)'
<1>1. task'[w][r].fence = task[w][r].fence
  BY FollowStep DEF AllFollow, Follows, HandlerRunning
<1>2. /\ lease \in [Runs -> LeaseRow]
      /\ now \in Nat
      /\ lease[r].holder = w /\ lease[r].fence = task[w][r].fence /\ lease[r].expires_at > now
      /\ lease[r].expires_at \in Nat
  BY DEF TypeOK, Owns, Owned, LeaseRow
<1>3. SUFFICES lease'[r].holder = lease[r].holder /\ lease'[r].fence = lease[r].fence
               /\ lease'[r].expires_at > now
  BY <1>1, <1>2 DEF Owns, Owned
<1>4. CASE UNCHANGED lease
  BY <1>2, <1>4
<1>5. ASSUME NEW v \in Workers, NEW q \in Runs, Claim(v, q)
      PROVE  lease'[r] = lease[r]
  <2>1. q # r
    BY <1>2, <1>5 DEF Claim, CanAcquire
  <2> QED BY <1>2, <1>5, <2>1 DEF Claim
<1>6. ASSUME NEW v \in Workers, NEW q \in Runs, Finally(v, q)
      PROVE  lease'[r] = lease[r]
  <2>1. CASE q # r
    BY <1>2, <1>6, <2>1 DEF Finally
  <2>2. CASE q = r
    <3>1. v # w
      BY <1>6, <2>2 DEF Finally
    <3> QED BY <1>2, <1>6, <2>2, <3>1 DEF Finally, Release, Owned
  <2> QED BY <2>1, <2>2
<1>7. ASSUME NEW v \in Workers, NEW q \in Runs, HeartbeatRenew(v, q)
      PROVE  lease'[r].holder = lease[r].holder /\ lease'[r].fence = lease[r].fence
             /\ lease'[r].expires_at > now
  <2>1. CASE q # r \/ UNCHANGED lease
    BY <1>2, <1>7, <2>1 DEF HeartbeatRenew
  <2>2. CASE q = r /\ lease' # lease
    <3>1. /\ MayRenew(v, r) /\ task[v][r].heartbeat = "renew"
          /\ lease' = [lease EXCEPT ![r] = Renew(lease[r], task[v][r].seen)]
      BY <1>7, <2>2 DEF HeartbeatRenew
    <3>2. v = w
      BY <1>2, <3>1 DEF MayRenew, Owned
    <3>3. lease'[r] = [lease[r] EXCEPT !.expires_at = task[w][r].seen + TTL]
      BY <1>2, <3>1, <3>2 DEF Renew
    <3>4. /\ lease[r].expires_at <= task[w][r].seen + TTL
          /\ task[w][r].seen \in Nat
      BY <1>2, <3>1, <3>2 DEF SeenInv, TypeOK, Tasks
    <3> QED BY <1>2, <3>3, <3>4, LeaseAssumption DEF LeaseRow
  <2> QED BY <1>7, <2>1, <2>2 DEF HeartbeatRenew
<1> QED BY <1>2, <1>4, <1>5, <1>6, <1>7, LeaseSteps

\* The four writers of a run are its owner, or ask for its cancellation.
LEMMA OwnerWrites ==
    ASSUME TypeOK, [Next]_vars, NEW r \in Runs, run'[r] # run[r]
    PROVE  \/ run'[r] = [run[r] EXCEPT !.state = "cancel_requested"]
           \/ \E w \in Workers : Owns(w, r) /\ task'[w][r] # task[w][r]
<1>1. run \in [Runs -> RunRows] /\ task \in [Workers -> [Runs -> Tasks]]
  BY DEF TypeOK
<1>2. ASSUME NEW w \in Workers, NEW q \in Runs, RequestCancel(w, q)
      PROVE  run'[r] = [run[r] EXCEPT !.state = "cancel_requested"]
  BY <1>1, <1>2 DEF RequestCancel
<1>3. ASSUME NEW w \in Workers, NEW q \in Runs, NEW t, SetTask(w, q, t), t.pc # task[w][q].pc
                 \/ t.handler # task[w][q].handler
      PROVE  task'[w][q] # task[w][q]
  BY <1>1, <1>3 DEF SetTask
<1>4. ASSUME NEW w \in Workers, NEW q \in Runs, Start(w, q)
      PROVE  \E v \in Workers : Owns(v, r) /\ task'[v][r] # task[v][r]
  <2>1. CanSet(w, q, "running") /\ WriteState(q, "running")
        /\ SetTask(w, q, [task[w][q] EXCEPT !.pc = "launch"])
    BY <1>4 DEF Start
  <2>2. q = r
    BY <1>1, <2>1 DEF WriteState
  <2>3. task[w][q].pc = "start" /\ [task[w][q] EXCEPT !.pc = "launch"].pc = "launch"
    BY <1>1, <1>4 DEF Start, Tasks
  <2> QED BY <1>3, <2>1, <2>2, <2>3 DEF CanSet
<1>5. ASSUME NEW w \in Workers, NEW q \in Runs, Settle(w, q)
      PROVE  \E v \in Workers : Owns(v, r) /\ task'[v][r] # task[v][r]
  <2>1. CanSet(w, q, task[w][q].goal) /\ WriteState(q, task[w][q].goal)
        /\ SetTask(w, q, ToFinally(task[w][q]))
    BY <1>5 DEF Settle
  <2>2. q = r
    BY <1>1, <2>1 DEF WriteState
  <2>3. task[w][q].pc = "settle" /\ ToFinally(task[w][q]).pc = "finally"
    BY <1>5 DEF Settle, ToFinally, Past
  <2> QED BY <1>3, <2>1, <2>2, <2>3 DEF CanSet
<1>6. ASSUME NEW w \in Workers, NEW q \in Runs, HandlerCommit(w, q)
      PROVE  \E v \in Workers : Owns(v, r) /\ task'[v][r] # task[v][r]
  <2>1. Owns(w, q) /\ run' = [run EXCEPT ![q].marker = TRUE]
        /\ SetTask(w, q, [task[w][q] EXCEPT !.handler = "tail"])
    BY <1>6 DEF HandlerCommit, SetHandler
  <2>2. q = r
    BY <1>1, <2>1
  <2>3. task[w][q].handler = "work" /\ [task[w][q] EXCEPT !.handler = "tail"].handler = "tail"
    BY <1>1, <1>6 DEF HandlerCommit, Tasks
  <2> QED BY <1>3, <2>1, <2>2, <2>3
<1> QED BY <1>2, <1>4, <1>5, <1>6, RunSteps

\* A process acts on a run only as its owner: _execute() stops the handler before it gives the
\* lease back, and every durable write of an execution asserts its lease in the same transaction.
THEOREM OwnersAreExclusiveHolds == Spec => OwnersAreExclusive
<1>1. TypeOK /\ SeenInv /\ [Next]_vars =>
        [\A w \in Workers, r \in Runs :
           HandlerRunning(w, r) /\ Owns(w, r) /\ HandlerRunning(w, r)' /\ now' = now
           => Owns(w, r)']_vars
  BY OwnerKept
<1>2. TypeOK /\ [Next]_vars =>
        [\A r \in Runs :
           run'[r] # run[r] =>
             \/ run'[r] = [run[r] EXCEPT !.state = "cancel_requested"]
             \/ \E w \in Workers : Owns(w, r) /\ task'[w][r] # task[w][r]]_vars
  BY OwnerWrites
<1> QED BY <1>1, <1>2, TypeCorrect, SeenInvariance, PTL
        DEF Spec, OwnersAreExclusive, ReleaseAfterHandlerStopped, OnlyOwnerWrites

-----------------------------------------------------------------------------
(* Refinement. *)

\* The phase of one run changes, and the phases of the others do not.
LEMMA PhaseStep ==
    ASSUME NEW r \in Runs, \A x \in Runs : x # r => run'[x].state = run[x].state
    PROVE  PhaseBar' = [PhaseBar EXCEPT ![r] = PhaseOf(run'[r].state)]
BY DEF PhaseBar

LEMMA SameBegun ==
    ASSUME \A x \in Runs : run'[x].started = run[x].started
    PROVE  BegunBar' = BegunBar
BY DEF BegunBar

LEMMA RefinementStep ==
    ASSUME IInv, IInv', [Next]_vars
    PROVE  [Outcome!AbsNext]_(Outcome!absVars)
<1> SUFFICES ASSUME UNCHANGED <<run, generation>> \/ Outcome!AbsNext
             PROVE  [Outcome!AbsNext]_(Outcome!absVars)
  <2>1. CASE UNCHANGED <<run, generation>>
    BY <2>1 DEF Outcome!absVars, PhaseBar, BegunBar
  <2>2. ASSUME NEW w \in Workers, NEW r \in Runs, Start(w, r) PROVE UNCHANGED <<run, generation>> \/ Outcome!AbsNext
    <3>1. CASE UNCHANGED run
      BY <2>2, <3>1 DEF Start
    <3>2. CASE CanSet(w, r, "running") /\ WriteState(r, "running")
      <4>1. run[r].state = "pending" /\ run'[r].state = "running" /\ run'[r].started
        BY <3>2 DEF CanSet, WriteState, LegalTransitions, IInv, TypeOK, RunRows
      <4>2. \A x \in Runs : x # r => run'[x] = run[x]
        BY <3>2 DEF WriteState, IInv, TypeOK
      <4>3. PhaseBar[r] = "queued" /\ PhaseBar' = [PhaseBar EXCEPT ![r] = "executing"]
        BY <4>1, <4>2, PhaseStep DEF PhaseBar, PhaseOf
      <4>4. BegunBar' = [BegunBar EXCEPT ![r] = TRUE]
        BY <4>1, <4>2 DEF BegunBar, IInv, TypeOK, RunRows
      <4>5. generation' = generation
        BY <2>2 DEF Start
      <4> QED BY <4>3, <4>4, <4>5 DEF Outcome!AbsNext, Outcome!Commence
    <3> QED BY <2>2, <3>1, <3>2 DEF Start
  <2>3. ASSUME NEW w \in Workers, NEW r \in Runs, Settle(w, r) PROVE UNCHANGED <<run, generation>> \/ Outcome!AbsNext
    <3>1. CASE UNCHANGED run
      BY <2>3, <3>1 DEF Settle
    <3>2. CASE CanSet(w, r, task[w][r].goal) /\ WriteState(r, task[w][r].goal)
      <4> DEFINE g == task[w][r].goal
      <4>1. g \in Goals /\ run[r].state \in ActiveStates /\ g \in TerminalStates
        <5>1. g \in Goals
          BY DEF IInv, TypeOK, Tasks
        <5>2. run[r].state \in RunStates /\ g \in LegalTransitions(run[r].state)
          BY <3>2 DEF CanSet, IInv, TypeOK, RunRows
        <5>3. run[r].state \in ActiveStates
          BY <5>2 DEF LegalTransitions, RunStates, ActiveStates, TerminalStates
        <5>4. g \notin {"running", "cancel_requested"}
          BY <5>1 DEF Goals
        <5>5. g \in TerminalStates
          BY <5>2, <5>3, <5>4 DEF LegalTransitions, ActiveStates, TerminalStates
        <5> QED BY <5>1, <5>3, <5>5
      <4>2. g = "succeeded" => run[r].started
        BY DEF IInv, TaskInv, NeedsStart
      <4>3. /\ run'[r].state = g
            /\ \A x \in Runs : run'[x].started = run[x].started
            /\ \A x \in Runs : x # r => run'[x] = run[x]
        BY <3>2, <4>1 DEF WriteState, IInv, TypeOK, RunRows, TerminalStates
      <4> HIDE DEF g
      <4>4. PhaseBar[r] \notin Outcome!Outcomes /\ PhaseBar' = [PhaseBar EXCEPT ![r] = g]
        BY <4>1, <4>3, PhaseStep DEF PhaseBar, PhaseOf, Outcome!Outcomes, ActiveStates, TerminalStates
      <4>5. BegunBar' = BegunBar /\ (g = "succeeded" => BegunBar[r])
        BY <4>2, <4>3, SameBegun DEF BegunBar
      <4>6. generation' = generation
        BY <2>3 DEF Settle
      <4>7. g \in Outcome!Outcomes
        BY <4>1 DEF Outcome!Outcomes, TerminalStates
      <4> QED BY <4>4, <4>5, <4>6, <4>7 DEF Outcome!AbsNext, Outcome!Conclude
    <3> QED BY <2>3, <3>1, <3>2 DEF Settle
  <2>4. ASSUME NEW w \in Workers, NEW r \in Runs, HandlerCommit(w, r)
        PROVE  UNCHANGED <<run, generation>> \/ Outcome!AbsNext
    <3>1. CASE UNCHANGED <<run, generation>>
      BY <3>1
    <3>2. CASE /\ Owns(w, r) /\ ~Terminal(r)
               /\ run' = [run EXCEPT ![r].marker = TRUE]
               /\ generation' = [generation EXCEPT ![r] = @ + 1]
      <4>1. TaskInv(w, r) /\ RunInv(r) /\ task[w][r].handler = "work"
        BY <2>4 DEF IInv, HandlerCommit
      <4>2. ~run[r].marker /\ run[r].started
        BY <3>2, <4>1 DEF TaskInv, NeedsStart, Owns, Owned
      <4>3. generation[r] = 0 /\ generation' = [generation EXCEPT ![r] = 1]
        BY <3>2, <4>1, <4>2 DEF RunInv
      <4>4. run[r].state \in {"running", "cancel_requested"}
        BY <3>2, <4>1, <4>2 DEF RunInv, Terminal, IInv, TypeOK, RunRows, RunStates, ActiveStates
      <4>5. \A x \in Runs : run'[x].state = run[x].state /\ run'[x].started = run[x].started
        BY <3>2 DEF IInv, TypeOK, RunRows
      <4>6. PhaseBar' = PhaseBar /\ BegunBar' = BegunBar
        BY <4>5 DEF PhaseBar, BegunBar
      <4>7. PhaseBar[r] \in {"executing", "stopping"} /\ BegunBar[r]
        BY <4>2, <4>4 DEF PhaseBar, PhaseOf, BegunBar
      <4> QED BY <4>3, <4>6, <4>7 DEF Outcome!AbsNext, Outcome!Apply
    <3> QED BY <2>4, <3>1, <3>2 DEF HandlerCommit
  <2>5. ASSUME NEW w \in Workers, NEW r \in Runs, RequestCancel(w, r)
        PROVE  UNCHANGED <<run, generation>> \/ Outcome!AbsNext
    <3>1. run[r].state \in ActiveStates /\ generation' = generation
      BY <2>5 DEF RequestCancel, Terminal, IInv, TypeOK, RunRows, RunStates
    <3>2. /\ run'[r].state = "cancel_requested"
          /\ \A x \in Runs : run'[x].started = run[x].started
          /\ \A x \in Runs : x # r => run'[x] = run[x]
      BY <2>5 DEF RequestCancel, IInv, TypeOK, RunRows
    <3>3. CASE run[r].state = "cancel_requested"
      BY <2>5, <3>1, <3>3 DEF RequestCancel, IInv, TypeOK, RunRows
    <3>4. CASE run[r].state \in {"pending", "running"}
      <4>1. PhaseBar[r] \in {"queued", "executing"} /\ PhaseBar' = [PhaseBar EXCEPT ![r] = "stopping"]
        BY <3>2, <3>4, PhaseStep DEF PhaseBar, PhaseOf
      <4> QED BY <3>1, <3>2, <4>1, SameBegun DEF Outcome!AbsNext, Outcome!AskToStop
    <3> QED BY <3>1, <3>3, <3>4 DEF ActiveStates
  <2> QED BY <2>1, <2>2, <2>3, <2>4, <2>5, RunSteps
<1> QED BY DEF Outcome!absVars, PhaseBar, BegunBar

LEMMA RefinementInit == Init => Outcome!AbsInit
<1> SUFFICES ASSUME Init PROVE Outcome!AbsInit
  OBVIOUS
<1>1. PhaseBar = [r \in Runs |-> "queued"]
  BY DEF Init, PhaseBar, PhaseOf
<1>2. BegunBar = [r \in Runs |-> FALSE]
  BY DEF Init, BegunBar
<1> QED BY <1>1, <1>2 DEF Init, Outcome!AbsInit

\* The dispatcher implements the abstract run: whatever the processes, their
\* leases and their faults do, each run begins once, applies its domain step at
\* most once and only after it began, and settles once and for good.
THEOREM ImplementsRunOutcomeHolds == Spec => ImplementsRunOutcome
<1>1. IInv /\ IInv' /\ [Next]_vars => [Outcome!AbsNext]_(Outcome!absVars)
  BY RefinementStep
<1> QED BY <1>1, RefinementInit, Invariance, PTL DEF Spec, ImplementsRunOutcome, Outcome!AbsSpec

=============================================================================
