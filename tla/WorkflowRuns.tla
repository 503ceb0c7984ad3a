---------------------------- MODULE WorkflowRuns ----------------------------
(***************************************************************************)
(* Admission of workflow runs (backend/app/workflows/service.py): how      *)
(* create_run, create_run_atomic, complete_new_run_atomic and retry_run,   *)
(* called by several requests and processes at once, agree on one run per  *)
(* idempotency key and one active run per active key.                      *)
(*                                                                         *)
(* create_run() reads outside a transaction and relies on the two unique   *)
(* indexes of workflow_runs; the other operations run under BEGIN          *)
(* IMMEDIATE and are one step.  The rows belong to one tenant and owner.   *)
(* A run is reduced to its keys, its lineage and its state; of its event   *)
(* log only the workflow.retry_created events are kept, as a count.        *)
(***************************************************************************)
EXTENDS Naturals, WorkflowStates

CONSTANTS
    RunIds,      \* run ids, fresh uuids
    Callers,     \* requests in flight
    IdemKeys,    \* idempotency keys a request may carry
    ActiveKeys,  \* active keys a request may carry
    NoKey,       \* idempotency_key or active_key is NULL
    NoRun        \* parent_run_id is NULL, or no run was found

ASSUME RunIdsAssumption == NoRun \notin RunIds /\ NoKey \notin RunIds
ASSUME KeysAssumption == /\ NoKey \notin IdemKeys /\ NoKey \notin ActiveKeys
                         /\ IdemKeys \cap RunIds = {}

VARIABLES
    runs,     \* workflow_runs; the state of a row not inserted yet is "absent"
    retried,  \* how many workflow.retry_created events a run has
    call      \* where each create_run() call stands and what it returned

vars == <<runs, retried, call>>

\* The idempotency key of a retry is "workflow.retry:<parent>:<attempt>": the
\* parent determines it, so the parent's run id stands for it.
Keys == IdemKeys \cup RunIds \cup {NoKey}

Rows == [state : RunStates \cup {"absent"}, idem : Keys, active : ActiveKeys \cup {NoKey},
         attempt : Nat, parent : RunIds \cup {NoRun}]

NoRow == [state |-> "absent", idem |-> NoKey, active |-> NoKey, attempt |-> 0, parent |-> NoRun]

Bodies == [idem : IdemKeys \cup {NoKey}, active : ActiveKeys \cup {NoKey}]

CallPcs == {"idle", "check_active", "insert", "lookup_idem", "lookup_active", "answered", "raised"}

\* blocker is the row whose unique key refused the insert.
Calls == [pc : CallPcs, body : Bodies, answer : RunIds \cup {NoRun}, blocker : RunIds \cup {NoRun}]

TypeOK ==
    /\ runs \in [RunIds -> Rows]
    /\ retried \in [RunIds -> Nat]
    /\ call \in [Callers -> Calls]

Init ==
    /\ runs = [r \in RunIds |-> NoRow]
    /\ retried = [r \in RunIds |-> 0]
    /\ call = [c \in Callers |-> [pc |-> "idle", body |-> [idem |-> NoKey, active |-> NoKey],
                                  answer |-> NoRun, blocker |-> NoRun]]

-----------------------------------------------------------------------------

Present(r) == runs[r].state # "absent"

Active(r) == runs[r].state \in ActiveStates

\* Variant: only the active rows of an idempotency key count.
WithIdemActive(k) == {r \in RunIds : k # NoKey /\ Active(r) /\ runs[r].idem = k}

\* SELECT ... WHERE idempotency_key = ?, whatever the state of the row.
WithIdem(k) == {r \in RunIds : k # NoKey /\ Present(r) /\ runs[r].idem = k}

\* Variant: the query forgets the key.
WithActiveAnyKey(k) == {r \in RunIds : k # NoKey /\ Active(r)}

\* SELECT ... WHERE active_key = ? AND state IN (active states).
WithActive(k) == {r \in RunIds : k # NoKey /\ Active(r) /\ runs[r].active = k}

\* The pre-check of create_run_in_transaction(): the idempotency key first.
Existing(idem, active) ==
    IF WithIdem(idem) # {} THEN WithIdem(idem) ELSE WithActive(active)

\* What idx_workflow_idempotency and idx_workflow_active_key refuse.
Blockers(idem, active) == WithIdem(idem) \cup WithActive(active)

\* Variant: the initial state is not one of the table.
NewRowQueued(idem, active, attempt, parent) ==
    [state |-> "queued", idem |-> idem, active |-> active, attempt |-> attempt, parent |-> parent]

NewRow(idem, active, attempt, parent) ==
    [state |-> "pending", idem |-> idem, active |-> active, attempt |-> attempt, parent |-> parent]

-----------------------------------------------------------------------------
(* create_run(): every statement up to the INSERT is a transaction of its own. *)

SetCall(c, pc, answer) ==
    call' = [call EXCEPT ![c].pc = pc, ![c].answer = answer,
                         ![c].blocker = IF pc = "answered" THEN NoRun ELSE @]

\* A request arrives and its first SELECT runs.
CheckIdem(c, b) ==
    /\ call[c].pc \in {"idle", "answered", "raised"}
    /\ \/ /\ WithIdem(b.idem) = {}
          /\ call' = [call EXCEPT ![c] = [pc |-> "check_active", body |-> b,
                                          answer |-> NoRun, blocker |-> NoRun]]
       \/ \E r \in WithIdem(b.idem) :
            call' = [call EXCEPT ![c] = [pc |-> "answered", body |-> b,
                                         answer |-> r, blocker |-> NoRun]]
    /\ UNCHANGED <<runs, retried>>

CheckActive(c) ==
    LET found == WithActive(call[c].body.active) IN
    /\ call[c].pc = "check_active"
    /\ \/ found = {} /\ SetCall(c, "insert", NoRun)
       \/ \E r \in found : SetCall(c, "answered", r)
    /\ UNCHANGED <<runs, retried>>

\* INSERT of the run and its workflow.created event, committed together, or an
\* IntegrityError of a unique index.
Insert(c) ==
    LET b == call[c].body
        blockers == Blockers(b.idem, b.active)
    IN  /\ call[c].pc = "insert"
        /\ \/ /\ blockers = {}
              /\ \E r \in RunIds :
                   /\ ~Present(r)
                   /\ runs' = [runs EXCEPT ![r] = NewRow(b.idem, b.active, 1, NoRun)]
                   /\ SetCall(c, "answered", r)
              /\ UNCHANGED retried
           \/ /\ \E r \in blockers :
                   call' = [call EXCEPT ![c].pc = "lookup_idem", ![c].blocker = r]
              /\ UNCHANGED <<runs, retried>>

\* Variant: the winner is looked up by its idempotency key alone.
LookupIdemOnly(c) ==
    LET found == WithIdem(call[c].body.idem) IN
    /\ call[c].pc = "lookup_idem"
    /\ \/ found = {} /\ SetCall(c, "raised", NoRun)
       \/ \E r \in found : SetCall(c, "answered", r)
    /\ UNCHANGED <<runs, retried>>

\* After the IntegrityError: get_by_idempotency(), then get_active_by_active_key().
LookupIdem(c) ==
    LET found == WithIdem(call[c].body.idem) IN
    /\ call[c].pc = "lookup_idem"
    /\ \/ found = {} /\ SetCall(c, "lookup_active", NoRun)
       \/ \E r \in found : SetCall(c, "answered", r)
    /\ UNCHANGED <<runs, retried>>

LookupActive(c) ==
    LET found == WithActive(call[c].body.active) IN
    /\ call[c].pc = "lookup_active"
    /\ \/ found = {} /\ SetCall(c, "raised", NoRun)
       \/ \E r \in found : SetCall(c, "answered", r)
    /\ UNCHANGED <<runs, retried>>

-----------------------------------------------------------------------------
(* The operations under BEGIN IMMEDIATE. *)

\* create_run_atomic() inserts unless the pre-check finds a run.
CreateAtomic(r, b) ==
    /\ ~Present(r)
    /\ Existing(b.idem, b.active) = {}
    /\ runs' = [runs EXCEPT ![r] = NewRow(b.idem, b.active, 1, NoRun)]
    /\ UNCHANGED <<retried, call>>

\* complete_new_run_atomic() also settles the new run; an existing one is an error.
CompleteNew(r, b) ==
    /\ ~Present(r)
    /\ Existing(b.idem, b.active) = {}
    /\ runs' = [runs EXCEPT ![r] = [NewRow(b.idem, b.active, 1, NoRun) EXCEPT !.state = "succeeded"]]
    /\ UNCHANGED <<retried, call>>

\* Variant: a retry carries no permanent idempotency key.
RetryWithoutKey(old, new) ==
    /\ runs[old].state \in TerminalStates \ {"succeeded"}
    /\ ~Present(new)
    /\ Existing(NoKey, runs[old].active) = {}
    /\ runs' = [runs EXCEPT ![new] = NewRow(NoKey, runs[old].active, runs[old].attempt + 1, old)]
    /\ retried' = [retried EXCEPT ![old] = @ + 1]
    /\ UNCHANGED call

\* retry_run() of a terminal run that did not succeed: the child inherits the
\* active key, and the parent's event is written only with a new child.  When
\* the pre-check finds a run nothing is written: the child of an earlier retry
\* is returned, any other run is a conflict.
Retry(old, new) ==
    /\ runs[old].state \in TerminalStates \ {"succeeded"}
    /\ ~Present(new)
    /\ Existing(old, runs[old].active) = {}
    /\ runs' = [runs EXCEPT ![new] = NewRow(old, runs[old].active, runs[old].attempt + 1, old)]
    /\ retried' = [retried EXCEPT ![old] = @ + 1]
    /\ UNCHANGED call

\* _set_state() on behalf of a dispatcher or a canceller.
SetState(r, s) ==
    /\ s \in LegalTransitions(runs[r].state)
    /\ runs' = [runs EXCEPT ![r].state = s]
    /\ UNCHANGED <<retried, call>>

-----------------------------------------------------------------------------

CreateRun(c) == CheckActive(c) \/ Insert(c) \/ LookupIdem(c) \/ LookupActive(c)

Next ==
    \/ \E c \in Callers : (\E b \in Bodies : CheckIdem(c, b)) \/ CreateRun(c)
    \/ \E r \in RunIds, b \in Bodies : CreateAtomic(r, b) \/ CompleteNew(r, b)
    \/ \E old, new \in RunIds : Retry(old, new)
    \/ \E r \in RunIds, s \in RunStates : SetState(r, s)

Spec == Init /\ [][Next]_vars

-----------------------------------------------------------------------------
(* Properties. *)

\* The unique keys survive every mix of optimistic inserts, atomic creates and
\* retries: one run per idempotency key for ever, one active run per active key.
KeysAreUnique ==
    \A r, s \in RunIds : r # s =>
        /\ Present(r) /\ Present(s) /\ runs[r].idem = runs[s].idem => runs[r].idem = NoKey
        /\ Active(r) /\ Active(s) /\ runs[r].active = runs[s].active => runs[r].active = NoKey

HasRetry(r) == \E s \in RunIds : Present(s) /\ runs[s].parent = r

\* The lineage retry_run() leaves is a chain: a retry hangs below a finished run
\* that did not succeed, no run has two retries, attempts count up, and the
\* event that makes a retry discoverable exists exactly when the retry does.
\* Hence only the last run of a chain can be active, active key or not.
LineageIsAChain ==
    /\ \A r \in RunIds : Present(r) /\ runs[r].parent # NoRun =>
         /\ runs[runs[r].parent].state \in TerminalStates \ {"succeeded"}
         /\ runs[r].attempt = runs[runs[r].parent].attempt + 1
    /\ \A r, s \in RunIds :
         Present(r) /\ Present(s) /\ runs[r].parent # NoRun /\ runs[r].parent = runs[s].parent => r = s
    /\ \A r \in RunIds : retried[r] = (IF HasRetry(r) THEN 1 ELSE 0)

\* create_run() passes an IntegrityError on only when the active run that
\* refused the insert finished before the caller could look it up; losing a race
\* for an idempotency key never fails a request.
RaisedOnlyIfWinnerFinished ==
    \A c \in Callers : call[c].pc = "raised" =>
        /\ runs[call[c].blocker].state \in TerminalStates
        /\ runs[call[c].blocker].idem # call[c].body.idem \/ call[c].body.idem = NoKey

\* Two requests with the same idempotency key that were answered with a run of
\* that key hold the same run, and a request is answered with another run only
\* if that run shares its active key.
AnswersAgree ==
    \A c \in Callers : call[c].pc = "answered" =>
        LET k == call[c].body.idem
            a == call[c].body.active
            r == call[c].answer
        IN  \/ k # NoKey /\ runs[r].idem = k /\ WithIdem(k) = {r}
            \/ k = NoKey /\ runs[r].idem = NoKey
            \/ a # NoKey /\ runs[r].active = a

\* What the rows of workflow_runs promise: unique keys and a lineage that is a chain.
RowsAreSound == KeysAreUnique /\ LineageIsAChain

\* What create_run() promises its caller: the run it asked for, or an error only if that run
\* finished in between.
AnswersAreSound == RaisedOnlyIfWinnerFinished /\ AnswersAgree

=============================================================================
