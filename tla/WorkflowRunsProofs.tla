------------------------- MODULE WorkflowRunsProofs -------------------------
(***************************************************************************)
(* The admission invariants of WorkflowRuns hold for any number of         *)
(* requests, runs and keys, and so do those of the logs (DurableLogs) for  *)
(* any number of workers, sockets, processes and builds.                   *)
(*                                                                         *)
(* The lineage is a chain because the idempotency key of a retry names its *)
(* parent and nothing else carries such a key; RetryKeys says so and makes *)
(* the conjunction inductive.                                              *)
(***************************************************************************)
EXTENDS WorkflowRuns, DurableLogs, SequenceTheorems, TLAPS

\* A run has a parent exactly when its idempotency key is the retry key of that
\* parent.
RetryKeys ==
    \A r \in RunIds : Present(r) =>
        IF runs[r].parent = NoRun THEN runs[r].idem \notin RunIds
                                  ELSE runs[r].idem = runs[r].parent

RowInv == KeysAreUnique /\ LineageIsAChain /\ RetryKeys

IInv == TypeOK /\ RowInv

-----------------------------------------------------------------------------

\* The pre-check under BEGIN IMMEDIATE finds nothing exactly when no unique
\* index would refuse the insert.
LEMMA NothingExisting ==
    ASSUME NEW idem, NEW active, Existing(idem, active) = {}
    PROVE  Blockers(idem, active) = {}
BY DEF Existing, Blockers

\* No blocker means that no other row holds either key.
LEMMA NoBlocker ==
    ASSUME NEW idem, NEW active, Blockers(idem, active) = {}, NEW r \in RunIds
    PROVE  /\ idem # NoKey /\ Present(r) => runs[r].idem # idem
           /\ active # NoKey /\ Active(r) => runs[r].active # active
BY DEF Blockers, WithIdem, WithActive

LEMMA ActiveIsPresent ==
    ASSUME NEW r \in RunIds, Active(r)
    PROVE  Present(r)
BY DEF Active, Present, ActiveStates

\* The initial table is empty.
LEMMA InitInv == Init => IInv
<1> SUFFICES ASSUME Init PROVE IInv
    OBVIOUS
<1>1. \A r \in RunIds : ~Present(r) /\ ~Active(r)
    BY DEF Init, NoRow, Present, Active, ActiveStates
<1>2. TypeOK
    BY DEF Init, TypeOK, Rows, NoRow, Keys, Calls, CallPcs, Bodies, RunStates
<1>3. KeysAreUnique /\ RetryKeys
    BY <1>1 DEF KeysAreUnique, RetryKeys
<1>4. LineageIsAChain
    BY <1>1 DEF LineageIsAChain, HasRetry, Init
<1> QED BY <1>2, <1>3, <1>4 DEF IInv, RowInv

-----------------------------------------------------------------------------

\* Types: the steps of create_run().
LEMMA CallType ==
    ASSUME TypeOK, NEW c \in Callers, NEW pc \in CallPcs, NEW a \in RunIds \cup {NoRun},
           SetCall(c, pc, a)
    PROVE  call' \in [Callers -> Calls]
<1> DEFINE b == IF pc = "answered" THEN NoRun ELSE call[c].blocker
           record == [call[c] EXCEPT !.pc = pc, !.answer = a, !.blocker = b]
<1>1. call \in [Callers -> Calls] /\ call[c] \in Calls
    BY DEF TypeOK
<1>2. b \in RunIds \cup {NoRun}
    BY <1>1 DEF Calls
<1>3. call' = [call EXCEPT ![c] = record]
    BY <1>1 DEF SetCall, Calls
<1>4. record \in Calls
    <2> HIDE DEF b
    <2> QED BY <1>1, <1>2 DEF Calls
<1> HIDE DEF record
<1> QED BY <1>1, <1>3, <1>4

LEMMA NewRowType ==
    ASSUME NEW idem \in Keys, NEW active \in ActiveKeys \cup {NoKey}, NEW n \in Nat,
           NEW p \in RunIds \cup {NoRun}
    PROVE  NewRow(idem, active, n, p) \in Rows
BY DEF NewRow, Rows, RunStates, ActiveStates

LEMMA StepType == TypeOK /\ [Next]_vars => TypeOK'
<1> SUFFICES ASSUME TypeOK, [Next]_vars PROVE TypeOK'
    OBVIOUS
<1> USE RunIdsAssumption
<1>1. ASSUME NEW c \in Callers, NEW b \in Bodies, CheckIdem(c, b) PROVE TypeOK'
    <2>1. call' \in [Callers -> Calls]
        BY <1>1 DEF TypeOK, CheckIdem, Calls, CallPcs, WithIdem
    <2> QED BY <1>1, <2>1 DEF TypeOK, CheckIdem
<1>2. ASSUME NEW c \in Callers, CheckActive(c) PROVE TypeOK'
    <2>1. \E pc \in CallPcs, a \in RunIds \cup {NoRun} : SetCall(c, pc, a)
        BY <1>2 DEF CheckActive, CallPcs, WithActive
    <2> QED BY <1>2, <2>1, CallType DEF TypeOK, CheckActive
<1>3. ASSUME NEW c \in Callers, Insert(c) PROVE TypeOK'
    <2> DEFINE b == call[c].body
    <2>0. b.idem \in Keys /\ b.active \in ActiveKeys \cup {NoKey}
        BY DEF TypeOK, Calls, Bodies, Keys
    <2>1. CASE Blockers(b.idem, b.active) = {} /\ ~(call'[c].pc = "lookup_idem")
        <3>1. PICK r \in RunIds :
                 /\ runs' = [runs EXCEPT ![r] = NewRow(b.idem, b.active, 1, NoRun)]
                 /\ SetCall(c, "answered", r)
            BY <1>3, <2>1 DEF Insert
        <3>2. NewRow(b.idem, b.active, 1, NoRun) \in Rows
            BY <2>0, NewRowType
        <3>3. call' \in [Callers -> Calls]
            BY <3>1, CallType DEF CallPcs
        <3> QED BY <1>3, <2>1, <3>1, <3>2, <3>3 DEF TypeOK, Insert
    <2>2. CASE ~(Blockers(b.idem, b.active) = {} /\ ~(call'[c].pc = "lookup_idem"))
        <3>0. \A r \in RunIds : SetCall(c, "answered", r) => call'[c].pc # "lookup_idem"
            BY DEF SetCall, TypeOK, Calls
        <3>1. PICK r \in Blockers(b.idem, b.active) :
                 /\ call' = [call EXCEPT ![c].pc = "lookup_idem", ![c].blocker = r]
                 /\ UNCHANGED <<runs, retried>>
            BY <1>3, <2>2, <3>0 DEF Insert
        <3>2. r \in RunIds
            BY DEF Blockers, WithIdem, WithActive
        <3> QED BY ZenonT(60), <3>1, <3>2 DEF TypeOK, Calls, CallPcs
    <2> QED BY <2>1, <2>2
<1>4. ASSUME NEW c \in Callers, LookupIdem(c) PROVE TypeOK'
    <2>1. \E pc \in CallPcs, a \in RunIds \cup {NoRun} : SetCall(c, pc, a)
        BY <1>4 DEF LookupIdem, CallPcs, WithIdem
    <2> QED BY <1>4, <2>1, CallType DEF TypeOK, LookupIdem
<1>5. ASSUME NEW c \in Callers, LookupActive(c) PROVE TypeOK'
    <2>1. \E pc \in CallPcs, a \in RunIds \cup {NoRun} : SetCall(c, pc, a)
        BY <1>5 DEF LookupActive, CallPcs, WithActive
    <2> QED BY <1>5, <2>1, CallType DEF TypeOK, LookupActive
<1>6. ASSUME NEW r \in RunIds, NEW b \in Bodies, CreateAtomic(r, b) \/ CompleteNew(r, b) PROVE TypeOK'
    <2>1. NewRow(b.idem, b.active, 1, NoRun) \in Rows
        BY NewRowType DEF Bodies, Keys
    <2>2. [NewRow(b.idem, b.active, 1, NoRun) EXCEPT !.state = "succeeded"] \in Rows
        BY <2>1 DEF Rows, RunStates, TerminalStates
    <2> QED BY <1>6, <2>1, <2>2 DEF CreateAtomic, CompleteNew, TypeOK
<1>7. ASSUME NEW old \in RunIds, NEW new \in RunIds, Retry(old, new) PROVE TypeOK'
    <2>1. runs[old].active \in ActiveKeys \cup {NoKey} /\ runs[old].attempt \in Nat
        BY DEF TypeOK, Rows
    <2>2. NewRow(old, runs[old].active, runs[old].attempt + 1, old) \in Rows
        BY <2>1, NewRowType DEF Keys
    <2> QED BY <1>7, <2>2 DEF Retry, TypeOK
<1>8. ASSUME NEW r \in RunIds, NEW s \in RunStates, SetState(r, s) PROVE TypeOK'
    BY <1>8 DEF SetState, TypeOK, Rows
<1>9. CASE UNCHANGED vars
    BY <1>9 DEF TypeOK, vars
<1> QED BY <1>1, <1>2, <1>3, <1>4, <1>5, <1>6, <1>7, <1>8, <1>9 DEF Next, CreateRun

-----------------------------------------------------------------------------

\* A row that appears under free keys and without a parent keeps the invariants:
\* the insert of create_run(), create_run_atomic() and complete_new_run_atomic().
LEMMA AdmitKeeps ==
    ASSUME IInv,
           NEW r \in RunIds, ~Present(r),
           NEW idem \in IdemKeys \cup {NoKey}, NEW active \in ActiveKeys \cup {NoKey},
           Blockers(idem, active) = {},
           NEW st \in {"pending", "succeeded"},
           runs' = [runs EXCEPT ![r] = [state |-> st, idem |-> idem, active |-> active,
                                        attempt |-> 1, parent |-> NoRun]],
           retried' = retried
    PROVE  RowInv'
<1> USE RunIdsAssumption, KeysAssumption
<1>0. runs \in [RunIds -> Rows]
    BY DEF IInv, TypeOK
<1>1. /\ runs'[r] = [state |-> st, idem |-> idem, active |-> active, attempt |-> 1, parent |-> NoRun]
      /\ \A s \in RunIds \ {r} : runs'[s] = runs[s]
    BY <1>0
<1>2. /\ \A s \in RunIds \ {r} : (Present(s)' <=> Present(s)) /\ (Active(s)' <=> Active(s))
      /\ Present(r)'
    BY <1>1 DEF Present, Active
<1>3. KeysAreUnique'
    <2> SUFFICES ASSUME NEW s \in RunIds, NEW t \in RunIds, s # t
                 PROVE  /\ Present(s)' /\ Present(t)' /\ runs'[s].idem = runs'[t].idem => runs'[s].idem = NoKey
                        /\ Active(s)' /\ Active(t)' /\ runs'[s].active = runs'[t].active => runs'[s].active = NoKey
        BY DEF KeysAreUnique
    <2>1. CASE s # r /\ t # r
        BY <2>1, <1>1, <1>2 DEF IInv, RowInv, KeysAreUnique
    <2>2. CASE s = r
        BY <2>2, <1>1, <1>2, NoBlocker
    <2>3. CASE t = r
        BY <2>3, <1>1, <1>2, NoBlocker
    <2> QED BY <2>1, <2>2, <2>3
<1>4. RetryKeys'
    BY <1>1, <1>2 DEF RetryKeys, IInv, RowInv
<1>5. LineageIsAChain'
    <2>1. ASSUME NEW s \in RunIds, Present(s)', runs'[s].parent # NoRun
          PROVE  /\ runs'[runs'[s].parent].state \in TerminalStates \ {"succeeded"}
                 /\ runs'[s].attempt = runs'[runs'[s].parent].attempt + 1
        <3>1. s # r /\ Present(s) /\ runs'[s] = runs[s]
            BY <2>1, <1>1, <1>2
        <3>2. runs[s].parent \in RunIds
            BY <3>1, <2>1, <1>0 DEF Rows
        <3>3. runs[s].parent # r
            BY <3>1, <3>2, <2>1 DEF IInv, RowInv, LineageIsAChain, Present, TerminalStates
        <3> QED BY <3>1, <3>2, <3>3, <1>1, <2>1 DEF IInv, RowInv, LineageIsAChain
    <2>2. ASSUME NEW s \in RunIds, NEW t \in RunIds, Present(s)', Present(t)',
                 runs'[s].parent # NoRun, runs'[s].parent = runs'[t].parent
          PROVE  s = t
        BY <2>2, <1>1, <1>2 DEF IInv, RowInv, LineageIsAChain
    <2>3. \A s \in RunIds : HasRetry(s)' <=> HasRetry(s)
        BY <1>1, <1>2 DEF HasRetry
    <2>4. \A s \in RunIds : retried'[s] = (IF HasRetry(s)' THEN 1 ELSE 0)
        BY <2>3 DEF IInv, RowInv, LineageIsAChain
    <2> QED BY <2>1, <2>2, <2>4 DEF LineageIsAChain
<1> QED BY <1>3, <1>4, <1>5 DEF RowInv

\* retry_run() adds the only child of a finished run.
LEMMA RetryKeeps ==
    ASSUME IInv, NEW old \in RunIds, NEW new \in RunIds, Retry(old, new)
    PROVE  RowInv'
<1> USE RunIdsAssumption, KeysAssumption
<1>0. runs \in [RunIds -> Rows] /\ retried \in [RunIds -> Nat]
    BY DEF IInv, TypeOK
<1>1. /\ runs'[new] = [state |-> "pending", idem |-> old, active |-> runs[old].active,
                       attempt |-> runs[old].attempt + 1, parent |-> old]
      /\ \A s \in RunIds \ {new} : runs'[s] = runs[s]
    BY <1>0 DEF Retry, NewRow
<1>2. /\ Present(old) /\ ~Present(new) /\ old # new
      /\ runs[old].state \in TerminalStates \ {"succeeded"}
    BY DEF Retry, Present, TerminalStates
<1>3. /\ \A s \in RunIds \ {new} : (Present(s)' <=> Present(s)) /\ (Active(s)' <=> Active(s))
      /\ Present(new)'
    BY <1>1 DEF Present, Active
<1>4. Blockers(old, runs[old].active) = {}
    BY NothingExisting DEF Retry
<1>5. KeysAreUnique'
    <2> SUFFICES ASSUME NEW s \in RunIds, NEW t \in RunIds, s # t
                 PROVE  /\ Present(s)' /\ Present(t)' /\ runs'[s].idem = runs'[t].idem => runs'[s].idem = NoKey
                        /\ Active(s)' /\ Active(t)' /\ runs'[s].active = runs'[t].active => runs'[s].active = NoKey
        BY DEF KeysAreUnique
    <2>1. CASE s # new /\ t # new
        BY <2>1, <1>1, <1>3 DEF IInv, RowInv, KeysAreUnique
    <2>2. CASE s = new
        BY <2>2, <1>1, <1>3, <1>4, NoBlocker
    <2>3. CASE t = new
        BY <2>3, <1>1, <1>3, <1>4, NoBlocker
    <2> QED BY <2>1, <2>2, <2>3
<1>6. RetryKeys'
    BY <1>1, <1>3 DEF RetryKeys, IInv, RowInv
\* Before the step no run was a retry of old: it would carry old's retry key.
<1>7. \A s \in RunIds : Present(s) => runs[s].parent # old
    <2> SUFFICES ASSUME NEW s \in RunIds, Present(s), runs[s].parent = old PROVE FALSE
        OBVIOUS
    <2>1. runs[s].idem = old
        BY DEF IInv, RowInv, RetryKeys
    <2> QED BY <2>1, <1>4, NoBlocker
<1>8. LineageIsAChain'
    <2>1. ASSUME NEW s \in RunIds, Present(s)', runs'[s].parent # NoRun
          PROVE  /\ runs'[runs'[s].parent].state \in TerminalStates \ {"succeeded"}
                 /\ runs'[s].attempt = runs'[runs'[s].parent].attempt + 1
        <3>1. CASE s = new
            BY <3>1, <1>1, <1>2
        <3>2. CASE s # new
            <4>1. Present(s) /\ runs'[s] = runs[s]
                BY <3>2, <2>1, <1>1, <1>3
            <4>2. runs[s].parent \in RunIds
                BY <4>1, <2>1, <1>0 DEF Rows
            <4>3. runs[s].parent # new
                BY <4>1, <4>2, <2>1, <1>2 DEF IInv, RowInv, LineageIsAChain, Present, TerminalStates
            <4> QED BY <4>1, <4>2, <4>3, <1>1, <2>1 DEF IInv, RowInv, LineageIsAChain
        <3> QED BY <3>1, <3>2
    <2>2. ASSUME NEW s \in RunIds, NEW t \in RunIds, Present(s)', Present(t)',
                 runs'[s].parent # NoRun, runs'[s].parent = runs'[t].parent
          PROVE  s = t
        <3>1. CASE s # new /\ t # new
            BY <3>1, <2>2, <1>1, <1>3 DEF IInv, RowInv, LineageIsAChain
        <3>2. CASE s = new
            BY <3>2, <2>2, <1>1, <1>3, <1>7
        <3>3. CASE t = new
            BY <3>3, <2>2, <1>1, <1>3, <1>7
        <3> QED BY <3>1, <3>2, <3>3
    <2>3. ASSUME NEW s \in RunIds PROVE retried'[s] = (IF HasRetry(s)' THEN 1 ELSE 0)
        <3>1. retried'[s] = IF s = old THEN retried[s] + 1 ELSE retried[s]
            BY <1>0 DEF Retry
        <3>2. retried[s] = (IF HasRetry(s) THEN 1 ELSE 0)
            BY DEF IInv, RowInv, LineageIsAChain
        <3>3. CASE s = old
            <4>1. ~HasRetry(s)
                BY <3>3, <1>7 DEF HasRetry
            <4>2. HasRetry(s)'
                BY <3>3, <1>1, <1>3 DEF HasRetry
            <4> QED BY <3>1, <3>2, <3>3, <4>1, <4>2
        <3>4. CASE s # old
            <4>1. HasRetry(s)' <=> HasRetry(s)
                BY <3>4, <1>1, <1>2, <1>3 DEF HasRetry
            <4> QED BY <3>1, <3>2, <3>4, <4>1
        <3> QED BY <3>3, <3>4
    <2> QED BY <2>1, <2>2, <2>3 DEF LineageIsAChain
<1> QED BY <1>5, <1>6, <1>8 DEF RowInv

\* A legal transition neither revives a finished run nor changes its keys.
LEMMA SetStateKeeps ==
    ASSUME IInv, NEW r \in RunIds, NEW st \in RunStates, SetState(r, st)
    PROVE  RowInv'
<1>0. runs \in [RunIds -> Rows]
    BY DEF IInv, TypeOK
<1>1. /\ runs'[r].state = st
      /\ \A s \in RunIds : /\ runs'[s].idem = runs[s].idem /\ runs'[s].active = runs[s].active
                           /\ runs'[s].parent = runs[s].parent /\ runs'[s].attempt = runs[s].attempt
      /\ \A s \in RunIds \ {r} : runs'[s] = runs[s]
      /\ retried' = retried
    BY <1>0 DEF SetState, Rows
<1>2. runs[r].state \in ActiveStates
    BY DEF SetState, LegalTransitions, ActiveStates
<1>3. \A s \in RunIds : (Present(s)' <=> Present(s)) /\ (Active(s)' => Active(s))
    BY <1>1, <1>2 DEF Present, Active, ActiveStates, RunStates, TerminalStates
<1>4. KeysAreUnique' /\ RetryKeys'
    BY <1>1, <1>3 DEF IInv, RowInv, KeysAreUnique, RetryKeys
<1>5. LineageIsAChain'
    <2>1. ASSUME NEW s \in RunIds, Present(s)', runs'[s].parent # NoRun
          PROVE  /\ runs'[runs'[s].parent].state \in TerminalStates \ {"succeeded"}
                 /\ runs'[s].attempt = runs'[runs'[s].parent].attempt + 1
        <3>1. /\ runs[s].parent \in RunIds
              /\ runs[runs[s].parent].state \in TerminalStates \ {"succeeded"}
              /\ runs[s].attempt = runs[runs[s].parent].attempt + 1
            BY <2>1, <1>0, <1>1, <1>3 DEF IInv, RowInv, LineageIsAChain, Rows
        <3>2. runs[s].parent # r
            BY <3>1, <1>2 DEF ActiveStates, TerminalStates
        <3> QED BY <3>1, <3>2, <1>1
    <2>2. ASSUME NEW s \in RunIds, NEW t \in RunIds, Present(s)', Present(t)',
                 runs'[s].parent # NoRun, runs'[s].parent = runs'[t].parent
          PROVE  s = t
        BY <2>2, <1>1, <1>3 DEF IInv, RowInv, LineageIsAChain
    <2>3. \A s \in RunIds : HasRetry(s)' <=> HasRetry(s)
        BY <1>1, <1>3 DEF HasRetry
    <2>4. \A s \in RunIds : retried'[s] = (IF HasRetry(s)' THEN 1 ELSE 0)
        BY <2>3, <1>1 DEF IInv, RowInv, LineageIsAChain
    <2> QED BY <2>1, <2>2, <2>4 DEF LineageIsAChain
<1> QED BY <1>4, <1>5 DEF RowInv

\* Steps that leave the tables alone.
LEMMA SameTable ==
    ASSUME IInv, UNCHANGED <<runs, retried>>
    PROVE  RowInv'
<1>1. \A r \in RunIds : (Present(r)' <=> Present(r)) /\ (Active(r)' <=> Active(r))
                        /\ (HasRetry(r)' <=> HasRetry(r))
    BY DEF Present, Active, HasRetry
<1> QED BY <1>1 DEF IInv, RowInv, KeysAreUnique, LineageIsAChain, RetryKeys

LEMMA StepRowInv == IInv /\ [Next]_vars => RowInv'
<1> SUFFICES ASSUME IInv, [Next]_vars PROVE RowInv'
    OBVIOUS
<1>1. ASSUME NEW c \in Callers, NEW b \in Bodies, CheckIdem(c, b) PROVE RowInv'
    BY <1>1, SameTable DEF CheckIdem
<1>2. ASSUME NEW c \in Callers, CheckActive(c) \/ LookupIdem(c) \/ LookupActive(c) PROVE RowInv'
    BY <1>2, SameTable DEF CheckActive, LookupIdem, LookupActive
<1>3. ASSUME NEW c \in Callers, Insert(c) PROVE RowInv'
    <2> DEFINE b == call[c].body
    <2>1. b.idem \in IdemKeys \cup {NoKey} /\ b.active \in ActiveKeys \cup {NoKey}
        BY DEF IInv, TypeOK, Calls, Bodies
    <2>2. CASE runs' = runs /\ retried' = retried
        BY <2>2, SameTable
    <2>3. CASE ~(runs' = runs /\ retried' = retried)
        <3>1. /\ Blockers(b.idem, b.active) = {}
              /\ retried' = retried
              /\ \E r \in RunIds : ~Present(r) /\ runs' = [runs EXCEPT ![r] = NewRow(b.idem, b.active, 1, NoRun)]
            BY <1>3, <2>3 DEF Insert
        <3> HIDE DEF b
        <3>2. PICK r \in RunIds :
                 ~Present(r) /\ runs' = [runs EXCEPT ![r] = [state |-> "pending", idem |-> b.idem,
                                           active |-> b.active, attempt |-> 1, parent |-> NoRun]]
            BY <3>1 DEF NewRow
        <3> QED BY <3>1, <3>2, <2>1, AdmitKeeps
    <2> QED BY <2>2, <2>3
<1>4. ASSUME NEW r \in RunIds, NEW b \in Bodies, CreateAtomic(r, b) PROVE RowInv'
    <2>1. b.idem \in IdemKeys \cup {NoKey} /\ b.active \in ActiveKeys \cup {NoKey}
        BY DEF Bodies
    <2>2. ~Present(r) /\ Blockers(b.idem, b.active) = {} /\ retried' = retried
        BY <1>4, NothingExisting DEF CreateAtomic
    <2>3. runs' = [runs EXCEPT ![r] = [state |-> "pending", idem |-> b.idem, active |-> b.active,
                                       attempt |-> 1, parent |-> NoRun]]
        BY <1>4 DEF CreateAtomic, NewRow
    <2> QED BY <2>1, <2>2, <2>3, AdmitKeeps
<1>5. ASSUME NEW r \in RunIds, NEW b \in Bodies, CompleteNew(r, b) PROVE RowInv'
    <2>1. b.idem \in IdemKeys \cup {NoKey} /\ b.active \in ActiveKeys \cup {NoKey}
        BY DEF Bodies
    <2>2. ~Present(r) /\ Blockers(b.idem, b.active) = {} /\ retried' = retried
        BY <1>5, NothingExisting DEF CompleteNew
    <2> DEFINE row == NewRow(b.idem, b.active, 1, NoRun)
               done == [state |-> "succeeded", idem |-> b.idem, active |-> b.active,
                        attempt |-> 1, parent |-> NoRun]
    <2>3. runs' = [runs EXCEPT ![r] = done]
        <3>1. [row EXCEPT !.state = "succeeded"] = done
            BY DEF NewRow
        <3>2. runs' = [runs EXCEPT ![r] = [row EXCEPT !.state = "succeeded"]]
            BY <1>5 DEF CompleteNew
        <3> HIDE DEF row, done
        <3> QED BY <3>1, <3>2
    <2> QED BY <2>1, <2>2, <2>3, AdmitKeeps
<1>6. ASSUME NEW old \in RunIds, NEW new \in RunIds, Retry(old, new) PROVE RowInv'
    BY <1>6, RetryKeeps
<1>7. ASSUME NEW r \in RunIds, NEW s \in RunStates, SetState(r, s) PROVE RowInv'
    BY <1>7, SetStateKeeps
<1>8. CASE UNCHANGED vars
    BY <1>8, SameTable DEF vars
<1> QED BY <1>1, <1>2, <1>3, <1>4, <1>5, <1>6, <1>7, <1>8 DEF Next, CreateRun

-----------------------------------------------------------------------------

\* What create_run() knows about the rows at each of its steps.  A caller that was refused holds
\* the row that refused it; once the idempotency key found nothing, that row has its active key.
\* An answer stays a row that shares a key with the request.
Refused(c) ==
    LET b == call[c].body
        r == call[c].blocker
    IN  /\ call[c].pc \in {"lookup_idem", "lookup_active", "raised"} => r \in RunIds /\ Present(r)
        /\ call[c].pc = "lookup_idem" =>
              \/ b.idem # NoKey /\ runs[r].idem = b.idem
              \/ b.active # NoKey /\ runs[r].active = b.active
        /\ call[c].pc \in {"lookup_active", "raised"} =>
              /\ b.idem = NoKey \/ runs[r].idem # b.idem
              /\ b.active # NoKey /\ runs[r].active = b.active
        /\ call[c].pc = "raised" => runs[r].state \in TerminalStates

Answered(c) ==
    LET b == call[c].body
        r == call[c].answer
    IN  call[c].pc = "answered" =>
            /\ r \in RunIds /\ Present(r)
            /\ \/ b.idem # NoKey /\ runs[r].idem = b.idem
               \/ b.idem = NoKey /\ runs[r].idem = NoKey
               \/ b.active # NoKey /\ runs[r].active = b.active

CallInv == \A c \in Callers : Refused(c) /\ Answered(c)

\* A row that exists keeps its keys, and a finished one its state: no operation of the service
\* deletes a run, moves it to another key or revives it.
RowsKept ==
    \A r \in RunIds : Present(r) =>
        /\ Present(r)' /\ runs'[r].idem = runs[r].idem /\ runs'[r].active = runs[r].active
        /\ runs[r].state \in TerminalStates => runs'[r].state = runs[r].state

LEMMA StepKeepsRows == TypeOK /\ [Next]_vars => RowsKept
<1> SUFFICES ASSUME TypeOK, [Next]_vars, NEW r \in RunIds, Present(r)
             PROVE  /\ Present(r)' /\ runs'[r].idem = runs[r].idem /\ runs'[r].active = runs[r].active
                    /\ runs[r].state \in TerminalStates => runs'[r].state = runs[r].state
    BY DEF RowsKept
<1>0. runs \in [RunIds -> Rows]
    BY DEF TypeOK
<1>1. CASE runs' = runs
    BY <1>1 DEF Present
<1>2. ASSUME NEW s \in RunIds, ~Present(s), NEW row, runs' = [runs EXCEPT ![s] = row]
      PROVE  runs'[r] = runs[r]
    BY <1>0, <1>2
<1>3. ASSUME NEW s \in RunIds, NEW st \in RunStates, SetState(s, st)
      PROVE  /\ Present(r)' /\ runs'[r].idem = runs[r].idem /\ runs'[r].active = runs[r].active
             /\ runs[r].state \in TerminalStates => runs'[r].state = runs[r].state
    <2>1. CASE s = r
        <3>1. runs[r].state \in ActiveStates
            BY <1>3, <2>1 DEF SetState, LegalTransitions, ActiveStates
        <3>2. runs'[r] = [runs[r] EXCEPT !.state = st]
            BY <1>0, <1>3, <2>1 DEF SetState
        <3> QED BY <1>0, <3>1, <3>2 DEF Present, Rows, RunStates, ActiveStates, TerminalStates
    <2>2. CASE s # r
        BY <1>0, <1>3, <2>2 DEF SetState, Present
    <2> QED BY <2>1, <2>2
<1>4. ASSUME NEW c \in Callers, Insert(c) PROVE runs'[r] = runs[r]
    BY <1>1, <1>2, <1>4 DEF Insert
<1>5. ASSUME NEW s \in RunIds, NEW b \in Bodies, CreateAtomic(s, b) \/ CompleteNew(s, b)
      PROVE  runs'[r] = runs[r]
    BY <1>2, <1>5 DEF CreateAtomic, CompleteNew
<1>6. ASSUME NEW old \in RunIds, NEW new \in RunIds, Retry(old, new) PROVE runs'[r] = runs[r]
    BY <1>2, <1>6 DEF Retry
<1>7. CASE \E c \in Callers : (\E b \in Bodies : CheckIdem(c, b)) \/ CheckActive(c) \/ LookupIdem(c) \/ LookupActive(c)
    BY <1>7, <1>1 DEF CheckIdem, CheckActive, LookupIdem, LookupActive
<1>8. runs'[r] = runs[r] => Present(r)'
    BY DEF Present
<1> QED BY <1>1, <1>3, <1>4, <1>5, <1>6, <1>7, <1>8 DEF Next, CreateRun, vars

\* A caller that does not move keeps what it knows: rows keep their keys.
LEMMA StillKnows ==
    ASSUME RowsKept, NEW c \in Callers, call'[c] = call[c], Refused(c), Answered(c)
    PROVE  Refused(c)' /\ Answered(c)'
<1>1. Refused(c)'
    BY DEF RowsKept, Refused
<1>2. Answered(c)'
    BY DEF RowsKept, Answered
<1> QED BY <1>1, <1>2

\* An answer that shares a key with the request is one it may be given.
LEMMA AnswerIsSound ==
    ASSUME TypeOK, NEW c \in Callers, NEW r \in RunIds, SetCall(c, "answered", r), Present(r)',
           \/ call[c].body.idem # NoKey /\ runs'[r].idem = call[c].body.idem
           \/ call[c].body.idem = NoKey /\ runs'[r].idem = NoKey
           \/ call[c].body.active # NoKey /\ runs'[r].active = call[c].body.active
    PROVE  Refused(c)' /\ Answered(c)'
<1>1. call'[c].pc = "answered" /\ call'[c].answer = r /\ call'[c].body = call[c].body
    BY DEF SetCall, TypeOK, Calls
<1> QED BY <1>1 DEF Refused, Answered

\* The caller of a step ends up where that step leaves it.
LEMMA CallerKnows ==
    ASSUME IInv, CallInv, NEW c \in Callers, CreateRun(c)
    PROVE  /\ Refused(c)' /\ Answered(c)'
           /\ \A d \in Callers \ {c} : call'[d] = call[d]
<1> DEFINE b == call[c].body
<1>0. /\ call \in [Callers -> Calls] /\ call[c] \in Calls /\ runs \in [RunIds -> Rows]
      /\ Refused(c) /\ Answered(c) /\ TypeOK
    BY DEF IInv, TypeOK, CallInv
<1>1. CASE CheckActive(c)
    <2>1. CASE \E r \in WithActive(b.active) : SetCall(c, "answered", r)
        <3>1. PICK r \in WithActive(b.active) : SetCall(c, "answered", r)
            BY <2>1
        <3>2. r \in RunIds /\ Present(r)' /\ b.active # NoKey /\ runs'[r].active = b.active
            BY <1>1, ActiveIsPresent DEF WithActive, CheckActive, Present
        <3> QED BY <1>0, <3>1, <3>2, AnswerIsSound DEF SetCall
    <2>2. CASE SetCall(c, "insert", NoRun)
        <3>1. call'[c].pc = "insert" /\ \A d \in Callers \ {c} : call'[d] = call[d]
            BY <1>0, <2>2 DEF SetCall, Calls
        <3> QED BY <3>1 DEF Refused, Answered
    <2> QED BY <1>1, <2>1, <2>2 DEF CheckActive
<1>2. CASE Insert(c)
    <2>1. CASE \E r \in RunIds : /\ ~Present(r) /\ SetCall(c, "answered", r)
                                 /\ runs' = [runs EXCEPT ![r] = NewRow(b.idem, b.active, 1, NoRun)]
        <3>1. PICK r \in RunIds : /\ ~Present(r) /\ SetCall(c, "answered", r)
                                  /\ runs' = [runs EXCEPT ![r] = NewRow(b.idem, b.active, 1, NoRun)]
            BY <2>1
        <3>2. Present(r)' /\ runs'[r].idem = b.idem
            BY <1>0, <3>1 DEF NewRow, Present
        <3> QED BY <1>0, <3>1, <3>2, AnswerIsSound DEF SetCall
    <2>2. CASE \E r \in Blockers(b.idem, b.active) :
                   /\ call' = [call EXCEPT ![c].pc = "lookup_idem", ![c].blocker = r]
                   /\ UNCHANGED runs
        <3>1. PICK r \in Blockers(b.idem, b.active) :
                   /\ call' = [call EXCEPT ![c].pc = "lookup_idem", ![c].blocker = r]
                   /\ UNCHANGED runs
            BY <2>2
        <3>2. /\ r \in RunIds /\ Present(r)
              /\ \/ b.idem # NoKey /\ runs[r].idem = b.idem
                 \/ b.active # NoKey /\ runs[r].active = b.active
            BY ActiveIsPresent DEF Blockers, WithIdem, WithActive
        <3>3. /\ call'[c].pc = "lookup_idem" /\ call'[c].blocker = r /\ call'[c].body = b
              /\ \A d \in Callers \ {c} : call'[d] = call[d]
            BY <1>0, <3>1 DEF Calls
        <3>4. Present(r)' /\ runs'[r] = runs[r]
            BY <3>1, <3>2 DEF Present
        <3> QED BY <3>2, <3>3, <3>4 DEF Refused, Answered
    <2> QED BY <1>2, <2>1, <2>2 DEF Insert
<1>3. CASE LookupIdem(c)
    <2>1. CASE \E r \in WithIdem(b.idem) : SetCall(c, "answered", r)
        <3>1. PICK r \in WithIdem(b.idem) : SetCall(c, "answered", r)
            BY <2>1
        <3>2. r \in RunIds /\ Present(r)' /\ b.idem # NoKey /\ runs'[r].idem = b.idem
            BY <1>3 DEF WithIdem, LookupIdem, Present
        <3> QED BY <1>0, <3>1, <3>2, AnswerIsSound DEF SetCall
    <2>2. CASE WithIdem(b.idem) = {} /\ SetCall(c, "lookup_active", NoRun)
        <3>0. PICK r : r = call[c].blocker
            OBVIOUS
        <3>1. /\ r \in RunIds /\ Present(r)
              /\ \/ b.idem # NoKey /\ runs[r].idem = b.idem
                 \/ b.active # NoKey /\ runs[r].active = b.active
            BY <1>0, <1>3, <3>0 DEF Refused, LookupIdem
        <3>2. b.idem = NoKey \/ runs[r].idem # b.idem
            BY <2>2, <3>1 DEF WithIdem
        <3>3. /\ call'[c].pc = "lookup_active" /\ call'[c].blocker = r /\ call'[c].body = b
              /\ \A d \in Callers \ {c} : call'[d] = call[d]
            BY <1>0, <2>2, <3>0 DEF SetCall, Calls
        <3>4. Present(r)' /\ runs'[r] = runs[r]
            BY <1>3, <3>1 DEF LookupIdem, Present
        <3> QED BY <3>1, <3>2, <3>3, <3>4 DEF Refused, Answered
    <2> QED BY <1>3, <2>1, <2>2 DEF LookupIdem
<1>4. CASE LookupActive(c)
    <2>1. CASE \E r \in WithActive(b.active) : SetCall(c, "answered", r)
        <3>1. PICK r \in WithActive(b.active) : SetCall(c, "answered", r)
            BY <2>1
        <3>2. r \in RunIds /\ Present(r)' /\ b.active # NoKey /\ runs'[r].active = b.active
            BY <1>4, ActiveIsPresent DEF WithActive, LookupActive, Present
        <3> QED BY <1>0, <3>1, <3>2, AnswerIsSound DEF SetCall
    <2>2. CASE WithActive(b.active) = {} /\ SetCall(c, "raised", NoRun)
        <3>0. PICK r : r = call[c].blocker
            OBVIOUS
        <3>1. /\ r \in RunIds /\ Present(r)
              /\ b.idem = NoKey \/ runs[r].idem # b.idem
              /\ b.active # NoKey /\ runs[r].active = b.active
            BY <1>0, <1>4, <3>0 DEF Refused, LookupActive
        <3>2. runs[r].state \in TerminalStates
            <4>1. ~Active(r)
                BY <2>2, <3>1 DEF WithActive
            <4>2. runs[r].state \in RunStates
                BY <1>0, <3>1 DEF Rows, Present
            <4> QED BY <4>1, <4>2 DEF Active, RunStates
        <3>3. /\ call'[c].pc = "raised" /\ call'[c].blocker = r /\ call'[c].body = b
              /\ \A d \in Callers \ {c} : call'[d] = call[d]
            BY <1>0, <2>2, <3>0 DEF SetCall, Calls
        <3>4. Present(r)' /\ runs'[r] = runs[r]
            BY <1>4, <3>1 DEF LookupActive, Present
        <3> QED BY <3>1, <3>2, <3>3, <3>4 DEF Refused, Answered
    <2> QED BY <1>4, <2>1, <2>2 DEF LookupActive
<1> QED BY <1>1, <1>2, <1>3, <1>4 DEF CreateRun

\* A request that arrives finds the run of its idempotency key or goes on.
LEMMA ArrivalKnows ==
    ASSUME IInv, CallInv, NEW c \in Callers, NEW b \in Bodies, CheckIdem(c, b)
    PROVE  /\ Refused(c)' /\ Answered(c)'
           /\ \A d \in Callers \ {c} : call'[d] = call[d]
<1>0. call \in [Callers -> Calls]
    BY DEF IInv, TypeOK
<1>1. CASE call' = [call EXCEPT ![c] = [pc |-> "check_active", body |-> b, answer |-> NoRun, blocker |-> NoRun]]
    BY <1>0, <1>1 DEF Refused, Answered
<1>2. CASE \E r \in WithIdem(b.idem) :
              call' = [call EXCEPT ![c] = [pc |-> "answered", body |-> b, answer |-> r, blocker |-> NoRun]]
    <2>1. PICK r \in WithIdem(b.idem) :
              call' = [call EXCEPT ![c] = [pc |-> "answered", body |-> b, answer |-> r, blocker |-> NoRun]]
        BY <1>2
    <2>2. r \in RunIds /\ Present(r)' /\ b.idem # NoKey /\ runs'[r].idem = b.idem
        BY DEF WithIdem, CheckIdem, Present
    <2> QED BY <1>0, <2>1, <2>2 DEF Refused, Answered
<1> QED BY <1>1, <1>2 DEF CheckIdem

LEMMA StepCallInv == IInv /\ CallInv /\ [Next]_vars => CallInv'
<1> SUFFICES ASSUME IInv, CallInv, [Next]_vars, NEW d \in Callers PROVE Refused(d)' /\ Answered(d)'
    BY DEF CallInv
<1>0. RowsKept /\ Refused(d) /\ Answered(d)
    BY StepKeepsRows DEF IInv, CallInv
<1>1. CASE \E c \in Callers : (\E b \in Bodies : CheckIdem(c, b)) \/ CreateRun(c)
    <2>1. PICK c \in Callers : (\E b \in Bodies : CheckIdem(c, b)) \/ CreateRun(c)
        BY <1>1
    <2>2. /\ Refused(c)' /\ Answered(c)'
          /\ \A e \in Callers \ {c} : call'[e] = call[e]
        BY <2>1, CallerKnows, ArrivalKnows
    <2>3. CASE d = c
        BY <2>2, <2>3
    <2>4. CASE d # c
        BY <1>0, <2>2, <2>4, StillKnows
    <2> QED BY <2>3, <2>4
<1>2. CASE call' = call
    BY <1>0, <1>2, StillKnows
<1>3. CASE (\E r \in RunIds, b \in Bodies : CreateAtomic(r, b) \/ CompleteNew(r, b))
           \/ (\E old, new \in RunIds : Retry(old, new))
           \/ (\E r \in RunIds, s \in RunStates : SetState(r, s))
           \/ UNCHANGED vars
    BY <1>2, <1>3 DEF CreateAtomic, CompleteNew, Retry, SetState, vars
<1> QED BY <1>1, <1>3 DEF Next

\* What create_run() knows implies what it promises.
LEMMA CallInvIsSound == IInv /\ CallInv => AnswersAreSound
<1> SUFFICES ASSUME IInv, CallInv PROVE AnswersAreSound
    OBVIOUS
<1>1. RaisedOnlyIfWinnerFinished
    BY DEF CallInv, Refused, RaisedOnlyIfWinnerFinished
<1>2. AnswersAgree
    <2> SUFFICES ASSUME NEW c \in Callers, call[c].pc = "answered"
                 PROVE  LET k == call[c].body.idem
                            a == call[c].body.active
                            r == call[c].answer
                        IN  \/ k # NoKey /\ runs[r].idem = k /\ WithIdem(k) = {r}
                            \/ k = NoKey /\ runs[r].idem = NoKey
                            \/ a # NoKey /\ runs[r].active = a
        BY DEF AnswersAgree
    <2>1. Answered(c)
        BY DEF CallInv
    <2>2. ASSUME NEW k, k # NoKey, NEW r \in RunIds, Present(r), runs[r].idem = k
          PROVE  WithIdem(k) = {r}
        BY <2>2 DEF IInv, RowInv, KeysAreUnique, WithIdem
    <2> QED BY <2>1, <2>2 DEF Answered
<1> QED BY <1>1, <1>2 DEF AnswersAreSound

-----------------------------------------------------------------------------

\* The inductive invariant holds in every reachable state.
THEOREM AdmissionInvariant == Spec => []IInv
<1>1. IInv /\ [Next]_vars => IInv'
    BY StepType, StepRowInv DEF IInv
<1> QED BY InitInv, <1>1, PTL DEF Spec

\* One run per idempotency key for ever and one active run per active key, for
\* any number of requests racing through create_run() and retry_run().
THEOREM KeysAreUniqueHolds == Spec => []KeysAreUnique
<1>1. IInv => KeysAreUnique
    BY DEF IInv, RowInv
<1> QED BY AdmissionInvariant, <1>1, PTL

\* Retries form chains whose parents are finished, with one event per retry.
THEOREM LineageIsAChainHolds == Spec => []LineageIsAChain
<1>1. IInv => LineageIsAChain
    BY DEF IInv, RowInv
<1> QED BY AdmissionInvariant, <1>1, PTL

\* The table of runs keeps its unique keys and its retry lineage, whatever mix of optimistic
\* inserts, atomic creates, retries and state changes the processes run.
THEOREM RowsAreSoundHolds == Spec => []RowsAreSound
<1>1. IInv => RowsAreSound
    BY DEF IInv, RowInv, RowsAreSound
<1> QED BY AdmissionInvariant, <1>1, PTL

\* create_run() answers with the run that holds the request's key, and passes an IntegrityError
\* on only when the active run that refused the insert has finished since.
THEOREM AnswersAreSoundHolds == Spec => []AnswersAreSound
<1>1. Init => CallInv
    BY DEF Init, CallInv, Refused, Answered
<1>2. IInv /\ CallInv /\ [Next]_vars => CallInv'
    BY StepCallInv
<1>3. IInv /\ CallInv => AnswersAreSound
    BY CallInvIsSound
<1> QED BY AdmissionInvariant, <1>1, <1>2, <1>3, PTL DEF Spec

\* No operation of the service deletes a run, moves it to another key or revives it.
THEOREM RowsKeptHolds == Spec => [][RowsKept]_vars
<1>1. IInv /\ [Next]_vars => [RowsKept]_vars
    BY StepKeepsRows DEF IInv
<1> QED BY AdmissionInvariant, <1>1, PTL DEF Spec

-----------------------------------------------------------------------------
(***************************************************************************)
(* The durable session of the runner (SessionCheckpoints) keeps what it    *)
(* promised, whatever the numbers of workers, events, checkpoints and      *)
(* faults.                                                                 *)
(*                                                                         *)
(* All of it rests on one fact about the workers (HandInv): what a worker  *)
(* has read or was told is never ahead of the log, so the comparison in    *)
(* the write that follows decides.  LatestInv adds that a worker nobody    *)
(* overtook holds a checkpoint at least as new as the latest one, and      *)
(* OverInv that nobody can reopen a session finalized alone.               *)
(***************************************************************************)

States == {"open", "paused", "closed"}
Places == {"down", "refused", "state", "open", "resume", "resuming", "idle", "append", "save"}
Points == [by : Workers, n : Nat, seq : Nat]
Hands == [at : Places, seq : Nat, known : Nat, built : Nat, point : Points \cup {None}, overtaken : BOOLEAN]
SessionRows == [identity : {Identity[w] : w \in Workers}, state : States, latest : Points \cup {None}]

\* What the theorems assume of the constants: None, the value for what is absent, is neither a
\* row nor a checkpoint.
NoneIsApart ==
    /\ MaxEvents \in Nat
    /\ None \notin SessionRows /\ None \notin Points

\* What there is, and that the latest checkpoint is a stored one.
KindInv ==
    /\ session \in SessionRows \cup {None}
    /\ events \in Seq(Workers) /\ Len(events) <= MaxEvents
    /\ stored \subseteq Points
    /\ work \in [Workers -> Hands]
    /\ late \in BOOLEAN /\ over \in BOOLEAN
    /\ session = None => stored = {}
    /\ session # None => session.latest \in stored \cup {None}

\* Nothing a worker has read, or was told, is ahead of the log.
HandInv ==
    \A w \in Workers :
        /\ work[w].seq <= Len(events) /\ work[w].known <= Len(events)
        /\ work[w].at \notin {"down", "refused"} => session # None /\ session.identity = Identity[w]
        /\ work[w].at = "save" => work[w].point # None

CoverInv == \A c \in stored : c.seq <= Len(events)

AckedInv ==
    \A a \in acked : /\ a[1] \in Workers /\ a[2] \in 1 .. Len(events)
                     /\ events[a[2]] = a[1]

\* A worker that nobody overtook since it started holds the latest checkpoint or a newer one.
LatestInv ==
    /\ session # None /\ session.latest = None => stored = {}
    /\ ~late => \A c \in stored : c.seq <= session.latest.seq
    /\ \A w \in Workers :
          /\ work[w].at \in {"idle", "append", "save"} /\ ~work[w].overtaken
          /\ session.latest # None
          => work[w].point # None /\ session.latest.seq <= work[w].point.seq

\* Nobody is past reading the state of a session that was finalized alone.
OverInv ==
    over => /\ session # None /\ session.state = "closed"
            /\ \A w \in Workers : work[w].at \in {"down", "refused", "state"}

SessionIInv == KindInv /\ HandInv /\ CoverInv /\ AckedInv /\ LatestInv /\ OverInv

----------------------------------------------------------------------------
(* What a worker may hold, and the steps that change nothing else. *)

Sound(w, t) ==
    /\ t.seq <= Len(events) /\ t.known <= Len(events)
    /\ t.at \notin {"down", "refused"} => session # None /\ session.identity = Identity[w]
    /\ t.at = "save" => t.point # None
    /\ /\ t.at \in {"idle", "append", "save"} /\ ~t.overtaken
       /\ session.latest # None
       => t.point # None /\ session.latest.seq <= t.point.seq
    /\ over => t.at \in {"down", "refused", "state"}

LEMMA AllAreSound ==
    ASSUME SessionIInv, NEW w \in Workers
    PROVE  work[w] \in Hands /\ Sound(w, work[w])
BY DEF SessionIInv, KindInv, HandInv, LatestInv, OverInv, Sound

LEMMA EventsAreWorkers ==
    ASSUME SessionIInv
    PROVE  /\ events \in Seq(Workers) /\ Len(events) \in Nat
           /\ \A i \in 1 .. Len(events) : events[i] \in Workers
<1>1. events \in Seq(Workers)
  BY DEF SessionIInv, KindInv
<1> QED
  BY <1>1, LenProperties, ElementOfSeq

\* A step that only moves one worker.
LEMMA OneMoves ==
    ASSUME SessionIInv, NEW w \in Workers, NEW t \in Hands, Sound(w, t),
           work' = [work EXCEPT ![w] = t],
           UNCHANGED <<session, events, stored, acked, late, over>>
    PROVE  SessionIInv'
<1>1. work' \in [Workers -> Hands]
  BY DEF SessionIInv, KindInv
<1>2. ASSUME NEW v \in Workers
      PROVE  work'[v] = IF v = w THEN t ELSE work[v]
  BY DEF SessionIInv, KindInv
<1>3. KindInv'
  BY <1>1 DEF SessionIInv, KindInv
<1>4. HandInv'
  BY <1>2 DEF SessionIInv, HandInv, Sound
<1>5. CoverInv' /\ AckedInv'
  BY DEF SessionIInv, CoverInv, AckedInv
<1>6. LatestInv'
  BY <1>2 DEF SessionIInv, LatestInv, Sound
<1>7. OverInv'
  BY <1>2 DEF SessionIInv, OverInv, Sound
<1> QED
  BY <1>3, <1>4, <1>5, <1>6, <1>7 DEF SessionIInv

\* A place of the worker that asks for nothing more than the one it was at.
LEMMA GoesOn ==
    ASSUME NoneIsApart, SessionIInv, NEW w \in Workers, NEW place \in Places,
           work' = [work EXCEPT ![w].at = place],
           Sound(w, [work[w] EXCEPT !.at = place]),
           UNCHANGED <<session, events, stored, acked, late, over>>
    PROVE  SessionIInv'
<1> DEFINE t == [work[w] EXCEPT !.at = place]
<1>1. t \in Hands
  BY AllAreSound DEF Hands
<1>2. work' = [work EXCEPT ![w] = t]
  OBVIOUS
<1> QED
  BY <1>1, <1>2, OneMoves

LEMMA DownIsSound ==
    ASSUME SessionIInv, NEW w \in Workers, NEW place \in {"down", "refused"}
    PROVE  Sound(w, [work[w] EXCEPT !.at = place])
BY AllAreSound DEF Sound, Hands

----------------------------------------------------------------------------
(* The steps. *)

LEMMA InitIsSound ==
    ASSUME NoneIsApart, Session!Init
    PROVE  SessionIInv
<1>1. Session!Idle \in Hands
  BY DEF Session!Idle, Hands, Places
<1>2. KindInv
  <2>1. events \in Seq(Workers) /\ Len(events) <= MaxEvents
    BY DEF NoneIsApart, Session!Init
  <2>2. work \in [Workers -> Hands]
    BY <1>1 DEF Session!Init
  <2> QED
    BY <2>1, <2>2 DEF Session!Init, KindInv
<1>3. HandInv
  BY <1>1 DEF Session!Init, HandInv, Session!Idle
<1>4. CoverInv /\ AckedInv /\ OverInv
  BY DEF Session!Init, CoverInv, AckedInv, OverInv
<1>5. LatestInv
  BY DEF Session!Init, LatestInv, Session!Idle
<1> QED
  BY <1>2, <1>3, <1>4, <1>5 DEF SessionIInv

LEMMA ReadStateKeeps ==
    ASSUME NoneIsApart, SessionIInv, NEW w \in Workers, Session!ReadState(w)
    PROVE  SessionIInv'
<1> DEFINE place == IF Session!Startable(session.state) THEN "open" ELSE "refused"
<1>1. work[w].at = "state" /\ work' = [work EXCEPT ![w].at = place]
  BY DEF Session!ReadState, Session!At, Session!Goes
<1>2. UNCHANGED <<session, events, stored, acked, late, over>>
  BY DEF Session!ReadState, Session!History
<1>3. place \in Places
  BY DEF Places
<1>4. Sound(w, [work[w] EXCEPT !.at = place])
  <2>1. CASE ~Session!Startable(session.state)
    BY <2>1, DownIsSound
  <2>2. CASE Session!Startable(session.state)
    <3>1. ~over
      BY <2>2 DEF SessionIInv, OverInv, Session!Startable
    <3> QED
      BY <2>2, <3>1, <1>1, AllAreSound DEF Sound, Hands
  <2> QED
    BY <2>1, <2>2
<1> QED
  BY <1>1, <1>2, <1>3, <1>4, GoesOn

LEMMA ReadSeqKeeps ==
    ASSUME NoneIsApart, SessionIInv, NEW w \in Workers,
           NEW from, NEW to,
           <<from, to>> \in {<<"resume", "resuming">>, <<"idle", "append">>},
           Session!ReadSeq(w, from, to)
    PROVE  SessionIInv'
<1> DEFINE t == [work[w] EXCEPT !.at = to, !.seq = Len(events)]
<1>1. work[w].at = from /\ work' = [work EXCEPT ![w] = t]
  BY DEF Session!ReadSeq, Session!At, Session!Durable
<1>2. UNCHANGED <<session, events, stored, acked, late, over>>
  BY DEF Session!ReadSeq, Session!History
<1>3. Len(events) \in Nat
  BY EventsAreWorkers
<1>4. t \in Hands
  BY <1>3, AllAreSound DEF Hands, Places
<1>5. Sound(w, t)
  <2>1. \/ from = "resume" /\ to = "resuming"
        \/ from = "idle" /\ to = "append"
    OBVIOUS
  <2>2. /\ t.at = to /\ t.seq = Len(events) /\ t.known = work[w].known
        /\ t.point = work[w].point /\ t.overtaken = work[w].overtaken
    BY AllAreSound DEF Hands
  <2>3. work[w] \in Hands /\ Sound(w, work[w])
    BY AllAreSound
  <2>4. work[w].at = from
    BY <1>1
  <2> HIDE DEF t
  <2>5. CASE from = "resume" /\ to = "resuming"
    BY <1>3, <2>2, <2>3, <2>4, <2>5 DEF Sound
  <2>6. CASE from = "idle" /\ to = "append"
    BY <1>3, <2>2, <2>3, <2>4, <2>6 DEF Sound
  <2> QED
    BY <2>1, <2>5, <2>6
<1> QED
  BY <1>1, <1>2, <1>4, <1>5, OneMoves

LEMMA DieKeeps ==
    ASSUME NoneIsApart, SessionIInv, NEW w \in Workers, Session!Die(w)
    PROVE  SessionIInv'
<1>1. work' = [work EXCEPT ![w].at = "down"]
  BY DEF Session!Die, Session!Goes
<1>2. UNCHANGED <<session, events, stored, acked, late, over>>
  BY DEF Session!Die, Session!History
<1> QED
  BY <1>1, <1>2, DownIsSound, GoesOn DEF Places

\* create_session() of the first worker writes the row; the others compare it with theirs.
LEMMA CreateKeeps ==
    ASSUME NoneIsApart, SessionIInv, NEW w \in Workers, Session!Create(w)
    PROVE  SessionIInv'
<1> DEFINE start(at) == [Session!Idle EXCEPT !.at = at, !.built = work[w].built]
           row == [identity |-> Identity[w], state |-> "open", latest |-> None]
<1>1. UNCHANGED <<events, stored, acked, late, over>>
  BY DEF Session!Create, Session!History
<1>2. ASSUME NEW at \in Places
      PROVE  /\ start(at) \in Hands
             /\ start(at).at = at /\ start(at).seq = 0 /\ start(at).known = 0
             /\ start(at).point = None
  BY AllAreSound DEF Session!Idle, Hands, Places
<1>3. CASE session = None
  <2>1. session' = row /\ work' = [work EXCEPT ![w] = start("state")]
    BY <1>3 DEF Session!Create
  <2>2. row \in SessionRows /\ row # None
    BY DEF SessionRows, States, NoneIsApart
  <2>3. row.identity = Identity[w] /\ row.latest = None
    OBVIOUS
  <2>4. stored = {} /\ \A v \in Workers : work[v].at \in {"down", "refused"}
    BY <1>3 DEF SessionIInv, KindInv, HandInv
  <2>5. ~over
    BY <1>3 DEF SessionIInv, OverInv
  <2>6. "state" \in Places
    BY DEF Places
  <2> HIDE DEF row, start
  <2>7. work' \in [Workers -> Hands]
    BY <1>2, <2>1, <2>6 DEF SessionIInv, KindInv
  <2>8. ASSUME NEW v \in Workers
        PROVE  work'[v] = IF v = w THEN start("state") ELSE work[v]
    BY <2>1 DEF SessionIInv, KindInv
  <2>9. KindInv'
    BY <1>1, <2>1, <2>2, <2>3, <2>7 DEF SessionIInv, KindInv
  <2>10. HandInv'
    BY <1>1, <1>2, <2>1, <2>2, <2>3, <2>4, <2>6, <2>8, EventsAreWorkers DEF SessionIInv, HandInv
  <2>11. CoverInv' /\ AckedInv' /\ OverInv'
    BY <1>1, <2>5 DEF SessionIInv, CoverInv, AckedInv, OverInv
  <2>12. LatestInv'
    BY <1>1, <2>1, <2>3, <2>4 DEF LatestInv
  <2> QED
    BY <2>9, <2>10, <2>11, <2>12 DEF SessionIInv
<1>4. CASE session # None
  <2> DEFINE first == IF Session!BoundTo(w) THEN "state" ELSE "refused"
  <2>1. session' = session /\ work' = [work EXCEPT ![w] = start(first)]
    BY <1>4 DEF Session!Create
  <2>2. first \in Places
    BY DEF Places
  <2>3. \/ first = "refused"
        \/ first = "state" /\ session.identity = Identity[w]
    BY DEF Session!BoundTo
  <2> HIDE DEF start, first
  <2>4. Sound(w, start(first))
    BY <1>2, <1>4, <2>2, <2>3, EventsAreWorkers DEF Sound
  <2> QED
    BY <1>1, <1>2, <2>1, <2>2, <2>4, OneMoves
<1> QED
  BY <1>3, <1>4

\* resume() takes the latest checkpoint only when the sequence it read covers it.
LEMMA ResumeKeeps ==
    ASSUME NoneIsApart, SessionIInv, NEW w \in Workers, Session!Resume(w)
    PROVE  SessionIInv'
<1> DEFINE found == [work[w] EXCEPT !.at = "idle", !.known = session.latest.seq,
                                    !.point = session.latest]
           place == IF Session!Fresh THEN "idle" ELSE "down"
<1>1. work[w].at = "resuming"
  BY DEF Session!Resume, Session!At
<1>2. UNCHANGED <<session, events, stored, acked, late, over>>
  BY DEF Session!Resume, Session!History
<1>3. /\ work[w] \in Hands /\ Sound(w, work[w])
      /\ session # None /\ session.identity = Identity[w] /\ ~over
  BY <1>1, AllAreSound DEF Sound
<1>4. CASE Session!Resumable /\ Session!BoundTo(w) /\ Session!NotAhead(w)
  <2>1. work' = [work EXCEPT ![w] = found]
    BY <1>4 DEF Session!Resume
  <2>2. /\ session.latest # None /\ session.latest \in Points
        /\ session.latest.seq \in Nat /\ session.latest.seq <= work[w].seq
    BY <1>3, <1>4 DEF SessionIInv, KindInv, Session!Resumable, Session!NotAhead, Points
  <2>3. /\ found \in Hands
        /\ found.at = "idle" /\ found.known = session.latest.seq
        /\ found.point = session.latest /\ found.seq = work[w].seq
    BY <1>3, <2>2 DEF Hands, Places
  <2>4. work[w].seq \in Nat
    BY <1>3 DEF Hands
  <2> HIDE DEF found
  <2>5. Sound(w, found)
    BY <1>3, <2>2, <2>3, <2>4, EventsAreWorkers DEF Sound
  <2> QED
    BY <1>2, <2>1, <2>3, <2>5, OneMoves
<1>5. CASE ~(Session!Resumable /\ Session!BoundTo(w) /\ Session!NotAhead(w))
  <2>1. work' = [work EXCEPT ![w].at = place]
    BY <1>5 DEF Session!Resume, Session!Goes
  <2>2. Sound(w, [work[w] EXCEPT !.at = place])
    <3>1. CASE ~Session!Fresh
      BY <3>1, DownIsSound
    <3>2. CASE Session!Fresh
      BY <1>3, <3>2 DEF Session!Fresh, Sound, Hands
    <3> QED
      BY <3>1, <3>2
  <2> QED
    BY <1>2, <2>1, <2>2, GoesOn DEF Places
<1> QED
  BY <1>4, <1>5

\* append_durable_event(): the number after the one that was read is written only when it is free.
LEMMA AppendKeeps ==
    ASSUME NoneIsApart, SessionIInv, NEW w \in Workers, Session!AppendEvent(w)
    PROVE  SessionIInv'
<1> DEFINE n == work[w].seq + 1
           t == [work[w] EXCEPT !.at = "idle", !.known = n]
<1>1. work[w].at = "append" /\ n <= MaxEvents
  BY DEF Session!AppendEvent, Session!At
<1>2. UNCHANGED <<session, stored, late, over>>
  BY DEF Session!AppendEvent
<1>3. /\ work[w] \in Hands /\ Sound(w, work[w])
      /\ session # None /\ session.identity = Identity[w] /\ ~over
  BY <1>1, AllAreSound DEF Sound
<1>4. CASE ~Session!Takes(w)
  <2>1. /\ work' = [work EXCEPT ![w].at = "idle"]
        /\ UNCHANGED <<events, acked>>
    BY <1>4 DEF Session!AppendEvent, Session!Goes
  <2>2. Sound(w, [work[w] EXCEPT !.at = "idle"])
    BY <1>1, <1>3 DEF Sound, Hands
  <2> QED
    BY <1>2, <2>1, <2>2, GoesOn DEF Places
<1>5. CASE Session!Takes(w)
  <2>1. n = Len(events) + 1 /\ Len(events) \in Nat /\ n \in Nat
    BY <1>5, EventsAreWorkers DEF Session!Takes, Session!Durable
  <2>2. /\ events' = [i \in 1 .. n |-> IF i = n THEN w ELSE events[i]]
        /\ acked' = acked \cup {<<w, n>>}
        /\ work' = [work EXCEPT ![w] = t]
    <3>1. n > Len(events)
      BY <2>1
    <3>2. /\ events' = [i \in 1 .. (IF n > Len(events) THEN n ELSE Len(events)) |->
                          IF i = n THEN w ELSE events[i]]
          /\ acked' = acked \cup {<<w, n>>}
          /\ work' = [work EXCEPT ![w].at = "idle", ![w].known = n]
      BY <1>5 DEF Session!AppendEvent, Session!Durable
    <3>3. work' = [work EXCEPT ![w] = t]
      BY <3>2
    <3> HIDE DEF n
    <3> QED
      BY <3>1, <3>2, <3>3
  <2>3. /\ t \in Hands
        /\ t.at = "idle" /\ t.known = n /\ t.seq = work[w].seq
        /\ t.point = work[w].point /\ t.overtaken = work[w].overtaken
    BY <1>3, <2>1 DEF Hands, Places
  <2> HIDE DEF t
  <2>4. events' \in Seq(Workers) /\ Len(events') = n
    <3>1. \A i \in 1 .. n : (IF i = n THEN w ELSE events[i]) \in Workers
      BY <2>1, EventsAreWorkers
    <3>2. events' \in [1 .. n -> Workers]
      BY <2>2, <3>1
    <3> HIDE DEF n
    <3> QED
      BY <2>1, <3>2
  <2>5. ASSUME NEW i \in 1 .. Len(events)
        PROVE  i \in 1 .. Len(events') /\ events'[i] = events[i]
    BY <2>1, <2>2, <2>4
  <2>6. ASSUME NEW v \in Workers
        PROVE  work'[v] = IF v = w THEN t ELSE work[v]
    BY <2>2 DEF SessionIInv, KindInv
  <2>7. KindInv'
    <3>1. work' \in [Workers -> Hands]
      BY <2>2, <2>3 DEF SessionIInv, KindInv
    <3> QED
      BY <1>1, <1>2, <2>4, <3>1 DEF SessionIInv, KindInv
  <2>8. HandInv'
    <3>1. ASSUME NEW v \in Workers
          PROVE  work[v].seq \in Nat /\ work[v].known \in Nat
      BY DEF SessionIInv, KindInv, Hands
    <3>2. ASSUME NEW v \in Workers
          PROVE  work'[v].seq <= n /\ work'[v].known <= n
      BY <1>3, <2>1, <2>3, <2>6, <3>1 DEF SessionIInv, HandInv, Sound
    <3>3. ASSUME NEW v \in Workers
          PROVE  /\ work'[v].at \notin {"down", "refused"} =>
                       session' # None /\ session'.identity = Identity[v]
                 /\ work'[v].at = "save" => work'[v].point # None
      BY <1>2, <1>3, <2>3, <2>6 DEF SessionIInv, HandInv
    <3> QED
      BY <2>4, <3>2, <3>3 DEF HandInv
  <2>9. CoverInv'
    <3>1. \A c \in stored : c.seq \in Nat /\ c.seq <= Len(events)
      BY DEF SessionIInv, KindInv, CoverInv, Points
    <3> QED
      BY <1>2, <2>1, <2>4, <3>1 DEF CoverInv
  <2>10. AckedInv'
    <3>1. events'[n] = w /\ n \in 1 .. n
      BY <2>1, <2>2
    <3>2. ASSUME NEW a \in acked'
          PROVE  a[1] \in Workers /\ a[2] \in 1 .. Len(events') /\ events'[a[2]] = a[1]
      <4>1. CASE a \in acked
        BY <2>5, <4>1 DEF SessionIInv, AckedInv
      <4>2. CASE a = <<w, n>>
        BY <2>4, <3>1, <4>2
      <4> QED
        BY <2>2, <4>1, <4>2
    <3> QED
      BY <3>2 DEF AckedInv
  <2>11. LatestInv'
    BY <1>1, <1>2, <1>3, <2>3, <2>6 DEF SessionIInv, LatestInv, Sound
  <2>12. OverInv'
    BY <1>2, <1>3 DEF OverInv
  <2> QED
    BY <2>7, <2>8, <2>9, <2>10, <2>11, <2>12 DEF SessionIInv
<1> QED
  BY <1>4, <1>5

\* The kernel's checkpoint may be ahead of the log, but not behind the one it has.
LEMMA BuildKeeps ==
    ASSUME NoneIsApart, SessionIInv, NEW w \in Workers, Session!Build(w)
    PROVE  SessionIInv'
<1>1. work[w].at = "idle"
  BY DEF Session!Build, Session!At
<1>2. UNCHANGED <<session, events, stored, acked, late, over>>
  BY DEF Session!Build, Session!History
<1>3. /\ work[w] \in Hands /\ Sound(w, work[w])
      /\ session # None /\ session.identity = Identity[w] /\ ~over
  BY <1>1, AllAreSound DEF Sound
<1>4. work[w].known \in Nat /\ work[w].built \in Nat /\ work[w].point \in Points \cup {None}
  BY <1>3 DEF Hands
<1>5. PICK seq \in {work[w].known, work[w].known + 1} :
         /\ work[w].point # None => seq >= work[w].point.seq
         /\ work' = [work EXCEPT ![w].at = "save", ![w].built = @ + 1,
                                 ![w].point = [by |-> w, n |-> work[w].built + 1, seq |-> seq]]
  BY DEF Session!Build
<1> DEFINE built == work[w].built + 1
           point == [by |-> w, n |-> built, seq |-> seq]
           t == [work[w] EXCEPT !.at = "save", !.built = built, !.point = point]
<1>6. built \in Nat /\ point \in Points /\ point # None /\ point.seq = seq /\ seq \in Nat
  BY <1>4 DEF Points, NoneIsApart
<1>7. work' = [work EXCEPT ![w] = t]
  BY <1>3, <1>5 DEF Hands
<1> HIDE DEF built, point
<1>8. /\ t \in Hands
      /\ t.at = "save" /\ t.known = work[w].known /\ t.seq = work[w].seq
      /\ t.point = point /\ t.overtaken = work[w].overtaken
  BY <1>3, <1>4, <1>6 DEF Hands, Places
<1> HIDE DEF t
<1>9. Sound(w, t)
  <2>1. ASSUME ~work[w].overtaken, session.latest # None
        PROVE  session.latest.seq <= point.seq
    <3>1. work[w].point # None /\ session.latest.seq <= work[w].point.seq
      BY <1>1, <1>3, <2>1 DEF Sound
    <3>2. work[w].point.seq \in Nat /\ session.latest.seq \in Nat
      BY <1>3, <1>4, <2>1, <3>1 DEF SessionIInv, KindInv, Points
    <3> QED
      BY <1>5, <1>6, <3>1, <3>2
  <2> QED
    BY <1>3, <1>6, <1>8, <2>1 DEF Sound
<1> QED
  BY <1>2, <1>7, <1>8, <1>9, OneMoves

\* A step that writes the state of the session: a worker that does is past reading it, or the
\* session was not finalized alone, or it is being finalized.
LEMMA StateKeeps ==
    ASSUME NoneIsApart, SessionIInv, NEW w \in Workers, NEW state \in States, NEW at \in Places,
           session # None, session.identity = Identity[w], work[w].at \in {"open", "idle"},
           session' = [session EXCEPT !.state = state],
           work' = [work EXCEPT ![w].at = at],
           at \in {"down", "resume"},
           UNCHANGED <<events, stored, acked, late>>,
           over' \in BOOLEAN,
           over' => \/ over
                    \/ /\ state = "closed" /\ at = "down"
                       /\ \A v \in Workers \ {w} : work[v].at \in {"down", "refused", "state"}
    PROVE  SessionIInv'
<1> DEFINE t == [work[w] EXCEPT !.at = at]
<1>1. work[w] \in Hands /\ Sound(w, work[w]) /\ ~over
  BY AllAreSound DEF Sound
<1>2. /\ session \in SessionRows /\ session' \in SessionRows
      /\ session'.identity = session.identity /\ session'.latest = session.latest
      /\ session'.state = state /\ session' # None
  BY DEF SessionIInv, KindInv, SessionRows, NoneIsApart
<1>3. /\ t \in Hands
      /\ t.at = at /\ t.seq = work[w].seq /\ t.known = work[w].known
  BY <1>1 DEF Hands
<1>4. work' = [work EXCEPT ![w] = t]
  OBVIOUS
<1> HIDE DEF t
<1>5. ASSUME NEW v \in Workers
      PROVE  work'[v] = IF v = w THEN t ELSE work[v]
  BY <1>4 DEF SessionIInv, KindInv
<1>6. work' \in [Workers -> Hands]
  BY <1>3, <1>4 DEF SessionIInv, KindInv
<1>7. KindInv'
  BY <1>2, <1>6 DEF SessionIInv, KindInv
<1>8. HandInv'
  BY <1>1, <1>2, <1>3, <1>5 DEF SessionIInv, HandInv, Sound
<1>9. CoverInv' /\ AckedInv'
  BY DEF SessionIInv, CoverInv, AckedInv
<1>10. LatestInv'
  BY <1>2, <1>3, <1>5 DEF SessionIInv, LatestInv
<1>11. OverInv'
  BY <1>1, <1>2, <1>3, <1>5 DEF OverInv
<1> QED
  BY <1>7, <1>8, <1>9, <1>10, <1>11 DEF SessionIInv

LEMMA SetOpenKeeps ==
    ASSUME NoneIsApart, SessionIInv, NEW w \in Workers, Session!SetOpen(w)
    PROVE  SessionIInv'
<1>1. /\ work[w].at = "open"
      /\ session' = [session EXCEPT !.state = "open"]
      /\ work' = [work EXCEPT ![w].at = "resume"]
      /\ UNCHANGED <<events, stored, acked, late, over>>
  BY DEF Session!SetOpen, Session!At, Session!Goes, Session!History
<1>2. session # None /\ session.identity = Identity[w]
  BY <1>1 DEF SessionIInv, HandInv
<1>3. over' \in BOOLEAN /\ (over' => over)
  BY <1>1 DEF SessionIInv, KindInv
<1> QED
  BY <1>1, <1>2, <1>3, StateKeeps DEF States, Places

LEMMA CloseKeeps ==
    ASSUME NoneIsApart, SessionIInv, NEW w \in Workers, Session!Close(w)
    PROVE  SessionIInv'
<1>1. /\ work[w].at = "idle"
      /\ session' = [session EXCEPT !.state = "paused"]
      /\ work' = [work EXCEPT ![w].at = "down"]
      /\ UNCHANGED <<events, stored, acked, late, over>>
  BY DEF Session!Close, Session!SetState, Session!At, Session!Goes
<1>2. session # None /\ session.identity = Identity[w]
  BY <1>1 DEF SessionIInv, HandInv
<1>3. over' \in BOOLEAN /\ (over' => over)
  BY <1>1 DEF SessionIInv, KindInv
<1> QED
  BY <1>1, <1>2, <1>3, StateKeeps DEF States, Places

LEMMA FinalizeKeeps ==
    ASSUME NoneIsApart, SessionIInv, NEW w \in Workers, Session!Finalize(w)
    PROVE  SessionIInv'
<1> DEFINE alone == \A v \in Workers \ {w} : work[v].at \in {"down", "refused", "state"}
<1>1. /\ work[w].at = "idle"
      /\ session' = [session EXCEPT !.state = "closed"]
      /\ work' = [work EXCEPT ![w].at = "down"]
      /\ UNCHANGED <<events, stored, acked, late>>
      /\ over' = (over \/ alone)
  BY DEF Session!Finalize, Session!SetState, Session!At, Session!Goes
<1>2. session # None /\ session.identity = Identity[w]
  BY <1>1 DEF SessionIInv, HandInv
<1>3. over' \in BOOLEAN /\ (over' => over \/ alone)
  BY <1>1
<1> QED
  BY <1>1, <1>2, <1>3, StateKeeps DEF States, Places

\* save_checkpoint(): what is stored is covered by the log, and becomes the latest; everybody
\* else who is at work is overtaken by it.
LEMMA SaveKeeps ==
    ASSUME NoneIsApart, SessionIInv, NEW w \in Workers, Session!Save(w)
    PROVE  SessionIInv'
<1> DEFINE point == work[w].point
<1>1. work[w].at = "save" /\ UNCHANGED <<events, acked, over>>
  BY DEF Session!Save, Session!At
<1>2. /\ work[w] \in Hands /\ Sound(w, work[w])
      /\ session # None /\ session.identity = Identity[w] /\ ~over
      /\ point # None /\ point \in Points
  BY <1>1, AllAreSound DEF Sound, Hands
<1>3. PICK place \in {"idle", "save"} : work' = Session!Overtaken(w, place)
  BY DEF Session!Save
<1>4. /\ work' \in [Workers -> Hands]
      /\ work'[w] = [work[w] EXCEPT !.at = place]
      /\ \A v \in Workers \ {w} :
            work'[v] = [work[v] EXCEPT !.overtaken = @ \/ work[v].at \notin {"down", "refused"}]
  <2>1. [work[w] EXCEPT !.at = place] \in Hands
    BY <1>2 DEF Hands, Places
  <2>2. ASSUME NEW v \in Workers
        PROVE  [work[v] EXCEPT !.overtaken = @ \/ work[v].at \notin {"down", "refused"}] \in Hands
    BY AllAreSound DEF Hands
  <2> QED
    BY <1>3, <2>1, <2>2 DEF Session!Overtaken
<1>5. /\ work'[w].at = place /\ work'[w].seq = work[w].seq /\ work'[w].known = work[w].known
      /\ work'[w].point = point /\ work'[w].overtaken = work[w].overtaken
  BY <1>2, <1>4 DEF Hands
<1>6. ASSUME NEW v \in Workers \ {w}
      PROVE  /\ work'[v].at = work[v].at /\ work'[v].seq = work[v].seq
             /\ work'[v].known = work[v].known /\ work'[v].point = work[v].point
             /\ work'[v].overtaken = (work[v].overtaken \/ work[v].at \notin {"down", "refused"})
  BY <1>4, AllAreSound DEF Hands
<1>7. OverInv'
  BY <1>1, <1>2 DEF OverInv
<1>8. AckedInv'
  BY <1>1 DEF SessionIInv, AckedInv
<1>9. CASE ~(Session!BoundTo(w) /\ Session!Covered(point))
  <2>1. UNCHANGED <<session, stored, late>>
    BY <1>9 DEF Session!Save
  <2>2. KindInv' /\ CoverInv'
    BY <1>1, <1>4, <2>1 DEF SessionIInv, KindInv, CoverInv
  <2>3. HandInv'
    BY <1>1, <1>2, <1>5, <1>6, <2>1 DEF SessionIInv, HandInv
  <2>4. LatestInv'
    BY <1>1, <1>2, <1>5, <1>6, <2>1 DEF SessionIInv, LatestInv, Sound
  <2> QED
    BY <1>7, <1>8, <2>2, <2>3, <2>4 DEF SessionIInv
<1>10. CASE Session!BoundTo(w) /\ Session!Covered(point)
  <2>1. /\ stored' = stored \cup {point}
        /\ session' = [session EXCEPT !.latest = point]
        /\ late' = (late \/ work[w].overtaken)
    BY <1>10 DEF Session!Save, Session!Latest
  <2>2. /\ session' \in SessionRows /\ session' # None
        /\ session'.identity = session.identity /\ session'.latest = point
    BY <1>2, <2>1 DEF SessionIInv, KindInv, SessionRows, NoneIsApart
  <2>3. KindInv'
    BY <1>1, <1>2, <1>4, <2>1, <2>2 DEF SessionIInv, KindInv
  <2>4. HandInv'
    BY <1>1, <1>2, <1>5, <1>6, <2>2 DEF SessionIInv, HandInv
  <2>5. CoverInv'
    BY <1>1, <1>10, <2>1 DEF SessionIInv, CoverInv, Session!Covered, Session!Durable
  <2>6. LatestInv'
    <3>1. ASSUME ~late'
          PROVE  \A c \in stored' : c.seq <= point.seq
      <4>1. ~late /\ ~work[w].overtaken
        BY <2>1, <3>1
      <4>2. point.seq \in Nat
        BY <1>2 DEF Points
      <4>3. ASSUME NEW c \in stored
            PROVE  c.seq <= point.seq
        <5>1. session.latest # None /\ c.seq <= session.latest.seq
          BY <1>2, <4>1 DEF SessionIInv, LatestInv
        <5>2. session.latest.seq <= point.seq
          BY <1>1, <1>2, <4>1, <5>1 DEF Sound
        <5>3. c.seq \in Nat /\ session.latest.seq \in Nat
          BY <1>2, <5>1 DEF SessionIInv, KindInv, Points
        <5> QED
          BY <4>2, <5>1, <5>2, <5>3
      <4> QED
        BY <2>1, <4>2, <4>3
    <3>2. ASSUME NEW v \in Workers, work'[v].at \in {"idle", "append", "save"}, ~work'[v].overtaken
          PROVE  work'[v].point = point
      BY <1>5, <1>6, <3>2
    <3>3. point.seq \in Nat
      BY <1>2 DEF Points
    <3> QED
      BY <1>2, <2>2, <3>1, <3>2, <3>3 DEF LatestInv
  <2> QED
    BY <1>7, <1>8, <2>3, <2>4, <2>5, <2>6 DEF SessionIInv
<1> QED
  BY <1>9, <1>10

----------------------------------------------------------------------------
(* The theorems. *)

LEMMA StutterKeeps ==
    ASSUME SessionIInv, UNCHANGED Session!vars
    PROVE  SessionIInv'
BY DEF SessionIInv, KindInv, HandInv, CoverInv, AckedInv, LatestInv, OverInv, Session!vars

\* Whatever the workers of one session do, and whenever they die or an answer is lost: what they
\* know is in the log, and the latest checkpoint is a stored one that the log covers.
THEOREM SessionInvariant ==
    ASSUME NoneIsApart
    PROVE  Session!Spec => []SessionIInv
<1>1. Session!Init => SessionIInv
  BY InitIsSound
<1>2. SessionIInv /\ [Session!Next]_Session!vars => SessionIInv'
  <2> SUFFICES ASSUME SessionIInv, [Session!Next]_Session!vars
               PROVE  SessionIInv'
    OBVIOUS
  <2>1. ASSUME NEW w \in Workers, Session!Create(w) PROVE SessionIInv'
    BY <2>1, CreateKeeps
  <2>2. ASSUME NEW w \in Workers, Session!ReadState(w) PROVE SessionIInv'
    BY <2>2, ReadStateKeeps
  <2>3. ASSUME NEW w \in Workers, Session!SetOpen(w) PROVE SessionIInv'
    BY <2>3, SetOpenKeeps
  <2>4. ASSUME NEW w \in Workers, Session!ReadSeq(w, "resume", "resuming") PROVE SessionIInv'
    BY <2>4, ReadSeqKeeps
  <2>5. ASSUME NEW w \in Workers, Session!Resume(w) PROVE SessionIInv'
    BY <2>5, ResumeKeeps
  <2>6. ASSUME NEW w \in Workers, Session!ReadSeq(w, "idle", "append") PROVE SessionIInv'
    BY <2>6, ReadSeqKeeps
  <2>7. ASSUME NEW w \in Workers, Session!AppendEvent(w) PROVE SessionIInv'
    BY <2>7, AppendKeeps
  <2>8. ASSUME NEW w \in Workers, Session!Build(w) PROVE SessionIInv'
    BY <2>8, BuildKeeps
  <2>9. ASSUME NEW w \in Workers, Session!Save(w) PROVE SessionIInv'
    BY <2>9, SaveKeeps
  <2>10. ASSUME NEW w \in Workers, Session!Close(w) PROVE SessionIInv'
    BY <2>10, CloseKeeps
  <2>11. ASSUME NEW w \in Workers, Session!Finalize(w) PROVE SessionIInv'
    BY <2>11, FinalizeKeeps
  <2>12. ASSUME NEW w \in Workers, Session!Die(w) PROVE SessionIInv'
    BY <2>12, DieKeeps
  <2>13. CASE UNCHANGED Session!vars
    BY <2>13, StutterKeeps
  <2> QED
    BY <2>1, <2>2, <2>3, <2>4, <2>5, <2>6, <2>7, <2>8, <2>9, <2>10, <2>11, <2>12, <2>13
    DEF Session!Next, Session!Works
<1> QED
  BY <1>1, <1>2, PTL DEF Session!Spec

\* The state of the session, its log and the sequences the workers hold have their types.
THEOREM SessionTypeCorrect ==
    ASSUME NoneIsApart
    PROVE  Session!Spec => []Session!TypeOK
<1>1. SessionIInv => Session!TypeOK
  <2> SUFFICES ASSUME SessionIInv
               PROVE  Session!TypeOK
    OBVIOUS
  <2>1. session # None => session.state \in {"open", "paused", "closed"}
    BY DEF SessionIInv, KindInv, SessionRows, States
  <2>2. session # None => session.latest \in stored \cup {None}
    BY DEF SessionIInv, KindInv
  <2>3. ASSUME NEW w \in Workers
        PROVE  work[w].seq \in 0 .. MaxEvents /\ work[w].known \in 0 .. MaxEvents
    <3>1. work[w].seq \in Nat /\ work[w].known \in Nat
      BY AllAreSound DEF Hands
    <3>2. work[w].seq <= Len(events) /\ work[w].known <= Len(events)
      BY AllAreSound DEF Sound
    <3>3. Len(events) \in Nat /\ Len(events) <= MaxEvents
      BY EventsAreWorkers DEF SessionIInv, KindInv
    <3> QED
      BY <3>1, <3>2, <3>3 DEF NoneIsApart
  <2> QED
    BY <2>1, <2>2, <2>3, EventsAreWorkers DEF Session!TypeOK
<1> QED
  BY <1>1, SessionInvariant, PTL

\* append_durable_event() never gives one sequence to two workers: what it returned stays in the
\* log under the worker it was returned to.
THEOREM EventsAreDenseHolds ==
    ASSUME NoneIsApart
    PROVE  Session!Spec => []Session!EventsAreDense
<1>1. SessionIInv => Session!EventsAreDense
  BY EventsAreWorkers DEF SessionIInv, AckedInv, Session!EventsAreDense, Session!Durable
<1> QED
  BY <1>1, SessionInvariant, PTL

\* No stored checkpoint, and nothing a worker resumed with, is ahead of the log.
THEOREM CheckpointIsCoveredHolds ==
    ASSUME NoneIsApart
    PROVE  Session!Spec => []Session!CheckpointIsCovered
<1>1. SessionIInv => Session!CheckpointIsCovered
  BY DEF SessionIInv, CoverInv, HandInv, Session!CheckpointIsCovered, Session!Durable
<1> QED
  BY <1>1, SessionInvariant, PTL

\* Every worker past startup() has the identity the session was created with.
THEOREM OneIdentityHolds ==
    ASSUME NoneIsApart
    PROVE  Session!Spec => []Session!OneIdentity
<1>1. SessionIInv => Session!OneIdentity
  BY DEF SessionIInv, HandInv, Session!OneIdentity
<1> QED
  BY <1>1, SessionInvariant, PTL

\* Unless a worker saved after its successor had, the latest checkpoint covers all the others.
THEOREM LatestIsNewestHolds ==
    ASSUME NoneIsApart
    PROVE  Session!Spec => []Session!LatestIsNewest
<1>1. SessionIInv => Session!LatestIsNewest
  BY DEF SessionIInv, LatestInv, Session!LatestIsNewest
<1> QED
  BY <1>1, SessionInvariant, PTL

\* A session finalized while no other worker was past reading its state is never opened again.
THEOREM FinalizedStaysHolds ==
    ASSUME NoneIsApart
    PROVE  Session!Spec => []Session!FinalizedStays
<1>1. SessionIInv => Session!FinalizedStays
  BY DEF SessionIInv, OverInv, Session!FinalizedStays
<1> QED
  BY <1>1, SessionInvariant, PTL

\* The session as a whole: the five together, for any number of workers, events and faults.
THEOREM CheckpointsAreSoundHolds ==
    ASSUME NoneIsApart
    PROVE  Session!Spec => []CheckpointsAreSound
<1>1. /\ Session!EventsAreDense /\ Session!CheckpointIsCovered /\ Session!OneIdentity
      /\ Session!LatestIsNewest /\ Session!FinalizedStays
      => CheckpointsAreSound
  BY DEF CheckpointsAreSound
<1> QED
  BY <1>1, EventsAreDenseHolds, CheckpointIsCoveredHolds, OneIdentityHolds, LatestIsNewestHolds,
     FinalizedStaysHolds, PTL


----------------------------------------------------------------------------
(***************************************************************************)
(* No socket of /sync/events (ChangeWaiters) skips a change, and none      *)
(* sleeps over one by its own doing, whatever the numbers of sockets and   *)
(* changes.                                                                *)
(*                                                                         *)
(* The cursor of a socket is where its last complete page ended; the page  *)
(* at hand goes on from what was sent (PageInv).  A socket that has looked *)
(* at the log in vain is owed a notice of everything announced since,      *)
(* unless another socket took it (NoticeInv).                              *)
(***************************************************************************)

\* What the theorems assume of the bounds.
WaiterBounds == Page \in Nat /\ MaxChanges \in Nat

Loops == [at : Waiters!Places, cursor : Nat, page : Seq(Nat), start : Nat, sent : Seq(Nat)]

SocketKindInv ==
    /\ log \in Nat /\ log <= MaxChanges
    /\ unsaid \in Nat /\ unsaid <= log
    /\ event \in BOOLEAN
    /\ sock \in [Sockets -> Loops]

\* What a socket has at hand goes on where what it sent has ended, and is in the log.
PageOf(l) ==
    /\ \A i \in 1 .. Len(l.sent) : l.sent[i] = l.start + i
    /\ l.at \in {"latest", "send"} =>
          /\ \A i \in 1 .. Len(l.page) : l.page[i] = l.start + Len(l.sent) + i
          /\ l.start + Len(l.sent) + Len(l.page) <= log
    /\ l.at = "send" => l.page # <<>>
    /\ l.at # "send" => l.cursor = l.start + Len(l.sent)
    /\ l.cursor <= log

PageInv == \A s \in Sockets : PageOf(sock[s])

\* An announced change that a waiting socket has not read is noticed, or another one took the notice.
NoticeInv ==
    \A s \in Sockets : log - unsaid > sock[s].cursor =>
        /\ Waiters!At(s, "wait") => event \/ s \in taken
        /\ Waiters!At(s, "sleep") => s \in taken

WaiterInv == SocketKindInv /\ PageInv /\ NoticeInv

----------------------------------------------------------------------------
(* Steps of one socket. *)

\* What the socket is owed where it stands now.
Owed(s, l) ==
    log - unsaid > l.cursor =>
        /\ l.at = "wait" => event \/ s \in taken
        /\ l.at = "sleep" => s \in taken

LEMMA Stand ==
    ASSUME WaiterInv, NEW s \in Sockets
    PROVE  sock[s] \in Loops /\ PageOf(sock[s]) /\ Owed(s, sock[s])
BY DEF WaiterInv, SocketKindInv, PageInv, NoticeInv, Owed, Waiters!At

\* A step that only moves one socket.
LEMMA SockOneMoves ==
    ASSUME WaiterInv, NEW s \in Sockets, NEW l \in Loops, PageOf(l), Owed(s, l),
           sock' = [sock EXCEPT ![s] = l],
           UNCHANGED <<log, unsaid, event, taken>>
    PROVE  WaiterInv'
<1>1. sock' \in [Sockets -> Loops]
  BY DEF WaiterInv, SocketKindInv
<1>2. ASSUME NEW x \in Sockets
      PROVE  sock'[x] = IF x = s THEN l ELSE sock[x]
  BY DEF WaiterInv, SocketKindInv
<1>3. SocketKindInv'
  BY <1>1 DEF WaiterInv, SocketKindInv
<1>4. PageInv'
  BY <1>2 DEF WaiterInv, PageInv, PageOf
<1>5. NoticeInv'
  BY <1>2 DEF WaiterInv, NoticeInv, Owed, Waiters!At
<1> QED
  BY <1>3, <1>4, <1>5 DEF WaiterInv

\* A step of one socket that clears the event: it takes the notice from all that wait.
LEMMA OneClears ==
    ASSUME WaiterInv, NEW s \in Sockets, NEW l \in Loops, PageOf(l), l.at \notin {"wait", "sleep"},
           sock' = [sock EXCEPT ![s] = l], Waiters!Clears(s),
           UNCHANGED <<log, unsaid>>
    PROVE  WaiterInv'
<1>1. sock' \in [Sockets -> Loops]
  BY DEF WaiterInv, SocketKindInv
<1>2. ASSUME NEW x \in Sockets
      PROVE  sock'[x] = IF x = s THEN l ELSE sock[x]
  BY DEF WaiterInv, SocketKindInv
<1>3. SocketKindInv'
  BY <1>1 DEF WaiterInv, SocketKindInv, Waiters!Clears
<1>4. PageInv'
  BY <1>2 DEF WaiterInv, PageInv, PageOf
<1>5. NoticeInv'
  <2> SUFFICES ASSUME NEW x \in Sockets, (log - unsaid > sock[x].cursor)'
               PROVE  /\ Waiters!At(x, "wait")' => event' \/ x \in taken'
                      /\ Waiters!At(x, "sleep")' => x \in taken'
    BY DEF NoticeInv
  <2>1. CASE x = s
    BY <1>2, <2>1 DEF Waiters!At
  <2>2. CASE x # s
    <3>1. sock'[x] = sock[x] /\ log - unsaid > sock[x].cursor
      BY <1>2, <2>2
    <3>2. taken \subseteq taken'
      BY DEF Waiters!Clears
    <3>3. CASE sock[x].at = "wait"
      <4>1. event \/ x \in taken
        BY <3>1, <3>3, Stand DEF Owed
      <4>2. x \in taken'
        BY <2>2, <3>2, <3>3, <4>1 DEF Waiters!Clears
      <4> QED
        BY <3>1, <3>3, <4>2 DEF Waiters!At
    <3>4. CASE sock[x].at # "wait"
      BY <3>1, <3>2, <3>4, Stand DEF Owed, Waiters!At
    <3> QED
      BY <3>3, <3>4
  <2> QED
    BY <2>1, <2>2
<1> QED
  BY <1>3, <1>4, <1>5 DEF WaiterInv

\* Another place in the loop, with the same page and cursor.
LEMMA SockGoesOn ==
    ASSUME WaiterInv, NEW s \in Sockets, sock[s].at # "send",
           NEW place \in Waiters!Places \ {"latest", "send"}
    PROVE  /\ [sock[s] EXCEPT !.at = place] \in Loops
           /\ [sock[s] EXCEPT !.at = place].at = place
           /\ [sock[s] EXCEPT !.at = place].cursor = sock[s].cursor
           /\ PageOf([sock[s] EXCEPT !.at = place])
<1> DEFINE l == [sock[s] EXCEPT !.at = place]
<1>1. /\ l \in Loops /\ l.at = place /\ l.cursor = sock[s].cursor
      /\ l.page = sock[s].page /\ l.start = sock[s].start /\ l.sent = sock[s].sent
  BY Stand DEF Loops
<1>2. sock[s] \in Loops /\ PageOf(sock[s])
  BY Stand
<1> HIDE DEF l
<1>3. PageOf(l)
  BY <1>1, <1>2 DEF PageOf
<1> QED
  BY <1>1, <1>3 DEF l

LEMMA ClosedIsSound ==
    ASSUME WaiterInv
    PROVE  /\ Waiters!Closed \in Loops /\ PageOf(Waiters!Closed) /\ Waiters!Closed.at = "closed"
BY DEF Waiters!Closed, Loops, Waiters!Places, PageOf, WaiterInv, SocketKindInv

----------------------------------------------------------------------------
(* The steps. *)

LEMMA SockInitIsSound ==
    ASSUME WaiterBounds, Waiters!Init
    PROVE  WaiterInv
<1>1. Waiters!Closed \in Loops /\ Waiters!Closed.at = "closed" /\ Waiters!Closed.cursor = 0
  BY DEF Waiters!Closed, Loops, Waiters!Places
<1>2. log = 0
  BY DEF Waiters!Init
<1>3. PageOf(Waiters!Closed)
  BY <1>2 DEF Waiters!Closed, PageOf
<1>4. \A s \in Sockets : sock[s] = Waiters!Closed
  BY DEF Waiters!Init
<1>5. SocketKindInv
  <2>1. sock \in [Sockets -> Loops]
    BY <1>1 DEF Waiters!Init
  <2>2. log \in Nat /\ log <= MaxChanges /\ unsaid \in Nat /\ unsaid <= log
    BY DEF Waiters!Init, WaiterBounds
  <2>3. event \in BOOLEAN
    BY Zenon DEF Waiters!Init
  <2> QED
    BY <2>1, <2>2, <2>3 DEF SocketKindInv
<1>6. PageInv
  BY <1>3, <1>4 DEF PageInv
<1>7. NoticeInv
  BY <1>1, <1>4 DEF NoticeInv, Waiters!At
<1> QED
  BY <1>5, <1>6, <1>7 DEF WaiterInv

\* push() commits: what is in the log before its notice is owed to nobody.
LEMMA CommitKeeps ==
    ASSUME WaiterBounds, WaiterInv, Waiters!Commit
    PROVE  WaiterInv'
<1>1. /\ log' = log + 1 /\ unsaid' = unsaid + 1 /\ log < MaxChanges
      /\ UNCHANGED <<event, sock, taken>>
  BY DEF Waiters!Commit
<1>2. log \in Nat /\ unsaid \in Nat /\ unsaid <= log
  BY DEF WaiterInv, SocketKindInv
<1>3. SocketKindInv'
  BY <1>1 DEF WaiterInv, SocketKindInv, WaiterBounds
<1>4. PageInv'
  <2> SUFFICES ASSUME NEW s \in Sockets
               PROVE  PageOf(sock[s])'
    BY DEF PageInv
  <2> DEFINE reach == sock[s].start + Len(sock[s].sent) + Len(sock[s].page)
  <2>1. PageOf(sock[s])
    BY Stand
  <2>2. sock[s].cursor \in Nat /\ reach \in Nat
    BY Stand DEF Loops
  <2>3. sock[s].cursor <= log' /\ (reach <= log => reach <= log')
    <3>1. sock[s].cursor <= log
      BY <2>1 DEF PageOf
    <3> HIDE DEF reach
    <3> QED
      BY <1>1, <1>2, <2>2, <3>1
  <2> QED
    BY <1>1, <2>1, <2>3 DEF PageOf
<1>5. NoticeInv'
  <2>1. log' - unsaid' = log - unsaid
    BY <1>1, <1>2
  <2> QED
    BY <1>1, <2>1 DEF WaiterInv, NoticeInv, Waiters!At
<1> QED
  BY <1>3, <1>4, <1>5 DEF WaiterInv

\* _notify_scope(): the event is set and nobody sleeps any more.
LEMMA NotifyKeeps ==
    ASSUME WaiterBounds, WaiterInv, Waiters!Notify
    PROVE  WaiterInv'
<1>1. /\ unsaid > 0 /\ unsaid' = unsaid - 1 /\ event' = TRUE
      /\ UNCHANGED <<log, taken>>
  BY DEF Waiters!Notify
<1>2. /\ sock' \in [Sockets -> Loops]
      /\ \A s \in Sockets :
            /\ sock'[s].at = IF sock[s].at = "sleep" THEN "woken" ELSE sock[s].at
            /\ sock'[s].cursor = sock[s].cursor /\ sock'[s].page = sock[s].page
            /\ sock'[s].start = sock[s].start /\ sock'[s].sent = sock[s].sent
  <2> DEFINE woken(s) == IF Waiters!At(s, "sleep") THEN [sock[s] EXCEPT !.at = "woken"] ELSE sock[s]
  <2>1. ASSUME NEW s \in Sockets
        PROVE  /\ woken(s) \in Loops
               /\ woken(s).at = IF sock[s].at = "sleep" THEN "woken" ELSE sock[s].at
               /\ woken(s).cursor = sock[s].cursor /\ woken(s).page = sock[s].page
               /\ woken(s).start = sock[s].start /\ woken(s).sent = sock[s].sent
    BY Stand DEF Loops, Waiters!Places, Waiters!At
  <2>2. sock' = [s \in Sockets |-> woken(s)]
    BY DEF Waiters!Notify
  <2> HIDE DEF woken
  <2> QED
    BY <2>1, <2>2
<1>3. SocketKindInv'
  BY <1>1, <1>2 DEF WaiterInv, SocketKindInv
<1>4. PageInv'
  <2> SUFFICES ASSUME NEW s \in Sockets
               PROVE  PageOf(sock[s])'
    BY DEF PageInv
  <2>1. PageOf(sock[s])
    BY Stand
  <2> QED
    BY <1>1, <1>2, <2>1 DEF PageOf
<1>5. NoticeInv'
  BY <1>1, <1>2 DEF NoticeInv, Waiters!At
<1> QED
  BY <1>3, <1>4, <1>5 DEF WaiterInv

LEMMA AcceptKeeps ==
    ASSUME WaiterBounds, WaiterInv, NEW s \in Sockets, Waiters!Accept(s)
    PROVE  WaiterInv'
<1>1. UNCHANGED <<log, unsaid, event, taken>>
  BY DEF Waiters!Accept
<1>2. PICK c \in 0 .. log : sock' = [sock EXCEPT ![s] = Waiters!Opened(c)]
  BY DEF Waiters!Accept
<1> DEFINE l == Waiters!Opened(c)
<1>3. c \in Nat /\ c <= log
  BY DEF WaiterInv, SocketKindInv
<1>4. /\ l \in Loops
      /\ l.at = "token" /\ l.cursor = c /\ l.start = c /\ l.sent = <<>>
  BY <1>3 DEF Loops, Waiters!Places, Waiters!Opened
<1> HIDE DEF l
<1>5. PageOf(l)
  BY <1>3, <1>4 DEF PageOf
<1>6. Owed(s, l)
  BY <1>4 DEF Owed
<1> QED
  BY <1>1, <1>2, <1>4, <1>5, <1>6, SockOneMoves DEF l

LEMMA ValidateKeeps ==
    ASSUME WaiterBounds, WaiterInv, NEW s \in Sockets, Waiters!Validate(s)
    PROVE  WaiterInv'
<1>1. sock[s].at = "token" /\ UNCHANGED <<log, unsaid, event, taken>>
  BY DEF Waiters!Validate, Waiters!At
<1>2. CASE s \in revoked
  <2>1. sock' = [sock EXCEPT ![s] = Waiters!Closed]
    BY <1>2 DEF Waiters!Validate
  <2>2. Owed(s, Waiters!Closed)
    BY ClosedIsSound DEF Owed
  <2> QED
    BY <1>1, <2>1, <2>2, ClosedIsSound, SockOneMoves
<1>3. CASE s \notin revoked
  <2> DEFINE l == [sock[s] EXCEPT !.at = "read"]
  <2>1. sock' = [sock EXCEPT ![s] = l]
    BY <1>3 DEF Waiters!Validate, Waiters!GoesTo
  <2>2. l \in Loops /\ l.at = "read" /\ PageOf(l)
    BY <1>1, SockGoesOn DEF Waiters!Places
  <2> HIDE DEF l
  <2>3. Owed(s, l)
    BY <2>2 DEF Owed
  <2> QED
    BY <1>1, <2>1, <2>2, <2>3, SockOneMoves
<1> QED
  BY <1>2, <1>3

LEMMA LeastOfTwo ==
    ASSUME NEW a \in Nat, NEW b \in Nat
    PROVE  Waiters!Min({a, b}) = IF a <= b THEN a ELSE b
<1> DEFINE m == IF a <= b THEN a ELSE b
<1>1. m \in {a, b} /\ \A y \in {a, b} : m <= y
  OBVIOUS
<1>2. \A x \in {a, b} : (\A y \in {a, b} : x <= y) => x = m
  OBVIOUS
<1> HIDE DEF m
<1>3. Waiters!Min({a, b}) = m
  BY <1>1, <1>2 DEF Waiters!Min
<1> QED
  BY <1>3 DEF m

\* list_changes() reads at most what there is.
LEMMA ReadRowsKeeps ==
    ASSUME WaiterBounds, WaiterInv, NEW s \in Sockets, Waiters!ReadRows(s)
    PROVE  WaiterInv'
<1> DEFINE k == Waiters!Min({Page, log - sock[s].cursor})
           page == [i \in 1 .. k |-> sock[s].cursor + i]
           l == [sock[s] EXCEPT !.page = page, !.at = "latest"]
<1>1. sock[s].at = "read" /\ UNCHANGED <<log, unsaid, event, taken>>
  BY DEF Waiters!ReadRows, Waiters!At
<1>2. sock' = [sock EXCEPT ![s] = l]
  BY DEF Waiters!ReadRows
<1>3. sock[s] \in Loops /\ PageOf(sock[s])
  BY Stand
<1>4. /\ sock[s].cursor \in Nat /\ sock[s].cursor = sock[s].start + Len(sock[s].sent)
      /\ sock[s].cursor <= log /\ log \in Nat
  BY <1>1, <1>3 DEF Loops, PageOf, WaiterInv, SocketKindInv
<1>5. k \in Nat /\ sock[s].cursor + k <= log
  <2>1. log - sock[s].cursor \in Nat
    BY <1>4
  <2>2. k = IF Page <= log - sock[s].cursor THEN Page ELSE log - sock[s].cursor
    BY <2>1, LeastOfTwo DEF WaiterBounds
  <2> HIDE DEF k
  <2> QED
    BY <1>4, <2>1, <2>2 DEF WaiterBounds
<1> HIDE DEF k
<1>6. page \in Seq(Nat) /\ Len(page) = k /\ \A i \in 1 .. k : page[i] = sock[s].cursor + i
  <2>1. page \in [1 .. k -> Nat]
    BY <1>4
  <2> QED
    BY <1>5, <2>1
<1> HIDE DEF page
<1>7. /\ l \in Loops /\ l.at = "latest" /\ l.page = page /\ l.cursor = sock[s].cursor
      /\ l.start = sock[s].start /\ l.sent = sock[s].sent
  BY <1>3, <1>6 DEF Loops, Waiters!Places
<1> HIDE DEF l
<1>8. PageOf(l)
  BY <1>3, <1>4, <1>5, <1>6, <1>7 DEF PageOf
<1>9. Owed(s, l)
  BY <1>7 DEF Owed
<1> QED
  BY <1>1, <1>2, <1>7, <1>8, <1>9, SockOneMoves

LEMMA ReadLatestKeeps ==
    ASSUME WaiterBounds, WaiterInv, NEW s \in Sockets, Waiters!ReadLatest(s)
    PROVE  WaiterInv'
<1> DEFINE place == IF sock[s].page = <<>> THEN "clear" ELSE "send"
           l == [sock[s] EXCEPT !.at = place]
<1>1. sock[s].at = "latest" /\ UNCHANGED <<log, unsaid, event, taken>>
  BY DEF Waiters!ReadLatest, Waiters!At
<1>2. sock[s] \in Loops /\ PageOf(sock[s])
  BY Stand
<1>3. sock' = [sock EXCEPT ![s] = l]
  <2>1. sock' = [sock EXCEPT ![s].at = place, ![s].cursor = sock[s].cursor]
    BY DEF Waiters!ReadLatest, Waiters!CursorKept
  <2>2. [sock[s] EXCEPT !.at = place, !.cursor = sock[s].cursor] = l
    BY <1>2 DEF Loops
  <2> HIDE DEF place, l
  <2> QED
    BY <2>1, <2>2
<1>4. /\ l \in Loops /\ l.at = place /\ l.page = sock[s].page /\ l.cursor = sock[s].cursor
      /\ l.start = sock[s].start /\ l.sent = sock[s].sent
  BY <1>2 DEF Loops, Waiters!Places
<1> HIDE DEF l
<1>5. PageOf(l)
  BY <1>1, <1>2, <1>4 DEF PageOf
<1>6. Owed(s, l)
  BY <1>4 DEF Owed
<1> QED
  BY <1>1, <1>3, <1>4, <1>5, <1>6, SockOneMoves

\* A record is sent; the cursor follows when the page is done.
LEMMA SendKeeps ==
    ASSUME WaiterBounds, WaiterInv, NEW s \in Sockets, Waiters!Send(s)
    PROVE  WaiterInv'
<1> DEFINE c == Head(sock[s].page)
           rest == Tail(sock[s].page)
           l == Waiters!Sent(sock[s])
           from == sock[s].start + Len(sock[s].sent)
<1>1. sock[s].at = "send" /\ UNCHANGED <<log, unsaid, event, taken>>
  BY DEF Waiters!Send, Waiters!At
<1>2. sock[s] \in Loops /\ PageOf(sock[s])
  BY Stand
<1>3. /\ sock[s].page \in Seq(Nat) /\ sock[s].page # <<>>
      /\ sock[s].sent \in Seq(Nat) /\ sock[s].cursor \in Nat /\ sock[s].start \in Nat
  BY <1>1, <1>2 DEF Loops, PageOf
<1>4. sock' = [sock EXCEPT ![s] = l]
  BY DEF Waiters!Send
<1>5. /\ Len(sock[s].page) \in Nat \ {0} /\ Len(rest) = Len(sock[s].page) - 1
      /\ c = sock[s].page[1] /\ c \in Nat /\ rest \in Seq(Nat)
      /\ \A i \in 1 .. Len(rest) : rest[i] = sock[s].page[i + 1]
  BY <1>3
<1>6. /\ Append(sock[s].sent, c) \in Seq(Nat)
      /\ Len(Append(sock[s].sent, c)) = Len(sock[s].sent) + 1
      /\ Append(sock[s].sent, c)[Len(sock[s].sent) + 1] = c
      /\ \A i \in 1 .. Len(sock[s].sent) : Append(sock[s].sent, c)[i] = sock[s].sent[i]
  BY <1>3, <1>5
<1>7. /\ l.sent = Append(sock[s].sent, c) /\ l.page = rest /\ l.start = sock[s].start
      /\ l.at = IF rest = <<>> THEN "token" ELSE "send"
      /\ l.cursor = IF rest = <<>> THEN c ELSE sock[s].cursor
  BY DEF Waiters!Sent
<1>8. l \in Loops
  BY <1>3, <1>5, <1>6 DEF Loops, Waiters!Places, Waiters!Sent
<1> HIDE DEF l, rest, c
<1>9. Len(sock[s].sent) \in Nat /\ from \in Nat
  BY <1>3
<1>10. c = from + 1 /\ from + Len(sock[s].page) <= log
  BY <1>1, <1>2, <1>5 DEF PageOf
<1>11. \A i \in 1 .. Len(l.sent) : l.sent[i] = l.start + i
  <2> SUFFICES ASSUME NEW i \in 1 .. Len(sock[s].sent) + 1
               PROVE  Append(sock[s].sent, c)[i] = sock[s].start + i
    BY <1>6, <1>7
  <2>1. CASE i = Len(sock[s].sent) + 1
    <3>1. from + 1 = sock[s].start + (Len(sock[s].sent) + 1)
      BY <1>3, <1>9
    <3> HIDE DEF from
    <3> QED
      BY <1>6, <1>10, <2>1, <3>1
  <2>2. CASE i \in 1 .. Len(sock[s].sent)
    BY <1>2, <1>6, <2>2 DEF PageOf
  <2> QED
    BY <1>9, <2>1, <2>2
<1>12. l.start + Len(l.sent) = from + 1
  BY SMTT(60), <1>3, <1>6, <1>7, <1>9
<1>13. CASE rest = <<>>
  <2>1. l.at = "token" /\ l.cursor = c
    BY <1>7, <1>13
  <2>2. c <= log /\ log \in Nat
    BY <1>5, <1>9, <1>10 DEF WaiterInv, SocketKindInv
  <2>3. PageOf(l)
    BY <1>10, <1>11, <1>12, <2>1, <2>2 DEF PageOf
  <2>4. Owed(s, l)
    BY <2>1 DEF Owed
  <2> QED
    BY <1>1, <1>4, <1>8, <2>3, <2>4, SockOneMoves
<1>14. CASE rest # <<>>
  <2>1. l.at = "send" /\ l.cursor = sock[s].cursor
    BY <1>7, <1>14
  <2>2. \A i \in 1 .. Len(l.page) : l.page[i] = (from + 1) + i
    <3> SUFFICES ASSUME NEW i \in 1 .. Len(rest)
                 PROVE  rest[i] = (from + 1) + i
      BY <1>7
    <3>1. i + 1 \in 1 .. Len(sock[s].page)
      BY <1>5
    <3>2. sock[s].page[i + 1] = from + (i + 1)
      BY <1>1, <1>2, <3>1 DEF PageOf
    <3>3. rest[i] = sock[s].page[i + 1] /\ i \in Nat
      BY <1>5
    <3>4. from \in Nat
      BY <1>9
    <3> HIDE DEF from
    <3>5. from + (i + 1) = (from + 1) + i
      BY <3>3, <3>4
    <3> QED
      BY <3>2, <3>3, <3>5
  <2>3. (from + 1) + Len(l.page) <= log
    <3> HIDE DEF from
    <3> QED
      BY <1>5, <1>7, <1>9, <1>10 DEF WaiterInv, SocketKindInv
  <2>4. PageOf(l)
    BY <1>2, <1>7, <1>11, <1>12, <1>14, <2>1, <2>2, <2>3 DEF PageOf
  <2>5. Owed(s, l)
    BY <2>1 DEF Owed
  <2> QED
    BY <1>1, <1>4, <1>8, <2>4, <2>5, SockOneMoves
<1> QED
  BY <1>13, <1>14

LEMMA ClearEventKeeps ==
    ASSUME WaiterBounds, WaiterInv, NEW s \in Sockets, Waiters!ClearEvent(s)
    PROVE  WaiterInv'
<1> DEFINE l == [sock[s] EXCEPT !.at = "check"]
<1>1. sock[s].at = "clear" /\ Waiters!Clears(s) /\ UNCHANGED <<log, unsaid>>
  BY DEF Waiters!ClearEvent, Waiters!At
<1>2. sock' = [sock EXCEPT ![s] = l]
  BY DEF Waiters!ClearEvent, Waiters!GoesTo
<1>3. l \in Loops /\ l.at = "check" /\ PageOf(l)
  BY <1>1, SockGoesOn DEF Waiters!Places
<1> HIDE DEF l
<1> QED
  BY <1>1, <1>2, <1>3, OneClears

\* What is in the log at the time of the look is owed to nobody who then waits.
LEMMA CheckLogKeeps ==
    ASSUME WaiterBounds, WaiterInv, NEW s \in Sockets, Waiters!CheckLog(s)
    PROVE  WaiterInv'
<1> DEFINE place == IF log > sock[s].cursor THEN "token" ELSE "wait"
           l == [sock[s] EXCEPT !.at = place]
<1>1. sock[s].at = "check" /\ UNCHANGED <<log, unsaid, event, taken>>
  BY DEF Waiters!CheckLog, Waiters!At
<1>2. sock' = [sock EXCEPT ![s] = l]
  BY DEF Waiters!CheckLog, Waiters!GoesTo
<1>3. l \in Loops /\ l.at = place /\ l.cursor = sock[s].cursor /\ PageOf(l)
  BY <1>1, SockGoesOn DEF Waiters!Places
<1> HIDE DEF l
<1>4. log \in Nat /\ unsaid \in Nat /\ unsaid <= log /\ sock[s].cursor \in Nat
  BY Stand DEF WaiterInv, SocketKindInv, Loops
<1>5. Owed(s, l)
  BY <1>3, <1>4 DEF Owed
<1> QED
  BY <1>1, <1>2, <1>3, <1>5, SockOneMoves

LEMMA AwaitKeeps ==
    ASSUME WaiterBounds, WaiterInv, NEW s \in Sockets, Waiters!Await(s)
    PROVE  WaiterInv'
<1> DEFINE place == IF event THEN "woken" ELSE "sleep"
           l == [sock[s] EXCEPT !.at = place]
<1>1. sock[s].at = "wait" /\ UNCHANGED <<log, unsaid, event, taken>>
  BY DEF Waiters!Await, Waiters!At
<1>2. sock' = [sock EXCEPT ![s] = l]
  BY DEF Waiters!Await, Waiters!GoesTo, Waiters!Noticed
<1>3. l \in Loops /\ l.at = place /\ l.cursor = sock[s].cursor /\ PageOf(l)
  BY <1>1, SockGoesOn DEF Waiters!Places
<1> HIDE DEF l
<1>4. Owed(s, l)
  BY <1>1, <1>3, Stand DEF Owed
<1> QED
  BY <1>1, <1>2, <1>3, <1>4, SockOneMoves

LEMMA WakeUpKeeps ==
    ASSUME WaiterBounds, WaiterInv, NEW s \in Sockets, Waiters!WakeUp(s)
    PROVE  WaiterInv'
<1> DEFINE l == [sock[s] EXCEPT !.at = "token"]
<1>1. sock[s].at \in {"woken", "sleep"} /\ Waiters!Clears(s) /\ UNCHANGED <<log, unsaid>>
  BY DEF Waiters!WakeUp, Waiters!SleepEnds, Waiters!At
<1>2. sock' = [sock EXCEPT ![s] = l]
  BY DEF Waiters!WakeUp, Waiters!GoesTo
<1>3. l \in Loops /\ l.at = "token" /\ PageOf(l)
  BY <1>1, SockGoesOn DEF Waiters!Places
<1> HIDE DEF l
<1> QED
  BY <1>1, <1>2, <1>3, OneClears

LEMMA DropKeeps ==
    ASSUME WaiterBounds, WaiterInv, NEW s \in Sockets, Waiters!Drop(s)
    PROVE  WaiterInv'
<1>1. sock' = [sock EXCEPT ![s] = Waiters!Closed] /\ UNCHANGED <<log, unsaid>>
  BY DEF Waiters!Drop
<1>2. CASE Waiters!Clears(s)
  BY <1>1, <1>2, ClosedIsSound, OneClears
<1>3. CASE UNCHANGED <<event, taken>>
  <2>1. Owed(s, Waiters!Closed)
    BY ClosedIsSound DEF Owed
  <2> QED
    BY <1>1, <1>3, <2>1, ClosedIsSound, SockOneMoves
<1> QED
  BY <1>2, <1>3 DEF Waiters!Drop

LEMMA SockStutterKeeps ==
    ASSUME WaiterInv, UNCHANGED <<log, unsaid, event, sock, taken>>
    PROVE  WaiterInv'
BY DEF WaiterInv, SocketKindInv, PageInv, PageOf, NoticeInv, Waiters!At

----------------------------------------------------------------------------
(* The theorems. *)

\* However the sockets of an owner take notices from each other, drop and come back.
THEOREM WaitersInvariant ==
    ASSUME WaiterBounds
    PROVE  Waiters!Spec => []WaiterInv
<1>1. Waiters!Init => WaiterInv
  BY SockInitIsSound
<1>2. WaiterInv /\ [Waiters!Next]_Waiters!vars => WaiterInv'
  <2> SUFFICES ASSUME WaiterInv, [Waiters!Next]_Waiters!vars
               PROVE  WaiterInv'
    OBVIOUS
  <2>1. CASE Waiters!Commit
    BY <2>1, CommitKeeps
  <2>2. CASE Waiters!Notify
    BY <2>2, NotifyKeeps
  <2>3. ASSUME NEW s \in Sockets, Waiters!Accept(s) PROVE WaiterInv'
    BY <2>3, AcceptKeeps
  <2>4. ASSUME NEW s \in Sockets, Waiters!RevokeDevice(s) PROVE WaiterInv'
    BY <2>4, SockStutterKeeps DEF Waiters!RevokeDevice
  <2>5. ASSUME NEW s \in Sockets, Waiters!Drop(s) PROVE WaiterInv'
    BY <2>5, DropKeeps
  <2>6. ASSUME NEW s \in Sockets, Waiters!Validate(s) PROVE WaiterInv'
    BY <2>6, ValidateKeeps
  <2>7. ASSUME NEW s \in Sockets, Waiters!ReadRows(s) PROVE WaiterInv'
    BY <2>7, ReadRowsKeeps
  <2>8. ASSUME NEW s \in Sockets, Waiters!ReadLatest(s) PROVE WaiterInv'
    BY <2>8, ReadLatestKeeps
  <2>9. ASSUME NEW s \in Sockets, Waiters!Send(s) PROVE WaiterInv'
    BY <2>9, SendKeeps
  <2>10. ASSUME NEW s \in Sockets, Waiters!ClearEvent(s) PROVE WaiterInv'
    BY <2>10, ClearEventKeeps
  <2>11. ASSUME NEW s \in Sockets, Waiters!CheckLog(s) PROVE WaiterInv'
    BY <2>11, CheckLogKeeps
  <2>12. ASSUME NEW s \in Sockets, Waiters!Await(s) PROVE WaiterInv'
    BY <2>12, AwaitKeeps
  <2>13. ASSUME NEW s \in Sockets, Waiters!WakeUp(s) PROVE WaiterInv'
    BY <2>13, WakeUpKeeps
  <2>14. CASE UNCHANGED Waiters!vars
    BY <2>14, SockStutterKeeps DEF Waiters!vars
  <2> QED
    BY <2>1, <2>2, <2>3, <2>4, <2>5, <2>6, <2>7, <2>8, <2>9, <2>10, <2>11, <2>12, <2>13, <2>14
    DEF Waiters!Next, Waiters!Loop
<1> QED
  BY <1>1, <1>2, PTL DEF Waiters!Spec

\* The log, the notices owed and the cursors have their types.
THEOREM WaiterTypes ==
    ASSUME WaiterBounds
    PROVE  Waiters!Spec => []Waiters!TypeOK
<1>1. WaiterInv => Waiters!TypeOK
  <2> SUFFICES ASSUME WaiterInv
               PROVE  Waiters!TypeOK
    OBVIOUS
  <2>1. ASSUME NEW s \in Sockets
        PROVE  sock[s].at \in Waiters!Places /\ sock[s].cursor \in 0 .. log
    BY Stand DEF WaiterInv, SocketKindInv, Loops, PageOf
  <2> QED
    BY <2>1 DEF WaiterInv, SocketKindInv, Waiters!TypeOK, WaiterBounds
<1> QED
  BY <1>1, WaitersInvariant, PTL

\* sync_events() sends the changes after the cursor it was asked for without a gap and in order.
THEOREM NoGapHolds ==
    ASSUME WaiterBounds
    PROVE  Waiters!Spec => []Waiters!NoGap
<1>1. WaiterInv => Waiters!NoGap
  <2> SUFFICES ASSUME WaiterInv, NEW s \in Sockets, NEW i \in DOMAIN sock[s].sent
               PROVE  sock[s].sent[i] = sock[s].start + i
    BY DEF Waiters!NoGap
  <2>1. sock[s].sent \in Seq(Nat)
    BY Stand DEF Loops
  <2>2. i \in 1 .. Len(sock[s].sent)
    BY <2>1
  <2> QED
    BY <2>2, Stand DEF PageOf
<1> QED
  BY <1>1, WaitersInvariant, PTL

\* wait_for_change() loses a notice only to another socket that clears the shared event.
THEOREM MissedOnlyByOthersHolds ==
    ASSUME WaiterBounds
    PROVE  Waiters!Spec => []Waiters!MissedOnlyByOthers
<1>1. WaiterInv => Waiters!MissedOnlyByOthers
  BY DEF WaiterInv, NoticeInv, Waiters!MissedOnlyByOthers
<1> QED
  BY <1>1, WaitersInvariant, PTL

\* The sockets as a whole: nothing is skipped, and a notice is lost only to another socket.
THEOREM WaitersMissNothingHolds ==
    ASSUME WaiterBounds
    PROVE  Waiters!Spec => []WaitersMissNothing
<1>1. Waiters!NoGap /\ Waiters!MissedOnlyByOthers => WaitersMissNothing
  BY DEF WaitersMissNothing
<1> QED
  BY <1>1, NoGapHolds, MissedOnlyByOthersHolds, PTL

----------------------------------------------------------------------------
(* The versions of the schema (Migrator).                                  *)

Registrations == [desc : {"file", "published"}, file : {"none", "a", "b"}]
Tables == UNION {[registered -> Registrations] : registered \in SUBSET Schema!Versions}
Schemas == [rows : Tables, device : BOOLEAN, control : {"none", "legacy", "new"},
            archived : BOOLEAN, label : {"none", "default", "user"},
            custom : SUBSET {"view", "index"}]
Migrations ==
    [at : {"down", "check", "apply", "open", "failed"}, build : Builds,
     applied : SUBSET Schema!Versions, todo : SUBSET Schema!Versions,
     unknown : SUBSET Schema!Versions]

SchemaTypes ==
    /\ db \in Schemas /\ proc \in [Migrators -> Migrations]
    /\ ran \in [Schema!Versions -> Nat] /\ breaks \in Nat

\* What the rows of schema_version say of the schema: nothing is bound to a file before version 30,
\* the names of a user are those of the published version 5, and a column or a table is there
\* when a version that adds it is.
RowsTell ==
    /\ Schema!Checksums \notin Schema!Applied =>
          \A v \in Schema!Applied : db.rows[v].file = "none"
    /\ db.label = "user" => 5 \in Schema!Applied /\ db.rows[5].desc = "published"
    /\ db.device => 6 \in Schema!Applied \/ 12 \in Schema!Applied
    /\ 18 \notin Schema!Applied =>
          ~db.archived /\ db.control = IF 8 \in Schema!Applied THEN "legacy" ELSE "none"

\* What ran is registered.
RanInv ==
    \A v \in Schema!Versions :
        ran[v] <= 1 /\ (v \notin Schema!Applied => ran[v] = 0)

\* Only historical versions are missing below a registered one, and those came in order.
OrderInv ==
    \A w \in Schema!Applied, v \in Schema!Versions \ Schema!Applied :
        v < w => v \in Schema!Restored /\ w \notin Schema!Restored

Migrating(p) == proc[p].at \in {"check", "apply"}

\* What a process has read is registered, and a file that it is done with is registered or one that
\* does not apply to what it has read.
ReadInv ==
    \A p \in Migrators :
        /\ proc[p].applied \subseteq Schema!Applied
        /\ proc[p].todo \subseteq Schema!Files(p)
        /\ Migrating(p) => \A v \in Schema!Files(p) \ proc[p].todo :
                v \in Schema!Applied \/ Schema!NotApplicable(v, proc[p].applied)
        /\ proc[p].at = "open" => proc[p].unknown = {}

\* When every build has the historical files, either nothing is missing below a registered
\* version, or none of them was ever registered and none ever will be.
Closed(registered) ==
    \A w \in registered, v \in Schema!Versions : v < w => v \in registered
PassedBy(registered) == registered \cap Schema!Restored = {} /\ 12 \in registered
AllHaveHistory == \A b \in Builds : Schema!Restored \subseteq DOMAIN Schema!Catalogs[b]
LineageInv ==
    AllHaveHistory =>
        \/ Closed(Schema!Applied) /\ \A p \in Migrators : Closed(proc[p].applied)
        \/ /\ PassedBy(Schema!Applied)
           /\ \A p \in Migrators : Migrating(p) => PassedBy(proc[p].applied)

SchemaIInv ==
    SchemaTypes /\ RowsTell /\ RanInv /\ OrderInv /\ ReadInv /\ LineageInv /\ Schema!NeverBackwards

-----------------------------------------------------------------------------
(* Lemmas about versions and catalogs. *)

LEMMA VersionsAreNumbers ==
    /\ Schema!Versions = {5, 6, 7, 8, 9, 12, 13, 18, 30, 37}
    /\ Schema!Restored = {6, 7, 8, 9} /\ Schema!Checksums = 30
BY DEF Schema!Versions, Schema!Restored, Schema!Checksums

\* The files of a build are all of them, all but the newest, or all but the historical ones.
LEMMA BuildsDiffer ==
    ASSUME NEW b \in Builds
    PROVE  DOMAIN Schema!Catalogs[b] \in
               {Schema!Versions, Schema!Versions \ {37}, Schema!Versions \ Schema!Restored}
<1>1. b \in {"now", "older", "without", "drifted"}
  BY BuildsExist
<1>2. CASE b = "now"
  BY <1>2 DEF Schema!Catalogs
<1>3. CASE b = "older"
  BY <1>3 DEF Schema!Catalogs
<1>4. CASE b = "without"
  BY <1>4 DEF Schema!Catalogs
<1>5. CASE b = "drifted"
  BY <1>5 DEF Schema!Catalogs
<1> QED
  BY <1>1, <1>2, <1>3, <1>4, <1>5

LEMMA NewestHistorical == Schema!Max(Schema!Restored) = 9
BY VersionsAreNumbers DEF Schema!Max

LEMMA FirstFile ==
    ASSUME NEW files \in SUBSET Schema!Versions, files # {}
    PROVE  /\ Schema!Min(files) \in files
           /\ \A v \in files : Schema!Min(files) <= v
<1>1. \E w \in files : \A v \in files : w <= v
  <2>1. CASE files \cap {5, 6, 7} # {}
    BY <2>1, VersionsAreNumbers
  <2>2. CASE files \cap {5, 6, 7} = {} /\ files \cap {8, 9, 12} # {}
    BY <2>2, VersionsAreNumbers
  <2>3. CASE files \subseteq {13, 18, 30, 37} /\ files \cap {13, 18} # {}
    BY <2>3
  <2>4. CASE files \subseteq {30, 37}
    <3>1. PICK v \in files : TRUE
      OBVIOUS
    <3> QED
      BY <2>4, <3>1
  <2> QED
    BY <2>1, <2>2, <2>3, <2>4, VersionsAreNumbers
<1> QED
  BY <1>1 DEF Schema!Min

LEMMA FilesAreNamed ==
    ASSUME NEW b \in Builds, NEW v \in DOMAIN Schema!Catalogs[b]
    PROVE  Schema!Catalogs[b][v] \in {"a", "b"}
<1>1. b \in {"now", "older", "without", "drifted"}
  BY BuildsExist
<1>2. CASE b = "now"
  BY <1>2 DEF Schema!Catalogs
<1>3. CASE b = "older"
  BY <1>3 DEF Schema!Catalogs
<1>4. CASE b = "without"
  BY <1>4 DEF Schema!Catalogs
<1>5. CASE b = "drifted"
  BY <1>5 DEF Schema!Catalogs
<1> QED
  BY <1>1, <1>2, <1>3, <1>4, <1>5

LEMMA NotApplicableMeans ==
    ASSUME NEW v, NEW applied \in SUBSET Schema!Versions
    PROVE  Schema!NotApplicable(v, applied) <=>
               /\ v \in Schema!Restored /\ applied \cap Schema!Restored = {}
               /\ \E w \in applied : w > 9
BY NewestHistorical DEF Schema!NotApplicable

\* _insert_schema_version_tx() adds one row and keeps what the others describe; before version 30
\* nothing is bound.
LEMMA RegisteredAdds ==
    ASSUME db \in Schemas, NEW p \in Migrators, proc[p].build \in Builds,
           NEW v \in Schema!Files(p), v \in Schema!Versions, v \notin Schema!Applied,
           NEW rows, rows = Schema!Registered(p, v, db.rows)
    PROVE  /\ rows \in Tables /\ DOMAIN rows = Schema!Applied \cup {v}
           /\ rows[v].desc = "file"
           /\ \A w \in Schema!Applied : rows[w].desc = db.rows[w].desc
           /\ Schema!Checksums \notin DOMAIN rows =>
                 /\ rows[v].file = "none"
                 /\ \A w \in Schema!Applied : rows[w].file = db.rows[w].file
<1> DEFINE more == [w \in DOMAIN db.rows \cup {v} |->
                       IF w = v
                       THEN Schema!Row("file", IF Schema!HasChecksums(db.rows) \/ v = Schema!Checksums
                                               THEN Schema!Catalog(p)[v] ELSE "none")
                       ELSE db.rows[w]]
           binds(w) == /\ Schema!HasChecksums(more) /\ Schema!Unbound(more[w]) /\ w \in Schema!Files(p)
                       /\ ~Schema!PublishedUnbound(w, more[w])
<1>1. /\ Schema!Applied \subseteq Schema!Versions
      /\ \A w \in Schema!Applied : db.rows[w] \in Registrations
  BY DEF Schemas, Tables, Schema!Applied
<1>2. \A w \in Schema!Files(p) : Schema!Catalog(p)[w] \in {"a", "b"}
  BY FilesAreNamed DEF Schema!Files, Schema!Catalog
<1>3. /\ DOMAIN more = Schema!Applied \cup {v}
      /\ \A w \in DOMAIN more : more[w] \in Registrations
      /\ \A w \in Schema!Applied : more[w] = db.rows[w]
      /\ more[v].desc = "file"
      /\ Schema!Checksums \notin DOMAIN more => more[v].file = "none"
  BY <1>1, <1>2 DEF Registrations, Schema!Row, Schema!Applied, Schema!HasChecksums
<1>4. rows = [w \in DOMAIN more |->
                 IF binds(w) THEN Schema!Row(more[w].desc, Schema!Catalog(p)[w]) ELSE more[w]]
  BY DEF Schema!Registered, Schema!NoFile
<1>5. \A w \in DOMAIN more : binds(w) => w \in Schema!Files(p) /\ Schema!Checksums \in DOMAIN more
  BY DEF Schema!HasChecksums
<1> HIDE DEF more, binds
<1>6. DOMAIN rows = DOMAIN more
  BY <1>4
<1>7. ASSUME NEW w \in DOMAIN more
      PROVE  /\ rows[w] \in Registrations /\ rows[w].desc = more[w].desc
             /\ Schema!Checksums \notin DOMAIN more => rows[w].file = more[w].file
  BY <1>2, <1>3, <1>4, <1>5 DEF Registrations, Schema!Row
<1>8. rows \in [DOMAIN more -> Registrations]
  BY <1>4, <1>6, <1>7
<1>9. rows \in Tables
  BY <1>1, <1>3, <1>8 DEF Tables
<1> QED
  BY <1>3, <1>6, <1>7, <1>9

\* The statements of each version by themselves.
LEMMA StatementsAre ==
    ASSUME NEW d
    PROVE  /\ Schema!Statements(6, d) = IF d.device THEN {} ELSE {[d EXCEPT !.device = TRUE]}
           /\ Schema!Statements(8, d) =
                 {[d EXCEPT !.control = IF @ = "none" THEN "legacy" ELSE @]}
           /\ Schema!Statements(12, d) = Schema!DeviceColumn(d)
           /\ Schema!Statements(13, d) = {Schema!LabelsRestored(e) : e \in Schema!Rebuilt(d)}
           /\ Schema!Statements(18, d) = Schema!ControlTables(d)
           /\ Schema!Statements(37, d) =
                 {[d EXCEPT !.label = IF @ = "none" THEN "default" ELSE @]}
           /\ \A v \in {5, 7, 9, 30} : Schema!Statements(v, d) = {d}
<1>1. Schema!Statements(6, d) = IF d.device THEN {} ELSE {[d EXCEPT !.device = TRUE]}
  BY DEF Schema!Statements
<1>2. Schema!Statements(8, d) = {[d EXCEPT !.control = IF @ = "none" THEN "legacy" ELSE @]}
  BY DEF Schema!Statements
<1>3. Schema!Statements(12, d) = Schema!DeviceColumn(d)
  BY DEF Schema!Statements
<1>4. Schema!Statements(13, d) = {Schema!LabelsRestored(e) : e \in Schema!Rebuilt(d)}
  BY DEF Schema!Statements
<1>5. Schema!Statements(18, d) = Schema!ControlTables(d)
  BY DEF Schema!Statements
<1>6. Schema!Statements(37, d) = {[d EXCEPT !.label = IF @ = "none" THEN "default" ELSE @]}
  BY DEF Schema!Statements
<1>7. ASSUME NEW v \in {5, 7, 9, 30} PROVE Schema!Statements(v, d) = {d}
  BY DEF Schema!Statements
<1> QED
  BY <1>1, <1>2, <1>3, <1>4, <1>5, <1>6, <1>7

LEMMA DeviceAdded ==
    ASSUME db \in Schemas, NEW d, d = [db EXCEPT !.device = TRUE]
    PROVE  /\ d \in Schemas /\ d.custom = db.custom /\ d.label = db.label
           /\ d.archived = db.archived /\ d.control = db.control
BY DEF Schemas

\* What the statements of a version may change, and that they run unless something stands in the
\* way.
LEMMA StatementsChange ==
    ASSUME db \in Schemas, NEW v \in Schema!Versions, NEW d \in Schema!Statements(v, db)
    PROVE  /\ d \in Schemas /\ d.custom = db.custom
           /\ d.device => db.device \/ v \in {6, 12}
           /\ d.label = "user" => db.label = "user"
           /\ db.label = "user" /\ 5 \in Schema!Applied /\ db.rows[5].desc = "published" => d.label = "user"
           /\ v # 18 => d.archived = db.archived
           /\ v \notin {8, 18} => d.control = db.control
           /\ v = 8 => d.control = IF db.control = "none" THEN "legacy" ELSE db.control
<1>1. CASE v = 6
  <2>1. d = [db EXCEPT !.device = TRUE]
    BY <1>1, StatementsAre
  <2> QED
    BY <1>1, <2>1, DeviceAdded
<1>2. CASE v = 8
  <2>1. d = [db EXCEPT !.control = IF @ = "none" THEN "legacy" ELSE @]
    BY <1>2, StatementsAre
  <2> QED
    BY <1>2, <2>1 DEF Schemas
<1>3. CASE v = 12
  <2>1. d = [db EXCEPT !.device = TRUE]
    BY <1>3, StatementsAre DEF Schema!DeviceColumn
  <2> QED
    BY <1>3, <2>1, DeviceAdded
<1>4. CASE v = 13
  <2>1. d = Schema!LabelsRestored(db)
    BY <1>4, StatementsAre DEF Schema!Rebuilt
  <2>2. \/ d = db
        \/ /\ ~(5 \in Schema!Applied /\ db.rows[5].desc = "published")
           /\ d = [db EXCEPT !.label = "none"]
    BY <2>1 DEF Schema!LabelsRestored, Schema!Applied
  <2> QED
    BY <1>4, <2>2 DEF Schemas
<1>5. CASE v = 18
  <2>1. d \in Schema!ControlTables(db)
    BY <1>5, StatementsAre
  <2>2. CASE 8 \in DOMAIN db.rows
    <3>1. d = [[db EXCEPT !.control = "new"] EXCEPT !.archived = TRUE]
      BY <2>1, <2>2 DEF Schema!ControlTables
    <3>2. d \in Schemas /\ d.custom = db.custom /\ d.device = db.device /\ d.label = db.label
      BY <3>1 DEF Schemas
    <3> QED
      BY <1>5, <3>2
  <2>3. CASE 8 \notin DOMAIN db.rows
    <3>1. d = [db EXCEPT !.control = "new"]
      BY <2>1, <2>3 DEF Schema!ControlTables
    <3>2. d \in Schemas /\ d.custom = db.custom /\ d.device = db.device /\ d.label = db.label
      BY <3>1 DEF Schemas
    <3> QED
      BY <1>5, <3>2
  <2> QED
    BY <2>2, <2>3
<1>6. CASE v = 37
  <2>1. d = [db EXCEPT !.label = IF @ = "none" THEN "default" ELSE @]
    BY <1>6, StatementsAre
  <2> QED
    BY <1>6, <2>1 DEF Schemas
<1>7. CASE v \in {5, 7, 9, 30}
  <2>1. d = db
    BY <1>7, StatementsAre
  <2> QED
    BY <1>7, <2>1
<1> QED
  BY <1>1, <1>2, <1>3, <1>4, <1>5, <1>6, <1>7, VersionsAreNumbers

LEMMA StatementsFail ==
    ASSUME SchemaIInv, NEW v \in Schema!Versions \ Schema!Applied, Schema!Statements(v, db) = {}
    PROVE  (v = 13 /\ db.custom # {}) \/ (v = 6 /\ Schema!NotApplicable(6, Schema!Applied))
<1>1. Schema!Applied \subseteq Schema!Versions
  BY DEF SchemaIInv, SchemaTypes, Schemas, Tables, Schema!Applied
<1>2. CASE v = 6
  <2>1. db.device
    <3> SUFFICES ASSUME ~db.device PROVE FALSE
      OBVIOUS
    <3>1. Schema!Statements(6, db) = {[db EXCEPT !.device = TRUE]}
      BY StatementsAre
    <3> QED
      BY <1>2, <3>1
  <2>2. 6 \notin Schema!Applied /\ 12 \in Schema!Applied
    BY <1>2, <2>1 DEF SchemaIInv, RowsTell
  <2>3. Schema!Applied \cap Schema!Restored = {}
    BY <2>2, VersionsAreNumbers DEF SchemaIInv, OrderInv
  <2> QED
    BY <1>1, <1>2, <2>2, <2>3, NotApplicableMeans, VersionsAreNumbers
<1>3. CASE v = 12
  <2>1. db.device /\ 6 \notin Schema!Applied
    <3> SUFFICES ASSUME ~(db.device /\ 6 \notin Schema!Applied) PROVE FALSE
      OBVIOUS
    <3>1. Schema!DeviceColumn(db) = {[db EXCEPT !.device = TRUE]}
      BY DEF Schema!DeviceColumn, Schema!Applied
    <3>2. Schema!Statements(12, db) = Schema!DeviceColumn(db)
      BY StatementsAre
    <3> QED
      BY <1>3, <3>1, <3>2
  <2> QED
    BY <1>3, <2>1 DEF SchemaIInv, RowsTell
<1>4. CASE v = 13
  <2> SUFFICES ASSUME db.custom = {} PROVE FALSE
    BY <1>4
  <2>1. Schema!Rebuilt(db) = {db}
    BY DEF Schema!Rebuilt
  <2>2. Schema!Statements(13, db) = {Schema!LabelsRestored(e) : e \in Schema!Rebuilt(db)}
    BY StatementsAre
  <2> QED
    BY <1>4, <2>1, <2>2
<1>5. CASE v = 18
  <2>1. IF 8 \in Schema!Applied THEN ~(db.control = "legacy" /\ ~db.archived) ELSE db.control # "none"
    <3>1. Schema!ControlTables(db) = {}
      BY <1>5, StatementsAre
    <3>2. CASE 8 \in Schema!Applied
      <4> SUFFICES ASSUME db.control = "legacy", ~db.archived PROVE FALSE
        BY <3>2
      <4>1. Schema!ControlTables(db) = {[[db EXCEPT !.control = "new"] EXCEPT !.archived = TRUE]}
        BY <3>2 DEF Schema!ControlTables, Schema!Applied
      <4> QED
        BY <3>1, <4>1
    <3>3. CASE 8 \notin Schema!Applied
      BY <3>1, <3>3 DEF Schema!ControlTables, Schema!Applied
    <3> QED
      BY <3>2, <3>3
  <2>2. ~db.archived /\ db.control = IF 8 \in Schema!Applied THEN "legacy" ELSE "none"
    BY <1>5 DEF SchemaIInv, RowsTell
  <2> QED
    BY <2>1, <2>2
<1>6. CASE v \in {5, 7, 9, 30}
  BY <1>6, StatementsAre
<1>7. CASE v \in {8, 37}
  <2>1. Schema!Statements(8, db) = {[db EXCEPT !.control = IF @ = "none" THEN "legacy" ELSE @]}
    BY StatementsAre
  <2>2. Schema!Statements(37, db) = {[db EXCEPT !.label = IF @ = "none" THEN "default" ELSE @]}
    BY StatementsAre
  <2> QED
    BY <1>7, <2>1, <2>2
<1> QED
  BY <1>2, <1>3, <1>4, <1>5, <1>6, <1>7, VersionsAreNumbers

-----------------------------------------------------------------------------
(* The steps. *)

LEMMA SchemaInit == Schema!Init => SchemaIInv
<1> SUFFICES ASSUME Schema!Init PROVE SchemaIInv
  OBVIOUS
<1>1. ran = [v \in Schema!Versions |-> 0] /\ backwards = {} /\ breaks = 0
  BY DEF Schema!Init
<1>2. /\ proc \in [Migrators -> Migrations]
      /\ \A p \in Migrators : proc[p].at = "down" /\ proc[p].applied = {} /\ proc[p].todo = {}
  <2>1. (CHOOSE b \in Builds : TRUE) \in Builds
    BY BuildsExist
  <2>2. Schema!NoProc \in Migrations
    BY <2>1 DEF Schema!NoProc, Schema!Place, Migrations
  <2>3. Schema!NoProc.at = "down" /\ Schema!NoProc.applied = {} /\ Schema!NoProc.todo = {}
    BY DEF Schema!NoProc, Schema!Place
  <2>4. proc = [p \in Migrators |-> Schema!NoProc]
    BY DEF Schema!Init
  <2> QED
    BY <2>2, <2>3, <2>4
<1>3. ReadInv
  BY <1>2 DEF ReadInv, Migrating
<1>4. /\ db \in Schemas /\ RowsTell /\ OrderInv
      /\ Closed(Schema!Applied) \/ PassedBy(Schema!Applied)
  <2>1. db \in Schema!Databases
    BY DEF Schema!Init
  <2>2. CASE db = Schema!Fresh
    <3>1. Schema!Applied = {} /\ db.rows \in [{} -> Registrations] /\ db.label = "none"
          /\ db.control = "none" /\ db.device = FALSE /\ db.archived = FALSE /\ db.custom = {}
      BY <2>2 DEF Schema!Fresh, Schema!Database, Schema!Applied
    <3>2. db.rows \in Tables
      BY <3>1 DEF Tables
    <3>3. db \in Schemas
      BY <2>2, <3>1, <3>2 DEF Schemas, Schema!Fresh, Schema!Database
    <3>4. RowsTell /\ OrderInv
      BY <3>1 DEF RowsTell, OrderInv
    <3> QED
      BY <3>1, <3>3, <3>4 DEF Closed
  <2>3. ASSUME NEW registered, NEW file, db = Schema!Merged(registered, file),
               \/ registered = {5, 12, 13, 18} /\ file = "none"
               \/ registered = {5, 12, 13, 18, 30} /\ file = "a"
        PROVE  db \in Schemas /\ RowsTell /\ OrderInv /\ PassedBy(Schema!Applied)
    <3>1. /\ db.rows = [v \in registered |-> Schema!Row("file", file)]
          /\ db.label = "none" /\ db.control = "new" /\ db.device = TRUE /\ db.archived = FALSE
          /\ db.custom = {}
      BY <2>3 DEF Schema!Merged, Schema!Database
    <3>2. Schema!Row("file", file) \in Registrations /\ Schema!Row("file", file).file = file
      BY <2>3 DEF Schema!Row, Registrations
    <3>3. /\ Schema!Applied = registered /\ db.rows \in [registered -> Registrations]
          /\ \A v \in registered : db.rows[v].file = file
      BY <3>1, <3>2 DEF Schema!Applied
    <3>4. db.rows \in Tables
      BY <2>3, <3>3, VersionsAreNumbers DEF Tables
    <3>5. db \in Schemas
      BY <2>3, <3>1, <3>4 DEF Schemas, Schema!Merged, Schema!Database
    <3>6. RowsTell
      BY <2>3, <3>1, <3>3, VersionsAreNumbers DEF RowsTell
    <3>7. OrderInv /\ PassedBy(Schema!Applied)
      BY <2>3, <3>3, VersionsAreNumbers DEF OrderInv, PassedBy
    <3> QED
      BY <3>5, <3>6, <3>7
  <2>4. ASSUME NEW custom \in {{}, {"view"}, {"index"}}, db = Schema!Published(custom)
        PROVE  db \in Schemas /\ RowsTell /\ OrderInv /\ Closed(Schema!Applied)
    <3> DEFINE registered == {5, 6, 7, 8, 9}
    <3>1. /\ db.rows = [v \in registered |-> Schema!Row(IF v = 5 THEN "published" ELSE "file", "none")]
          /\ db.label = "user" /\ db.control = "legacy" /\ db.device = TRUE /\ db.archived = FALSE
          /\ db.custom = custom
      <4>1. {5} \cup Schema!Restored = registered
        BY VersionsAreNumbers
      <4> QED
        BY <2>4, <4>1 DEF Schema!Published, Schema!Database, Schema!NoFile
    <3>2. ASSUME NEW desc \in {"file", "published"}
          PROVE  /\ Schema!Row(desc, "none") \in Registrations
                 /\ Schema!Row(desc, "none").file = "none" /\ Schema!Row(desc, "none").desc = desc
      BY DEF Schema!Row, Registrations
    <3>3. /\ Schema!Applied = registered /\ db.rows \in [registered -> Registrations]
          /\ \A v \in registered : db.rows[v].file = "none"
          /\ db.rows[5].desc = "published"
      BY <3>1, <3>2 DEF Schema!Applied
    <3>4. db.rows \in Tables
      BY <3>3, VersionsAreNumbers DEF Tables
    <3>5. db \in Schemas
      BY <2>4, <3>1, <3>4 DEF Schemas, Schema!Published, Schema!Database
    <3>6. RowsTell
      BY <3>1, <3>3, VersionsAreNumbers DEF RowsTell
    <3>7. OrderInv /\ Closed(Schema!Applied)
      BY <3>3, VersionsAreNumbers DEF OrderInv, Closed
    <3> QED
      BY <3>5, <3>6, <3>7
  <2> QED
    BY <2>1, <2>2, <2>3, <2>4, VersionsAreNumbers DEF Schema!Databases, Schema!NoFile
<1>5. LineageInv
  BY <1>2, <1>4 DEF LineageInv, Closed, Migrating
<1> QED
  BY <1>1, <1>2, <1>3, <1>4, <1>5 DEF SchemaIInv, SchemaTypes, RanInv, Schema!NeverBackwards

\* A step that leaves the database alone and gives one process the record t.
LEMMA MigratorMoves ==
    ASSUME SchemaIInv, UNCHANGED <<db, ran, backwards>>, breaks' \in Nat,
           NEW p \in Migrators, NEW t \in Migrations, proc' = [proc EXCEPT ![p] = t],
           \/ t.applied = Schema!Applied
           \/ t.applied = proc[p].applied /\ (t.at \in {"check", "apply"} => Migrating(p)),
           t.todo \subseteq DOMAIN Schema!Catalogs[t.build],
           t.at \in {"check", "apply"} =>
               \A v \in DOMAIN Schema!Catalogs[t.build] \ t.todo :
                   v \in Schema!Applied \/ Schema!NotApplicable(v, t.applied),
           t.at = "open" => t.unknown = {}
    PROVE  SchemaIInv'
<1>1. Schema!Applied' = Schema!Applied
  BY DEF Schema!Applied
<1>2. SchemaTypes' /\ RowsTell' /\ RanInv' /\ OrderInv'
  BY <1>1 DEF SchemaIInv, SchemaTypes, RowsTell, RanInv, OrderInv
<1>3. Schema!NeverBackwards'
  BY DEF SchemaIInv, Schema!NeverBackwards
<1>4. ASSUME NEW q \in Migrators
      PROVE  proc'[q] = IF q = p THEN t ELSE proc[q]
  BY DEF SchemaIInv, SchemaTypes
<1>5. ReadInv'
  <2> SUFFICES ASSUME NEW q \in Migrators
               PROVE  /\ proc'[q].applied \subseteq Schema!Applied
                      /\ proc'[q].todo \subseteq DOMAIN Schema!Catalogs[proc'[q].build]
                      /\ proc'[q].at \in {"check", "apply"} =>
                            \A v \in DOMAIN Schema!Catalogs[proc'[q].build] \ proc'[q].todo :
                                v \in Schema!Applied \/ Schema!NotApplicable(v, proc'[q].applied)
                      /\ proc'[q].at = "open" => proc'[q].unknown = {}
    BY <1>1 DEF ReadInv, Migrating, Schema!Files, Schema!Catalog
  <2> QED
    BY <1>4 DEF SchemaIInv, ReadInv, Migrating, Schema!Files, Schema!Catalog
<1>6. LineageInv'
  BY <1>1, <1>4 DEF SchemaIInv, LineageInv, Migrating
<1> QED
  BY <1>2, <1>3, <1>5, <1>6 DEF SchemaIInv

LEMMA StartKeeps ==
    ASSUME SchemaIInv, NEW p \in Migrators, NEW b \in Builds, Schema!Start(p, b)
    PROVE  SchemaIInv'
<1> DEFINE t == Schema!Place("check", b, Schema!Applied, DOMAIN Schema!Catalogs[b])
<1>1. /\ proc' = [proc EXCEPT ![p] = t]
      /\ UNCHANGED <<db, ran, backwards, breaks>>
  BY DEF Schema!Start
<1>2. breaks' \in Nat /\ Schema!Applied \subseteq Schema!Versions
  BY <1>1 DEF SchemaIInv, SchemaTypes, Schemas, Tables, Schema!Applied
<1>3. DOMAIN Schema!Catalogs[b] \subseteq Schema!Versions
  BY BuildsDiffer
<1>4. /\ t \in Migrations /\ t.at = "check" /\ t.build = b /\ t.applied = Schema!Applied
      /\ t.todo = DOMAIN Schema!Catalogs[b]
  BY <1>2, <1>3 DEF Schema!Place, Migrations
<1> HIDE DEF t
<1> QED
  BY <1>1, <1>2, <1>4, MigratorMoves

\* A process that changes its place only.
LEMMA GoesKeeps ==
    ASSUME SchemaIInv, UNCHANGED <<db, ran, backwards>>, breaks' \in Nat, NEW p \in Migrators,
           NEW place \in {"down", "apply", "failed"}, Schema!Goes(p, place), Migrating(p)
    PROVE  SchemaIInv'
<1> DEFINE t == [proc[p] EXCEPT !.at = place]
<1>1. proc' = [proc EXCEPT ![p] = t]
  BY DEF Schema!Goes
<1>2. /\ t \in Migrations /\ t.at = place /\ t.build = proc[p].build
      /\ t.applied = proc[p].applied /\ t.todo = proc[p].todo
  BY DEF SchemaIInv, SchemaTypes, Migrations
<1> HIDE DEF t
<1>3. /\ t.todo \subseteq DOMAIN Schema!Catalogs[t.build]
      /\ \A v \in DOMAIN Schema!Catalogs[t.build] \ t.todo :
            v \in Schema!Applied \/ Schema!NotApplicable(v, t.applied)
  BY <1>2 DEF SchemaIInv, ReadInv, Schema!Files, Schema!Catalog
<1> QED
  BY <1>1, <1>2, <1>3, MigratorMoves

\* A process that is done with a file.
LEMMA DoneKeeps ==
    ASSUME SchemaIInv, UNCHANGED <<db, ran, backwards, breaks>>, NEW p \in Migrators, NEW v,
           Schema!Done(p, v), Migrating(p),
           v \in Schema!Applied \/ Schema!NotApplicable(v, proc[p].applied)
    PROVE  SchemaIInv'
<1> DEFINE t == [proc[p] EXCEPT !.todo = @ \ {v}]
<1>1. proc' = [proc EXCEPT ![p] = t]
  BY DEF Schema!Done
<1>2. /\ t \in Migrations /\ t.at = proc[p].at /\ t.build = proc[p].build
      /\ t.applied = proc[p].applied /\ t.todo = proc[p].todo \ {v}
  BY DEF SchemaIInv, SchemaTypes, Migrations
<1> HIDE DEF t
<1>3. /\ t.todo \subseteq DOMAIN Schema!Catalogs[t.build]
      /\ \A w \in DOMAIN Schema!Catalogs[t.build] \ t.todo :
            w \in Schema!Applied \/ Schema!NotApplicable(w, t.applied)
  BY <1>2 DEF SchemaIInv, ReadInv, Schema!Files, Schema!Catalog
<1>4. breaks' \in Nat /\ t.at # "open"
  BY <1>2 DEF SchemaIInv, SchemaTypes, Migrating
<1> QED
  BY <1>1, <1>2, <1>3, <1>4, MigratorMoves

LEMMA CheckKeeps ==
    ASSUME SchemaIInv, NEW p \in Migrators, Schema!Check(p)
    PROVE  SchemaIInv'
<1>1. /\ Migrating(p) /\ UNCHANGED <<db, ran, backwards, breaks>>
      /\ \E place \in {"down", "apply", "failed"} : Schema!Goes(p, place)
  BY DEF Schema!Check, Migrating
<1>2. breaks' \in Nat
  BY <1>1 DEF SchemaIInv, SchemaTypes
<1> QED
  BY <1>1, <1>2, GoesKeeps

LEMMA FaultsKeep ==
    ASSUME SchemaIInv, NEW p \in Migrators, Schema!Busy(p) \/ Schema!Die(p)
    PROVE  SchemaIInv'
<1>1. /\ Migrating(p) /\ UNCHANGED <<db, ran, backwards>>
      /\ \E place \in {"down", "apply", "failed"} : Schema!Goes(p, place)
  BY DEF Schema!Busy, Schema!Die, Migrating
<1>2. breaks' \in Nat
  BY DEF SchemaIInv, SchemaTypes, Schema!Busy, Schema!Die, Schema!Fault
<1> QED
  BY <1>1, <1>2, GoesKeeps

\* The last _assert_applied_catalog() has compared every registration: none that is bound to a
\* file is unknown to a process that opens the database.
LEMMA OpenKeeps ==
    ASSUME SchemaIInv, NEW p \in Migrators, Schema!Open(p)
    PROVE  SchemaIInv'
<1> DEFINE place == IF Schema!KnownAtTheEnd(p) THEN "open" ELSE "failed"
           t == [[proc[p] EXCEPT !.at = place] EXCEPT !.unknown = Schema!Unknown(p)]
<1>1. /\ proc' = [proc EXCEPT ![p] = t]
      /\ UNCHANGED <<db, ran, backwards, breaks>>
  BY DEF Schema!Open
<1>2. Schema!Unknown(p) \subseteq Schema!Versions /\ breaks' \in Nat
  BY <1>1 DEF Schema!Unknown, SchemaIInv, SchemaTypes, Schemas, Tables, Schema!Applied
<1>3. /\ t \in Migrations /\ t.at = place /\ t.build = proc[p].build
      /\ t.applied = proc[p].applied /\ t.todo = proc[p].todo /\ t.unknown = Schema!Unknown(p)
  BY <1>2 DEF SchemaIInv, SchemaTypes, Migrations
<1>4. Schema!KnownAtTheEnd(p) => Schema!Unknown(p) = {}
  <2> SUFFICES ASSUME Schema!CatalogHolds(p), NEW v \in Schema!Applied \ Schema!Files(p),
                      ~Schema!Unbound(db.rows[v])
               PROVE  FALSE
    BY DEF Schema!KnownAtTheEnd, Schema!Unknown
  <2>1. Schema!HasChecksums(db.rows)
    BY DEF SchemaIInv, RowsTell, Schema!HasChecksums, Schema!Applied, Schema!Unbound, Schema!NoFile
  <2> QED
    BY <2>1 DEF Schema!CatalogHolds, Schema!PublishedUnbound, Schema!Agrees
<1>5. t.at = "open" => t.unknown = {}
  BY <1>3, <1>4
<1>6. t.at \notin {"check", "apply"}
  BY <1>3
<1>7. t.todo \subseteq DOMAIN Schema!Catalogs[t.build]
  BY <1>3 DEF SchemaIInv, ReadInv, Schema!Files, Schema!Catalog
<1> HIDE DEF t, place
<1> QED
  BY <1>1, <1>2, <1>3, <1>5, <1>6, <1>7, MigratorMoves

\* What a process that is about to run a version knows: the versions below it that it has a file
\* for are registered, or are historical ones that do not apply.
LEMMA NextIsSound ==
    ASSUME SchemaIInv, NEW p \in Migrators, proc[p].at = "apply", proc[p].todo # {},
           NEW v, v = Schema!NextFile(p),
           v \notin proc[p].applied, ~Schema!NotApplicable(v, proc[p].applied), v \notin Schema!Applied
    PROVE  /\ v \in Schema!Files(p) /\ v \in proc[p].todo /\ v \in Schema!Versions
           /\ \A u \in Schema!Files(p) : u < v =>
                 u \in Schema!Applied \/ (u \in Schema!Restored /\ v \notin Schema!Restored)
           /\ AllHaveHistory =>
                 \/ /\ \A w \in Schema!Applied : ~(v < w)
                    /\ \A u \in Schema!Versions : u < v => u \in Schema!Applied
                 \/ PassedBy(Schema!Applied) /\ v \notin Schema!Restored
<1>1. /\ proc[p].todo \subseteq Schema!Versions /\ proc[p].applied \subseteq Schema!Versions
      /\ proc[p].build \in Builds /\ proc[p].todo \subseteq Schema!Files(p)
      /\ proc[p].applied \subseteq Schema!Applied /\ Schema!Applied \subseteq Schema!Versions
      /\ Migrating(p)
  BY DEF SchemaIInv, SchemaTypes, Migrations, ReadInv, Migrating, Schemas, Tables, Schema!Applied
<1>2. v \in proc[p].todo /\ \A u \in proc[p].todo : v <= u
  BY <1>1, FirstFile DEF Schema!NextFile
<1>3. v \in Schema!Files(p) /\ v \in Schema!Versions /\ Schema!Files(p) \subseteq Schema!Versions
  BY <1>1, <1>2, BuildsDiffer DEF Schema!Files, Schema!Catalog
<1>4. ASSUME NEW u \in Schema!Files(p), u < v
      PROVE  /\ u \in Schema!Applied \/ Schema!NotApplicable(u, proc[p].applied)
             /\ Schema!NotApplicable(u, proc[p].applied) =>
                   u \in Schema!Restored /\ v \notin Schema!Restored
  <2>1. u \notin proc[p].todo
    BY <1>2, <1>3, <1>4, VersionsAreNumbers
  <2>2. u \in Schema!Applied \/ Schema!NotApplicable(u, proc[p].applied)
    BY <1>1, <2>1 DEF SchemaIInv, ReadInv
  <2>3. Schema!NotApplicable(u, proc[p].applied) =>
            u \in Schema!Restored /\ v \notin Schema!Restored
    BY <1>1, NotApplicableMeans
  <2> QED
    BY <2>2, <2>3
<1>5. ASSUME AllHaveHistory
      PROVE  \/ /\ \A w \in Schema!Applied : ~(v < w)
                /\ \A u \in Schema!Versions : u < v => u \in Schema!Applied
             \/ PassedBy(Schema!Applied) /\ v \notin Schema!Restored
  <2>1. CASE Closed(Schema!Applied) /\ Closed(proc[p].applied)
    <3>1. \A w \in Schema!Applied : ~(v < w)
      BY <1>3, <2>1 DEF Closed
    <3>2. ASSUME NEW u \in Schema!Versions, u < v
          PROVE  u \in Schema!Applied
      <4>1. u \in Schema!Files(p)
        <5>1. Schema!Restored \subseteq Schema!Files(p)
          BY <1>1, <1>5 DEF AllHaveHistory, Schema!Files, Schema!Catalog
        <5>2. Schema!Files(p) \in {Schema!Versions, Schema!Versions \ {37}}
          BY <1>1, <5>1, BuildsDiffer, VersionsAreNumbers DEF Schema!Files, Schema!Catalog
        <5>3. u # 37
          BY <1>3, <3>2, VersionsAreNumbers
        <5> QED
          BY <5>2, <5>3
      <4>2. ~Schema!NotApplicable(u, proc[p].applied)
        <5> SUFFICES ASSUME NEW w \in proc[p].applied, w > 9,
                            proc[p].applied \cap Schema!Restored = {}
                     PROVE  FALSE
          BY <1>1, NotApplicableMeans
        <5>1. 6 \in Schema!Versions /\ 6 \in Schema!Restored /\ w \in Schema!Versions
          BY <1>1, VersionsAreNumbers
        <5>2. 6 < w
          BY <5>1, VersionsAreNumbers
        <5> QED
          BY <2>1, <5>1, <5>2 DEF Closed
      <4> QED
        BY <1>4, <3>2, <4>1, <4>2
    <3> QED
      BY <3>1, <3>2
  <2>2. CASE PassedBy(Schema!Applied) /\ PassedBy(proc[p].applied)
    BY <1>1, <2>2, NotApplicableMeans DEF PassedBy
  <2> QED
    BY <1>1, <1>5, <2>1, <2>2 DEF SchemaIInv, LineageInv
<1> QED
  BY <1>2, <1>3, <1>4, <1>5

\* _apply_one(): the statements of a version and its registration.
LEMMA RunKeeps ==
    ASSUME SchemaIInv, NEW p \in Migrators, proc[p].at = "apply", proc[p].todo # {},
           NEW v, v = Schema!NextFile(p),
           v \notin proc[p].applied, ~Schema!NotApplicable(v, proc[p].applied), v \notin Schema!Applied,
           NEW d \in Schema!Statements(v, db),
           db' = [d EXCEPT !.rows = Schema!Registered(p, v, db.rows)],
           ran' = [ran EXCEPT ![v] = @ + 1],
           backwards' = IF \E w \in Schema!Applied : w > v THEN backwards \cup {v} ELSE backwards,
           Schema!Done(p, v), UNCHANGED breaks
    PROVE  SchemaIInv'
<1> DEFINE rows == Schema!Registered(p, v, db.rows)
           t == [proc[p] EXCEPT !.todo = @ \ {v}]
<1>1. /\ v \in Schema!Files(p) /\ v \in proc[p].todo /\ v \in Schema!Versions
      /\ \A u \in Schema!Files(p) : u < v =>
            u \in Schema!Applied \/ (u \in Schema!Restored /\ v \notin Schema!Restored)
      /\ AllHaveHistory =>
            \/ /\ \A w \in Schema!Applied : ~(v < w)
               /\ \A u \in Schema!Versions : u < v => u \in Schema!Applied
            \/ PassedBy(Schema!Applied) /\ v \notin Schema!Restored
  BY NextIsSound
<1>2. /\ proc[p] \in Migrations /\ proc[p].build \in Builds /\ db \in Schemas
      /\ Schema!Applied \subseteq Schema!Versions
  BY DEF SchemaIInv, SchemaTypes, Migrations, Schemas, Tables, Schema!Applied
<1>3. /\ rows \in Tables /\ DOMAIN rows = Schema!Applied \cup {v}
      /\ rows[v].desc = "file"
      /\ \A w \in Schema!Applied : rows[w].desc = db.rows[w].desc
      /\ Schema!Checksums \notin DOMAIN rows =>
            /\ rows[v].file = "none"
            /\ \A w \in Schema!Applied : rows[w].file = db.rows[w].file
  <2>1. rows = Schema!Registered(p, v, db.rows)
    OBVIOUS
  <2> HIDE DEF rows
  <2> QED
    BY <1>1, <1>2, <2>1, RegisteredAdds
<1>4. /\ d \in Schemas /\ d.custom = db.custom
      /\ d.device => db.device \/ v \in {6, 12}
      /\ d.label = "user" => db.label = "user"
      /\ v # 18 => d.archived = db.archived
      /\ v \notin {8, 18} => d.control = db.control
      /\ v = 8 => d.control = IF db.control = "none" THEN "legacy" ELSE db.control
  BY <1>1, <1>2, StatementsChange
<1> HIDE DEF rows
<1>5. /\ db' \in Schemas /\ db'.rows = rows
      /\ db'.device = d.device /\ db'.label = d.label
      /\ db'.archived = d.archived /\ db'.control = d.control
  BY <1>3, <1>4 DEF Schemas, rows
<1>6. Schema!Applied' = Schema!Applied \cup {v}
  BY <1>3, <1>5 DEF Schema!Applied
<1>7. /\ proc' = [proc EXCEPT ![p] = t] /\ t \in Migrations /\ t.at = "apply"
      /\ t.build = proc[p].build /\ t.applied = proc[p].applied /\ t.todo = proc[p].todo \ {v}
  BY <1>2 DEF Schema!Done, Migrations
<1> HIDE DEF t
<1>8. ASSUME NEW q \in Migrators
      PROVE  proc'[q] = IF q = p THEN t ELSE proc[q]
  BY <1>7 DEF SchemaIInv, SchemaTypes
<1>9. ran' \in [Schema!Versions -> Nat] /\ breaks' \in Nat
  BY <1>1 DEF SchemaIInv, SchemaTypes
<1>10. SchemaTypes'
  <2>1. proc' \in [Migrators -> Migrations]
    BY <1>7 DEF SchemaIInv, SchemaTypes
  <2> QED
    BY <1>5, <1>9, <2>1 DEF SchemaTypes
<1>11. RowsTell'
  <2>1. Schema!Checksums \notin Schema!Applied' =>
            \A w \in Schema!Applied' : db'.rows[w].file = "none"
    BY <1>3, <1>5, <1>6 DEF SchemaIInv, RowsTell
  <2>2. db'.label = "user" => 5 \in Schema!Applied' /\ db'.rows[5].desc = "published"
    BY <1>3, <1>4, <1>5, <1>6 DEF SchemaIInv, RowsTell
  <2>3. db'.device => 6 \in Schema!Applied' \/ 12 \in Schema!Applied'
    <3> SUFFICES ASSUME d.device PROVE 6 \in Schema!Applied' \/ 12 \in Schema!Applied'
      BY <1>5
    <3>1. CASE db.device
      BY <1>6, <3>1 DEF SchemaIInv, RowsTell
    <3>2. CASE v \in {6, 12}
      BY <1>6, <3>2
    <3> QED
      BY <1>4, <3>1, <3>2
  <2>4. 18 \notin Schema!Applied' =>
            /\ ~db'.archived
            /\ db'.control = IF 8 \in Schema!Applied' THEN "legacy" ELSE "none"
    <3> SUFFICES ASSUME 18 \notin Schema!Applied'
                 PROVE  /\ ~db'.archived
                        /\ db'.control = IF 8 \in Schema!Applied' THEN "legacy" ELSE "none"
      OBVIOUS
    <3>1. v # 18 /\ 18 \notin Schema!Applied
      BY <1>6
    <3>2. ~db.archived /\ db.control = IF 8 \in Schema!Applied THEN "legacy" ELSE "none"
      BY <3>1 DEF SchemaIInv, RowsTell
    <3>3. ~db'.archived
      BY <1>4, <1>5, <3>1, <3>2
    <3>4. db'.control = IF 8 \in Schema!Applied' THEN "legacy" ELSE "none"
      BY <1>4, <1>5, <1>6, <3>1, <3>2
    <3> QED
      BY <3>3, <3>4
  <2> QED
    BY <2>1, <2>2, <2>3, <2>4 DEF RowsTell
<1>12. RanInv'
  <2> SUFFICES ASSUME NEW w \in Schema!Versions
               PROVE  ran'[w] <= 1 /\ (w \notin Schema!Applied' => ran'[w] = 0)
    BY DEF RanInv
  <2>1. ran[w] <= 1 /\ (w \notin Schema!Applied => ran[w] = 0) /\ ran[v] = 0
    BY <1>1 DEF SchemaIInv, RanInv
  <2>2. ran'[w] = IF w = v THEN ran[v] + 1 ELSE ran[w]
    BY <1>1 DEF SchemaIInv, SchemaTypes
  <2> QED
    BY <1>6, <2>1, <2>2
<1>13. OrderInv'
  <2> SUFFICES ASSUME NEW w \in Schema!Applied \cup {v},
                      NEW u \in Schema!Versions \ (Schema!Applied \cup {v}), u < w
               PROVE  u \in Schema!Restored /\ w \notin Schema!Restored
    BY <1>6 DEF OrderInv
  <2>1. CASE w \in Schema!Applied
    BY <2>1 DEF SchemaIInv, OrderInv
  <2>2. CASE w = v
    <3>1. CASE u \in Schema!Files(p)
      BY <1>1, <2>2, <3>1
    <3>2. CASE u \notin Schema!Files(p)
      <4>1. Schema!Files(p) \in
               {Schema!Versions, Schema!Versions \ {37}, Schema!Versions \ Schema!Restored}
        BY <1>2, BuildsDiffer DEF Schema!Files, Schema!Catalog
      <4>2. u # 37
        BY <1>1, <2>2, VersionsAreNumbers
      <4> QED
        BY <1>1, <2>2, <3>2, <4>1, <4>2
    <3> QED
      BY <3>1, <3>2
  <2> QED
    BY <2>1, <2>2
<1>14. ReadInv'
  <2> SUFFICES ASSUME NEW q \in Migrators
               PROVE  /\ proc'[q].applied \subseteq Schema!Applied \cup {v}
                      /\ proc'[q].todo \subseteq DOMAIN Schema!Catalogs[proc'[q].build]
                      /\ proc'[q].at \in {"check", "apply"} =>
                            \A u \in DOMAIN Schema!Catalogs[proc'[q].build] \ proc'[q].todo :
                                \/ u \in Schema!Applied \cup {v}
                                \/ Schema!NotApplicable(u, proc'[q].applied)
                      /\ proc'[q].at = "open" => proc'[q].unknown = {}
    BY <1>6 DEF ReadInv, Migrating, Schema!Files, Schema!Catalog
  <2>1. /\ proc[q].applied \subseteq Schema!Applied
        /\ proc[q].todo \subseteq DOMAIN Schema!Catalogs[proc[q].build]
        /\ proc[q].at \in {"check", "apply"} =>
              \A u \in DOMAIN Schema!Catalogs[proc[q].build] \ proc[q].todo :
                  u \in Schema!Applied \/ Schema!NotApplicable(u, proc[q].applied)
        /\ proc[q].at = "open" => proc[q].unknown = {}
    BY DEF SchemaIInv, ReadInv, Migrating, Schema!Files, Schema!Catalog
  <2>2. CASE q = p
    BY <1>7, <1>8, <2>1, <2>2
  <2>3. CASE q # p
    BY <1>8, <2>1, <2>3
  <2> QED
    BY <2>2, <2>3
<1>15. LineageInv'
  <2> SUFFICES ASSUME AllHaveHistory
               PROVE  \/ /\ Closed(Schema!Applied \cup {v})
                         /\ \A q \in Migrators : Closed(proc'[q].applied)
                      \/ /\ PassedBy(Schema!Applied \cup {v})
                         /\ \A q \in Migrators :
                               proc'[q].at \in {"check", "apply"} => PassedBy(proc'[q].applied)
    BY <1>6 DEF LineageInv, AllHaveHistory, Migrating
  <2>1. \A q \in Migrators : proc'[q].applied = proc[q].applied /\ proc'[q].at = proc[q].at
    BY <1>7, <1>8
  <2>2. CASE Closed(Schema!Applied) /\ \A q \in Migrators : Closed(proc[q].applied)
    <3>1. ~PassedBy(Schema!Applied)
      BY <2>2, VersionsAreNumbers DEF Closed, PassedBy
    <3>2. \A u \in Schema!Versions : u < v => u \in Schema!Applied
      BY <1>1, <3>1
    <3>3. Closed(Schema!Applied \cup {v})
      BY <2>2, <3>2 DEF Closed
    <3> QED
      BY <2>1, <2>2, <3>3
  <2>3. CASE /\ PassedBy(Schema!Applied)
             /\ \A q \in Migrators : Migrating(q) => PassedBy(proc[q].applied)
    <3>1. v \notin Schema!Restored
      <4>1. 6 \in Schema!Restored /\ 6 \in Schema!Versions /\ 6 < 12 /\ 12 \in Schema!Versions
        BY VersionsAreNumbers
      <4>2. 6 \notin Schema!Applied /\ 12 \in Schema!Applied
        BY <2>3, <4>1 DEF PassedBy
      <4>3. CASE v < 12
        BY <1>1, <4>2, <4>3
      <4>4. CASE ~(v < 12)
        BY <1>1, <4>4, VersionsAreNumbers
      <4> QED
        BY <4>3, <4>4
    <3>2. PassedBy(Schema!Applied \cup {v})
      BY <2>3, <3>1 DEF PassedBy
    <3> QED
      BY <2>1, <2>3, <3>2 DEF Migrating
  <2> QED
    BY <2>2, <2>3 DEF SchemaIInv, LineageInv
<1>16. Schema!NeverBackwards'
  <2>1. CASE ~(\E w \in Schema!Applied : w > v)
    BY <2>1 DEF SchemaIInv, Schema!NeverBackwards
  <2>2. CASE \E w \in Schema!Applied : w > v
    <3>1. PICK w \in Schema!Applied : v < w
      BY <1>1, <1>2, <2>2, VersionsAreNumbers
    <3>2. v \in Schema!Restored
      BY <1>1, <3>1 DEF SchemaIInv, OrderInv
    <3>3. ~AllHaveHistory
      BY <1>1, <3>1, <3>2
    <3>4. PICK b \in Builds : ~(Schema!Restored \subseteq DOMAIN Schema!Catalogs[b])
      BY <3>3 DEF AllHaveHistory
    <3>5. Schema!Restored \cap DOMAIN Schema!Catalogs[b] = {}
      BY <3>4, BuildsDiffer, VersionsAreNumbers
    <3> QED
      BY <2>2, <3>2, <3>5 DEF SchemaIInv, Schema!NeverBackwards
  <2> QED
    BY <2>1, <2>2
<1> QED
  BY <1>10, <1>11, <1>12, <1>13, <1>14, <1>15, <1>16 DEF SchemaIInv

LEMMA ApplyKeeps ==
    ASSUME SchemaIInv, NEW p \in Migrators, Schema!Apply(p)
    PROVE  SchemaIInv'
<1> DEFINE v == Schema!NextFile(p)
<1>1. /\ proc[p].at = "apply" /\ proc[p].todo # {} /\ Migrating(p) /\ UNCHANGED breaks
      /\ \/ Schema!Skip(p, v)
         \/ /\ v \notin proc[p].applied /\ ~Schema!NotApplicable(v, proc[p].applied)
            /\ Schema!Confirm(p, v) \/ Schema!Run(p, v)
  BY DEF Schema!Apply, Migrating
<1> HIDE DEF v
<1>2. breaks' \in Nat
  BY <1>1 DEF SchemaIInv, SchemaTypes
<1>3. CASE Schema!Skip(p, v)
  <2>1. v \in Schema!Applied \/ Schema!NotApplicable(v, proc[p].applied)
    BY <1>3 DEF Schema!Skip, SchemaIInv, ReadInv
  <2> QED
    BY <1>1, <1>3, <2>1, DoneKeeps DEF Schema!Skip
<1>4. CASE Schema!Confirm(p, v)
  <2>1. /\ v \in Schema!Applied /\ UNCHANGED <<db, ran, backwards>>
        /\ Schema!Goes(p, "failed") \/ Schema!Done(p, v)
    BY <1>4 DEF Schema!Confirm, Schema!AlreadyThere
  <2> QED
    BY <1>1, <1>2, <2>1, GoesKeeps, DoneKeeps
<1>5. ASSUME v \notin proc[p].applied, ~Schema!NotApplicable(v, proc[p].applied), Schema!Run(p, v)
      PROVE  SchemaIInv'
  <2>1. v \notin Schema!Applied
    BY <1>5 DEF Schema!Run, Schema!AlreadyThere
  <2>2. CASE Schema!Goes(p, "failed") /\ UNCHANGED <<db, ran, backwards>>
    BY <1>1, <1>2, <2>2, GoesKeeps
  <2>3. ASSUME NEW d \in Schema!Statements(v, db),
               db' = [d EXCEPT !.rows = Schema!Registered(p, v, db.rows)],
               ran' = [ran EXCEPT ![v] = @ + 1],
               backwards' = IF \E w \in Schema!Applied : w > v THEN backwards \cup {v} ELSE backwards,
               Schema!Done(p, v)
        PROVE  SchemaIInv'
    BY <1>1, <1>5, <2>1, <2>3, RunKeeps DEF v
  <2> QED
    BY <1>5, <2>2, <2>3 DEF Schema!Run
<1> QED
  BY <1>1, <1>3, <1>4, <1>5

-----------------------------------------------------------------------------
(* The theorems. *)

\* Whatever processes of whatever builds do at one database, and whenever they die: the rows tell
\* the schema, only historical versions are ever missing below a registered one, and what a
\* process has read is a part of what is registered.
THEOREM SchemaInvariant == Schema!Spec => []SchemaIInv
<1>1. SchemaIInv /\ [Schema!Next]_Schema!vars => SchemaIInv'
  <2> SUFFICES ASSUME SchemaIInv, [Schema!Next]_Schema!vars
               PROVE  SchemaIInv'
    OBVIOUS
  <2>1. ASSUME NEW p \in Migrators, Schema!Check(p) PROVE SchemaIInv'
    BY <2>1, CheckKeeps
  <2>2. ASSUME NEW p \in Migrators, Schema!Apply(p) PROVE SchemaIInv'
    BY <2>2, ApplyKeeps
  <2>3. ASSUME NEW p \in Migrators, Schema!Open(p) PROVE SchemaIInv'
    BY <2>3, OpenKeeps
  <2>4. ASSUME NEW p \in Migrators, Schema!Busy(p) \/ Schema!Die(p) PROVE SchemaIInv'
    BY <2>4, FaultsKeep
  <2>5. ASSUME NEW p \in Migrators, NEW b \in Builds, Schema!Start(p, b) PROVE SchemaIInv'
    BY <2>5, StartKeeps
  <2>6. CASE UNCHANGED Schema!vars
    <3>1. Schema!Applied' = Schema!Applied
      BY <2>6 DEF Schema!vars, Schema!Applied
    <3>2. SchemaTypes' /\ RowsTell' /\ RanInv' /\ OrderInv' /\ Schema!NeverBackwards'
      BY <2>6, <3>1 DEF Schema!vars, SchemaIInv, SchemaTypes, RowsTell, RanInv, OrderInv,
                        Schema!NeverBackwards
    <3>3. ReadInv' /\ LineageInv'
      BY <2>6, <3>1 DEF Schema!vars, SchemaIInv, ReadInv, LineageInv, Migrating, Schema!Files,
                        Schema!Catalog
    <3> QED
      BY <3>2, <3>3 DEF SchemaIInv
  <2> QED
    BY <2>1, <2>2, <2>3, <2>4, <2>5, <2>6 DEF Schema!Next, Schema!Migrates
<1> QED
  BY <1>1, SchemaInit, PTL DEF Schema!Spec

\* No step takes away the names a user gave, or an object that no migration knows.
LEMMA KeepsUserData ==
    ASSUME SchemaIInv, [Schema!Next]_Schema!vars
    PROVE  Schema!UserDataStays
<1>1. CASE db' = db
  BY <1>1 DEF Schema!UserDataStays
<1>2. CASE db' # db
  <2>1. PICK p \in Migrators : Schema!Apply(p)
    <3>1. ASSUME NEW p \in Migrators PROVE ~Schema!Check(p) /\ ~Schema!Open(p)
      BY <1>2 DEF Schema!Check, Schema!Open
    <3>2. ASSUME NEW p \in Migrators PROVE ~Schema!Busy(p) /\ ~Schema!Die(p)
      BY <1>2 DEF Schema!Busy, Schema!Die
    <3>3. ASSUME NEW p \in Migrators, NEW b \in Builds PROVE ~Schema!Start(p, b)
      BY <1>2 DEF Schema!Start
    <3>4. ~(UNCHANGED Schema!vars)
      BY <1>2 DEF Schema!vars
    <3> QED
      BY <3>1, <3>2, <3>3, <3>4 DEF Schema!Next, Schema!Migrates
  <2> DEFINE v == Schema!NextFile(p)
  <2>2. /\ v \notin proc[p].applied /\ ~Schema!NotApplicable(v, proc[p].applied)
        /\ Schema!Run(p, v) /\ proc[p].at = "apply" /\ proc[p].todo # {}
    BY <1>2, <2>1 DEF Schema!Apply, Schema!Skip, Schema!Confirm
  <2>3. v \notin Schema!Applied
    BY <2>2 DEF Schema!Run, Schema!AlreadyThere
  <2>4. v \in Schema!Versions
    BY <2>2, <2>3, NextIsSound
  <2>5. PICK d \in Schema!Statements(v, db) : db' = [d EXCEPT !.rows = Schema!Registered(p, v, db.rows)]
    BY <1>2, <2>2 DEF Schema!Run
  <2> HIDE DEF v
  <2>6. /\ d \in Schemas /\ d.custom = db.custom
        /\ db.label = "user" /\ 5 \in Schema!Applied /\ db.rows[5].desc = "published" => d.label = "user"
    BY <2>4, StatementsChange DEF SchemaIInv, SchemaTypes
  <2>7. db'.custom = d.custom /\ db'.label = d.label
    BY <2>5, <2>6 DEF Schemas
  <2> QED
    BY <2>6, <2>7 DEF Schema!UserDataStays, SchemaIInv, RowsTell
<1> QED
  BY <1>1, <1>2

\* The published version 5 was there before anybody read the versions, so nobody confirms it.
PublishedInv ==
    5 \in Schema!Applied /\ db.rows[5].desc = "published" =>
        \A p \in Migrators : Migrating(p) => 5 \in proc[p].applied

LEMMA PublishedIsOld ==
    ASSUME SchemaIInv, NEW q \in Migrators, Schema!Apply(q),
           5 \in Schema!Applied', db'.rows[5].desc = "published"
    PROVE  5 \in Schema!Applied /\ db.rows[5].desc = "published"
<1>1. CASE db' = db
  BY <1>1 DEF Schema!Applied
<1>2. CASE db' # db
  <2> DEFINE v == Schema!NextFile(q)
  <2>1. /\ v \notin proc[q].applied /\ ~Schema!NotApplicable(v, proc[q].applied)
        /\ Schema!Run(q, v) /\ proc[q].at = "apply" /\ proc[q].todo # {}
    BY <1>2 DEF Schema!Apply, Schema!Skip, Schema!Confirm
  <2>2. v \notin Schema!Applied
    BY <2>1 DEF Schema!Run, Schema!AlreadyThere
  <2>3. v \in Schema!Files(q) /\ v \in Schema!Versions
    BY <2>1, <2>2, NextIsSound
  <2>4. PICK d \in Schema!Statements(v, db) : db' = [d EXCEPT !.rows = Schema!Registered(q, v, db.rows)]
    BY <1>2, <2>1 DEF Schema!Run
  <2> HIDE DEF v
  <2> DEFINE rows == Schema!Registered(q, v, db.rows)
  <2>5. proc[q].build \in Builds /\ db \in Schemas
    BY DEF SchemaIInv, SchemaTypes, Migrations
  <2>6. /\ rows \in Tables /\ DOMAIN rows = Schema!Applied \cup {v}
        /\ rows[v].desc = "file"
        /\ \A w \in Schema!Applied : rows[w].desc = db.rows[w].desc
    <3>1. rows = Schema!Registered(q, v, db.rows)
      OBVIOUS
    <3> HIDE DEF rows
    <3> QED
      BY <2>2, <2>3, <2>5, <3>1, RegisteredAdds
  <2>7. d \in Schemas
    BY <2>3, <2>5, StatementsChange
  <2> HIDE DEF rows
  <2>8. db'.rows = rows
    BY <2>4, <2>7 DEF Schemas, rows
  <2> QED
    BY <2>6, <2>8 DEF Schema!Applied
<1> QED
  BY <1>1, <1>2

LEMMA PublishedKept ==
    ASSUME SchemaIInv, PublishedInv, [Schema!Next]_Schema!vars
    PROVE  PublishedInv'
<1>1. proc \in [Migrators -> Migrations]
  BY DEF SchemaIInv, SchemaTypes
<1>2. ASSUME NEW q \in Migrators, NEW t, proc' = [proc EXCEPT ![q] = t],
             \/ t.applied = Schema!Applied
             \/ t.applied = proc[q].applied /\ (t.at \in {"check", "apply"} => Migrating(q)),
             5 \in Schema!Applied' /\ db'.rows[5].desc = "published" =>
                 5 \in Schema!Applied /\ db.rows[5].desc = "published"
      PROVE  PublishedInv'
  <2> SUFFICES ASSUME 5 \in Schema!Applied', db'.rows[5].desc = "published", NEW p \in Migrators,
                      Migrating(p)'
               PROVE  5 \in proc'[p].applied
    BY DEF PublishedInv
  <2>1. 5 \in Schema!Applied /\ (Migrating(p) => 5 \in proc[p].applied)
    BY <1>2 DEF PublishedInv
  <2>2. CASE p = q
    <3>1. proc'[p] = t
      BY <1>1, <1>2, <2>2
    <3> QED
      BY <1>2, <2>1, <2>2, <3>1 DEF Migrating
  <2>3. CASE p # q
    <3>1. proc'[p] = proc[p]
      BY <1>1, <1>2, <2>3
    <3> QED
      BY <2>1, <3>1 DEF Migrating
  <2> QED
    BY <2>2, <2>3
<1>3. ASSUME NEW q \in Migrators, NEW place, Schema!Goes(q, place),
             place \in {"check", "apply"} => Migrating(q),
             5 \in Schema!Applied' /\ db'.rows[5].desc = "published" =>
                 5 \in Schema!Applied /\ db.rows[5].desc = "published"
      PROVE  PublishedInv'
  <2> DEFINE t == [proc[q] EXCEPT !.at = place]
  <2>1. proc' = [proc EXCEPT ![q] = t] /\ t.applied = proc[q].applied /\ t.at = place
    BY <1>1, <1>3 DEF Schema!Goes, Migrations
  <2> HIDE DEF t
  <2> QED
    BY <1>2, <1>3, <2>1
<1>4. ASSUME db' = db
      PROVE  5 \in Schema!Applied' /\ db'.rows[5].desc = "published" =>
                 5 \in Schema!Applied /\ db.rows[5].desc = "published"
  BY <1>4 DEF Schema!Applied
<1>5. ASSUME NEW q \in Migrators, Schema!Check(q) \/ Schema!Busy(q) \/ Schema!Die(q)
      PROVE  PublishedInv'
  <2>1. db' = db /\ Migrating(q) /\ \E place : Schema!Goes(q, place)
    BY <1>5 DEF Schema!Check, Schema!Busy, Schema!Die, Migrating
  <2> QED
    BY <1>3, <1>4, <2>1
<1>6. ASSUME NEW q \in Migrators, Schema!Open(q) PROVE PublishedInv'
  <2> DEFINE place == IF Schema!KnownAtTheEnd(q) THEN "open" ELSE "failed"
             t == [[proc[q] EXCEPT !.at = place] EXCEPT !.unknown = Schema!Unknown(q)]
  <2>1. /\ proc' = [proc EXCEPT ![q] = t] /\ db' = db
        /\ t.applied = proc[q].applied /\ t.at \notin {"check", "apply"}
    BY <1>1, <1>6 DEF Schema!Open, Migrations
  <2> HIDE DEF t
  <2> QED
    BY <1>2, <1>4, <2>1
<1>7. ASSUME NEW q \in Migrators, NEW b \in Builds, Schema!Start(q, b) PROVE PublishedInv'
  <2> DEFINE t == Schema!Place("check", b, Schema!Applied, DOMAIN Schema!Catalogs[b])
  <2>1. proc' = [proc EXCEPT ![q] = t] /\ t.applied = Schema!Applied /\ db' = db
    BY <1>7 DEF Schema!Start, Schema!Place
  <2> HIDE DEF t
  <2> QED
    BY <1>2, <1>4, <2>1
<1>8. ASSUME NEW q \in Migrators, Schema!Apply(q) PROVE PublishedInv'
  <2> DEFINE v == Schema!NextFile(q)
  <2>1. 5 \in Schema!Applied' /\ db'.rows[5].desc = "published" =>
            5 \in Schema!Applied /\ db.rows[5].desc = "published"
    BY <1>8, PublishedIsOld
  <2>2. Migrating(q) /\ (Schema!Done(q, v) \/ Schema!Goes(q, "failed"))
    BY <1>8 DEF Schema!Apply, Schema!Skip, Schema!Confirm, Schema!Run, Migrating
  <2> HIDE DEF v
  <2>3. CASE Schema!Done(q, v)
    <3> DEFINE t == [proc[q] EXCEPT !.todo = @ \ {v}]
    <3>1. proc' = [proc EXCEPT ![q] = t] /\ t.applied = proc[q].applied
      BY <1>1, <2>3 DEF Schema!Done, Migrations
    <3> HIDE DEF t
    <3> QED
      BY <1>2, <2>1, <2>2, <3>1
  <2>4. CASE Schema!Goes(q, "failed")
    BY <1>3, <2>1, <2>4
  <2> QED
    BY <2>2, <2>3, <2>4
<1>9. CASE UNCHANGED Schema!vars
  BY <1>9 DEF Schema!vars, PublishedInv, Migrating, Schema!Applied
<1> QED
  BY <1>5, <1>6, <1>7, <1>8, <1>9 DEF Schema!Next, Schema!Migrates

LEMMA PublishedInvariance == Schema!Spec => []PublishedInv
<1>1. Schema!Init => PublishedInv
  <2> SUFFICES ASSUME Schema!Init, NEW p \in Migrators PROVE ~Migrating(p)
    BY DEF PublishedInv
  <2>1. proc[p] = Schema!NoProc
    BY DEF Schema!Init
  <2> QED
    BY <2>1 DEF Schema!NoProc, Schema!Place, Migrating
<1> QED
  BY <1>1, PublishedKept, SchemaInvariant, PTL DEF Schema!Spec

\* A registration that stands in the way of the process is one that its build does not share.
LEMMA Unshared ==
    ASSUME SchemaIInv, NEW p \in Migrators
    PROVE  /\ ~Schema!CatalogHolds(p) => Schema!Disowned(p)
           /\ ~Schema!Bindable(p, db.rows) => Schema!Disowned(p)
           /\ Schema!Newer(p) # {} => Schema!Disowned(p)
<1>1. ~Schema!CatalogHolds(p) => Schema!Disowned(p)
  BY DEF Schema!CatalogHolds, Schema!Disowned, Schema!Agrees, Schema!Unbound
<1>2. ~Schema!Bindable(p, db.rows) => Schema!Disowned(p)
  BY DEF Schema!Bindable, Schema!Disowned, Schema!PublishedUnbound, Schema!Applied
<1>3. Schema!Newer(p) # {} => Schema!Disowned(p)
  BY DEF Schema!Newer, Schema!Disowned, SchemaIInv, ReadInv
<1> QED
  BY <1>1, <1>2, <1>3

\* A process that fails has a cause in the database, in its build, or in a fault.
LEMMA FailsForCause ==
    ASSUME SchemaIInv, PublishedInv, [Schema!Next]_Schema!vars
    PROVE  Schema!FailureHasACause
<1> SUFFICES ASSUME NEW p \in Migrators, proc[p].at # "failed", proc'[p].at = "failed"
             PROVE  \/ breaks' # breaks \/ Schema!Disowned(p)
                    \/ Schema!Faces(p, 13) /\ db.custom # {}
                    \/ proc[p].at = "check" /\ Schema!PartlyRestored(proc[p].applied)
                    \/ /\ Schema!Faces(p, 6) /\ Schema!NotApplicable(6, Schema!Applied)
                       /\ ~Schema!NotApplicable(6, proc[p].applied)
  BY DEF Schema!FailureHasACause
<1> DEFINE cause == \/ breaks' # breaks \/ Schema!Disowned(p)
                    \/ Schema!Faces(p, 13) /\ db.custom # {}
                    \/ proc[p].at = "check" /\ Schema!PartlyRestored(proc[p].applied)
                    \/ /\ Schema!Faces(p, 6) /\ Schema!NotApplicable(6, Schema!Applied)
                       /\ ~Schema!NotApplicable(6, proc[p].applied)
<1>1. proc \in [Migrators -> Migrations] /\ proc[p].applied \subseteq Schema!Applied /\ breaks \in Nat
  BY DEF SchemaIInv, SchemaTypes, ReadInv
<1>2. ASSUME NEW q \in Migrators, proc' = [proc EXCEPT ![q] = proc'[q]]
      PROVE  q = p
  BY <1>1, <1>2
<1>3. ~Schema!CatalogHolds(p) => cause
  BY Unshared
<1>4. ASSUME NEW q \in Migrators, Schema!Check(q) PROVE cause
  <2>1. q = p
    BY <1>1, <1>4 DEF Schema!Check, Schema!Goes
  <2>2. \/ Schema!Newer(p) # {} \/ Schema!PartlyRestored(proc[p].applied) \/ ~Schema!CatalogHolds(p)
    BY <1>1, <1>4, <2>1 DEF Schema!Check, Schema!Goes, Migrations
  <2> QED
    BY <1>3, <1>4, <2>1, <2>2, Unshared DEF Schema!Check
<1>5. ASSUME NEW q \in Migrators, Schema!Open(q) PROVE cause
  <2> DEFINE place == IF Schema!KnownAtTheEnd(q) THEN "open" ELSE "failed"
             t == [[proc[q] EXCEPT !.at = place] EXCEPT !.unknown = Schema!Unknown(q)]
  <2>1. proc' = [proc EXCEPT ![q] = t]
    BY <1>5 DEF Schema!Open
  <2>2. t.at = place
    BY <1>1 DEF Migrations
  <2> HIDE DEF t
  <2>3. q = p /\ place = "failed"
    BY <1>1, <2>1, <2>2
  <2>4. ~Schema!CatalogHolds(p)
    BY <2>3 DEF Schema!KnownAtTheEnd
  <2> QED
    BY <1>3, <2>4
<1>6. ASSUME NEW q \in Migrators, Schema!Busy(q) \/ Schema!Die(q) PROVE cause
  <2>1. breaks' = breaks + 1
    BY <1>6 DEF Schema!Busy, Schema!Die, Schema!Fault
  <2> QED
    BY <1>1, <2>1
<1>7. ASSUME NEW q \in Migrators, NEW b \in Builds, Schema!Start(q, b) PROVE cause
  <2> DEFINE t == Schema!Place("check", b, Schema!Applied, DOMAIN Schema!Catalogs[b])
  <2>1. proc' = [proc EXCEPT ![q] = t] /\ t.at = "check"
    BY <1>7 DEF Schema!Start, Schema!Place
  <2> HIDE DEF t
  <2> QED
    BY <1>1, <2>1
<1>8. ASSUME NEW q \in Migrators, Schema!Apply(q) PROVE cause
  <2> DEFINE v == Schema!NextFile(q)
  <2>1. /\ proc[q].at = "apply" /\ proc[q].todo # {}
        /\ \/ Schema!Skip(q, v)
           \/ /\ v \notin proc[q].applied /\ ~Schema!NotApplicable(v, proc[q].applied)
              /\ Schema!Confirm(q, v) \/ Schema!Run(q, v)
    BY <1>8 DEF Schema!Apply
  <2> HIDE DEF v
  <2>2. ~Schema!Done(q, v)
    <3> SUFFICES ASSUME Schema!Done(q, v) PROVE FALSE
      OBVIOUS
    <3> DEFINE t == [proc[q] EXCEPT !.todo = @ \ {v}]
    <3>1. proc' = [proc EXCEPT ![q] = t]
      BY DEF Schema!Done
    <3>2. t.at = proc[q].at
      BY <1>1 DEF Migrations
    <3> HIDE DEF t
    <3> QED
      BY <1>1, <3>1, <3>2
  <2>3. Schema!Goes(q, "failed")
    BY <2>1, <2>2 DEF Schema!Skip, Schema!Confirm, Schema!Run
  <2>4. q = p
    BY <1>1, <2>3 DEF Schema!Goes
  <2>5. CASE Schema!Confirm(q, v)
    <3>1. v \in Schema!Applied /\ Schema!HasChecksums(db.rows) /\ db.rows[v].file # Schema!Catalog(p)[v]
      BY <2>2, <2>4, <2>5 DEF Schema!Confirm
    <3>2. v \in Schema!Files(p)
      <4>1. v \in proc[p].todo
        BY <1>1, <2>1, <2>4, FirstFile DEF v, Schema!NextFile, Migrations
      <4> QED
        BY <4>1 DEF SchemaIInv, ReadInv
    <3>3. v \notin proc[p].applied /\ Migrating(p)
      BY <2>1, <2>2, <2>4 DEF Schema!Skip, Migrating
    <3>4. ~Schema!PublishedUnbound(v, db.rows[v])
      BY <3>1, <3>3 DEF PublishedInv, Schema!PublishedUnbound
    <3> QED
      BY <3>1, <3>2, <3>4 DEF Schema!Disowned
  <2>6. CASE /\ v \notin proc[q].applied /\ ~Schema!NotApplicable(v, proc[q].applied)
             /\ Schema!Run(q, v)
    <3>1. v \notin Schema!Applied
      BY <2>6 DEF Schema!Run, Schema!AlreadyThere
    <3>2. v \in Schema!Versions
      BY <2>1, <2>6, <3>1, NextIsSound DEF v
    <3>3. Schema!Statements(v, db) = {} \/ ~Schema!Bindable(p, db.rows)
      BY <2>2, <2>4, <2>6 DEF Schema!Run
    <3>4. CASE Schema!Statements(v, db) = {}
      <4>1. (v = 13 /\ db.custom # {}) \/ (v = 6 /\ Schema!NotApplicable(6, Schema!Applied))
        BY <3>1, <3>2, <3>4, StatementsFail
      <4>2. Schema!Faces(p, v)
        BY <2>1, <2>4 DEF v, Schema!Faces
      <4> QED
        BY <2>4, <2>6, <4>1, <4>2
    <3>5. CASE ~Schema!Bindable(p, db.rows)
      BY <3>5, Unshared
    <3> QED
      BY <3>3, <3>4, <3>5
  <2> QED
    BY <2>1, <2>2, <2>5, <2>6 DEF Schema!Skip
<1>9. ~(UNCHANGED Schema!vars)
  BY DEF Schema!vars
<1> QED
  BY <1>4, <1>5, <1>6, <1>7, <1>8, <1>9 DEF Schema!Next, Schema!Migrates

\* run_migrations(), as the run checks it: every version once and in order, a database opened only
\* when all of it is known, nothing of the user lost, and no failure without a cause.
THEOREM MigrationIsSafeHolds == Schema!Spec => MigrationIsSafe
<1>1. SchemaIInv => Schema!RunsOnce /\ Schema!NeverBackwards /\ Schema!OpensOnlyKnown
  BY DEF SchemaIInv, RanInv, ReadInv, Schema!RunsOnce, Schema!OpensOnlyKnown
<1>2. SchemaIInv /\ PublishedInv /\ [Schema!Next]_Schema!vars =>
          Schema!UserDataStays /\ Schema!FailureHasACause
  BY KeepsUserData, FailsForCause
<1>3. Schema!vars = schemaVars
  BY DEF Schema!vars, schemaVars
<1>4. SchemaIInv /\ PublishedInv /\ [Schema!Next]_Schema!vars =>
          [Schema!UserDataStays /\ Schema!FailureHasACause]_schemaVars
  BY <1>2
<1> QED
  BY <1>1, <1>4, SchemaInvariant, PublishedInvariance, PTL DEF Schema!Spec, MigrationIsSafe

=============================================================================
