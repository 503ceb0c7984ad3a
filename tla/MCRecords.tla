----------------------------- MODULE MCRecords -----------------------------
(***************************************************************************)
(* The records that several processes write at the same time, in one run:  *)
(* the rows of workflow_runs, the versions of the schema, and the logs of  *)
(* the sessions and of the changes.  A behaviour is one part; the          *)
(* variables of the other parts keep their initial values.                 *)
(***************************************************************************)
EXTENDS WorkflowRuns, DurableLogs, TLC

CONSTANTS r1, r2, r3,  \* runs
          c1, c2,      \* interchangeable: callers, processes, workers, sockets
          k1, a1,      \* an idempotency and an active key, identities
          other        \* a worker of another identity

VARIABLES
    part,
    rows, tries, calls

raceVars == <<rows, tries, calls>>
pointVars == <<session, events, stored, work, acked, late, over, losses>>
sockVars == <<log, unsaid, event, sock, revoked, taken, drops>>
allVars == <<part, vars, raceVars, schemaVars, pointVars, sockVars>>

\* Three runs and one caller are the constants of the run; here two callers race for two runs.
Races == INSTANCE WorkflowRuns WITH
    RunIds <- {r1, r2}, Callers <- {c1, c2}, runs <- rows, retried <- tries, call <- calls
\* A worker, its successor and a stranger.
SharedByTwo == [w \in Workers |-> IF w = other THEN a1 ELSE k1]

Parts == {"runs", "races", "migrations", "checkpoints", "sockets"}

\* The variables of the second instance in the other parts.
NoRaces == rows = None /\ tries = None /\ calls = None

SuiteInit ==
    /\ part \in Parts
    /\ Init /\ Session!Init /\ Waiters!Init
    /\ IF part = "races" THEN Races!Init ELSE NoRaces
    /\ Schema!Init /\ (part # "migrations" => db = Schema!Fresh)

SuiteNext ==
    \/ part = "runs" /\ Next /\ UNCHANGED <<part, raceVars, schemaVars, pointVars, sockVars>>
    \/ part = "races" /\ Races!Next /\ UNCHANGED <<part, vars, schemaVars, pointVars, sockVars>>
    \/ part = "migrations" /\ Schema!Next /\ UNCHANGED <<part, vars, raceVars, pointVars, sockVars>>
    \/ part = "checkpoints" /\ Session!Next /\ UNCHANGED <<part, vars, raceVars, schemaVars, sockVars>>
    \/ part = "sockets" /\ Waiters!Next /\ UNCHANGED <<part, vars, raceVars, schemaVars, pointVars>>

SuiteSpec == SuiteInit /\ [][SuiteNext]_allVars

\* Within a part the values c1 and c2 mean the same kind of thing, and so do the runs r1 and r2; no
\* part tells them apart.
Symmetry == Permutations({c1, c2}) \cup Permutations({r1, r2})

-----------------------------------------------------------------------------
(* Properties. *)

\* Every part keeps its types.
SuiteTypeOK ==
    CASE part = "runs" -> TypeOK
      [] part = "races" -> Races!TypeOK
      [] part = "migrations" -> Schema!TypeOK
      [] part = "checkpoints" -> Session!TypeOK
      [] part = "sockets" -> Waiters!TypeOK

\* However two callers of create_run(), atomic creates, retries and state changes interleave, keys
\* stay unique and lineages chains, and a caller gets the run of its key, or an error only if that
\* run finished in between (WorkflowRuns).
CallersAgree == part = "races" => Races!RowsAreSound /\ Races!AnswersAreSound

=============================================================================
