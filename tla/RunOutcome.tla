----------------------------- MODULE RunOutcome -----------------------------
(***************************************************************************)
(* What a workflow run promises to everybody else: a run is queued, may    *)
(* begin, may be asked to stop, applies its domain step at most once and   *)
(* only after it began, and settles once, for good.  There are no          *)
(* processes, leases, clocks or faults here.                               *)
(***************************************************************************)
EXTENDS Naturals

CONSTANT Runs

Outcomes == {"succeeded", "failed", "timeout", "cancelled", "cancel_failed"}

VARIABLES
    phase,    \* "queued", "executing", "stopping" or one of Outcomes
    begun,    \* has execution ever begun
    applied   \* how often the domain step took effect

absVars == <<phase, begun, applied>>

AbsInit ==
    /\ phase = [r \in Runs |-> "queued"]
    /\ begun = [r \in Runs |-> FALSE]
    /\ applied = [r \in Runs |-> 0]

Commence(r) ==
    /\ phase[r] = "queued"
    /\ phase' = [phase EXCEPT ![r] = "executing"]
    /\ begun' = [begun EXCEPT ![r] = TRUE]
    /\ UNCHANGED applied

AskToStop(r) ==
    /\ phase[r] \in {"queued", "executing"}
    /\ phase' = [phase EXCEPT ![r] = "stopping"]
    /\ UNCHANGED <<begun, applied>>

Apply(r) ==
    /\ phase[r] \in {"executing", "stopping"}
    /\ begun[r]
    /\ applied[r] = 0
    /\ applied' = [applied EXCEPT ![r] = 1]
    /\ UNCHANGED <<phase, begun>>

\* Only a run that began can succeed.
Conclude(r, o) ==
    /\ phase[r] \notin Outcomes
    /\ o = "succeeded" => begun[r]
    /\ phase' = [phase EXCEPT ![r] = o]
    /\ UNCHANGED <<begun, applied>>

AbsNext == \E r \in Runs : \/ Commence(r) \/ AskToStop(r) \/ Apply(r)
                           \/ \E o \in Outcomes : Conclude(r, o)

AbsSpec == AbsInit /\ [][AbsNext]_absVars

=============================================================================
