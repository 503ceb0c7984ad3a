--------------------------- MODULE ExecutionLease ---------------------------
(***************************************************************************)
(* The durable execution lease of backend/app/runtime/execution_lease.py.  *)
(*                                                                         *)
(* One row per (tenant, owner, resource kind, resource id) names a holder, *)
(* the fence token of its term and the instant at which the term ends.     *)
(* Every mutation of the row runs under BEGIN IMMEDIATE, so each operator  *)
(* below is one atomic step of whoever uses it.  The row is never deleted: *)
(* release() only moves expires_at back to 0, hence fences never repeat.   *)
(***************************************************************************)
EXTENDS Naturals

CONSTANTS
    Workers,   \* holder ids; one per process incarnation, they embed a uuid4
    NoHolder,  \* the holder of a row that was never inserted
    TTL        \* execution_lease_ttl_s, in clock ticks

ASSUME LeaseAssumption == NoHolder \notin Workers /\ TTL \in Nat \ {0}

LeaseRow == [holder : Workers \cup {NoHolder}, fence : Nat, expires_at : Nat]

\* No row yet: the INSERT branch of acquire() gives the first term fence 1.
FreshLease == [holder |-> NoHolder, fence |-> 0, expires_at |-> 0]

\* acquire() succeeds on a missing row and on a row whose term is over.
CanAcquire(row, now) == row.expires_at <= now

\* Variant: a takeover that keeps the fence of the term before it.
AcquireSameFence(row, w, now) ==
    [holder |-> w, fence |-> IF row.fence = 0 THEN 1 ELSE row.fence, expires_at |-> now + TTL]

Acquire(row, w, now) ==
    [holder |-> w, fence |-> row.fence + 1, expires_at |-> now + TTL]

\* check_owned() and assert_owned(): exactly this holder, this fence, unexpired.
Owned(row, w, fence, now) ==
    /\ row.holder = w
    /\ row.fence = fence
    /\ row.expires_at > now

\* renew(): extends a live term and never touches the fence.
Renew(row, now) == [row EXCEPT !.expires_at = now + TTL]

\* Variant: release() backdates the end of the term instead of zeroing it.
ReleaseBackdated(row, w, fence, now) ==
    IF Owned(row, w, fence, now) THEN [row EXCEPT !.expires_at = now - 1] ELSE row

\* release(): matches the exact live term only, otherwise it changes no row.
Release(row, w, fence, now) ==
    IF Owned(row, w, fence, now) THEN [row EXCEPT !.expires_at = 0] ELSE row

=============================================================================
