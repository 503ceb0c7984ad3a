------------------------------ MODULE HubSync ------------------------------
(***************************************************************************)
(* Devices that sync through the hub (hub/runtime.py, hub/client.py and    *)
(* the routes of api/hub.py).  A device runs a cycle under its lock: it    *)
(* reconciles, pushes, takes a snapshot once, and pulls the changes after  *)
(* its cursor.  Beside the cycle a WebSocket streams changes.  Requests    *)
(* and answers may be lost, sockets drop, and a device may restart.        *)
(***************************************************************************)
EXTENDS HubClient

CONSTANTS
    First,       \* the device that is paired from the start
    Authors,     \* the devices whose user records and edits segments
    DocAuthors,  \* the devices whose user writes minutes and memories
    Listeners,   \* the devices whose socket is modelled
    StreamPage,  \* changes of one page (100 in the code)
    MaxWrites,   \* bound: rows written by the users
    MaxVersion,  \* bound: versions of a row with a global id
    MaxFaults    \* bound: lost requests and answers, dropped sockets, restarts, revocations

\* What the constants are: checked with the types, for every instance.
SyncConstants ==
    First \in Devices /\ Authors \subseteq Devices /\ DocAuthors \subseteq Devices /\ Listeners \subseteq Devices
    /\ StreamPage \in Nat \ {0} /\ MaxWrites \in Nat /\ MaxVersion \in Nat /\ MaxFaults \in Nat

VARIABLES
    hub,      \* the database of the hub
    access,   \* sync_devices: "none", "active" or "revoked"; code: the pairing code
    node,     \* the database and the saved state of each device
    cycle,    \* where the sync cycle of each device stands, with its cursor in memory
    stream,   \* the position of each WebSocket, None when it is closed
    raced,    \* history: cursors that a read without changes passed over
    written,  \* history: what the user of each device wrote
    faults

vars == <<hub, access, node, cycle, stream, raced, written, faults>>

Idle == [at |-> "idle", todo |-> <<>>, answers |-> <<>>, page |-> <<>>, cursor |-> None]

Init ==
    /\ hub = EmptyHub
    /\ access = [device |-> [d \in Devices |-> IF d = First THEN "active" ELSE "none"], code |-> "none"]
    /\ node = [d \in Devices |-> EmptyDevice]
    /\ cycle = [d \in Devices |-> Idle]
    /\ stream = [d \in Devices |-> None]
    /\ raced = [d \in Devices |-> {}]
    /\ written = [d \in Devices |-> {}]
    /\ faults = 0

\* validate_sync_token: a request of this device is let in.
Active(d) == access.device[d] = "active"
At(d, step) == cycle[d].at = step
GoesTo(d, step) == cycle' = [cycle EXCEPT ![d].at = step]
Fault == faults < MaxFaults /\ faults' = faults + 1

----------------------------------------------------------------------------
\* create_pairing() of a paired device: a new code.
CreatePairing ==
    /\ access.code = "none" /\ Active(First)
    /\ access' = [access EXCEPT !.code = "open"]
    /\ UNCHANGED <<hub, node, cycle, stream, raced, written, faults>>

\* claim_pairing() while the code is neither spent nor expired: the device and its cursor row appear, the code is spent, and the runtime
\* keeps the token under its lock.
ClaimPairing(d) ==
    /\ access.code = "open" /\ access.device[d] = "none" /\ At(d, "idle")
    /\ access' = [device |-> [access.device EXCEPT ![d] = "active"], code |-> "claimed"]
    /\ UNCHANGED <<hub, node, cycle, stream, raced, written, faults>>

\* revoke_device(): tokens of the device are refused from now on.
Revoke(d) ==
    /\ Active(d) /\ \E x \in Devices \ {d} : Active(x)
    /\ Fault
    /\ access' = [access EXCEPT !.device[d] = "revoked"]
    /\ UNCHANGED <<hub, node, cycle, stream, raced, written>>

----------------------------------------------------------------------------
\* The user of a device writes.
UserWrites(d, val) ==
    /\ FoldSet(LAMBDA x, n : n + Cardinality(written[x]), 0, Devices) < MaxWrites
    /\ val \notin written[d]
    /\ written' = [written EXCEPT ![d] = @ \cup {val}]

\* The user of the device records a segment or edits one (external: capture and meetings).
WriteSegment(d) ==
    /\ d \in Authors /\ Len(node[d].rows) < MaxRow
    /\ LET val == [item |-> d, ver |-> 1, by |-> d]
       IN UserWrites(d, val) /\ node' = [node EXCEPT ![d].rows = Append(@, val)]
    /\ UNCHANGED <<hub, access, cycle, stream, raced, faults>>

EditSegment(d) ==
    /\ d \in Authors
    /\ \E r \in DOMAIN node[d].rows :
           LET val == [node[d].rows[r] EXCEPT !.ver = @ + 1, !.by = d]
           IN UserWrites(d, val) /\ node' = [node EXCEPT ![d].rows[r] = val]
    /\ UNCHANGED <<hub, access, cycle, stream, raced, faults>>

WriteDoc(d) ==
    /\ d \in DocAuthors
    /\ \E m \in Docs :
           LET val == [item |-> m, ver |-> IF node[d].docs[m] = None THEN 1 ELSE node[d].docs[m].ver + 1,
                       by |-> d]
           IN /\ val.ver <= MaxVersion /\ UserWrites(d, val)
              /\ node' = [node EXCEPT ![d].docs[m] = val]
    /\ UNCHANGED <<hub, access, cycle, stream, raced, faults>>

----------------------------------------------------------------------------
\* _sync_cycle_locked() begins: reconcile_local_changes() and claim_pending().  Nothing else
\* touches the outbox in between, so the two transactions are one step.
Pull(d) == IF cycle[d].cursor = None THEN "snapshot" ELSE "read"
Reconcile(d) ==
    /\ At(d, "idle") /\ access.device[d] # "none"
    /\ LET n == Claimed(Reconciled(node[d], d))
       IN /\ node' = [node EXCEPT ![d] = n]
          /\ cycle' = [cycle EXCEPT ![d].todo = Batch(n), ![d].answers = <<>>,
                                    ![d].at = IF Batch(n) = <<>> THEN Pull(d) ELSE "push"]
    /\ UNCHANGED <<hub, access, stream, raced, written, faults>>

\* client.push(): the next operation is answered.  The hub's part is push().
Push(d) ==
    /\ At(d, "push") /\ Active(d)
    /\ LET op == Head(cycle[d].todo)
       IN /\ hub' = Pushed(hub, op)
          /\ cycle' = [cycle EXCEPT ![d].todo = Tail(@), ![d].answers = @ @@ (op.id :> PushStatus(hub, op)),
                                    ![d].at = IF Len(cycle[d].todo) = 1 THEN "mark" ELSE "push"]
    /\ UNCHANGED <<access, node, stream, raced, written, faults>>

\* mark_push_results().
Mark(d) ==
    /\ At(d, "mark")
    /\ node' = [node EXCEPT ![d] = Marked(@, cycle[d].answers)]
    /\ GoesTo(d, Pull(d))
    /\ UNCHANGED <<hub, access, stream, raced, written, faults>>

\* The answer of a push is lost after the hub committed it: the cycle ends in an error and the
\* operation stays in sending.
EndsInError(d) ==
    /\ cycle' = [cycle EXCEPT ![d] = [Idle EXCEPT !.cursor = cycle[d].cursor]]
    /\ node' = [node EXCEPT ![d].saved = cycle[d].cursor]
PushAnswerLost(d) ==
    /\ At(d, "push") /\ Active(d) /\ Fault
    /\ hub' = Pushed(hub, Head(cycle[d].todo))
    /\ EndsInError(d)
    /\ UNCHANGED <<access, stream, raced, written>>

\* A request or its answer is lost, or the token is refused (HubError): _mark_error() saves the
\* state.
RequestFails(d) ==
    /\ cycle[d].at \in {"push", "snapshot", "newest", "read", "latest"}
    /\ EndsInError(d)
    /\ raced' = [raced EXCEPT ![d] = IF At(d, "newest") THEN {} ELSE @]
    /\ IF Active(d) THEN Fault ELSE UNCHANGED faults
    /\ UNCHANGED <<hub, access, stream, written>>

\* snapshot(): the rows and, in a later statement, the cursor.
ReadSnapshot(d) ==
    /\ At(d, "snapshot") /\ Active(d)
    /\ cycle' = [cycle EXCEPT ![d].page = Snapshot(hub), ![d].at = "newest"]
    /\ raced' = [raced EXCEPT ![d] = 1 .. Len(hub.log)]
    /\ UNCHANGED <<hub, access, node, stream, written, faults>>

\* The snapshot is applied and its cursor taken.  raced holds the cursors the snapshot saw; what
\* it did not see and the cursor covers is passed over.
TakeSnapshot(d) ==
    /\ At(d, "newest") /\ ~AnyRaises(node[d], d, cycle[d].page, TRUE)
    /\ node' = [node EXCEPT ![d] = AppliedAll(@, d, cycle[d].page, TRUE)]
    /\ cycle' = [cycle EXCEPT ![d].cursor = Len(hub.log), ![d].page = <<>>, ![d].at = "read"]
    /\ raced' = [raced EXCEPT ![d] = (1 .. Len(hub.log)) \ @]
    /\ UNCHANGED <<hub, access, stream, written, faults>>

\* Variant: the cursor is taken from the latest event even when changes were returned.
CoveredToEnd(d) == Len(hub.log)

\* The cursor of list_changes(), which the client takes over after it applied the changes.
Covered(d) == ReturnedCursor(hub, cycle[d].page)

\* list_changes(), the changes.
ReadChanges(d) ==
    /\ At(d, "read") /\ Active(d)
    /\ cycle' = [cycle EXCEPT ![d].page = ChangesAfter(hub, cycle[d].cursor, StreamPage), ![d].at = "latest"]
    /\ UNCHANGED <<hub, access, node, stream, raced, written, faults>>

\* list_changes(), the cursor, and the answer: the changes are applied in one transaction, then
\* the cursor is taken over and saved.
Changes(d) == [i \in DOMAIN cycle[d].page |-> Change(hub, cycle[d].page[i])]
ApplyChanges(d) ==
    /\ At(d, "latest") /\ ~AnyRaises(node[d], d, Changes(d), FALSE)
    /\ node' = [node EXCEPT ![d] = [AppliedAll(@, d, Changes(d), FALSE) EXCEPT !.saved = Covered(d)]]
    /\ cycle' = [cycle EXCEPT ![d] = [Idle EXCEPT !.cursor = Covered(d)]]
    /\ raced' = [raced EXCEPT ![d] =
                    IF cycle[d].page = <<>> THEN @ \cup (cycle[d].cursor + 1 .. Len(hub.log)) ELSE @]
    /\ UNCHANGED <<hub, access, stream, written, faults>>

\* A change raises: the transaction is rolled back and the cycle ends in an error.
ApplyRaises(d) ==
    /\ \/ At(d, "newest") /\ AnyRaises(node[d], d, cycle[d].page, TRUE)
       \/ At(d, "latest") /\ AnyRaises(node[d], d, Changes(d), FALSE)
    /\ EndsInError(d)
    /\ raced' = [raced EXCEPT ![d] = IF At(d, "newest") THEN {} ELSE @]
    /\ UNCHANGED <<hub, access, stream, written, faults>>

\* The process of the device restarts: close() or a crash, then start().
Restart(d) ==
    /\ Fault
    /\ cycle' = [cycle EXCEPT ![d] = [Idle EXCEPT !.cursor = node[d].saved]]
    /\ node' = [node EXCEPT ![d] = Reinitialised(@)]
    /\ stream' = [stream EXCEPT ![d] = None]
    /\ raced' = [raced EXCEPT ![d] = IF At(d, "newest") THEN {} ELSE @]
    /\ UNCHANGED <<hub, access, written>>

----------------------------------------------------------------------------
\* _event_loop(): the socket is opened at the cursor of the device.
Connect(d) ==
    /\ d \in Listeners /\ stream[d] = None /\ Active(d)
    /\ stream' = [stream EXCEPT ![d] = IF cycle[d].cursor = None THEN 0 ELSE cycle[d].cursor]
    /\ UNCHANGED <<hub, access, node, cycle, raced, written, faults>>

\* _apply_event(), which waits for the lock of the cycle: the next change of the socket.  The
\* socket carries every change in order (ChangeWaiters).  The hub sends the cursor as a number
\* and the device takes over only strings, so its cursor stays.
Pending(d) == stream[d] # None /\ stream[d] < Len(hub.log) /\ At(d, "idle")
Event(d) == <<Change(hub, stream[d] + 1)>>
ApplyEvent(d) ==
    /\ Pending(d) /\ ~AnyRaises(node[d], d, Event(d), FALSE)
    /\ node' = [node EXCEPT ![d] = [AppliedAll(@, d, Event(d), FALSE) EXCEPT !.saved = cycle[d].cursor]]
    /\ stream' = [stream EXCEPT ![d] = @ + 1]
    /\ UNCHANGED <<hub, access, cycle, raced, written, faults>>

\* The event cannot be applied, the token is refused, or the socket drops: the device saves its
\* state with an error and opens another socket later.
Disconnect(d) ==
    /\ stream[d] # None
    /\ \/ Pending(d) /\ AnyRaises(node[d], d, Event(d), FALSE) /\ UNCHANGED faults
       \/ ~Active(d) /\ UNCHANGED faults
       \/ Fault
    /\ stream' = [stream EXCEPT ![d] = None]
    /\ node' = [node EXCEPT ![d].saved = cycle[d].cursor]
    /\ UNCHANGED <<hub, access, cycle, raced, written>>

----------------------------------------------------------------------------
CycleStep(d) ==
    \/ Reconcile(d) \/ Push(d) \/ Mark(d) \/ ReadSnapshot(d) \/ TakeSnapshot(d)
    \/ ReadChanges(d) \/ ApplyChanges(d) \/ ApplyRaises(d)

Next ==
    \/ CreatePairing
    \/ \E d \in Devices :
        \/ ClaimPairing(d) \/ Revoke(d) \/ WriteSegment(d) \/ EditSegment(d) \/ WriteDoc(d)
        \/ CycleStep(d) \/ Connect(d) \/ ApplyEvent(d)
        \/ PushAnswerLost(d) \/ RequestFails(d) \/ Restart(d) \/ Disconnect(d)

Spec == Init /\ [][Next]_vars

\* The connection loop of every device keeps running its cycle.
FairSpec == Spec /\ \A d \in Devices : WF_vars(CycleStep(d))

----------------------------------------------------------------------------
Cursors == 0 .. Len(hub.log)

TypeOK ==
    /\ HubConstants /\ ClientConstants /\ SyncConstants
    /\ \A i \in DOMAIN hub.log : hub.log[i].ent \in Entities /\ hub.log[i].rev \in Nat \ {0}
    /\ access.device \in [Devices -> {"none", "active", "revoked"}]
    /\ \A d \in Devices :
        /\ Len(node[d].rows) <= MaxRow
        /\ node[d].saved \in Cursors \cup {None} /\ cycle[d].cursor \in Cursors \cup {None}
        /\ stream[d] \in Cursors \cup {None}
    /\ faults \in 0 .. MaxFaults

\* An operation takes effect at most once, however often it is sent again, and the state its
\* device keeps is true: one that was applied is in the log, one in conflict is not, although the
\* first answer may be lost (push(), mark_push_results()).
AnswerMatchesLog ==
    \A d \in Devices : \A i \in DOMAIN node[d].outbox :
        LET op == node[d].outbox[i]
            effects == Cardinality({j \in DOMAIN hub.log : hub.log[j].op = op.id})
        IN /\ effects <= 1
           /\ op.state = "applied" => effects = 1
           /\ op.state = "conflict" => effects = 0

\* A device never sends back what it got from the hub as a segment of its own: what it pushes
\* was written by its user (_queue_local_entity, _find_local_transcript_aliases).
NoEcho ==
    \A i \in DOMAIN hub.log : IsSegment(hub.log[i].ent) => hub.log[i].val \in written[hub.log[i].source]

\* Two devices gave their segments the same row id, which the hub takes for one row.
Collides(j) == \E k \in DOMAIN hub.log : hub.log[k].ent # hub.log[j].ent /\ hub.log[k].ent[2] = hub.log[j].ent[2]

\* The cursor of a device covers a segment it does not have only if the change was committed
\* between the two statements of a read that found nothing, or was hidden in a snapshot by a
\* segment of another device with the same row id (list_changes, snapshot).
OnlyRacedIsMissed ==
    \A d \in Devices : cycle[d].cursor # None => \A j \in 1 .. cycle[d].cursor :
        \/ ~IsSegment(hub.log[j].ent) \/ node[d].ents[hub.log[j].ent] # None
        \/ j \in raced[d] \/ Collides(j)

NothingGoesBack ==
    \A d \in Devices : \A e \in Entities :
        IsSegment(e) /\ node[d].ents[e] # None /\ node'[d].ents[e] # None
            => node'[d].ents[e].rev >= node[d].ents[e].rev

\* What a device knows of an entity never goes back to an older revision, whatever is delivered
\* late, twice or by two paths, unless the record is dropped as an alias (_apply_change_tx).
NeverGoesBack == [][NothingGoesBack]_vars

\* What a device and the hub hold of each other is true: an operation took effect once and as the
\* device was told, nothing comes back as new, and a device misses only what it raced with.
SyncIsFaithful == AnswerMatchesLog /\ NoEcho /\ OnlyRacedIsMissed

Unsettled(d) ==
    \E i \in DOMAIN node[d].outbox : LET op == node[d].outbox[i] IN
        /\ op.state \notin {"applied", "duplicate", "conflict"}
        /\ op.attempts < MaxAttempts \/ op.state = "sending"
AllSettled == \A d \in Devices : ~Unsettled(d) \/ ~Active(d)

\* Every operation is settled in the end, however the answers of the hub are lost, unless the
\* device is revoked or restarted so often that the operation is given up (claim_pending).
OperationSettles == []<>AllSettled

=============================================================================
