--------------------------- MODULE ChangeWaiters ---------------------------
(***************************************************************************)
(* The WebSockets of /sync/events (api/hub.py) of one owner.  Each reads   *)
(* the log of changes from its cursor, sends what it finds, and otherwise  *)
(* waits in wait_for_change (sync_hub/store.py) on an asyncio.Event that   *)
(* all sockets of the owner share and every one of them clears.            *)
(***************************************************************************)
EXTENDS Naturals, Sequences, FiniteSets, SequencesExt, FiniteSetsExt

CONSTANTS
    Sockets,
    Page,        \* changes read at once (100 in the code)
    MaxChanges,  \* bound: changes that are pushed
    MaxDrops     \* bound: sockets that drop

VARIABLES
    log,      \* MAX(cursor) of sync_events
    unsaid,   \* committed changes whose push has not called _notify_scope yet
    event,    \* the flag of the shared asyncio.Event
    sock,     \* the loop of each socket
    revoked,  \* sockets whose device is revoked
    taken,    \* history: sockets that another one took a notice from
    drops

vars == <<log, unsaid, event, sock, revoked, taken, drops>>

Closed == [at |-> "closed", cursor |-> 0, page |-> <<>>, start |-> 0, sent |-> <<>>]
Opened(c) == [at |-> "token", cursor |-> c, page |-> <<>>, start |-> c, sent |-> <<>>]
Places == {"closed", "token", "read", "latest", "send", "clear", "check", "wait", "sleep", "woken"}

Init ==
    /\ log = 0 /\ unsaid = 0 /\ event = FALSE
    /\ sock = [s \in Sockets |-> Closed]
    /\ revoked = {} /\ taken = {} /\ drops = 0

At(s, place) == sock[s].at = place
GoesTo(s, place) == sock' = [sock EXCEPT ![s].at = place]

----------------------------------------------------------------------------
\* push() of some device commits a change,
Commit ==
    /\ log < MaxChanges
    /\ log' = log + 1 /\ unsaid' = unsaid + 1
    /\ UNCHANGED <<event, sock, revoked, taken, drops>>

\* and sets the event after the lock is left: every socket that sleeps is woken.
Notify ==
    /\ unsaid > 0
    /\ unsaid' = unsaid - 1 /\ event' = TRUE
    /\ sock' = [s \in Sockets |-> IF At(s, "sleep") THEN [sock[s] EXCEPT !.at = "woken"] ELSE sock[s]]
    /\ UNCHANGED <<log, revoked, taken, drops>>

\* revoke_device().
RevokeDevice(s) ==
    /\ s \notin revoked /\ drops < MaxDrops
    /\ revoked' = revoked \cup {s} /\ drops' = drops + 1
    /\ UNCHANGED <<log, unsaid, event, sock, taken>>

\* sync_events(): the socket is accepted at the cursor the client asks for.
Accept(s) ==
    /\ At(s, "closed") /\ s \notin revoked
    /\ \E c \in 0 .. log : sock' = [sock EXCEPT ![s] = Opened(c)]
    /\ UNCHANGED <<log, unsaid, event, revoked, taken, drops>>

\* The token is validated on every turn of the loop; a revoked one closes the socket (4401).
Validate(s) ==
    /\ At(s, "token")
    /\ IF s \in revoked THEN sock' = [sock EXCEPT ![s] = Closed] ELSE GoesTo(s, "read")
    /\ UNCHANGED <<log, unsaid, event, revoked, taken, drops>>

\* Variant: the page is filled up with cursors that are not there.
ReadFullPage(s) ==
    /\ At(s, "read")
    /\ sock' = [sock EXCEPT ![s].page = [i \in 1 .. Page |-> sock[s].cursor + i], ![s].at = "latest"]
    /\ UNCHANGED <<log, unsaid, event, revoked, taken, drops>>

\* list_changes(), the rows after the cursor,
ReadRows(s) ==
    /\ At(s, "read")
    /\ sock' = [sock EXCEPT ![s].page = [i \in 1 .. Min({Page, log - sock[s].cursor}) |-> sock[s].cursor + i],
                            ![s].at = "latest"]
    /\ UNCHANGED <<log, unsaid, event, revoked, taken, drops>>

\* Variant: the loop goes on from the cursor that list_changes returns.
CursorReturned(s) == IF sock[s].page = <<>> THEN log ELSE Last(sock[s].page)

\* The loop drops the returned cursor and stays where it is when there are no rows.
CursorKept(s) == sock[s].cursor

\* and MAX(cursor).
ReadLatest(s) ==
    /\ At(s, "latest")
    /\ sock' = [sock EXCEPT ![s].at = IF sock[s].page = <<>> THEN "clear" ELSE "send",
                            ![s].cursor = CursorKept(s)]
    /\ UNCHANGED <<log, unsaid, event, revoked, taken, drops>>

\* A record of the page is sent; after the last one the cursor moves.
Sent(l) ==
    LET c == Head(l.page)
        rest == Tail(l.page)
    IN [at |-> IF rest = <<>> THEN "token" ELSE "send", cursor |-> IF rest = <<>> THEN c ELSE l.cursor,
        page |-> rest, start |-> l.start, sent |-> Append(l.sent, c)]

\* The records are sent one by one.
Send(s) ==
    /\ At(s, "send")
    /\ sock' = [sock EXCEPT ![s] = Sent(sock[s])]
    /\ UNCHANGED <<log, unsaid, event, revoked, taken, drops>>

\* The event is cleared by s; a notice that another socket has not seen is gone for it.
Clears(s) ==
    /\ event' = FALSE
    /\ taken' = IF event THEN taken \cup {x \in Sockets \ {s} : sock[x].at \in {"check", "wait"}} ELSE taken

\* wait_for_change() clears the event before it looks at the log.
ClearEvent(s) ==
    /\ At(s, "clear")
    /\ Clears(s)
    /\ GoesTo(s, "check")
    /\ UNCHANGED <<log, unsaid, revoked, drops>>

\* A change after the cursor ends the wait at once.
CheckLog(s) ==
    /\ At(s, "check")
    /\ GoesTo(s, IF log > sock[s].cursor THEN "token" ELSE "wait")
    /\ UNCHANGED <<log, unsaid, event, revoked, taken, drops>>

\* Variant: the event is cleared only now, after the log was looked at.
NoticedLate(s) == FALSE

\* waiter.wait() returns at once when the event is set.
Noticed(s) == event

Await(s) ==
    /\ At(s, "wait")
    /\ GoesTo(s, IF Noticed(s) THEN "woken" ELSE "sleep")
    /\ UNCHANGED <<log, unsaid, event, revoked, taken, drops>>

\* Variant: the wait has no timeout.
SleepEndsByNotice(s) == At(s, "woken")

\* The wait ends by a notice, or after 15 seconds.
SleepEnds(s) == At(s, "woken") \/ At(s, "sleep")

\* In both cases the event is cleared for everybody (finally).
WakeUp(s) ==
    /\ SleepEnds(s)
    /\ Clears(s)
    /\ GoesTo(s, "token")
    /\ UNCHANGED <<log, unsaid, revoked, drops>>

\* The client disconnects, or a send takes longer than ws_send_timeout_s.
Drop(s) ==
    /\ ~At(s, "closed") /\ drops < MaxDrops
    /\ drops' = drops + 1
    /\ sock' = [sock EXCEPT ![s] = Closed]
    /\ IF At(s, "sleep") \/ At(s, "woken") THEN Clears(s) ELSE UNCHANGED <<event, taken>>
    /\ UNCHANGED <<log, unsaid, revoked>>

Loop(s) ==
    \/ Validate(s) \/ ReadRows(s) \/ ReadLatest(s) \/ Send(s)
    \/ ClearEvent(s) \/ CheckLog(s) \/ Await(s) \/ WakeUp(s)

Next ==
    \/ Commit \/ Notify
    \/ \E s \in Sockets : Loop(s) \/ Accept(s) \/ RevokeDevice(s) \/ Drop(s)

Spec == Init /\ [][Next]_vars

\* The event loop runs every coroutine that can go on, and the timeout of a wait expires.
FairSpec == Spec /\ WF_vars(Notify) /\ \A s \in Sockets : WF_vars(Loop(s))

----------------------------------------------------------------------------
TypeOK ==
    /\ log \in 0 .. MaxChanges /\ unsaid \in 0 .. log /\ event \in BOOLEAN
    /\ \A s \in Sockets : sock[s].at \in Places /\ sock[s].cursor \in 0 .. log

\* A socket sends the changes after its start without a gap and in order, although the cursor
\* of list_changes may run ahead of the rows it returned (sync_events keeps its own cursor).
NoGap ==
    \A s \in Sockets : \A i \in DOMAIN sock[s].sent : sock[s].sent[i] = sock[s].start + i

\* A socket sleeps while a change it has not read is announced only if another socket cleared
\* the shared event: clearing before looking at the log loses no notice by itself
\* (wait_for_change).
MissedOnlyByOthers ==
    \A s \in Sockets : At(s, "sleep") /\ log - unsaid > sock[s].cursor => s \in taken

AllSent == \A s \in Sockets : At(s, "closed") \/ sock[s].cursor = log

\* Every change reaches every open socket, although notices get lost: the wait is bounded
\* (wait_for_change, sync_events).
EveryChangeIsSent == []<>AllSent

=============================================================================
