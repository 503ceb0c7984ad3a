-------------------------- MODULE MinutesGeneration --------------------------
(***************************************************************************)
(* The minutes of one meeting (api/meetings.py).  Requests look for the    *)
(* finalize run that is active, adopt it or create one, and wait; a run    *)
(* must own the meeting's generation to commit its minutes; the user may   *)
(* clear the minutes, and a run may be cancelled, fail or be taken over by *)
(* a new dispatcher, between any two steps.                                *)
(***************************************************************************)
EXTENDS Naturals, Sequences, SequencesExt

CONSTANTS
    Requests,  \* calls of dispatch_meeting_finalize()
    MaxClears, \* bound: calls that clear the outputs
    MaxFaults  \* bound: failures, cancellations and takeovers

VARIABLES
    meeting, \* rag_projection_generation, minutes_generation_run_id (0: none), status, minutes
             \* (the run that wrote them, 0: none), cleared, cancelled; asked: history, a request
             \* read the row since the last clear that found something
    runs,    \* meeting.finalize runs, oldest first
    req,     \* the requests
    clears, faults

vars == <<meeting, runs, req, clears, faults>>

\* at is the place of the handler; void: history, its minutes were cleared.
NewRun(parent) == [state |-> "active", at |-> "attach", parent |-> parent, committed |-> FALSE, void |-> FALSE]
NoRequest == [at |-> "new", gen |-> 0, latest |-> 0, ended |-> "none", run |-> 0, last |-> FALSE, stale |-> {}]

Init ==
    /\ meeting = [gen |-> 0, owner |-> 0, status |-> "none", minutes |-> 0,
                  cleared |-> FALSE, cancelled |-> FALSE, asked |-> FALSE]
    /\ runs = <<>>
    /\ req = [r \in Requests |-> NoRequest]
    /\ clears = 0 /\ faults = 0

----------------------------------------------------------------------------
RunIds == 1 .. Len(runs)
Active == {i \in RunIds : runs[i].state = "active"}
ActiveRun == IF Active = {} THEN 0 ELSE CHOOSE i \in Active : TRUE
At(r, place) == req[r].at = place
Goes(r, place) == req' = [req EXCEPT ![r].at = place]
GoesWith(r, place, i) == req' = [req EXCEPT ![r].at = place, ![r].run = i]
Fault == faults < MaxFaults /\ faults' = faults + 1

\* Variant: the marker is written whatever happened since the meeting was read.
MarkableAlways(gen, i) == meeting.owner \in {0, i}
\* write_generation_marker(): a compare-and-set on the generation that was read.
Markable(gen, i) == meeting.gen = gen /\ meeting.owner \in {0, i}
Marked(i) == [meeting EXCEPT !.owner = i, !.status = "generating", !.cleared = FALSE, !.cancelled = FALSE]

----------------------------------------------------------------------------
\* dispatch_meeting_finalize(): a run that is active is waited for, and everything read again.
Look(r) ==
    /\ At(r, "new") \/ At(r, "look")
    /\ req' = [req EXCEPT ![r].at = IF ActiveRun = 0 THEN "read" ELSE "join", ![r].run = ActiveRun,
                          ![r].stale = IF At(r, "new") THEN {i \in RunIds : runs[i].void} ELSE @]
    /\ UNCHANGED <<meeting, runs, clears, faults>>

\* Variant: the last run that committed is taken for the minutes.
StoredMinutesOfRun == SelectLastInSeq(runs, LAMBDA run : run.committed)
StoredMinutes == meeting.minutes
Read(r) ==
    /\ At(r, "read")
    /\ meeting' = [meeting EXCEPT !.asked = TRUE]
    /\ req' = [req EXCEPT ![r].at = "recheck", ![r].gen = meeting.gen, ![r].run = StoredMinutes]
    /\ UNCHANGED <<runs, clears, faults>>

\* Variant: the meeting is read once and the active run not looked for again.
SecondLookNot == 0
SecondLook == ActiveRun
LookAgain(r) ==
    /\ At(r, "recheck")
    /\ IF SecondLook # 0 THEN GoesWith(r, "join", SecondLook)
       ELSE Goes(r, IF req[r].run # 0 THEN "answered" ELSE "list")
    /\ UNCHANGED <<meeting, runs, clears, faults>>

List(r) ==
    /\ At(r, "list")
    /\ req' = [req EXCEPT ![r].at = "create", ![r].latest = Len(runs),
                          ![r].ended = IF runs = <<>> THEN "none" ELSE Last(runs).state]
    /\ UNCHANGED <<meeting, runs, clears, faults>>

\* dispatch_atomic() or, when the last run ended without minutes, retry(): the run and the
\* marker are one transaction, unless a run is there that may be joined.
Retries(r) == req[r].ended \notin {"none", "active", "succeeded"}
Child(r) == {i \in RunIds : Retries(r) /\ runs[i].parent = req[r].latest}
Create(r) ==
    LET joined == CASE req[r].ended = "active" -> req[r].latest
                    [] Child(r) # {} -> CHOOSE i \in Child(r) : TRUE
                    [] OTHER -> IF Retries(r) THEN 0 ELSE ActiveRun
        fresh == Len(runs) + 1
    IN /\ At(r, "create")
       /\ \/ joined # 0 /\ GoesWith(r, "adopt", joined) /\ UNCHANGED <<meeting, runs>>
          \/ /\ joined = 0 /\ ActiveRun = 0 /\ Markable(req[r].gen, fresh)
             /\ runs' = Append(runs, NewRun(IF Retries(r) THEN req[r].latest ELSE 0))
             /\ meeting' = Marked(fresh)
             /\ GoesWith(r, "adopt", fresh)
          \/ /\ joined = 0 /\ (ActiveRun # 0 \/ ~Markable(req[r].gen, fresh))
             /\ Goes(r, "winner") /\ UNCHANGED <<meeting, runs>>
       /\ UNCHANGED <<clears, faults>>

\* Conflicts: the first leads to the run that won, the second to the caller (409).
Conflict(r) == Goes(r, IF req[r].last THEN "refused" ELSE "winner")
Winner(r) ==
    /\ At(r, "winner")
    /\ LET i == IF ActiveRun # 0 THEN ActiveRun ELSE Len(runs)
       IN IF i = 0 THEN Goes(r, "refused")
          ELSE req' = [req EXCEPT ![r].at = "adopt", ![r].run = i, ![r].last = TRUE]
    /\ UNCHANGED <<meeting, runs, clears, faults>>

\* adopt_authoritative_run()
Adopt(r) ==
    LET i == req[r].run IN
    /\ At(r, "adopt")
    /\ CASE runs[i].state = "succeeded" -> Goes(r, "wait")
         [] runs[i].state = "active" -> Goes(r, IF meeting.owner = i THEN "wait" ELSE "mark")
         [] OTHER -> Conflict(r)
    /\ UNCHANGED <<meeting, runs, clears, faults>>

\* project_active_run() with the marker.
Mark(r) ==
    LET i == req[r].run IN
    /\ At(r, "mark")
    /\ CASE runs[i].state = "succeeded" -> Goes(r, "wait") /\ UNCHANGED meeting
         [] runs[i].state = "active" /\ Markable(req[r].gen, i) -> Goes(r, "wait") /\ meeting' = Marked(i)
         [] OTHER -> Conflict(r) /\ UNCHANGED meeting
    /\ UNCHANGED <<runs, clears, faults>>

\* Variant: only a run that succeeded wakes the request.
OverWell(state) == state = "succeeded"
Over(state) == state # "active"
\* wait_succeeded(), before the meeting is read and at the end.
Wait(r) ==
    LET done == runs[req[r].run].state IN
    /\ req[r].at \in {"wait", "join"} /\ Over(done)
    /\ Goes(r, IF done # "succeeded" THEN "refused" ELSE IF At(r, "wait") THEN "answered" ELSE "look")
    /\ UNCHANGED <<meeting, runs, clears, faults>>

----------------------------------------------------------------------------
\* The handler.  attach_generation_owner(): nobody else owns the generation, there are no
\* minutes, and the user did not clear them.
Running(i, place) == runs[i].state = "active" /\ runs[i].at = place
\* Variant: minutes that were cleared are no obstacle.
AttachableCleared(i) == meeting.owner \in {0, i} /\ meeting.minutes = 0
Attachable(i) == meeting.owner \in {0, i} /\ meeting.minutes = 0 /\ ~meeting.cleared
Attach(i) ==
    /\ Running(i, "attach") /\ Attachable(i)
    /\ meeting' = Marked(i)
    /\ runs' = [runs EXCEPT ![i].at = "write"]
    /\ UNCHANGED <<req, clears, faults>>

\* Variant: minutes are committed by whoever has them.
OwnsGenerationNot(i) == TRUE
\* write_success(): the meeting still belongs to this run.
OwnsGeneration(i) == meeting.owner = i
Commit(i) ==
    /\ Running(i, "write") /\ OwnsGeneration(i)
    /\ meeting' = [meeting EXCEPT !.minutes = i, !.status = "ok", !.gen = @ + 1, !.owner = 0,
                                  !.cleared = FALSE, !.cancelled = FALSE]
    /\ runs' = [runs EXCEPT ![i].at = "project", ![i].committed = TRUE]
    /\ UNCHANGED <<req, clears, faults>>

Succeed(i) ==
    /\ Running(i, "project")
    /\ runs' = [runs EXCEPT ![i].state = "succeeded"]
    /\ UNCHANGED <<meeting, req, clears, faults>>

\* Variant: the projector leaves the meeting to the next run.
ProjectedNot(i, state) == meeting
\* write_terminal_projection(), in the transaction that ends the run.
Mine(i) ==
    \/ meeting.owner = i
    \/ meeting.owner = 0 /\ meeting.minutes = 0 /\ meeting.status # "ok" /\ ~meeting.cleared /\ Active = {i}
Projected(i, state) ==
    IF ~Mine(i) THEN meeting
    ELSE [meeting EXCEPT !.status = "generation_failed", !.owner = 0, !.cancelled = (state = "cancelled")]
Ends(i, state) ==
    /\ runs[i].state = "active"
    /\ runs' = [runs EXCEPT ![i].state = state]
    /\ meeting' = Projected(i, state)
    /\ UNCHANGED <<req, clears>>

\* The handler raises: it may not attach or commit, or the model fails.
Refused(i) ==
    /\ (Running(i, "attach") /\ ~Attachable(i)) \/ (Running(i, "write") /\ ~OwnsGeneration(i))
    /\ Ends(i, "failed") /\ UNCHANGED faults
Fail(i) == Fault /\ Ends(i, "failed")
Cancel(i) == Fault /\ Ends(i, "cancelled")

\* A new dispatcher takes the run over: its output says how far it got.
Takeover(i) ==
    /\ Fault /\ runs[i].state = "active"
    /\ runs' = [runs EXCEPT ![i].at = IF runs[i].committed THEN "project" ELSE "attach"]
    /\ UNCHANGED <<meeting, req, clears>>

\* write_cleanup(), one transaction of the meeting.outputs.clear run.
Clearable == ~meeting.cleared \/ meeting.minutes # 0 \/ meeting.status # "none" \/ meeting.owner # 0
Clear ==
    /\ clears < MaxClears /\ clears' = clears + 1
    /\ meeting' = IF ~Clearable THEN meeting
                  ELSE [meeting EXCEPT !.minutes = 0, !.status = "none", !.cleared = TRUE, !.gen = @ + 1,
                                       !.owner = 0, !.cancelled = FALSE, !.asked = FALSE]
    /\ runs' = [i \in RunIds |-> [runs[i] EXCEPT !.void = @ \/ runs[i].committed]]
    /\ UNCHANGED <<req, faults>>

----------------------------------------------------------------------------
Steps(r) == Look(r) \/ Read(r) \/ LookAgain(r) \/ List(r) \/ Create(r) \/ Winner(r) \/ Adopt(r) \/ Mark(r) \/ Wait(r)
Handles(i) == Attach(i) \/ Commit(i) \/ Succeed(i) \/ Refused(i)
Next ==
    \/ \E r \in Requests : Steps(r)
    \/ \E i \in RunIds : Handles(i) \/ Fail(i) \/ Cancel(i) \/ Takeover(i)
    \/ Clear

Spec == Init /\ [][Next]_vars
FairSpec ==
    /\ Spec
    /\ \A r \in Requests : WF_vars(Steps(r))
    /\ WF_vars(\E i \in RunIds : Handles(i))

----------------------------------------------------------------------------
TypeOK ==
    /\ meeting.owner \in 0 .. Len(runs) /\ meeting.minutes \in 0 .. Len(runs)
    /\ meeting.status \in {"none", "generating", "ok", "generation_failed"}
    /\ \A i \in RunIds : runs[i].state \in {"active", "succeeded", "failed", "cancelled"}
                         /\ runs[i].at \in {"attach", "write", "project"} /\ runs[i].parent \in 0 .. i - 1
    /\ \A r \in Requests : req[r].run \in 0 .. Len(runs)

\* A meeting that says "generating" is owned by a run that is active and has not committed; a
\* run that ended, however it ended, has given the meeting back (write_terminal_projection).
NoOrphanGeneration ==
    /\ meeting.status = "generating" <=> meeting.owner # 0
    /\ meeting.owner # 0 => runs[meeting.owner].state = "active" /\ ~runs[meeting.owner].committed

\* Minutes the user cleared come back only for a request that read the meeting after the clear:
\* no run and no request that was under way writes them (write_generation_marker, write_success).
ClearIsRespected == meeting.minutes # 0 => meeting.asked

\* Minutes stand only with the status that says so, and no answer gives minutes that were
\* cleared before the request came in.
AnswersAreCurrent ==
    /\ meeting.minutes # 0 <=> meeting.status = "ok"
    /\ \A r \in Requests : At(r, "answered") => runs[req[r].run].committed /\ req[r].run \notin req[r].stale

AllAnswered == \A r \in Requests : req[r].at \in {"answered", "refused"}

\* Every request is answered or refused although runs fail, are cancelled or change hands.
RequestReturns == []<>AllAnswered

=============================================================================
