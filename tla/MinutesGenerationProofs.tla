----------------------- MODULE MinutesGenerationProofs -----------------------
(***************************************************************************)
(* Minutes belong to the run that owns the meeting, a clear is respected   *)
(* and an answer is current, whatever the numbers of requests, runs,       *)
(* clears and faults.                                                      *)
(*                                                                         *)
(* The generation of the meeting decides (Fine): while it is the one a     *)
(* request has read, the meeting has been asked for, has no minutes, and   *)
(* no run that is active has committed; so the marker the request writes   *)
(* revives nothing.  Only the last run can be active (RunsFine), and after *)
(* a clear of its minutes the meeting stays blank until there is another   *)
(* run (MeetingFine).                                                      *)
(***************************************************************************)
EXTENDS MinutesGeneration, TLAPS

RunStates == {"active", "succeeded", "failed", "cancelled"}
RunRows == [state : RunStates, at : {"attach", "write", "project"}, parent : Nat,
            committed : BOOLEAN, void : BOOLEAN]
MeetingRows == [gen : Nat, owner : Nat, status : {"none", "generating", "ok", "generation_failed"},
                minutes : Nat, cleared : BOOLEAN, cancelled : BOOLEAN, asked : BOOLEAN]
Places == {"new", "look", "join", "read", "recheck", "list", "create", "winner", "adopt", "mark",
           "wait", "answered", "refused"}
Calls == [at : Places, gen : Nat, latest : Nat, ended : RunStates \cup {"none"}, run : Nat,
          last : BOOLEAN, stale : SUBSET Nat]

\* Where a request has read the meeting, and where it has found no run after that.
HasRead == {"recheck", "list", "create", "winner", "adopt", "mark"}
HasLooked == {"list", "create", "winner", "adopt", "mark"}

\* The last run is the only one that may be active; what is written only when it ends well, or is
\* cleared, was committed.
RunsFine(rs) ==
    \A i \in 1 .. Len(rs) :
        /\ rs[i].parent < i
        /\ rs[i].state = "active" => i = Len(rs)
        /\ rs[i].at = "project" <=> rs[i].committed
        /\ rs[i].state = "succeeded" => rs[i].committed
        /\ rs[i].void => rs[i].committed

Blank(m) == m.cleared /\ m.minutes = 0 /\ m.status = "none" /\ m.owner = 0

\* The meeting is owned by a run at work, shows minutes that were not cleared, and has either
\* because somebody asked.
MeetingFine(m, rs) ==
    /\ m.owner <= Len(rs) /\ m.minutes <= Len(rs)
    /\ m.status = "generating" <=> m.owner # 0
    /\ m.owner # 0 => rs[m.owner].state = "active" /\ ~rs[m.owner].committed /\ m.asked
    /\ m.minutes # 0 <=> m.status = "ok"
    /\ m.minutes # 0 => rs[m.minutes].committed /\ ~rs[m.minutes].void /\ m.asked
    /\ Len(rs) # 0 /\ ~m.cleared => m.asked
    /\ Len(rs) # 0 /\ rs[Len(rs)].void => Blank(m)

\* What a request has read is still so while the generation is the same; the runs whose minutes
\* were cleared before it came are over, and it waits for none of them.
Fine(q, m, rs) ==
    /\ q.run <= Len(rs) /\ q.latest <= Len(rs) /\ q.gen <= m.gen
    /\ \A i \in q.stale : i \in 1 .. Len(rs) /\ rs[i].void
    /\ q.at \in HasRead \cup {"read"} => \A i \in q.stale : rs[i].state # "active"
    /\ q.at \in HasRead /\ q.gen = m.gen => m.asked
    /\ q.at \in HasLooked /\ q.gen = m.gen =>
          m.minutes = 0 /\ \A i \in 1 .. Len(rs) : rs[i].state = "active" => ~rs[i].committed
    /\ q.at = "recheck" =>
          /\ q.run = 0 /\ q.gen = m.gen => m.minutes = 0
          /\ q.run # 0 => rs[q.run].committed /\ q.run \notin q.stale
    /\ q.at \in {"recheck", "list", "create"} /\ Len(rs) \in q.stale => q.gen = m.gen
    /\ q.at = "create" =>
          /\ \A i \in q.stale : i <= q.latest
          /\ q.ended = "active" => q.latest # 0 /\ q.latest \notin q.stale /\ Len(rs) \notin q.stale
    /\ q.at \in {"winner", "adopt", "mark"} => Len(rs) \notin q.stale
    /\ q.at \in {"join", "adopt", "mark", "wait"} => q.run # 0
    /\ q.at \in {"adopt", "mark", "wait"} => q.run \notin q.stale
    /\ q.at = "answered" => q.run # 0 /\ rs[q.run].committed /\ q.run \notin q.stale

KindInv == meeting \in MeetingRows /\ runs \in Seq(RunRows) /\ req \in [Requests -> Calls]

IInv ==
    /\ KindInv
    /\ RunsFine(runs) /\ MeetingFine(meeting, runs)
    /\ \A r \in Requests : Fine(req[r], meeting, runs)



-----------------------------------------------------------------------------
(* What the parts promise. *)

\* The run a request finds active is the last one.
LEMMA ActiveIsLast ==
    ASSUME runs \in Seq(RunRows), RunsFine(runs)
    PROVE  /\ ActiveRun \in 0 .. Len(runs) /\ Len(runs) \in Nat
           /\ ActiveRun = 0 => \A i \in RunIds : runs[i].state # "active"
           /\ ActiveRun # 0 => ActiveRun = Len(runs) /\ runs[Len(runs)].state = "active"
<1>0. Len(runs) \in Nat
    OBVIOUS
<1>1. CASE Active = {}
    <2>1. ActiveRun = 0
        BY <1>1 DEF ActiveRun
    <2> QED BY <1>0, <1>1, <2>1 DEF Active, RunIds
<1>2. CASE Active # {}
    <2>1. ActiveRun \in Active
        BY <1>2 DEF ActiveRun
    <2>2. ActiveRun \in 1 .. Len(runs) /\ runs[ActiveRun].state = "active"
        BY <2>1 DEF Active, RunIds
    <2>3. ActiveRun = Len(runs)
        BY <2>2 DEF RunsFine
    <2> QED BY <1>0, <2>2, <2>3
<1> QED BY <1>1, <1>2

\* One row of the table of runs is written.
LEMMA RowWritten ==
    ASSUME NEW rs \in Seq(RunRows), NEW i \in 1 .. Len(rs), NEW w \in RunRows
    PROVE  /\ [rs EXCEPT ![i] = w] \in Seq(RunRows)
           /\ Len([rs EXCEPT ![i] = w]) = Len(rs)
           /\ \A j \in 1 .. Len(rs) : [rs EXCEPT ![i] = w][j] = IF j = i THEN w ELSE rs[j]
OBVIOUS

\* A request is as well off after a step that writes no marker for it: runs keep what they
\* committed, none is revived, and a new generation does not begin on minutes that were cleared.
LEMMA FineKept ==
    ASSUME NEW m \in MeetingRows, NEW n \in MeetingRows, NEW rs \in Seq(RunRows), NEW ss \in Seq(RunRows),
           Len(ss) = Len(rs),
           \A i \in 1 .. Len(rs) : /\ rs[i].committed => ss[i].committed
                                   /\ rs[i].void => ss[i].void
                                   /\ ss[i].state = "active" => rs[i].state = "active",
           m.gen <= n.gen,
           n.gen = m.gen => /\ m.asked => n.asked
                            /\ m.minutes = 0 => n.minutes = 0
                            /\ \A i \in 1 .. Len(rs) :
                                 ss[i].committed /\ ss[i].state = "active" => rs[i].committed,
           n.gen # m.gen /\ Len(rs) # 0 => rs[Len(rs)].state = "active" \/ ~rs[Len(rs)].void,
           NEW q \in Calls, Fine(q, m, rs)
    PROVE  Fine(q, n, ss)
<1>0. /\ m.gen \in Nat /\ n.gen \in Nat /\ q.gen \in Nat /\ q.run \in Nat /\ q.latest \in Nat /\ Len(rs) \in Nat
      /\ q.stale \subseteq Nat
    BY DEF MeetingRows, Calls
<1>1. q.run <= Len(ss) /\ q.latest <= Len(ss) /\ q.gen <= n.gen
    BY <1>0 DEF Fine
<1>2. \A i \in q.stale : i \in 1 .. Len(ss) /\ ss[i].void
    BY DEF Fine
<1>3. q.at \in HasRead \cup {"read"} => \A i \in q.stale : ss[i].state # "active"
    BY DEF Fine
<1>4. q.gen = n.gen => n.gen = m.gen
    BY <1>0 DEF Fine
<1>5. q.at \in HasRead /\ q.gen = n.gen => n.asked
    BY <1>4 DEF Fine
<1>6. q.at \in HasLooked /\ q.gen = n.gen =>
          n.minutes = 0 /\ \A i \in 1 .. Len(ss) : ss[i].state = "active" => ~ss[i].committed
    BY <1>4 DEF Fine
<1>7. q.at = "recheck" => /\ q.run = 0 /\ q.gen = n.gen => n.minutes = 0
                          /\ q.run # 0 => ss[q.run].committed /\ q.run \notin q.stale
    BY <1>0, <1>4 DEF Fine
<1>8. q.at \in {"recheck", "list", "create"} /\ Len(ss) \in q.stale => q.gen = n.gen
    <2>1. SUFFICES ASSUME q.at \in {"recheck", "list", "create"}, Len(rs) \in q.stale
                   PROVE  q.gen = n.gen
        OBVIOUS
    <2>2. Len(rs) # 0 /\ rs[Len(rs)].void /\ rs[Len(rs)].state # "active" /\ q.gen = m.gen
        BY <2>1 DEF Fine, HasRead
    <2> QED BY <2>2
<1>9. /\ q.at = "create" => /\ \A i \in q.stale : i <= q.latest
                            /\ q.ended = "active" => q.latest # 0 /\ q.latest \notin q.stale /\ Len(ss) \notin q.stale
      /\ q.at \in {"winner", "adopt", "mark"} => Len(ss) \notin q.stale
      /\ q.at \in {"join", "adopt", "mark", "wait"} => q.run # 0
      /\ q.at \in {"adopt", "mark", "wait"} => q.run \notin q.stale
    BY DEF Fine
<1>10. q.at = "answered" => q.run # 0 /\ ss[q.run].committed /\ q.run \notin q.stale
    BY <1>0 DEF Fine
<1> QED BY <1>1, <1>2, <1>3, <1>5, <1>6, <1>7, <1>8, <1>9, <1>10 DEF Fine

\* A run is begun and marked by a request while nothing is active.
LEMMA FineAfterBegin ==
    ASSUME NEW m \in MeetingRows, NEW n \in MeetingRows, NEW rs \in Seq(RunRows), NEW w \in RunRows,
           ~w.committed, n.gen = m.gen, n.asked = m.asked, n.minutes = m.minutes,
           NEW q \in Calls, Fine(q, m, rs)
    PROVE  Fine(q, n, Append(rs, w))
<1> DEFINE ss == Append(rs, w)
<1>0. /\ q.gen \in Nat /\ q.run \in Nat /\ q.latest \in Nat /\ Len(rs) \in Nat
      /\ q.stale \subseteq Nat /\ Len(ss) = Len(rs) + 1 /\ ss[Len(ss)] = w
      /\ \A i \in 1 .. Len(rs) : ss[i] = rs[i]
    BY DEF Calls
<1> HIDE DEF ss
<1>1. q.run <= Len(ss) /\ q.latest <= Len(ss) /\ q.gen <= n.gen
    BY <1>0 DEF Fine
<1>2. \A i \in q.stale : i \in 1 .. Len(ss) /\ ss[i].void /\ i # Len(ss)
    BY <1>0 DEF Fine
<1>3. q.at \in HasRead \cup {"read"} => \A i \in q.stale : ss[i].state # "active"
    BY <1>0 DEF Fine
<1>5. q.at \in HasRead /\ q.gen = n.gen => n.asked
    BY DEF Fine
<1>6. q.at \in HasLooked /\ q.gen = n.gen =>
          n.minutes = 0 /\ \A i \in 1 .. Len(ss) : ss[i].state = "active" => ~ss[i].committed
    <2>1. \A i \in 1 .. Len(ss) : i = Len(ss) \/ i \in 1 .. Len(rs)
        BY <1>0
    <2> QED BY <1>0, <2>1 DEF Fine
<1>7. q.at = "recheck" => /\ q.run = 0 /\ q.gen = n.gen => n.minutes = 0
                          /\ q.run # 0 => ss[q.run].committed /\ q.run \notin q.stale
    BY <1>0 DEF Fine
<1>9. /\ q.at = "create" => /\ \A i \in q.stale : i <= q.latest
                            /\ q.ended = "active" => q.latest # 0 /\ q.latest \notin q.stale
      /\ Len(ss) \notin q.stale
      /\ q.at \in {"join", "adopt", "mark", "wait"} => q.run # 0
      /\ q.at \in {"adopt", "mark", "wait"} => q.run \notin q.stale
    BY <1>2 DEF Fine
<1>10. q.at = "answered" => q.run # 0 /\ ss[q.run].committed /\ q.run \notin q.stale
    BY <1>0 DEF Fine
<1>11. Fine(q, n, ss)
    BY <1>1, <1>2, <1>3, <1>5, <1>6, <1>7, <1>9, <1>10 DEF Fine
<1> QED BY <1>11 DEF ss

\* The step of one request, and the steps of the others.
LEMMA OneMoves ==
    ASSUME IInv, NEW r \in Requests, NEW q \in Calls, req' = [req EXCEPT ![r] = q],
           meeting' \in MeetingRows, runs' \in Seq(RunRows), RunsFine(runs'), MeetingFine(meeting', runs'),
           Fine(q, meeting', runs'),
           \A p \in Calls : Fine(p, meeting, runs) => Fine(p, meeting', runs')
    PROVE  IInv'
<1>1. req \in [Requests -> Calls] /\ \A p \in Requests : Fine(req[p], meeting, runs)
    BY DEF IInv, KindInv
<1>2. req' \in [Requests -> Calls] /\ \A p \in Requests : req'[p] = IF p = r THEN q ELSE req[p]
    BY <1>1
<1>3. \A p \in Requests : Fine(req'[p], meeting', runs')
    BY <1>1, <1>2
<1> QED BY <1>2, <1>3 DEF IInv, KindInv

LEMMA NobodyMoves ==
    ASSUME IInv, req' = req,
           meeting' \in MeetingRows, runs' \in Seq(RunRows), RunsFine(runs'), MeetingFine(meeting', runs'),
           \A p \in Calls : Fine(p, meeting, runs) => Fine(p, meeting', runs')
    PROVE  IInv'
<1>1. req \in [Requests -> Calls] /\ \A p \in Requests : Fine(req[p], meeting, runs)
    BY DEF IInv, KindInv
<1>2. \A p \in Requests : Fine(req'[p], meeting', runs')
    BY <1>1
<1> QED BY <1>1, <1>2 DEF IInv, KindInv

\* A step that only looks.
LEMMA OneLooks ==
    ASSUME IInv, NEW r \in Requests, NEW q \in Calls, req' = [req EXCEPT ![r] = q], UNCHANGED <<meeting, runs>>,
           Fine(q, meeting, runs)
    PROVE  IInv'
<1>1. /\ meeting \in MeetingRows /\ runs \in Seq(RunRows) /\ RunsFine(runs) /\ MeetingFine(meeting, runs)
      /\ meeting' = meeting /\ runs' = runs
    BY DEF IInv, KindInv
<1> QED BY <1>1, OneMoves

-----------------------------------------------------------------------------
(* The steps of a request that only look. *)

LEMMA Known ==
    ASSUME IInv, NEW r \in Requests
    PROVE  /\ req \in [Requests -> Calls] /\ req[r] \in Calls /\ Fine(req[r], meeting, runs)
           /\ meeting \in MeetingRows /\ runs \in Seq(RunRows) /\ Len(runs) \in Nat
           /\ RunsFine(runs) /\ MeetingFine(meeting, runs)
<1>1. runs \in Seq(RunRows)
    BY DEF IInv, KindInv
<1>2. Len(runs) \in Nat
    BY <1>1
<1> QED BY <1>1, <1>2 DEF IInv, KindInv

\* A request goes to another place, and may take note of a run.
LEMMA GoesOn ==
    ASSUME req \in [Requests -> Calls], NEW r \in Requests, NEW place \in Places, NEW i \in Nat
    PROVE  /\ Goes(r, place) => req' = [req EXCEPT ![r] = [req[r] EXCEPT !.at = place]]
           /\ GoesWith(r, place, i) => req' = [req EXCEPT ![r] = [req[r] EXCEPT !.at = place, !.run = i]]
           /\ [req[r] EXCEPT !.at = place] \in Calls
           /\ [req[r] EXCEPT !.at = place, !.run = i] \in Calls
BY DEF Goes, GoesWith, Calls

\* q says the same as p but for the place.
SameBut(q, p) ==
    /\ q.gen = p.gen /\ q.latest = p.latest /\ q.ended = p.ended /\ q.stale = p.stale

\* A request that is told no, or has to look again, has nothing left to keep.
LEMMA FineAtRest ==
    ASSUME NEW m, NEW rs, NEW p \in Calls, NEW q \in Calls, Fine(p, m, rs), SameBut(q, p), q.run = p.run,
           q.at \in {"refused", "look"}
    PROVE  Fine(q, m, rs)
BY DEF Fine, SameBut, HasRead, HasLooked

LEMMA StepLook ==
    ASSUME IInv, NEW r \in Requests, Look(r)
    PROVE  IInv'
<1> DEFINE p == req[r]
           st == IF At(r, "new") THEN {i \in RunIds : runs[i].void} ELSE p.stale
           q == [p EXCEPT !.at = IF ActiveRun = 0 THEN "read" ELSE "join", !.run = ActiveRun, !.stale = st]
<1>1. /\ req \in [Requests -> Calls] /\ p \in Calls /\ Fine(p, meeting, runs)
      /\ meeting \in MeetingRows /\ runs \in Seq(RunRows) /\ Len(runs) \in Nat
      /\ RunsFine(runs) /\ MeetingFine(meeting, runs)
    BY Known
<1>2. /\ ActiveRun \in 0 .. Len(runs)
      /\ ActiveRun = 0 => \A i \in RunIds : runs[i].state # "active"
    BY <1>1, ActiveIsLast
<1>3. st \in SUBSET Nat /\ \A i \in st : i \in 1 .. Len(runs) /\ runs[i].void
    BY <1>1 DEF RunIds, Fine, Calls
<1>4. req' = [req EXCEPT ![r] = q] /\ UNCHANGED <<meeting, runs>>
    BY <1>1 DEF Look
<1> HIDE DEF st
<1>5. /\ q \in Calls /\ q.at \in {"read", "join"} /\ q.run = ActiveRun /\ q.stale = st
      /\ q.gen = p.gen /\ q.latest = p.latest
      /\ q.at = "read" <=> ActiveRun = 0
    <2> DEFINE pl == IF ActiveRun = 0 THEN "read" ELSE "join"
    <2>1. pl \in Places /\ pl \in {"read", "join"} /\ (pl = "read" <=> ActiveRun = 0)
        BY DEF Places
    <2>2. q = [p EXCEPT !.at = pl, !.run = ActiveRun, !.stale = st]
        OBVIOUS
    <2> HIDE DEF pl, q
    <2>3. ActiveRun \in Nat
        BY <1>1, <1>2
    <2>4. /\ q \in Calls /\ q.at = pl /\ q.run = ActiveRun /\ q.stale = st
          /\ q.gen = p.gen /\ q.latest = p.latest
        BY <1>1, <1>3, <2>1, <2>2, <2>3 DEF Calls
    <2> QED BY <2>1, <2>4
<1> HIDE DEF q
<1>6. Fine(q, meeting, runs)
    <2>1. q.run <= Len(runs) /\ q.latest <= Len(runs) /\ q.gen <= meeting.gen
        BY <1>1, <1>2, <1>5 DEF Fine
    <2>2. q.at = "read" => \A i \in q.stale : runs[i].state # "active"
        BY <1>2, <1>3, <1>5 DEF RunIds
    <2>3. q.at = "join" => q.run # 0
        BY <1>5
    <2> QED BY <1>3, <1>5, <2>1, <2>2, <2>3 DEF Fine, HasRead, HasLooked
<1> QED BY <1>4, <1>5, <1>6, OneLooks

LEMMA StepRead ==
    ASSUME IInv, NEW r \in Requests, Read(r)
    PROVE  IInv'
<1> DEFINE p == req[r]
           q == [p EXCEPT !.at = "recheck", !.gen = meeting.gen, !.run = StoredMinutes]
           n == [meeting EXCEPT !.asked = TRUE]
<1>1. /\ req \in [Requests -> Calls] /\ p \in Calls /\ Fine(p, meeting, runs)
      /\ meeting \in MeetingRows /\ runs \in Seq(RunRows) /\ Len(runs) \in Nat
      /\ RunsFine(runs) /\ MeetingFine(meeting, runs)
    BY Known
<1>2. req' = [req EXCEPT ![r] = q] /\ meeting' = n /\ runs' = runs /\ p.at = "read"
    BY <1>1 DEF Read, At
<1>3. /\ n \in MeetingRows /\ n.gen = meeting.gen /\ n.owner = meeting.owner /\ n.status = meeting.status
      /\ n.minutes = meeting.minutes /\ n.cleared = meeting.cleared /\ n.asked = TRUE
    BY <1>1 DEF MeetingRows
<1>4. /\ q \in Calls /\ q.at = "recheck" /\ q.gen = meeting.gen /\ q.run = meeting.minutes
      /\ q.stale = p.stale /\ q.latest = p.latest
    BY <1>1 DEF Calls, Places, StoredMinutes, MeetingRows
<1> HIDE DEF n, q
<1>5. MeetingFine(n, runs)
    BY <1>1, <1>3 DEF MeetingFine, Blank
<1>6. \A x \in Calls : Fine(x, meeting, runs) => Fine(x, n, runs)
    <2>1. meeting.gen \in Nat
        BY <1>1 DEF MeetingRows
    <2> QED BY <1>1, <1>3, <2>1, FineKept
<1>7. Fine(q, n, runs)
    <2>1. q.run <= Len(runs) /\ q.latest <= Len(runs) /\ q.gen <= n.gen
        BY <1>1, <1>3, <1>4 DEF Fine, MeetingFine, MeetingRows
    <2>2. /\ \A i \in q.stale : i \in 1 .. Len(runs) /\ runs[i].void
          /\ \A i \in q.stale : runs[i].state # "active"
        BY <1>1, <1>2, <1>4 DEF Fine
    <2>3. /\ q.run = 0 => n.minutes = 0
          /\ q.run # 0 => runs[q.run].committed /\ ~runs[q.run].void
        BY <1>1, <1>3, <1>4 DEF MeetingFine
    <2> QED BY <1>3, <1>4, <2>1, <2>2, <2>3 DEF Fine, HasRead, HasLooked
<1> QED BY <1>1, <1>2, <1>3, <1>4, <1>5, <1>6, <1>7, OneMoves

LEMMA StepLookAgain ==
    ASSUME IInv, NEW r \in Requests, LookAgain(r)
    PROVE  IInv'
<1> DEFINE p == req[r]
<1>1. /\ req \in [Requests -> Calls] /\ p \in Calls /\ Fine(p, meeting, runs)
      /\ meeting \in MeetingRows /\ runs \in Seq(RunRows) /\ Len(runs) \in Nat
      /\ RunsFine(runs) /\ MeetingFine(meeting, runs)
    BY Known
<1>2. /\ ActiveRun \in 0 .. Len(runs)
      /\ ActiveRun = 0 => \A i \in RunIds : runs[i].state # "active"
    BY <1>1, ActiveIsLast
<1>3. p.at = "recheck" /\ UNCHANGED <<meeting, runs>>
    BY DEF LookAgain, At
<1>4. CASE ActiveRun # 0
    <2> DEFINE q == [p EXCEPT !.at = "join", !.run = ActiveRun]
    <2>1. q \in Calls /\ req' = [req EXCEPT ![r] = q]
        <3>1. GoesWith(r, "join", ActiveRun)
            BY <1>4 DEF LookAgain, SecondLook
        <3>2. "join" \in Places /\ ActiveRun \in Nat
            BY <1>1, <1>2 DEF Places
        <3>3. GoesWith(r, "join", ActiveRun) => req' = [req EXCEPT ![r] = q]
            BY <1>1 DEF GoesWith
        <3>4. q \in Calls
            BY <1>1, <3>2, GoesOn
        <3> QED BY <3>1, <3>3, <3>4
    <2>2. SameBut(q, p) /\ q.at = "join" /\ q.run = ActiveRun
        BY <1>1 DEF SameBut, Calls
    <2> HIDE DEF q
    <2>3. Fine(q, meeting, runs)
        BY <1>1, <1>2, <1>4, <2>2 DEF Fine, SameBut, HasRead, HasLooked
    <2> QED BY <1>3, <2>1, <2>3, OneLooks
<1>5. CASE ActiveRun = 0
    <2> DEFINE q == [p EXCEPT !.at = IF p.run # 0 THEN "answered" ELSE "list"]
    <2>1. q \in Calls /\ req' = [req EXCEPT ![r] = q]
        BY <1>1, <1>5, GoesOn DEF LookAgain, SecondLook, Places
    <2>2. SameBut(q, p) /\ q.run = p.run /\ q.at = IF p.run # 0 THEN "answered" ELSE "list"
        BY <1>1 DEF SameBut, Calls
    <2> HIDE DEF q
    <2>3. Fine(q, meeting, runs)
        BY <1>1, <1>2, <1>3, <1>5, <2>2 DEF Fine, SameBut, HasRead, HasLooked, RunIds
    <2> QED BY <1>3, <2>1, <2>3, OneLooks
<1> QED BY <1>4, <1>5

LEMMA StepList ==
    ASSUME IInv, NEW r \in Requests, List(r)
    PROVE  IInv'
<1> DEFINE p == req[r]
           en == IF runs = <<>> THEN "none" ELSE Last(runs).state
           q == [p EXCEPT !.at = "create", !.latest = Len(runs), !.ended = en]
<1>1. /\ req \in [Requests -> Calls] /\ p \in Calls /\ Fine(p, meeting, runs)
      /\ meeting \in MeetingRows /\ runs \in Seq(RunRows) /\ Len(runs) \in Nat
      /\ RunsFine(runs) /\ MeetingFine(meeting, runs)
    BY Known
<1>2. p.at = "list" /\ req' = [req EXCEPT ![r] = q] /\ UNCHANGED <<meeting, runs>>
    BY <1>1 DEF List, At
<1>3. en \in RunStates \cup {"none"} /\ (en = "active" => Len(runs) # 0 /\ runs[Len(runs)].state = "active")
    <2>1. CASE runs = <<>>
        BY <2>1 DEF RunStates
    <2>2. CASE runs # <<>>
        <3>1. Len(runs) # 0 /\ Len(runs) \in 1 .. Len(runs) /\ en = runs[Len(runs)].state
            BY <1>1, <2>2 DEF Last
        <3>2. runs[Len(runs)] \in RunRows
            BY <1>1, <3>1
        <3> QED BY <3>1, <3>2 DEF RunRows, RunStates
    <2> QED BY <2>1, <2>2
<1> HIDE DEF en
<1>4. /\ q \in Calls /\ q.at = "create" /\ q.latest = Len(runs) /\ q.ended = en
      /\ q.run = p.run /\ q.gen = p.gen /\ q.stale = p.stale
    BY <1>1, <1>3 DEF Calls, Places
<1> HIDE DEF q
<1>5. /\ \A i \in q.stale : i \in 1 .. Len(runs) /\ runs[i].void
      /\ \A i \in q.stale : runs[i].state # "active"
      /\ q.run <= Len(runs) /\ q.latest <= Len(runs) /\ q.gen <= meeting.gen
    BY <1>1, <1>2, <1>4 DEF Fine, HasRead
<1>6. /\ q.gen = meeting.gen => meeting.asked
      /\ q.gen = meeting.gen =>
            meeting.minutes = 0 /\ \A i \in 1 .. Len(runs) : runs[i].state = "active" => ~runs[i].committed
      /\ Len(runs) \in q.stale => q.gen = meeting.gen
    BY <1>1, <1>2, <1>4 DEF Fine, HasRead, HasLooked
<1>7. q.ended = "active" => q.latest # 0 /\ q.latest \notin q.stale /\ Len(runs) \notin q.stale
    BY <1>3, <1>4, <1>5
<1>8. Fine(q, meeting, runs)
    BY <1>1, <1>4, <1>5, <1>6, <1>7 DEF Fine, HasRead, HasLooked
<1> QED BY <1>2, <1>4, <1>8, OneLooks

\* A request that has the number of a run it may join.
LEMMA MayJoin ==
    ASSUME NEW m \in MeetingRows, NEW rs \in Seq(RunRows), NEW p \in Calls, NEW q \in Calls, Fine(p, m, rs),
           SameBut(q, p), p.at \in {"create", "winner", "adopt", "mark"}, q.at \in {"adopt", "winner", "mark", "wait"},
           q.at # "winner" => q.run # 0 /\ q.run \notin q.stale,
           q.run <= Len(rs), Len(rs) \notin q.stale
    PROVE  Fine(q, m, rs)
<1>1. /\ \A i \in q.stale : i \in 1 .. Len(rs) /\ rs[i].void
      /\ \A i \in q.stale : rs[i].state # "active"
      /\ q.latest <= Len(rs) /\ q.gen <= m.gen
    BY DEF Fine, HasRead, SameBut
<1>2. /\ q.gen = m.gen => m.asked
      /\ q.gen = m.gen =>
            m.minutes = 0 /\ \A i \in 1 .. Len(rs) : rs[i].state = "active" => ~rs[i].committed
    BY DEF Fine, HasRead, HasLooked, SameBut
<1> QED BY <1>1, <1>2 DEF Fine, HasRead, HasLooked

\* The request goes on to a run that it may join.
LEMMA Joins ==
    ASSUME IInv, NEW r \in Requests, NEW i \in 1 .. Len(runs), UNCHANGED <<meeting, runs>>,
           NEW b \in BOOLEAN, req' = [req EXCEPT ![r] = [req[r] EXCEPT !.at = "adopt", !.run = i, !.last = b]],
           req[r].at \in {"create", "winner"}, i \notin req[r].stale, Len(runs) \notin req[r].stale
    PROVE  IInv'
<1> DEFINE p == req[r]
           q == [p EXCEPT !.at = "adopt", !.run = i, !.last = b]
<1>1. /\ req \in [Requests -> Calls] /\ p \in Calls /\ Fine(p, meeting, runs)
      /\ meeting \in MeetingRows /\ runs \in Seq(RunRows) /\ Len(runs) \in Nat
    BY Known
<1>2. q \in Calls /\ q.at = "adopt" /\ q.run = i /\ SameBut(q, p)
    <2>1. i \in Nat /\ "adopt" \in Places
        BY <1>1 DEF Places
    <2>2. q.at = "adopt" /\ q.run = i /\ SameBut(q, p)
        BY <1>1 DEF Calls, SameBut
    <2> DEFINE c == [p EXCEPT !.at = "adopt", !.run = i]
    <2>3. c \in Calls /\ q = [c EXCEPT !.last = b]
        BY <1>1, <2>1, GoesOn
    <2> HIDE DEF c, q
    <2>4. [c EXCEPT !.last = b] \in Calls
        BY <2>3 DEF Calls
    <2> QED BY <2>2, <2>3, <2>4
<1>0. req' = [req EXCEPT ![r] = q]
    OBVIOUS
<1> HIDE DEF q
<1>3. q.run # 0 /\ q.run <= Len(runs) /\ q.run \notin q.stale /\ Len(runs) \notin q.stale
    BY <1>1, <1>2 DEF SameBut
<1>4. Fine(q, meeting, runs)
    BY <1>1, <1>2, <1>3, MayJoin
<1> QED BY <1>0, <1>2, <1>4, OneLooks

LEMMA StepWinner ==
    ASSUME IInv, NEW r \in Requests, Winner(r)
    PROVE  IInv'
<1> DEFINE p == req[r]
<1>1. /\ req \in [Requests -> Calls] /\ p \in Calls /\ Fine(p, meeting, runs)
      /\ meeting \in MeetingRows /\ runs \in Seq(RunRows) /\ Len(runs) \in Nat
      /\ RunsFine(runs) /\ MeetingFine(meeting, runs)
    BY Known
<1>2. p.at = "winner" /\ UNCHANGED <<meeting, runs>>
    BY DEF Winner, At
<1>3. (IF ActiveRun # 0 THEN ActiveRun ELSE Len(runs)) = Len(runs)
    BY <1>1, ActiveIsLast
<1>4. Len(runs) \notin p.stale
    BY <1>1, <1>2 DEF Fine
<1>5. CASE Len(runs) = 0
    <2> DEFINE q == [p EXCEPT !.at = "refused"]
    <2>1. req' = [req EXCEPT ![r] = q]
        BY <1>1, <1>3, <1>5 DEF Winner, Goes
    <2>2. q \in Calls /\ SameBut(q, p) /\ q.run = p.run /\ q.at = "refused"
        BY <1>1 DEF Calls, Places, SameBut
    <2> HIDE DEF q
    <2>3. Fine(q, meeting, runs)
        BY <1>1, <2>2, FineAtRest
    <2> QED BY <1>2, <2>1, <2>2, <2>3, OneLooks
<1>6. CASE Len(runs) # 0
    <2>1. req' = [req EXCEPT ![r] = [req[r] EXCEPT !.at = "adopt", !.run = Len(runs), !.last = TRUE]]
        BY <1>1, <1>3, <1>6 DEF Winner
    <2>2. Len(runs) \in 1 .. Len(runs)
        BY <1>1, <1>6
    <2> QED BY <1>2, <1>4, <2>1, <2>2, Joins
<1> QED BY <1>5, <1>6

\* A request that does not change places but for "winner", "mark", "wait" and the end.
LEMMA Passes ==
    ASSUME IInv, NEW r \in Requests, UNCHANGED <<meeting, runs>>, req[r].at \in {"adopt", "mark"},
           Goes(r, "wait") \/ Goes(r, "mark") \/ Conflict(r)
    PROVE  IInv'
<1> DEFINE p == req[r]
<1>1. /\ req \in [Requests -> Calls] /\ p \in Calls /\ Fine(p, meeting, runs)
      /\ meeting \in MeetingRows /\ runs \in Seq(RunRows) /\ Len(runs) \in Nat
    BY Known
<1>2. PICK pl \in {"wait", "mark", "winner", "refused"} : req' = [req EXCEPT ![r] = [p EXCEPT !.at = pl]]
    BY <1>1 DEF Goes, Conflict
<1> DEFINE q == [p EXCEPT !.at = pl]
<1>3. q \in Calls /\ q.at = pl /\ q.run = p.run /\ SameBut(q, p)
    BY <1>1 DEF Calls, Places, SameBut
<1>4. req' = [req EXCEPT ![r] = q]
    BY <1>2
<1> HIDE DEF q
<1>5. CASE pl = "refused"
    <2>1. Fine(q, meeting, runs)
        BY <1>1, <1>3, <1>5, FineAtRest
    <2> QED BY <1>3, <1>4, <2>1, OneLooks
<1>6. CASE pl # "refused"
    <2>1. q.run # 0 /\ q.run \notin q.stale /\ q.run <= Len(runs) /\ Len(runs) \notin q.stale
        BY <1>1, <1>3 DEF Fine, SameBut
    <2>2. Fine(q, meeting, runs)
        BY <1>1, <1>3, <1>6, <2>1, MayJoin
    <2> QED BY <1>3, <1>4, <2>2, OneLooks
<1> QED BY <1>5, <1>6

LEMMA StepAdopt ==
    ASSUME IInv, NEW r \in Requests, Adopt(r)
    PROVE  IInv'
<1>1. req[r].at = "adopt" /\ UNCHANGED <<meeting, runs>>
    BY DEF Adopt, At
<1>2. Goes(r, "wait") \/ Goes(r, "mark") \/ Conflict(r)
    BY DEF Adopt
<1> QED BY <1>1, <1>2, Passes

LEMMA StepWait ==
    ASSUME IInv, NEW r \in Requests, Wait(r)
    PROVE  IInv'
<1> DEFINE p == req[r]
           done == runs[p.run].state
<1>1. /\ req \in [Requests -> Calls] /\ p \in Calls /\ Fine(p, meeting, runs)
      /\ meeting \in MeetingRows /\ runs \in Seq(RunRows) /\ Len(runs) \in Nat
      /\ RunsFine(runs) /\ MeetingFine(meeting, runs)
    BY Known
<1>2. PICK pl \in {"refused", "answered", "look"} :
        /\ req' = [req EXCEPT ![r] = [p EXCEPT !.at = pl]]
        /\ pl = "answered" => p.at = "wait" /\ done = "succeeded"
    BY <1>1 DEF Goes, Wait, At
<1>3. p.at \in {"wait", "join"} /\ UNCHANGED <<meeting, runs>>
    BY DEF Wait
<1> DEFINE q == [p EXCEPT !.at = pl]
<1>4. q \in Calls /\ q.at = pl /\ q.run = p.run /\ SameBut(q, p)
    BY <1>1 DEF Calls, Places, SameBut
<1>5. req' = [req EXCEPT ![r] = q]
    BY <1>2
<1> HIDE DEF q
<1>6. Fine(q, meeting, runs)
    <2>1. CASE pl # "answered"
        BY <1>1, <1>2, <1>4, <2>1, FineAtRest
    <2>2. CASE pl = "answered"
        <3>1. p.at = "wait" /\ done = "succeeded"
            BY <1>2, <2>2
        <3>2. p.run # 0 /\ p.run \notin p.stale /\ p.run \in 1 .. Len(runs)
            BY <1>1, <3>1 DEF Fine, Calls
        <3>3. runs[p.run].committed
            BY <1>1, <3>1, <3>2 DEF RunsFine
        <3>4. /\ \A i \in q.stale : i \in 1 .. Len(runs) /\ runs[i].void
              /\ q.run <= Len(runs) /\ q.latest <= Len(runs) /\ q.gen <= meeting.gen
            BY <1>1, <1>4 DEF Fine, SameBut
        <3> QED BY <1>4, <2>2, <3>2, <3>3, <3>4 DEF Fine, HasRead, HasLooked, SameBut
    <2> QED BY <2>1, <2>2
<1> QED BY <1>3, <1>4, <1>5, <1>6, OneLooks

-----------------------------------------------------------------------------
(* The steps that write the marker. *)

\* The marker: the run owns the meeting, and says so.
LEMMA MarkedRow ==
    ASSUME meeting \in MeetingRows, NEW i \in Nat
    PROVE  /\ Marked(i) \in MeetingRows /\ Marked(i).owner = i /\ Marked(i).status = "generating"
           /\ Marked(i).gen = meeting.gen /\ Marked(i).minutes = meeting.minutes
           /\ Marked(i).asked = meeting.asked /\ Marked(i).cleared = FALSE
BY DEF Marked, MeetingRows

\* A meeting that somebody asked for and that has no minutes may be marked for a run at work.
LEMMA MeetingMarked ==
    ASSUME NEW n, NEW rs \in Seq(RunRows), NEW i \in 1 .. Len(rs), n.owner = i, n.status = "generating",
           n.minutes = 0, n.asked, RunsFine(rs), rs[i].state = "active", ~rs[i].committed
    PROVE  MeetingFine(n, rs)
<1>1. i = Len(rs) /\ Len(rs) \in Nat /\ ~rs[i].void
    BY DEF RunsFine
<1> QED BY <1>1 DEF MeetingFine

LEMMA StepMark ==
    ASSUME IInv, NEW r \in Requests, Mark(r)
    PROVE  IInv'
<1> DEFINE p == req[r]
           i == p.run
<1>1. /\ req \in [Requests -> Calls] /\ p \in Calls /\ Fine(p, meeting, runs)
      /\ meeting \in MeetingRows /\ runs \in Seq(RunRows) /\ Len(runs) \in Nat
      /\ RunsFine(runs) /\ MeetingFine(meeting, runs)
    BY Known
<1>2. p.at = "mark" /\ runs' = runs
    BY DEF Mark, At
<1>3. CASE UNCHANGED meeting /\ (Goes(r, "wait") \/ Conflict(r))
    BY <1>2, <1>3, Passes
<1>4. CASE runs[i].state = "active" /\ Markable(p.gen, i) /\ Goes(r, "wait") /\ meeting' = Marked(i)
    <2> DEFINE q == [p EXCEPT !.at = "wait"]
    <2>1. req' = [req EXCEPT ![r] = q]
        BY <1>1, <1>4 DEF Goes
    <2>2. q \in Calls /\ SameBut(q, p) /\ q.run = p.run /\ q.at = "wait"
        BY <1>1 DEF Calls, Places, SameBut
    <2> HIDE DEF q
    <2>3. i \in 1 .. Len(runs) /\ i \notin p.stale /\ Len(runs) \notin p.stale /\ i \in Nat
        BY <1>1, <1>2 DEF Fine, Calls
    <2>4. Fine(q, meeting, runs)
        BY <1>1, <1>2, <2>2, <2>3, MayJoin DEF SameBut
    <2>5. p.gen = meeting.gen /\ meeting.asked /\ meeting.minutes = 0 /\ ~runs[i].committed
        BY <1>1, <1>2, <1>4, <2>3 DEF Fine, HasRead, HasLooked, Markable
    <2>6. /\ meeting' \in MeetingRows /\ meeting'.owner = i /\ meeting'.status = "generating"
          /\ meeting'.gen = meeting.gen /\ meeting'.minutes = 0 /\ meeting'.asked
        BY <1>1, <1>4, <2>3, <2>5, MarkedRow
    <2>7. MeetingFine(meeting', runs)
        BY <1>1, <1>4, <2>3, <2>5, <2>6, MeetingMarked
    <2>8. meeting.gen \in Nat
        BY <1>1 DEF MeetingRows
    <2>9. \A x \in Calls : Fine(x, meeting, runs) => Fine(x, meeting', runs)
        BY <1>1, <2>6, <2>8, FineKept
    <2> QED BY <1>1, <1>2, <2>1, <2>2, <2>4, <2>6, <2>7, <2>9, OneMoves
<1>5. \/ UNCHANGED meeting /\ (Goes(r, "wait") \/ Conflict(r))
      \/ runs[i].state = "active" /\ Markable(p.gen, i) /\ Goes(r, "wait") /\ meeting' = Marked(i)
    BY DEF Mark
<1> QED BY <1>3, <1>4, <1>5

\* The run that is joined, in the order in which Create looks for it.
LEMMA WhoIsJoined ==
    ASSUME IInv, NEW r \in Requests, req[r].at = "create", NEW joined,
           joined = CASE req[r].ended = "active" -> req[r].latest
                      [] Child(r) # {} -> CHOOSE i \in Child(r) : TRUE
                      [] OTHER -> IF Retries(r) THEN 0 ELSE ActiveRun,
           joined # 0
    PROVE  /\ joined \in 1 .. Len(runs) /\ joined \notin req[r].stale
           /\ Len(runs) \notin req[r].stale
<1> DEFINE p == req[r]
<1>1. /\ p \in Calls /\ Fine(p, meeting, runs)
      /\ runs \in Seq(RunRows) /\ Len(runs) \in Nat /\ RunsFine(runs)
    BY Known
<1>2. /\ ActiveRun \in 0 .. Len(runs)
      /\ ActiveRun # 0 => ActiveRun = Len(runs) /\ runs[Len(runs)].state = "active"
    BY <1>1, ActiveIsLast
<1>3. /\ \A i \in p.stale : i \in 1 .. Len(runs) /\ runs[i].state # "active" /\ i <= p.latest
      /\ p.ended = "active" => p.latest # 0 /\ p.latest \notin p.stale /\ Len(runs) \notin p.stale
      /\ p.latest \in Nat /\ p.latest <= Len(runs)
    BY <1>1 DEF Fine, HasRead, Calls
<1>4. CASE p.ended = "active"
    <2>0. Child(r) = {}
        BY <1>4 DEF Child, Retries
    <2>1. joined = p.latest
        BY <1>4, <2>0
    <2>2. joined \in 1 .. Len(runs)
        <3>1. \A x \in Nat : x # 0 /\ x <= Len(runs) => x \in 1 .. Len(runs)
            BY <1>1
        <3>2. p.latest \in Nat /\ p.latest # 0 /\ p.latest <= Len(runs)
            BY <1>3, <1>4, Zenon
        <3> QED BY <2>1, <3>1, <3>2, Zenon
    <2> QED BY <1>3, <1>4, <2>1, <2>2
<1>5. CASE p.ended # "active" /\ Child(r) # {}
    <2>1. joined \in Child(r)
        BY <1>5
    <2>2. joined \in 1 .. Len(runs) /\ runs[joined].parent = p.latest
        BY <2>1 DEF Child, RunIds
    <2>3. p.latest < joined
        BY <1>1, <2>2 DEF RunsFine
    <2> QED BY <1>1, <1>3, <2>2, <2>3
<1>6. CASE p.ended # "active" /\ Child(r) = {}
    <2>1. joined = ActiveRun
        BY <1>6
    <2>2. joined = Len(runs) /\ runs[Len(runs)].state = "active"
        BY <1>2, <2>1
    <2>3. Len(runs) \in 1 .. Len(runs)
        BY <1>1, <2>2
    <2>4. Len(runs) \notin p.stale
        BY <1>3, <2>2
    <2> QED BY <2>2, <2>3, <2>4
<1> QED BY <1>4, <1>5, <1>6

LEMMA StepCreate ==
    ASSUME IInv, NEW r \in Requests, Create(r)
    PROVE  IInv'
<1> DEFINE p == req[r]
           joined == CASE req[r].ended = "active" -> req[r].latest
                       [] Child(r) # {} -> CHOOSE i \in Child(r) : TRUE
                       [] OTHER -> IF Retries(r) THEN 0 ELSE ActiveRun
           fresh == Len(runs) + 1
           parent == IF Retries(r) THEN p.latest ELSE 0
<1>1. /\ req \in [Requests -> Calls] /\ p \in Calls /\ Fine(p, meeting, runs)
      /\ meeting \in MeetingRows /\ runs \in Seq(RunRows) /\ Len(runs) \in Nat
      /\ RunsFine(runs) /\ MeetingFine(meeting, runs)
    BY Known
<1>2. /\ ActiveRun \in 0 .. Len(runs)
      /\ ActiveRun = 0 => \A i \in RunIds : runs[i].state # "active"
      /\ ActiveRun # 0 => ActiveRun = Len(runs) /\ runs[Len(runs)].state = "active"
    BY <1>1, ActiveIsLast
<1>3. p.at = "create"
    BY DEF Create, At
<1>4. \/ joined # 0 /\ GoesWith(r, "adopt", joined) /\ UNCHANGED <<meeting, runs>>
      \/ /\ ActiveRun = 0 /\ Markable(p.gen, fresh)
         /\ runs' = Append(runs, NewRun(parent))
         /\ meeting' = Marked(fresh)
         /\ GoesWith(r, "adopt", fresh)
      \/ /\ ActiveRun # 0 \/ ~Markable(p.gen, fresh)
         /\ Goes(r, "winner") /\ UNCHANGED <<meeting, runs>>
    BY DEF Create
<1>5. ASSUME joined # 0, GoesWith(r, "adopt", joined), UNCHANGED <<meeting, runs>> PROVE IInv'
    <2>1. joined \in 1 .. Len(runs) /\ joined \notin p.stale /\ Len(runs) \notin p.stale
        BY <1>3, <1>5, WhoIsJoined
    <2> HIDE DEF joined
    <2>2. joined \in Nat /\ "adopt" \in Places
        BY <1>1, <2>1 DEF Places
    <2> DEFINE q == [p EXCEPT !.at = "adopt", !.run = joined]
    <2>3. req' = [req EXCEPT ![r] = q]
        BY <1>1, <1>5 DEF GoesWith
    <2>4. q \in Calls
        BY <1>1, <2>2, GoesOn
    <2>5. SameBut(q, p) /\ q.at = "adopt" /\ q.run = joined
        BY <1>1 DEF SameBut, Calls
    <2> HIDE DEF q
    <2>6. q.run # 0 /\ q.run <= Len(runs) /\ q.run \notin q.stale /\ Len(runs) \notin q.stale
        BY <1>1, <2>1, <2>5 DEF SameBut
    <2>7. Fine(q, meeting, runs)
        BY <1>1, <1>3, <2>4, <2>5, <2>6, MayJoin
    <2> QED BY <1>5, <2>3, <2>4, <2>7, OneLooks
<1> HIDE DEF joined
<1>6. ASSUME ActiveRun = 0, Markable(p.gen, fresh), runs' = Append(runs, NewRun(parent)),
             meeting' = Marked(fresh), GoesWith(r, "adopt", fresh)
      PROVE  IInv'
    <2> DEFINE w == NewRun(parent)
    <2>1. parent \in Nat /\ parent < fresh /\ parent <= Len(runs)
        BY <1>1 DEF Fine, Calls
    <2> HIDE DEF parent
    <2>2. w \in RunRows /\ w.parent = parent /\ w.state = "active" /\ w.at = "attach" /\ ~w.committed /\ ~w.void
        BY <2>1 DEF NewRun, RunRows, RunStates
    <2>3. runs' = Append(runs, w)
        BY <1>6
    <2> HIDE DEF w
    <2>4. /\ runs' \in Seq(RunRows) /\ Len(runs') = fresh /\ runs'[fresh] = w
          /\ \A i \in 1 .. Len(runs) : runs'[i] = runs[i]
        BY <1>1, <2>2, <2>3
    <2>5. p.gen = meeting.gen /\ meeting.asked /\ meeting.minutes = 0
        BY <1>1, <1>3, <1>6 DEF Fine, HasRead, HasLooked, Markable
    <2>6. /\ meeting' \in MeetingRows /\ meeting'.owner = fresh /\ meeting'.status = "generating"
          /\ meeting'.gen = meeting.gen /\ meeting'.minutes = 0 /\ meeting'.asked = meeting.asked
        <3>1. fresh \in Nat
            BY <1>1
        <3> HIDE DEF fresh
        <3> QED BY <1>1, <1>6, <2>5, <3>1, MarkedRow
    <2>7. RunsFine(runs')
        <3>1. ASSUME NEW i \in 1 .. fresh
              PROVE  /\ runs'[i].parent < i
                     /\ runs'[i].state = "active" => i = fresh
                     /\ runs'[i].at = "project" <=> runs'[i].committed
                     /\ runs'[i].state = "succeeded" => runs'[i].committed
                     /\ runs'[i].void => runs'[i].committed
            <4>1. CASE i = fresh
                BY <2>1, <2>2, <2>4, <4>1
            <4>2. CASE i \in 1 .. Len(runs)
                <5>1. runs'[i] = runs[i] /\ runs[i].state # "active"
                    BY <1>2, <1>6, <2>4, <4>2 DEF RunIds
                <5> QED BY <1>1, <4>2, <5>1 DEF RunsFine
            <4> QED BY <1>1, <4>1, <4>2
        <3> QED BY <2>4, <3>1 DEF RunsFine
    <2>8. MeetingFine(meeting', runs')
        <3>1. fresh \in 1 .. Len(runs')
            BY <1>1, <2>4
        <3> QED BY <2>2, <2>4, <2>5, <2>6, <2>7, <3>1, MeetingMarked
    <2>9. \A x \in Calls : Fine(x, meeting, runs) => Fine(x, meeting', runs')
        BY <1>1, <2>2, <2>3, <2>5, <2>6, FineAfterBegin
    <2> DEFINE q == [p EXCEPT !.at = "adopt", !.run = fresh]
    <2>10. req' = [req EXCEPT ![r] = q]
        BY <1>1, <1>6 DEF GoesWith
    <2>11. q \in Calls
        <3>1. fresh \in Nat /\ "adopt" \in Places
            BY <1>1 DEF Places
        <3> HIDE DEF fresh
        <3> QED BY <1>1, <3>1, GoesOn
    <2>12. SameBut(q, p) /\ q.at = "adopt" /\ q.run = fresh
        BY <1>1 DEF SameBut, Calls
    <2> HIDE DEF q
    <2>13. q.run # 0 /\ q.run <= Len(runs') /\ q.run \notin q.stale /\ Len(runs') \notin q.stale
        BY <1>1, <2>4, <2>12 DEF SameBut, Fine
    <2>14. Fine(p, meeting', runs')
        BY <1>1, <2>9
    <2>15. Fine(q, meeting', runs')
        BY <1>1, <1>3, <2>4, <2>6, <2>11, <2>12, <2>13, <2>14, MayJoin
    <2> QED BY <2>4, <2>6, <2>7, <2>8, <2>9, <2>10, <2>11, <2>15, OneMoves
<1>7. ASSUME ActiveRun # 0 \/ ~Markable(p.gen, fresh), Goes(r, "winner"), UNCHANGED <<meeting, runs>>
      PROVE  IInv'
    <2> DEFINE q == [p EXCEPT !.at = "winner"]
    <2>1. req' = [req EXCEPT ![r] = q]
        BY <1>1, <1>7 DEF Goes
    <2>2. q \in Calls /\ SameBut(q, p) /\ q.run = p.run /\ q.at = "winner"
        BY <1>1 DEF Calls, Places, SameBut
    <2> HIDE DEF q
    <2>3. Len(runs) \notin p.stale
        <3>1. SUFFICES ASSUME Len(runs) \in p.stale PROVE FALSE
            OBVIOUS
        <3>2. Len(runs) \in 1 .. Len(runs) /\ runs[Len(runs)].state # "active" /\ p.gen = meeting.gen
            BY <1>1, <1>3, <3>1 DEF Fine, HasRead
        <3>3. meeting.owner # 0 /\ meeting.owner \in Nat
            BY <1>1, <1>2, <1>7, <3>2 DEF Markable, MeetingRows
        <3>4. meeting.owner \in 1 .. Len(runs) /\ runs[meeting.owner].state = "active"
            BY <1>1, <3>3 DEF MeetingFine
        <3> QED BY <1>1, <3>2, <3>4 DEF RunsFine
    <2>4. q.run <= Len(runs) /\ Len(runs) \notin q.stale
        BY <1>1, <2>2, <2>3 DEF Fine, SameBut
    <2>5. Fine(q, meeting, runs)
        BY <1>1, <1>3, <2>2, <2>4, MayJoin
    <2> QED BY <1>7, <2>1, <2>2, <2>5, OneLooks
<1> QED BY <1>4, <1>5, <1>6, <1>7

-----------------------------------------------------------------------------
(* The steps of the handler. *)

\* What a step of a run at work leaves: its row, and the rest of the table as it was.
LEMMA RowOf ==
    ASSUME IInv, NEW i \in RunIds, runs[i].state = "active", NEW w \in RunRows, runs' = [runs EXCEPT ![i] = w],
           w.parent = runs[i].parent, w.void = runs[i].void, runs[i].committed => w.committed,
           w.at = "project" <=> w.committed, w.state = "succeeded" => w.committed
    PROVE  /\ meeting \in MeetingRows /\ runs \in Seq(RunRows) /\ Len(runs) \in Nat
           /\ RunsFine(runs) /\ MeetingFine(meeting, runs)
           /\ runs' \in Seq(RunRows) /\ Len(runs') = Len(runs) /\ runs'[i] = w
           /\ \A j \in 1 .. Len(runs) : j # i => runs'[j] = runs[j]
           /\ i = Len(runs) /\ i \in 1 .. Len(runs) /\ RunsFine(runs')
           /\ \A j \in 1 .. Len(runs) : /\ runs[j].committed => runs'[j].committed
                                        /\ runs[j].void => runs'[j].void
                                        /\ runs'[j].state = "active" => runs[j].state = "active"
<1>1. runs \in Seq(RunRows) /\ RunsFine(runs) /\ meeting \in MeetingRows /\ MeetingFine(meeting, runs)
    BY DEF IInv, KindInv
<1>2. i \in 1 .. Len(runs) /\ Len(runs) \in Nat
    BY <1>1 DEF RunIds
<1>3. i = Len(runs)
    BY <1>1, <1>2 DEF RunsFine
<1>4. /\ runs' \in Seq(RunRows) /\ Len(runs') = Len(runs) /\ runs'[i] = w
      /\ \A j \in 1 .. Len(runs) : j # i => runs'[j] = runs[j]
    BY <1>1, <1>2, RowWritten
<1>5. runs[i].void => runs[i].committed
    BY <1>1, <1>2 DEF RunsFine
<1>6. RunsFine(runs')
    <2>1. /\ runs'[i].parent = runs[i].parent
          /\ runs'[i].at = "project" <=> runs'[i].committed
          /\ runs'[i].state = "succeeded" => runs'[i].committed
          /\ runs'[i].void => runs'[i].committed
        BY <1>4, <1>5
    <2>2. ASSUME NEW j \in 1 .. Len(runs')
          PROVE  /\ runs'[j].parent < j
                 /\ runs'[j].state = "active" => j = Len(runs')
                 /\ runs'[j].at = "project" <=> runs'[j].committed
                 /\ runs'[j].state = "succeeded" => runs'[j].committed
                 /\ runs'[j].void => runs'[j].committed
        <3>1. CASE j = i
            BY <1>1, <1>2, <1>3, <1>4, <2>1, <3>1 DEF RunsFine
        <3>2. CASE j # i
            BY <1>1, <1>2, <1>3, <1>4, <3>2 DEF RunsFine
        <3> QED BY <3>1, <3>2
    <2> QED BY <2>2 DEF RunsFine
<1>7. ASSUME NEW j \in 1 .. Len(runs)
      PROVE  /\ runs[j].committed => runs'[j].committed
             /\ runs[j].void => runs'[j].void
             /\ runs'[j].state = "active" => runs[j].state = "active"
    <2>1. CASE j = i
        BY <1>4, <2>1
    <2>2. CASE j # i
        BY <1>4, <2>2
    <2> QED BY <2>1, <2>2
<1> QED BY <1>1, <1>2, <1>3, <1>4, <1>6, <1>7

\* A row of the table, written field by field.
LEMMA RowFields ==
    ASSUME NEW w \in RunRows, NEW a \in {"attach", "write", "project"}, NEW s \in RunStates
    PROVE  /\ [w EXCEPT !.at = a] \in RunRows /\ [w EXCEPT !.at = a].at = a
           /\ [w EXCEPT !.at = a].state = w.state /\ [w EXCEPT !.at = a].parent = w.parent
           /\ [w EXCEPT !.at = a].committed = w.committed /\ [w EXCEPT !.at = a].void = w.void
           /\ [w EXCEPT !.state = s] \in RunRows /\ [w EXCEPT !.state = s].at = w.at
           /\ [w EXCEPT !.state = s].state = s /\ [w EXCEPT !.state = s].parent = w.parent
           /\ [w EXCEPT !.state = s].committed = w.committed /\ [w EXCEPT !.state = s].void = w.void
BY DEF RunRows

LEMMA StepAttach ==
    ASSUME IInv, NEW i \in RunIds, Attach(i)
    PROVE  IInv'
<1> DEFINE w == [runs[i] EXCEPT !.at = "write"]
<1>1. /\ runs[i].state = "active" /\ runs[i].at = "attach" /\ meeting.minutes = 0 /\ ~meeting.cleared
      /\ meeting' = Marked(i) /\ req' = req
    BY DEF Attach, Running, Attachable
<1>2. runs \in Seq(RunRows) /\ RunsFine(runs) /\ i \in 1 .. Len(runs) /\ Len(runs) \in Nat
    BY DEF IInv, KindInv, RunIds
<1>3. runs[i] \in RunRows /\ ~runs[i].committed
    BY <1>1, <1>2 DEF RunsFine
<1>4. runs' = [runs EXCEPT ![i] = w]
    BY <1>2 DEF Attach
<1>5. /\ w \in RunRows /\ w.at = "write" /\ w.state = "active" /\ w.parent = runs[i].parent
      /\ w.void = runs[i].void /\ ~w.committed
    BY <1>1, <1>3 DEF RunRows
<1> HIDE DEF w
<1>6. /\ meeting \in MeetingRows /\ MeetingFine(meeting, runs)
      /\ runs' \in Seq(RunRows) /\ Len(runs') = Len(runs) /\ runs'[i] = w /\ RunsFine(runs')
      /\ \A j \in 1 .. Len(runs) : j # i => runs'[j] = runs[j]
      /\ \A j \in 1 .. Len(runs) : /\ runs[j].committed => runs'[j].committed
                                   /\ runs[j].void => runs'[j].void
                                   /\ runs'[j].state = "active" => runs[j].state = "active"
    BY <1>1, <1>3, <1>4, <1>5, RowOf
<1>7. meeting.asked
    BY <1>1, <1>2, <1>6 DEF MeetingFine
<1>8. /\ meeting' \in MeetingRows /\ meeting'.owner = i /\ meeting'.status = "generating"
      /\ meeting'.gen = meeting.gen /\ meeting'.minutes = 0 /\ meeting'.asked
    <2>1. i \in Nat
        BY <1>2
    <2> QED BY <1>1, <1>6, <1>7, <2>1, MarkedRow
<1>9. MeetingFine(meeting', runs')
    BY <1>2, <1>5, <1>6, <1>8, MeetingMarked
<1>10. meeting.gen \in Nat /\ \A j \in 1 .. Len(runs) : runs'[j].committed => runs[j].committed
    BY <1>5, <1>6 DEF MeetingRows
<1>11. \A x \in Calls : Fine(x, meeting, runs) => Fine(x, meeting', runs')
    BY <1>2, <1>6, <1>7, <1>8, <1>10, FineKept
<1> QED BY <1>1, <1>6, <1>8, <1>9, <1>11, NobodyMoves

LEMMA StepCommit ==
    ASSUME IInv, NEW i \in RunIds, Commit(i)
    PROVE  IInv'
<1> DEFINE w == [runs[i] EXCEPT !.at = "project", !.committed = TRUE]
           n == [meeting EXCEPT !.minutes = i, !.status = "ok", !.gen = @ + 1, !.owner = 0,
                                !.cleared = FALSE, !.cancelled = FALSE]
<1>1. /\ runs[i].state = "active" /\ runs[i].at = "write" /\ meeting.owner = i
      /\ meeting' = n /\ req' = req
    BY DEF Commit, Running, OwnsGeneration
<1>2. runs \in Seq(RunRows) /\ RunsFine(runs) /\ i \in 1 .. Len(runs) /\ Len(runs) \in Nat
    BY DEF IInv, KindInv, RunIds
<1>3. runs[i] \in RunRows /\ ~runs[i].committed /\ ~runs[i].void
    BY <1>1, <1>2 DEF RunsFine
<1>4. runs' = [runs EXCEPT ![i] = w]
    BY <1>2 DEF Commit
<1>5. /\ w \in RunRows /\ w.at = "project" /\ w.state = "active" /\ w.parent = runs[i].parent
      /\ w.void = runs[i].void /\ w.committed
    BY <1>1, <1>3 DEF RunRows
<1> HIDE DEF w
<1>6. /\ meeting \in MeetingRows /\ MeetingFine(meeting, runs)
      /\ runs' \in Seq(RunRows) /\ Len(runs') = Len(runs) /\ runs'[i] = w /\ RunsFine(runs') /\ i = Len(runs)
      /\ \A j \in 1 .. Len(runs) : /\ runs[j].committed => runs'[j].committed
                                   /\ runs[j].void => runs'[j].void
                                   /\ runs'[j].state = "active" => runs[j].state = "active"
    BY <1>1, <1>3, <1>4, <1>5, RowOf
<1>7. /\ n \in MeetingRows /\ n.minutes = i /\ n.status = "ok" /\ n.gen = meeting.gen + 1 /\ n.owner = 0
      /\ n.asked = meeting.asked
    <2>1. i \in Nat /\ meeting.gen + 1 \in Nat
        BY <1>2, <1>6 DEF MeetingRows
    <2> DEFINE g == meeting.gen + 1
    <2>2. g \in Nat /\ n = [meeting EXCEPT !.minutes = i, !.status = "ok", !.gen = g, !.owner = 0,
                                           !.cleared = FALSE, !.cancelled = FALSE]
        BY <2>1
    <2> HIDE DEF g, n
    <2>3. /\ n \in MeetingRows /\ n.minutes = i /\ n.status = "ok" /\ n.gen = g /\ n.owner = 0
          /\ n.asked = meeting.asked
        BY <1>6, <2>1, <2>2 DEF MeetingRows
    <2> QED BY <2>3 DEF g
<1> HIDE DEF n
<1>8. meeting.asked
    BY <1>1, <1>2, <1>6 DEF MeetingFine
<1>9. MeetingFine(meeting', runs')
    BY <1>1, <1>2, <1>3, <1>5, <1>6, <1>7, <1>8 DEF MeetingFine
<1>10. meeting.gen \in Nat
    BY <1>6 DEF MeetingRows
<1>11. meeting.gen <= n.gen /\ n.gen # meeting.gen
    BY <1>7, <1>10
<1>12. \A x \in Calls : Fine(x, meeting, runs) => Fine(x, meeting', runs')
    BY <1>1, <1>2, <1>3, <1>6, <1>7, <1>11, FineKept
<1> QED BY <1>1, <1>6, <1>7, <1>9, <1>12, NobodyMoves

\* The meeting is as it was and the row of a run at work changes its state or its place.
LEMMA StepOfRow ==
    ASSUME IInv, NEW i \in RunIds, runs[i].state = "active", NEW w \in RunRows, runs' = [runs EXCEPT ![i] = w],
           w.parent = runs[i].parent, w.void = runs[i].void, w.committed = runs[i].committed,
           w.at = "project" <=> w.committed, w.state = "succeeded" => w.committed,
           NEW n \in MeetingRows, meeting' = n, req' = req,
           n.gen = meeting.gen, n.minutes = meeting.minutes, n.asked = meeting.asked, MeetingFine(n, runs')
    PROVE  IInv'
<1>1. /\ meeting \in MeetingRows /\ runs \in Seq(RunRows)
      /\ runs' \in Seq(RunRows) /\ Len(runs') = Len(runs) /\ runs'[i] = w /\ RunsFine(runs')
      /\ \A j \in 1 .. Len(runs) : j # i => runs'[j] = runs[j]
      /\ \A j \in 1 .. Len(runs) : /\ runs[j].committed => runs'[j].committed
                                   /\ runs[j].void => runs'[j].void
                                   /\ runs'[j].state = "active" => runs[j].state = "active"
    BY RowOf
<1>2. meeting.gen \in Nat /\ \A j \in 1 .. Len(runs) : runs'[j].committed => runs[j].committed
    BY <1>1 DEF MeetingRows
<1>3. \A x \in Calls : Fine(x, meeting, runs) => Fine(x, meeting', runs')
    <2>1. /\ meeting.gen <= n.gen /\ n.gen = meeting.gen
          /\ meeting.asked => n.asked
          /\ meeting.minutes = 0 => n.minutes = 0
        BY <1>2
    <2>2. \A x \in Calls : Fine(x, meeting, runs) => Fine(x, n, runs')
        BY <1>1, <1>2, <2>1, FineKept
    <2> QED BY <2>2
<1> QED BY <1>1, <1>3, NobodyMoves

LEMMA StepSucceed ==
    ASSUME IInv, NEW i \in RunIds, Succeed(i)
    PROVE  IInv'
<1> DEFINE w == [runs[i] EXCEPT !.state = "succeeded"]
<1>1. runs[i].state = "active" /\ runs[i].at = "project" /\ meeting' = meeting /\ req' = req
    BY DEF Succeed, Running
<1>2. /\ runs \in Seq(RunRows) /\ RunsFine(runs) /\ i \in 1 .. Len(runs) /\ Len(runs) \in Nat
      /\ meeting \in MeetingRows /\ MeetingFine(meeting, runs)
    BY DEF IInv, KindInv, RunIds
<1>3. runs[i] \in RunRows /\ runs[i].committed
    BY <1>1, <1>2 DEF RunsFine
<1>4. runs' = [runs EXCEPT ![i] = w]
    BY <1>2 DEF Succeed
<1>5. /\ w \in RunRows /\ w.at = "project" /\ w.state = "succeeded" /\ w.parent = runs[i].parent
      /\ w.void = runs[i].void /\ w.committed = runs[i].committed
    BY <1>1, <1>3 DEF RunRows, RunStates
<1> HIDE DEF w
<1>6. /\ Len(runs') = Len(runs) /\ runs'[i] = w /\ \A j \in 1 .. Len(runs) : j # i => runs'[j] = runs[j]
    BY <1>1, <1>3, <1>4, <1>5, RowOf
<1>7. meeting.owner # i /\ meeting.owner \in Nat /\ meeting.minutes \in Nat
    BY <1>2, <1>3 DEF MeetingFine, MeetingRows
<1>8. MeetingFine(meeting, runs')
    <2>1. \A j \in 1 .. Len(runs) : runs'[j].committed = runs[j].committed /\ runs'[j].void = runs[j].void
        BY <1>5, <1>6
    <2>2. meeting.owner # 0 => meeting.owner \in 1 .. Len(runs) /\ runs'[meeting.owner] = runs[meeting.owner]
        BY <1>2, <1>6, <1>7 DEF MeetingFine
    <2> QED BY <1>2, <1>6, <1>7, <2>1, <2>2 DEF MeetingFine
<1> QED BY <1>1, <1>2, <1>3, <1>4, <1>5, <1>8, StepOfRow

LEMMA StepTakeover ==
    ASSUME IInv, NEW i \in RunIds, Takeover(i)
    PROVE  IInv'
<1> DEFINE a == IF runs[i].committed THEN "project" ELSE "attach"
           w == [runs[i] EXCEPT !.at = a]
<1>1. runs[i].state = "active" /\ meeting' = meeting /\ req' = req
    BY DEF Takeover
<1>2. /\ runs \in Seq(RunRows) /\ RunsFine(runs) /\ i \in 1 .. Len(runs) /\ Len(runs) \in Nat
      /\ meeting \in MeetingRows /\ MeetingFine(meeting, runs)
    BY DEF IInv, KindInv, RunIds
<1>3. runs[i] \in RunRows
    BY <1>2
<1>4. runs' = [runs EXCEPT ![i] = w]
    BY <1>2 DEF Takeover
<1>5. a \in {"attach", "write", "project"} /\ (a = "project" <=> runs[i].committed)
    OBVIOUS
<1> HIDE DEF a
<1>6. /\ w \in RunRows /\ w.at = a /\ w.state = "active" /\ w.parent = runs[i].parent
      /\ w.void = runs[i].void /\ w.committed = runs[i].committed
    BY <1>1, <1>3, <1>5 DEF RunRows
<1> HIDE DEF w
<1>7. /\ Len(runs') = Len(runs) /\ runs'[i] = w /\ \A j \in 1 .. Len(runs) : j # i => runs'[j] = runs[j]
    <2>1. (w.at = "project" <=> w.committed) /\ w.state # "succeeded"
        BY <1>5, <1>6
    <2> QED BY <1>1, <1>4, <1>6, <2>1, RowOf
<1>8. meeting.owner \in Nat /\ meeting.minutes \in Nat
    BY <1>2 DEF MeetingRows
<1>9. MeetingFine(meeting, runs')
    BY <1>1, <1>2, <1>6, <1>7, <1>8 DEF MeetingFine
<1> QED BY <1>1, <1>2, <1>4, <1>5, <1>6, <1>9, StepOfRow

\* The end of a run, however it comes, and what the projector makes of the meeting.
LEMMA StepEnds ==
    ASSUME IInv, NEW i \in RunIds, NEW state \in {"failed", "cancelled"}, Ends(i, state)
    PROVE  IInv'
<1> DEFINE w == [runs[i] EXCEPT !.state = state]
           n == Projected(i, state)
<1>1. runs[i].state = "active" /\ meeting' = n /\ req' = req
    BY DEF Ends
<1>2. /\ runs \in Seq(RunRows) /\ RunsFine(runs) /\ i \in 1 .. Len(runs) /\ Len(runs) \in Nat
      /\ meeting \in MeetingRows /\ MeetingFine(meeting, runs)
    BY DEF IInv, KindInv, RunIds
<1>3. runs[i] \in RunRows /\ i = Len(runs)
    BY <1>1, <1>2 DEF RunsFine
<1>4. runs' = [runs EXCEPT ![i] = w]
    BY <1>2 DEF Ends
<1>5. /\ w \in RunRows /\ w.at = runs[i].at /\ w.state = state /\ w.parent = runs[i].parent
      /\ w.void = runs[i].void /\ w.committed = runs[i].committed
    BY <1>1, <1>3 DEF RunRows, RunStates
<1> HIDE DEF w
<1>6. w.at = "project" <=> w.committed
    BY <1>2, <1>5 DEF RunsFine
<1>7. /\ Len(runs') = Len(runs) /\ runs'[i] = w /\ \A j \in 1 .. Len(runs) : j # i => runs'[j] = runs[j]
    <2>1. w.state # "succeeded"
        BY <1>5
    <2>2. /\ w \in RunRows /\ w.parent = runs[i].parent /\ w.void = runs[i].void
          /\ runs[i].committed => w.committed
        BY <1>5
    <2> QED BY ZenonT(60), <1>1, <1>4, <1>6, <2>1, <2>2, RowOf
<1>8. meeting.owner \in Nat /\ meeting.minutes \in Nat
    BY <1>2 DEF MeetingRows
<1>9. meeting.owner = 0 \/ meeting.owner = i
    BY <1>2, <1>3, <1>8 DEF MeetingFine, RunsFine
<1>10. CASE Mine(i)
    <2>1. n = [meeting EXCEPT !.status = "generation_failed", !.owner = 0, !.cancelled = (state = "cancelled")]
        BY <1>10 DEF Projected
    <2> HIDE DEF n
    <2>2. /\ n \in MeetingRows /\ n.status = "generation_failed" /\ n.owner = 0 /\ n.gen = meeting.gen
          /\ n.minutes = meeting.minutes /\ n.asked = meeting.asked /\ n.cleared = meeting.cleared
        BY <1>2, <2>1 DEF MeetingRows
    <2>3. meeting.minutes = 0
        BY <1>2, <1>10 DEF Mine, MeetingFine
    <2>4. ~runs[i].void
        <3>1. CASE meeting.owner = i
            BY <1>2, <3>1 DEF MeetingFine, RunsFine
        <3>2. CASE ~meeting.cleared
            BY <1>2, <1>3, <3>2 DEF MeetingFine, Blank
        <3> QED BY <1>10, <3>1, <3>2 DEF Mine
    <2>5. Len(runs) # 0 /\ ~meeting.cleared => meeting.asked
        BY <1>2 DEF MeetingFine
    <2>6. MeetingFine(n, runs')
        BY <1>2, <1>3, <1>5, <1>7, <2>2, <2>3, <2>4, <2>5 DEF MeetingFine
    <2> QED BY <1>1, <1>4, <1>5, <1>6, <2>2, <2>6, StepOfRow
<1>11. CASE ~Mine(i)
    <2>1. n = meeting
        BY <1>11 DEF Projected
    <2>2. meeting.owner = 0
        BY <1>9, <1>11 DEF Mine
    <2>3. MeetingFine(meeting, runs')
        BY <1>2, <1>5, <1>7, <1>8, <2>2 DEF MeetingFine
    <2> QED BY <1>1, <1>2, <1>4, <1>5, <1>6, <2>1, <2>3, StepOfRow
<1> QED BY <1>10, <1>11

LEMMA StepClear ==
    ASSUME IInv, Clear
    PROVE  IInv'
<1> DEFINE n == IF ~Clearable THEN meeting
                ELSE [meeting EXCEPT !.minutes = 0, !.status = "none", !.cleared = TRUE, !.gen = @ + 1,
                                     !.owner = 0, !.cancelled = FALSE, !.asked = FALSE]
           V(w) == [w EXCEPT !.void = @ \/ w.committed]
<1>1. /\ runs \in Seq(RunRows) /\ RunsFine(runs) /\ Len(runs) \in Nat
      /\ meeting \in MeetingRows /\ MeetingFine(meeting, runs)
    BY DEF IInv, KindInv
<1>2. meeting' = n /\ runs' = [i \in 1 .. Len(runs) |-> V(runs[i])] /\ req' = req
    BY DEF Clear, RunIds
<1>3. \A w \in RunRows : /\ V(w) \in RunRows /\ V(w).state = w.state /\ V(w).at = w.at /\ V(w).parent = w.parent
                         /\ V(w).committed = w.committed /\ V(w).void = (w.void \/ w.committed)
    BY DEF RunRows
<1> HIDE DEF V
<1>4. \A i \in 1 .. Len(runs) : runs[i] \in RunRows
    BY <1>1
<1>5. runs' \in Seq(RunRows) /\ Len(runs') = Len(runs) /\ \A i \in 1 .. Len(runs) : runs'[i] = V(runs[i])
    <2>1. \A i \in 1 .. Len(runs) : V(runs[i]) \in RunRows
        BY <1>3, <1>4
    <2> QED BY <1>1, <1>2, <2>1
<1>6. \A i \in 1 .. Len(runs) :
        /\ runs'[i].state = runs[i].state /\ runs'[i].at = runs[i].at /\ runs'[i].parent = runs[i].parent
        /\ runs'[i].committed = runs[i].committed /\ runs'[i].void = (runs[i].void \/ runs[i].committed)
    BY <1>3, <1>4, <1>5
<1>7. RunsFine(runs')
    BY <1>1, <1>5, <1>6 DEF RunsFine
<1>8. meeting.gen \in Nat
    BY <1>1 DEF MeetingRows
<1>9. CASE Clearable
    <2>1. n = [meeting EXCEPT !.minutes = 0, !.status = "none", !.cleared = TRUE, !.gen = @ + 1,
                              !.owner = 0, !.cancelled = FALSE, !.asked = FALSE]
        BY <1>9
    <2> HIDE DEF n
    <2>2. /\ n \in MeetingRows /\ n.minutes = 0 /\ n.status = "none" /\ n.cleared /\ n.gen = meeting.gen + 1
          /\ n.owner = 0
        <3> DEFINE g == meeting.gen + 1
        <3>1. g \in Nat
            BY <1>8
        <3>2. n = [meeting EXCEPT !.minutes = 0, !.status = "none", !.cleared = TRUE, !.gen = g,
                                  !.owner = 0, !.cancelled = FALSE, !.asked = FALSE]
            BY <2>1
        <3> HIDE DEF g
        <3>3. /\ n \in MeetingRows /\ n.minutes = 0 /\ n.status = "none" /\ n.cleared /\ n.gen = g
              /\ n.owner = 0
            BY <1>1, <3>1, <3>2 DEF MeetingRows
        <3> QED BY <3>3 DEF g
    <2>3. MeetingFine(n, runs')
        BY <1>1, <1>5, <2>2 DEF MeetingFine, Blank
    <2>4. Len(runs) # 0 => ~runs[Len(runs)].void
        BY <1>1, <1>9 DEF MeetingFine, Blank, Clearable
    <2>5. meeting.gen <= n.gen /\ n.gen # meeting.gen
        BY <1>8, <2>2
    <2>6. \A x \in Calls : Fine(x, meeting, runs) => Fine(x, n, runs')
        BY <1>1, <1>5, <1>6, <2>2, <2>4, <2>5, FineKept
    <2> QED BY <1>2, <1>5, <1>7, <2>2, <2>3, <2>6, NobodyMoves
<1>10. CASE ~Clearable
    <2>1. n = meeting /\ Blank(meeting)
        BY <1>10 DEF Clearable, Blank
    <2>2. MeetingFine(meeting, runs')
        BY <1>1, <1>5, <2>1 DEF MeetingFine, Blank
    <2>3. \A x \in Calls : Fine(x, meeting, runs) => Fine(x, meeting, runs')
        <3> HIDE DEF n
        <3>1. ASSUME NEW i \in 1 .. Len(runs)
              PROVE  /\ runs[i].committed => runs'[i].committed
                     /\ runs[i].void => runs'[i].void
                     /\ runs'[i].state = "active" => runs[i].state = "active"
            BY <1>6
        <3>2. meeting.gen <= meeting.gen
            BY <1>8
        <3>3. ASSUME NEW i \in 1 .. Len(runs), runs'[i].committed PROVE runs[i].committed
            BY <1>6, <3>3
        <3>4. /\ meeting.asked => meeting.asked
              /\ meeting.minutes = 0 => meeting.minutes = 0
              /\ \A i \in 1 .. Len(runs) : runs'[i].committed /\ runs'[i].state = "active" => runs[i].committed
            BY <3>3, Zenon
        <3> QED BY <1>1, <1>5, <3>1, <3>2, <3>4, FineKept
    <2> QED BY <1>1, <1>2, <1>5, <1>7, <2>1, <2>2, <2>3, NobodyMoves
<1> QED BY <1>9, <1>10

-----------------------------------------------------------------------------
(* The theorems. *)

\* A run is one of the steps or nothing changes.
LEMMA StepKeeps ==
    ASSUME IInv, [Next]_vars
    PROVE  IInv'
<1>1. ASSUME NEW r \in Requests, Steps(r) PROVE IInv'
    BY <1>1, StepLook, StepRead, StepLookAgain, StepList, StepCreate, StepWinner, StepAdopt, StepMark, StepWait
       DEF Steps
<1>2. ASSUME NEW i \in RunIds, Handles(i) \/ Fail(i) \/ Cancel(i) \/ Takeover(i) PROVE IInv'
    <2>1. CASE Attach(i) \/ Commit(i) \/ Succeed(i) \/ Takeover(i)
        BY <2>1, StepAttach, StepCommit, StepSucceed, StepTakeover
    <2>2. CASE Ends(i, "failed") \/ Ends(i, "cancelled")
        BY <2>2, StepEnds
    <2> QED BY <1>2, <2>1, <2>2 DEF Handles, Refused, Fail, Cancel
<1>3. CASE UNCHANGED vars
    <2>1. meeting' = meeting /\ runs' = runs /\ req' = req
        BY <1>3 DEF vars
    <2> QED BY <2>1 DEF IInv, KindInv
<1> QED BY <1>1, <1>2, <1>3, StepClear DEF Next

\* The meeting belongs to a run at work, and a request knows what it may rely on, whatever the
\* order in which requests, runs, clears and faults come (api/meetings.py).
THEOREM MinutesInvariant == Spec => []IInv
<1>1. Init => IInv
    <2> SUFFICES ASSUME Init PROVE IInv
        OBVIOUS
    <2>1. meeting \in MeetingRows /\ runs \in Seq(RunRows) /\ Len(runs) = 0
        BY DEF Init, MeetingRows
    <2>2. NoRequest \in Calls
        BY DEF NoRequest, Calls, Places, RunStates
    <2>3. req \in [Requests -> Calls]
        BY <2>2 DEF Init
    <2>4. RunsFine(runs) /\ MeetingFine(meeting, runs)
        BY <2>1 DEF Init, RunsFine, MeetingFine
    <2>5. Fine(NoRequest, meeting, runs)
        BY <2>1 DEF Init, Fine, NoRequest, HasRead, HasLooked
    <2> QED BY <2>1, <2>3, <2>4, <2>5 DEF Init, IInv, KindInv
<1> QED BY <1>1, StepKeeps, PTL DEF Spec

\* Rows, meeting and requests hold what the tables and the handlers say they hold.
THEOREM TypeCorrect == Spec => []TypeOK
<1>1. IInv => TypeOK
    <2> SUFFICES ASSUME IInv PROVE TypeOK
        OBVIOUS
    <2>1. /\ runs \in Seq(RunRows) /\ RunsFine(runs) /\ Len(runs) \in Nat
          /\ meeting \in MeetingRows /\ MeetingFine(meeting, runs)
        BY DEF IInv, KindInv
    <2>2. meeting.owner \in 0 .. Len(runs) /\ meeting.minutes \in 0 .. Len(runs)
        BY <2>1 DEF MeetingFine, MeetingRows
    <2>3. meeting.status \in {"none", "generating", "ok", "generation_failed"}
        BY <2>1 DEF MeetingRows
    <2>4. ASSUME NEW i \in RunIds
          PROVE  /\ runs[i].state \in {"active", "succeeded", "failed", "cancelled"}
                 /\ runs[i].at \in {"attach", "write", "project"}
                 /\ runs[i].parent \in 0 .. i - 1
        <3>1. i \in 1 .. Len(runs)
            BY DEF RunIds
        <3>2. runs[i] \in RunRows
            BY <2>1, <3>1
        <3>3. runs[i].parent < i
            BY <2>1, <3>1 DEF RunsFine
        <3> QED BY <2>1, <3>1, <3>2, <3>3 DEF RunRows, RunStates
    <2>5. ASSUME NEW r \in Requests PROVE req[r].run \in 0 .. Len(runs)
        <3>1. req[r] \in Calls /\ Fine(req[r], meeting, runs)
            BY Known
        <3> QED BY <2>1, <3>1 DEF Calls, Fine
    <2> QED BY <2>2, <2>3, <2>4, <2>5 DEF TypeOK
<1> QED BY <1>1, MinutesInvariant, PTL

\* A meeting that says "generating" belongs to a run at work, and a run that ended has given the
\* meeting back (write_terminal_projection), for any number of requests, runs, clears and faults.
THEOREM NoOrphanGenerationHolds == Spec => []NoOrphanGeneration
<1>1. IInv => NoOrphanGeneration
    BY DEF IInv, MeetingFine, NoOrphanGeneration
<1> QED BY <1>1, MinutesInvariant, PTL

\* Minutes the user cleared come back only for a request that read the meeting after the clear:
\* the compare-and-set on the generation stops every request and run that was under way.
THEOREM ClearIsRespectedHolds == Spec => []ClearIsRespected
<1>1. IInv => ClearIsRespected
    BY DEF IInv, MeetingFine, ClearIsRespected
<1> QED BY <1>1, MinutesInvariant, PTL

\* An answer gives minutes that a run committed and that were not cleared before the request came
\* in, and minutes stand only with the status that says so.
THEOREM AnswersAreCurrentHolds == Spec => []AnswersAreCurrent
<1>1. IInv => AnswersAreCurrent
    BY DEF IInv, MeetingFine, Fine, AnswersAreCurrent, At
<1> QED BY <1>1, MinutesInvariant, PTL

=============================================================================
