----------------------- MODULE MeetingLifecycleProofs -----------------------
(***************************************************************************)
(* Minutes cover the whole transcript, memory holds nothing that is not    *)
(* stored, no process points to a meeting that is not there and no meeting *)
(* that MeetingState opened is left without a process, for every number of *)
(* processes, requests, meetings and faults.                               *)
(*                                                                         *)
(* The invariants are operators of the state they are about, not of the    *)
(* variables: an action that changes the row, the memory of a process and  *)
(* its task is three steps, each of which keeps Sane, in an order in which *)
(* what is left of an invariant's reason is still there.  A meeting opens  *)
(* once, from a row that is not there (RowInv, TaskInv); what is to be     *)
(* summarised is closed and read whole (FinalInv); a closed gate has an    *)
(* ended meeting behind it or a task that holds the lock and ends it       *)
(* (GateInv, LockInv); what memory has ahead of the table is being written *)
(* (MemInv); and an open meeting has a process that points to it or has    *)
(* yet to find it (OwnInv).                                                *)
(***************************************************************************)
EXTENDS MeetingLifecycle, TLAPS, SequenceTheorems

\* What the theorems assume of the constants.
BoundsAreNumbers == MaxMeetings \in Nat /\ MaxFaults \in Nat
TasksHaveHomes == Home \in [Tasks -> Procs]
NoneIsNoMeeting == None \notin Meetings

MaybeMeeting == Meetings \cup {None}
Places == {"idle", "title", "start", "auto_start", "end", "end_only", "fence", "fence_only",
           "ingest", "speaker", "persist"}
LockPlaces == {"start", "auto_start", "end", "end_only", "fence", "fence_only"}
FencePlaces == {"fence", "fence_only"}
Free == {"idle", "speaker", "persist"}

RowKind == [state : {"none", "in_meeting", "ended", "finalized"}, auto : BOOLEAN, loose : BOOLEAN,
            segs : SUBSET Segs, minutes : (SUBSET Segs) \cup {None},
            status : {"none", "ok", "generation_failed"}]
ProcKind == [hydrated : {"no", "found", "yes"}, found : MaybeMeeting, cur : MaybeMeeting,
             active : MaybeMeeting, cool : BOOLEAN, queue : Seq(Tasks), known : SUBSET Meetings,
             mem : [Meetings -> SUBSET Segs], gate : SUBSET Meetings, recovered : BOOLEAN]
TaskKind == [at : Places, then : {"idle", "start", "ingest"}, m : MaybeMeeting,
             seg : Segs \cup {None}]
FinalKind == [p : Procs, m : Meetings, at : {"read", "written"}, snap : SUBSET Segs]

KindInv(rw, pr, tk, fi, ma, fd) ==
    /\ rw \in [Meetings -> RowKind] /\ pr \in [Procs -> ProcKind] /\ tk \in [Tasks -> TaskKind]
    /\ fi \subseteq FinalKind /\ ma \in Nat /\ ma <= MaxMeetings /\ fd \subseteq Segs

\* A meeting that is not there is empty, an open one has no minutes, minutes are whole.
RowFits(r) ==
    /\ r.state = "none" => r = NoRow
    /\ r.state = "in_meeting" => r.minutes = None
    /\ r.minutes # None => r.minutes = r.segs

\* There is a meeting only where an id was given out, and one at most is open.
RowInv(rw, ma) ==
    /\ \A m \in Meetings : RowFits(rw[m]) /\ (rw[m].state # "none" => m <= ma)
    /\ \A m, n \in Meetings : rw[m].state = "in_meeting" /\ rw[n].state = "in_meeting" => m = n

\* A task has the meeting its place is about, and an announced one is not there yet.
TaskFits(x, rw, ma) ==
    /\ x.at \in {"title", "auto_start", "end", "end_only", "fence", "fence_only", "speaker", "persist"}
          => x.m \in Meetings
    /\ x.at \in {"speaker", "persist"} => x.seg \in Segs
    /\ x.at \in {"start", "auto_start"} => x.then # "start"
    /\ x.at \in {"end_only", "fence", "fence_only", "speaker", "persist"} => rw[x.m].state # "none"
    /\ x.at = "auto_start" => x.m <= ma /\ rw[x.m].state = "none"

TaskInv(rw, tk, ma) ==
    /\ \A t \in Tasks : TaskFits(tk[t], rw, ma)
    /\ \A t, u \in Tasks : tk[t].at = "auto_start" /\ tk[u].at = "auto_start" /\ tk[t].m = tk[u].m => t = u

\* What a process points to is there.
ProcFits(P, rw) ==
    /\ P.cur # None => rw[P.cur].state # "none"
    /\ P.hydrated = "found" => P.found \in Meetings /\ rw[P.found].state # "none"
    /\ P.hydrated # "yes" => P.cur = None
    /\ \A m \in P.gate : rw[m].state # "none"

ProcInv(rw, pr) == \A p \in Procs : ProcFits(pr[p], rw)

\* Only segments of the low-level endpoints come to a process that has not loaded its meeting.
RestInv(pr, tk) == \A t \in Tasks : tk[t].at \notin Free => pr[Home[t]].hydrated = "yes"

\* A closed gate has an ended meeting behind it, or a task about to end it.
Fences(p, m, tk) == \E t \in Tasks : Home[t] = p /\ tk[t].at \in FencePlaces /\ tk[t].m = m
GateInv(rw, pr, tk) ==
    \A p \in Procs : \A m \in pr[p].gate : rw[m].state # "in_meeting" \/ Fences(p, m, tk)

\* A segment in memory is stored, being stored into its meeting, or was not written.
Stores(p, m, s, tk) ==
    \E t \in Tasks : Home[t] = p /\ tk[t].at = "persist" /\ tk[t].m = m /\ tk[t].seg = s
MemInv(rw, pr, tk, fd) ==
    \A p \in Procs, m \in Meetings : \A s \in pr[p].mem[m] :
        s \in rw[m].segs \/ s \in fd \/ Stores(p, m, s, tk)

\* A summary is about a meeting that is closed, and about all of it.
FinalFits(f, rw) ==
    /\ rw[f.m].state # "none"
    /\ f.at = "written" => rw[f.m].state # "in_meeting" /\ f.snap = rw[f.m].segs
FinalInv(rw, fi) == \A f \in fi : FinalFits(f, rw)

\* An open meeting has a process that points to it, has found it or has yet to look, unless the
\* low-level start opened it.
Owns(P, m) == P.cur = m \/ P.hydrated = "no" \/ (P.hydrated = "found" /\ P.found = m)
OwnInv(rw, pr) ==
    \A m \in Meetings : rw[m].state = "in_meeting" /\ ~rw[m].loose => \E p \in Procs : Owns(pr[p], m)

Sane(rw, pr, tk, fi, ma, fd) ==
    /\ KindInv(rw, pr, tk, fi, ma, fd)
    /\ RowInv(rw, ma) /\ TaskInv(rw, tk, ma) /\ ProcInv(rw, pr) /\ RestInv(pr, tk)
    /\ GateInv(rw, pr, tk) /\ MemInv(rw, pr, tk, fd) /\ FinalInv(rw, fi) /\ OwnInv(rw, pr)

\* The lock has in line who waits for it, once; who ends a meeting is the first.
LockFits(p, q, tk) ==
    /\ q \in Seq(Tasks) /\ IsInjective(q)
    /\ \A t \in Tasks : t \in ToSet(q) <=> Home[t] = p /\ tk[t].at \in LockPlaces
    /\ \A t \in Tasks : Home[t] = p /\ tk[t].at \in FencePlaces => q # <<>> /\ Head(q) = t
LockInv(pr, tk) == \A p \in Procs : LockFits(p, pr[p].queue, tk)

IInv == /\ Sane(row, proc, task, finals, made, failed) /\ LockInv(proc, task)
        /\ faults \in Nat /\ faults <= MaxFaults

----------------------------------------------------------------------------
(* What a step does to one part of the state at a time.                      *)
USE DEF Free

\* The memory of a process changes in what no invariant is about.
Alike(P, Q) ==
    /\ P.hydrated = Q.hydrated /\ P.found = Q.found /\ P.cur = Q.cur
    /\ P.gate = Q.gate /\ P.mem = Q.mem

\* A step of a process: it points to what is there, a gate it closes has its reason, so has a
\* segment it takes into memory, and it goes on owning its open meeting.
LEMMA ProcStep ==
    ASSUME TasksHaveHomes,
           NEW rw, NEW pr, NEW tk, NEW fi, NEW ma, NEW fd, Sane(rw, pr, tk, fi, ma, fd),
           NEW p \in Procs, NEW P \in ProcKind, ProcFits(P, rw),
           \A t \in Tasks : Home[t] = p /\ tk[t].at \notin Free => P.hydrated = "yes",
           \A m \in P.gate : m \in pr[p].gate \/ rw[m].state # "in_meeting" \/ Fences(p, m, tk),
           \A m \in Meetings : \A s \in P.mem[m] :
              s \in pr[p].mem[m] \/ s \in rw[m].segs \/ s \in fd \/ Stores(p, m, s, tk),
           \A m \in Meetings : rw[m].state = "in_meeting" /\ Owns(pr[p], m) => Owns(P, m)
    PROVE  Sane(rw, [pr EXCEPT ![p] = P], tk, fi, ma, fd)
  <1> DEFINE pr2 == [pr EXCEPT ![p] = P]
  <1>1. /\ pr2 \in [Procs -> ProcKind] /\ pr2[p] = P
        /\ \A q \in Procs : q # p => pr2[q] = pr[q]
    BY DEF Sane, KindInv
  <1> HIDE DEF pr2
  <1>2. KindInv(rw, pr2, tk, fi, ma, fd) /\ RowInv(rw, ma) /\ TaskInv(rw, tk, ma) /\ FinalInv(rw, fi)
    BY <1>1 DEF Sane, KindInv
  <1>3. ProcInv(rw, pr2)
    BY <1>1 DEF Sane, ProcInv
  <1>4. RestInv(pr2, tk)
    <2> SUFFICES ASSUME NEW t \in Tasks, tk[t].at \notin Free PROVE pr2[Home[t]].hydrated = "yes"
      BY DEF RestInv
    <2>1. pr[Home[t]].hydrated = "yes" /\ Home[t] \in Procs
      BY DEF Sane, RestInv, TasksHaveHomes
    <2> QED
      BY <2>1, <1>1
  <1>5. GateInv(rw, pr2, tk)
    BY <1>1 DEF Sane, GateInv
  <1>6. MemInv(rw, pr2, tk, fd)
    BY <1>1 DEF Sane, MemInv
  <1>7. OwnInv(rw, pr2)
    BY <1>1 DEF Sane, OwnInv
  <1> QED
    BY <1>2, <1>3, <1>4, <1>5, <1>6, <1>7 DEF Sane, pr2

LEMMA AlikeStep ==
    ASSUME TasksHaveHomes,
           NEW rw, NEW pr, NEW tk, NEW fi, NEW ma, NEW fd, Sane(rw, pr, tk, fi, ma, fd),
           NEW p \in Procs, NEW P \in ProcKind, Alike(pr[p], P)
    PROVE  Sane(rw, [pr EXCEPT ![p] = P], tk, fi, ma, fd)
  <1>1. ProcFits(P, rw)
    BY DEF Sane, ProcInv, ProcFits, Alike
  <1>2. \A t \in Tasks : Home[t] = p /\ tk[t].at \notin Free => P.hydrated = "yes"
    BY DEF Sane, RestInv, Alike
  <1>3. \A m \in Meetings : Owns(pr[p], m) => Owns(P, m)
    BY DEF Owns, Alike
  <1>4. P.gate = pr[p].gate /\ P.mem = pr[p].mem
    BY DEF Alike
  <1> QED
    BY <1>1, <1>2, <1>3, <1>4, ProcStep

\* A step of a task: it has what its place is about, its process has started, and a task that
\* fenced a meeting or wrote a segment leaves nothing behind that rested on it.
LEMMA TaskStep ==
    ASSUME TasksHaveHomes,
           NEW rw, NEW pr, NEW tk, NEW fi, NEW ma, NEW fd, Sane(rw, pr, tk, fi, ma, fd),
           NEW t \in Tasks, NEW x \in TaskKind, TaskFits(x, rw, ma),
           x.at \notin Free => pr[Home[t]].hydrated = "yes",
           \A u \in Tasks \ {t} : x.at = "auto_start" /\ tk[u].at = "auto_start" => tk[u].m # x.m,
           tk[t].at \in FencePlaces =>
              \/ x.at \in FencePlaces /\ x.m = tk[t].m
              \/ tk[t].m \notin pr[Home[t]].gate
              \/ rw[tk[t].m].state # "in_meeting",
           tk[t].at = "persist" =>
              tk[t].seg \notin pr[Home[t]].mem[tk[t].m] \/ tk[t].seg \in rw[tk[t].m].segs \cup fd
    PROVE  Sane(rw, pr, [tk EXCEPT ![t] = x], fi, ma, fd)
  <1> DEFINE tk2 == [tk EXCEPT ![t] = x]
  <1>1. /\ tk2 \in [Tasks -> TaskKind] /\ tk2[t] = x
        /\ \A u \in Tasks : u # t => tk2[u] = tk[u]
    BY DEF Sane, KindInv
  <1> HIDE DEF tk2
  <1>2. KindInv(rw, pr, tk2, fi, ma, fd) /\ RowInv(rw, ma) /\ ProcInv(rw, pr) /\ FinalInv(rw, fi)
        /\ OwnInv(rw, pr)
    BY <1>1 DEF Sane, KindInv
  <1>3. TaskInv(rw, tk2, ma)
    <2>1. \A u \in Tasks : TaskFits(tk2[u], rw, ma)
      BY <1>1 DEF Sane, TaskInv
    <2>2. ASSUME NEW u \in Tasks, NEW v \in Tasks, tk2[u].at = "auto_start", tk2[v].at = "auto_start",
                 tk2[u].m = tk2[v].m
          PROVE  u = v
      <3>1. CASE u # t /\ v # t
        BY <2>2, <3>1, <1>1 DEF Sane, TaskInv
      <3>2. CASE u = t \/ v = t
        BY <2>2, <3>2, <1>1
      <3> QED
        BY <3>1, <3>2
    <2> QED
      BY <2>1, <2>2 DEF TaskInv
  <1>4. RestInv(pr, tk2)
    BY <1>1 DEF Sane, RestInv
  <1>5. GateInv(rw, pr, tk2)
    <2> SUFFICES ASSUME NEW p \in Procs, NEW m \in pr[p].gate, rw[m].state = "in_meeting"
                 PROVE  Fences(p, m, tk2)
      BY DEF GateInv
    <2>1. PICK u \in Tasks : Home[u] = p /\ tk[u].at \in FencePlaces /\ tk[u].m = m
      BY DEF Sane, GateInv, Fences
    <2>2. CASE u # t
      BY <2>1, <2>2, <1>1 DEF Fences
    <2>3. CASE u = t
      BY <2>1, <2>3, <1>1 DEF Fences
    <2> QED
      BY <2>2, <2>3
  <1>6. MemInv(rw, pr, tk2, fd)
    <2> SUFFICES ASSUME NEW p \in Procs, NEW m \in Meetings, NEW s \in pr[p].mem[m],
                        s \notin rw[m].segs, s \notin fd
                 PROVE  Stores(p, m, s, tk2)
      BY DEF MemInv
    <2>1. PICK u \in Tasks : Home[u] = p /\ tk[u].at = "persist" /\ tk[u].m = m /\ tk[u].seg = s
      BY DEF Sane, MemInv, Stores
    <2>2. u # t
      BY <2>1
    <2> QED
      BY <2>1, <2>2, <1>1 DEF Stores
  <1> QED
    BY <1>2, <1>3, <1>4, <1>5, <1>6 DEF Sane, tk2

\* Ids are given out.
LEMMA MadeStep ==
    ASSUME NEW rw, NEW pr, NEW tk, NEW fi, NEW ma, NEW fd, Sane(rw, pr, tk, fi, ma, fd),
           NEW ma2 \in Nat, ma <= ma2, ma2 <= MaxMeetings
    PROVE  Sane(rw, pr, tk, fi, ma2, fd)
  <1>1. ma \in Nat /\ Meetings \subseteq Nat
    BY DEF Sane, KindInv, Meetings
  <1>2. RowInv(rw, ma2)
    BY <1>1 DEF Sane, RowInv
  <1>3. \A t \in Tasks : tk[t].at = "auto_start" => tk[t].m \in Nat
    BY <1>1 DEF Sane, TaskInv, TaskFits
  <1>4. TaskInv(rw, tk, ma2)
    <2>1. \A t \in Tasks : TaskFits(tk[t], rw, ma2)
      BY <1>1, <1>3 DEF Sane, TaskInv, TaskFits
    <2> QED
      BY <2>1 DEF Sane, TaskInv
  <1> QED
    BY <1>2, <1>4 DEF Sane, KindInv

\* A write fails.
LEMMA FailedStep ==
    ASSUME NEW rw, NEW pr, NEW tk, NEW fi, NEW ma, NEW fd, Sane(rw, pr, tk, fi, ma, fd),
           NEW s \in Segs
    PROVE  Sane(rw, pr, tk, fi, ma, fd \cup {s})
  <1>1. MemInv(rw, pr, tk, fd \cup {s})
    BY DEF Sane, MemInv
  <1> QED
    BY <1>1 DEF Sane, KindInv

\* Summaries begin and end.
LEMMA FinalStep ==
    ASSUME NEW rw, NEW pr, NEW tk, NEW fi, NEW ma, NEW fd, Sane(rw, pr, tk, fi, ma, fd),
           NEW fi2, fi2 \subseteq FinalKind, \A f \in fi2 : FinalFits(f, rw)
    PROVE  Sane(rw, pr, tk, fi2, ma, fd)
  <1>1. FinalInv(rw, fi2)
    BY DEF FinalInv
  <1> QED
    BY <1>1 DEF Sane, KindInv

\* The row of a meeting that is there becomes an ended one with the same segments.
LEMMA RowEnds ==
    ASSUME NEW rw, NEW pr, NEW tk, NEW fi, NEW ma, NEW fd, Sane(rw, pr, tk, fi, ma, fd),
           NEW m \in Meetings, rw[m].state # "none",
           NEW r \in RowKind, r.state \in {"ended", "finalized"}, r.segs = rw[m].segs,
           r.minutes # None => r.minutes = r.segs
    PROVE  Sane([rw EXCEPT ![m] = r], pr, tk, fi, ma, fd)
  <1> DEFINE rw2 == [rw EXCEPT ![m] = r]
  <1>1. /\ rw2 \in [Meetings -> RowKind] /\ rw2[m] = r
        /\ \A n \in Meetings : n # m => rw2[n] = rw[n]
    BY DEF Sane, KindInv
  <1> HIDE DEF rw2
  <1>2. \A n \in Meetings : /\ rw[n].state # "none" => rw2[n].state # "none"
                            /\ rw[n].state = "none" => rw2[n].state = "none"
                            /\ rw2[n].state = "in_meeting" => rw[n].state = "in_meeting"
                            /\ rw2[n].segs = rw[n].segs
    BY <1>1
  <1>3. KindInv(rw2, pr, tk, fi, ma, fd) /\ RestInv(pr, tk)
    BY <1>1 DEF Sane, KindInv
  <1>4. RowInv(rw2, ma)
    <2>1. RowFits(r)
      BY DEF RowFits
    <2> QED
      BY <1>1, <1>2, <2>1 DEF Sane, RowInv
  <1>5. TaskInv(rw2, tk, ma)
    <2>1. \A t \in Tasks : TaskFits(tk[t], rw2, ma)
      BY <1>2 DEF Sane, TaskInv, TaskFits
    <2> QED
      BY <2>1 DEF Sane, TaskInv
  <1>6. ProcInv(rw2, pr)
    <2> SUFFICES ASSUME NEW p \in Procs PROVE ProcFits(pr[p], rw2)
      BY DEF ProcInv
    <2>1. ProcFits(pr[p], rw) /\ pr[p] \in ProcKind
      BY DEF Sane, ProcInv, KindInv
    <2>2. pr[p].cur \in MaybeMeeting /\ pr[p].gate \subseteq Meetings
      BY <2>1 DEF ProcKind
    <2> QED
      BY <2>1, <2>2, <1>2 DEF ProcFits, MaybeMeeting
  <1>7. GateInv(rw2, pr, tk)
    <2>1. \A p \in Procs : pr[p].gate \subseteq Meetings
      BY DEF Sane, KindInv, ProcKind
    <2> QED
      BY <2>1, <1>2 DEF Sane, GateInv
  <1>8. MemInv(rw2, pr, tk, fd)
    BY <1>2 DEF Sane, MemInv
  <1>9. FinalInv(rw2, fi)
    <2>1. \A f \in fi : f.m \in Meetings
      BY DEF Sane, KindInv, FinalKind
    <2> QED
      BY <2>1, <1>2 DEF Sane, FinalInv, FinalFits
  <1>10. OwnInv(rw2, pr)
    BY <1>1, <1>2 DEF Sane, OwnInv
  <1> QED
    BY <1>3, <1>4, <1>5, <1>6, <1>7, <1>8, <1>9, <1>10 DEF Sane, rw2

\* A segment is stored in an open meeting.
LEMMA RowGains ==
    ASSUME NEW rw, NEW pr, NEW tk, NEW fi, NEW ma, NEW fd, Sane(rw, pr, tk, fi, ma, fd),
           NEW m \in Meetings, rw[m].state = "in_meeting", NEW s \in Segs
    PROVE  Sane([rw EXCEPT ![m].segs = @ \cup {s}], pr, tk, fi, ma, fd)
  <1> DEFINE rw2 == [rw EXCEPT ![m].segs = @ \cup {s}]
  <1>0. rw \in [Meetings -> RowKind]
    BY DEF Sane, KindInv
  <1>1. /\ rw2 \in [Meetings -> RowKind]
        /\ rw2[m].state = "in_meeting" /\ rw2[m].segs = rw[m].segs \cup {s}
        /\ rw2[m].minutes = rw[m].minutes /\ rw2[m].loose = rw[m].loose
        /\ \A n \in Meetings : n # m => rw2[n] = rw[n]
    BY <1>0 DEF RowKind
  <1> HIDE DEF rw2
  <1>2. \A n \in Meetings : rw2[n].state = rw[n].state /\ rw[n].segs \subseteq rw2[n].segs
    BY <1>1
  <1>3. KindInv(rw2, pr, tk, fi, ma, fd) /\ RestInv(pr, tk)
    BY <1>1 DEF Sane, KindInv
  <1>4. RowInv(rw2, ma)
    <2>1. RowFits(rw2[m])
      BY <1>1 DEF RowFits, Sane, RowInv
    <2> QED
      BY <1>1, <1>2, <2>1 DEF Sane, RowInv
  <1>5. TaskInv(rw2, tk, ma)
    <2>1. \A t \in Tasks : TaskFits(tk[t], rw2, ma)
      BY <1>2 DEF Sane, TaskInv, TaskFits
    <2> QED
      BY <2>1 DEF Sane, TaskInv
  <1>6. ProcInv(rw2, pr)
    <2> SUFFICES ASSUME NEW p \in Procs PROVE ProcFits(pr[p], rw2)
      BY DEF ProcInv
    <2>1. ProcFits(pr[p], rw) /\ pr[p] \in ProcKind
      BY DEF Sane, ProcInv, KindInv
    <2>2. pr[p].cur \in MaybeMeeting /\ pr[p].gate \subseteq Meetings
      BY <2>1 DEF ProcKind
    <2> QED
      BY <2>1, <2>2, <1>2 DEF ProcFits, MaybeMeeting
  <1>7. GateInv(rw2, pr, tk)
    <2>1. \A p \in Procs : pr[p].gate \subseteq Meetings
      BY DEF Sane, KindInv, ProcKind
    <2> QED
      BY <2>1, <1>2 DEF Sane, GateInv
  <1>8. MemInv(rw2, pr, tk, fd)
    <2> SUFFICES ASSUME NEW p \in Procs, NEW n \in Meetings, NEW z \in pr[p].mem[n]
                 PROVE  z \in rw2[n].segs \/ z \in fd \/ Stores(p, n, z, tk)
      BY DEF MemInv
    <2>1. z \in rw[n].segs \/ z \in fd \/ Stores(p, n, z, tk)
      BY DEF Sane, MemInv
    <2> QED
      BY <2>1, <1>2
  <1>9. FinalInv(rw2, fi)
    <2> SUFFICES ASSUME NEW f \in fi PROVE FinalFits(f, rw2)
      BY DEF FinalInv
    <2>1. f.m \in Meetings /\ FinalFits(f, rw)
      BY DEF Sane, KindInv, FinalKind, FinalInv
    <2> QED
      BY <2>1, <1>1, <1>2 DEF FinalFits
  <1>10. OwnInv(rw2, pr)
    BY <1>1, <1>2 DEF Sane, OwnInv
  <1> QED
    BY <1>3, <1>4, <1>5, <1>6, <1>7, <1>8, <1>9, <1>10 DEF Sane, rw2

\* A meeting opens, and becomes the current one of a process unless it is a low-level one: none is
\* open, it is not there yet, and no other task has announced it.
LEMMA RowOpens ==
    ASSUME TasksHaveHomes,
           NEW rw, NEW pr, NEW tk, NEW fi, NEW ma, NEW fd, Sane(rw, pr, tk, fi, ma, fd),
           NEW m \in Meetings, rw[m].state = "none", m <= ma,
           \A n \in Meetings : rw[n].state # "in_meeting",
           \A t \in Tasks : tk[t].at = "auto_start" => tk[t].m # m,
           NEW r \in RowKind, r.state = "in_meeting", r.minutes = None, r.segs = {},
           NEW p \in Procs, NEW P \in ProcKind, P.hydrated = pr[p].hydrated, P.found = pr[p].found,
           \/ P.cur = m /\ P.hydrated = "yes"
           \/ P.cur = pr[p].cur /\ r.loose,
           P.gate \subseteq pr[p].gate, m \notin P.gate,
           \A n \in Meetings : P.mem[n] \subseteq pr[p].mem[n] \cup rw[n].segs
    PROVE  Sane([rw EXCEPT ![m] = r], [pr EXCEPT ![p] = P], tk, fi, ma, fd)
  <1> DEFINE rw2 == [rw EXCEPT ![m] = r]
             pr2 == [pr EXCEPT ![p] = P]
  <1>1. /\ rw2 \in [Meetings -> RowKind] /\ rw2[m] = r
        /\ \A n \in Meetings : n # m => rw2[n] = rw[n]
    BY DEF Sane, KindInv
  <1>2. /\ pr2 \in [Procs -> ProcKind] /\ pr2[p] = P
        /\ \A q \in Procs : q # p => pr2[q] = pr[q]
    BY DEF Sane, KindInv
  <1> HIDE DEF rw2, pr2
  <1>3. rw[m].segs = {}
    BY DEF Sane, RowInv, RowFits, NoRow
  <1>4. \A n \in Meetings : /\ rw[n].state # "none" => rw2[n].state # "none"
                            /\ rw2[n].segs = rw[n].segs
    BY <1>1, <1>3
  <1>5. KindInv(rw2, pr2, tk, fi, ma, fd)
    BY <1>1, <1>2 DEF Sane, KindInv
  <1>6. RowInv(rw2, ma)
    <2>1. RowFits(r)
      BY DEF RowFits
    <2> QED
      BY <1>1, <2>1 DEF Sane, RowInv
  <1>7. TaskInv(rw2, tk, ma)
    <2>1. ASSUME NEW t \in Tasks PROVE TaskFits(tk[t], rw2, ma)
      <3>1. TaskFits(tk[t], rw, ma)
        BY DEF Sane, TaskInv
      <3>2. tk[t].at = "auto_start" => rw2[tk[t].m] = rw[tk[t].m]
        BY <3>1, <1>1 DEF TaskFits
      <3> QED
        BY <3>1, <3>2, <1>4 DEF TaskFits
    <2> QED
      BY <2>1 DEF Sane, TaskInv
  <1>8. ProcInv(rw2, pr2)
    <2> SUFFICES ASSUME NEW q \in Procs PROVE ProcFits(pr2[q], rw2)
      BY DEF ProcInv
    <2>1. /\ ProcFits(pr[q], rw) /\ pr[q].cur \in MaybeMeeting /\ pr[q].gate \subseteq Meetings
          /\ P.gate \subseteq Meetings
      BY DEF Sane, ProcInv, KindInv, ProcKind
    <2>2. CASE q # p
      BY <2>1, <2>2, <1>2, <1>4 DEF ProcFits, MaybeMeeting
    <2>3. CASE q = p
      BY <2>1, <2>3, <1>1, <1>2, <1>4 DEF ProcFits, MaybeMeeting
    <2> QED
      BY <2>2, <2>3
  <1>9. RestInv(pr2, tk)
    <2> SUFFICES ASSUME NEW t \in Tasks, tk[t].at \notin Free PROVE pr2[Home[t]].hydrated = "yes"
      BY DEF RestInv
    <2>1. pr[Home[t]].hydrated = "yes" /\ Home[t] \in Procs
      BY DEF Sane, RestInv, TasksHaveHomes
    <2> QED
      BY <2>1, <1>2
  <1>10. GateInv(rw2, pr2, tk)
    <2> SUFFICES ASSUME NEW q \in Procs, NEW n \in pr2[q].gate PROVE rw2[n].state # "in_meeting"
      BY DEF GateInv
    <2>1. n \in pr[q].gate /\ n \in Meetings
      BY <1>2 DEF Sane, KindInv, ProcKind
    <2>2. rw[n].state # "none"
      BY <2>1 DEF Sane, ProcInv, ProcFits
    <2> QED
      BY <2>1, <2>2, <1>1
  <1>11. MemInv(rw2, pr2, tk, fd)
    <2> SUFFICES ASSUME NEW q \in Procs, NEW n \in Meetings, NEW z \in pr2[q].mem[n]
                 PROVE  z \in rw2[n].segs \/ z \in fd \/ Stores(q, n, z, tk)
      BY DEF MemInv
    <2>1. z \in pr[q].mem[n] \/ z \in rw[n].segs
      BY <1>2
    <2>2. z \in rw[n].segs \/ z \in fd \/ Stores(q, n, z, tk)
      BY <2>1 DEF Sane, MemInv
    <2> QED
      BY <2>2, <1>4
  <1>12. FinalInv(rw2, fi)
    <2> SUFFICES ASSUME NEW f \in fi PROVE FinalFits(f, rw2)
      BY DEF FinalInv
    <2>1. f.m \in Meetings /\ FinalFits(f, rw)
      BY DEF Sane, KindInv, FinalKind, FinalInv
    <2> QED
      BY <2>1, <1>1 DEF FinalFits
  <1>13. OwnInv(rw2, pr2)
    <2>1. Owns(P, m) \/ r.loose
      BY DEF Owns
    <2> QED
      BY <2>1, <1>1, <1>2 DEF OwnInv
  <1> QED
    BY <1>5, <1>6, <1>7, <1>8, <1>9, <1>10, <1>11, <1>12, <1>13 DEF Sane, rw2, pr2

\* A process dies with its tasks and its summaries.
LEMMA CrashStep ==
    ASSUME TasksHaveHomes,
           NEW rw, NEW pr, NEW tk, NEW fi, NEW ma, NEW fd, Sane(rw, pr, tk, fi, ma, fd),
           NEW p \in Procs
    PROVE  Sane(rw, [pr EXCEPT ![p] = Fresh],
                [t \in Tasks |-> IF Home[t] = p THEN Resting ELSE tk[t]],
                {f \in fi : f.p # p}, ma, fd)
  <1> DEFINE pr2 == [pr EXCEPT ![p] = Fresh]
             tk2 == [t \in Tasks |-> IF Home[t] = p THEN Resting ELSE tk[t]]
             fi2 == {f \in fi : f.p # p}
  <1>1. /\ Fresh \in ProcKind /\ Fresh.hydrated = "no" /\ Fresh.cur = None /\ Fresh.gate = {}
        /\ \A m \in Meetings : Fresh.mem[m] = {}
    <2>1. <<>> \in Seq(Tasks)
      OBVIOUS
    <2> QED
      BY <2>1 DEF Fresh, ProcKind, MaybeMeeting
  <1>2. Resting \in TaskKind /\ Resting.at = "idle"
    BY DEF Resting, TaskKind, Places, MaybeMeeting
  <1>3. /\ pr2 \in [Procs -> ProcKind] /\ pr2[p] = Fresh
        /\ \A q \in Procs : q # p => pr2[q] = pr[q]
    BY <1>1 DEF Sane, KindInv
  <1>4. /\ tk2 \in [Tasks -> TaskKind]
        /\ \A t \in Tasks : IF Home[t] = p THEN tk2[t] = Resting ELSE tk2[t] = tk[t]
    BY <1>2 DEF Sane, KindInv
  <1> HIDE DEF pr2, tk2
  <1>5. KindInv(rw, pr2, tk2, fi2, ma, fd) /\ RowInv(rw, ma) /\ FinalInv(rw, fi2)
    BY <1>3, <1>4 DEF Sane, KindInv, FinalInv
  <1>6. TaskInv(rw, tk2, ma)
    <2>1. TaskFits(Resting, rw, ma)
      BY <1>2 DEF TaskFits
    <2> QED
      BY <2>1, <1>2, <1>4 DEF Sane, TaskInv
  <1>7. ProcInv(rw, pr2)
    <2>1. ProcFits(Fresh, rw)
      BY <1>1 DEF ProcFits
    <2> QED
      BY <2>1, <1>3 DEF Sane, ProcInv
  <1>8. RestInv(pr2, tk2)
    BY <1>2, <1>3, <1>4 DEF Sane, RestInv, TasksHaveHomes
  <1>9. GateInv(rw, pr2, tk2)
    BY <1>1, <1>3, <1>4 DEF Sane, GateInv, Fences
  <1>10. MemInv(rw, pr2, tk2, fd)
    BY <1>1, <1>3, <1>4 DEF Sane, MemInv, Stores
  <1>11. OwnInv(rw, pr2)
    <2>1. \A m \in Meetings : Owns(Fresh, m)
      BY <1>1 DEF Owns
    <2> QED
      BY <2>1, <1>3 DEF Sane, OwnInv
  <1> QED
    BY <1>5, <1>6, <1>7, <1>8, <1>9, <1>10, <1>11 DEF Sane, pr2, tk2

----------------------------------------------------------------------------
(* The lock.                                                                 *)

LEMMA Joining ==
    ASSUME NEW S, NEW q \in Seq(S), IsInjective(q), NEW t \in S, t \notin ToSet(q)
    PROVE  /\ Append(q, t) \in Seq(S) /\ IsInjective(Append(q, t))
           /\ ToSet(Append(q, t)) = ToSet(q) \cup {t}
           /\ Append(q, t) # <<>>
           /\ q # <<>> => Head(Append(q, t)) = Head(q)
  <1> DEFINE a == Append(q, t)
  <1>1. /\ a \in Seq(S) /\ Len(a) = Len(q) + 1 /\ Len(q) \in Nat /\ a # <<>>
        /\ \A i \in 1 .. Len(q) : a[i] = q[i]
        /\ a[Len(q) + 1] = t
        /\ DOMAIN q = 1 .. Len(q) /\ DOMAIN a = 1 .. Len(q) + 1
    BY AppendProperties, LenProperties
  <1>2. q # <<>> => Head(a) = Head(q)
    BY HeadTailAppend
  <1> HIDE DEF a
  <1>3. \A i \in 1 .. Len(q) : q[i] # t
    BY <1>1 DEF ToSet
  <1>4. IsInjective(a)
    <2> SUFFICES ASSUME NEW i \in 1 .. Len(q) + 1, NEW j \in 1 .. Len(q) + 1, a[i] = a[j] PROVE i = j
      BY <1>1 DEF IsInjective
    <2>1. CASE i \in 1 .. Len(q) /\ j \in 1 .. Len(q)
      BY <2>1, <1>1 DEF IsInjective
    <2>2. CASE i = Len(q) + 1 \/ j = Len(q) + 1
      BY <2>2, <1>1, <1>3
    <2> QED
      BY <2>1, <2>2, <1>1
  <1>5. ToSet(a) = ToSet(q) \cup {t}
    <2>1. \A i \in 1 .. Len(q) + 1 : i \in 1 .. Len(q) \/ i = Len(q) + 1
      BY <1>1
    <2>2. Len(q) + 1 \in 1 .. Len(q) + 1 /\ \A i \in 1 .. Len(q) : i \in 1 .. Len(q) + 1
      BY <1>1
    <2> QED
      BY <2>1, <2>2, <1>1 DEF ToSet
  <1> QED
    BY <1>1, <1>2, <1>4, <1>5 DEF a

LEMMA Leaving ==
    ASSUME NEW S, NEW q \in Seq(S), IsInjective(q), q # <<>>
    PROVE  /\ Tail(q) \in Seq(S) /\ IsInjective(Tail(q))
           /\ ToSet(Tail(q)) = ToSet(q) \ {Head(q)} /\ Head(q) \in ToSet(q)
  <1> DEFINE a == Tail(q)
  <1>1. /\ a \in Seq(S) /\ Len(q) \in Nat /\ Len(q) > 0 /\ Len(a) = Len(q) - 1
        /\ \A i \in 1 .. Len(a) : a[i] = q[i + 1]
        /\ DOMAIN q = 1 .. Len(q) /\ DOMAIN a = 1 .. Len(q) - 1
        /\ Head(q) = q[1]
    BY HeadTailProperties, LenProperties, EmptySeq
  <1> HIDE DEF a
  <1>2. IsInjective(a)
    <2> SUFFICES ASSUME NEW i \in 1 .. Len(q) - 1, NEW j \in 1 .. Len(q) - 1, a[i] = a[j] PROVE i = j
      BY <1>1 DEF IsInjective
    <2>1. q[i + 1] = q[j + 1] /\ i + 1 \in 1 .. Len(q) /\ j + 1 \in 1 .. Len(q)
      BY <1>1
    <2>2. i + 1 = j + 1
      BY <2>1, <1>1 DEF IsInjective
    <2> QED
      BY <2>2
  <1>3. \A i \in 1 .. Len(q) : i # 1 => q[i] # q[1]
    BY <1>1 DEF IsInjective
  <1>4. \A i \in 1 .. Len(q) : i # 1 => i - 1 \in 1 .. Len(q) - 1 /\ a[i - 1] = q[i]
    BY <1>1
  <1>5. \A i \in 1 .. Len(q) - 1 : i + 1 \in 1 .. Len(q) /\ i + 1 # 1 /\ a[i] = q[i + 1]
    BY <1>1
  <1>6. ToSet(a) \subseteq ToSet(q) \ {Head(q)}
    BY <1>1, <1>3, <1>5 DEF ToSet
  <1>7. ToSet(q) \ {Head(q)} \subseteq ToSet(a)
    <2> SUFFICES ASSUME NEW i \in 1 .. Len(q), q[i] # q[1] PROVE q[i] \in ToSet(a)
      BY <1>1 DEF ToSet
    <2> QED
      BY <1>1, <1>4 DEF ToSet
  <1>8. Head(q) \in ToSet(q)
    <2>1. 1 \in 1 .. Len(q)
      BY <1>1
    <2> QED
      BY <2>1, <1>1 DEF ToSet
  <1> QED
    BY <1>1, <1>2, <1>6, <1>7, <1>8 DEF a

\* What the lock of a process has to do with the tasks of that process only.
LEMMA LockStep ==
    ASSUME NEW pr, NEW pr2, NEW tk, NEW tk2, LockInv(pr, tk),
           NEW p \in Procs, LockFits(p, pr2[p].queue, tk2),
           \A q \in Procs : q # p => pr2[q].queue = pr[q].queue,
           \A u \in Tasks : Home[u] # p => tk2[u] = tk[u]
    PROVE  LockInv(pr2, tk2)
  <1> SUFFICES ASSUME NEW q \in Procs, q # p PROVE LockFits(q, pr2[q].queue, tk2)
    BY DEF LockInv
  <1>1. LockFits(q, pr[q].queue, tk) /\ pr2[q].queue = pr[q].queue
    BY DEF LockInv
  <1>2. \A u \in Tasks : Home[u] = q => tk2[u] = tk[u]
    OBVIOUS
  <1> QED
    BY <1>1, <1>2 DEF LockFits

\* The queue stays: the task has or waits for the lock as before, and ends a meeting as its holder.
LEMMA LockKeeps ==
    ASSUME TasksHaveHomes, NEW pr \in [Procs -> ProcKind], NEW tk \in [Tasks -> TaskKind],
           LockInv(pr, tk), NEW t \in Tasks, NEW P, NEW x,
           P.queue = pr[Home[t]].queue,
           x.at \in LockPlaces <=> tk[t].at \in LockPlaces,
           x.at \in FencePlaces => P.queue # <<>> /\ Head(P.queue) = t
    PROVE  LockInv([pr EXCEPT ![Home[t]] = P], [tk EXCEPT ![t] = x])
  <1> DEFINE p == Home[t]
             pr2 == [pr EXCEPT ![p] = P]
             tk2 == [tk EXCEPT ![t] = x]
  <1>1. p \in Procs
    BY DEF TasksHaveHomes
  <1>2. /\ pr2[p] = P /\ \A q \in Procs : q # p => pr2[q] = pr[q]
        /\ tk2[t] = x /\ \A u \in Tasks : u # t => tk2[u] = tk[u]
    BY <1>1
  <1>3. LockFits(p, pr[p].queue, tk)
    BY <1>1 DEF LockInv
  <1> HIDE DEF pr2, tk2
  <1>4. LockFits(p, P.queue, tk2)
    <2>1. \A u \in Tasks : tk2[u].at \in LockPlaces <=> tk[u].at \in LockPlaces
      BY <1>2
    <2>2. \A u \in Tasks : Home[u] = p /\ tk2[u].at \in FencePlaces
             => P.queue # <<>> /\ Head(P.queue) = u
      BY <1>2, <1>3 DEF LockFits
    <2> QED
      BY <2>1, <2>2, <1>3 DEF LockFits
  <1>5. \A u \in Tasks : Home[u] # p => tk2[u] = tk[u]
    BY <1>2
  <1>6. LockFits(p, pr2[p].queue, tk2) /\ \A q \in Procs : q # p => pr2[q].queue = pr[q].queue
    BY <1>2, <1>4
  <1>7. LockInv(pr2, tk2)
    BY <1>1, <1>5, <1>6, LockStep
  <1> QED
    BY <1>7 DEF pr2, tk2

\* A task that neither has nor waits for the lock goes on without it.
LEMMA LockAside ==
    ASSUME NEW pr, NEW tk \in [Tasks -> TaskKind], LockInv(pr, tk), NEW t \in Tasks, NEW x,
           x.at \notin LockPlaces, tk[t].at \notin LockPlaces
    PROVE  LockInv(pr, [tk EXCEPT ![t] = x])
  <1> DEFINE tk2 == [tk EXCEPT ![t] = x]
  <1>1. tk2[t] = x /\ \A u \in Tasks : u # t => tk2[u] = tk[u]
    OBVIOUS
  <1> HIDE DEF tk2
  <1>2. \A u \in Tasks : (tk2[u].at \in LockPlaces <=> tk[u].at \in LockPlaces)
                        /\ (tk2[u].at \in FencePlaces => tk[u].at \in FencePlaces)
    BY <1>1 DEF LockPlaces, FencePlaces
  <1>3. LockInv(pr, tk2)
    BY <1>2 DEF LockInv, LockFits
  <1> QED
    BY <1>3 DEF tk2

LEMMA LockJoins ==
    ASSUME TasksHaveHomes, NEW pr \in [Procs -> ProcKind], NEW tk \in [Tasks -> TaskKind],
           LockInv(pr, tk), NEW t \in Tasks, NEW P, NEW x,
           P.queue = Append(pr[Home[t]].queue, t),
           tk[t].at \notin LockPlaces, x.at \in LockPlaces \ FencePlaces
    PROVE  LockInv([pr EXCEPT ![Home[t]] = P], [tk EXCEPT ![t] = x])
  <1> DEFINE p == Home[t]
             pr2 == [pr EXCEPT ![p] = P]
             tk2 == [tk EXCEPT ![t] = x]
  <1>1. p \in Procs
    BY DEF TasksHaveHomes
  <1>2. /\ pr2[p] = P /\ \A q \in Procs : q # p => pr2[q] = pr[q]
        /\ tk2[t] = x /\ \A u \in Tasks : u # t => tk2[u] = tk[u]
    BY <1>1
  <1>3. LockFits(p, pr[p].queue, tk)
    BY <1>1 DEF LockInv
  <1> HIDE DEF pr2, tk2
  <1>4. t \notin ToSet(pr[p].queue)
    BY <1>3 DEF LockFits
  <1>5. /\ P.queue \in Seq(Tasks) /\ IsInjective(P.queue) /\ P.queue # <<>>
        /\ ToSet(P.queue) = ToSet(pr[p].queue) \cup {t}
        /\ pr[p].queue # <<>> => Head(P.queue) = Head(pr[p].queue)
    BY <1>3, <1>4, Joining DEF LockFits
  <1>6. LockFits(p, P.queue, tk2)
    BY <1>2, <1>3, <1>5 DEF LockFits
  <1>7. \A u \in Tasks : Home[u] # p => tk2[u] = tk[u]
    BY <1>2
  <1>8. LockFits(p, pr2[p].queue, tk2) /\ \A q \in Procs : q # p => pr2[q].queue = pr[q].queue
    BY <1>2, <1>6
  <1>9. LockInv(pr2, tk2)
    BY <1>1, <1>7, <1>8, LockStep
  <1> QED
    BY <1>9 DEF pr2, tk2

LEMMA LockLeaves ==
    ASSUME TasksHaveHomes, NEW pr \in [Procs -> ProcKind], NEW tk \in [Tasks -> TaskKind],
           LockInv(pr, tk), NEW t \in Tasks, NEW P, NEW x,
           pr[Home[t]].queue # <<>>, Head(pr[Home[t]].queue) = t,
           P.queue = Tail(pr[Home[t]].queue), x.at \notin LockPlaces
    PROVE  LockInv([pr EXCEPT ![Home[t]] = P], [tk EXCEPT ![t] = x])
  <1> DEFINE p == Home[t]
             pr2 == [pr EXCEPT ![p] = P]
             tk2 == [tk EXCEPT ![t] = x]
  <1>1. p \in Procs
    BY DEF TasksHaveHomes
  <1>2. /\ pr2[p] = P /\ \A q \in Procs : q # p => pr2[q] = pr[q]
        /\ tk2[t] = x /\ \A u \in Tasks : u # t => tk2[u] = tk[u]
    BY <1>1
  <1>3. LockFits(p, pr[p].queue, tk)
    BY <1>1 DEF LockInv
  <1> HIDE DEF pr2, tk2
  <1>4. /\ P.queue \in Seq(Tasks) /\ IsInjective(P.queue)
        /\ ToSet(P.queue) = ToSet(pr[p].queue) \ {t}
    BY <1>3, Leaving DEF LockFits
  <1>5. \A u \in Tasks : Home[u] = p /\ tk2[u].at \in FencePlaces => u = t
    BY <1>2, <1>3 DEF LockFits
  <1>6. LockFits(p, P.queue, tk2)
    BY <1>2, <1>3, <1>4, <1>5 DEF LockFits, LockPlaces, FencePlaces
  <1>7. \A u \in Tasks : Home[u] # p => tk2[u] = tk[u]
    BY <1>2
  <1>8. LockFits(p, pr2[p].queue, tk2) /\ \A q \in Procs : q # p => pr2[q].queue = pr[q].queue
    BY <1>2, <1>6
  <1>9. LockInv(pr2, tk2)
    BY <1>1, <1>7, <1>8, LockStep
  <1> QED
    BY <1>9 DEF pr2, tk2

\* The holder leaves and queues again behind the others.
LEMMA LockRejoins ==
    ASSUME TasksHaveHomes, NEW pr \in [Procs -> ProcKind], NEW tk \in [Tasks -> TaskKind],
           LockInv(pr, tk), NEW t \in Tasks, NEW P \in ProcKind, NEW x,
           pr[Home[t]].queue # <<>>, Head(pr[Home[t]].queue) = t,
           P.queue = Append(Tail(pr[Home[t]].queue), t), x.at \in LockPlaces \ FencePlaces
    PROVE  LockInv([pr EXCEPT ![Home[t]] = P], [tk EXCEPT ![t] = x])
  <1> DEFINE p == Home[t]
             Q == [P EXCEPT !.queue = Tail(pr[p].queue)]
             pr1 == [pr EXCEPT ![p] = Q]
             tk1 == [tk EXCEPT ![t] = Resting]
  <1>1. p \in Procs /\ pr[p].queue \in Seq(Tasks)
    BY DEF TasksHaveHomes, ProcKind
  <1>2. Tail(pr[p].queue) \in Seq(Tasks)
    BY <1>1, HeadTailProperties
  <1>3. Q \in ProcKind /\ Q.queue = Tail(pr[p].queue)
    BY <1>2 DEF ProcKind
  <1>4. Resting.at = "idle" /\ Resting \in TaskKind /\ "idle" \notin LockPlaces
    BY DEF Resting, LockPlaces, TaskKind, Places, MaybeMeeting
  <1> HIDE DEF Q
  <1>5. LockInv(pr1, tk1)
    BY <1>3, <1>4, LockLeaves
  <1>6. /\ pr1 \in [Procs -> ProcKind] /\ tk1 \in [Tasks -> TaskKind]
        /\ pr1[p].queue = Tail(pr[p].queue) /\ tk1[t].at \notin LockPlaces
    BY <1>1, <1>3, <1>4
  <1>7. /\ [pr1 EXCEPT ![p] = P] = [pr EXCEPT ![p] = P]
        /\ [tk1 EXCEPT ![t] = x] = [tk EXCEPT ![t] = x]
    BY <1>1
  <1> HIDE DEF pr1, tk1
  <1>8. LockInv([pr1 EXCEPT ![p] = P], [tk1 EXCEPT ![t] = x])
    BY <1>5, <1>6, LockJoins
  <1> QED
    BY <1>7, <1>8

\* A step of a process that no task takes.
LEMMA LockRests ==
    ASSUME NEW pr \in [Procs -> ProcKind], NEW tk, LockInv(pr, tk), NEW p \in Procs, NEW P,
           P.queue = pr[p].queue
    PROVE  LockInv([pr EXCEPT ![p] = P], tk)
  <1> DEFINE pr2 == [pr EXCEPT ![p] = P]
  <1>1. pr2[p] = P /\ \A q \in Procs : q # p => pr2[q] = pr[q]
    OBVIOUS
  <1>2. LockFits(p, pr[p].queue, tk)
    BY DEF LockInv
  <1> HIDE DEF pr2
  <1>3. LockFits(p, pr2[p].queue, tk) /\ \A q \in Procs : q # p => pr2[q].queue = pr[q].queue
    BY <1>1, <1>2
  <1>4. LockInv(pr2, tk)
    BY <1>3, LockStep
  <1> QED
    BY <1>4 DEF pr2

----------------------------------------------------------------------------
(* The steps of the tasks.                                                   *)

LEMMA Shapes ==
    ASSUME NEW P \in ProcKind
    PROVE  /\ \A t \in Tasks : /\ Waits(P, t) \in ProcKind /\ Alike(P, Waits(P, t))
                               /\ Waits(P, t).queue = Append(P.queue, t)
           /\ P.queue # <<>> => /\ Leaves(P) \in ProcKind /\ Alike(P, Leaves(P))
                                /\ Leaves(P).queue = Tail(P.queue)
           /\ Cooled(P) \in ProcKind /\ Alike(P, Cooled(P)) /\ Cooled(P).queue = P.queue
           /\ Adopted(P) \in ProcKind /\ Alike(P, Adopted(P)) /\ Adopted(P).queue = P.queue
  <1>1. P.queue \in Seq(Tasks) /\ P.active \in MaybeMeeting
    BY DEF ProcKind
  <1>2. ASSUME NEW t \in Tasks
        PROVE  /\ Waits(P, t) \in ProcKind /\ Alike(P, Waits(P, t))
               /\ Waits(P, t).queue = Append(P.queue, t)
    <2>1. Append(P.queue, t) \in Seq(Tasks)
      BY <1>1, AppendProperties
    <2> QED
      BY <2>1 DEF Waits, ProcKind, Alike
  <1>3. ASSUME P.queue # <<>>
        PROVE  /\ Leaves(P) \in ProcKind /\ Alike(P, Leaves(P))
               /\ Leaves(P).queue = Tail(P.queue)
    <2>1. Tail(P.queue) \in Seq(Tasks)
      BY <1>1, <1>3, HeadTailProperties
    <2> QED
      BY <2>1 DEF Leaves, ProcKind, Alike
  <1>4. Cooled(P) \in ProcKind /\ Alike(P, Cooled(P)) /\ Cooled(P).queue = P.queue
    BY DEF Cooled, ProcKind, Alike, MaybeMeeting
  <1>5. Adopted(P) \in ProcKind /\ Alike(P, Adopted(P)) /\ Adopted(P).queue = P.queue
    BY DEF Adopted, ProcKind, Alike, MaybeMeeting
  <1> QED
    BY <1>2, <1>3, <1>4, <1>5

LEMMA AlikeChains ==
    ASSUME NEW P, NEW Q, NEW R, Alike(P, Q), Alike(Q, R)
    PROVE  Alike(P, R)
  BY DEF Alike

LEMMA Kinds ==
    ASSUME IInv, TasksHaveHomes
    PROVE  /\ row \in [Meetings -> RowKind] /\ proc \in [Procs -> ProcKind]
           /\ task \in [Tasks -> TaskKind] /\ finals \subseteq FinalKind /\ failed \subseteq Segs
           /\ made \in Nat /\ made <= MaxMeetings /\ faults \in Nat /\ faults <= MaxFaults
           /\ \A t \in Tasks : /\ Home[t] \in Procs /\ task[t] \in TaskKind
                               /\ proc[Home[t]] \in ProcKind
           /\ Resting \in TaskKind /\ Resting.at = "idle"
           /\ NoRow \in RowKind
  BY DEF IInv, Sane, KindInv, TasksHaveHomes, Resting, TaskKind, Places, MaybeMeeting, NoRow, RowKind

\* What a process takes into memory with a meeting is stored.
LEMMA Knowing ==
    ASSUME NEW P \in ProcKind, NEW r \in Meetings, row \in [Meetings -> RowKind]
    PROVE  /\ Knows(P, r) \in ProcKind /\ Knows(P, r).gate = P.gate \ {r}
           /\ Knows(P, r).queue = P.queue /\ Knows(P, r).hydrated = P.hydrated
           /\ Knows(P, r).found = P.found /\ Knows(P, r).cur = P.cur
           /\ \A n \in Meetings : Knows(P, r).mem[n] \subseteq P.mem[n] \cup row[n].segs
  <1> DEFINE mm == [P.mem EXCEPT ![r] = IF r \in P.known THEN @ ELSE row[r].segs]
             Q == [P EXCEPT !.known = @ \cup {r}, !.gate = @ \ {r}]
             K == [Q EXCEPT !.mem = mm]
  <1>1. P.mem \in [Meetings -> SUBSET Segs] /\ row[r].segs \subseteq Segs
    BY DEF ProcKind, RowKind
  <1>2. mm \in [Meetings -> SUBSET Segs] /\ \A n \in Meetings : mm[n] \subseteq P.mem[n] \cup row[n].segs
    BY <1>1
  <1>3. /\ Q \in ProcKind /\ Q.gate = P.gate \ {r} /\ Q.queue = P.queue /\ Q.mem = P.mem
        /\ Q.hydrated = P.hydrated /\ Q.found = P.found /\ Q.cur = P.cur
    BY DEF ProcKind
  <1>4. Knows(P, r) = K
    BY DEF Knows
  <1> HIDE DEF mm, Q
  <1>5. /\ K \in ProcKind /\ K.gate = Q.gate /\ K.queue = Q.queue /\ K.mem = mm
        /\ K.hydrated = Q.hydrated /\ K.found = Q.found /\ K.cur = Q.cur
    BY <1>2, <1>3 DEF ProcKind
  <1> HIDE DEF K
  <1> QED
    BY <1>2, <1>3, <1>4, <1>5

\* A process that comes to know a meeting learns of the open one.
LEMMA Learning ==
    ASSUME TasksHaveHomes, IInv, NEW p \in Procs, NEW m,
           NEW tk, Sane(row, proc, tk, finals, made, failed)
    PROVE  /\ Learns(proc[p], m) \in ProcKind /\ Learns(proc[p], m).queue = proc[p].queue
           /\ Sane(row, [proc EXCEPT ![p] = Learns(proc[p], m)], tk, finals, made, failed)
  <1> DEFINE r == Authoritative(m)
  <1>1. proc[p] \in ProcKind /\ row \in [Meetings -> RowKind] /\ ProcFits(proc[p], row)
    BY Kinds DEF IInv, Sane, ProcInv
  <1>2. CASE m \in proc[p].known \/ Active = {}
    <2>1. Learns(proc[p], m) = proc[p]
      BY <1>2 DEF Learns
    <2>2. Alike(proc[p], proc[p])
      BY DEF Alike
    <2> QED
      BY <1>1, <2>1, <2>2, AlikeStep
  <1>3. CASE ~(m \in proc[p].known \/ Active = {})
    <2> DEFINE K == Learns(proc[p], m)
    <2>1. K = Knows(proc[p], r)
      BY <1>3 DEF Learns
    <2>2. r \in Active /\ r \in Meetings
      BY <1>3 DEF Authoritative, Active
    <2> HIDE DEF r
    <2>3. /\ K \in ProcKind /\ K.gate = proc[p].gate \ {r} /\ K.queue = proc[p].queue
          /\ K.hydrated = proc[p].hydrated /\ K.found = proc[p].found /\ K.cur = proc[p].cur
          /\ \A n \in Meetings : K.mem[n] \subseteq proc[p].mem[n] \cup row[n].segs
      BY <1>1, <2>1, <2>2, Knowing
    <2> HIDE DEF K
    <2>4. ProcFits(K, row)
      BY <1>1, <2>3 DEF ProcFits
    <2>5. \A n \in Meetings : Owns(proc[p], n) => Owns(K, n)
      BY <2>3 DEF Owns
    <2>6. \A n \in Meetings : \A z \in K.mem[n] : z \in proc[p].mem[n] \/ z \in row[n].segs
      BY <2>3
    <2>7. \A u \in Tasks : Home[u] = p /\ tk[u].at \notin Free => K.hydrated = "yes"
      BY <2>3 DEF Sane, RestInv
    <2>8. \A n \in K.gate : n \in proc[p].gate
      BY <2>3
    <2>9. Sane(row, [proc EXCEPT ![p] = K], tk, finals, made, failed)
      BY <2>3, <2>4, <2>5, <2>6, <2>7, <2>8, ProcStep
    <2> QED
      BY <2>3, <2>9 DEF K
  <1> QED
    BY <1>2, <1>3

\* A task takes a segment of a meeting that is there, or rests.
LEMMA Taking ==
    ASSUME TasksHaveHomes, IInv, NEW t \in Tasks, NEW m \in Meetings, row[m].state # "none",
           Takes(t, m)
    PROVE  \E x \in TaskKind : /\ task' = [task EXCEPT ![t] = x] /\ x.at \in {"idle", "speaker"}
                               /\ TaskFits(x, row, made)
  <1>1. PICK s \in Segs : task' = [task EXCEPT ![t] = [Resting EXCEPT !.at = "speaker", !.m = m, !.seg = s]]
    BY DEF Takes
  <1> DEFINE x == [Resting EXCEPT !.at = "speaker", !.m = m, !.seg = s]
  <1>2. x \in TaskKind /\ x.at = "speaker" /\ x.m = m /\ x.seg = s
    BY DEF Resting, TaskKind, Places, MaybeMeeting
  <1>3. task' = [task EXCEPT ![t] = x]
    BY <1>1
  <1> HIDE DEF x
  <1>4. TaskFits(x, row, made)
    BY <1>2 DEF TaskFits
  <1> QED
    BY <1>2, <1>3, <1>4

LEMMA RestTaking ==
    ASSUME TasksHaveHomes, IInv, NEW t \in Tasks, Rests(t)
    PROVE  \E x \in TaskKind : /\ task' = [task EXCEPT ![t] = x] /\ x.at \in {"idle", "speaker"}
                               /\ TaskFits(x, row, made)
  BY Kinds DEF Rests, TaskFits

\* A segment comes to a process, which may learn of the open meeting.
LEMMA ChunkStep ==
    ASSUME TasksHaveHomes, IInv, NEW t \in Tasks, task[t].at \in {"idle", "ingest"},
           \/ proc' = proc
           \/ \E m \in Meetings : proc' = [proc EXCEPT ![Home[t]] = Learns(proc[Home[t]], m)],
           \E x \in TaskKind : /\ task' = [task EXCEPT ![t] = x] /\ x.at \in {"idle", "speaker"}
                              /\ TaskFits(x, row, made),
           UNCHANGED <<row, finals, made, failed, faults>>
    PROVE  IInv'
  <1> DEFINE p == Home[t]
  <1>1. PICK x \in TaskKind : /\ task' = [task EXCEPT ![t] = x] /\ x.at \in {"idle", "speaker"}
                              /\ TaskFits(x, row, made)
    OBVIOUS
  <1>2. Sane(row, proc, task', finals, made, failed)
    BY <1>1, TaskStep DEF IInv, FencePlaces
  <1>3. p \in Procs /\ task' \in [Tasks -> TaskKind] /\ LockInv(proc, task')
    BY <1>1, LockAside, Kinds DEF IInv, LockPlaces
  <1>4. CASE proc' = proc
    BY <1>2, <1>3, <1>4 DEF IInv
  <1>5. ASSUME NEW m \in Meetings, proc' = [proc EXCEPT ![p] = Learns(proc[p], m)]
        PROVE  IInv'
    <2> DEFINE K == Learns(proc[p], m)
    <2>1. /\ K \in ProcKind /\ K.queue = proc[p].queue
          /\ Sane(row, [proc EXCEPT ![p] = K], task', finals, made, failed)
      BY <1>2, <1>3, Learning
    <2>2. LockInv([proc EXCEPT ![p] = K], task')
      <3> HIDE DEF K
      <3> QED
        BY <1>3, <2>1, LockRests, Kinds
    <2> QED
      BY <1>5, <2>1, <2>2 DEF IInv
  <1> QED
    BY <1>4, <1>5

\* A task that has neither fenced a meeting nor put a segment into memory goes on; of the memory of
\* its process only the queue and what the detector thinks changes.
QuietMove(t, P, x) ==
    /\ P \in ProcKind /\ Alike(proc[Home[t]], P)
    /\ x \in TaskKind /\ TaskFits(x, row, made')
    /\ x.at \notin Free => proc[Home[t]].hydrated = "yes"
    /\ x.at = "auto_start" => \A u \in Tasks \ {t} : task[u].at = "auto_start" => task[u].m # x.m
    /\ task[t].at \notin FencePlaces /\ task[t].at # "persist"
    /\ proc' = [proc EXCEPT ![Home[t]] = P] /\ task' = [task EXCEPT ![t] = x]
    /\ made' \in Nat /\ made <= made' /\ made' <= MaxMeetings
    /\ row' = row /\ finals' = finals /\ failed' = failed
    /\ LockInv(proc', task')
    /\ faults' \in Nat /\ faults' <= MaxFaults

LEMMA QuietStep ==
    ASSUME TasksHaveHomes, IInv, NEW t \in Tasks, NEW P, NEW x, QuietMove(t, P, x)
    PROVE  IInv'
  <1>1. Sane(row, proc, task, finals, made', failed) /\ Home[t] \in Procs
    BY MadeStep DEF IInv, TasksHaveHomes, QuietMove
  <1>2. Sane(row, proc, task', finals, made', failed)
    BY <1>1, TaskStep DEF QuietMove
  <1>3. Sane(row, proc', task', finals, made', failed)
    BY <1>1, <1>2, AlikeStep DEF QuietMove
  <1> QED
    BY <1>3 DEF IInv, QuietMove

LEMMA UserStartKeeps ==
    ASSUME TasksHaveHomes, IInv, NEW t \in Tasks, UserStart(t)
    PROVE  IInv'
  <1> DEFINE p == Home[t]
             P == proc[p]
  <1>1. /\ task[t].at = "idle" /\ P.hydrated = "yes" /\ p \in Procs /\ P \in ProcKind
        /\ UNCHANGED <<row, finals, made, failed, faults>>
    BY Kinds DEF UserStart, Ready, At
  <1>2. CASE IsAuto(P.cur) /\ Begins(t, "title", P.cur, "start") /\ UNCHANGED proc
    <2> DEFINE x == [Resting EXCEPT !.at = "title", !.m = P.cur, !.then = "start"]
    <2>1. P.cur \in Meetings
      BY <1>1, <1>2 DEF IsAuto, ProcKind, MaybeMeeting
    <2>2. /\ x \in TaskKind /\ x.at = "title" /\ x.m \in Meetings
          /\ task' = [task EXCEPT ![t] = x] /\ proc' = [proc EXCEPT ![p] = P]
      BY <1>1, <1>2, <2>1, Kinds DEF Begins, Resting, TaskKind, Places, MaybeMeeting
    <2> HIDE DEF x
    <2>3. LockInv(proc', task')
      BY <1>1, <2>2, LockKeeps, Kinds DEF IInv, LockPlaces, FencePlaces
    <2>4. TaskFits(x, row, made') /\ Alike(P, P)
      BY <2>2 DEF TaskFits, Alike
    <2>5. QuietMove(t, P, x)
      BY <1>1, <2>2, <2>3, <2>4, Kinds DEF QuietMove, FencePlaces
    <2> QED
      BY <2>5, QuietStep
  <1>3. CASE ~IsAuto(P.cur) /\ Begins(t, "start", None, "idle") /\ Set(p, Waits(P, t))
    <2> DEFINE x == [Resting EXCEPT !.at = "start", !.m = None, !.then = "idle"]
    <2>1. /\ x \in TaskKind /\ x.at = "start" /\ x.then = "idle"
          /\ task' = [task EXCEPT ![t] = x] /\ proc' = [proc EXCEPT ![p] = Waits(P, t)]
      BY <1>1, <1>3, Kinds DEF Begins, Set, Resting, TaskKind, Places, MaybeMeeting
    <2> HIDE DEF x
    <2>2. Waits(P, t) \in ProcKind /\ Alike(P, Waits(P, t)) /\ Waits(P, t).queue = Append(P.queue, t)
      BY <1>1, Shapes
    <2>3. LockInv(proc', task')
      BY <1>1, <2>1, <2>2, LockJoins, Kinds DEF IInv, LockPlaces, FencePlaces
    <2>4. TaskFits(x, row, made')
      BY <2>1 DEF TaskFits
    <2>5. QuietMove(t, Waits(P, t), x)
      BY <1>1, <2>1, <2>2, <2>3, <2>4, Kinds DEF QuietMove, FencePlaces
    <2> QED
      BY <2>5, QuietStep
  <1> QED
    BY <1>2, <1>3 DEF UserStart

LEMMA UserEndKeeps ==
    ASSUME TasksHaveHomes, IInv, NEW t \in Tasks, UserEnd(t)
    PROVE  IInv'
  <1> DEFINE p == Home[t]
             P == proc[p]
             x == [Resting EXCEPT !.at = "title", !.m = P.cur, !.then = "idle"]
  <1>1. /\ task[t].at = "idle" /\ P.hydrated = "yes" /\ p \in Procs /\ P \in ProcKind
        /\ P.cur \in Meetings /\ UNCHANGED <<row, finals, made, failed, faults>>
    BY Kinds DEF UserEnd, Ready, At, ProcKind, MaybeMeeting
  <1>2. /\ x \in TaskKind /\ x.at = "title" /\ x.m \in Meetings
        /\ task' = [task EXCEPT ![t] = x] /\ proc' = [proc EXCEPT ![p] = P]
    BY <1>1, Kinds DEF UserEnd, Begins, Resting, TaskKind, Places, MaybeMeeting
  <1> HIDE DEF x
  <1>3. LockInv(proc', task')
    BY <1>1, <1>2, LockKeeps, Kinds DEF IInv, LockPlaces, FencePlaces
  <1>4. TaskFits(x, row, made') /\ Alike(P, P)
    BY <1>2 DEF TaskFits, Alike
  <1>5. QuietMove(t, P, x)
    BY <1>1, <1>2, <1>3, <1>4, Kinds DEF QuietMove, FencePlaces
  <1> QED
    BY <1>5, QuietStep

LEMMA LowLevelEndKeeps ==
    ASSUME TasksHaveHomes, IInv, NEW t \in Tasks, NEW m \in Meetings, LowLevelEnd(t, m)
    PROVE  IInv'
  <1> DEFINE p == Home[t]
             P == proc[p]
             x == [Resting EXCEPT !.at = "end_only", !.m = m, !.then = "idle"]
  <1>1. /\ task[t].at = "idle" /\ P.hydrated = "yes" /\ p \in Procs /\ P \in ProcKind
        /\ row[m].state # "none" /\ UNCHANGED <<row, finals, made, failed, faults>>
    BY Kinds DEF LowLevelEnd, Ready, At
  <1>2. /\ x \in TaskKind /\ x.at = "end_only" /\ x.m = m
        /\ task' = [task EXCEPT ![t] = x] /\ proc' = [proc EXCEPT ![p] = Waits(P, t)]
    BY <1>1, Kinds DEF LowLevelEnd, Begins, Set, Resting, TaskKind, Places, MaybeMeeting
  <1> HIDE DEF x
  <1>3. Waits(P, t) \in ProcKind /\ Alike(P, Waits(P, t)) /\ Waits(P, t).queue = Append(P.queue, t)
    BY <1>1, Shapes
  <1>4. LockInv(proc', task')
    BY <1>1, <1>2, <1>3, LockJoins, Kinds DEF IInv, LockPlaces, FencePlaces
  <1>5. TaskFits(x, row, made')
    BY <1>1, <1>2 DEF TaskFits
  <1>6. QuietMove(t, Waits(P, t), x)
    BY <1>1, <1>2, <1>3, <1>4, <1>5, Kinds DEF QuietMove, FencePlaces
  <1> QED
    BY <1>6, QuietStep

LEMMA TimeoutKeeps ==
    ASSUME TasksHaveHomes, IInv, NEW t \in Tasks, Timeout(t)
    PROVE  IInv'
  <1> DEFINE p == Home[t]
             P == proc[p]
             x == [Resting EXCEPT !.at = "title", !.m = P.cur, !.then = "idle"]
  <1>1. /\ task[t].at = "idle" /\ P.hydrated = "yes" /\ p \in Procs /\ P \in ProcKind
        /\ P.cur \in Meetings /\ UNCHANGED <<row, finals, made, failed, faults>>
    BY Kinds DEF Timeout, Ready, At, ProcKind, MaybeMeeting
  <1>2. /\ x \in TaskKind /\ x.at = "title" /\ x.m \in Meetings /\ task' = [task EXCEPT ![t] = x]
    BY <1>1, Kinds DEF Timeout, Begins, Resting, TaskKind, Places, MaybeMeeting
  <1> HIDE DEF x
  <1>3. PICK Q \in {P, Cooled(P)} : proc' = [proc EXCEPT ![p] = Q]
    BY <1>1, Kinds DEF Timeout, Set
  <1>4. Q \in ProcKind /\ Alike(P, Q) /\ Q.queue = P.queue
    <2>1. Cooled(P) \in ProcKind /\ Alike(P, Cooled(P)) /\ Cooled(P).queue = P.queue
      BY <1>1, Shapes
    <2>2. Alike(P, P)
      BY DEF Alike
    <2> QED
      BY <1>1, <1>3, <2>1, <2>2
  <1>5. LockInv(proc', task')
    BY <1>1, <1>2, <1>3, <1>4, LockKeeps, Kinds DEF IInv, LockPlaces, FencePlaces
  <1>6. TaskFits(x, row, made')
    BY <1>2 DEF TaskFits
  <1>7. QuietMove(t, Q, x)
    BY <1>1, <1>2, <1>3, <1>4, <1>5, <1>6, Kinds DEF QuietMove, FencePlaces
  <1> QED
    BY <1>7, QuietStep

LEMMA ObserveKeeps ==
    ASSUME TasksHaveHomes, BoundsAreNumbers, IInv, NEW t \in Tasks, Observe(t)
    PROVE  IInv'
  <1> DEFINE p == Home[t]
             P == Adopted(proc[p])
  <1>1. /\ task[t].at = "idle" /\ proc[p].hydrated = "yes" /\ p \in Procs /\ proc[p] \in ProcKind
        /\ UNCHANGED <<row, finals, failed, faults>>
    BY Kinds DEF Observe, Ready, At
  <1>2. P \in ProcKind /\ Alike(proc[p], P) /\ P.queue = proc[p].queue
    BY <1>1, Shapes
  <1> HIDE DEF P
  <1>3. CASE /\ DetectsEnd(P) /\ Begins(t, "title", P.active, "ingest") /\ Set(p, Cooled(P))
             /\ UNCHANGED made
    <2> DEFINE x == [Resting EXCEPT !.at = "title", !.m = P.active, !.then = "ingest"]
    <2>1. P.active \in Meetings
      BY <1>2, <1>3 DEF DetectsEnd, ProcKind, MaybeMeeting
    <2>2. /\ x \in TaskKind /\ x.at = "title" /\ x.m \in Meetings
          /\ task' = [task EXCEPT ![t] = x] /\ proc' = [proc EXCEPT ![p] = Cooled(P)]
      BY <1>3, <2>1, Kinds DEF Begins, Set, Resting, TaskKind, Places, MaybeMeeting
    <2> HIDE DEF x
    <2>3. Cooled(P) \in ProcKind /\ Alike(proc[p], Cooled(P)) /\ Cooled(P).queue = proc[p].queue
      BY <1>2, Shapes, AlikeChains
    <2>4. LockInv(proc', task')
      BY <1>1, <2>2, <2>3, LockKeeps, Kinds DEF IInv, LockPlaces, FencePlaces
    <2>5. TaskFits(x, row, made')
      BY <2>2 DEF TaskFits
    <2>6. QuietMove(t, Cooled(P), x)
      BY <1>1, <1>3, <2>2, <2>3, <2>4, <2>5, Kinds DEF QuietMove, FencePlaces
    <2> QED
      BY <2>6, QuietStep
  <1>4. CASE /\ made < MaxMeetings /\ made' = made + 1
             /\ Begins(t, "auto_start", made + 1, "ingest")
             /\ Set(p, Waits([P EXCEPT !.active = made + 1], t))
    <2> DEFINE x == [Resting EXCEPT !.at = "auto_start", !.m = made + 1, !.then = "ingest"]
               Q == [P EXCEPT !.active = made + 1]
    <2>1. made + 1 \in Meetings /\ made' \in Nat /\ made <= made' /\ made' <= MaxMeetings
      BY <1>4, Kinds DEF Meetings, BoundsAreNumbers
    <2>2. /\ x \in TaskKind /\ x.at = "auto_start" /\ x.m = made + 1 /\ x.then = "ingest"
          /\ task' = [task EXCEPT ![t] = x] /\ proc' = [proc EXCEPT ![p] = Waits(Q, t)]
      BY <1>4, <2>1, Kinds DEF Begins, Set, Resting, TaskKind, Places, MaybeMeeting
    <2>3. Q \in ProcKind /\ Alike(P, Q) /\ Q.queue = P.queue
      BY <1>2, <2>1 DEF ProcKind, Alike, MaybeMeeting
    <2> HIDE DEF x, Q
    <2>4. /\ Waits(Q, t) \in ProcKind /\ Alike(proc[p], Waits(Q, t))
          /\ Waits(Q, t).queue = Append(proc[p].queue, t)
      <3>1. /\ Waits(Q, t) \in ProcKind /\ Alike(Q, Waits(Q, t))
            /\ Waits(Q, t).queue = Append(Q.queue, t)
        BY <2>3, Shapes
      <3>2. Alike(proc[p], Q)
        BY <1>2, <2>3, AlikeChains
      <3> QED
        BY <1>2, <2>3, <3>1, <3>2, AlikeChains
    <2>5. LockInv(proc', task')
      BY <1>1, <2>2, <2>4, LockJoins, Kinds DEF IInv, LockPlaces, FencePlaces
    <2>6. row[made + 1].state = "none"
      BY <2>1, Kinds DEF IInv, Sane, RowInv
    <2>7. TaskFits(x, row, made')
      BY <1>4, <2>1, <2>2, <2>6 DEF TaskFits
    <2>8. \A u \in Tasks : task[u].at = "auto_start" => task[u].m # made + 1
      <3> SUFFICES ASSUME NEW u \in Tasks, task[u].at = "auto_start", task[u].m = made + 1 PROVE FALSE
        OBVIOUS
      <3>1. task[u].m <= made
        BY DEF IInv, Sane, TaskInv, TaskFits
      <3> QED
        BY <3>1, Kinds
    <2>9. QuietMove(t, Waits(Q, t), x)
      BY <1>1, <2>1, <2>2, <2>4, <2>5, <2>7, <2>8, Kinds DEF QuietMove, FencePlaces
    <2> QED
      BY <2>9, QuietStep
  <1>5. CASE Begins(t, "ingest", None, "idle") /\ Set(p, P) /\ UNCHANGED made
    <2> DEFINE x == [Resting EXCEPT !.at = "ingest", !.m = None, !.then = "idle"]
    <2>1. /\ x \in TaskKind /\ x.at = "ingest"
          /\ task' = [task EXCEPT ![t] = x] /\ proc' = [proc EXCEPT ![p] = P]
      BY <1>5, Kinds DEF Begins, Set, Resting, TaskKind, Places, MaybeMeeting
    <2> HIDE DEF x
    <2>2. LockInv(proc', task')
      BY <1>1, <1>2, <2>1, LockKeeps, Kinds DEF IInv, LockPlaces, FencePlaces
    <2>3. TaskFits(x, row, made')
      BY <2>1 DEF TaskFits
    <2>4. QuietMove(t, P, x)
      BY <1>1, <1>2, <1>5, <2>1, <2>2, <2>3, Kinds DEF QuietMove, FencePlaces
    <2> QED
      BY <2>4, QuietStep
  <1> QED
    BY <1>3, <1>4, <1>5 DEF Observe, P

LEMMA StartFailsKeeps ==
    ASSUME TasksHaveHomes, BoundsAreNumbers, IInv, NEW t \in Tasks, StartFails(t)
    PROVE  IInv'
  <1> DEFINE p == Home[t]
             P == proc[p]
  <1>1. /\ task[t].at \in {"start", "auto_start"} /\ p \in Procs /\ P \in ProcKind
        /\ P.queue # <<>> /\ Head(P.queue) = t
        /\ faults < MaxFaults /\ faults' = faults + 1
        /\ proc' = [proc EXCEPT ![p] = Leaves(P)] /\ task' = [task EXCEPT ![t] = Resting]
        /\ UNCHANGED <<row, finals, made, failed>>
    BY Kinds DEF StartFails, Holds, Fault, Set, Rests
  <1>2. Leaves(P) \in ProcKind /\ Alike(P, Leaves(P)) /\ Leaves(P).queue = Tail(P.queue)
    BY <1>1, Shapes
  <1>3. LockInv(proc', task')
    BY <1>1, <1>2, LockLeaves, Kinds DEF IInv, LockPlaces
  <1>4. TaskFits(Resting, row, made')
    BY Kinds DEF TaskFits
  <1>5. faults' \in Nat /\ faults' <= MaxFaults
    BY <1>1, Kinds DEF BoundsAreNumbers
  <1>6. QuietMove(t, Leaves(P), Resting)
    BY <1>1, <1>2, <1>3, <1>4, <1>5, Kinds DEF QuietMove, FencePlaces
  <1> QED
    BY <1>6, QuietStep

LEMMA JoinEndKeeps ==
    ASSUME TasksHaveHomes, IInv, NEW t \in Tasks, JoinEnd(t)
    PROVE  IInv'
  <1> DEFINE p == Home[t]
             P == proc[p]
             x == [task[t] EXCEPT !.at = "end"]
  <1>1. /\ task[t].at = "title" /\ P.hydrated = "yes" /\ p \in Procs /\ P \in ProcKind
        /\ task[t] \in TaskKind /\ task[t].m \in Meetings
        /\ UNCHANGED <<row, finals, made, failed, faults>>
    BY Kinds DEF JoinEnd, At, IInv, Sane, RestInv, TaskInv, TaskFits
  <1>2. /\ x \in TaskKind /\ x.at = "end" /\ x.m \in Meetings
        /\ task' = [task EXCEPT ![t] = x] /\ proc' = [proc EXCEPT ![p] = Waits(P, t)]
    BY <1>1, Kinds DEF JoinEnd, Goes, Set, TaskKind, Places
  <1> HIDE DEF x
  <1>3. Waits(P, t) \in ProcKind /\ Alike(P, Waits(P, t)) /\ Waits(P, t).queue = Append(P.queue, t)
    BY <1>1, Shapes
  <1>4. LockInv(proc', task')
    BY <1>1, <1>2, <1>3, LockJoins, Kinds DEF IInv, LockPlaces, FencePlaces
  <1>5. TaskFits(x, row, made')
    BY <1>2 DEF TaskFits
  <1>6. QuietMove(t, Waits(P, t), x)
    BY <1>1, <1>2, <1>3, <1>4, <1>5, Kinds DEF QuietMove, FencePlaces
  <1> QED
    BY <1>6, QuietStep

\* The holder of the lock leaves it and goes on, or queues again to start a meeting.
LEMMA Continuing ==
    ASSUME TasksHaveHomes, IInv, NEW t \in Tasks, Holds(t),
           NEW Q \in ProcKind, Q.queue = Tail(proc[Home[t]].queue), Continues(t, Q)
    PROVE  \E x \in TaskKind, R \in ProcKind :
              /\ proc' = [proc EXCEPT ![Home[t]] = R] /\ task' = [task EXCEPT ![t] = x]
              /\ Alike(Q, R) /\ x.at \in {"idle", "ingest", "start"}
              /\ x.at = "start" => x.then # "start"
              /\ LockInv(proc', task')
  <1> DEFINE p == Home[t]
  <1>1. /\ proc[p].queue # <<>> /\ Head(proc[p].queue) = t /\ p \in Procs
        /\ task[t] \in TaskKind /\ task[t].then \in {"idle", "start", "ingest"}
    BY Kinds DEF Holds, TaskKind
  <1>2. CASE task[t].then = "start"
    <2> DEFINE x == [Resting EXCEPT !.at = "start", !.m = None, !.then = "idle"]
    <2>1. /\ x \in TaskKind /\ x.at = "start" /\ x.then = "idle"
          /\ task' = [task EXCEPT ![t] = x] /\ proc' = [proc EXCEPT ![p] = Waits(Q, t)]
      BY <1>2, Kinds DEF Continues, Begins, Set, Resting, TaskKind, Places, MaybeMeeting
    <2> HIDE DEF x
    <2>2. /\ Waits(Q, t) \in ProcKind /\ Alike(Q, Waits(Q, t))
          /\ Waits(Q, t).queue = Append(Q.queue, t)
      BY Shapes
    <2>3. Waits(Q, t).queue = Append(Tail(proc[p].queue), t)
      BY <2>2
    <2>4. LockInv(proc', task')
      BY <1>1, <2>1, <2>2, <2>3, LockRejoins, Kinds DEF IInv, LockPlaces, FencePlaces
    <2> QED
      BY <2>1, <2>2, <2>4
  <1>3. CASE task[t].then # "start"
    <2> DEFINE x == [task[t] EXCEPT !.at = task[t].then]
    <2>1. /\ x \in TaskKind /\ x.at \in {"idle", "ingest"}
          /\ task' = [task EXCEPT ![t] = x] /\ proc' = [proc EXCEPT ![p] = Q]
      BY <1>1, <1>3, Kinds DEF Continues, Goes, Set, TaskKind, Places
    <2> HIDE DEF x
    <2>2. LockInv(proc', task')
      BY <1>1, <2>1, LockLeaves, Kinds DEF IInv, LockPlaces
    <2> QED
      BY <2>1, <2>2 DEF Alike
  <1> QED
    BY <1>2, <1>3

LEMMA EndMissedKeeps ==
    ASSUME TasksHaveHomes, IInv, NEW t \in Tasks, EndMissed(t)
    PROVE  IInv'
  <1> DEFINE p == Home[t]
             P == proc[p]
  <1>1. /\ task[t].at = "end" /\ P.hydrated = "yes" /\ p \in Procs /\ P \in ProcKind
        /\ Holds(t) /\ P.queue # <<>> /\ Continues(t, Leaves(P))
        /\ UNCHANGED <<row, finals, made, failed, faults>>
    BY Kinds DEF EndMissed, Holds, At, IInv, Sane, RestInv
  <1>2. Leaves(P) \in ProcKind /\ Alike(P, Leaves(P)) /\ Leaves(P).queue = Tail(P.queue)
    BY <1>1, Shapes
  <1>3. PICK x \in TaskKind, R \in ProcKind :
              /\ proc' = [proc EXCEPT ![p] = R] /\ task' = [task EXCEPT ![t] = x]
              /\ Alike(Leaves(P), R) /\ x.at \in {"idle", "ingest", "start"}
              /\ x.at = "start" => x.then # "start"
              /\ LockInv(proc', task')
    BY <1>1, <1>2, Continuing
  <1>4. Alike(P, R)
    BY <1>2, <1>3, AlikeChains
  <1>5. TaskFits(x, row, made')
    BY <1>3 DEF TaskFits
  <1>6. QuietMove(t, R, x)
    BY <1>1, <1>3, <1>4, <1>5, Kinds DEF QuietMove, FencePlaces
  <1> QED
    BY <1>6, QuietStep

LEMMA IngestKeeps ==
    ASSUME TasksHaveHomes, NoneIsNoMeeting, IInv, NEW t \in Tasks, Ingest(t) \/ NoSegmentLeft(t)
    PROVE  IInv'
  <1> DEFINE p == Home[t]
             m == proc[p].cur
             open == m # None /\ m \notin proc[p].gate
  <1>1. task[t].at = "ingest" /\ UNCHANGED <<row, finals, made, failed, faults>>
    BY DEF Ingest, NoSegmentLeft, At
  <1>2. m # None => m \in Meetings /\ row[m].state # "none"
    BY Kinds DEF ProcKind, MaybeMeeting, IInv, Sane, ProcInv, ProcFits
  <1>3. CASE NoSegmentLeft(t)
    BY <1>1, <1>3, RestTaking, ChunkStep DEF NoSegmentLeft
  <1>4. CASE Ingest(t) /\ ~open
    <2>1. Rests(t) /\ proc' = [proc EXCEPT ![p] = proc[p]]
      BY <1>4 DEF Ingest, Set
    <2>2. proc' = proc
      BY <2>1, Kinds
    <2> QED
      BY <1>1, <2>1, <2>2, RestTaking, ChunkStep
  <1>5. CASE Ingest(t) /\ open
    <2>1. /\ Rests(t) \/ Takes(t, m)
          /\ proc' = [proc EXCEPT ![p] = Learns(proc[p], m)]
      BY <1>5 DEF Ingest, Set
    <2> QED
      BY <1>1, <1>2, <1>5, <2>1, RestTaking, Taking, ChunkStep
  <1> QED
    BY <1>3, <1>4, <1>5

LEMMA ChunkRequestKeeps ==
    ASSUME TasksHaveHomes, IInv, NEW t \in Tasks, NEW m \in Meetings, ChunkRequest(t, m)
    PROVE  IInv'
  <1>1. /\ task[t].at = "idle" /\ row[m].state # "none"
        /\ Rests(t) \/ Takes(t, m)
        /\ proc' = [proc EXCEPT ![Home[t]] = Learns(proc[Home[t]], m)]
        /\ UNCHANGED <<row, finals, made, failed, faults>>
    BY DEF ChunkRequest, At, Set
  <1> QED
    BY <1>1, RestTaking, Taking, ChunkStep

\* The segment is put into memory; the task goes on to store it.
LEMMA RememberKeeps ==
    ASSUME TasksHaveHomes, IInv, NEW t \in Tasks, Remember(t)
    PROVE  IInv'
  <1> DEFINE p == Home[t]
             m == task[t].m
             s == task[t].seg
             x == [task[t] EXCEPT !.at = "persist"]
             P == [proc[p] EXCEPT !.mem[m] = @ \cup {s}]
  <1>1. /\ task[t].at = "speaker" /\ p \in Procs /\ proc[p] \in ProcKind
        /\ task[t] \in TaskKind /\ m \in Meetings /\ s \in Segs /\ row[m].state # "none"
        /\ UNCHANGED <<row, finals, made, failed, faults>>
    BY Kinds DEF Remember, At, IInv, Sane, TaskInv, TaskFits
  <1>2. /\ x \in TaskKind /\ x.at = "persist" /\ x.m = m /\ x.seg = s
        /\ task' = [task EXCEPT ![t] = x] /\ proc' = [proc EXCEPT ![p] = P]
    BY <1>1 DEF Remember, Goes, Set, TaskKind, Places
  <1>3. /\ P \in ProcKind /\ P.gate = proc[p].gate /\ P.queue = proc[p].queue
        /\ P.cur = proc[p].cur /\ P.hydrated = proc[p].hydrated /\ P.found = proc[p].found
        /\ P.mem = [proc[p].mem EXCEPT ![m] = @ \cup {s}]
    BY <1>1 DEF ProcKind
  <1>4. \A n \in Meetings : \A z \in P.mem[n] : z \in proc[p].mem[n] \/ (n = m /\ z = s)
    BY <1>1, <1>3 DEF ProcKind
  <1> HIDE DEF x, P
  <1>5. LockInv(proc', task')
    BY <1>1, <1>2, <1>3, LockKeeps, Kinds DEF IInv, LockPlaces, FencePlaces
  <1>6. Sane(row, proc, task', finals, made, failed)
    <2>1. TaskFits(x, row, made)
      BY <1>1, <1>2 DEF TaskFits
    <2> QED
      BY <1>1, <1>2, <2>1, TaskStep DEF IInv, FencePlaces
  <1>7. Sane(row, proc', task', finals, made, failed)
    <2>1. ProcFits(P, row)
      BY <1>1, <1>3 DEF IInv, Sane, ProcInv, ProcFits
    <2>2. Stores(p, m, s, task')
      BY <1>2, Kinds DEF Stores
    <2>3. \A n \in Meetings : Owns(proc[p], n) => Owns(P, n)
      BY <1>3 DEF Owns
    <2>4. \A u \in Tasks : Home[u] = p /\ task'[u].at \notin Free => P.hydrated = "yes"
      BY <1>3, <1>6 DEF Sane, RestInv
    <2> QED
      BY <1>1, <1>2, <1>3, <1>4, <1>6, <2>1, <2>2, <2>3, <2>4, ProcStep
  <1> QED
    BY <1>1, <1>5, <1>7 DEF IInv

\* The row of the segment is inserted, or memory is made what is stored.
LEMMA PersistKeeps ==
    ASSUME TasksHaveHomes, IInv, NEW t \in Tasks, Persist(t)
    PROVE  IInv'
  <1> DEFINE p == Home[t]
             m == task[t].m
             s == task[t].seg
  <1>1. /\ task[t].at = "persist" /\ p \in Procs /\ proc[p] \in ProcKind
        /\ m \in Meetings /\ s \in Segs /\ row[m].state # "none"
        /\ task' = [task EXCEPT ![t] = Resting]
        /\ UNCHANGED <<finals, made, failed, faults>>
    BY Kinds DEF Persist, Rests, At, IInv, Sane, TaskInv, TaskFits
  <1>2. TaskFits(Resting, row', made)
    BY Kinds DEF TaskFits
  <1>3. CASE Accepts(m) /\ row' = [row EXCEPT ![m].segs = @ \cup {s}] /\ UNCHANGED proc
    <2>1. Sane(row', proc, task, finals, made, failed)
      BY <1>1, <1>3, RowGains DEF IInv, Accepts
    <2>2. s \in row'[m].segs
      BY <1>1, <1>3, Kinds DEF RowKind
    <2>3. Sane(row', proc, task', finals, made, failed)
      BY <1>1, <1>2, <2>1, <2>2, TaskStep, Kinds DEF FencePlaces
    <2>4. LockInv(proc', task')
      BY <1>1, <1>3, LockAside, Kinds DEF IInv, LockPlaces
    <2> QED
      BY <1>1, <1>3, <2>3, <2>4 DEF IInv
  <1>4. CASE ~Accepts(m) /\ Set(p, Reconciled(proc[p], m)) /\ UNCHANGED row
    <2> DEFINE P == [proc[p] EXCEPT !.gate = @ \cup {m}, !.mem[m] = row[m].segs]
    <2>1. /\ P \in ProcKind /\ P.gate = proc[p].gate \cup {m} /\ P.queue = proc[p].queue
          /\ P.cur = proc[p].cur /\ P.hydrated = proc[p].hydrated /\ P.found = proc[p].found
          /\ P.mem = [proc[p].mem EXCEPT ![m] = row[m].segs]
      BY <1>1, Kinds DEF ProcKind, RowKind
    <2>2. /\ P.mem[m] = row[m].segs
          /\ \A n \in Meetings : n # m => P.mem[n] = proc[p].mem[n]
      BY <1>1, <2>1 DEF ProcKind
    <2>3. proc' = [proc EXCEPT ![p] = P] /\ row' = row /\ row[m].state # "in_meeting"
      BY <1>4 DEF Set, Reconciled, Accepts
    <2> HIDE DEF P
    <2>4. LockInv(proc', task')
      BY <1>1, <2>1, <2>3, LockKeeps, Kinds DEF IInv, LockPlaces, FencePlaces
    <2>5. Sane(row, proc', task, finals, made, failed)
      <3>1. ProcFits(P, row)
        BY <1>1, <2>1 DEF IInv, Sane, ProcInv, ProcFits
      <3>2. \A n \in Meetings : Owns(proc[p], n) => Owns(P, n)
        BY <2>1 DEF Owns
      <3>3. \A n \in Meetings : \A z \in P.mem[n] : z \in proc[p].mem[n] \/ z \in row[n].segs
        BY <2>2
      <3>4. \A n \in P.gate : n \in proc[p].gate \/ row[n].state # "in_meeting"
        BY <2>1, <2>3
      <3>5. \A u \in Tasks : Home[u] = p /\ task[u].at \notin Free => P.hydrated = "yes"
        BY <2>1 DEF IInv, Sane, RestInv
      <3> QED
        BY <1>1, <2>1, <2>3, <3>1, <3>2, <3>3, <3>4, <3>5, ProcStep DEF IInv
    <2>6. proc'[p].mem[m] = row[m].segs
      BY <1>1, <2>2, <2>3, Kinds
    <2>7. Sane(row, proc', task', finals, made, failed)
      BY <1>1, <1>2, <2>3, <2>5, <2>6, TaskStep, Kinds DEF FencePlaces
    <2> QED
      BY <1>1, <2>3, <2>4, <2>7 DEF IInv
  <1> QED
    BY <1>3, <1>4 DEF Persist

LEMMA PersistFailsKeeps ==
    ASSUME TasksHaveHomes, BoundsAreNumbers, IInv, NEW t \in Tasks, PersistFails(t)
    PROVE  IInv'
  <1> DEFINE p == Home[t]
  <1>1. /\ task[t].at = "persist" /\ p \in Procs
        /\ task[t].seg \in Segs
        /\ faults < MaxFaults /\ faults' = faults + 1
        /\ failed' = failed \cup {task[t].seg} /\ task' = [task EXCEPT ![t] = Resting]
        /\ UNCHANGED <<row, proc, finals, made>>
    BY Kinds DEF PersistFails, Fault, Rests, At, IInv, Sane, TaskInv, TaskFits
  <1>2. Sane(row, proc, task, finals, made, failed')
    BY <1>1, FailedStep DEF IInv
  <1>3. TaskFits(Resting, row, made)
    BY Kinds DEF TaskFits
  <1>4. Sane(row, proc, task', finals, made, failed')
    BY <1>1, <1>2, <1>3, TaskStep, Kinds DEF FencePlaces
  <1>5. LockInv(proc', task')
    BY <1>1, LockAside, Kinds DEF IInv, LockPlaces
  <1>6. faults' \in Nat /\ faults' <= MaxFaults
    BY <1>1, Kinds DEF BoundsAreNumbers
  <1> QED
    BY <1>1, <1>4, <1>5, <1>6 DEF IInv

\* The gate closes before the row is written; the holder of the lock is about to write it.
LEMMA CloseGateKeeps ==
    ASSUME TasksHaveHomes, NoneIsNoMeeting, IInv, NEW t \in Tasks, CloseGate(t)
    PROVE  IInv'
  <1> DEFINE p == Home[t]
             m == task[t].m
             place == IF task[t].at = "end" THEN "fence" ELSE "fence_only"
             x == [task[t] EXCEPT !.at = place]
             P == [proc[p] EXCEPT !.gate = @ \cup {m}]
  <1>1. /\ task[t].at \in {"end", "end_only"} /\ p \in Procs /\ proc[p] \in ProcKind
        /\ task[t] \in TaskKind /\ m \in Meetings
        /\ proc[p].queue # <<>> /\ Head(proc[p].queue) = t
        /\ UNCHANGED <<row, finals, made, failed, faults>>
    BY Kinds DEF CloseGate, Holds, IInv, Sane, TaskInv, TaskFits
  <1>2. proc[p].hydrated = "yes"
    BY <1>1 DEF IInv, Sane, RestInv
  <1>3. row[m].state # "none"
    <2>1. CASE task[t].at = "end"
      <3>1. proc[p].cur = m
        BY <2>1 DEF CloseGate, At
      <3> QED
        BY <1>1, <3>1 DEF IInv, Sane, ProcInv, ProcFits, NoneIsNoMeeting
    <2>2. CASE task[t].at = "end_only"
      BY <2>2 DEF IInv, Sane, TaskInv, TaskFits
    <2> QED
      BY <1>1, <2>1, <2>2
  <1>4. place \in FencePlaces
    BY DEF FencePlaces
  <1>5. /\ task' = [task EXCEPT ![t] = x] /\ proc' = [proc EXCEPT ![p] = P]
    BY <1>1 DEF CloseGate, Goes, Set, At
  <1> HIDE DEF place
  <1>6. /\ x \in TaskKind /\ x.at \in FencePlaces /\ x.m = m
    BY <1>1, <1>4 DEF TaskKind, Places, FencePlaces
  <1>7. /\ P \in ProcKind /\ P.gate = proc[p].gate \cup {m} /\ P.queue = proc[p].queue
        /\ P.cur = proc[p].cur /\ P.hydrated = proc[p].hydrated /\ P.found = proc[p].found
        /\ P.mem = proc[p].mem
    BY <1>1 DEF ProcKind
  <1> HIDE DEF x, P
  <1>8. LockInv(proc', task')
    BY <1>1, <1>5, <1>6, <1>7, LockKeeps, Kinds DEF IInv, LockPlaces, FencePlaces
  <1>9. Sane(row, proc, task', finals, made, failed)
    <2>1. TaskFits(x, row, made)
      BY <1>1, <1>3, <1>6 DEF TaskFits, FencePlaces
    <2> QED
      BY <1>1, <1>2, <1>5, <1>6, <2>1, TaskStep DEF IInv, FencePlaces
  <1>10. Sane(row, proc', task', finals, made, failed)
    <2>1. ProcFits(P, row)
      BY <1>1, <1>3, <1>7 DEF IInv, Sane, ProcInv, ProcFits
    <2>2. Fences(p, m, task')
      BY <1>5, <1>6, Kinds DEF Fences
    <2>3. \A n \in Meetings : Owns(proc[p], n) => Owns(P, n)
      BY <1>7 DEF Owns
    <2>4. \A u \in Tasks : Home[u] = p /\ task'[u].at \notin Free => P.hydrated = "yes"
      BY <1>2, <1>7
    <2> QED
      BY <1>1, <1>5, <1>7, <1>9, <2>1, <2>2, <2>3, <2>4, ProcStep
  <1> QED
    BY <1>1, <1>8, <1>10 DEF IInv

\* The row was not written: the gate opens again.
LEMMA FenceFailsKeeps ==
    ASSUME TasksHaveHomes, BoundsAreNumbers, IInv, NEW t \in Tasks, FenceFails(t)
    PROVE  IInv'
  <1> DEFINE p == Home[t]
             m == task[t].m
             L == Leaves(proc[p])
             P == [L EXCEPT !.gate = @ \ {m}]
  <1>1. /\ task[t].at \in FencePlaces /\ p \in Procs /\ proc[p] \in ProcKind
        /\ proc[p].queue # <<>> /\ Head(proc[p].queue) = t
        /\ faults < MaxFaults /\ faults' = faults + 1
        /\ task' = [task EXCEPT ![t] = Resting]
        /\ UNCHANGED <<row, finals, made, failed>>
    BY Kinds DEF FenceFails, Holds, Fault, Rests, FencePlaces
  <1>2. L \in ProcKind /\ Alike(proc[p], L) /\ L.queue = Tail(proc[p].queue)
    BY <1>1, Shapes
  <1>3. proc' = [proc EXCEPT ![p] = P]
    BY DEF FenceFails, Set, AfterFenceFailed
  <1> HIDE DEF L
  <1>4. /\ P \in ProcKind /\ P.gate = proc[p].gate \ {m} /\ P.queue = Tail(proc[p].queue)
        /\ P.cur = proc[p].cur /\ P.hydrated = proc[p].hydrated /\ P.found = proc[p].found
        /\ P.mem = proc[p].mem
    BY <1>2 DEF ProcKind, Alike
  <1> HIDE DEF P
  <1>5. LockInv(proc', task')
    BY <1>1, <1>3, <1>4, LockLeaves, Kinds DEF IInv, LockPlaces
  <1>6. Sane(row, proc', task, finals, made, failed)
    <2>1. ProcFits(P, row)
      BY <1>1, <1>4 DEF IInv, Sane, ProcInv, ProcFits
    <2>2. \A n \in Meetings : Owns(proc[p], n) => Owns(P, n)
      BY <1>4 DEF Owns
    <2>3. \A u \in Tasks : Home[u] = p /\ task[u].at \notin Free => P.hydrated = "yes"
      BY <1>4 DEF IInv, Sane, RestInv
    <2> QED
      BY <1>1, <1>3, <1>4, <2>1, <2>2, <2>3, ProcStep DEF IInv
  <1>7. m \notin proc'[p].gate
    BY <1>1, <1>3, <1>4, Kinds
  <1>8. Sane(row, proc', task', finals, made, failed)
    <2>1. TaskFits(Resting, row, made)
      BY Kinds DEF TaskFits
    <2> QED
      BY <1>1, <1>6, <1>7, <2>1, TaskStep, Kinds DEF FencePlaces
  <1>9. faults' \in Nat /\ faults' <= MaxFaults
    BY <1>1, Kinds DEF BoundsAreNumbers
  <1> QED
    BY <1>1, <1>5, <1>8, <1>9 DEF IInv

\* Behind a gate that is closed when the holder of the lock comes to it is an ended meeting: no
\* other task of the process is about to end it.
LEMMA ClosedIsEnded ==
    ASSUME TasksHaveHomes, IInv, NEW t \in Tasks, Holds(t), task[t].at \notin FencePlaces,
           NEW m \in proc[Home[t]].gate
    PROVE  row[m].state # "in_meeting"
  <1>1. Home[t] \in Procs
    BY DEF TasksHaveHomes
  <1>2. ~Fences(Home[t], m, task)
    <2> SUFFICES ASSUME NEW u \in Tasks, Home[u] = Home[t], task[u].at \in FencePlaces PROVE FALSE
      BY DEF Fences
    <2>1. Head(proc[Home[t]].queue) = u
      BY <1>1 DEF IInv, LockInv, LockFits
    <2> QED
      BY <2>1 DEF Holds
  <1> QED
    BY <1>1, <1>2 DEF IInv, Sane, GateInv

\* The meeting is ended, the process is idle, and _end_current() has its minutes made.
LEMMA FenceKeeps ==
    ASSUME TasksHaveHomes, NoneIsNoMeeting, IInv, NEW t \in Tasks, Fence(t)
    PROVE  IInv'
  <1> DEFINE p == Home[t]
             m == task[t].m
             E == Ended(proc[p], m)
  <1>1. /\ task[t].at \in {"end", "end_only", "fence", "fence_only"} /\ p \in Procs
        /\ proc[p] \in ProcKind /\ m \in Meetings /\ Holds(t) /\ proc[p].queue # <<>>
        /\ Continues(t, E) /\ UNCHANGED <<made, failed, faults>>
    BY Kinds DEF Fence, Holds, IInv, Sane, TaskInv, TaskFits
  <1>2. proc[p].hydrated = "yes"
    BY <1>1 DEF IInv, Sane, RestInv
  <1>3. row[m].state # "none"
    <2>1. CASE task[t].at = "end"
      <3>1. proc[p].cur = m
        BY <2>1 DEF Fence
      <3> QED
        BY <1>1, <3>1 DEF IInv, Sane, ProcInv, ProcFits, NoneIsNoMeeting
    <2>2. CASE task[t].at # "end"
      BY <1>1, <2>2 DEF IInv, Sane, TaskInv, TaskFits
    <2> QED
      BY <2>1, <2>2
  <1>4. Sane(row', proc, task, finals, made, failed) /\ row'[m].state \notin {"none", "in_meeting"}
    <2>1. CASE task[t].at \in {"end", "end_only"}
      <3>1. row' = row /\ m \in proc[p].gate
        BY <2>1 DEF Fence
      <3>2. row[m].state # "in_meeting"
        BY <1>1, <2>1, <3>1, ClosedIsEnded DEF FencePlaces
      <3> QED
        BY <1>3, <3>1, <3>2 DEF IInv
    <2>2. CASE task[t].at \in {"fence", "fence_only"}
      <3> DEFINE r == [row[m] EXCEPT !.state = "ended"]
      <3>1. row' = [row EXCEPT ![m] = r]
        BY <2>2 DEF Fence
      <3>2. /\ r \in RowKind /\ r.state = "ended" /\ r.segs = row[m].segs
            /\ r.minutes = row[m].minutes
        BY <1>1, Kinds DEF RowKind
      <3> HIDE DEF r
      <3>3. r.minutes # None => r.minutes = r.segs
        BY <1>1, <3>2 DEF IInv, Sane, RowInv, RowFits
      <3>4. Sane(row', proc, task, finals, made, failed)
        BY <1>1, <1>3, <3>1, <3>2, <3>3, RowEnds DEF IInv
      <3> QED
        BY <1>1, <3>1, <3>2, <3>4, Kinds
    <2> QED
      BY <1>1, <2>1, <2>2
  <1>5. /\ E \in ProcKind /\ E.gate = proc[p].gate /\ E.queue = Tail(proc[p].queue)
        /\ E.cur = (IF proc[p].cur = m THEN None ELSE proc[p].cur)
        /\ E.hydrated = proc[p].hydrated /\ E.found = proc[p].found /\ E.mem = proc[p].mem
    <2> DEFINE L == Leaves(proc[p])
               C == [L EXCEPT !.cur = IF L.cur = m THEN None ELSE L.cur]
    <2>1. L \in ProcKind /\ Alike(proc[p], L) /\ L.queue = Tail(proc[p].queue)
      BY <1>1, Shapes
    <2>2. E = Cooled(C)
      BY DEF Ended
    <2> HIDE DEF L, E
    <2>3. /\ C \in ProcKind /\ C.queue = L.queue /\ C.gate = L.gate
          /\ C.cur = (IF L.cur = m THEN None ELSE L.cur)
          /\ C.hydrated = L.hydrated /\ C.found = L.found /\ C.mem = L.mem
      BY <2>1 DEF ProcKind, MaybeMeeting
    <2> HIDE DEF C
    <2>4. Cooled(C) \in ProcKind /\ Alike(C, Cooled(C)) /\ Cooled(C).queue = C.queue
      BY <2>3, Shapes
    <2> QED
      BY <2>1, <2>2, <2>3, <2>4 DEF Alike
  <1> HIDE DEF E
  <1>6. PICK x \in TaskKind, R \in ProcKind :
              /\ proc' = [proc EXCEPT ![p] = R] /\ task' = [task EXCEPT ![t] = x]
              /\ Alike(E, R) /\ x.at \in {"idle", "ingest", "start"}
              /\ x.at = "start" => x.then # "start"
              /\ LockInv(proc', task')
    BY <1>1, <1>5, Continuing
  <1>7. /\ R.gate = proc[p].gate /\ R.cur = (IF proc[p].cur = m THEN None ELSE proc[p].cur)
        /\ R.hydrated = proc[p].hydrated /\ R.found = proc[p].found /\ R.mem = proc[p].mem
    BY <1>5, <1>6 DEF Alike
  <1>8. Sane(row', proc', task, finals, made, failed)
    <2>1. ProcFits(proc[p], row')
      BY <1>1, <1>4 DEF Sane, ProcInv
    <2>2. ProcFits(R, row')
      BY <1>7, <2>1 DEF ProcFits
    <2>3. \A n \in Meetings : row'[n].state = "in_meeting" /\ Owns(proc[p], n) => Owns(R, n)
      BY <1>2, <1>4, <1>7 DEF Owns
    <2>4. \A u \in Tasks : Home[u] = p /\ task[u].at \notin Free => R.hydrated = "yes"
      BY <1>2, <1>7
    <2> QED
      BY <1>1, <1>4, <1>6, <1>7, <2>2, <2>3, <2>4, ProcStep
  <1>9. Sane(row', proc', task', finals, made, failed)
    <2>1. TaskFits(x, row', made)
      BY <1>6 DEF TaskFits
    <2>2. proc'[p].hydrated = "yes"
      BY <1>1, <1>2, <1>6, <1>7, Kinds
    <2> QED
      BY <1>1, <1>4, <1>6, <1>8, <2>1, <2>2, TaskStep
  <1>10. Sane(row', proc', task', finals', made, failed)
    <2> DEFINE f == [p |-> p, m |-> m, at |-> "read", snap |-> {}]
    <2>1. finals' \subseteq finals \cup {f}
      BY DEF Fence, Schedules
    <2>2. f \in FinalKind /\ FinalFits(f, row')
      BY <1>1, <1>4 DEF FinalKind, FinalFits
    <2> HIDE DEF f
    <2>3. finals' \subseteq FinalKind /\ \A g \in finals' : FinalFits(g, row')
      BY <1>4, <2>1, <2>2 DEF Sane, KindInv, FinalInv
    <2> QED
      BY <1>9, <2>3, FinalStep
  <1> QED
    BY <1>1, <1>6, <1>10 DEF IInv

\* The process points to a meeting already: the request is answered with that one.
LEMMA StartFoundKeeps ==
    ASSUME TasksHaveHomes, IInv, NEW t \in Tasks, Start(t), proc[Home[t]].cur # None
    PROVE  IInv'
  <1> DEFINE p == Home[t]
             L == Leaves(proc[p])
             x == [task[t] EXCEPT !.at = task[t].then]
  <1>1. /\ task[t].at \in {"start", "auto_start"} /\ p \in Procs /\ proc[p] \in ProcKind
        /\ task[t] \in TaskKind /\ task[t].then \in {"idle", "ingest"}
        /\ proc[p].queue # <<>> /\ Head(proc[p].queue) = t
        /\ UNCHANGED <<row, finals, made, failed, faults>>
    BY Kinds DEF Start, Holds, At, IInv, Sane, TaskInv, TaskFits, TaskKind
  <1>2. proc[p].hydrated = "yes"
    BY <1>1 DEF IInv, Sane, RestInv
  <1>3. L \in ProcKind /\ Alike(proc[p], L) /\ L.queue = Tail(proc[p].queue)
    BY <1>1, Shapes
  <1>4. proc' = [proc EXCEPT ![p] = L] /\ task' = [task EXCEPT ![t] = x]
    BY DEF Start, Set, Goes
  <1>5. x \in TaskKind /\ x.at \in {"idle", "ingest"}
    BY <1>1 DEF TaskKind, Places
  <1> HIDE DEF L, x
  <1>6. LockInv(proc', task')
    BY <1>1, <1>3, <1>4, <1>5, LockLeaves, Kinds DEF IInv, LockPlaces
  <1>7. TaskFits(x, row, made')
    BY <1>5 DEF TaskFits
  <1>8. QuietMove(t, L, x)
    BY <1>1, <1>2, <1>3, <1>4, <1>5, <1>6, <1>7, Kinds DEF QuietMove, FencePlaces
  <1> QED
    BY <1>8, QuietStep

\* A meeting is created, or the open one is taken, whoever made it.
LEMMA StartNewKeeps ==
    ASSUME TasksHaveHomes, NoneIsNoMeeting, BoundsAreNumbers, IInv,
           NEW t \in Tasks, Start(t), proc[Home[t]].cur = None
    PROVE  IInv'
  <1> DEFINE p == Home[t]
             auto == task[t].at = "auto_start"
             m == IF auto THEN task[t].m ELSE made + 1
             r == Authoritative(m)
             L == Leaves(proc[p])
             K == Knows(L, r)
             P == [K EXCEPT !.cur = r]
             x == [task[t] EXCEPT !.at = task[t].then]
  <1>1. /\ task[t].at \in {"start", "auto_start"} /\ p \in Procs /\ proc[p] \in ProcKind
        /\ task[t] \in TaskKind /\ task[t].then \in {"idle", "ingest"}
        /\ proc[p].queue # <<>> /\ Head(proc[p].queue) = t
        /\ UNCHANGED <<finals, failed, faults>>
    BY Kinds DEF Start, Holds, At, IInv, Sane, TaskInv, TaskFits, TaskKind
  <1>2. proc[p].hydrated = "yes"
    BY <1>1 DEF IInv, Sane, RestInv
  <1>3. L \in ProcKind /\ Alike(proc[p], L) /\ L.queue = Tail(proc[p].queue)
    BY <1>1, Shapes
  <1>4. /\ r \in Meetings /\ row' = Inserted(m, auto, FALSE)
        /\ made' = (IF auto \/ Active # {} THEN made ELSE made + 1)
        /\ task' = [task EXCEPT ![t] = x]
    BY DEF Start, At, Goes
  <1>5. \E Q \in {P, [P EXCEPT !.active = r, !.cool = FALSE]} : proc' = [proc EXCEPT ![p] = Q]
    BY DEF Start, At, Set
  <1>6. x \in TaskKind /\ x.at \in {"idle", "ingest"}
    BY <1>1 DEF TaskKind, Places
  <1> HIDE DEF L, x, r
  <1>7. /\ P \in ProcKind /\ P.cur = r /\ P.gate = proc[p].gate \ {r}
        /\ P.queue = Tail(proc[p].queue) /\ P.hydrated = "yes" /\ P.found = proc[p].found
        /\ \A n \in Meetings : P.mem[n] \subseteq proc[p].mem[n] \cup row[n].segs
    <2>1. /\ K \in ProcKind /\ K.gate = L.gate \ {r} /\ K.queue = L.queue
          /\ K.hydrated = L.hydrated /\ K.found = L.found
          /\ \A n \in Meetings : K.mem[n] \subseteq L.mem[n] \cup row[n].segs
      BY <1>3, <1>4, Kinds, Knowing
    <2> HIDE DEF K
    <2>2. /\ P \in ProcKind /\ P.cur = r /\ P.gate = K.gate /\ P.queue = K.queue
          /\ P.hydrated = K.hydrated /\ P.found = K.found /\ P.mem = K.mem
      BY <1>4, <2>1 DEF ProcKind, MaybeMeeting
    <2> HIDE DEF P
    <2>3. \A n \in Meetings : P.mem[n] \subseteq proc[p].mem[n] \cup row[n].segs
      BY <1>3, <2>1, <2>2 DEF Alike
    <2> QED
      BY <1>2, <1>3, <2>1, <2>2, <2>3 DEF Alike
  <1> HIDE DEF P
  <1>8. PICK Q \in ProcKind :
              /\ proc' = [proc EXCEPT ![p] = Q]
              /\ Q.cur = r /\ Q.gate = proc[p].gate \ {r}
              /\ Q.queue = Tail(proc[p].queue) /\ Q.hydrated = "yes" /\ Q.found = proc[p].found
              /\ \A n \in Meetings : Q.mem[n] \subseteq proc[p].mem[n] \cup row[n].segs
    <2> DEFINE R == [P EXCEPT !.active = r, !.cool = FALSE]
    <2>1. /\ R \in ProcKind /\ R.cur = P.cur /\ R.gate = P.gate /\ R.queue = P.queue
          /\ R.hydrated = P.hydrated /\ R.found = P.found /\ R.mem = P.mem
      BY <1>4, <1>7 DEF ProcKind, MaybeMeeting
    <2> HIDE DEF R
    <2>2. PICK Q \in {P, R} : proc' = [proc EXCEPT ![p] = Q]
      BY <1>5 DEF R
    <2>3. /\ Q \in ProcKind /\ Q.cur = r /\ Q.gate = proc[p].gate \ {r}
          /\ Q.queue = Tail(proc[p].queue) /\ Q.hydrated = "yes" /\ Q.mem = P.mem
          /\ Q.found = proc[p].found
      BY <1>7, <2>1
    <2>4. \A n \in Meetings : Q.mem[n] \subseteq proc[p].mem[n] \cup row[n].segs
      BY <1>7, <2>3
    <2> QED
      BY <2>2, <2>3, <2>4
  <1>9. LockInv(proc', task')
    BY <1>1, <1>4, <1>6, <1>8, LockLeaves, Kinds DEF IInv, LockPlaces
  <1>10. made' \in Nat /\ made <= made' /\ made' <= MaxMeetings
    <2>1. CASE auto \/ Active # {}
      BY <1>4, <2>1, Kinds
    <2>2. CASE ~auto /\ Active = {}
      <3>1. r = made + 1 /\ made' = made + 1
        BY <1>4, <2>2 DEF Authoritative, r
      <3> QED
        BY <1>4, <3>1, Kinds DEF Meetings
    <2> QED
      BY <2>1, <2>2
  <1>11. Sane(row, proc, task', finals, made', failed)
    <2>1. Sane(row, proc, task, finals, made', failed)
      BY <1>10, MadeStep DEF IInv
    <2>2. TaskFits(x, row, made')
      BY <1>6 DEF TaskFits
    <2> QED
      BY <1>1, <1>2, <1>4, <1>6, <2>1, <2>2, TaskStep DEF FencePlaces
  <1>12. CASE Active = {}
    <2> DEFINE n == [NoRow EXCEPT !.state = "in_meeting", !.auto = auto, !.loose = FALSE]
    <2>1. r = m /\ row' = [row EXCEPT ![r] = n]
      BY <1>4, <1>12 DEF Authoritative, Inserted, r
    <2>2. n \in RowKind /\ n.state = "in_meeting" /\ n.minutes = None /\ n.segs = {}
      BY DEF NoRow, RowKind
    <2> HIDE DEF n
    <2>3. row[r].state = "none" /\ r <= made'
      <3>1. CASE auto
        BY <1>4, <2>1, <3>1 DEF IInv, Sane, TaskInv, TaskFits
      <3>2. CASE ~auto
        <4>1. r = made + 1 /\ made' = made + 1
          BY <1>4, <1>12, <2>1, <3>2
        <4>2. ~(r <= made) /\ r <= made'
          BY <4>1, Kinds
        <4> QED
          BY <1>4, <4>2 DEF IInv, Sane, RowInv
      <3> QED
        BY <3>1, <3>2
    <2>4. \A k \in Meetings : row[k].state # "in_meeting"
      BY <1>12 DEF Active
    <2>5. \A u \in Tasks : task'[u].at = "auto_start" => task'[u].m # r
      <3> SUFFICES ASSUME NEW u \in Tasks, task'[u].at = "auto_start" PROVE task'[u].m # r
        OBVIOUS
      <3>1. u # t /\ task'[u] = task[u]
        BY <1>4, <1>6, Kinds
      <3>2. CASE auto
        BY <2>1, <3>1, <3>2 DEF IInv, Sane, TaskInv
      <3>3. CASE ~auto
        <4>1. task[u].m <= made /\ r = made + 1
          BY <2>1, <3>1, <3>3 DEF IInv, Sane, TaskInv, TaskFits
        <4> QED
          BY <3>1, <4>1, Kinds
      <3> QED
        BY <3>2, <3>3
    <2>6. Q.gate \subseteq proc[p].gate /\ r \notin Q.gate
      BY <1>8
    <2>7. /\ r \in Meetings /\ p \in Procs /\ Q.hydrated = proc[p].hydrated
          /\ Q.cur = r /\ Q.hydrated = "yes" /\ Q.found = proc[p].found
          /\ \A k \in Meetings : Q.mem[k] \subseteq proc[p].mem[k] \cup row[k].segs
      BY <1>1, <1>2, <1>4, <1>8
    <2>8. Sane([row EXCEPT ![r] = n], [proc EXCEPT ![p] = Q], task', finals, made', failed)
      BY <1>11, <2>2, <2>3, <2>4, <2>5, <2>6, <2>7, RowOpens
    <2> QED
      BY <1>1, <1>8, <1>9, <2>1, <2>8 DEF IInv
  <1>13. CASE Active # {}
    <2>1. row' = row /\ r \in Active
      BY <1>4, <1>13 DEF Authoritative, Inserted, r
    <2>2. row[r].state = "in_meeting"
      BY <2>1 DEF Active
    <2>3. ProcFits(Q, row)
      BY <1>1, <1>8, <2>2 DEF ProcFits, IInv, Sane, ProcInv
    <2>4. \A n \in Meetings : row[n].state = "in_meeting" /\ Owns(proc[p], n) => Owns(Q, n)
      BY <1>2, <1>8 DEF Owns, NoneIsNoMeeting
    <2>5. \A u \in Tasks : Home[u] = p /\ task'[u].at \notin Free => Q.hydrated = "yes"
      BY <1>8
    <2>6. \A n \in Q.gate : n \in proc[p].gate
      BY <1>8
    <2>7. \A n \in Meetings : \A z \in Q.mem[n] : z \in proc[p].mem[n] \/ z \in row[n].segs
      BY <1>8
    <2>8. Sane(row, proc', task', finals, made', failed)
      BY <1>1, <1>8, <1>11, <2>3, <2>4, <2>5, <2>6, <2>7, ProcStep
    <2> QED
      BY <1>1, <1>9, <2>1, <2>8 DEF IInv
  <1> QED
    BY <1>12, <1>13

\* The low-level start creates a meeting no process points to, or learns of the open one.
LEMMA LowLevelStartKeeps ==
    ASSUME TasksHaveHomes, NoneIsNoMeeting, BoundsAreNumbers, IInv, NEW p \in Procs, LowLevelStart(p)
    PROVE  IInv'
  <1> DEFINE m == made + 1
             r == Authoritative(m)
             K == Knows(proc[p], r)
  <1>1. /\ r \in Meetings /\ row' = Inserted(m, FALSE, TRUE)
        /\ made' = (IF Active = {} THEN made + 1 ELSE made)
        /\ proc' = [proc EXCEPT ![p] = K]
        /\ UNCHANGED <<task, finals, failed, faults>>
    BY DEF LowLevelStart, Set
  <1> HIDE DEF r
  <1>2. /\ K \in ProcKind /\ K.gate = proc[p].gate \ {r} /\ K.queue = proc[p].queue
        /\ K.hydrated = proc[p].hydrated /\ K.found = proc[p].found /\ K.cur = proc[p].cur
        /\ \A n \in Meetings : K.mem[n] \subseteq proc[p].mem[n] \cup row[n].segs
    BY <1>1, Knowing, Kinds
  <1> HIDE DEF K
  <1>3. LockInv(proc', task')
    BY <1>1, <1>2, LockRests, Kinds DEF IInv
  <1>4. CASE Active = {}
    <2> DEFINE n == [NoRow EXCEPT !.state = "in_meeting", !.auto = FALSE, !.loose = TRUE]
    <2>1. r = made + 1 /\ made' = made + 1 /\ row' = [row EXCEPT ![r] = n]
      BY <1>1, <1>4 DEF Authoritative, Inserted, r
    <2>2. n \in RowKind /\ n.state = "in_meeting" /\ n.minutes = None /\ n.segs = {} /\ n.loose
      BY DEF NoRow, RowKind
    <2> HIDE DEF n
    <2>3. made' \in Nat /\ made <= made' /\ made' <= MaxMeetings /\ ~(r <= made) /\ r <= made'
      BY <1>1, <2>1, Kinds DEF Meetings
    <2>4. row[r].state = "none"
      BY <1>1, <2>3 DEF IInv, Sane, RowInv
    <2>5. \A k \in Meetings : row[k].state # "in_meeting"
      BY <1>4 DEF Active
    <2>6. \A u \in Tasks : task[u].at = "auto_start" => task[u].m # r
      BY <2>3 DEF IInv, Sane, TaskInv, TaskFits
    <2>7. Sane(row, proc, task, finals, made', failed)
      BY <2>3, MadeStep DEF IInv
    <2>8. K.gate \subseteq proc[p].gate /\ r \notin K.gate
      BY <1>2
    <2>9. Sane([row EXCEPT ![r] = n], [proc EXCEPT ![p] = K], task, finals, made', failed)
      BY <1>1, <1>2, <2>2, <2>3, <2>4, <2>5, <2>6, <2>7, <2>8, RowOpens
    <2> QED
      BY <1>1, <1>3, <2>1, <2>9 DEF IInv
  <1>5. CASE Active # {}
    <2>1. row' = row /\ made' = made
      BY <1>1, <1>5 DEF Inserted
    <2>2. ProcFits(K, row)
      BY <1>2 DEF ProcFits, IInv, Sane, ProcInv
    <2>3. \A n \in Meetings : Owns(proc[p], n) => Owns(K, n)
      BY <1>2 DEF Owns
    <2>4. \A u \in Tasks : Home[u] = p /\ task[u].at \notin Free => K.hydrated = "yes"
      BY <1>2 DEF IInv, Sane, RestInv
    <2>5. \A n \in K.gate : n \in proc[p].gate
      BY <1>2
    <2>6. \A n \in Meetings : \A z \in K.mem[n] : z \in proc[p].mem[n] \/ z \in row[n].segs
      BY <1>2
    <2>7. Sane(row, proc', task, finals, made, failed)
      BY <1>1, <1>2, <2>2, <2>3, <2>4, <2>5, <2>6, ProcStep DEF IInv
    <2> QED
      BY <1>1, <1>3, <2>1, <2>7 DEF IInv
  <1> QED
    BY <1>4, <1>5

LEMMA StartKeeps ==
    ASSUME TasksHaveHomes, NoneIsNoMeeting, BoundsAreNumbers, IInv, NEW t \in Tasks, Start(t)
    PROVE  IInv'
  BY StartFoundKeeps, StartNewKeeps

----------------------------------------------------------------------------
(* The steps of the processes.                                               *)

\* The memory of a process changes without a task, and summaries may begin.
LEMMA RestStep ==
    ASSUME TasksHaveHomes, IInv, NEW p \in Procs, NEW P \in ProcKind, ProcFits(P, row),
           P.queue = proc[p].queue,
           proc[p].hydrated = "yes" => P.hydrated = "yes",
           \A m \in P.gate : m \in proc[p].gate,
           \A m \in Meetings : P.mem[m] \subseteq proc[p].mem[m] \cup row[m].segs,
           \A m \in Meetings : row[m].state = "in_meeting" /\ Owns(proc[p], m) => Owns(P, m),
           NEW fi, fi \subseteq FinalKind, \A f \in fi : f \in finals \/ FinalFits(f, row)
    PROVE  /\ Sane(row, [proc EXCEPT ![p] = P], task, fi, made, failed)
           /\ LockInv([proc EXCEPT ![p] = P], task)
  <1>1. \A u \in Tasks : Home[u] = p /\ task[u].at \notin Free => P.hydrated = "yes"
    BY DEF IInv, Sane, RestInv
  <1>2. \A m \in Meetings : \A s \in P.mem[m] : s \in proc[p].mem[m] \/ s \in row[m].segs
    OBVIOUS
  <1>3. Sane(row, [proc EXCEPT ![p] = P], task, finals, made, failed)
    BY <1>1, <1>2, ProcStep DEF IInv
  <1>4. \A f \in fi : FinalFits(f, row)
    BY DEF IInv, Sane, FinalInv
  <1>5. LockInv([proc EXCEPT ![p] = P], task)
    BY LockRests, Kinds DEF IInv
  <1> QED
    BY <1>3, <1>4, <1>5, FinalStep

LEMMA HydrateReadKeeps ==
    ASSUME TasksHaveHomes, NoneIsNoMeeting, IInv, NEW p \in Procs, HydrateRead(p)
    PROVE  IInv'
  <1>1. /\ proc[p].hydrated = "no" /\ proc[p] \in ProcKind
        /\ UNCHANGED <<row, task, finals, made, failed, faults>>
    BY Kinds DEF HydrateRead
  <1>2. proc[p].cur = None /\ ProcFits(proc[p], row)
    BY <1>1 DEF IInv, Sane, ProcInv, ProcFits
  <1>3. PICK P \in ProcKind :
           /\ proc' = [proc EXCEPT ![p] = P]
           /\ P.cur = None /\ P.gate = proc[p].gate /\ P.mem = proc[p].mem /\ P.queue = proc[p].queue
           /\ \/ P.hydrated = "yes" /\ Active = {}
              \/ P.hydrated = "found" /\ P.found \in Active
    <2>1. CASE Active = {}
      <3> DEFINE P == [proc[p] EXCEPT !.hydrated = "yes"]
      <3>1. /\ P \in ProcKind /\ P.hydrated = "yes" /\ P.cur = None
            /\ P.gate = proc[p].gate /\ P.mem = proc[p].mem /\ P.queue = proc[p].queue
        BY <1>1, <1>2 DEF ProcKind
      <3>2. proc' = [proc EXCEPT ![p] = P]
        BY <2>1 DEF HydrateRead, Set
      <3> QED
        BY <2>1, <3>1, <3>2
    <2>2. ASSUME NEW m \in Active, Set(p, [proc[p] EXCEPT !.hydrated = "found", !.found = m])
          PROVE  \E P \in ProcKind :
                    /\ proc' = [proc EXCEPT ![p] = P]
                    /\ P.cur = None /\ P.gate = proc[p].gate /\ P.mem = proc[p].mem
                    /\ P.queue = proc[p].queue
                    /\ P.hydrated = "found" /\ P.found \in Active
      <3> DEFINE P == [proc[p] EXCEPT !.hydrated = "found", !.found = m]
      <3>1. m \in MaybeMeeting
        BY DEF Active, MaybeMeeting
      <3>2. /\ P \in ProcKind /\ P.hydrated = "found" /\ P.found = m /\ P.cur = None
            /\ P.gate = proc[p].gate /\ P.mem = proc[p].mem /\ P.queue = proc[p].queue
        BY <1>1, <1>2, <3>1 DEF ProcKind
      <3>3. proc' = [proc EXCEPT ![p] = P]
        BY <2>2 DEF Set
      <3> QED
        BY <3>2, <3>3
    <2> QED
      BY <2>1, <2>2 DEF HydrateRead
  <1>4. ProcFits(P, row)
    BY <1>2, <1>3 DEF ProcFits, Active
  <1>5. \A m \in Meetings : row[m].state = "in_meeting" => Owns(P, m)
    BY <1>3 DEF Owns, Active, IInv, Sane, RowInv
  <1>6. Sane(row, proc', task, finals, made, failed) /\ LockInv(proc', task)
    BY <1>1, <1>3, <1>4, <1>5, RestStep, Kinds
  <1> QED
    BY <1>1, <1>6 DEF IInv

LEMMA HydrateKeepKeeps ==
    ASSUME TasksHaveHomes, NoneIsNoMeeting, IInv, NEW p \in Procs, HydrateKeep(p)
    PROVE  IInv'
  <1> DEFINE mem == [m \in Meetings |-> IF m \in Active THEN row[m].segs ELSE proc[p].mem[m]]
             Q == [proc[p] EXCEPT !.hydrated = "yes", !.cur = proc[p].found, !.found = None,
                           !.mem = mem, !.known = @ \cup Active, !.gate = @ \ Active]
  <1>1. /\ proc[p].hydrated = "found" /\ proc[p] \in ProcKind
        /\ UNCHANGED <<row, task, finals, made, failed, faults>>
    BY Kinds DEF HydrateKeep
  <1>2. /\ proc[p].cur = None /\ ProcFits(proc[p], row) /\ proc[p].found \in Meetings
        /\ row[proc[p].found].state # "none"
    BY <1>1 DEF IInv, Sane, ProcInv, ProcFits
  <1>3. proc' = [proc EXCEPT ![p] = Adopted(Q)]
    BY DEF HydrateKeep, Set
  <1>4. mem \in [Meetings -> SUBSET Segs] /\ \A m \in Meetings : mem[m] \subseteq proc[p].mem[m] \cup row[m].segs
    BY <1>1, Kinds DEF ProcKind, RowKind
  <1> HIDE DEF mem
  <1>5. /\ Q \in ProcKind /\ Q.hydrated = "yes" /\ Q.cur = proc[p].found
        /\ Q.gate = proc[p].gate \ Active /\ Q.mem = mem /\ Q.queue = proc[p].queue
    BY <1>1, <1>4 DEF ProcKind, Active, MaybeMeeting
  <1> HIDE DEF Q
  <1>6. /\ Adopted(Q) \in ProcKind /\ Alike(Q, Adopted(Q)) /\ Adopted(Q).queue = Q.queue
    BY <1>5, Shapes
  <1>7. PICK P \in ProcKind :
           /\ proc' = [proc EXCEPT ![p] = P]
           /\ P.hydrated = "yes" /\ P.cur = proc[p].found
           /\ P.gate = proc[p].gate \ Active /\ P.mem = mem /\ P.queue = proc[p].queue
    BY <1>3, <1>5, <1>6 DEF Alike
  <1>8. ProcFits(P, row)
    BY <1>2, <1>7 DEF ProcFits
  <1>9. \A m \in Meetings : Owns(proc[p], m) => Owns(P, m)
    BY <1>1, <1>2, <1>7 DEF Owns, NoneIsNoMeeting
  <1>10. Sane(row, proc', task, finals, made, failed) /\ LockInv(proc', task)
    BY <1>1, <1>4, <1>7, <1>8, <1>9, RestStep, Kinds
  <1> QED
    BY <1>1, <1>10 DEF IInv

LEMMA CooldownOverKeeps ==
    ASSUME TasksHaveHomes, IInv, NEW p \in Procs, CooldownOver(p)
    PROVE  IInv'
  <1> DEFINE P == [proc[p] EXCEPT !.cool = FALSE]
  <1>1. /\ proc' = [proc EXCEPT ![p] = P] /\ proc[p] \in ProcKind
        /\ UNCHANGED <<row, task, finals, made, failed, faults>>
    BY Kinds DEF CooldownOver, Set
  <1>2. P \in ProcKind /\ Alike(proc[p], P) /\ P.queue = proc[p].queue
    BY <1>1 DEF ProcKind, Alike
  <1> HIDE DEF P
  <1>3. Sane(row, proc', task, finals, made, failed)
    BY <1>1, <1>2, AlikeStep DEF IInv
  <1>4. LockInv(proc', task)
    BY <1>1, <1>2, LockRests, Kinds DEF IInv
  <1> QED
    BY <1>1, <1>3, <1>4 DEF IInv

LEMMA FinalizeRequestKeeps ==
    ASSUME IInv, NEW p \in Procs, NEW m \in Meetings, FinalizeRequest(p, m)
    PROVE  IInv'
  <1> DEFINE f == [p |-> p, m |-> m, at |-> "read", snap |-> {}]
  <1>1. /\ row[m].state # "none" /\ finals' = finals \cup {f}
        /\ UNCHANGED <<row, proc, task, made, failed, faults>>
    BY DEF FinalizeRequest, Schedules
  <1>2. f \in FinalKind /\ FinalFits(f, row)
    BY <1>1 DEF FinalKind, FinalFits
  <1> HIDE DEF f
  <1>3. finals' \subseteq FinalKind /\ \A g \in finals' : FinalFits(g, row)
    BY <1>1, <1>2 DEF IInv, Sane, KindInv, FinalInv
  <1>4. Sane(row, proc, task, finals', made, failed)
    BY <1>3, FinalStep DEF IInv
  <1> QED
    BY <1>1, <1>4 DEF IInv

LEMMA RecoverKeeps ==
    ASSUME TasksHaveHomes, IInv, NEW p \in Procs, Recover(p)
    PROVE  IInv'
  <1> DEFINE mem == [m \in Meetings |-> IF m \in Stuck THEN row[m].segs ELSE proc[p].mem[m]]
             P == [proc[p] EXCEPT !.recovered = TRUE, !.mem = mem,
                           !.known = @ \cup Stuck, !.gate = @ \ Stuck]
             new == {[p |-> p, m |-> m, at |-> "read", snap |-> {}] : m \in Stuck}
  <1>1. /\ proc[p].hydrated = "yes" /\ proc[p] \in ProcKind
        /\ proc' = [proc EXCEPT ![p] = P] /\ finals' = finals \cup new
        /\ UNCHANGED <<row, task, made, failed, faults>>
    BY Kinds DEF Recover, Set
  <1>2. mem \in [Meetings -> SUBSET Segs] /\ \A m \in Meetings : mem[m] \subseteq proc[p].mem[m] \cup row[m].segs
    BY <1>1, Kinds DEF ProcKind, RowKind
  <1>3. Stuck \subseteq Meetings /\ \A m \in Stuck : row[m].state = "ended"
    BY DEF Stuck
  <1>4. new \subseteq FinalKind /\ \A f \in new : FinalFits(f, row)
    BY <1>3 DEF FinalKind, FinalFits
  <1> HIDE DEF mem, new
  <1>5. /\ P \in ProcKind /\ P.hydrated = proc[p].hydrated /\ P.cur = proc[p].cur
        /\ P.found = proc[p].found
        /\ P.gate = proc[p].gate \ Stuck /\ P.mem = mem /\ P.queue = proc[p].queue
    BY <1>1, <1>2, <1>3 DEF ProcKind
  <1> HIDE DEF P
  <1>6. ProcFits(P, row)
    BY <1>5 DEF ProcFits, IInv, Sane, ProcInv
  <1>7. \A m \in Meetings : Owns(proc[p], m) => Owns(P, m)
    BY <1>5 DEF Owns
  <1>8. finals' \subseteq FinalKind /\ \A f \in finals' : f \in finals \/ FinalFits(f, row)
    BY <1>1, <1>4, Kinds
  <1>9. Sane(row, [proc EXCEPT ![p] = P], task, finals', made, failed)
        /\ LockInv([proc EXCEPT ![p] = P], task)
    BY <1>1, <1>2, <1>5, <1>6, <1>7, <1>8, RestStep
  <1> QED
    BY <1>1, <1>9 DEF IInv

LEMMA HydrateExpiredKeeps ==
    ASSUME TasksHaveHomes, NoneIsNoMeeting, IInv, NEW p \in Procs, HydrateExpired(p)
    PROVE  IInv'
  <1> DEFINE m == proc[p].found
             C == Cooled(proc[p])
             Q == [C EXCEPT !.hydrated = "yes", !.found = None]
             r == [row[m] EXCEPT !.state = "ended"]
  <1>1. /\ proc[p].hydrated = "found" /\ proc[p] \in ProcKind
        /\ row' = [row EXCEPT ![m] = r]
        /\ UNCHANGED <<task, made, failed, faults>>
    BY Kinds DEF HydrateExpired
  <1>2. /\ proc[p].cur = None /\ ProcFits(proc[p], row) /\ m \in Meetings /\ row[m].state # "none"
    BY <1>1 DEF IInv, Sane, ProcInv, ProcFits
  <1>3. /\ r \in RowKind /\ r.state = "ended" /\ r.segs = row[m].segs /\ r.minutes = row[m].minutes
    BY <1>2, Kinds DEF RowKind
  <1> HIDE DEF r
  <1>4. Sane(row', proc, task, finals, made, failed)
    <2>1. r.minutes # None => r.minutes = r.segs
      BY <1>2, <1>3 DEF IInv, Sane, RowInv, RowFits
    <2> QED
      BY <1>1, <1>2, <1>3, <2>1, RowEnds DEF IInv
  <1>5. row'[m] = r /\ \A n \in Meetings : row'[n].segs = row[n].segs
    BY <1>1, <1>2, <1>3, Kinds
  <1>6. C \in ProcKind /\ Alike(proc[p], C) /\ C.queue = proc[p].queue
    BY <1>1, Shapes
  <1> HIDE DEF C
  <1>7. /\ Q \in ProcKind /\ Q.hydrated = "yes" /\ Q.cur = None /\ Q.gate = proc[p].gate
        /\ Q.mem = proc[p].mem /\ Q.queue = proc[p].queue
    BY <1>2, <1>6 DEF ProcKind, Alike, MaybeMeeting
  <1>8. PICK P \in ProcKind :
           /\ proc' = [proc EXCEPT ![p] = P] /\ P.hydrated = "yes" /\ P.cur = None
           /\ P.queue = proc[p].queue /\ P.gate \subseteq proc[p].gate
           /\ \A n \in Meetings : P.mem[n] \subseteq proc[p].mem[n] \cup row[n].segs
    <2>1. CASE Set(p, Q)
      <3>1. proc' = [proc EXCEPT ![p] = Q]
        BY <2>1 DEF Set
      <3> QED
        BY <1>7, <3>1
    <2>2. CASE Set(p, Reloads(Q, m))
      <3> DEFINE mem == [Q.mem EXCEPT ![m] = row[m].segs]
                 R == [Q EXCEPT !.mem = mem, !.gate = @ \ {m}, !.known = @ \cup {m}]
      <3>1. /\ mem \in [Meetings -> SUBSET Segs]
            /\ \A n \in Meetings : mem[n] \subseteq Q.mem[n] \cup row[n].segs
        BY <1>2, <1>7, Kinds DEF ProcKind, RowKind
      <3>2. proc' = [proc EXCEPT ![p] = R]
        BY <2>2 DEF Set, Reloads
      <3> HIDE DEF Q, mem
      <3>3. /\ R \in ProcKind /\ R.hydrated = Q.hydrated /\ R.cur = Q.cur
            /\ R.gate = Q.gate \ {m} /\ R.mem = mem /\ R.queue = Q.queue
        BY <1>2, <1>7, <3>1 DEF ProcKind
      <3> HIDE DEF R
      <3> QED
        BY <1>7, <3>1, <3>2, <3>3
    <2> QED
      BY <2>1, <2>2 DEF HydrateExpired, C
  <1>9. Sane(row', proc', task, finals, made, failed)
    <2>1. ProcFits(proc[p], row')
      BY <1>4 DEF Sane, ProcInv
    <2>2. ProcFits(P, row')
      BY <1>8, <2>1 DEF ProcFits
    <2>3. \A n \in Meetings : row'[n].state = "in_meeting" /\ Owns(proc[p], n) => Owns(P, n)
      BY <1>1, <1>2, <1>3, <1>5 DEF Owns, NoneIsNoMeeting
    <2>4. \A n \in Meetings : \A s \in P.mem[n] : s \in proc[p].mem[n] \/ s \in row'[n].segs
      BY <1>5, <1>8
    <2> QED
      BY <1>4, <1>8, <2>2, <2>3, <2>4, ProcStep
  <1>10. Sane(row', proc', task, finals', made, failed)
    <2> DEFINE f == [p |-> p, m |-> m, at |-> "read", snap |-> {}]
    <2>1. finals' \subseteq finals \cup {f}
      BY DEF HydrateExpired, Schedules
    <2>2. f \in FinalKind /\ FinalFits(f, row')
      BY <1>2, <1>3, <1>5 DEF FinalKind, FinalFits
    <2> HIDE DEF f
    <2>3. finals' \subseteq FinalKind /\ \A g \in finals' : FinalFits(g, row')
      BY <1>4, <2>1, <2>2 DEF Sane, KindInv, FinalInv
    <2> QED
      BY <1>9, <2>3, FinalStep
  <1>11. LockInv(proc', task)
    BY <1>8, LockRests, Kinds DEF IInv
  <1> QED
    BY <1>1, <1>10, <1>11 DEF IInv

\* One transaction ends the meeting and reads its segments.
LEMMA FinalReadKeeps ==
    ASSUME TasksHaveHomes, IInv, NEW f \in finals, FinalRead(f)
    PROVE  IInv'
  <1> DEFINE p == f.p
             m == f.m
             mem == [proc[p].mem EXCEPT ![m] = row[m].segs]
             P == [proc[p] EXCEPT !.mem = mem, !.gate = @ \cup {m}]
             g == [f EXCEPT !.at = "written", !.snap = row[m].segs]
  <1>1. /\ p \in Procs /\ m \in Meetings /\ f \in FinalKind /\ proc[p] \in ProcKind
        /\ row[m] \in RowKind
        /\ UNCHANGED <<task, made, failed, faults>>
    BY Kinds DEF FinalRead, FinalKind
  <1>2. row[m].state # "none"
    BY DEF IInv, Sane, FinalInv, FinalFits
  <1>3. /\ Sane(row', proc, task, finals, made, failed)
        /\ row'[m].state \notin {"none", "in_meeting"}
        /\ \A n \in Meetings : row'[n].segs = row[n].segs
    <2>1. ASSUME NEW r \in RowKind, row' = [row EXCEPT ![m] = r], r.state = "ended",
                 r.segs = row[m].segs, r.minutes = row[m].minutes
          PROVE  /\ Sane(row', proc, task, finals, made, failed)
                 /\ row'[m].state \notin {"none", "in_meeting"}
                 /\ \A n \in Meetings : row'[n].segs = row[n].segs
      <3>1. r.minutes # None => r.minutes = r.segs
        BY <1>1, <2>1 DEF IInv, Sane, RowInv, RowFits
      <3>2. Sane(row', proc, task, finals, made, failed)
        BY <1>1, <1>2, <2>1, <3>1, RowEnds DEF IInv
      <3> QED
        BY <1>1, <2>1, <3>2, Kinds
    <2>2. CASE row[m].segs = {}
      <3> DEFINE r == [row[m] EXCEPT !.state = "ended", !.status = "generation_failed"]
      <3>1. row' = [row EXCEPT ![m] = r]
        BY <1>1, <2>2, Kinds DEF FinalRead
      <3>2. r \in RowKind /\ r.state = "ended" /\ r.segs = row[m].segs /\ r.minutes = row[m].minutes
        BY <1>1 DEF RowKind
      <3> HIDE DEF r
      <3> QED
        BY <2>1, <3>1, <3>2
    <2>3. CASE row[m].segs # {} /\ row[m].state = "in_meeting"
      <3> DEFINE r == [row[m] EXCEPT !.state = "ended"]
      <3>1. row' = [row EXCEPT ![m] = r]
        BY <1>1, <2>3 DEF FinalRead, CutOff
      <3>2. r \in RowKind /\ r.state = "ended" /\ r.segs = row[m].segs /\ r.minutes = row[m].minutes
        BY <1>1 DEF RowKind
      <3> HIDE DEF r
      <3> QED
        BY <2>1, <3>1, <3>2
    <2>4. CASE row[m].segs # {} /\ row[m].state # "in_meeting"
      <3>1. row' = row
        BY <2>4 DEF FinalRead, CutOff
      <3> QED
        BY <1>2, <2>4, <3>1 DEF IInv
    <2> QED
      BY <2>2, <2>3, <2>4
  <1>4. proc' = [proc EXCEPT ![p] = P]
    BY DEF FinalRead, Set
  <1>5. mem \in [Meetings -> SUBSET Segs] /\ \A n \in Meetings : mem[n] \subseteq proc[p].mem[n] \cup row[n].segs
    BY <1>1 DEF ProcKind, RowKind
  <1> HIDE DEF mem
  <1>6. /\ P \in ProcKind /\ P.hydrated = proc[p].hydrated /\ P.cur = proc[p].cur
        /\ P.found = proc[p].found
        /\ P.gate = proc[p].gate \cup {m} /\ P.mem = mem /\ P.queue = proc[p].queue
    BY <1>1, <1>5 DEF ProcKind
  <1> HIDE DEF P
  <1>7. Sane(row', proc', task, finals, made, failed)
    <2>1. ProcFits(P, row')
      BY <1>1, <1>3, <1>6 DEF ProcFits, Sane, ProcInv
    <2>2. \A n \in Meetings : Owns(proc[p], n) => Owns(P, n)
      BY <1>6 DEF Owns
    <2>3. \A n \in Meetings : \A s \in P.mem[n] : s \in proc[p].mem[n] \/ s \in row'[n].segs
      BY <1>3, <1>5, <1>6
    <2>4. \A u \in Tasks : Home[u] = p /\ task[u].at \notin Free => P.hydrated = "yes"
      BY <1>6 DEF IInv, Sane, RestInv
    <2>5. \A n \in P.gate : n \in proc[p].gate \/ row'[n].state # "in_meeting"
      BY <1>3, <1>6
    <2> QED
      BY <1>1, <1>3, <1>4, <1>6, <2>1, <2>2, <2>3, <2>4, <2>5, ProcStep
  <1>8. Sane(row', proc', task, finals', made, failed)
    <2>1. finals' \subseteq finals \cup {g}
      BY DEF FinalRead
    <2>2. g \in FinalKind /\ g.m = m /\ g.at = "written" /\ g.snap = row[m].segs
      BY <1>1 DEF FinalKind, RowKind
    <2> HIDE DEF g
    <2>3. FinalFits(g, row')
      BY <1>1, <1>3, <2>2 DEF FinalFits
    <2>4. finals' \subseteq FinalKind /\ \A h \in finals' : FinalFits(h, row')
      BY <1>3, <2>1, <2>2, <2>3 DEF Sane, KindInv, FinalInv
    <2> QED
      BY <1>7, <2>4, FinalStep
  <1>9. LockInv(proc', task)
    BY <1>1, <1>4, <1>6, LockRests, Kinds DEF IInv
  <1> QED
    BY <1>1, <1>8, <1>9 DEF IInv

\* The minutes are committed, or that they failed is.
LEMMA FinalEndKeeps ==
    ASSUME BoundsAreNumbers, TasksHaveHomes, IInv, NEW f \in finals, FinalCommit(f) \/ FinalFails(f)
    PROVE  IInv'
  <1> DEFINE m == f.m
  <1>1. /\ m \in Meetings /\ f \in FinalKind /\ row[m] \in RowKind /\ f.at = "written"
        /\ finals' = finals \ {f} /\ UNCHANGED <<proc, task, made, failed>>
        /\ faults' \in Nat /\ faults' <= MaxFaults
    BY Kinds DEF FinalCommit, FinalFails, FinalKind, Fault, BoundsAreNumbers
  <1>2. row[m].state # "none" /\ f.snap = row[m].segs /\ RowFits(row[m])
    BY <1>1 DEF IInv, Sane, FinalInv, FinalFits, RowInv
  <1>3. PICK r \in RowKind :
           /\ row' = [row EXCEPT ![m] = r] /\ r.state \in {"ended", "finalized"}
           /\ r.segs = row[m].segs
           /\ r.minutes # None => r.minutes = r.segs
    <2>1. CASE FinalCommit(f)
      <3> DEFINE r == [row[m] EXCEPT !.state = "finalized", !.minutes = f.snap, !.status = "ok"]
      <3>1. row' = [row EXCEPT ![m] = r]
        BY <1>1, <2>1, Kinds DEF FinalCommit
      <3>2. /\ r \in RowKind /\ r.state = "finalized" /\ r.segs = row[m].segs
            /\ r.minutes = row[m].segs
        BY <1>1, <1>2 DEF RowKind
      <3> HIDE DEF r
      <3> QED
        BY <3>1, <3>2
    <2>2. CASE FinalFails(f)
      <3> DEFINE r == [row[m] EXCEPT !.state = "ended", !.status = "generation_failed"]
      <3>1. row' = [row EXCEPT ![m] = r]
        BY <1>1, <2>2, Kinds DEF FinalFails
      <3>2. r \in RowKind /\ r.state = "ended" /\ r.segs = row[m].segs /\ r.minutes = row[m].minutes
        BY <1>1 DEF RowKind
      <3> HIDE DEF r
      <3> QED
        BY <1>2, <3>1, <3>2 DEF RowFits
    <2> QED
      BY <2>1, <2>2
  <1>4. Sane(row', proc, task, finals, made, failed)
    <2>1. Sane(row, proc, task, finals, made, failed) /\ m \in Meetings /\ row[m].state # "none"
      BY <1>1, <1>2 DEF IInv
    <2>2. Sane([row EXCEPT ![m] = r], proc, task, finals, made, failed)
      BY <1>3, <2>1, RowEnds
    <2> QED
      BY <1>3, <2>2
  <1>5. Sane(row', proc, task, finals', made, failed)
    <2>1. finals' \subseteq FinalKind /\ \A g \in finals' : FinalFits(g, row')
      BY <1>1, <1>4 DEF Sane, KindInv, FinalInv
    <2> QED
      BY <1>4, <2>1, FinalStep
  <1> QED
    BY <1>1, <1>5 DEF IInv

LEMMA CrashKeeps ==
    ASSUME TasksHaveHomes, BoundsAreNumbers, IInv, NEW p \in Procs, Crash(p)
    PROVE  IInv'
  <1>1. /\ proc' = [proc EXCEPT ![p] = Fresh]
        /\ task' = [t \in Tasks |-> IF Home[t] = p THEN Resting ELSE task[t]]
        /\ finals' = {f \in finals : f.p # p}
        /\ UNCHANGED <<row, made, failed>>
        /\ faults' \in Nat /\ faults' <= MaxFaults
    BY Kinds DEF Crash, Set, Fault, BoundsAreNumbers
  <1>2. Sane(row, proc', task', finals', made, failed)
    <2>1. Sane(row, proc, task, finals, made, failed)
      BY DEF IInv
    <2>2. Sane(row, [proc EXCEPT ![p] = Fresh],
               [t \in Tasks |-> IF Home[t] = p THEN Resting ELSE task[t]],
               {f \in finals : f.p # p}, made, failed)
      BY <2>1, CrashStep
    <2> QED
      BY <1>1, <2>2
  <1>3. LockInv(proc', task')
    <2>1. LockFits(p, proc'[p].queue, task')
      <3>1. proc'[p].queue = <<>>
        BY <1>1, Kinds DEF Fresh
      <3>2. <<>> \in Seq(Tasks) /\ IsInjective(<<>>) /\ ToSet(<<>>) = {}
        BY DEF IsInjective, ToSet
      <3>3. \A t \in Tasks : Home[t] = p => task'[t].at = "idle"
        BY <1>1, Kinds
      <3> QED
        BY <3>1, <3>2, <3>3 DEF LockFits, LockPlaces, FencePlaces
    <2>2. \A q \in Procs : q # p => proc'[q].queue = proc[q].queue
      BY <1>1, Kinds
    <2>3. \A u \in Tasks : Home[u] # p => task'[u] = task[u]
      BY <1>1
    <2> QED
      BY <2>1, <2>2, <2>3, LockStep DEF IInv
  <1> QED
    BY <1>1, <1>2, <1>3 DEF IInv

----------------------------------------------------------------------------
LEMMA InitSane ==
    ASSUME BoundsAreNumbers, TasksHaveHomes, Init
    PROVE  IInv
  <1> DEFINE P == [Fresh EXCEPT !.hydrated = "yes", !.recovered = TRUE]
  <1>1. /\ NoRow \in RowKind /\ NoRow.state = "none" /\ RowFits(NoRow)
        /\ Resting \in TaskKind /\ Resting.at = "idle"
    BY DEF NoRow, RowKind, RowFits, Resting, TaskKind, Places, MaybeMeeting
  <1>2. <<>> \in Seq(Tasks) /\ IsInjective(<<>>) /\ ToSet(<<>>) = {}
    BY DEF IsInjective, ToSet
  <1>3. /\ P \in ProcKind /\ P.hydrated = "yes" /\ P.cur = None /\ P.gate = {} /\ P.queue = <<>>
        /\ \A m \in Meetings : P.mem[m] = {}
    BY <1>2 DEF Fresh, ProcKind, MaybeMeeting
  <1>4. /\ row = [m \in Meetings |-> NoRow] /\ proc = [p \in Procs |-> P]
        /\ task = [t \in Tasks |-> Resting]
        /\ finals = {} /\ made = 0 /\ failed = {} /\ faults = 0
    BY DEF Init
  <1> HIDE DEF P
  <1>5. KindInv(row, proc, task, finals, made, failed)
    BY <1>1, <1>3, <1>4 DEF KindInv, BoundsAreNumbers
  <1>6. RowInv(row, made) /\ FinalInv(row, finals) /\ OwnInv(row, proc)
    BY <1>1, <1>4 DEF RowInv, FinalInv, OwnInv
  <1>7. TaskInv(row, task, made)
    <2>1. TaskFits(Resting, row, made)
      BY <1>1 DEF TaskFits
    <2> QED
      BY <1>1, <1>4, <2>1 DEF TaskInv
  <1>8. ProcInv(row, proc) /\ RestInv(proc, task) /\ GateInv(row, proc, task)
        /\ MemInv(row, proc, task, failed)
    BY <1>1, <1>3, <1>4 DEF ProcInv, ProcFits, RestInv, GateInv, MemInv
  <1>9. LockInv(proc, task)
    BY <1>1, <1>2, <1>3, <1>4 DEF LockInv, LockFits, LockPlaces, FencePlaces
  <1> QED
    BY <1>4, <1>5, <1>6, <1>7, <1>8, <1>9 DEF IInv, Sane, BoundsAreNumbers

LEMMA StepKeeps ==
    ASSUME BoundsAreNumbers, TasksHaveHomes, NoneIsNoMeeting, IInv, [Next]_vars
    PROVE  IInv'
  <1>1. ASSUME NEW p \in Procs, Hydrates(p) \/ Recover(p) \/ CooldownOver(p) \/ Finalizes(p) \/ Crash(p)
        PROVE  IInv'
    BY <1>1, HydrateReadKeeps, HydrateExpiredKeeps, HydrateKeepKeeps, RecoverKeeps, CooldownOverKeeps,
       FinalReadKeeps, FinalEndKeeps, CrashKeeps DEF Hydrates, Finalizes
  <1>2. ASSUME NEW t \in Tasks, Works(t)
        PROVE  IInv'
    BY <1>2, StartKeeps, JoinEndKeeps, EndMissedKeeps, CloseGateKeeps, FenceKeeps, IngestKeeps,
       RememberKeeps, PersistKeeps DEF Works
  <1>3. ASSUME NEW t \in Tasks,
               \/ UserStart(t) \/ UserEnd(t) \/ Timeout(t) \/ Observe(t)
               \/ StartFails(t) \/ FenceFails(t) \/ PersistFails(t)
               \/ \E m \in Meetings : LowLevelEnd(t, m) \/ ChunkRequest(t, m)
        PROVE  IInv'
    BY <1>3, UserStartKeeps, UserEndKeeps, TimeoutKeeps, ObserveKeeps, StartFailsKeeps,
       FenceFailsKeeps, PersistFailsKeeps, LowLevelEndKeeps, ChunkRequestKeeps
  <1>4. ASSUME NEW p \in Procs, NEW m \in Meetings, FinalizeRequest(p, m)
        PROVE  IInv'
    BY <1>4, FinalizeRequestKeeps
  <1>5. ASSUME NEW f \in finals, FinalFails(f)
        PROVE  IInv'
    BY <1>5, FinalEndKeeps
  <1>6. ASSUME NEW p \in Procs, LowLevelStart(p)
        PROVE  IInv'
    BY <1>6, LowLevelStartKeeps
  <1>7. CASE UNCHANGED vars
    BY <1>7 DEF vars, IInv
  <1> QED
    BY <1>1, <1>2, <1>3, <1>4, <1>5, <1>6, <1>7 DEF Next

\* The invariant holds of every behaviour: meetings open once and end whole, the lock has one
\* holder, gates, memory and pointers have their reasons (MeetingState, MeetingPipeline).
THEOREM MeetingInvariant ==
    ASSUME BoundsAreNumbers, TasksHaveHomes, NoneIsNoMeeting
    PROVE  Spec => []IInv
  <1>1. Init => IInv
    BY InitSane
  <1>2. IInv /\ [Next]_vars => IInv'
    BY StepKeeps
  <1> QED
    BY <1>1, <1>2, PTL DEF Spec

\* The types of the state, and with them who stands in line for the lock of a process: each task
\* that wants it, once (asyncio.Lock).
THEOREM MeetingTypes ==
    ASSUME BoundsAreNumbers, TasksHaveHomes, NoneIsNoMeeting
    PROVE  Spec => []TypeOK
  <1>1. IInv => TypeOK
    <2> SUFFICES ASSUME IInv PROVE TypeOK
      OBVIOUS
    <2>1. \A m \in Meetings :
            /\ row[m].state \in {"none", "in_meeting", "ended", "finalized"} /\ row[m].segs \subseteq Segs
            /\ row[m].status \in {"none", "ok", "generation_failed"}
            /\ {row[m].auto, row[m].loose} \subseteq BOOLEAN
      BY Kinds DEF RowKind
    <2>2. \A p \in Procs :
            /\ proc[p].hydrated \in {"no", "found", "yes"} /\ proc[p].cur \in Meetings \cup {None}
            /\ proc[p].active \in Meetings \cup {None}
      BY Kinds DEF ProcKind, MaybeMeeting
    <2>3. \A p \in Procs : LockFits(p, proc[p].queue, task)
      BY DEF IInv, LockInv
    <2>4. made \in 0 .. MaxMeetings /\ faults \in 0 .. MaxFaults
      BY Kinds DEF BoundsAreNumbers
    <2> QED
      BY <2>1, <2>2, <2>3, <2>4 DEF TypeOK, LockFits, LockPlaces
  <1> QED
    BY <1>1, MeetingInvariant, PTL

\* Minutes are about the whole transcript, in whatever order segments, summaries and the ends of
\* meetings come (snapshot_meeting_segments_for_finalize).
THEOREM MinutesAreWhole ==
    ASSUME BoundsAreNumbers, TasksHaveHomes, NoneIsNoMeeting
    PROVE  Spec => []MinutesCoverTranscript
  <1>1. IInv => MinutesCoverTranscript
    BY DEF IInv, Sane, RowInv, RowFits, MinutesCoverTranscript
  <1> QED
    BY <1>1, MeetingInvariant, PTL

\* Memory holds no segment that is neither stored, nor being stored, nor known to have failed
\* (_persist_active_segments).
THEOREM MemoryHasStored ==
    ASSUME BoundsAreNumbers, TasksHaveHomes, NoneIsNoMeeting
    PROVE  Spec => []MemoryIsStored
  <1>1. IInv => MemoryIsStored
    BY DEF IInv, Sane, MemInv, Stores, MemoryIsStored, At
  <1> QED
    BY <1>1, MeetingInvariant, PTL

\* No process points to a meeting that is not in the database (create_meeting).
THEOREM PointersAreReal ==
    ASSUME BoundsAreNumbers, TasksHaveHomes, NoneIsNoMeeting
    PROVE  Spec => []NoPhantomMeeting
  <1>1. IInv => NoPhantomMeeting
    BY DEF IInv, Sane, ProcInv, ProcFits, NoPhantomMeeting
  <1> QED
    BY <1>1, MeetingInvariant, PTL

\* An open meeting that MeetingState started is the current one of a process, or a process has yet
\* to load it, although the low-level start interferes, processes crash, writes fail and gates close before rows are written (_end_current, hydrate).
THEOREM OpenMeetingsHaveOwners ==
    ASSUME BoundsAreNumbers, TasksHaveHomes, NoneIsNoMeeting
    PROVE  Spec => []OpenMeetingIsOwned
  <1>1. IInv => OpenMeetingIsOwned
    BY DEF IInv, Sane, OwnInv, Owns, OpenMeetingIsOwned, Active
  <1> QED
    BY <1>1, MeetingInvariant, PTL

\* A meeting is whole: the four together, for any number of processes, requests, segments and meetings.
THEOREM MeetingsAreWholeHolds ==
    ASSUME BoundsAreNumbers, TasksHaveHomes, NoneIsNoMeeting
    PROVE  Spec => []MeetingsAreWhole
  <1>1. MinutesCoverTranscript /\ MemoryIsStored /\ NoPhantomMeeting /\ OpenMeetingIsOwned
        => MeetingsAreWhole
    BY DEF MeetingsAreWhole
  <1> QED
    BY <1>1, MinutesAreWhole, MemoryHasStored, PointersAreReal, OpenMeetingsHaveOwners, PTL

=============================================================================
