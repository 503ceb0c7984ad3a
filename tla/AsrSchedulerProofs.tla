------------------------- MODULE AsrSchedulerProofs -------------------------
(***************************************************************************)
(* The counters of the speech recognition scheduler are exact, whatever    *)
(* the numbers of requests, workers, scopes and providers, and everything  *)
(* that admits, selects or closes by them is right.                        *)
(*                                                                         *)
(* The counters stand for sets of jobs: the invariant says that no job is  *)
(* in two places (QueueInv, HandInv), that a job is in one as long as its  *)
(* future waits (FutureInv), that the record of a key outlives the work    *)
(* for it (KeyInv), and what is left once the workers are stopped          *)
(* (StageInv).  The counts then follow step by step.                       *)
(*                                                                         *)
(* The second part of the module is about the other tables of the server   *)
(* that are proved here: the identities of the devices.                    *)
(***************************************************************************)
EXTENDS AsrScheduler, Identities, FiniteSetTheorems, SequenceTheorems, WellFoundedInduction, TLAPS

JobsOf(q) == {q[i] : i \in 1 .. Len(q)}

Distinct(q) == \A i, j \in 1 .. Len(q) : q[i] = q[j] => i = j

\* The jobs in the hands of a worker, and all that are in the scheduler.
Held == {worker[w].job : w \in Busy}

Inside == Queued \cup Held

InScope(s) == {j \in Inside : ScopeOf[j] = s}

\* The workers at a provider, by the states of the workers.
At(f, stage, p) == {w \in Workers : f[w].at = stage /\ f[w].on = p}

\* No job is queued twice.
QueueInv ==
    /\ Distinct(dispatch) /\ Distinct(backlog)
    /\ JobsOf(dispatch) \cap JobsOf(backlog) = {}

\* A busy worker has a job of its own, which is not queued; the others have none.
HandInv ==
    /\ \A w \in Busy : worker[w].job \in Requests \ Queued
    /\ \A w \in Workers \ Busy : worker[w].job = NoJob
    /\ \A v, w \in Busy : worker[v].job = worker[w].job => v = w

\* A job has a future, and a future that waits has a job.
FutureInv ==
    /\ \A j \in Inside : future[j] # "none"
    /\ \A r \in Requests : caller[r] = "new" => future[r] = "none"
    /\ \A r \in Requests : Pending(r) => r \in Inside

\* A key is known for its job until the deadline of the job, and for as long as a worker
\* works for it, except in the moment a worker finds that the deadline has passed.
KeyInv ==
    /\ \A j \in Queued : KeyOf[j] # NoKey /\ j \notin late => known[Slot(j)] = j
    /\ \A w \in Busy :
          KeyOf[worker[w].job] # NoKey =>
            \/ known[Slot(worker[w].job)] = worker[w].job
            \/ worker[w].at = "try" /\ worker[w].job \in late

\* Once the workers are being stopped nothing is queued and nobody is between two awaits.
StageInv ==
    /\ ~Working => Yielded /\ dispatch = <<>> /\ backlog = <<>>
    /\ phase = "closed" => \A w \in Workers : worker[w].at = "gone"

CountInv ==
    Working =>
      /\ count.accepted = Len(dispatch) + Len(backlog) + Cardinality(Busy)
      /\ count.active = Cardinality(Busy)
      /\ count.reserved = Len(dispatch)
      /\ \A s \in Scopes : inFlight[s] = Cardinality(InScope(s))

PlacesInv ==
    \A p \in Providers :
       /\ provider[p].calls = Cardinality(At(worker, "call", p))
       /\ provider[p].waiting = Cardinality(At(worker, "permit", p))

IInv ==
    /\ TypeOK /\ QueueInv /\ HandInv /\ FutureInv /\ KeyInv /\ StageInv /\ CountInv /\ PlacesInv
    /\ AdmittedJobFits

-----------------------------------------------------------------------------
(* Sequences without repetition. *)

\* A sequence without repetition has as many elements as positions.
LEMMA DistinctCard ==
    ASSUME NEW S, NEW q \in Seq(S), Distinct(q)
    PROVE  IsFiniteSet(JobsOf(q)) /\ Cardinality(JobsOf(q)) = Len(q)
<1> DEFINE f == [i \in 1 .. Len(q) |-> q[i]]
<1>1. Len(q) \in Nat
  OBVIOUS
<1>2. f \in Bijection(1 .. Len(q), JobsOf(q))
  BY DEF Bijection, Injection, Surjection, IsInjective, JobsOf, Distinct
<1>3. ExistsBijection(1 .. Len(q), JobsOf(q))
  BY <1>2 DEF ExistsBijection
<1>4. IsFiniteSet(1 .. Len(q)) /\ Cardinality(1 .. Len(q)) = Len(q)
  BY <1>1, FS_Interval
<1> QED
  BY <1>3, <1>4, FS_Bijection

\* What a queue holds once a job is put into it.
LEMMA AppendJobs ==
    ASSUME NEW S, NEW q \in Seq(S), NEW j \in S
    PROVE  /\ JobsOf(Append(q, j)) = JobsOf(q) \cup {j}
           /\ Distinct(q) /\ j \notin JobsOf(q) => Distinct(Append(q, j))
<1> DEFINE a == Append(q, j)
<1>1. /\ Len(q) \in Nat /\ Len(a) = Len(q) + 1 /\ a[Len(q) + 1] = j
      /\ \A i \in 1 .. Len(q) : a[i] = q[i]
  OBVIOUS
<1>2. JobsOf(a) = JobsOf(q) \cup {j}
  <2> HIDE DEF a
  <2>1. 1 .. Len(a) = 1 .. Len(q) \cup {Len(q) + 1}
    BY <1>1
  <2> QED
    BY <1>1, <2>1 DEF JobsOf
<1>3. Distinct(q) /\ j \notin JobsOf(q) => Distinct(a)
  <2> HIDE DEF a
  <2> QED
    BY <1>1 DEF JobsOf, Distinct
<1> QED
  BY <1>2, <1>3

\* What a queue holds once its first job is taken from it.
LEMMA TailJobs ==
    ASSUME NEW S, NEW q \in Seq(S), q # <<>>, Distinct(q)
    PROVE  /\ Head(q) \in S /\ Head(q) \in JobsOf(q)
           /\ JobsOf(Tail(q)) = JobsOf(q) \ {Head(q)}
           /\ Distinct(Tail(q)) /\ Tail(q) \in Seq(S)
           /\ Len(Tail(q)) = Len(q) - 1 /\ Len(q) > 0
<1> DEFINE t == Tail(q)
<1>1. /\ Len(q) \in Nat /\ Len(q) > 0 /\ Len(t) = Len(q) - 1 /\ t \in Seq(S)
      /\ Head(q) = q[1] /\ Head(q) \in S
      /\ \A i \in 1 .. Len(t) : t[i] = q[i + 1]
  OBVIOUS
<1> HIDE DEF t
<1>2. Head(q) \in JobsOf(q)
  BY <1>1 DEF JobsOf
<1>3. Distinct(t)
  BY <1>1 DEF Distinct
<1>4. JobsOf(t) \subseteq JobsOf(q) \ {Head(q)}
  BY <1>1 DEF JobsOf, Distinct
<1>5. ASSUME NEW x \in JobsOf(q) \ {Head(q)}
      PROVE  x \in JobsOf(t)
  <2>1. PICK i \in 1 .. Len(q) : x = q[i]
    BY DEF JobsOf
  <2>2. i # 1 /\ i - 1 \in 1 .. Len(t)
    BY <1>1, <2>1
  <2>3. t[i - 1] = q[(i - 1) + 1] /\ (i - 1) + 1 = i
    BY <1>1, <2>2
  <2> QED
    BY <2>1, <2>2, <2>3 DEF JobsOf
<1> QED
  BY <1>1, <1>2, <1>3, <1>4, <1>5 DEF t

\* An empty queue holds no job.
LEMMA EmptyJobs == JobsOf(<<>>) = {} /\ Distinct(<<>>)
BY DEF JobsOf, Distinct

-----------------------------------------------------------------------------
(* The choice of a provider. *)

\* What multiplying both sides by a positive number keeps, and what dividing by it does.
LEMMA Scales ==
    ASSUME NEW a \in Nat, NEW b \in Nat, NEW n \in Nat \ {0}
    PROVE  (a <= b <=> a * n <= b * n) /\ (a < b <=> a * n < b * n)
<1>1. ASSUME NEW x \in Nat, NEW y \in Nat, x <= y
      PROVE  x * n <= y * n
  <2> DEFINE d == y - x
  <2>1. d \in Nat /\ y = x + d
    BY <1>1
  <2> HIDE DEF d
  <2>2. d * n \in Nat /\ x * n \in Nat
    BY <2>1
  <2>3. y * n = x * n + d * n
    BY <2>1
  <2> QED
    BY <2>2, <2>3
<1>2. ASSUME NEW x \in Nat, NEW y \in Nat, x < y
      PROVE  x * n < y * n
  <2>1. (x + 1) * n <= y * n
    BY <1>1, <1>2
  <2>2. (x + 1) * n = x * n + n
    OBVIOUS
  <2>3. x * n \in Nat /\ y * n \in Nat
    OBVIOUS
  <2> QED
    BY <2>1, <2>2, <2>3
<1>3. a * n \in Nat /\ b * n \in Nat
  OBVIOUS
<1>4. /\ a < b => a * n < b * n
      /\ b < a => b * n < a * n
      /\ a = b => a * n = b * n
  BY <1>2
<1> QED
  BY <1>3, <1>4

\* Comparing loads by weight, crosswise, is transitive.
LEMMA CrosswiseTransitive ==
    ASSUME NEW x \in Nat, NEW y \in Nat, NEW z \in Nat,
           NEW a \in Nat \ {0}, NEW b \in Nat \ {0}, NEW c \in Nat \ {0},
           x * b <= y * a, y * c <= z * b
    PROVE  /\ x * c <= z * a
           /\ x * b < y * a \/ y * c < z * b => x * c < z * a
<1>1. /\ x * b \in Nat /\ y * a \in Nat /\ y * c \in Nat /\ z * b \in Nat
      /\ x * c \in Nat /\ z * a \in Nat
  OBVIOUS
<1>2. /\ (x * b) * c <= (y * a) * c
      /\ x * b < y * a => (x * b) * c < (y * a) * c
  BY <1>1, Scales
<1>3. /\ (y * c) * a <= (z * b) * a
      /\ y * c < z * b => (y * c) * a < (z * b) * a
  BY <1>1, Scales
<1>4. /\ (x * b) * c = (x * c) * b
      /\ (y * a) * c = (y * c) * a
      /\ (z * b) * a = (z * a) * b
  OBVIOUS
<1>5. /\ (x * c) * b \in Nat /\ (z * a) * b \in Nat /\ (y * c) * a \in Nat
  BY <1>1
<1> DEFINE l == (x * c) * b
           m == (y * c) * a
           h == (z * a) * b
<1>6. /\ l <= m /\ m <= h
      /\ x * b < y * a => l < m
      /\ y * c < z * b => m < h
  BY <1>2, <1>3, <1>4
<1>7. l \in Nat /\ m \in Nat /\ h \in Nat
  BY <1>5
<1> HIDE DEF l, m, h
<1>8. l <= h /\ (x * b < y * a \/ y * c < z * b => l < h)
  BY <1>6, <1>7
<1> QED
  BY <1>1, <1>8, Scales DEF l, h

\* Each provider has its place in the order.
LEMMA Positions ==
    ASSUME NEW p \in Providers
    PROVE  Position(p) \in 1 .. Len(Order) /\ Order[Position(p)] = p
BY DEF Position, Providers

\* There are finitely many providers.
LEMMA ProvidersAreFinite == IsFiniteSet(Providers)
<1>1. Distinct(Order) /\ Order \in Seq(Providers)
  BY BindingsAssumption DEF Distinct
<1> QED
  BY <1>1, DistinctCard DEF JobsOf, Providers

\* What the comparison of two providers is made of.
LEMMA LoadType ==
    ASSUME TypeOK, NEW p \in Providers
    PROVE  Load(p) + 1 \in Nat /\ Weight[p] \in Nat \ {0} /\ Position(p) \in Nat
<1>1. provider[p].calls \in Nat /\ provider[p].waiting \in Nat
  BY DEF TypeOK
<1>2. Load(p) + 1 \in Nat
  BY <1>1 DEF Load
<1>3. Weight[p] \in Nat \ {0}
  BY BindingsAssumption
<1>4. Len(Order) \in Nat
  BY BindingsAssumption
<1>5. Position(p) \in Nat
  BY <1>4, Positions
<1> QED
  BY <1>2, <1>3, <1>5

\* Of two providers one comes first; none comes before itself, and the order is transitive.
LEMMA BeforeOrders ==
    ASSUME TypeOK, NEW p \in Providers, NEW q \in Providers, NEW o \in Providers
    PROVE  /\ ~Before(p, p)
           /\ p # q => Before(p, q) \/ Before(q, p)
           /\ Before(p, q) /\ Before(q, o) => Before(p, o)
<1> DEFINE x == Load(p) + 1
           y == Load(q) + 1
           z == Load(o) + 1
           a == Weight[p]
           b == Weight[q]
           c == Weight[o]
           i == Position(p)
           j == Position(q)
           k == Position(o)
<1>1. /\ x \in Nat /\ y \in Nat /\ z \in Nat
      /\ a \in Nat \ {0} /\ b \in Nat \ {0} /\ c \in Nat \ {0}
      /\ i \in Nat /\ j \in Nat /\ k \in Nat
  BY LoadType
<1>2. p # q => i # j
  BY Positions
<1>3. /\ Before(p, p) <=> (x * a < x * a \/ (x * a = x * a /\ i < i))
      /\ Before(p, q) <=> (x * b < y * a \/ (x * b = y * a /\ i < j))
      /\ Before(q, p) <=> (y * a < x * b \/ (y * a = x * b /\ j < i))
      /\ Before(q, o) <=> (y * c < z * b \/ (y * c = z * b /\ j < k))
      /\ Before(p, o) <=> (x * c < z * a \/ (x * c = z * a /\ i < k))
  BY DEF Before
<1> HIDE DEF x, y, z, a, b, c, i, j, k
<1>4. /\ x * a \in Nat /\ x * b \in Nat /\ y * a \in Nat
      /\ y * c \in Nat /\ z * b \in Nat /\ x * c \in Nat /\ z * a \in Nat
  BY <1>1
<1>5. x * b <= y * a /\ y * c <= z * b =>
        /\ x * c <= z * a
        /\ x * b < y * a \/ y * c < z * b => x * c < z * a
  BY <1>1, CrosswiseTransitive
<1>6. x * b = y * a /\ y * c = z * b => x * c = z * a
  <2>1. z * b <= y * c /\ y * a <= x * b => z * a <= x * c
    BY <1>1, CrosswiseTransitive
  <2> QED
    BY <1>4, <1>5, <2>1
<1>7. ~Before(p, p)
  BY <1>1, <1>3, <1>4
<1>8. p # q => Before(p, q) \/ Before(q, p)
  BY <1>1, <1>2, <1>3, <1>4
<1>9. Before(p, q) /\ Before(q, o) => Before(p, o)
  BY <1>1, <1>3, <1>4, <1>5, <1>6
<1> QED
  BY <1>7, <1>8, <1>9

\* A provider that comes before all others exists in every set of them.
LEMMA FirstExists ==
    ASSUME TypeOK, NEW c \in SUBSET Providers, c # {}
    PROVE  \E p \in c : \A q \in c \ {p} : Before(p, q)
<1> DEFINE Below(p) == {q \in c : Before(q, p)}
           R == StrictSubsetOrdering(c)
           T == {Below(p) : p \in c}
<1>1. IsFiniteSet(c)
  BY ProvidersAreFinite, FS_Subset
<1>2. IsWellFoundedOn(R, SUBSET c)
  BY <1>1, FS_StrictSubsetOrderingWellFounded, FS_FiniteSubsetsOfFinite
<1>3. T \subseteq SUBSET c /\ T # {}
  OBVIOUS
<1>4. \E x \in T : \A y \in T : ~(<<y, x>> \in R)
  <2> HIDE DEF R, T
  <2> QED
    BY <1>2, <1>3, WFMin
<1>5. PICK p \in c : \A y \in T : ~(<<y, Below(p)>> \in R)
  BY <1>4
<1>6. ASSUME NEW q \in c, Before(q, p)
      PROVE  FALSE
  <2>1. Below(q) \in T
    OBVIOUS
  <2>2. q \in Below(p) /\ q \notin Below(q)
    BY <1>6, BeforeOrders
  <2>3. Below(q) \subseteq Below(p)
    BY <1>6, BeforeOrders
  <2>4. <<Below(q), Below(p)>> \in R
    BY <2>2, <2>3 DEF StrictSubsetOrdering
  <2> QED
    BY <1>5, <2>1, <2>4
<1> QED
  BY <1>6, BeforeOrders

\* The provider that is selected is one of the candidates.
LEMMA SelectedIsCandidate ==
    ASSUME TypeOK, NEW c \in SUBSET Providers, c # {}
    PROVE  Selected(c) \in c
<1> DEFINE free == {p \in c : Load(p) < Width[p]}
           from == IF free = {} THEN c ELSE free
<1>1. from \in SUBSET Providers /\ from # {} /\ from \subseteq c
  OBVIOUS
<1>2. Selected(c) = CHOOSE p \in from : \A q \in from \ {p} : Before(p, q)
  BY DEF Selected
<1> HIDE DEF from
<1>3. \E p \in from : \A q \in from \ {p} : Before(p, q)
  BY <1>1, FirstExists
<1> QED
  BY <1>1, <1>2, <1>3

-----------------------------------------------------------------------------
(* Where the jobs are, and how a step moves them. *)

BusyAt == {"try", "permit", "call"}

SameJob(v) == worker'[v].job = worker[v].job

\* No job moves.
Unmoved ==
    /\ UNCHANGED <<dispatch, backlog>>
    /\ Busy' = Busy
    /\ \A v \in Workers : SameJob(v)

\* The job of a worker leaves the scheduler.
Leaves(w) ==
    /\ UNCHANGED <<dispatch, backlog>>
    /\ w \in Busy /\ Busy' = Busy \ {w}
    /\ worker'[w].job = NoJob
    /\ \A v \in Workers \ {w} : SameJob(v)

\* A job leaves its queue, and nobody has it.
Drops(j) ==
    /\ j \in Queued /\ Queued' = Queued \ {j} /\ QueueInv'
    /\ Busy' = Busy
    /\ \A v \in Workers : SameJob(v)

\* A job leaves its queue for the hands of a worker.
Fills(w, j) ==
    /\ j \in Queued /\ Queued' = Queued \ {j} /\ QueueInv'
    /\ w \in Workers \ Busy /\ Busy' = Busy \cup {w}
    /\ worker'[w].job = j
    /\ \A v \in Workers \ {w} : SameJob(v)

\* A new job enters a queue.
Enters(j) ==
    /\ j \in Requests \ Inside /\ Queued' = Queued \cup {j} /\ QueueInv'
    /\ Busy' = Busy
    /\ \A v \in Workers : SameJob(v)

\* The jobs that wait, from either queue.
LEMMA QueuedJobs == Queued = JobsOf(dispatch) \cup JobsOf(backlog)
BY DEF Queued, JobsOf

\* Queues hold requests.
LEMMA QueuedType ==
    ASSUME TypeOK
    PROVE  /\ dispatch \in Seq(Requests) /\ backlog \in Seq(Requests)
           /\ Queued \subseteq Requests
<1>1. dispatch \in Seq(Requests) /\ backlog \in Seq(Requests)
  BY DEF TypeOK
<1> QED
  BY <1>1 DEF Queued

\* Hands hold requests that are not queued.
LEMMA InsideType ==
    ASSUME TypeOK, HandInv
    PROVE  Held \subseteq Requests /\ Inside \subseteq Requests /\ Held \cap Queued = {}
BY QueuedType DEF HandInv, Held, Inside

\* A worker that gets a new state is the only one that changes.
LEMMA WorkerSet ==
    ASSUME TypeOK, NEW w \in Workers, NEW x, worker' = [worker EXCEPT ![w] = x]
    PROVE  /\ worker'[w] = x
           /\ \A v \in Workers \ {w} : worker'[v] = worker[v]
           /\ Busy' = IF x.at \in BusyAt THEN Busy \cup {w} ELSE Busy \ {w}
<1>1. worker'[w] = x /\ \A v \in Workers \ {w} : worker'[v] = worker[v]
  BY DEF TypeOK
<1>2. Busy' = {v \in Workers : worker'[v].at \in BusyAt} /\ Busy = {v \in Workers : worker[v].at \in BusyAt}
  BY DEF Busy, BusyAt
<1> HIDE DEF BusyAt
<1> QED
  BY <1>1, <1>2

\* The jobs inside stay the same when none moves.
LEMMA UnmovedInside ==
    ASSUME Unmoved
    PROVE  Queued' = Queued /\ Held' = Held /\ Inside' = Inside
<1>1. Queued' = Queued
  BY DEF Unmoved, Queued
<1>2. Held' = {worker'[v].job : v \in Busy'} /\ Held = {worker[v].job : v \in Busy}
  BY DEF Held
<1>3. Busy \subseteq Workers
  BY DEF Busy
<1>4. Held' = Held
  BY <1>2, <1>3 DEF Unmoved, SameJob
<1> QED
  BY <1>1, <1>4 DEF Inside

\* The hands keep their order when no job moves.
LEMMA UnmovedHands ==
    ASSUME HandInv, QueueInv, Unmoved
    PROVE  HandInv' /\ QueueInv'
<1>1. Busy \subseteq Workers /\ Busy' = Busy
  BY DEF Busy, Unmoved
<1>2. Queued' = Queued
  BY UnmovedInside
<1>3. HandInv'
  <2> USE <1>1, <1>2 DEF HandInv, Unmoved, SameJob
  <2>1. \A w \in Busy' : worker'[w].job \in Requests \ Queued'
    OBVIOUS
  <2>2. \A w \in Workers \ Busy' : worker'[w].job = NoJob
    OBVIOUS
  <2>3. \A v, w \in Busy' : worker'[v].job = worker'[w].job => v = w
    OBVIOUS
  <2> QED
    BY <2>1, <2>2, <2>3
<1>4. QueueInv'
  <2>1. dispatch' = dispatch /\ backlog' = backlog
    BY DEF Unmoved
  <2> QED
    BY <2>1 DEF QueueInv
<1> QED
  BY <1>3, <1>4

\* A worker lays its job down.
LEMMA LeavesHands ==
    ASSUME HandInv, QueueInv, NEW w, Leaves(w)
    PROVE  /\ HandInv' /\ QueueInv' /\ Queued' = Queued
           /\ Held' = Held \ {worker[w].job} /\ Inside' = Inside \ {worker[w].job}
           /\ worker[w].job \in Inside
<1>1. Busy \subseteq Workers /\ Busy' = Busy \ {w} /\ w \in Busy
  BY DEF Busy, Leaves
<1>2. Queued' = Queued
  BY DEF Leaves, Queued
<1>3. \A v \in Busy \ {w} : worker'[v].job = worker[v].job /\ worker[v].job # worker[w].job
  BY <1>1 DEF Leaves, HandInv, SameJob
<1>4. HandInv'
  <2> USE <1>1, <1>2, <1>3 DEF HandInv, Leaves, SameJob
  <2>1. \A v \in Busy' : worker'[v].job \in Requests \ Queued'
    OBVIOUS
  <2>2. \A v \in Workers \ Busy' : worker'[v].job = NoJob
    OBVIOUS
  <2>3. \A u, v \in Busy' : worker'[u].job = worker'[v].job => u = v
    OBVIOUS
  <2> QED
    BY <2>1, <2>2, <2>3
<1>5. QueueInv'
  <2>1. dispatch' = dispatch /\ backlog' = backlog
    BY DEF Leaves
  <2> QED
    BY <2>1 DEF QueueInv
<1>6. Held' = {worker'[v].job : v \in Busy'} /\ Held = {worker[v].job : v \in Busy}
  BY DEF Held
<1>7. Held' = Held \ {worker[w].job}
  BY <1>1, <1>3, <1>6
<1>8. worker[w].job \in Held /\ worker[w].job \notin Queued
  BY <1>1, <1>6 DEF HandInv
<1> QED
  BY <1>2, <1>4, <1>5, <1>7, <1>8 DEF Inside

\* A queued job disappears.
LEMMA DropsHands ==
    ASSUME TypeOK, HandInv, NEW j, Drops(j)
    PROVE  /\ HandInv' /\ QueueInv' /\ Queued' = Queued \ {j}
           /\ Held' = Held /\ Inside' = Inside \ {j} /\ j \in Inside
<1>1. Busy \subseteq Workers /\ Busy' = Busy /\ Queued' = Queued \ {j} /\ j \in Queued
  BY DEF Busy, Drops
<1>2. HandInv'
  <2> USE <1>1 DEF HandInv, Drops, SameJob
  <2>1. \A w \in Busy' : worker'[w].job \in Requests \ Queued'
    OBVIOUS
  <2>2. \A w \in Workers \ Busy' : worker'[w].job = NoJob
    OBVIOUS
  <2>3. \A v, w \in Busy' : worker'[v].job = worker'[w].job => v = w
    OBVIOUS
  <2> QED
    BY <2>1, <2>2, <2>3
<1>3. Held' = {worker'[v].job : v \in Busy'} /\ Held = {worker[v].job : v \in Busy}
  BY DEF Held
<1>4. Held' = Held
  BY <1>1, <1>3 DEF Drops, SameJob
<1>5. j \notin Held
  BY <1>1, InsideType
<1> QED
  BY <1>1, <1>2, <1>4, <1>5 DEF Inside, Drops

\* A worker takes a queued job.
LEMMA FillsHands ==
    ASSUME TypeOK, HandInv, NEW w, NEW j, Fills(w, j)
    PROVE  /\ HandInv' /\ QueueInv' /\ Queued' = Queued \ {j}
           /\ Held' = Held \cup {j} /\ Inside' = Inside /\ j \in Inside
<1>1. /\ Busy \subseteq Workers /\ Busy' = Busy \cup {w} /\ w \notin Busy /\ w \in Workers
      /\ Queued' = Queued \ {j} /\ j \in Queued
  BY DEF Busy, Fills
<1>2. j \in Requests /\ j \notin Held
  BY <1>1, InsideType, QueuedType
<1>3. Held' = {worker'[v].job : v \in Busy'} /\ Held = {worker[v].job : v \in Busy}
  BY DEF Held
<1>4. worker'[w].job = j /\ \A v \in Busy : worker'[v].job = worker[v].job /\ worker[v].job # j
  BY <1>1, <1>2, <1>3 DEF Fills, SameJob
<1>5. HandInv'
  <2> USE <1>1, <1>2, <1>4 DEF HandInv, Fills, SameJob
  <2>1. \A v \in Busy' : worker'[v].job \in Requests \ Queued'
    OBVIOUS
  <2>2. \A v \in Workers \ Busy' : worker'[v].job = NoJob
    OBVIOUS
  <2>3. \A u, v \in Busy' : worker'[u].job = worker'[v].job => u = v
    OBVIOUS
  <2> QED
    BY <2>1, <2>2, <2>3
<1>6. Held' = Held \cup {j}
  BY <1>1, <1>3, <1>4
<1> QED
  BY <1>1, <1>5, <1>6 DEF Inside, Fills

\* A job is queued.
LEMMA EntersHands ==
    ASSUME TypeOK, HandInv, NEW j, Enters(j)
    PROVE  /\ HandInv' /\ QueueInv' /\ Queued' = Queued \cup {j}
           /\ Held' = Held /\ Inside' = Inside \cup {j}
<1>1. Busy \subseteq Workers /\ Busy' = Busy /\ Queued' = Queued \cup {j} /\ j \in Requests \ Inside
  BY DEF Busy, Enters
<1>2. Held' = {worker'[v].job : v \in Busy'} /\ Held = {worker[v].job : v \in Busy}
  BY DEF Held
<1>3. Held' = Held
  BY <1>1, <1>2 DEF Enters, SameJob
<1>4. j \notin Held
  BY <1>1 DEF Inside
<1>5. HandInv'
  <2> USE <1>1, <1>2, <1>4 DEF HandInv, Enters, SameJob
  <2>1. \A w \in Busy' : worker'[w].job \in Requests \ Queued'
    OBVIOUS
  <2>2. \A w \in Workers \ Busy' : worker'[w].job = NoJob
    OBVIOUS
  <2>3. \A v, w \in Busy' : worker'[v].job = worker'[w].job => v = w
    OBVIOUS
  <2> QED
    BY <2>1, <2>2, <2>3
<1> QED
  BY <1>1, <1>3, <1>5 DEF Inside, Enters

\* What taking the first job of the dispatch queue does to the queues.
LEMMA DispatchPulled ==
    ASSUME TypeOK, QueueInv, dispatch # <<>>, dispatch' = Tail(dispatch), backlog' = backlog
    PROVE  /\ Head(dispatch) \in Queued /\ Queued' = Queued \ {Head(dispatch)} /\ QueueInv'
           /\ Len(dispatch') = Len(dispatch) - 1 /\ Len(dispatch) \in Nat \ {0}
<1> DEFINE j == Head(dispatch)
<1>1. dispatch \in Seq(Requests) /\ Len(dispatch) \in Nat
  BY QueuedType
<1>2. /\ j \in JobsOf(dispatch) /\ JobsOf(dispatch') = JobsOf(dispatch) \ {j}
      /\ Distinct(dispatch') /\ Len(dispatch') = Len(dispatch) - 1 /\ Len(dispatch) > 0
  BY <1>1, TailJobs DEF QueueInv
<1> HIDE DEF j
<1>3. Distinct(backlog') /\ JobsOf(backlog') = JobsOf(backlog)
  BY DEF QueueInv
<1>4. QueueInv'
  BY <1>2, <1>3 DEF QueueInv
<1>5. Queued' = JobsOf(dispatch') \cup JobsOf(backlog')
  BY DEF Queued, JobsOf
<1>6. j \in Queued /\ Queued' = Queued \ {j}
  BY <1>2, <1>3, <1>5, QueuedJobs DEF QueueInv
<1> QED
  BY <1>1, <1>2, <1>4, <1>6 DEF j

\* The same for the backlog.
LEMMA BacklogPulled ==
    ASSUME TypeOK, QueueInv, backlog # <<>>, backlog' = Tail(backlog), dispatch' = dispatch
    PROVE  /\ Head(backlog) \in Queued /\ Queued' = Queued \ {Head(backlog)} /\ QueueInv'
           /\ Len(backlog') = Len(backlog) - 1 /\ Len(backlog) \in Nat \ {0}
<1> DEFINE j == Head(backlog)
<1>1. backlog \in Seq(Requests) /\ Len(backlog) \in Nat
  BY QueuedType
<1>2. /\ j \in JobsOf(backlog) /\ JobsOf(backlog') = JobsOf(backlog) \ {j}
      /\ Distinct(backlog') /\ Len(backlog') = Len(backlog) - 1 /\ Len(backlog) > 0
  BY <1>1, TailJobs DEF QueueInv
<1> HIDE DEF j
<1>3. Distinct(dispatch') /\ JobsOf(dispatch') = JobsOf(dispatch)
  BY DEF QueueInv
<1>4. QueueInv'
  BY <1>2, <1>3 DEF QueueInv
<1>5. Queued' = JobsOf(dispatch') \cup JobsOf(backlog')
  BY DEF Queued, JobsOf
<1>6. j \in Queued /\ Queued' = Queued \ {j}
  BY <1>2, <1>3, <1>5, QueuedJobs DEF QueueInv
<1> QED
  BY <1>1, <1>2, <1>4, <1>6 DEF j

\* What a new job does to the queues.
LEMMA DispatchPushed ==
    ASSUME TypeOK, QueueInv, NEW j \in Requests \ Queued,
           dispatch' = Append(dispatch, j), backlog' = backlog
    PROVE  /\ Queued' = Queued \cup {j} /\ QueueInv'
           /\ Len(dispatch') = Len(dispatch) + 1 /\ Len(dispatch) \in Nat
<1>1. dispatch \in Seq(Requests) /\ Len(dispatch) \in Nat
  BY QueuedType
<1>2. j \notin JobsOf(dispatch) /\ j \notin JobsOf(backlog)
  BY QueuedJobs
<1>3. JobsOf(dispatch') = JobsOf(dispatch) \cup {j} /\ Distinct(dispatch')
  BY <1>1, <1>2, AppendJobs DEF QueueInv
<1>4. Distinct(backlog') /\ JobsOf(backlog') = JobsOf(backlog)
  BY DEF QueueInv
<1>5. QueueInv'
  BY <1>2, <1>3, <1>4 DEF QueueInv
<1>6. Queued' = JobsOf(dispatch') \cup JobsOf(backlog')
  BY DEF Queued, JobsOf
<1>7. Queued' = Queued \cup {j}
  BY <1>3, <1>4, <1>6, QueuedJobs
<1>8. Len(dispatch') = Len(dispatch) + 1
  BY <1>1
<1> QED
  BY <1>1, <1>5, <1>7, <1>8

\* The same for the backlog.
LEMMA BacklogPushed ==
    ASSUME TypeOK, QueueInv, NEW j \in Requests \ Queued,
           backlog' = Append(backlog, j), dispatch' = dispatch
    PROVE  /\ Queued' = Queued \cup {j} /\ QueueInv'
           /\ Len(backlog') = Len(backlog) + 1 /\ Len(backlog) \in Nat
<1>1. backlog \in Seq(Requests) /\ Len(backlog) \in Nat
  BY QueuedType
<1>2. j \notin JobsOf(dispatch) /\ j \notin JobsOf(backlog)
  BY QueuedJobs
<1>3. JobsOf(backlog') = JobsOf(backlog) \cup {j} /\ Distinct(backlog')
  BY <1>1, <1>2, AppendJobs DEF QueueInv
<1>4. Distinct(dispatch') /\ JobsOf(dispatch') = JobsOf(dispatch)
  BY DEF QueueInv
<1>5. QueueInv'
  BY <1>2, <1>3, <1>4 DEF QueueInv
<1>6. Queued' = JobsOf(dispatch') \cup JobsOf(backlog')
  BY DEF Queued, JobsOf
<1>7. Queued' = Queued \cup {j}
  BY <1>3, <1>4, <1>6, QueuedJobs
<1>8. Len(backlog') = Len(backlog) + 1
  BY <1>1
<1> QED
  BY <1>1, <1>5, <1>7, <1>8

-----------------------------------------------------------------------------
(* Futures and keys. *)

\* A future that is asked for does not go back, and one that is done stays done.
Forward(j) == future'[j] = future[j] \/ (future[j] # "none" /\ future'[j] \notin {"none", "pending"})

\* The futures stay true to the jobs when no job enters and the ones that leave are done.
LEMMA FutureKept ==
    ASSUME FutureInv,
           \A j \in Requests : Forward(j),
           \A r \in Requests : caller'[r] = "new" => caller[r] = "new",
           Inside \subseteq Requests, Inside' \subseteq Inside,
           \A j \in Inside \ Inside' : future'[j] # "pending"
    PROVE  FutureInv'
<1> USE DEF FutureInv, Forward, Pending
<1>1. \A j \in Inside' : future'[j] # "none"
  OBVIOUS
<1>2. \A r \in Requests : caller'[r] = "new" => future'[r] = "none"
  OBVIOUS
<1>3. \A r \in Requests : Pending(r)' => r \in Inside'
  OBVIOUS
<1> QED
  BY <1>1, <1>2, <1>3

\* The future of a new job.
LEMMA FutureEnters ==
    ASSUME TypeOK, FutureInv, NEW r \in Requests,
           future' = [future EXCEPT ![r] = "pending"],
           caller' = [caller EXCEPT ![r] = "waiting"],
           Inside' = Inside \cup {r}
    PROVE  FutureInv'
<1> USE DEF FutureInv, Pending, TypeOK
<1>1. \A j \in Inside' : future'[j] # "none"
  OBVIOUS
<1>2. \A j \in Requests : caller'[j] = "new" => future'[j] = "none"
  OBVIOUS
<1>3. \A j \in Requests : Pending(j)' => j \in Inside'
  OBVIOUS
<1> QED
  BY <1>1, <1>2, <1>3

\* A worker that goes on with its job finds the key of the job known.
GoesOn(v) ==
    /\ v \in Busy /\ SameJob(v)
    /\ worker[v].at # "try" \/ worker'[v].at = "try" \/ worker[v].job \notin late

\* A worker that begins has taken its job from a queue.
Begins(v) == worker'[v].at = "try" /\ worker'[v].job \in Queued

\* The records of the keys stay right when none is added or removed.
LEMMA KeyKept ==
    ASSUME KeyInv, UNCHANGED known, late \subseteq late', Queued' \subseteq Queued,
           \A v \in Busy' : GoesOn(v) \/ Begins(v)
    PROVE  KeyInv'
<1> USE DEF KeyInv
<1>1. \A j \in Queued' : KeyOf[j] # NoKey /\ j \notin late' => known'[Slot(j)] = j
  OBVIOUS
<1>2. ASSUME NEW v \in Busy', KeyOf[worker'[v].job] # NoKey
      PROVE  \/ known'[Slot(worker'[v].job)] = worker'[v].job
             \/ worker'[v].at = "try" /\ worker'[v].job \in late'
  <2>1. CASE GoesOn(v)
    BY <1>2, <2>1 DEF GoesOn, SameJob
  <2>2. CASE Begins(v)
    BY <1>2, <2>2 DEF Begins
  <2> QED
    BY <2>1, <2>2
<1> QED
  BY <1>1, <1>2 DEF KeyInv

-----------------------------------------------------------------------------
(* Counts. *)

Scoped(J, s) == {j \in J : ScopeOf[j] = s}

\* The jobs of a scope, when one is added.
LEMMA ScopedAdd ==
    ASSUME NEW J, IsFiniteSet(J), NEW j, j \notin J, NEW s
    PROVE  Cardinality(Scoped(J \cup {j}, s))
             = IF ScopeOf[j] = s THEN Cardinality(Scoped(J, s)) + 1 ELSE Cardinality(Scoped(J, s))
<1>1. IsFiniteSet(Scoped(J, s))
  BY FS_Subset DEF Scoped
<1>2. j \notin Scoped(J, s)
  BY DEF Scoped
<1>3. Scoped(J \cup {j}, s) = IF ScopeOf[j] = s THEN Scoped(J, s) \cup {j} ELSE Scoped(J, s)
  BY DEF Scoped
<1> HIDE DEF Scoped
<1> QED
  BY <1>1, <1>2, <1>3, FS_AddElement

\* The jobs of a scope, when one is removed.
LEMMA ScopedRemove ==
    ASSUME NEW J, IsFiniteSet(J), NEW j \in J, NEW s
    PROVE  /\ Cardinality(Scoped(J \ {j}, s))
                = IF ScopeOf[j] = s THEN Cardinality(Scoped(J, s)) - 1 ELSE Cardinality(Scoped(J, s))
           /\ Cardinality(Scoped(J, s)) \in Nat
           /\ ScopeOf[j] = s => Cardinality(Scoped(J, s)) > 0
<1>1. IsFiniteSet(Scoped(J, s))
  BY FS_Subset DEF Scoped
<1>2. ScopeOf[j] = s => j \in Scoped(J, s)
  BY DEF Scoped
<1>3. Scoped(J \ {j}, s) = IF ScopeOf[j] = s THEN Scoped(J, s) \ {j} ELSE Scoped(J, s)
  BY DEF Scoped
<1> HIDE DEF Scoped
<1>4. Cardinality(Scoped(J, s)) \in Nat
  BY <1>1, FS_CardinalityType
<1>5. ScopeOf[j] = s => Cardinality(Scoped(J, s)) # 0
  BY <1>1, <1>2, FS_EmptySet
<1>6. Cardinality(Scoped(J \ {j}, s))
        = IF ScopeOf[j] = s THEN Cardinality(Scoped(J, s)) - 1 ELSE Cardinality(Scoped(J, s))
  BY <1>1, <1>2, <1>3, FS_RemoveElement
<1> QED
  BY <1>4, <1>5, <1>6

\* Everything that is counted is finite.
LEMMA FiniteCounts ==
    ASSUME TypeOK, HandInv
    PROVE  /\ IsFiniteSet(Busy) /\ Cardinality(Busy) \in Nat
           /\ \A w \in Busy : Cardinality(Busy) > 0
           /\ IsFiniteSet(Inside)
           /\ \A s : IsFiniteSet(InScope(s)) /\ Cardinality(InScope(s)) \in Nat
<1>1. Busy \in SUBSET Workers /\ IsFiniteSet(Workers)
  BY SizesAssumption DEF Busy
<1>2. IsFiniteSet(Busy)
  BY <1>1, FS_Subset
<1>3. Cardinality(Busy) \in Nat /\ \A w \in Busy : Cardinality(Busy) # 0
  BY <1>2, FS_CardinalityType, FS_EmptySet
<1>4. IsFiniteSet(Inside)
  BY InsideType, SizesAssumption, FS_Subset
<1>5. ASSUME NEW s
      PROVE  IsFiniteSet(InScope(s)) /\ Cardinality(InScope(s)) \in Nat
  <2>1. InScope(s) \in SUBSET Inside
    BY DEF InScope
  <2>2. IsFiniteSet(InScope(s))
    BY <1>4, <2>1, FS_Subset
  <2> QED
    BY <2>2, FS_CardinalityType
<1> QED
  BY <1>2, <1>3, <1>4, <1>5

\* Jobs in a scope, by the set of jobs inside.
LEMMA InScopeIsScoped == \A s : InScope(s) = Scoped(Inside, s) /\ InScope(s)' = Scoped(Inside', s)
BY DEF InScope, Scoped

\* The place of a job in its scope is given back.
LEMMA ScopeGivenBack ==
    ASSUME TypeOK, HandInv, CountInv, Working, NEW j \in Inside, Inside' = Inside \ {j},
           inFlight' = [inFlight EXCEPT ![ScopeOf[j]] = Less(@)]
    PROVE  \A s \in Scopes : inFlight'[s] = Cardinality(InScope(s)')
<1> TAKE s \in Scopes
<1>1. inFlight \in [Scopes -> Nat] /\ inFlight[s] = Cardinality(Scoped(Inside, s))
  BY InScopeIsScoped DEF CountInv, TypeOK
<1>2. ScopeOf[j] \in Scopes
  BY InsideType, ContextAssumption
<1>3. /\ Cardinality(Scoped(Inside \ {j}, s))
           = IF ScopeOf[j] = s THEN Cardinality(Scoped(Inside, s)) - 1 ELSE Cardinality(Scoped(Inside, s))
      /\ Cardinality(Scoped(Inside, s)) \in Nat
      /\ ScopeOf[j] = s => Cardinality(Scoped(Inside, s)) > 0
  BY FiniteCounts, ScopedRemove
<1>4. InScope(s)' = Scoped(Inside \ {j}, s)
  BY InScopeIsScoped
<1>5. inFlight'[s] = IF ScopeOf[j] = s THEN Less(inFlight[s]) ELSE inFlight[s]
  BY <1>1, <1>2
<1> QED
  BY <1>1, <1>3, <1>4, <1>5 DEF Less

\* A step that moves no job and counts nothing.
LEMMA CountUnmoved ==
    ASSUME CountInv, Unmoved, UNCHANGED <<count, inFlight>>, Working' => Working
    PROVE  CountInv'
<1>1. /\ Len(dispatch') = Len(dispatch) /\ Len(backlog') = Len(backlog) /\ Busy' = Busy
  BY DEF Unmoved
<1>2. \A s : InScope(s)' = InScope(s)
  BY UnmovedInside, InScopeIsScoped
<1> QED
  BY <1>1, <1>2 DEF CountInv

\* A job that ends is no longer counted.
LEMMA CountLeaves ==
    ASSUME TypeOK, HandInv, QueueInv, CountInv, NEW w \in Workers, Leaves(w), Finish(worker[w].job),
           Working' => Working
    PROVE  CountInv'
<1> SUFFICES ASSUME Working'
             PROVE  CountInv'
  BY DEF CountInv
<1>1. Working
  OBVIOUS
<1> DEFINE j == worker[w].job
<1>2. j \in Inside /\ Inside' = Inside \ {j}
  BY LeavesHands
<1>3. \A s \in Scopes : inFlight'[s] = Cardinality(InScope(s)')
  BY <1>1, <1>2, ScopeGivenBack DEF Finish
<1>4. Cardinality(Busy') = Cardinality(Busy) - 1 /\ Cardinality(Busy) \in Nat /\ Cardinality(Busy) > 0
  BY FiniteCounts, FS_RemoveElement DEF Leaves
<1>5. Len(dispatch) \in Nat /\ Len(backlog) \in Nat /\ Len(dispatch') = Len(dispatch) /\ Len(backlog') = Len(backlog)
  BY QueuedType DEF Leaves
<1>6. count'.accepted = Less(count.accepted) /\ count'.active = Less(count.active) /\ count'.reserved = count.reserved
  BY DEF Finish, TypeOK
<1> QED
  BY <1>1, <1>3, <1>4, <1>5, <1>6 DEF CountInv, Less

\* A cancelled job that leaves its queue is no longer counted.
LEMMA CountDrops ==
    ASSUME TypeOK, HandInv, QueueInv, CountInv, NEW j, Drops(j), NEW n,
           count' = [count EXCEPT !.accepted = Less(@), !.reserved = n],
           inFlight' = [inFlight EXCEPT ![ScopeOf[j]] = Less(@)],
           Working, n = Len(dispatch'), Len(dispatch') \in Nat, Len(backlog') \in Nat,
           Len(dispatch') + Len(backlog') + 1 = Len(dispatch) + Len(backlog)
    PROVE  CountInv'
<1>1. j \in Inside /\ Inside' = Inside \ {j}
  BY DropsHands
<1>2. \A s \in Scopes : inFlight'[s] = Cardinality(InScope(s)')
  BY <1>1, ScopeGivenBack
<1>3. Busy' = Busy /\ Cardinality(Busy) \in Nat
  BY FiniteCounts DEF Drops
<1>4. Len(dispatch) \in Nat /\ Len(backlog) \in Nat
  BY QueuedType
<1>5. count'.accepted = Less(count.accepted) /\ count'.active = count.active /\ count'.reserved = n
  BY DEF TypeOK
<1> QED
  BY <1>2, <1>3, <1>4, <1>5 DEF CountInv, Less

\* A job that begins is counted as active.
LEMMA CountFills ==
    ASSUME TypeOK, HandInv, QueueInv, CountInv, NEW w, NEW j, Fills(w, j), NEW n,
           count' = [count EXCEPT !.active = @ + 1, !.reserved = n],
           UNCHANGED inFlight,
           Working, n = Len(dispatch'), Len(dispatch') \in Nat, Len(backlog') \in Nat,
           Len(dispatch') + Len(backlog') + 1 = Len(dispatch) + Len(backlog)
    PROVE  CountInv'
<1>1. Inside' = Inside
  BY FillsHands
<1>2. \A s : InScope(s)' = InScope(s)
  BY <1>1, InScopeIsScoped
<1>3. Cardinality(Busy') = Cardinality(Busy) + 1 /\ Cardinality(Busy) \in Nat
  BY FiniteCounts, FS_AddElement DEF Fills
<1>4. Len(dispatch) \in Nat /\ Len(backlog) \in Nat
  BY QueuedType
<1>5. count'.accepted = count.accepted /\ count'.active = count.active + 1 /\ count'.reserved = n
  BY DEF TypeOK
<1> QED
  BY <1>2, <1>3, <1>4, <1>5 DEF CountInv

\* A job that is admitted is counted.
LEMMA CountEnters ==
    ASSUME TypeOK, HandInv, QueueInv, CountInv, NEW j, Enters(j), NEW n,
           count' = [count EXCEPT !.accepted = @ + 1, !.reserved = n],
           inFlight' = [inFlight EXCEPT ![ScopeOf[j]] = @ + 1],
           Working, n = Len(dispatch'), Len(dispatch') \in Nat, Len(backlog') \in Nat,
           Len(dispatch') + Len(backlog') = Len(dispatch) + Len(backlog) + 1
    PROVE  CountInv'
<1>1. Inside' = Inside \cup {j} /\ j \notin Inside /\ j \in Requests
  BY EntersHands DEF Enters
<1>2. ASSUME NEW s \in Scopes
      PROVE  inFlight'[s] = Cardinality(InScope(s)')
  <2>1. inFlight \in [Scopes -> Nat] /\ inFlight[s] = Cardinality(Scoped(Inside, s))
    BY InScopeIsScoped DEF CountInv, TypeOK
  <2>2. ScopeOf[j] \in Scopes
    BY <1>1, ContextAssumption
  <2>3. Cardinality(Scoped(Inside \cup {j}, s))
          = IF ScopeOf[j] = s THEN Cardinality(Scoped(Inside, s)) + 1 ELSE Cardinality(Scoped(Inside, s))
    BY <1>1, FiniteCounts, ScopedAdd
  <2>4. InScope(s)' = Scoped(Inside \cup {j}, s)
    BY <1>1, InScopeIsScoped
  <2>5. inFlight'[s] = IF ScopeOf[j] = s THEN inFlight[s] + 1 ELSE inFlight[s]
    BY <2>1, <2>2
  <2> QED
    BY <2>1, <2>3, <2>4, <2>5
<1>3. Busy' = Busy /\ Cardinality(Busy) \in Nat
  BY FiniteCounts DEF Enters
<1>4. Len(dispatch) \in Nat /\ Len(backlog) \in Nat
  BY QueuedType
<1>5. count'.accepted = count.accepted + 1 /\ count'.active = count.active /\ count'.reserved = n
  BY DEF TypeOK
<1> QED
  BY <1>2, <1>3, <1>4, <1>5 DEF CountInv

-----------------------------------------------------------------------------
(* Places at the providers. *)

OnPlaces == {"call", "permit"}

\* The places stay taken when no worker comes to a provider or leaves it.
LEMMA PlacesKept ==
    ASSUME PlacesInv,
           \A p \in Providers : provider'[p].calls = provider[p].calls /\ provider'[p].waiting = provider[p].waiting,
           \A w \in Workers :
              \/ worker'[w].at = worker[w].at /\ worker'[w].on = worker[w].on
              \/ worker'[w].at \notin OnPlaces /\ worker[w].at \notin OnPlaces
    PROVE  PlacesInv'
<1>1. \A p : At(worker', "call", p) = At(worker, "call", p) /\ At(worker', "permit", p) = At(worker, "permit", p)
  BY DEF At, OnPlaces
<1> QED
  BY <1>1 DEF PlacesInv

\* How many workers are at a provider after one of them has moved.
LEMMA AtAfterMove ==
    ASSUME NEW f, NEW g, NEW w \in Workers, NEW x, g[w] = x, \A v \in Workers \ {w} : g[v] = f[v],
           NEW stage, NEW p
    PROVE  /\ Cardinality(At(f, stage, p)) \in Nat
           /\ Cardinality(At(g, stage, p))
                = Cardinality(At(f, stage, p))
                    + (IF x.at = stage /\ x.on = p THEN 1 ELSE 0)
                    - (IF f[w].at = stage /\ f[w].on = p THEN 1 ELSE 0)
           /\ f[w].at = stage /\ f[w].on = p => Cardinality(At(f, stage, p)) > 0
<1> DEFINE here == f[w].at = stage /\ f[w].on = p
           there == x.at = stage /\ x.on = p
           S == At(f, stage, p)
<1>2. At(g, stage, p) = IF there THEN S \cup {w} ELSE S \ {w}
  BY DEF At
<1>3. w \in S <=> here
  BY DEF At
<1>4. IsFiniteSet(S)
  BY SizesAssumption, FS_Subset DEF At
<1> HIDE DEF here, there, S
<1>5. Cardinality(S) \in Nat /\ (here => Cardinality(S) # 0)
  BY <1>3, <1>4, FS_CardinalityType, FS_EmptySet
<1>6. Cardinality(S \cup {w}) = IF here THEN Cardinality(S) ELSE Cardinality(S) + 1
  BY <1>3, <1>4, FS_AddElement
<1>7. Cardinality(S \ {w}) = IF here THEN Cardinality(S) - 1 ELSE Cardinality(S)
  BY <1>3, <1>4, FS_RemoveElement
<1>8. Cardinality(At(g, stage, p))
        = Cardinality(S) + (IF there THEN 1 ELSE 0) - (IF here THEN 1 ELSE 0)
  <2>1. CASE there
    BY <1>2, <1>5, <1>6, <2>1
  <2>2. CASE ~there
    BY <1>2, <1>5, <1>7, <2>2
  <2> QED
    BY <2>1, <2>2
<1> QED
  BY <1>5, <1>8 DEF here, there, S

\* The counts of the provider a worker moves at follow the move.
LEMMA PlacesMoved ==
    ASSUME TypeOK, PlacesInv, NEW w \in Workers, NEW x, worker' = [worker EXCEPT ![w] = x],
           \A p \in Providers :
             /\ provider'[p].calls = provider[p].calls
                  + (IF x.at = "call" /\ x.on = p THEN 1 ELSE 0)
                  - (IF worker[w].at = "call" /\ worker[w].on = p THEN 1 ELSE 0)
             /\ provider'[p].waiting = provider[p].waiting
                  + (IF x.at = "permit" /\ x.on = p THEN 1 ELSE 0)
                  - (IF worker[w].at = "permit" /\ worker[w].on = p THEN 1 ELSE 0)
    PROVE  PlacesInv'
<1>1. ASSUME NEW p \in Providers
      PROVE  /\ provider'[p].calls = Cardinality(At(worker', "call", p))
             /\ provider'[p].waiting = Cardinality(At(worker', "permit", p))
  <2>1. /\ provider[p].calls = Cardinality(At(worker, "call", p))
        /\ provider[p].waiting = Cardinality(At(worker, "permit", p))
    BY DEF PlacesInv
  <2> DEFINE g == worker'
  <2>0. g[w] = x /\ \A v \in Workers \ {w} : g[v] = worker[v]
    BY WorkerSet
  <2> HIDE DEF g
  <2>2. Cardinality(At(g, "call", p))
          = Cardinality(At(worker, "call", p))
              + (IF x.at = "call" /\ x.on = p THEN 1 ELSE 0)
              - (IF worker[w].at = "call" /\ worker[w].on = p THEN 1 ELSE 0)
    BY <2>0, AtAfterMove
  <2>3. Cardinality(At(g, "permit", p))
          = Cardinality(At(worker, "permit", p))
              + (IF x.at = "permit" /\ x.on = p THEN 1 ELSE 0)
              - (IF worker[w].at = "permit" /\ worker[w].on = p THEN 1 ELSE 0)
    BY ONLY <2>0, AtAfterMove, w \in Workers
  <2> QED
    <3>1. /\ provider'[p].calls = Cardinality(At(g, "call", p))
          /\ provider'[p].waiting = Cardinality(At(g, "permit", p))
      BY <2>1, <2>2, <2>3
    <3> QED
      BY <3>1 DEF g
<1> QED
  BY <1>1 DEF PlacesInv

-----------------------------------------------------------------------------
(* Types. *)

ProviderType ==
    [circuit : {"closed", "open", "half_open"}, failures : 0 .. Threshold,
     cooled : BOOLEAN, probe : BOOLEAN, calls : Nat, waiting : Nat]

WorkerType ==
    [at : {"idle", "next", "try", "permit", "call", "gone"},
     job : Requests \cup {NoJob}, on : Providers, tried : SUBSET Providers,
     attempt : 0 .. MaxAttempts - 1, cut : BOOLEAN]

\* The parts of the type invariant that the steps of workers touch.
LEMMA TypeParts ==
    ASSUME TypeOK
    PROVE  /\ provider \in [Providers -> ProviderType]
           /\ worker \in [Workers -> WorkerType]
           /\ count \in [accepted : Nat, active : Nat, reserved : Nat]
           /\ inFlight \in [Scopes -> Nat]
           /\ future \in [Requests -> Ends]
BY DEF TypeOK, ProviderType, WorkerType

\* What the code does to the state of a provider keeps its type and moves its counts.
LEMMA ProviderSteps ==
    ASSUME NEW s \in ProviderType
    PROVE  /\ Failed(s) \in ProviderType /\ Failed(s).calls = s.calls /\ Failed(s).waiting = s.waiting
           /\ Succeeded(s) \in ProviderType
           /\ Succeeded(s).calls = s.calls /\ Succeeded(s).waiting = s.waiting
           /\ LeaveQueue(s) \in ProviderType
           /\ LeaveQueue(s).calls = s.calls /\ LeaveQueue(s).waiting = Less(s.waiting)
           /\ s.calls > 0 =>
                /\ LeaveCall(s) \in ProviderType
                /\ LeaveCall(s).calls = s.calls - 1 /\ LeaveCall(s).waiting = s.waiting
<1> USE DEF ProviderType
<1>1. Threshold \in Nat /\ Threshold > 0 /\ 0 \in 0 .. Threshold
  BY SizesAssumption
<1>2. Failed(s) \in ProviderType /\ Failed(s).calls = s.calls /\ Failed(s).waiting = s.waiting
  <2> DEFINE n == IF s.failures < Threshold THEN s.failures + 1 ELSE Threshold
  <2>1. n \in 0 .. Threshold
    BY <1>1
  <2>2. Failed(s) = IF s.circuit = "half_open" \/ n >= Threshold
                      THEN [s EXCEPT !.failures = n, !.circuit = "open", !.cooled = FALSE, !.probe = FALSE]
                      ELSE [s EXCEPT !.failures = n]
    BY DEF Failed
  <2> HIDE DEF n
  <2> QED
    BY <2>1, <2>2
<1>3. Succeeded(s) \in ProviderType /\ Succeeded(s).calls = s.calls /\ Succeeded(s).waiting = s.waiting
  <2>1. /\ Succeeded(s).circuit = "closed" /\ Succeeded(s).failures = 0
        /\ Succeeded(s).calls = s.calls /\ Succeeded(s).waiting = s.waiting
    BY DEF Succeeded
  <2>2. Succeeded(s) \in ProviderType
    BY <1>1 DEF Succeeded
  <2> QED
    BY <2>1, <2>2
<1>4. /\ LeaveQueue(s) \in ProviderType
      /\ LeaveQueue(s).calls = s.calls /\ LeaveQueue(s).waiting = Less(s.waiting)
  BY DEF LeaveQueue, Less
<1>5. s.calls > 0 =>
        /\ LeaveCall(s) \in ProviderType
        /\ LeaveCall(s).calls = s.calls - 1 /\ LeaveCall(s).waiting = s.waiting
  BY DEF LeaveCall
<1> QED
  BY <1>2, <1>3, <1>4, <1>5

\* A survey of the providers moves no count.
LEMMA SurveyedType ==
    ASSUME TypeOK, NEW tried
    PROVE  /\ Surveyed(tried) \in [Providers -> ProviderType]
           /\ \A p \in Providers :
                 /\ Surveyed(tried)[p].calls = provider[p].calls
                 /\ Surveyed(tried)[p].waiting = provider[p].waiting
<1> DEFINE opened(s) == IF s.circuit = "open" /\ s.cooled
                          THEN [s EXCEPT !.circuit = "half_open", !.cooled = FALSE, !.probe = FALSE] ELSE s
           probed(s) == IF s.circuit = "half_open" /\ ~s.probe THEN [s EXCEPT !.probe = TRUE] ELSE s
<1>1. ASSUME NEW s \in ProviderType
      PROVE  /\ opened(s) \in ProviderType /\ opened(s).calls = s.calls /\ opened(s).waiting = s.waiting
             /\ probed(s) \in ProviderType /\ probed(s).calls = s.calls /\ probed(s).waiting = s.waiting
  BY DEF ProviderType
<1>2. Surveyed(tried) =
        [p \in Providers |-> IF p \in tried THEN provider[p] ELSE probed(opened(provider[p]))]
  BY DEF Surveyed
<1> HIDE DEF opened, probed
<1>3. ASSUME NEW p \in Providers
      PROVE  /\ Surveyed(tried)[p] \in ProviderType
             /\ Surveyed(tried)[p].calls = provider[p].calls
             /\ Surveyed(tried)[p].waiting = provider[p].waiting
  <2>1. provider[p] \in ProviderType
    BY TypeParts
  <2>2. opened(provider[p]) \in ProviderType
    BY <1>1, <2>1
  <2>3. Surveyed(tried)[p] = IF p \in tried THEN provider[p] ELSE probed(opened(provider[p]))
    BY <1>2
  <2> QED
    BY <1>1, <2>1, <2>2, <2>3
<1>4. Surveyed(tried) \in [Providers -> ProviderType]
  BY <1>2, <1>3
<1> QED
  BY <1>3, <1>4

\* A count that changes in two places keeps its type.
LEMMA CountTypes ==
    ASSUME NEW c \in [accepted : Nat, active : Nat, reserved : Nat], NEW m \in Nat, NEW n \in Nat
    PROVE  /\ [c EXCEPT !.accepted = m, !.reserved = n] \in [accepted : Nat, active : Nat, reserved : Nat]
           /\ [c EXCEPT !.accepted = m, !.active = n] \in [accepted : Nat, active : Nat, reserved : Nat]
           /\ [c EXCEPT !.active = m, !.reserved = n] \in [accepted : Nat, active : Nat, reserved : Nat]
<1>1. [c EXCEPT !.accepted = m, !.reserved = n] \in [accepted : Nat, active : Nat, reserved : Nat]
  OBVIOUS
<1>2. [c EXCEPT !.accepted = m, !.active = n] \in [accepted : Nat, active : Nat, reserved : Nat]
  OBVIOUS
<1>3. [c EXCEPT !.active = m, !.reserved = n] \in [accepted : Nat, active : Nat, reserved : Nat]
  OBVIOUS
<1> QED
  BY <1>1, <1>2, <1>3

\* A worker that waits for a job, as at the start.
LEMMA StartType == Idle \in WorkerType /\ Idle.at = "idle" /\ Idle.job = NoJob
<1>1. Order[1] \in Providers
  BY BindingsAssumption, EmptySeq
<1>2. 0 \in 0 .. MaxAttempts - 1
  BY SizesAssumption
<1> QED
  BY <1>1, <1>2 DEF Idle, WorkerType

\* A worker without a job.
LEMMA IdleType ==
    ASSUME NEW stage \in {"idle", "next", "gone"}
    PROVE  /\ [Idle EXCEPT !.at = stage] \in WorkerType
           /\ [Idle EXCEPT !.at = stage].at = stage /\ [Idle EXCEPT !.at = stage].job = NoJob
<1>1. Order[1] \in Providers
  BY BindingsAssumption, EmptySeq
<1>2. 0 \in 0 .. MaxAttempts - 1
  BY SizesAssumption
<1> QED
  BY <1>1, <1>2 DEF Idle, WorkerType

\* A worker that has just taken a job.
LEMMA BegunType ==
    ASSUME NEW j \in Requests
    PROVE  /\ [Idle EXCEPT !.at = "try", !.job = j] \in WorkerType
           /\ [Idle EXCEPT !.at = "try", !.job = j].at = "try"
           /\ [Idle EXCEPT !.at = "try", !.job = j].job = j
<1>1. Order[1] \in Providers
  BY BindingsAssumption, EmptySeq
<1>2. 0 \in 0 .. MaxAttempts - 1
  BY SizesAssumption
<1> QED
  BY <1>1, <1>2 DEF Idle, WorkerType

-----------------------------------------------------------------------------
(* The first state. *)

\* Nothing is queued, held or counted at the start.
LEMMA InitIInv ==
    ASSUME Init
    PROVE  IInv
<1> USE DEF Init
<1>1. Idle \in WorkerType /\ Idle.at = "idle" /\ Idle.job = NoJob
  BY StartType
<1>2. Closed0 \in ProviderType /\ Closed0.calls = 0 /\ Closed0.waiting = 0
  BY SizesAssumption DEF Closed0, ProviderType
<1>3. provider \in [Providers -> ProviderType] /\ worker \in [Workers -> WorkerType]
  BY <1>1, <1>2
<1>4. TypeOK
  <2>1. 0 \in 0 .. MaxCancels
    BY SizesAssumption
  <2>2. count \in [accepted : Nat, active : Nat, reserved : Nat]
    OBVIOUS
  <2>3. dispatch \in Seq(Requests) /\ backlog \in Seq(Requests)
    OBVIOUS
  <2>4. /\ caller \in [Requests -> {"new", "waiting", "refused", "overflow", "cancelled"}]
        /\ awaits \in [Requests -> Requests \cup {NoJob}]
        /\ future \in [Requests -> Ends]
        /\ inFlight \in [Scopes -> Nat] /\ recent \in [Scopes -> Nat]
        /\ known \in [Scopes \X Keys -> Requests \cup {NoJob}]
    BY DEF Ends
  <2> QED
    BY <1>3, <2>1, <2>2, <2>3, <2>4 DEF TypeOK, ProviderType, WorkerType
<1>5. Busy = {} /\ Held = {}
  BY <1>1 DEF Busy, Held
<1>6. Queued = {} /\ Inside = {}
  BY <1>5 DEF Queued, Inside
<1>7. QueueInv
  BY DEF QueueInv, Distinct, JobsOf
<1>8. HandInv
  BY <1>1, <1>5, <1>6 DEF HandInv
<1>9. FutureInv
  BY <1>6 DEF FutureInv, Pending
<1>10. KeyInv
  BY <1>5, <1>6 DEF KeyInv
<1>11. StageInv
  BY DEF StageInv, Working
<1>12. CountInv
  <2>1. \A s : InScope(s) = {}
    BY <1>6 DEF InScope
  <2> QED
    <3>1. Len(dispatch) = 0 /\ Len(backlog) = 0
      OBVIOUS
    <3>2. Cardinality(Busy) = 0 /\ \A s : Cardinality(InScope(s)) = 0
      BY <1>5, <2>1, FS_EmptySet
    <3>3. /\ count.accepted = 0 /\ count.active = 0 /\ count.reserved = 0
          /\ \A s \in Scopes : inFlight[s] = 0
      OBVIOUS
    <3> QED
      BY <3>1, <3>2, <3>3 DEF CountInv
<1>13. PlacesInv
  <2>1. \A p : At(worker, "call", p) = {} /\ At(worker, "permit", p) = {}
    BY <1>1 DEF At
  <2> QED
    BY <1>2, <2>1, FS_EmptySet DEF PlacesInv
<1>14. AdmittedJobFits
  BY DEF AdmittedJobFits
<1> QED
  BY <1>4, <1>7, <1>8, <1>9, <1>10, <1>11, <1>12, <1>13, <1>14 DEF IInv

-----------------------------------------------------------------------------
(* Steps that move no job. *)

\* What holds again after a step that moves no job, counts nothing and takes no place.
LEMMA QuietStep ==
    ASSUME IInv, UNCHANGED <<dispatch, backlog, count, inFlight>>,
           \A v \in Workers : /\ worker'[v].at = worker[v].at
                              /\ worker'[v].job = worker[v].job
                              /\ worker'[v].on = worker[v].on,
           \A p \in Providers : provider'[p].calls = provider[p].calls /\ provider'[p].waiting = provider[p].waiting,
           Working' => Working
    PROVE  /\ Queued' = Queued /\ Inside' = Inside /\ Busy' = Busy /\ (Yielded' <=> Yielded)
           /\ QueueInv' /\ HandInv' /\ CountInv' /\ PlacesInv'
           /\ UNCHANGED known /\ late \subseteq late' => KeyInv'
<1>1. Busy' = Busy
  BY DEF Busy
<1>2. Unmoved
  BY <1>1 DEF Unmoved, SameJob
<1>3. Queued' = Queued /\ Inside' = Inside /\ QueueInv' /\ HandInv' /\ CountInv'
  BY <1>2, UnmovedInside, UnmovedHands, CountUnmoved DEF IInv
<1>4. PlacesInv'
  BY PlacesKept DEF IInv
<1>5. Yielded' <=> Yielded
  BY DEF Yielded
<1>6. \A v \in Busy' : GoesOn(v)
  BY <1>1 DEF GoesOn, SameJob, Busy
<1>7. UNCHANGED known /\ late \subseteq late' => KeyInv'
  BY <1>3, <1>6, KeyKept DEF IInv
<1> QED
  BY <1>1, <1>3, <1>4, <1>5, <1>7

\* What else holds again when the futures, the callers and the stage stay too.
LEMMA QuieterStep ==
    ASSUME IInv, UNCHANGED <<dispatch, backlog, count, inFlight, worker, future, phase>>,
           \A p \in Providers : provider'[p].calls = provider[p].calls /\ provider'[p].waiting = provider[p].waiting,
           \A r \in Requests : caller'[r] = "new" => caller[r] = "new"
    PROVE  /\ QueueInv' /\ HandInv' /\ CountInv' /\ PlacesInv' /\ FutureInv' /\ StageInv'
           /\ Queued' = Queued /\ Busy' = Busy
           /\ UNCHANGED known /\ late \subseteq late' => KeyInv'
<1>1. Working' <=> Working
  BY DEF Working
<1>2. /\ Queued' = Queued /\ Inside' = Inside /\ Busy' = Busy /\ (Yielded' <=> Yielded)
      /\ QueueInv' /\ HandInv' /\ CountInv' /\ PlacesInv'
      /\ UNCHANGED known /\ late \subseteq late' => KeyInv'
  BY <1>1, QuietStep
<1>3. StageInv'
  BY <1>1, <1>2 DEF IInv, StageInv
<1>4. Inside \subseteq Requests
  BY InsideType DEF IInv
<1>5. \A j \in Requests : Forward(j)
  BY DEF Forward
<1>6. FutureInv'
  BY <1>2, <1>4, <1>5, FutureKept DEF IInv
<1> QED
  BY <1>2, <1>3, <1>6

\* A key that a request names is a key of its scope.
LEMMA SlotType ==
    ASSUME NEW r \in Requests, KeyOf[r] # NoKey
    PROVE  Slot(r) \in Scopes \X Keys
BY ContextAssumption DEF Slot

\* A call is refused, or joins the job that is known for its key.
LEMMA AnswerStep ==
    ASSUME IInv, NEW r \in Requests, caller[r] = "new", NEW end \in {"waiting", "refused"},
           Answer(r, end),
           awaits' = awaits \/ (Joins(r) /\ awaits' = [awaits EXCEPT ![r] = known[Slot(r)]]),
           UNCHANGED <<future, late, queues, count, inFlight, recent, known, provider, worker, phase, cancels>>
    PROVE  IInv'
<1> USE DEF Answer, queues
<1>1. caller \in [Requests -> {"new", "waiting", "refused", "overflow", "cancelled"}]
  BY DEF IInv, TypeOK
<1>2. \A q \in Requests : caller'[q] = "new" => caller[q] = "new"
  BY <1>1
<1>3. /\ QueueInv' /\ HandInv' /\ CountInv' /\ PlacesInv' /\ FutureInv' /\ StageInv' /\ KeyInv'
  BY <1>2, QuieterStep
<1>4. awaits' \in [Requests -> Requests \cup {NoJob}]
  BY SlotType DEF IInv, TypeOK, Joins
<1>5. caller' \in [Requests -> {"new", "waiting", "refused", "overflow", "cancelled"}]
  BY <1>1
<1>6. TypeOK'
  BY <1>4, <1>5 DEF IInv, TypeOK
<1>7. AdmittedJobFits'
  BY <1>1 DEF IInv, AdmittedJobFits
<1> QED
  BY <1>3, <1>6, <1>7 DEF IInv

\* A caller gives up.
LEMMA CancelStep ==
    ASSUME IInv, NEW r \in Requests, Cancel(r)
    PROVE  IInv'
<1> USE DEF Cancel, Answer, queues
<1>1. caller \in [Requests -> {"new", "waiting", "refused", "overflow", "cancelled"}]
  BY DEF IInv, TypeOK
<1>2. future \in [Requests -> Ends] /\ worker \in [Workers -> WorkerType]
  BY TypeParts DEF IInv
<1>3. /\ worker' \in [Workers -> WorkerType]
      /\ \A v \in Workers : /\ worker'[v].at = worker[v].at
                            /\ worker'[v].job = worker[v].job
                            /\ worker'[v].on = worker[v].on
  <2>1. CASE worker' = worker
    BY <1>2, <2>1
  <2>2. CASE worker' = [w \in Workers |-> IF worker[w].job = r /\ worker[w].at = "call"
                                            THEN [worker[w] EXCEPT !.cut = TRUE] ELSE worker[w]]
    <3>1. ASSUME NEW s \in WorkerType
          PROVE  /\ [s EXCEPT !.cut = TRUE] \in WorkerType
                 /\ [s EXCEPT !.cut = TRUE].at = s.at
                 /\ [s EXCEPT !.cut = TRUE].job = s.job
                 /\ [s EXCEPT !.cut = TRUE].on = s.on
      BY DEF WorkerType
    <3>2. \A v \in Workers : worker[v] \in WorkerType
      BY <1>2
    <3>3. \A v \in Workers : worker'[v] = worker[v] \/ worker'[v] = [worker[v] EXCEPT !.cut = TRUE]
      BY <2>2
    <3> QED
      BY <2>2, <3>1, <3>2, <3>3
  <2> QED
    BY <2>1, <2>2
<1>4. Working' <=> Working
  BY DEF Working
<1>5. /\ Queued' = Queued /\ Inside' = Inside /\ Busy' = Busy /\ (Yielded' <=> Yielded)
      /\ QueueInv' /\ HandInv' /\ CountInv' /\ PlacesInv' /\ KeyInv'
  BY <1>3, <1>4, QuietStep
<1>6. StageInv'
  BY <1>3, <1>4, <1>5 DEF IInv, StageInv
<1>7. future' = future \/ (future[r] = "pending" /\ future' = [future EXCEPT ![r] = "cancelled"])
  BY DEF Pending
<1>8. Inside \subseteq Requests
  BY InsideType DEF IInv
<1>9. \A j \in Requests : Forward(j)
  BY <1>2, <1>7 DEF Forward
<1>10. FutureInv'
  BY <1>1, <1>5, <1>8, <1>9, FutureKept DEF IInv
<1>11. future' \in [Requests -> Ends]
  BY <1>2, <1>7 DEF Ends
<1>12. caller' \in [Requests -> {"new", "waiting", "refused", "overflow", "cancelled"}]
  BY <1>1
<1>13. cancels' \in 0 .. MaxCancels
  <2>1. cancels \in 0 .. MaxCancels /\ cancels < MaxCancels /\ cancels' = cancels + 1
    BY DEF IInv, TypeOK
  <2> QED
    BY <2>1, SizesAssumption
<1>14. TypeOK'
  BY <1>3, <1>11, <1>12, <1>13 DEF IInv, TypeOK, WorkerType
<1>15. AdmittedJobFits'
  BY <1>1 DEF IInv, AdmittedJobFits
<1> QED
  BY <1>5, <1>6, <1>10, <1>14, <1>15 DEF IInv

\* Time passes: a deadline, a cooldown, the minute of a request.
LEMMA TimeStep ==
    ASSUME IInv,
           \/ \E r \in Requests : DeadlinePasses(r)
           \/ \E p \in Providers : CooldownPasses(p)
           \/ \E s \in Scopes : MinutePasses(s)
    PROVE  IInv'
<1> USE DEF queues, admission
<1>1. CASE \E r \in Requests : DeadlinePasses(r)
  <2> PICK r \in Requests : DeadlinePasses(r)
    BY <1>1
  <2> USE DEF DeadlinePasses
  <2>1. /\ QueueInv' /\ HandInv' /\ CountInv' /\ PlacesInv' /\ FutureInv' /\ StageInv' /\ KeyInv'
    BY QuieterStep
  <2>2. TypeOK' /\ AdmittedJobFits'
    BY DEF IInv, TypeOK, AdmittedJobFits
  <2> QED
    BY <2>1, <2>2 DEF IInv
<1>2. CASE \E p \in Providers : CooldownPasses(p)
  <2> PICK p \in Providers : CooldownPasses(p)
    BY <1>2
  <2> USE DEF CooldownPasses
  <2>1. provider \in [Providers -> ProviderType]
    BY TypeParts DEF IInv
  <2>2. /\ provider' \in [Providers -> ProviderType]
        /\ \A q \in Providers : provider'[q].calls = provider[q].calls /\ provider'[q].waiting = provider[q].waiting
    BY <2>1 DEF ProviderType
  <2>3. /\ QueueInv' /\ HandInv' /\ CountInv' /\ PlacesInv' /\ FutureInv' /\ StageInv' /\ KeyInv'
    BY <2>2, QuieterStep
  <2>4. TypeOK' /\ AdmittedJobFits'
    BY <2>2 DEF IInv, TypeOK, AdmittedJobFits, ProviderType
  <2> QED
    BY <2>3, <2>4 DEF IInv
<1>3. CASE \E s \in Scopes : MinutePasses(s)
  <2> PICK s \in Scopes : MinutePasses(s)
    BY <1>3
  <2> USE DEF MinutePasses
  <2>1. /\ QueueInv' /\ HandInv' /\ CountInv' /\ PlacesInv' /\ FutureInv' /\ StageInv' /\ KeyInv'
    BY QuieterStep
  <2>2. recent' \in [Scopes -> Nat]
    BY DEF IInv, TypeOK
  <2>3. TypeOK' /\ AdmittedJobFits'
    BY <2>2 DEF IInv, TypeOK, AdmittedJobFits
  <2> QED
    BY <2>1, <2>3 DEF IInv
<1> QED
  BY <1>1, <1>2, <1>3

\* The record of a key is pruned: no job that could still be shared names it.
LEMMA KeyExpiresStep ==
    ASSUME IInv, NEW k \in Scopes \X Keys, KeyExpires(k)
    PROVE  IInv'
<1> USE DEF KeyExpires, queues
<1>1. /\ QueueInv' /\ HandInv' /\ CountInv' /\ PlacesInv' /\ FutureInv' /\ StageInv'
      /\ Queued' = Queued /\ Busy' = Busy
  BY QuieterStep
<1>2. known \in [Scopes \X Keys -> Requests \cup {NoJob}]
  BY DEF IInv, TypeOK
<1>3. \A j : Slot(j) # k => known'[Slot(j)] = known[Slot(j)]
  BY <1>2
<1>4. ASSUME NEW j \in Queued, KeyOf[j] # NoKey, j \notin late
      PROVE  known'[Slot(j)] = j
  BY <1>3, <1>4 DEF IInv, KeyInv
<1>5. ASSUME NEW w \in Busy, KeyOf[worker[w].job] # NoKey
      PROVE  \/ known'[Slot(worker[w].job)] = worker[w].job
             \/ worker[w].at = "try" /\ worker[w].job \in late
  BY <1>3, <1>5 DEF IInv, KeyInv, Busy
<1>6. KeyInv'
  BY <1>1, <1>4, <1>5 DEF KeyInv
<1>7. TypeOK' /\ AdmittedJobFits'
  BY <1>2 DEF IInv, TypeOK, AdmittedJobFits
<1> QED
  BY <1>1, <1>6, <1>7 DEF IInv

-----------------------------------------------------------------------------
(* Admission. *)

\* Whether the code finds a free worker or room in the backlog, the counts tell it: a job
\* that is not refused fits.
LEMMA AdmissionFits ==
    ASSUME IInv, phase = "open", count.accepted < Capacity
    PROVE  /\ RunningSlotFree => Len(dispatch) < Cardinality(Workers)
           /\ ~RunningSlotFree => BacklogRoom
<1>1. /\ count.accepted = Len(dispatch) + Len(backlog) + Cardinality(Busy)
      /\ count.active = Cardinality(Busy) /\ count.reserved = Len(dispatch)
  BY DEF IInv, CountInv, Working
<1>2. Len(dispatch) \in Nat /\ Len(backlog) \in Nat /\ Cardinality(Busy) \in Nat
  BY QueuedType, FiniteCounts DEF IInv
<1>3. Cardinality(Workers) \in Nat /\ QueueSize \in Nat
  BY SizesAssumption, FS_CardinalityType
<1> QED
  BY <1>1, <1>2, <1>3 DEF Capacity, RunningSlotFree, BacklogRoom

\* A job that is admitted enters one of the queues.
LEMMA EnqueueStep ==
    ASSUME IInv, NEW r \in Requests, caller[r] = "new", phase = "open", ~Joins(r), ~Refused(r), Yielded,
           EnqueueDispatch(r) \/ EnqueueBacklog(r)
    PROVE  IInv'
<1> USE DEF Admit, Answer
<1>1. TypeOK /\ QueueInv /\ HandInv /\ FutureInv /\ KeyInv /\ CountInv /\ PlacesInv
  BY DEF IInv
<1>2. r \notin Inside
  BY <1>1 DEF FutureInv
<1>3. r \notin Queued
  BY <1>2 DEF Inside
<1>4. Working /\ Working'
  BY DEF Working, EnqueueDispatch, EnqueueBacklog
<1>5. Len(dispatch) \in Nat /\ Len(backlog) \in Nat /\ count.reserved = Len(dispatch)
  BY <1>1, <1>4, QueuedType DEF CountInv
<1>6. Busy' = Busy
  BY DEF Busy, EnqueueDispatch, EnqueueBacklog
<1>7. /\ Queued' = Queued \cup {r} /\ QueueInv'
      /\ Len(dispatch') \in Nat /\ Len(backlog') \in Nat
      /\ Len(dispatch') + Len(backlog') = Len(dispatch) + Len(backlog) + 1
      /\ count' = [count EXCEPT !.accepted = @ + 1, !.reserved = Len(dispatch')]
      /\ dispatch' \in Seq(Requests) /\ backlog' \in Seq(Requests)
  <2>1. CASE EnqueueDispatch(r)
    <3>1. /\ dispatch' = Append(dispatch, r) /\ backlog' = backlog
          /\ count' = [count EXCEPT !.accepted = @ + 1, !.reserved = @ + 1]
      BY <2>1 DEF EnqueueDispatch
    <3>2. Queued' = Queued \cup {r} /\ QueueInv' /\ Len(dispatch') = Len(dispatch) + 1
      BY <1>1, <1>3, <3>1, DispatchPushed
    <3>3. dispatch' \in Seq(Requests) /\ backlog' \in Seq(Requests)
      BY <1>1, <3>1, QueuedType
    <3>4. count' = [count EXCEPT !.accepted = @ + 1, !.reserved = Len(dispatch')]
      BY <1>5, <3>1, <3>2
    <3> QED
      BY <1>5, <3>1, <3>2, <3>3, <3>4
  <2>2. CASE EnqueueBacklog(r)
    <3>1. /\ backlog' = Append(backlog, r) /\ dispatch' = dispatch
          /\ count' = [count EXCEPT !.accepted = @ + 1]
      BY <2>2 DEF EnqueueBacklog
    <3>2. Queued' = Queued \cup {r} /\ QueueInv' /\ Len(backlog') = Len(backlog) + 1
      BY <1>1, <1>3, <3>1, BacklogPushed
    <3>3. dispatch' \in Seq(Requests) /\ backlog' \in Seq(Requests)
      BY <1>1, <3>1, QueuedType
    <3>4. count' = [count EXCEPT !.accepted = @ + 1, !.reserved = Len(dispatch')]
      <4>1. count \in [accepted : Nat, active : Nat, reserved : Nat] /\ count.reserved = Len(dispatch')
        BY <1>1, <1>5, <3>1, TypeParts
      <4>2. count' = [count EXCEPT !.accepted = @ + 1, !.reserved = count.reserved]
        BY <3>1, <4>1
      <4> QED
        BY <4>1, <4>2
    <3>5. /\ Len(dispatch') \in Nat /\ Len(backlog') \in Nat
          /\ Len(dispatch') + Len(backlog') = Len(dispatch) + Len(backlog) + 1
      BY <1>5, <3>1, <3>2
    <3> QED
      BY <3>2, <3>3, <3>4, <3>5, Zenon
  <2> QED
    BY <2>1, <2>2
<1>8. Enters(r)
  BY <1>2, <1>6, <1>7 DEF Enters, SameJob, EnqueueDispatch, EnqueueBacklog
<1>9. HandInv' /\ Inside' = Inside \cup {r}
  BY <1>1, <1>8, EntersHands
<1>10. /\ inFlight' = [inFlight EXCEPT ![ScopeOf[r]] = @ + 1]
       /\ future' = [future EXCEPT ![r] = "pending"]
       /\ caller' = [caller EXCEPT ![r] = "waiting"]
       /\ UNCHANGED <<late, provider, worker, phase, cancels>>
  BY DEF EnqueueDispatch, EnqueueBacklog
<1>11. CountInv'
  BY <1>1, <1>4, <1>7, <1>8, <1>10, CountEnters
<1>12. FutureInv'
  BY <1>1, <1>9, <1>10, FutureEnters
<1>13. PlacesInv'
  BY <1>1, <1>10, PlacesKept
<1>14. known' = IF KeyOf[r] = NoKey THEN known ELSE [known EXCEPT ![Slot(r)] = r]
  BY DEF EnqueueDispatch, EnqueueBacklog
<1>15. KeyOf[r] # NoKey => known[Slot(r)] = NoJob
  BY DEF Joins
<1>16. known \in [Scopes \X Keys -> Requests \cup {NoJob}]
  BY <1>1 DEF TypeOK
<1>17. ASSUME NEW j, j # NoJob, known[Slot(j)] = j
       PROVE  known'[Slot(j)] = j
  <2>1. KeyOf[r] # NoKey => Slot(j) # Slot(r)
    BY <1>15, <1>17
  <2> QED
    BY <1>14, <1>16, <1>17, <2>1
<1>18. \A j \in Inside : j # NoJob
  BY <1>1, InsideType, ContextAssumption
<1>19. KeyOf[r] # NoKey => known'[Slot(r)] = r
  BY <1>14, <1>16, SlotType
<1>20. KeyInv'
  <2>1. \A j \in Queued' : KeyOf[j] # NoKey /\ j \notin late' => known'[Slot(j)] = j
    BY <1>1, <1>7, <1>10, <1>17, <1>18, <1>19 DEF KeyInv, Inside
  <2>2. ASSUME NEW w \in Busy', KeyOf[worker'[w].job] # NoKey
        PROVE  \/ known'[Slot(worker'[w].job)] = worker'[w].job
               \/ worker'[w].at = "try" /\ worker'[w].job \in late'
    <3>1. w \in Busy /\ worker' = worker /\ late' = late /\ worker[w].job \in Inside
      BY <1>6, <1>10 DEF Inside, Held
    <3> QED
      BY <1>1, <1>17, <1>18, <2>2, <3>1 DEF KeyInv
  <2> QED
    BY <2>1, <2>2 DEF KeyInv
<1>21. StageInv'
  BY <1>4, <1>10 DEF StageInv, Working
<1>22. TypeOK'
  <2>1. count' \in [accepted : Nat, active : Nat, reserved : Nat]
    <3>1. count \in [accepted : Nat, active : Nat, reserved : Nat]
      BY <1>1, TypeParts
    <3> DEFINE n == Len(dispatch')
    <3>2. n \in Nat /\ count' = [count EXCEPT !.accepted = @ + 1, !.reserved = n]
      BY <1>7, Zenon
    <3> HIDE DEF n
    <3>3. count.accepted + 1 \in Nat
      BY <3>1
    <3> QED
      BY <3>1, <3>2, <3>3, CountTypes
  <2>2. ScopeOf[r] \in Scopes
    BY ContextAssumption
  <2>3. inFlight' \in [Scopes -> Nat] /\ recent' \in [Scopes -> Nat]
    <3>1. inFlight \in [Scopes -> Nat] /\ recent \in [Scopes -> Nat]
      BY <1>1 DEF TypeOK
    <3>2. recent' = [recent EXCEPT ![ScopeOf[r]] = @ + 1]
      BY DEF EnqueueDispatch, EnqueueBacklog
    <3> QED
      BY <1>10, <2>2, <3>1, <3>2
  <2>4. known' \in [Scopes \X Keys -> Requests \cup {NoJob}]
    BY <1>14, <1>16
  <2>5. future' \in [Requests -> Ends]
    BY <1>1, <1>10, TypeParts DEF Ends
  <2>6. /\ caller' \in [Requests -> {"new", "waiting", "refused", "overflow", "cancelled"}]
        /\ awaits' \in [Requests -> Requests \cup {NoJob}]
        /\ available' \in BOOLEAN
    <3>1. /\ caller \in [Requests -> {"new", "waiting", "refused", "overflow", "cancelled"}]
          /\ awaits \in [Requests -> Requests \cup {NoJob}]
      BY <1>1 DEF TypeOK
    <3>2. awaits' = [awaits EXCEPT ![r] = r] /\ available' = TRUE
      BY DEF EnqueueDispatch, EnqueueBacklog
    <3> QED
      BY <1>10, <3>1, <3>2
  <2> QED
    BY <1>1, <1>7, <1>10, <2>1, <2>3, <2>4, <2>5, <2>6 DEF TypeOK
<1>23. AdmittedJobFits'
  BY <1>1, <1>10 DEF IInv, AdmittedJobFits, TypeOK
<1> QED
  BY <1>7, <1>9, <1>11, <1>12, <1>13, <1>20, <1>21, <1>22, <1>23 DEF IInv

\* transcribe() keeps the invariant, and never finds a queue full.
LEMMA TranscribeStep ==
    ASSUME IInv, NEW r \in Requests, Transcribe(r)
    PROVE  IInv'
<1>1. caller[r] = "new" /\ Yielded
  BY DEF Transcribe
<1>2. CASE Answer(r, "refused") /\ UNCHANGED <<awaits, future, late, queues, count, inFlight, recent, known,
                                              provider, worker, phase, cancels>>
  BY <1>1, <1>2, AnswerStep
<1>3. CASE /\ Joins(r) /\ Answer(r, "waiting") /\ awaits' = [awaits EXCEPT ![r] = known[Slot(r)]]
           /\ UNCHANGED <<future, late, queues, count, inFlight, recent, known, provider, worker, phase,
                          cancels>>
  BY <1>1, <1>3, AnswerStep
<1>4. CASE /\ phase = "open" /\ ~Joins(r) /\ ~Refused(r)
           /\ EnqueueDispatch(r) \/ EnqueueBacklog(r) \/ Overflow(r)
  <2>1. count.accepted \in Nat /\ Capacity \in Nat
    BY SizesAssumption, FS_CardinalityType DEF IInv, TypeOK, Capacity
  <2>2. count.accepted < Capacity
    BY <1>4, <2>1 DEF Refused
  <2>3. Cardinality(Workers) \in Nat /\ Len(dispatch) \in Nat
    BY SizesAssumption, FS_CardinalityType, QueuedType DEF IInv
  <2>4. ~Overflow(r)
    BY <1>4, <2>2, <2>3, AdmissionFits DEF Overflow
  <2> QED
    BY <1>1, <1>4, <2>4, EnqueueStep
<1> QED
  BY <1>2, <1>3, <1>4 DEF Transcribe

-----------------------------------------------------------------------------
(* Workers. *)

\* A worker between two awaits is found only while the scheduler works.
LEMMA TryingWorks ==
    ASSUME IInv, NEW w \in Workers, worker[w].at \in {"next", "try"}
    PROVE  Working
BY DEF IInv, StageInv, Yielded

\* A worker that still has its job, and takes or gives up a place for it.
LEMMA MoveStep ==
    ASSUME IInv, Working, NEW w \in Busy, NEW x \in WorkerType,
           worker' = [worker EXCEPT ![w] = x],
           x.at \in BusyAt, x.job = worker[w].job,
           worker[w].at # "try" \/ worker[w].job \notin late,
           provider' \in [Providers -> ProviderType], PlacesInv',
           UNCHANGED <<future, late, queues, count, admission, phase>>
    PROVE  IInv'
<1> USE DEF queues, admission
<1>1. w \in Workers /\ TypeOK
  BY DEF Busy, IInv
<1>2. worker'[w] = x /\ (\A v \in Workers \ {w} : worker'[v] = worker[v]) /\ Busy' = Busy
  <2>1. /\ worker'[w] = x /\ (\A v \in Workers \ {w} : worker'[v] = worker[v])
        /\ Busy' = Busy \cup {w}
    BY <1>1, WorkerSet
  <2> QED
    BY <2>1
<1>3. \A v \in Workers : SameJob(v)
  BY <1>2 DEF SameJob
<1>4. Unmoved
  BY <1>2, <1>3 DEF Unmoved
<1>5. Queued' = Queued /\ Inside' = Inside /\ QueueInv' /\ HandInv'
  BY <1>4, UnmovedInside, UnmovedHands DEF IInv
<1>6. CountInv'
  BY <1>4, CountUnmoved DEF IInv
<1>7. Inside \subseteq Requests
  BY InsideType DEF IInv
<1>8. FutureInv'
  <2>1. \A j \in Requests : Forward(j)
    BY DEF Forward
  <2> QED
    BY <1>5, <1>7, <2>1, FutureKept DEF IInv
<1>9. KeyInv'
  <2>1. ASSUME NEW v \in Busy'
        PROVE  GoesOn(v)
    <3>1. v \in Busy /\ v \in Workers
      BY <1>2 DEF Busy
    <3> QED
      BY <1>2, <1>3, <3>1 DEF GoesOn
  <2> QED
    BY <1>5, <2>1, KeyKept DEF IInv
<1>10. StageInv'
  BY DEF StageInv, Working
<1>11. worker' \in [Workers -> WorkerType]
  BY <1>1, TypeParts
<1>12. TypeOK'
  BY <1>1, <1>11 DEF TypeOK, ProviderType, WorkerType
<1>13. AdmittedJobFits'
  BY DEF IInv, AdmittedJobFits
<1> QED
  BY <1>5, <1>6, <1>8, <1>9, <1>10, <1>12, <1>13 DEF IInv

\* A job ends in the hands of its worker, which goes on or is gone.
LEMMA EndStep ==
    ASSUME IInv, NEW w \in Busy, NEW stage \in {"next", "gone"}, NEW end \in {"result", "error"},
           Working \/ stage = "gone",
           worker' = [worker EXCEPT ![w] = [Idle EXCEPT !.at = stage]],
           future' = Resolved(future, worker[w].job, end),
           Finish(worker[w].job) \/ (~Working /\ UNCHANGED <<count, admission>>),
           provider' \in [Providers -> ProviderType], PlacesInv',
           UNCHANGED <<late, queues, phase>>
    PROVE  IInv'
<1> DEFINE x == [Idle EXCEPT !.at = stage]
           j == worker[w].job
<1> USE DEF queues
<1>1. w \in Workers /\ TypeOK /\ HandInv /\ QueueInv /\ CountInv
  BY DEF Busy, IInv
<1>2. x \in WorkerType /\ x.at = stage /\ x.job = NoJob
  BY IdleType
<1> HIDE DEF x
<1>3. worker'[w] = x /\ (\A v \in Workers \ {w} : worker'[v] = worker[v]) /\ Busy' = Busy \ {w}
  BY <1>1, <1>2, WorkerSet DEF BusyAt, x
<1>4. Leaves(w)
  BY <1>2, <1>3 DEF Leaves, SameJob
<1>5. /\ HandInv' /\ QueueInv' /\ Queued' = Queued
      /\ Inside' = Inside \ {j} /\ j \in Inside
  BY <1>1, <1>4, LeavesHands
<1>6. Working' <=> Working
  BY DEF Working
<1>7. CountInv'
  BY <1>1, <1>4, <1>6, CountLeaves DEF CountInv
<1>8. Inside \subseteq Requests /\ j \in Requests
  BY <1>1, <1>5, InsideType
<1>9. future \in [Requests -> Ends]
  BY <1>1, TypeParts
<1>10. /\ \A q \in Requests : Forward(q)
       /\ future'[j] # "pending" /\ future' \in [Requests -> Ends]
  <2>1. CASE future[j] = "pending"
    <3>1. future' = [future EXCEPT ![j] = end]
      BY <2>1 DEF Resolved
    <3> QED
      BY <1>8, <1>9, <2>1, <3>1 DEF Forward, Ends
  <2>2. CASE future[j] # "pending"
    <3>1. future' = future
      BY <2>2 DEF Resolved
    <3> QED
      BY <1>9, <2>2, <3>1 DEF Forward
  <2> QED
    BY <2>1, <2>2
<1>11. UNCHANGED <<caller, awaits, recent, known, cancels>>
  BY DEF Finish, admission
<1>12. FutureInv'
  BY <1>5, <1>8, <1>10, <1>11, FutureKept DEF IInv
<1>13. KeyInv'
  <2>1. ASSUME NEW v \in Busy'
        PROVE  GoesOn(v)
    <3>1. v \in Busy /\ v \in Workers \ {w}
      BY <1>3 DEF Busy
    <3> QED
      BY <1>3, <3>1 DEF GoesOn, SameJob
  <2> QED
    BY <1>5, <1>11, <2>1, KeyKept DEF IInv
<1>14. StageInv'
  <2>1. ~Working => Yielded /\ dispatch = <<>> /\ backlog = <<>> /\ stage = "gone"
    BY DEF IInv, StageInv
  <2>2. ~Working' => Yielded'
    BY <1>2, <1>3, <1>6, <2>1 DEF Yielded
  <2>3. phase' = "closed" => \A v \in Workers : worker'[v].at = "gone"
    BY <1>2, <1>3, <2>1 DEF IInv, StageInv, Working
  <2> QED
    BY <1>6, <2>1, <2>2, <2>3 DEF StageInv
<1>15. TypeOK'
  <2>1. worker' \in [Workers -> WorkerType]
    BY <1>1, <1>2, TypeParts DEF x
  <2>2. count' \in [accepted : Nat, active : Nat, reserved : Nat] /\ inFlight' \in [Scopes -> Nat]
    <3>1. count \in [accepted : Nat, active : Nat, reserved : Nat] /\ inFlight \in [Scopes -> Nat]
      BY <1>1, TypeParts
    <3>2. CASE Finish(j)
      <4>1. Less(count.accepted) \in Nat /\ Less(count.active) \in Nat
        BY <3>1 DEF Less
      <4>2. count' = [count EXCEPT !.accepted = Less(count.accepted), !.active = Less(count.active)]
        BY <3>2 DEF Finish
      <4>3. ScopeOf[j] \in Scopes
        BY <1>8, ContextAssumption
      <4>4. inFlight' \in [Scopes -> Nat]
        BY <3>1, <3>2, <4>3 DEF Finish, Less
      <4> QED
        BY <3>1, <4>1, <4>2, <4>4, CountTypes
    <3>3. CASE UNCHANGED <<count, admission>>
      BY <3>1, <3>3 DEF admission
    <3> QED
      BY <3>2, <3>3
  <2> QED
    BY <1>1, <1>10, <1>11, <2>1, <2>2 DEF TypeOK, ProviderType, WorkerType
<1>16. AdmittedJobFits'
  BY <1>11 DEF IInv, AdmittedJobFits
<1> QED
  BY <1>5, <1>7, <1>12, <1>13, <1>14, <1>15, <1>16 DEF IInv

\* A provider gets a new state while its worker leaves or changes its place.
LEMMA PlaceStep ==
    ASSUME IInv, NEW w \in Busy, NEW x, worker' = [worker EXCEPT ![w] = x], x.at \notin OnPlaces,
           NEW s \in ProviderType, provider' = [provider EXCEPT ![worker[w].on] = s],
           \/ /\ worker[w].at = "call"
              /\ s.calls = provider[worker[w].on].calls - 1
              /\ s.waiting = provider[worker[w].on].waiting
           \/ /\ worker[w].at = "permit"
              /\ s.calls = provider[worker[w].on].calls
              /\ s.waiting = provider[worker[w].on].waiting - 1
    PROVE  PlacesInv' /\ provider' \in [Providers -> ProviderType]
<1> DEFINE o == worker[w].on
<1>1. w \in Workers /\ TypeOK /\ PlacesInv
  BY DEF Busy, IInv
<1>2. o \in Providers /\ provider \in [Providers -> ProviderType]
  BY <1>1, TypeParts DEF WorkerType
<1>3. provider' \in [Providers -> ProviderType] /\ provider'[o] = s
  BY <1>2
<1>4. \A p \in Providers \ {o} : provider'[p] = provider[p]
  BY <1>2
<1>5. provider[o].calls \in Nat /\ provider[o].waiting \in Nat
  BY <1>2 DEF ProviderType
<1>6. ASSUME NEW p \in Providers
      PROVE  /\ provider'[p].calls = provider[p].calls
                  + (IF x.at = "call" /\ x.on = p THEN 1 ELSE 0)
                  - (IF worker[w].at = "call" /\ worker[w].on = p THEN 1 ELSE 0)
             /\ provider'[p].waiting = provider[p].waiting
                  + (IF x.at = "permit" /\ x.on = p THEN 1 ELSE 0)
                  - (IF worker[w].at = "permit" /\ worker[w].on = p THEN 1 ELSE 0)
  <2>1. provider[p].calls \in Nat /\ provider[p].waiting \in Nat
    BY <1>2 DEF ProviderType
  <2>2. CASE p = o
    BY <1>3, <1>5, <2>2 DEF OnPlaces
  <2>3. CASE p # o
    BY <1>4, <2>1, <2>3 DEF OnPlaces
  <2> QED
    BY <2>2, <2>3
<1> QED
  BY ZenonT(60), <1>1, <1>3, <1>6, PlacesMoved

\* The state of the provider a worker is at, and how many wait for it or call it.
LEMMA AtProvider ==
    ASSUME IInv, NEW w \in Busy
    PROVE  /\ w \in Workers /\ worker[w] \in WorkerType
           /\ worker[w].on \in Providers /\ On(w) \in ProviderType
           /\ On(w).calls \in Nat /\ On(w).waiting \in Nat
           /\ worker[w].at = "call" => On(w).calls > 0
           /\ worker[w].at = "permit" => On(w).waiting > 0
<1> DEFINE o == worker[w].on
<1>1. w \in Workers /\ TypeOK /\ PlacesInv
  BY DEF Busy, IInv
<1>2. worker[w] \in WorkerType /\ o \in Providers /\ On(w) \in ProviderType
  BY <1>1, TypeParts DEF WorkerType, On
<1>3. On(w).calls \in Nat /\ On(w).waiting \in Nat
  BY <1>2 DEF ProviderType
<1>4. On(w).calls = Cardinality(At(worker, "call", o)) /\ On(w).waiting = Cardinality(At(worker, "permit", o))
  BY <1>1, <1>2 DEF PlacesInv, On
<1>5. ASSUME NEW stage, worker[w].at = stage
      PROVE  Cardinality(At(worker, stage, o)) > 0
  <2>1. IsFiniteSet(At(worker, stage, o)) /\ w \in At(worker, stage, o)
    BY <1>1, <1>5, SizesAssumption, FS_Subset DEF At
  <2> HIDE DEF o
  <2> QED
    BY <2>1, FS_CardinalityType, FS_EmptySet
<1> QED
  BY <1>1, <1>2, <1>3, <1>4, <1>5

\* The states a call ends with are states of the provider with one call less.
LEMMA CallEndStates ==
    ASSUME IInv, NEW w \in Busy, worker[w].at = "call"
    PROVE  \A s \in {Failed(LeaveCall(On(w))), Succeeded(LeaveCall(On(w))), LeaveCall(On(w))} :
             s \in ProviderType /\ s.calls = On(w).calls - 1 /\ s.waiting = On(w).waiting
<1>1. On(w) \in ProviderType /\ On(w).calls > 0
  BY AtProvider
<1> DEFINE s == LeaveCall(On(w))
<1>2. s \in ProviderType /\ s.calls = On(w).calls - 1 /\ s.waiting = On(w).waiting
  BY <1>1, ProviderSteps
<1> HIDE DEF s
<1>3. /\ Failed(s) \in ProviderType /\ Failed(s).calls = s.calls /\ Failed(s).waiting = s.waiting
      /\ Succeeded(s) \in ProviderType /\ Succeeded(s).calls = s.calls /\ Succeeded(s).waiting = s.waiting
  BY <1>2, ProviderSteps
<1> QED
  BY <1>2, <1>3 DEF s

\* The states a wait for a permit ends with are states of the provider with one waiting less.
LEMMA QueueEndStates ==
    ASSUME IInv, NEW w \in Busy, worker[w].at = "permit"
    PROVE  \A s \in {Failed(LeaveQueue(On(w))), LeaveQueue(On(w))} :
             s \in ProviderType /\ s.calls = On(w).calls /\ s.waiting = On(w).waiting - 1
<1>1. On(w) \in ProviderType /\ On(w).waiting > 0 /\ On(w).waiting \in Nat
  BY AtProvider
<1> DEFINE s == LeaveQueue(On(w))
<1>2. s \in ProviderType /\ s.calls = On(w).calls /\ s.waiting = On(w).waiting - 1
  BY <1>1, ProviderSteps DEF Less
<1> HIDE DEF s
<1>3. Failed(s) \in ProviderType /\ Failed(s).calls = s.calls /\ Failed(s).waiting = s.waiting
  BY <1>2, ProviderSteps
<1> QED
  BY <1>2, <1>3 DEF s

\* The worker that lays its job down is at no provider.
LEMMA IdleIsNowhere ==
    ASSUME NEW stage \in {"next", "gone"}
    PROVE  [Idle EXCEPT !.at = stage].at \notin OnPlaces
BY IdleType DEF OnPlaces

\* The call of a worker ends: with a result, with an error, or cut off by the caller.
LEMMA CallEndsStep ==
    ASSUME IInv, NEW w \in Workers, CallSucceeds(w) \/ CallFails(w) \/ CutOff(w)
    PROVE  IInv'
<1>1. worker[w].at = "call" /\ Working /\ w \in Busy
  BY DEF CallSucceeds, CallFails, CutOff, InCall, Busy
<1>2. CASE CallSucceeds(w)
  <2> DEFINE s == Succeeded(LeaveCall(On(w)))
  <2>1. /\ provider' = [provider EXCEPT ![worker[w].on] = s]
        /\ EndJob(w, "result")
    BY <1>2 DEF CallSucceeds, On
  <2>2. s \in ProviderType /\ s.calls = On(w).calls - 1 /\ s.waiting = On(w).waiting
    BY <1>1, CallEndStates
  <2> HIDE DEF s
  <2>3. PlacesInv' /\ provider' \in [Providers -> ProviderType]
    BY <1>1, <2>1, <2>2, PlaceStep, IdleIsNowhere DEF EndJob, On
  <2> QED
    BY <1>1, <2>1, <2>3, EndStep DEF EndJob
<1>3. CASE CallFails(w)
  <2> DEFINE s == Failed(LeaveCall(On(w)))
  <2>1. /\ provider' = [provider EXCEPT ![worker[w].on] = s]
        /\ EndJob(w, "error")
    BY <1>3 DEF CallFails, On
  <2>2. s \in ProviderType /\ s.calls = On(w).calls - 1 /\ s.waiting = On(w).waiting
    BY <1>1, CallEndStates
  <2> HIDE DEF s
  <2>3. PlacesInv' /\ provider' \in [Providers -> ProviderType]
    BY <1>1, <2>1, <2>2, PlaceStep, IdleIsNowhere DEF EndJob, On
  <2> QED
    BY <1>1, <2>1, <2>3, EndStep DEF EndJob
<1>4. CASE CutOff(w)
  <2> DEFINE s == LeaveCall(On(w))
  <2>1. /\ provider' = [provider EXCEPT ![worker[w].on] = s]
        /\ worker' = [worker EXCEPT ![w] = [Idle EXCEPT !.at = "gone"]]
    BY <1>4 DEF CutOff, On
  <2>2. s \in ProviderType /\ s.calls = On(w).calls - 1 /\ s.waiting = On(w).waiting
    BY <1>1, CallEndStates
  <2> HIDE DEF s
  <2>3. PlacesInv' /\ provider' \in [Providers -> ProviderType]
    BY <1>1, <2>1, <2>2, PlaceStep, IdleIsNowhere DEF On
  <2> QED
    BY <1>1, <1>4, <2>1, <2>3, EndStep DEF CutOff
<1> QED
  BY <1>2, <1>3, <1>4

\* The wait for a permit outlasts the deadline.
LEMMA PermitTimeoutStep ==
    ASSUME IInv, NEW w \in Workers, PermitTimeout(w)
    PROVE  IInv'
<1>1. worker[w].at = "permit" /\ Working /\ w \in Busy
  BY DEF PermitTimeout, Busy
<1> DEFINE s == Failed(LeaveQueue(On(w)))
<1>2. provider' = [provider EXCEPT ![worker[w].on] = s] /\ EndJob(w, "error")
  BY DEF PermitTimeout, On
<1>3. s \in ProviderType /\ s.calls = On(w).calls /\ s.waiting = On(w).waiting - 1
  BY <1>1, QueueEndStates
<1> HIDE DEF s
<1>4. PlacesInv' /\ provider' \in [Providers -> ProviderType]
  BY <1>1, <1>2, <1>3, PlaceStep, IdleIsNowhere DEF EndJob, On
<1> QED
  BY <1>1, <1>2, <1>4, EndStep DEF EndJob

\* No provider is left, or no time.
LEMMA GiveUpStep ==
    ASSUME IInv, NEW w \in Workers, GiveUp(w)
    PROVE  IInv'
<1>1. worker[w].at = "try" /\ w \in Busy
  BY DEF GiveUp, Busy
<1>2. Working
  BY <1>1, TryingWorks
<1>3. EndJob(w, "error") /\ UNCHANGED provider
  BY DEF GiveUp
<1>4. TypeOK /\ PlacesInv
  BY DEF IInv
<1>5. provider' \in [Providers -> ProviderType]
  BY <1>3, <1>4, TypeParts
<1>6. \A v \in Workers : v # w => worker'[v] = worker[v]
  BY <1>3, <1>4, WorkerSet DEF EndJob
<1>7. worker'[w].at \notin OnPlaces
  BY <1>3, <1>4, WorkerSet, IdleIsNowhere DEF EndJob
<1>8. PlacesInv'
  BY <1>1, <1>3, <1>4, <1>6, <1>7, PlacesKept DEF OnPlaces
<1> QED
  BY <1>1, <1>2, <1>3, <1>5, <1>8, EndStep DEF EndJob

\* The next attempt.
LEMMA FailoverStep ==
    ASSUME IInv, NEW w \in Workers, Failover(w)
    PROVE  IInv'
<1> DEFINE me == worker[w]
           rest == IF Cardinality(me.tried) >= Len(Order) THEN {} ELSE me.tried
           x == [me EXCEPT !.at = "try", !.attempt = me.attempt + 1, !.tried = rest]
           s == Failed(LeaveCall(On(w)))
<1>1. me.at = "call" /\ Working /\ w \in Busy
  BY DEF Failover, InCall, Busy
<1>2. /\ worker' = [worker EXCEPT ![w] = x]
      /\ provider' = [provider EXCEPT ![worker[w].on] = s]
      /\ UNCHANGED <<future, late, queues, count, admission, phase>>
      /\ me.attempt + 1 < MaxAttempts
  BY DEF Failover, On
<1>3. me \in WorkerType
  BY <1>1, AtProvider
<1>4. x \in WorkerType /\ x.at = "try" /\ x.job = me.job
  <2>1. rest \in SUBSET Providers
    BY <1>3 DEF WorkerType
  <2>2. me.attempt + 1 \in 0 .. MaxAttempts - 1
    BY <1>2, <1>3, SizesAssumption DEF WorkerType
  <2> HIDE DEF rest
  <2> QED
    BY <1>3, <2>1, <2>2 DEF WorkerType
<1>5. s \in ProviderType /\ s.calls = On(w).calls - 1 /\ s.waiting = On(w).waiting
  BY <1>1, CallEndStates
<1> HIDE DEF s, x
<1>6. PlacesInv' /\ provider' \in [Providers -> ProviderType]
  BY <1>1, <1>2, <1>4, <1>5, PlaceStep DEF On, OnPlaces
<1> QED
  BY <1>1, <1>2, <1>4, <1>6, MoveStep DEF BusyAt

\* The semaphore of the provider admits the call.
LEMMA PermitStep ==
    ASSUME IInv, NEW w \in Workers, Permit(w)
    PROVE  IInv'
<1> DEFINE me == worker[w]
           x == [me EXCEPT !.at = "call"]
           o == me.on
           s == [On(w) EXCEPT !.calls = On(w).calls + 1, !.waiting = On(w).waiting - 1]
<1>1. me.at = "permit" /\ Working /\ w \in Busy
  BY DEF Permit, Busy
<1>2. /\ me \in WorkerType /\ o \in Providers /\ On(w) \in ProviderType
      /\ On(w).calls \in Nat /\ On(w).waiting \in Nat /\ On(w).waiting > 0
  BY <1>1, AtProvider
<1>3. TypeOK /\ PlacesInv /\ worker \in [Workers -> WorkerType] /\ provider \in [Providers -> ProviderType]
  BY TypeParts DEF IInv
<1>4. worker' = [worker EXCEPT ![w] = x]
  BY <1>3 DEF Permit
<1>5. provider' = [provider EXCEPT ![o] = s]
  BY <1>2, <1>3 DEF Permit, On
<1>6. x \in WorkerType /\ x.at = "call" /\ x.job = me.job /\ x.on = o
  <2>1. me \in WorkerType
    BY <1>2
  <2> QED
    BY <2>1 DEF WorkerType
<1>7. s \in ProviderType /\ s.calls = On(w).calls + 1 /\ s.waiting = On(w).waiting - 1
  <2> DEFINE t == On(w)
             m == On(w).calls + 1
             n == On(w).waiting - 1
  <2>1. t \in ProviderType /\ m \in Nat /\ n \in Nat /\ s = [t EXCEPT !.calls = m, !.waiting = n]
    BY <1>2
  <2> HIDE DEF t, m, n, s
  <2>2. s \in ProviderType /\ s.calls = m /\ s.waiting = n
    BY <2>1 DEF ProviderType
  <2> QED
    BY <2>2 DEF m, n
<1> HIDE DEF s, x
<1>8. /\ provider' \in [Providers -> ProviderType] /\ provider'[o] = s
      /\ \A p \in Providers \ {o} : provider'[p] = provider[p]
  BY <1>2, <1>3, <1>5, <1>7
<1>9. ASSUME NEW p \in Providers
      PROVE  /\ provider'[p].calls = provider[p].calls
                  + (IF x.at = "call" /\ x.on = p THEN 1 ELSE 0)
                  - (IF worker[w].at = "call" /\ worker[w].on = p THEN 1 ELSE 0)
             /\ provider'[p].waiting = provider[p].waiting
                  + (IF x.at = "permit" /\ x.on = p THEN 1 ELSE 0)
                  - (IF worker[w].at = "permit" /\ worker[w].on = p THEN 1 ELSE 0)
  <2>1. provider[p].calls \in Nat /\ provider[p].waiting \in Nat
    BY <1>3 DEF ProviderType
  <2>2. CASE p = o
    BY <1>1, <1>2, <1>6, <1>7, <1>8, <2>2 DEF On
  <2>3. CASE p # o
    BY <1>1, <1>6, <1>8, <2>1, <2>3
  <2> QED
    BY <2>2, <2>3
<1>10. PlacesInv'
  BY <1>3, <1>4, <1>9, PlacesMoved
<1>11. UNCHANGED <<future, late, queues, count, admission, phase>>
  BY DEF Permit
<1> QED
  BY <1>1, <1>4, <1>6, <1>8, <1>10, <1>11, MoveStep DEF BusyAt

\* The worker chooses a provider and queues for its permit.
LEMMA TryProviderStep ==
    ASSUME IInv, NEW w \in Workers, TryProvider(w)
    PROVE  IInv'
<1> DEFINE me == worker[w]
           c == Candidates(me.tried)
           o == Selected(c)
           x == [me EXCEPT !.at = "permit", !.on = o, !.tried = me.tried \cup {o}]
           sur == Surveyed(me.tried)
<1>1. me.at = "try" /\ me.job \notin late /\ c # {} /\ w \in Busy
  BY DEF TryProvider, Busy
<1>2. Working
  BY <1>1, TryingWorks
<1>3. TypeOK /\ PlacesInv
  BY DEF IInv
<1>4. o \in Providers
  <2>1. c \in SUBSET Providers
    BY DEF Candidates
  <2> HIDE DEF c
  <2> QED
    BY <1>1, <1>3, <2>1, SelectedIsCandidate
<1>5. /\ sur \in [Providers -> ProviderType]
      /\ \A p \in Providers : sur[p].calls = provider[p].calls /\ sur[p].waiting = provider[p].waiting
  BY <1>3, SurveyedType
<1>6. /\ worker' = [worker EXCEPT ![w] = x]
      /\ provider' = [sur EXCEPT ![o].waiting = @ + 1]
      /\ UNCHANGED <<future, late, queues, count, admission, phase>>
  BY DEF TryProvider
<1>7. me \in WorkerType
  BY <1>1, AtProvider
<1> HIDE DEF o, sur, c
<1>8. x \in WorkerType /\ x.at = "permit" /\ x.on = o /\ x.job = me.job
  BY <1>4, <1>7 DEF WorkerType
<1> HIDE DEF x
<1>9. /\ provider' \in [Providers -> ProviderType]
      /\ provider'[o].calls = sur[o].calls /\ provider'[o].waiting = sur[o].waiting + 1
      /\ \A p \in Providers \ {o} : provider'[p] = sur[p]
  BY <1>4, <1>5, <1>6 DEF ProviderType
<1>10. ASSUME NEW p \in Providers
       PROVE  /\ provider'[p].calls = provider[p].calls
                   + (IF x.at = "call" /\ x.on = p THEN 1 ELSE 0)
                   - (IF worker[w].at = "call" /\ worker[w].on = p THEN 1 ELSE 0)
              /\ provider'[p].waiting = provider[p].waiting
                   + (IF x.at = "permit" /\ x.on = p THEN 1 ELSE 0)
                   - (IF worker[w].at = "permit" /\ worker[w].on = p THEN 1 ELSE 0)
  <2>1. provider[p].calls \in Nat /\ provider[p].waiting \in Nat
    BY <1>3, TypeParts DEF ProviderType
  <2>2. CASE p = o
    BY <1>1, <1>5, <1>8, <1>9, <2>1, <2>2
  <2>3. CASE p # o
    BY <1>1, <1>5, <1>8, <1>9, <2>1, <2>3
  <2> QED
    BY <2>2, <2>3
<1>11. PlacesInv'
  <2>1. worker' = [worker EXCEPT ![w] = x]
    BY <1>6
  <2> QED
    BY <1>3, <1>10, <2>1, PlacesMoved
<1> QED
  BY <1>1, <1>2, <1>6, <1>8, <1>9, <1>11, MoveStep DEF BusyAt

\* What the counts of the jobs leave when one is dropped on the way to a worker, or begins.
LEMMA BeginStep ==
    ASSUME IInv, NEW w \in Workers \ Busy, NEW j, NEW n, Working,
           Begin(w, j, n),
           j \in Queued, Queued' = Queued \ {j}, QueueInv', n = Len(dispatch'), n \in Nat,
           Len(backlog') \in Nat, n + Len(backlog') + 1 = Len(dispatch) + Len(backlog),
           dispatch' \in Seq(Requests), backlog' \in Seq(Requests),
           UNCHANGED <<future, late, available, provider, phase>>
    PROVE  IInv'
<1> USE DEF admission
<1>1. TypeOK /\ HandInv /\ QueueInv /\ CountInv /\ PlacesInv /\ FutureInv /\ KeyInv
  BY DEF IInv
<1>2. j \in Requests /\ Inside \subseteq Requests /\ ScopeOf[j] \in Scopes
  BY <1>1, InsideType, QueuedType, ContextAssumption
<1>3. /\ count \in [accepted : Nat, active : Nat, reserved : Nat]
      /\ inFlight \in [Scopes -> Nat] /\ worker \in [Workers -> WorkerType]
  BY <1>1, TypeParts
<1>4. Working' /\ StageInv'
  BY DEF Working, StageInv
<1>5. UNCHANGED <<caller, awaits, recent, known, cancels>>
  BY DEF Begin
<1>6. worker[w].at \notin OnPlaces
  BY DEF Busy, OnPlaces
<1>7. \A q \in Requests : Forward(q)
  BY DEF Forward
<1>8. AdmittedJobFits'
  BY <1>5 DEF IInv, AdmittedJobFits
<1>9. CASE future[j] = "cancelled"
  <2> DEFINE x == [Idle EXCEPT !.at = "next"]
  <2>1. /\ count' = [count EXCEPT !.accepted = Less(@), !.reserved = n]
        /\ inFlight' = [inFlight EXCEPT ![ScopeOf[j]] = Less(@)]
        /\ worker' = [worker EXCEPT ![w] = x]
    BY <1>9 DEF Begin
  <2>2. x \in WorkerType /\ x.at = "next" /\ x.job = NoJob
    BY IdleType
  <2> HIDE DEF x
  <2>3. worker'[w] = x /\ (\A v \in Workers \ {w} : worker'[v] = worker[v])
    BY <1>1, <2>1, WorkerSet
  <2>4. Busy' = Busy
    <3>1. Busy' = Busy \ {w}
      BY <1>1, <2>1, <2>2, WorkerSet DEF BusyAt
    <3> QED
      BY <3>1
  <2>5. Drops(j)
    BY <1>1, <2>2, <2>3, <2>4 DEF Drops, SameJob, HandInv
  <2>6. HandInv' /\ Inside' = Inside \ {j}
    BY <1>1, <2>5, DropsHands
  <2>7. CountInv'
    BY <1>1, <2>1, <2>5, CountDrops
  <2>8. FutureInv'
    BY <1>1, <1>2, <1>5, <1>7, <1>9, <2>6, FutureKept
  <2>9. \A v \in Busy' : GoesOn(v)
    BY <2>3, <2>4 DEF GoesOn, SameJob, Busy
  <2>10. KeyInv'
    BY <1>1, <1>5, <2>9, KeyKept
  <2>11. PlacesInv'
    BY <1>1, <1>6, <2>2, <2>3, PlacesKept DEF OnPlaces
  <2>12. TypeOK'
    <3>1. worker' \in [Workers -> WorkerType]
      BY <1>3, <2>1, <2>2
    <3>2. Less(count.accepted) \in Nat
      BY <1>3 DEF Less
    <3>3. count' \in [accepted : Nat, active : Nat, reserved : Nat]
      BY <1>3, <2>1, <3>2, CountTypes
    <3>4. inFlight' \in [Scopes -> Nat]
      BY <1>2, <1>3, <2>1 DEF Less
    <3> QED
      BY <1>1, <1>5, <3>1, <3>3, <3>4 DEF TypeOK, WorkerType
  <2> QED
    BY <1>4, <1>8, <2>6, <2>7, <2>8, <2>10, <2>11, <2>12 DEF IInv
<1>10. CASE future[j] # "cancelled"
  <2> DEFINE x == [Idle EXCEPT !.at = "try", !.job = j]
  <2>1. /\ count' = [count EXCEPT !.active = @ + 1, !.reserved = n]
        /\ UNCHANGED inFlight
        /\ worker' = [worker EXCEPT ![w] = x]
    BY <1>10 DEF Begin
  <2>2. x \in WorkerType /\ x.at = "try" /\ x.job = j
    BY <1>2, BegunType
  <2> HIDE DEF x
  <2>3. worker'[w] = x /\ (\A v \in Workers \ {w} : worker'[v] = worker[v])
    BY <1>1, <2>1, WorkerSet
  <2>4. Busy' = Busy \cup {w}
    BY <1>1, <2>1, <2>2, WorkerSet DEF BusyAt
  <2>5. Fills(w, j)
    BY <2>2, <2>3, <2>4 DEF Fills, SameJob
  <2>6. HandInv' /\ Inside' = Inside
    BY <1>1, <2>5, FillsHands
  <2>7. CountInv'
    BY <1>1, <2>1, <2>5, CountFills
  <2>8. FutureInv'
    BY <1>1, <1>2, <1>5, <1>7, <2>6, FutureKept
  <2>9. ASSUME NEW v \in Busy'
        PROVE  GoesOn(v) \/ Begins(v)
    <3>1. CASE v = w
      BY <2>2, <2>3, <3>1 DEF Begins
    <3>2. CASE v # w
      <4>1. v \in Busy /\ v \in Workers \ {w}
        BY <2>4, <3>2 DEF Busy
      <4> QED
        BY <2>3, <4>1 DEF GoesOn, SameJob
    <3> QED
      BY <3>1, <3>2
  <2>10. KeyInv'
    BY <1>1, <1>5, <2>9, KeyKept
  <2>11. PlacesInv'
    BY <1>1, <1>6, <2>2, <2>3, PlacesKept DEF OnPlaces
  <2>12. TypeOK'
    <3>1. worker' \in [Workers -> WorkerType]
      BY <1>3, <2>1, <2>2
    <3>2. count.active + 1 \in Nat
      BY <1>3
    <3>3. count' \in [accepted : Nat, active : Nat, reserved : Nat]
      BY <1>3, <2>1, <3>2, CountTypes
    <3> QED
      BY <1>1, <1>5, <2>1, <3>1, <3>3 DEF TypeOK, WorkerType
  <2> QED
    BY <1>4, <1>8, <2>6, <2>7, <2>8, <2>10, <2>11, <2>12 DEF IInv
<1> QED
  BY <1>9, <1>10

\* A worker takes the first job of either queue.
LEMMA TakeStep ==
    ASSUME IInv, NEW w \in Workers, TakeDispatch(w) \/ TakeBacklog(w)
    PROVE  IInv'
<1>1. TypeOK /\ QueueInv /\ CountInv /\ Working /\ w \notin Busy
  BY DEF IInv, TakeDispatch, TakeBacklog, Ready, Busy
<1>2. /\ dispatch \in Seq(Requests) /\ backlog \in Seq(Requests)
      /\ Len(dispatch) \in Nat /\ Len(backlog) \in Nat /\ count.reserved = Len(dispatch)
  BY <1>1, QueuedType DEF CountInv
<1>3. CASE TakeDispatch(w)
  <2> DEFINE j == Head(dispatch)
             n == Less(count.reserved)
  <2>1. /\ dispatch # <<>> /\ dispatch' = Tail(dispatch) /\ backlog' = backlog
        /\ Begin(w, j, n)
        /\ UNCHANGED <<future, late, available, provider, phase>>
    BY <1>3 DEF TakeDispatch
  <2>2. /\ j \in Queued /\ Queued' = Queued \ {j} /\ QueueInv'
        /\ Len(dispatch') = Len(dispatch) - 1 /\ Len(dispatch) \in Nat \ {0}
    BY <1>1, <2>1, DispatchPulled
  <2>3. n = Len(dispatch') /\ n \in Nat
    BY <1>2, <2>2 DEF Less
  <2>4. dispatch' \in Seq(Requests) /\ backlog' \in Seq(Requests)
    BY <1>2, <2>1
  <2>5. Len(backlog') \in Nat /\ n + Len(backlog') + 1 = Len(dispatch) + Len(backlog)
    BY <1>2, <2>1, <2>2, <2>3
  <2> HIDE DEF j, n
  <2> QED
    BY <1>1, <2>1, <2>2, <2>3, <2>4, <2>5, BeginStep
<1>4. CASE TakeBacklog(w)
  <2> DEFINE j == Head(backlog)
             n == count.reserved
  <2>1. /\ backlog # <<>> /\ backlog' = Tail(backlog) /\ dispatch' = dispatch
        /\ Begin(w, j, n)
        /\ UNCHANGED <<future, late, available, provider, phase>>
    BY <1>4 DEF TakeBacklog
  <2>2. /\ j \in Queued /\ Queued' = Queued \ {j} /\ QueueInv'
        /\ Len(backlog') = Len(backlog) - 1 /\ Len(backlog) \in Nat \ {0}
    BY <1>1, <2>1, BacklogPulled
  <2>3. n = Len(dispatch') /\ n \in Nat
    BY <1>2, <2>1
  <2>4. dispatch' \in Seq(Requests) /\ backlog' \in Seq(Requests)
    BY <1>2, <2>1
  <2>5. Len(backlog') \in Nat /\ n + Len(backlog') + 1 = Len(dispatch) + Len(backlog)
    BY <1>2, <2>1, <2>2, <2>3
  <2> HIDE DEF j, n
  <2> QED
    BY <1>1, <2>1, <2>2, <2>3, <2>4, <2>5, BeginStep
<1> QED
  BY <1>3, <1>4

\* A worker finds nothing to take.
LEMMA RestStep ==
    ASSUME IInv, NEW w \in Workers, Rest(w)
    PROVE  IInv'
<1> USE DEF admission
<1>1. TypeOK /\ HandInv /\ QueueInv /\ CountInv /\ PlacesInv /\ FutureInv /\ KeyInv
  BY DEF IInv
<1>2. /\ Working /\ w \notin Busy /\ worker[w].at \notin OnPlaces
      /\ worker' = [worker EXCEPT ![w] = Idle] /\ available' = FALSE
      /\ UNCHANGED <<future, late, dispatch, backlog, count, caller, awaits, inFlight, recent, known, cancels,
                     provider, phase>>
  <2>1. Working /\ worker[w].at \in {"next", "idle"}
    BY DEF Rest, Ready
  <2>2. w \notin Busy /\ worker[w].at \notin OnPlaces
    BY <2>1 DEF Busy, OnPlaces
  <2>3. /\ worker' = [worker EXCEPT ![w] = Idle] /\ available' = FALSE
        /\ UNCHANGED <<future, late, dispatch, backlog, count, caller, awaits, inFlight, recent, known, cancels,
                       provider, phase>>
    BY DEF Rest
  <2> QED
    BY <2>1, <2>2, <2>3
<1>3. Idle \in WorkerType /\ Idle.at = "idle" /\ Idle.job = NoJob
  BY StartType
<1>4. worker'[w] = Idle /\ \A v \in Workers \ {w} : worker'[v] = worker[v]
  BY <1>1, <1>2, WorkerSet
<1>5. Busy' = Busy
  <2>1. Busy' = Busy \ {w}
    BY <1>1, <1>2, <1>3, WorkerSet DEF BusyAt
  <2> QED
    BY <1>2, <2>1
<1>6. \A v \in Workers : SameJob(v)
  BY <1>1, <1>2, <1>3, <1>4 DEF SameJob, HandInv
<1>7. Unmoved
  BY <1>2, <1>5, <1>6 DEF Unmoved
<1>8. Queued' = Queued /\ Inside' = Inside /\ QueueInv' /\ HandInv'
  BY <1>1, <1>7, UnmovedInside, UnmovedHands
<1>9. Working' /\ StageInv'
  BY <1>2 DEF Working, StageInv
<1>10. CountInv'
  BY <1>1, <1>2, <1>7, CountUnmoved
<1>11. FutureInv'
  <2>1. Inside \subseteq Requests /\ \A j \in Requests : Forward(j)
    BY <1>1, <1>2, InsideType DEF Forward
  <2> QED
    BY <1>1, <1>2, <1>8, <2>1, FutureKept
<1>12. KeyInv'
  <2>1. \A v \in Busy' : GoesOn(v)
    BY <1>2, <1>4, <1>5 DEF GoesOn, SameJob, Busy
  <2> QED
    BY <1>1, <1>2, <1>8, <2>1, KeyKept
<1>13. PlacesInv'
  BY <1>1, <1>2, <1>3, <1>4, PlacesKept DEF OnPlaces
<1>14. worker' \in [Workers -> WorkerType]
  BY <1>1, <1>2, <1>3, TypeParts
<1>15. TypeOK'
  BY <1>1, <1>2, <1>14 DEF TypeOK, WorkerType
<1>16. AdmittedJobFits'
  BY <1>2 DEF IInv, AdmittedJobFits
<1> QED
  BY <1>8, <1>9, <1>10, <1>11, <1>12, <1>13, <1>15, <1>16 DEF IInv

-----------------------------------------------------------------------------
(* close() *)

\* A worker is cancelled in its await; the counts are of no more use then.
LEMMA StopStep ==
    ASSUME IInv, NEW w \in Workers, StopWorker(w)
    PROVE  IInv'
<1> DEFINE me == worker[w]
           x == [Idle EXCEPT !.at = "gone"]
<1>1. TypeOK /\ HandInv /\ QueueInv /\ PlacesInv /\ FutureInv /\ KeyInv /\ StageInv
  BY DEF IInv
<1>2. ~Working /\ ~Working' /\ Yielded /\ phase' = phase /\ phase = "stopping"
  BY <1>1 DEF StopWorker, StageInv, Working
<1>3. /\ worker' = [worker EXCEPT ![w] = x]
      /\ UNCHANGED <<late, queues, phase>>
  BY DEF StopWorker
<1>4. CASE me.job = NoJob
  <2> USE DEF admission, queues
  <2>1. w \notin Busy
    BY <1>1, <1>4, ContextAssumption DEF HandInv
  <2>2. UNCHANGED <<future, count, caller, awaits, inFlight, recent, known, cancels, provider>>
    BY <1>4 DEF StopWorker
  <2>3. x \in WorkerType /\ x.at = "gone" /\ x.job = NoJob
    BY IdleType
  <2> HIDE DEF x
  <2>4. worker'[w] = x /\ \A v \in Workers \ {w} : worker'[v] = worker[v]
    BY <1>1, <1>3, WorkerSet
  <2>5. Busy' = Busy
    <3>1. Busy' = Busy \ {w}
      BY <1>1, <1>3, <2>3, WorkerSet DEF BusyAt
    <3> QED
      BY <2>1, <3>1
  <2>6. Unmoved
    BY <1>3, <1>4, <2>3, <2>4, <2>5 DEF Unmoved, SameJob
  <2>7. Queued' = Queued /\ Inside' = Inside /\ QueueInv' /\ HandInv'
    BY <1>1, <2>6, UnmovedInside, UnmovedHands
  <2>8. CountInv'
    BY <1>2 DEF CountInv
  <2>9. FutureInv'
    <3>1. Inside \subseteq Requests /\ \A j \in Requests : Forward(j)
      BY <1>1, <2>2, InsideType DEF Forward
    <3> QED
      BY <1>1, <2>2, <2>7, <3>1, FutureKept
  <2>10. KeyInv'
    <3>1. \A v \in Busy' : GoesOn(v)
      BY <2>1, <2>4, <2>5 DEF GoesOn, SameJob, Busy
    <3> QED
      BY <1>1, <1>3, <2>2, <2>7, <3>1, KeyKept
  <2>11. PlacesInv'
    <3>1. me.at \notin OnPlaces
      BY <2>1 DEF Busy, OnPlaces
    <3> QED
      BY <1>1, <2>2, <2>3, <2>4, <3>1, PlacesKept DEF OnPlaces
  <2>12. StageInv'
    BY <1>1, <1>2, <1>3, <2>3, <2>4 DEF StageInv, Yielded
  <2>13. TypeOK'
    <3>1. worker' \in [Workers -> WorkerType]
      BY <1>1, <1>3, <2>3, TypeParts
    <3> QED
      BY <1>1, <1>3, <2>2, <3>1 DEF TypeOK, WorkerType
  <2>14. AdmittedJobFits'
    BY <2>2 DEF IInv, AdmittedJobFits
  <2> QED
    BY <2>7, <2>8, <2>9, <2>10, <2>11, <2>12, <2>13, <2>14 DEF IInv
<1>5. CASE me.job # NoJob
  <2>1. w \in Busy
    BY <1>1, <1>5 DEF HandInv
  <2>2. me.at = "call" \/ me.at = "permit"
    BY <1>2, <2>1 DEF Busy, Yielded
  <2>3. /\ future' = Resolved(future, me.job, "error")
        /\ Finish(me.job) \/ UNCHANGED <<count, admission>>
        /\ provider' = [provider EXCEPT ![me.on] = IF me.at = "call" THEN LeaveCall(On(w)) ELSE LeaveQueue(On(w))]
    BY <1>5 DEF StopWorker, On
  <2>4. PlacesInv' /\ provider' \in [Providers -> ProviderType]
    <3>1. CASE me.at = "call"
      <4> DEFINE s == LeaveCall(On(w))
      <4>1. s \in ProviderType /\ s.calls = On(w).calls - 1 /\ s.waiting = On(w).waiting
        BY <2>1, <3>1, CallEndStates
      <4>2. provider' = [provider EXCEPT ![worker[w].on] = s]
        BY <2>3, <3>1
      <4> HIDE DEF s
      <4> QED
        BY <1>3, <2>1, <3>1, <4>1, <4>2, PlaceStep, IdleIsNowhere DEF On
    <3>2. CASE me.at = "permit"
      <4> DEFINE s == LeaveQueue(On(w))
      <4>1. s \in ProviderType /\ s.calls = On(w).calls /\ s.waiting = On(w).waiting - 1
        BY <2>1, <3>2, QueueEndStates
      <4>2. provider' = [provider EXCEPT ![worker[w].on] = s]
        BY <2>3, <3>2
      <4> HIDE DEF s
      <4> QED
        BY <1>3, <2>1, <3>2, <4>1, <4>2, PlaceStep, IdleIsNowhere DEF On
    <3> QED
      BY <2>2, <3>1, <3>2
  <2> QED
    BY <1>2, <1>3, <2>1, <2>3, <2>4, EndStep
<1> QED
  BY <1>4, <1>5

\* close() begins, goes on once the queues are drained, and returns when every worker is gone.
LEMMA CloseStep ==
    ASSUME IInv, Close \/ Drained \/ Closed
    PROVE  IInv'
<1> USE DEF queues, admission
<1>1. /\ UNCHANGED <<future, late, dispatch, backlog, available, count, caller, awaits, inFlight, recent, known,
                     cancels, provider, worker>>
      /\ phase' \in {"open", "closing", "stopping", "closed"}
      /\ Working' => Working
  BY DEF Close, Drained, Closed, Working
<1>2. /\ Queued' = Queued /\ Inside' = Inside /\ (Yielded' <=> Yielded)
      /\ QueueInv' /\ HandInv' /\ CountInv' /\ PlacesInv' /\ KeyInv'
  BY <1>1, QuietStep
<1>3. FutureInv'
  BY <1>1, <1>2 DEF IInv, FutureInv, Pending
<1>4. TypeOK'
  BY <1>1 DEF IInv, TypeOK
<1>5. AdmittedJobFits'
  BY <1>1 DEF IInv, AdmittedJobFits
<1>6. StageInv'
  <2>1. CASE Close
    BY <2>1 DEF Close, StageInv, Working
  <2>2. CASE Drained
    <3>1. JobsOf(dispatch) = {} /\ JobsOf(backlog) = {}
      BY <2>2, QueuedJobs DEF Drained
    <3>2. /\ dispatch \in Seq(Requests) /\ backlog \in Seq(Requests)
          /\ dispatch # <<>> => 1 \in 1 .. Len(dispatch)
          /\ backlog # <<>> => 1 \in 1 .. Len(backlog)
      BY QueuedType DEF IInv
    <3>3. dispatch = <<>> /\ backlog = <<>>
      BY <3>1, <3>2 DEF JobsOf
    <3> QED
      BY <1>1, <1>2, <2>2, <3>3 DEF Drained, StageInv
  <2>3. CASE Closed
    BY <1>1, <1>2, <2>3 DEF IInv, Closed, StageInv, Working
  <2> QED
    BY <2>1, <2>2, <2>3
<1> QED
  BY <1>2, <1>3, <1>4, <1>5, <1>6 DEF IInv

\* The grace period is over: the queued jobs fail.
LEMMA GraceOverStep ==
    ASSUME IInv, GraceOver
    PROVE  IInv'
<1>1. TypeOK /\ HandInv /\ QueueInv /\ PlacesInv /\ FutureInv /\ KeyInv /\ CountInv
  BY DEF IInv
<1>2. /\ Working /\ Yielded /\ dispatch' = <<>> /\ backlog' = <<>> /\ phase' = "stopping"
      /\ UNCHANGED <<caller, awaits, late, available, recent, known, provider, worker, cancels>>
      /\ future' = [j \in Requests |-> IF j \in Queued /\ Pending(j) THEN "error" ELSE future[j]]
      /\ inFlight' = [s \in Scopes |-> inFlight[s] - Cardinality({j \in Queued : ScopeOf[j] = s})]
  BY DEF GraceOver, Working
<1>3. Queued' = {}
  BY <1>2 DEF Queued
<1>4. QueueInv'
  BY <1>2, EmptyJobs DEF QueueInv, JobsOf
<1>5. Busy' = Busy /\ Held' = Held
  BY <1>2 DEF Busy, Held
<1>6. HandInv'
  BY <1>1, <1>2, <1>3, <1>5 DEF HandInv
<1>7. Inside' = Held /\ Inside' \subseteq Inside /\ Inside \subseteq Requests
  BY <1>1, <1>3, <1>5, InsideType DEF Inside
<1>8. future \in [Requests -> Ends]
  BY <1>1, TypeParts
<1>9. future' \in [Requests -> Ends] /\ \A j \in Requests : Forward(j)
  BY <1>2, <1>8 DEF Forward, Pending, Ends
<1>10. \A j \in Inside \ Inside' : future'[j] # "pending"
  BY <1>2, <1>7 DEF Inside, Pending
<1>11. FutureInv'
  BY <1>1, <1>2, <1>7, <1>9, <1>10, FutureKept
<1>12. KeyInv'
  BY <1>1, <1>2, <1>3, <1>5 DEF KeyInv
<1>13. ~Working' /\ Yielded'
  BY <1>2 DEF Working, Yielded
<1>14. StageInv' /\ CountInv'
  BY <1>2, <1>13 DEF StageInv, CountInv
<1>15. PlacesInv'
  BY <1>1, <1>2, PlacesKept
<1>16. inFlight' \in [Scopes -> Nat]
  <2>1. ASSUME NEW s \in Scopes
        PROVE  inFlight[s] - Cardinality(Scoped(Queued, s)) \in Nat
    <3>1. inFlight[s] = Cardinality(Scoped(Inside, s))
      BY <1>1, <1>2, InScopeIsScoped DEF CountInv
    <3>2. IsFiniteSet(Scoped(Inside, s)) /\ Scoped(Queued, s) \in SUBSET Scoped(Inside, s)
      BY <1>1, FiniteCounts, FS_Subset DEF Scoped, Inside
    <3>3. /\ Cardinality(Scoped(Queued, s)) <= Cardinality(Scoped(Inside, s))
          /\ IsFiniteSet(Scoped(Queued, s))
      BY <3>2, FS_Subset
    <3>4. Cardinality(Scoped(Queued, s)) \in Nat /\ Cardinality(Scoped(Inside, s)) \in Nat
      BY <3>2, <3>3, FS_CardinalityType
    <3> QED
      BY <3>1, <3>3, <3>4
  <2>2. inFlight' = [s \in Scopes |-> inFlight[s] - Cardinality(Scoped(Queued, s))]
    BY <1>2 DEF Scoped
  <2> QED
    BY <2>1, <2>2
<1>17. count' \in [accepted : Nat, active : Nat, reserved : Nat]
  <2> DEFINE n == Len(dispatch) + Len(backlog)
             minus(a) == IF a < n THEN 0 ELSE a - n
  <2>1. n \in Nat /\ count.accepted \in Nat /\ count.active \in Nat
    BY <1>1, QueuedType, TypeParts
  <2>2. count' = [accepted |-> minus(count.accepted), active |-> minus(count.active), reserved |-> 0]
    BY DEF GraceOver
  <2>3. minus(count.accepted) \in Nat /\ minus(count.active) \in Nat
    BY <2>1
  <2> QED
    BY <2>2, <2>3
<1>18. TypeOK'
  <2>1. dispatch' \in Seq(Requests) /\ backlog' \in Seq(Requests)
    BY <1>2
  <2> QED
    BY <1>1, <1>2, <1>9, <1>16, <1>17, <2>1 DEF TypeOK
<1>19. AdmittedJobFits'
  BY <1>2 DEF IInv, AdmittedJobFits
<1> QED
  BY <1>4, <1>6, <1>11, <1>12, <1>14, <1>15, <1>18, <1>19 DEF IInv

-----------------------------------------------------------------------------
(* The theorems. *)

\* Every step of the scheduler keeps the invariant.
LEMMA NextIInv ==
    ASSUME IInv, Next
    PROVE  IInv'
<1>1. CASE \E r \in Requests : Transcribe(r)
  BY <1>1, TranscribeStep
<1>2. CASE \E r \in Requests : Cancel(r)
  BY <1>2, CancelStep
<1>3. CASE \/ \E r \in Requests : DeadlinePasses(r)
           \/ \E p \in Providers : CooldownPasses(p)
           \/ \E s \in Scopes : MinutePasses(s)
  BY <1>3, TimeStep
<1>4. CASE \E w \in Workers : WorkerStep(w)
  BY <1>4, TakeStep, RestStep, TryProviderStep, GiveUpStep, PermitStep, PermitTimeoutStep, CallEndsStep,
     StopStep DEF WorkerStep
<1>5. CASE \E w \in Workers : CallEnds(w)
  BY <1>5, CallEndsStep, FailoverStep DEF CallEnds
<1>6. CASE \E k \in Scopes \X Keys : KeyExpires(k)
  BY <1>6, KeyExpiresStep
<1>7. CASE Close \/ Drained \/ GraceOver \/ Closed
  BY <1>7, CloseStep, GraceOverStep
<1> QED
  BY <1>1, <1>2, <1>3, <1>4, <1>5, <1>6, <1>7 DEF Next

\* A step that changes nothing keeps it too.
LEMMA StutterIInv ==
    ASSUME IInv, UNCHANGED vars
    PROVE  IInv'
<1>1. /\ UNCHANGED <<caller, awaits, future, late, dispatch, backlog, available, count, inFlight,
                     recent, known, provider, worker, phase, cancels>>
      /\ Working' => Working
  BY DEF vars, Working
<1>2. /\ QueueInv' /\ HandInv' /\ CountInv' /\ PlacesInv' /\ FutureInv' /\ StageInv' /\ KeyInv'
  BY <1>1, QuieterStep
<1>3. TypeOK' /\ AdmittedJobFits'
  BY <1>1 DEF IInv, TypeOK, AdmittedJobFits
<1> QED
  BY <1>2, <1>3 DEF IInv

\* What is known of every state of every behaviour.
THEOREM SchedulerInvariant == Spec => []IInv
<1>1. Init => IInv
  BY InitIInv
<1>2. IInv /\ [Next]_vars => IInv'
  BY NextIInv, StutterIInv
<1> QED
  BY <1>1, <1>2, PTL DEF Spec

\* The variables keep their types: no counter goes below zero, although places are given back
\* on every path out of a job.
THEOREM TypeCorrect == Spec => []TypeOK
<1>1. IInv => TypeOK
  BY DEF IInv
<1> QED
  BY <1>1, SchedulerInvariant, PTL

\* The counters are the sizes of what they stand for.
LEMMA CountsFollow ==
    ASSUME IInv
    PROVE  CountsAreExact
<1>1. TypeOK /\ QueueInv /\ HandInv /\ CountInv /\ PlacesInv
  BY DEF IInv
<1>2. Cardinality(Queued) = Len(dispatch) + Len(backlog)
  <2>1. /\ IsFiniteSet(JobsOf(dispatch)) /\ Cardinality(JobsOf(dispatch)) = Len(dispatch)
        /\ IsFiniteSet(JobsOf(backlog)) /\ Cardinality(JobsOf(backlog)) = Len(backlog)
        /\ Len(dispatch) \in Nat /\ Len(backlog) \in Nat
    BY <1>1, QueuedType, DistinctCard DEF QueueInv
  <2>2. JobsOf(dispatch) \cap JobsOf(backlog) = {}
    BY <1>1 DEF QueueInv
  <2> DEFINE S == JobsOf(dispatch)
             T == JobsOf(backlog)
  <2>3. Cardinality(S \cup T) = Cardinality(S) + Cardinality(T) - Cardinality(S \cap T)
    BY <2>1, FS_Union
  <2>4. Cardinality(S \cap T) = 0
    BY <2>2, FS_EmptySet
  <2> QED
    BY <2>1, <2>3, <2>4, QueuedJobs
<1>3. ASSUME NEW s \in Scopes
      PROVE  {j \in Queued \cup {worker[w].job : w \in Busy} : ScopeOf[j] = s} = InScope(s)
  BY DEF InScope, Inside, Held
<1>4. ASSUME NEW p \in Providers
      PROVE  /\ {w \in Busy : worker[w].at = "call" /\ worker[w].on = p} = At(worker, "call", p)
             /\ {w \in Busy : worker[w].at = "permit" /\ worker[w].on = p} = At(worker, "permit", p)
  BY DEF At, Busy
<1> QED
  BY <1>1, <1>2, <1>3, <1>4 DEF CountsAreExact, CountInv, PlacesInv

\* Two workers that call for the same key would both be the one job that is known for it.
LEMMA OneCallFollows ==
    ASSUME IInv
    PROVE  OneCallPerKey
<1> SUFFICES ASSUME NEW v \in Busy, NEW w \in Busy, v # w,
                    {worker[v].at, worker[w].at} = {"call"}, KeyOf[worker[v].job] # NoKey,
                    Slot(worker[v].job) = Slot(worker[w].job)
             PROVE  FALSE
  BY DEF OneCallPerKey
<1>1. worker[v].at = "call" /\ worker[w].at = "call"
  OBVIOUS
<1>2. KeyOf[worker[w].job] # NoKey
  BY DEF Slot
<1>3. /\ known[Slot(worker[v].job)] = worker[v].job
      /\ known[Slot(worker[w].job)] = worker[w].job
  BY <1>1, <1>2 DEF IInv, KeyInv
<1> QED
  BY <1>3 DEF IInv, HandInv

\* Once every worker is gone and nothing is queued, no future waits and no place is taken.
LEMMA CloseFollows ==
    ASSUME IInv
    PROVE  CloseLeavesNobody
<1> SUFFICES ASSUME phase = "closed"
             PROVE  /\ \A r \in Requests : ~Pending(r)
                    /\ \A p \in Providers : provider[p].calls = 0 /\ provider[p].waiting = 0
  BY DEF CloseLeavesNobody
<1>1. /\ dispatch = <<>> /\ backlog = <<>>
      /\ \A w \in Workers : worker[w].at = "gone"
  BY DEF IInv, StageInv, Working
<1>2. Queued = {} /\ Busy = {}
  BY <1>1 DEF Queued, Busy
<1>3. Inside = {}
  BY <1>2 DEF Inside, Held
<1>4. \A p : At(worker, "call", p) = {} /\ At(worker, "permit", p) = {}
  BY <1>1 DEF At
<1> QED
  BY <1>3, <1>4, FS_EmptySet DEF IInv, FutureInv, PlacesInv

\* Every counter that admits, selects or closes is exact while the scheduler works; a job that
\* is admitted fits; two workers never call for the same key; and close() leaves nobody waiting.
THEOREM SpeechIsExactHolds == Spec => []SpeechIsExact
<1>1. IInv => SpeechIsExact
  BY CountsFollow, OneCallFollows, CloseFollows DEF SpeechIsExact, IInv
<1> QED
  BY <1>1, SchedulerInvariant, PTL

-----------------------------------------------------------------------------
(***************************************************************************)
(* The identities of the devices (DeviceSessions).  A credential that is   *)
(* accepted is the secret its enrollment is bound to, and a session is of  *)
(* the latest generation of its family (BearerInv).  A request the client  *)
(* still waits for carries the secret it is trying (AskedInv), and the     *)
(* secret an answer on its way speaks for is still accepted (ProvenInv),   *)
(* so no answer makes the client forget the one that is.                   *)
(***************************************************************************)

DeviceKeys == Sessions!Secrets \cup {-1}
ClientPlaces == {"idle", "enroll", "join", "renew", "pending", "next", "current", "rotate"}

DeviceFams == [id : Nat, user : Nat, secret : DeviceKeys, gen : Nat, revoked : BOOLEAN]
DeviceClients ==
    [vault : {"none", "begun", "confirmed"}, key : DeviceKeys, pend : DeviceKeys, made : Sessions!Secrets,
     tok : Nat \X Nat, at : ClientPlaces]
DeviceRequests ==
    [dev : Devs, op : {"enroll", "join", "renew", "rotate"}, key : DeviceKeys, new : DeviceKeys,
     tok : Nat \X Nat, auth : BOOLEAN, late : BOOLEAN, ans : {"none", "yes", "no"}, got : Nat \X Nat]

\* What a row of the server may say.
BearerInv ==
    /\ fam \in [Devs -> DeviceFams] /\ creds \subseteq Devs \X Sessions!Secrets
    /\ sess \subseteq Nat \X Nat /\ ids \in Nat
    /\ \A d \in Devs : fam[d].id <= ids /\ (fam[d].id = 0 => fam[d] = Sessions!NoFam)
    /\ \A d, e \in Devs : d # e => fam[d].id # fam[e].id \/ fam[d].id = 0
    /\ \A t \in sess : t[1] # 0 /\ t[1] <= ids
    /\ \A t \in sess : \A d \in Devs : fam[d].id # 0 /\ t[1] = fam[d].id => t[2] = fam[d].gen
    /\ \A k \in creds : fam[k[1]].id # 0 /\ ~fam[k[1]].revoked /\ k[2] = fam[k[1]].secret

\* What a request and the client that waits for it say of each other.
Waited(r) ==
    LET c == client[r.dev] IN
    /\ r.op \in {"enroll", "join"} => c.at = r.op /\ r.key = c.key
    /\ r.op = "rotate" => c.at = "rotate" /\ r.new = c.pend
    /\ r.op = "renew" => \/ c.at \in {"renew", "current"} /\ r.key = c.key
                         \/ c.at = "pending" /\ r.key = c.pend
AskedInv ==
    /\ client \in [Devs -> DeviceClients] /\ net \subseteq DeviceRequests
    /\ \A r \in net : /\ r.op = "rotate" => r.new \in Sessions!Secrets
                      /\ r.op \in {"enroll", "join"} => r.key \in Sessions!Secrets
                      /\ ~r.late => Waited(r)
                      /\ r.late => r.ans = "none"
    /\ \A r, s \in net : ~r.late /\ ~s.late /\ r.dev = s.dev => r = s

\* What an answer on its way says of the rows.
ProvenInv ==
    \A r \in net : r.ans = "yes" =>
        <<r.dev, Sessions!Proven(r)>> \in creds \/ r.dev \in gone \cup overtaken

IdentityInv == BearerInv /\ AskedInv /\ ProvenInv /\ Sessions!KeepsAKey

-----------------------------------------------------------------------------
(* The rows. *)

LEMMA IdentityInit ==
    ASSUME Sessions!Init
    PROVE  IdentityInv
<1>1. 0 \in Sessions!Secrets
    BY IdentityBounds DEF Sessions!Secrets
<1>2. BearerInv
    BY DEF Sessions!Init, BearerInv, Sessions!NoFam, Sessions!NoSecret, DeviceFams, DeviceKeys
<1>3. AskedInv
    BY <1>1 DEF Sessions!Init, AskedInv, Sessions!NewClient, Sessions!NoSecret, Sessions!NoTok,
                DeviceClients, DeviceKeys, ClientPlaces
<1>4. Sessions!KeepsAKey /\ ProvenInv
    BY DEF Sessions!Init, Sessions!KeepsAKey, Sessions!NewClient, ProvenInv
<1> QED
    BY <1>2, <1>3, <1>4 DEF IdentityInv

\* A renewal leaves its family with one session, of the new generation.
LEMMA RenewedKeeps ==
    ASSUME BearerInv, NEW d \in Devs, fam[d].id # 0, Sessions!Renewed(d), UNCHANGED <<creds, ids>>
    PROVE  BearerInv' /\ \A e \in Devs : fam'[e].user = fam[e].user
<1>0. /\ fam' = [fam EXCEPT ![d].gen = @ + 1]
      /\ sess' = (sess \ Sessions!OfFamily(fam[d].id, sess)) \cup {<<fam[d].id, fam[d].gen + 1>>}
    BY DEF Sessions!Renewed
<1>1. fam[d] \in DeviceFams /\ fam[d].gen \in Nat /\ fam[d].id \in Nat /\ fam[d].id <= ids
    BY DEF BearerInv, DeviceFams
<1>2. fam'[d] = [fam[d] EXCEPT !.gen = @ + 1] /\ fam'[d] \in DeviceFams
    BY <1>0, <1>1 DEF BearerInv, DeviceFams
<1>3. \A e \in Devs : e # d => fam'[e] = fam[e]
    BY <1>0 DEF BearerInv
<1>4. \A e \in Devs : /\ fam'[e].id = fam[e].id /\ fam'[e].secret = fam[e].secret
                      /\ fam'[e].revoked = fam[e].revoked /\ fam'[e].user = fam[e].user
    BY <1>1, <1>2, <1>3 DEF DeviceFams
<1>5. fam'[d].gen = fam[d].gen + 1
    BY <1>1, <1>2 DEF DeviceFams
<1>6. fam' \in [Devs -> DeviceFams]
    BY <1>0, <1>2, <1>3 DEF BearerInv
<1>7. sess' \subseteq Nat \X Nat
    BY <1>0, <1>1 DEF BearerInv
<1>8. \A t \in sess' : t = <<fam[d].id, fam[d].gen + 1>> \/ (t \in sess /\ t[1] # fam[d].id)
    BY <1>0 DEF Sessions!OfFamily
<1>9. \A e \in Devs : e # d => fam[e].id # fam[d].id \/ fam[e].id = 0
    BY DEF BearerInv
<1>10. \A t \in sess' : t[1] # 0 /\ t[1] <= ids'
    BY <1>1, <1>8 DEF BearerInv
<1>11. \A t \in sess' : \A e \in Devs : fam'[e].id # 0 /\ t[1] = fam'[e].id => t[2] = fam'[e].gen
    <2> SUFFICES ASSUME NEW t \in sess', NEW e \in Devs, fam[e].id # 0, t[1] = fam[e].id
                 PROVE  t[2] = fam'[e].gen
        BY <1>4
    <2>1. CASE t = <<fam[d].id, fam[d].gen + 1>>
        BY <2>1, <1>5, <1>9
    <2>2. CASE t \in sess /\ t[1] # fam[d].id
        BY <2>2, <1>3 DEF BearerInv
    <2> QED
        BY <1>8, <2>1, <2>2
<1>12. \A e \in Devs : fam'[e].id <= ids' /\ (fam'[e].id = 0 => fam'[e] = Sessions!NoFam)
    BY <1>1, <1>3, <1>4 DEF BearerInv
<1>13. \A k \in creds' : fam'[k[1]].id # 0 /\ ~fam'[k[1]].revoked /\ k[2] = fam'[k[1]].secret
    BY <1>4 DEF BearerInv
<1>14. \A a, b \in Devs : a # b => fam'[a].id # fam'[b].id \/ fam'[a].id = 0
    BY <1>4 DEF BearerInv
<1> QED
    BY <1>4, <1>6, <1>7, <1>10, <1>11, <1>12, <1>13, <1>14 DEF BearerInv

\* Sessions and credentials that go leave the rest right.
LEMMA LessKeeps ==
    ASSUME BearerInv, fam' = fam, ids' = ids, creds' \subseteq creds, sess' \subseteq sess
    PROVE  BearerInv'
BY DEF BearerInv

\* A rotation replaces the one credential of its device.
LEMMA RotatedKeeps ==
    ASSUME BearerInv, NEW d \in Devs, NEW k, NEW new \in Sessions!Secrets, Sessions!Accepted(d, k),
           creds' = (creds \ {<<d, k>>}) \cup {<<d, new>>},
           fam' = [fam EXCEPT ![d].secret = new], UNCHANGED <<sess, ids>>
    PROVE  BearerInv' /\ \A e \in Devs : fam'[e].user = fam[e].user
<1>1. <<d, k>> \in creds /\ k = fam[d].secret /\ fam[d].id # 0 /\ ~fam[d].revoked
    BY DEF BearerInv, Sessions!Accepted
<1>2. fam[d] \in DeviceFams /\ new \in DeviceKeys
    BY DEF BearerInv, DeviceKeys
<1>3. fam'[d] = [fam[d] EXCEPT !.secret = new] /\ fam'[d] \in DeviceFams
    BY <1>2 DEF BearerInv, DeviceFams
<1>4. \A e \in Devs : e # d => fam'[e] = fam[e]
    BY DEF BearerInv
<1>5. \A e \in Devs : /\ fam'[e].id = fam[e].id /\ fam'[e].gen = fam[e].gen
                      /\ fam'[e].revoked = fam[e].revoked /\ fam'[e].user = fam[e].user
    BY <1>2, <1>3, <1>4 DEF DeviceFams
<1>6. fam' \in [Devs -> DeviceFams] /\ fam'[d].secret = new
    BY <1>2, <1>3, <1>4 DEF BearerInv, DeviceFams
<1>7. creds' \subseteq Devs \X Sessions!Secrets
    BY DEF BearerInv
<1>8. \A c \in creds' : c = <<d, new>> \/ (c \in creds /\ c[1] # d)
    <2>1. \A c \in creds : c[1] = d => c = <<d, k>>
        BY <1>1 DEF BearerInv
    <2> QED
        BY <2>1
<1>9. \A c \in creds' : fam'[c[1]].id # 0 /\ ~fam'[c[1]].revoked /\ c[2] = fam'[c[1]].secret
    <2>1. ASSUME NEW c \in creds', c = <<d, new>>
          PROVE  fam'[c[1]].id # 0 /\ ~fam'[c[1]].revoked /\ c[2] = fam'[c[1]].secret
        BY <1>1, <1>5, <1>6, <2>1
    <2>2. ASSUME NEW c \in creds', c \in creds, c[1] # d
          PROVE  fam'[c[1]].id # 0 /\ ~fam'[c[1]].revoked /\ c[2] = fam'[c[1]].secret
        BY <1>4, <2>2 DEF BearerInv
    <2> QED
        BY <1>8, <2>1, <2>2
<1>10. \A e \in Devs : fam'[e].id <= ids' /\ (fam'[e].id = 0 => fam'[e] = Sessions!NoFam)
    <2>1. \A e \in Devs : fam[e].id = 0 => e # d /\ fam[e] = Sessions!NoFam
        BY <1>1 DEF BearerInv
    <2>2. \A e \in Devs : fam[e].id <= ids
        BY DEF BearerInv
    <2> QED
        BY <1>4, <1>5, <2>1, <2>2
<1>11. \A t \in sess' : \A e \in Devs : fam'[e].id # 0 /\ t[1] = fam'[e].id => t[2] = fam'[e].gen
    BY <1>5 DEF BearerInv
<1>12. /\ \A a, b \in Devs : a # b => fam'[a].id # fam'[b].id \/ fam'[a].id = 0
       /\ \A t \in sess' : t[1] # 0 /\ t[1] <= ids'
       /\ sess' \subseteq Nat \X Nat /\ ids' \in Nat
    BY <1>5 DEF BearerInv
<1> QED
    BY <1>5, <1>6, <1>7, <1>9, <1>10, <1>11, <1>12 DEF BearerInv

\* A revocation takes everything that is accepted.
LEMMA RevokedKeeps ==
    ASSUME BearerInv, NEW d \in Devs, Sessions!Revokes(d)
    PROVE  BearerInv' /\ \A e \in Devs : fam'[e].user = fam[e].user
<1>0. /\ fam' = [fam EXCEPT ![d].revoked = TRUE] /\ ids' = ids
      /\ sess' \subseteq sess /\ creds' = {k \in creds : k[1] # d} /\ fam[d].id # 0
    BY DEF Sessions!Revokes, Sessions!ValidToken, BearerInv
<1>1. fam[d] \in DeviceFams
    BY DEF BearerInv
<1>2. fam'[d] = [fam[d] EXCEPT !.revoked = TRUE] /\ fam'[d] \in DeviceFams
    BY <1>0, <1>1 DEF BearerInv, DeviceFams
<1>3. \A e \in Devs : e # d => fam'[e] = fam[e]
    BY <1>0 DEF BearerInv
<1>4. \A e \in Devs : /\ fam'[e].id = fam[e].id /\ fam'[e].gen = fam[e].gen
                      /\ fam'[e].secret = fam[e].secret /\ fam'[e].user = fam[e].user
    BY <1>1, <1>2, <1>3 DEF DeviceFams
<1>5. fam' \in [Devs -> DeviceFams]
    BY <1>0, <1>2, <1>3 DEF BearerInv
<1>6. \A e \in Devs : fam'[e].id <= ids' /\ (fam'[e].id = 0 => fam'[e] = Sessions!NoFam)
    <2>1. \A e \in Devs : fam[e].id = 0 => e # d /\ fam[e] = Sessions!NoFam
        BY <1>0 DEF BearerInv
    <2>2. \A e \in Devs : fam[e].id <= ids
        BY DEF BearerInv
    <2> QED
        BY <1>0, <1>3, <1>4, <2>1, <2>2
<1>7. \A a, b \in Devs : a # b => fam'[a].id # fam'[b].id \/ fam'[a].id = 0
    BY <1>4 DEF BearerInv
<1>8. /\ \A t \in sess' : t[1] # 0 /\ t[1] <= ids'
      /\ \A t \in sess' : \A e \in Devs : fam'[e].id # 0 /\ t[1] = fam'[e].id => t[2] = fam'[e].gen
      /\ sess' \subseteq Nat \X Nat /\ ids' \in Nat
    BY <1>0, <1>4 DEF BearerInv
<1>9. /\ creds' \subseteq Devs \X Sessions!Secrets
      /\ \A k \in creds' : fam'[k[1]].id # 0 /\ ~fam'[k[1]].revoked /\ k[2] = fam'[k[1]].secret
    <2>1. \A k \in creds' : k \in creds /\ k[1] \in Devs /\ fam'[k[1]] = fam[k[1]]
        BY <1>0, <1>3 DEF BearerInv
    <2> QED
        BY <1>0, <2>1 DEF BearerInv
<1> QED
    BY <1>4, <1>5, <1>6, <1>7, <1>8, <1>9 DEF BearerInv

\* A new identity gets a number of its own, and the identities that are deleted have nothing left
\* that is accepted.
LEMMA NewKeeps ==
    ASSUME BearerInv, NEW d \in Devs, fam[d].id = 0, NEW user \in Nat, NEW key \in Sessions!Secrets,
           ids' = ids + 1,
           fam' = [Sessions!Kept EXCEPT ![d] =
               [id |-> ids + 1, user |-> user, secret |-> key, gen |-> 0, revoked |-> FALSE]],
           creds' = creds \cup {<<d, key>>}, sess' = sess \cup {<<ids + 1, 0>>}
    PROVE  BearerInv' /\ \A e \in Devs : fam[e].user # 0 /\ fam[e].user \in res => fam'[e].user = fam[e].user
<1> DEFINE new == [id |-> ids + 1, user |-> user, secret |-> key, gen |-> 0, revoked |-> FALSE]
           O == Sessions!Orphans
<1>1. ids \in Nat /\ new \in DeviceFams /\ Sessions!NoFam \in DeviceFams
    BY DEF BearerInv, DeviceFams, DeviceKeys, Sessions!NoFam, Sessions!NoSecret
<1>2. fam' \in [Devs -> DeviceFams] /\ fam'[d] = new
    BY <1>1 DEF BearerInv, Sessions!Kept
<1>3. \A e \in Devs : e # d => fam'[e] = IF e \in O THEN Sessions!NoFam ELSE fam[e]
    BY DEF Sessions!Kept
<1>4. ASSUME NEW e \in O
      PROVE  /\ e \in Devs /\ fam[e].id # 0 /\ fam[e].user \notin res
             /\ \A k \in creds : k[1] # e
             /\ \A t \in sess : t[1] # fam[e].id
    <2>1. e \in Devs /\ fam[e].id # 0 /\ fam[e].user \notin res /\ ~Sessions!IsActive(e)
        BY DEF Sessions!Orphans
    <2>2. Sessions!OfFamily(fam[e].id, sess) = {} /\ \A k \in Sessions!Secrets : ~Sessions!Accepted(e, k)
        BY <2>1 DEF Sessions!IsActive
    <2>3. \A k \in creds : k[1] # e
        <3> SUFFICES ASSUME NEW k \in creds, k[1] = e
                     PROVE  FALSE
            OBVIOUS
        <3>1. k = <<e, k[2]>> /\ k[2] \in Sessions!Secrets /\ ~fam[e].revoked
            BY DEF BearerInv
        <3> QED
            BY <2>2, <3>1 DEF Sessions!Accepted
    <2> QED
        BY <2>1, <2>2, <2>3 DEF Sessions!OfFamily
<1>5. d \notin O
    BY <1>4
<1>6. Sessions!NoFam.id = 0 /\ Sessions!NoFam.user = 0
    BY DEF Sessions!NoFam
<1>7. new.id = ids + 1 /\ new.gen = 0 /\ new.secret = key /\ ~new.revoked
    OBVIOUS
<1> HIDE DEF new, O
<1>8. \A e \in Devs : e # d => fam'[e].id = 0 \/ (fam'[e] = fam[e] /\ e \notin O)
    BY <1>3, <1>6
<1>9. \A e \in Devs : fam[e].id \in Nat /\ fam[e].id <= ids
    BY DEF BearerInv, DeviceFams
<1>10. \A e \in Devs : fam'[e].id <= ids' /\ (fam'[e].id = 0 => fam'[e] = Sessions!NoFam)
    <2>1. \A e \in Devs : fam[e].id = 0 => fam[e] = Sessions!NoFam
        BY DEF BearerInv
    <2>2. fam'[d].id = ids + 1 /\ ids + 1 # 0
        BY <1>1, <1>2, <1>7
    <2>3. ASSUME NEW e \in Devs, e # d
          PROVE  fam'[e].id <= ids' /\ (fam'[e].id = 0 => fam'[e] = Sessions!NoFam)
        BY <1>1, <1>3, <1>6, <1>9, <2>1, <2>3
    <2> QED
        BY <1>1, <2>2, <2>3
<1>11. \A a, b \in Devs : a # b => fam'[a].id # fam'[b].id \/ fam'[a].id = 0
    <2>1. \A a \in Devs : a # d => fam'[a].id # ids + 1
        BY <1>1, <1>8, <1>9
    <2>2. \A a, b \in Devs : a # b /\ a # d /\ b # d => fam'[a].id # fam'[b].id \/ fam'[a].id = 0
        BY <1>8 DEF BearerInv
    <2> QED
        BY <1>2, <1>7, <2>1, <2>2
<1>12. /\ \A t \in sess' : t[1] # 0 /\ t[1] <= ids'
       /\ sess' \subseteq Nat \X Nat /\ ids' \in Nat
    <2>1. \A t \in sess : t[1] # 0 /\ t[1] <= ids /\ t[1] \in Nat
        BY DEF BearerInv
    <2>2. \A t \in sess' : t \in sess \/ t = <<ids + 1, 0>>
        OBVIOUS
    <2>3. sess' \subseteq Nat \X Nat /\ ids' \in Nat
        BY <1>1 DEF BearerInv
    <2> QED
        BY <1>1, <2>1, <2>2, <2>3
<1>13. \A t \in sess' : \A e \in Devs : fam'[e].id # 0 /\ t[1] = fam'[e].id => t[2] = fam'[e].gen
    <2> SUFFICES ASSUME NEW t \in sess', NEW e \in Devs, fam'[e].id # 0, t[1] = fam'[e].id
                 PROVE  t[2] = fam'[e].gen
        OBVIOUS
    <2>1. CASE e = d
        <3>1. t \notin sess
            BY <1>1, <1>2, <1>7, <2>1 DEF BearerInv
        <3> QED
            BY <1>2, <1>7, <2>1, <3>1
    <2>2. CASE e # d
        <3>1. fam'[e] = fam[e]
            BY <1>8, <2>2
        <3>2. t \in sess
            BY <1>1, <1>9, <3>1
        <3> QED
            BY <3>1, <3>2 DEF BearerInv
    <2> QED
        BY <2>1, <2>2
<1>14. /\ creds' \subseteq Devs \X Sessions!Secrets
       /\ \A k \in creds' : fam'[k[1]].id # 0 /\ ~fam'[k[1]].revoked /\ k[2] = fam'[k[1]].secret
    <2>1. \A k \in creds : k[1] \in Devs /\ k[1] # d /\ k[1] \notin O
        BY <1>4 DEF BearerInv, O
    <2>2. \A k \in creds : fam'[k[1]] = fam[k[1]]
        BY <1>3, <2>1
    <2>3. \A k \in creds : fam'[k[1]].id # 0 /\ ~fam'[k[1]].revoked /\ k[2] = fam'[k[1]].secret
        BY <2>2 DEF BearerInv
    <2>4. fam'[d].id # 0 /\ ~fam'[d].revoked /\ key = fam'[d].secret
        BY <1>1, <1>2, <1>7
    <2>5. \A k \in creds' : k \in creds \/ k = <<d, key>>
        OBVIOUS
    <2>6. creds' \subseteq Devs \X Sessions!Secrets
        BY DEF BearerInv
    <2> QED
        BY <2>3, <2>4, <2>5, <2>6
<1>15. ASSUME NEW e \in Devs, fam[e].user # 0, fam[e].user \in res
       PROVE  fam'[e].user = fam[e].user
    <2>1. e # d
        BY <1>6, <1>15 DEF BearerInv
    <2>2. e \notin O
        BY <1>4, <1>15 DEF O
    <2> QED
        BY <1>3, <2>1, <2>2
<1> QED
    BY <1>2, <1>10, <1>11, <1>12, <1>13, <1>14, <1>15 DEF BearerInv

-----------------------------------------------------------------------------
(* The requests. *)

\* A client that is not waiting for an answer has no request out.
LEMMA NoRequestWaits ==
    ASSUME AskedInv, NEW d \in Devs, client[d].at \in {"idle", "next"}
    PROVE  \A r \in net : r.dev = d => r.late
<1> SUFFICES ASSUME NEW r \in net, r.dev = d, ~r.late
             PROVE  FALSE
    BY DEF AskedInv, DeviceRequests
<1>1. Waited(r) /\ r.op \in {"enroll", "join", "renew", "rotate"}
    BY DEF AskedInv, DeviceRequests
<1> QED
    BY <1>1 DEF Waited

\* The client sends a request.
LEMMA SendsKeeps ==
    ASSUME AskedInv, NEW d \in Devs, client[d].at \in {"idle", "next"},
           NEW r \in DeviceRequests, r.dev = d, ~r.late, r.ans = "none", NEW c \in DeviceClients,
           r.op = "rotate" => r.new \in Sessions!Secrets,
           r.op \in {"enroll", "join"} => r.key \in Sessions!Secrets /\ c.at = r.op /\ r.key = c.key,
           r.op = "rotate" => c.at = "rotate" /\ r.new = c.pend,
           r.op = "renew" => \/ c.at \in {"renew", "current"} /\ r.key = c.key
                             \/ c.at = "pending" /\ r.key = c.pend,
           net' = net \cup {r}, client' = [client EXCEPT ![d] = c]
    PROVE  AskedInv'
<1>1. \A s \in net : s.dev = d => s.late
    BY NoRequestWaits
<1>2. /\ client' \in [Devs -> DeviceClients] /\ client'[d] = c
      /\ \A e \in Devs : e # d => client'[e] = client[e]
    BY DEF AskedInv
<1>3. net' \subseteq DeviceRequests
    BY DEF AskedInv
<1>4. Waited(r)'
    BY <1>2 DEF Waited
<1>5. \A s \in net : s.dev \in Devs /\ (~s.late => s.dev # d /\ Waited(s)')
    <2>1. \A s \in net : s.dev \in Devs /\ (~s.late => s.dev # d /\ Waited(s))
        BY <1>1 DEF AskedInv, DeviceRequests
    <2> QED
        BY <1>2, <2>1 DEF Waited
<1>6. \A s \in net' : s = r \/ s \in net
    OBVIOUS
<1>7. \A s \in net' : /\ s.op = "rotate" => s.new \in Sessions!Secrets
                      /\ s.op \in {"enroll", "join"} => s.key \in Sessions!Secrets
                      /\ ~s.late => Waited(s)'
                      /\ s.late => s.ans = "none"
    BY <1>4, <1>5, <1>6 DEF AskedInv
<1>8. \A s, u \in net' : ~s.late /\ ~u.late /\ s.dev = u.dev => s = u
    BY <1>5, <1>6 DEF AskedInv
<1> QED
    BY <1>2, <1>3, <1>7, <1>8 DEF AskedInv

\* The client has the answer it waited for and goes on.
LEMMA AnswerKeeps ==
    ASSUME AskedInv, NEW r \in net, ~r.late, NEW c \in DeviceClients, net' = net \ {r},
           client' = [client EXCEPT ![r.dev] = c]
    PROVE  AskedInv'
<1>1. r \in DeviceRequests /\ r.dev \in Devs
    BY DEF AskedInv, DeviceRequests
<1>2. client' \in [Devs -> DeviceClients]
    BY <1>1 DEF AskedInv
<1>3. \A s \in net' : s \in net /\ s # r /\ s.dev \in Devs
    BY DEF AskedInv, DeviceRequests
<1>4. \A s \in net' : ~s.late => client'[s.dev] = client[s.dev]
    BY <1>1, <1>3 DEF AskedInv
<1>5. \A s \in net' : ~s.late => Waited(s)'
    <2>1. \A s \in net' : ~s.late => Waited(s)
        BY <1>3 DEF AskedInv
    <2> QED
        BY <1>4, <2>1 DEF Waited
<1> QED
    BY <1>2, <1>3, <1>5 DEF AskedInv

\* The server answers a request: whoever waits for it still does.
LEMMA AnsweredKeeps ==
    ASSUME AskedInv, NEW r \in net, NEW ans \in {"yes", "no"}, NEW tok \in Nat \X Nat,
           Sessions!Answers(r, ans, tok), client' = client
    PROVE  /\ AskedInv'
           /\ \A s \in net' : s.ans = "yes" =>
                  \/ s \in net /\ s # r
                  \/ s.dev = r.dev /\ Sessions!Proven(s) = Sessions!Proven(r) /\ ans = "yes"
<1> DEFINE a == [r EXCEPT !.ans = ans, !.got = tok]
<1>1. net' = (net \ {r}) \cup (IF r.late THEN {} ELSE {a})
    BY DEF Sessions!Answers
<1>2. r \in DeviceRequests
    BY DEF AskedInv
<1>3. /\ a \in DeviceRequests /\ a.dev = r.dev /\ a.op = r.op /\ a.key = r.key /\ a.new = r.new
      /\ a.late = r.late /\ a.ans = ans
    BY <1>2 DEF DeviceRequests
<1> HIDE DEF a
<1>4. \A s \in net' : (s \in net /\ s # r) \/ (s = a /\ ~r.late)
    BY <1>1
<1>5. client' \in [Devs -> DeviceClients] /\ net' \subseteq DeviceRequests
    BY <1>3, <1>4 DEF AskedInv
<1>6. \A s \in net' : /\ s.op = "rotate" => s.new \in Sessions!Secrets
                      /\ s.op \in {"enroll", "join"} => s.key \in Sessions!Secrets
                      /\ ~s.late => Waited(s)'
                      /\ s.late => s.ans = "none"
    <2>1. \A s \in net : /\ s.op = "rotate" => s.new \in Sessions!Secrets
                         /\ s.op \in {"enroll", "join"} => s.key \in Sessions!Secrets
                         /\ ~s.late => Waited(s)'
                         /\ s.late => s.ans = "none"
        BY DEF AskedInv, Waited
    <2>2. Waited(r)' => Waited(a)'
        BY <1>3 DEF Waited
    <2> QED
        BY <1>3, <1>4, <2>1, <2>2
<1>7. \A s, u \in net' : ~s.late /\ ~u.late /\ s.dev = u.dev => s = u
    BY <1>3, <1>4 DEF AskedInv
<1>8. Sessions!Proven(a) = Sessions!Proven(r)
    BY <1>3 DEF Sessions!Proven
<1> QED
    BY <1>3, <1>4, <1>5, <1>6, <1>7, <1>8 DEF AskedInv

\* Requests the client has given up say nothing of it.
LEMMA LateKeeps ==
    ASSUME AskedInv, NEW d \in Devs, NEW c \in DeviceClients, client' = [client EXCEPT ![d] = c],
           net' \subseteq DeviceRequests,
           \A s \in net' : s.dev = d => s.late,
           \A s \in net' : s \in net \/ \E r \in net : r.ans = "none" /\ s = [r EXCEPT !.late = TRUE]
    PROVE  AskedInv' /\ \A s \in net' : s.ans = "yes" => s \in net
<1>1. /\ client' \in [Devs -> DeviceClients]
      /\ \A e \in Devs : e # d => client'[e] = client[e]
    BY DEF AskedInv
<1>2. ASSUME NEW s \in net'
      PROVE  /\ s.op = "rotate" => s.new \in Sessions!Secrets
             /\ s.op \in {"enroll", "join"} => s.key \in Sessions!Secrets
             /\ ~s.late => s \in net /\ s.dev # d /\ s.dev \in Devs
             /\ s.late => s.ans = "none"
             /\ s.ans = "yes" => s \in net
    <2>1. CASE s \in net
        BY <2>1 DEF AskedInv, DeviceRequests
    <2>2. ASSUME NEW r \in net, r.ans = "none", s = [r EXCEPT !.late = TRUE]
          PROVE  /\ s.op = "rotate" => s.new \in Sessions!Secrets
                 /\ s.op \in {"enroll", "join"} => s.key \in Sessions!Secrets
                 /\ s.late /\ s.ans = "none"
        <3>1. r \in DeviceRequests
            BY DEF AskedInv
        <3>2. s.op = r.op /\ s.new = r.new /\ s.key = r.key /\ s.late /\ s.ans = "none"
            BY <2>2, <3>1 DEF DeviceRequests
        <3> QED
            BY <3>2 DEF AskedInv
    <2> QED
        BY <2>1, <2>2
<1>3. \A s \in net' : ~s.late => Waited(s)'
    <2>1. \A s \in net' : ~s.late => Waited(s)
        BY <1>2 DEF AskedInv
    <2> QED
        BY <1>1, <1>2, <2>1 DEF Waited
<1>4. \A s, u \in net' : ~s.late /\ ~u.late /\ s.dev = u.dev => s = u
    BY <1>2 DEF AskedInv
<1> QED
    BY <1>1, <1>2, <1>3, <1>4 DEF AskedInv

\* Answers on their way stay true while no credential goes but for a cause.
LEMMA ProvenKeeps ==
    ASSUME ProvenInv, \A s \in net' : s.ans = "yes" => s \in net,
           gone \subseteq gone', overtaken' = overtaken, \A k \in creds \ creds' : k[1] \in gone'
    PROVE  ProvenInv'
<1> SUFFICES ASSUME NEW s \in net', s.ans = "yes"
             PROVE  <<s.dev, Sessions!Proven(s)>> \in creds' \/ s.dev \in gone' \cup overtaken'
    BY DEF ProvenInv, Sessions!Proven
<1>1. <<s.dev, Sessions!Proven(s)>> \in creds \/ s.dev \in gone \cup overtaken
    BY DEF ProvenInv
<1> QED
    BY <1>1

LEMMA ToldIs ==
    ASSUME NEW c \in DeviceClients, NEW t \in Nat \X Nat
    PROVE  /\ Sessions!Told(c, t) \in DeviceClients /\ Sessions!Untold(c) \in DeviceClients
           /\ Sessions!Untold(c).vault = c.vault /\ Sessions!Untold(c).key = c.key
           /\ Sessions!Untold(c).pend = c.pend
           /\ c.at \in {"enroll", "join", "renew", "current"} => Sessions!Told(c, t).key = c.key
           /\ c.at \in {"rotate", "pending"} => Sessions!Told(c, t).key = c.pend
<1>1. -1 \in DeviceKeys /\ "idle" \in ClientPlaces /\ "next" \in ClientPlaces
    BY DEF DeviceKeys, ClientPlaces
<1>2. Sessions!Untold(c) \in DeviceClients
    BY <1>1 DEF Sessions!Untold, DeviceClients
<1>3. /\ Sessions!Untold(c).vault = c.vault /\ Sessions!Untold(c).key = c.key
      /\ Sessions!Untold(c).pend = c.pend
    BY DEF Sessions!Untold, DeviceClients
<1>4. CASE c.at \in {"enroll", "join"}
    <2>1. Sessions!Told(c, t) = [c EXCEPT !.vault = "confirmed", !.tok = t, !.at = "idle"]
        BY <1>4 DEF Sessions!Told
    <2> QED
        BY <1>1, <1>2, <1>3, <1>4, <2>1 DEF DeviceClients
<1>5. CASE c.at \in {"rotate", "pending"}
    <2>1. Sessions!Told(c, t) = [c EXCEPT !.key = c.pend, !.pend = -1, !.tok = t, !.at = "idle"]
        BY <1>5 DEF Sessions!Told, Sessions!NoSecret
    <2> QED
        BY <1>1, <1>2, <1>3, <1>5, <2>1 DEF DeviceClients
<1>6. CASE c.at = "current"
    <2>1. Sessions!Told(c, t) = [c EXCEPT !.pend = -1, !.tok = t, !.at = "idle"]
        BY <1>6 DEF Sessions!Told, Sessions!NoSecret
    <2> QED
        BY <1>1, <1>2, <1>3, <1>6, <2>1 DEF DeviceClients
<1>7. CASE c.at \notin {"enroll", "join", "rotate", "pending", "current"}
    <2>1. Sessions!Told(c, t) = [c EXCEPT !.tok = t, !.at = "idle"]
        BY <1>7 DEF Sessions!Told
    <2> QED
        BY <1>1, <1>2, <1>3, <1>7, <2>1 DEF DeviceClients
<1> QED
    BY <1>4, <1>5, <1>6, <1>7

-----------------------------------------------------------------------------
(* The client and its secrets. *)

\* A client that keeps its secrets, or takes one that is accepted.
LEMMA KeyKeeps ==
    ASSUME IdentityInv, NEW d \in Devs, NEW c \in DeviceClients,
           client' = client \/ client' = [client EXCEPT ![d] = c],
           creds \subseteq creds', gone' = gone, overtaken' = overtaken,
           c.vault = "confirmed" =>
               \/ client[d].vault = "confirmed" /\ c.key = client[d].key
                  /\ (c.pend = client[d].pend \/ client[d].pend = -1)
               \/ <<d, c.key>> \in creds' \/ d \in gone \cup overtaken
    PROVE  Sessions!KeepsAKey'
<1>1. \A e \in Devs : <<e, -1>> \notin creds
    BY DEF IdentityInv, BearerInv, Sessions!Secrets
<1>2. \A e \in Devs : client'[e] = client[e] \/ (e = d /\ client'[e] = c)
    BY DEF IdentityInv, AskedInv
<1> SUFFICES ASSUME NEW e \in Devs, client'[e].vault = "confirmed", e \notin gone' \cup overtaken'
             PROVE  <<e, client'[e].key>> \in creds' \/ <<e, client'[e].pend>> \in creds'
    BY DEF Sessions!KeepsAKey
<1>3. client[e].vault = "confirmed" => <<e, client[e].key>> \in creds \/ <<e, client[e].pend>> \in creds
    BY DEF IdentityInv, Sessions!KeepsAKey
<1>4. CASE client'[e] = client[e]
    BY <1>3, <1>4
<1>5. CASE e = d /\ client'[e] = c
    BY <1>1, <1>3, <1>5
<1> QED
    BY <1>2, <1>4, <1>5

\* What the rows say of no request.
LEMMA ServerRests ==
    ASSUME BearerInv, UNCHANGED <<fam, creds, sess, ids>>
    PROVE  BearerInv' /\ Sessions!IdentityKept
<1>1. BearerInv'
    BY LessKeeps
<1> QED
    BY <1>1 DEF Sessions!IdentityKept

LEMMA SendingKeeps ==
    ASSUME IdentityInv, NEW d \in Devs, client[d].at \in {"idle", "next"},
           NEW r \in DeviceRequests, r.dev = d, ~r.late, r.ans = "none", NEW c \in DeviceClients,
           r.op = "rotate" => r.new \in Sessions!Secrets,
           r.op \in {"enroll", "join"} => r.key \in Sessions!Secrets /\ c.at = r.op /\ r.key = c.key,
           r.op = "rotate" => c.at = "rotate" /\ r.new = c.pend,
           r.op = "renew" => \/ c.at \in {"renew", "current"} /\ r.key = c.key
                             \/ c.at = "pending" /\ r.key = c.pend,
           c.vault = "confirmed" =>
               /\ client[d].vault = "confirmed" /\ c.key = client[d].key
               /\ c.pend = client[d].pend \/ client[d].pend = -1,
           Sessions!Sends(d, r, c)
    PROVE  IdentityInv' /\ Sessions!IdentityKept
<1>1. /\ net' = net \cup {r} /\ client' = [client EXCEPT ![d] = c]
      /\ UNCHANGED <<fam, creds, sess, ids>> /\ gone' = gone /\ overtaken' = overtaken
    BY DEF Sessions!Sends
<1>2. AskedInv'
    BY <1>1, SendsKeeps DEF IdentityInv
<1>3. Sessions!KeepsAKey'
    BY <1>1, KeyKeeps
<1>4. BearerInv' /\ Sessions!IdentityKept
    BY <1>1, ServerRests DEF IdentityInv
<1>5. ProvenInv'
    BY <1>1, ProvenKeeps DEF IdentityInv
<1> QED
    BY <1>2, <1>3, <1>4, <1>5 DEF IdentityInv

\* The client takes an answer: what it then holds is accepted, or it is told of no other secret.
LEMMA ReceiveKeeps ==
    ASSUME IdentityInv, NEW r \in net, Sessions!Receive(r)
    PROVE  IdentityInv' /\ Sessions!IdentityKept
<1> DEFINE t == IF r.op = "rotate" THEN client[r.dev].tok ELSE r.got
           c == IF r.ans = "no" THEN Sessions!Untold(client[r.dev]) ELSE Sessions!Told(client[r.dev], t)
<1>1. /\ r \in DeviceRequests /\ r.dev \in Devs /\ client[r.dev] \in DeviceClients
      /\ r.op \in {"enroll", "join", "renew", "rotate"} /\ t \in Nat \X Nat
    BY DEF IdentityInv, AskedInv, DeviceRequests, DeviceClients
<1>2. r.ans \in {"yes", "no"} /\ ~r.late /\ Waited(r)
    BY <1>1 DEF Sessions!Receive, IdentityInv, AskedInv, DeviceRequests
<1>3. /\ net' = net \ {r} /\ client' = [client EXCEPT ![r.dev] = c]
      /\ UNCHANGED <<fam, creds, sess, ids>> /\ gone' = gone /\ overtaken' = overtaken
    BY <1>1 DEF Sessions!Receive, IdentityInv, AskedInv
<1> DEFINE told == Sessions!Told(client[r.dev], t)
           untold == Sessions!Untold(client[r.dev])
<1>4. /\ told \in DeviceClients /\ untold \in DeviceClients
      /\ untold.vault = client[r.dev].vault /\ untold.key = client[r.dev].key
      /\ untold.pend = client[r.dev].pend
      /\ client[r.dev].at \in {"enroll", "join", "renew", "current"} => told.key = client[r.dev].key
      /\ client[r.dev].at \in {"rotate", "pending"} => told.key = client[r.dev].pend
    BY <1>1, ToldIs
<1>5. c = IF r.ans = "no" THEN untold ELSE told
    OBVIOUS
<1> HIDE DEF c, t, told, untold
<1>6. AskedInv'
    BY <1>2, <1>3, <1>4, <1>5, AnswerKeeps DEF IdentityInv
<1>7. ProvenInv'
    BY <1>3, ProvenKeeps DEF IdentityInv
<1>8. told.key = Sessions!Proven(r)
    BY <1>1, <1>2, <1>4 DEF Waited, Sessions!Proven
<1>9. r.ans = "yes" => <<r.dev, told.key>> \in creds \/ r.dev \in gone \cup overtaken
    BY <1>8 DEF IdentityInv, ProvenInv
<1>10. c \in DeviceClients
    BY <1>4, <1>5
<1>11. c.vault = "confirmed" =>
           \/ client[r.dev].vault = "confirmed" /\ c.key = client[r.dev].key
              /\ (c.pend = client[r.dev].pend \/ client[r.dev].pend = -1)
           \/ <<r.dev, c.key>> \in creds' \/ r.dev \in gone \cup overtaken
    BY <1>2, <1>3, <1>4, <1>5, <1>9
<1>12. Sessions!KeepsAKey'
    BY <1>1, <1>3, <1>10, <1>11, KeyKeeps
<1> QED
    BY <1>3, <1>6, <1>7, <1>12, ServerRests DEF IdentityInv

LEMMA ClientKeeps ==
    ASSUME IdentityInv, NEW d \in Devs, Sessions!ClientStep(d) \/ Sessions!Rotate(d) \/ \E e \in Devs : Sessions!Join(d, e)
    PROVE  IdentityInv' /\ Sessions!IdentityKept
<1> DEFINE c == client[d]
<1>0. c \in DeviceClients /\ 0 \in Sessions!Secrets /\ -1 \in DeviceKeys /\ Sessions!NoTok \in Nat \X Nat
    BY IdentityBounds DEF IdentityInv, AskedInv, Sessions!Secrets, DeviceKeys, Sessions!NoTok
<1>a. Sessions!Secrets \subseteq DeviceKeys /\ Sessions!NoSecret = -1
    BY DEF DeviceKeys, Sessions!NoSecret
<1>b. /\ c.vault \in {"none", "begun", "confirmed"} /\ c.key \in DeviceKeys /\ c.pend \in DeviceKeys
      /\ c.made \in Sessions!Secrets /\ c.tok \in Nat \X Nat /\ c.at \in ClientPlaces
    BY <1>0 DEF DeviceClients
<1>c. \A op \in {"enroll", "join", "renew", "rotate"}, key \in DeviceKeys, new \in DeviceKeys, tok \in Nat \X Nat :
          LET r == Sessions!Request(d, op, key, new, tok) IN
          /\ r \in DeviceRequests /\ r.dev = d /\ r.op = op /\ r.key = key /\ r.new = new /\ ~r.late
          /\ r.ans = "none"
    BY <1>0 DEF Sessions!Request, DeviceRequests
<1>1. CASE Sessions!Enroll(d)
    <2> DEFINE r == Sessions!Request(d, "enroll", 0, Sessions!NoSecret, Sessions!NoTok)
               n == [c EXCEPT !.vault = "begun", !.key = 0, !.at = "enroll"]
    <2>1. c.at = "idle" /\ Sessions!Sends(d, r, n)
        BY <1>1 DEF Sessions!Enroll
    <2>2. r \in DeviceRequests /\ r.dev = d /\ r.op = "enroll" /\ r.key = 0 /\ ~r.late /\ r.ans = "none"
        BY <1>0, <1>a, <1>c
    <2>3. n \in DeviceClients /\ n.at = "enroll" /\ n.key = 0 /\ n.vault = "begun"
        BY <1>0, <1>a, <1>b DEF DeviceClients, ClientPlaces
    <2> HIDE DEF r, n
    <2> QED
        BY <1>0, <2>1, <2>2, <2>3, SendingKeeps
<1>2. CASE \E e \in Devs : Sessions!Join(d, e)
    <2>0. PICK e \in Devs : Sessions!Join(d, e)
        BY <1>2
    <2> DEFINE r == Sessions!Request(d, "join", 0, client[e].key, client[e].tok)
               n == [c EXCEPT !.vault = "begun", !.key = 0, !.at = "join"]
    <2>1. c.at = "idle" /\ Sessions!Sends(d, r, n)
        BY <2>0 DEF Sessions!Join
    <2>2. client[e].key \in DeviceKeys /\ client[e].tok \in Nat \X Nat
        BY DEF IdentityInv, AskedInv, DeviceClients
    <2>3. r \in DeviceRequests /\ r.dev = d /\ r.op = "join" /\ r.key = 0 /\ ~r.late /\ r.ans = "none"
        BY <1>0, <1>a, <1>c, <2>2
    <2>4. n \in DeviceClients /\ n.at = "join" /\ n.key = 0 /\ n.vault = "begun"
        BY <1>0, <1>a, <1>b DEF DeviceClients, ClientPlaces
    <2> HIDE DEF r, n
    <2> QED
        BY <1>0, <2>1, <2>3, <2>4, SendingKeeps
<1>3. ASSUME NEW key \in DeviceKeys, NEW place \in {"renew", "current", "pending"},
             c.at \in {"idle", "next"}, key = IF place = "pending" THEN c.pend ELSE c.key,
             Sessions!Sends(d, Sessions!Request(d, "renew", key, Sessions!NoSecret, Sessions!NoTok),
                            [c EXCEPT !.at = place])
      PROVE  IdentityInv' /\ Sessions!IdentityKept
    <2> DEFINE r == Sessions!Request(d, "renew", key, Sessions!NoSecret, Sessions!NoTok)
               n == [c EXCEPT !.at = place]
    <2>1. r \in DeviceRequests /\ r.dev = d /\ r.op = "renew" /\ r.key = key /\ ~r.late /\ r.ans = "none"
        BY <1>0, <1>a, <1>c
    <2>2. n \in DeviceClients /\ n.at = place /\ n.key = c.key /\ n.pend = c.pend /\ n.vault = c.vault
        BY <1>0, <1>b DEF DeviceClients, ClientPlaces
    <2>3. Sessions!Sends(d, r, n)
        BY <1>3
    <2> HIDE DEF r, n
    <2> QED
        BY <1>3, <2>1, <2>2, <2>3, SendingKeeps
<1>4. CASE Sessions!Renew(d)
    BY <1>3, <1>4, <1>b DEF Sessions!Renew
<1>5. CASE Sessions!TryPending(d)
    BY <1>3, <1>5, <1>b DEF Sessions!TryPending
<1>6. CASE Sessions!TryCurrent(d)
    BY <1>3, <1>6, <1>b DEF Sessions!TryCurrent
<1>7. CASE Sessions!Rotate(d)
    <2> DEFINE r == Sessions!Request(d, "rotate", c.key, c.made + 1, c.tok)
               n == [c EXCEPT !.pend = c.made + 1, !.made = @ + 1, !.at = "rotate"]
    <2>1. c.at = "idle" /\ c.pend = -1 /\ c.vault = "confirmed" /\ c.made < MaxKey /\ Sessions!Sends(d, r, n)
        BY <1>7, <1>a DEF Sessions!Rotate
    <2>2. c.made + 1 \in Sessions!Secrets
        BY <1>b, <2>1, IdentityBounds DEF Sessions!Secrets
    <2>3. r \in DeviceRequests /\ r.dev = d /\ r.op = "rotate" /\ r.new = c.made + 1 /\ ~r.late /\ r.ans = "none"
        BY <1>a, <1>b, <1>c, <2>2
    <2>4. /\ n \in DeviceClients /\ n.at = "rotate" /\ n.pend = c.made + 1 /\ n.key = c.key
          /\ n.vault = c.vault
        BY <1>0, <1>a, <1>b, <2>2 DEF DeviceClients, ClientPlaces
    <2> HIDE DEF r, n
    <2> QED
        BY <2>1, <2>2, <2>3, <2>4, SendingKeeps
<1>8. CASE Sessions!TokenRefused(d)
    <2> DEFINE n == [c EXCEPT !.tok = Sessions!NoTok]
    <2>1. /\ c.at = "idle" /\ client' = [client EXCEPT ![d] = n] /\ net' = net
          /\ UNCHANGED <<fam, creds, sess, ids>> /\ gone' = gone /\ overtaken' = overtaken
        BY <1>8 DEF Sessions!TokenRefused, IdentityInv, AskedInv
    <2>2. n \in DeviceClients /\ n.vault = c.vault /\ n.key = c.key /\ n.pend = c.pend
        BY <1>0, <1>b DEF DeviceClients
    <2> HIDE DEF n
    <2>3. \A s \in net : s.dev = d => s.late
        BY <2>1, NoRequestWaits DEF IdentityInv
    <2>4. net' \subseteq DeviceRequests
        BY <2>1 DEF IdentityInv, AskedInv
    <2>5. AskedInv'
        BY <2>1, <2>2, <2>3, <2>4, LateKeeps DEF IdentityInv
    <2>6. Sessions!KeepsAKey'
        BY <2>1, <2>2, KeyKeeps
    <2>7. ProvenInv'
        BY <2>1, ProvenKeeps DEF IdentityInv
    <2> QED
        BY <2>1, <2>5, <2>6, <2>7, ServerRests DEF IdentityInv
<1>9. CASE \E r \in net : r.dev = d /\ Sessions!Receive(r)
    BY <1>9, ReceiveKeeps
<1> QED
    BY <1>1, <1>2, <1>4, <1>5, <1>6, <1>7, <1>8, <1>9 DEF Sessions!ClientStep

-----------------------------------------------------------------------------
(* The server. *)

\* The server answers and takes no credential away; a success speaks for one that is accepted.
LEMMA ServedKeeps ==
    ASSUME IdentityInv, NEW r \in net, NEW ans \in {"yes", "no"}, NEW tok \in Nat \X Nat,
           Sessions!Answers(r, ans, tok), client' = client, creds \subseteq creds',
           gone' = gone, overtaken' = overtaken,
           ans = "yes" => <<r.dev, Sessions!Proven(r)>> \in creds'
    PROVE  AskedInv' /\ ProvenInv' /\ Sessions!KeepsAKey'
<1>1. /\ AskedInv'
      /\ \A s \in net' : s.ans = "yes" =>
             \/ s \in net /\ s # r
             \/ s.dev = r.dev /\ Sessions!Proven(s) = Sessions!Proven(r) /\ ans = "yes"
    BY AnsweredKeeps DEF IdentityInv
<1>2. ProvenInv'
    <2> SUFFICES ASSUME NEW s \in net', s.ans = "yes"
                 PROVE  <<s.dev, Sessions!Proven(s)>> \in creds' \/ s.dev \in gone' \cup overtaken'
        BY DEF ProvenInv, Sessions!Proven
    <2>1. CASE s \in net
        BY <2>1 DEF IdentityInv, ProvenInv
    <2>2. CASE s.dev = r.dev /\ Sessions!Proven(s) = Sessions!Proven(r) /\ ans = "yes"
        BY <2>2
    <2> QED
        BY <1>1, <2>1, <2>2
<1>3. Sessions!KeepsAKey'
    BY DEF IdentityInv, Sessions!KeepsAKey
<1> QED
    BY <1>1, <1>2, <1>3

LEMMA RefuseKeeps ==
    ASSUME IdentityInv, NEW r \in net, Sessions!Refuse(r)
    PROVE  IdentityInv' /\ Sessions!IdentityKept
<1>1. /\ Sessions!Answers(r, "no", Sessions!NoTok) /\ client' = client
      /\ UNCHANGED <<fam, creds, sess, ids>> /\ gone' = gone /\ overtaken' = overtaken
    BY DEF Sessions!Refuse
<1>2. Sessions!NoTok \in Nat \X Nat
    BY DEF Sessions!NoTok
<1>3. AskedInv' /\ ProvenInv' /\ Sessions!KeepsAKey'
    BY <1>1, <1>2, ServedKeeps
<1> QED
    BY <1>1, <1>3, ServerRests DEF IdentityInv

\* A session is renewed for a secret that is accepted.
LEMMA RenewingKeeps ==
    ASSUME IdentityInv, NEW r \in net, r.op # "rotate", Sessions!Accepted(r.dev, r.key),
           Sessions!Renewed(r.dev),
           Sessions!Answers(r, "yes", <<fam[r.dev].id, fam[r.dev].gen + 1>>),
           creds' = creds, ids' = ids, client' = client, gone' = gone, overtaken' = overtaken
    PROVE  IdentityInv' /\ Sessions!IdentityKept
<1>1. r.dev \in Devs /\ <<r.dev, r.key>> \in creds /\ Sessions!Proven(r) = r.key
    BY DEF Sessions!Accepted, IdentityInv, AskedInv, DeviceRequests, Sessions!Proven
<1>2. fam[r.dev].id # 0 /\ fam[r.dev].id \in Nat /\ fam[r.dev].gen \in Nat
    BY <1>1 DEF IdentityInv, BearerInv, DeviceFams
<1>3. BearerInv' /\ \A e \in Devs : fam'[e].user = fam[e].user
    BY <1>1, <1>2, RenewedKeeps DEF IdentityInv
<1>4. <<fam[r.dev].id, fam[r.dev].gen + 1>> \in Nat \X Nat
    BY <1>2
<1>5. AskedInv' /\ ProvenInv' /\ Sessions!KeepsAKey'
    BY <1>1, <1>4, ServedKeeps
<1> QED
    BY <1>3, <1>5 DEF IdentityInv, Sessions!IdentityKept

LEMMA ServeRenewKeeps ==
    ASSUME IdentityInv, NEW r \in net, Sessions!ServeRenew(r)
    PROVE  IdentityInv' /\ Sessions!IdentityKept
<1>1. CASE Sessions!Accepted(r.dev, r.key)
    BY <1>1, RenewingKeeps DEF Sessions!ServeRenew
<1>2. CASE ~Sessions!Accepted(r.dev, r.key)
    BY <1>2, RefuseKeeps DEF Sessions!ServeRenew
<1> QED
    BY <1>1, <1>2

LEMMA ServeKnownKeeps ==
    ASSUME IdentityInv, NEW r \in net, r.op # "rotate", NEW owns \in BOOLEAN, Sessions!ServeKnown(r, owns)
    PROVE  IdentityInv' /\ Sessions!IdentityKept
<1>1. CASE owns /\ fam[r.dev].secret = r.key /\ Sessions!Accepted(r.dev, r.key)
    BY <1>1, RenewingKeeps DEF Sessions!ServeKnown
<1>2. CASE ~(owns /\ fam[r.dev].secret = r.key /\ Sessions!Accepted(r.dev, r.key))
    BY <1>2, RefuseKeeps DEF Sessions!ServeKnown
<1> QED
    BY <1>1, <1>2

LEMMA ServeNewKeeps ==
    ASSUME IdentityInv, NEW r \in net, r.op \in {"enroll", "join"}, fam[r.dev].id = 0,
           NEW user \in Nat, Sessions!ServeNew(r, user)
    PROVE  IdentityInv' /\ Sessions!IdentityKept
<1>1. CASE Sessions!Stuck \/ ~Sessions!Admits
    BY <1>1, RefuseKeeps DEF Sessions!ServeNew
<1>2. CASE ~(Sessions!Stuck \/ ~Sessions!Admits)
    <2>1. /\ ids' = ids + 1
          /\ fam' = [Sessions!Kept EXCEPT ![r.dev] =
                [id |-> ids + 1, user |-> user, secret |-> r.key, gen |-> 0, revoked |-> FALSE]]
          /\ creds' = creds \cup {<<r.dev, r.key>>} /\ sess' = sess \cup {<<ids + 1, 0>>}
          /\ Sessions!Answers(r, "yes", <<ids + 1, 0>>) /\ client' = client
          /\ gone' = gone /\ overtaken' = overtaken
        BY <1>2 DEF Sessions!ServeNew
    <2>2. r.dev \in Devs /\ r.key \in Sessions!Secrets /\ Sessions!Proven(r) = r.key
        BY DEF IdentityInv, AskedInv, DeviceRequests, Sessions!Proven
    <2>3. BearerInv' /\ Sessions!IdentityKept
        BY <2>1, <2>2, NewKeeps DEF IdentityInv, Sessions!IdentityKept
    <2>4. <<ids + 1, 0>> \in Nat \X Nat
        BY DEF IdentityInv, BearerInv
    <2>5. AskedInv' /\ ProvenInv' /\ Sessions!KeepsAKey'
        BY <2>1, <2>2, <2>4, ServedKeeps
    <2> QED
        BY <2>3, <2>5 DEF IdentityInv
<1> QED
    BY <1>1, <1>2

LEMMA ServeEnrollKeeps ==
    ASSUME IdentityInv, NEW r \in net, Sessions!ServeEnroll(r) \/ Sessions!ServeJoin(r)
    PROVE  IdentityInv' /\ Sessions!IdentityKept
<1>1. ids + 1 \in Nat /\ \A d \in Devs : fam[d].user \in Nat
    BY DEF IdentityInv, BearerInv, DeviceFams
<1>2. CASE Sessions!ServeEnroll(r)
    <2>1. CASE fam[r.dev].id = 0
        BY <1>1, <1>2, <2>1, ServeNewKeeps DEF Sessions!ServeEnroll
    <2>2. CASE fam[r.dev].id # 0
        BY <1>2, <2>2, ServeKnownKeeps DEF Sessions!ServeEnroll
    <2> QED
        BY <2>1, <2>2
<1>3. CASE Sessions!ServeJoin(r)
    <2> DEFINE by == {d \in Devs : fam[d].id = r.tok[1] /\ Sessions!Accepted(d, r.new)}
               user == fam[CHOOSE d \in by : TRUE].user
    <2>1. /\ r.op = "join"
          /\ IF by = {} THEN Sessions!Refuse(r) /\ UNCHANGED blocked
             ELSE IF fam[r.dev].id = 0 THEN Sessions!ServeNew(r, user)
                  ELSE Sessions!ServeKnown(r, fam[r.dev].user = user)
        BY <1>3 DEF Sessions!ServeJoin
    <2>2. CASE by = {}
        BY <2>1, <2>2, RefuseKeeps
    <2>3. CASE by # {}
        <3>1. (CHOOSE d \in by : TRUE) \in Devs
            BY <2>3
        <3>2. user \in Nat /\ (fam[r.dev].user = user) \in BOOLEAN
            BY <1>1, <3>1
        <3> HIDE DEF by, user
        <3>3. CASE fam[r.dev].id = 0
            BY <2>1, <2>3, <3>2, <3>3, ServeNewKeeps
        <3>4. CASE fam[r.dev].id # 0
            BY <2>1, <2>3, <3>2, <3>4, ServeKnownKeeps
        <3> QED
            BY <3>3, <3>4
    <2> QED
        BY <2>2, <2>3
<1> QED
    BY <1>2, <1>3

\* The rotation: who still waits for it is told to keep the new secret, who does not has it as the
\* pending one or was overtaken, and so was one whom an answer on its way tells of another.
LEMMA ServeRotateKeeps ==
    ASSUME IdentityInv, NEW r \in net, Sessions!ServeRotate(r)
    PROVE  IdentityInv' /\ Sessions!IdentityKept
<1> DEFINE d == r.dev
<1>0. /\ d \in Devs /\ r.op = "rotate" /\ r.ans = "none" /\ r.new \in Sessions!Secrets
      /\ (~r.late => Waited(r)) /\ Sessions!Proven(r) = r.new
    BY DEF Sessions!ServeRotate, IdentityInv, AskedInv, DeviceRequests, Sessions!Proven
<1>1. CASE ~(Sessions!Accepted(d, r.key) /\ fam[d].id = r.tok[1])
    BY <1>1, RefuseKeeps DEF Sessions!ServeRotate
<1>2. CASE Sessions!Accepted(d, r.key) /\ fam[d].id = r.tok[1]
    <2>1. /\ creds' = (creds \ {<<d, r.key>>}) \cup {<<d, r.new>>}
          /\ fam' = [fam EXCEPT ![d].secret = r.new]
          /\ Sessions!Answers(r, "yes", Sessions!NoTok) /\ client' = client
          /\ overtaken' = IF Sessions!Overtakes(r) THEN overtaken \cup {d} ELSE overtaken
          /\ gone' = gone /\ UNCHANGED <<sess, ids>>
        BY <1>2 DEF Sessions!ServeRotate
    <2>2. BearerInv' /\ \A e \in Devs : fam'[e].user = fam[e].user
        BY <1>0, <1>2, <2>1, RotatedKeeps DEF IdentityInv
    <2>3. Sessions!NoTok \in Nat \X Nat
        BY DEF Sessions!NoTok
    <2>4. /\ AskedInv'
          /\ \A s \in net' : s.ans = "yes" =>
                 \/ s \in net /\ s # r
                 \/ s.dev = d /\ Sessions!Proven(s) = r.new
        BY <1>0, <2>1, <2>3, AnsweredKeeps DEF IdentityInv
    <2>5. Sessions!KeepsAKey'
        <3> SUFFICES ASSUME NEW e \in Devs, client'[e].vault = "confirmed", e \notin gone' \cup overtaken'
                     PROVE  <<e, client'[e].key>> \in creds' \/ <<e, client'[e].pend>> \in creds'
            BY DEF Sessions!KeepsAKey
        <3>1. CASE e # d
            <4>1. <<e, client[e].key>> \in creds \/ <<e, client[e].pend>> \in creds
                BY <2>1, <3>1 DEF IdentityInv, Sessions!KeepsAKey
            <4> QED
                BY <2>1, <3>1, <4>1
        <3>2. CASE e = d
            <4>1. r.new = client[d].pend
                BY <1>0, <2>1, <3>2 DEF Sessions!Overtakes, Waited
            <4> QED
                BY <2>1, <3>2, <4>1
        <3> QED
            BY <3>1, <3>2
    <2>6. ProvenInv'
        <3> SUFFICES ASSUME NEW s \in net', s.ans = "yes", s.dev \notin gone' \cup overtaken'
                     PROVE  <<s.dev, Sessions!Proven(s)>> \in creds'
            BY DEF ProvenInv, Sessions!Proven
        <3>1. CASE s.dev = d /\ Sessions!Proven(s) = r.new
            BY <2>1, <3>1
        <3>2. CASE s \in net /\ s # r /\ s.dev = d
            <4>1. ~s.late
                BY <3>2 DEF IdentityInv, AskedInv
            <4>2. r.late
                BY <3>2, <4>1 DEF IdentityInv, AskedInv
            <4>3. Sessions!Proven(s) = r.new
                BY <2>1, <3>2, <4>2 DEF Sessions!Overtakes
            <4> QED
                BY <2>1, <3>2, <4>3
        <3>3. CASE s \in net /\ s.dev # d
            <4>1. <<s.dev, Sessions!Proven(s)>> \in creds
                BY <2>1, <3>3 DEF IdentityInv, ProvenInv
            <4> QED
                BY <2>1, <3>3, <4>1
        <3> QED
            BY <2>4, <3>1, <3>2, <3>3
    <2> QED
        BY <2>2, <2>4, <2>5, <2>6 DEF IdentityInv, Sessions!IdentityKept
<1> QED
    BY <1>1, <1>2

LEMMA AuthenticateKeeps ==
    ASSUME IdentityInv, NEW r \in net, Sessions!Authenticate(r)
    PROVE  IdentityInv' /\ Sessions!IdentityKept
<1>1. CASE ~Sessions!ValidToken(r.tok)
    BY <1>1, RefuseKeeps DEF Sessions!Authenticate
<1>2. CASE Sessions!ValidToken(r.tok)
    <2> DEFINE a == [r EXCEPT !.auth = TRUE]
    <2>1. /\ net' = (net \ {r}) \cup {a}
          /\ UNCHANGED <<fam, creds, sess, client, ids>> /\ gone' = gone /\ overtaken' = overtaken
        BY <1>2 DEF Sessions!Authenticate
    <2>2. r \in DeviceRequests /\ r.ans = "none"
        BY DEF IdentityInv, AskedInv, Sessions!Authenticate
    <2>3. /\ a \in DeviceRequests /\ a.dev = r.dev /\ a.op = r.op /\ a.key = r.key /\ a.new = r.new
          /\ a.late = r.late /\ a.ans = "none"
        BY <2>2 DEF DeviceRequests
    <2> HIDE DEF a
    <2>4. \A s \in net' : (s \in net /\ s # r) \/ s = a
        BY <2>1
    <2>5. AskedInv'
        <3>1. client' \in [Devs -> DeviceClients] /\ net' \subseteq DeviceRequests
            BY <2>1, <2>3 DEF IdentityInv, AskedInv
        <3>2. \A s \in net' : /\ s.op = "rotate" => s.new \in Sessions!Secrets
                              /\ s.op \in {"enroll", "join"} => s.key \in Sessions!Secrets
                              /\ ~s.late => Waited(s)'
                              /\ s.late => s.ans = "none"
            <4>1. \A s \in net : /\ s.op = "rotate" => s.new \in Sessions!Secrets
                                 /\ s.op \in {"enroll", "join"} => s.key \in Sessions!Secrets
                                 /\ ~s.late => Waited(s)'
                                 /\ s.late => s.ans = "none"
                BY <2>1 DEF IdentityInv, AskedInv, Waited
            <4>2. Waited(r)' => Waited(a)'
                BY <2>3 DEF Waited
            <4> QED
                BY <2>3, <2>4, <4>1, <4>2
        <3>3. \A s, u \in net' : ~s.late /\ ~u.late /\ s.dev = u.dev => s = u
            BY <2>3, <2>4 DEF IdentityInv, AskedInv
        <3> QED
            BY <3>1, <3>2, <3>3 DEF AskedInv
    <2>6. Sessions!KeepsAKey'
        BY <2>1 DEF IdentityInv, Sessions!KeepsAKey
    <2>7. ProvenInv'
        BY <2>1, <2>3, <2>4, ProvenKeeps DEF IdentityInv
    <2> QED
        BY <2>1, <2>5, <2>6, <2>7, ServerRests DEF IdentityInv
<1> QED
    BY <1>1, <1>2

-----------------------------------------------------------------------------
(* What gets lost, ends or is revoked. *)

LEMMA GiveUpKeeps ==
    ASSUME IdentityInv, NEW r \in net, Sessions!GiveUp(r)
    PROVE  IdentityInv' /\ Sessions!IdentityKept
<1> DEFINE given == [r EXCEPT !.late = TRUE]
           c == Sessions!Untold(client[r.dev])
<1>1. /\ ~r.late /\ net' = (net \ {r}) \cup (IF r.ans = "none" THEN {given} ELSE {})
      /\ client' = [client EXCEPT ![r.dev] = c]
      /\ UNCHANGED <<fam, creds, sess, ids>> /\ gone' = gone /\ overtaken' = overtaken
    <2>1. r.dev \in Devs /\ client \in [Devs -> DeviceClients]
        BY DEF IdentityInv, AskedInv, DeviceRequests
    <2> QED
        BY <2>1 DEF Sessions!GiveUp
<1>2. r.dev \in Devs /\ client[r.dev] \in DeviceClients /\ r \in DeviceRequests
    BY DEF IdentityInv, AskedInv, DeviceRequests
<1>3. given \in DeviceRequests /\ given.late
    BY <1>2 DEF DeviceRequests
<1>4. /\ c \in DeviceClients /\ c.vault = client[r.dev].vault /\ c.key = client[r.dev].key
      /\ c.pend = client[r.dev].pend
    <2>1. <<0, 0>> \in Nat \X Nat
        OBVIOUS
    <2> QED
        BY <1>2, <2>1, ToldIs
<1>5. \A s \in net' : s \in net \/ \E q \in net : q.ans = "none" /\ s = [q EXCEPT !.late = TRUE]
    BY <1>1
<1> HIDE DEF given, c
<1>6. net' \subseteq DeviceRequests
    BY <1>1, <1>3 DEF IdentityInv, AskedInv
<1>7. \A s \in net' : s.dev = r.dev => s.late
    <2>1. \A s \in net : s # r /\ s.dev = r.dev => s.late
        BY <1>1 DEF IdentityInv, AskedInv, DeviceRequests
    <2> QED
        BY <1>1, <1>3, <2>1
<1>8. AskedInv' /\ \A s \in net' : s.ans = "yes" => s \in net
    BY <1>1, <1>2, <1>4, <1>5, <1>6, <1>7, LateKeeps DEF IdentityInv
<1>9. Sessions!KeepsAKey'
    BY <1>1, <1>2, <1>4, KeyKeeps
<1>10. ProvenInv'
    BY <1>1, <1>8, ProvenKeeps DEF IdentityInv
<1> QED
    BY <1>1, <1>8, <1>9, <1>10, ServerRests DEF IdentityInv

LEMMA RestartsKeeps ==
    ASSUME IdentityInv, NEW d \in Devs, Sessions!Restart(d)
    PROVE  IdentityInv' /\ Sessions!IdentityKept
<1> DEFINE c == [client[d] EXCEPT !.at = "idle", !.tok = Sessions!NoTok]
<1>0. client \in [Devs -> DeviceClients] /\ client[d] \in DeviceClients
    BY DEF IdentityInv, AskedInv
<1>1. /\ net' = {IF r.dev = d THEN [r EXCEPT !.late = TRUE] ELSE r :
                    r \in {q \in net : q.dev = d => q.ans = "none"}}
      /\ client' = [client EXCEPT ![d] = c]
      /\ UNCHANGED <<fam, creds, sess, ids>> /\ gone' = gone /\ overtaken' = overtaken
    <2>1. client' = [client EXCEPT ![d].at = "idle", ![d].tok = Sessions!NoTok]
        BY DEF Sessions!Restart
    <2>2. client' = [client EXCEPT ![d] = c]
        BY <1>0, <2>1
    <2> QED
        BY <2>2 DEF Sessions!Restart
<1>2. /\ c \in DeviceClients /\ c.vault = client[d].vault /\ c.key = client[d].key
      /\ c.pend = client[d].pend
    BY <1>0 DEF DeviceClients, ClientPlaces, Sessions!NoTok
<1> HIDE DEF c
<1>3. ASSUME NEW s \in net'
      PROVE  /\ s \in DeviceRequests /\ (s.dev = d => s.late)
             /\ s \in net \/ \E q \in net : q.ans = "none" /\ s = [q EXCEPT !.late = TRUE]
    <2>1. PICK r \in net : /\ s = IF r.dev = d THEN [r EXCEPT !.late = TRUE] ELSE r
                           /\ r.dev = d => r.ans = "none"
        BY <1>1
    <2>2. r \in DeviceRequests
        BY DEF IdentityInv, AskedInv
    <2> QED
        BY <2>1, <2>2 DEF DeviceRequests
<1>4. AskedInv' /\ \A s \in net' : s.ans = "yes" => s \in net
    BY <1>1, <1>2, <1>3, LateKeeps DEF IdentityInv
<1>5. Sessions!KeepsAKey'
    BY <1>1, <1>2, KeyKeeps
<1>6. ProvenInv'
    BY <1>1, <1>4, ProvenKeeps DEF IdentityInv
<1> QED
    BY <1>1, <1>4, <1>5, <1>6, ServerRests DEF IdentityInv

LEMMA RevokeKeeps ==
    ASSUME IdentityInv, NEW d \in Devs, Sessions!Revokes(d)
    PROVE  IdentityInv' /\ Sessions!IdentityKept
<1>1. /\ UNCHANGED <<net, client>> /\ creds' = {k \in creds : k[1] # d}
      /\ gone' = gone \cup {d} /\ overtaken' = overtaken
    BY DEF Sessions!Revokes
<1>2. BearerInv' /\ \A e \in Devs : fam'[e].user = fam[e].user
    BY RevokedKeeps DEF IdentityInv
<1>3. AskedInv'
    BY <1>1 DEF IdentityInv, AskedInv, Waited
<1>4. Sessions!KeepsAKey'
    BY <1>1 DEF IdentityInv, Sessions!KeepsAKey
<1>5. ProvenInv'
    BY <1>1, ProvenKeeps DEF IdentityInv
<1> QED
    BY <1>2, <1>3, <1>4, <1>5 DEF IdentityInv, Sessions!IdentityKept

\* Sessions and credentials expire, and late requests get lost.
LEMMA EndKeeps ==
    ASSUME IdentityInv, UNCHANGED <<fam, client, ids>>, sess' \subseteq sess, net' \subseteq net,
           creds' \subseteq creds, gone \subseteq gone', overtaken' = overtaken,
           \A k \in creds \ creds' : k[1] \in gone'
    PROVE  IdentityInv' /\ Sessions!IdentityKept
<1>1. BearerInv'
    BY LessKeeps DEF IdentityInv
<1>2. AskedInv'
    BY DEF IdentityInv, AskedInv, Waited
<1>3. Sessions!KeepsAKey'
    <2> SUFFICES ASSUME NEW d \in Devs, client[d].vault = "confirmed", d \notin gone' \cup overtaken
                 PROVE  <<d, client[d].key>> \in creds' \/ <<d, client[d].pend>> \in creds'
        BY DEF Sessions!KeepsAKey
    <2>1. <<d, client[d].key>> \in creds \/ <<d, client[d].pend>> \in creds
        BY DEF IdentityInv, Sessions!KeepsAKey
    <2>2. \A k : <<d, k>> \in creds => <<d, k>> \in creds'
        OBVIOUS
    <2> QED
        BY <2>1, <2>2
<1>4. ProvenInv'
    BY ProvenKeeps DEF IdentityInv
<1> QED
    BY <1>1, <1>2, <1>3, <1>4 DEF IdentityInv, Sessions!IdentityKept

LEMMA IdentityStep ==
    ASSUME IdentityInv, Sessions!Next
    PROVE  IdentityInv' /\ Sessions!IdentityKept
<1>1. ASSUME NEW d \in Devs,
             Sessions!ClientStep(d) \/ Sessions!Rotate(d) \/ \E e \in Devs : Sessions!Join(d, e)
      PROVE  IdentityInv' /\ Sessions!IdentityKept
    BY <1>1, ClientKeeps
<1>2. ASSUME NEW d \in Devs, Sessions!Serve(d)
      PROVE  IdentityInv' /\ Sessions!IdentityKept
    BY <1>2, AuthenticateKeeps, ServeRenewKeeps, ServeRotateKeeps, ServeEnrollKeeps DEF Sessions!Serve
<1>3. ASSUME NEW d \in Devs, Sessions!RevokeFamily(d) \/ Sessions!RevokeDevice(d)
      PROVE  IdentityInv' /\ Sessions!IdentityKept
    BY <1>3, RevokeKeeps DEF Sessions!RevokeFamily, Sessions!RevokeDevice
<1>4. ASSUME NEW d \in Devs, Sessions!Pair(d) \/ Sessions!StoreBegins(d) \/ Sessions!OpenSocket(d) \/ Sessions!Revalidate(d)
      PROVE  IdentityInv' /\ Sessions!IdentityKept
    <2>1. UNCHANGED <<fam, creds, sess, net, client, gone, overtaken, ids>>
        BY <1>4 DEF Sessions!Pair, Sessions!StoreBegins, Sessions!OpenSocket, Sessions!Revalidate
    <2> QED
        BY <2>1, EndKeeps
<1>5. ASSUME NEW r \in net, Sessions!GiveUp(r) \/ Sessions!Lose(r)
      PROVE  IdentityInv' /\ Sessions!IdentityKept
    <2>1. CASE Sessions!GiveUp(r)
        BY <2>1, GiveUpKeeps
    <2>2. CASE Sessions!Lose(r)
        <3>1. UNCHANGED <<fam, creds, sess, client, gone, overtaken, ids>> /\ net' \subseteq net
            BY <2>2 DEF Sessions!Lose
        <3> QED
            BY <3>1, EndKeeps
    <2> QED
        BY <1>5, <2>1, <2>2
<1>6. CASE Sessions!WindowPasses \/ \E u \in writes, counted \in BOOLEAN : Sessions!StoreEnds(u, counted)
    <2>1. UNCHANGED <<fam, creds, sess, net, client, gone, overtaken, ids>>
        BY <1>6 DEF Sessions!WindowPasses, Sessions!StoreEnds
    <2> QED
        BY <2>1, EndKeeps
<1>7. CASE \E t \in sess : Sessions!SessionExpires(t)
    <2>1. UNCHANGED <<fam, creds, net, client, gone, overtaken, ids>> /\ sess' \subseteq sess
        BY <1>7 DEF Sessions!SessionExpires
    <2> QED
        BY <2>1, EndKeeps
<1>8. ASSUME NEW k \in creds, Sessions!CredentialExpires(k)
      PROVE  IdentityInv' /\ Sessions!IdentityKept
    <2>1. /\ UNCHANGED <<fam, sess, net, client, overtaken, ids>>
          /\ creds' = creds \ {k} /\ gone' = gone \cup {k[1]}
        BY <1>8 DEF Sessions!CredentialExpires
    <2> QED
        BY <2>1, EndKeeps
<1>9. ASSUME NEW d \in Devs, Sessions!Restart(d)
      PROVE  IdentityInv' /\ Sessions!IdentityKept
    BY <1>9, RestartsKeeps
<1> QED
    BY <1>1, <1>2, <1>3, <1>4, <1>5, <1>6, <1>7, <1>8, <1>9 DEF Sessions!Next

LEMMA IdentityStutter ==
    ASSUME IdentityInv, UNCHANGED sessVars
    PROVE  IdentityInv' /\ Sessions!IdentityKept
<1>1. UNCHANGED <<fam, creds, sess, net, client, gone, overtaken, ids>>
    BY DEF sessVars
<1> QED
    BY <1>1, EndKeeps

\* The inductive invariant: an accepted credential is the secret of its enrollment, a session is of its
\* family's latest generation, and a client that waits for an answer still has what it asked with
\* (sessions.py, public-identity-session.cjs).
THEOREM IdentityInvariant == Sessions!Spec => []IdentityInv
<1>1. Sessions!Init => IdentityInv
    BY IdentityInit
<1>2. IdentityInv /\ [Sessions!Next]_sessVars => IdentityInv'
    BY IdentityStep, IdentityStutter
<1>3. Sessions!Spec <=> Sessions!Init /\ [][Sessions!Next]_sessVars
    BY DEF Sessions!Spec, Sessions!vars, sessVars
<1> QED
    BY <1>1, <1>2, <1>3, PTL

LEMMA BearerIsOne ==
    ASSUME IdentityInv
    PROVE  Sessions!OneBearer
<1> SUFFICES ASSUME NEW d \in Devs, fam[d].id # 0
             PROVE  /\ Sessions!OfFamily(fam[d].id, sess) \subseteq {<<fam[d].id, fam[d].gen>>}
                    /\ Sessions!Cardinality({k \in creds : k[1] = d}) <= 1
    BY DEF Sessions!OneBearer
<1>1. Sessions!OfFamily(fam[d].id, sess) \subseteq {<<fam[d].id, fam[d].gen>>}
    BY DEF IdentityInv, BearerInv, Sessions!OfFamily
<1>2. {k \in creds : k[1] = d} \subseteq {<<d, fam[d].secret>>}
    BY DEF IdentityInv, BearerInv
<1>3. Cardinality({k \in creds : k[1] = d}) <= 1
    <2>1. IsFiniteSet({<<d, fam[d].secret>>}) /\ Cardinality({<<d, fam[d].secret>>}) = 1
        BY FS_Singleton
    <2> QED
        BY <1>2, <2>1, FS_Subset
<1>4. \A S : Sessions!Cardinality(S) = Cardinality(S)
    BY DEF Sessions!Cardinality, Cardinality
<1> QED
    BY <1>1, <1>3, <1>4

\* A device has at most one bearer and one credential that are accepted; it holds the secret the
\* server accepts, unless that expired, was revoked or was overtaken by a rotation it had given up;
\* and no cleanup or enrollment makes it another user while its user owns a row the cleanup counts.
THEOREM SessionsAreBoundHolds == Sessions!Spec => SessionsAreBound
<1>1. IdentityInv => Sessions!OneBearer /\ Sessions!KeepsAKey
    BY BearerIsOne DEF IdentityInv
<1>2. IdentityInv /\ [Sessions!Next]_sessVars => [Sessions!IdentityKept]_sessVars
    BY IdentityStep, IdentityStutter
<1>3. Sessions!Spec <=> Sessions!Init /\ [][Sessions!Next]_sessVars
    BY DEF Sessions!Spec, Sessions!vars, sessVars
<1> QED
    BY <1>1, <1>2, <1>3, IdentityInvariant, PTL DEF SessionsAreBound

=============================================================================
