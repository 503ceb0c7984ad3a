------------------------ MODULE WorkflowOutboxProofs ------------------------
(***************************************************************************)
(* The outbox loses no row: OutboxIsComplete of WorkflowOutbox holds for   *)
(* any number of processes, scopes and rows, and only the holder of the    *)
(* term moves the shared scan.                                             *)
(*                                                                         *)
(* NothingLeftBehind is not inductive: whether the scan may pass a row     *)
(* depends on the page its holder read earlier (ScanInv), and whether a    *)
(* lane covers a row on the lane's head being the first unpublished row of *)
(* its scope (LaneInv).  A process that lost the term may keep a stale     *)
(* page, so ScanInv speaks of the holder only.                             *)
(*                                                                         *)
(* The last two sections prove that the files beside the rows are kept and *)
(* charged as the rows say (ArtifactsAreKept and ChargesAreExact).         *)
(***************************************************************************)
EXTENDS WorkflowOutbox, DurableFiles, FiniteSetTheorems, SequenceTheorems, WellFoundedInduction, TLAPS

\* Process c holds a term of the scan that has not ended.
Holds(c) == global.owner = c /\ global.live

\* Cursors and heads are rows, and the head of a lane of the scan is a row of the lane's scope.
CursorsInv ==
    /\ Len(outbox) <= MaxRows
    /\ global.scan <= global.through /\ global.through <= Len(outbox)
    /\ \A s \in Scopes : lanes[s] <= Len(outbox) /\ (lanes[s] # 0 => Scope(lanes[s]) = s)
    /\ \A c \in Consumers : /\ flush[c].floor <= Len(outbox)
                            /\ consumer[c].cursor <= Len(outbox)
                            /\ \A s \in Scopes : consumer[c].lane[s] <= Len(outbox)

\* What a flush remembers of the page it read, whether or not it still holds the term.
FlushInv(c) ==
    LET f == flush[c] IN
    /\ f.pc \in {"page", "mark"} =>
         f.page \subseteq 1 .. f.upto /\ f.upto <= global.through /\ Cardinality(f.page) <= f.left
    /\ f.pc = "mark" => f.id \in f.page /\ (\A j \in f.page : f.id <= j) /\ Scope(f.id) \notin f.blocked
    /\ f.pc = "global_mark" => f.id \in DOMAIN outbox /\ f.left > 0

\* What it may rely on while it does: nobody else moves the scan or a lane, the blocked scopes are
\* the ones with a lane, and a row of its range that it does not have comes after a full page.
ScanInv(c) ==
    LET f == flush[c] IN
    Holds(c) =>
        /\ f.pc \in {"page", "mark"} =>
             /\ f.blocked = {s \in Scopes : lanes[s] # 0}
             /\ \A i \in Unpublished : global.scan < i /\ i <= f.upto =>
                  i \in f.page \/ (f.left <= Cardinality(f.page) /\ \A j \in f.page : j < i)
        /\ f.pc = "global_mark" => f.id = lanes[Scope(f.id)]

\* No unpublished row is before the head of its scope's lane, and behind the scan there is a lane.
LaneInv ==
    \A i \in Unpublished : lanes[Scope(i)] <= i /\ (i <= global.scan => lanes[Scope(i)] # 0)

IInv ==
    /\ TypeOK
    /\ CursorsInv
    /\ \A c \in Consumers : FlushInv(c) /\ ScanInv(c)
    /\ LaneInv
    /\ NoRowSkipped

-----------------------------------------------------------------------------
(* Least rows, pages and sequences. *)

\* A set of rows has a first one, which is what ORDER BY ... LIMIT 1 returns.
LEMMA LeastIsLeast ==
    ASSUME NEW S \in SUBSET Nat, S # {}
    PROVE  Least(S) \in S /\ \A j \in S : Least(S) <= j
<1> DEFINE R == OpToRel(<, Nat)
<1>1. PICK x \in S : \A y \in S : ~(<<y, x>> \in R)
    <2>1. IsWellFoundedOn(R, Nat)
        BY NatLessThanWellFounded
    <2> HIDE DEF R
    <2> QED BY <2>1, WFMin
<1>2. \A y \in S : y < x => <<y, x>> \in R
    BY DEF OpToRel
<1> HIDE DEF R
<1>3. \A y \in S : ~(y < x)
    BY <1>1, <1>2, Zenon
<1>4. \E i \in S : \A j \in S : i <= j
    BY <1>3
<1> QED BY <1>4 DEF Least

\* The head of a lane: 0 for no lane, else the first of the rows it may stand for.
LEMMA HeadOfLane ==
    ASSUME NEW S \in SUBSET Nat
    PROVE  /\ Head0(S) = 0 \/ Head0(S) \in S
           /\ S # {} => Head0(S) \in S /\ \A j \in S : Head0(S) <= j
           /\ Head0(S) \in Nat
BY LeastIsLeast DEF Head0

\* Bounded rows have a last one.
LEMMA LastExists ==
    ASSUME NEW n \in Nat, NEW S \in SUBSET (0 .. n), S # {}
    PROVE  \E i \in S : \A j \in S : j <= i
<1> DEFINE D == {m \in 0 .. n : n - m \in S}
<1>1. D \in SUBSET Nat /\ D # {}
    <2>1. PICK i \in S : TRUE
        OBVIOUS
    <2>2. i \in 0 .. n
        OBVIOUS
    <2>3. n - i \in 0 .. n /\ n - (n - i) = i
        BY <2>2
    <2>4. n - i \in D
        BY <2>3
    <2>5. D \subseteq Nat
        OBVIOUS
    <2> HIDE DEF D
    <2> QED BY <2>4, <2>5
<1>2. PICK m \in D : \A d \in D : m <= d
    BY <1>1, LeastIsLeast
<1>3. ASSUME NEW j \in S PROVE j <= n - m
    <2>1. n - j \in D
        OBVIOUS
    <2> QED BY <1>2, <2>1
<1> QED BY <1>2, <1>3

\* The rows found before i, and the page Discover() takes of them.
Before(found, i) == {j \in found : j < i}

PageOf(found) == {i \in found : Cardinality(Before(found, i)) < Limit}

LEMMA PageIsFinite ==
    ASSUME NEW n \in Nat, NEW found, found \subseteq 0 .. n
    PROVE  /\ \A T \in SUBSET found : IsFiniteSet(T) /\ Cardinality(T) \in Nat
           /\ IsFiniteSet(PageOf(found)) /\ Cardinality(PageOf(found)) \in Nat
           /\ \A i \in found : IsFiniteSet(Before(found, i)) /\ Cardinality(Before(found, i)) \in Nat
<1>1. IsFiniteSet(0 .. n)
    BY FS_Interval
<1>2. \A T \in SUBSET found : IsFiniteSet(T)
    BY <1>1, FS_Subset
<1>3. \A T \in SUBSET found : Cardinality(T) \in Nat
    BY <1>2, FS_CardinalityType
<1>4. PageOf(found) \in SUBSET found
    BY DEF PageOf
<1>5. \A i \in found : Before(found, i) \in SUBSET found
    BY DEF Before
<1> QED BY <1>2, <1>3, <1>4, <1>5

\* A page holds the first rows found, and all of them unless it is full.
LEMMA PageIsPrefix ==
    ASSUME NEW n \in Nat, NEW found, found \subseteq 0 .. n
    PROVE  /\ Cardinality(PageOf(found)) <= Limit
           /\ \A i \in found \ PageOf(found) :
                Cardinality(PageOf(found)) >= Limit /\ \A j \in PageOf(found) : j < i
<1> DEFINE page == PageOf(found)
<1>0. /\ Limit \in Nat \ {0} /\ IsFiniteSet(page) /\ Cardinality(page) \in Nat
      /\ \A i \in found : IsFiniteSet(Before(found, i)) /\ Cardinality(Before(found, i)) \in Nat
    BY PageIsFinite, OutboxAssumption
<1>p. /\ page \subseteq found /\ found \subseteq Nat
      /\ \A i \in found : i \in page <=> Cardinality(Before(found, i)) < Limit
    BY DEF PageOf
<1>b. \A i, j \in found : j \in Before(found, i) <=> j < i
    BY DEF Before
<1>c. \A i \in found : Before(found, i) \subseteq found
    BY DEF Before
<1> HIDE DEF page
\* A row of the page is not after a row that did not fit.
<1>1. ASSUME NEW i \in found \ page, NEW j \in page PROVE j < i
    <2> SUFFICES ASSUME ~(j < i) PROVE FALSE
        OBVIOUS
    <2>0. i \in Nat /\ j \in Nat /\ i # j /\ j \in found /\ i \in found
        BY <1>p
    <2>1. i < j
        BY <2>0
    <2>2. Before(found, i) \subseteq Before(found, j)
        <3>1. ASSUME NEW x \in Before(found, i) PROVE x \in Before(found, j)
            <4>1. x \in found /\ x < i /\ x \in Nat
                BY <1>p DEF Before
            <4>2. x < j
                BY <2>0, <2>1, <4>1
            <4> QED BY <4>1, <4>2 DEF Before
        <3> QED BY <3>1
    <2>3. Cardinality(Before(found, i)) <= Cardinality(Before(found, j))
        BY <1>0, <2>0, <2>2, FS_Subset
    <2>4. Cardinality(Before(found, j)) < Limit /\ ~(Cardinality(Before(found, i)) < Limit)
        BY <1>p, <2>0
    <2> QED BY <1>0, <2>0, <2>3, <2>4
<1>2. ASSUME NEW i \in found \ page PROVE Cardinality(page) >= Limit
    <2>1. found \ page \in SUBSET Nat /\ found \ page # {}
        BY <1>2, <1>p
    <2>2. PICK k \in found \ page : \A j \in found \ page : k <= j
        BY <2>1, LeastIsLeast
    <2>3. Before(found, k) \subseteq page
        <3>1. ASSUME NEW j \in Before(found, k) PROVE j \in page
            <4>1. j \in found /\ j < k /\ j \in Nat /\ k \in Nat
                BY <1>p DEF Before
            <4> QED BY <2>2, <4>1
        <3> QED BY <3>1
    <2>4. Cardinality(Before(found, k)) <= Cardinality(page)
        BY <1>0, <2>3, FS_Subset
    <2>5. ~(Cardinality(Before(found, k)) < Limit)
        BY <1>p, <2>2
    <2> QED BY <1>0, <2>2, <2>4, <2>5
<1>3. Cardinality(page) <= Limit
    <2>1. CASE page = {}
        BY <2>1, <1>0, FS_EmptySet
    <2>2. CASE page # {}
        <3>1. PICK k \in page : \A j \in page : j <= k
            BY <2>2, <1>p, LastExists
        <3>2. k \in found /\ Cardinality(Before(found, k)) < Limit
            BY <1>p
        <3>3. page \subseteq Before(found, k) \cup {k}
            <4>1. ASSUME NEW j \in page, j # k PROVE j \in Before(found, k)
                BY <1>p, <3>1, <3>2, <4>1 DEF Before
            <4> QED BY <4>1
        <3>4. /\ IsFiniteSet(Before(found, k) \cup {k})
              /\ Cardinality(Before(found, k) \cup {k}) <= Cardinality(Before(found, k)) + 1
            <4> DEFINE B == Before(found, k)
            <4>1. IsFiniteSet(B) /\ Cardinality(B) \in Nat
                BY <1>0, <3>2
            <4> HIDE DEF B
            <4>2. /\ IsFiniteSet(B \cup {k})
                  /\ Cardinality(B \cup {k}) = IF k \in B THEN Cardinality(B) ELSE Cardinality(B) + 1
                BY <4>1, FS_AddElement
            <4>3. IsFiniteSet(B \cup {k}) /\ Cardinality(B \cup {k}) <= Cardinality(B) + 1
                BY <4>1, <4>2
            <4> QED BY <4>3 DEF B
        <3>5. Cardinality(page) <= Cardinality(Before(found, k) \cup {k})
            BY <3>3, <3>4, FS_Subset
        <3>6. Cardinality(Before(found, k) \cup {k}) \in Nat
            BY <3>4, FS_CardinalityType
        <3> QED BY <1>0, <3>2, <3>4, <3>5, <3>6
    <2> QED BY <2>1, <2>2
<1> HIDE DEF page
<1>4. \A i \in found \ page : Cardinality(page) >= Limit /\ \A j \in page : j < i
    BY <1>1, <1>2
<1> QED BY <1>3, <1>4 DEF page

-----------------------------------------------------------------------------
(* How a step changes the table. *)

\* Rows are never removed from the sequence, keep their scope and are not unpublished again.
TableKept ==
    /\ outbox' \in Seq(Rows) /\ Len(outbox) <= Len(outbox') /\ Len(outbox') <= MaxRows
    /\ \A i \in 1 .. Len(outbox) :
         /\ outbox'[i].scope = outbox[i].scope
         /\ outbox'[i].status = "unpublished" => outbox[i].status = "unpublished"

\* No row that a consumer may need is deleted.
NothingPruned ==
    \A i \in 1 .. Len(outbox') :
        outbox'[i].status = "pruned" => i \in 1 .. Len(outbox) /\ outbox[i].status = "pruned"

LEMMA TableFacts ==
    ASSUME TypeOK
    PROVE  /\ outbox \in Seq(Rows) /\ Len(outbox) \in Nat /\ DOMAIN outbox = 1 .. Len(outbox)
           /\ \A i \in 1 .. Len(outbox) : outbox[i] \in Rows /\ Scope(i) \in Scopes
           /\ Kept \subseteq 1 .. Len(outbox) /\ Unpublished \subseteq Kept
<1>1. outbox \in Seq(Rows)
    BY DEF TypeOK
<1>2. /\ Len(outbox) \in Nat /\ DOMAIN outbox = 1 .. Len(outbox)
      /\ \A i \in 1 .. Len(outbox) : outbox[i] \in Rows
    BY <1>1, LenProperties, ElementOfSeq
<1> QED BY <1>1, <1>2 DEF Scope, Rows, Kept, Unpublished

LEMMA SameTable ==
    ASSUME TypeOK, CursorsInv, outbox' = outbox
    PROVE  /\ TableKept /\ NothingPruned /\ Unpublished' = Unpublished /\ Kept' = Kept
           /\ \A i \in 1 .. Len(outbox) : Scope(i)' = Scope(i)
BY TableFacts DEF TableKept, NothingPruned, TypeOK, CursorsInv, Unpublished, Kept, Scope

\* The commit of a new row.
LEMMA AppendKeeps ==
    ASSUME TypeOK, CursorsInv, NEW s \in Scopes, AppendRow(s)
    PROVE  TableKept /\ NothingPruned
<1> DEFINE row == [scope |-> s, status |-> "unpublished"]
<1>1. outbox \in Seq(Rows) /\ row \in Rows /\ outbox' = Append(outbox, row) /\ Len(outbox) < MaxRows
    BY DEF TypeOK, Rows, AppendRow
<1>2. row.status = "unpublished"
    OBVIOUS
<1> HIDE DEF row
<1>3. /\ outbox' \in Seq(Rows) /\ Len(outbox') = Len(outbox) + 1 /\ Len(outbox) \in Nat
      /\ \A i \in 1 .. Len(outbox) : outbox'[i] = outbox[i]
      /\ outbox'[Len(outbox) + 1] = row
    BY <1>1
<1>4. Len(outbox') <= MaxRows
    BY <1>1, <1>3, OutboxAssumption
<1>5. TableKept
    BY <1>3, <1>4 DEF TableKept
<1>6. \A i \in 1 .. Len(outbox') : i \in 1 .. Len(outbox) \/ i = Len(outbox) + 1
    BY <1>3
<1> QED BY <1>2, <1>3, <1>5, <1>6 DEF NothingPruned

\* published_at is set.
LEMMA PublishKeeps ==
    ASSUME TypeOK, CursorsInv, NEW i \in 1 .. Len(outbox), Publish(i)
    PROVE  /\ TableKept /\ NothingPruned /\ Len(outbox') = Len(outbox)
           /\ outbox'[i].status # "unpublished"
<1> DEFINE st == IF outbox[i].status = "pruned" THEN outbox[i].status ELSE "published"
           row == [outbox[i] EXCEPT !.status = st]
<1>1. outbox \in Seq(Rows) /\ outbox[i] \in Rows /\ Len(outbox) \in Nat
    BY TableFacts
<1>2. st \in {"published", "pruned"} /\ (st = "pruned" => outbox[i].status = "pruned")
    OBVIOUS
<1>3. outbox' = [outbox EXCEPT ![i] = row]
    BY <1>1 DEF Publish
<1> HIDE DEF st
<1>4. row \in Rows /\ row.status = st /\ row.scope = outbox[i].scope
    BY <1>1, <1>2 DEF Rows
<1> HIDE DEF row
<1>5. /\ outbox' \in Seq(Rows) /\ Len(outbox') = Len(outbox)
      /\ \A j \in 1 .. Len(outbox) : outbox'[j] = IF j = i THEN row ELSE outbox[j]
    BY <1>1, <1>3, <1>4, ExceptSeq
<1>6. Len(outbox) <= MaxRows
    BY DEF CursorsInv
<1> QED BY <1>1, <1>2, <1>4, <1>5, <1>6 DEF TableKept, NothingPruned

-----------------------------------------------------------------------------
(* Types. *)

\* There is always a fence that no process remembers.
LEMMA NextFenceIsNew ==
    ASSUME TypeOK
    PROVE  NextFence \in Nat
<1> DEFINE n == Cardinality(Consumers)
           used == {flush[d].fence : d \in Consumers}
           free == {m \in 1 .. n + 1 : \A d \in Consumers : flush[d].fence # m}
<1>1. n \in Nat /\ IsFiniteSet(Consumers)
    BY FS_CardinalityType, OutboxAssumption
<1>2. free # {}
    <2> SUFFICES ASSUME free = {} PROVE FALSE
        OBVIOUS
    <2>1. \A m \in 1 .. n + 1 : \E d \in Consumers : flush[d].fence = m
        OBVIOUS
    <2> DEFINE g == [m \in 1 .. n + 1 |-> CHOOSE d \in Consumers : flush[d].fence = m]
    <2>2. g \in [1 .. n + 1 -> Consumers] /\ \A m \in 1 .. n + 1 : flush[g[m]].fence = m
        BY <2>1
    <2>3. IsFiniteSet(1 .. n + 1) /\ Cardinality(1 .. n + 1) = n + 1
        BY <1>1, FS_Interval
    <2> HIDE DEF g, n
    <2>4. n < Cardinality(1 .. n + 1)
        BY <1>1, <2>3
    <2>5. \E x, y \in 1 .. n + 1 : x # y /\ g[x] = g[y]
        BY <1>1, <2>2, <2>3, <2>4, FS_PigeonHole DEF n
    <2> QED BY <2>2, <2>5
<1>3. free \subseteq Nat
    BY <1>1
<1>4. Least(free) \in free
    <2> HIDE DEF free
    <2> QED BY <1>2, <1>3, LeastIsLeast
<1> QED BY <1>3, <1>4 DEF NextFence

\* The lanes of a scope stay lanes.
LEMMA QueuedType ==
    ASSUME NEW n \in Nat, NEW lane \in [Scopes -> 0 .. n], NEW i \in 1 .. n, Scope(i) \in Scopes
    PROVE  /\ Queued(lane, i) \in [Scopes -> 0 .. n]
           /\ \A s \in Scopes : Queued(lane, i)[s] = IF s = Scope(i) /\ (lane[s] = 0 \/ i < lane[s])
                                                     THEN i ELSE lane[s]
BY DEF Queued

LEMMA LanesAreRows ==
    ASSUME TypeOK, CursorsInv
    PROVE  /\ lanes \in [Scopes -> 0 .. Len(outbox)]
           /\ \A c \in Consumers : consumer[c].lane \in [Scopes -> 0 .. Len(outbox)]
<1>1. Len(outbox) \in Nat
    BY TableFacts
<1>2. lanes \in [Scopes -> 0 .. Len(outbox)]
    BY <1>1 DEF TypeOK, CursorsInv
<1>3. ASSUME NEW c \in Consumers PROVE consumer[c].lane \in [Scopes -> 0 .. Len(outbox)]
    <2>1. consumer[c].lane \in [Scopes -> Nat] /\ \A s \in Scopes : consumer[c].lane[s] <= Len(outbox)
        BY DEF TypeOK, CursorsInv
    <2> QED BY <1>1, <2>1
<1> QED BY <1>2, <1>3

LEMMA BoundedIsFinite ==
    ASSUME NEW n \in Nat, NEW S, S \subseteq 1 .. n
    PROVE  IsFiniteSet(S) /\ Cardinality(S) \in Nat
<1>1. IsFiniteSet(1 .. n)
    BY FS_Interval
<1>2. IsFiniteSet(S)
    BY <1>1, FS_Subset
<1> QED BY <1>2, FS_CardinalityType

LEMMA RemoveOne ==
    ASSUME NEW S, IsFiniteSet(S), NEW x \in S
    PROVE  Cardinality(S) > 0 /\ Cardinality(S \ {x}) = Cardinality(S) - 1
<1>1. Cardinality(S) \in Nat
    BY FS_CardinalityType
<1>2. Cardinality(S) # 0
    BY FS_EmptySet
<1>3. Cardinality(S \ {x}) = Cardinality(S) - 1
    BY FS_RemoveElement
<1> QED BY <1>1, <1>2, <1>3

\* The first row of a page, and the page without it.
LEMMA FirstOfPage ==
    ASSUME IInv, NEW c \in Consumers, flush[c].pc \in {"page", "mark"}
    PROVE  /\ flush[c].page \subseteq 1 .. flush[c].upto /\ flush[c].upto <= Len(outbox)
           /\ flush[c].page \subseteq 1 .. Len(outbox) /\ Len(outbox) \in Nat
           /\ IsFiniteSet(flush[c].page) /\ Cardinality(flush[c].page) \in Nat
           /\ flush[c].page # {} =>
                /\ Least(flush[c].page) \in flush[c].page
                /\ \A j \in flush[c].page : Least(flush[c].page) <= j
           /\ \A i \in flush[c].page : /\ flush[c].left > 0
                                       /\ Cardinality(flush[c].page \ {i}) = Cardinality(flush[c].page) - 1
<1>1. /\ flush[c].page \subseteq 1 .. flush[c].upto /\ flush[c].upto <= global.through
      /\ Cardinality(flush[c].page) <= flush[c].left
    BY DEF IInv, FlushInv
<1>2. /\ flush[c].upto \in Nat /\ flush[c].left \in Nat /\ global.through \in Nat
      /\ global.through <= Len(outbox) /\ Len(outbox) \in Nat
    BY TableFacts DEF IInv, TypeOK, CursorsInv, Flushes
<1> DEFINE page == flush[c].page
<1>3. flush[c].upto <= Len(outbox) /\ page \subseteq 1 .. Len(outbox) /\ page \in SUBSET Nat
    BY <1>1, <1>2
<1>4. IsFiniteSet(page) /\ Cardinality(page) \in Nat
    BY <1>1, <1>2, BoundedIsFinite
<1> HIDE DEF page
<1>5. page # {} => Least(page) \in page /\ \A j \in page : Least(page) <= j
    BY <1>3, LeastIsLeast
<1>6. ASSUME NEW i \in page
      PROVE  Cardinality(page) > 0 /\ Cardinality(page \ {i}) = Cardinality(page) - 1
    BY <1>4, RemoveOne
<1>7. Cardinality(page) <= flush[c].left
    BY <1>1 DEF page
<1>8. ASSUME NEW i \in page PROVE flush[c].left > 0
    <2>1. flush[c].left \in Nat
        BY <1>2
    <2>2. Cardinality(page) > 0
        BY <1>6
    <2> QED BY <1>4, <1>7, <2>1, <2>2
<1> QED BY <1>1, <1>2, <1>3, <1>4, <1>5, <1>6, <1>8 DEF page

LEMMA FlushType ==
    ASSUME TypeOK, NEW c \in Consumers, NEW g \in Flushes, SetFlush(c, g)
    PROVE  flush' \in [Consumers -> Flushes]
BY DEF SetFlush, TypeOK

LEMMA GotoType ==
    ASSUME TypeOK, NEW c \in Consumers, NEW pc \in Pcs, Goto(c, pc)
    PROVE  /\ flush' \in [Consumers -> Flushes]
           /\ flush' = [flush EXCEPT ![c] = [flush[c] EXCEPT !.pc = pc]]
BY ZenonT(60) DEF Goto, TypeOK, Flushes

LEMMA IdleType == Idle \in Flushes
BY DEF Idle, Flushes, Pcs

\* The replay floor is a row or 0.
LEMMA FloorIsRow ==
    ASSUME TypeOK
    PROVE  ReplayFloor \in 0 .. Len(outbox) /\ Len(outbox) \in Nat
<1> DEFINE older == {i \in Kept : Cardinality({j \in Kept : j > i}) = Window}
<1>1. older \subseteq Kept
    OBVIOUS
<1>2. ReplayFloor = IF older = {} THEN 0 ELSE Least(older)
    BY DEF ReplayFloor
<1> HIDE DEF older
<1>3. older \in SUBSET Nat /\ older \subseteq 1 .. Len(outbox) /\ Len(outbox) \in Nat
    BY <1>1, TableFacts
<1> QED BY <1>2, <1>3, LeastIsLeast

\* Steps of a flush that only move it on.
LEMMA MoveType ==
    ASSUME IInv, NEW c \in Consumers,
           Ensure(c) \/ LoseScan(c) \/ Discover(c) \/ EndMain(c) \/ EndScopeLanes(c) \/ SkipPrune(c) \/ Crash(c)
    PROVE  TypeOK'
<1>0. TypeOK /\ Limit \in Nat
    BY OutboxAssumption DEF IInv
<1>1. ReplayFloor \in Nat /\ flush[c] \in Flushes
    BY <1>0, FloorIsRow DEF TypeOK
<1>2. CASE Ensure(c)
    <2>1. [Idle EXCEPT !.pc = "register", !.floor = ReplayFloor] \in Flushes
        BY <1>1 DEF Idle, Flushes, Pcs
    <2>2. flush' \in [Consumers -> Flushes]
        BY <1>0, <1>2, <2>1, FlushType, GotoType DEF Ensure, Pcs
    <2> QED BY <1>0, <1>2, <2>2 DEF Ensure, TypeOK
<1>3. CASE LoseScan(c)
    <2>1. [Idle EXCEPT !.pc = "release", !.fence = flush[c].fence, !.complete = ScanComplete] \in Flushes
        <3>1. flush[c].fence \in Nat
            BY <1>1 DEF Flushes
        <3>2. ScanComplete \in BOOLEAN
            BY DEF ScanComplete
        <3>3. "release" \in Pcs
            BY DEF Pcs
        <3> QED BY <3>1, <3>2, <3>3, IdleType DEF Flushes
    <2>2. flush' \in [Consumers -> Flushes]
        BY <1>0, <1>3, <2>1, FlushType DEF LoseScan
    <2> QED BY <1>0, <1>3, <2>2 DEF LoseScan, TypeOK
<1>4. CASE Discover(c)
    <2> DEFINE found == {i \in Unpublished : i > global.scan /\ i <= global.through}
               page == {i \in found : Cardinality({j \in found : j < i}) < Limit}
               blocked == {s \in Scopes : lanes[s] # 0}
    <2>1. page \subseteq Ids
        BY <1>0, TableFacts, OutboxAssumption DEF Ids, IInv, CursorsInv
    <2>2. [flush[c] EXCEPT !.pc = "global_lanes", !.left = Limit, !.complete = TRUE] \in Flushes
        <3>1. "global_lanes" \in Pcs
            BY DEF Pcs
        <3> QED BY <1>0, <1>1, <3>1 DEF Flushes
    <2>3. blocked \subseteq Scopes /\ global.through \in Nat
        BY <1>0 DEF TypeOK
    <2>4. \/ SetFlush(c, [flush[c] EXCEPT !.pc = "global_lanes", !.left = Limit, !.complete = TRUE])
          \/ SetFlush(c, [flush[c] EXCEPT !.pc = "page", !.page = page, !.upto = global.through,
                                          !.left = Limit, !.blocked = blocked])
        BY <1>4 DEF Discover
    <2> HIDE DEF page, blocked
    <2>5. [flush[c] EXCEPT !.pc = "page", !.page = page, !.upto = global.through,
                           !.left = Limit, !.blocked = blocked] \in Flushes
        <3>1. "page" \in Pcs
            BY DEF Pcs
        <3> QED BY <1>0, <1>1, <2>1, <2>3, <3>1 DEF Flushes
    <2>6. flush' \in [Consumers -> Flushes]
        BY <1>0, <2>2, <2>4, <2>5, FlushType
    <2> QED BY <1>0, <1>4, <2>6 DEF Discover, TypeOK
<1>5. CASE EndMain(c) \/ EndScopeLanes(c) \/ SkipPrune(c) \/ Crash(c)
    <2>1. /\ [Idle EXCEPT !.pc = "scope_lanes", !.left = Limit] \in Flushes
          /\ [Idle EXCEPT !.pc = "prune"] \in Flushes /\ [Idle EXCEPT !.pc = "dead"] \in Flushes
        BY <1>0 DEF Idle, Flushes, Pcs
    <2>2. flush' \in [Consumers -> Flushes] /\ faults' \in Nat
        BY <1>0, <1>5, <2>1, IdleType, FlushType DEF EndMain, EndScopeLanes, SkipPrune, Crash, Fault, TypeOK
    <2> QED BY <1>0, <1>5, <2>2 DEF EndMain, EndScopeLanes, SkipPrune, Crash, TypeOK
<1> QED BY <1>2, <1>3, <1>4, <1>5

\* Registration and the term of the scan.
LEMMA TermType ==
    ASSUME IInv, NEW c \in Consumers,
           Register(c) \/ TryAcquire(c) \/ ReleaseScan(c) \/ Close(c) \/ Expire
    PROVE  TypeOK'
<1>0. TypeOK /\ Limit \in Nat /\ flush[c] \in Flushes /\ flush[c].floor \in Nat /\ flush[c].fence \in Nat
    BY OutboxAssumption DEF IInv, TypeOK, Flushes
<1> DEFINE Globals == [scan : Nat, through : Nat, owner : Consumers \cup {NoOwner}, fence : Nat,
                       live : BOOLEAN, failed : Consumers \cup {NoOwner}]
           States == [registered : BOOLEAN, cursor : Nat, lane : [Scopes -> Nat]]
<1>1. global \in Globals /\ consumer \in [Consumers -> States] /\ consumer[c] \in States
    BY <1>0 DEF TypeOK
<1>2. NoLanes \in [Scopes -> Nat]
    BY DEF NoLanes
<1>3. \A b \in BOOLEAN : AfterRecovery(b) \in Flushes
    BY <1>0 DEF AfterRecovery, Idle, Flushes, Pcs
<1>4. ScanComplete \in BOOLEAN /\ flush[c].complete \in BOOLEAN
    BY <1>0 DEF ScanComplete, Flushes
<1>5. [global EXCEPT !.owner = NoOwner, !.live = FALSE] \in Globals
    BY <1>1
<1>6. CASE Register(c)
    <2>1. flush' \in [Consumers -> Flushes]
        BY <1>0, <1>6, GotoType DEF Register, Pcs
    <2>2. [registered |-> TRUE, cursor |-> flush[c].floor, lane |-> NoLanes] \in States
        BY <1>0, <1>2
    <2>3. consumer' \in [Consumers -> States]
        <3> HIDE DEF States
        <3> QED BY <1>1, <1>6, <2>2 DEF Register
    <2>4. global' \in Globals
        BY <1>0, <1>1, <1>6 DEF Register
    <2>5. skipped' \in [Consumers -> SUBSET Ids]
        <3> DEFINE S == {i \in DOMAIN outbox : i <= flush[c].floor \/ i \notin Kept}
        <3>1. S \in SUBSET Ids
            BY <1>0, TableFacts, OutboxAssumption DEF Ids, IInv, CursorsInv
        <3>2. skipped' = [skipped EXCEPT ![c] = S]
            BY <1>6 DEF Register
        <3> HIDE DEF S
        <3> QED BY <1>0, <3>1, <3>2 DEF TypeOK
    <2> QED BY <1>0, <1>6, <2>1, <2>3, <2>4, <2>5 DEF Register, TypeOK
<1>7. CASE TryAcquire(c)
    <2>1. CASE SetFlush(c, AfterRecovery(ScanComplete)) /\ UNCHANGED global
        <3>1. flush' \in [Consumers -> Flushes]
            BY <1>0, <1>3, <1>4, <2>1, FlushType
        <3> QED BY <1>0, <1>7, <2>1, <3>1 DEF TryAcquire, TypeOK
    <2>2. CASE \E fence \in Nat : /\ global' = [global EXCEPT !.owner = c, !.fence = fence, !.live = TRUE]
                                  /\ SetFlush(c, [Idle EXCEPT !.pc = "normalize", !.fence = fence])
        <3>1. PICK fence \in Nat : /\ global' = [global EXCEPT !.owner = c, !.fence = fence, !.live = TRUE]
                                   /\ SetFlush(c, [Idle EXCEPT !.pc = "normalize", !.fence = fence])
            BY <2>2
        <3>2. [Idle EXCEPT !.pc = "normalize", !.fence = fence] \in Flushes
            BY DEF Idle, Flushes, Pcs
        <3>3. global' \in Globals
            BY <1>1, <3>1
        <3>4. flush' \in [Consumers -> Flushes]
            BY <1>0, <3>1, <3>2, FlushType
        <3> QED BY <1>0, <1>7, <3>3, <3>4 DEF TryAcquire, TypeOK
    <2>3. NextFence \in Nat /\ global.fence \in Nat
        BY <1>0, <1>1, NextFenceIsNew
    <2> QED BY <1>7, <2>1, <2>2, <2>3 DEF TryAcquire
<1>8. CASE ReleaseScan(c)
    <2>1. flush' \in [Consumers -> Flushes]
        BY <1>0, <1>3, <1>4, <1>8, FlushType DEF ReleaseScan
    <2>2. global' \in Globals
        BY <1>1, <1>5, <1>8 DEF ReleaseScan
    <2> QED BY <1>0, <1>8, <2>1, <2>2 DEF ReleaseScan, TypeOK
<1>9. CASE Close(c)
    <2>1. flush' \in [Consumers -> Flushes]
        BY <1>0, <1>9, GotoType DEF Close, Pcs
    <2>2. global' \in Globals
        BY <1>1, <1>5, <1>9 DEF Close
    <2>3. consumer' \in [Consumers -> States]
        BY <1>1, <1>2, <1>9 DEF Close
    <2>4. faults' \in Nat
        BY <1>0, <1>9 DEF Close, Fault, TypeOK
    <2> QED BY <1>0, <1>9, <2>1, <2>2, <2>3, <2>4 DEF Close, TypeOK
<1>10. CASE Expire
    <2>1. global' \in Globals
        BY <1>1, <1>10 DEF Expire
    <2>2. faults' \in Nat
        BY <1>0, <1>10 DEF Expire, Fault, TypeOK
    <2> QED BY <1>0, <1>10, <2>1, <2>2 DEF Expire, TypeOK
<1> QED BY <1>6, <1>7, <1>8, <1>9, <1>10

\* A delivery from the scan or from a global lane, and its record.
LEMMA ScanType ==
    ASSUME IInv, NEW c \in Consumers,
           \/ Normalize(c) \/ PublishAncient(c) \/ MarkAncient(c) \/ PassBlocked(c) \/ EndPage(c)
           \/ MarkLane(c) \/ \E s \in Scopes : PublishLane(c, s)
    PROVE  TypeOK'
<1> DEFINE f == flush[c]
           Globals == [scan : Nat, through : Nat, owner : Consumers \cup {NoOwner}, fence : Nat,
                       live : BOOLEAN, failed : Consumers \cup {NoOwner}]
<1>0. /\ TypeOK /\ CursorsInv /\ f \in Flushes /\ global \in Globals
      /\ Len(outbox) \in Nat /\ DOMAIN outbox = 1 .. Len(outbox) /\ Len(outbox) <= MaxRows
      /\ \A i \in 1 .. Len(outbox) : Scope(i) \in Scopes /\ i \in Nat /\ i \in Ids
    BY TableFacts, OutboxAssumption DEF IInv, TypeOK, CursorsInv, Ids
<1>1. lanes \in [Scopes -> 0 .. Len(outbox)]
    BY <1>0, LanesAreRows
<1>2. ASSUME NEW S \in SUBSET (1 .. Len(outbox)) PROVE Head0(S) \in 0 .. Len(outbox)
    <2>1. S \in SUBSET Nat
        BY <1>0
    <2>2. Head0(S) = 0 \/ Head0(S) \in S
        BY <2>1, HeadOfLane
    <2>3. Len(outbox) \in Nat /\ \A x \in S : x \in 1 .. Len(outbox)
        BY <1>0
    <2>4. \A x \in S : x \in 0 .. Len(outbox)
        BY <2>3
    <2>5. 0 \in 0 .. Len(outbox)
        BY <2>3
    <2> QED BY <2>2, <2>4, <2>5
<1>3. /\ f.left \in Nat /\ f.fence \in Nat /\ f.upto \in Nat /\ f.page \in SUBSET Ids
      /\ f.blocked \in SUBSET Scopes /\ f.id \in Nat
    BY <1>0 DEF Flushes
<1>4. \A i \in Nat : ScanTo(i) \in Globals /\ [ScanTo(i) EXCEPT !.failed = c] \in Globals
    BY <1>0 DEF ScanTo
<1>p. {"discover", "mark", "page", "global_lanes", "global_mark", "release"} \subseteq Pcs
    BY DEF Pcs
<1>5. CASE Normalize(c)
    <2>1. flush' \in [Consumers -> Flushes]
        BY <1>0, <1>5, GotoType DEF Normalize, Pcs
    <2>2. lanes' \in [Scopes -> Nat]
        <3> DEFINE R(s) == {i \in Unpublished : Scope(i) = s /\ i >= lanes[s] /\ i <= global.through}
        <3>1. \A s \in Scopes : R(s) \in SUBSET (1 .. Len(outbox))
            BY <1>0, TableFacts
        <3>2. lanes' = [s \in Scopes |-> IF lanes[s] = 0 THEN 0 ELSE Head0(R(s))]
            BY <1>5 DEF Normalize
        <3> HIDE DEF R
        <3>3. \A s \in Scopes : Head0(R(s)) \in Nat
            BY <1>0, <1>2, <3>1
        <3> QED BY <3>2, <3>3
    <2> QED BY <1>0, <1>5, <2>1, <2>2 DEF Normalize, TypeOK
<1>6. CASE PublishAncient(c) \/ \E s \in Scopes : PublishLane(c, s)
    <2>1. \E i \in 1 .. Len(outbox), ok \in BOOLEAN, pc \in {"mark", "global_mark"} :
             /\ SetFlush(c, [f EXCEPT !.pc = pc, !.id = i, !.ok = ok])
             /\ Hear(c, i) \/ UNCHANGED heard
        <3>1. CASE PublishAncient(c)
            <4>1. Least(f.page) \in 1 .. Len(outbox)
                BY <3>1, FirstOfPage DEF PublishAncient
            <4> QED BY <3>1, <4>1 DEF PublishAncient
        <3>2. CASE \E s \in Scopes : PublishLane(c, s)
            <4>1. Kept \subseteq 1 .. Len(outbox)
                BY <1>0, TableFacts
            <4> QED BY <3>2, <4>1 DEF PublishLane
        <3> QED BY <1>6, <3>1, <3>2
    <2>2. PICK i \in 1 .. Len(outbox), ok \in BOOLEAN, pc \in {"mark", "global_mark"} :
             /\ SetFlush(c, [f EXCEPT !.pc = pc, !.id = i, !.ok = ok])
             /\ Hear(c, i) \/ UNCHANGED heard
        BY <2>1
    <2>3. [f EXCEPT !.pc = pc, !.id = i, !.ok = ok] \in Flushes
        BY <1>0, <1>p DEF Flushes
    <2>4. flush' \in [Consumers -> Flushes]
        BY <1>0, <2>2, <2>3, FlushType
    <2>5. heard' \in [Consumers -> SUBSET Ids]
        <3>1. i \in Ids /\ heard \in [Consumers -> SUBSET Ids]
            BY <1>0 DEF TypeOK
        <3>2. heard[c] \cup {i} \in SUBSET Ids
            BY <3>1
        <3> QED BY <2>2, <3>1, <3>2 DEF Hear
    <2>6. faults' \in Nat
        <3>1. faults' = faults \/ faults' = faults + 1
            <4>1. \A j : Accepts(j) \/ Refuses(j) => faults' = faults \/ faults' = faults + 1
                BY DEF Accepts, Refuses, Fault
            <4> QED BY <1>6, <4>1 DEF PublishAncient, PublishLane
        <3> QED BY SMTT(60), <1>0, <3>1 DEF TypeOK
    <2>7. UNCHANGED <<outbox, consumer, global, lanes, skipped>>
        BY <1>6 DEF PublishAncient, PublishLane
    <2> QED BY <1>0, <2>4, <2>5, <2>6, <2>7 DEF TypeOK
<1>7. CASE MarkAncient(c)
    <2>1. f.id \in 1 .. Len(outbox) /\ f.left - 1 \in Nat /\ f.id \in Nat
        <3>1. f.id \in f.page
            BY <1>7 DEF IInv, FlushInv, MarkAncient
        <3>2. f.id \in 1 .. Len(outbox) /\ f.left > 0
            BY <1>7, <3>1, FirstOfPage DEF MarkAncient
        <3> QED BY <1>0, <1>3, <3>2
    <2>2. CASE f.ok
        <3>1. /\ global' = ScanTo(f.id) /\ Publish(f.id) /\ UNCHANGED lanes
              /\ SetFlush(c, [f EXCEPT !.pc = "page", !.page = @ \ {f.id}, !.left = @ - 1, !.id = 0, !.ok = FALSE])
            BY <1>7, <2>2 DEF MarkAncient
        <3>2. outbox' \in Seq(Rows)
            BY <1>0, <2>1, <3>1, PublishKeeps DEF TableKept
        <3>3. [f EXCEPT !.pc = "page", !.page = @ \ {f.id}, !.left = @ - 1, !.id = 0, !.ok = FALSE] \in Flushes
            BY <1>0, <1>3, <1>p, <2>1 DEF Flushes
        <3>4. flush' \in [Consumers -> Flushes]
            BY <1>0, <3>1, <3>3, FlushType
        <3>5. global' \in Globals
            BY <1>4, <2>1, <3>1
        <3> QED BY <1>0, <1>7, <3>1, <3>2, <3>4, <3>5 DEF MarkAncient, TypeOK
    <2>3. CASE ~f.ok
        <3>1. /\ global' = [ScanTo(f.id) EXCEPT !.failed = c] /\ lanes' = Queued(lanes, f.id) /\ UNCHANGED outbox
              /\ SetFlush(c, [f EXCEPT !.pc = "page", !.page = @ \ {f.id}, !.left = @ - 1, !.id = 0,
                                       !.blocked = @ \cup {Scope(f.id)}])
            BY <1>7, <2>3 DEF MarkAncient
        <3>2. lanes' \in [Scopes -> Nat]
            <4>1. Queued(lanes, f.id) \in [Scopes -> 0 .. Len(outbox)]
                BY <1>0, <1>1, <2>1, QueuedType
            <4> QED BY <1>0, <3>1, <4>1
        <3>3. f.blocked \cup {Scope(f.id)} \in SUBSET Scopes
            BY <1>0, <1>3, <2>1
        <3>4. [f EXCEPT !.pc = "page", !.page = @ \ {f.id}, !.left = @ - 1, !.id = 0,
                        !.blocked = @ \cup {Scope(f.id)}] \in Flushes
            BY <1>0, <1>3, <1>p, <2>1, <3>3 DEF Flushes
        <3>5. flush' \in [Consumers -> Flushes]
            BY <1>0, <3>1, <3>4, FlushType
        <3>6. global' \in Globals
            BY <1>4, <2>1, <3>1
        <3> QED BY <1>0, <1>7, <3>1, <3>2, <3>5, <3>6 DEF MarkAncient, TypeOK
    <2> QED BY <2>2, <2>3
<1>8. CASE PassBlocked(c)
    <2>1. Least(f.page) \in Nat /\ f.left - 1 \in Nat
        <3>1. f.pc = "page" /\ f.page # {}
            BY <1>8 DEF PassBlocked
        <3>2. Least(f.page) \in f.page /\ f.page \subseteq 1 .. Len(outbox)
            BY <3>1, FirstOfPage
        <3>3. f.left > 0
            BY <3>1, <3>2, FirstOfPage
        <3> QED BY <1>0, <1>3, <3>2, <3>3
    <2>2. [f EXCEPT !.page = @ \ {Least(f.page)}, !.left = @ - 1] \in Flushes
        BY <1>0, <1>3, <2>1 DEF Flushes
    <2>3. flush' \in [Consumers -> Flushes]
        BY <1>0, <1>8, <2>2, FlushType DEF PassBlocked
    <2>4. global' \in Globals
        BY <1>4, <1>8, <2>1 DEF PassBlocked
    <2> QED BY <1>0, <1>8, <2>3, <2>4 DEF PassBlocked, TypeOK
<1>9. CASE EndPage(c)
    <2>1. global' \in Globals
        BY <1>0, <1>3, <1>4, <1>9 DEF EndPage
    <2>2. PICK b, pc : b = (global'.scan >= global'.through) /\ pc = IF f.left > 0 THEN "global_lanes" ELSE "release"
        OBVIOUS
    <2>3. b \in BOOLEAN /\ pc \in Pcs
        BY <1>p, <2>2
    <2>4. SetFlush(c, [Idle EXCEPT !.pc = pc, !.fence = f.fence, !.left = f.left, !.complete = b])
        BY <1>9, <2>2 DEF EndPage
    <2>5. [Idle EXCEPT !.pc = pc, !.fence = f.fence, !.left = f.left, !.complete = b] \in Flushes
        BY <1>3, <2>3, IdleType DEF Flushes
    <2>6. flush' \in [Consumers -> Flushes]
        BY <1>0, <2>4, <2>5, FlushType
    <2> QED BY <1>0, <1>9, <2>1, <2>6 DEF EndPage, TypeOK
<1>10. CASE MarkLane(c)
    <2>1. f.id \in 1 .. Len(outbox) /\ f.left - 1 \in Nat
        BY <1>0, <1>3, <1>10 DEF IInv, FlushInv, MarkLane
    <2>2. [f EXCEPT !.pc = "global_lanes", !.left = @ - 1, !.id = 0, !.ok = FALSE] \in Flushes
        BY <1>0, <1>3, <1>p, <2>1 DEF Flushes
    <2>3. flush' \in [Consumers -> Flushes]
        BY <1>0, <1>10, <2>2, FlushType DEF MarkLane
    <2>4. CASE f.ok
        <3> DEFINE R == {i \in Unpublished : Scope(i) = Scope(f.id) /\ i > f.id /\ i <= global.through}
        <3>1. Publish(f.id) /\ lanes' = [lanes EXCEPT ![Scope(f.id)] = Head0(R)] /\ UNCHANGED global
            BY <1>10, <2>4 DEF MarkLane
        <3>2. R \in SUBSET (1 .. Len(outbox))
            BY <1>0, TableFacts
        <3> HIDE DEF R
        <3>3. lanes' \in [Scopes -> Nat]
            <4>1. Head0(R) \in Nat /\ lanes \in [Scopes -> Nat]
                BY <1>0, <1>2, <3>2 DEF TypeOK
            <4> QED BY <3>1, <4>1
        <3>4. outbox' \in Seq(Rows)
            BY <1>0, <2>1, <3>1, PublishKeeps DEF TableKept
        <3> QED BY <1>0, <1>10, <2>3, <3>1, <3>3, <3>4 DEF MarkLane, TypeOK
    <2>5. CASE ~f.ok
        <3>1. global' = [global EXCEPT !.failed = c] /\ lanes' = Queued(lanes, f.id) /\ UNCHANGED outbox
            BY <1>10, <2>5 DEF MarkLane
        <3>2. lanes' \in [Scopes -> Nat]
            <4>1. Queued(lanes, f.id) \in [Scopes -> 0 .. Len(outbox)]
                BY <1>0, <1>1, <2>1, QueuedType
            <4> QED BY <1>0, <3>1, <4>1
        <3>3. global' \in Globals
            BY <1>0, <3>1
        <3> QED BY <1>0, <1>10, <2>3, <3>1, <3>2, <3>3 DEF MarkLane, TypeOK
    <2> QED BY <2>4, <2>5
<1> QED BY <1>5, <1>6, <1>7, <1>8, <1>9, <1>10

\* What pruning leaves: the consumers that were not dropped, and the rows it did not delete.
PrunedTo(c, stale, cons, k) ==
    /\ stale \subseteq Consumers \ {c}
    /\ cons = [d \in Consumers |-> IF d \in stale THEN [consumer[d] EXCEPT !.registered = FALSE, !.lane = NoLanes]
                                                  ELSE consumer[d]]
    /\ k \in Nat /\ \A d \in Consumers : cons[d].registered => k <= cons[d].cursor
    /\ consumer' = cons
    /\ outbox' = [i \in DOMAIN outbox |->
                    IF outbox[i].status = "published" /\ i <= k /\ ~InLane(cons, i)
                      THEN [outbox[i] EXCEPT !.status = "pruned"] ELSE outbox[i]]

LEMMA PruneIsSafe ==
    ASSUME TypeOK, NEW c \in Consumers, Prune(c)
    PROVE  \E stale, cons, k : PrunedTo(c, stale, cons, k)
<1> DEFINE Cons(stale) == [d \in Consumers |-> IF d \in stale THEN [consumer[d] EXCEPT !.registered = FALSE, !.lane = NoLanes]
                                                              ELSE consumer[d]]
           Safe(cons) == Least({cons[d].cursor : d \in {e \in Consumers : cons[e].registered}})
           Table(cons, k) == [i \in DOMAIN outbox |->
                                IF outbox[i].status = "published" /\ i <= k /\ ~InLane(cons, i)
                                  THEN [outbox[i] EXCEPT !.status = "pruned"] ELSE outbox[i]]
<1>1. PICK stale \in SUBSET (Consumers \ {c}) :
         /\ consumer' = Cons(stale)
         /\ \E k \in 0 .. (IF Safe(Cons(stale)) < ReplayFloor THEN Safe(Cons(stale)) ELSE ReplayFloor) :
              outbox' = Table(Cons(stale), k)
    BY DEF Prune
<1> DEFINE cons == Cons(stale)
           S == {cons[d].cursor : d \in {e \in Consumers : cons[e].registered}}
<1>2. PICK k \in 0 .. (IF Least(S) < ReplayFloor THEN Least(S) ELSE ReplayFloor) : outbox' = Table(cons, k)
    BY <1>1
<1>3. \A d \in Consumers : cons[d].cursor = consumer[d].cursor /\ consumer[d].cursor \in Nat
    BY DEF TypeOK
<1>4. cons[c].registered
    BY <1>1 DEF Prune
<1>e. consumer' = cons /\ stale \subseteq Consumers \ {c} /\ cons = Cons(stale)
    BY <1>1
<1> HIDE DEF cons
<1>5. S \subseteq Nat /\ S # {}
    BY <1>3, <1>4
<1>6. \A d \in Consumers : cons[d].registered => cons[d].cursor \in S
    OBVIOUS
<1> HIDE DEF S
<1>7. Least(S) \in Nat /\ \A n \in S : Least(S) <= n
    BY <1>5, LeastIsLeast
<1>8. ReplayFloor \in Nat
    BY FloorIsRow
<1>9. k \in Nat /\ k <= Least(S)
    BY <1>7, <1>8
<1>10. \A d \in Consumers : cons[d].registered => k <= cons[d].cursor
    BY <1>3, <1>6, <1>7, <1>9
<1> HIDE DEF Cons, Table
<1>11. PrunedTo(c, stale, cons, k)
    BY <1>e, <1>2, <1>9, <1>10 DEF PrunedTo, Cons, Table
<1> QED BY <1>11

\* Pruning deletes only published rows that every consumer has passed.
LEMMA PruneKeeps ==
    ASSUME TypeOK, CursorsInv, NEW c \in Consumers, NEW stale, NEW cons, NEW k, PrunedTo(c, stale, cons, k)
    PROVE  /\ TableKept /\ Len(outbox') = Len(outbox)
           /\ \A i \in 1 .. Len(outbox) : outbox'[i].status = "pruned" =>
                outbox[i].status = "pruned" \/ (i <= k /\ ~InLane(cons, i))
<1>0. /\ Len(outbox) \in Nat /\ DOMAIN outbox = 1 .. Len(outbox) /\ Len(outbox) <= MaxRows
      /\ \A i \in 1 .. Len(outbox) : outbox[i] \in Rows
    BY TableFacts DEF CursorsInv
<1> DEFINE Row(i) == IF outbox[i].status = "published" /\ i <= k /\ ~InLane(cons, i)
                       THEN [outbox[i] EXCEPT !.status = "pruned"] ELSE outbox[i]
<1>1. outbox' = [i \in 1 .. Len(outbox) |-> Row(i)]
    BY <1>0 DEF PrunedTo
<1>2. ASSUME NEW i \in 1 .. Len(outbox)
      PROVE  /\ Row(i) \in Rows /\ Row(i).scope = outbox[i].scope
             /\ Row(i).status = "unpublished" => outbox[i].status = "unpublished"
             /\ Row(i).status = "pruned" => outbox[i].status = "pruned" \/ (i <= k /\ ~InLane(cons, i))
    BY <1>0 DEF Rows
<1> HIDE DEF Row
<1>3. outbox' \in [1 .. Len(outbox) -> Rows] /\ \A i \in 1 .. Len(outbox) : outbox'[i] = Row(i)
    BY <1>1, <1>2
<1>4. outbox' \in Seq(Rows) /\ Len(outbox') = Len(outbox)
    BY <1>0, <1>3
<1> QED BY <1>0, <1>2, <1>3, <1>4 DEF TableKept

\* The consumer's own rows, and pruning.
LEMMA ConsumerType ==
    ASSUME IInv, NEW c \in Consumers, MainRow(c) \/ Prune(c) \/ \E s \in Scopes : ScopeRow(c, s)
    PROVE  TypeOK'
<1> DEFINE f == flush[c]
           me == consumer[c]
           States == [registered : BOOLEAN, cursor : Nat, lane : [Scopes -> Nat]]
<1>0. /\ TypeOK /\ CursorsInv /\ f \in Flushes /\ f.left \in Nat
      /\ consumer \in [Consumers -> States] /\ me \in States
      /\ Len(outbox) \in Nat /\ DOMAIN outbox = 1 .. Len(outbox) /\ Len(outbox) <= MaxRows
      /\ \A i \in 1 .. Len(outbox) : Scope(i) \in Scopes /\ i \in Nat /\ i \in Ids
    <2>1. TypeOK /\ CursorsInv
        BY DEF IInv
    <2>2. f \in Flushes /\ consumer \in [Consumers -> States]
        BY <2>1 DEF TypeOK
    <2>3. f.left \in Nat
        BY <2>2 DEF Flushes
    <2>4. /\ Len(outbox) \in Nat /\ DOMAIN outbox = 1 .. Len(outbox) /\ Len(outbox) <= MaxRows
          /\ \A i \in 1 .. Len(outbox) : Scope(i) \in Scopes
        BY <2>1, TableFacts DEF CursorsInv
    <2>5. \A i \in 1 .. Len(outbox) : i \in Nat /\ i \in Ids
        BY <2>4, OutboxAssumption DEF Ids
    <2> HIDE DEF States
    <2> QED BY <2>1, <2>2, <2>3, <2>4, <2>5
<1>1. me.lane \in [Scopes -> 0 .. Len(outbox)]
    BY <1>0, LanesAreRows
<1>2. heard \in [Consumers -> SUBSET Ids] /\ \A i \in 1 .. Len(outbox) : Hear(c, i) => heard' \in [Consumers -> SUBSET Ids]
    <2>1. heard \in [Consumers -> SUBSET Ids]
        BY <1>0 DEF TypeOK
    <2>2. ASSUME NEW i \in 1 .. Len(outbox), Hear(c, i) PROVE heard' \in [Consumers -> SUBSET Ids]
        <3>1. heard[c] \cup {i} \in SUBSET Ids
            BY <1>0, <2>1
        <3> QED BY <2>1, <2>2, <3>1 DEF Hear
    <2> QED BY <2>1, <2>2
<1>3. \A j : Accepts(j) \/ Refuses(j) => faults' \in Nat
    BY <1>0 DEF Accepts, Refuses, Fault, TypeOK
<1>4. \A i \in 1 .. Len(outbox) : Publish(i) => outbox' \in Seq(Rows)
    BY <1>0, PublishKeeps DEF TableKept
<1>5. CASE MainRow(c)
    <2> DEFINE i == Least(Ahead(c))
    <2>1. i \in 1 .. Len(outbox)
        <3>1. Ahead(c) \subseteq 1 .. Len(outbox) /\ Ahead(c) \subseteq Nat
            BY <1>0, TableFacts DEF Ahead
        <3>2. Ahead(c) # {}
            BY <1>5 DEF MainRow
        <3> QED BY <3>1, <3>2, LeastIsLeast
    <2> HIDE DEF i
    <2>2. [f EXCEPT !.left = @ - 1] \in Flushes
        <3>1. f.left - 1 \in Nat
            BY <1>0, <1>5 DEF MainRow
        <3> QED BY <1>0, <3>1 DEF Flushes
    <2>3. flush' \in [Consumers -> Flushes]
        <3>1. SetFlush(c, [f EXCEPT !.left = @ - 1]) \/ SetFlush(c, Idle)
            BY <1>5 DEF MainRow, SetFlush
        <3> QED BY <1>0, <2>2, <3>1, FlushType, IdleType
    <2>4. consumer' \in [Consumers -> States]
        <3>1. Queued(me.lane, i) \in [Scopes -> 0 .. Len(outbox)]
            BY <1>0, <1>1, <2>1, QueuedType
        <3>2. Queued(me.lane, i) \in [Scopes -> Nat] /\ i \in Nat
            BY <1>0, <2>1, <3>1
        <3>3. [me EXCEPT !.cursor = i] \in States /\ [me EXCEPT !.cursor = i, !.lane = Queued(me.lane, i)] \in States
            BY <1>0, <3>2
        <3>4. \/ consumer' = [consumer EXCEPT ![c] = [me EXCEPT !.cursor = i]]
              \/ consumer' = [consumer EXCEPT ![c] = [me EXCEPT !.cursor = i, !.lane = Queued(me.lane, i)]]
              \/ consumer' = consumer
            BY <1>5 DEF MainRow, i
        <3> HIDE DEF States
        <3> QED BY <1>0, <3>3, <3>4
    <2>5. heard' \in [Consumers -> SUBSET Ids]
        BY <1>2, <1>5, <2>1 DEF MainRow, i
    <2>6. outbox' \in Seq(Rows)
        BY <1>0, <1>4, <1>5, <2>1 DEF MainRow, i, TypeOK
    <2>7. faults' \in Nat
        BY <1>0, <1>3, <1>5 DEF MainRow, Held, TypeOK
    <2>8. UNCHANGED <<global, lanes, skipped>>
        BY <1>5 DEF MainRow
    <2> QED BY <1>0, <2>3, <2>4, <2>5, <2>6, <2>7, <2>8 DEF TypeOK
<1>6. CASE \E s \in Scopes : ScopeRow(c, s)
    <2>1. PICK s \in Scopes : ScopeRow(c, s)
        BY <1>6
    <2> DEFINE i == me.lane[s]
               rest == {j \in Kept : Scope(j) = s /\ j > i /\ j <= me.cursor}
    <2>2. i \in 1 .. Len(outbox)
        BY <1>0, <1>1, <2>1 DEF ScopeRow
    <2>3. Head0(rest) \in Nat
        <3>1. rest \subseteq Nat
            BY <1>0, TableFacts
        <3> HIDE DEF rest
        <3> QED BY <3>1, HeadOfLane
    <2>4. [f EXCEPT !.left = @ - 1] \in Flushes
        <3>1. f.left - 1 \in Nat
            BY <1>0, <2>1 DEF ScopeRow
        <3> QED BY <1>0, <3>1 DEF Flushes
    <2>5. flush' \in [Consumers -> Flushes]
        <3>1. SetFlush(c, [f EXCEPT !.left = @ - 1])
            BY <2>1 DEF ScopeRow, SetFlush
        <3> QED BY <1>0, <2>4, <3>1, FlushType
    <2>6. consumer' \in [Consumers -> States]
        <3>1. consumer' = [consumer EXCEPT ![c].lane[s] = Head0(rest)] \/ consumer' = consumer
            BY <2>1 DEF ScopeRow
        <3> HIDE DEF rest
        <3>2. [me EXCEPT !.lane[s] = Head0(rest)] \in States
            BY <1>0, <2>3
        <3>3. consumer' = [consumer EXCEPT ![c] = [me EXCEPT !.lane[s] = Head0(rest)]] \/ consumer' = consumer
            BY <1>0, <3>1
        <3> HIDE DEF States
        <3> QED BY <1>0, <3>2, <3>3
    <2> HIDE DEF i, rest
    <2>7. heard' \in [Consumers -> SUBSET Ids]
        BY <1>2, <2>1, <2>2 DEF ScopeRow, i
    <2>8. outbox' \in Seq(Rows)
        BY <1>0, <1>4, <2>1, <2>2 DEF ScopeRow, i, TypeOK
    <2>9. faults' \in Nat
        BY <1>3, <2>1 DEF ScopeRow
    <2>10. UNCHANGED <<global, lanes, skipped>>
        BY <2>1 DEF ScopeRow
    <2> QED BY <1>0, <2>5, <2>6, <2>7, <2>8, <2>9, <2>10 DEF TypeOK
<1>7. CASE Prune(c)
    <2>1. PICK stale, cons, k : PrunedTo(c, stale, cons, k)
        BY <1>0, <1>7, PruneIsSafe
    <2>2. outbox' \in Seq(Rows)
        BY <1>0, <2>1, PruneKeeps DEF TableKept
    <2>3. consumer' \in [Consumers -> States]
        <3>1. NoLanes \in [Scopes -> Nat]
            BY DEF NoLanes
        <3>2. \A d \in Consumers : [consumer[d] EXCEPT !.registered = FALSE, !.lane = NoLanes] \in States
            BY <1>0, <3>1
        <3> HIDE DEF States
        <3> QED BY <1>0, <2>1, <3>2 DEF PrunedTo
    <2>4. flush' \in [Consumers -> Flushes]
        BY <1>0, <1>7, FlushType, IdleType DEF Prune
    <2>5. faults' \in Nat
        <3>1. faults' = faults \/ faults' = faults + 1
            BY <1>7, Zenon DEF Prune, Fault
        <3> QED BY <1>0, <3>1 DEF TypeOK
    <2>6. UNCHANGED <<global, lanes, heard, skipped>>
        BY <1>7 DEF Prune
    <2> QED BY <1>0, <2>2, <2>3, <2>4, <2>5, <2>6 DEF TypeOK
<1> QED BY <1>5, <1>6, <1>7

\* The row a main page handles next.
LEMMA NextRow ==
    ASSUME TypeOK, NEW c \in Consumers, Ahead(c) # {}
    PROVE  /\ Least(Ahead(c)) \in 1 .. Len(outbox) /\ Least(Ahead(c)) \in Ahead(c)
           /\ \A j \in Ahead(c) : Least(Ahead(c)) <= j
<1>1. Ahead(c) \subseteq 1 .. Len(outbox) /\ Len(outbox) \in Nat
    BY TableFacts DEF Ahead
<1>2. Ahead(c) \in SUBSET Nat
    BY <1>1
<1> QED BY <1>1, <1>2, LeastIsLeast

\* The actions by what they touch; every proof about a step splits along this list.
LEMMA StepCases ==
    ASSUME [Next]_vars
    PROVE  \/ UNCHANGED vars
           \/ \E s \in Scopes : AppendRow(s)
           \/ \E c \in Consumers :
                \/ Ensure(c) \/ LoseScan(c) \/ Discover(c) \/ EndMain(c) \/ EndScopeLanes(c) \/ SkipPrune(c) \/ Crash(c)
                \/ Register(c) \/ TryAcquire(c) \/ ReleaseScan(c) \/ Close(c)
                \/ Normalize(c) \/ PublishAncient(c) \/ MarkAncient(c) \/ PassBlocked(c) \/ EndPage(c) \/ MarkLane(c)
                \/ (\E s \in Scopes : PublishLane(c, s))
                \/ MainRow(c) \/ Prune(c) \/ (\E s \in Scopes : ScopeRow(c, s))
           \/ Expire
BY DEF Next, FlushOutbox

LEMMA StepType == IInv /\ [Next]_vars => TypeOK'
<1> SUFFICES ASSUME IInv, [Next]_vars PROVE TypeOK'
    OBVIOUS
<1>0. TypeOK
    BY DEF IInv
<1>1. CASE UNCHANGED vars
    BY <1>0, <1>1 DEF TypeOK, vars
<1>2. CASE \E s \in Scopes : AppendRow(s)
    <2>1. outbox' \in Seq(Rows)
        BY <1>0, <1>2, AppendKeeps DEF IInv, TableKept
    <2> QED BY <1>0, <1>2, <2>1 DEF AppendRow, TypeOK
<1>3. CASE Expire
    <2>1. CASE \E c \in Consumers : TRUE
        BY <1>3, <2>1, TermType
    <2>2. CASE ~\E c \in Consumers : TRUE
        <3>1. global' = [global EXCEPT !.live = FALSE] /\ faults' \in Nat
            BY <1>0, <1>3 DEF Expire, Fault, TypeOK
        <3> QED BY <1>0, <1>3, <3>1 DEF Expire, TypeOK
    <2> QED BY <2>1, <2>2
<1> QED BY <1>1, <1>2, <1>3, StepCases, MoveType, TermType, ScanType, ConsumerType

-----------------------------------------------------------------------------
(* Who moves what. *)

\* Rows are kept by every step.
LEMMA StepTable == IInv /\ [Next]_vars => TableKept
<1> SUFFICES ASSUME IInv, [Next]_vars PROVE TableKept
    OBVIOUS
<1>0. TypeOK /\ CursorsInv /\ Len(outbox) \in Nat /\ DOMAIN outbox = 1 .. Len(outbox)
    BY TableFacts DEF IInv
<1>1. CASE outbox' = outbox
    BY <1>0, <1>1, SameTable
<1>2. CASE \E s \in Scopes : AppendRow(s)
    BY <1>0, <1>2, AppendKeeps
<1>3. CASE \E i \in 1 .. Len(outbox) : Publish(i)
    BY <1>0, <1>3, PublishKeeps
<1>4. CASE \E c \in Consumers : Prune(c)
    BY <1>0, <1>4, PruneIsSafe, PruneKeeps
<1>5. ASSUME NEW c \in Consumers, MarkAncient(c)
      PROVE  outbox' = outbox \/ \E i \in 1 .. Len(outbox) : Publish(i)
    <2>1. flush[c].id \in flush[c].page /\ flush[c].pc = "mark"
        BY <1>5 DEF IInv, FlushInv, MarkAncient
    <2>2. flush[c].id \in 1 .. Len(outbox)
        BY <2>1, FirstOfPage
    <2> QED BY <1>5, <2>2 DEF MarkAncient
<1>6. ASSUME NEW c \in Consumers, MarkLane(c)
      PROVE  outbox' = outbox \/ \E i \in 1 .. Len(outbox) : Publish(i)
    <2>1. flush[c].id \in 1 .. Len(outbox)
        BY <1>0, <1>6 DEF IInv, FlushInv, MarkLane
    <2> QED BY <1>6, <2>1 DEF MarkLane
<1>7. ASSUME NEW c \in Consumers, MainRow(c)
      PROVE  outbox' = outbox \/ \E i \in 1 .. Len(outbox) : Publish(i)
    <2>1. Least(Ahead(c)) \in 1 .. Len(outbox)
        BY <1>0, <1>7, NextRow DEF MainRow
    <2> QED BY <1>7, <2>1 DEF MainRow
<1>8. ASSUME NEW c \in Consumers, NEW s \in Scopes, ScopeRow(c, s)
      PROVE  outbox' = outbox \/ \E i \in 1 .. Len(outbox) : Publish(i)
    <2>1. consumer[c].lane[s] \in 1 .. Len(outbox)
        BY <1>0, <1>8, LanesAreRows DEF ScopeRow
    <2> QED BY <1>8, <2>1 DEF ScopeRow
<1>9. CASE \/ UNCHANGED vars \/ Expire
           \/ \E c \in Consumers :
                \/ Ensure(c) \/ LoseScan(c) \/ Discover(c) \/ EndMain(c) \/ EndScopeLanes(c) \/ SkipPrune(c) \/ Crash(c)
                \/ Register(c) \/ TryAcquire(c) \/ ReleaseScan(c) \/ Close(c)
                \/ Normalize(c) \/ PublishAncient(c) \/ PassBlocked(c) \/ EndPage(c)
                \/ (\E s \in Scopes : PublishLane(c, s))
    <2>1. outbox' = outbox
        BY <1>9 DEF vars, Expire, Ensure, LoseScan, Discover, EndMain, EndScopeLanes, SkipPrune, Crash, Register,
                    TryAcquire, ReleaseScan, Close, Normalize, PublishAncient, PassBlocked, EndPage, PublishLane
    <2> QED BY <1>1, <2>1
<1> QED BY <1>1, <1>2, <1>3, <1>4, <1>5, <1>6, <1>7, <1>8, <1>9, StepCases

\* Only the flush of c moves.
Moves(c, pc) == flush'[c].pc = pc /\ \A d \in Consumers : d # c => flush'[d] = flush[d]

LEMMA MarkedOk ==
    ASSUME IInv, NEW c \in Consumers, MarkAncient(c), flush[c].ok
    PROVE  /\ flush[c].pc = "mark" /\ OwnsScan(c) /\ Moves(c, "page")
           /\ global' = ScanTo(flush[c].id) /\ Publish(flush[c].id) /\ lanes' = lanes
           /\ flush'[c].page = flush[c].page \ {flush[c].id} /\ flush'[c].left = flush[c].left - 1
           /\ flush'[c].upto = flush[c].upto /\ flush'[c].blocked = flush[c].blocked
           /\ flush'[c].floor = flush[c].floor
           /\ UNCHANGED <<consumer, heard, skipped, faults>>
<1> DEFINE g == [flush[c] EXCEPT !.pc = "page", !.page = @ \ {flush[c].id}, !.left = @ - 1, !.id = 0, !.ok = FALSE]
<1>1. flush \in [Consumers -> Flushes] /\ flush[c] \in Flushes
    BY DEF IInv, TypeOK
<1>2. /\ flush[c].pc = "mark" /\ OwnsScan(c) /\ SetFlush(c, g)
      /\ global' = ScanTo(flush[c].id) /\ Publish(flush[c].id) /\ lanes' = lanes
      /\ UNCHANGED <<consumer, heard, skipped, faults>>
    BY DEF MarkAncient
<1>3. /\ g.pc = "page" /\ g.page = flush[c].page \ {flush[c].id} /\ g.left = flush[c].left - 1
      /\ g.upto = flush[c].upto /\ g.blocked = flush[c].blocked /\ g.floor = flush[c].floor
    BY <1>1 DEF Flushes
<1> HIDE DEF g
<1>4. flush'[c] = g /\ \A d \in Consumers : d # c => flush'[d] = flush[d]
    BY <1>1, <1>2 DEF SetFlush
<1> QED BY <1>2, <1>3, <1>4 DEF Moves

LEMMA MarkedFailed ==
    ASSUME IInv, NEW c \in Consumers, MarkAncient(c), ~flush[c].ok
    PROVE  /\ flush[c].pc = "mark" /\ OwnsScan(c) /\ Moves(c, "page")
           /\ global' = [ScanTo(flush[c].id) EXCEPT !.failed = c] /\ outbox' = outbox
           /\ lanes' = Queued(lanes, flush[c].id)
           /\ flush'[c].page = flush[c].page \ {flush[c].id} /\ flush'[c].left = flush[c].left - 1
           /\ flush'[c].upto = flush[c].upto /\ flush'[c].blocked = flush[c].blocked \cup {Scope(flush[c].id)}
           /\ flush'[c].floor = flush[c].floor
           /\ UNCHANGED <<consumer, heard, skipped, faults>>
<1> DEFINE g == [flush[c] EXCEPT !.pc = "page", !.page = @ \ {flush[c].id}, !.left = @ - 1, !.id = 0,
                                 !.blocked = @ \cup {Scope(flush[c].id)}]
<1>1. flush \in [Consumers -> Flushes] /\ flush[c] \in Flushes
    BY DEF IInv, TypeOK
<1>2. /\ flush[c].pc = "mark" /\ OwnsScan(c) /\ SetFlush(c, g)
      /\ global' = [ScanTo(flush[c].id) EXCEPT !.failed = c] /\ outbox' = outbox
      /\ lanes' = Queued(lanes, flush[c].id)
      /\ UNCHANGED <<consumer, heard, skipped, faults>>
    BY DEF MarkAncient
<1>3. /\ g.pc = "page" /\ g.page = flush[c].page \ {flush[c].id} /\ g.left = flush[c].left - 1
      /\ g.upto = flush[c].upto /\ g.blocked = flush[c].blocked \cup {Scope(flush[c].id)}
      /\ g.floor = flush[c].floor
    BY <1>1 DEF Flushes
<1> HIDE DEF g
<1>4. flush'[c] = g /\ \A d \in Consumers : d # c => flush'[d] = flush[d]
    BY <1>1, <1>2 DEF SetFlush
<1> QED BY <1>2, <1>3, <1>4 DEF Moves

\* The scan cursor and the lanes move only with the holder of the term.
LEMMA ScannerActs ==
    ASSUME IInv, [Next]_vars, ~(global'.scan = global.scan /\ lanes' = lanes)
    PROVE  \E c \in Consumers : flush'[c] # flush[c] /\ OwnsScan(c) /\ global'.owner = c
<1> DEFINE Globals == [scan : Nat, through : Nat, owner : Consumers \cup {NoOwner}, fence : Nat,
                       live : BOOLEAN, failed : Consumers \cup {NoOwner}]
<1>0. TypeOK /\ global \in Globals /\ flush \in [Consumers -> Flushes]
    BY DEF IInv, TypeOK
<1>1. \A i : ScanTo(i).owner = global.owner /\ \A c : [ScanTo(i) EXCEPT !.failed = c].owner = global.owner
    BY <1>0 DEF ScanTo
<1>2. ASSUME NEW c \in Consumers, Normalize(c)
      PROVE  flush'[c] # flush[c] /\ OwnsScan(c) /\ global'.owner = c
    <2>1. flush'[c].pc = "discover"
        BY <1>0, <1>2 DEF Normalize, Goto, Flushes
    <2> QED BY <1>2, <2>1 DEF Normalize, OwnsScan
<1>3. ASSUME NEW c \in Consumers, MarkAncient(c)
      PROVE  flush'[c] # flush[c] /\ OwnsScan(c) /\ global'.owner = c
    <2>1. flush'[c].pc = "page"
        <3>1. CASE flush[c].ok
            BY <1>3, <3>1, MarkedOk DEF Moves
        <3>2. CASE ~flush[c].ok
            BY <1>3, <3>2, MarkedFailed DEF Moves
        <3> QED BY <3>1, <3>2
    <2>2. global'.owner = global.owner
        BY <1>1, <1>3 DEF MarkAncient
    <2> QED BY <1>3, <2>1, <2>2 DEF MarkAncient, OwnsScan
<1>4. ASSUME NEW c \in Consumers, PassBlocked(c)
      PROVE  flush'[c] # flush[c] /\ OwnsScan(c) /\ global'.owner = c
    <2>0. flush[c].pc = "page" /\ flush[c].page # {}
        BY <1>4 DEF PassBlocked
    <2>1. Least(flush[c].page) \in flush[c].page
        BY <2>0, FirstOfPage
    <2>2. flush'[c].page = flush[c].page \ {Least(flush[c].page)}
        BY <1>0, <1>4 DEF PassBlocked, SetFlush, Flushes
    <2>3. global'.owner = global.owner
        BY <1>1, <1>4 DEF PassBlocked
    <2>4. flush'[c].page # flush[c].page
        BY <2>1, <2>2
    <2> QED BY <1>4, <2>3, <2>4 DEF PassBlocked, OwnsScan
<1>5. ASSUME NEW c \in Consumers, EndPage(c)
      PROVE  flush'[c] # flush[c] /\ OwnsScan(c) /\ global'.owner = c
    <2>1. lanes' = lanes /\ global' # global
        BY <1>5 DEF EndPage
    <2>2. flush[c].left > 0 /\ OwnsScan(c) /\ global' = ScanTo(flush[c].upto)
        BY <1>5, <2>1 DEF EndPage
    <2>3. flush'[c].pc # "page" /\ flush[c].pc = "page"
        BY <1>0, <1>5 DEF EndPage, SetFlush, Idle
    <2> QED BY <1>1, <2>2, <2>3 DEF OwnsScan
<1>6. ASSUME NEW c \in Consumers, MarkLane(c)
      PROVE  flush'[c] # flush[c] /\ OwnsScan(c) /\ global'.owner = c
    <2>1. flush'[c].pc = "global_lanes"
        BY <1>0, <1>6 DEF MarkLane, SetFlush, Flushes
    <2>2. global'.owner = global.owner
        BY <1>0, <1>6 DEF MarkLane
    <2> QED BY <1>6, <2>1, <2>2 DEF MarkLane, OwnsScan
<1>7. CASE \/ Expire
           \/ \E c \in Consumers : Register(c) \/ TryAcquire(c) \/ ReleaseScan(c) \/ Close(c)
    <2>1. lanes' = lanes
        BY <1>7 DEF Expire, Register, TryAcquire, ReleaseScan, Close
    <2>2. global'.scan = global.scan
        <3>1. CASE Expire
            BY <1>0, <3>1 DEF Expire
        <3>2. ASSUME NEW c \in Consumers, Register(c) PROVE global'.scan = global.scan
            BY <1>0, <3>2 DEF Register
        <3>3. ASSUME NEW c \in Consumers, TryAcquire(c) PROVE global'.scan = global.scan
            BY <1>0, <3>3 DEF TryAcquire
        <3>4. ASSUME NEW c \in Consumers, ReleaseScan(c) \/ Close(c) PROVE global'.scan = global.scan
            BY <1>0, <3>4 DEF ReleaseScan, Close
        <3> QED BY <1>7, <3>1, <3>2, <3>3, <3>4
    <2> QED BY <2>1, <2>2
<1>8. CASE \/ UNCHANGED vars \/ \E s \in Scopes : AppendRow(s)
           \/ \E c \in Consumers :
                \/ Ensure(c) \/ LoseScan(c) \/ Discover(c) \/ EndMain(c) \/ EndScopeLanes(c) \/ SkipPrune(c) \/ Crash(c)
                \/ PublishAncient(c) \/ MainRow(c) \/ Prune(c)
                \/ (\E s \in Scopes : PublishLane(c, s)) \/ (\E s \in Scopes : ScopeRow(c, s))
    <2>1. global' = global /\ lanes' = lanes
        BY ZenonT(60), <1>8 DEF vars, AppendRow, Ensure, LoseScan, Discover, EndMain, EndScopeLanes, SkipPrune, Crash,
                    PublishAncient, PublishLane, MainRow, Prune, ScopeRow
    <2> QED BY <2>1
<1> QED BY <1>2, <1>3, <1>4, <1>5, <1>6, <1>7, <1>8, StepCases

\* A process that does not move does not gain the term, and its range only grows.
TermStays ==
    /\ global.through <= global'.through
    /\ \A d \in Consumers : flush'[d] = flush[d] /\ Holds(d)' => Holds(d)

LEMMA TermKept ==
    ASSUME IInv, [Next]_vars
    PROVE  TermStays
<1> DEFINE Globals == [scan : Nat, through : Nat, owner : Consumers \cup {NoOwner}, fence : Nat,
                       live : BOOLEAN, failed : Consumers \cup {NoOwner}]
<1>0. TypeOK /\ global \in Globals /\ flush \in [Consumers -> Flushes]
    BY DEF IInv, TypeOK
<1>1. ASSUME global'.through = global.through, global'.owner = global.owner, global'.live = global.live PROVE TermStays
    BY <1>0, <1>1 DEF Holds, TermStays
<1>2. ASSUME global'.through = global.through, ~global'.live PROVE TermStays
    BY <1>0, <1>2 DEF Holds, TermStays
<1>3. \A i : /\ ScanTo(i).owner = global.owner /\ ScanTo(i).live = global.live /\ ScanTo(i).through = global.through
             /\ \A c : LET g == [ScanTo(i) EXCEPT !.failed = c]
                       IN  g.owner = global.owner /\ g.live = global.live /\ g.through = global.through
    BY <1>0 DEF ScanTo
<1>4. ASSUME NEW c \in Consumers, MarkAncient(c) \/ PassBlocked(c) \/ EndPage(c) PROVE TermStays
    <2>1. global'.through = global.through /\ global'.owner = global.owner /\ global'.live = global.live
        <3>1. \/ \E i : global' = ScanTo(i) \/ global' = [ScanTo(i) EXCEPT !.failed = c]
              \/ global' = global
            BY <1>4, Zenon DEF MarkAncient, PassBlocked, EndPage
        <3> QED BY ZenonT(60), <1>3, <3>1
    <2> QED BY <1>1, <2>1
<1>5. ASSUME NEW c \in Consumers, MarkLane(c) PROVE TermStays
    <2>1. global'.through = global.through /\ global'.owner = global.owner /\ global'.live = global.live
        BY <1>0, <1>5 DEF MarkLane
    <2> QED BY <1>1, <2>1
<1>6. ASSUME NEW c \in Consumers, Register(c) PROVE TermStays
    <2>1. /\ global'.owner = global.owner /\ global'.live = global.live
          /\ global'.through = IF global.through < flush[c].floor THEN flush[c].floor ELSE global.through
        BY <1>0, <1>6 DEF Register
    <2>2. flush[c].floor \in Nat /\ global.through \in Nat
        BY <1>0 DEF Flushes
    <2> QED BY <2>1, <2>2 DEF Holds, TermStays
<1>7. ASSUME NEW c \in Consumers, TryAcquire(c) PROVE TermStays
    <2>1. CASE UNCHANGED global
        BY <1>1, <2>1
    <2>2. CASE ~UNCHANGED global
        <3>1. global'.owner = c /\ global'.through = global.through /\ flush'[c].pc = "normalize"
            <4>1. PICK fence : /\ global' = [global EXCEPT !.owner = c, !.fence = fence, !.live = TRUE]
                               /\ SetFlush(c, [Idle EXCEPT !.pc = "normalize", !.fence = fence])
                BY <1>7, <2>2 DEF TryAcquire
            <4>2. flush'[c] = [Idle EXCEPT !.pc = "normalize", !.fence = fence]
                BY <1>0, <4>1 DEF SetFlush
            <4> QED BY <1>0, <4>1, <4>2 DEF Idle
        <3>2. flush[c].pc = "acquire"
            BY <1>7 DEF TryAcquire
        <3> QED BY <1>0, <3>1, <3>2 DEF Holds, TermStays
    <2> QED BY <2>1, <2>2
<1>8. ASSUME NEW c \in Consumers, ReleaseScan(c) \/ Close(c) PROVE TermStays
    <2>1. CASE UNCHANGED global
        BY <1>1, <2>1
    <2>2. CASE ~UNCHANGED global
        <3>1. ~global'.live /\ global'.through = global.through
            BY <1>0, <1>8, <2>2 DEF ReleaseScan, Close
        <3> QED BY <1>2, <3>1
    <2> QED BY <2>1, <2>2
<1>9. CASE Expire
    <2>1. ~global'.live /\ global'.through = global.through
        BY <1>0, <1>9 DEF Expire
    <2> QED BY <1>2, <2>1
<1>10. CASE \/ UNCHANGED vars \/ \E s \in Scopes : AppendRow(s)
            \/ \E c \in Consumers :
                 \/ Ensure(c) \/ LoseScan(c) \/ Discover(c) \/ EndMain(c) \/ EndScopeLanes(c) \/ SkipPrune(c) \/ Crash(c)
                 \/ Normalize(c) \/ PublishAncient(c) \/ MainRow(c) \/ Prune(c)
                 \/ (\E s \in Scopes : PublishLane(c, s)) \/ (\E s \in Scopes : ScopeRow(c, s))
    <2>1. global' = global
        BY ZenonT(60), <1>10 DEF vars, AppendRow, Ensure, LoseScan, Discover, EndMain, EndScopeLanes, SkipPrune, Crash,
                     Normalize, PublishAncient, PublishLane, MainRow, Prune, ScopeRow
    <2> QED BY <1>1, <2>1
<1> QED BY <1>4, <1>5, <1>6, <1>7, <1>8, <1>9, <1>10, StepCases

\* What TableKept says of the sets the properties speak of.
LEMMA TableMoves ==
    ASSUME IInv, TableKept
    PROVE  /\ Len(outbox) \in Nat /\ Len(outbox') \in Nat /\ Len(outbox) <= Len(outbox')
           /\ DOMAIN outbox = 1 .. Len(outbox) /\ DOMAIN outbox' = 1 .. Len(outbox')
           /\ \A i \in 1 .. Len(outbox) : Scope(i)' = Scope(i) /\ Scope(i) \in Scopes
           /\ \A i \in 1 .. Len(outbox) : i \in Unpublished' => i \in Unpublished
           /\ Unpublished \subseteq 1 .. Len(outbox) /\ Unpublished' \subseteq 1 .. Len(outbox')
<1>1. /\ Len(outbox) \in Nat /\ DOMAIN outbox = 1 .. Len(outbox)
      /\ \A i \in 1 .. Len(outbox) : Scope(i) \in Scopes
    BY TableFacts DEF IInv
<1>2. outbox' \in Seq(Rows) /\ Len(outbox) <= Len(outbox')
    BY DEF TableKept
<1>3. Len(outbox') \in Nat /\ DOMAIN outbox' = 1 .. Len(outbox')
    BY <1>2, LenProperties
<1>4. \A i \in 1 .. Len(outbox) : i \in 1 .. Len(outbox') /\ Scope(i)' = Scope(i)
    BY <1>1, <1>2, <1>3 DEF TableKept, Scope
<1>5. ASSUME NEW i \in 1 .. Len(outbox), i \in Unpublished' PROVE i \in Unpublished
    BY <1>1, <1>5 DEF TableKept, Unpublished
<1>6. Unpublished \subseteq 1 .. Len(outbox) /\ Unpublished' \subseteq 1 .. Len(outbox')
    BY <1>1, <1>3 DEF Unpublished
<1> QED BY <1>1, <1>2, <1>3, <1>4, <1>5, <1>6

\* A step of another process leaves what a flush remembers true: rows are not unpublished again, the
\* range only grows, and while the term is held nobody else moves the scan or a lane.
LEMMA OtherKeeps ==
    ASSUME IInv, [Next]_vars, NEW d \in Consumers, flush'[d] = flush[d]
    PROVE  FlushInv(d)' /\ ScanInv(d)'
<1> DEFINE f == flush[d]
<1>1. TableKept /\ TermStays
    BY StepTable, TermKept
<1>2. FlushInv(d) /\ ScanInv(d) /\ f \in Flushes
    BY DEF IInv, TypeOK
<1>3. /\ global.through \in Nat /\ global'.through \in Nat /\ global.through <= global'.through
      /\ global.through <= Len(outbox)
    BY <1>1, StepType DEF IInv, TypeOK, CursorsInv, TermStays
<1>4. f.upto \in Nat /\ f.id \in Nat /\ f.left \in Nat
    BY <1>2 DEF Flushes
<1>5. /\ Len(outbox) \in Nat /\ Len(outbox') \in Nat /\ Len(outbox) <= Len(outbox')
      /\ DOMAIN outbox = 1 .. Len(outbox) /\ DOMAIN outbox' = 1 .. Len(outbox')
      /\ \A i \in 1 .. Len(outbox) : Scope(i)' = Scope(i)
      /\ \A i \in 1 .. Len(outbox) : i \in Unpublished' => i \in Unpublished
      /\ Unpublished' \subseteq 1 .. Len(outbox')
    BY <1>1, TableMoves
<1>6. CASE f.pc \in {"page", "mark"}
    <2>1. /\ f.page \subseteq 1 .. f.upto /\ f.upto <= global.through /\ Cardinality(f.page) <= f.left
          /\ f.page \subseteq 1 .. Len(outbox)
        BY <1>2, <1>6, FirstOfPage DEF FlushInv
    <2>2. f.upto <= global'.through
        BY <1>3, <1>4, <2>1
    <2>3. f.pc = "mark" => f.id \in f.page /\ (\A j \in f.page : f.id <= j) /\ Scope(f.id)' \notin f.blocked
        BY <1>2, <1>5, <2>1 DEF FlushInv
    <2>4. FlushInv(d)'
        BY <1>6, <2>1, <2>2, <2>3 DEF FlushInv
    <2>5. ASSUME Holds(d)' PROVE ScanInv(d)'
        <3>1. Holds(d)
            BY <1>1, <2>5 DEF TermStays
        <3>2. global'.scan = global.scan /\ lanes' = lanes
            BY <3>1, ScannerActs DEF OwnsScan, Holds
        <3>3. ASSUME NEW i \in Unpublished', global'.scan < i /\ i <= f.upto
              PROVE  i \in f.page \/ (f.left <= Cardinality(f.page) /\ \A j \in f.page : j < i)
            <4>1. i \in Nat /\ i \in 1 .. Len(outbox)
                BY <1>3, <1>4, <1>5, <2>1, <3>3
            <4>2. i \in Unpublished
                BY <1>5, <4>1
            <4> QED BY <1>2, <1>6, <3>1, <3>2, <3>3, <4>2 DEF ScanInv
        <3>4. f.blocked = {s \in Scopes : lanes'[s] # 0}
            BY <1>2, <1>6, <3>1, <3>2 DEF ScanInv
        <3> QED BY <1>6, <3>3, <3>4 DEF ScanInv
    <2>6. ~Holds(d)' => ScanInv(d)'
        BY DEF ScanInv
    <2> QED BY <2>4, <2>5, <2>6
<1>7. CASE f.pc = "global_mark"
    <2>1. f.id \in 1 .. Len(outbox) /\ f.left > 0
        BY <1>2, <1>5, <1>7 DEF FlushInv
    <2>2. FlushInv(d)'
        BY <1>5, <1>7, <2>1 DEF FlushInv
    <2>3. ASSUME Holds(d)' PROVE f.id = lanes'[Scope(f.id)']
        <3>1. Holds(d)
            BY <1>1, <2>3 DEF TermStays
        <3>2. global'.scan = global.scan /\ lanes' = lanes
            BY <3>1, ScannerActs DEF OwnsScan, Holds
        <3>3. f.id = lanes[Scope(f.id)]
            BY <1>2, <1>7, <3>1 DEF ScanInv
        <3> QED BY <1>5, <2>1, <3>2, <3>3
    <2>4. ScanInv(d)'
        BY <1>7, <2>3 DEF ScanInv
    <2> QED BY <2>2, <2>4
<1>8. CASE f.pc \notin {"page", "mark", "global_mark"}
    BY <1>8 DEF FlushInv, ScanInv
<1> QED BY <1>6, <1>7, <1>8

-----------------------------------------------------------------------------
(* What the holder of the term remembers. *)

\* Outside the steps that hold a page or a row, nothing is remembered.
LEMMA Forgets ==
    ASSUME NEW c \in Consumers, flush'[c].pc \notin {"page", "mark", "global_mark"}
    PROVE  FlushInv(c)' /\ ScanInv(c)'
BY DEF FlushInv, ScanInv

\* The first row leaves the page.
LEMMA PageShrinks ==
    ASSUME IInv, TableKept, NEW c \in Consumers, flush[c].pc \in {"page", "mark"}, Holds(c),
           NEW i \in flush[c].page, \A j \in flush[c].page : i <= j,
           global'.through = global.through, global'.scan \in Nat,
           global.scan <= global'.scan, i <= global'.scan,
           flush'[c].pc = "page", flush'[c].page = flush[c].page \ {i}, flush'[c].left = flush[c].left - 1,
           flush'[c].upto = flush[c].upto,
           flush'[c].blocked = {s \in Scopes : lanes'[s] # 0}
    PROVE  FlushInv(c)' /\ ScanInv(c)'
<1> DEFINE f == flush[c]
<1>1. FlushInv(c) /\ ScanInv(c) /\ f \in Flushes
    BY DEF IInv, TypeOK
<1>2. /\ f.page \subseteq 1 .. f.upto /\ f.upto <= global.through /\ Cardinality(f.page) <= f.left
      /\ f.page \subseteq 1 .. Len(outbox) /\ Cardinality(f.page) \in Nat
      /\ Cardinality(f.page \ {i}) = Cardinality(f.page) - 1 /\ f.upto <= Len(outbox)
    BY <1>1, FirstOfPage DEF FlushInv
<1>3. f.left \in Nat /\ f.upto \in Nat /\ global.scan \in Nat
    BY <1>1 DEF Flushes, IInv, TypeOK
<1>4. FlushInv(c)'
    <2>1. f.page \ {i} \subseteq 1 .. f.upto /\ Cardinality(f.page \ {i}) <= f.left - 1
        BY <1>2, <1>3
    <2> QED BY <1>2, <2>1 DEF FlushInv
<1>5. ASSUME NEW k \in Unpublished', global'.scan < k /\ k <= f.upto
      PROVE  k \in f.page \ {i} \/ (f.left - 1 <= Cardinality(f.page \ {i}) /\ \A j \in f.page \ {i} : j < k)
    <2>1. k \in 1 .. Len(outbox) /\ k \in Nat /\ k # i /\ global.scan < k /\ i \in Nat
        BY SMTT(60), <1>2, <1>3, <1>5, TableMoves
    <2>2. k \in Unpublished
        BY <2>1, TableMoves
    <2>3. k \in f.page \/ (f.left <= Cardinality(f.page) /\ \A j \in f.page : j < k)
        BY <1>1, <1>5, <2>1, <2>2 DEF ScanInv
    <2> QED BY <1>2, <1>3, <2>1, <2>3
<1> QED BY <1>4, <1>5 DEF ScanInv

\* ScanTo() moves the scan cursor forward and nothing else.
LEMMA ScanToFacts ==
    ASSUME TypeOK, NEW i \in Nat
    PROVE  /\ ScanTo(i).scan \in Nat /\ global.scan <= ScanTo(i).scan /\ i <= ScanTo(i).scan
           /\ ScanTo(i).scan = global.scan \/ ScanTo(i).scan = i
           /\ ScanTo(i).through = global.through
           /\ ScanTo(i).owner = global.owner /\ ScanTo(i).live = global.live
           /\ \A c : LET g == [ScanTo(i) EXCEPT !.failed = c]
                     IN  g.scan = ScanTo(i).scan /\ g.through = global.through
<1> DEFINE Globals == [scan : Nat, through : Nat, owner : Consumers \cup {NoOwner}, fence : Nat,
                       live : BOOLEAN, failed : Consumers \cup {NoOwner}]
<1>1. global \in Globals
    BY DEF TypeOK
<1> QED BY <1>1 DEF ScanTo

\* Who owns the scan holds its term.
LEMMA OwnerHolds == \A c \in Consumers : OwnsScan(c) => Holds(c)
BY DEF OwnsScan, Holds

LEMMA MarkAncientRemembers ==
    ASSUME IInv, TableKept, NEW c \in Consumers, MarkAncient(c)
    PROVE  FlushInv(c)' /\ ScanInv(c)'
<1> DEFINE f == flush[c]
<1>0. TypeOK /\ f \in Flushes /\ f.pc = "mark" /\ OwnsScan(c) /\ Holds(c) /\ FlushInv(c) /\ ScanInv(c)
    BY OwnerHolds DEF IInv, TypeOK, MarkAncient
<1>1. f.id \in f.page /\ (\A j \in f.page : f.id <= j) /\ Scope(f.id) \notin f.blocked
    BY <1>0 DEF FlushInv
<1>2. f.id \in 1 .. Len(outbox) /\ f.id \in Nat /\ Scope(f.id) \in Scopes
    BY <1>0, <1>1, FirstOfPage, TableFacts
<1>3. f.blocked = {s \in Scopes : lanes[s] # 0}
    BY <1>0 DEF ScanInv
<1>4. CASE f.ok
    <2>1. /\ flush'[c].pc = "page" /\ global' = ScanTo(f.id) /\ lanes' = lanes
          /\ flush'[c].page = f.page \ {f.id} /\ flush'[c].left = f.left - 1 /\ flush'[c].upto = f.upto
          /\ flush'[c].blocked = f.blocked
        BY <1>4, MarkedOk DEF Moves
    <2>2. flush'[c].blocked = {s \in Scopes : lanes'[s] # 0}
        BY <1>3, <2>1
    <2>3. global'.through = global.through /\ global'.scan \in Nat /\ global.scan <= global'.scan /\ f.id <= global'.scan
        BY <1>0, <1>2, <2>1, ScanToFacts
    <2> QED BY <1>0, <1>1, <2>1, <2>2, <2>3, PageShrinks
<1>5. CASE ~f.ok
    <2>1. /\ flush'[c].pc = "page" /\ global' = [ScanTo(f.id) EXCEPT !.failed = c] /\ lanes' = Queued(lanes, f.id)
          /\ flush'[c].page = f.page \ {f.id} /\ flush'[c].left = f.left - 1 /\ flush'[c].upto = f.upto
          /\ flush'[c].blocked = f.blocked \cup {Scope(f.id)}
        BY <1>5, MarkedFailed DEF Moves
    <2>2. flush'[c].blocked = {s \in Scopes : lanes'[s] # 0}
        <3>1. \A s \in Scopes : lanes'[s] = IF s = Scope(f.id) /\ (lanes[s] = 0 \/ f.id < lanes[s]) THEN f.id ELSE lanes[s]
            <4>1. lanes \in [Scopes -> 0 .. Len(outbox)] /\ Len(outbox) \in Nat
                BY LanesAreRows, TableFacts DEF IInv
            <4>2. \A s \in Scopes : Queued(lanes, f.id)[s] = IF s = Scope(f.id) /\ (lanes[s] = 0 \/ f.id < lanes[s])
                                                             THEN f.id ELSE lanes[s]
                BY <1>2, <4>1, QueuedType
            <4> QED BY <2>1, <4>2
        <3>2. \A s \in Scopes : lanes'[s] # 0 <=> lanes[s] # 0 \/ s = Scope(f.id)
            BY <1>2, <3>1
        <3> QED BY <1>2, <1>3, <2>1, <3>2
    <2>3. global'.through = global.through /\ global'.scan \in Nat /\ global.scan <= global'.scan /\ f.id <= global'.scan
        BY <1>0, <1>2, <2>1, ScanToFacts
    <2> QED BY <1>0, <1>1, <2>1, <2>2, <2>3, PageShrinks
<1> QED BY <1>4, <1>5

\* PassBlocked() moves the page like MarkAncient().
LEMMA PassedBlocked ==
    ASSUME IInv, NEW c \in Consumers, PassBlocked(c)
    PROVE  LET i == Least(flush[c].page) IN
           /\ flush[c].pc = "page" /\ Holds(c) /\ i \in flush[c].page /\ (\A j \in flush[c].page : i <= j)
           /\ Scope(i) \in flush[c].blocked
           /\ i \in 1 .. Len(outbox) /\ Moves(c, "page") /\ global' = ScanTo(i)
           /\ flush'[c].page = flush[c].page \ {i} /\ flush'[c].left = flush[c].left - 1
           /\ flush'[c].upto = flush[c].upto /\ flush'[c].blocked = flush[c].blocked
           /\ flush'[c].floor = flush[c].floor
           /\ UNCHANGED <<outbox, consumer, lanes, heard, skipped, faults>>
<1> DEFINE i == Least(flush[c].page)
           g == [flush[c] EXCEPT !.page = @ \ {i}, !.left = @ - 1]
<1>0. flush \in [Consumers -> Flushes] /\ flush[c] \in Flushes
    BY DEF IInv, TypeOK
<1>1. /\ flush[c].pc = "page" /\ flush[c].page # {} /\ Holds(c) /\ Scope(i) \in flush[c].blocked
      /\ global' = ScanTo(i) /\ SetFlush(c, g) /\ UNCHANGED <<outbox, consumer, lanes, heard, skipped, faults>>
    BY OwnerHolds DEF PassBlocked
<1>2. i \in flush[c].page /\ (\A j \in flush[c].page : i <= j) /\ i \in 1 .. Len(outbox)
    BY <1>1, FirstOfPage
<1> HIDE DEF i
<1>3. /\ g.pc = flush[c].pc /\ g.page = flush[c].page \ {i} /\ g.left = flush[c].left - 1
      /\ g.upto = flush[c].upto /\ g.blocked = flush[c].blocked /\ g.floor = flush[c].floor
    BY <1>0 DEF Flushes
<1> HIDE DEF g
<1>4. flush'[c] = g /\ \A d \in Consumers : d # c => flush'[d] = flush[d]
    BY <1>0, <1>1 DEF SetFlush
<1>5. Moves(c, "page")
    BY <1>1, <1>3, <1>4 DEF Moves
<1> QED BY <1>1, <1>2, <1>3, <1>4, <1>5 DEF i

LEMMA PassBlockedRemembers ==
    ASSUME IInv, TableKept, NEW c \in Consumers, PassBlocked(c)
    PROVE  FlushInv(c)' /\ ScanInv(c)'
<1>1. PICK i : i = Least(flush[c].page)
    OBVIOUS
<1>2. /\ flush[c].pc = "page" /\ Holds(c) /\ i \in flush[c].page /\ (\A j \in flush[c].page : i <= j)
      /\ i \in 1 .. Len(outbox) /\ flush'[c].pc = "page" /\ global' = ScanTo(i)
      /\ flush'[c].page = flush[c].page \ {i} /\ flush'[c].left = flush[c].left - 1
      /\ flush'[c].upto = flush[c].upto /\ flush'[c].blocked = flush[c].blocked /\ lanes' = lanes
    BY <1>1, PassedBlocked DEF Moves
<1>3. TypeOK /\ i \in Nat /\ ScanInv(c)
    BY <1>2, TableFacts DEF IInv
<1>4. flush'[c].blocked = {s \in Scopes : lanes'[s] # 0}
    BY <1>2, <1>3 DEF ScanInv
<1>5. global'.through = global.through /\ global'.scan \in Nat /\ global.scan <= global'.scan /\ i <= global'.scan
    BY <1>2, <1>3, ScanToFacts
<1> QED BY <1>2, <1>4, <1>5, PageShrinks

\* A page that was just read is a prefix of the rows left to scan.
LEMMA DiscoverRemembers ==
    ASSUME IInv, NEW c \in Consumers, Discover(c)
    PROVE  FlushInv(c)' /\ ScanInv(c)'
<1> DEFINE found == {i \in Unpublished : i > global.scan /\ i <= global.through}
           page == PageOf(found)
<1>0. /\ TypeOK /\ flush \in [Consumers -> Flushes] /\ flush[c] \in Flushes /\ Len(outbox) \in Nat
      /\ global.through \in Nat /\ global.through <= Len(outbox) /\ global.scan \in Nat
      /\ Unpublished \subseteq 1 .. Len(outbox) /\ Limit \in Nat
    BY TableFacts, OutboxAssumption DEF IInv, TypeOK, CursorsInv
<1>1. CASE ScanComplete
    <2>1. flush'[c].pc = "global_lanes"
        <3>1. SetFlush(c, [flush[c] EXCEPT !.pc = "global_lanes", !.left = Limit, !.complete = TRUE])
            BY <1>1 DEF Discover
        <3> QED BY <1>0, <3>1 DEF SetFlush, Flushes
    <2> QED BY <2>1, Forgets
<1>2. CASE ~ScanComplete
    <2> DEFINE g == [flush[c] EXCEPT !.pc = "page", !.page = page, !.upto = global.through, !.left = Limit,
                                     !.blocked = {s \in Scopes : lanes[s] # 0}]
    <2>1. SetFlush(c, g) /\ outbox' = outbox /\ global' = global /\ lanes' = lanes
        BY <1>2 DEF Discover, PageOf, Before
    <2>2. /\ found \subseteq 0 .. Len(outbox) /\ page \subseteq found /\ found \subseteq 1 .. global.through
          /\ \A i \in Unpublished : global.scan < i /\ i <= global.through => i \in found
        <3>1. page \subseteq found
            BY DEF PageOf
        <3>2. \A i \in found : i \in Unpublished /\ i > global.scan /\ i <= global.through
            OBVIOUS
        <3>3. \A i \in Unpublished : global.scan < i /\ i <= global.through => i \in found
            BY <1>0
        <3> HIDE DEF found, page
        <3>4. ASSUME NEW i \in found PROVE i \in 1 .. Len(outbox) /\ i \in 1 .. global.through
            <4>1. i \in Unpublished /\ i <= global.through
                BY <3>2
            <4>2. i \in 1 .. Len(outbox)
                BY <1>0, <4>1
            <4> QED BY <1>0, <4>1, <4>2
        <3>5. \A i \in found : i \in 0 .. Len(outbox)
            BY <1>0, <3>4
        <3> QED BY <3>1, <3>3, <3>4, <3>5
    <2> HIDE DEF found
    <2>3. /\ Cardinality(page) <= Limit
          /\ \A i \in found \ page : Cardinality(page) >= Limit /\ \A j \in page : j < i
        BY <1>0, <2>2, PageIsPrefix
    <2>c. Cardinality(page) \in Nat
        BY <1>0, <2>2, PageIsFinite
    <2> HIDE DEF page
    <2>4. /\ g.pc = "page" /\ g.page = page /\ g.upto = global.through /\ g.left = Limit
          /\ g.blocked = {s \in Scopes : lanes[s] # 0}
        BY <1>0 DEF Flushes
    <2> HIDE DEF g
    <2>5. flush'[c] = g
        BY <1>0, <2>1 DEF SetFlush
    <2>6. FlushInv(c)'
        <3>1. page \subseteq 1 .. global.through
            BY <2>2
        <3>2. global.through <= global.through
            BY <1>0
        <3> QED BY <2>1, <2>3, <2>4, <2>5, <3>1, <3>2 DEF FlushInv
    <2>7. ASSUME NEW i \in Unpublished, global.scan < i /\ i <= global.through
          PROVE  i \in page \/ (Limit <= Cardinality(page) /\ \A j \in page : j < i)
        <3>1. i \in found
            BY <2>2, <2>7
        <3> QED BY <1>0, <2>c, <2>3, <3>1
    <2>8. Unpublished' = Unpublished
        BY <2>1 DEF Unpublished
    <2>9. g.blocked = {s \in Scopes : lanes'[s] # 0}
        BY <2>1, <2>4
    <2> QED BY <2>1, <2>4, <2>5, <2>6, <2>7, <2>8, <2>9 DEF ScanInv
<1> QED BY <1>1, <1>2

\* The first row of the page is handed to the bus.
LEMMA PublishAncientRemembers ==
    ASSUME IInv, NEW c \in Consumers, PublishAncient(c)
    PROVE  FlushInv(c)' /\ ScanInv(c)'
<1> DEFINE f == flush[c]
<1>i. PICK i : i = Least(f.page)
    OBVIOUS
<1> DEFINE G(b) == [f EXCEPT !.pc = "mark", !.id = i, !.ok = b]
<1>0. flush \in [Consumers -> Flushes] /\ f \in Flushes /\ FlushInv(c) /\ ScanInv(c)
    BY DEF IInv, TypeOK
<1>1. /\ f.pc = "page" /\ f.page # {} /\ Scope(i) \notin f.blocked
      /\ UNCHANGED <<outbox, consumer, global, lanes, skipped>>
      /\ \E b \in BOOLEAN : SetFlush(c, G(b))
    BY <1>i DEF PublishAncient
<1>2. i \in f.page /\ \A j \in f.page : i <= j
    BY <1>i, <1>1, FirstOfPage
<1>3. PICK b \in BOOLEAN : SetFlush(c, G(b))
    BY <1>1
<1>4. /\ G(b).pc = "mark" /\ G(b).id = i /\ G(b).page = f.page /\ G(b).upto = f.upto /\ G(b).left = f.left
      /\ G(b).blocked = f.blocked
    BY <1>0 DEF Flushes
<1>5. flush'[c] = G(b)
    BY <1>0, <1>3 DEF SetFlush
<1> HIDE DEF G
<1>6. FlushInv(c)'
    <2>1. f.page \subseteq 1 .. f.upto /\ f.upto <= global.through /\ Cardinality(f.page) <= f.left
        BY <1>0, <1>1 DEF FlushInv
    <2>2. Scope(i)' = Scope(i)
        BY <1>1 DEF Scope
    <2> QED BY <1>1, <1>2, <1>4, <1>5, <2>1, <2>2 DEF FlushInv
<1>7. ScanInv(c)'
    <2>1. Unpublished' = Unpublished /\ (Holds(c)' <=> Holds(c))
        BY <1>1 DEF Unpublished, Holds
    <2>2. Holds(c) => /\ f.blocked = {s \in Scopes : lanes'[s] # 0}
                      /\ \A k \in Unpublished : global.scan < k /\ k <= f.upto =>
                           k \in f.page \/ (f.left <= Cardinality(f.page) /\ \A j \in f.page : j < k)
        BY <1>0, <1>1 DEF ScanInv
    <2> QED BY <1>1, <1>4, <1>5, <2>1, <2>2 DEF ScanInv
<1> QED BY <1>6, <1>7

\* The head of a lane is handed to the bus; the lane is the lane of the row's scope.
LEMMA PublishLaneRemembers ==
    ASSUME IInv, NEW c \in Consumers, NEW s \in Scopes, PublishLane(c, s)
    PROVE  FlushInv(c)' /\ ScanInv(c)'
<1> DEFINE f == flush[c]
           i == lanes[s]
           G(b) == [f EXCEPT !.pc = "global_mark", !.id = i, !.ok = b]
<1>0. /\ TypeOK /\ flush \in [Consumers -> Flushes] /\ f \in Flushes /\ DOMAIN outbox = 1 .. Len(outbox)
      /\ Kept \subseteq 1 .. Len(outbox)
    BY TableFacts DEF IInv, TypeOK
<1>1. /\ f.left > 0 /\ i \in Kept /\ UNCHANGED <<outbox, consumer, global, lanes, skipped>>
      /\ \E b \in BOOLEAN : SetFlush(c, G(b))
    BY DEF PublishLane
<1>2. i \in 1 .. Len(outbox) /\ i # 0 /\ Scope(i) = s
    BY <1>0, <1>1 DEF IInv, CursorsInv
<1>3. PICK b \in BOOLEAN : SetFlush(c, G(b))
    BY <1>1
<1>4. G(b).pc = "global_mark" /\ G(b).id = i /\ G(b).left = f.left
    BY <1>0 DEF Flushes
<1>5. flush'[c] = G(b)
    BY <1>0, <1>3 DEF SetFlush
<1> HIDE DEF G
<1>6. Scope(i)' = s /\ lanes'[s] = i
    BY <1>1, <1>2 DEF Scope
<1> QED BY <1>0, <1>1, <1>2, <1>4, <1>5, <1>6 DEF FlushInv, ScanInv

\* Every flush still remembers what is true.
LEMMA StepFlush ==
    ASSUME IInv, [Next]_vars
    PROVE  \A d \in Consumers : FlushInv(d)' /\ ScanInv(d)'
<1> SUFFICES ASSUME NEW d \in Consumers PROVE FlushInv(d)' /\ ScanInv(d)'
    OBVIOUS
<1>0. flush \in [Consumers -> Flushes] /\ TableKept
    BY StepTable DEF IInv, TypeOK
<1>1. CASE flush'[d] = flush[d]
    BY <1>1, OtherKeeps
<1>2. CASE flush'[d] # flush[d]
    <2>1. ASSUME NEW c \in Consumers, \/ MarkAncient(c) \/ PassBlocked(c) \/ Discover(c) \/ PublishAncient(c)
                                      \/ \E s \in Scopes : PublishLane(c, s)
          PROVE  FlushInv(c)' /\ ScanInv(c)'
        BY <1>0, <2>1, MarkAncientRemembers, PassBlockedRemembers, DiscoverRemembers, PublishAncientRemembers,
           PublishLaneRemembers
    <2>2. ASSUME NEW c \in Consumers, \/ MarkAncient(c) \/ PassBlocked(c) \/ Discover(c) \/ PublishAncient(c)
                                      \/ \E s \in Scopes : PublishLane(c, s)
          PROVE  d = c
        <3>1. CASE MarkAncient(c)
            <4>1. CASE flush[c].ok
                BY <1>2, <3>1, <4>1, MarkedOk DEF Moves
            <4>2. CASE ~flush[c].ok
                BY <1>2, <3>1, <4>2, MarkedFailed DEF Moves
            <4> QED BY <4>1, <4>2
        <3>2. CASE PassBlocked(c)
            BY <1>2, <3>2, PassedBlocked DEF Moves
        <3>3. CASE Discover(c) \/ PublishAncient(c) \/ \E s \in Scopes : PublishLane(c, s)
            <4>1. \E g : flush' = [flush EXCEPT ![c] = g]
                BY <3>3 DEF Discover, PublishAncient, PublishLane, SetFlush
            <4> QED BY <1>0, <1>2, <4>1
        <3> QED BY <2>2, <3>1, <3>2, <3>3
    <2>3. ASSUME NEW c \in Consumers, NEW g, SetFlush(c, g), g.pc \notin {"page", "mark", "global_mark"}
          PROVE  FlushInv(d)' /\ ScanInv(d)'
        <3>1. d = c /\ flush'[d] = g
            BY <1>0, <1>2, <2>3 DEF SetFlush
        <3> QED BY <2>3, <3>1, Forgets
    <2>4. ASSUME NEW c \in Consumers, \/ LoseScan(c) \/ EndMain(c) \/ EndScopeLanes(c) \/ SkipPrune(c) \/ Crash(c)
                                      \/ TryAcquire(c) \/ ReleaseScan(c) \/ EndPage(c) \/ Prune(c)
          PROVE  FlushInv(d)' /\ ScanInv(d)'
        <3>1. CASE LoseScan(c)
            <4>1. \A x, y : [Idle EXCEPT !.pc = "release", !.fence = x, !.complete = y].pc = "release"
                BY DEF Idle
            <4>2. SetFlush(c, [Idle EXCEPT !.pc = "release", !.fence = flush[c].fence, !.complete = ScanComplete])
                BY <3>1 DEF LoseScan
            <4> QED BY <2>3, <4>1, <4>2
        <3>2. CASE EndMain(c) \/ EndScopeLanes(c) \/ SkipPrune(c) \/ Crash(c) \/ Prune(c)
            <4>1. /\ [Idle EXCEPT !.pc = "scope_lanes", !.left = Limit].pc = "scope_lanes" /\ Idle.pc = "idle"
                  /\ [Idle EXCEPT !.pc = "prune"].pc = "prune" /\ [Idle EXCEPT !.pc = "dead"].pc = "dead"
                BY DEF Idle
            <4>2. \/ SetFlush(c, [Idle EXCEPT !.pc = "scope_lanes", !.left = Limit]) \/ SetFlush(c, Idle)
                  \/ SetFlush(c, [Idle EXCEPT !.pc = "prune"]) \/ SetFlush(c, [Idle EXCEPT !.pc = "dead"])
                BY <3>2 DEF EndMain, EndScopeLanes, SkipPrune, Crash, Prune
            <4> QED BY <2>3, <4>1, <4>2
        <3>3. CASE TryAcquire(c) \/ ReleaseScan(c)
            <4>1. \A b : AfterRecovery(b).pc \in {"main", "prune"}
                BY DEF AfterRecovery, Idle
            <4>2. \A fence : [Idle EXCEPT !.pc = "normalize", !.fence = fence].pc = "normalize"
                BY DEF Idle
            <4>3. \/ SetFlush(c, AfterRecovery(ScanComplete)) \/ SetFlush(c, AfterRecovery(flush[c].complete))
                  \/ \E fence : SetFlush(c, [Idle EXCEPT !.pc = "normalize", !.fence = fence])
                BY <3>3 DEF TryAcquire, ReleaseScan
            <4> QED BY <2>3, <4>1, <4>2, <4>3
        <3>4. CASE EndPage(c)
            <4> DEFINE g == [Idle EXCEPT !.pc = IF flush[c].left > 0 THEN "global_lanes" ELSE "release",
                                         !.fence = flush[c].fence, !.left = flush[c].left,
                                         !.complete = global'.scan >= global'.through]
            <4>1. SetFlush(c, g)
                BY <3>4 DEF EndPage
            <4>2. g.pc \in {"global_lanes", "release"}
                BY DEF Idle
            <4> HIDE DEF g
            <4> QED BY <2>3, <4>1, <4>2
        <3> QED BY <2>4, <3>1, <3>2, <3>3, <3>4
    <2>5. ASSUME NEW c \in Consumers, Ensure(c) \/ Register(c) \/ Normalize(c) \/ Close(c)
          PROVE  FlushInv(d)' /\ ScanInv(d)'
        <3>0. flush[c] \in Flushes
            BY <1>0
        <3>1. CASE \E pc \in {"acquire", "discover", "dead"} : Goto(c, pc)
            <4>1. PICK pc \in {"acquire", "discover", "dead"} : Goto(c, pc)
                BY <3>1
            <4>2. SetFlush(c, [flush[c] EXCEPT !.pc = pc])
                BY <1>0, <4>1 DEF Goto, SetFlush
            <4>3. [flush[c] EXCEPT !.pc = pc].pc = pc
                BY <3>0 DEF Flushes
            <4> QED BY <2>3, <4>2, <4>3
        <3>2. CASE SetFlush(c, [Idle EXCEPT !.pc = "register", !.floor = ReplayFloor])
            <4>1. \A x : [Idle EXCEPT !.pc = "register", !.floor = x].pc = "register"
                BY DEF Idle
            <4> QED BY <2>3, <3>2, <4>1
        <3>3. \/ Goto(c, "acquire") \/ Goto(c, "discover") \/ Goto(c, "dead")
              \/ SetFlush(c, [Idle EXCEPT !.pc = "register", !.floor = ReplayFloor])
            BY <2>5 DEF Ensure, Register, Normalize, Close
        <3> QED BY <3>1, <3>2, <3>3
    <2>6. ASSUME NEW c \in Consumers, MainRow(c) \/ \E s \in Scopes : ScopeRow(c, s)
          PROVE  FlushInv(d)' /\ ScanInv(d)'
        <3>0. flush[c] \in Flushes /\ flush[c].pc \in {"main", "scope_lanes"}
            BY <1>0, <2>6 DEF MainRow, ScopeRow
        <3>1. CASE flush' = [flush EXCEPT ![c].left = @ - 1]
            <4>1. SetFlush(c, [flush[c] EXCEPT !.left = @ - 1])
                BY <3>1 DEF SetFlush
            <4>2. [flush[c] EXCEPT !.left = @ - 1].pc = flush[c].pc
                BY <3>0 DEF Flushes
            <4> QED BY <2>3, <3>0, <4>1, <4>2
        <3>2. CASE SetFlush(c, Idle)
            <4>1. Idle.pc = "idle"
                BY DEF Idle
            <4> QED BY <2>3, <3>2, <4>1
        <3>3. flush' = [flush EXCEPT ![c].left = @ - 1] \/ SetFlush(c, Idle)
            <4>1. CASE MainRow(c)
                BY <4>1 DEF MainRow
            <4>2. CASE \E s \in Scopes : ScopeRow(c, s)
                BY <4>2 DEF ScopeRow
            <4> QED BY <2>6, <4>1, <4>2
        <3> QED BY <3>1, <3>2, <3>3
    <2>7. ASSUME NEW c \in Consumers, MarkLane(c) PROVE FlushInv(d)' /\ ScanInv(d)'
        <3> DEFINE g == [flush[c] EXCEPT !.pc = "global_lanes", !.left = @ - 1, !.id = 0, !.ok = FALSE]
        <3>1. SetFlush(c, g) /\ flush[c] \in Flushes
            BY <1>0, <2>7 DEF MarkLane
        <3>2. g.pc = "global_lanes"
            BY <3>1 DEF Flushes
        <3> HIDE DEF g
        <3> QED BY <2>3, <3>1, <3>2
    <2>8. CASE UNCHANGED vars \/ Expire \/ \E s \in Scopes : AppendRow(s)
        BY <1>2, <2>8 DEF vars, Expire, AppendRow
    <2> QED BY <2>1, <2>2, <2>4, <2>5, <2>6, <2>7, <2>8, StepCases
<1> QED BY <1>1, <1>2

-----------------------------------------------------------------------------
(* The lanes of the scan. *)

\* What a lane moves to: the first unpublished row of its scope in the range, if there is one.
LEMMA HeadInRange ==
    ASSUME IInv, NEW s \in Scopes, NEW S,
           \A i : i \in S => i \in Unpublished /\ Scope(i) = s /\ i <= global.through
    PROVE  /\ Head0(S) \in 0 .. Len(outbox)
           /\ Head0(S) # 0 => Head0(S) \in 1 .. Len(outbox) /\ Scope(Head0(S)) = s /\ Head0(S) <= global.through
           /\ \A k \in S : Head0(S) # 0 /\ Head0(S) <= k
<1>1. Len(outbox) \in Nat /\ Unpublished \subseteq 1 .. Len(outbox)
    BY TableFacts DEF IInv
<1>2. \A k \in S : k \in 1 .. Len(outbox)
    BY <1>1
<1>3. S \in SUBSET Nat
    BY <1>1, <1>2
<1>4. /\ Head0(S) = 0 \/ Head0(S) \in S
      /\ S # {} => Head0(S) \in S /\ \A j \in S : Head0(S) <= j
    BY <1>3, HeadOfLane
<1>5. Head0(S) \in 0 .. Len(outbox)
    BY <1>1, <1>2, <1>4
<1>6. ASSUME Head0(S) # 0
      PROVE  Head0(S) \in 1 .. Len(outbox) /\ Scope(Head0(S)) = s /\ Head0(S) <= global.through
    BY <1>2, <1>4, <1>6
<1>7. ASSUME NEW k \in S PROVE Head0(S) # 0 /\ Head0(S) <= k
    <2>1. Head0(S) \in S /\ Head0(S) <= k
        BY <1>4
    <2> QED BY <1>1, <1>2, <2>1
<1> QED BY <1>5, <1>6, <1>7

LEMMA NormalizedLanes ==
    ASSUME IInv, NEW c \in Consumers, Normalize(c), NEW s \in Scopes
    PROVE  /\ lanes'[s] \in 0 .. Len(outbox)
           /\ lanes'[s] # 0 => /\ lanes[s] # 0 /\ lanes'[s] \in 1 .. Len(outbox) /\ Scope(lanes'[s]) = s
                               /\ lanes'[s] <= global.through
           /\ \A k \in Unpublished : Scope(k) = s /\ lanes[s] # 0 /\ lanes[s] <= k /\ k <= global.through =>
                lanes'[s] # 0 /\ lanes'[s] <= k
<1> DEFINE S == {i \in Unpublished : Scope(i) = s /\ i >= lanes[s] /\ i <= global.through}
<1>1. lanes'[s] = IF lanes[s] = 0 THEN 0 ELSE Head0(S)
    BY DEF Normalize
<1>2. \A i : i \in S => i \in Unpublished /\ Scope(i) = s /\ i <= global.through
    OBVIOUS
<1>3. lanes[s] \in Nat /\ Len(outbox) \in Nat /\ Unpublished \subseteq 1 .. Len(outbox)
    BY TableFacts DEF IInv, TypeOK
<1>4. ASSUME NEW k \in Unpublished, Scope(k) = s /\ lanes[s] <= k /\ k <= global.through PROVE k \in S
    <2>1. k \in Nat
        BY <1>3
    <2> QED BY <1>3, <1>4, <2>1
<1> HIDE DEF S
<1>5. /\ Head0(S) \in 0 .. Len(outbox)
      /\ Head0(S) # 0 => Head0(S) \in 1 .. Len(outbox) /\ Scope(Head0(S)) = s /\ Head0(S) <= global.through
      /\ \A k \in S : Head0(S) # 0 /\ Head0(S) <= k
    BY <1>2, HeadInRange
<1>6. CASE lanes[s] = 0
    BY <1>1, <1>3, <1>6
<1>7. CASE lanes[s] # 0
    <2>1. lanes'[s] = Head0(S)
        BY <1>1, <1>7
    <2> QED BY <1>4, <1>5, <1>7, <2>1
<1> QED BY <1>6, <1>7

\* The head of a lane was handed to the bus.
LEMMA MarkedLane ==
    ASSUME IInv, NEW c \in Consumers, MarkLane(c)
    PROVE  /\ Holds(c) /\ flush[c].id \in 1 .. Len(outbox)
           /\ flush[c].id = lanes[Scope(flush[c].id)] /\ Scope(flush[c].id) \in Scopes
           /\ flush[c].ok => Publish(flush[c].id) /\ global' = global
           /\ ~flush[c].ok => outbox' = outbox /\ lanes' = lanes /\ global' = [global EXCEPT !.failed = c]
           /\ UNCHANGED <<consumer, heard, skipped, faults>>
<1>0. /\ DOMAIN outbox = 1 .. Len(outbox) /\ FlushInv(c) /\ ScanInv(c) /\ lanes \in [Scopes -> Nat]
      /\ \A i \in 1 .. Len(outbox) : Scope(i) \in Scopes
    BY TableFacts DEF IInv, TypeOK
<1>1. Holds(c) /\ flush[c].pc = "global_mark"
    BY OwnerHolds DEF MarkLane
<1>2. flush[c].id \in 1 .. Len(outbox) /\ flush[c].id = lanes[Scope(flush[c].id)] /\ Scope(flush[c].id) \in Scopes
    BY <1>0, <1>1 DEF FlushInv, ScanInv
<1>3. ~flush[c].ok => outbox' = outbox /\ lanes' = Queued(lanes, flush[c].id) /\ global' = [global EXCEPT !.failed = c]
    BY DEF MarkLane
<1>4. Queued(lanes, flush[c].id) = lanes
    BY <1>0, <1>2 DEF Queued
<1>5. (flush[c].ok => Publish(flush[c].id) /\ global' = global) /\ UNCHANGED <<consumer, heard, skipped, faults>>
    BY DEF MarkLane
<1> QED BY <1>1, <1>2, <1>3, <1>4, <1>5

LEMMA MarkedLaneMoves ==
    ASSUME IInv, NEW c \in Consumers, MarkLane(c), flush[c].ok
    PROVE  LET i == flush[c].id
               s == Scope(i)
           IN  /\ \A t \in Scopes : t # s => lanes'[t] = lanes[t]
               /\ lanes'[s] \in 0 .. Len(outbox)
               /\ lanes'[s] # 0 => lanes'[s] \in 1 .. Len(outbox) /\ Scope(lanes'[s]) = s /\ lanes'[s] <= global.through
               /\ \A k \in Unpublished : Scope(k) = s /\ i < k /\ k <= global.through =>
                    lanes'[s] # 0 /\ lanes'[s] <= k
<1>1. PICK i, s : i = flush[c].id /\ s = Scope(flush[c].id)
    OBVIOUS
<1>2. s \in Scopes /\ i \in 1 .. Len(outbox) /\ s = Scope(i)
    BY <1>1, MarkedLane
<1> DEFINE S == {j \in Unpublished : Scope(j) = s /\ j > i /\ j <= global.through}
<1>3. lanes' = [lanes EXCEPT ![s] = Head0(S)]
    BY <1>1 DEF MarkLane
<1>4. \A j : j \in S => j \in Unpublished /\ Scope(j) = s /\ j <= global.through
    OBVIOUS
<1>5. lanes \in [Scopes -> Nat] /\ Len(outbox) \in Nat /\ Unpublished \subseteq 1 .. Len(outbox)
    BY TableFacts DEF IInv, TypeOK
<1>6. ASSUME NEW k \in Unpublished, Scope(k) = s /\ i < k /\ k <= global.through PROVE k \in S
    <2>1. k \in Nat /\ i \in Nat
        BY <1>2, <1>5
    <2> QED BY <1>6, <2>1
<1> HIDE DEF S
<1>7. /\ Head0(S) \in 0 .. Len(outbox)
      /\ Head0(S) # 0 => Head0(S) \in 1 .. Len(outbox) /\ Scope(Head0(S)) = s /\ Head0(S) <= global.through
      /\ \A k \in S : Head0(S) # 0 /\ Head0(S) <= k
    BY <1>2, <1>4, HeadInRange
<1>8. lanes'[s] = Head0(S) /\ \A t \in Scopes : t # s => lanes'[t] = lanes[t]
    BY <1>2, <1>3, <1>5
<1> QED BY <1>1, <1>6, <1>7, <1>8

\* A refused row of the page becomes the head of its scope's lane.
LEMMA MarkedFailedLane ==
    ASSUME IInv, NEW c \in Consumers, MarkAncient(c), ~flush[c].ok
    PROVE  LET i == flush[c].id IN
           /\ i \in 1 .. Len(outbox) /\ Scope(i) \in Scopes /\ lanes[Scope(i)] = 0 /\ lanes'[Scope(i)] = i
           /\ \A t \in Scopes : t # Scope(i) => lanes'[t] = lanes[t]
<1>1. PICK i : i = flush[c].id
    OBVIOUS
<1>2. flush[c].pc = "mark" /\ Holds(c) /\ lanes' = Queued(lanes, i)
    BY <1>1, MarkedFailed, OwnerHolds
<1>3. i \in flush[c].page /\ Scope(i) \notin flush[c].blocked
    BY <1>1, <1>2 DEF IInv, FlushInv
<1>4. flush[c].blocked = {s \in Scopes : lanes[s] # 0}
    BY <1>2 DEF IInv, ScanInv
<1>5. i \in 1 .. Len(outbox) /\ Scope(i) \in Scopes /\ Len(outbox) \in Nat
    BY <1>2, <1>3, FirstOfPage, TableFacts DEF IInv
<1>6. lanes[Scope(i)] = 0
    BY <1>3, <1>4, <1>5
<1>7. lanes \in [Scopes -> 0 .. Len(outbox)]
    BY LanesAreRows DEF IInv
<1>8. \A s \in Scopes : lanes'[s] = IF s = Scope(i) /\ (lanes[s] = 0 \/ i < lanes[s]) THEN i ELSE lanes[s]
    BY <1>2, <1>5, <1>7, QueuedType
<1> QED BY <1>1, <1>5, <1>6, <1>8

\* The steps that move the scan cursor or a lane.
LEMMA WhoScans ==
    ASSUME IInv, [Next]_vars, ~(lanes' = lanes /\ global'.scan = global.scan)
    PROVE  \E c \in Consumers : \/ Normalize(c) \/ MarkAncient(c) \/ PassBlocked(c) \/ (EndPage(c) /\ global' # global)
                                \/ (MarkLane(c) /\ flush[c].ok)
<1> DEFINE Globals == [scan : Nat, through : Nat, owner : Consumers \cup {NoOwner}, fence : Nat,
                       live : BOOLEAN, failed : Consumers \cup {NoOwner}]
<1>0. global \in Globals
    BY DEF IInv, TypeOK
<1>1. ASSUME NEW c \in Consumers, EndPage(c) PROVE global' # global
    BY <1>1 DEF EndPage
<1>2. ASSUME NEW c \in Consumers, MarkLane(c) PROVE flush[c].ok
    <2> SUFFICES ASSUME ~flush[c].ok PROVE FALSE
        OBVIOUS
    <2>1. lanes' = lanes /\ global' = [global EXCEPT !.failed = c]
        BY <1>2, MarkedLane
    <2> QED BY <1>0, <2>1
<1>3. CASE \/ Expire
           \/ \E c \in Consumers : Register(c) \/ TryAcquire(c) \/ ReleaseScan(c) \/ Close(c)
    <2>1. lanes' = lanes
        BY <1>3 DEF Expire, Register, TryAcquire, ReleaseScan, Close
    <2>2. global'.scan = global.scan
        <3>1. CASE Expire
            BY <1>0, <3>1 DEF Expire
        <3>2. ASSUME NEW c \in Consumers, Register(c) PROVE global'.scan = global.scan
            BY <1>0, <3>2 DEF Register
        <3>3. ASSUME NEW c \in Consumers, TryAcquire(c) PROVE global'.scan = global.scan
            BY <1>0, <3>3 DEF TryAcquire
        <3>4. ASSUME NEW c \in Consumers, ReleaseScan(c) \/ Close(c) PROVE global'.scan = global.scan
            BY <1>0, <3>4 DEF ReleaseScan, Close
        <3> QED BY <1>3, <3>1, <3>2, <3>3, <3>4
    <2> QED BY <2>1, <2>2
<1>4. CASE \/ UNCHANGED vars \/ \E s \in Scopes : AppendRow(s)
           \/ \E c \in Consumers :
                \/ Ensure(c) \/ LoseScan(c) \/ Discover(c) \/ EndMain(c) \/ EndScopeLanes(c) \/ SkipPrune(c) \/ Crash(c)
                \/ PublishAncient(c) \/ MainRow(c) \/ Prune(c)
                \/ (\E s \in Scopes : PublishLane(c, s)) \/ (\E s \in Scopes : ScopeRow(c, s))
    <2>1. global' = global /\ lanes' = lanes
        BY ZenonT(60), <1>4 DEF vars, AppendRow, Ensure, LoseScan, Discover, EndMain, EndScopeLanes, SkipPrune, Crash,
                    PublishAncient, PublishLane, MainRow, Prune, ScopeRow
    <2> QED BY <2>1
<1> QED BY <1>1, <1>2, <1>3, <1>4, StepCases

\* A step keeps LaneInv if it does so for the rows that were there; a new row is after every lane and the scan.
LEMMA LaneStep ==
    ASSUME IInv, TableKept, global'.scan \in Nat, global'.scan <= Len(outbox),
           \A s \in Scopes : lanes'[s] \in 0 .. Len(outbox),
           \A k \in Unpublished : k \in Unpublished' =>
             lanes'[Scope(k)] <= k /\ (k <= global'.scan => lanes'[Scope(k)] # 0)
    PROVE  LaneInv'
<1> SUFFICES ASSUME NEW k \in Unpublished'
             PROVE  lanes'[Scope(k)'] <= k /\ (k <= global'.scan => lanes'[Scope(k)'] # 0)
    BY DEF LaneInv
<1>1. CASE k \in 1 .. Len(outbox)
    <2>1. k \in Unpublished /\ Scope(k)' = Scope(k)
        BY <1>1, TableMoves
    <2> QED BY <2>1
<1>2. CASE k \notin 1 .. Len(outbox)
    <2>1. k \in 1 .. Len(outbox') /\ Len(outbox) \in Nat /\ Len(outbox') \in Nat
        BY TableMoves
    <2>2. k \in Nat /\ Len(outbox) < k
        BY <1>2, <2>1
    <2>3. outbox' \in Seq(Rows)
        BY DEF TableKept
    <2>4. Scope(k)' \in Scopes
        <3>1. outbox'[k] \in Rows
            BY <2>1, <2>3, ElementOfSeq
        <3> QED BY <3>1 DEF Scope, Rows
    <2> QED BY <2>1, <2>2, <2>4
<1> QED BY <1>1, <1>2

\* Before the first row of the holder's page there is no unpublished row the scan has not passed.
LEMMA NothingBetween ==
    ASSUME IInv, NEW c \in Consumers, Holds(c), flush[c].pc \in {"page", "mark"},
           NEW i \in flush[c].page, \A j \in flush[c].page : i <= j,
           NEW k \in Unpublished, global.scan < k
    PROVE  i <= k /\ i \in 1 .. Len(outbox) /\ k \in Nat
<1>1. /\ flush[c].page \subseteq 1 .. flush[c].upto /\ Len(outbox) \in Nat /\ flush[c].upto <= Len(outbox)
      /\ flush[c].page \subseteq 1 .. Len(outbox)
    BY FirstOfPage
<1>2. k \in 1 .. Len(outbox) /\ flush[c].upto \in Nat
    BY TableFacts DEF IInv, TypeOK, Flushes
<1>3. i \in 1 .. flush[c].upto /\ i \in 1 .. Len(outbox)
    BY <1>1
<1>4. ASSUME k < i PROVE FALSE
    <2>1. k <= flush[c].upto
        BY <1>1, <1>2, <1>3, <1>4
    <2>2. k \in flush[c].page \/ \A j \in flush[c].page : j < k
        BY <2>1 DEF IInv, ScanInv
    <2> QED BY <1>1, <1>2, <1>3, <1>4, <2>2
<1> QED BY <1>1, <1>2, <1>3, <1>4

LEMMA StepLane ==
    ASSUME IInv, [Next]_vars
    PROVE  LaneInv'
<1>0. /\ TypeOK /\ TableKept /\ Len(outbox) \in Nat /\ LaneInv
      /\ global.scan \in Nat /\ global.through \in Nat /\ global.scan <= global.through /\ global.through <= Len(outbox)
      /\ lanes \in [Scopes -> 0 .. Len(outbox)]
      /\ \A k \in Unpublished : k \in 1 .. Len(outbox) /\ k \in Nat /\ Scope(k) \in Scopes
    BY StepTable, TableFacts, LanesAreRows DEF IInv, TypeOK, CursorsInv
<1>1. \A k \in Unpublished : lanes[Scope(k)] <= k /\ (k <= global.scan => lanes[Scope(k)] # 0)
    BY <1>0 DEF LaneInv
<1>2. CASE lanes' = lanes /\ global'.scan = global.scan
    <2>1. global'.scan <= Len(outbox)
        BY <1>0, <1>2
    <2>2. \A s \in Scopes : lanes'[s] \in 0 .. Len(outbox)
        BY <1>0, <1>2
    <2> QED BY <1>0, <1>1, <1>2, <2>1, <2>2, LaneStep
<1>3. ASSUME NEW c \in Consumers, Normalize(c) PROVE LaneInv'
    <2>1. global' = global
        BY <1>3 DEF Normalize
    <2>2. \A s \in Scopes : lanes'[s] \in 0 .. Len(outbox)
        BY <1>3, NormalizedLanes
    <2>3. ASSUME NEW k \in Unpublished
          PROVE  lanes'[Scope(k)] <= k /\ (k <= global.scan => lanes'[Scope(k)] # 0)
        <3>1. PICK s \in Scopes : s = Scope(k)
            BY <1>0
        <3>2. /\ lanes'[s] \in 0 .. Len(outbox) /\ (lanes'[s] # 0 => lanes[s] # 0 /\ lanes'[s] <= global.through)
              /\ lanes[s] # 0 /\ lanes[s] <= k /\ k <= global.through => lanes'[s] # 0 /\ lanes'[s] <= k
            BY <1>3, <3>1, NormalizedLanes
        <3>3. lanes[s] <= k /\ (k <= global.scan => lanes[s] # 0)
            BY <1>1, <3>1
        <3> QED BY <1>0, <3>1, <3>2, <3>3
    <2>4. global'.scan \in Nat /\ global'.scan <= Len(outbox)
        BY <1>0, <2>1
    <2> QED BY <1>0, <2>1, <2>2, <2>3, <2>4, LaneStep
<1>4. ASSUME NEW c \in Consumers, MarkAncient(c) PROVE LaneInv'
    <2>1. PICK i : i = flush[c].id
        OBVIOUS
    <2>2. flush[c].pc = "mark" /\ Holds(c) /\ FlushInv(c)
        BY <1>4, OwnerHolds DEF IInv, MarkAncient
    <2>3. i \in flush[c].page /\ (\A j \in flush[c].page : i <= j) /\ i \in 1 .. Len(outbox) /\ i \in Nat
        BY <1>0, <2>1, <2>2, FirstOfPage DEF FlushInv
    <2>4. global'.scan \in Nat /\ (global'.scan = global.scan \/ global'.scan = i)
        <3>1. global' = ScanTo(i) \/ global' = [ScanTo(i) EXCEPT !.failed = c]
            BY <1>4, <2>1 DEF MarkAncient
        <3> QED BY ZenonT(60), <1>0, <2>3, <3>1, ScanToFacts
    <2>5. global'.scan <= Len(outbox)
        BY <1>0, <2>3, <2>4
    <2>6. ASSUME NEW k \in Unpublished, k <= global'.scan PROVE k <= global.scan \/ k = i
        <3>1. global.scan < k => i <= k
            BY <2>2, <2>3, NothingBetween
        <3> QED BY <1>0, <2>3, <2>4, <2>6, <3>1
    <2>7. CASE flush[c].ok
        <3>1. lanes' = lanes /\ Publish(i)
            BY <1>4, <2>1, <2>7, MarkedOk
        <3>2. i \notin Unpublished'
            <4>1. outbox'[i].status # "unpublished"
                BY <1>0, <2>3, <3>1, PublishKeeps DEF IInv
            <4> QED BY <4>1 DEF Unpublished
        <3>3. \A s \in Scopes : lanes'[s] \in 0 .. Len(outbox)
            BY <1>0, <3>1
        <3>4. \A k \in Unpublished : k \in Unpublished' =>
                lanes'[Scope(k)] <= k /\ (k <= global'.scan => lanes'[Scope(k)] # 0)
            BY <1>1, <2>6, <3>1, <3>2
        <3> QED BY <1>0, <2>4, <2>5, <3>3, <3>4, LaneStep
    <2>8. CASE ~flush[c].ok
        <3>1. /\ Scope(i) \in Scopes /\ lanes[Scope(i)] = 0 /\ lanes'[Scope(i)] = i
              /\ \A t \in Scopes : t # Scope(i) => lanes'[t] = lanes[t]
            BY <1>4, <2>1, <2>8, MarkedFailedLane
        <3>2. ASSUME NEW k \in Unpublished
              PROVE  lanes'[Scope(k)] <= k /\ (k <= global'.scan => lanes'[Scope(k)] # 0)
            <4>1. CASE Scope(k) = Scope(i)
                <5>1. global.scan < k
                    BY <1>0, <1>1, <3>1, <4>1
                <5>2. i <= k
                    BY <2>2, <2>3, <5>1, NothingBetween
                <5> QED BY <2>3, <3>1, <4>1, <5>2
            <4>2. CASE Scope(k) # Scope(i)
                <5>1. lanes'[Scope(k)] = lanes[Scope(k)]
                    BY <1>0, <3>1, <4>2
                <5>2. k # i
                    BY <4>2
                <5> QED BY <1>1, <2>6, <5>1, <5>2
            <4> QED BY <4>1, <4>2
        <3>3. \A s \in Scopes : lanes'[s] \in 0 .. Len(outbox)
            BY <1>0, <2>3, <3>1
        <3> QED BY <1>0, <2>4, <2>5, <3>2, <3>3, LaneStep
    <2> QED BY <2>7, <2>8
<1>5. ASSUME NEW c \in Consumers, PassBlocked(c) PROVE LaneInv'
    <2>1. PICK i : i = Least(flush[c].page)
        OBVIOUS
    <2>2. /\ flush[c].pc = "page" /\ Holds(c) /\ i \in flush[c].page /\ (\A j \in flush[c].page : i <= j)
          /\ Scope(i) \in flush[c].blocked /\ i \in 1 .. Len(outbox) /\ global' = ScanTo(i) /\ lanes' = lanes
        BY <1>5, <2>1, PassedBlocked
    <2>3. i \in Nat /\ global'.scan \in Nat /\ (global'.scan = global.scan \/ global'.scan = i)
        BY <1>0, <2>2, ScanToFacts
    <2>4. global'.scan <= Len(outbox) /\ \A s \in Scopes : lanes'[s] \in 0 .. Len(outbox)
        BY <1>0, <2>2, <2>3
    <2>5. lanes[Scope(i)] # 0
        BY <2>2 DEF IInv, ScanInv
    <2>6. ASSUME NEW k \in Unpublished
          PROVE  lanes'[Scope(k)] <= k /\ (k <= global'.scan => lanes'[Scope(k)] # 0)
        <3>1. global.scan < k => i <= k
            BY <2>2, NothingBetween
        <3> QED BY <1>0, <1>1, <2>2, <2>3, <2>5, <3>1
    <2> QED BY <1>0, <2>3, <2>4, <2>6, LaneStep
<1>6. ASSUME NEW c \in Consumers, EndPage(c), global' # global PROVE LaneInv'
    <2>1. /\ flush[c].pc = "page" /\ flush[c].page = {} /\ flush[c].left > 0 /\ Holds(c) /\ lanes' = lanes
          /\ global' = ScanTo(flush[c].upto) /\ flush[c] \in Flushes
        BY <1>0, <1>6, OwnerHolds DEF EndPage, TypeOK
    <2>2. flush[c].upto \in Nat /\ flush[c].left \in Nat /\ flush[c].upto <= Len(outbox)
        BY <2>1, FirstOfPage DEF Flushes
    <2>3. global'.scan \in Nat /\ (global'.scan = global.scan \/ global'.scan = flush[c].upto)
        BY <1>0, <2>1, <2>2, ScanToFacts
    <2>4. global'.scan <= Len(outbox) /\ \A s \in Scopes : lanes'[s] \in 0 .. Len(outbox)
        BY <1>0, <2>1, <2>2, <2>3
    <2>5. Cardinality(flush[c].page) = 0
        BY <2>1, FS_EmptySet
    <2>6. ASSUME NEW k \in Unpublished, global.scan < k, k <= flush[c].upto PROVE FALSE
        <3>1. flush[c].left <= Cardinality(flush[c].page)
            BY <2>1, <2>6 DEF IInv, ScanInv
        <3> QED BY <2>1, <2>2, <2>5, <3>1
    <2>7. ASSUME NEW k \in Unpublished
          PROVE  lanes'[Scope(k)] <= k /\ (k <= global'.scan => lanes'[Scope(k)] # 0)
        BY <1>0, <1>1, <2>1, <2>3, <2>6
    <2> QED BY <1>0, <2>3, <2>4, <2>7, LaneStep
<1>7. ASSUME NEW c \in Consumers, MarkLane(c), flush[c].ok PROVE LaneInv'
    <2>1. PICK i, s : i = flush[c].id /\ s = Scope(flush[c].id)
        OBVIOUS
    <2>2. i \in 1 .. Len(outbox) /\ i = lanes[s] /\ s \in Scopes /\ Publish(i) /\ global' = global
        BY <1>7, <2>1, MarkedLane
    <2>3. /\ \A t \in Scopes : t # s => lanes'[t] = lanes[t]
          /\ lanes'[s] \in 0 .. Len(outbox) /\ (lanes'[s] # 0 => lanes'[s] <= global.through)
          /\ \A k \in Unpublished : Scope(k) = s /\ i < k /\ k <= global.through => lanes'[s] # 0 /\ lanes'[s] <= k
        BY <1>7, <2>1, MarkedLaneMoves
    <2>4. i \notin Unpublished'
        <3>1. outbox'[i].status # "unpublished"
            BY <1>0, <2>2, PublishKeeps DEF IInv
        <3> QED BY <3>1 DEF Unpublished
    <2>5. ASSUME NEW k \in Unpublished, k \in Unpublished'
          PROVE  lanes'[Scope(k)] <= k /\ (k <= global.scan => lanes'[Scope(k)] # 0)
        <3>1. CASE Scope(k) = s
            <4>1. i <= k /\ k # i
                BY <1>1, <2>2, <2>4, <2>5, <3>1
            <4>2. i < k
                BY <1>0, <2>2, <4>1
            <4>3. k <= global.through => lanes'[s] # 0 /\ lanes'[s] <= k
                BY <2>3, <3>1, <4>2
            <4> QED BY <1>0, <2>3, <3>1, <4>3
        <3>2. CASE Scope(k) # s
            BY <1>0, <1>1, <2>3, <3>2
        <3> QED BY <3>1, <3>2
    <2>6. \A t \in Scopes : lanes'[t] \in 0 .. Len(outbox)
        BY <1>0, <2>3
    <2>7. global'.scan \in Nat /\ global'.scan <= Len(outbox)
        BY <1>0, <2>2
    <2> QED BY <1>0, <2>2, <2>5, <2>6, <2>7, LaneStep
<1>8. ASSUME ~(lanes' = lanes /\ global'.scan = global.scan)
      PROVE  \E c \in Consumers : \/ Normalize(c) \/ MarkAncient(c) \/ PassBlocked(c) \/ (EndPage(c) /\ global' # global)
                                  \/ (MarkLane(c) /\ flush[c].ok)
    BY <1>8, WhoScans
<1> QED BY <1>2, <1>3, <1>4, <1>5, <1>6, <1>7, <1>8

-----------------------------------------------------------------------------
(* Cursors and heads stay rows. *)

\* The range of the scan.
LEMMA StepRange ==
    ASSUME IInv, [Next]_vars
    PROVE  global'.scan <= global'.through /\ global'.through <= Len(outbox')
<1> DEFINE Globals == [scan : Nat, through : Nat, owner : Consumers \cup {NoOwner}, fence : Nat,
                       live : BOOLEAN, failed : Consumers \cup {NoOwner}]
<1>0. /\ TypeOK /\ global \in Globals /\ global' \in Globals /\ Len(outbox) \in Nat /\ Len(outbox') \in Nat
      /\ Len(outbox) <= Len(outbox')
      /\ global.scan <= global.through /\ global.through <= Len(outbox)
    <2>1. TypeOK /\ TypeOK' /\ CursorsInv /\ TableKept
        BY StepType, StepTable DEF IInv
    <2>2. global \in Globals /\ global' \in Globals
        BY <2>1 DEF TypeOK
    <2>3. Len(outbox) \in Nat /\ Len(outbox') \in Nat /\ Len(outbox) <= Len(outbox')
        BY <2>1, TableMoves
    <2> QED BY <2>1, <2>2, <2>3 DEF CursorsInv
<1>1. CASE global'.scan = global.scan /\ global'.through = global.through
    BY <1>0, <1>1
<1>2. ASSUME NEW i \in Nat, i <= global.through, global'.scan = ScanTo(i).scan, global'.through = global.through
      PROVE  global'.scan <= global'.through /\ global'.through <= Len(outbox')
    BY <1>0, <1>2, ScanToFacts
<1>3. ASSUME NEW c \in Consumers, MarkAncient(c)
      PROVE  global'.scan <= global'.through /\ global'.through <= Len(outbox')
    <2>1. PICK i : i = flush[c].id
        OBVIOUS
    <2>2. i \in flush[c].page /\ flush[c].pc = "mark"
        BY <1>3, <2>1 DEF IInv, FlushInv, MarkAncient
    <2>3. flush[c].page \subseteq 1 .. flush[c].upto /\ flush[c].upto <= global.through /\ flush[c].upto \in Nat
        BY <2>2 DEF IInv, FlushInv, TypeOK, Flushes
    <2>4. i \in Nat /\ i <= global.through
        BY <1>0, <2>2, <2>3
    <2>5. global' = ScanTo(i) \/ global' = [ScanTo(i) EXCEPT !.failed = c]
        BY <1>3, <2>1 DEF MarkAncient
    <2>6. global'.scan = ScanTo(i).scan /\ global'.through = global.through
        BY <1>0, <2>4, <2>5, ScanToFacts
    <2> QED BY <1>2, <2>4, <2>6
<1>4. ASSUME NEW c \in Consumers, PassBlocked(c)
      PROVE  global'.scan <= global'.through /\ global'.through <= Len(outbox')
    <2>1. PICK i : i = Least(flush[c].page)
        OBVIOUS
    <2>2. i \in flush[c].page /\ flush[c].pc = "page" /\ global' = ScanTo(i)
        BY <1>4, <2>1, PassedBlocked
    <2>3. flush[c].page \subseteq 1 .. flush[c].upto /\ flush[c].upto <= global.through /\ flush[c].upto \in Nat
        BY <2>2 DEF IInv, FlushInv, TypeOK, Flushes
    <2>4. i \in Nat /\ i <= global.through
        BY <1>0, <2>2, <2>3
    <2>5. global'.scan = ScanTo(i).scan /\ global'.through = global.through
        BY <1>0, <2>2, <2>4, ScanToFacts
    <2> QED BY <1>2, <2>4, <2>5
<1>5. ASSUME NEW c \in Consumers, EndPage(c)
      PROVE  global'.scan <= global'.through /\ global'.through <= Len(outbox')
    <2>1. flush[c].pc = "page" /\ (global' = ScanTo(flush[c].upto) \/ global' = global)
        BY <1>5 DEF EndPage
    <2>2. flush[c].upto <= global.through /\ flush[c].upto \in Nat
        BY <2>1 DEF IInv, FlushInv, TypeOK, Flushes
    <2>3. CASE global' = ScanTo(flush[c].upto)
        <3>1. global'.scan = ScanTo(flush[c].upto).scan /\ global'.through = global.through
            BY <1>0, <2>2, <2>3, ScanToFacts
        <3> QED BY <1>2, <2>2, <3>1
    <2> QED BY <1>1, <2>1, <2>3
<1>6. ASSUME NEW c \in Consumers, Register(c)
      PROVE  global'.scan <= global'.through /\ global'.through <= Len(outbox')
    <2>1. /\ global'.scan = global.scan
          /\ global'.through = IF global.through < flush[c].floor THEN flush[c].floor ELSE global.through
        BY <1>0, <1>6 DEF Register
    <2>2. flush[c].floor \in Nat /\ flush[c].floor <= Len(outbox)
        BY <1>0 DEF IInv, CursorsInv, TypeOK, Flushes
    <2> QED BY <1>0, <2>1, <2>2
<1>7. ASSUME NEW c \in Consumers, MarkLane(c)
      PROVE  global'.scan = global.scan /\ global'.through = global.through
    <2>1. global' = global \/ global' = [global EXCEPT !.failed = c]
        BY <1>7, MarkedLane
    <2> QED BY <1>0, <2>1
<1>8. CASE \/ Expire
           \/ \E c \in Consumers : TryAcquire(c) \/ ReleaseScan(c) \/ Close(c)
    <2>1. global'.scan = global.scan /\ global'.through = global.through
        <3>1. CASE Expire
            BY <1>0, <3>1 DEF Expire
        <3>2. ASSUME NEW c \in Consumers, TryAcquire(c)
              PROVE  global'.scan = global.scan /\ global'.through = global.through
            <4>1. \/ global' = global
                  \/ \E n : global' = [global EXCEPT !.owner = c, !.fence = n, !.live = TRUE]
                BY <3>2 DEF TryAcquire
            <4> QED BY <1>0, <4>1
        <3>3. ASSUME NEW c \in Consumers, ReleaseScan(c) \/ Close(c)
              PROVE  global'.scan = global.scan /\ global'.through = global.through
            <4>1. global' = global \/ global' = [global EXCEPT !.owner = NoOwner, !.live = FALSE]
                BY <3>3 DEF ReleaseScan, Close
            <4> QED BY <1>0, <4>1
        <3> QED BY <1>8, <3>1, <3>2, <3>3
    <2> QED BY <1>1, <2>1
<1>9. CASE \/ UNCHANGED vars \/ \E s \in Scopes : AppendRow(s)
           \/ \E c \in Consumers :
                \/ Ensure(c) \/ LoseScan(c) \/ Discover(c) \/ EndMain(c) \/ EndScopeLanes(c) \/ SkipPrune(c) \/ Crash(c)
                \/ Normalize(c) \/ PublishAncient(c) \/ MainRow(c) \/ Prune(c)
                \/ (\E s \in Scopes : PublishLane(c, s)) \/ (\E s \in Scopes : ScopeRow(c, s))
    <2>1. global' = global
        BY ZenonT(60), <1>9 DEF vars, AppendRow, Ensure, LoseScan, Discover, EndMain, EndScopeLanes, SkipPrune, Crash,
                    Normalize, PublishAncient, PublishLane, MainRow, Prune, ScopeRow
    <2> QED BY <1>1, <2>1
<1> QED BY <1>1, <1>3, <1>4, <1>5, <1>6, <1>7, <1>8, <1>9, StepCases

\* The heads of the scan's lanes.
LEMMA StepHeads ==
    ASSUME IInv, [Next]_vars
    PROVE  (\A s \in Scopes : lanes[s] <= Len(outbox) /\ (lanes[s] # 0 => Scope(lanes[s]) = s))'
<1>0. /\ TableKept /\ Len(outbox) \in Nat /\ Len(outbox') \in Nat /\ Len(outbox) <= Len(outbox')
      /\ \A i \in 1 .. Len(outbox) : outbox'[i].scope = Scope(i)
    BY StepTable, TableMoves DEF TableKept, Scope
<1>1. /\ lanes \in [Scopes -> 0 .. Len(outbox)]
      /\ \A s \in Scopes : lanes[s] # 0 => Scope(lanes[s]) = s
    BY LanesAreRows DEF IInv, CursorsInv
<1>2. ASSUME NEW s \in Scopes,
             lanes'[s] = lanes[s] \/ (lanes'[s] \in 0 .. Len(outbox) /\ (lanes'[s] # 0 => Scope(lanes'[s]) = s))
      PROVE  lanes'[s] <= Len(outbox') /\ (lanes'[s] # 0 => outbox'[lanes'[s]].scope = s)
    <2>1. lanes'[s] \in 0 .. Len(outbox) /\ (lanes'[s] # 0 => Scope(lanes'[s]) = s)
        BY <1>1, <1>2
    <2>2. lanes'[s] # 0 => lanes'[s] \in 1 .. Len(outbox)
        BY <1>0, <2>1
    <2> QED BY <1>0, <2>1, <2>2
<1>3. ASSUME NEW s \in Scopes
      PROVE  lanes'[s] = lanes[s] \/ (lanes'[s] \in 0 .. Len(outbox) /\ (lanes'[s] # 0 => Scope(lanes'[s]) = s))
    <2>1. CASE lanes' = lanes
        BY <2>1
    <2>2. CASE \E c \in Consumers : Normalize(c)
        BY <2>2, NormalizedLanes
    <2>3. ASSUME NEW c \in Consumers, MarkAncient(c), lanes' # lanes
          PROVE  lanes'[s] = lanes[s] \/ (lanes'[s] \in 0 .. Len(outbox) /\ (lanes'[s] # 0 => Scope(lanes'[s]) = s))
        <3>1. ~flush[c].ok
            BY <2>3, MarkedOk
        <3>2. PICK i : i = flush[c].id
            OBVIOUS
        <3>3. /\ i \in 1 .. Len(outbox) /\ lanes'[Scope(i)] = i
              /\ \A t \in Scopes : t # Scope(i) => lanes'[t] = lanes[t]
            BY <2>3, <3>1, <3>2, MarkedFailedLane
        <3>4. i \in 0 .. Len(outbox)
            BY <1>0, <3>3
        <3> QED BY <3>3, <3>4
    <2>4. ASSUME NEW c \in Consumers, MarkLane(c), flush[c].ok
          PROVE  lanes'[s] = lanes[s] \/ (lanes'[s] \in 0 .. Len(outbox) /\ (lanes'[s] # 0 => Scope(lanes'[s]) = s))
        <3>1. PICK t : t = Scope(flush[c].id)
            OBVIOUS
        <3>2. /\ \A u \in Scopes : u # t => lanes'[u] = lanes[u]
              /\ lanes'[t] \in 0 .. Len(outbox) /\ (lanes'[t] # 0 => Scope(lanes'[t]) = t)
            BY <2>4, <3>1, MarkedLaneMoves
        <3> QED BY <3>2
    <2>5. ASSUME NEW c \in Consumers, PassBlocked(c) \/ EndPage(c) PROVE lanes' = lanes
        BY <2>5 DEF PassBlocked, EndPage
    <2> QED BY <2>1, <2>2, <2>3, <2>4, <2>5, WhoScans
<1> QED BY <1>2, <1>3 DEF Scope

\* The floor a process has read before it registers.
LEMMA StepFloor ==
    ASSUME IInv, [Next]_vars, NEW d \in Consumers
    PROVE  flush'[d].floor <= Len(outbox')
<1>0. /\ TypeOK /\ flush \in [Consumers -> Flushes] /\ flush[d] \in Flushes /\ flush[d].floor \in Nat
      /\ Len(outbox) \in Nat /\ Len(outbox') \in Nat /\ Len(outbox) <= Len(outbox') /\ flush[d].floor <= Len(outbox)
    BY StepTable, TableMoves DEF IInv, TypeOK, CursorsInv, Flushes
<1>1. CASE flush'[d].floor = flush[d].floor
    BY <1>0, <1>1
<1>2. CASE flush'[d].floor = 0
    BY <1>0, <1>2
<1>3. ASSUME NEW c \in Consumers, NEW g, SetFlush(c, g), g.floor = 0 \/ g.floor = flush[c].floor
      PROVE  flush'[d].floor <= Len(outbox')
    <2>1. flush'[d] = IF d = c THEN g ELSE flush[d]
        BY <1>0, <1>3 DEF SetFlush
    <2> QED BY <1>1, <1>2, <1>3, <2>1
<1>4. ASSUME NEW c \in Consumers, Ensure(c) PROVE flush'[d].floor <= Len(outbox')
    <2>1. CASE Goto(c, "acquire")
        <3>1. [flush[c] EXCEPT !.pc = "acquire"].floor = flush[c].floor /\ SetFlush(c, [flush[c] EXCEPT !.pc = "acquire"])
            BY <1>0, <2>1 DEF Goto, SetFlush, Flushes
        <3> QED BY <1>3, <3>1
    <2>2. CASE SetFlush(c, [Idle EXCEPT !.pc = "register", !.floor = ReplayFloor])
        <3>1. \A x : [Idle EXCEPT !.pc = "register", !.floor = x].floor = x
            BY DEF Idle
        <3>2. ReplayFloor \in Nat /\ ReplayFloor <= Len(outbox)
            BY <1>0, FloorIsRow
        <3>3. flush'[d] = IF d = c THEN [Idle EXCEPT !.pc = "register", !.floor = ReplayFloor] ELSE flush[d]
            BY <1>0, <2>2 DEF SetFlush
        <3>4. flush'[d].floor = ReplayFloor \/ flush'[d].floor = flush[d].floor
            BY <3>1, <3>3
        <3> QED BY <1>0, <1>1, <3>2, <3>4
    <2> QED BY <1>4, <2>1, <2>2 DEF Ensure
<1>5. ASSUME NEW c \in Consumers, Register(c) \/ Normalize(c) \/ Close(c) PROVE flush'[d].floor <= Len(outbox')
    <2>1. PICK pc : Goto(c, pc)
        BY <1>5 DEF Register, Normalize, Close
    <2>2. [flush[c] EXCEPT !.pc = pc].floor = flush[c].floor /\ SetFlush(c, [flush[c] EXCEPT !.pc = pc])
        BY <1>0, <2>1 DEF Goto, SetFlush, Flushes
    <2> QED BY <1>3, <2>2
<1>6. ASSUME NEW c \in Consumers, \/ LoseScan(c) \/ EndMain(c) \/ EndScopeLanes(c) \/ SkipPrune(c) \/ Crash(c)
                                  \/ Prune(c) \/ TryAcquire(c) \/ ReleaseScan(c) \/ EndPage(c)
      PROVE  flush'[d].floor <= Len(outbox')
    <2>1. CASE LoseScan(c)
        <3>1. \A x, y : [Idle EXCEPT !.pc = "release", !.fence = x, !.complete = y].floor = 0
            BY DEF Idle
        <3>2. SetFlush(c, [Idle EXCEPT !.pc = "release", !.fence = flush[c].fence, !.complete = ScanComplete])
            BY <2>1 DEF LoseScan
        <3> QED BY <1>3, <3>1, <3>2
    <2>2. CASE EndMain(c) \/ EndScopeLanes(c) \/ SkipPrune(c) \/ Crash(c) \/ Prune(c)
        <3>1. /\ [Idle EXCEPT !.pc = "scope_lanes", !.left = Limit].floor = 0 /\ Idle.floor = 0
              /\ [Idle EXCEPT !.pc = "prune"].floor = 0 /\ [Idle EXCEPT !.pc = "dead"].floor = 0
            BY DEF Idle
        <3>2. \/ SetFlush(c, [Idle EXCEPT !.pc = "scope_lanes", !.left = Limit]) \/ SetFlush(c, Idle)
              \/ SetFlush(c, [Idle EXCEPT !.pc = "prune"]) \/ SetFlush(c, [Idle EXCEPT !.pc = "dead"])
            BY <2>2 DEF EndMain, EndScopeLanes, SkipPrune, Crash, Prune
        <3> QED BY <1>3, <3>1, <3>2
    <2>3. CASE TryAcquire(c) \/ ReleaseScan(c)
        <3>1. \A b : AfterRecovery(b).floor = 0
            BY DEF AfterRecovery, Idle
        <3>2. \A fence : [Idle EXCEPT !.pc = "normalize", !.fence = fence].floor = 0
            BY DEF Idle
        <3>3. \/ SetFlush(c, AfterRecovery(ScanComplete)) \/ SetFlush(c, AfterRecovery(flush[c].complete))
              \/ \E fence : SetFlush(c, [Idle EXCEPT !.pc = "normalize", !.fence = fence])
            BY <2>3 DEF TryAcquire, ReleaseScan
        <3> QED BY <1>3, <3>1, <3>2, <3>3
    <2>4. CASE EndPage(c)
        <3> DEFINE g == [Idle EXCEPT !.pc = IF flush[c].left > 0 THEN "global_lanes" ELSE "release",
                                     !.fence = flush[c].fence, !.left = flush[c].left,
                                     !.complete = global'.scan >= global'.through]
        <3>1. SetFlush(c, g)
            BY <2>4 DEF EndPage
        <3>2. g.floor = 0
            BY DEF Idle
        <3> HIDE DEF g
        <3> QED BY <1>3, <3>1, <3>2
    <2> QED BY <1>6, <2>1, <2>2, <2>3, <2>4
<1>7. ASSUME NEW c \in Consumers, Discover(c) PROVE flush'[d].floor <= Len(outbox')
    <2>0. flush[c] \in Flushes
        BY <1>0
    <2>1. \A p, u, b : /\ [flush[c] EXCEPT !.pc = "page", !.page = p, !.upto = u, !.left = Limit, !.blocked = b].floor
                          = flush[c].floor
                       /\ [flush[c] EXCEPT !.pc = "global_lanes", !.left = Limit, !.complete = TRUE].floor = flush[c].floor
        BY <2>0 DEF Flushes
    <2>2. \/ SetFlush(c, [flush[c] EXCEPT !.pc = "global_lanes", !.left = Limit, !.complete = TRUE])
          \/ \E p, u, b : SetFlush(c, [flush[c] EXCEPT !.pc = "page", !.page = p, !.upto = u, !.left = Limit, !.blocked = b])
        BY <1>7, Zenon DEF Discover
    <2>3. CASE SetFlush(c, [flush[c] EXCEPT !.pc = "global_lanes", !.left = Limit, !.complete = TRUE])
        <3> DEFINE g == [flush[c] EXCEPT !.pc = "global_lanes", !.left = Limit, !.complete = TRUE]
        <3>1. SetFlush(c, g) /\ g.floor = flush[c].floor
            BY <2>1, <2>3
        <3> HIDE DEF g
        <3> QED BY <1>3, <3>1
    <2>4. ASSUME NEW p, NEW u, NEW b,
                 SetFlush(c, [flush[c] EXCEPT !.pc = "page", !.page = p, !.upto = u, !.left = Limit, !.blocked = b])
          PROVE  flush'[d].floor <= Len(outbox')
        <3> DEFINE g == [flush[c] EXCEPT !.pc = "page", !.page = p, !.upto = u, !.left = Limit, !.blocked = b]
        <3>1. SetFlush(c, g) /\ g.floor = flush[c].floor
            BY <2>1, <2>4
        <3> HIDE DEF g
        <3> QED BY <1>3, <3>1
    <2> QED BY <2>2, <2>3, <2>4, Zenon
<1>8. ASSUME NEW c \in Consumers, PublishAncient(c) \/ \E s \in Scopes : PublishLane(c, s)
      PROVE  flush'[d].floor <= Len(outbox')
    <2>0. flush[c] \in Flushes
        BY <1>0
    <2>1. \A p, i, b : [flush[c] EXCEPT !.pc = p, !.id = i, !.ok = b].floor = flush[c].floor
        BY <2>0 DEF Flushes
    <2>2. \E p, i, b : SetFlush(c, [flush[c] EXCEPT !.pc = p, !.id = i, !.ok = b])
        <3>1. CASE PublishAncient(c)
            BY <3>1, Zenon DEF PublishAncient
        <3>2. CASE \E s \in Scopes : PublishLane(c, s)
            BY <3>2, Zenon DEF PublishLane
        <3> QED BY <1>8, <3>1, <3>2
    <2> QED BY <1>3, <2>1, <2>2
<1>9. ASSUME NEW c \in Consumers, MarkAncient(c) \/ PassBlocked(c) PROVE flush'[d].floor <= Len(outbox')
    <2>1. flush'[c].floor = flush[c].floor /\ \A e \in Consumers : e # c => flush'[e] = flush[e]
        <3>1. CASE MarkAncient(c) /\ flush[c].ok
            BY <3>1, MarkedOk DEF Moves
        <3>2. CASE MarkAncient(c) /\ ~flush[c].ok
            BY <3>2, MarkedFailed DEF Moves
        <3>3. CASE PassBlocked(c)
            BY <3>3, PassedBlocked DEF Moves
        <3> QED BY <1>9, <3>1, <3>2, <3>3
    <2>2. flush'[d].floor = flush[d].floor
        BY <2>1
    <2> QED BY <1>1, <2>2
<1>10. ASSUME NEW c \in Consumers, MarkLane(c) \/ MainRow(c) \/ \E s \in Scopes : ScopeRow(c, s)
       PROVE  flush'[d].floor <= Len(outbox')
    <2>0. flush[c] \in Flushes
        BY <1>0
    <2>1. CASE MarkLane(c)
        <3> DEFINE g == [flush[c] EXCEPT !.pc = "global_lanes", !.left = @ - 1, !.id = 0, !.ok = FALSE]
        <3>1. SetFlush(c, g)
            BY <2>1 DEF MarkLane
        <3>2. g.floor = flush[c].floor
            BY <2>0 DEF Flushes
        <3> HIDE DEF g
        <3> QED BY <1>3, <3>1, <3>2
    <2>2. CASE MainRow(c) \/ \E s \in Scopes : ScopeRow(c, s)
        <3> DEFINE g == [flush[c] EXCEPT !.left = @ - 1]
        <3>1. SetFlush(c, g) \/ SetFlush(c, Idle)
            <4>1. CASE MainRow(c)
                BY <4>1 DEF MainRow, SetFlush
            <4>2. CASE \E s \in Scopes : ScopeRow(c, s)
                BY <4>2 DEF ScopeRow, SetFlush
            <4> QED BY <2>2, <4>1, <4>2
        <3>2. g.floor = flush[c].floor /\ Idle.floor = 0
            BY <2>0 DEF Flushes, Idle
        <3> HIDE DEF g
        <3> QED BY <1>3, <3>1, <3>2
    <2> QED BY <1>10, <2>1, <2>2
<1>11. CASE UNCHANGED vars \/ Expire \/ \E s \in Scopes : AppendRow(s)
    <2>1. flush' = flush
        BY <1>11 DEF vars, Expire, AppendRow
    <2> QED BY <1>1, <2>1
<1> QED BY <1>4, <1>5, <1>6, <1>7, <1>8, <1>9, <1>10, <1>11, StepCases

-----------------------------------------------------------------------------
(* What a consumer still has to carry. *)

States == [registered : BOOLEAN, cursor : Nat, lane : [Scopes -> Nat]]

Bounds(c) == consumer[c].cursor <= Len(outbox) /\ \A s \in Scopes : consumer[c].lane[s] <= Len(outbox)

Complete(c) ==
    consumer[c].registered =>
        \A i \in DOMAIN outbox \ (heard[c] \cup skipped[c]) :
            /\ i \in Kept
            /\ i <= consumer[c].cursor => consumer[c].lane[Scope(i)] # 0 /\ consumer[c].lane[Scope(i)] <= i

LEMMA ConsumerFacts ==
    ASSUME IInv, NEW d \in Consumers
    PROVE  /\ consumer \in [Consumers -> States] /\ consumer[d] \in States
           /\ consumer[d].cursor \in 0 .. Len(outbox) /\ consumer[d].lane \in [Scopes -> 0 .. Len(outbox)]
           /\ Bounds(d) /\ Complete(d)
           /\ Len(outbox) \in Nat /\ DOMAIN outbox = 1 .. Len(outbox)
           /\ heard \in [Consumers -> SUBSET Ids] /\ skipped \in [Consumers -> SUBSET Ids]
<1>1. TypeOK /\ CursorsInv /\ NoRowSkipped /\ Len(outbox) \in Nat /\ DOMAIN outbox = 1 .. Len(outbox)
    BY TableFacts DEF IInv
<1>2. /\ consumer \in [Consumers -> States] /\ heard \in [Consumers -> SUBSET Ids]
      /\ skipped \in [Consumers -> SUBSET Ids]
    BY <1>1 DEF TypeOK, States
<1>3. consumer[d] \in States /\ Bounds(d)
    BY <1>1, <1>2 DEF CursorsInv, Bounds
<1>4. consumer[d].cursor \in Nat /\ consumer[d].cursor <= Len(outbox)
    BY <1>3 DEF States, Bounds
<1>5. consumer[d].lane \in [Scopes -> 0 .. Len(outbox)]
    BY <1>1, LanesAreRows
<1>6. Complete(d)
    BY <1>1 DEF NoRowSkipped, Complete
<1> QED BY <1>1, <1>2, <1>3, <1>4, <1>5, <1>6

\* Rows that a step must account for: new ones are kept and beyond every cursor.
LEMMA CompleteStep ==
    ASSUME IInv, TableKept, NEW d \in Consumers, consumer'[d].cursor \in 0 .. Len(outbox),
           heard[d] \subseteq heard'[d], NothingPruned,
           \A k \in 1 .. Len(outbox) : k \notin heard'[d] \cup skipped'[d] /\ k \in Kept /\ k <= consumer'[d].cursor =>
             consumer'[d].lane[Scope(k)] # 0 /\ consumer'[d].lane[Scope(k)] <= k,
           \A k \in 1 .. Len(outbox) : k \notin heard'[d] \cup skipped'[d] => k \in Kept
    PROVE  Complete(d)'
<1>0. /\ Len(outbox) \in Nat /\ Len(outbox') \in Nat /\ DOMAIN outbox' = 1 .. Len(outbox')
      /\ DOMAIN outbox = 1 .. Len(outbox)
      /\ \A i \in 1 .. Len(outbox) : Scope(i)' = Scope(i)
    BY TableMoves
<1> SUFFICES ASSUME NEW k \in 1 .. Len(outbox'), k \notin heard'[d] \cup skipped'[d]
             PROVE  /\ k \in Kept'
                    /\ k <= consumer'[d].cursor => consumer'[d].lane[Scope(k)'] # 0 /\ consumer'[d].lane[Scope(k)'] <= k
    BY <1>0 DEF Complete
<1>1. CASE k \in 1 .. Len(outbox)
    <2>1. k \in Kept
        BY <1>1
    <2>2. outbox[k].status # "pruned"
        BY <2>1 DEF Kept
    <2>3. k \in Kept'
        BY <1>0, <2>2 DEF Kept, NothingPruned
    <2> QED BY <1>0, <1>1, <2>1, <2>3
<1>2. CASE k \notin 1 .. Len(outbox)
    <2>1. k \in Kept'
        BY <1>0, <1>2 DEF Kept, NothingPruned
    <2>2. ~(k <= consumer'[d].cursor)
        BY <1>0, <1>2
    <2> QED BY <2>1, <2>2
<1> QED BY <1>1, <1>2

\* A consumer that a step does not touch.
LEMMA ConsumerKept ==
    ASSUME IInv, TableKept, NothingPruned, NEW d \in Consumers,
           consumer'[d] = consumer[d], heard[d] \subseteq heard'[d], skipped'[d] = skipped[d]
    PROVE  Bounds(d)' /\ Complete(d)'
<1>1. /\ consumer[d].cursor \in 0 .. Len(outbox) /\ consumer[d].lane \in [Scopes -> 0 .. Len(outbox)]
      /\ Complete(d) /\ DOMAIN outbox = 1 .. Len(outbox) /\ Len(outbox) \in Nat
    BY ConsumerFacts
<1>2. Len(outbox') \in Nat /\ Len(outbox) <= Len(outbox')
    BY TableMoves
<1>3. Bounds(d)'
    BY <1>1, <1>2 DEF Bounds
<1>4. CASE ~consumer[d].registered
    BY <1>3, <1>4 DEF Complete
<1>5. CASE consumer[d].registered
    <2>1. \A k \in 1 .. Len(outbox) : k \notin heard'[d] \cup skipped'[d] =>
             k \in Kept /\ (k <= consumer[d].cursor => consumer[d].lane[Scope(k)] # 0 /\ consumer[d].lane[Scope(k)] <= k)
        BY <1>1, <1>5 DEF Complete
    <2> QED BY <1>1, <1>3, <2>1, CompleteStep
<1> QED BY <1>4, <1>5

\* A consumer that is gone has nothing to carry.
LEMMA ConsumerGone ==
    ASSUME IInv, TableKept, NEW d \in Consumers, ~consumer'[d].registered,
           consumer'[d].cursor = consumer[d].cursor, consumer'[d].lane = NoLanes \/ consumer'[d].lane = consumer[d].lane
    PROVE  Bounds(d)' /\ Complete(d)'
<1>1. /\ consumer[d].cursor \in 0 .. Len(outbox) /\ consumer[d].lane \in [Scopes -> 0 .. Len(outbox)]
      /\ Len(outbox) \in Nat
    BY ConsumerFacts
<1>2. Len(outbox') \in Nat /\ Len(outbox) <= Len(outbox')
    BY TableMoves
<1>3. \A s \in Scopes : NoLanes[s] = 0
    BY DEF NoLanes
<1>4. consumer'[d].cursor <= Len(outbox') /\ \A s \in Scopes : consumer'[d].lane[s] <= Len(outbox')
    BY <1>1, <1>2, <1>3
<1> QED BY <1>4 DEF Bounds, Complete

\* A new consumer starts at its floor.
LEMMA RegisterCompletes ==
    ASSUME IInv, TableKept, NEW c \in Consumers, Register(c)
    PROVE  \A d \in Consumers : Bounds(d)' /\ Complete(d)'
<1>0. /\ TypeOK /\ CursorsInv /\ consumer \in [Consumers -> States] /\ heard \in [Consumers -> SUBSET Ids]
      /\ skipped \in [Consumers -> SUBSET Ids] /\ Len(outbox) \in Nat /\ DOMAIN outbox = 1 .. Len(outbox)
      /\ flush[c].floor \in Nat /\ flush[c].floor <= Len(outbox)
    BY ConsumerFacts DEF IInv, TypeOK, CursorsInv, Flushes
<1>1. /\ outbox' = outbox /\ heard' = heard
      /\ consumer' = [consumer EXCEPT ![c] = [registered |-> TRUE, cursor |-> flush[c].floor, lane |-> NoLanes]]
      /\ skipped' = [skipped EXCEPT ![c] = {i \in DOMAIN outbox : i <= flush[c].floor \/ i \notin Kept}]
    BY DEF Register
<1>2. NothingPruned
    BY <1>0, <1>1, SameTable
<1>3. ASSUME NEW d \in Consumers, d # c PROVE Bounds(d)' /\ Complete(d)'
    <2>1. consumer'[d] = consumer[d] /\ skipped'[d] = skipped[d] /\ heard[d] \subseteq heard'[d]
        BY <1>0, <1>1, <1>3
    <2> QED BY <1>2, <2>1, ConsumerKept
<1>4. /\ consumer'[c].registered /\ consumer'[c].cursor = flush[c].floor /\ consumer'[c].lane = NoLanes
      /\ skipped'[c] = {i \in DOMAIN outbox : i <= flush[c].floor \/ i \notin Kept}
    BY <1>0, <1>1
<1>5. Bounds(c)'
    BY <1>0, <1>1, <1>4 DEF Bounds, NoLanes
<1>6. Complete(c)'
    <2>1. \A k \in 1 .. Len(outbox) : k \notin skipped'[c] => k \in Kept /\ ~(k <= consumer'[c].cursor)
        BY <1>0, <1>4
    <2>2. consumer'[c].cursor \in 0 .. Len(outbox) /\ heard[c] \subseteq heard'[c]
        BY <1>0, <1>1, <1>4
    <2> QED BY <1>2, <2>1, <2>2, CompleteStep
<1> QED BY <1>3, <1>5, <1>6

\* The cursor passes a row that is delivered or queued; there is none between the two.
LEMMA MainRowCompletes ==
    ASSUME IInv, TableKept, NEW c \in Consumers, MainRow(c)
    PROVE  \A d \in Consumers : Bounds(d)' /\ Complete(d)'
<1>0. /\ TypeOK /\ CursorsInv /\ consumer \in [Consumers -> States] /\ heard \in [Consumers -> SUBSET Ids]
      /\ skipped' = skipped /\ Len(outbox) \in Nat /\ DOMAIN outbox = 1 .. Len(outbox)
      /\ consumer[c] \in States /\ Complete(c) /\ Bounds(c)
      /\ consumer[c].cursor \in 0 .. Len(outbox) /\ consumer[c].lane \in [Scopes -> 0 .. Len(outbox)]
    BY ConsumerFacts DEF IInv, MainRow
<1>1. PICK i : i = Least(Ahead(c))
    OBVIOUS
<1>2. /\ i \in 1 .. Len(outbox) /\ i \in Kept /\ consumer[c].cursor < i /\ Scope(i) \in Scopes
      /\ \A k \in Kept : consumer[c].cursor < k => i <= k
    <2>1. Ahead(c) # {}
        BY DEF MainRow
    <2>2. i \in 1 .. Len(outbox) /\ i \in Ahead(c) /\ \A j \in Ahead(c) : i <= j
        BY <1>0, <1>1, <2>1, NextRow
    <2>3. Scope(i) \in Scopes /\ Kept \subseteq 1 .. Len(outbox)
        BY <1>0, <2>2, TableFacts
    <2> QED BY <1>0, <2>2, <2>3 DEF Ahead
<1>3. CASE /\ Hear(c, i) /\ Publish(i) /\ consumer' = [consumer EXCEPT ![c].cursor = i]
    <2>1. /\ \A d \in Consumers : d # c => consumer'[d] = consumer[d]
          /\ \A d \in Consumers : heard[d] \subseteq heard'[d]
          /\ heard'[c] = heard[c] \cup {i}
        BY <1>0, <1>3 DEF Hear
    <2>2. /\ consumer'[c].cursor = i /\ consumer'[c].lane = consumer[c].lane
          /\ consumer'[c].registered = consumer[c].registered
        BY <1>0, <1>3 DEF States
    <2>3. NothingPruned /\ Len(outbox') = Len(outbox)
        BY <1>0, <1>2, <1>3, PublishKeeps
    <2>4. \A d \in Consumers : d # c => Bounds(d)' /\ Complete(d)'
        BY <1>0, <2>1, <2>3, ConsumerKept
    <2>5. Bounds(c)'
        BY <1>0, <1>2, <2>2, <2>3 DEF Bounds
    <2>6. CASE ~consumer[c].registered
        <3>1. Complete(c)'
            BY <2>2, <2>6 DEF Complete
        <3> QED BY <2>4, <2>5, <3>1
    <2>7. CASE consumer[c].registered
        <3>1. ASSUME NEW k \in 1 .. Len(outbox), k \notin heard'[c] \cup skipped'[c]
              PROVE  /\ k \in Kept
                     /\ k <= i => consumer'[c].lane[Scope(k)] # 0 /\ consumer'[c].lane[Scope(k)] <= k
            <4>1. k \notin heard[c] \cup skipped[c] /\ k # i
                BY <1>0, <2>1, <3>1
            <4>2. /\ k \in Kept
                  /\ k <= consumer[c].cursor => consumer[c].lane[Scope(k)] # 0 /\ consumer[c].lane[Scope(k)] <= k
                BY <1>0, <2>7, <4>1 DEF Complete
            <4>3. k <= i => k <= consumer[c].cursor
                BY <1>0, <1>2, <4>1, <4>2
            <4> QED BY <2>2, <4>2, <4>3
        <3>2. consumer'[c].cursor \in 0 .. Len(outbox)
            BY <1>0, <1>2, <2>2
        <3>3. Complete(c)'
            BY <2>1, <2>2, <2>3, <3>1, <3>2, CompleteStep
        <3> QED BY <2>4, <2>5, <3>3
    <2> QED BY <2>6, <2>7
<1>4. CASE /\ consumer[c].registered /\ outbox' = outbox /\ heard' = heard
           /\ consumer' = [consumer EXCEPT ![c] = [consumer[c] EXCEPT !.cursor = i, !.lane = Queued(consumer[c].lane, i)]]
    <2> DEFINE lane == consumer[c].lane
    <2>0. /\ Queued(lane, i) \in [Scopes -> 0 .. Len(outbox)]
          /\ \A s \in Scopes : Queued(lane, i)[s] = IF s = Scope(i) /\ (lane[s] = 0 \/ i < lane[s]) THEN i ELSE lane[s]
        BY <1>0, <1>2, QueuedType
    <2>1. \A d \in Consumers : d # c => consumer'[d] = consumer[d]
        BY <1>0, <1>4
    <2>2. /\ consumer'[c].cursor = i /\ consumer'[c].lane = Queued(lane, i)
          /\ consumer'[c].registered = consumer[c].registered
        BY <1>0, <1>4 DEF States
    <2>3. NothingPruned
        BY <1>0, <1>4, SameTable
    <2>4. \A d \in Consumers : d # c => Bounds(d)' /\ Complete(d)'
        BY <1>0, <1>4, <2>1, <2>3, ConsumerKept
    <2>5. Bounds(c)'
        BY <1>0, <1>2, <1>4, <2>0, <2>2 DEF Bounds
    <2>6. ASSUME NEW k \in 1 .. Len(outbox), k \notin heard'[c] \cup skipped'[c]
          PROVE  /\ k \in Kept
                 /\ k <= i => consumer'[c].lane[Scope(k)] # 0 /\ consumer'[c].lane[Scope(k)] <= k
        <3>1. k \notin heard[c] \cup skipped[c] /\ Scope(k) \in Scopes
            BY <1>0, <1>4, <2>6, TableFacts
        <3>2. k \in Kept /\ (k <= consumer[c].cursor => lane[Scope(k)] # 0 /\ lane[Scope(k)] <= k)
            BY <1>0, <1>4, <3>1 DEF Complete
        <3>3. k <= i => k <= consumer[c].cursor \/ k = i
            BY <1>0, <1>2, <3>2
        <3>4. lane[Scope(k)] \in Nat
            BY <1>0, <3>1
        <3>5. CASE k <= consumer[c].cursor
            <4>1. lane[Scope(k)] # 0 /\ lane[Scope(k)] <= k /\ ~(i < lane[Scope(k)])
                BY <1>0, <1>2, <3>2, <3>4, <3>5
            <4>2. Queued(lane, i)[Scope(k)] = lane[Scope(k)]
                BY <2>0, <3>1, <4>1
            <4> QED BY <2>2, <3>2, <4>1, <4>2
        <3>6. CASE k = i
            <4>1. Queued(lane, i)[Scope(k)] # 0 /\ Queued(lane, i)[Scope(k)] <= k
                BY <1>2, <2>0, <3>1, <3>4, <3>6
            <4> QED BY <2>2, <3>2, <4>1
        <3> QED BY <3>2, <3>3, <3>5, <3>6
    <2>7. consumer'[c].cursor \in 0 .. Len(outbox) /\ heard[c] \subseteq heard'[c]
        BY <1>0, <1>2, <1>4, <2>2
    <2>8. Complete(c)'
        BY <2>2, <2>3, <2>6, <2>7, CompleteStep
    <2> QED BY <2>4, <2>5, <2>8
<1>5. CASE UNCHANGED <<outbox, consumer, heard>>
    <2>1. NothingPruned
        BY <1>0, <1>5, SameTable
    <2> QED BY <1>0, <1>5, <2>1, ConsumerKept
<1>6. \/ /\ Hear(c, i) /\ Publish(i) /\ consumer' = [consumer EXCEPT ![c].cursor = i]
      \/ /\ consumer[c].registered /\ outbox' = outbox /\ heard' = heard
         /\ consumer' = [consumer EXCEPT ![c] = [consumer[c] EXCEPT !.cursor = i, !.lane = Queued(consumer[c].lane, i)]]
      \/ UNCHANGED <<outbox, consumer, heard>>
    BY <1>1 DEF MainRow
<1> QED BY <1>3, <1>4, <1>5, <1>6

\* A lane that delivered its head goes on with the next row of the scope up to the cursor.
LEMMA ScopeRowCompletes ==
    ASSUME IInv, TableKept, NEW c \in Consumers, NEW s \in Scopes, ScopeRow(c, s)
    PROVE  \A d \in Consumers : Bounds(d)' /\ Complete(d)'
<1>0. /\ TypeOK /\ CursorsInv /\ consumer \in [Consumers -> States] /\ heard \in [Consumers -> SUBSET Ids]
      /\ skipped' = skipped /\ Len(outbox) \in Nat /\ DOMAIN outbox = 1 .. Len(outbox)
      /\ consumer[c] \in States /\ Complete(c) /\ Bounds(c) /\ consumer[c].registered
      /\ consumer[c].cursor \in 0 .. Len(outbox) /\ consumer[c].lane \in [Scopes -> 0 .. Len(outbox)]
      /\ Kept \subseteq 1 .. Len(outbox)
    BY ConsumerFacts, TableFacts DEF IInv, ScopeRow
<1>1. PICK i : i = consumer[c].lane[s]
    OBVIOUS
<1>2. i \in 1 .. Len(outbox) /\ i \in Nat
    BY <1>0, <1>1 DEF ScopeRow
<1> DEFINE rest == {j \in Kept : Scope(j) = s /\ j > i /\ j <= consumer[c].cursor}
<1>3. \/ UNCHANGED <<outbox, consumer, heard>>
      \/ Hear(c, i) /\ Publish(i) /\ consumer' = [consumer EXCEPT ![c].lane[s] = Head0(rest)]
    BY <1>1 DEF ScopeRow
<1>4. CASE UNCHANGED <<outbox, consumer, heard>>
    <2>1. NothingPruned
        BY <1>0, <1>4, SameTable
    <2> QED BY <1>0, <1>4, <2>1, ConsumerKept
<1>5. CASE Hear(c, i) /\ Publish(i) /\ consumer' = [consumer EXCEPT ![c].lane[s] = Head0(rest)]
    <2>1. \A k \in rest : k \in 1 .. Len(outbox)
        BY <1>0
    <2>2. ASSUME NEW k \in Kept, Scope(k) = s, i < k, k <= consumer[c].cursor PROVE k \in rest
        <3>1. k \in Nat
            BY <1>0
        <3> QED BY <1>2, <2>2, <3>1
    <2> HIDE DEF rest
    <2>3. rest \in SUBSET Nat
        BY <1>0, <2>1
    <2>4. (Head0(rest) = 0 \/ Head0(rest) \in rest) /\ (rest # {} => Head0(rest) \in rest /\ \A j \in rest : Head0(rest) <= j)
        BY <2>3, HeadOfLane
    <2>5. Head0(rest) \in 0 .. Len(outbox)
        BY <1>0, <2>1, <2>4
    <2>6. /\ \A d \in Consumers : d # c => consumer'[d] = consumer[d]
          /\ consumer'[c] = [consumer[c] EXCEPT !.lane = [consumer[c].lane EXCEPT ![s] = Head0(rest)]]
        BY <1>0, <1>5
    <2>7. /\ consumer'[c].cursor = consumer[c].cursor
          /\ consumer'[c].lane = [consumer[c].lane EXCEPT ![s] = Head0(rest)]
        BY <1>0, <2>6 DEF States
    <2>8. \A t \in Scopes : consumer'[c].lane[t] = IF t = s THEN Head0(rest) ELSE consumer[c].lane[t]
        BY <1>0, <2>7
    <2>9. \A d \in Consumers : heard[d] \subseteq heard'[d] /\ heard'[c] = heard[c] \cup {i}
        BY <1>0, <1>5 DEF Hear
    <2>10. NothingPruned /\ Len(outbox') = Len(outbox)
        BY <1>0, <1>2, <1>5, PublishKeeps
    <2>11. \A d \in Consumers : d # c => Bounds(d)' /\ Complete(d)'
        BY <1>0, <2>6, <2>9, <2>10, ConsumerKept
    <2>12. Bounds(c)'
        BY <1>0, <2>5, <2>7, <2>8, <2>10 DEF Bounds
    <2>13. ASSUME NEW k \in 1 .. Len(outbox), k \notin heard'[c] \cup skipped'[c]
           PROVE  /\ k \in Kept
                  /\ k <= consumer'[c].cursor => consumer'[c].lane[Scope(k)] # 0 /\ consumer'[c].lane[Scope(k)] <= k
        <3>1. k \notin heard[c] \cup skipped[c] /\ Scope(k) \in Scopes /\ k # i
            BY <1>0, <2>9, <2>13, TableFacts
        <3>2. /\ k \in Kept
              /\ k <= consumer[c].cursor => consumer[c].lane[Scope(k)] # 0 /\ consumer[c].lane[Scope(k)] <= k
            BY <1>0, <3>1 DEF Complete
        <3>3. CASE Scope(k) # s
            BY <2>7, <2>8, <3>1, <3>2, <3>3
        <3>4. CASE Scope(k) = s
            <4>1. ASSUME k <= consumer[c].cursor PROVE Head0(rest) # 0 /\ Head0(rest) <= k
                <5>1. i <= k
                    BY <1>1, <3>2, <3>4, <4>1
                <5>2. i < k
                    BY <1>2, <3>1, <5>1
                <5>3. k \in rest
                    BY <2>2, <3>2, <3>4, <4>1, <5>2
                <5>4. Head0(rest) \in rest /\ Head0(rest) <= k
                    BY <2>4, <5>3
                <5> QED BY <1>0, <2>1, <5>4
            <4> QED BY <2>7, <2>8, <3>1, <3>2, <3>4, <4>1
        <3> QED BY <3>3, <3>4
    <2>14. Complete(c)'
        BY <1>0, <2>7, <2>9, <2>10, <2>13, CompleteStep
    <2> QED BY <2>11, <2>12, <2>14
<1> QED BY <1>3, <1>4, <1>5

\* Pruning drops stale consumers and deletes no row that a remaining one has to carry.
LEMMA PruneCompletes ==
    ASSUME IInv, TableKept, NEW c \in Consumers, Prune(c)
    PROVE  \A d \in Consumers : Bounds(d)' /\ Complete(d)'
<1> SUFFICES ASSUME NEW d \in Consumers PROVE Bounds(d)' /\ Complete(d)'
    OBVIOUS
<1>0. /\ TypeOK /\ CursorsInv /\ consumer \in [Consumers -> States] /\ consumer[d] \in States /\ Complete(d)
      /\ Len(outbox) \in Nat /\ DOMAIN outbox = 1 .. Len(outbox)
      /\ consumer[d].cursor \in 0 .. Len(outbox) /\ consumer[d].lane \in [Scopes -> 0 .. Len(outbox)]
    BY ConsumerFacts DEF IInv
<1>1. heard' = heard /\ skipped' = skipped
    BY DEF Prune
<1>2. PICK stale, cons, n : PrunedTo(c, stale, cons, n)
    BY <1>0, PruneIsSafe
<1>3. /\ Len(outbox') = Len(outbox)
      /\ \A i \in 1 .. Len(outbox) : outbox'[i].status = "pruned" =>
           outbox[i].status = "pruned" \/ (i <= n /\ ~InLane(cons, i))
    BY <1>0, <1>2, PruneKeeps
<1>4. /\ consumer' = cons /\ n \in Nat /\ (cons[d].registered => n <= cons[d].cursor)
      /\ cons[d] = IF d \in stale THEN [consumer[d] EXCEPT !.registered = FALSE, !.lane = NoLanes] ELSE consumer[d]
    BY <1>2 DEF PrunedTo
<1>5. CASE d \in stale
    <2>1. ~consumer'[d].registered /\ consumer'[d].cursor = consumer[d].cursor /\ consumer'[d].lane = NoLanes
        BY <1>0, <1>4, <1>5 DEF States
    <2> QED BY <2>1, ConsumerGone
<1>6. CASE d \notin stale
    <2>1. consumer'[d] = consumer[d] /\ cons[d] = consumer[d]
        BY <1>4, <1>6
    <2>2. CASE ~consumer[d].registered
        BY <2>1, <2>2, ConsumerGone
    <2>3. CASE consumer[d].registered
        <3>1. DOMAIN outbox' = 1 .. Len(outbox)
            BY <1>3, TableMoves
        <3>2. ASSUME NEW k \in 1 .. Len(outbox), k \notin heard[d] \cup skipped[d]
              PROVE  /\ k \in Kept'
                     /\ k <= consumer[d].cursor =>
                          consumer[d].lane[Scope(k)'] # 0 /\ consumer[d].lane[Scope(k)'] <= k
            <4>1. /\ k \in Kept
                  /\ k <= consumer[d].cursor => consumer[d].lane[Scope(k)] # 0 /\ consumer[d].lane[Scope(k)] <= k
                BY <1>0, <2>3, <3>2 DEF Complete
            <4>2. Scope(k)' = Scope(k)
                BY TableMoves
            <4>3. outbox'[k].status # "pruned"
                <5> SUFFICES ASSUME outbox'[k].status = "pruned" PROVE FALSE
                    OBVIOUS
                <5>1. k <= n /\ ~InLane(cons, k)
                    BY <1>3, <4>1 DEF Kept
                <5>2. k <= consumer[d].cursor
                    <6>1. n <= consumer[d].cursor /\ n \in Nat
                        BY <1>4, <2>1, <2>3
                    <6>2. consumer[d].cursor \in Nat /\ k \in Nat
                        BY <1>0
                    <6> QED BY <5>1, <6>1, <6>2
                <5>3. InLane(cons, k)
                    BY <2>1, <2>3, <4>1, <5>2 DEF InLane
                <5> QED BY <5>1, <5>3
            <4>4. k \in Kept'
                BY <3>1, <4>3 DEF Kept
            <4> QED BY <4>1, <4>2, <4>4
        <3>3. Complete(d)'
            BY <1>1, <2>1, <3>1, <3>2 DEF Complete
        <3>4. Bounds(d)'
            BY <1>0, <1>3, <2>1 DEF Bounds
        <3> QED BY <3>3, <3>4
    <2> QED BY <2>2, <2>3
<1> QED BY <1>5, <1>6

LEMMA StepConsumers ==
    ASSUME IInv, [Next]_vars
    PROVE  \A d \in Consumers : Bounds(d)' /\ Complete(d)'
<1>0. /\ TypeOK /\ CursorsInv /\ TableKept /\ Len(outbox) \in Nat /\ DOMAIN outbox = 1 .. Len(outbox)
      /\ heard \in [Consumers -> SUBSET Ids] /\ consumer \in [Consumers -> States]
    BY StepTable, TableFacts DEF IInv, TypeOK, States
<1>1. ASSUME NothingPruned, consumer' = consumer, skipped' = skipped, \A d \in Consumers : heard[d] \subseteq heard'[d]
      PROVE  \A d \in Consumers : Bounds(d)' /\ Complete(d)'
    BY <1>0, <1>1, ConsumerKept
<1>2. CASE \E s \in Scopes : AppendRow(s)
    <2>1. NothingPruned /\ consumer' = consumer /\ skipped' = skipped /\ heard' = heard
        <3>1. PICK s \in Scopes : AppendRow(s)
            BY <1>2
        <3>2. NothingPruned
            BY <1>0, <3>1, AppendKeeps
        <3> QED BY <3>1, <3>2 DEF AppendRow
    <2> QED BY <1>1, <2>1
<1>3. ASSUME NEW c \in Consumers, MarkAncient(c) PROVE \A d \in Consumers : Bounds(d)' /\ Complete(d)'
    <2>1. consumer' = consumer /\ skipped' = skipped /\ heard' = heard /\ (Publish(flush[c].id) \/ outbox' = outbox)
        BY <1>3 DEF MarkAncient
    <2>2. flush[c].id \in flush[c].page /\ flush[c].pc = "mark"
        BY <1>3 DEF IInv, FlushInv, MarkAncient
    <2>3. flush[c].id \in 1 .. Len(outbox)
        BY <2>2, FirstOfPage
    <2>4. NothingPruned
        BY <1>0, <2>1, <2>3, PublishKeeps, SameTable
    <2> QED BY <1>1, <2>1, <2>4
<1>4. ASSUME NEW c \in Consumers, MarkLane(c) PROVE \A d \in Consumers : Bounds(d)' /\ Complete(d)'
    <2>1. /\ flush[c].id \in 1 .. Len(outbox) /\ consumer' = consumer /\ skipped' = skipped /\ heard' = heard
          /\ Publish(flush[c].id) \/ outbox' = outbox
        BY <1>4, MarkedLane
    <2>2. NothingPruned
        BY <1>0, <2>1, PublishKeeps, SameTable
    <2> QED BY <1>1, <2>1, <2>2
<1>5. ASSUME NEW c \in Consumers, Close(c), NEW d \in Consumers PROVE Bounds(d)' /\ Complete(d)'
    <2>1. /\ outbox' = outbox /\ skipped' = skipped /\ heard' = heard
          /\ consumer' = [consumer EXCEPT ![c].registered = FALSE, ![c].lane = NoLanes]
        BY <1>5 DEF Close
    <2>2. NothingPruned
        BY <1>0, <2>1, SameTable
    <2>3. CASE d # c
        <3>1. consumer'[d] = consumer[d] /\ heard[d] \subseteq heard'[d] /\ skipped'[d] = skipped[d]
            BY <1>0, <2>1, <2>3
        <3> QED BY <1>0, <2>2, <3>1, ConsumerKept
    <2>4. CASE d = c
        <3>1. ~consumer'[d].registered /\ consumer'[d].cursor = consumer[d].cursor /\ consumer'[d].lane = NoLanes
            BY <1>0, <2>1, <2>4 DEF States
        <3> QED BY <1>0, <3>1, ConsumerGone
    <2> QED BY <2>3, <2>4
<1>6. CASE \/ UNCHANGED vars \/ Expire
           \/ \E c \in Consumers :
                \/ Ensure(c) \/ LoseScan(c) \/ Discover(c) \/ EndMain(c) \/ EndScopeLanes(c) \/ SkipPrune(c) \/ Crash(c)
                \/ TryAcquire(c) \/ ReleaseScan(c) \/ Normalize(c) \/ PassBlocked(c) \/ EndPage(c)
    <2>1. outbox' = outbox /\ consumer' = consumer /\ skipped' = skipped /\ heard' = heard
        BY <1>6 DEF vars, Expire, Ensure, LoseScan, Discover, EndMain, EndScopeLanes, SkipPrune, Crash,
                    TryAcquire, ReleaseScan, Normalize, PassBlocked, EndPage
    <2>2. NothingPruned
        BY <1>0, <2>1, SameTable
    <2> QED BY <1>1, <2>1, <2>2
<1>7. ASSUME NEW c \in Consumers, PublishAncient(c) \/ \E s \in Scopes : PublishLane(c, s)
      PROVE  \A d \in Consumers : Bounds(d)' /\ Complete(d)'
    <2>1. /\ outbox' = outbox /\ consumer' = consumer /\ skipped' = skipped
          /\ heard' = heard \/ \E i : Hear(c, i)
        BY <1>7 DEF PublishAncient, PublishLane
    <2>2. NothingPruned
        BY <1>0, <2>1, SameTable
    <2>3. \A d \in Consumers : heard[d] \subseteq heard'[d]
        BY <1>0, <2>1 DEF Hear
    <2> QED BY <1>1, <2>1, <2>2, <2>3
<1> QED BY <1>0, <1>2, <1>3, <1>4, <1>5, <1>6, <1>7, StepCases, RegisterCompletes, MainRowCompletes, ScopeRowCompletes,
           PruneCompletes

-----------------------------------------------------------------------------
(* The theorems. *)

LEMMA InitInv == Init => IInv
<1> SUFFICES ASSUME Init PROVE IInv
    OBVIOUS
<1>1. TypeOK
    <2>1. outbox \in Seq(Rows)
        BY DEF Init
    <2>2. flush \in [Consumers -> Flushes]
        BY IdleType DEF Init
    <2>3. NoLanes \in [Scopes -> Nat]
        BY DEF NoLanes
    <2> QED BY <2>1, <2>2, <2>3 DEF Init, TypeOK
<1>2. outbox = <<>> /\ Len(outbox) = 0 /\ DOMAIN outbox = {}
    BY DEF Init
<1>3. Unpublished = {}
    BY <1>2 DEF Unpublished
<1>4. \A c \in Consumers : flush[c].pc = "idle" /\ flush[c].floor = 0 /\ consumer[c].cursor = 0
                           /\ ~consumer[c].registered /\ consumer[c].lane = NoLanes
    BY DEF Init, Idle
<1>5. CursorsInv
    <2>1. \A s \in Scopes : lanes[s] = 0 /\ NoLanes[s] = 0
        BY DEF Init, NoLanes
    <2>2. global.scan = 0 /\ global.through = 0
        BY DEF Init
    <2> QED BY <1>2, <1>4, <2>1, <2>2, OutboxAssumption DEF CursorsInv
<1>6. \A c \in Consumers : FlushInv(c) /\ ScanInv(c)
    BY <1>4 DEF FlushInv, ScanInv
<1>7. LaneInv
    BY <1>3 DEF LaneInv
<1>8. NoRowSkipped
    BY <1>4 DEF NoRowSkipped
<1> QED BY <1>1, <1>5, <1>6, <1>7, <1>8 DEF IInv

LEMMA StepInv == IInv /\ [Next]_vars => IInv'
<1> SUFFICES ASSUME IInv, [Next]_vars PROVE IInv'
    OBVIOUS
<1>1. TypeOK' /\ TableKept
    BY StepType, StepTable
<1>2. \A d \in Consumers : Bounds(d)' /\ Complete(d)'
    BY StepConsumers
<1>3. CursorsInv'
    <2>1. Len(outbox') <= MaxRows
        BY <1>1 DEF TableKept
    <2>2. global'.scan <= global'.through /\ global'.through <= Len(outbox')
        BY StepRange
    <2>3. (\A s \in Scopes : lanes[s] <= Len(outbox) /\ (lanes[s] # 0 => Scope(lanes[s]) = s))'
        BY StepHeads
    <2>4. \A c \in Consumers : flush'[c].floor <= Len(outbox')
        BY StepFloor
    <2> QED BY <1>2, <2>1, <2>2, <2>3, <2>4 DEF CursorsInv, Bounds
<1>4. NoRowSkipped'
    BY <1>2 DEF NoRowSkipped, Complete
<1> QED BY <1>1, <1>3, <1>4, StepFlush, StepLane DEF IInv

THEOREM OutboxInvariant == Spec => []IInv
<1>1. IInv /\ UNCHANGED vars => IInv'
    BY StepInv
<1> QED BY InitInv, StepInv, PTL DEF Spec

\* TypeOK: cursors, lanes, pages and fences keep their types whatever processes register, crash, lose
\* the term or are dropped; rows never number more than MaxRows.
THEOREM TypeCorrect == Spec => []TypeOK
<1>1. IInv => TypeOK
    BY DEF IInv
<1> QED BY <1>1, OutboxInvariant, PTL

\* The scan of ancient rows leaves no unpublished row behind, and no registered consumer is passed
\* over by a row: flush_outbox(), _mark_global_outbox_published()/_failed() and prune_outbox() of any
\* number of processes, with crashes, ended terms and dropped consumers, lose nothing.
THEOREM OutboxIsCompleteHolds == Spec => []OutboxIsComplete
<1>1. IInv => NothingLeftBehind
    BY DEF IInv, LaneInv, NothingLeftBehind
<1>2. IInv => OutboxIsComplete
    BY <1>1 DEF IInv, OutboxIsComplete
<1> QED BY <1>2, OutboxInvariant, PTL

\* A process whose term ended or was taken over moves neither the shared scan cursor nor a lane:
\* the fenced transactions of the recovery (lease owner, fence and term checked) let only the holder.
THEOREM OnlyScannerMovesHolds == Spec => OnlyScannerMoves
<1> DEFINE A == global'.scan # global.scan \/ lanes' # lanes =>
                  \E c \in Consumers : /\ flush'[c] # flush[c]
                                       /\ global.live /\ global.owner = c /\ global.fence = flush[c].fence
<1>1. IInv /\ [Next]_vars => [A]_vars
    <2> SUFFICES ASSUME IInv, [Next]_vars, ~(global'.scan = global.scan /\ lanes' = lanes)
                 PROVE  \E c \in Consumers : /\ flush'[c] # flush[c]
                                             /\ global.live /\ global.owner = c /\ global.fence = flush[c].fence
        OBVIOUS
    <2> QED BY ScannerActs DEF OwnsScan
<1> QED BY <1>1, OutboxInvariant, PTL DEF Spec, OnlyScannerMoves

-----------------------------------------------------------------------------
(***************************************************************************)
(* The bytes of artifacts (ArtifactStore).  A lease term has one handler,  *)
(* and only that handler, or a startup that finds the term over or nobody  *)
(* building, removes its directory (MakerInv).  A run ends once, so the    *)
(* row of an artifact that a clear removed is never written again, except  *)
(* by a startup that finds an old directory; what a clear or a later       *)
(* request has found gone stays away, and only that leaves the receipt's   *)
(* errors (FilesInv).                                                      *)
(***************************************************************************)

BootPlaces == {"cleanup", "list", "entries", "recover", "replay", "targets", "up"}
BootRecords == [at : BootPlaces, seen : Nat, live : BOOLEAN, todo : SUBSET (Artifacts!Artifacts \cup Nat)]

\* Who builds for which term.
MakerInv ==
    /\ lease \in [term : 0 .. MaxTerms, live : BOOLEAN]
    /\ build \in {"active", "succeeded", "failed"} /\ kind \in Artifacts!Kinds
    /\ maker \in [Builders -> [at : Artifacts!HandlerPlaces, fence : 0 .. MaxTerms]]
    /\ private \subseteq 1 .. lease.term /\ marker \in 0 .. lease.term
    /\ \A p \in Builders :
           /\ maker[p].fence <= lease.term
           /\ maker[p].at # "idle" => maker[p].fence # 0
           /\ \A q \in Builders : p # q => maker[p].fence # maker[q].fence \/ maker[p].fence = 0
    /\ Artifacts!LiveBuildKept

Clears == [at : {"none", "committed", "done"}, todo : SUBSET Artifacts!Artifacts,
           ids : SUBSET Artifacts!Artifacts, gone : SUBSET Artifacts!Artifacts,
           left : SUBSET Artifacts!Artifacts]

\* What is left of an artifact's row, links and bytes once a clear has had its turn.
FilesInv ==
    /\ dir \in [Artifacts!Artifacts -> {Artifacts!Old} \cup 0 .. lease.term]
    /\ artifact \in [Artifacts!Artifacts -> {Artifacts!Old} \cup 0 .. lease.term]
    /\ linked \subseteq {x \in Artifacts!Artifacts : artifact[x] # 0}
    /\ clear \in Clears /\ late \in BOOLEAN
    /\ clear.at = "none" => clear.ids = {}
    /\ "new" \in linked \cup clear.ids => build = "succeeded"
    /\ "new" \in clear.ids => artifact["new"] = 0
    /\ \A x \in clear.ids : x \notin clear.left \/ x \in clear.gone => dir[x] = 0 \/ (x = "new" /\ late)
    /\ Artifacts!RowHasItsBytes

BootInv ==
    /\ boot \in [Builders -> BootRecords]
    /\ \A p \in Builders :
           /\ boot[p].seen <= lease.term
           /\ boot[p].todo \subseteq IF boot[p].at = "targets" THEN Artifacts!Artifacts ELSE 1 .. lease.term
    /\ crashes \in 0 .. MaxCrashes

ArtifactInv == MakerInv /\ FilesInv /\ BootInv

-----------------------------------------------------------------------------
(* Steps of one process. *)

LEMMA ArtInit ==
    ASSUME Artifacts!Init
    PROVE  ArtifactInv
<1>1. MakerInv
  <2>1. /\ lease.term = 0 /\ ~lease.live /\ build = "active" /\ kind \in Artifacts!Kinds
        /\ private = {} /\ marker = 0
        /\ maker = [p \in Builders |-> [at |-> "idle", fence |-> 0]]
    BY DEF Artifacts!Init, Artifacts!Idle
  <2>2. lease \in [term : 0 .. MaxTerms, live : BOOLEAN]
    BY FileBounds DEF Artifacts!Init
  <2>3. maker \in [Builders -> [at : Artifacts!HandlerPlaces, fence : 0 .. MaxTerms]]
    BY <2>1, FileBounds DEF Artifacts!HandlerPlaces
  <2>4. Artifacts!LiveBuildKept
    BY <2>1 DEF Artifacts!LiveBuildKept, Artifacts!Building
  <2> QED
    BY <2>1, <2>2, <2>3, <2>4 DEF MakerInv
<1>2. FilesInv
  <2>1. /\ lease.term = 0 /\ artifact = [x \in Artifacts!Artifacts |-> 0]
        /\ dir = [x \in Artifacts!Artifacts |-> IF x = "old" THEN Artifacts!Old ELSE 0]
        /\ linked = {} /\ clear = [at |-> "none", todo |-> {}, ids |-> {}, gone |-> {}, left |-> {}]
        /\ late = FALSE
    BY DEF Artifacts!Init
  <2>2. Artifacts!RowHasItsBytes
    BY <2>1 DEF Artifacts!RowHasItsBytes
  <2>3. dir \in [Artifacts!Artifacts -> {Artifacts!Old} \cup 0 .. lease.term]
    BY <2>1
  <2>4. artifact \in [Artifacts!Artifacts -> {Artifacts!Old} \cup 0 .. lease.term]
    BY <2>1
  <2>5. clear \in Clears /\ clear.ids = {}
    BY <2>1 DEF Clears
  <2> QED
    BY <2>1, <2>2, <2>3, <2>4, <2>5 DEF FilesInv
<1>3. BootInv
  BY FileBounds DEF Artifacts!Init, Artifacts!Booting, BootInv, BootRecords, BootPlaces
<1> QED
  BY <1>1, <1>2, <1>3 DEF ArtifactInv

\* Rows and files stand while the lease only runs on.
LEMMA FilesStand ==
    ASSUME ArtifactInv, lease'.term \in Nat, lease.term <= lease'.term,
           build' = build \/ "new" \notin linked \cup clear.ids,
           UNCHANGED <<dir, artifact, linked, clear, late>>
    PROVE  FilesInv'
<1>1. 0 .. lease.term \subseteq 0 .. lease'.term
  BY DEF ArtifactInv, MakerInv
<1> QED
  BY <1>1 DEF ArtifactInv, FilesInv, Artifacts!RowHasItsBytes

LEMMA BootStands ==
    ASSUME ArtifactInv, lease'.term \in Nat, lease.term <= lease'.term, UNCHANGED <<boot, crashes>>
    PROVE  BootInv'
<1>1. 1 .. lease.term \subseteq 1 .. lease'.term
  BY DEF ArtifactInv, MakerInv
<1>2. boot' \in [Builders -> BootRecords] /\ crashes' \in 0 .. MaxCrashes
  BY DEF ArtifactInv, BootInv
<1>3. ASSUME NEW p \in Builders
      PROVE  /\ (boot[p].seen <= lease.term)'
             /\ (boot[p].todo \subseteq IF boot[p].at = "targets" THEN Artifacts!Artifacts ELSE 1 .. lease.term)'
  BY <1>1, <1>3 DEF ArtifactInv, BootInv, MakerInv, BootRecords
<1> QED
  BY <1>2, <1>3 DEF BootInv, Artifacts!Artifacts

\* A handler goes on.
LEMMA MakerGoes ==
    ASSUME ArtifactInv, NEW p \in Builders, NEW place \in Artifacts!HandlerPlaces,
           maker' = [maker EXCEPT ![p].at = place], maker[p].at # "idle",
           private \ {maker[p].fence} \subseteq private', private' \subseteq private \cup {maker[p].fence},
           place \in Artifacts!Building =>
               maker[p].fence \in private' \/ (maker[p].at \in Artifacts!Building /\ private' = private),
           marker' \in 0 .. lease.term,
           UNCHANGED <<kind, lease, build>>
    PROVE  MakerInv'
<1>1. maker[p] \in [at : Artifacts!HandlerPlaces, fence : 0 .. MaxTerms]
  BY DEF ArtifactInv, MakerInv
<1>2. maker' \in [Builders -> [at : Artifacts!HandlerPlaces, fence : 0 .. MaxTerms]]
  BY <1>1 DEF ArtifactInv, MakerInv
<1>3. ASSUME NEW q \in Builders
      PROVE  maker'[q].fence = maker[q].fence /\ maker'[q].at = IF q = p THEN place ELSE maker[q].at
  BY <1>1 DEF ArtifactInv, MakerInv
<1>4. maker[p].fence \in 1 .. lease.term
  BY <1>1, FileBounds DEF ArtifactInv, MakerInv
<1>5. ASSUME NEW q \in Builders, maker'[q].at \in Artifacts!Building, Artifacts!Owns(q)'
      PROVE  maker'[q].fence \in private'
  <2>1. Artifacts!Owns(q)
    BY <1>3, <1>5 DEF Artifacts!Owns
  <2>2. CASE q = p
    BY <1>3, <1>5, <2>1, <2>2 DEF ArtifactInv, MakerInv, Artifacts!LiveBuildKept
  <2>3. CASE q # p
    <3>1. maker[q].fence \in private
      BY <1>3, <1>5, <2>1, <2>3 DEF ArtifactInv, MakerInv, Artifacts!LiveBuildKept
    <3>2. maker[q].fence # maker[p].fence
      BY <1>4, <2>3 DEF ArtifactInv, MakerInv
    <3> QED
      BY <1>3, <3>1, <3>2
  <2> QED
    BY <2>2, <2>3
<1>6. Artifacts!LiveBuildKept'
  BY <1>5 DEF Artifacts!LiveBuildKept
<1>7. private' \subseteq 1 .. lease.term
  BY <1>4 DEF ArtifactInv, MakerInv
<1> QED
  BY <1>2, <1>3, <1>6, <1>7 DEF ArtifactInv, MakerInv

\* A handler ends, and with it perhaps the term and the run.
LEMMA MakerEnds ==
    ASSUME ArtifactInv, NEW p \in Builders, Artifacts!Ends(p),
           lease' = lease \/ lease' = [lease EXCEPT !.live = FALSE],
           build' = build \/ (~lease'.live /\ build' \in {"active", "succeeded", "failed"}),
           UNCHANGED <<kind, private, marker>>
    PROVE  MakerInv'
<1>0. Artifacts!Idle.at = "idle" /\ Artifacts!Idle.fence = 0
  BY DEF Artifacts!Idle
<1>1. maker' \in [Builders -> [at : Artifacts!HandlerPlaces, fence : 0 .. MaxTerms]]
  <2>1. Artifacts!Idle \in [at : Artifacts!HandlerPlaces, fence : 0 .. MaxTerms]
    BY FileBounds DEF Artifacts!Idle, Artifacts!HandlerPlaces
  <2> QED
    BY <2>1 DEF ArtifactInv, MakerInv, Artifacts!Ends
<1>2. ASSUME NEW q \in Builders
      PROVE  maker'[q] = IF q = p THEN Artifacts!Idle ELSE maker[q]
  BY DEF ArtifactInv, MakerInv, Artifacts!Ends
<1>3. /\ lease' \in [term : 0 .. MaxTerms, live : BOOLEAN]
      /\ lease'.term = lease.term /\ (lease'.live => lease' = lease)
      /\ build' \in {"active", "succeeded", "failed"}
  BY DEF ArtifactInv, MakerInv
<1>4. ASSUME NEW q \in Builders, maker'[q].at \in Artifacts!Building, Artifacts!Owns(q)'
      PROVE  maker'[q].fence \in private'
  <2>1. q # p
    BY <1>0, <1>2, <1>4 DEF Artifacts!Building
  <2>2. Artifacts!Owns(q)
    <3>1. lease'.live
      BY <1>4 DEF Artifacts!Owns
    <3> QED
      BY <1>2, <1>3, <1>4, <2>1, <3>1 DEF Artifacts!Owns
  <2> QED
    BY <1>2, <1>4, <2>1, <2>2 DEF ArtifactInv, MakerInv, Artifacts!LiveBuildKept
<1>5. Artifacts!LiveBuildKept'
  BY <1>4 DEF Artifacts!LiveBuildKept
<1>6. ASSUME NEW q \in Builders
      PROVE  /\ maker'[q].fence <= lease'.term
             /\ maker'[q].at # "idle" => maker'[q].fence # 0
             /\ \A z \in Builders : q # z => maker'[q].fence # maker'[z].fence \/ maker'[q].fence = 0
  BY <1>0, <1>2, <1>3 DEF ArtifactInv, MakerInv
<1> QED
  BY <1>1, <1>3, <1>5, <1>6 DEF ArtifactInv, MakerInv

\* A process that starts up goes on; it removes a directory only if nobody who owns the run builds in it.
LEMMA BootMoves ==
    ASSUME ArtifactInv, NEW p \in Builders, NEW b \in BootRecords, Artifacts!BootGoes(p, b),
           b.seen <= lease.term,
           b.todo \subseteq IF b.at = "targets" THEN Artifacts!Artifacts ELSE 1 .. lease.term,
           UNCHANGED <<lease, crashes>>
    PROVE  BootInv'
<1>1. boot' \in [Builders -> BootRecords]
  BY DEF ArtifactInv, BootInv, Artifacts!BootGoes
<1>2. ASSUME NEW q \in Builders
      PROVE  boot'[q] = IF q = p THEN b ELSE boot[q]
  BY DEF ArtifactInv, BootInv, Artifacts!BootGoes
<1> QED
  BY <1>1, <1>2 DEF ArtifactInv, BootInv, Artifacts!Artifacts

LEMMA MakersStand ==
    ASSUME ArtifactInv, private' \subseteq private, marker' \in {0, marker},
           \A d \in private \ private' : ~lease.live \/ \A q \in Builders : maker[q].fence # d,
           UNCHANGED <<lease, build, kind, maker>>
    PROVE  MakerInv'
<1>1. ASSUME NEW q \in Builders, maker[q].at \in Artifacts!Building, Artifacts!Owns(q)
      PROVE  maker[q].fence \in private'
  <2>1. maker[q].fence \in private /\ lease.live
    BY <1>1 DEF ArtifactInv, MakerInv, Artifacts!LiveBuildKept, Artifacts!Owns
  <2> QED
    BY <2>1
<1>2. Artifacts!LiveBuildKept'
  BY <1>1 DEF Artifacts!LiveBuildKept, Artifacts!Owns
<1>3. marker' \in 0 .. lease.term
  BY DEF ArtifactInv, MakerInv
<1> QED
  BY <1>2, <1>3 DEF ArtifactInv, MakerInv

-----------------------------------------------------------------------------
(* The steps of ArtifactStore. *)

LEMMA HandlerMoves ==
    ASSUME ArtifactInv, NEW p \in Builders, NEW place \in Artifacts!HandlerPlaces,
           maker' = [maker EXCEPT ![p].at = place], maker[p].at # "idle",
           private \ {maker[p].fence} \subseteq private', private' \subseteq private \cup {maker[p].fence},
           place \in Artifacts!Building =>
               maker[p].fence \in private' \/ (maker[p].at \in Artifacts!Building /\ private' = private),
           marker' \in {0, marker, maker[p].fence},
           UNCHANGED <<kind, lease, build, dir, artifact, linked, clear, boot, late, crashes>>
    PROVE  ArtifactInv'
<1>1. /\ lease.term \in Nat /\ marker \in 0 .. lease.term /\ 0 \in 0 .. lease.term
      /\ maker[p].fence \in 0 .. lease.term
  BY FileBounds DEF ArtifactInv, MakerInv
<1>2. marker' \in 0 .. lease.term
  BY <1>1
<1>3. MakerInv'
  BY <1>2, MakerGoes
<1>4. FilesInv'
  BY <1>1, FilesStand
<1>5. BootInv'
  BY <1>1, BootStands
<1> QED
  BY <1>3, <1>4, <1>5 DEF ArtifactInv

LEMMA HandlerGoesKeeps ==
    ASSUME ArtifactInv, NEW p \in Builders,
           \/ Artifacts!LoadArtifact(p) \/ Artifacts!Mark(p) \/ Artifacts!MakeDir(p) \/ Artifacts!AskModel(p)
           \/ Artifacts!RenderText(p) \/ Artifacts!RenderPage(p) \/ Artifacts!RenderDeck(p)
           \/ Artifacts!BuildFails(p) \/ Artifacts!ReadMarker(p) \/ Artifacts!UnlinkMarker(p)
    PROVE  ArtifactInv'
<1> USE DEF Artifacts!Goes
<1>0. Artifacts!HandlerPlaces = {"idle", "load", "mark", "mkdir", "unlink", "unlink failed", "unlink lost",
         "manifest", "commit", "fail", "unmark", "unmark failed", "unmark lost",
         "ask", "render", "ask again", "render again", "build"}
  BY DEF Artifacts!HandlerPlaces, Artifacts!Unmarking, Artifacts!Building
<1>1. CASE Artifacts!LoadArtifact(p)
  <2>1. PICK place \in {"manifest", "mark"} : maker' = [maker EXCEPT ![p].at = place]
    BY <1>1 DEF Artifacts!LoadArtifact
  <2> QED
    BY <1>0, <1>1, <2>1, HandlerMoves DEF Artifacts!LoadArtifact, Artifacts!Building
<1>2. CASE Artifacts!Mark(p)
  BY <1>0, <1>2, HandlerMoves DEF Artifacts!Mark, Artifacts!Building
<1>3. CASE Artifacts!MakeDir(p)
  BY <1>0, <1>3, HandlerMoves DEF Artifacts!MakeDir, Artifacts!Building
<1>4. CASE Artifacts!AskModel(p)
  <2>1. PICK place \in {"render", "render again"} : maker' = [maker EXCEPT ![p].at = place]
    BY <1>4 DEF Artifacts!AskModel
  <2> QED
    BY <1>0, <1>4, <2>1, HandlerMoves DEF Artifacts!AskModel, Artifacts!Building
<1>5. CASE Artifacts!RenderText(p) \/ Artifacts!RenderPage(p) \/ Artifacts!RenderDeck(p)
  <2>1. PICK place \in {"build", "ask again"} : maker' = [maker EXCEPT ![p].at = place]
    BY <1>5 DEF Artifacts!RenderText, Artifacts!RenderPage, Artifacts!RenderDeck
  <2>2. /\ maker[p].at \in {"render", "render again"} /\ maker[p].fence \in private
        /\ UNCHANGED <<kind, lease, build, private, marker, dir, artifact, linked, clear, boot, late,
                       crashes>>
    BY <1>5 DEF Artifacts!RenderText, Artifacts!RenderPage, Artifacts!RenderDeck
  <2> QED
    BY <1>0, <2>1, <2>2, HandlerMoves
<1>6. CASE Artifacts!BuildFails(p)
  <2>1. PICK place \in {"unmark failed", "unmark lost"} : maker' = [maker EXCEPT ![p].at = place]
    BY <1>6 DEF Artifacts!BuildFails
  <2> QED
    BY <1>0, <1>6, <2>1, HandlerMoves DEF Artifacts!BuildFails, Artifacts!Building
<1>7. CASE Artifacts!ReadMarker(p)
  <2>1. PICK place \in {"unlink", "unlink failed", "unlink lost", "manifest", "fail", "idle"} :
            maker' = [maker EXCEPT ![p].at = place]
    BY <1>7 DEF Artifacts!ReadMarker, Artifacts!Unlinking, Artifacts!AfterUnmark
  <2> QED
    BY <1>0, <1>7, <2>1, HandlerMoves DEF Artifacts!ReadMarker, Artifacts!Building, Artifacts!Unmarking
<1>8. CASE Artifacts!UnlinkMarker(p)
  <2>1. PICK place \in {"manifest", "fail", "idle"} : maker' = [maker EXCEPT ![p].at = place]
    BY <1>8 DEF Artifacts!UnlinkMarker, Artifacts!AfterUnmark
  <2> QED
    BY <1>0, <1>8, <2>1, HandlerMoves DEF Artifacts!UnlinkMarker, Artifacts!Building
<1> QED
  BY <1>1, <1>2, <1>3, <1>4, <1>5, <1>6, <1>7, <1>8

\* A new term is nobody's else.
LEMMA AcquireKeeps ==
    ASSUME ArtifactInv, NEW p \in Builders, Artifacts!Acquire(p)
    PROVE  ArtifactInv'
<1>1. /\ lease.term \in Nat /\ lease.term < MaxTerms /\ MaxTerms \in Nat
      /\ lease' = [term |-> lease.term + 1, live |-> TRUE]
      /\ maker' = [maker EXCEPT ![p] = [at |-> "load", fence |-> lease.term + 1]]
      /\ UNCHANGED <<kind, build, private, marker, dir, artifact, linked, clear, boot, late, crashes>>
  BY FileBounds DEF ArtifactInv, MakerInv, Artifacts!Acquire
<1>2. lease'.term = lease.term + 1 /\ lease' \in [term : 0 .. MaxTerms, live : BOOLEAN]
  BY <1>1
<1>3. ASSUME NEW q \in Builders
      PROVE  maker'[q] = IF q = p THEN [at |-> "load", fence |-> lease.term + 1] ELSE maker[q]
  BY <1>1 DEF ArtifactInv, MakerInv
<1>4. maker' \in [Builders -> [at : Artifacts!HandlerPlaces, fence : 0 .. MaxTerms]]
  <2>1. [at |-> "load", fence |-> lease.term + 1] \in [at : Artifacts!HandlerPlaces, fence : 0 .. MaxTerms]
    BY <1>1 DEF Artifacts!HandlerPlaces
  <2> QED
    BY <1>1, <2>1 DEF ArtifactInv, MakerInv
<1>5. ASSUME NEW q \in Builders
      PROVE  /\ maker'[q].fence <= lease'.term
             /\ maker'[q].at # "idle" => maker'[q].fence # 0
             /\ \A z \in Builders : q # z => maker'[q].fence # maker'[z].fence \/ maker'[q].fence = 0
  BY <1>1, <1>2, <1>3 DEF ArtifactInv, MakerInv
<1>6. ASSUME NEW q \in Builders
      PROVE  ~(maker'[q].at \in Artifacts!Building /\ Artifacts!Owns(q)')
  <2>1. CASE q = p
    <3>1. maker'[q].at = "load"
      BY <1>3, <2>1
    <3> QED
      BY <3>1 DEF Artifacts!Building
  <2>2. CASE q # p
    <3>1. maker[q].fence <= lease.term /\ maker[q].fence \in 0 .. MaxTerms
      BY DEF ArtifactInv, MakerInv
    <3> QED
      BY <1>1, <1>2, <1>3, <2>2, <3>1 DEF Artifacts!Owns
  <2> QED
    BY <2>1, <2>2
<1>7. Artifacts!LiveBuildKept'
  BY <1>6 DEF Artifacts!LiveBuildKept
<1>8. private' \subseteq 1 .. lease'.term /\ marker' \in 0 .. lease'.term
  BY <1>1, <1>2 DEF ArtifactInv, MakerInv
<1>9. MakerInv'
  BY <1>1, <1>2, <1>4, <1>5, <1>7, <1>8 DEF ArtifactInv, MakerInv
<1>10. FilesInv'
  BY <1>1, <1>2, FilesStand
<1>11. BootInv'
  BY <1>1, <1>2, BootStands
<1> QED
  BY <1>9, <1>10, <1>11 DEF ArtifactInv

\* The bytes of a term are published where there are none, so no row changes its bytes.
LEMMA BuildPublishKeeps ==
    ASSUME ArtifactInv, NEW p \in Builders, Artifacts!Publish(p)
    PROVE  ArtifactInv'
<1>1. /\ maker[p].at = "build" /\ maker[p].fence \in private
      /\ private' = private \ {maker[p].fence}
      /\ maker' = [maker EXCEPT ![p].at = "unmark"]
      /\ dir' = [dir EXCEPT !["new"] = IF dir["new"] = 0 THEN maker[p].fence ELSE dir["new"]]
      /\ late' = (late \/ (dir["new"] = 0 /\ "new" \in clear.ids))
      /\ UNCHANGED <<kind, lease, build, marker, artifact, linked, clear, boot, crashes>>
  BY DEF Artifacts!Publish, Artifacts!Goes
<1>2. lease.term \in Nat /\ maker[p].fence \in 0 .. lease.term /\ marker \in 0 .. lease.term
  BY <1>1, FileBounds DEF ArtifactInv, MakerInv
<1>3. MakerInv'
  <2>1. "unmark" \in Artifacts!HandlerPlaces /\ "unmark" \notin Artifacts!Building
    BY DEF Artifacts!HandlerPlaces, Artifacts!Unmarking, Artifacts!Building
  <2> QED
    BY <1>1, <1>2, <2>1, MakerGoes
<1>4. FilesInv'
  <2>1. "new" \in Artifacts!Artifacts
    BY DEF Artifacts!Artifacts
  <2>2. dir \in [Artifacts!Artifacts -> {Artifacts!Old} \cup 0 .. lease.term]
    BY DEF ArtifactInv, FilesInv
  <2>3. dir' \in [Artifacts!Artifacts -> {Artifacts!Old} \cup 0 .. lease.term]
    BY <1>1, <1>2, <2>1, <2>2
  <2>4. ASSUME NEW x \in Artifacts!Artifacts
        PROVE  dir'[x] = dir[x] \/ (x = "new" /\ dir["new"] = 0)
    BY <1>1, <2>1, <2>2
  <2>5. Artifacts!RowHasItsBytes'
    BY <1>1, <2>4 DEF Artifacts!RowHasItsBytes, ArtifactInv, FilesInv
  <2>6. ASSUME NEW x \in clear.ids, x \notin clear.left \/ x \in clear.gone
        PROVE  dir'[x] = 0 \/ (x = "new" /\ late')
    <3>1. x \in Artifacts!Artifacts
      BY DEF ArtifactInv, FilesInv, Clears
    <3> QED
      BY <1>1, <2>4, <2>6, <3>1 DEF ArtifactInv, FilesInv
  <2>7. late' \in BOOLEAN
    BY <1>1 DEF ArtifactInv, FilesInv
  <2> QED
    BY <1>1, <2>3, <2>5, <2>6, <2>7 DEF ArtifactInv, FilesInv
<1>5. BootInv'
  BY <1>1, <1>2, BootStands
<1> QED
  BY <1>3, <1>4, <1>5 DEF ArtifactInv

\* A handler that ends without a row.
LEMMA EndsKeep ==
    ASSUME ArtifactInv, NEW p \in Builders, Artifacts!Ends(p),
           lease' = lease \/ lease' = [lease EXCEPT !.live = FALSE],
           build' = build \/ (build = "active" /\ ~lease'.live /\ build' \in {"active", "succeeded", "failed"}),
           UNCHANGED <<kind, private, marker, dir, artifact, linked, clear, boot, late, crashes>>
    PROVE  ArtifactInv'
<1>1. lease'.term = lease.term /\ lease.term \in Nat
  BY DEF ArtifactInv, MakerInv
<1>2. MakerInv'
  BY MakerEnds
<1>3. FilesInv'
  <2>1. build = "active" => "new" \notin linked \cup clear.ids
    BY DEF ArtifactInv, FilesInv
  <2> QED
    BY <1>1, <2>1, FilesStand
<1>4. BootInv'
  BY <1>1, BootStands
<1> QED
  BY <1>2, <1>3, <1>4 DEF ArtifactInv

LEMMA HandlerEndsKeeps ==
    ASSUME ArtifactInv, NEW p \in Builders,
           Artifacts!Manifest(p) \/ Artifacts!FailRun(p) \/ Artifacts!Fenced(p)
    PROVE  ArtifactInv'
<1>1. CASE Artifacts!Manifest(p)
  <2>1. CASE dir["new"] # 0
    <3>1. "commit" \in Artifacts!HandlerPlaces /\ "commit" \notin Artifacts!Building
      BY DEF Artifacts!HandlerPlaces, Artifacts!Building
    <3> QED
      BY <1>1, <2>1, <3>1, HandlerMoves DEF Artifacts!Manifest, Artifacts!Goes
  <2>2. CASE dir["new"] = 0
    BY <1>1, <2>2, EndsKeep DEF Artifacts!Manifest
  <2> QED
    BY <2>1, <2>2
<1>2. CASE Artifacts!FailRun(p)
  <2>1. lease' = [lease EXCEPT !.live = FALSE] /\ ~lease'.live
    BY <1>2 DEF Artifacts!FailRun, ArtifactInv, MakerInv
  <2> QED
    BY <1>2, <2>1, EndsKeep DEF Artifacts!FailRun, Artifacts!Owns
<1>3. CASE Artifacts!Fenced(p)
  BY <1>3, EndsKeep DEF Artifacts!Fenced
<1> QED
  BY <1>1, <1>2, <1>3

\* The row of the run is written once, in the transaction that ends the run, for the bytes that are there.
LEMMA CommitKeeps ==
    ASSUME ArtifactInv, NEW p \in Builders, Artifacts!Commit(p)
    PROVE  ArtifactInv'
<1>1. /\ build = "active" /\ dir["new"] # 0
      /\ artifact' = [artifact EXCEPT !["new"] = dir["new"]]
      /\ linked' = linked \cup {"new"}
      /\ build' = "succeeded"
      /\ lease' = [lease EXCEPT !.live = FALSE]
      /\ Artifacts!Ends(p)
      /\ UNCHANGED <<kind, private, marker, dir, clear, boot, late, crashes>>
  BY DEF Artifacts!Commit, Artifacts!Owns, Artifacts!Register
<1>2. lease'.term = lease.term /\ lease.term \in Nat /\ ~lease'.live
  BY <1>1 DEF ArtifactInv, MakerInv
<1>3. MakerInv'
  BY <1>1, <1>2, MakerEnds
<1>4. FilesInv'
  <2>1. "new" \in Artifacts!Artifacts
    BY DEF Artifacts!Artifacts
  <2>2. artifact' \in [Artifacts!Artifacts -> {Artifacts!Old} \cup 0 .. lease.term]
    BY <1>1, <2>1 DEF ArtifactInv, FilesInv
  <2>3. ASSUME NEW x \in Artifacts!Artifacts
        PROVE  artifact'[x] = IF x = "new" THEN dir["new"] ELSE artifact[x]
    BY <1>1, <2>1 DEF ArtifactInv, FilesInv
  <2>4. Artifacts!RowHasItsBytes'
    BY <1>1, <2>3 DEF Artifacts!RowHasItsBytes, ArtifactInv, FilesInv
  <2>5. "new" \notin clear.ids
    BY <1>1 DEF ArtifactInv, FilesInv
  <2>6. linked' \subseteq {x \in Artifacts!Artifacts : artifact'[x] # 0}
    BY <1>1, <2>1, <2>3 DEF ArtifactInv, FilesInv
  <2>7. "old" \in Artifacts!Artifacts
    BY DEF Artifacts!Artifacts
  <2> QED
    BY <1>1, <1>2, <2>2, <2>3, <2>4, <2>5, <2>6, <2>7 DEF ArtifactInv, FilesInv
<1>5. BootInv'
  BY <1>1, <1>2, BootStands
<1> QED
  BY <1>3, <1>4, <1>5 DEF ArtifactInv

LEMMA ExpireKeeps ==
    ASSUME ArtifactInv, Artifacts!Expire
    PROVE  ArtifactInv'
<1>1. /\ lease' = [lease EXCEPT !.live = FALSE]
      /\ lease' \in [term : 0 .. MaxTerms, live : BOOLEAN]
      /\ lease'.term = lease.term /\ lease.term \in Nat /\ ~lease'.live
      /\ UNCHANGED <<build, kind, maker, private, marker, dir, artifact, linked, clear, boot, late,
                     crashes>>
  <2>1. lease \in [term : 0 .. MaxTerms, live : BOOLEAN] /\ lease.term \in Nat
    BY FileBounds DEF ArtifactInv, MakerInv
  <2>2. lease' = [lease EXCEPT !.live = FALSE]
    BY DEF Artifacts!Expire
  <2>3. UNCHANGED <<build, kind, maker, private, marker, dir, artifact, linked, clear, boot, late,
                    crashes>>
    BY DEF Artifacts!Expire
  <2> QED
    BY <2>1, <2>2, <2>3
<1>2. Artifacts!LiveBuildKept'
  BY <1>1 DEF Artifacts!LiveBuildKept, Artifacts!Owns
<1>3. MakerInv'
  BY <1>1, <1>2 DEF ArtifactInv, MakerInv
<1>4. FilesInv'
  BY <1>1, FilesStand
<1>5. BootInv'
  BY <1>1, BootStands
<1> QED
  BY <1>3, <1>4, <1>5 DEF ArtifactInv

LEMMA ArtCrashKeeps ==
    ASSUME ArtifactInv, NEW p \in Builders, Artifacts!Crash(p)
    PROVE  ArtifactInv'
<1>1. lease.term \in Nat /\ crashes' \in 0 .. MaxCrashes
  <2>1. crashes \in 0 .. MaxCrashes /\ crashes < MaxCrashes /\ crashes' = crashes + 1
    BY DEF Artifacts!Crash, ArtifactInv, BootInv
  <2> QED
    BY <2>1, FileBounds DEF ArtifactInv, MakerInv
<1>2. MakerInv'
  BY MakerEnds DEF Artifacts!Crash
<1>3. FilesInv'
  <2>1. UNCHANGED <<lease, build, dir, artifact, linked, late>>
    BY DEF Artifacts!Crash
  <2>2. CASE clear' = clear
    BY <1>1, <2>1, <2>2, FilesStand
  <2>3. CASE clear' = Artifacts!Dropped
    <3> DEFINE t == IF clear.at = "committed" THEN clear.ids ELSE {}
    <3>1. /\ clear' \in Clears /\ clear'.at = clear.at /\ clear'.ids = clear.ids
          /\ clear'.gone = {} /\ clear'.left = clear.left
      <4>1. clear' = [clear EXCEPT !.todo = t, !.gone = {}]
        BY <2>3 DEF Artifacts!Dropped
      <4>2. t \subseteq Artifacts!Artifacts /\ clear \in Clears
        BY DEF ArtifactInv, FilesInv, Clears
      <4> HIDE DEF t
      <4> QED
        BY <4>1, <4>2 DEF Clears
    <3>2. clear'.todo \subseteq Artifacts!Artifacts
      BY <3>1 DEF Clears
    <3> QED
      BY <2>1, <3>1, <3>2 DEF ArtifactInv, FilesInv, Artifacts!RowHasItsBytes
  <2> QED
    BY <2>2, <2>3 DEF Artifacts!Crash
<1>4. BootInv'
  <2>1. /\ Artifacts!Booting \in BootRecords
        /\ Artifacts!Booting.seen = 0 /\ Artifacts!Booting.todo = {}
    BY DEF Artifacts!Booting, BootRecords, BootPlaces
  <2>2. boot' = [boot EXCEPT ![p] = Artifacts!Booting] /\ lease' = lease
    BY DEF Artifacts!Crash, Artifacts!BootGoes
  <2>3. boot' \in [Builders -> BootRecords]
    BY <2>1, <2>2 DEF ArtifactInv, BootInv
  <2>4. ASSUME NEW q \in Builders
        PROVE  boot'[q] = IF q = p THEN Artifacts!Booting ELSE boot[q]
    BY <2>2 DEF ArtifactInv, BootInv
  <2> QED
    BY <1>1, <2>1, <2>2, <2>3, <2>4 DEF ArtifactInv, BootInv, Artifacts!Artifacts
<1> QED
  BY <1>2, <1>3, <1>4 DEF ArtifactInv

\* What is linked has a row until now; afterwards it has none.
LEMMA ClearCommitKeeps ==
    ASSUME ArtifactInv, Artifacts!ClearCommit
    PROVE  ArtifactInv'
<1>1. /\ clear.at = "none"
      /\ clear' = [at |-> "committed", todo |-> linked, ids |-> linked, gone |-> {}, left |-> linked]
      /\ artifact' = [x \in Artifacts!Artifacts |-> IF x \in linked THEN 0 ELSE artifact[x]]
      /\ linked' = {}
      /\ UNCHANGED <<lease, build, kind, maker, private, marker, dir, boot, late, crashes>>
  BY DEF Artifacts!ClearCommit, Artifacts!Targets
<1>2. lease.term \in Nat
  BY DEF ArtifactInv, MakerInv
<1>3. MakerInv'
  BY <1>1, MakersStand, FileBounds DEF ArtifactInv, MakerInv
<1>4. FilesInv'
  <2>1. linked \subseteq Artifacts!Artifacts
    BY DEF ArtifactInv, FilesInv
  <2>2. artifact' \in [Artifacts!Artifacts -> {Artifacts!Old} \cup 0 .. lease.term]
    BY <1>1, <1>2 DEF ArtifactInv, FilesInv
  <2>3. /\ clear'.at = "committed" /\ clear'.ids = linked /\ clear'.gone = {} /\ clear'.left = linked
        /\ clear' \in Clears
    BY <1>1, <2>1 DEF Clears
  <2>4. Artifacts!RowHasItsBytes'
    BY <1>1 DEF Artifacts!RowHasItsBytes, ArtifactInv, FilesInv
  <2>5. \A x \in linked : artifact'[x] = 0
    BY <1>1, <2>1
  <2> QED
    BY <1>1, <2>1, <2>2, <2>3, <2>4, <2>5 DEF ArtifactInv, FilesInv
<1>5. BootInv'
  BY <1>1, <1>2, BootStands
<1> QED
  BY <1>3, <1>4, <1>5 DEF ArtifactInv

\* A deletion that is tried takes no row's bytes, and what it finds gone is gone.
LEMMA TriedIs ==
    ASSUME ArtifactInv, NEW x \in Artifacts!Artifacts, NEW gone \in BOOLEAN, Artifacts!Tried(x, gone)
    PROVE  /\ dir' \in [Artifacts!Artifacts -> {Artifacts!Old} \cup 0 .. lease.term]
           /\ \A y \in Artifacts!Artifacts : dir'[y] = dir[y] \/ (dir'[y] = 0 /\ artifact[y] = 0)
           /\ gone => dir'[x] = 0
<1>1. dir \in [Artifacts!Artifacts -> {Artifacts!Old} \cup 0 .. lease.term] /\ lease.term \in Nat
  BY DEF ArtifactInv, FilesInv, MakerInv
<1>2. CASE dir' = dir /\ ~gone
  BY <1>1, <1>2
<1>3. CASE Artifacts!Replayed(x) /\ artifact[x] # 0 /\ ~gone
  BY <1>1, <1>3 DEF Artifacts!Replayed, Artifacts!Protected
<1>4. CASE Artifacts!Replayed(x) /\ artifact[x] = 0
  <2>1. dir' = [dir EXCEPT ![x] = 0]
    BY <1>4 DEF Artifacts!Replayed, Artifacts!Protected
  <2>2. dir' \in [Artifacts!Artifacts -> {Artifacts!Old} \cup 0 .. lease.term]
    BY <1>1, <2>1
  <2> QED
    BY <1>1, <1>4, <2>1, <2>2
<1> QED
  BY <1>2, <1>3, <1>4 DEF Artifacts!Tried, Artifacts!Protected

LEMMA ClearDeleteKeeps ==
    ASSUME ArtifactInv, NEW x \in Artifacts!Artifacts, Artifacts!ClearDelete(x)
    PROVE  ArtifactInv'
<1>1. PICK gone \in BOOLEAN :
          /\ Artifacts!Tried(x, gone)
          /\ clear' = [clear EXCEPT !.todo = clear.todo \ {x},
                                   !.gone = IF gone THEN clear.gone \cup {x} ELSE clear.gone]
  BY DEF Artifacts!ClearDelete
<1>2. UNCHANGED <<lease, build, kind, maker, private, marker, artifact, linked, boot, late, crashes>>
  BY DEF Artifacts!ClearDelete
<1>3. lease.term \in Nat
  BY DEF ArtifactInv, MakerInv
<1>4. MakerInv'
  BY <1>2, MakersStand, FileBounds DEF ArtifactInv, MakerInv
<1>5. FilesInv'
  <2> DEFINE g == IF gone THEN clear.gone \cup {x} ELSE clear.gone
  <2>1. /\ clear'.at = clear.at /\ clear'.ids = clear.ids /\ clear'.left = clear.left
        /\ clear'.gone = g /\ clear' \in Clears
    <3>1. clear \in Clears /\ g \subseteq Artifacts!Artifacts
      BY DEF ArtifactInv, FilesInv, Clears
    <3>2. clear' = [clear EXCEPT !.todo = clear.todo \ {x}, !.gone = g]
      BY <1>1
    <3> HIDE DEF g
    <3> QED
      BY <3>1, <3>2 DEF Clears
  <2>2. Artifacts!RowHasItsBytes'
    BY <1>1, <1>2, TriedIs DEF Artifacts!RowHasItsBytes, ArtifactInv, FilesInv
  <2>3. ASSUME NEW y \in clear.ids, y \notin clear.left \/ y \in g
        PROVE  dir'[y] = 0 \/ (y = "new" /\ late)
    <3>1. y \in Artifacts!Artifacts
      BY DEF ArtifactInv, FilesInv, Clears
    <3>2. CASE y = x /\ gone
      BY <1>1, <3>2, TriedIs
    <3>3. CASE ~(y = x /\ gone)
      <4>1. y \notin clear.left \/ y \in clear.gone
        BY <2>3, <3>3
      <4>2. dir[y] = 0 \/ (y = "new" /\ late)
        BY <4>1 DEF ArtifactInv, FilesInv
      <4> QED
        BY <1>1, <3>1, <4>2, TriedIs
    <3> QED
      BY <3>2, <3>3
  <2>4. dir' \in [Artifacts!Artifacts -> {Artifacts!Old} \cup 0 .. lease.term]
    BY <1>1, TriedIs
  <2> HIDE DEF g
  <2> QED
    BY <1>2, <2>1, <2>2, <2>3, <2>4 DEF ArtifactInv, FilesInv
<1>6. BootInv'
  BY <1>2, <1>3, BootStands
<1> QED
  BY <1>4, <1>5, <1>6 DEF ArtifactInv

\* The receipt, at the end of the clear and after a later request, and what that request tries.
LEMMA ReceiptKeeps ==
    ASSUME ArtifactInv, Artifacts!ClearDone \/ Artifacts!RetryMerge \/ Artifacts!RetryAsk
    PROVE  ArtifactInv'
<1>1. /\ clear.at # "none"
      /\ UNCHANGED <<lease, build, kind, maker, private, marker, dir, artifact, linked, boot, late, crashes>>
      /\ \/ clear' = [clear EXCEPT !.at = "done", !.left = clear.left \ clear.gone, !.gone = {}]
         \/ clear' = [clear EXCEPT !.todo = clear.left]
  BY DEF Artifacts!ClearDone, Artifacts!RetryMerge, Artifacts!RetryAsk, Artifacts!Merged
<1>2. lease.term \in Nat
  BY DEF ArtifactInv, MakerInv
<1>3. MakerInv'
  BY <1>1, MakersStand, FileBounds DEF ArtifactInv, MakerInv
<1>4. FilesInv'
  <2>1. clear \in Clears
    BY DEF ArtifactInv, FilesInv
  <2>2. /\ clear' \in Clears /\ clear'.ids = clear.ids /\ clear'.at # "none"
        /\ \/ clear'.left = clear.left /\ clear'.gone = clear.gone
           \/ clear'.left = clear.left \ clear.gone /\ clear'.gone = {}
    BY <1>1, <2>1 DEF Clears
  <2>3. ASSUME NEW x \in clear'.ids, x \notin clear'.left \/ x \in clear'.gone
        PROVE  dir'[x] = 0 \/ (x = "new" /\ late')
    <3>1. x \notin clear.left \/ x \in clear.gone
      BY <2>2, <2>3
    <3> QED
      BY <1>1, <2>2, <3>1 DEF ArtifactInv, FilesInv
  <2> QED
    BY <1>1, <2>2, <2>3 DEF ArtifactInv, FilesInv, Artifacts!RowHasItsBytes
<1>5. BootInv'
  BY <1>1, <1>2, BootStands
<1> QED
  BY <1>3, <1>4, <1>5 DEF ArtifactInv

\* A startup that looks, lists, or removes what nobody builds in.
LEMMA CleanupKeeps ==
    ASSUME ArtifactInv, NEW p \in Builders,
           \/ Artifacts!CleanupSnapshot(p) \/ Artifacts!CleanupList(p) \/ Artifacts!CleanupMarker(p)
           \/ \E d \in 1 .. MaxTerms : Artifacts!CleanupEntry(p, d)
    PROVE  ArtifactInv'
<1>1. /\ lease.term \in Nat /\ marker \in 0 .. lease.term /\ private \subseteq 1 .. lease.term
      /\ boot[p] \in BootRecords /\ boot[p].seen <= lease.term
      /\ boot[p].at # "targets" => boot[p].todo \subseteq 1 .. lease.term
      /\ 1 .. lease.term \subseteq Nat
  BY FileBounds DEF ArtifactInv, MakerInv, BootInv
<1>2. UNCHANGED <<lease, build, kind, maker, dir, artifact, linked, clear, late, crashes>>
  BY DEF Artifacts!CleanupSnapshot, Artifacts!CleanupList, Artifacts!CleanupMarker, Artifacts!CleanupEntry
<1>3. FilesInv'
  BY <1>1, <1>2, FilesStand
<1>4. CASE Artifacts!CleanupSnapshot(p)
  <2>1. MakerInv'
    BY <1>2, <1>4, MakersStand DEF Artifacts!CleanupSnapshot
  <2> DEFINE b == [at |-> "list", seen |-> marker, todo |-> {},
                   live |-> lease = [term |-> marker, live |-> TRUE]]
  <2>2. b \in BootRecords /\ b.seen = marker /\ b.todo = {}
    BY <1>1 DEF BootRecords, BootPlaces
  <2>3. Artifacts!BootGoes(p, b)
    BY <1>4 DEF Artifacts!CleanupSnapshot
  <2>4. b.seen <= lease.term /\ b.todo \subseteq IF b.at = "targets" THEN Artifacts!Artifacts ELSE 1 .. lease.term
    BY <1>1, <2>2
  <2> HIDE DEF b
  <2>5. BootInv'
    BY <1>2, <2>2, <2>3, <2>4, BootMoves
  <2> QED
    BY <1>3, <2>1, <2>5 DEF ArtifactInv
<1>5. CASE Artifacts!CleanupList(p)
  <2>1. MakerInv'
    BY <1>2, <1>5, MakersStand DEF Artifacts!CleanupList
  <2> DEFINE b == [boot[p] EXCEPT !.at = "entries", !.todo = private]
  <2>2. b \in BootRecords /\ b.seen = boot[p].seen /\ b.todo = private /\ b.at = "entries"
    BY <1>1 DEF BootRecords, BootPlaces
  <2>3. Artifacts!BootGoes(p, b)
    BY <1>5 DEF Artifacts!CleanupList
  <2> HIDE DEF b
  <2>5. BootInv'
    BY <1>1, <1>2, <2>2, <2>3, BootMoves
  <2> QED
    BY <1>3, <2>1, <2>5 DEF ArtifactInv
<1>6. CASE Artifacts!CleanupMarker(p)
  <2>1. MakerInv'
    BY <1>2, <1>6, MakersStand DEF Artifacts!CleanupMarker
  <2> DEFINE b == [Artifacts!Booting EXCEPT !.at = "recover"]
  <2>2. b \in BootRecords /\ b.seen = 0 /\ b.todo = {}
    BY DEF BootRecords, BootPlaces, Artifacts!Booting
  <2>3. Artifacts!BootGoes(p, b)
    BY <1>6 DEF Artifacts!CleanupMarker
  <2>4. b.seen <= lease.term /\ b.todo \subseteq IF b.at = "targets" THEN Artifacts!Artifacts ELSE 1 .. lease.term
    BY <1>1, <2>2
  <2> HIDE DEF b
  <2>5. BootInv'
    BY <1>2, <2>2, <2>3, <2>4, BootMoves
  <2> QED
    BY <1>3, <2>1, <2>5 DEF ArtifactInv
<1>7. ASSUME NEW d \in 1 .. MaxTerms, Artifacts!CleanupEntry(p, d)
      PROVE  ArtifactInv'
  <2>1. MakerInv'
    <3>1. private' = IF Artifacts!Abandoned(p, d) THEN private \ {d} ELSE private
      BY <1>7 DEF Artifacts!CleanupEntry
    <3>2. Artifacts!Abandoned(p, d) => ~lease.live \/ \A q \in Builders : maker[q].fence # d
      BY DEF Artifacts!Abandoned, Artifacts!Stale
    <3>3. marker' = marker
      BY <1>7 DEF Artifacts!CleanupEntry
    <3> QED
      BY <1>2, <3>1, <3>2, <3>3, MakersStand
  <2> DEFINE b == [boot[p] EXCEPT !.todo = boot[p].todo \ {d}]
  <2>2. b \in BootRecords /\ b.seen = boot[p].seen /\ b.todo = boot[p].todo \ {d} /\ b.at = boot[p].at
    BY <1>1 DEF BootRecords, BootPlaces
  <2>3. Artifacts!BootGoes(p, b) /\ boot[p].at = "entries"
    BY <1>7 DEF Artifacts!CleanupEntry
  <2> HIDE DEF b
  <2>5. BootInv'
    BY <1>1, <1>2, <2>2, <2>3, BootMoves
  <2> QED
    BY <1>3, <2>1, <2>5 DEF ArtifactInv
<1> QED
  BY <1>4, <1>5, <1>6, <1>7

\* An old directory gets its row.
LEMMA RecoverKeeps ==
    ASSUME ArtifactInv, NEW p \in Builders, Artifacts!Recover(p)
    PROVE  ArtifactInv'
<1>1. /\ lease.term \in Nat /\ boot[p] \in BootRecords /\ boot[p].seen <= lease.term
      /\ boot[p].at = "recover" /\ boot[p].todo \subseteq 1 .. lease.term
      /\ Artifacts!BootGoes(p, [boot[p] EXCEPT !.at = "replay"])
      /\ UNCHANGED <<lease, build, kind, maker, private, marker, dir, clear, late, crashes>>
  BY DEF Artifacts!Recover, ArtifactInv, MakerInv, BootInv
<1>2. MakerInv'
  BY <1>1, MakersStand
<1>3. BootInv'
  <2> DEFINE b == [boot[p] EXCEPT !.at = "replay"]
  <2>1. b \in BootRecords /\ b.seen = boot[p].seen /\ b.todo = boot[p].todo /\ b.at = "replay"
    BY <1>1 DEF BootRecords, BootPlaces
  <2>2. Artifacts!BootGoes(p, b)
    BY <1>1
  <2> HIDE DEF b
  <2> QED
    BY <1>1, <2>1, <2>2, BootMoves
<1>4. FilesInv'
  <2>1. CASE Artifacts!Recoverable
    <3>1. /\ artifact' = [artifact EXCEPT !["old"] = dir["old"]]
          /\ linked' = linked \cup {"old"}
          /\ dir["old"] # 0
      BY <2>1 DEF Artifacts!Recover, Artifacts!Recoverable
    <3>2. "old" \in Artifacts!Artifacts /\ "new" \in Artifacts!Artifacts
      BY DEF Artifacts!Artifacts
    <3>3. artifact' \in [Artifacts!Artifacts -> {Artifacts!Old} \cup 0 .. lease.term]
      BY <3>1, <3>2 DEF ArtifactInv, FilesInv
    <3>4. ASSUME NEW x \in Artifacts!Artifacts
          PROVE  artifact'[x] = IF x = "old" THEN dir["old"] ELSE artifact[x]
      BY <3>1, <3>2 DEF ArtifactInv, FilesInv
    <3>5. linked' \subseteq {x \in Artifacts!Artifacts : artifact'[x] # 0}
      BY <3>1, <3>2, <3>4 DEF ArtifactInv, FilesInv
    <3>6. Artifacts!RowHasItsBytes'
      BY <1>1, <3>4 DEF Artifacts!RowHasItsBytes, ArtifactInv, FilesInv
    <3> QED
      BY <1>1, <3>1, <3>2, <3>3, <3>4, <3>5, <3>6 DEF ArtifactInv, FilesInv
  <2>2. CASE ~Artifacts!Recoverable
    BY <1>1, <2>2, FilesStand DEF Artifacts!Recover
  <2> QED
    BY <2>1, <2>2
<1> QED
  BY <1>2, <1>3, <1>4 DEF ArtifactInv

\* A startup finishes the deletions of a clear that has ended.
LEMMA ReplayKeeps ==
    ASSUME ArtifactInv, NEW p \in Builders,
           \/ Artifacts!ReplaySnapshot(p) \/ Artifacts!BootDone(p) \/ Artifacts!BootFails(p)
           \/ \E x \in Artifacts!Artifacts : Artifacts!ReplayTarget(p, x)
    PROVE  ArtifactInv'
<1>1. /\ lease.term \in Nat
      /\ boot[p] \in BootRecords /\ boot[p].seen <= lease.term
      /\ boot[p].at = "targets" => boot[p].todo \subseteq Artifacts!Artifacts
      /\ clear.ids \subseteq Artifacts!Artifacts
  BY DEF ArtifactInv, MakerInv, BootInv, FilesInv, Clears
<1>2. UNCHANGED <<lease, build, kind, maker, private, marker, artifact, linked, clear, late, crashes>>
  BY DEF Artifacts!ReplaySnapshot, Artifacts!BootDone, Artifacts!BootFails, Artifacts!ReplayTarget
<1>3. MakerInv'
  BY <1>2, MakersStand
<1>4. CASE Artifacts!ReplaySnapshot(p)
  <2>1. FilesInv'
    <3>1. dir' = dir
      BY <1>4 DEF Artifacts!ReplaySnapshot
    <3> QED
      BY <1>1, <1>2, <3>1, FilesStand
  <2> DEFINE t == IF clear.at = "done" THEN {x \in clear.ids : artifact[x] = 0} ELSE {}
             b == [boot[p] EXCEPT !.at = "targets", !.todo = t]
  <2>2. t \subseteq Artifacts!Artifacts
    BY <1>1
  <2>3. b \in BootRecords /\ b.seen = boot[p].seen /\ b.todo = t /\ b.at = "targets"
    BY <1>1, <2>2 DEF BootRecords, BootPlaces
  <2>4. Artifacts!BootGoes(p, b)
    BY <1>4 DEF Artifacts!ReplaySnapshot
  <2> HIDE DEF b, t
  <2>5. BootInv'
    BY <1>1, <1>2, <2>2, <2>3, <2>4, BootMoves
  <2> QED
    BY <1>3, <2>1, <2>5 DEF ArtifactInv
<1>5. CASE Artifacts!BootDone(p) \/ Artifacts!BootFails(p)
  <2>1. FilesInv'
    <3>1. dir' = dir
      BY <1>5 DEF Artifacts!BootDone, Artifacts!BootFails
    <3> QED
      BY <1>1, <1>2, <3>1, FilesStand
  <2> DEFINE b == [Artifacts!Booting EXCEPT !.at = "up"]
  <2>2. b \in BootRecords /\ b.seen = 0 /\ b.todo = {}
    BY DEF BootRecords, BootPlaces, Artifacts!Booting
  <2>3. Artifacts!BootGoes(p, b)
    BY <1>5 DEF Artifacts!BootDone, Artifacts!BootFails
  <2>4. b.seen <= lease.term /\ b.todo \subseteq IF b.at = "targets" THEN Artifacts!Artifacts ELSE 1 .. lease.term
    BY <1>1, <2>2
  <2> HIDE DEF b
  <2>5. BootInv'
    BY <1>2, <2>2, <2>3, <2>4, BootMoves
  <2> QED
    BY <1>3, <2>1, <2>5 DEF ArtifactInv
<1>6. ASSUME NEW x \in Artifacts!Artifacts, Artifacts!ReplayTarget(p, x)
      PROVE  ArtifactInv'
  <2>1. /\ boot[p].at = "targets"
        /\ \E gone \in BOOLEAN : Artifacts!Tried(x, gone)
    BY <1>6 DEF Artifacts!ReplayTarget
  <2>2. FilesInv'
    <3>1. Artifacts!RowHasItsBytes'
      BY <1>2, <2>1, TriedIs DEF Artifacts!RowHasItsBytes, ArtifactInv, FilesInv
    <3>2. ASSUME NEW y \in clear.ids, y \notin clear.left \/ y \in clear.gone
          PROVE  dir'[y] = 0 \/ (y = "new" /\ late)
      <4>1. dir[y] = 0 \/ (y = "new" /\ late)
        BY <3>2 DEF ArtifactInv, FilesInv
      <4> QED
        BY <1>1, <2>1, <4>1, TriedIs
    <3> QED
      BY <1>2, <2>1, <3>1, <3>2, TriedIs DEF ArtifactInv, FilesInv
  <2> DEFINE b == [boot[p] EXCEPT !.todo = boot[p].todo \ {x}]
  <2>3. b \in BootRecords /\ b.seen = boot[p].seen /\ b.todo = boot[p].todo \ {x} /\ b.at = boot[p].at
    BY <1>1 DEF BootRecords, BootPlaces
  <2>4. Artifacts!BootGoes(p, b)
    BY <1>6 DEF Artifacts!ReplayTarget
  <2> HIDE DEF b
  <2>5. BootInv'
    BY <1>1, <1>2, <2>1, <2>3, <2>4, BootMoves
  <2> QED
    BY <1>3, <2>2, <2>5 DEF ArtifactInv
<1> QED
  BY <1>4, <1>5, <1>6

-----------------------------------------------------------------------------
(* The theorems about ArtifactStore. *)

\* The inductive invariant holds for any number of processes, terms and crashes.
THEOREM ArtifactInvariant == Artifacts!Spec => []ArtifactInv
<1>1. Artifacts!Init => ArtifactInv
  BY ArtInit
<1>2. ArtifactInv /\ [Artifacts!Next]_artVars => ArtifactInv'
  <2> SUFFICES ASSUME ArtifactInv, [Artifacts!Next]_artVars
               PROVE  ArtifactInv'
    OBVIOUS
  <2>1. ASSUME NEW p \in Builders, Artifacts!Acquire(p)
        PROVE  ArtifactInv'
    BY <2>1, AcquireKeeps
  <2>2. ASSUME NEW p \in Builders, Artifacts!HandlerStep(p)
        PROVE  ArtifactInv'
    BY <2>2, HandlerGoesKeeps, BuildPublishKeeps, HandlerEndsKeeps, CommitKeeps DEF Artifacts!HandlerStep
  <2>3. ASSUME NEW p \in Builders, Artifacts!BootStep(p)
        PROVE  ArtifactInv'
    BY <2>3, CleanupKeeps, RecoverKeeps, ReplayKeeps DEF Artifacts!BootStep
  <2>4. ASSUME NEW p \in Builders, Artifacts!Crash(p)
        PROVE  ArtifactInv'
    BY <2>4, ArtCrashKeeps
  <2>5. CASE \/ Artifacts!Expire \/ Artifacts!ClearCommit \/ Artifacts!ClearStep
             \/ Artifacts!RetryAsk \/ Artifacts!RetryMerge
    BY <2>5, ExpireKeeps, ClearCommitKeeps, ClearDeleteKeeps, ReceiptKeeps DEF Artifacts!ClearStep
  <2>6. CASE UNCHANGED artVars
    <3>1. lease.term \in Nat
      BY DEF ArtifactInv, MakerInv
    <3>2. UNCHANGED <<lease, build, kind, maker, private, marker, dir, artifact, linked, clear, boot, late,
                      crashes>>
      BY <2>6 DEF artVars
    <3> QED
      BY <3>1, <3>2, MakersStand, FilesStand, BootStands DEF ArtifactInv
  <2> QED
    BY <2>1, <2>2, <2>3, <2>4, <2>5, <2>6 DEF Artifacts!Next
<1>3. Artifacts!Spec <=> Artifacts!Init /\ [][Artifacts!Next]_artVars
  BY DEF Artifacts!Spec, Artifacts!vars, artVars
<1> QED
  BY <1>1, <1>2, <1>3, PTL

\* A registered artifact has its bytes, the build of the term that holds the lease is never removed, and
\* what a finished clear and the requests after it do not report as left is gone, up to late publications.
THEOREM ArtifactsAreKeptHolds == Artifacts!Spec => []ArtifactsAreKept
<1>1. ArtifactInv => ArtifactsAreKept
  <2> SUFFICES ASSUME ArtifactInv
               PROVE  ArtifactsAreKept
    OBVIOUS
  <2>1. Artifacts!RowHasItsBytes /\ Artifacts!LiveBuildKept
    BY DEF ArtifactInv, FilesInv, MakerInv
  <2>2. Artifacts!ClearedIsGone
    BY DEF ArtifactInv, FilesInv, Artifacts!ClearedIsGone
  <2> QED
    BY <2>1, <2>2 DEF ArtifactsAreKept
<1> QED
  BY <1>1, ArtifactInvariant, PTL

-----------------------------------------------------------------------------
(***************************************************************************)
(* The recordings of an owner (AmbientCapture).  Whoever holds the storage *)
(* lock is the only one with a reservation in flight (CallInv), so the     *)
(* ledger counts at most the registered files, that reservation, the       *)
(* uploads and the charges whose release failed (LedgerInv).  A chunk is   *)
(* registered before it is transcribed, and who releases its file before   *)
(* its transcript row is written is remembered (StageInv).                 *)
(***************************************************************************)

\* Where a chunk holds the storage lock, and where it is before and after its file is registered.
Locked == {"collect", "release", "reserve", "write", "register"}
Unregistered == {"idle", "gated", "quality"} \cup Locked
Registered == {"stt", "transcribing", "store"}

Scans == [pass : 0 .. 2, only : BOOLEAN, missing : SUBSET Chunks, expired : SUBSET Chunks,
          stuck : SUBSET Chunks, victim : Chunks \cup {None}]

\* The chunk inside the lock, and what it has seen of the files.
CallInv ==
    /\ storage \in Chunks \cup {None} /\ stt \in Chunks \cup {None}
    /\ gc \in Scans
    /\ chunk \in [Chunks -> Ambient!Places]
    /\ storage = None => gc = Ambient!NoGc
    /\ storage # None => gc.pass # 0
    /\ \A c \in Chunks :
           /\ chunk[c] \in Locked <=> storage = c
           /\ stt = c => chunk[c] = "transcribing"
           /\ chunk[c] = "release" => gc.victim \in Chunks
           /\ chunk[c] \in {"reserve", "write", "register"} => ~gc.only
           /\ chunk[c] \in {"reserve", "write"} => Len(wavs) + 1 <= Cap

\* The files on the disk, oldest first.
WavsInv ==
    /\ wavs \in Seq(Chunks) /\ Len(wavs) <= Cap
    /\ \A i, j \in DOMAIN wavs : wavs[i] = wavs[j] => i = j

\* What is registered and what the transcript says of it.
StageInv ==
    /\ files \subseteq Chunks /\ IsFiniteSet(files)
    /\ ref \in [Chunks -> {"none", "file", "cleared"}]
    /\ overtaken \subseteq Chunks
    /\ \A c \in Chunks :
           /\ chunk[c] \in Unregistered => c \notin files /\ ref[c] = "none"
           /\ chunk[c] \in Unregistered \ {"register"} => \A i \in DOMAIN wavs : wavs[i] # c
           /\ chunk[c] \in Registered => ref[c] = "none" /\ c \in files \cup overtaken
           /\ ref[c] = "file" => c \in files \cup overtaken

LedgerInv ==
    /\ ledger \in Nat /\ uploads \in 0 .. MaxUploads /\ leaked \in Nat
    /\ rewritten \in BOOLEAN /\ wavFaults \in 0 .. MaxWavFaults
    /\ Ambient!LedgerIsExact

WavInv == CallInv /\ WavsInv /\ StageInv /\ LedgerInv

-----------------------------------------------------------------------------
(* Sequences of files, and the reservation in flight. *)

LEMMA PlacesAre ==
    /\ Ambient!Places = Unregistered \cup Registered \cup {"returned", "raised"}
    /\ Ambient!NoGc \in Scans
BY DEF Ambient!Places, Unregistered, Registered, Locked, Ambient!NoGc, Scans

\* A file less: the others keep their order.
LEMMA RemoveAtIs ==
    ASSUME NEW s \in Seq(Chunks), NEW k \in DOMAIN s,
           \A i, j \in DOMAIN s : s[i] = s[j] => i = j
    PROVE  LET t == Ambient!RemoveAt(s, k) IN
           /\ t \in Seq(Chunks) /\ Len(t) = Len(s) - 1
           /\ \A i, j \in DOMAIN t : t[i] = t[j] => i = j
           /\ \A i \in DOMAIN t : \E j \in DOMAIN s : t[i] = s[j]
<1> DEFINE a == SubSeq(s, 1, k - 1)
           b == SubSeq(s, k + 1, Len(s))
           t == a \o b
<1>1. k \in 1 .. Len(s) /\ k \in Int /\ Len(s) \in Nat /\ DOMAIN s = 1 .. Len(s)
      /\ \A i \in 1 .. Len(s) : s[i] \in Chunks
  OBVIOUS
<1>2. a \in Seq(Chunks) /\ Len(a) = k - 1 /\ \A i \in 1 .. (k - 1) : a[i] = s[i]
  <2>1. \A i \in 1 .. (k - 1) : s[i] \in Chunks
    BY <1>1
  <2> QED
    BY <1>1, <2>1, SubSeqProperties
<1>3. b \in Seq(Chunks) /\ Len(b) = Len(s) - k /\ \A i \in 1 .. (Len(s) - k) : b[i] = s[k + i]
  <2>1. \A i \in (k + 1) .. Len(s) : s[i] \in Chunks
    BY <1>1
  <2>2. /\ b \in Seq(Chunks)
        /\ Len(b) = IF k + 1 <= Len(s) THEN Len(s) - (k + 1) + 1 ELSE 0
        /\ \A i \in 1 .. Len(s) - (k + 1) + 1 : b[i] = s[k + 1 + i - 1]
    BY <1>1, <2>1, SubSeqProperties
  <2>3. \A i \in 1 .. (Len(s) - k) : k + 1 + i - 1 = k + i /\ i \in 1 .. Len(s) - (k + 1) + 1
    BY <1>1
  <2> QED
    BY <1>1, <2>2, <2>3
<1> HIDE DEF a, b
<1>4. /\ t \in Seq(Chunks) /\ Len(t) = Len(s) - 1
      /\ \A i \in 1 .. (Len(s) - 1) : t[i] = IF i <= k - 1 THEN a[i] ELSE b[i - (k - 1)]
  <2>1. Len(a) + Len(b) = Len(s) - 1
    BY <1>1, <1>2, <1>3
  <2>2. /\ t \in Seq(Chunks) /\ Len(t) = Len(a) + Len(b)
        /\ \A i \in 1 .. Len(a) + Len(b) : t[i] = IF i <= Len(a) THEN a[i] ELSE b[i - Len(a)]
    <3>1. a \in Seq(Chunks) /\ b \in Seq(Chunks)
      BY <1>2, <1>3
    <3> QED
      BY <3>1, ConcatProperties
  <2>3. Len(a) = k - 1
    BY <1>2
  <2> HIDE DEF t
  <2>4. Len(t) = Len(s) - 1
    BY <2>1, <2>2
  <2>5. ASSUME NEW i \in 1 .. (Len(s) - 1)
        PROVE  t[i] = IF i <= k - 1 THEN a[i] ELSE b[i - (k - 1)]
    <3>1. i \in 1 .. Len(a) + Len(b)
      BY <2>1
    <3> QED
      BY <2>2, <2>3, <3>1
  <2> QED
    BY <2>2, <2>4, <2>5
<1>5. ASSUME NEW i \in 1 .. (Len(s) - 1)
      PROVE  t[i] = IF i < k THEN s[i] ELSE s[i + 1]
  <2>1. CASE i < k
    <3>1. i \in 1 .. (k - 1) /\ i <= k - 1
      BY <1>1, <2>1
    <3> QED
      BY <1>2, <1>4, <2>1, <3>1
  <2>2. CASE ~(i < k)
    <3>1. i - (k - 1) \in 1 .. (Len(s) - k) /\ k + (i - (k - 1)) = i + 1 /\ ~(i <= k - 1)
      BY <1>1, <2>2
    <3> QED
      BY <1>3, <1>4, <2>2, <3>1
  <2> QED
    BY <2>1, <2>2
<1>6. DOMAIN t = 1 .. (Len(s) - 1)
  BY <1>4
<1> HIDE DEF t
<1>7. \A i, j \in DOMAIN t : t[i] = t[j] => i = j
  <2> SUFFICES ASSUME NEW i \in 1 .. (Len(s) - 1), NEW j \in 1 .. (Len(s) - 1), t[i] = t[j]
               PROVE  i = j
    BY <1>6
  <2> QED
    BY <1>1, <1>5
<1>8. \A i \in DOMAIN t : \E j \in DOMAIN s : t[i] = s[j]
  <2> SUFFICES ASSUME NEW i \in 1 .. (Len(s) - 1)
               PROVE  \E j \in DOMAIN s : t[i] = s[j]
    BY <1>6
  <2>1. i \in DOMAIN s /\ i + 1 \in DOMAIN s
    BY <1>1
  <2> QED
    BY <1>5, <2>1
<1>9. Ambient!RemoveAt(s, k) = t
  BY DEF Ambient!RemoveAt, t, a, b
<1> QED
  BY <1>4, <1>7, <1>8, <1>9

LEMMA FrontIs ==
    ASSUME NEW s \in Seq(Chunks)
    PROVE  LET t == Ambient!Front(s) IN
           /\ t \in Seq(Chunks) /\ Len(t) <= Len(s)
           /\ \A i \in DOMAIN t : i \in DOMAIN s /\ t[i] = s[i]
<1> DEFINE t == SubSeq(s, 1, Len(s) - 1)
<1>1. Len(s) \in Nat /\ DOMAIN s = 1 .. Len(s) /\ \A i \in 1 .. (Len(s) - 1) : s[i] \in Chunks
  OBVIOUS
<1>2. /\ t \in Seq(Chunks)
      /\ Len(t) = IF 1 <= Len(s) - 1 THEN Len(s) - 1 - 1 + 1 ELSE 0
      /\ \A i \in 1 .. Len(s) - 1 - 1 + 1 : t[i] = s[1 + i - 1]
  BY <1>1, SubSeqProperties
<1> HIDE DEF t
<1>3. DOMAIN t = 1 .. Len(t) /\ Len(t) \in Nat /\ Len(t) <= Len(s)
  <2>1. DOMAIN t = 1 .. Len(t) /\ Len(t) \in Nat
    BY <1>2, LenProperties
  <2>2. (IF 1 <= Len(s) - 1 THEN Len(s) - 1 - 1 + 1 ELSE 0) <= Len(s)
    BY <1>1
  <2> QED
    BY <1>2, <2>1, <2>2
<1>4. ASSUME NEW i \in 1 .. Len(t)
      PROVE  i \in DOMAIN s /\ t[i] = s[i]
  <2>1. 1 <= Len(s) - 1 /\ Len(t) = Len(s) - 1
    <3>1. CASE 1 <= Len(s) - 1
      BY <1>1, <1>2, <3>1
    <3>2. CASE ~(1 <= Len(s) - 1)
      <4>1. Len(t) = 0
        BY <1>2, <3>2
      <4> QED
        BY <4>1
    <3> QED
      BY <3>1, <3>2
  <2>2. i \in 1 .. Len(s) - 1 - 1 + 1 /\ 1 + i - 1 = i /\ i \in 1 .. Len(s)
    BY <1>1, <2>1
  <2> QED
    BY <1>1, <1>2, <2>2
<1>5. Ambient!Front(s) = t
  BY DEF Ambient!Front, t
<1> QED
  BY <1>2, <1>3, <1>4, <1>5

Flight == {c \in Chunks : chunk[c] \in {"write", "register"}}
Count == Cardinality(files) + Cardinality(Flight) + uploads + leaked

\* At most one reservation is in flight, that of the holder of the lock.
LEMMA FlightIs ==
    ASSUME CallInv, NEW c \in Chunks, storage = c
    PROVE  Flight = IF chunk[c] \in {"write", "register"} THEN {c} ELSE {}
BY DEF CallInv, Flight, Locked

LEMMA NoFlight ==
    ASSUME CallInv, storage = None
    PROVE  Flight = {}
BY NoneIsNoChunk DEF CallInv, Flight, Locked

\* AmbientCapture counts with the same operator.
LEMMA SameCardinality == \A S : Ambient!Cardinality(S) = Cardinality(S)
BY DEF Ambient!Cardinality, Cardinality

LEMMA Sizes ==
    /\ Cardinality({}) = 0
    /\ \A c : Cardinality({c}) = 1
BY FS_EmptySet, FS_Singleton

LEMMA CountsAreNumbers ==
    ASSUME WavInv
    PROVE  /\ Cardinality(files) \in Nat /\ Cardinality(Flight) \in {0, 1} /\ Count \in Nat
           /\ ledger \in Nat /\ ledger <= Count /\ (~rewritten => ledger = Count)
<1>1. Cardinality(files) \in Nat
  BY FS_CardinalityType DEF WavInv, StageInv
<1>2. Cardinality(Flight) \in {0, 1}
  <2>1. CASE storage = None
    BY <2>1, NoFlight, Sizes DEF WavInv
  <2>2. CASE storage \in Chunks
    BY <2>2, FlightIs, Sizes DEF WavInv
  <2> QED
    BY <2>1, <2>2 DEF WavInv, CallInv
<1>3. Ambient!Charged = Count
  BY SameCardinality DEF Ambient!Charged, Count, Flight
<1>4. Count \in Nat
  <2>1. uploads \in Nat /\ leaked \in Nat
    BY FileBounds DEF WavInv, LedgerInv
  <2> QED
    BY <1>1, <1>2, <2>1 DEF Count
<1> QED
  BY <1>1, <1>2, <1>3, <1>4 DEF WavInv, LedgerInv, Ambient!LedgerIsExact

\* The other way round.
LEMMA LedgerIs ==
    ASSUME ledger' \in Nat, uploads' \in 0 .. MaxUploads, leaked' \in Nat, rewritten' \in BOOLEAN,
           wavFaults' \in 0 .. MaxWavFaults, ledger' <= Count', ~rewritten' => ledger' = Count'
    PROVE  LedgerInv'
<1>1. Ambient!Charged' = Count'
  BY SameCardinality DEF Ambient!Charged, Count, Flight
<1> QED
  BY <1>1 DEF LedgerInv, Ambient!LedgerIsExact

-----------------------------------------------------------------------------
(* What a step may change. *)

\* One chunk goes on, and with it the lock and the call it holds.
LEMMA CallMoves ==
    ASSUME WavInv, NEW c \in Chunks, NEW place \in Ambient!Places,
           chunk' = [chunk EXCEPT ![c] = place],
           storage' = IF place \in Locked THEN c ELSE IF storage = c THEN None ELSE storage,
           place \in Locked => storage \in {None, c},
           gc' \in Scans, storage' = None => gc' = Ambient!NoGc, storage' # None => gc'.pass # 0,
           storage \in {None, c} \/ gc' = gc,
           stt' \in Chunks \cup {None},
           \A x \in Chunks : stt' = x => IF x = c THEN place = "transcribing" ELSE stt = x,
           place = "release" => gc'.victim \in Chunks,
           place \in {"reserve", "write", "register"} => ~gc'.only,
           place \in {"reserve", "write"} => Len(wavs') + 1 <= Cap,
           wavs' = wavs \/ storage = c
    PROVE  CallInv'
<1>1. ASSUME NEW x \in Chunks
      PROVE  chunk'[x] = IF x = c THEN place ELSE chunk[x]
  BY DEF WavInv, CallInv
<1>2. chunk' \in [Chunks -> Ambient!Places] /\ storage' \in Chunks \cup {None}
  BY DEF WavInv, CallInv
<1>3. ASSUME NEW x \in Chunks
      PROVE  /\ chunk'[x] \in Locked <=> storage' = x
             /\ stt' = x => chunk'[x] = "transcribing"
             /\ chunk'[x] = "release" => gc'.victim \in Chunks
             /\ chunk'[x] \in {"reserve", "write", "register"} => ~gc'.only
             /\ chunk'[x] \in {"reserve", "write"} => Len(wavs') + 1 <= Cap
  <2>1. CASE x = c
    BY <1>1, <2>1, NoneIsNoChunk DEF WavInv, CallInv
  <2>2. CASE x # c
    <3>1. chunk'[x] = chunk[x]
      BY <1>1, <2>2
    <3>2. chunk[x] \in Locked <=> storage' = x
      BY <2>2, NoneIsNoChunk DEF WavInv, CallInv
    <3>3. stt' = x => chunk[x] = "transcribing"
      BY <2>2 DEF WavInv, CallInv
    <3>4. CASE storage = x
      <4>1. gc' = gc /\ wavs' = wavs
        BY <2>2, <3>4, NoneIsNoChunk
      <4> QED
        BY <3>1, <3>2, <3>3, <4>1 DEF WavInv, CallInv
    <3>5. CASE storage # x
      <4>1. chunk[x] \notin Locked
        BY <3>5 DEF WavInv, CallInv
      <4> QED
        BY <3>1, <3>2, <3>3, <4>1 DEF Locked
    <3> QED
      BY <3>4, <3>5
  <2> QED
    BY <2>1, <2>2
<1> QED
  BY <1>2, <1>3 DEF CallInv

\* The chunk stays where it was, as far as files and transcript rows go.
Stays(x) ==
    /\ chunk'[x] \in Unregistered => chunk[x] \in Unregistered
    /\ chunk'[x] \in Unregistered \ {"register"} => chunk[x] \in Unregistered \ {"register"}
    /\ chunk'[x] \in Registered => chunk[x] \in Registered

LEMMA StageKeeps ==
    ASSUME WavInv, \A x \in Chunks : Stays(x),
           \A i \in DOMAIN wavs' : \E j \in DOMAIN wavs : wavs'[i] = wavs[j],
           UNCHANGED <<files, ref, overtaken>> \/ \E f \in Chunks : Ambient!Released(f)
    PROVE  StageInv'
<1>1. /\ files \subseteq Chunks /\ IsFiniteSet(files) /\ overtaken \subseteq Chunks
      /\ ref \in [Chunks -> {"none", "file", "cleared"}]
  BY DEF WavInv, StageInv
<1>2. ASSUME NEW x \in Chunks
      PROVE  chunk'[x] \in Unregistered \ {"register"} => \A i \in DOMAIN wavs' : wavs'[i] # x
  BY DEF WavInv, StageInv, Stays
<1>3. CASE UNCHANGED <<files, ref, overtaken>>
  BY <1>1, <1>2, <1>3 DEF WavInv, StageInv, Stays
<1>4. ASSUME NEW f \in Chunks, Ambient!Released(f)
      PROVE  StageInv'
  <2>1. /\ files' = files \ {f}
        /\ ref' = [ref EXCEPT ![f] = IF ref[f] = "file" THEN "cleared" ELSE ref[f]]
        /\ overtaken' = IF ref[f] = "none" THEN overtaken \cup {f} ELSE overtaken
    BY <1>4 DEF Ambient!Released
  <2>2. IsFiniteSet(files')
    BY <1>1, <2>1, FS_Subset
  <2>3. ref' \in [Chunks -> {"none", "file", "cleared"}]
    BY <1>1, <2>1
  <2>4. ASSUME NEW x \in Chunks
        PROVE  ref'[x] = IF x = f /\ ref[x] = "file" THEN "cleared" ELSE ref[x]
    BY <1>1, <2>1
  <2>5. ASSUME NEW x \in Chunks
        PROVE  /\ chunk'[x] \in Unregistered => x \notin files' /\ ref'[x] = "none"
               /\ chunk'[x] \in Registered => ref'[x] = "none" /\ x \in files' \cup overtaken'
               /\ ref'[x] = "file" => x \in files' \cup overtaken'
    BY <2>1, <2>4 DEF WavInv, StageInv, Stays
  <2> QED
    BY <1>1, <1>2, <2>1, <2>2, <2>3, <2>5 DEF StageInv
<1> QED
  BY <1>3, <1>4

\* A released file takes its charge with it.
LEMMA LedgerKeeps ==
    ASSUME WavInv, Flight' = Flight, UNCHANGED <<uploads, leaked, rewritten>>,
           wavFaults' \in 0 .. MaxWavFaults,
           UNCHANGED <<files, ledger>> \/ \E f \in Chunks : Ambient!Released(f)
    PROVE  LedgerInv'
<1>1. uploads \in 0 .. MaxUploads /\ uploads \in Nat /\ leaked \in Nat /\ rewritten \in BOOLEAN
  BY FileBounds DEF WavInv, LedgerInv
<1>2. CASE UNCHANGED <<files, ledger>>
  <2>1. Count' = Count
    BY <1>2 DEF Count
  <2> QED
    BY <1>1, <2>1, <1>2, CountsAreNumbers, LedgerIs
<1>3. ASSUME NEW f \in Chunks, Ambient!Released(f)
      PROVE  LedgerInv'
  <2>1. files' = files \ {f} /\ ledger' = IF f \in files /\ ledger > 0 THEN ledger - 1 ELSE ledger
    BY <1>3 DEF Ambient!Released
  <2>2. Cardinality(files') = IF f \in files THEN Cardinality(files) - 1 ELSE Cardinality(files)
    BY <2>1, FS_RemoveElement DEF WavInv, StageInv
  <2>3. Count' = IF f \in files THEN Count - 1 ELSE Count
    BY <1>1, <2>2, CountsAreNumbers DEF Count
  <2>4. f \in files => Cardinality(files) # 0
    BY FS_EmptySet DEF WavInv, StageInv
  <2>5. f \in files => Count > 0
    BY <1>1, <2>4, CountsAreNumbers DEF Count
  <2>6. ledger' \in Nat /\ ledger' <= Count' /\ (~rewritten => ledger' = Count')
    BY <2>1, <2>3, <2>5, CountsAreNumbers
  <2> QED
    BY <1>1, <2>6, LedgerIs
<1> QED
  BY <1>2, <1>3

LEMMA FaultCounts ==
    ASSUME WavInv
    PROVE  /\ UNCHANGED wavFaults => wavFaults' \in 0 .. MaxWavFaults
           /\ Ambient!Fault => wavFaults' \in 0 .. MaxWavFaults
<1>1. wavFaults \in 0 .. MaxWavFaults
  BY DEF WavInv, LedgerInv
<1> QED
  BY <1>1, FileBounds DEF Ambient!Fault

\* A step that changes no file, row or charge.
LEMMA QuietMoves ==
    ASSUME WavInv, NEW c \in Chunks, NEW place \in Ambient!Places,
           chunk' = [chunk EXCEPT ![c] = place], CallInv',
           place \in Unregistered => chunk[c] \in Unregistered \ {"register"},
           place \in Registered => chunk[c] \in Registered,
           place \in {"write", "register"} <=> chunk[c] \in {"write", "register"},
           UNCHANGED <<wavs, files, ref, ledger, uploads, overtaken, leaked, rewritten>>,
           wavFaults' \in 0 .. MaxWavFaults
    PROVE  WavInv'
<1>1. ASSUME NEW x \in Chunks
      PROVE  chunk'[x] = IF x = c THEN place ELSE chunk[x]
  BY DEF WavInv, CallInv
<1>2. \A x \in Chunks : Stays(x)
  BY <1>1 DEF Stays
<1>3. Flight' = Flight
  BY <1>1 DEF Flight
<1>4. StageInv'
  BY <1>2, StageKeeps
<1>5. LedgerInv'
  BY <1>3, LedgerKeeps
<1> QED
  BY <1>4, <1>5 DEF WavInv, WavsInv

-----------------------------------------------------------------------------
(* The steps of AmbientCapture. *)

LEMMA WavInit ==
    ASSUME Ambient!Init
    PROVE  WavInv
<1>1. /\ wavs = <<>> /\ files = {} /\ ref = [c \in Chunks |-> "none"]
      /\ ledger = 0 /\ uploads = 0
      /\ storage = None /\ gc = Ambient!NoGc /\ chunk = [c \in Chunks |-> "idle"] /\ stt = None
      /\ overtaken = {} /\ leaked = 0 /\ rewritten = FALSE /\ wavFaults = 0
  BY DEF Ambient!Init
<1>2. CallInv
  <2>1. "idle" \in Ambient!Places /\ "idle" \notin Locked
    BY DEF Ambient!Places, Locked
  <2> QED
    BY <1>1, <2>1, PlacesAre, NoneIsNoChunk DEF CallInv
<1>3. WavsInv
  BY <1>1, FileBounds DEF WavsInv
<1>4. StageInv
  <2>1. IsFiniteSet({})
    BY FS_EmptySet
  <2>2. ASSUME NEW c \in Chunks
        PROVE  /\ chunk[c] = "idle" /\ ref[c] = "none" /\ c \notin files
               /\ \A i \in DOMAIN wavs : wavs[i] # c
    BY <1>1
  <2>3. "idle" \notin Registered
    BY DEF Registered
  <2>4. files \subseteq Chunks /\ IsFiniteSet(files) /\ overtaken \subseteq Chunks
        /\ ref \in [Chunks -> {"none", "file", "cleared"}]
    BY <1>1, <2>1
  <2> QED
    BY <2>2, <2>3, <2>4 DEF StageInv
<1>5. LedgerInv
  <2>1. Flight = {}
    BY <1>1 DEF Flight
  <2>2. Count = 0
    BY <1>1, <2>1, Sizes DEF Count
  <2>3. Ambient!Charged = 0
    BY <2>2, SameCardinality DEF Ambient!Charged, Count, Flight
  <2>4. Ambient!LedgerIsExact
    BY <1>1, <2>3 DEF Ambient!LedgerIsExact
  <2>5. 0 \in Nat /\ 0 \in 0 .. MaxUploads /\ 0 \in 0 .. MaxWavFaults
    BY FileBounds
  <2> QED
    BY <1>1, <2>4, <2>5 DEF LedgerInv
<1> QED
  BY <1>2, <1>3, <1>4, <1>5 DEF WavInv

LEMMA ArriveKeeps ==
    ASSUME WavInv, NEW c \in Chunks, Ambient!Arrive(c)
    PROVE  WavInv'
<1>1. PICK place \in {"gated", "quality"} : chunk' = [chunk EXCEPT ![c] = place]
  BY DEF Ambient!Arrive, Ambient!Goes
<1>2. /\ chunk[c] = "idle"
      /\ UNCHANGED <<wavs, files, ref, ledger, uploads, overtaken, leaked, rewritten, storage, gc, stt, wavFaults>>
  BY DEF Ambient!Arrive, Ambient!storage
<1>3. place \in Ambient!Places /\ place \in Unregistered /\ place \notin Locked \cup Registered
  BY DEF Ambient!Places, Unregistered, Registered, Locked
<1>4. storage # c /\ chunk[c] \in Unregistered \ {"register"}
  BY <1>2 DEF WavInv, CallInv, Locked, Unregistered
<1>5. CallInv'
  <2>1. \A x \in Chunks : stt' = x => IF x = c THEN place = "transcribing" ELSE stt = x
    BY <1>2 DEF WavInv, CallInv
  <2>2. /\ gc' \in Scans /\ (storage' = None => gc' = Ambient!NoGc) /\ (storage' # None => gc'.pass # 0)
        /\ stt' \in Chunks \cup {None}
    BY <1>2 DEF WavInv, CallInv
  <2> QED
    BY <1>1, <1>2, <1>3, <1>4, <2>1, <2>2, CallMoves
<1> QED
  BY <1>1, <1>2, <1>3, <1>4, <1>5, QuietMoves, FaultCounts

LEMMA LockKeeps ==
    ASSUME WavInv, NEW c \in Chunks, Ambient!Lock(c)
    PROVE  WavInv'
<1>1. /\ chunk[c] \in {"gated", "quality"} /\ storage = None /\ storage' = c
      /\ chunk' = [chunk EXCEPT ![c] = "collect"]
      /\ UNCHANGED <<wavs, files, ref, ledger, uploads, overtaken, leaked, rewritten, stt, wavFaults>>
  BY DEF Ambient!Lock, Ambient!Goes, Ambient!storage
<1>2. PICK n \in 0 .. Len(wavs) :
          gc' = [Ambient!NoGc EXCEPT !.pass = 1, !.only = (chunk[c] = "gated"),
                    !.missing = files \ Ambient!OnDisk, !.expired = Ambient!ToSet(SubSeq(wavs, 1, n))]
  BY DEF Ambient!Lock
<1>3. Ambient!ToSet(SubSeq(wavs, 1, n)) \subseteq Chunks
  <2>1. wavs \in Seq(Chunks)
    BY DEF WavInv, WavsInv
  <2>2. SubSeq(wavs, 1, n) \in Seq(Chunks)
    <3>1. n \in Int /\ \A i \in 1 .. n : wavs[i] \in Chunks
      BY <2>1
    <3> QED
      BY <3>1, SubSeqProperties
  <2> QED
    BY <2>2 DEF Ambient!ToSet
<1>4. gc' \in Scans /\ gc'.pass = 1
  <2>1. files \subseteq Chunks
    BY DEF WavInv, StageInv
  <2>2. gc' = [pass |-> 1, only |-> (chunk[c] = "gated"), missing |-> files \ Ambient!OnDisk,
               expired |-> Ambient!ToSet(SubSeq(wavs, 1, n)), stuck |-> {}, victim |-> None]
    BY <1>2 DEF Ambient!NoGc
  <2> QED
    BY <1>3, <2>1, <2>2 DEF Scans
<1>5. "collect" \in Ambient!Places /\ "collect" \in Locked /\ "collect" \notin Registered
  BY DEF Ambient!Places, Locked, Registered
<1>6. CallInv'
  <2>1. \A x \in Chunks : stt' = x => IF x = c THEN "collect" = "transcribing" ELSE stt = x
    BY <1>1 DEF WavInv, CallInv
  <2>2. stt' \in Chunks \cup {None}
    BY <1>1 DEF WavInv, CallInv
  <2>3. storage' = IF "collect" \in Locked THEN c ELSE IF storage = c THEN None ELSE storage
    BY <1>1, <1>5
  <2>4. storage' # None /\ gc'.pass # 0 /\ gc' \in Scans
    BY <1>1, <1>4, NoneIsNoChunk
  <2> QED
    BY <1>1, <1>5, <2>1, <2>2, <2>3, <2>4, CallMoves
<1>7. chunk[c] \in Unregistered \ {"register"}
  BY <1>1 DEF Unregistered, Locked
<1> QED
  BY <1>1, <1>5, <1>6, <1>7, QuietMoves, FaultCounts

\* The holder of the lock lets it go: the call is over, or it goes on to the transcription.
LEMMA Unlocks ==
    ASSUME WavInv, NEW c \in Chunks, storage = c, NEW place \in {"raised", "stt"}, Ambient!Unlock(c, place),
           wavs' = wavs \/ storage = c, stt' = stt
    PROVE  /\ CallInv'
           /\ \E p \in {place, "returned"} : /\ chunk' = [chunk EXCEPT ![c] = p] /\ p \in Ambient!Places
                                             /\ (~gc.only => p = place) /\ p \notin Unregistered
<1>1. PICK p \in {place, "returned"} :
          chunk' = [chunk EXCEPT ![c] = p] /\ (~gc.only => p = place)
  BY DEF Ambient!Unlock, Ambient!Goes
<1>2. storage' = None /\ gc' = Ambient!NoGc
  BY DEF Ambient!Unlock
<1>3. p \in Ambient!Places /\ p \notin Locked /\ p \notin Unregistered
  BY DEF Ambient!Places, Locked, Unregistered
<1>4. \A x \in Chunks : stt' = x => IF x = c THEN p = "transcribing" ELSE stt = x
  BY DEF WavInv, CallInv, Locked
<1>5. stt' \in Chunks \cup {None}
  BY DEF WavInv, CallInv
<1>6. CallInv'
  BY <1>1, <1>2, <1>3, <1>4, <1>5, PlacesAre, CallMoves
<1> QED
  BY <1>1, <1>3, <1>6

\* The holder of the lock goes on inside.
LEMMA HolderMoves ==
    ASSUME WavInv, NEW c \in Chunks, storage = c, NEW place \in Locked,
           chunk' = [chunk EXCEPT ![c] = place], storage' = storage, stt' = stt,
           gc' \in Scans, gc'.pass # 0,
           place = "release" => gc'.victim \in Chunks,
           place \in {"reserve", "write", "register"} => ~gc'.only,
           place \in {"reserve", "write"} => Len(wavs') + 1 <= Cap
    PROVE  CallInv'
<1>1. place \in Ambient!Places /\ place # "transcribing"
  BY PlacesAre DEF Unregistered, Locked
<1>2. storage' = IF place \in Locked THEN c ELSE IF storage = c THEN None ELSE storage
  OBVIOUS
<1>3. storage' # None
  BY NoneIsNoChunk
<1>4. \A x \in Chunks : stt' = x => IF x = c THEN place = "transcribing" ELSE stt = x
  BY DEF WavInv, CallInv, Locked
<1>5. stt' \in Chunks \cup {None}
  BY DEF WavInv, CallInv
<1> QED
  BY <1>1, <1>2, <1>3, <1>4, <1>5, CallMoves

LEMMA HolderFacts ==
    ASSUME WavInv, NEW c \in Chunks, storage = c
    PROVE  /\ chunk[c] \in Locked /\ gc \in Scans /\ gc.pass # 0 /\ gc.pass \in 1 .. 2
           /\ chunk = [chunk EXCEPT ![c] = chunk[c]]
           /\ \A place : [chunk EXCEPT ![c] = place][c] = place
           /\ \A place : \A x \in Chunks \ {c} : [chunk EXCEPT ![c] = place][x] = chunk[x]
BY NoneIsNoChunk DEF WavInv, CallInv, Scans

LEMMA OneGoes ==
    ASSUME WavInv, NEW c \in Chunks, NEW place, chunk' = [chunk EXCEPT ![c] = place],
           place \in Unregistered => chunk[c] \in Unregistered \ {"register"},
           place \in Registered => chunk[c] \in Registered
    PROVE  /\ \A x \in Chunks : Stays(x)
           /\ (place \in {"write", "register"} <=> chunk[c] \in {"write", "register"}) => Flight' = Flight
<1>1. ASSUME NEW x \in Chunks
      PROVE  chunk'[x] = IF x = c THEN place ELSE chunk[x]
  BY DEF WavInv, CallInv
<1> QED
  BY <1>1 DEF Stays, Flight

LEMMA ScanFailsKeeps ==
    ASSUME WavInv, NEW c \in Chunks, Ambient!ScanFails(c)
    PROVE  WavInv'
<1>1. /\ storage = c /\ chunk[c] = "collect" /\ Ambient!Fault
      /\ UNCHANGED <<wavs, files, ref, ledger, uploads, overtaken, leaked, rewritten, stt>>
  BY DEF Ambient!ScanFails, Ambient!storage
<1>2. wavFaults' \in 0 .. MaxWavFaults
  BY <1>1, FaultCounts
<1>3. chunk[c] \in Unregistered \ {"register"} /\ chunk[c] \notin {"write", "register"}
  BY <1>1 DEF Unregistered, Locked
<1>4. CASE Ambient!Unlock(c, "raised")
  <2>1. CallInv'
    BY <1>1, <1>4, Unlocks
  <2>2. PICK p \in {"raised", "returned"} : chunk' = [chunk EXCEPT ![c] = p] /\ p \in Ambient!Places
    BY <1>1, <1>4, Unlocks
  <2>3. p \notin Unregistered \cup Registered \cup {"write", "register"}
    BY DEF Unregistered, Registered, Locked
  <2> QED
    BY <1>1, <1>2, <1>3, <2>1, <2>2, <2>3, QuietMoves
<1>5. CASE ~Ambient!Over(Ambient!Required) /\ ~gc.only /\ Ambient!Goes(c, "reserve") /\ UNCHANGED <<storage, gc>>
  <2>1. Len(wavs) + 1 <= Cap
    <3>1. Len(wavs) \in Nat
      BY DEF WavInv, WavsInv
    <3> QED
      BY <1>5, <3>1, FileBounds DEF Ambient!Over, Ambient!Required
  <2>2. "reserve" \in Locked /\ "reserve" \in Ambient!Places /\ "reserve" \notin Registered
    BY DEF Locked, Ambient!Places, Registered
  <2>3. CallInv'
    BY <1>1, <1>5, <2>1, <2>2, HolderFacts, HolderMoves DEF Ambient!Goes
  <2> QED
    BY <1>1, <1>2, <1>3, <1>5, <2>2, <2>3, QuietMoves DEF Ambient!Goes
<1> QED
  BY <1>4, <1>5 DEF Ambient!ScanFails

\* The holder looks at the next of its files, and stays where it is.
LEMMA HolderLooks ==
    ASSUME WavInv, NEW c \in Chunks, storage = c, chunk[c] = "collect",
           UNCHANGED <<wavs, files, ref, ledger, uploads, overtaken, leaked, rewritten, storage, chunk, stt>>,
           gc' \in Scans, gc'.pass # 0, wavFaults' \in 0 .. MaxWavFaults
    PROVE  WavInv'
<1>1. "collect" \in Locked /\ "collect" \in Ambient!Places /\ "collect" \in Unregistered \ {"register"}
      /\ "collect" \notin Registered
  BY DEF Locked, Ambient!Places, Registered, Unregistered
<1>2. chunk' = [chunk EXCEPT ![c] = "collect"]
  BY HolderFacts
<1>3. CallInv'
  BY <1>1, <1>2, HolderMoves
<1> QED
  BY <1>1, <1>2, <1>3, QuietMoves

LEMMA OldestIs ==
    ASSUME WavInv, Ambient!Candidates # {}
    PROVE  Ambient!Min(Ambient!Candidates) \in DOMAIN wavs /\ wavs[Ambient!Min(Ambient!Candidates)] \in Chunks
<1>1. wavs \in Seq(Chunks) /\ DOMAIN wavs \subseteq Nat
  BY DEF WavInv, WavsInv
<1>2. Ambient!Candidates \in SUBSET Nat /\ Ambient!Candidates \subseteq DOMAIN wavs
  BY <1>1 DEF Ambient!Candidates
<1>3. Least(Ambient!Candidates) \in Ambient!Candidates
  BY <1>2, LeastIsLeast
<1>4. Ambient!Min(Ambient!Candidates) = Least(Ambient!Candidates)
  BY DEF Ambient!Min, Least
<1>5. Ambient!Min(Ambient!Candidates) \in DOMAIN wavs
  BY <1>2, <1>3, <1>4
<1> QED
  BY <1>1, <1>5

LEMMA DeleteFileFailsKeeps ==
    ASSUME WavInv, NEW c \in Chunks, Ambient!DeleteFileFails(c)
    PROVE  WavInv'
<1>1. /\ storage = c /\ chunk[c] = "collect" /\ Ambient!Candidates # {} /\ Ambient!Fault
      /\ gc' = [gc EXCEPT !.stuck = gc.stuck \cup {wavs[Ambient!Min(Ambient!Candidates)]}]
      /\ UNCHANGED <<wavs, files, ref, ledger, uploads, overtaken, leaked, rewritten, storage, chunk, stt>>
  BY DEF Ambient!DeleteFileFails, Ambient!storage
<1>2. gc' \in Scans /\ gc'.pass = gc.pass
  <2>1. gc \in Scans /\ wavs[Ambient!Min(Ambient!Candidates)] \in Chunks
    BY <1>1, HolderFacts, OldestIs
  <2> QED
    BY <1>1, <2>1 DEF Scans
<1> QED
  BY <1>1, <1>2, FaultCounts, HolderFacts, HolderLooks

LEMMA NextPassKeeps ==
    ASSUME WavInv, NEW c \in Chunks, Ambient!NextPass(c)
    PROVE  WavInv'
<1>1. /\ storage = c /\ chunk[c] = "collect"
      /\ gc' = [gc EXCEPT !.pass = 2, !.stuck = {}]
      /\ UNCHANGED <<wavs, files, ref, ledger, uploads, overtaken, leaked, rewritten, storage, chunk, stt, wavFaults>>
  BY DEF Ambient!NextPass, Ambient!storage
<1>2. gc' \in Scans /\ gc'.pass = 2
  <2>1. gc \in Scans
    BY <1>1, HolderFacts
  <2>2. gc' = [pass |-> 2, only |-> gc.only, missing |-> gc.missing, expired |-> gc.expired,
               stuck |-> {}, victim |-> gc.victim]
    BY <1>1, <2>1 DEF Scans
  <2> QED
    BY <2>1, <2>2 DEF Scans
<1> QED
  BY <1>1, <1>2, FaultCounts, HolderLooks

LEMMA CollectEndsKeeps ==
    ASSUME WavInv, NEW c \in Chunks, Ambient!CollectEnds(c)
    PROVE  WavInv'
<1>1. /\ storage = c /\ chunk[c] = "collect"
      /\ UNCHANGED <<wavs, files, ref, ledger, uploads, overtaken, leaked, rewritten, stt, wavFaults>>
  BY DEF Ambient!CollectEnds, Ambient!storage
<1>2. chunk[c] \in Unregistered \ {"register"} /\ chunk[c] \notin {"write", "register"}
  BY <1>1 DEF Unregistered, Locked
<1>3. CASE Ambient!Over(Ambient!Required) \/ gc.only
  <2>1. Ambient!Unlock(c, "raised")
    BY <1>3 DEF Ambient!CollectEnds
  <2>2. CallInv'
    BY <1>1, <2>1, Unlocks
  <2>3. PICK p \in {"raised", "returned"} : chunk' = [chunk EXCEPT ![c] = p] /\ p \in Ambient!Places
    BY <1>1, <2>1, Unlocks
  <2>4. p \notin Unregistered \cup Registered \cup {"write", "register"}
    BY DEF Unregistered, Registered, Locked
  <2> QED
    BY <1>1, <1>2, <2>2, <2>3, <2>4, FaultCounts, QuietMoves
<1>4. CASE ~(Ambient!Over(Ambient!Required) \/ gc.only)
  <2>1. Len(wavs) + 1 <= Cap
    <3>1. Len(wavs) \in Nat
      BY DEF WavInv, WavsInv
    <3> QED
      BY <1>4, <3>1, FileBounds DEF Ambient!Over, Ambient!Required
  <2>2. "reserve" \in Locked /\ "reserve" \in Ambient!Places /\ "reserve" \notin Registered
    BY DEF Locked, Ambient!Places, Registered
  <2>3. chunk' = [chunk EXCEPT ![c] = "reserve"] /\ UNCHANGED <<storage, gc>>
    BY <1>4 DEF Ambient!CollectEnds, Ambient!Goes
  <2>4. CallInv'
    BY <1>1, <1>4, <2>1, <2>2, <2>3, HolderFacts, HolderMoves
  <2> QED
    BY <1>1, <1>2, <2>2, <2>3, <2>4, FaultCounts, QuietMoves
<1> QED
  BY <1>3, <1>4

\* A file that is gone, or deleted just now: its row, its reference and its charge go together.
LEMMA ReconcileMissingKeeps ==
    ASSUME WavInv, NEW c \in Chunks, NEW f \in Chunks, Ambient!ReconcileMissing(c, f)
    PROVE  WavInv'
<1>1. /\ storage = c /\ chunk[c] = "collect"
      /\ gc' = [gc EXCEPT !.missing = gc.missing \ {f}]
      /\ UNCHANGED <<wavs, uploads, leaked, rewritten, storage, chunk, stt>>
      /\ \/ Ambient!Released(f) /\ UNCHANGED wavFaults
         \/ Ambient!Fault /\ UNCHANGED <<files, ref, ledger, overtaken>>
  BY DEF Ambient!ReconcileMissing
<1>2. gc' \in Scans /\ gc'.pass # 0
  <2>1. gc \in Scans /\ gc.pass # 0
    BY <1>1, HolderFacts
  <2> QED
    BY <1>1, <2>1 DEF Scans
<1>3. "collect" \in Locked /\ chunk' = [chunk EXCEPT ![c] = "collect"]
  BY <1>1, HolderFacts DEF Locked
<1>4. CallInv'
  BY <1>1, <1>2, <1>3, HolderMoves
<1>5. (\A x \in Chunks : Stays(x)) /\ Flight' = Flight
  BY <1>1 DEF Stays, Flight
<1>6. StageInv'
  BY <1>1, <1>5, StageKeeps
<1>7. LedgerInv'
  BY <1>1, <1>5, FaultCounts, LedgerKeeps
<1> QED
  BY <1>1, <1>4, <1>6, <1>7 DEF WavInv, WavsInv

LEMMA DeleteRowsKeeps ==
    ASSUME WavInv, NEW c \in Chunks, Ambient!DeleteRows(c)
    PROVE  WavInv'
<1>1. /\ storage = c /\ chunk[c] = "release"
      /\ gc' = [gc EXCEPT !.victim = None]
      /\ chunk' = [chunk EXCEPT ![c] = "collect"]
      /\ UNCHANGED <<wavs, uploads, leaked, rewritten, storage, stt>>
      /\ \/ Ambient!Released(gc.victim) /\ UNCHANGED wavFaults
         \/ Ambient!Fault /\ UNCHANGED <<files, ref, ledger, overtaken>>
  BY DEF Ambient!DeleteRows, Ambient!Goes
<1>2. gc' \in Scans /\ gc'.pass # 0
  <2>1. gc \in Scans /\ gc.pass # 0
    BY <1>1, HolderFacts
  <2> QED
    BY <1>1, <2>1 DEF Scans
<1>3. gc.victim \in Chunks
  BY <1>1 DEF WavInv, CallInv
<1>4. CallInv'
  <2>1. "collect" \in Locked
    BY DEF Locked
  <2> QED
    BY <1>1, <1>2, <2>1, HolderMoves
<1>5. (\A x \in Chunks : Stays(x)) /\ Flight' = Flight
  <2>1. /\ chunk[c] \in Unregistered \ {"register"} /\ "collect" \notin Registered
        /\ "collect" \notin {"write", "register"} /\ chunk[c] \notin {"write", "register"}
    BY <1>1 DEF Unregistered, Locked, Registered
  <2> QED
    BY <1>1, <2>1, OneGoes
<1>6. StageInv'
  BY <1>1, <1>3, <1>5, StageKeeps
<1>7. LedgerInv'
  BY <1>1, <1>3, <1>5, FaultCounts, LedgerKeeps
<1> QED
  BY <1>1, <1>4, <1>6, <1>7 DEF WavInv, WavsInv

LEMMA DeleteFileKeeps ==
    ASSUME WavInv, NEW c \in Chunks, Ambient!DeleteFile(c)
    PROVE  WavInv'
<1> DEFINE k == Ambient!Min(Ambient!Candidates)
<1>1. /\ storage = c /\ chunk[c] = "collect" /\ Ambient!Candidates # {}
      /\ gc' = [gc EXCEPT !.victim = wavs[k]]
      /\ wavs' = Ambient!RemoveAt(wavs, k)
      /\ chunk' = [chunk EXCEPT ![c] = "release"]
      /\ UNCHANGED <<files, ref, ledger, uploads, overtaken, leaked, rewritten, storage, stt, wavFaults>>
  BY DEF Ambient!DeleteFile, Ambient!Goes
<1>2. k \in DOMAIN wavs /\ wavs[k] \in Chunks
  BY <1>1, OldestIs
<1> HIDE DEF k
<1>3. /\ wavs' \in Seq(Chunks) /\ Len(wavs') = Len(wavs) - 1
      /\ \A i, j \in DOMAIN wavs' : wavs'[i] = wavs'[j] => i = j
      /\ \A i \in DOMAIN wavs' : \E j \in DOMAIN wavs : wavs'[i] = wavs[j]
  BY <1>1, <1>2, RemoveAtIs DEF WavInv, WavsInv
<1>4. WavsInv'
  <2>1. Len(wavs) \in Nat /\ Len(wavs) <= Cap
    BY DEF WavInv, WavsInv
  <2> QED
    BY <1>3, <2>1, FileBounds DEF WavsInv
<1>5. gc' \in Scans /\ gc'.pass # 0 /\ gc'.victim \in Chunks
  <2>1. gc \in Scans /\ gc.pass # 0
    BY <1>1, HolderFacts
  <2> QED
    BY <1>1, <1>2, <2>1 DEF Scans
<1>6. CallInv'
  <2>1. "release" \in Locked
    BY DEF Locked
  <2> QED
    BY <1>1, <1>5, <2>1, HolderMoves
<1>7. (\A x \in Chunks : Stays(x)) /\ Flight' = Flight
  <2>1. /\ chunk[c] \in Unregistered \ {"register"} /\ "release" \notin Registered
        /\ "release" \notin {"write", "register"} /\ chunk[c] \notin {"write", "register"}
    BY <1>1 DEF Unregistered, Locked, Registered
  <2> QED
    BY <1>1, <2>1, OneGoes
<1>8. StageInv'
  BY <1>1, <1>3, <1>7, StageKeeps
<1>9. LedgerInv'
  BY <1>1, <1>7, FaultCounts, LedgerKeeps
<1> QED
  BY <1>4, <1>6, <1>8, <1>9 DEF WavInv

\* The reservation is charged as it takes flight.
LEMMA ReserveKeeps ==
    ASSUME WavInv, NEW c \in Chunks, Ambient!Reserve(c)
    PROVE  WavInv'
<1>1. /\ chunk[c] = "reserve" /\ storage = c
      /\ UNCHANGED <<wavs, files, ref, uploads, overtaken, leaked, rewritten, stt, wavFaults>>
  BY DEF Ambient!Reserve, WavInv, CallInv, Locked
<1>2. chunk[c] \in Unregistered \ {"register"} /\ chunk[c] \notin {"write", "register"}
  BY <1>1 DEF Unregistered, Locked
<1>3. CASE ledger + 1 > Quota
  <2>1. Ambient!Unlock(c, "raised") /\ UNCHANGED ledger
    BY <1>3 DEF Ambient!Reserve
  <2>2. CallInv'
    BY <1>1, <2>1, Unlocks
  <2>3. PICK p \in {"raised", "returned"} : chunk' = [chunk EXCEPT ![c] = p] /\ p \in Ambient!Places
    BY <1>1, <2>1, Unlocks
  <2>4. p \notin Unregistered \cup Registered \cup {"write", "register"}
    BY DEF Unregistered, Registered, Locked
  <2> QED
    BY <1>1, <1>2, <2>1, <2>2, <2>3, <2>4, FaultCounts, QuietMoves
<1>4. CASE ~(ledger + 1 > Quota)
  <2>1. /\ ledger' = ledger + 1 /\ chunk' = [chunk EXCEPT ![c] = "write"] /\ UNCHANGED <<storage, gc>>
    BY <1>4 DEF Ambient!Reserve, Ambient!Goes
  <2>2. ~gc.only /\ Len(wavs) + 1 <= Cap
    BY <1>1 DEF WavInv, CallInv
  <2>3. "write" \in Locked /\ "write" \notin Registered
    BY DEF Locked, Registered
  <2>4. CallInv'
    BY <1>1, <2>1, <2>2, <2>3, HolderFacts, HolderMoves
  <2>5. \A x \in Chunks : Stays(x)
    BY <1>2, <2>1, <2>3, OneGoes
  <2>6. StageInv'
    BY <1>1, <2>5, StageKeeps
  <2>7. Flight = {} /\ Flight' = {c}
    <3>1. chunk'[c] = "write" /\ storage' = c
      BY <1>1, <2>1, HolderFacts
    <3>2. \A x \in Chunks \ {c} : chunk'[x] = chunk[x]
      BY <1>1, <2>1, HolderFacts
    <3>3. Flight = {}
      BY <1>1, <1>2, FlightIs DEF WavInv
    <3> QED
      BY <3>1, <3>2, <3>3 DEF Flight
  <2>8. Count' = Count + 1
    <3>1. uploads \in Nat /\ leaked \in Nat
      BY FileBounds DEF WavInv, LedgerInv
    <3>2. Cardinality(Flight) = 0 /\ Cardinality(Flight') = 1 /\ Cardinality(files) \in Nat
      BY <2>7, Sizes, CountsAreNumbers
    <3>3. Count = Cardinality(files) + 0 + uploads + leaked
      BY <3>2 DEF Count
    <3>4. Count' = Cardinality(files) + 1 + uploads + leaked
      BY <1>1, <3>2 DEF Count
    <3> QED
      BY <3>1, <3>2, <3>3, <3>4
  <2>9. LedgerInv'
    <3>1. uploads \in 0 .. MaxUploads /\ leaked \in Nat /\ rewritten \in BOOLEAN
      BY DEF WavInv, LedgerInv
    <3>2. ledger' \in Nat /\ ledger' <= Count' /\ (~rewritten => ledger' = Count')
      BY <2>1, <2>8, CountsAreNumbers
    <3> QED
      BY <1>1, <3>1, <3>2, FaultCounts, LedgerIs
  <2> QED
    BY <1>1, <2>4, <2>6, <2>9 DEF WavInv, WavsInv
<1> QED
  BY <1>3, <1>4

\* A store that failed: the reservation is released, or its charge stays for good.
LEMMA CleanedUp ==
    ASSUME WavInv, NEW c \in Chunks, storage = c, chunk[c] \in {"write", "register"}, Ambient!CleansUp(c),
           UNCHANGED <<files, uploads, rewritten, stt>>, wavFaults' \in 0 .. MaxWavFaults
    PROVE  /\ CallInv' /\ LedgerInv'
           /\ \E p \in {"raised", "returned"} : chunk' = [chunk EXCEPT ![c] = p]
<1>1. CallInv'
  BY Unlocks DEF Ambient!CleansUp
<1>2. PICK p \in {"raised", "returned"} : chunk' = [chunk EXCEPT ![c] = p]
  BY Unlocks DEF Ambient!CleansUp
<1>3. chunk'[c] = p /\ \A x \in Chunks \ {c} : chunk'[x] = chunk[x]
  BY <1>2, HolderFacts
<1>4. Flight = {c} /\ Flight' = {}
  <2>1. Flight = {c}
    BY FlightIs DEF WavInv
  <2> QED
    BY <1>3, <2>1 DEF Flight
<1>5. uploads \in 0 .. MaxUploads /\ uploads \in Nat /\ leaked \in Nat /\ rewritten \in BOOLEAN
  BY FileBounds DEF WavInv, LedgerInv
<1>6. Cardinality(Flight) = 1 /\ Cardinality(Flight') = 0 /\ Cardinality(files) \in Nat
  BY <1>4, Sizes, CountsAreNumbers
<1>7. Count = Cardinality(files) + 1 + uploads + leaked
  BY <1>6 DEF Count
<1>8. Count' = Cardinality(files) + 0 + uploads + leaked'
  BY <1>6 DEF Count
<1>9. \/ ledger' = (IF ledger > 0 THEN ledger - 1 ELSE 0) /\ leaked' = leaked
      \/ ledger' = ledger /\ leaked' = leaked + 1
  BY DEF Ambient!CleansUp
<1>10. /\ ledger' \in Nat /\ leaked' \in Nat
       /\ ledger' <= Count' /\ (~rewritten => ledger' = Count')
  BY <1>5, <1>6, <1>7, <1>8, <1>9, CountsAreNumbers
<1>11. LedgerInv'
  BY <1>5, <1>10, LedgerIs
<1> QED
  BY <1>1, <1>2, <1>11

\* The file is written last, and no other has its name.
LEMMA WriteKeeps ==
    ASSUME WavInv, NEW c \in Chunks, Ambient!Write(c)
    PROVE  WavInv'
<1>1. /\ chunk[c] = "write" /\ storage = c
      /\ UNCHANGED <<files, ref, uploads, overtaken, rewritten, stt>>
  BY DEF Ambient!Write, WavInv, CallInv, Locked
<1>2. chunk[c] \in Unregistered \ {"register"}
  BY <1>1 DEF Unregistered, Locked
<1>3. CASE wavs' = Append(wavs, c) /\ Ambient!Goes(c, "register")
           /\ UNCHANGED <<ledger, leaked, storage, gc, wavFaults>>
  <2>1. chunk' = [chunk EXCEPT ![c] = "register"]
    BY <1>3 DEF Ambient!Goes
  <2>2. "register" \in Locked /\ "register" \notin Registered /\ "register" \in Unregistered
    BY DEF Locked, Registered, Unregistered
  <2>3. ~gc.only /\ Len(wavs) + 1 <= Cap
    BY <1>1 DEF WavInv, CallInv
  <2>4. CallInv'
    BY <1>1, <1>3, <2>1, <2>2, <2>3, HolderFacts, HolderMoves
  <2>5. \A x \in Chunks : Stays(x)
    BY <1>2, <2>1, <2>2, OneGoes
  <2>6. Flight' = Flight
    BY <1>1, <1>2, <2>1, <2>2, OneGoes
  <2>7. /\ wavs \in Seq(Chunks) /\ Len(wavs) \in Nat /\ DOMAIN wavs = 1 .. Len(wavs)
        /\ \A i, j \in DOMAIN wavs : wavs[i] = wavs[j] => i = j
        /\ \A i \in DOMAIN wavs : wavs[i] # c
    BY <1>2 DEF WavInv, WavsInv, StageInv
  <2>8. /\ wavs' \in Seq(Chunks) /\ Len(wavs') = Len(wavs) + 1 /\ DOMAIN wavs' = 1 .. Len(wavs) + 1
        /\ \A i \in 1 .. Len(wavs) : wavs'[i] = wavs[i]
        /\ wavs'[Len(wavs) + 1] = c
    BY <1>3, <2>7, AppendProperties
  <2>9. ASSUME NEW i \in DOMAIN wavs'
        PROVE  \/ i \in DOMAIN wavs /\ wavs'[i] = wavs[i]
               \/ i = Len(wavs) + 1 /\ wavs'[i] = c
    <3>1. i \in 1 .. Len(wavs) + 1
      BY <2>8
    <3>2. i \in 1 .. Len(wavs) \/ i = Len(wavs) + 1
      BY <2>7, <3>1
    <3> QED
      BY <2>7, <2>8, <3>2
  <2>10. WavsInv'
    <3>1. Len(wavs') <= Cap
      BY <2>3, <2>8
    <3>2. \A i, j \in DOMAIN wavs' : wavs'[i] = wavs'[j] => i = j
      BY <2>7, <2>9
    <3> QED
      BY <2>8, <3>1, <3>2 DEF WavsInv
  <2>11. StageInv'
    <3>1. ASSUME NEW x \in Chunks, chunk'[x] \in Unregistered \ {"register"}
          PROVE  \A i \in DOMAIN wavs' : wavs'[i] # x
      <4>1. x # c
        BY <1>1, <2>1, <3>1, HolderFacts
      <4>2. \A i \in DOMAIN wavs : wavs[i] # x
        BY <2>5, <3>1 DEF WavInv, StageInv, Stays
      <4> QED
        BY <2>9, <4>1, <4>2
    <3> QED
      BY <1>1, <2>5, <3>1 DEF WavInv, StageInv, Stays
  <2>12. LedgerInv'
    BY <1>1, <1>3, <2>6, FaultCounts, LedgerKeeps
  <2> QED
    BY <2>4, <2>10, <2>11, <2>12 DEF WavInv
<1>4. CASE Ambient!Fault /\ Ambient!CleansUp(c) /\ UNCHANGED wavs
  <2>1. wavFaults' \in 0 .. MaxWavFaults
    BY <1>4, FaultCounts
  <2>2. CallInv' /\ LedgerInv'
    BY <1>1, <1>4, <2>1, CleanedUp
  <2>3. PICK p \in {"raised", "returned"} : chunk' = [chunk EXCEPT ![c] = p]
    BY <1>1, <1>4, <2>1, CleanedUp
  <2>4. p \notin Unregistered \cup Registered
    BY DEF Unregistered, Locked, Registered
  <2>5. \A x \in Chunks : Stays(x)
    BY <2>3, <2>4, OneGoes
  <2>6. StageInv'
    BY <1>1, <1>4, <2>5, StageKeeps
  <2> QED
    BY <1>4, <2>2, <2>6 DEF WavInv, WavsInv
<1> QED
  BY <1>3, <1>4 DEF Ambient!Write

\* The reservation becomes a registered file.
LEMMA RegisterKeeps ==
    ASSUME WavInv, NEW c \in Chunks, Ambient!Register(c)
    PROVE  WavInv'
<1>1. /\ chunk[c] = "register" /\ storage = c
      /\ UNCHANGED <<ref, uploads, overtaken, rewritten, stt>>
  BY DEF Ambient!Register, WavInv, CallInv, Locked
<1>2. c \notin files /\ ref[c] = "none" /\ ~gc.only
  BY <1>1 DEF WavInv, CallInv, StageInv, Unregistered, Locked
<1>3. CASE files' = files \cup {c} /\ Ambient!Unlock(c, "stt") /\ UNCHANGED <<wavs, ledger, leaked, wavFaults>>
  <2>1. CallInv'
    BY <1>1, <1>3, Unlocks
  <2>2. chunk' = [chunk EXCEPT ![c] = "stt"]
    BY <1>1, <1>2, <1>3, Unlocks
  <2>3. chunk'[c] = "stt" /\ \A x \in Chunks \ {c} : chunk'[x] = chunk[x]
    BY <1>1, <2>2, HolderFacts
  <2>4. "stt" \notin Unregistered
    BY DEF Unregistered, Locked
  <2>5. IsFiniteSet(files') /\ files' \subseteq Chunks /\ Cardinality(files') = Cardinality(files) + 1
    BY <1>2, <1>3, FS_AddElement DEF WavInv, StageInv
  <2>6. ASSUME NEW x \in Chunks
        PROVE  /\ chunk'[x] \in Unregistered => x \notin files' /\ ref'[x] = "none"
               /\ chunk'[x] \in Unregistered \ {"register"} => \A i \in DOMAIN wavs' : wavs'[i] # x
               /\ chunk'[x] \in Registered => ref'[x] = "none" /\ x \in files' \cup overtaken'
               /\ ref'[x] = "file" => x \in files' \cup overtaken'
    <3>1. CASE x = c
      BY <1>1, <1>2, <1>3, <2>3, <2>4, <3>1
    <3>2. CASE x # c
      BY <1>1, <1>3, <2>3, <3>2 DEF WavInv, StageInv
    <3> QED
      BY <3>1, <3>2
  <2>7. StageInv'
    BY <1>1, <2>5, <2>6 DEF WavInv, StageInv
  <2>8. Flight = {c} /\ Flight' = {}
    <3>1. Flight = {c}
      BY <1>1, FlightIs DEF WavInv
    <3> QED
      BY <2>3, <3>1 DEF Flight
  <2>9. Count' = Count
    <3>1. uploads \in Nat /\ leaked \in Nat /\ Cardinality(files) \in Nat
      BY FileBounds, CountsAreNumbers DEF WavInv, LedgerInv
    <3>2. Count = Cardinality(files) + 1 + uploads + leaked
      BY <2>8, Sizes DEF Count
    <3>3. Count' = Cardinality(files) + 1 + 0 + uploads + leaked
      BY <1>1, <1>3, <2>5, <2>8, Sizes DEF Count
    <3> QED
      BY <3>1, <3>2, <3>3
  <2>10. LedgerInv'
    <3>1. /\ uploads \in 0 .. MaxUploads /\ leaked \in Nat /\ rewritten \in BOOLEAN
      BY DEF WavInv, LedgerInv
    <3> QED
      BY <1>1, <1>3, <2>9, <3>1, CountsAreNumbers, FaultCounts, LedgerIs
  <2> QED
    BY <1>3, <2>1, <2>7, <2>10 DEF WavInv, WavsInv
<1>4. CASE Ambient!Fault /\ Ambient!CleansUp(c) /\ UNCHANGED files /\ wavs' \in {wavs, Ambient!Front(wavs)}
  <2>1. wavFaults' \in 0 .. MaxWavFaults
    BY <1>4, FaultCounts
  <2>2. LedgerInv'
    BY <1>1, <1>4, <2>1, CleanedUp
  <2>3. PICK p \in {"raised", "returned"} : chunk' = [chunk EXCEPT ![c] = p]
    BY <1>1, <1>4, <2>1, CleanedUp
  <2>4. p \notin Unregistered \cup Registered
    BY DEF Unregistered, Locked, Registered
  <2>5. \A x \in Chunks : Stays(x)
    BY <2>3, <2>4, OneGoes
  <2>6. CallInv'
    BY <1>1, <1>4, <2>1, CleanedUp
  <2>7. /\ wavs' \in Seq(Chunks) /\ Len(wavs') <= Len(wavs)
        /\ \A i \in DOMAIN wavs' : i \in DOMAIN wavs /\ wavs'[i] = wavs[i]
    <3>1. wavs \in Seq(Chunks) /\ Len(wavs) \in Nat
      BY DEF WavInv, WavsInv
    <3>2. CASE wavs' = wavs
      BY <3>1, <3>2
    <3>3. CASE wavs' = Ambient!Front(wavs)
      BY <3>1, <3>3, FrontIs
    <3> QED
      BY <1>4, <3>2, <3>3
  <2>8. StageInv'
    BY <1>1, <1>4, <2>5, <2>7, StageKeeps
  <2>9. WavsInv'
    <3>1. Len(wavs) \in Nat /\ Len(wavs') \in Nat /\ Len(wavs) <= Cap
      BY <2>7 DEF WavInv, WavsInv
    <3>2. Len(wavs') <= Cap
      BY <2>7, <3>1, FileBounds
    <3> QED
      BY <2>7, <3>2 DEF WavInv, WavsInv
  <2> QED
    BY <2>2, <2>6, <2>8, <2>9 DEF WavInv
<1> QED
  BY <1>3, <1>4 DEF Ambient!Register

\* The transcription: another call that is running makes this one fail.
LEMMA TranscribeKeeps ==
    ASSUME WavInv, NEW c \in Chunks, Ambient!Transcribe(c) \/ Ambient!Transcribed(c)
    PROVE  WavInv'
<1>1. /\ UNCHANGED <<wavs, files, ref, ledger, uploads, overtaken, leaked, rewritten, storage, gc, wavFaults>>
      /\ chunk[c] \in {"stt", "transcribing"}
  BY DEF Ambient!Transcribe, Ambient!Transcribed, Ambient!storage, WavInv, CallInv
<1>2. PICK place \in {"transcribing", "store", "returned", "raised"} :
          /\ chunk' = [chunk EXCEPT ![c] = place]
          /\ stt' = None \/ (stt' = c /\ place = "transcribing") \/ (stt' = stt /\ chunk[c] = "stt")
  <2>1. CASE Ambient!Transcribe(c)
    BY <2>1 DEF Ambient!Transcribe, Ambient!Goes
  <2>2. CASE Ambient!Transcribed(c)
    BY <2>2 DEF Ambient!Transcribed, Ambient!Goes
  <2> QED
    BY <2>1, <2>2
<1>3. /\ place \in Ambient!Places /\ place \notin Locked /\ place \notin Unregistered
      /\ place \notin {"write", "register"} /\ chunk[c] \notin {"write", "register"}
      /\ chunk[c] \in Registered /\ chunk[c] \notin Locked
  BY <1>1 DEF Ambient!Places, Locked, Unregistered, Registered
<1>4. storage # c
  BY <1>3 DEF WavInv, CallInv
<1>5. CallInv'
  <2>1. \A x \in Chunks : stt' = x => IF x = c THEN place = "transcribing" ELSE stt = x
    <3>1. chunk[c] = "stt" => stt # c
      BY DEF WavInv, CallInv
    <3> QED
      BY <1>2, <3>1, NoneIsNoChunk
  <2>2. /\ gc' \in Scans /\ (storage' = None => gc' = Ambient!NoGc) /\ (storage' # None => gc'.pass # 0)
        /\ stt' \in Chunks \cup {None}
    BY <1>1, <1>2 DEF WavInv, CallInv
  <2>3. storage' = IF place \in Locked THEN c ELSE IF storage = c THEN None ELSE storage
    BY <1>1, <1>3, <1>4
  <2>4. place \notin {"release", "reserve", "write", "register"}
    BY <1>3 DEF Locked
  <2> QED
    BY <1>1, <1>2, <1>3, <2>1, <2>2, <2>3, <2>4, CallMoves
<1> QED
  BY <1>1, <1>2, <1>3, <1>5, FaultCounts, QuietMoves

\* The transcript row names the file; who has released it meanwhile is remembered.
LEMMA StoreSegmentKeeps ==
    ASSUME WavInv, NEW c \in Chunks, Ambient!StoreSegment(c)
    PROVE  WavInv'
<1>1. /\ chunk[c] = "store" /\ chunk' = [chunk EXCEPT ![c] = "returned"]
      /\ UNCHANGED <<wavs, files, ledger, uploads, overtaken, leaked, rewritten, storage, gc, stt>>
      /\ (ref' = [ref EXCEPT ![c] = "file"] /\ UNCHANGED wavFaults) \/ (Ambient!Fault /\ UNCHANGED ref)
  BY DEF Ambient!StoreSegment, Ambient!Goes
<1>2. /\ "returned" \in Ambient!Places /\ "returned" \notin Locked \cup Unregistered \cup Registered
      /\ chunk[c] \in Registered /\ chunk[c] \notin Locked /\ chunk[c] \notin {"write", "register"}
  BY <1>1 DEF Ambient!Places, Locked, Unregistered, Registered
<1>3. storage # c
  BY <1>2 DEF WavInv, CallInv
<1>4. CallInv'
  <2>1. \A x \in Chunks : stt' = x => IF x = c THEN "returned" = "transcribing" ELSE stt = x
    BY <1>1 DEF WavInv, CallInv
  <2>2. /\ gc' \in Scans /\ (storage' = None => gc' = Ambient!NoGc) /\ (storage' # None => gc'.pass # 0)
        /\ stt' \in Chunks \cup {None}
    BY <1>1 DEF WavInv, CallInv
  <2>3. storage' = IF "returned" \in Locked THEN c ELSE IF storage = c THEN None ELSE storage
    BY <1>1, <1>2, <1>3
  <2> QED
    BY <1>1, <1>2, <2>1, <2>2, <2>3, CallMoves
<1>5. (\A x \in Chunks : Stays(x)) /\ Flight' = Flight
  <2>1. "returned" \notin {"write", "register"}
    OBVIOUS
  <2> QED
    BY <1>1, <1>2, <2>1, OneGoes
<1>6. StageInv'
  <2>1. CASE ref' = [ref EXCEPT ![c] = "file"]
    <3>1. ref' \in [Chunks -> {"none", "file", "cleared"}]
      BY <2>1 DEF WavInv, StageInv
    <3>2. ASSUME NEW x \in Chunks
          PROVE  ref'[x] = (IF x = c THEN "file" ELSE ref[x]) /\ chunk'[x] = IF x = c THEN "returned" ELSE chunk[x]
      BY <1>1, <2>1 DEF WavInv, StageInv, CallInv
    <3>3. c \in files \cup overtaken
      BY <1>2 DEF WavInv, StageInv
    <3> QED
      BY <1>1, <1>2, <3>1, <3>2, <3>3 DEF WavInv, StageInv
  <2>2. CASE UNCHANGED ref
    BY <1>1, <1>5, <2>2, StageKeeps
  <2> QED
    BY <1>1, <2>1, <2>2
<1>7. LedgerInv'
  BY <1>1, <1>5, FaultCounts, LedgerKeeps
<1> QED
  BY <1>1, <1>4, <1>6, <1>7 DEF WavInv, WavsInv

\* Uploads and starts write the ledger from the uploads alone.
LEMMA UploadKeeps ==
    ASSUME WavInv, Ambient!Upload
    PROVE  WavInv'
<1>1. /\ ledger' = uploads' /\ rewritten' = TRUE /\ uploads' \in 0 .. MaxUploads
      /\ UNCHANGED <<wavs, files, ref, overtaken, leaked, storage, gc, chunk, stt, wavFaults>>
  <2>1. uploads \in 0 .. MaxUploads
    BY DEF WavInv, LedgerInv
  <2> QED
    BY <2>1, FileBounds DEF Ambient!Upload
<1>2. CallInv' /\ WavsInv' /\ StageInv'
  BY <1>1 DEF WavInv, CallInv, WavsInv, StageInv
<1>3. LedgerInv'
  <2>1. uploads' \in Nat /\ leaked \in Nat
    BY <1>1, FileBounds DEF WavInv, LedgerInv
  <2>2. Flight' = Flight
    BY <1>1 DEF Flight
  <2>3. Cardinality(files) \in Nat /\ Cardinality(Flight) \in {0, 1}
    BY CountsAreNumbers
  <2>4. Count' = Cardinality(files) + Cardinality(Flight) + uploads' + leaked
    BY <1>1, <2>2 DEF Count
  <2>5. ledger' <= Count'
    BY <1>1, <2>1, <2>3, <2>4
  <2> QED
    BY <1>1, <2>1, <2>5, FaultCounts, LedgerIs
<1> QED
  BY <1>2, <1>3 DEF WavInv

LEMMA RestartKeeps ==
    ASSUME WavInv, Ambient!Restart
    PROVE  WavInv'
<1>1. /\ Ambient!Fault
      /\ storage' = None /\ gc' = Ambient!NoGc /\ stt' = None
      /\ chunk' = [c \in Chunks |-> IF chunk[c] \in {"idle", "returned"} THEN chunk[c] ELSE "raised"]
      /\ ledger' = uploads /\ rewritten' = TRUE
      /\ UNCHANGED <<wavs, files, ref, uploads, overtaken, leaked>>
  BY DEF Ambient!Restart
<1>2. ASSUME NEW x \in Chunks
      PROVE  chunk'[x] = (IF chunk[x] \in {"idle", "returned"} THEN chunk[x] ELSE "raised")
             /\ chunk'[x] \in {"idle", "returned", "raised"} /\ chunk'[x] \in Ambient!Places
             /\ chunk'[x] \notin Locked \cup Registered
  BY <1>1 DEF Ambient!Places, Locked, Registered
<1>3. CallInv'
  <2>1. chunk' \in [Chunks -> Ambient!Places]
    BY <1>1, <1>2
  <2>2. \A x \in Chunks : chunk'[x] \notin {"release", "reserve", "write", "register"}
    BY <1>2 DEF Locked
  <2> QED
    BY <1>1, <1>2, <2>1, <2>2, PlacesAre, NoneIsNoChunk DEF CallInv
<1>4. \A x \in Chunks : Stays(x)
  <2>1. "raised" \notin Unregistered /\ "returned" \notin Unregistered /\ "idle" \in Unregistered \ {"register"}
    BY DEF Unregistered, Locked
  <2> QED
    BY <1>2, <2>1 DEF Stays
<1>5. StageInv'
  BY <1>1, <1>4, StageKeeps
<1>6. LedgerInv'
  <2>1. uploads \in 0 .. MaxUploads /\ uploads \in Nat /\ leaked \in Nat
    BY FileBounds DEF WavInv, LedgerInv
  <2>2. Flight' = {}
    BY <1>2 DEF Flight, Locked
  <2>3. Cardinality(files) \in Nat
    BY CountsAreNumbers
  <2>4. Count' = Cardinality(files) + 0 + uploads + leaked
    BY <1>1, <2>2, Sizes DEF Count
  <2>5. ledger' <= Count'
    BY <1>1, <2>1, <2>3, <2>4
  <2> QED
    BY <1>1, <2>1, <2>5, FaultCounts, LedgerIs
<1> QED
  BY <1>1, <1>3, <1>5, <1>6 DEF WavInv, WavsInv

-----------------------------------------------------------------------------
(* The theorems about AmbientCapture. *)

\* The inductive invariant holds for any number of chunks, any cap and quota, and any number of faults.
THEOREM WavInvariant == Ambient!Spec => []WavInv
<1>1. Ambient!Init => WavInv
  BY WavInit
<1>2. WavInv /\ [Ambient!Next]_wavVars => WavInv'
  <2> SUFFICES ASSUME WavInv, [Ambient!Next]_wavVars
               PROVE  WavInv'
    OBVIOUS
  <2>1. ASSUME NEW c \in Chunks, Ambient!Arrive(c) \/ Ambient!ScanFails(c) \/ Ambient!DeleteFileFails(c)
        PROVE  WavInv'
    BY <2>1, ArriveKeeps, ScanFailsKeeps, DeleteFileFailsKeeps
  <2>2. ASSUME NEW c \in Chunks, Ambient!Step(c)
        PROVE  WavInv'
    BY <2>2, LockKeeps, DeleteFileKeeps, DeleteRowsKeeps, NextPassKeeps, CollectEndsKeeps, ReserveKeeps,
       WriteKeeps, RegisterKeeps, TranscribeKeeps, StoreSegmentKeeps, ReconcileMissingKeeps DEF Ambient!Step
  <2>3. CASE Ambient!Upload \/ Ambient!Restart
    BY <2>3, UploadKeeps, RestartKeeps
  <2>4. CASE UNCHANGED wavVars
    <3>1. UNCHANGED <<wavs, files, ref, ledger, uploads, storage, gc, chunk, stt, overtaken, leaked, rewritten,
                      wavFaults>>
      BY <2>4 DEF wavVars
    <3>2. CallInv' /\ WavsInv' /\ StageInv'
      BY <3>1 DEF WavInv, CallInv, WavsInv, StageInv
    <3>3. LedgerInv'
      <4>1. Flight' = Flight
        BY <3>1 DEF Flight
      <4> QED
        BY <3>1, <4>1, FaultCounts, LedgerKeeps
    <3> QED
      BY <3>2, <3>3 DEF WavInv
  <2> QED
    BY <2>1, <2>2, <2>3, <2>4 DEF Ambient!Next
<1>3. Ambient!Spec <=> Ambient!Init /\ [][Ambient!Next]_wavVars
  BY DEF Ambient!Spec, Ambient!vars, wavVars
<1> QED
  BY <1>1, <1>2, <1>3, PTL

\* The ledger never charges more than there is, and exactly that until it is rewritten; the files stay
\* within their cap; and a transcript row that names a file knows it as registered or overtaken.
THEOREM ChargesAreExactHolds == Ambient!Spec => []ChargesAreExact
<1>1. WavInv => ChargesAreExact
  <2> SUFFICES ASSUME WavInv
               PROVE  ChargesAreExact
    OBVIOUS
  <2>1. Ambient!LedgerIsExact
    BY DEF WavInv, LedgerInv
  <2>2. Ambient!CapHolds
    BY DEF WavInv, WavsInv, Ambient!CapHolds
  <2>3. Ambient!RefIsRepairable
    BY DEF WavInv, StageInv, Ambient!RefIsRepairable
  <2> QED
    BY <2>1, <2>2, <2>3 DEF ChargesAreExact
<1> QED
  BY <1>1, WavInvariant, PTL

=============================================================================
