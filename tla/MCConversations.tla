-------------------------- MODULE MCConversations --------------------------
(***************************************************************************)
(* What a conversation becomes, in one run: the meetings, their minutes    *)
(* and the memory.  A behaviour is one part; the variables of the other    *)
(* parts keep their initial values.                                        *)
(***************************************************************************)
EXTENDS MeetingLifecycle, TLC

CONSTANTS m1, m2,      \* interchangeable within a part
          r1, s1, k1,  \* a run, a process, a key
          g1, g2,      \* segments
          e1, e2, q1, t1, t2  \* memory: edits, a recall, contents

VARIABLES
    part,
    rows, procs, tasks, ends, given, calls, spoilt, pairFaults,
    meeting, runs, req, clears, minFaults,
    nodes, rel, extraction, runRow, edit, recall, wanted, raced, astray, deletes, memFaults

pairVars == <<rows, procs, tasks, ends, given, calls, spoilt, pairFaults>>
minVars == <<meeting, runs, req, clears, minFaults>>
memVars == <<nodes, rel, extraction, runRow, edit, recall, wanted, raced, astray, deletes, memFaults>>
allVars == <<part, vars, pairVars, minVars, memVars>>

\* Requests of one process are the constants of the run;
AllAtHome == [t \in Tasks |-> s1]

\* here two processes share the database.
Across == INSTANCE MeetingLifecycle WITH
    Procs <- {m1, m2}, Home <- [t \in {m1, m2} |-> t], MaxRequests <- 2,
    row <- rows, proc <- procs, task <- tasks, finals <- ends, made <- given, asked <- calls,
    failed <- spoilt, faults <- pairFaults
Minutes == INSTANCE MinutesGeneration WITH
    Requests <- {m1, m2}, MaxClears <- 2, MaxFaults <- 2, faults <- minFaults
\* Extractions alone, and extractions beside an edit, a deletion and a recall.
Learn == INSTANCE MemoryStore WITH
    Runs <- {m1, m2}, Edits <- {}, Recalls <- {}, Texts <- {t1, t2}, Keys <- {k1, g1}, MaxCands <- 2,
    MaxNodes <- 3, MaxDeletes <- 1, MaxFaults <- 0,
    run <- extraction, row <- runRow, faults <- memFaults
Share == INSTANCE MemoryStore WITH
    Runs <- {r1}, Edits <- {e1, e2}, Recalls <- {q1}, Texts <- {m1, m2}, Keys <- {k1, g1},
    MaxCands <- 2, MaxNodes <- 2, MaxDeletes <- 1, MaxFaults <- 1,
    run <- extraction, row <- runRow, faults <- memFaults
Parts == {"within", "across", "minutes", "learn", "share"}

\* The variables of a part that does not move.
NoPair == /\ rows = None /\ procs = None /\ tasks = None /\ ends = None /\ given = None
          /\ calls = None /\ spoilt = None /\ pairFaults = None
NoMin == meeting = None /\ runs = None /\ req = None /\ clears = None /\ minFaults = None
NoMem == /\ nodes = None /\ rel = None /\ extraction = None /\ runRow = None /\ edit = None
         /\ recall = None /\ wanted = None /\ raced = None /\ astray = None /\ deletes = None
         /\ memFaults = None

SuiteInit ==
    /\ part \in Parts
    /\ Init
    /\ IF part = "across" THEN Across!Init ELSE NoPair
    /\ IF part = "minutes" THEN Minutes!Init ELSE NoMin
    /\ CASE part = "learn" -> Learn!Init [] part = "share" -> Share!Init [] OTHER -> NoMem

SuiteNext ==
    \/ part = "within" /\ Next /\ UNCHANGED <<part, pairVars, minVars, memVars>>
    \/ part = "across" /\ Across!Next /\ UNCHANGED <<part, vars, minVars, memVars>>
    \/ part = "minutes" /\ Minutes!Next /\ UNCHANGED <<part, vars, pairVars, memVars>>
    \/ part = "learn" /\ Learn!Next /\ UNCHANGED <<part, vars, pairVars, minVars>>
    \/ part = "share" /\ Share!Next /\ UNCHANGED <<part, vars, pairVars, minVars>>

SuiteSpec == SuiteInit /\ [][SuiteNext]_allVars

\* Within a part the values m1 and m2 mean the same kind of thing; no part tells them apart.
Symmetry == Permutations({m1, m2})

-----------------------------------------------------------------------------
(* Properties. *)

\* Every part keeps its types.
SuiteTypeOK ==
    CASE part = "within" -> TypeOK
      [] part = "across" -> Across!TypeOK
      [] part = "minutes" -> Minutes!TypeOK
      [] part = "learn" -> Learn!TypeOK
      [] part = "share" -> Share!TypeOK

\* Minutes that are being made have a run that will end them, a cleared meeting has minutes only
\* when they were asked for again, and a request is answered with what the database holds
\* (MinutesGeneration).  They are of whole meetings too when two processes share the database.
MinutesAreCurrent ==
    /\ part = "minutes" =>
        Minutes!NoOrphanGeneration /\ Minutes!ClearIsRespected /\ Minutes!AnswersAreCurrent
    /\ part = "across" => Across!MeetingsAreWhole

\* Extractions, edits, deletions and recalls that interleave leave a memory graph in which a
\* deleted memory has no relation, every source counts once, a replaced memory leads to its
\* successor, the user's words stand, and a recall returns nothing that was replaced or deleted
\* before it began (MemoryStore).
MemoryIsSound ==
    /\ part = "learn" => /\ Learn!DeletedIsCut /\ Learn!SourcesAreCounted /\ Learn!ReplacedLeadsOn
                         /\ Learn!TextIsTheUsers /\ Learn!RecallIsFresh
    /\ part = "share" => /\ Share!DeletedIsCut /\ Share!SourcesAreCounted /\ Share!ReplacedLeadsOn
                         /\ Share!TextIsTheUsers /\ Share!RecallIsFresh

=============================================================================
