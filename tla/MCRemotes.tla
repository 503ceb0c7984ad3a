----------------------------- MODULE MCRemotes -----------------------------
(***************************************************************************)
(* What the backend agrees on with others, in one run: the end of an agent *)
(* task with its runner, and the data of the devices with the hub.  A      *)
(* behaviour is one part; the variables of the other parts keep their      *)
(* initial values.                                                         *)
(***************************************************************************)
EXTENDS AgentTask, TLC

CONSTANTS p1, p2,           \* interchangeable: contexts of processes
          a, b,             \* devices
          minutes, memory,  \* rows with global ids
          Hub, None

VARIABLES
    part,
    hub, access, node, cycle, stream, raced, written, syncFaults

syncVars == <<hub, access, node, cycle, stream, raced, written, syncFaults>>
allVars == <<part, vars, syncVars>>

\* Two devices with authors whose rows collide, one author and a device that listens on its
\* socket, and one author of minutes and memories.
Writers == INSTANCE HubSync WITH
    Devices <- {a, b}, First <- a, Listeners <- {}, Authors <- {a, b}, DocAuthors <- {},
    Docs <- {memory}, Memories <- {memory}, MaxRow <- 2, ReconcileLimit <- 2,
    BatchLimit <- 1, MaxAttempts <- 2, StreamPage <- 1, MaxWrites <- 2, MaxVersion <- 1,
    MaxFaults <- 1, faults <- syncFaults
Listener == INSTANCE HubSync WITH
    Devices <- {a, b}, First <- a, Listeners <- {b}, Authors <- {a}, DocAuthors <- {a},
    Docs <- {memory}, Memories <- {memory}, MaxRow <- 2, ReconcileLimit <- 2,
    BatchLimit <- 1, MaxAttempts <- 2, StreamPage <- 1, MaxWrites <- 2, MaxVersion <- 1,
    MaxFaults <- 1, faults <- syncFaults
Documents == INSTANCE HubSync WITH
    Devices <- {a, b}, First <- a, Listeners <- {}, Authors <- {}, DocAuthors <- {a},
    Docs <- {minutes, memory}, Memories <- {memory}, MaxRow <- 2, ReconcileLimit <- 2,
    BatchLimit <- 1, MaxAttempts <- 2, StreamPage <- 1, MaxWrites <- 2, MaxVersion <- 1,
    MaxFaults <- 1, faults <- syncFaults

Parts == {"agent", "writers", "listener", "documents"}

\* The variables of a part that does not move.
NoSync == /\ hub = None /\ access = None /\ node = None /\ cycle = None /\ stream = None
          /\ raced = None /\ written = None /\ syncFaults = None

SuiteInit ==
    /\ part \in Parts
    /\ Init
    /\ CASE part = "writers" -> Writers!Init
         [] part = "listener" -> Listener!Init
         [] part = "documents" -> Documents!Init
         [] OTHER -> NoSync

SuiteNext ==
    \/ part = "agent" /\ Next /\ UNCHANGED <<part, syncVars>>
    \/ part = "writers" /\ Writers!Next /\ UNCHANGED <<part, vars>>
    \/ part = "listener" /\ Listener!Next /\ UNCHANGED <<part, vars>>
    \/ part = "documents" /\ Documents!Next /\ UNCHANGED <<part, vars>>

SuiteSpec == SuiteInit /\ [][SuiteNext]_allVars

\* Within a part the values p1 and p2 mean the same kind of thing; no part tells them apart.
Symmetry == Permutations({p1, p2})

-----------------------------------------------------------------------------
(* Properties. *)

\* Every part keeps its types.
SuiteTypeOK ==
    CASE part = "agent" -> TypeOK
      [] part = "writers" -> Writers!TypeOK
      [] part = "listener" -> Listener!TypeOK
      [] part = "documents" -> Documents!TypeOK

\* However answers are lost and devices restart, an operation of a device takes effect once and as
\* the device was told, nothing comes back as new, a device misses only a change that was
\* committed within its read, and what it knows never goes back (HubSync).
SyncIsFaithful ==
    /\ [](/\ part = "writers" => Writers!SyncIsFaithful
          /\ part = "listener" => Listener!SyncIsFaithful
          /\ part = "documents" => Documents!SyncIsFaithful)
    /\ [][/\ part = "writers" => Writers!NothingGoesBack
          /\ part = "listener" => Listener!NothingGoesBack
          /\ part = "documents" => Documents!NothingGoesBack]_syncVars

=============================================================================
