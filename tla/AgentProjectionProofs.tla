----------------------- MODULE AgentProjectionProofs -----------------------
(***************************************************************************)
(* The projection of agent events is exact, whatever the numbers of        *)
(* contexts, events, artifacts and faults.                                 *)
(*                                                                         *)
(* Three facts carry the proof.  What a flow has behind it is written in   *)
(* its event (Fits), so repeating it changes nothing.  A flow that still   *)
(* owns the projection finds the event unprojected and the artifact it     *)
(* fetches not imported for it (Fenced), so a file it removes belongs to   *)
(* nobody who is done.  And the holder of the task's lease has every       *)
(* unprojected list of artifacts before it (BridgeInv), so a list is       *)
(* recorded only when all earlier ones are in the output (ListOrder).      *)
(***************************************************************************)
EXTENDS AgentProjection, SequenceTheorems, TLAPS

Listed(e) == e.kind = "artifacts" /\ e.items # {}
Settles(e, i) == e.imported[i] = 1 \/ i \in e.failed

\* What holds of an event by itself.
Sound(e) ==
    /\ e.noted <= 1 /\ e.merged <= 1
    /\ e.told = IF e.projected /\ e.kind # "ignored" THEN 1 ELSE 0
    /\ \A i \in Items : e.imported[i] <= 1 /\ e.ready[i] = e.imported[i]
    /\ e.projected => e.noted = 1
    /\ e.projected /\ Listed(e) => e.merged = 1 /\ \A i \in e.items : Settles(e, i)

SoundInv == \A s \in DOMAIN events : Sound(events[s])

\* The task and its run end together, with an event that says so, and before an end is projected.
EndInv ==
    /\ run.state \in TerminalStates \/ task.state \in TerminalStates => run.state = task.state
    /\ run.state \in TerminalStates <=> \E s \in DOMAIN events : events[s].kind = "ending"
    /\ \A s \in DOMAIN events :
          events[s].projected /\ events[s].kind # "ignored" /\ events[s].state \in TerminalStates
          => run.state = events[s].state

\* A list of artifacts is recorded only when the earlier ones are in the output.
ListOrder ==
    \A t \in DOMAIN events : Lists(t) =>
        \A s \in 1..(t - 1) : Listed(events[s]) => events[s].merged = 1

\* A registered artifact without its file is one that an event failed to register again, or
\* has not dealt with yet, or one that was removed under a term that had ended.
FileInv ==
    /\ \A s \in DOMAIN events, i \in Items : events[s].imported[i] > 0 => i \in registered
    /\ \A i \in registered \ (files \cup overrun) :
          \E s \in DOMAIN events :
             /\ events[s].kind = "artifacts" /\ i \in events[s].items
             /\ i \in events[s].failed \/ (~events[s].projected /\ events[s].imported[i] = 0)

DataInv == TypeOK /\ SoundInv /\ EndInv /\ OutputIsLatest /\ ListOrder /\ FileInv

\* What a flow has behind it is in its event e.
Importing == {"importing", "fetching", "fetched", "spoiled", "removing", "failing"}
Fits(f, e) ==
    /\ f.pc \in Importing =>
          /\ e.noted = 1 /\ Listed(e)
          /\ f.todo \subseteq e.items /\ f.item \subseteq f.todo
          /\ \A i \in e.items \ f.todo : Settles(e, i)
    /\ f.pc = "marking" =>
          /\ e.noted = 1
          /\ Listed(e) => e.merged = 1 /\ \A i \in e.items : Settles(e, i)

\* What holds of the event while the flow owns its projection.
Fenced(f, e) ==
    /\ ~e.projected
    /\ f.pc \in {"fetching", "fetched", "spoiled", "removing"} => \A i \in f.item : e.imported[i] = 0

Working(f) == f.mode # "none" /\ f.pc # "ready"

\* A flow f of p, against the events and the leases.
FlowFits(p, f, es, le) ==
    /\ f.queue \subseteq DOMAIN es
    /\ f.mode = "none" \/ f.pc \notin {"fetching", "fetched", "spoiled", "removing", "failing"} => f.item = {}
    /\ Working(f) =>
          /\ f.seq \in DOMAIN es
          /\ Fits(f, es[f.seq])
          /\ f.pc # "recorded" /\ le[f.seq] = p => Fenced(f, es[f.seq])

FlowInv == \A p \in Contexts : FlowFits(p, flow[p], events, lease)

\* The holder of the task's lease has all unprojected lists before it.
Ahead(f, es) ==
    f.mode \in {"replay", "stream"} =>
        /\ f.mode = "stream" => f.queue = {}
        /\ \A s \in DOMAIN es : es[s].kind = "artifacts" /\ ~es[s].projected =>
              s \in f.queue \/ (s = f.seq /\ f.pc # "ready")

BridgeInv == \A p \in Contexts : bridge = p => Ahead(flow[p], events)

IInv == DataInv /\ FlowInv /\ BridgeInv

\* Whoever is about to remove a file owns the projection, or lost it since it looked.
RemovalInv ==
    \A p \in Contexts :
        At(p, "removing") => Owned(p) \/ flow[p].item \subseteq overrun


-----------------------------------------------------------------------------
(* Events. *)

\* d is the event e with more effects.
Grown(e, d) ==
    /\ d.kind = e.kind /\ d.state = e.state /\ d.items = e.items
    /\ e.noted = 1 => d.noted = 1
    /\ e.merged = 1 => d.merged = 1
    /\ \A i \in Items : e.imported[i] = 1 => d.imported[i] = 1
    /\ e.failed \subseteq d.failed
    /\ e.projected => d.projected

\* The fields of an event have their types.
LEMMA EventFields ==
    ASSUME NEW e \in Events
    PROVE  /\ e.kind \in Kinds /\ e.state \in AgentStates /\ e.items \subseteq Items
           /\ e.projected \in BOOLEAN /\ e.noted \in Nat /\ e.imported \in [Items -> Nat]
           /\ e.ready \in [Items -> Nat] /\ e.failed \subseteq Items
           /\ e.merged \in Nat /\ e.told \in Nat
  BY DEF Events

\* The fields of a flow have their types.
LEMMA FlowFields ==
    ASSUME TypeOK, NEW p \in Contexts
    PROVE  /\ flow[p].mode \in Modes /\ flow[p].pc \in Pcs /\ flow[p].seq \in Nat
           /\ flow[p].queue \subseteq Nat /\ flow[p].todo \subseteq Items
           /\ flow[p].item \subseteq Items
  <1>1. flow[p] \in Flows
    BY DEF TypeOK
  <1> QED
    BY <1>1 DEF Flows

\* Events are numbered from one.
LEMMA EventRows ==
    ASSUME TypeOK
    PROVE  /\ DOMAIN events = 1..Len(events) /\ Len(events) \in Nat
           /\ \A s \in DOMAIN events : s \in Rows /\ events[s] \in Events
  <1>1. events \in Seq(Events) /\ Len(events) <= MaxEvents
    BY DEF TypeOK
  <1>2. DOMAIN events = 1..Len(events) /\ Len(events) \in Nat
    BY <1>1
  <1>3. \A s \in 1..Len(events) : events[s] \in Events
    BY <1>1
  <1>4. MaxEvents \in Nat
    BY ProjectionAssumption
  <1> QED
    BY <1>1, <1>2, <1>3, <1>4 DEF Rows

\* An event is replaced, the others stay.
LEMMA EventReplaced ==
    ASSUME TypeOK, NEW s \in DOMAIN events, NEW d \in Events, events' = [events EXCEPT ![s] = d]
    PROVE  /\ events' \in Seq(Events) /\ Len(events') = Len(events)
           /\ DOMAIN events' = DOMAIN events
           /\ events'[s] = d
           /\ \A t \in DOMAIN events : t # s => events'[t] = events[t]
  <1>1. events \in Seq(Events)
    BY DEF TypeOK
  <1>2. events' \in Seq(Events) /\ Len(events') = Len(events)
    BY <1>1
  <1> QED
    BY <1>1, <1>2

\* An event is appended, the others stay.
LEMMA EventAppended ==
    ASSUME TypeOK, NEW d \in Events, events' = Append(events, d)
    PROVE  /\ events' \in Seq(Events) /\ Len(events') = Len(events) + 1
           /\ DOMAIN events' = DOMAIN events \cup {Len(events) + 1}
           /\ Len(events) + 1 \notin DOMAIN events
           /\ events'[Len(events) + 1] = d
           /\ \A t \in DOMAIN events : events'[t] = events[t]
  <1>1. events \in Seq(Events)
    BY DEF TypeOK
  <1>2. /\ events' \in Seq(Events) /\ Len(events') = Len(events) + 1
        /\ \A t \in 1..Len(events) : events'[t] = events[t]
        /\ events'[Len(events) + 1] = d
    BY <1>1, AppendProperties
  <1>3. DOMAIN events = 1..Len(events) /\ DOMAIN events' = 1..Len(events') /\ Len(events) \in Nat
    BY <1>1, <1>2
  <1> QED
    BY <1>2, <1>3

\* A delivery key is written once.
LEMMA OnceFact ==
    ASSUME NEW n \in Nat
    PROVE  /\ Once(n) \in Nat /\ (n <= 1 => Once(n) = 1) /\ (n = 1 => Once(n) = 1)
  BY DEF Once

\* The workflow event is written.
LEMMA NotedFacts ==
    ASSUME NEW e \in Events, Sound(e), NEW d, d = [e EXCEPT !.noted = Once(@)]
    PROVE  /\ d \in Events /\ Sound(d) /\ Grown(e, d)
           /\ d.noted = 1 /\ d.merged = e.merged /\ d.projected = e.projected
           /\ d.imported = e.imported
  <1>1. Once(e.noted) \in Nat /\ Once(e.noted) = 1
    BY OnceFact, EventFields DEF Sound
  <1>2. /\ d.kind = e.kind /\ d.state = e.state /\ d.items = e.items /\ d.noted = 1
        /\ d.projected = e.projected /\ d.imported = e.imported /\ d.ready = e.ready
        /\ d.failed = e.failed /\ d.merged = e.merged /\ d.told = e.told
    BY <1>1 DEF Events
  <1>3. d \in Events
    BY <1>1 DEF Events
  <1>4. Sound(d)
    BY <1>2 DEF Sound, Listed, Settles
  <1> QED
    BY <1>2, <1>3, <1>4 DEF Grown

\* A failure of an artifact is written.
LEMMA FailedFacts ==
    ASSUME NEW e \in Events, Sound(e), NEW i \in Items, NEW d, d = [e EXCEPT !.failed = @ \cup {i}]
    PROVE  /\ d \in Events /\ Sound(d) /\ Grown(e, d)
           /\ i \in d.failed /\ d.merged = e.merged /\ d.projected = e.projected
           /\ d.imported = e.imported
  <1>2. /\ d.kind = e.kind /\ d.state = e.state /\ d.items = e.items /\ d.noted = e.noted
        /\ d.projected = e.projected /\ d.imported = e.imported /\ d.ready = e.ready
        /\ d.failed = e.failed \cup {i} /\ d.merged = e.merged /\ d.told = e.told
    BY DEF Events
  <1>3. d \in Events
    BY DEF Events
  <1>4. Sound(d)
    BY <1>2 DEF Sound, Listed, Settles
  <1> QED
    BY <1>2, <1>3, <1>4 DEF Grown

\* The artifacts are written into the output.
LEMMA MergedFacts ==
    ASSUME NEW e \in Events, Sound(e), NEW d, d = [e EXCEPT !.merged = Once(@)]
    PROVE  /\ d \in Events /\ Sound(d) /\ Grown(e, d)
           /\ d.merged = 1 /\ d.projected = e.projected /\ d.imported = e.imported
  <1>1. Once(e.merged) \in Nat /\ Once(e.merged) = 1
    BY OnceFact, EventFields DEF Sound
  <1>2. /\ d.kind = e.kind /\ d.state = e.state /\ d.items = e.items /\ d.noted = e.noted
        /\ d.projected = e.projected /\ d.imported = e.imported /\ d.ready = e.ready
        /\ d.failed = e.failed /\ d.merged = 1 /\ d.told = e.told
    BY <1>1 DEF Events
  <1>3. d \in Events
    BY <1>1 DEF Events
  <1>4. Sound(d)
    BY <1>2 DEF Sound, Listed, Settles
  <1> QED
    BY <1>2, <1>3, <1>4 DEF Grown

\* The event e after the import of i.
Imported(e, i) ==
    [e EXCEPT !.imported[i] = Once(@), !.ready[i] = IF e.imported[i] = 0 THEN @ + 1 ELSE @]

\* An artifact is imported, and artifact.ready handed over with its first import.
LEMMA ImportedFacts ==
    ASSUME NEW e \in Events, Sound(e), NEW i \in Items, NEW d, d = Imported(e, i)
    PROVE  /\ d \in Events /\ Sound(d) /\ Grown(e, d)
           /\ d.imported[i] = 1 /\ \A j \in Items \ {i} : d.imported[j] = e.imported[j]
           /\ d.merged = e.merged /\ d.projected = e.projected /\ d.failed = e.failed
  <1> DEFINE r == IF e.imported[i] = 0 THEN e.ready[i] + 1 ELSE e.ready[i]
  <1>1. /\ e.imported \in [Items -> Nat] /\ e.ready \in [Items -> Nat]
        /\ e.imported[i] <= 1 /\ e.ready[i] = e.imported[i]
    BY EventFields DEF Sound
  <1>2. Once(e.imported[i]) = 1
    BY <1>1, OnceFact
  <1>3. r = 1
    BY <1>1
  <1>4. d = [e EXCEPT !.imported = [e.imported EXCEPT ![i] = 1], !.ready = [e.ready EXCEPT ![i] = 1]]
    BY <1>2, <1>3 DEF Imported
  <1>5. /\ d.kind = e.kind /\ d.state = e.state /\ d.items = e.items /\ d.noted = e.noted
        /\ d.projected = e.projected /\ d.failed = e.failed /\ d.merged = e.merged
        /\ d.told = e.told
        /\ d.imported = [e.imported EXCEPT ![i] = 1] /\ d.ready = [e.ready EXCEPT ![i] = 1]
    BY <1>4 DEF Events
  <1>6. d.imported \in [Items -> Nat] /\ d.ready \in [Items -> Nat]
    BY <1>1, <1>5
  <1>7. d \in Events
    <2> DEFINE m == [e.imported EXCEPT ![i] = 1]
               w == [e.ready EXCEPT ![i] = 1]
    <2>1. m \in [Items -> Nat] /\ w \in [Items -> Nat]
      BY <1>1
    <2>2. d = [e EXCEPT !.imported = m, !.ready = w]
      BY <1>4
    <2> HIDE DEF m, w
    <2> QED
      BY <2>1, <2>2 DEF Events
  <1>8. /\ d.imported[i] = 1 /\ d.ready[i] = 1
        /\ \A j \in Items \ {i} : d.imported[j] = e.imported[j] /\ d.ready[j] = e.ready[j]
    BY <1>1, <1>5
  <1>9. \A j \in Items : d.imported[j] <= 1 /\ d.ready[j] = d.imported[j]
    BY <1>8 DEF Sound
  <1>10. \A j \in Items : e.imported[j] = 1 => d.imported[j] = 1
    BY <1>8
  <1>11. e.items \subseteq Items
    BY EventFields
  <1>12. Sound(d)
    <2>1. e.projected /\ Listed(e) => e.merged = 1 /\ \A j \in e.items : Settles(e, j)
      BY DEF Sound
    <2>2. d.projected /\ Listed(d) => d.merged = 1 /\ \A j \in d.items : Settles(d, j)
      BY <2>1, <1>5, <1>10, <1>11 DEF Listed, Settles
    <2>3. d.told = IF d.projected /\ d.kind # "ignored" THEN 1 ELSE 0
      BY <1>5 DEF Sound
    <2>4. d.noted <= 1 /\ d.merged <= 1 /\ (d.projected => d.noted = 1)
      BY <1>5 DEF Sound
    <2> QED
      BY <2>2, <2>3, <2>4, <1>9 DEF Sound
  <1> QED
    BY <1>5, <1>7, <1>8, <1>10, <1>12 DEF Grown

\* The event e when its projection is over.
Completed(e) ==
    [e EXCEPT !.projected = TRUE, !.told = IF e.kind = "ignored" THEN @ ELSE @ + 1]

\* The event is projected and the clients are told.
LEMMA ProjectedFacts ==
    ASSUME NEW e \in Events, Sound(e), ~e.projected, e.noted = 1,
           Listed(e) => e.merged = 1 /\ \A i \in e.items : Settles(e, i),
           NEW d, d = Completed(e)
    PROVE  /\ d \in Events /\ Sound(d) /\ Grown(e, d)
           /\ d.projected /\ d.merged = e.merged /\ d.imported = e.imported
           /\ d.failed = e.failed
  <1>1. e.told = 0
    BY DEF Sound
  <1> DEFINE n == IF e.kind = "ignored" THEN 0 ELSE 1
  <1>2. n \in Nat
    OBVIOUS
  <1>3. d = [[e EXCEPT !.projected = TRUE] EXCEPT !.told = n]
    BY <1>1 DEF Completed
  <1>4. /\ d.kind = e.kind /\ d.state = e.state /\ d.items = e.items /\ d.noted = e.noted
        /\ d.projected = TRUE /\ d.imported = e.imported /\ d.ready = e.ready
        /\ d.failed = e.failed /\ d.merged = e.merged /\ d.told = n
    BY <1>3 DEF Events
  <1>5. d \in Events
    BY <1>2, <1>3 DEF Events
  <1>6. Sound(d)
    BY <1>4 DEF Sound, Listed, Settles
  <1> QED
    BY <1>4, <1>5, <1>6 DEF Grown

\* What a flow has behind it stays.
LEMMA FitsStays ==
    ASSUME NEW f \in Flows, NEW e \in Events, NEW d \in Events, Grown(e, d), Fits(f, e)
    PROVE  Fits(f, d)
  <1>1. e.items \subseteq Items
    BY EventFields
  <1>2. \A i \in e.items : Settles(e, i) => Settles(d, i)
    BY <1>1 DEF Settles, Grown
  <1>3. Listed(e) <=> Listed(d)
    BY DEF Listed, Grown
  <1>4. d.items = e.items /\ (e.noted = 1 => d.noted = 1) /\ (e.merged = 1 => d.merged = 1)
    BY DEF Grown
  <1> QED
    BY <1>2, <1>3, <1>4 DEF Fits

-----------------------------------------------------------------------------
(* Flows. *)

\* p's flow goes to pc and changes nothing but what it still has to do with its event.
Steps(p, pc, todo, item) ==
    /\ flow' \in [Contexts -> Flows]
    /\ \A q \in Contexts \ {p} : flow'[q] = flow[q]
    /\ flow'[p].mode = flow[p].mode /\ flow'[p].seq = flow[p].seq
    /\ flow'[p].queue = flow[p].queue
    /\ flow'[p].pc = pc /\ flow'[p].todo = todo /\ flow'[p].item = item

\* One flow is replaced, the others stay.
LEMMA FlowReplaced ==
    ASSUME TypeOK, NEW p \in Contexts, NEW f \in Flows, flow' = [flow EXCEPT ![p] = f]
    PROVE  /\ flow' \in [Contexts -> Flows] /\ flow'[p] = f
           /\ \A q \in Contexts \ {p} : flow'[q] = flow[q]
  BY DEF TypeOK

\* A flow that changes its place, the artifacts left and the artifact at hand.
LEMMA FlowSteps ==
    ASSUME TypeOK, NEW p \in Contexts, NEW pc \in Pcs, NEW todo \in SUBSET Items,
           NEW item \in SUBSET Items,
           flow' = [flow EXCEPT ![p] = [flow[p] EXCEPT !.pc = pc, !.todo = todo, !.item = item]]
    PROVE  Steps(p, pc, todo, item)
  <1> DEFINE f == [flow[p] EXCEPT !.pc = pc, !.todo = todo, !.item = item]
  <1>1. flow[p] \in Flows
    BY DEF TypeOK
  <1>2. /\ f.mode = flow[p].mode /\ f.seq = flow[p].seq /\ f.queue = flow[p].queue
        /\ f.pc = pc /\ f.todo = todo /\ f.item = item /\ f \in Flows
    BY <1>1 DEF Flows
  <1> HIDE DEF f
  <1>3. flow' = [flow EXCEPT ![p] = f]
    BY DEF f
  <1> QED
    BY <1>2, <1>3, FlowReplaced DEF Steps

\* A flow that changes its place only.
LEMMA GotoSteps ==
    ASSUME TypeOK, NEW p \in Contexts, NEW pc \in Pcs, Goto(p, pc)
    PROVE  Steps(p, pc, flow[p].todo, flow[p].item)
  <1>1. flow[p] \in Flows /\ flow[p].todo \in SUBSET Items /\ flow[p].item \in SUBSET Items
    BY FlowFields DEF TypeOK
  <1>2. [flow[p] EXCEPT !.pc = pc]
        = [flow[p] EXCEPT !.pc = pc, !.todo = flow[p].todo, !.item = flow[p].item]
    BY <1>1 DEF Flows
  <1>3. flow' = [flow EXCEPT ![p] = [flow[p] EXCEPT !.pc = pc]]
    BY DEF Goto
  <1>4. flow' = [flow EXCEPT ![p] =
                    [flow[p] EXCEPT !.pc = pc, !.todo = flow[p].todo, !.item = flow[p].item]]
    BY <1>2, <1>3
  <1> QED
    BY <1>1, <1>4, FlowSteps

\* A flow that is done with an artifact.
LEMMA DoneSteps ==
    ASSUME TypeOK, NEW p \in Contexts, NEW i \in Items, Done(p, i)
    PROVE  Steps(p, "importing", flow[p].todo \ {i}, {})
  <1>1. flow[p].todo \in SUBSET Items /\ "importing" \in Pcs
    BY FlowFields DEF Pcs
  <1>2. flow' = [flow EXCEPT ![p] =
                    [flow[p] EXCEPT !.pc = "importing", !.todo = flow[p].todo \ {i}, !.item = {}]]
    BY DEF Done
  <1> QED
    BY <1>1, <1>2, FlowSteps

\* A flow that turns to an artifact.
LEMMA TurnSteps ==
    ASSUME TypeOK, NEW p \in Contexts, NEW pc \in Pcs, NEW i \in Items,
           flow' = [flow EXCEPT ![p].pc = pc, ![p].item = {i}]
    PROVE  Steps(p, pc, flow[p].todo, {i})
  <1>1. flow[p] \in Flows /\ flow[p].todo \in SUBSET Items
    BY FlowFields DEF TypeOK
  <1>2. [flow[p] EXCEPT !.pc = pc, !.item = {i}]
        = [flow[p] EXCEPT !.pc = pc, !.todo = flow[p].todo, !.item = {i}]
    BY <1>1 DEF Flows
  <1>3. flow' = [flow EXCEPT ![p] = [flow[p] EXCEPT !.pc = pc, !.item = {i}]]
    OBVIOUS
  <1>4. flow' = [flow EXCEPT ![p] =
                    [flow[p] EXCEPT !.pc = pc, !.todo = flow[p].todo, !.item = {i}]]
    BY <1>2, <1>3
  <1> QED
    BY <1>1, <1>4, FlowSteps

\* A flow that turns to the artifacts of its event.
LEMMA ListSteps ==
    ASSUME TypeOK, NEW p \in Contexts, NEW todo \in SUBSET Items,
           flow' = [flow EXCEPT ![p].pc = "importing", ![p].todo = todo]
    PROVE  Steps(p, "importing", todo, flow[p].item)
  <1>1. flow[p] \in Flows /\ flow[p].item \in SUBSET Items /\ "importing" \in Pcs
    BY FlowFields DEF TypeOK, Pcs
  <1>2. [flow[p] EXCEPT !.pc = "importing", !.todo = todo]
        = [flow[p] EXCEPT !.pc = "importing", !.todo = todo, !.item = flow[p].item]
    BY <1>1 DEF Flows
  <1>3. flow' = [flow EXCEPT ![p] = [flow[p] EXCEPT !.pc = "importing", !.todo = todo]]
    OBVIOUS
  <1>4. flow' = [flow EXCEPT ![p] =
                    [flow[p] EXCEPT !.pc = "importing", !.todo = todo, !.item = flow[p].item]]
    BY <1>2, <1>3
  <1> QED
    BY <1>1, <1>4, FlowSteps

\* The idle flow.
LEMMA IdleFlow ==
    Idle \in Flows /\ \A p, es, le : FlowFits(p, Idle, es, le) /\ Ahead(Idle, es)
  <1>1. Idle \in Flows
    BY DEF Idle, Flows, Modes, Pcs
  <1>2. Idle.mode = "none" /\ Idle.queue = {} /\ Idle.item = {}
    BY DEF Idle
  <1> QED
    BY <1>1, <1>2 DEF FlowFits, Ahead, Working

\* The context that takes a step leaves the flows of the others in order: their events only gain
\* effects, nobody else writes the event they own, no lease becomes theirs, and a new list is
\* recorded by the holder of the task's lease.
LEMMA OthersKeep ==
    ASSUME IInv, NEW p \in Contexts,
           flow' \in [Contexts -> Flows],
           \A s \in DOMAIN events' : events'[s] \in Events,
           \A q \in Contexts \ {p} : flow'[q] = flow[q] /\ (bridge' = q => bridge = q),
           \A q \in Contexts \ {p}, s \in DOMAIN events : lease'[s] = q => lease[s] = q,
           DOMAIN events \subseteq DOMAIN events',
           \A s \in DOMAIN events : Grown(events[s], events'[s]),
           \A s \in DOMAIN events : events'[s] = events[s] \/ lease[s] \notin Contexts \ {p},
           \A s \in DOMAIN events' \ DOMAIN events :
              bridge' \in Contexts \ {p} => events'[s].kind # "artifacts",
           FlowFits(p, flow'[p], events', lease'),
           bridge' = p => Ahead(flow'[p], events')
    PROVE  FlowInv' /\ BridgeInv'
  <1> USE DEF IInv, DataInv
  <1>1. ASSUME NEW q \in Contexts \ {p}
        PROVE  FlowFits(q, flow'[q], events', lease')
    <2>1. FlowFits(q, flow[q], events, lease) /\ flow'[q] = flow[q] /\ flow[q] \in Flows
      BY DEF FlowInv, TypeOK
    <2>2. /\ flow[q].queue \subseteq DOMAIN events'
          /\ flow[q].pc \notin {"fetching", "fetched", "spoiled", "removing", "failing"} => flow[q].item = {}
      BY <2>1 DEF FlowFits
    <2>3. ASSUME Working(flow[q])
          PROVE  /\ flow[q].seq \in DOMAIN events'
                 /\ Fits(flow[q], events'[flow[q].seq])
                 /\ flow[q].pc # "recorded" /\ lease'[flow[q].seq] = q
                    => Fenced(flow[q], events'[flow[q].seq])
      <3>1. flow[q].seq \in DOMAIN events /\ Fits(flow[q], events[flow[q].seq])
        BY <2>1, <2>3 DEF FlowFits
      <3>2. events[flow[q].seq] \in Events /\ events'[flow[q].seq] \in Events
        BY <3>1, EventRows
      <3>3. Fits(flow[q], events'[flow[q].seq])
        BY <3>1, <3>2, <2>1, FitsStays
      <3>4. ASSUME flow[q].pc # "recorded", lease'[flow[q].seq] = q
            PROVE  Fenced(flow[q], events'[flow[q].seq])
        <4>1. lease[flow[q].seq] = q
          BY <3>1, <3>4
        <4>2. events'[flow[q].seq] = events[flow[q].seq]
          BY <4>1, <3>1
        <4>3. Fenced(flow[q], events[flow[q].seq])
          BY <4>1, <3>4, <2>1, <2>3 DEF FlowFits
        <4> QED
          BY <4>2, <4>3
      <3> QED
        BY <3>1, <3>3, <3>4
    <2> QED
      BY <2>1, <2>2, <2>3 DEF FlowFits
  <1>2. ASSUME NEW q \in Contexts \ {p}, bridge' = q
        PROVE  Ahead(flow'[q], events')
    <2>1. Ahead(flow[q], events) /\ flow'[q] = flow[q]
      BY <1>2 DEF BridgeInv
    <2>2. ASSUME flow[q].mode \in {"replay", "stream"}, NEW s \in DOMAIN events',
                 events'[s].kind = "artifacts", ~events'[s].projected
          PROVE  s \in flow[q].queue \/ (s = flow[q].seq /\ flow[q].pc # "ready")
      <3>1. s \in DOMAIN events
        BY <1>2, <2>2
      <3>2. events[s].kind = "artifacts" /\ ~events[s].projected
        BY <3>1, <2>2 DEF Grown
      <3> QED
        BY <3>1, <3>2, <2>1, <2>2 DEF Ahead
    <2>3. flow[q].mode = "stream" => flow[q].queue = {}
      BY <2>1 DEF Ahead
    <2> QED
      BY <2>1, <2>2, <2>3 DEF Ahead
  <1> QED
    BY <1>1, <1>2 DEF FlowInv, BridgeInv

-----------------------------------------------------------------------------
(* A step of a flow on its event. *)

\* The event s becomes d, the others stay.
Replaced(s, d) ==
    /\ events' \in Seq(Events) /\ Len(events') = Len(events) /\ DOMAIN events' = DOMAIN events
    /\ events'[s] = d
    /\ \A t \in DOMAIN events : t # s => events'[t] = events[t]

\* An event that stays is replaced by itself.
LEMMA SameReplaced ==
    ASSUME TypeOK, NEW s \in DOMAIN events, UNCHANGED events
    PROVE  Replaced(s, events[s]) /\ Grown(events[s], events[s])
  BY DEF TypeOK, Replaced, Grown

\* A step on the event of the flow that does not end its projection.
LEMMA StepKeeps ==
    ASSUME IInv, NEW p \in Contexts, NEW pc \in Pcs \ {"ready", "recorded"}, NEW todo, NEW item,
           NEW d \in Events,
           Working(flow[p]), flow[p].pc # "recorded",
           Steps(p, pc, todo, item), UNCHANGED <<bridge, lease>>,
           Replaced(flow[p].seq, d), Grown(events[flow[p].seq], d),
           Owned(p) \/ d = events[flow[p].seq],
           pc \notin {"fetching", "fetched", "spoiled", "removing", "failing"} => item = {},
           Fits(flow'[p], d),
           Owned(p) => Fenced(flow'[p], d)
    PROVE  FlowInv' /\ BridgeInv'
  <1> USE DEF IInv, DataInv
  <1> DEFINE s == flow[p].seq
  <1>1. /\ flow' \in [Contexts -> Flows] /\ \A q \in Contexts \ {p} : flow'[q] = flow[q]
        /\ flow'[p].mode = flow[p].mode /\ flow'[p].seq = s /\ flow'[p].queue = flow[p].queue
        /\ flow'[p].pc = pc /\ flow'[p].item = item
    BY DEF Steps
  <1>2. s \in DOMAIN events /\ flow[p].queue \subseteq DOMAIN events
    BY DEF FlowInv, FlowFits
  <1>3. /\ DOMAIN events' = DOMAIN events /\ events'[s] = d
        /\ \A t \in DOMAIN events : t # s => events'[t] = events[t]
    BY DEF Replaced
  <1>4. \A t \in DOMAIN events : Grown(events[t], events'[t])
    BY <1>3 DEF Grown
  <1>5. \A t \in DOMAIN events' : events'[t] \in Events
    BY <1>2, <1>3, EventRows
  <1>6. \A t \in DOMAIN events : events'[t] = events[t] \/ lease[t] \notin Contexts \ {p}
    BY <1>3 DEF Owned
  <1>7. FlowFits(p, flow'[p], events', lease')
    BY <1>1, <1>2, <1>3 DEF FlowFits, Owned, Working
  <1>8. bridge' = p => Ahead(flow'[p], events')
    <2> SUFFICES ASSUME bridge' = p, flow'[p].mode \in {"replay", "stream"}
                 PROVE  Ahead(flow'[p], events')
      BY DEF Ahead
    <2>1. Ahead(flow[p], events)
      BY DEF BridgeInv
    <2>2. ASSUME NEW t \in DOMAIN events', events'[t].kind = "artifacts", ~events'[t].projected
          PROVE  t \in flow'[p].queue \/ (t = flow'[p].seq /\ flow'[p].pc # "ready")
      <3>1. events[t].kind = "artifacts" /\ ~events[t].projected
        BY <2>2, <1>3, <1>4 DEF Grown
      <3> QED
        BY <3>1, <2>1, <2>2, <1>1, <1>3 DEF Ahead
    <2> QED
      BY <2>1, <2>2, <1>1 DEF Ahead
  <1> HIDE DEF s
  <1> QED
    BY <1>1, <1>3, <1>4, <1>5, <1>6, <1>7, <1>8, OthersKeep

\* The events keep what they say, so the lists and the success are the same events.
LEMMA SameLists ==
    ASSUME TypeOK, DOMAIN events' = DOMAIN events, \A t \in DOMAIN events : Grown(events[t], events'[t])
    PROVE  \A t \in DOMAIN events : (Lists(t)' <=> Lists(t)) /\ (Succeeds(t)' <=> Succeeds(t))
  <1> SUFFICES ASSUME NEW t \in DOMAIN events
               PROVE  (Lists(t)' <=> Lists(t)) /\ (Succeeds(t)' <=> Succeeds(t))
    OBVIOUS
  <1>1. \A u \in 1..(t - 1) : u \in DOMAIN events
    BY EventRows
  <1>2. \A u \in DOMAIN events : /\ events'[u].kind = events[u].kind
                                 /\ events'[u].state = events[u].state
                                 /\ events'[u].items = events[u].items
    BY DEF Grown
  <1>3. Succeeds(t)' <=> Succeeds(t)
    BY <1>1, <1>2 DEF Succeeds
  <1> QED
    BY <1>2, <1>3 DEF Lists

\* An event gains effects: what holds of the events by themselves, of the ends and of the order of
\* the lists goes on to hold.
LEMMA EventKeeps ==
    ASSUME IInv, NEW s \in DOMAIN events, NEW d \in Events, Replaced(s, d),
           Grown(events[s], d), Sound(d), task' = task, run'.state = run.state,
           d.projected /\ d.kind # "ignored" /\ d.state \in TerminalStates => run.state = d.state
    PROVE  /\ SoundInv' /\ EndInv' /\ ListOrder'
           /\ \A t \in DOMAIN events : Grown(events[t], events'[t])
           /\ \A t \in DOMAIN events : (Lists(t)' <=> Lists(t)) /\ (Succeeds(t)' <=> Succeeds(t))
  <1> USE DEF IInv, DataInv
  <1>1. /\ DOMAIN events' = DOMAIN events /\ events'[s] = d
        /\ \A t \in DOMAIN events : t # s => events'[t] = events[t]
    BY DEF Replaced
  <1>2. \A t \in DOMAIN events : Grown(events[t], events'[t])
    BY <1>1 DEF Grown
  <1>3. \A t \in DOMAIN events : (Lists(t)' <=> Lists(t)) /\ (Succeeds(t)' <=> Succeeds(t))
    BY <1>1, <1>2, SameLists
  <1>4. SoundInv'
    BY <1>1 DEF SoundInv
  <1>5. EndInv'
    <2>1. \A t \in DOMAIN events : events'[t].kind = events[t].kind
      BY <1>2 DEF Grown
    <2>2. ASSUME NEW t \in DOMAIN events, events'[t].projected, events'[t].kind # "ignored",
                 events'[t].state \in TerminalStates
          PROVE  run.state = events'[t].state
      BY <1>1, <2>2 DEF EndInv
    <2>3. run.state \in TerminalStates \/ task.state \in TerminalStates => run.state = task.state
      BY DEF EndInv
    <2>4. run.state \in TerminalStates <=> \E t \in DOMAIN events : events[t].kind = "ending"
      BY DEF EndInv
    <2> QED
      BY <1>1, <2>1, <2>2, <2>3, <2>4 DEF EndInv
  <1>6. ListOrder'
    <2> SUFFICES ASSUME NEW t \in DOMAIN events, Lists(t), NEW u \in 1..(t - 1), Listed(events'[u])
                 PROVE  events'[u].merged = 1
      BY <1>1, <1>3 DEF ListOrder
    <2>1. u \in DOMAIN events
      BY EventRows
    <2>2. Listed(events[u])
      BY <2>1, <1>2 DEF Listed, Grown
    <2> QED
      BY <2>1, <2>2, <1>2 DEF ListOrder, Grown
  <1> QED
    BY <1>2, <1>3, <1>4, <1>5, <1>6

\* An event gains effects and the output of the run stays.
LEMMA OutputKeeps ==
    ASSUME IInv, NEW s \in DOMAIN events, NEW d, Replaced(s, d), d.merged = events[s].merged,
           d.items = events[s].items, run'.items = run.items,
           \A t \in DOMAIN events : (Lists(t)' <=> Lists(t)) /\ (Succeeds(t)' <=> Succeeds(t))
    PROVE  OutputIsLatest'
  <1> USE DEF IInv, DataInv
  <1>1. DOMAIN events' = DOMAIN events /\ Len(events') = Len(events)
    BY DEF Replaced
  <1>2. \A t \in DOMAIN events : events'[t].merged = events[t].merged /\ events'[t].items = events[t].items
    BY DEF Replaced
  <1> SUFFICES ASSUME NEW t \in DOMAIN events, Lists(t), Succeeds(t) \/ events[t].merged > 0,
                      \A u \in (t + 1)..Len(events) : ~Lists(u)'
               PROVE  run.items = events[t].items
    BY <1>1, <1>2 DEF OutputIsLatest
  <1>3. \A u \in (t + 1)..Len(events) : ~Lists(u)
    BY EventRows
  <1> QED
    BY <1>3 DEF OutputIsLatest

\* Files are added only, and so are the effects on an event that is not projected by it.
LEMMA FileKeeps ==
    ASSUME IInv, NEW s \in DOMAIN events, NEW d \in Events, Replaced(s, d), Grown(events[s], d),
           d.imported = events[s].imported, d.projected = events[s].projected,
           registered' = registered, overrun' = overrun, files \subseteq files'
    PROVE  FileInv'
  <1> USE DEF IInv, DataInv
  <1>1. /\ DOMAIN events' = DOMAIN events
        /\ \A t \in DOMAIN events : /\ events'[t].imported = events[t].imported
                                    /\ events'[t].projected = events[t].projected
                                    /\ events'[t].kind = events[t].kind
                                    /\ events'[t].items = events[t].items
                                    /\ events[t].failed \subseteq events'[t].failed
    BY DEF Replaced, Grown
  <1>2. \A t \in DOMAIN events, i \in Items : events'[t].imported[i] > 0 => i \in registered
    BY <1>1 DEF FileInv
  <1>3. ASSUME NEW i \in registered \ (files' \cup overrun')
        PROVE  \E t \in DOMAIN events :
                  /\ events'[t].kind = "artifacts" /\ i \in events'[t].items
                  /\ i \in events'[t].failed \/ (~events'[t].projected /\ events'[t].imported[i] = 0)
    <2>1. PICK t \in DOMAIN events :
             /\ events[t].kind = "artifacts" /\ i \in events[t].items
             /\ i \in events[t].failed \/ (~events[t].projected /\ events[t].imported[i] = 0)
      BY <1>3 DEF FileInv
    <2> QED
      BY <1>1, <2>1
  <1> QED
    BY <1>1, <1>2, <1>3 DEF FileInv

-----------------------------------------------------------------------------
(* Every step keeps the invariant. *)

\* What is known of a flow that is at its event.
LEMMA AtFacts ==
    ASSUME IInv, NEW p \in Contexts, NEW pc, At(p, pc), pc # "ready"
    PROVE  /\ Working(flow[p]) /\ flow[p].pc = pc
           /\ flow[p].seq \in DOMAIN events /\ flow[p].seq \in Rows
           /\ Event(p) = events[flow[p].seq] /\ Event(p) \in Events /\ Sound(Event(p))
           /\ Fits(flow[p], Event(p))
           /\ pc # "recorded" /\ Owned(p) => Fenced(flow[p], Event(p))
           /\ pc \notin {"fetching", "fetched", "spoiled", "removing", "failing"} => flow[p].item = {}
  <1>1. Working(flow[p]) /\ flow[p].pc = pc
    BY DEF At, Working
  <1>2. FlowFits(p, flow[p], events, lease)
    BY DEF IInv, FlowInv
  <1>3. /\ flow[p].seq \in DOMAIN events /\ Fits(flow[p], events[flow[p].seq])
        /\ pc # "recorded" /\ Owned(p) => Fenced(flow[p], events[flow[p].seq])
        /\ pc \notin {"fetching", "fetched", "spoiled", "removing", "failing"} => flow[p].item = {}
    BY <1>1, <1>2 DEF FlowFits, Owned
  <1>4. flow[p].seq \in Rows /\ events[flow[p].seq] \in Events
    BY <1>3, EventRows DEF IInv, DataInv
  <1>5. Sound(events[flow[p].seq])
    BY <1>3 DEF IInv, DataInv, SoundInv
  <1> QED
    BY <1>1, <1>3, <1>4, <1>5 DEF Event

\* A step that leaves the events, the task and the run alone and takes no file away.
LEMMA DataSame ==
    ASSUME DataInv, TypeOK', UNCHANGED <<task, run, events, registered>>, files \subseteq files',
           overrun \subseteq overrun'
    PROVE  DataInv'
  <1>1. SoundInv' /\ EndInv'
    BY DEF DataInv, SoundInv, EndInv
  <1>2. OutputIsLatest' /\ ListOrder'
    BY DEF DataInv, OutputIsLatest, ListOrder, Lists, Succeeds
  <1>3. FileInv'
    BY DEF DataInv, FileInv
  <1> QED
    BY <1>1, <1>2, <1>3 DEF DataInv

\* A fault is counted.
LEMMA FaultType ==
    ASSUME TypeOK, Fault \/ UNCHANGED faults
    PROVE  faults' \in Nat
  BY DEF TypeOK, Fault

\* A step on the event of the flow that changes no effect.
LEMMA QuietStep ==
    ASSUME IInv, NEW p \in Contexts, NEW pc \in Pcs \ {"ready", "recorded"}, NEW todo, NEW item,
           Working(flow[p]), flow[p].pc # "recorded", Steps(p, pc, todo, item),
           UNCHANGED <<task, run, events, registered, bridge, lease, overrun>>,
           files' \in SUBSET Items, files \subseteq files', Fault \/ UNCHANGED faults,
           pc \notin {"fetching", "fetched", "spoiled", "removing", "failing"} => item = {},
           Fits(flow'[p], Event(p)), Owned(p) => Fenced(flow'[p], Event(p))
    PROVE  IInv'
  <1>1. TypeOK'
    BY FaultType DEF IInv, DataInv, TypeOK, Steps
  <1>2. DataInv'
    BY <1>1, DataSame DEF IInv
  <1>3. flow[p].seq \in DOMAIN events /\ events[flow[p].seq] \in Events
    BY EventRows DEF IInv, DataInv, FlowInv, FlowFits
  <1>4. /\ Replaced(flow[p].seq, events[flow[p].seq])
        /\ Grown(events[flow[p].seq], events[flow[p].seq])
    BY <1>3, SameReplaced DEF IInv, DataInv
  <1>5. FlowInv' /\ BridgeInv'
    BY <1>3, <1>4, StepKeeps DEF Event
  <1> QED
    BY <1>2, <1>5 DEF IInv

\* The run is read.
LEMMA SeePendingKeeps ==
    ASSUME IInv, NEW p \in Contexts, SeePending(p)
    PROVE  IInv'
  <1>1. At(p, "claimed") /\ Goto(p, "starting")
    BY DEF SeePending
  <1>2. Steps(p, "starting", flow[p].todo, flow[p].item)
    BY <1>1, GotoSteps DEF Pcs, IInv, DataInv
  <1>3. /\ flow'[p].pc = "starting" /\ flow[p].item = {} /\ Working(flow[p])
        /\ flow[p].pc = "claimed" /\ (Owned(p) => Fenced(flow[p], Event(p)))
    BY <1>1, <1>2, AtFacts DEF Steps
  <1>4. Fits(flow'[p], Event(p)) /\ (Owned(p) => Fenced(flow'[p], Event(p)))
    BY <1>3 DEF Fits, Fenced, Importing
  <1>5. /\ UNCHANGED <<task, run, events, registered, bridge, lease, overrun>> /\ UNCHANGED faults
        /\ files' \in SUBSET Items /\ files \subseteq files'
    BY DEF SeePending, IInv, DataInv, TypeOK
  <1>6. "starting" \in Pcs \ {"ready", "recorded"}
    BY DEF Pcs
  <1> QED
    BY <1>2, <1>3, <1>4, <1>5, <1>6, QuietStep

\* A path is rejected.
LEMMA RejectKeeps ==
    ASSUME IInv, NEW p \in Contexts, Reject(p)
    PROVE  IInv'
  <1>1. PICK i \in flow[p].todo : flow' = [flow EXCEPT ![p].pc = "failing", ![p].item = {i}]
    BY DEF Reject
  <1>2. At(p, "importing") /\ i \in Items /\ "failing" \in Pcs \ {"ready", "recorded"}
    BY <1>1, FlowFields DEF Reject, IInv, DataInv, Pcs
  <1>3. Steps(p, "failing", flow[p].todo, {i})
    BY <1>1, <1>2, TurnSteps DEF IInv, DataInv
  <1>4. /\ flow'[p].pc = "failing" /\ flow'[p].todo = flow[p].todo /\ flow'[p].item = {i}
        /\ Working(flow[p]) /\ flow[p].pc = "importing" /\ Fits(flow[p], Event(p))
        /\ (Owned(p) => Fenced(flow[p], Event(p)))
    BY <1>2, <1>3, AtFacts DEF Steps
  <1>5. Fits(flow'[p], Event(p)) /\ (Owned(p) => Fenced(flow'[p], Event(p)))
    BY <1>1, <1>4 DEF Fits, Fenced, Importing
  <1>6. /\ UNCHANGED <<task, run, events, registered, bridge, lease, overrun>> /\ UNCHANGED faults
        /\ files' \in SUBSET Items /\ files \subseteq files'
    BY DEF Reject, IInv, DataInv, TypeOK
  <1> QED
    BY <1>2, <1>3, <1>4, <1>5, <1>6, QuietStep

\* An artifact is fetched, or was imported before.
LEMMA FetchKeeps ==
    ASSUME IInv, NEW p \in Contexts, Fetch(p)
    PROVE  IInv'
  <1>1. PICK i \in flow[p].todo :
           IF Event(p).imported[i] > 0
           THEN Done(p, i)
           ELSE Owned(p) /\ flow' = [flow EXCEPT ![p].pc = "fetching", ![p].item = {i}]
    BY DEF Fetch
  <1>2. At(p, "importing") /\ i \in Items /\ {"fetching", "importing"} \subseteq Pcs \ {"ready", "recorded"}
    BY <1>1, FlowFields DEF Fetch, IInv, DataInv, Pcs
  <1>3. /\ Working(flow[p]) /\ flow[p].pc = "importing" /\ Fits(flow[p], Event(p))
        /\ Event(p) \in Events /\ Sound(Event(p)) /\ (Owned(p) => Fenced(flow[p], Event(p)))
    BY <1>2, AtFacts
  <1>4. Event(p).imported[i] \in Nat /\ Event(p).imported[i] <= 1
    BY <1>2, <1>3, EventFields DEF Sound
  <1>5. /\ UNCHANGED <<task, run, events, registered, bridge, lease, overrun>> /\ UNCHANGED faults
        /\ files' \in SUBSET Items /\ files \subseteq files'
    BY DEF Fetch, IInv, DataInv, TypeOK
  <1>6. CASE Event(p).imported[i] > 0
    <2>1. Steps(p, "importing", flow[p].todo \ {i}, {})
      BY <1>1, <1>2, <1>6, DoneSteps DEF IInv, DataInv
    <2>2. flow'[p].pc = "importing" /\ flow'[p].todo = flow[p].todo \ {i} /\ flow'[p].item = {}
      BY <2>1 DEF Steps
    <2>3. Settles(Event(p), i)
      BY <1>4, <1>6 DEF Settles
    <2>4. Fits(flow'[p], Event(p)) /\ (Owned(p) => Fenced(flow'[p], Event(p)))
      BY <1>3, <2>2, <2>3 DEF Fits, Fenced, Importing
    <2> QED
      BY <1>2, <1>3, <1>5, <2>1, <2>4, QuietStep
  <1>7. CASE ~(Event(p).imported[i] > 0)
    <2>1. Steps(p, "fetching", flow[p].todo, {i})
      BY <1>1, <1>2, <1>7, TurnSteps DEF IInv, DataInv
    <2>2. flow'[p].pc = "fetching" /\ flow'[p].todo = flow[p].todo /\ flow'[p].item = {i}
      BY <2>1 DEF Steps
    <2>3. Event(p).imported[i] = 0
      BY <1>4, <1>7
    <2>4. Fits(flow'[p], Event(p)) /\ (Owned(p) => Fenced(flow'[p], Event(p)))
      BY <1>1, <1>3, <2>2, <2>3 DEF Fits, Fenced, Importing
    <2> QED
      BY <1>2, <1>3, <1>5, <2>1, <2>4, QuietStep
  <1> QED
    BY <1>6, <1>7

\* A file is put in place, or its download has failed.
LEMMA DownloadKeeps ==
    ASSUME IInv, NEW p \in Contexts, Download(p)
    PROVE  IInv'
  <1>1. PICK i \in flow[p].item :
           \/ files' = files \cup {i} /\ Goto(p, "fetched") /\ UNCHANGED faults
           \/ Fault /\ Goto(p, "failing") /\ UNCHANGED files
    BY DEF Download
  <1>2. At(p, "fetching") /\ i \in Items /\ {"fetched", "failing"} \subseteq Pcs \ {"ready", "recorded"}
    BY <1>1, FlowFields DEF Download, IInv, DataInv, Pcs
  <1>3. PICK pc \in {"fetched", "failing"} : Goto(p, pc)
    BY <1>1
  <1>4. Steps(p, pc, flow[p].todo, flow[p].item)
    BY <1>2, <1>3, GotoSteps DEF IInv, DataInv
  <1>5. /\ flow'[p].pc = pc /\ flow'[p].todo = flow[p].todo /\ flow'[p].item = flow[p].item
        /\ Working(flow[p]) /\ flow[p].pc = "fetching" /\ Fits(flow[p], Event(p))
        /\ (Owned(p) => Fenced(flow[p], Event(p)))
    BY <1>2, <1>4, AtFacts DEF Steps
  <1>6. Fits(flow'[p], Event(p)) /\ (Owned(p) => Fenced(flow'[p], Event(p)))
    BY <1>3, <1>5 DEF Fits, Fenced, Importing
  <1>7. /\ UNCHANGED <<task, run, events, registered, bridge, lease, overrun>> /\ (Fault \/ UNCHANGED faults)
        /\ files' \in SUBSET Items /\ files \subseteq files'
    BY <1>1, <1>2 DEF Download, IInv, DataInv, TypeOK
  <1> QED
    BY <1>2, <1>3, <1>4, <1>5, <1>6, <1>7, QuietStep

\* A step of the owner that adds effects to its event and leaves the run alone.
LEMMA EffectStep ==
    ASSUME IInv, NEW p \in Contexts, NEW pc \in Pcs \ {"ready", "recorded"}, NEW todo, NEW item,
           NEW d \in Events, Working(flow[p]), flow[p].pc # "recorded", Owned(p),
           Steps(p, pc, todo, item), Effect(p, d), Grown(Event(p), d), Sound(d),
           d.merged = Event(p).merged, d.imported = Event(p).imported, d.projected = Event(p).projected,
           UNCHANGED <<task, run, files, registered, bridge, lease, faults, overrun>>,
           pc \notin {"fetching", "fetched", "spoiled", "removing", "failing"} => item = {},
           Fits(flow'[p], d), Fenced(flow'[p], d)
    PROVE  IInv'
  <1> DEFINE s == flow[p].seq
  <1>1. s \in DOMAIN events /\ Event(p) = events[s]
    BY DEF IInv, FlowInv, FlowFits, Event
  <1>2. Replaced(s, d)
    BY <1>1, EventReplaced DEF Effect, Replaced, IInv, DataInv
  <1>3. TypeOK'
    BY <1>2 DEF IInv, DataInv, TypeOK, Steps, Replaced
  <1>4. d.projected /\ d.kind # "ignored" /\ d.state \in TerminalStates => run.state = d.state
    BY <1>1 DEF IInv, DataInv, EndInv, Grown
  <1>5. /\ SoundInv' /\ EndInv' /\ ListOrder'
        /\ \A t \in DOMAIN events : (Lists(t)' <=> Lists(t)) /\ (Succeeds(t)' <=> Succeeds(t))
    BY <1>1, <1>2, <1>4, EventKeeps
  <1>6. d.items = events[s].items
    BY <1>1 DEF Grown
  <1>7. OutputIsLatest'
    BY <1>1, <1>2, <1>5, <1>6, OutputKeeps
  <1>8. FileInv'
    BY <1>1, <1>2, FileKeeps
  <1>9. FlowInv' /\ BridgeInv'
    BY <1>1, <1>2, StepKeeps
  <1> QED
    BY <1>3, <1>5, <1>7, <1>8, <1>9 DEF IInv, DataInv

\* The workflow event is written.
LEMMA NoteKeeps ==
    ASSUME IInv, NEW p \in Contexts, Note(p)
    PROVE  IInv'
  <1> DEFINE e == Event(p)
             d == [e EXCEPT !.noted = Once(@)]
  <1>1. At(p, "claimed") /\ Owned(p) /\ Effect(p, d)
    BY DEF Note
  <1>2. /\ Working(flow[p]) /\ flow[p].pc = "claimed" /\ e \in Events /\ Sound(e)
        /\ Fenced(flow[p], e) /\ flow[p].item = {}
    BY <1>1, AtFacts
  <1>3. /\ d \in Events /\ Sound(d) /\ Grown(e, d) /\ d.noted = 1 /\ d.merged = e.merged
        /\ d.projected = e.projected /\ d.imported = e.imported
    BY <1>2, NotedFacts
  <1>4. {"importing", "marking"} \subseteq Pcs \ {"ready", "recorded"}
    BY DEF Pcs
  <1>5. UNCHANGED <<task, run, files, registered, bridge, lease, faults, overrun>>
    BY DEF Note
  <1>6. d.kind = e.kind /\ d.items = e.items
    BY <1>3 DEF Grown
  <1>7. CASE e.kind = "artifacts" /\ e.items # {}
    <2>1. flow' = [flow EXCEPT ![p].pc = "importing", ![p].todo = e.items]
      BY <1>7 DEF Note
    <2>2. e.items \in SUBSET Items
      BY <1>2, EventFields
    <2>3. Steps(p, "importing", e.items, flow[p].item)
      BY <2>1, <2>2, ListSteps DEF IInv, DataInv
    <2>4. flow'[p].pc = "importing" /\ flow'[p].todo = e.items /\ flow'[p].item = {}
      BY <2>3, <1>2 DEF Steps
    <2> HIDE DEF d, e
    <2>5. Fits(flow'[p], d)
      BY <2>4, <1>3, <1>6, <1>7 DEF Fits, Listed, Importing
    <2>6. Fenced(flow'[p], d)
      BY <2>4, <1>2, <1>3 DEF Fenced
    <2> QED
      BY <1>1, <1>2, <1>3, <1>4, <1>5, <2>3, <2>5, <2>6, EffectStep DEF e
  <1>8. CASE ~(e.kind = "artifacts" /\ e.items # {})
    <2>1. Goto(p, "marking")
      BY <1>8 DEF Note
    <2>3. Steps(p, "marking", flow[p].todo, flow[p].item)
      BY <2>1, <1>4, GotoSteps DEF IInv, DataInv
    <2>4. flow'[p].pc = "marking" /\ flow'[p].item = {}
      BY <2>3, <1>2 DEF Steps
    <2> HIDE DEF d, e
    <2>5. Fits(flow'[p], d)
      BY <2>4, <1>3, <1>6, <1>8 DEF Fits, Listed, Importing
    <2>6. Fenced(flow'[p], d)
      BY <2>4, <1>2, <1>3 DEF Fenced
    <2> QED
      BY <1>1, <1>2, <1>3, <1>4, <1>5, <2>3, <2>5, <2>6, EffectStep DEF e
  <1> QED
    BY <1>7, <1>8

\* A failure is written.
LEMMA FailKeeps ==
    ASSUME IInv, NEW p \in Contexts, Fail(p)
    PROVE  IInv'
  <1> DEFINE e == Event(p)
  <1>1. PICK i \in flow[p].item : Effect(p, [e EXCEPT !.failed = @ \cup {i}]) /\ Done(p, i)
    BY DEF Fail
  <1> DEFINE d == [e EXCEPT !.failed = @ \cup {i}]
  <1>2. At(p, "failing") /\ Owned(p) /\ i \in Items
    BY <1>1, FlowFields DEF Fail, IInv, DataInv
  <1>3. /\ Working(flow[p]) /\ flow[p].pc = "failing" /\ e \in Events /\ Sound(e)
        /\ Fits(flow[p], e) /\ Fenced(flow[p], e)
    BY <1>2, AtFacts
  <1>4. /\ d \in Events /\ Sound(d) /\ Grown(e, d) /\ i \in d.failed /\ d.merged = e.merged
        /\ d.projected = e.projected /\ d.imported = e.imported
    BY <1>2, <1>3, FailedFacts
  <1>5. UNCHANGED <<task, run, files, registered, bridge, lease, faults, overrun>>
    BY DEF Fail
  <1>6. Steps(p, "importing", flow[p].todo \ {i}, {})
    BY <1>1, <1>2, DoneSteps DEF IInv, DataInv
  <1>7. flow'[p].pc = "importing" /\ flow'[p].todo = flow[p].todo \ {i} /\ flow'[p].item = {}
    BY <1>6 DEF Steps
  <1>8. "importing" \in Pcs \ {"ready", "recorded"}
    BY DEF Pcs
  <1>9. Effect(p, d)
    BY <1>1
  <1>10. flow[p] \in Flows
    BY DEF IInv, DataInv, TypeOK
  <1> HIDE DEF d, e
  <1>11. Fits(flow[p], d)
    BY <1>3, <1>4, <1>10, FitsStays
  <1>12. Fits(flow'[p], d)
    BY <1>3, <1>4, <1>7, <1>11 DEF Fits, Importing, Settles
  <1>13. Fenced(flow'[p], d)
    BY <1>3, <1>4, <1>7 DEF Fenced
  <1> QED
    BY <1>2, <1>3, <1>4, <1>5, <1>6, <1>8, <1>9, <1>12, <1>13, EffectStep DEF e

\* The artifacts are written into the run's output: if they are not there yet, no later event
\* has listed any.
LEMMA MergeKeeps ==
    ASSUME IInv, NEW p \in Contexts, Merge(p)
    PROVE  IInv'
  <1> DEFINE e == Event(p)
             d == [e EXCEPT !.merged = Once(@)]
             s == flow[p].seq
  <1>1. At(p, "importing") /\ flow[p].todo = {} /\ Owned(p) /\ Effect(p, d) /\ Goto(p, "marking")
    BY DEF Merge
  <1>2. /\ Working(flow[p]) /\ flow[p].pc = "importing" /\ e \in Events /\ Sound(e)
        /\ Fits(flow[p], e) /\ Fenced(flow[p], e) /\ flow[p].item = {}
        /\ s \in DOMAIN events /\ e = events[s]
    BY <1>1, AtFacts
  <1>3. /\ d \in Events /\ Sound(d) /\ Grown(e, d) /\ d.merged = 1
        /\ d.projected = e.projected /\ d.imported = e.imported
    BY <1>2, MergedFacts
  <1>4. /\ run' = [run EXCEPT !.items = IF e.merged = 0 THEN e.items ELSE @]
        /\ UNCHANGED <<task, files, registered, bridge, lease, faults, overrun>>
    BY DEF Merge
  <1>5. "marking" \in Pcs \ {"ready", "recorded"}
    BY DEF Pcs
  <1>6. Steps(p, "marking", flow[p].todo, flow[p].item)
    BY <1>1, <1>5, GotoSteps DEF IInv, DataInv
  <1>7. flow'[p].pc = "marking"
    BY <1>6 DEF Steps
  <1>8. flow[p] \in Flows /\ run \in [state : RunStates, items : SUBSET Items]
    BY DEF IInv, DataInv, TypeOK
  <1>9. e.items \subseteq Items /\ e.merged \in Nat
    BY <1>2, EventFields
  <1>10. /\ run' \in [state : RunStates, items : SUBSET Items] /\ run'.state = run.state
         /\ run'.items = IF e.merged = 0 THEN e.items ELSE run.items
    BY <1>4, <1>8, <1>9
  <1>11. Replaced(s, d)
    BY <1>1, <1>2, <1>3, EventReplaced DEF Effect, Replaced, IInv, DataInv
  <1> HIDE DEF d, e, s
  <1>12. Fits(flow'[p], d)
    <2>1. Fits(flow[p], d)
      BY <1>2, <1>3, <1>8, FitsStays
    <2> QED
      BY <1>1, <1>2, <1>3, <1>7, <2>1 DEF Fits, Importing
  <1>13. Fenced(flow'[p], d)
    BY <1>2, <1>3, <1>7 DEF Fenced
  <1>14. TypeOK'
    BY <1>4, <1>6, <1>10, <1>11 DEF IInv, DataInv, TypeOK, Steps, Replaced
  <1>15. /\ SoundInv' /\ EndInv' /\ ListOrder'
         /\ \A t \in DOMAIN events : Grown(events[t], events'[t])
         /\ \A t \in DOMAIN events : (Lists(t)' <=> Lists(t)) /\ (Succeeds(t)' <=> Succeeds(t))
    <2>1. d.projected /\ d.kind # "ignored" /\ d.state \in TerminalStates => run.state = d.state
      BY <1>2, <1>3 DEF Fenced
    <2> QED
      BY <1>2, <1>3, <1>4, <1>10, <1>11, <2>1, EventKeeps
  <1>16. OutputIsLatest'
    <2>1. CASE e.merged # 0
      <3>1. e.merged = 1
        BY <1>2, <1>9, <2>1 DEF Sound
      <3>2. d.merged = events[s].merged /\ d.items = events[s].items /\ run'.items = run.items
        BY <3>1, <1>2, <1>3, <1>10 DEF Grown
      <3> QED
        BY <3>2, <1>2, <1>11, <1>15, OutputKeeps
    <2>2. CASE e.merged = 0
      <3> SUFFICES ASSUME NEW t \in DOMAIN events, Lists(t),
                          \A u \in (t + 1)..Len(events) : ~Lists(u)
                   PROVE  run'.items = events'[t].items
        <4>1. DOMAIN events' = DOMAIN events /\ Len(events') = Len(events)
          BY <1>11 DEF Replaced
        <4>2. ASSUME NEW t \in DOMAIN events, \A u \in (t + 1)..Len(events) : ~Lists(u)'
              PROVE  \A u \in (t + 1)..Len(events) : ~Lists(u)
          <5>1. (t + 1)..Len(events) \subseteq DOMAIN events
            BY EventRows DEF IInv, DataInv
          <5> QED
            BY <4>2, <5>1, <1>15
        <4> QED
          BY <4>1, <4>2, <1>15 DEF OutputIsLatest
      <3>1. Listed(events[s])
        BY <1>2 DEF Fits, Importing
      <3>2. Lists(s)
        BY <3>1 DEF Lists, Listed
      <3>3. s \in 1..Len(events) /\ t \in 1..Len(events) /\ Len(events) \in Nat
        BY <1>2, EventRows DEF IInv, DataInv
      <3>4. s <= t
        BY <3>2, <3>3
      <3>5. s = t
        <4> SUFFICES ASSUME s # t
                     PROVE  FALSE
          OBVIOUS
        <4>1. s \in 1..(t - 1)
          BY <3>3, <3>4
        <4>2. events[s].merged = 1
          BY <4>1, <3>1 DEF IInv, DataInv, ListOrder
        <4> QED
          BY <4>2, <2>2, <1>2
      <3> QED
        BY <3>5, <1>2, <1>3, <1>10, <1>11, <2>2 DEF Replaced, Grown
    <2> QED
      BY <2>1, <2>2
  <1>17. FileInv'
    BY <1>2, <1>3, <1>4, <1>11, FileKeeps
  <1>18. FlowInv' /\ BridgeInv'
    BY <1>1, <1>2, <1>3, <1>4, <1>5, <1>6, <1>11, <1>12, <1>13, StepKeeps DEF s
  <1> QED
    BY <1>14, <1>15, <1>16, <1>17, <1>18 DEF IInv, DataInv

\* A row is written with its delivery, or the registration has failed.
LEMMA RegisterKeeps ==
    ASSUME IInv, NEW p \in Contexts, Register(p)
    PROVE  IInv'
  <1> DEFINE e == Event(p)
             s == flow[p].seq
  <1>1. PICK i \in flow[p].item :
           \/ /\ i \in files
              /\ registered' = registered \cup {i}
              /\ Effect(p, [e EXCEPT !.imported[i] = Once(@),
                               !.ready[i] = IF e.imported[i] = 0 THEN @ + 1 ELSE @])
              /\ Done(p, i)
              /\ UNCHANGED faults
           \/ /\ IF i \in files THEN Fault ELSE UNCHANGED faults
              /\ Goto(p, "spoiled")
              /\ UNCHANGED <<registered, events>>
    BY DEF Register
  <1>2. /\ At(p, "fetched") /\ Owned(p) /\ i \in Items
        /\ {"importing", "spoiled"} \subseteq Pcs \ {"ready", "recorded"}
    BY <1>1, FlowFields DEF Register, IInv, DataInv, Pcs
  <1>3. /\ Working(flow[p]) /\ flow[p].pc = "fetched" /\ e \in Events /\ Sound(e)
        /\ Fits(flow[p], e) /\ Fenced(flow[p], e) /\ s \in DOMAIN events /\ e = events[s]
    BY <1>2, AtFacts
  <1>4. UNCHANGED <<task, run, files, bridge, lease, overrun>>
    BY DEF Register
  <1> DEFINE d == [e EXCEPT !.imported[i] = Once(@),
                      !.ready[i] = IF e.imported[i] = 0 THEN @ + 1 ELSE @]
  <1>5. CASE /\ i \in files
             /\ registered' = registered \cup {i}
             /\ Effect(p, d)
             /\ Done(p, i)
             /\ UNCHANGED faults
    <2>1. /\ d \in Events /\ Sound(d) /\ Grown(e, d)
          /\ d.imported[i] = 1 /\ \A j \in Items \ {i} : d.imported[j] = e.imported[j]
          /\ d.merged = e.merged /\ d.projected = e.projected /\ d.failed = e.failed
      <3>1. d = Imported(e, i)
        BY DEF Imported
      <3> HIDE DEF e, d
      <3> QED
        BY <3>1, <1>2, <1>3, ImportedFacts
    <2>2. Replaced(s, d)
      BY <1>3, <1>5, <2>1, EventReplaced DEF Effect, Replaced, IInv, DataInv
    <2>3. Steps(p, "importing", flow[p].todo \ {i}, {})
      BY <1>2, <1>5, DoneSteps DEF IInv, DataInv
    <2>4. flow'[p].pc = "importing" /\ flow'[p].todo = flow[p].todo \ {i} /\ flow'[p].item = {}
      BY <2>3 DEF Steps
    <2>5. flow[p] \in Flows /\ i \in flow[p].todo
      BY <1>1, <1>3 DEF IInv, DataInv, TypeOK, Fits, Importing
    <2> HIDE DEF d, e, s
    <2>6. TypeOK'
      <3>1. registered' \subseteq Items /\ faults' \in Nat
        BY <1>2, <1>5 DEF IInv, DataInv, TypeOK
      <3> QED
        BY <3>1, <1>4, <2>2, <2>3 DEF IInv, DataInv, TypeOK, Steps, Replaced
    <2>7. Fits(flow'[p], d)
      <3>1. Fits(flow[p], d)
        BY <1>3, <2>1, <2>5, FitsStays
      <3> QED
        BY <3>1, <1>3, <2>1, <2>4 DEF Fits, Importing, Settles
    <2>8. Fenced(flow'[p], d)
      BY <1>3, <2>1, <2>4 DEF Fenced
    <2>9. /\ SoundInv' /\ EndInv' /\ ListOrder'
          /\ \A t \in DOMAIN events : (Lists(t)' <=> Lists(t)) /\ (Succeeds(t)' <=> Succeeds(t))
      <3>1. d.projected /\ d.kind # "ignored" /\ d.state \in TerminalStates => run.state = d.state
        BY <1>3, <2>1 DEF Fenced
      <3> QED
        BY <1>3, <1>4, <2>1, <2>2, <3>1, EventKeeps
    <2>10. OutputIsLatest'
      BY <1>3, <1>4, <2>1, <2>2, <2>9, OutputKeeps DEF Grown
    <2>11. FileInv'
      <3>1. /\ DOMAIN events' = DOMAIN events
            /\ \A t \in DOMAIN events, j \in Items \ {i} : events'[t].imported[j] = events[t].imported[j]
            /\ \A t \in DOMAIN events : /\ events'[t].projected = events[t].projected
                                        /\ events'[t].kind = events[t].kind
                                        /\ events'[t].items = events[t].items
                                        /\ events'[t].failed = events[t].failed
        BY <1>3, <2>1, <2>2 DEF Replaced, Grown
      <3>2. ASSUME NEW t \in DOMAIN events, NEW j \in Items, events'[t].imported[j] > 0
            PROVE  j \in registered'
        <4>1. CASE j = i
          BY <4>1, <1>5
        <4>2. CASE j # i
          BY <4>2, <3>1, <3>2, <1>5 DEF IInv, DataInv, FileInv
        <4> QED
          BY <4>1, <4>2
      <3>3. ASSUME NEW j \in registered' \ (files' \cup overrun')
            PROVE  \E t \in DOMAIN events :
                      /\ events'[t].kind = "artifacts" /\ j \in events'[t].items
                      /\ j \in events'[t].failed \/ (~events'[t].projected /\ events'[t].imported[j] = 0)
        <4>1. j \in registered \ (files \cup overrun) /\ j # i
          BY <3>3, <1>4, <1>5
        <4>2. j \in Items \ {i}
          BY <4>1 DEF IInv, DataInv, TypeOK
        <4>3. PICK t \in DOMAIN events :
                 /\ events[t].kind = "artifacts" /\ j \in events[t].items
                 /\ j \in events[t].failed \/ (~events[t].projected /\ events[t].imported[j] = 0)
          BY <4>1 DEF IInv, DataInv, FileInv
        <4> QED
          BY <4>2, <4>3, <3>1
      <3> QED
        BY <3>1, <3>2, <3>3 DEF FileInv
    <2>12. FlowInv' /\ BridgeInv'
      BY <1>2, <1>3, <1>4, <2>1, <2>2, <2>3, <2>7, <2>8, StepKeeps DEF e, s
    <2> QED
      BY <2>6, <2>9, <2>10, <2>11, <2>12 DEF IInv, DataInv
  <1>6. CASE /\ IF i \in files THEN Fault ELSE UNCHANGED faults
             /\ Goto(p, "spoiled")
             /\ UNCHANGED <<registered, events>>
    <2>1. Steps(p, "spoiled", flow[p].todo, flow[p].item)
      BY <1>2, <1>6, GotoSteps DEF IInv, DataInv
    <2>2. /\ flow'[p].pc = "spoiled" /\ flow'[p].todo = flow[p].todo
          /\ flow'[p].item = flow[p].item
      BY <2>1 DEF Steps
    <2>3. Fits(flow'[p], e) /\ Fenced(flow'[p], e)
      BY <1>3, <2>2 DEF Fits, Fenced, Importing
    <2>4. /\ UNCHANGED <<task, run, events, registered, bridge, lease, overrun>> /\ (Fault \/ UNCHANGED faults)
          /\ files' \in SUBSET Items /\ files \subseteq files'
      BY <1>4, <1>6 DEF IInv, DataInv, TypeOK
    <2> QED
      BY <1>2, <1>3, <2>1, <2>3, <2>4, QuietStep
  <1> QED
    BY <1>1, <1>5, <1>6

\* The term was looked at.
LEMMA SpoilKeeps ==
    ASSUME IInv, NEW p \in Contexts, Spoil(p)
    PROVE  IInv'
  <1>1. /\ At(p, "spoiled") /\ Owned(p) /\ Goto(p, "removing")
        /\ UNCHANGED <<task, run, events, files, registered, bridge, lease, faults, overrun>>
    BY DEF Spoil
  <1>2. /\ Working(flow[p]) /\ flow[p].pc = "spoiled"
        /\ Fits(flow[p], Event(p)) /\ Fenced(flow[p], Event(p))
    BY <1>1, AtFacts
  <1>3. "removing" \in Pcs \ {"ready", "recorded"}
    BY DEF Pcs
  <1>4. Steps(p, "removing", flow[p].todo, flow[p].item)
    BY <1>1, <1>3, GotoSteps DEF IInv, DataInv
  <1>5. flow'[p].pc = "removing" /\ flow'[p].todo = flow[p].todo /\ flow'[p].item = flow[p].item
    BY <1>4 DEF Steps
  <1>6. Fits(flow'[p], Event(p)) /\ Fenced(flow'[p], Event(p))
    BY <1>2, <1>5 DEF Fits, Fenced, Importing
  <1>7. files' \in SUBSET Items /\ files \subseteq files'
    BY <1>1 DEF IInv, DataInv, TypeOK
  <1> QED
    BY <1>1, <1>2, <1>3, <1>4, <1>6, <1>7, QuietStep

\* A file is removed by the owner of an event that has still to deal with its artifact, or by one
\* that has lost the event.
LEMMA RemoveKeeps ==
    ASSUME IInv, RemovalInv, NEW p \in Contexts, Remove(p)
    PROVE  IInv'
  <1> DEFINE e == Event(p)
             s == flow[p].seq
  <1>1. /\ At(p, "removing") /\ files' = files \ flow[p].item /\ Goto(p, "failing")
        /\ UNCHANGED <<task, run, events, registered, bridge, lease, faults, overrun>>
    BY DEF Remove
  <1>2. /\ Working(flow[p]) /\ flow[p].pc = "removing" /\ e \in Events
        /\ Fits(flow[p], e) /\ (Owned(p) => Fenced(flow[p], e)) /\ s \in DOMAIN events /\ e = events[s]
    BY <1>1, AtFacts
  <1>3. "failing" \in Pcs \ {"ready", "recorded"}
    BY DEF Pcs
  <1>4. Steps(p, "failing", flow[p].todo, flow[p].item)
    BY <1>1, <1>3, GotoSteps DEF IInv, DataInv
  <1>5. flow'[p].pc = "failing" /\ flow'[p].todo = flow[p].todo /\ flow'[p].item = flow[p].item
    BY <1>4 DEF Steps
  <1>6. Fits(flow'[p], e) /\ (Owned(p) => Fenced(flow'[p], e))
    BY <1>2, <1>5 DEF Fits, Fenced, Importing
  <1>7. TypeOK'
    BY <1>1, <1>4 DEF IInv, DataInv, TypeOK, Steps
  <1>8. Replaced(s, e) /\ Grown(e, e)
    BY <1>1, <1>2, SameReplaced DEF IInv, DataInv
  <1>9. FlowInv' /\ BridgeInv'
    BY <1>1, <1>2, <1>3, <1>4, <1>6, <1>8, StepKeeps
  <1>10. SoundInv' /\ EndInv'
    BY <1>1 DEF IInv, DataInv, SoundInv, EndInv
  <1>11. OutputIsLatest' /\ ListOrder'
    BY <1>1 DEF IInv, DataInv, OutputIsLatest, ListOrder, Lists, Succeeds
  <1>12. FileInv'
    <2>1. \A t \in DOMAIN events, i \in Items : events[t].imported[i] > 0 => i \in registered
      BY DEF IInv, DataInv, FileInv
    <2>2. ASSUME NEW i \in registered \ (files' \cup overrun')
          PROVE  \E t \in DOMAIN events :
                    /\ events[t].kind = "artifacts" /\ i \in events[t].items
                    /\ i \in events[t].failed \/ (~events[t].projected /\ events[t].imported[i] = 0)
      <3>1. CASE i \in flow[p].item /\ Owned(p)
        <4>1. e.kind = "artifacts" /\ i \in e.items /\ ~e.projected /\ e.imported[i] = 0
          BY <3>1, <1>2 DEF Fits, Fenced, Importing, Listed
        <4> QED
          BY <4>1, <1>2
      <3>2. CASE i \notin flow[p].item
        BY <3>2, <2>2, <1>1 DEF IInv, DataInv, FileInv
      <3>3. CASE i \in flow[p].item /\ ~Owned(p)
        BY <3>3, <2>2, <1>1 DEF RemovalInv
      <3> QED
        BY <3>1, <3>2, <3>3
    <2> QED
      BY <1>1, <2>1, <2>2 DEF FileInv
  <1> QED
    BY <1>7, <1>9, <1>10, <1>11, <1>12 DEF IInv, DataInv

\* A step that moves one flow and the leases: nobody else gains a lease.
LEMMA FlowStepKeeps ==
    ASSUME IInv, NEW p \in Contexts, NEW f \in Flows, flow' = [flow EXCEPT ![p] = f],
           lease' \in [Rows -> Contexts \cup {Free}], bridge' \in Contexts \cup {Free},
           \A q \in Contexts \ {p} : bridge' = q => bridge = q,
           \A q \in Contexts \ {p}, s \in Rows : lease'[s] = q => lease[s] = q,
           UNCHANGED <<task, run, events, files, registered, overrun>>, Fault \/ UNCHANGED faults,
           FlowFits(p, f, events, lease'), bridge' = p => Ahead(f, events)
    PROVE  IInv'
  <1>1. /\ flow' \in [Contexts -> Flows] /\ flow'[p] = f
        /\ \A q \in Contexts \ {p} : flow'[q] = flow[q]
    BY FlowReplaced DEF IInv, DataInv
  <1>2. TypeOK'
    BY <1>1, FaultType DEF IInv, DataInv, TypeOK
  <1>3. DataInv'
    BY <1>2, DataSame DEF IInv
  <1>4. \A s \in DOMAIN events : s \in Rows /\ events[s] \in Events
    BY EventRows DEF IInv, DataInv
  <1>5. \A s \in DOMAIN events : Grown(events[s], events'[s])
    BY DEF Grown
  <1>6. FlowInv' /\ BridgeInv'
    BY <1>1, <1>4, <1>5, OthersKeep
  <1> QED
    BY <1>3, <1>6 DEF IInv

\* The task is taken: its unprojected events are those to repeat.
LEMMA StartBridgeKeeps ==
    ASSUME IInv, NEW p \in Contexts, StartBridge(p)
    PROVE  IInv'
  <1> DEFINE f == [Idle EXCEPT !.mode = "replay", !.queue = Pending]
  <1>1. Pending \subseteq DOMAIN events /\ Pending \subseteq Nat
    BY EventRows DEF IInv, DataInv, Pending
  <1>2. /\ f \in Flows /\ f.mode = "replay" /\ f.pc = "ready" /\ f.queue = Pending /\ f.item = {}
    BY <1>1 DEF Idle, Flows, Modes, Pcs
  <1>3. flow' = [flow EXCEPT ![p] = f] /\ bridge' = p
    BY DEF StartBridge
  <1> HIDE DEF f
  <1>4. FlowFits(p, f, events, lease')
    BY <1>1, <1>2 DEF FlowFits, Working
  <1>5. Ahead(f, events)
    BY <1>2 DEF Ahead, Pending
  <1>6. UNCHANGED <<task, run, events, files, registered, lease, faults, overrun>>
    BY DEF StartBridge
  <1>7. lease \in [Rows -> Contexts \cup {Free}]
    BY DEF IInv, DataInv, TypeOK
  <1> QED
    BY <1>2, <1>3, <1>4, <1>5, <1>6, <1>7, FlowStepKeeps

\* The next event to repeat.
LEMMA ReplayNextKeeps ==
    ASSUME IInv, NEW p \in Contexts, ReplayNext(p)
    PROVE  IInv'
  <1>1. PICK s \in flow[p].queue :
           flow' = [flow EXCEPT ![p].pc = "recorded", ![p].seq = s, ![p].queue = @ \ {s}]
    BY DEF ReplayNext
  <1> DEFINE f == [flow[p] EXCEPT !.pc = "recorded", !.seq = s, !.queue = flow[p].queue \ {s}]
  <1>2. /\ flow[p] \in Flows /\ flow[p].mode = "replay" /\ flow[p].pc = "ready"
        /\ FlowFits(p, flow[p], events, lease) /\ (bridge = p => Ahead(flow[p], events))
    BY DEF ReplayNext, IInv, DataInv, TypeOK, FlowInv, BridgeInv
  <1>3. flow[p].queue \subseteq DOMAIN events /\ flow[p].item = {} /\ s \in DOMAIN events /\ s \in Nat
    BY <1>1, <1>2, EventRows DEF FlowFits, Flows, IInv, DataInv
  <1>4. /\ f \in Flows /\ f.mode = "replay" /\ f.pc = "recorded" /\ f.seq = s
        /\ f.queue = flow[p].queue \ {s} /\ f.item = {}
    BY <1>2, <1>3 DEF Flows, Pcs
  <1>5. flow' = [flow EXCEPT ![p] = f]
    BY <1>1
  <1> HIDE DEF f
  <1>6. FlowFits(p, f, events, lease)
    BY <1>3, <1>4 DEF FlowFits, Fits, Importing
  <1>7. bridge = p => Ahead(f, events)
    BY <1>2, <1>4 DEF Ahead
  <1>8. UNCHANGED <<task, run, events, files, registered, bridge, lease, faults, overrun>>
    BY DEF ReplayNext
  <1>9. lease \in [Rows -> Contexts \cup {Free}] /\ bridge \in Contexts \cup {Free}
    BY DEF IInv, DataInv, TypeOK
  <1> QED
    BY <1>4, <1>5, <1>6, <1>7, <1>8, <1>9, FlowStepKeeps

\* Nothing is left to repeat.
LEMMA StreamKeeps ==
    ASSUME IInv, NEW p \in Contexts, Stream(p)
    PROVE  IInv'
  <1> DEFINE f == [flow[p] EXCEPT !.mode = "stream"]
  <1>1. /\ flow[p] \in Flows /\ flow[p].mode = "replay" /\ flow[p].pc = "ready" /\ flow[p].queue = {}
        /\ FlowFits(p, flow[p], events, lease) /\ (bridge = p => Ahead(flow[p], events))
    BY DEF Stream, IInv, DataInv, TypeOK, FlowInv, BridgeInv
  <1>2. /\ f \in Flows /\ f.mode = "stream" /\ f.pc = "ready" /\ f.queue = {}
        /\ f.item = flow[p].item
    BY <1>1 DEF Flows, Modes
  <1>3. flow' = [flow EXCEPT ![p] = f]
    BY DEF Stream
  <1> HIDE DEF f
  <1>4. FlowFits(p, f, events, lease)
    BY <1>1, <1>2 DEF FlowFits, Working
  <1>5. bridge = p => Ahead(f, events)
    BY <1>1, <1>2 DEF Ahead
  <1>6. UNCHANGED <<task, run, events, files, registered, bridge, lease, faults, overrun>>
    BY DEF Stream
  <1>7. lease \in [Rows -> Contexts \cup {Free}] /\ bridge \in Contexts \cup {Free}
    BY DEF IInv, DataInv, TypeOK
  <1> QED
    BY <1>2, <1>3, <1>4, <1>5, <1>6, <1>7, FlowStepKeeps

\* A flow that is over, by its end, by an exception or with its process.
LEMMA IdleKeeps ==
    ASSUME IInv, NEW p \in Contexts, flow' = [flow EXCEPT ![p] = Idle],
           lease' \in [Rows -> Contexts \cup {Free}], bridge' \in Contexts \cup {Free},
           bridge' \in {bridge, Free}, \A s \in Rows : lease'[s] \in {lease[s], Free},
           UNCHANGED <<task, run, events, files, registered, overrun>>, Fault \/ UNCHANGED faults
    PROVE  IInv'
  <1>1. Idle \in Flows /\ FlowFits(p, Idle, events, lease') /\ Ahead(Idle, events)
    BY IdleFlow
  <1>2. \A q \in Contexts \ {p} : /\ bridge' = q => bridge = q
                                  /\ \A s \in Rows : lease'[s] = q => lease[s] = q
    BY ProjectionAssumption
  <1> QED
    BY <1>1, <1>2, FlowStepKeeps

\* A flow has come to its end.
LEMMA EndFlowKeeps ==
    ASSUME IInv, NEW p \in Contexts, EndFlow(p)
    PROVE  IInv'
  <1>1. lease \in [Rows -> Contexts \cup {Free}] /\ bridge \in Contexts \cup {Free}
    BY DEF IInv, DataInv, TypeOK
  <1>2. /\ flow' = [flow EXCEPT ![p] = Idle] /\ bridge' \in {bridge, Free}
        /\ UNCHANGED <<task, run, events, files, registered, lease, faults, overrun>>
    BY DEF EndFlow
  <1> QED
    BY <1>1, <1>2, IdleKeeps

\* A flow breaks off.
LEMMA StopKeeps ==
    ASSUME IInv, NEW p \in Contexts, Stop(p)
    PROVE  IInv'
  <1>1. lease \in [Rows -> Contexts \cup {Free}] /\ bridge \in Contexts \cup {Free}
    BY DEF IInv, DataInv, TypeOK
  <1>2. /\ flow' = [flow EXCEPT ![p] = Idle] /\ Releases(p)
        /\ UNCHANGED <<task, run, events, files, registered, overrun>>
    BY DEF Stop
  <1>3. Fault \/ UNCHANGED faults
    BY DEF Stop
  <1>4. bridge' \in {bridge, Free}
    BY <1>2 DEF Releases
  <1>5. lease' \in [Rows -> Contexts \cup {Free}] /\ \A s \in Rows : lease'[s] \in {lease[s], Free}
    BY <1>1, <1>2 DEF Releases
  <1> QED
    BY <1>1, <1>2, <1>3, <1>4, <1>5, IdleKeeps

\* A process dies.
LEMMA CrashKeeps ==
    ASSUME IInv, NEW p \in Contexts, Crash(p)
    PROVE  IInv'
  <1>1. lease \in [Rows -> Contexts \cup {Free}] /\ bridge \in Contexts \cup {Free}
    BY DEF IInv, DataInv, TypeOK
  <1>2. /\ flow' = [flow EXCEPT ![p] = Idle] /\ Fault
        /\ UNCHANGED <<task, run, events, files, registered, bridge, lease, overrun>>
    BY DEF Crash
  <1> QED
    BY <1>1, <1>2, IdleKeeps

\* A term ends.
LEMMA ExpireKeeps ==
    ASSUME IInv, \/ \E s \in Rows : ExpireProjection(s)
                 \/ ExpireBridge
    PROVE  IInv'
  <1>1. /\ UNCHANGED <<task, run, events, files, registered, flow>> /\ (Fault \/ UNCHANGED faults)
        /\ bridge' \in {bridge, Free}
    BY DEF ExpireProjection, ExpireBridge
  <1>2. overrun \subseteq overrun' /\ overrun' \subseteq Items
    <2>1. CASE \E s \in Rows : ExpireProjection(s)
      <3>1. PICK s \in Rows : ExpireProjection(s)
        BY <2>1
      <3>2. lease[s] \in Contexts
        BY <3>1 DEF ExpireProjection, IInv, DataInv, TypeOK
      <3>3. flow[lease[s]].item \subseteq Items
        BY <3>2, FlowFields DEF IInv, DataInv
      <3> QED
        BY <3>1, <3>3 DEF ExpireProjection, Removes, IInv, DataInv, TypeOK
    <2>2. CASE ExpireBridge
      BY <2>2 DEF ExpireBridge, IInv, DataInv, TypeOK
    <2> QED
      BY <2>1, <2>2
  <1>3. lease \in [Rows -> Contexts \cup {Free}] /\ bridge \in Contexts \cup {Free}
    BY DEF IInv, DataInv, TypeOK
  <1>4. lease' \in [Rows -> Contexts \cup {Free}] /\ \A s \in Rows : lease'[s] \in {lease[s], Free}
    <2>1. CASE \E s \in Rows : ExpireProjection(s)
      BY <2>1, <1>3 DEF ExpireProjection
    <2>2. CASE ExpireBridge
      BY <2>2, <1>3 DEF ExpireBridge
    <2> QED
      BY <2>1, <2>2
  <1>5. TypeOK'
    BY <1>1, <1>3, <1>4, <1>2, FaultType DEF IInv, DataInv, TypeOK
  <1>6. DataInv'
    BY <1>1, <1>5, <1>2, DataSame DEF IInv
  <1>7. \A s \in DOMAIN events : s \in Rows
    BY EventRows DEF IInv, DataInv
  <1>8. FlowInv'
    <2> SUFFICES ASSUME NEW p \in Contexts
                 PROVE  FlowFits(p, flow[p], events, lease')
      BY <1>1 DEF FlowInv
    <2>1. FlowFits(p, flow[p], events, lease)
      BY DEF IInv, FlowInv
    <2>2. \A s \in Rows : lease'[s] = p => lease[s] = p
      BY <1>4, ProjectionAssumption
    <2> QED
      BY <2>1, <2>2, <1>7 DEF FlowFits
  <1>9. BridgeInv'
    BY <1>1, ProjectionAssumption DEF IInv, BridgeInv
  <1> QED
    BY <1>6, <1>8, <1>9 DEF IInv

\* What follows on the projection of an event.
LEMMA ContinuedFlow ==
    ASSUME TypeOK, NEW p \in Contexts, Continued(p)
    PROVE  \E f \in Flows :
              /\ flow' = [flow EXCEPT ![p] = f]
              /\ f.pc = "ready" /\ f.item = {}
              /\ f = Idle \/ (f.mode = flow[p].mode /\ f.queue = flow[p].queue)
  <1> DEFINE g == [flow[p] EXCEPT !.pc = "ready", !.seq = 0, !.todo = {}, !.item = {}]
  <1>1. flow[p] \in Flows
    BY DEF TypeOK
  <1>2. CASE flow[p].mode = "alone"
    <2>1. flow' = [flow EXCEPT ![p] = Idle]
      BY <1>2 DEF Continued
    <2>2. Idle.pc = "ready" /\ Idle.item = {}
      BY DEF Idle
    <2> QED
      BY <2>1, <2>2, IdleFlow
  <1>3. CASE flow[p].mode # "alone"
    <2>1. flow' = [flow EXCEPT ![p] = g]
      BY <1>3 DEF Continued
    <2>2. /\ g \in Flows /\ g.pc = "ready" /\ g.item = {} /\ g.mode = flow[p].mode
          /\ g.queue = flow[p].queue
      BY <1>1 DEF Flows, Pcs
    <2> QED
      BY <2>1, <2>2
  <1> QED
    BY <1>2, <1>3

\* The event of a flow that is ready is behind it.
LEMMA ReadyFits ==
    ASSUME NEW p, NEW f, NEW es, NEW le, f.pc = "ready", f.item = {},
           f = Idle \/ f.queue \subseteq DOMAIN es
    PROVE  FlowFits(p, f, es, le)
  BY DEF FlowFits, Working, Idle

\* A projection is claimed, or the event found projected.
LEMMA ClaimKeeps ==
    ASSUME IInv, NEW p \in Contexts, Claim(p)
    PROVE  IInv'
  <1> DEFINE s == flow[p].seq
  <1>1. At(p, "recorded") /\ UNCHANGED <<task, run, events, files, registered, bridge, faults, overrun>>
    BY DEF Claim
  <1>2. /\ Working(flow[p]) /\ flow[p].pc = "recorded" /\ s \in DOMAIN events /\ s \in Rows
        /\ Event(p) = events[s] /\ flow[p].item = {}
    BY <1>1, AtFacts
  <1>3. /\ TypeOK /\ flow[p] \in Flows /\ lease \in [Rows -> Contexts \cup {Free}]
        /\ bridge \in Contexts \cup {Free}
    BY DEF IInv, DataInv, TypeOK
  <1>4. FlowFits(p, flow[p], events, lease) /\ (bridge = p => Ahead(flow[p], events))
    BY DEF IInv, FlowInv, BridgeInv
  <1>5. CASE Event(p).projected /\ Continued(p) /\ UNCHANGED lease
    <2>1. PICK f \in Flows :
             /\ flow' = [flow EXCEPT ![p] = f]
             /\ f.pc = "ready" /\ f.item = {}
             /\ f = Idle \/ (f.mode = flow[p].mode /\ f.queue = flow[p].queue)
      BY <1>3, <1>5, ContinuedFlow
    <2>2. FlowFits(p, f, events, lease)
      BY <1>4, <2>1, ReadyFits DEF FlowFits
    <2>3. bridge = p => Ahead(f, events)
      <3>1. CASE f = Idle
        BY <3>1, IdleFlow
      <3>2. CASE f.mode = flow[p].mode /\ f.queue = flow[p].queue
        BY <3>2, <1>2, <1>4, <1>5 DEF Ahead
      <3> QED
        BY <2>1, <3>1, <3>2
    <2> QED
      BY <1>1, <1>3, <1>5, <2>1, <2>2, <2>3, FlowStepKeeps
  <1>6. CASE /\ ~Event(p).projected /\ lease[s] = Free
             /\ lease' = [lease EXCEPT ![s] = p]
             /\ Goto(p, "claimed")
    <2> DEFINE f == [flow[p] EXCEPT !.pc = "claimed"]
    <2>1. /\ f \in Flows /\ f.pc = "claimed" /\ f.mode = flow[p].mode /\ f.seq = s
          /\ f.queue = flow[p].queue /\ f.item = flow[p].item
      BY <1>3 DEF Flows, Pcs
    <2>2. flow' = [flow EXCEPT ![p] = f]
      BY <1>6 DEF Goto
    <2>3. lease' \in [Rows -> Contexts \cup {Free}]
      BY <1>3, <1>6
    <2>4. \A q \in Contexts \ {p}, t \in Rows : lease'[t] = q => lease[t] = q
      BY <1>2, <1>3, <1>6
    <2> HIDE DEF f
    <2>5. FlowFits(p, f, events, lease')
      BY <2>1, <1>2, <1>4, <1>6 DEF FlowFits, Working, Fits, Fenced, Importing
    <2>6. bridge = p => Ahead(f, events)
      BY <2>1, <1>2, <1>4 DEF Ahead
    <2> QED
      BY <1>1, <1>3, <2>1, <2>2, <2>3, <2>4, <2>5, <2>6, FlowStepKeeps
  <1> QED
    BY <1>5, <1>6 DEF Claim

\* The owner completes the projection.
LEMMA MarkKeeps ==
    ASSUME IInv, NEW p \in Contexts, Mark(p)
    PROVE  IInv'
  <1> DEFINE s == flow[p].seq
             e == Event(p)
             d == [e EXCEPT !.projected = TRUE,
                      !.told = IF e.kind = "ignored" THEN @ ELSE @ + 1]
  <1>1. /\ At(p, "marking") /\ Owned(p) /\ Settled(p) /\ ~e.projected /\ Effect(p, d)
        /\ lease' = [lease EXCEPT ![s] = Free] /\ Continued(p)
        /\ UNCHANGED <<task, run, files, registered, bridge, faults, overrun>>
    BY DEF Mark
  <1>2. /\ Working(flow[p]) /\ flow[p].pc = "marking" /\ s \in DOMAIN events /\ s \in Rows
        /\ e = events[s] /\ e \in Events /\ Sound(e) /\ Fits(flow[p], e)
    BY <1>1, AtFacts
  <1>3. e.noted = 1 /\ (Listed(e) => e.merged = 1 /\ \A i \in e.items : Settles(e, i))
    BY <1>2 DEF Fits
  <1>4. /\ d \in Events /\ Sound(d) /\ Grown(e, d)
        /\ d.projected /\ d.merged = e.merged /\ d.imported = e.imported /\ d.failed = e.failed
    <2>1. d = Completed(e)
      BY DEF Completed
    <2> HIDE DEF e, d
    <2> QED
      BY <2>1, <1>1, <1>2, <1>3, ProjectedFacts
  <1>5. Replaced(s, d)
    BY <1>1, <1>2, <1>4, EventReplaced DEF Effect, Replaced, IInv, DataInv
  <1>6. PICK f \in Flows :
           /\ flow' = [flow EXCEPT ![p] = f]
           /\ f.pc = "ready" /\ f.item = {}
           /\ f = Idle \/ (f.mode = flow[p].mode /\ f.queue = flow[p].queue)
    BY <1>1, ContinuedFlow DEF IInv, DataInv
  <1>7. /\ flow' \in [Contexts -> Flows] /\ flow'[p] = f
        /\ \A q \in Contexts \ {p} : flow'[q] = flow[q]
    BY <1>6, FlowReplaced DEF IInv, DataInv
  <1>8. d.projected /\ d.kind # "ignored" /\ d.state \in TerminalStates => run.state = d.state
    BY <1>1, <1>4 DEF Settled, Grown
  <1> HIDE DEF d, e, s
  <1>9. /\ lease' \in [Rows -> Contexts \cup {Free}]
        /\ \A q \in Contexts, t \in Rows : lease'[t] = q => lease[t] = q
    BY <1>1, <1>2, ProjectionAssumption DEF IInv, DataInv, TypeOK
  <1>10. TypeOK'
    BY <1>1, <1>5, <1>7, <1>9 DEF IInv, DataInv, TypeOK, Replaced
  <1>11. /\ SoundInv' /\ EndInv' /\ ListOrder'
         /\ \A t \in DOMAIN events : Grown(events[t], events'[t])
         /\ \A t \in DOMAIN events : (Lists(t)' <=> Lists(t)) /\ (Succeeds(t)' <=> Succeeds(t))
    BY <1>1, <1>2, <1>4, <1>5, <1>8, EventKeeps
  <1>12. OutputIsLatest'
    BY <1>1, <1>2, <1>4, <1>5, <1>11, OutputKeeps DEF Grown
  <1>13. /\ DOMAIN events' = DOMAIN events /\ events'[s] = d
         /\ \A t \in DOMAIN events : t # s => events'[t] = events[t]
    BY <1>5 DEF Replaced
  <1>14. FileInv'
    <2>1. \A t \in DOMAIN events : /\ events'[t].imported = events[t].imported
                                   /\ events'[t].kind = events[t].kind
                                   /\ events'[t].items = events[t].items
                                   /\ events'[t].failed = events[t].failed
      BY <1>2, <1>4, <1>13 DEF Grown
    <2>2. \A t \in DOMAIN events, i \in Items : events'[t].imported[i] > 0 => i \in registered
      BY <2>1 DEF IInv, DataInv, FileInv
    <2>3. ASSUME NEW i \in registered \ (files \cup overrun)
          PROVE  \E t \in DOMAIN events :
                    /\ events'[t].kind = "artifacts" /\ i \in events'[t].items
                    /\ i \in events'[t].failed \/ (~events'[t].projected /\ events'[t].imported[i] = 0)
      <3>1. PICK t \in DOMAIN events :
               /\ events[t].kind = "artifacts" /\ i \in events[t].items
               /\ i \in events[t].failed \/ (~events[t].projected /\ events[t].imported[i] = 0)
        BY <2>3 DEF IInv, DataInv, FileInv
      <3>2. CASE t # s
        BY <3>1, <3>2, <1>13
      <3>3. CASE t = s
        <4>1. Settles(e, i)
          BY <3>1, <3>3, <1>2, <1>3 DEF Listed
        <4>2. i \in events[t].failed
          BY <3>1, <3>3, <4>1, <1>2 DEF Settles
        <4> QED
          BY <3>1, <4>2, <2>1
      <3> QED
        BY <3>2, <3>3
    <2> QED
      BY <1>1, <1>13, <2>2, <2>3 DEF FileInv
  <1>15. FlowInv' /\ BridgeInv'
    <2>1. FlowFits(p, flow[p], events, lease) /\ (bridge = p => Ahead(flow[p], events))
      BY DEF IInv, FlowInv, BridgeInv
    <2>2. FlowFits(p, flow'[p], events', lease')
      <3>1. DOMAIN events' = DOMAIN events
        BY <1>13
      <3>2. f = Idle \/ f.queue \subseteq DOMAIN events'
        BY <1>6, <2>1, <3>1 DEF FlowFits
      <3>3. FlowFits(p, f, events', lease')
        BY <1>6, <3>2, ReadyFits
      <3> QED
        BY <1>7, <3>3
    <2>3. bridge' = p => Ahead(flow'[p], events')
      <3>1. CASE f = Idle
        BY <3>1, <1>7, IdleFlow
      <3>2. CASE f.mode = flow[p].mode /\ f.queue = flow[p].queue
        <4> SUFFICES ASSUME bridge = p, f.mode \in {"replay", "stream"}
                     PROVE  Ahead(f, events')
          BY <1>1, <1>7 DEF Ahead
        <4>1. f.mode = "stream" => f.queue = {}
          BY <3>2, <2>1 DEF Ahead
        <4>2. ASSUME NEW t \in DOMAIN events', events'[t].kind = "artifacts", ~events'[t].projected
              PROVE  t \in f.queue
          <5>1. t # s
            BY <4>2, <1>4, <1>13
          <5>2. events'[t] = events[t] /\ t \in DOMAIN events
            BY <5>1, <1>13
          <5> QED
            BY <5>1, <5>2, <4>2, <3>2, <2>1 DEF Ahead, s
        <4> QED
          BY <4>1, <4>2 DEF Ahead
      <3> QED
        BY <1>6, <3>1, <3>2
    <2>4. \A t \in DOMAIN events' : events'[t] \in Events
      BY <1>2, <1>4, <1>13, EventRows DEF IInv, DataInv
    <2>5. \A t \in DOMAIN events : events'[t] = events[t] \/ lease[t] \notin Contexts \ {p}
      BY <1>1, <1>13 DEF Owned, s
    <2>6. \A t \in DOMAIN events : t \in Rows
      BY EventRows DEF IInv, DataInv
    <2> QED
      BY <1>1, <1>7, <1>9, <1>11, <1>13, <2>2, <2>3, <2>4, <2>5, <2>6, OthersKeep
  <1> QED
    BY <1>10, <1>11, <1>12, <1>14, <1>15 DEF IInv, DataInv

\* A run that was pending is started: neither it nor its task has ended.
LEMMA RunStarts ==
    ASSUME IInv, TypeOK', run.state \in {"pending", "running"},
           run' = [run EXCEPT !.state = "running"], UNCHANGED <<task, events, files, registered, overrun>>
    PROVE  DataInv'
  <1>1. run'.state = "running" /\ run'.items = run.items
    BY DEF IInv, DataInv, TypeOK
  <1>2. run.state \notin TerminalStates /\ run'.state \notin TerminalStates
    BY <1>1 DEF TerminalStates
  <1>3. task.state \notin TerminalStates
    BY <1>2 DEF IInv, DataInv, EndInv
  <1>4. EndInv'
    BY <1>2, <1>3 DEF IInv, DataInv, EndInv
  <1>5. SoundInv' /\ FileInv'
    BY DEF IInv, DataInv, SoundInv, FileInv
  <1>6. OutputIsLatest' /\ ListOrder'
    BY <1>1 DEF IInv, DataInv, OutputIsLatest, ListOrder, Lists, Succeeds
  <1> QED
    BY <1>4, <1>5, <1>6 DEF DataInv

\* The run is started for a projection.
LEMMA StartRunKeeps ==
    ASSUME IInv, NEW p \in Contexts, StartRun(p)
    PROVE  IInv'
  <1> DEFINE s == flow[p].seq
  <1>1. /\ At(p, "starting") /\ run.state \in {"pending", "running"} /\ Goto(p, "claimed")
        /\ run' = [run EXCEPT !.state = "running"]
        /\ UNCHANGED <<task, events, files, registered, bridge, lease, faults, overrun>>
    BY DEF StartRun
  <1>2. "claimed" \in Pcs \ {"ready", "recorded"}
    BY DEF Pcs
  <1>3. Steps(p, "claimed", flow[p].todo, flow[p].item)
    BY <1>1, <1>2, GotoSteps DEF IInv, DataInv
  <1>4. flow'[p].pc = "claimed"
    BY <1>3 DEF Steps
  <1>5. /\ Working(flow[p]) /\ flow[p].pc = "starting" /\ s \in DOMAIN events
        /\ events[s] \in Events /\ Event(p) = events[s] /\ flow[p].item = {}
        /\ (Owned(p) => Fenced(flow[p], events[s]))
    BY <1>1, AtFacts
  <1>6. Fits(flow'[p], events[s]) /\ (Owned(p) => Fenced(flow'[p], events[s]))
    BY <1>4, <1>5 DEF Fits, Fenced, Importing
  <1>7. Replaced(s, events[s]) /\ Grown(events[s], events[s])
    BY <1>1, <1>5, SameReplaced DEF IInv, DataInv
  <1>8. FlowInv' /\ BridgeInv'
    BY <1>1, <1>2, <1>3, <1>5, <1>6, <1>7, StepKeeps
  <1>9. run' \in [state : RunStates, items : SUBSET Items]
    BY <1>1 DEF IInv, DataInv, TypeOK, RunStates, ActiveStates
  <1>10. TypeOK'
    BY <1>1, <1>3, <1>9 DEF IInv, DataInv, TypeOK, Steps
  <1>11. DataInv'
    BY <1>1, <1>10, RunStarts
  <1> QED
    BY <1>8, <1>11 DEF IInv

\* The run of a running task is started after a restart.
LEMMA ReconcileKeeps ==
    ASSUME IInv, Reconcile
    PROVE  IInv'
  <1>1. /\ run.state = "pending" /\ run' = [run EXCEPT !.state = "running"]
        /\ UNCHANGED <<task, events, files, registered, bridge, lease, flow, faults, overrun>>
    BY DEF Reconcile
  <1>2. run' \in [state : RunStates, items : SUBSET Items]
    BY <1>1 DEF IInv, DataInv, TypeOK, RunStates, ActiveStates
  <1>3. TypeOK'
    BY <1>1, <1>2 DEF IInv, DataInv, TypeOK
  <1>4. DataInv'
    BY <1>1, <1>3, RunStarts
  <1>5. FlowInv' /\ BridgeInv'
    BY <1>1 DEF IInv, FlowInv, BridgeInv
  <1> QED
    BY <1>4, <1>5 DEF IInv

\* The content of an event as it is recorded.
What(kind, state) == IF Late(state) /\ kind # "artifacts" THEN "ignored" ELSE kind
Now(state) == IF Late(state) THEN task.state ELSE state
List(what, now, items) ==
    CASE what = "artifacts" -> items
      [] what = "ending" /\ now = "succeeded" -> IF items = {} THEN task.items ELSE items
      [] OTHER -> {}

\* The artifacts of an event are artifacts.
LEMMA ListFacts ==
    ASSUME TypeOK, NEW what, NEW now, NEW items \in SUBSET Items
    PROVE  List(what, now, items) \in SUBSET Items
  <1>1. task.items \in SUBSET Items
    BY DEF TypeOK
  <1>2. CASE what = "artifacts"
    BY <1>2 DEF List
  <1>3. CASE what = "ending" /\ now = "succeeded"
    BY <1>1, <1>3 DEF List
  <1>4. CASE what # "artifacts" /\ ~(what = "ending" /\ now = "succeeded")
    BY <1>4 DEF List
  <1> QED
    BY <1>2, <1>3, <1>4

\* A new event has no effects yet.
LEMMA NewFacts ==
    ASSUME NEW kind \in Kinds, NEW state \in AgentStates, NEW items \in SUBSET Items,
           NEW d, d = NewEvent(kind, state, items)
    PROVE  /\ d \in Events /\ Sound(d) /\ d.kind = kind /\ d.state = state /\ d.items = items
           /\ ~d.projected /\ d.merged = 0 /\ \A i \in Items : d.imported[i] = 0
  <1>1. /\ d.kind = kind /\ d.state = state /\ d.items = items /\ d.projected = FALSE
        /\ d.noted = 0 /\ d.imported = [i \in Items |-> 0] /\ d.ready = [i \in Items |-> 0]
        /\ d.failed = {} /\ d.merged = 0 /\ d.told = 0
    BY DEF NewEvent
  <1>2. d \in Events
    BY DEF NewEvent, Events
  <1>3. Sound(d)
    BY <1>1 DEF Sound
  <1> QED
    BY <1>1, <1>2, <1>3

\* One transaction records an event.  A list of artifacts comes from the holder of the task's
\* lease, who has projected every earlier one.
LEMMA RecordKeeps ==
    ASSUME IInv, NEW p \in Contexts, NEW mode \in {"alone", "stream"},
           NEW kind \in {"progress", "artifacts", "ending"}, NEW state \in AgentStates,
           NEW items \in SUBSET Items, Record(p, mode, kind, state, items),
           kind = "ending" <=> state \in TerminalStates,
           flow[p].item = {},
           \/ /\ mode = "stream" /\ bridge = p /\ flow[p].queue = {}
              /\ \A s \in DOMAIN events : events[s].kind = "artifacts" => events[s].projected
           \/ mode = "alone" /\ kind # "artifacts" /\ state # "succeeded"
    PROVE  IInv'
  <1> DEFINE what == What(kind, state)
             now == Now(state)
             list == List(what, now, items)
             d == NewEvent(what, now, list)
             succeeds == /\ run.state \notin TerminalStates
                         /\ what = "ending" /\ now = "succeeded"
  <1>0. PICK seq \in Nat : seq = Len(events) + 1
    <2>1. Len(events) + 1 \in Nat
      BY EventRows DEF IInv, DataInv
    <2> QED
      BY <2>1
  <1>1. TypeOK /\ EndInv /\ SoundInv /\ ListOrder /\ OutputIsLatest /\ FileInv
    BY DEF IInv, DataInv
  <1>2. /\ seq <= MaxEvents
        /\ events' = Append(events, d)
        /\ task' = [state |-> now, items |-> Reduced(what, now, list)]
        /\ run' = [state |-> RunState(what, now), items |-> IF succeeds THEN list ELSE run.items]
        /\ flow' = [flow EXCEPT ![p].mode = mode, ![p].pc = "recorded", ![p].seq = seq]
        /\ UNCHANGED <<files, registered, bridge, lease, faults, overrun>>
    BY <1>0 DEF Record, What, Now, List
  <1>3. what \in Kinds /\ now \in AgentStates /\ (what = "artifacts" <=> kind = "artifacts")
    BY <1>1 DEF What, Now, Kinds, TypeOK
  <1>4. list \in SUBSET Items
    BY <1>1, ListFacts
  <1>5. /\ d \in Events /\ Sound(d) /\ d.kind = what /\ d.state = now /\ d.items = list
        /\ ~d.projected /\ d.merged = 0 /\ \A i \in Items : d.imported[i] = 0
    BY <1>3, <1>4, NewFacts
  <1>6. task.state \in AgentStates /\ run.state \in RunStates /\ task.items \subseteq Items
    BY <1>1 DEF TypeOK
  <1>7. run.state \in TerminalStates \/ task.state \in TerminalStates => run.state = task.state
    BY <1>1 DEF EndInv
  \* What the recorded state and kind are, before and after the end of the task.
  <1>8. run.state \in TerminalStates => now = run.state
    BY <1>7 DEF Now, Late
  <1>9. run.state \notin TerminalStates => now = state /\ what = kind
    BY <1>7 DEF Now, What, Late
  <1>10. /\ run'.state = RunState(what, now)
         /\ run'.items = IF succeeds THEN list ELSE run.items
         /\ task'.state = now /\ task'.items = Reduced(what, now, list)
    BY <1>2
  <1>11. /\ run.state \in TerminalStates => run'.state = run.state
         /\ run.state \notin TerminalStates =>
               /\ state \in TerminalStates => run'.state = state
               /\ state \notin TerminalStates => run'.state \notin TerminalStates
    <2>1. state \in TerminalStates => kind # "artifacts"
      OBVIOUS
    <2>2. "cancel_requested" \notin TerminalStates
      BY DEF TerminalStates
    <2> QED
      BY <2>1, <2>2, <1>9, <1>10 DEF RunState
  <1>12. run'.state \in RunStates
    <2>1. now \in TerminalStates \cup {"cancel_requested"} => now \in RunStates
      BY DEF RunStates, ActiveStates
    <2> QED
      BY <2>1, <1>6, <1>10 DEF RunState
  <1>13. Reduced(what, now, list) \in SUBSET Items
    BY <1>4, <1>6 DEF Reduced
  <1>14. /\ events' \in Seq(Events) /\ Len(events') = seq
         /\ DOMAIN events' = DOMAIN events \cup {seq} /\ seq \notin DOMAIN events
         /\ events'[seq] = d /\ \A t \in DOMAIN events : events'[t] = events[t]
    BY <1>0, <1>1, <1>2, <1>5, EventAppended
  <1>15. /\ DOMAIN events = 1..Len(events) /\ Len(events) \in Nat
         /\ \A t \in DOMAIN events : t \in Rows /\ events[t] \in Events
    BY <1>1, EventRows
  <1>16. task' \in [state : AgentStates, items : SUBSET Items] /\ run' \in [state : RunStates, items : SUBSET Items]
    <2>1. /\ run' = [state |-> run'.state, items |-> run'.items] /\ run'.items \in SUBSET Items
      BY <1>2, <1>4, <1>1 DEF TypeOK
    <2>2. task' \in [state : AgentStates, items : SUBSET Items]
      BY <1>2, <1>3, <1>13
    <2> HIDE DEF succeeds
    <2>3. run' \in [state : RunStates, items : SUBSET Items]
      BY <2>1, <1>12
    <2> QED
      BY <2>2, <2>3
  <1> DEFINE f == [flow[p] EXCEPT !.mode = mode, !.pc = "recorded", !.seq = seq]
  <1>17. /\ f \in Flows /\ f.mode = mode /\ f.pc = "recorded" /\ f.seq = seq
         /\ f.queue = flow[p].queue /\ f.item = {}
    <2>1. flow[p] \in Flows
      BY <1>1 DEF TypeOK
    <2>2. mode \in Modes /\ "recorded" \in Pcs
      BY DEF Modes, Pcs
    <2> QED
      BY <2>1, <2>2 DEF Flows
  <1>18. /\ flow' \in [Contexts -> Flows] /\ flow'[p] = f
         /\ \A q \in Contexts \ {p} : flow'[q] = flow[q]
    <2>1. flow' = [flow EXCEPT ![p] = f]
      BY <1>2
    <2> HIDE DEF f
    <2> QED
      BY <2>1, <1>1, <1>17, FlowReplaced
  <1> HIDE DEF f, d, what, now, list
  <1>19. TypeOK'
    BY <1>1, <1>2, <1>14, <1>16, <1>18 DEF TypeOK
  <1>20. SoundInv'
    BY <1>1, <1>5, <1>14 DEF SoundInv
  \* Before the end of the run no event has ended it.
  <1>21. run.state \in TerminalStates <=> \E t \in DOMAIN events : events[t].kind = "ending"
    BY <1>1 DEF EndInv
  <1>22. Succeeds(seq)' <=> succeeds
    <2>1. 1..(seq - 1) = DOMAIN events
      BY <1>0, <1>15
    <2> QED
      BY <2>1, <1>5, <1>14, <1>21 DEF Succeeds
  <1>23. \A t \in DOMAIN events : (Lists(t)' <=> Lists(t)) /\ (Succeeds(t)' <=> Succeeds(t))
    <2> SUFFICES ASSUME NEW t \in DOMAIN events
                 PROVE  (Lists(t)' <=> Lists(t)) /\ (Succeeds(t)' <=> Succeeds(t))
      OBVIOUS
    <2>1. \A u \in 1..(t - 1) : u \in DOMAIN events
      BY <1>15
    <2>2. Succeeds(t)' <=> Succeeds(t)
      BY <2>1, <1>14 DEF Succeeds
    <2> QED
      BY <2>2, <1>14 DEF Lists
  <1>24. EndInv'
    <2>1. run'.state \in TerminalStates \/ task'.state \in TerminalStates => run'.state = task'.state
      BY <1>8, <1>9, <1>10, <1>11
    <2>2. run'.state \in TerminalStates <=> \E t \in DOMAIN events' : events'[t].kind = "ending"
      BY <1>5, <1>9, <1>11, <1>14, <1>21
    <2>3. ASSUME NEW t \in DOMAIN events', events'[t].projected, events'[t].kind # "ignored",
                 events'[t].state \in TerminalStates
          PROVE  run'.state = events'[t].state
      <3>1. t \in DOMAIN events /\ events'[t] = events[t]
        BY <2>3, <1>5, <1>14
      <3> QED
        BY <2>3, <3>1, <1>1, <1>11 DEF EndInv
    <2> QED
      BY <2>1, <2>2, <2>3 DEF EndInv
  <1>25. ListOrder'
    <2> SUFFICES ASSUME NEW t \in DOMAIN events', Lists(t)', NEW u \in 1..(t - 1),
                        Listed(events'[u])
                 PROVE  events'[u].merged = 1
      BY DEF ListOrder
    <2>1. u \in DOMAIN events /\ events'[u] = events[u]
      BY <1>0, <1>14, <1>15
    <2>2. CASE t \in DOMAIN events
      BY <2>1, <2>2, <1>1, <1>23 DEF ListOrder
    <2>3. CASE t = seq
      <3>1. kind = "artifacts" \/ succeeds
        BY <2>3, <1>3, <1>5, <1>14, <1>22 DEF Lists
      <3>2. mode = "stream"
        BY <3>1, <1>9
      <3>3. events[u].projected
        BY <3>2, <2>1 DEF Listed
      <3>4. Sound(events[u])
        BY <2>1, <1>1 DEF SoundInv
      <3> QED
        BY <2>1, <3>3, <3>4 DEF Sound
    <2> QED
      BY <2>2, <2>3, <1>14
  <1>26. OutputIsLatest'
    <2> SUFFICES ASSUME NEW t \in DOMAIN events', Lists(t)', Succeeds(t)' \/ events'[t].merged > 0,
                        \A u \in (t + 1)..seq : ~Lists(u)'
                 PROVE  run'.items = events'[t].items
      BY <1>14 DEF OutputIsLatest
    <2>1. CASE t \in DOMAIN events
      <3>1. seq \in (t + 1)..seq
        BY <2>1, <1>0, <1>15
      <3>2. ~Lists(seq)'
        BY <3>1
      <3>3. ~succeeds
        BY <3>2, <1>22 DEF Lists
      <3>4. \A u \in (t + 1)..Len(events) : ~Lists(u)
        <4> SUFFICES ASSUME NEW u \in (t + 1)..Len(events)
                     PROVE  ~Lists(u)
          OBVIOUS
        <4>1. u \in DOMAIN events /\ u \in (t + 1)..seq
          BY <2>1, <1>0, <1>15
        <4> QED
          BY <4>1, <1>23
      <3>5. Lists(t) /\ (Succeeds(t) \/ events[t].merged > 0)
        BY <2>1, <1>14, <1>23
      <3>6. run.items = events[t].items
        BY <2>1, <3>4, <3>5, <1>1 DEF OutputIsLatest
      <3> QED
        BY <2>1, <3>3, <3>6, <1>10, <1>14
    <2>2. CASE t = seq
      <3>1. succeeds
        BY <2>2, <1>5, <1>14, <1>22
      <3> QED
        BY <2>2, <3>1, <1>5, <1>10, <1>14
    <2> QED
      BY <2>1, <2>2, <1>14
  <1>27. FileInv'
    <2>1. ASSUME NEW t \in DOMAIN events', NEW i \in Items, events'[t].imported[i] > 0
          PROVE  i \in registered
      BY <2>1, <1>1, <1>5, <1>14 DEF FileInv
    <2>2. ASSUME NEW i \in registered \ (files \cup overrun)
          PROVE  \E t \in DOMAIN events' :
                    /\ events'[t].kind = "artifacts" /\ i \in events'[t].items
                    /\ i \in events'[t].failed \/ (~events'[t].projected /\ events'[t].imported[i] = 0)
      <3>1. PICK t \in DOMAIN events :
               /\ events[t].kind = "artifacts" /\ i \in events[t].items
               /\ i \in events[t].failed \/ (~events[t].projected /\ events[t].imported[i] = 0)
        BY <2>2, <1>1 DEF FileInv
      <3> QED
        BY <3>1, <1>14
    <2> QED
      BY <1>2, <2>1, <2>2 DEF FileInv
  <1>28. FlowInv' /\ BridgeInv'
    <2>1. FlowFits(p, flow[p], events, lease)
      BY DEF IInv, FlowInv
    <2>2. FlowFits(p, flow'[p], events', lease')
      BY <2>1, <1>14, <1>17, <1>18 DEF FlowFits, Fits, Importing
    <2>3. bridge' = p => Ahead(flow'[p], events')
      <3>1. CASE mode = "alone"
        BY <3>1, <1>17, <1>18 DEF Ahead
      <3>2. CASE mode = "stream"
        <4>1. \A t \in DOMAIN events' : events'[t].kind = "artifacts" /\ ~events'[t].projected => t = seq
          BY <3>2, <1>14
        <4> QED
          BY <3>2, <4>1, <1>17, <1>18 DEF Ahead
      <3> QED
        BY <3>1, <3>2
    <2>4. \A t \in DOMAIN events' : events'[t] \in Events
      BY <1>5, <1>14, <1>15
    <2>5. \A t \in DOMAIN events : Grown(events[t], events'[t])
      BY <1>14 DEF Grown
    <2>6. \A t \in DOMAIN events' \ DOMAIN events :
             bridge' \in Contexts \ {p} => events'[t].kind # "artifacts"
      BY <1>2, <1>3, <1>5, <1>14
    <2> QED
      BY <1>2, <1>14, <1>18, <2>2, <2>3, <2>4, <2>5, <2>6, OthersKeep
  <1> QED
    BY <1>19, <1>20, <1>24, <1>25, <1>26, <1>27, <1>28 DEF IInv, DataInv

\* The bridge records a frame: by BridgeInv every earlier list is projected.
LEMMA RecordFrameKeeps ==
    ASSUME IInv, NEW p \in Contexts, RecordFrame(p)
    PROVE  IInv'
  <1>1. flow[p].mode = "stream" /\ flow[p].pc = "ready" /\ bridge = p
    BY DEF RecordFrame
  <1>2. Ahead(flow[p], events) /\ FlowFits(p, flow[p], events, lease)
    BY <1>1 DEF IInv, BridgeInv, FlowInv
  <1>3. flow[p].queue = {} /\ flow[p].item = {}
    BY <1>1, <1>2 DEF Ahead, FlowFits
  <1>4. \A s \in DOMAIN events : events[s].kind = "artifacts" => events[s].projected
    BY <1>1, <1>2, <1>3 DEF Ahead
  <1>5. "running" \in AgentStates /\ "running" \notin TerminalStates
    BY DEF AgentStates, RunStates, ActiveStates, TerminalStates
  <1>6. \A end \in Ends : end \in AgentStates /\ end \in TerminalStates
    BY ProjectionAssumption DEF AgentStates, RunStates
  <1>7. CASE Record(p, "stream", "progress", "running", {})
    BY <1>1, <1>3, <1>4, <1>5, <1>7, RecordKeeps
  <1>8. CASE \E items \in SUBSET Items : Record(p, "stream", "artifacts", "running", items)
    BY <1>1, <1>3, <1>4, <1>5, <1>8, RecordKeeps
  <1>9. CASE \E end \in Ends, items \in SUBSET Items : Record(p, "stream", "ending", end, items)
    BY <1>1, <1>3, <1>4, <1>6, <1>9, RecordKeeps
  <1> QED
    BY <1>7, <1>8, <1>9 DEF RecordFrame

\* Another caller records what it knows: neither artifacts nor a success.
LEMMA RecordAloneKeeps ==
    ASSUME IInv, NEW p \in Contexts, RecordAlone(p)
    PROVE  IInv'
  <1>1. flow[p].mode = "none"
    BY DEF RecordAlone
  <1>2. flow[p].item = {}
    BY <1>1 DEF IInv, FlowInv, FlowFits
  <1>3. ASSUME NEW state \in {"waiting_permission", "pending", "cancel_requested"}
        PROVE  state \in AgentStates /\ state \notin TerminalStates /\ state # "succeeded"
    BY DEF AgentStates, RunStates, ActiveStates, TerminalStates
  <1>4. \A end \in Ends : end \in AgentStates /\ end \in TerminalStates
    BY ProjectionAssumption DEF AgentStates, RunStates
  <1>5. CASE \E state \in {"waiting_permission", "pending", "cancel_requested"} :
                Record(p, "alone", "progress", state, {})
    BY <1>2, <1>3, <1>5, RecordKeeps
  <1>6. CASE \E end \in Ends \ {"succeeded"} : Record(p, "alone", "ending", end, {})
    BY <1>2, <1>4, <1>6, RecordKeeps
  <1> QED
    BY <1>5, <1>6 DEF RecordAlone

\* The task and its run as they are created.
LEMMA InitHolds ==
    ASSUME Init
    PROVE  IInv
  <1>1. DOMAIN events = {} /\ Len(events) = 0 /\ events \in Seq(Events)
    BY DEF Init
  <1>2. "pending" \in AgentStates /\ "pending" \in RunStates /\ "pending" \notin TerminalStates
    BY DEF AgentStates, RunStates, ActiveStates, TerminalStates
  <1>3. TypeOK
    <2>1. /\ task \in [state : AgentStates, items : SUBSET Items]
          /\ run \in [state : RunStates, items : SUBSET Items]
      BY <1>2 DEF Init
    <2>2. flow \in [Contexts -> Flows]
      BY IdleFlow DEF Init
    <2>3. Len(events) <= MaxEvents
      BY <1>1, ProjectionAssumption
    <2> QED
      BY <1>1, <2>1, <2>2, <2>3 DEF Init, TypeOK
  <1>4. SoundInv /\ OutputIsLatest /\ ListOrder /\ FileInv
    BY <1>1 DEF Init, SoundInv, OutputIsLatest, ListOrder, FileInv
  <1>5. EndInv
    BY <1>1, <1>2 DEF Init, EndInv
  <1>6. FlowInv
    BY IdleFlow DEF Init, FlowInv
  <1>7. BridgeInv
    BY ProjectionAssumption DEF Init, BridgeInv
  <1> QED
    BY <1>3, <1>4, <1>5, <1>6, <1>7 DEF IInv, DataInv

-----------------------------------------------------------------------------
(* Removals. *)

\* Whoever is about to remove a file keeps its place when another flow moves.
LEMMA RemovalStays ==
    ASSUME IInv, RemovalInv, NEW p \in Contexts,
           \A q \in Contexts \ {p} : flow'[q] = flow[q],
           \A q \in Contexts \ {p}, s \in Rows : lease[s] = q => lease'[s] = q,
           overrun' = overrun, flow'[p].pc # "removing"
    PROVE  RemovalInv'
  <1> SUFFICES ASSUME NEW q \in Contexts, At(q, "removing")'
               PROVE  Owned(q)' \/ flow'[q].item \subseteq overrun'
    BY DEF RemovalInv
  <1>1. q # p /\ flow'[q] = flow[q]
    BY DEF At
  <1>2. At(q, "removing")
    BY <1>1 DEF At
  <1>3. flow[q].seq \in Rows
    BY <1>2, AtFacts
  <1>4. Owned(q) \/ flow[q].item \subseteq overrun
    BY <1>2 DEF RemovalInv
  <1> QED
    BY <1>1, <1>3, <1>4 DEF Owned

\* A flow comes to a removal by its look at the term only.
LEMMA FlowRemoves ==
    ASSUME IInv, RemovalInv, NEW p \in Contexts,
           \/ FlowStep(p) /\ ~Spoil(p)
           \/ RecordFrame(p) \/ RecordAlone(p) \/ StartBridge(p) \/ Stream(p) \/ Stop(p) \/ Crash(p)
    PROVE  RemovalInv'
  <1>1. flow \in [Contexts -> Flows] /\ lease \in [Rows -> Contexts \cup {Free}]
    BY DEF IInv, DataInv, TypeOK
  <1>2. Free \notin Contexts
    BY ProjectionAssumption
  <1>3. ASSUME NEW f, flow' = [flow EXCEPT ![p] = f]
        PROVE  flow'[p] = f /\ \A q \in Contexts \ {p} : flow'[q] = flow[q]
    BY <1>1, <1>3
  <1>4. ASSUME NEW pc, Goto(p, pc)
        PROVE  flow'[p].pc = pc /\ \A q \in Contexts \ {p} : flow'[q] = flow[q]
    <2>1. flow' = [flow EXCEPT ![p] = [flow[p] EXCEPT !.pc = pc]]
      BY <1>4 DEF Goto
    <2>2. [flow[p] EXCEPT !.pc = pc].pc = pc
      BY <1>1 DEF Flows
    <2> QED
      BY <1>3, <2>1, <2>2
  <1>5. ASSUME NEW i, Done(p, i)
         PROVE  flow'[p].pc = "importing" /\ \A q \in Contexts \ {p} : flow'[q] = flow[q]
    BY <1>1, <1>5 DEF Done, Flows
  <1>6. ASSUME Continued(p)
         PROVE  flow'[p].pc = "ready" /\ \A q \in Contexts \ {p} : flow'[q] = flow[q]
    <2>1. CASE flow[p].mode = "alone"
      BY <1>1, <1>6, <2>1 DEF Continued, Idle
    <2>2. CASE flow[p].mode # "alone"
      BY <1>1, <1>6, <2>2 DEF Continued, Flows
    <2> QED
      BY <2>1, <2>2
  <1>7. CASE SeePending(p) \/ StartRun(p) \/ Note(p) \/ Reject(p) \/ Fail(p) \/ Fetch(p)
             \/ Download(p) \/ Register(p) \/ Remove(p) \/ Merge(p)
    <2>1. /\ \A q \in Contexts \ {p} : flow'[q] = flow[q]
          /\ lease' = lease /\ overrun' = overrun /\ flow'[p].pc # "removing"
      <3>1. CASE SeePending(p) \/ StartRun(p) \/ Remove(p)
        BY <1>4, <3>1 DEF SeePending, StartRun, Remove
      <3>2. CASE Note(p) \/ Merge(p)
        BY <1>1, <1>4, <3>2 DEF Note, Merge, Flows
      <3>3. CASE Reject(p) \/ Fail(p)
        BY <1>1, <1>5, <3>3 DEF Reject, Fail, Flows
      <3>4. CASE Fetch(p)
        BY <1>1, <1>5, <3>4 DEF Fetch, Flows
      <3>5. CASE Download(p)
        BY <1>4, <3>5 DEF Download
      <3>6. CASE Register(p)
        BY <1>4, <1>5, <3>6 DEF Register
      <3> QED
        BY <1>7, <3>1, <3>2, <3>3, <3>4, <3>5, <3>6
    <2> QED
      BY <2>1, RemovalStays
  <1>8. CASE ReplayNext(p) \/ EndFlow(p) \/ Stream(p) \/ StartBridge(p) \/ Crash(p)
    <2>1. /\ \A q \in Contexts \ {p} : flow'[q] = flow[q]
          /\ lease' = lease /\ overrun' = overrun /\ flow'[p].pc # "removing"
      <3>1. CASE ReplayNext(p)
        BY <1>1, <3>1 DEF ReplayNext, Flows
      <3>2. CASE Stream(p)
        BY <1>1, <3>2 DEF Stream, Flows
      <3>3. CASE EndFlow(p) \/ StartBridge(p) \/ Crash(p)
        <4>1. CASE EndFlow(p) \/ Crash(p)
          <5>1. flow' = [flow EXCEPT ![p] = Idle]
            BY <4>1 DEF EndFlow, Crash
          <5> QED
            BY <1>3, <4>1, <5>1 DEF EndFlow, Crash, Idle
        <4>2. CASE StartBridge(p)
          <5>1. flow' = [flow EXCEPT ![p] = [Idle EXCEPT !.mode = "replay", !.queue = Pending]]
            BY <4>2 DEF StartBridge
          <5>2. [Idle EXCEPT !.mode = "replay", !.queue = Pending].pc = "ready"
            BY DEF Idle
          <5> QED
            BY <1>3, <4>2, <5>1, <5>2 DEF StartBridge
        <4> QED
          BY <3>3, <4>1, <4>2
      <3> QED
        BY <1>8, <3>1, <3>2, <3>3
    <2> QED
      BY <2>1, RemovalStays
  <1>9. CASE RecordFrame(p) \/ RecordAlone(p)
    <2>1. /\ \A q \in Contexts \ {p} : flow'[q] = flow[q]
          /\ lease' = lease /\ overrun' = overrun /\ flow'[p].pc # "removing"
      <3>1. PICK mode, kind, state, items : Record(p, mode, kind, state, items)
        BY <1>9 DEF RecordFrame, RecordAlone
      <3>2. flow' = [flow EXCEPT ![p] = [@ EXCEPT !.mode = mode, !.pc = "recorded",
                                                   !.seq = Len(events) + 1]]
        BY <3>1 DEF Record
      <3>4. flow'[p].pc = "recorded"
        BY <1>1, <3>2 DEF Flows
      <3>3. lease' = lease /\ overrun' = overrun
        BY <3>1 DEF Record
      <3> QED
        BY <1>3, <3>2, <3>3, <3>4
    <2> QED
      BY <2>1, RemovalStays
  <1>10. CASE Claim(p) \/ Mark(p)
    <2>1. /\ \A q \in Contexts \ {p} : flow'[q] = flow[q]
          /\ overrun' = overrun /\ flow'[p].pc # "removing"
      BY <1>10, <1>4, <1>6 DEF Claim, Mark
    <2>2. \A q \in Contexts \ {p}, s \in Rows : lease[s] = q => lease'[s] = q
      BY <1>1, <1>2, <1>10 DEF Claim, Mark, Owned
    <2> QED
      BY <2>1, <2>2, RemovalStays
  <1>11. CASE Stop(p)
    <2>1. /\ \A q \in Contexts \ {p} : flow'[q] = flow[q]
          /\ overrun' = overrun /\ flow'[p].pc # "removing"
      BY <1>11, <1>3 DEF Stop, Idle
    <2>2. \A q \in Contexts \ {p}, s \in Rows : lease[s] = q => lease'[s] = q
      BY <1>1, <1>2, <1>11 DEF Stop, Releases
    <2> QED
      BY <2>1, <2>2, RemovalStays
  <1> QED
    BY <1>7, <1>8, <1>9, <1>10, <1>11 DEF FlowStep

\* A removal is decided by the owner, and when its term ends before the removal that is noted.
LEMMA RemovalKeeps ==
    ASSUME IInv, RemovalInv, [Next]_vars
    PROVE  RemovalInv'
  <1>1. CASE UNCHANGED vars
    BY <1>1 DEF vars, RemovalInv, At, Owned
  <1>2. ASSUME NEW p \in Contexts, Spoil(p)
        PROVE  RemovalInv'
    <2>1. flow \in [Contexts -> Flows]
      BY DEF IInv, DataInv, TypeOK
    <2>2. /\ Owned(p) /\ flow' = [flow EXCEPT ![p].pc = "removing"]
          /\ lease' = lease /\ overrun' = overrun
      BY <1>2 DEF Spoil, Goto
    <2>3. /\ flow'[p].seq = flow[p].seq
          /\ \A q \in Contexts \ {p} : flow'[q] = flow[q]
      BY <2>1, <2>2 DEF Flows
    <2>4. Owned(p)'
      BY <2>2, <2>3 DEF Owned
    <2>5. ASSUME NEW q \in Contexts \ {p}, At(q, "removing")'
          PROVE  Owned(q)' \/ flow'[q].item \subseteq overrun'
      BY <2>2, <2>3, <2>5 DEF RemovalInv, At, Owned
    <2> QED
      BY <2>4, <2>5 DEF RemovalInv
  <1>3. ASSUME NEW s \in Rows, ExpireProjection(s)
        PROVE  RemovalInv'
    <2> SUFFICES ASSUME NEW p \in Contexts, At(p, "removing")'
                 PROVE  Owned(p)' \/ flow'[p].item \subseteq overrun'
      BY DEF RemovalInv
    <2>1. /\ flow' = flow /\ lease' = [lease EXCEPT ![s] = Free]
          /\ overrun' = overrun \cup Removes(lease[s], s)
      BY <1>3 DEF ExpireProjection
    <2>2. At(p, "removing")
      BY <2>1 DEF At
    <2>3. Owned(p) \/ flow[p].item \subseteq overrun
      BY <2>2 DEF RemovalInv
    <2>4. lease \in [Rows -> Contexts \cup {Free}]
      BY DEF IInv, DataInv, TypeOK
    <2>5. CASE Owned(p) /\ flow[p].seq = s
      BY <2>1, <2>2, <2>5 DEF Owned, Removes, BusyWith, At
    <2>6. CASE Owned(p) /\ flow[p].seq # s
      BY <2>1, <2>4, <2>6 DEF Owned
    <2>7. CASE flow[p].item \subseteq overrun
      BY <2>1, <2>7
    <2> QED
      BY <2>3, <2>5, <2>6, <2>7
  <1>4. CASE ExpireBridge \/ Reconcile
    BY <1>4 DEF ExpireBridge, Reconcile, RemovalInv, At, Owned
  <1>5. ASSUME NEW p \in Contexts, FlowStep(p)
        PROVE  RemovalInv'
    BY <1>2, <1>5, FlowRemoves
  <1>6. ASSUME NEW p \in Contexts,
               RecordFrame(p) \/ RecordAlone(p) \/ StartBridge(p) \/ Stream(p) \/ Stop(p) \/ Crash(p)
        PROVE  RemovalInv'
    BY <1>6, FlowRemoves
  <1> QED
    BY <1>1, <1>3, <1>4, <1>5, <1>6 DEF Next

\* Every step of the specification keeps the invariant.
LEMMA NextKeeps ==
    ASSUME IInv, RemovalInv, [Next]_vars
    PROVE  IInv'
  <1>1. CASE UNCHANGED vars
    BY <1>1 DEF vars, IInv, DataInv, TypeOK, SoundInv, EndInv, OutputIsLatest, ListOrder, FileInv,
                Lists, Succeeds, FlowInv, BridgeInv
  <1>2. ASSUME NEW p \in Contexts, FlowStep(p)
        PROVE  IInv'
    BY <1>2, ReplayNextKeeps, EndFlowKeeps, ClaimKeeps, SeePendingKeeps, StartRunKeeps, NoteKeeps,
       RejectKeeps, FailKeeps, FetchKeeps, DownloadKeeps, RegisterKeeps, SpoilKeeps,
       RemoveKeeps, MergeKeeps, MarkKeeps DEF FlowStep
  <1>3. ASSUME NEW p \in Contexts,
               RecordFrame(p) \/ RecordAlone(p) \/ StartBridge(p) \/ Stream(p) \/ Stop(p) \/ Crash(p)
        PROVE  IInv'
    BY <1>3, RecordFrameKeeps, RecordAloneKeeps, StartBridgeKeeps, StreamKeeps, StopKeeps, CrashKeeps
  <1>4. CASE (\E s \in Rows : ExpireProjection(s)) \/ ExpireBridge
    BY <1>4, ExpireKeeps
  <1>5. CASE Reconcile
    BY <1>5, ReconcileKeeps
  <1> QED
    BY <1>1, <1>2, <1>3, <1>4, <1>5 DEF Next

-----------------------------------------------------------------------------
(* The theorems. *)

\* The inductive invariant: however the contexts, the recovery loop and ended terms interleave,
\* what record_task_event() and _project_event() leave behind fits.
THEOREM ProjectionInvariant == Spec => [](IInv /\ RemovalInv)
  <1>1. Init => IInv /\ RemovalInv
    <2>1. Init => RemovalInv
      BY DEF Init, RemovalInv, At, Idle
    <2> QED
      BY <2>1, InitHolds
  <1>2. IInv /\ RemovalInv /\ [Next]_vars => (IInv /\ RemovalInv)'
    BY NextKeeps, RemovalKeeps
  <1> QED
    BY <1>1, <1>2, PTL DEF Spec

\* The variables keep their types.
THEOREM TypeCorrect == Spec => []TypeOK
  <1>1. IInv => TypeOK
    BY DEF IInv, DataInv
  <1> QED
    BY <1>1, ProjectionInvariant, PTL

\* The projection of agent events is exact: each effect once, none missing when an event is
\* projected, the output that of the last list, and no registered file removed for another.
THEOREM ProjectionIsExactHolds == Spec => []ProjectionIsExact
  <1>1. IInv => ProjectionIsExact
    <2> SUFFICES ASSUME IInv
                 PROVE  ProjectionIsExact
      OBVIOUS
    <2>1. TypeOK /\ SoundInv /\ EndInv /\ OutputIsLatest /\ FileInv
      BY DEF IInv, DataInv
    <2>2. ASSUME NEW s \in DOMAIN events
          PROVE  Sound(events[s]) /\ events[s] \in Events
      BY <2>1, EventRows DEF SoundInv
    <2>3. EffectsAreOnce
      <3>1. ASSUME NEW s \in DOMAIN events
            PROVE  events[s].told <= 1
        BY <2>2 DEF Sound
      <3> QED
        BY <2>2, <3>1 DEF EffectsAreOnce, Sound
    <2>4. ProjectedIsComplete
      <3> SUFFICES ASSUME NEW s \in DOMAIN events, events[s].projected
                   PROVE  /\ events[s].noted = 1
                          /\ events[s].told = IF events[s].kind = "ignored" THEN 0 ELSE 1
                          /\ events[s].kind # "ignored" /\ events[s].state \in TerminalStates =>
                                 run.state = events[s].state
                          /\ events[s].kind = "artifacts" /\ events[s].items # {} =>
                                 /\ events[s].merged = 1
                                 /\ \A i \in events[s].items :
                                       events[s].imported[i] = 1 \/ i \in events[s].failed
        BY DEF ProjectedIsComplete
      <3>1. Sound(events[s])
        BY <2>2
      <3>2. events[s].told = IF events[s].kind = "ignored" THEN 0 ELSE 1
        BY <3>1 DEF Sound
      <3>3. events[s].noted = 1
        BY <3>1 DEF Sound
      <3>4. events[s].kind = "artifacts" /\ events[s].items # {} =>
               /\ events[s].merged = 1
               /\ \A i \in events[s].items : events[s].imported[i] = 1 \/ i \in events[s].failed
        BY <3>1 DEF Sound, Listed, Settles
      <3>5. events[s].kind # "ignored" /\ events[s].state \in TerminalStates =>
               run.state = events[s].state
        BY <2>1 DEF EndInv
      <3> QED
        BY <3>2, <3>3, <3>4, <3>5
    <2>5. FilesAreKept
      <3>1. \A s \in DOMAIN events, i \in Items : events[s].imported[i] > 0 => i \in registered
        BY <2>1 DEF FileInv
      <3>2. ASSUME NEW i \in registered \ (files \cup overrun)
            PROVE  \E s \in DOMAIN events : /\ events[s].kind = "artifacts" /\ i \in events[s].items
                                            /\ events[s].projected => i \in events[s].failed
        <4>1. PICK s \in DOMAIN events :
                 /\ events[s].kind = "artifacts" /\ i \in events[s].items
                 /\ i \in events[s].failed \/ (~events[s].projected /\ events[s].imported[i] = 0)
          BY <2>1, <3>2 DEF FileInv
        <4> QED
          BY <4>1
      <3> QED
        BY <3>1, <3>2 DEF FilesAreKept
    <2> QED
      BY <2>1, <2>3, <2>4, <2>5 DEF ProjectionIsExact
  <1> QED
    BY <1>1, ProjectionInvariant, PTL

=============================================================================
