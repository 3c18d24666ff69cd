--------------------------- MODULE PropagationProofs ---------------------------
(***************************************************************************)
(* Proofs about propagation, for any systems, rules, mappings and changes. *)
(* First where things go: a job follows a rule, and a worker writes the    *)
(* fields that its event leads to the target.  Then what they carry: as    *)
(* long as no event leads a field into a set of systems from elsewhere, it *)
(* has their own values wherever it passes (a record, a copy, a poll, an   *)
(* event, a job's payload).  Then that what was delivered stands.          *)
(***************************************************************************)
EXTENDS Propagation, Deployment, TLAPS

\* A rule leads from an accepted event to a job's target.
Routed(j) == j.event \in events /\ j.to \in Rules[j.event.source, j.event.service]

JobsRouted == \A j \in queued : Routed(j)

\* A worker has a job of its queue, and for the target what its event leads there.
WorkRouted ==
    \A q \in Queues : work[q] # Idle =>
        /\ Routed(work[q].job)
        /\ QueueOf(work[q].job.to) = q
        /\ \A f \in Fields : work[q].payload[f] # None =>
                                Leads(work[q].job.event, work[q].job.to, f)

RoutesInv == TypeOK /\ JobsRouted /\ WorkRouted

LEMMA JobParts ==
    ASSUME NEW j \in Jobs
    PROVE  /\ j.event \in Events /\ j.to \in Systems /\ j.failures \in 0 .. MaxAttempts - 1
           /\ j.event.source \in Systems /\ j.event.service \in Fields /\ j.event.values \in Given
           /\ QueueOf(j.to) \in Queues /\ Delivery(j) \in Deliveries
BY DEF Jobs, Events, QueueOf, Queues, Delivery, Deliveries

LEMMA SeededRecord == Seeded \in Records
BY PropagationAssumption DEF Seeded, Records, Contents

\* The fields of one set of values over those of a record.
LEMMA OverContents ==
    ASSUME NEW g \in Given, NEW c \in Contents
    PROVE  /\ Over(g, c) \in Contents
           /\ \A f \in Fields : Over(g, c)[f] = IF g[f] = None THEN c[f] ELSE g[f]
BY DEF Over, Contents, Given

LEMMA EventAtGiven ==
    ASSUME NEW s \in Systems, NEW f \in Fields, NEW v \in Values
    PROVE  EventAt(s, f, v) \in Events
BY DEF EventAt, Events, Given

LEMMA RulesLead ==
    ASSUME NEW s \in Systems, NEW f \in Fields, NEW t \in Rules[s, f] PROVE t \in Systems
<1>1. Rules \in [Systems \X Fields -> SUBSET Systems]
    BY PropagationAssumption
<1> QED BY <1>1

LEMMA SentEvents == ASSUME NEW r \in Requests PROVE Sent(r) \in Events
BY PropagationAssumption DEF Sent, Events, Changes

LEMMA EventOfEvents ==
    ASSUME TypeOK, NEW d \in Departments, NEW f \in Fields PROVE EventOf(d, f) \in Events
<1>1. look[d].columns[f] \in Values /\ d \in Systems
    BY DEF TypeOK, Records, Contents, Departments
<1> QED BY <1>1, EventAtGiven DEF EventOf

-----------------------------------------------------------------------------
(* Where jobs go. *)

LEMMA RoutesInit == Init => RoutesInv
<1> SUFFICES ASSUME Init PROVE RoutesInv
    OBVIOUS
<1> USE PropagationAssumption DEF Init
<1>1. Seeded \in Records
    BY SeededRecord
<1>2. TypeOK
    BY <1>1 DEF TypeOK, Contents, Departments
<1>3. JobsRouted /\ WorkRouted
    BY DEF JobsRouted, WorkRouted
<1> QED BY <1>2, <1>3 DEF RoutesInv

\* What accepting an event keeps, and what it adds.
LEMMA IngestKeeps ==
    ASSUME RoutesInv, NEW e \in Events, Ingest(e)
    PROVE  /\ events' \subseteq Events /\ queued' \subseteq Jobs /\ JobsRouted'
           /\ events \subseteq events' /\ \A x \in events' : x \in events \/ x = e
           /\ \A j \in queued' : j \in queued \/ j.to # j.event.source
<1>0. events \subseteq Events /\ queued \subseteq Jobs /\ JobsRouted
    BY DEF RoutesInv, TypeOK
<1>1. CASE e \in events
    <2>1. events' = events /\ queued' = queued
        BY <1>1 DEF Ingest
    <2> QED BY <1>0, <2>1 DEF JobsRouted, Routed
<1>2. CASE e \notin events
    <2> DEFINE new == {[event |-> e, to |-> t, failures |-> 0] : t \in Targets(e.source, e.service)}
    <2>1. events' = events \cup {e} /\ queued' \subseteq queued \cup new
        BY <1>2 DEF Ingest
    <2>2. e.source \in Systems /\ e.service \in Fields
        BY DEF Events
    <2>3. ASSUME NEW j \in new
          PROVE  /\ j \in Jobs /\ j.event = e /\ j.to \in Rules[e.source, e.service]
                 /\ j.to # e.source
        <3>1. PICK t \in Targets(e.source, e.service) : j = [event |-> e, to |-> t, failures |-> 0]
            OBVIOUS
        <3>2. t \in Rules[e.source, e.service] /\ t # e.source
            BY DEF Targets, RuleTargets
        <3>3. t \in Systems
            BY <2>2, <3>2, RulesLead
        <3>4. 0 \in 0 .. MaxAttempts - 1
            BY PropagationAssumption
        <3> QED BY <3>1, <3>2, <3>3, <3>4 DEF Jobs
    <2> HIDE DEF new
    <2>4. events' \subseteq Events /\ queued' \subseteq Jobs
        BY <1>0, <2>1, <2>3
    <2>5. JobsRouted'
        BY <1>0, <2>1, <2>3 DEF JobsRouted, Routed
    <2> QED BY <2>1, <2>3, <2>4, <2>5
<1> QED BY <1>1, <1>2

\* What a worker has stays routed when events are only added.
LEMMA WorkStays ==
    ASSUME WorkRouted, events \subseteq events', work' = work PROVE WorkRouted'
BY DEF WorkRouted, Routed

\* It stays so when some workers go on with their jobs and payloads, or end.
LEMMA WorkGoesOn ==
    ASSUME WorkRouted, events' = events,
           \A q \in Queues : work'[q] # Idle =>
                /\ work[q] # Idle
                /\ work'[q].job = work[q].job /\ work'[q].payload = work[q].payload
    PROVE  WorkRouted'
<1>1. ASSUME NEW q \in Queues, work'[q] # Idle
      PROVE  /\ Routed(work[q].job)'
             /\ QueueOf(work'[q].job.to) = q
             /\ \A f \in Fields : work'[q].payload[f] # None =>
                    Leads(work'[q].job.event, work'[q].job.to, f)
    <2>1. /\ Routed(work[q].job) /\ QueueOf(work[q].job.to) = q
          /\ \A f \in Fields : work[q].payload[f] # None =>
                Leads(work[q].job.event, work[q].job.to, f)
        BY <1>1 DEF WorkRouted
    <2>2. work'[q].job = work[q].job /\ work'[q].payload = work[q].payload
        BY <1>1
    <2> QED BY <2>1, <2>2 DEF Routed
<1> QED BY <1>1 DEF WorkRouted

\* A translation gives what the event leads to the target.
LEMMA PayloadLeads ==
    ASSUME TypeOK, NEW j \in Jobs, Routed(j)
    PROVE  /\ Payload(j.event, j.to) \in Given
           /\ \A f \in Fields : Payload(j.event, j.to)[f] # None =>
                /\ Leads(j.event, j.to, f)
                /\ Payload(j.event, j.to)[f] = SourcePayload(j.event)[f]
<1> DEFINE e == j.event
<1> USE PropagationAssumption
<1>1. e.source \in Systems /\ e.service \in Fields /\ e.values \in Given
    BY JobParts
<1>2. \A s \in Systems : Source(s) \in Contents
    BY DEF Source, TypeOK, Records
<1>3. SourcePayload(e) \in Contents
    BY <1>1, <1>2, OverContents DEF SourcePayload
<1>4. \A f \in Fields : Payload(e, j.to)[f] =
            IF f \in UpdatedFields(e, j.to) THEN SourcePayload(e)[f] ELSE None
    BY DEF Payload
<1>5. Payload(e, j.to) \in Given
    BY <1>3 DEF Payload, Contents, Given
<1>6. \A f \in Fields : f \in UpdatedFields(e, j.to) => Leads(e, j.to, f)
    BY DEF UpdatedFields, Leads, Routed
<1> QED BY <1>4, <1>5, <1>6

\* A failed attempt keeps the jobs what they are.
LEMMA FailedKeeps ==
    ASSUME RoutesInv, NEW j \in Jobs, Routed(j), FailedOnce(j), events' = events
    PROVE  /\ queued' \subseteq Jobs /\ dead' \subseteq Deliveries /\ JobsRouted'
           /\ \A x \in queued' : x \in queued \/ (x.event = j.event /\ x.to = j.to)
<1> DEFINE again == [j EXCEPT !.failures = @ + 1]
<1>1. \/ queued' = (queued \ {j}) \cup {again} /\ dead' = dead /\ j.failures + 1 < MaxAttempts
      \/ queued' = queued \ {j} /\ dead' = dead \cup {Delivery(j)}
    BY DEF FailedOnce
<1>2. again.event = j.event /\ again.to = j.to
    BY DEF Jobs
<1>3. j.failures + 1 < MaxAttempts => again \in Jobs
    BY PropagationAssumption DEF Jobs
<1>4. Delivery(j) \in Deliveries
    BY JobParts
<1> HIDE DEF again
<1>5. queued' \subseteq Jobs /\ dead' \subseteq Deliveries
    BY <1>1, <1>3, <1>4 DEF RoutesInv, TypeOK
<1>6. \A x \in queued' : x \in queued \/ (x.event = j.event /\ x.to = j.to)
    BY <1>1, <1>2
<1>7. JobsRouted'
    BY <1>6 DEF RoutesInv, JobsRouted, Routed
<1> QED BY <1>5, <1>6, <1>7

LEMMA RoutesStep == RoutesInv /\ [Next]_vars => RoutesInv'
<1> SUFFICES ASSUME RoutesInv, [Next]_vars PROVE RoutesInv'
    OBVIOUS
<1> USE DEF RoutesInv
<1>1. CASE UNCHANGED vars
    <2>1. TypeOK' /\ JobsRouted'
        BY <1>1 DEF vars, deskVars, pollVars, jobVars, TypeOK, JobsRouted, Routed
    <2>2. WorkRouted'
        BY <1>1, WorkStays DEF vars, jobVars
    <2> QED BY <2>1, <2>2
<1>2. ASSUME NEW c \in Edits, ReadRecord(c) \/ ChangeBusiness(c) \/ ChangeDepartment(c)
      PROVE  RoutesInv'
    <2>1. UNCHANGED <<registry, snapshot, look, left, events, queued, delivered, dead, work>>
        BY <1>2 DEF ReadRecord, ChangeBusiness, ChangeDepartment, pollVars, jobVars
    <2>2. JobsRouted' /\ WorkRouted'
        BY <2>1, WorkStays DEF JobsRouted, Routed
    <2>3. c \in Changes /\ SystemOf[c] \in Systems /\ ValuesOf[c] \in Given
        BY PropagationAssumption DEF Changes
    <2>4. copy[c].columns \in Contents /\ copy[c].stamp \in Events \cup {None}
        BY DEF TypeOK, Records
    <2>5. \A x \in Events \cup {None} : Rewritten(c, x) \in Records
        BY <2>3, <2>4, OverContents DEF Rewritten, Applied, Records
    <2>6. desk' \in [Changes -> {"new", "read", "done"}]
        BY <1>2, <2>3 DEF TypeOK, ReadRecord, ChangeBusiness, ChangeDepartment
    <2>7. CASE ReadRecord(c)
        BY <2>1, <2>2, <2>3, <2>6, <2>7 DEF ReadRecord, TypeOK
    <2>8. CASE ChangeBusiness(c) \/ ChangeDepartment(c)
        <3>1. PICK x \in Events \cup {None} :
                record' = [record EXCEPT ![SystemOf[c]] = Rewritten(c, x)]
            BY <2>4, <2>8 DEF ChangeBusiness, ChangeDepartment
        <3>2. record' \in [Systems -> Records] /\ copy' = copy
            BY <2>3, <2>5, <2>8, <3>1 DEF TypeOK, ChangeBusiness, ChangeDepartment
        <3> QED BY <2>1, <2>2, <2>6, <3>2 DEF TypeOK
    <2> QED BY <1>2, <2>7, <2>8
<1>3. ASSUME NEW r \in Requests, Submit(r) PROVE RoutesInv'
    <2>1. /\ UNCHANGED <<registry, record, copy, snapshot, look, left, delivered, dead, work>>
          /\ desk' = [desk EXCEPT ![r] = "done"] /\ Ingest(Sent(r)) /\ Sent(r) \in Events
        BY <1>3, SentEvents DEF Submit, pollVars
    <2>2. /\ events' \subseteq Events /\ queued' \subseteq Jobs /\ JobsRouted'
          /\ events \subseteq events'
        BY <2>1, IngestKeeps
    <2>3. TypeOK'
        BY <2>1, <2>2 DEF TypeOK, Changes
    <2>4. WorkRouted'
        BY <2>1, <2>2, WorkStays
    <2> QED BY <2>2, <2>3, <2>4
<1>4. ASSUME NEW d \in Departments, Look(d) \/ Save(d) PROVE RoutesInv'
    <2>1. UNCHANGED <<registry, record, desk, copy, events, queued, delivered, dead, work>>
        BY <1>4 DEF Look, Save, deskVars, jobVars
    <2>2. TypeOK'
        <3>1. CASE Look(d)
            <4>1. Differences(d) \subseteq Fields
                BY PropagationAssumption DEF Differences
            <4>2. UNCHANGED snapshot /\ d \in Systems
                BY <3>1 DEF Look, Departments
            <4> QED BY <2>1, <3>1, <4>1, <4>2 DEF Look, TypeOK
        <3>2. CASE Save(d)
            BY <2>1, <3>2, SeededRecord DEF Save, TypeOK, Records
        <3> QED BY <1>4, <3>1, <3>2
    <2> QED BY <2>1, <2>2, WorkStays DEF JobsRouted, Routed
<1>5. ASSUME NEW d \in Departments, NEW f \in Fields, Deal(d, f) PROVE RoutesInv'
    <2>1. /\ UNCHANGED <<registry, record, desk, copy, snapshot, look, delivered, dead, work>>
          /\ left' = [left EXCEPT ![d] = @ \ {f}] /\ left[d] # None
          /\ UNCHANGED <<events, queued>> \/ Ingest(EventOf(d, f))
          /\ EventOf(d, f) \in Events
        BY <1>5, EventOfEvents DEF Deal, deskVars
    <2>2. /\ events' \subseteq Events /\ queued' \subseteq Jobs /\ JobsRouted'
          /\ events \subseteq events'
        <3>1. CASE Ingest(EventOf(d, f))
            BY <2>1, <3>1, IngestKeeps
        <3>2. CASE UNCHANGED <<events, queued>>
            BY <3>2 DEF TypeOK, JobsRouted, Routed
        <3> QED BY <2>1, <3>1, <3>2
    <2>3. TypeOK'
        BY <2>1, <2>2 DEF TypeOK
    <2> QED BY <2>1, <2>2, <2>3, WorkStays
<1>6. ASSUME NEW q \in Queues, NEW j \in queued, Translate(q, j) PROVE RoutesInv'
    <2>1. /\ UNCHANGED <<registry, record, desk, copy, snapshot, look, left, events, delivered>>
          /\ j \in Jobs /\ Routed(j) /\ QueueOf(j.to) = q
        BY <1>6 DEF Translate, deskVars, pollVars, TypeOK, JobsRouted
    <2>2. CASE FailedOnce(j) /\ work' = work
        <3>1. queued' \subseteq Jobs /\ dead' \subseteq Deliveries /\ JobsRouted'
            BY <2>1, <2>2, FailedKeeps
        <3> QED BY <2>1, <2>2, <3>1, WorkStays DEF TypeOK
    <2>3. ASSUME work' = [work EXCEPT ![q] = [job |-> j, place |-> "translated",
                              payload |-> Payload(j.event, j.to), target |-> Seeded]],
                 queued' = queued \ {j}, dead' = dead
          PROVE  RoutesInv'
        <3> DEFINE p == Payload(j.event, j.to)
                   w == [job |-> j, place |-> "translated", payload |-> p, target |-> Seeded]
        <3>1. p \in Given /\ \A f \in Fields : p[f] # None => Leads(j.event, j.to, f)
            BY <2>1, PayloadLeads
        <3>2. \A x \in Queues : work'[x] = IF x = q THEN w ELSE work[x]
            BY <2>3 DEF TypeOK
        <3> HIDE DEF p
        <3>3. w \in Runs /\ w.job = j /\ w.payload = p
            BY <2>1, <3>1, SeededRecord DEF Runs
        <3>4. TypeOK'
            BY <2>1, <2>3, <3>3 DEF TypeOK, p
        <3>5. JobsRouted'
            BY <2>1, <2>3 DEF JobsRouted, Routed
        <3> HIDE DEF w
        <3>6. WorkRouted'
            BY <2>1, <3>1, <3>2, <3>3 DEF WorkRouted, Routed
        <3> QED BY <3>4, <3>5, <3>6
    <2> QED BY <1>6, <2>2, <2>3 DEF Translate
<1>7. ASSUME NEW q \in Queues, ReadTarget(q) \/ WriteTarget(q) PROVE RoutesInv'
    <2>1. UNCHANGED <<registry, desk, copy, snapshot, look, left, events, queued, delivered, dead>>
        BY <1>7 DEF ReadTarget, WriteTarget, deskVars, pollVars
    <2>2. /\ work[q] \in Runs /\ work[q].job \in Jobs /\ work[q].job.to \in Systems
          /\ work[q].payload \in Given
        BY <1>7, JobParts DEF ReadTarget, WriteTarget, TypeOK, Runs
    <2>3. PICK w \in Runs : /\ work' = [work EXCEPT ![q] = w]
                            /\ w.job = work[q].job /\ w.payload = work[q].payload
        <3>1. CASE ReadTarget(q)
            <4> DEFINE w == [work[q] EXCEPT !.place = "read", !.target = record[work[q].job.to]]
            <4>1. w \in Runs /\ w.job = work[q].job /\ w.payload = work[q].payload
                BY <2>2 DEF Runs, TypeOK
            <4> QED BY <3>1, <4>1 DEF ReadTarget
        <3>2. CASE WriteTarget(q)
            <4> DEFINE w == [work[q] EXCEPT !.place = "written"]
            <4>1. w \in Runs /\ w.job = work[q].job /\ w.payload = work[q].payload
                BY <2>2 DEF Runs
            <4> QED BY <3>2, <4>1 DEF WriteTarget
        <3> QED BY <1>7, <3>1, <3>2
    <2>4. record' \in [Systems -> Records]
        <3>1. Written(work[q]) \in Records
            <4>1. record[work[q].job.to].columns \in Contents /\ work[q].target.raw \in Contents
                BY <2>2 DEF TypeOK, Runs, Records
            <4>2. StampOf(work[q]) \in Events \cup {None}
                BY <2>2, JobParts DEF StampOf
            <4> QED BY <2>2, <4>1, <4>2, OverContents DEF Written, Records
        <3> QED BY <1>7, <2>2, <3>1 DEF ReadTarget, WriteTarget, TypeOK
    <2>5. TypeOK' /\ JobsRouted'
        BY <2>1, <2>3, <2>4 DEF TypeOK, JobsRouted, Routed
    <2>6. \A x \in Queues : work'[x] = IF x = q THEN w ELSE work[x]
        BY <2>3 DEF TypeOK
    <2>7. WorkRouted'
        <3>1. work[q] # Idle
            BY <1>7 DEF ReadTarget, WriteTarget
        <3> QED BY <2>1, <2>3, <2>6, <3>1, WorkGoesOn
    <2> QED BY <2>5, <2>7
<1>8. ASSUME NEW q \in Queues, Complete(q) \/ FailJob(q) PROVE RoutesInv'
    <2>1. /\ UNCHANGED <<registry, record, desk, copy, snapshot, look, left, events>>
          /\ work' = [work EXCEPT ![q] = Idle] /\ work[q] # Idle
        BY <1>8 DEF Complete, FailJob, deskVars, pollVars
    <2>2. work[q].job \in Jobs /\ Routed(work[q].job) /\ Delivery(work[q].job) \in Deliveries
        BY <2>1, JobParts DEF TypeOK, Runs, WorkRouted
    <2>3. /\ queued' \subseteq Jobs /\ dead' \subseteq Deliveries /\ delivered' \subseteq Deliveries
          /\ JobsRouted'
        <3>1. CASE Complete(q)
            BY <2>2, <3>1 DEF Complete, TypeOK, JobsRouted, Routed
        <3>2. CASE FailJob(q)
            BY <2>1, <2>2, <3>2, FailedKeeps DEF FailJob, TypeOK
        <3> QED BY <1>8, <3>1, <3>2
    <2>4. TypeOK'
        BY <2>1, <2>3 DEF TypeOK
    <2>5. \A x \in Queues : work'[x] = IF x = q THEN Idle ELSE work[x]
        BY <2>1 DEF TypeOK
    <2>6. WorkRouted'
        BY <2>1, <2>5, WorkGoesOn
    <2> QED BY <2>3, <2>4, <2>6
<1> QED BY <1>1, <1>2, <1>3, <1>4, <1>5, <1>6, <1>7, <1>8 DEF Next

\* Where things go: the types, and that jobs and what workers write follow the rules.
THEOREM RoutesFollowRules == Spec => []RoutesInv
<1> QED BY RoutesInit, RoutesStep, PTL DEF Spec

-----------------------------------------------------------------------------
(* What jobs carry. *)

NativeGiven(S, f, given) == given[f] # None => Known(S, f, given[f])

\* Of records and of what was read of them.
NativeReads(S, f) ==
    /\ \A s \in S : Known(S, f, record[s].columns[f]) /\ Known(S, f, record[s].raw[f])
    /\ \A c \in Edits : SystemOf[c] \in S => Known(S, f, copy[c].columns[f])
    /\ \A d \in Departments \cap S : Known(S, f, look[d].columns[f])

NativeEvents(S, f) == \A e \in events : e.source \in S => NativeGiven(S, f, e.values)

NativeWork(S, f) ==
    \A q \in Queues : work[q] # Idle /\ work[q].job.to \in S =>
        NativeGiven(S, f, work[q].payload) /\ Known(S, f, work[q].target.raw[f])

Native(S, f) == NativeReads(S, f) /\ NativeEvents(S, f) /\ NativeWork(S, f)

OriginsOK == \A S \in SUBSET Systems, f \in Fields : Entered(S, f) \/ Native(S, f)

PropInv == RoutesInv /\ OriginsOK

LEMMA KnownInitial ==
    ASSUME NEW S \in SUBSET Systems, NEW f \in Fields
    PROVE  Known(S, f, Seeded.columns[f]) /\ Known(S, f, Seeded.raw[f])
BY DEF Known, Seeded

LEMMA KnownOwn ==
    ASSUME NEW S \in SUBSET Systems, NEW f \in Fields, NEW c \in Changes, SystemOf[c] \in S
    PROVE  NativeGiven(S, f, ValuesOf[c])
BY DEF NativeGiven, Known

LEMMA OverKnown ==
    ASSUME NEW S \in SUBSET Systems, NEW f \in Fields, NEW g \in Given, NEW c \in Contents,
           NativeGiven(S, f, g), Known(S, f, c[f])
    PROVE  Known(S, f, Over(g, c)[f])
<1>1. Over(g, c)[f] = IF g[f] = None THEN c[f] ELSE g[f]
    BY OverContents
<1> QED BY <1>1 DEF NativeGiven

LEMMA OriginsInit == Init => OriginsOK
<1> SUFFICES ASSUME Init, NEW S \in SUBSET Systems, NEW f \in Fields PROVE Native(S, f)
    BY DEF OriginsOK
<1>1. /\ \A s \in Systems : record[s] = Seeded
      /\ \A c \in Edits : copy[c] = Seeded
      /\ \A d \in Departments : look[d] = Seeded
      /\ \A q \in Queues : work[q] = Idle
      /\ events = {}
    BY DEF Init
<1>2. NativeReads(S, f)
    BY <1>1, KnownInitial DEF NativeReads
<1> QED BY <1>1, <1>2 DEF Native, NativeEvents, NativeWork

\* Events are kept, so what none of them has entered none had entered before.
LEMMA EventsGrow == RoutesInv /\ [Next]_vars => events \subseteq events'
<1> SUFFICES ASSUME RoutesInv, [Next]_vars PROVE events \subseteq events'
    OBVIOUS
<1>1. ASSUME NEW r \in Requests, Submit(r) PROVE events \subseteq events'
    BY <1>1, SentEvents, IngestKeeps DEF Submit
<1>2. ASSUME NEW d \in Departments, NEW f \in Fields, Deal(d, f) PROVE events \subseteq events'
    BY <1>2, EventOfEvents, IngestKeeps DEF Deal, RoutesInv
<1>3. ASSUME ~\E r \in Requests : Submit(r), ~\E d \in Departments, f \in Fields : Deal(d, f)
      PROVE  events' = events
    BY <1>3 DEF Next, ReadRecord, ChangeBusiness, ChangeDepartment, Look, Save, Translate,
                ReadTarget, WriteTarget, Complete, FailJob, vars
<1> QED BY <1>1, <1>2, <1>3

LEMMA NotEnteredBefore ==
    ASSUME RoutesInv, [Next]_vars, NEW S \in SUBSET Systems, NEW f \in Fields, ~Entered(S, f)'
    PROVE  ~Entered(S, f)
BY EventsGrow DEF Entered

LEMMA DesksNative ==
    ASSUME RoutesInv, NEW S \in SUBSET Systems, NEW f \in Fields, Native(S, f),
           NEW c \in Edits, ReadRecord(c) \/ ChangeBusiness(c) \/ ChangeDepartment(c)
    PROVE  Native(S, f)'
<1> USE DEF RoutesInv
<1>1. UNCHANGED <<look, events, work>>
    BY DEF ReadRecord, ChangeBusiness, ChangeDepartment, pollVars, jobVars
<1>2. NativeEvents(S, f)' /\ NativeWork(S, f)'
    BY <1>1 DEF Native, NativeEvents, NativeWork
<1>3. c \in Changes /\ SystemOf[c] \in Systems /\ ValuesOf[c] \in Given
    BY PropagationAssumption DEF Changes
<1>4. CASE ReadRecord(c)
    <2>1. record' = record /\ \A x \in Edits : copy'[x] = IF x = c THEN record[SystemOf[c]] ELSE copy[x]
        BY <1>4 DEF ReadRecord, TypeOK
    <2>2. NativeReads(S, f)'
        BY <1>1, <2>1 DEF Native, NativeReads
    <2> QED BY <1>2, <2>2 DEF Native
<1>5. CASE ChangeBusiness(c) \/ ChangeDepartment(c)
    <2>1. PICK stamp : record' = [record EXCEPT ![SystemOf[c]] = Rewritten(c, stamp)]
        BY <1>5 DEF ChangeBusiness, ChangeDepartment
    <2>2. \A s \in Systems : record'[s] = IF s = SystemOf[c] THEN Rewritten(c, stamp) ELSE record[s]
        BY <2>1 DEF TypeOK
    <2>3. SystemOf[c] \in S => Known(S, f, Applied(c)[f])
        <3>1. copy[c].columns \in Contents
            BY DEF TypeOK, Records
        <3>2. SystemOf[c] \in S => Known(S, f, copy[c].columns[f])
            BY DEF Native, NativeReads
        <3> QED BY <1>3, <3>1, <3>2, KnownOwn, OverKnown DEF Applied
    <2>4. Rewritten(c, stamp).columns = Applied(c) /\ Rewritten(c, stamp).raw = Applied(c)
        BY DEF Rewritten
    <2>5. copy' = copy
        BY <1>5 DEF ChangeBusiness, ChangeDepartment
    <2>6. NativeReads(S, f)'
        BY <1>1, <2>2, <2>3, <2>4, <2>5 DEF Native, NativeReads
    <2> QED BY <1>2, <2>6 DEF Native
<1> QED BY <1>4, <1>5

\* An event that brings known values only.
LEMMA IngestNative ==
    ASSUME RoutesInv, NEW S \in SUBSET Systems, NEW f \in Fields, Native(S, f),
           NEW e \in Events, Ingest(e), e.source \in S => NativeGiven(S, f, e.values),
           UNCHANGED <<record, copy, look, work>>
    PROVE  Native(S, f)'
<1>1. NativeEvents(S, f)'
    BY IngestKeeps DEF Native, NativeEvents
<1>2. NativeReads(S, f)' /\ NativeWork(S, f)'
    BY DEF Native, NativeReads, NativeWork
<1> QED BY <1>1, <1>2 DEF Native

LEMMA SubmitNative ==
    ASSUME RoutesInv, NEW S \in SUBSET Systems, NEW f \in Fields, Native(S, f),
           NEW r \in Requests, Submit(r)
    PROVE  Native(S, f)'
<1>1. /\ Ingest(Sent(r)) /\ Sent(r) \in Events /\ r \in Changes
      /\ UNCHANGED <<record, copy, look, work>>
    BY SentEvents DEF Submit, pollVars, Changes
<1>2. Sent(r).source \in S => NativeGiven(S, f, Sent(r).values)
    BY <1>1, KnownOwn DEF Sent
<1> QED BY <1>1, <1>2, IngestNative

LEMMA PollsNative ==
    ASSUME RoutesInv, NEW S \in SUBSET Systems, NEW f \in Fields, Native(S, f),
           NEW d \in Departments, Look(d) \/ Save(d) \/ \E g \in Fields : Deal(d, g)
    PROVE  Native(S, f)'
<1> USE DEF RoutesInv
<1>1. CASE Look(d) \/ Save(d)
    <2>1. UNCHANGED <<record, copy, events, work>>
        BY <1>1 DEF Look, Save, deskVars, jobVars
    <2>2. \A x \in Departments : look'[x] \in {look[x], record[x], Seeded}
        BY <1>1 DEF Look, Save, TypeOK
    <2>3. NativeReads(S, f)'
        BY <2>1, <2>2, KnownInitial DEF Native, NativeReads
    <2> QED BY <2>1, <2>3 DEF Native, NativeEvents, NativeWork
<1>2. ASSUME NEW g \in Fields, Deal(d, g) PROVE Native(S, f)'
    <2>1. /\ UNCHANGED <<record, copy, look, work>>
          /\ events' = events \/ Ingest(EventOf(d, g))
          /\ EventOf(d, g) \in Events
        BY <1>2, EventOfEvents DEF Deal, deskVars
    <2>2. CASE events' = events
        BY <2>1, <2>2 DEF Native, NativeReads, NativeEvents, NativeWork
    <2>3. CASE Ingest(EventOf(d, g))
        <3>1. d \in S => Known(S, f, look[d].columns[f])
            BY DEF Native, NativeReads
        <3>2. /\ EventOf(d, g).source = d
              /\ EventOf(d, g).values[f] = IF f = g THEN look[d].columns[g] ELSE None
            BY DEF EventOf, EventAt
        <3>3. EventOf(d, g).source \in S => NativeGiven(S, f, EventOf(d, g).values)
            BY <3>1, <3>2 DEF NativeGiven
        <3> QED BY <2>1, <2>3, <3>3, IngestNative
    <2> QED BY <2>1, <2>2, <2>3
<1> QED BY <1>1, <1>2

\* A translation for a system that no event has entered is of an event of its own.
LEMMA PayloadNative ==
    ASSUME RoutesInv, NEW S \in SUBSET Systems, NEW f \in Fields, Native(S, f),
           ~Entered(S, f), NEW j \in Jobs, Routed(j), j.to \in S
    PROVE  NativeGiven(S, f, Payload(j.event, j.to))
<1> DEFINE e == j.event
<1> SUFFICES ASSUME Payload(e, j.to)[f] # None PROVE Known(S, f, Payload(e, j.to)[f])
    BY DEF NativeGiven
<1>1. Leads(e, j.to, f) /\ Payload(e, j.to)[f] = SourcePayload(e)[f]
    BY PayloadLeads DEF RoutesInv
<1>2. e \in events /\ e \in Events /\ e.source \in Systems /\ e.values \in Given
    BY JobParts DEF Routed
<1>3. e.source \in S
    BY <1>1, <1>2 DEF Entered
<1>4. Known(S, f, Source(e.source)[f])
    BY <1>3 DEF Source, Native, NativeReads
<1>5. CASE e.source = Hub
    <2>1. e.values[f] # None
        BY <1>1 DEF Leads, Changed
    <2>2. Known(S, f, e.values[f])
        BY <1>2, <1>3, <2>1 DEF Native, NativeEvents, NativeGiven
    <2>3. SourcePayload(e)[f] = e.values[f]
        BY <1>5, <2>1 DEF SourcePayload, Over
    <2> QED BY <1>1, <2>2, <2>3
<1>6. CASE e.source # Hub
    BY <1>1, <1>4, <1>6 DEF SourcePayload
<1> QED BY <1>5, <1>6

LEMMA TranslateNative ==
    ASSUME RoutesInv, NEW S \in SUBSET Systems, NEW f \in Fields, Native(S, f),
           ~Entered(S, f), NEW q \in Queues, NEW j \in queued, Translate(q, j)
    PROVE  Native(S, f)'
<1>1. UNCHANGED <<record, copy, look, events>> /\ j \in Jobs /\ Routed(j)
    BY DEF Translate, deskVars, pollVars, RoutesInv, TypeOK, JobsRouted
<1>2. NativeReads(S, f)' /\ NativeEvents(S, f)'
    BY <1>1 DEF Native, NativeReads, NativeEvents
<1> DEFINE p == Payload(j.event, j.to)
           w == [job |-> j, place |-> "translated", payload |-> p, target |-> Seeded]
<1>3. w.job = j /\ w.payload = p /\ w.target = Seeded
    OBVIOUS
<1>4. work' = work \/ work' = [work EXCEPT ![q] = w]
    BY DEF Translate
<1> HIDE DEF w
<1>5. \A x \in Queues : work'[x] = work[x] \/ (x = q /\ work'[x] = w)
    BY <1>4 DEF RoutesInv, TypeOK
<1>6. j.to \in S => NativeGiven(S, f, p) /\ Known(S, f, Seeded.raw[f])
    BY <1>1, PayloadNative, KnownInitial
<1> HIDE DEF p
<1>7. ASSUME NEW x \in Queues, work'[x] # Idle, work'[x].job.to \in S
      PROVE  NativeGiven(S, f, work'[x].payload) /\ Known(S, f, work'[x].target.raw[f])
    <2>1. CASE work'[x] = work[x]
        BY <1>7, <2>1 DEF Native, NativeWork
    <2>2. CASE work'[x] = w
        BY <1>3, <1>6, <1>7, <2>2
    <2> QED BY <1>5, <2>1, <2>2
<1>8. NativeWork(S, f)'
    BY <1>7 DEF NativeWork
<1> QED BY <1>2, <1>8 DEF Native

\* What a worker has at hand, place by place.
LEMMA WorkerAtHand ==
    ASSUME RoutesInv, NEW q \in Queues, work[q] # Idle
    PROVE  /\ work[q].job \in Jobs /\ work[q].job.to \in Systems
           /\ work[q].payload \in Given /\ work[q].target.raw \in Contents
           /\ record[work[q].job.to].columns \in Contents
<1>1. work[q] \in Runs
    BY DEF RoutesInv, TypeOK
<1>2. work[q].job \in Jobs /\ work[q].payload \in Given /\ work[q].target \in Records
    BY <1>1 DEF Runs
<1>3. work[q].job.to \in Systems
    BY <1>2, JobParts
<1> QED BY <1>2, <1>3 DEF RoutesInv, TypeOK, Records

LEMMA ReadTargetNative ==
    ASSUME RoutesInv, NEW S \in SUBSET Systems, NEW f \in Fields, Native(S, f),
           NEW q \in Queues, ReadTarget(q)
    PROVE  Native(S, f)'
<1> DEFINE w == [work[q] EXCEPT !.place = "read", !.target = record[work[q].job.to]]
<1>1. UNCHANGED <<record, copy, look, events>> /\ work[q] # Idle /\ work[q] \in Runs
    BY DEF ReadTarget, deskVars, pollVars, RoutesInv, TypeOK
<1>2. NativeReads(S, f)' /\ NativeEvents(S, f)'
    BY <1>1 DEF Native, NativeReads, NativeEvents
<1>3. /\ w.job = work[q].job /\ w.payload = work[q].payload
      /\ w.target = record[work[q].job.to]
    BY <1>1 DEF Runs
<1>4. work' = [work EXCEPT ![q] = w]
    BY DEF ReadTarget
<1> HIDE DEF w
<1>5. \A x \in Queues : work'[x] = IF x = q THEN w ELSE work[x]
    BY <1>4 DEF RoutesInv, TypeOK
<1>6. ASSUME NEW x \in Queues, work'[x] # Idle, work'[x].job.to \in S
      PROVE  NativeGiven(S, f, work'[x].payload) /\ Known(S, f, work'[x].target.raw[f])
    <2>1. CASE x # q
        BY <1>5, <1>6, <2>1 DEF Native, NativeWork
    <2>2. CASE x = q
        <3>1. work[q].job.to \in S
            BY <1>3, <1>5, <1>6, <2>2
        <3>2. NativeGiven(S, f, work[q].payload)
            BY <1>1, <3>1 DEF Native, NativeWork
        <3>3. Known(S, f, record[work[q].job.to].raw[f])
            BY <3>1 DEF Native, NativeReads
        <3> QED BY <1>3, <1>5, <2>2, <3>2, <3>3
    <2> QED BY <2>1, <2>2
<1>7. NativeWork(S, f)'
    BY <1>6 DEF NativeWork
<1> QED BY <1>2, <1>7 DEF Native

LEMMA WriteTargetNative ==
    ASSUME RoutesInv, NEW S \in SUBSET Systems, NEW f \in Fields, Native(S, f),
           NEW q \in Queues, WriteTarget(q)
    PROVE  Native(S, f)'
<1> DEFINE t == work[q].job.to
           w == [work[q] EXCEPT !.place = "written"]
<1>1. UNCHANGED <<copy, look, events>> /\ work[q] # Idle /\ work[q] \in Runs
    BY DEF WriteTarget, deskVars, pollVars, RoutesInv, TypeOK
<1>2. /\ w.job = work[q].job /\ w.payload = work[q].payload /\ w.target = work[q].target
    BY <1>1 DEF Runs
<1>3. work' = [work EXCEPT ![q] = w]
    BY DEF WriteTarget
<1> HIDE DEF w
<1>4. \A x \in Queues : work'[x] = IF x = q THEN w ELSE work[x]
    BY <1>3 DEF RoutesInv, TypeOK
<1>5. NativeWork(S, f)'
    BY <1>1, <1>2, <1>4 DEF Native, NativeWork
<1>6. \A s \in Systems : record'[s] = IF s = t THEN Written(work[q]) ELSE record[s]
    BY DEF WriteTarget, RoutesInv, TypeOK
<1>7. t \in S => Known(S, f, Written(work[q]).columns[f]) /\ Known(S, f, Written(work[q]).raw[f])
    <2> SUFFICES ASSUME t \in S
                 PROVE  /\ Known(S, f, Over(work[q].payload, record[t].columns)[f])
                        /\ Known(S, f, Over(work[q].payload, work[q].target.raw)[f])
        BY DEF Written
    <2>1. NativeGiven(S, f, work[q].payload) /\ Known(S, f, work[q].target.raw[f])
        BY <1>1 DEF Native, NativeWork
    <2>2. Known(S, f, record[t].columns[f])
        BY DEF Native, NativeReads
    <2> QED BY <1>1, <2>1, <2>2, WorkerAtHand, OverKnown
<1>8. NativeReads(S, f)' /\ NativeEvents(S, f)'
    BY <1>1, <1>6, <1>7 DEF Native, NativeReads, NativeEvents
<1> QED BY <1>5, <1>8 DEF Native

LEMMA OriginsStep == RoutesInv /\ OriginsOK /\ [Next]_vars => OriginsOK'
<1> SUFFICES ASSUME RoutesInv, OriginsOK, [Next]_vars, NEW S \in SUBSET Systems,
                    NEW f \in Fields, ~Entered(S, f)'
             PROVE  Native(S, f)'
    BY DEF OriginsOK
<1>1. ~Entered(S, f) /\ Native(S, f)
    BY NotEnteredBefore DEF OriginsOK
<1>2. CASE UNCHANGED vars
    BY <1>1, <1>2 DEF vars, deskVars, pollVars, jobVars, Native, NativeReads, NativeEvents, NativeWork
<1>3. ASSUME NEW c \in Edits, ReadRecord(c) \/ ChangeBusiness(c) \/ ChangeDepartment(c)
      PROVE  Native(S, f)'
    BY <1>1, <1>3, DesksNative
<1>4. ASSUME NEW r \in Requests, Submit(r) PROVE Native(S, f)'
    BY <1>1, <1>4, SubmitNative
<1>5. ASSUME NEW d \in Departments, Look(d) \/ Save(d) \/ \E g \in Fields : Deal(d, g)
      PROVE  Native(S, f)'
    BY <1>1, <1>5, PollsNative
<1>6. ASSUME NEW q \in Queues, NEW j \in queued, Translate(q, j) PROVE Native(S, f)'
    BY <1>1, <1>6, TranslateNative
<1>7. ASSUME NEW q \in Queues, ReadTarget(q) \/ WriteTarget(q) PROVE Native(S, f)'
    BY <1>1, <1>7, ReadTargetNative, WriteTargetNative
<1>8. ASSUME NEW q \in Queues, Complete(q) \/ FailJob(q) PROVE Native(S, f)'
    <2>1. UNCHANGED <<record, copy, look, events>>
        BY <1>8 DEF Complete, FailJob, deskVars, pollVars
    <2>2. \A x \in Queues : work'[x] \in {work[x], Idle}
        BY <1>8 DEF Complete, FailJob, RoutesInv, TypeOK
    <2> QED BY <1>1, <2>1, <2>2 DEF Native, NativeReads, NativeEvents, NativeWork
<1> QED BY <1>2, <1>3, <1>4, <1>5, <1>6, <1>7, <1>8 DEF Next

-----------------------------------------------------------------------------
(* The theorems. *)

\* The invariant holds in every state: a job is of an accepted event and follows a
\* rule, a worker holds what its event leads to the target, and what no event has
\* entered knows its own values only.
THEOREM PropagationInvariant == Spec => []PropInv
<1>1. Init => PropInv
    BY RoutesInit, OriginsInit DEF PropInv
<1>2. PropInv /\ [Next]_vars => PropInv'
    BY RoutesStep, OriginsStep DEF PropInv
<1> QED BY <1>1, <1>2, PTL DEF Spec

\* A job's attempts are counted up to the limit and no further, and the values
\* and places are what they should be.
THEOREM PropagationTypes == Spec => []TypeOK
<1>1. PropInv => TypeOK
    BY DEF PropInv, RoutesInv
<1> QED BY <1>1, PropagationInvariant, PTL

\* Whatever the rules and the mappings are, a set of systems has values of its own
\* desks and requests only, until an accepted event leads the field there from
\* elsewhere (getUpdatedFields, processWriteJob).
THEOREM ValuesFollowRules == Spec => []Provenance
<1>1. PropInv => Provenance
    BY DEF PropInv, OriginsOK, Native, NativeReads, Provenance
<1> QED BY <1>1, PropagationInvariant, PTL

\* Whatever is delivered meanwhile, a column changes only when a desk of its system
\* writes, or with an event that leads to this very field.
THEOREM DesksKeepTheirFields == Spec => OwnFieldsKept
<1> DEFINE Kept(s, f) ==
        record'[s].columns[f] # record[s].columns[f] => DeskWrites(s) \/ DeliveryWrites(s, f)
<1>1. ASSUME RoutesInv, [Next]_vars, NEW s \in Systems, NEW f \in Fields PROVE Kept(s, f)
    <2>1. CASE record' = record
        BY <2>1
    <2>2. ASSUME NEW c \in Edits, ChangeBusiness(c) \/ ChangeDepartment(c) PROVE Kept(s, f)
        <3>1. /\ desk[c] = "read" /\ desk' = [desk EXCEPT ![c] = "done"]
              /\ \E r : record' = [record EXCEPT ![SystemOf[c]] = r]
            BY <2>2 DEF ChangeBusiness, ChangeDepartment
        <3>2. desk'[c] = "done"
            BY <1>1, <3>1 DEF RoutesInv, TypeOK, Changes
        <3>3. s # SystemOf[c] => record'[s] = record[s]
            BY <1>1, <3>1 DEF RoutesInv, TypeOK
        <3> QED BY <3>1, <3>2, <3>3 DEF DeskWrites
    <2>3. ASSUME NEW q \in Queues, WriteTarget(q) PROVE Kept(s, f)
        <3>1. /\ work[q] # Idle /\ work[q].place = "read" /\ work[q] \in Runs
              /\ record' = [record EXCEPT ![work[q].job.to] = Written(work[q])]
              /\ work' = [work EXCEPT ![q].place = "written"]
            BY <1>1, <2>3 DEF WriteTarget, RoutesInv, TypeOK
        <3>2. record'[s] = IF s = work[q].job.to THEN Written(work[q]) ELSE record[s]
            BY <1>1, <3>1 DEF RoutesInv, TypeOK
        <3>3. work'[q] # Idle /\ work'[q].place = "written"
            BY <1>1, <3>1 DEF RoutesInv, TypeOK, Runs, Idle
        <3>4. Written(work[q]).columns[f] =
                IF work[q].payload[f] = None THEN record[work[q].job.to].columns[f]
                ELSE work[q].payload[f]
            BY DEF Written, Over
        <3>5. work[q].payload[f] # None => Leads(work[q].job.event, work[q].job.to, f)
            BY <1>1, <3>1 DEF RoutesInv, WorkRouted
        <3> QED BY <3>1, <3>2, <3>3, <3>4, <3>5 DEF DeliveryWrites
    <2>4. CASE UNCHANGED vars
        BY <2>1, <2>4 DEF vars
    <2>5. ASSUME Next
          PROVE  \/ record' = record
                 \/ \E c \in Edits : ChangeBusiness(c) \/ ChangeDepartment(c)
                 \/ \E q \in Queues : WriteTarget(q)
        BY <2>5 DEF Next, ReadRecord, Submit, Look, Save, Deal, Translate, ReadTarget,
                    Complete, FailJob
    <2>6. Next \/ UNCHANGED vars
        BY <1>1
    <2> QED BY <2>1, <2>2, <2>3, <2>4, <2>5, <2>6
<1>2. PropInv /\ [Next]_vars =>
        [\A s \in Systems, f \in Fields :
            record'[s].columns[f] # record[s].columns[f]
            => DeskWrites(s) \/ DeliveryWrites(s, f)]_vars
    BY <1>1 DEF PropInv
<1> QED BY <1>2, PropagationInvariant, PTL DEF Spec, OwnFieldsKept

-----------------------------------------------------------------------------
(* What was delivered stands.  A value that a desk of department d put into   *)
(* field f, and that nobody wrote there again, comes to the column once and    *)
(* goes for good: events of it are made afterwards only, and a job is           *)
(* translated to it as long as the column has it.                              *)

\* Jobs lead to a system that is not their source, what is delivered was routed, and
\* a handler has read nothing before it reads the record.
StationsOK ==
    /\ \A x \in Edits : desk[x] = "new" => copy[x] = Seeded
    /\ \A x \in delivered : Routed(x)
    /\ \A j \in queued : j.to # j.event.source
    /\ \A q \in Queues : work[q] # Idle => work[q].job.to # work[q].job.event.source

\* Edit c alone brings value v into field f.
SolePut(f, v, c) ==
    /\ v # Initial[f]
    /\ {x \in Changes : ValuesOf[x][f] = v} = {c}

\* No desk of d has read v, the hub's desk has not begun, and no other department has
\* sent the field to the hub.
Untouched(d, f, v) ==
    /\ \A x \in Edits : SystemOf[x] = d => copy[x].columns[f] # v
    /\ \A x \in Edits : SystemOf[x] = Hub => desk[x] = "new"
    /\ \A e \in events : Leads(e, Hub, f) => e.source = d

Put(d, c) == SystemOf[c] = d /\ desk[c] = "done"

\* What delivers v to the hub.
Carrier(d, f, v) == [event |-> EventAt(d, f, v), to |-> Hub]

\* Before c, nobody has v.
NotYet(d, f, v, c) ==
    ~Put(d, c) => /\ record[d].columns[f] # v
                  /\ look[d].columns[f] # v
                  /\ EventAt(d, f, v) \notin events

\* No job brings v to d.
NoWayBack(d, f, v) ==
    /\ \A e \in events : e.source = Hub => e.values[f] # v
    /\ \A q \in Queues : work[q] # Idle /\ work[q].job.to = d => work[q].payload[f] # v

\* While d has v, its carrier writes v, and after it no job writes anything else.
Holding(d, f, v) ==
    record[d].columns[f] = v =>
        /\ work["sws-write"] # Idle /\ Delivery(work["sws-write"].job) = Carrier(d, f, v) =>
            /\ work["sws-write"].payload[f] = v
            /\ work["sws-write"].place = "written" => record[Hub].columns[f] = v
        /\ Carrier(d, f, v) \in delivered =>
            /\ record[Hub].columns[f] = v
            /\ work["sws-write"] # Idle => work["sws-write"].payload[f] \in {v, None}

Carried(d, f, v, c) == NotYet(d, f, v, c) /\ NoWayBack(d, f, v) /\ Holding(d, f, v)

CarryInv ==
    \A d \in Departments \cap FromColumns, f \in Fields, v \in Values, c \in Edits :
        SolePut(f, v, c) /\ Untouched(d, f, v) /\ f \in Outputs[d, Hub, f]
        => Carried(d, f, v, c)

LEMMA StationsInit == Init => StationsOK
BY DEF Init, StationsOK

LEMMA StationsStep == ASSUME RoutesInv, StationsOK, [Next]_vars PROVE StationsOK'
<1> USE DEF RoutesInv
<1>0. \A x \in delivered : x.event \in events' /\ x.to \in Rules[x.event.source, x.event.service]
    BY EventsGrow DEF StationsOK, Routed
<1>1. ASSUME NEW x \in Edits, ReadRecord(x) PROVE StationsOK'
    <2>1. /\ \A y \in Edits \ {x} : copy'[y] = copy[y] /\ desk'[y] = desk[y]
          /\ desk'[x] = "read"
        BY <1>1 DEF ReadRecord, TypeOK, Changes
    <2>2. UNCHANGED <<events, queued, delivered, work>>
        BY <1>1 DEF ReadRecord, jobVars
    <2> QED BY <2>1, <2>2 DEF StationsOK, Routed
<1>2. ASSUME NEW x \in Edits, ChangeBusiness(x) \/ ChangeDepartment(x) PROVE StationsOK'
    <2>1. /\ \A y \in Edits : desk'[y] = "new" => desk[y] = "new"
          /\ UNCHANGED <<copy, events, queued, delivered, work>>
        BY <1>2 DEF ChangeBusiness, ChangeDepartment, TypeOK, Changes, jobVars
    <2> QED BY <2>1 DEF StationsOK, Routed
<1>3. ASSUME NEW r \in Requests, Submit(r) PROVE StationsOK'
    <2>1. /\ \A y \in Edits : desk'[y] = "new" => desk[y] = "new"
          /\ UNCHANGED <<copy, delivered, work>>
        BY <1>3 DEF Submit, TypeOK, Changes
    <2>2. \A j \in queued' : j \in queued \/ j.to # j.event.source
        BY <1>3, SentEvents, IngestKeeps DEF Submit
    <2> QED BY <1>0, <2>1, <2>2 DEF StationsOK, Routed
<1>4. ASSUME NEW d \in Departments, Look(d) \/ Save(d) PROVE StationsOK'
    BY <1>4 DEF Look, Save, StationsOK, Routed, deskVars, jobVars
<1>5. ASSUME NEW d \in Departments, NEW f \in Fields, Deal(d, f) PROVE StationsOK'
    <2>1. UNCHANGED <<desk, copy, delivered, work>>
        BY <1>5 DEF Deal, deskVars
    <2>2. \A j \in queued' : j \in queued \/ j.to # j.event.source
        BY <1>5, EventOfEvents, IngestKeeps DEF Deal
    <2> QED BY <1>0, <2>1, <2>2 DEF StationsOK, Routed
<1>6. ASSUME NEW q \in Queues,
             \/ \E j \in queued : Translate(q, j)
             \/ ReadTarget(q) \/ WriteTarget(q) \/ Complete(q) \/ FailJob(q)
      PROVE  StationsOK'
    <2>1. UNCHANGED <<desk, copy, events>>
        BY <1>6 DEF Translate, ReadTarget, WriteTarget, Complete, FailJob, deskVars
    <2>2. ASSUME NEW j \in Jobs, j \in queued \/ (work[q] # Idle /\ j = work[q].job),
                 queued' \subseteq queued \cup {[j EXCEPT !.failures = @ + 1]}
          PROVE  \A x \in queued' : x.to # x.event.source
        <3> DEFINE again == [j EXCEPT !.failures = @ + 1]
        <3>1. again.to = j.to /\ again.event = j.event
            BY DEF Jobs
        <3>2. j.to # j.event.source
            BY <2>2 DEF StationsOK
        <3> HIDE DEF again
        <3>3. queued' \subseteq queued \cup {again}
            BY <2>2 DEF again
        <3> QED BY <3>1, <3>2, <3>3 DEF StationsOK
    <2>3. ASSUME NEW j \in queued, Translate(q, j) PROVE \A x \in queued' : x.to # x.event.source
        BY <2>2, <2>3 DEF Translate, FailedOnce, TypeOK
    <2>4. ASSUME FailJob(q) PROVE \A x \in queued' : x.to # x.event.source
        <3>1. work[q].job \in Jobs /\ work[q] # Idle
            BY <2>4 DEF FailJob, TypeOK, Runs
        <3> QED BY <2>2, <2>4, <3>1 DEF FailJob, FailedOnce
    <2>5. ASSUME ReadTarget(q) \/ WriteTarget(q) \/ Complete(q)
          PROVE  \A x \in queued' : x.to # x.event.source
        BY <2>5 DEF ReadTarget, WriteTarget, Complete, StationsOK
    <2>6. \A x \in delivered' : x \in delivered \/ (work[q] # Idle /\ x = Delivery(work[q].job))
        BY <1>6 DEF Translate, ReadTarget, WriteTarget, Complete, FailJob
    <2>7. work[q] # Idle => Routed(Delivery(work[q].job))
        BY DEF WorkRouted, Routed, Delivery
    <2>8. \A x \in delivered' : Routed(x)'
        BY <2>1, <2>6, <2>7 DEF StationsOK, Routed
    <2>9. \A p \in Queues : work'[p] # Idle =>
            \/ work[p] # Idle /\ work'[p].job = work[p].job
            \/ work'[p].job \in queued
        BY <1>6 DEF Translate, ReadTarget, WriteTarget, Complete, FailJob, TypeOK, Runs
    <2>10. \A p \in Queues : work'[p] # Idle => work'[p].job.to # work'[p].job.event.source
        BY <2>9 DEF StationsOK
    <2> QED BY <1>6, <2>1, <2>3, <2>4, <2>5, <2>8, <2>10 DEF StationsOK
<1>7. CASE UNCHANGED vars
    BY <1>7 DEF vars, deskVars, pollVars, jobVars, StationsOK, Routed
<1> QED BY <1>1, <1>2, <1>3, <1>4, <1>5, <1>6, <1>7 DEF Next

-----------------------------------------------------------------------------
(* Each step keeps what is carried. *)

LEMMA UntouchedBefore ==
    ASSUME RoutesInv, StationsOK, [Next]_vars, NEW d \in Departments, NEW f \in Fields,
           NEW v \in Values, v # Initial[f], Untouched(d, f, v)'
    PROVE  Untouched(d, f, v)
<1>1. \A x \in Edits : copy'[x] = copy[x] \/ copy[x] = Seeded
    <2>1. ASSUME NEW x \in Edits, ReadRecord(x), NEW y \in Edits
          PROVE  copy'[y] = copy[y] \/ copy[y] = Seeded
        BY <2>1 DEF ReadRecord, MayStart, StationsOK, RoutesInv, TypeOK
    <2>2. ASSUME ~\E x \in Edits : ReadRecord(x) PROVE copy' = copy
        BY <2>2 DEF Next, ChangeBusiness, ChangeDepartment, Submit, Look, Save, Deal,
                    Translate, ReadTarget, WriteTarget, Complete, FailJob, vars, deskVars
    <2> QED BY <2>1, <2>2
<1>2. \A x \in Edits : desk'[x] = "new" => desk[x] = "new"
    <2>1. ASSUME NEW x \in Edits, NEW y \in Edits, desk'[y] = "new",
                 ReadRecord(x) \/ ChangeBusiness(x) \/ ChangeDepartment(x)
          PROVE  desk[y] = "new"
        BY <2>1 DEF ReadRecord, ChangeBusiness, ChangeDepartment, RoutesInv, TypeOK, Changes
    <2>2. ASSUME NEW r \in Requests, NEW y \in Edits, desk'[y] = "new", Submit(r)
          PROVE  desk[y] = "new"
        BY <2>2 DEF Submit, RoutesInv, TypeOK, Changes
    <2>3. ASSUME ~\E x \in Edits : ReadRecord(x) \/ ChangeBusiness(x) \/ ChangeDepartment(x),
                 ~\E r \in Requests : Submit(r)
          PROVE  desk' = desk
        BY <2>3 DEF Next, Look, Save, Deal,
                    Translate, ReadTarget, WriteTarget, Complete, FailJob, vars, deskVars
    <2> QED BY <2>1, <2>2, <2>3
<1>3. Seeded.columns[f] = Initial[f]
    BY DEF Seeded
<1>4. events \subseteq events'
    BY EventsGrow
<1> QED BY <1>1, <1>2, <1>3, <1>4 DEF Untouched

\* The carrier of an event that is still to come is nowhere.
LEMMA NoJobBefore ==
    ASSUME RoutesInv, StationsOK, NEW d \in Departments, NEW f \in Fields, NEW v \in Values,
           EventAt(d, f, v) \notin events
    PROVE  /\ Carrier(d, f, v) \notin delivered
           /\ work["sws-write"] # Idle => Delivery(work["sws-write"].job) # Carrier(d, f, v)
<1>1. Carrier(d, f, v).event = EventAt(d, f, v)
    BY DEF Carrier
<1>2. \A x \in delivered : x.event \in events
    BY DEF StationsOK, Routed
<1>3. work["sws-write"] # Idle => Delivery(work["sws-write"].job).event \in events
    BY DEF RoutesInv, WorkRouted, Routed, Queues, Delivery
<1> QED BY <1>1, <1>2, <1>3

LEMMA DesksCarry ==
    ASSUME RoutesInv, StationsOK, NEW d \in Departments, NEW f \in Fields, NEW v \in Values,
           NEW c \in Edits, SolePut(f, v, c), Untouched(d, f, v)', Carried(d, f, v, c),
           NEW x \in Edits, ReadRecord(x) \/ ChangeBusiness(x) \/ ChangeDepartment(x)
    PROVE  Carried(d, f, v, c)'
<1>1. UNCHANGED <<look, events, delivered, work>>
    BY DEF ReadRecord, ChangeBusiness, ChangeDepartment, pollVars, jobVars
<1>2. NoWayBack(d, f, v)'
    BY <1>1 DEF Carried, NoWayBack
<1>3. x \in Changes /\ c \in Changes /\ SystemOf[x] \in Systems /\ ValuesOf[x] \in Given
    BY PropagationAssumption DEF Changes
<1>4. CASE ReadRecord(x)
    <2>1. record' = record /\ Put(d, c)' = Put(d, c)
        BY <1>3, <1>4 DEF ReadRecord, MayStart, Put, RoutesInv, TypeOK
    <2> QED BY <1>1, <1>2, <2>1 DEF Carried, NotYet, Holding
<1>5. CASE ChangeBusiness(x)
    <2>1. SystemOf[x] = Hub /\ desk'[x] = "done"
        BY <1>3, <1>5 DEF ChangeBusiness, RoutesInv, TypeOK
    <2> QED BY <2>1 DEF Untouched
<1>6. CASE ChangeDepartment(x)
    <2>1. PICK kept \in {copy[x].stamp, None} :
            record' = [record EXCEPT ![SystemOf[x]] = Rewritten(x, kept)]
        BY <1>6 DEF ChangeDepartment
    <2>2. /\ desk[x] = "read" /\ SystemOf[x] # Hub /\ copy' = copy
          /\ desk' = [desk EXCEPT ![x] = "done"]
        BY <1>6 DEF ChangeDepartment
    <2>3. record'[Hub] = record[Hub] /\ (SystemOf[x] # d => record'[d] = record[d])
        BY <2>1, <2>2 DEF RoutesInv, TypeOK
    <2>4. SystemOf[x] = d => record'[d].columns = Applied(x)
        BY <2>1 DEF RoutesInv, TypeOK, Rewritten, Departments
    <2>5. SystemOf[x] = d /\ x # c => record'[d].columns[f] # v
        <3> SUFFICES ASSUME SystemOf[x] = d, x # c PROVE Applied(x)[f] # v
            BY <2>4
        <3>1. copy[x].columns \in Contents /\ copy[x].columns[f] # v
            BY <2>2 DEF Untouched, RoutesInv, TypeOK, Records
        <3>2. ValuesOf[x][f] # v
            BY <1>3 DEF SolePut
        <3> QED BY <1>3, <3>1, <3>2, OverContents DEF Applied
    <2>6. CASE SystemOf[x] = d /\ x = c
        <3>1. ~Put(d, c) /\ Put(d, c)'
            BY <1>3, <2>2, <2>6 DEF Put, RoutesInv, TypeOK
        <3>2. EventAt(d, f, v) \notin events
            BY <3>1 DEF Carried, NotYet
        <3>3. NotYet(d, f, v, c)' /\ Holding(d, f, v)'
            BY <1>1, <3>1, <3>2, NoJobBefore DEF NotYet, Holding
        <3> QED BY <1>2, <3>3 DEF Carried
    <2>7. CASE ~(SystemOf[x] = d /\ x = c)
        <3>1. record'[d].columns[f] = v => record[d].columns[f] = v
            BY <2>3, <2>5, <2>7
        <3>2. Put(d, c)' = Put(d, c)
            BY <1>3, <2>2, <2>7 DEF Put, RoutesInv, TypeOK
        <3> QED BY <1>1, <1>2, <2>3, <3>1, <3>2 DEF Carried, NotYet, Holding
    <2> QED BY <2>6, <2>7
<1> QED BY <1>4, <1>5, <1>6

\* Requests bring no value of an edit, so no event of the hub has it.
LEMMA SubmitCarries ==
    ASSUME RoutesInv, StationsOK, NEW d \in Departments, NEW f \in Fields, NEW v \in Values,
           NEW c \in Edits, SolePut(f, v, c), Carried(d, f, v, c),
           NEW r \in Requests, Submit(r)
    PROVE  Carried(d, f, v, c)'
<1>1. UNCHANGED <<record, look, delivered, work>> /\ Ingest(Sent(r)) /\ Sent(r) \in Events
    BY SentEvents DEF Submit, pollVars
<1>2. r \in Changes /\ c \in Changes /\ r # c
    BY PropagationAssumption DEF Changes
<1>3. Put(d, c)' = Put(d, c)
    BY <1>2 DEF Submit, Put, RoutesInv, TypeOK
<1>4. Sent(r).values[f] # v
    BY <1>2 DEF Sent, SolePut
<1>5. EventAt(d, f, v).values[f] = v
    BY DEF EventAt
<1>6. \A e \in events' : e \in events \/ e = Sent(r)
    BY <1>1, IngestKeeps
<1>7. NoWayBack(d, f, v)' /\ Holding(d, f, v)'
    BY <1>1, <1>4, <1>6 DEF Carried, NoWayBack, Holding
<1>8. NotYet(d, f, v, c)'
    BY <1>1, <1>3, <1>4, <1>5, <1>6 DEF Carried, NotYet
<1> QED BY <1>7, <1>8 DEF Carried

LEMMA PollsCarry ==
    ASSUME RoutesInv, StationsOK, NEW d \in Departments, NEW f \in Fields, NEW v \in Values,
           NEW c \in Edits, SolePut(f, v, c), Carried(d, f, v, c), NEW x \in Departments,
           Look(x) \/ Save(x) \/ \E g \in Fields : Deal(x, g)
    PROVE  Carried(d, f, v, c)'
<1>1. UNCHANGED <<record, desk, delivered, work>>
    BY DEF Look, Save, Deal, deskVars, jobVars
<1>2. CASE Look(x)
    <2>1. events' = events /\ look'[d] \in {look[d], record[d]}
        BY <1>2 DEF Look, RoutesInv, TypeOK
    <2> QED BY <1>1, <2>1 DEF Carried, NotYet, NoWayBack, Holding, Put
<1>3. CASE Save(x)
    <2>1. events' = events /\ look'[d] \in {look[d], Seeded}
        BY <1>3 DEF Save, RoutesInv, TypeOK
    <2>2. look'[d].columns[f] = v => look[d].columns[f] = v
        BY <2>1 DEF Seeded, SolePut
    <2> QED BY <1>1, <2>1, <2>2 DEF Carried, NotYet, NoWayBack, Holding, Put
<1>4. ASSUME NEW g \in Fields, Deal(x, g) PROVE Carried(d, f, v, c)'
    <2>1. /\ look' = look /\ (events' = events \/ Ingest(EventOf(x, g)))
          /\ EventOf(x, g) \in Events
        BY <1>4, EventOfEvents DEF Deal, RoutesInv
    <2>2. \A e \in events' : e \in events \/ e = EventOf(x, g)
        BY <2>1, IngestKeeps
    <2>3. EventOf(x, g).source # Hub
        BY DEF EventOf, EventAt, Departments
    <2>4. EventOf(x, g) = EventAt(d, f, v) => look[d].columns[f] = v
        <3> SUFFICES ASSUME EventOf(x, g) = EventAt(d, f, v) PROVE look[d].columns[f] = v
            OBVIOUS
        <3>1. x = d /\ g = f
            BY DEF EventOf, EventAt
        <3>2. EventOf(x, g).values[f] = look[d].columns[f] /\ EventAt(d, f, v).values[f] = v
            BY <3>1 DEF EventOf, EventAt
        <3> QED BY <3>2
    <2>5. NoWayBack(d, f, v)' /\ Holding(d, f, v)'
        BY <1>1, <2>2, <2>3 DEF Carried, NoWayBack, Holding
    <2>6. NotYet(d, f, v, c)'
        BY <1>1, <2>1, <2>2, <2>4 DEF Carried, NotYet, Put
    <2> QED BY <2>5, <2>6 DEF Carried
<1> QED BY <1>2, <1>3, <1>4

LEMMA TranslationCarries ==
    ASSUME RoutesInv, StationsOK, NEW d \in Departments \cap FromColumns, NEW f \in Fields,
           NEW v \in Values, NEW c \in Edits, f \in Outputs[d, Hub, f],
           Untouched(d, f, v), Carried(d, f, v, c), NEW q \in Queues, NEW j \in queued,
           Translate(q, j)
    PROVE  Carried(d, f, v, c)'
<1> DEFINE e == j.event
           p == Payload(e, j.to)
           run == [job |-> j, place |-> "translated", payload |-> p, target |-> Seeded]
<1>1. UNCHANGED <<record, desk, look, events, delivered>>
    BY DEF Translate, deskVars, pollVars
<1>2. j \in Jobs /\ Routed(j) /\ QueueOf(j.to) = q
    BY DEF Translate, RoutesInv, TypeOK, JobsRouted
<1>3. e \in Events /\ e.source \in Systems /\ e.service \in Fields /\ j.to \in Systems
      /\ j.to \in Rules[e.source, e.service] /\ e \in events
    BY <1>2, JobParts DEF Routed
<1>4. v # None /\ d \in Systems /\ d # Hub
    BY PropagationAssumption DEF Departments
<1>5. p[f] # None => Leads(e, j.to, f) /\ p[f] = SourcePayload(e)[f]
    BY <1>2, PayloadLeads DEF RoutesInv
<1>6. run.job = j /\ run.place = "translated" /\ run.payload = p
    OBVIOUS
<1>7. work' = work \/ work' = [work EXCEPT ![q] = run]
    BY DEF Translate
<1>8. e.source = d => SourcePayload(e)[f] = record[d].columns[f]
    BY <1>4 DEF SourcePayload, Source
<1>9. ASSUME Delivery(j) = Carrier(d, f, v) PROVE p[f] = SourcePayload(e)[f] /\ e.source = d
    <2>1. e = EventAt(d, f, v) /\ j.to = Hub
        BY <1>9 DEF Delivery, Carrier
    <2>2. e.source = d /\ e.service = f /\ e.values[f] = v
        <3>1. /\ EventAt(d, f, v).source = d /\ EventAt(d, f, v).service = f
              /\ EventAt(d, f, v).values[f] = v
            BY DEF EventAt
        <3> QED BY <2>1, <3>1
    <2>3. f \in UpdatedFields(e, j.to)
        BY <1>4, <2>1, <2>2 DEF UpdatedFields, Changed
    <2> QED BY <2>2, <2>3 DEF Payload
<1> HIDE DEF run, p
<1>10. \A x \in Queues : work'[x] = work[x] \/
         (x = q /\ work'[x].job = j /\ work'[x].place = "translated" /\ work'[x].payload = p)
    BY <1>6, <1>7 DEF RoutesInv, TypeOK
<1>11. ASSUME j.to = d PROVE p[f] # v
    <2> SUFFICES ASSUME p[f] = v PROVE FALSE
        OBVIOUS
    <2>1. Leads(e, j.to, f) /\ SourcePayload(e)[f] = v
        BY <1>4, <1>5
    <2>2. e.source = Hub
        BY <1>3, <1>4, <1>11, HubAssumption DEF Departments
    <2>3. e.values[f] # None
        BY <2>1 DEF Leads, Changed
    <2>4. SourcePayload(e)[f] = e.values[f]
        BY <2>2, <2>3 DEF SourcePayload, Over
    <2> QED BY <1>3, <2>1, <2>2, <2>4 DEF Carried, NoWayBack
<1>12. NoWayBack(d, f, v)'
    BY <1>1, <1>10, <1>11 DEF Carried, NoWayBack
<1>13. ASSUME record[d].columns[f] = v, q = "sws-write"
       PROVE  /\ Delivery(j) = Carrier(d, f, v) => p[f] = v
              /\ p[f] \in {v, None}
    <2>1. j.to = Hub
        BY <1>2, <1>13 DEF QueueOf
    <2>2. p[f] # None => e.source = d
        BY <1>3, <1>5, <2>1 DEF Untouched
    <2> QED BY <1>5, <1>8, <1>9, <1>13, <2>2
<1>14. Holding(d, f, v)'
    <2>1. "sws-write" \in Queues
        BY DEF Queues
    <2>2. CASE work'["sws-write"] = work["sws-write"]
        BY <1>1, <2>2 DEF Carried, Holding
    <2>3. CASE work'["sws-write"] # work["sws-write"]
        <3>1. /\ q = "sws-write" /\ work'["sws-write"].job = j
              /\ work'["sws-write"].place = "translated"
              /\ work'["sws-write"].payload = p
            BY <1>10, <2>1, <2>3
        <3> QED BY <1>1, <1>13, <3>1 DEF Carried, Holding
    <2> QED BY <2>2, <2>3
<1>15. NotYet(d, f, v, c)'
    BY <1>1 DEF Carried, NotYet, Put
<1> QED BY <1>12, <1>14, <1>15 DEF Carried

LEMMA WorkersCarry ==
    ASSUME RoutesInv, StationsOK, NEW d \in Departments \cap FromColumns, NEW f \in Fields,
           NEW v \in Values, NEW c \in Edits, Carried(d, f, v, c), NEW q \in Queues,
           ReadTarget(q) \/ WriteTarget(q) \/ Complete(q) \/ FailJob(q)
    PROVE  Carried(d, f, v, c)'
<1>1. UNCHANGED <<desk, look, events>> /\ work[q] # Idle
    BY DEF ReadTarget, WriteTarget, Complete, FailJob, deskVars, pollVars
<1>2. /\ work[q] \in Runs /\ QueueOf(work[q].job.to) = q /\ work[q].job.to \in Systems
    BY <1>1, WorkerAtHand DEF RoutesInv, TypeOK, WorkRouted
<1>3. d # Hub /\ d \in Systems /\ v # None /\ "sws-write" \in Queues
    BY PropagationAssumption DEF Departments, Queues
<1>4. CASE ReadTarget(q)
    <2>1. UNCHANGED <<record, delivered>>
        BY <1>4 DEF ReadTarget
    <2>2. \A p \in Queues : work'[p] = work[p] \/
            /\ work[p] # Idle /\ work'[p].place = "read"
            /\ work'[p].job = work[p].job /\ work'[p].payload = work[p].payload
        BY <1>1, <1>2, <1>4 DEF ReadTarget, RoutesInv, TypeOK, Runs
    <2>3. NotYet(d, f, v, c)' /\ NoWayBack(d, f, v)'
        BY <1>1, <2>1, <2>2 DEF Carried, NotYet, NoWayBack, Put
    <2>4. Holding(d, f, v)'
        BY <1>3, <2>1, <2>2 DEF Carried, Holding, Delivery
    <2> QED BY <2>3, <2>4 DEF Carried
<1>5. CASE WriteTarget(q)
    <2>1. delivered' = delivered
        BY <1>5 DEF WriteTarget
    <2>2. \A p \in Queues : work'[p] = work[p] \/
            /\ p = q /\ work'[p].place = "written"
            /\ work'[p].job = work[p].job /\ work'[p].payload = work[p].payload
        BY <1>1, <1>2, <1>5 DEF WriteTarget, RoutesInv, TypeOK, Runs
    <2>3. \A s \in Systems :
            record'[s] = IF s = work[q].job.to THEN Written(work[q]) ELSE record[s]
        BY <1>5 DEF WriteTarget, RoutesInv, TypeOK
    <2>4. Written(work[q]).columns[f] =
            IF work[q].payload[f] = None THEN record[work[q].job.to].columns[f]
            ELSE work[q].payload[f]
        BY DEF Written, Over
    <2>5. record'[d].columns[f] = v => record[d].columns[f] = v
        BY <1>1, <1>3, <2>3, <2>4 DEF Carried, NoWayBack
    <2>6. NotYet(d, f, v, c)' /\ NoWayBack(d, f, v)'
        BY <1>1, <1>3, <2>2, <2>5 DEF Carried, NotYet, NoWayBack, Put
    <2>7. Holding(d, f, v)'
        <3>1. CASE work[q].job.to = Hub
            <4>1. q = "sws-write"
                BY <1>2, <3>1 DEF QueueOf
            <4>2. /\ record'[d] = record[d]
                  /\ record'[Hub].columns[f] = IF work[q].payload[f] = None
                       THEN record[Hub].columns[f] ELSE work[q].payload[f]
                BY <1>3, <2>3, <2>4, <3>1, PropagationAssumption
            <4>3. work'[q].job = work[q].job /\ work'[q].payload = work[q].payload
                BY <2>2
            <4> QED BY <1>1, <1>3, <2>1, <4>1, <4>2, <4>3 DEF Carried, Holding, Delivery
        <3>2. CASE work[q].job.to # Hub
            <4>1. q # "sws-write"
                BY <1>2, <3>2 DEF QueueOf
            <4>2. work'["sws-write"] = work["sws-write"] /\ record'[Hub] = record[Hub]
                BY <1>3, <2>2, <2>3, <3>2, <4>1, PropagationAssumption
            <4> QED BY <2>1, <2>5, <4>2 DEF Carried, Holding
        <3> QED BY <3>1, <3>2
    <2> QED BY <2>6, <2>7 DEF Carried
<1>6. CASE Complete(q) \/ FailJob(q)
    <2>1. record' = record /\ \A p \in Queues : work'[p] = IF p = q THEN Idle ELSE work[p]
        BY <1>6 DEF Complete, FailJob, RoutesInv, TypeOK
    <2>2. NotYet(d, f, v, c)' /\ NoWayBack(d, f, v)'
        BY <1>1, <2>1 DEF Carried, NotYet, NoWayBack, Put
    <2>3. Delivery(work[q].job) = Carrier(d, f, v) => q = "sws-write"
        BY <1>2 DEF Delivery, Carrier, QueueOf
    <2>4. Carrier(d, f, v) \in delivered' =>
            \/ Carrier(d, f, v) \in delivered
            \/ Delivery(work[q].job) = Carrier(d, f, v) /\ work[q].place = "written"
        BY <1>6 DEF Complete, FailJob
    <2>5. record[d].columns[f] = v /\ Carrier(d, f, v) \in delivered' => record[Hub].columns[f] = v
        BY <1>1, <2>3, <2>4 DEF Carried, Holding
    <2>6. Holding(d, f, v)'
        BY <1>3, <2>1, <2>3, <2>4, <2>5 DEF Carried, Holding
    <2> QED BY <2>2, <2>6 DEF Carried
<1> QED BY <1>4, <1>5, <1>6

LEMMA CarryStep == ASSUME RoutesInv, StationsOK, CarryInv, [Next]_vars PROVE CarryInv'
<1> SUFFICES ASSUME NEW d \in Departments \cap FromColumns, NEW f \in Fields,
                    NEW v \in Values, NEW c \in Edits, SolePut(f, v, c),
                    Untouched(d, f, v)', f \in Outputs[d, Hub, f]
             PROVE  Carried(d, f, v, c)'
    BY DEF CarryInv
<1>1. v # Initial[f]
    BY DEF SolePut
<1>2. Untouched(d, f, v) /\ Carried(d, f, v, c)
    BY <1>1, UntouchedBefore DEF CarryInv
<1>3. ASSUME NEW x \in Edits, ReadRecord(x) \/ ChangeBusiness(x) \/ ChangeDepartment(x)
      PROVE  Carried(d, f, v, c)'
    BY <1>2, <1>3, DesksCarry
<1>4. ASSUME NEW r \in Requests, Submit(r) PROVE Carried(d, f, v, c)'
    BY <1>2, <1>4, SubmitCarries
<1>5. ASSUME NEW x \in Departments, Look(x) \/ Save(x) \/ \E g \in Fields : Deal(x, g)
      PROVE  Carried(d, f, v, c)'
    BY <1>2, <1>5, PollsCarry
<1>6. ASSUME NEW q \in Queues, NEW j \in queued, Translate(q, j) PROVE Carried(d, f, v, c)'
    BY <1>2, <1>6, TranslationCarries
<1>7. ASSUME NEW q \in Queues, ReadTarget(q) \/ WriteTarget(q) \/ Complete(q) \/ FailJob(q)
      PROVE  Carried(d, f, v, c)'
    BY <1>2, <1>7, WorkersCarry
<1>8. CASE UNCHANGED vars
    BY <1>2, <1>8 DEF vars, deskVars, pollVars, jobVars, Carried, NotYet, NoWayBack, Holding, Put
<1> QED BY <1>3, <1>4, <1>5, <1>6, <1>7, <1>8 DEF Next

LEMMA CarryInit == Init => CarryInv
<1> SUFFICES ASSUME Init, NEW d \in Departments \cap FromColumns, NEW f \in Fields,
                    NEW v \in Values, NEW c \in Edits, SolePut(f, v, c)
             PROVE  Carried(d, f, v, c)
    BY DEF CarryInv
<1>1. d \in Systems /\ Initial[f] # v /\ Seeded.columns = Initial
    BY DEF Departments, SolePut, Seeded
<1>2. /\ record[d] = Seeded /\ look[d] = Seeded /\ events = {}
      /\ work["sws-write"] = Idle /\ \A q \in Queues : work[q] = Idle
    BY <1>1 DEF Init, Queues
<1>3. record[d].columns[f] # v
    BY <1>1, <1>2
<1> QED BY <1>1, <1>2, <1>3 DEF Carried, NotYet, NoWayBack, Holding

\* The invariant of a delivered value, with what it rests on: no job leads to its
\* own source, what was delivered was routed, and a handler has read nothing before
\* it reads the record.
THEOREM DeliveredInvariant == Spec => [](RoutesInv /\ StationsOK /\ CarryInv)
<1>1. Init => StationsOK /\ CarryInv
    BY StationsInit, CarryInit
<1>2. RoutesInv /\ StationsOK /\ CarryInv /\ [Next]_vars => StationsOK' /\ CarryInv'
    BY StationsStep, CarryStep
<1> QED BY <1>1, <1>2, RoutesFollowRules, PTL DEF Spec

\* What the desk of e-Surakshate has put into a field and a job has delivered, the
\* target keeps for as long as e-Surakshate does, for any systems, fields, changes
\* and mappings under rules that let departments exchange with the hub only, unless
\* the hub's desk writes or another department's event leads the field there
\* (getSourcePayloadForTranslation, processWriteJob).
THEOREM WhatIsDeliveredStands == Spec => []DeliveredStands
<1>1. ASSUME RoutesInv, StationsOK, CarryInv PROVE DeliveredStands
    <2> SUFFICES ASSUME NEW d \in Departments \cap FromColumns, NEW t \in Systems,
                        NEW f \in Fields,
                        [event |-> EventAt(d, f, record[d].columns[f]), to |-> t] \in delivered,
                        f \in Outputs[d, t, f], PutOnce(d, f, record[d].columns[f]),
                        \A c \in Edits : SystemOf[c] = t => desk[c] = "new",
                        \A e \in events : Leads(e, t, f) => e.source = d
                 PROVE  record[t].columns[f] = record[d].columns[f]
        BY DEF DeliveredStands
    <2> DEFINE v == record[d].columns[f]
    <2>1. v \in Values
        <3>1. record[d] \in Records
            BY <1>1 DEF RoutesInv, TypeOK, Departments
        <3> QED BY <3>1 DEF Records, Contents
    <2>2. PICK c \in Edits : SolePut(f, v, c)
        BY DEF PutOnce, SolePut
    <2>3. t = Hub
        <3>1. Routed([event |-> EventAt(d, f, v), to |-> t])
            BY <1>1 DEF StationsOK
        <3>2. t \in Rules[d, f]
            BY <3>1 DEF Routed, EventAt
        <3> QED BY <3>2, HubAssumption
    <2>4. Untouched(d, f, v)
        BY <2>3 DEF Untouched, PutOnce
    <2>5. Carried(d, f, v, c)
        BY <1>1, <2>1, <2>2, <2>3, <2>4 DEF CarryInv
    <2> QED BY <2>3, <2>5 DEF Carried, Holding, Carrier
<1> QED BY <1>1, DeliveredInvariant, PTL

-----------------------------------------------------------------------------
(* The rules the code ships with. *)

\* What HubAssumption asks of rules holds of the routing table (routing.rules.ts): a
\* department's change goes to SWS or nowhere.
THEOREM ShippedRulesMeetAtHub ==
    ASSUME SWS \notin {EKARMIKA, ESURAKSHATE}
    PROVE  \A d \in {EKARMIKA, ESURAKSHATE}, f \in {address, employees, signatory, licence} :
                RoutingTargets(d, f) \subseteq {SWS}
BY DEF RoutingTargets

================================================================================
