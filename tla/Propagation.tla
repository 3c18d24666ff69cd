----------------------------- MODULE Propagation -----------------------------
(***************************************************************************)
(* One business as its three systems hold it, and the values that K-Sync   *)
(* carries between them: from a change of a record to its discovery by a   *)
(* poll, from there to a canonical event, over the routing rules, the UBID *)
(* registry and the schema mappings to jobs, and by an adapter into the    *)
(* record of the target.                                                   *)
(*                                                                         *)
(* A record has its columns and its rawPayload, which repeats them.        *)
(* Writers read it, compute, and write it back in a second statement; a    *)
(* department's handler writes everything, an adapter the columns of the   *)
(* event and the whole of rawPayload.  Polls compare columns; a            *)
(* translation reads the source's record as it is by then.                 *)
(*                                                                         *)
(* Abstracted: a service type stands for the field it is named after, and  *)
(* fields without one are left out (see RecordSync); an event is of one    *)
(* service type and changes any fields.  An event is accepted, found free  *)
(* of conflict and enqueued in one step, and a job runs without what it    *)
(* writes to its own tables: those are the matter of Idempotency,          *)
(* ConflictEngine and Delivery.  Polls of one record do not overlap.       *)
(* Whether a stamp is within the 5 s of the record's last change is left   *)
(* open when a desk writes.  Values are told apart, their shapes in the    *)
(* systems are not.  Two fields that a poll takes from rawPayload are      *)
(* compared as columns: a licence, which no desk and no mapping changes,   *)
(* and the signatory of an e-Karmika record that a delivered business name *)
(* has given an employerName, which leaving out the names leaves out.      *)
(***************************************************************************)
EXTENDS Naturals

CONSTANTS
    Systems,
    Hub,          \* SWS, which is not polled
    FromColumns,  \* systems whose translation prefers columns (e-Surakshate)
    Fields,
    Rules,        \* [Systems \X Fields -> SUBSET Systems], routing.rules.ts
    Outputs,      \* [Systems \X Systems \X Fields -> SUBSET Fields]: what the
                  \* active mapping gives, nothing if there is none
    Polled,       \* [Departments -> SUBSET Fields]: what a poll compares
    Registries,   \* the contents the UBID registry may have
    Values,
    Initial,      \* [Fields -> Values]
    Edits,        \* direct changes of a record
    Requests,     \* events sent to the API in the name of a system
    SystemOf, ValuesOf,   \* of a change: its system, and the values it gives
    ServiceOf,            \* of a request
    MaxAttempts,
    Batches,      \* bound: the sets of changes that one behaviour may make
    None          \* no value, no stamp

Changes     == Edits \cup Requests
Departments == Systems \ {Hub}
Queues      == {"sws-write", "department-write"}

\* New values for some of the fields: a body of a desk, the payload of an event
\* with its changedFields, what an adapter is to write.
Given == [Fields -> Values \cup {None}]

Changed(given) == {f \in Fields : given[f] # None}

Over(given, contents) ==
    [f \in Fields |-> IF given[f] = None THEN contents[f] ELSE given[f]]

ASSUME PropagationAssumption ==
    /\ Hub \in Systems
    /\ FromColumns \subseteq Systems
    /\ Rules \in [Systems \X Fields -> SUBSET Systems]
    /\ Outputs \in [Systems \X Systems \X Fields -> SUBSET Fields]
    /\ Polled \in [Departments -> SUBSET Fields]
    /\ Registries \subseteq [Systems -> {"active", "blank", "none"}]
    /\ Initial \in [Fields -> Values]
    /\ SystemOf \in [Changes -> Systems]
    /\ ValuesOf \in [Changes -> Given]
    /\ ServiceOf \in [Requests -> Fields]
    /\ \A c \in Changes : Changed(ValuesOf[c]) # {}
    /\ Edits \cap Requests = {}
    /\ MaxAttempts \in Nat \ {0}
    /\ Batches \subseteq SUBSET Changes
    /\ None \notin Values

\* The departments exchange their changes with the hub only.
ASSUME HubAssumption ==
    \A d \in Departments, f \in Fields : Rules[d, f] \subseteq {Hub}

VARIABLES
    registry,   \* the registry's row of a system: active, with an empty
                \* identifier, or none
    record,     \* the record of a system
    desk,       \* where the handler of a change is
    copy,       \* the record as that handler read it
    snapshot,   \* the columns a department's last snapshot has
    look,       \* the record as a department's poll read it; seeded, before
    left,       \* the differences that poll has still to deal with
    events,     \* accepted events: a key is refused for ever
    queued,     \* jobs that wait, with their failed attempts
    delivered,  \* what jobs have delivered, event and target
    dead,       \* what was given up: the dead letters
    work        \* what a queue's worker is at: its job, what it writes, and
                \* the target as it read it

deskVars == <<desk, copy>>
pollVars == <<snapshot, look, left>>
jobVars  == <<queued, delivered, dead, work>>
vars == <<registry, record, deskVars, pollVars, events, jobVars>>

Contents == [Fields -> Values]
Events   == [source : Systems, service : Fields, values : Given]
Records  == [columns : Contents, raw : Contents, stamp : Events \cup {None}]

Deliveries == [event : Events, to : Systems]
Jobs       == [event : Events, to : Systems, failures : 0 .. MaxAttempts - 1]

Idle == [place |-> "idle"]
Runs == [job : Jobs, place : {"translated", "read", "written"}, payload : Given,
         target : Records]

Seeded == [columns |-> Initial, raw |-> Initial, stamp |-> None]

TypeOK ==
    /\ registry \in Registries
    /\ record \in [Systems -> Records]
    /\ desk \in [Changes -> {"new", "read", "done"}]
    /\ copy \in [Edits -> Records]
    /\ snapshot \in [Departments -> Contents]
    /\ look \in [Departments -> Records]
    /\ left \in [Departments -> (SUBSET Fields) \cup {None}]
    /\ events \subseteq Events
    /\ queued \subseteq Jobs
    /\ delivered \subseteq Deliveries
    /\ dead \subseteq Deliveries
    /\ work \in [Queues -> {Idle} \cup Runs]

Init ==
    /\ registry \in Registries
    /\ record = [s \in Systems |-> Seeded]
    /\ desk = [c \in Changes |-> "new"]
    /\ copy = [c \in Edits |-> Seeded]
    /\ snapshot = [d \in Departments |-> Initial]
    /\ look = [d \in Departments |-> Seeded]
    /\ left = [d \in Departments |-> None]
    /\ events = {}
    /\ queued = {}
    /\ delivered = {}
    /\ dead = {}
    /\ work = [q \in Queues |-> Idle]

-----------------------------------------------------------------------------
(* Direct changes: the APIs of the three systems. *)

MayStart(c) ==
    /\ desk[c] = "new"
    /\ \E b \in Batches : {x \in Changes : desk[x] # "new"} \cup {c} \subseteq b

ReadRecord(c) ==
    /\ MayStart(c)
    /\ desk' = [desk EXCEPT ![c] = "read"]
    /\ copy' = [copy EXCEPT ![c] = record[SystemOf[c]]]
    /\ UNCHANGED <<registry, record, pollVars, events, jobVars>>

\* The columns as they were read, with the fields of the change.
Applied(c) == Over(ValuesOf[c], copy[c].columns)

\* All columns are set, and rawPayload with them.
Rewritten(c, stamp) == [columns |-> Applied(c), raw |-> Applied(c), stamp |-> stamp]

\* The handlers of the hub.
ChangeBusiness(c) ==
    /\ desk[c] = "read"
    /\ SystemOf[c] = Hub
    /\ desk' = [desk EXCEPT ![c] = "done"]
    /\ record' = [record EXCEPT ![Hub] = Rewritten(c, None)]
    /\ UNCHANGED <<registry, copy, pollVars, events, jobVars>>

\* The handlers of a department: a stamp the record had stays, but counts no more
\* once the window has passed.
ChangeDepartment(c) ==
    /\ desk[c] = "read"
    /\ SystemOf[c] # Hub
    /\ desk' = [desk EXCEPT ![c] = "done"]
    /\ \E kept \in {copy[c].stamp, None} :
           record' = [record EXCEPT ![SystemOf[c]] = Rewritten(c, kept)]
    /\ UNCHANGED <<registry, copy, pollVars, events, jobVars>>

-----------------------------------------------------------------------------
(* From an event to its jobs: getRoutingOutcome and enqueueTargetWriteJobs. *)

\* The rule of a service type.
RuleTargets(s, service) == Rules[s, service] \ {s}

\* resolveTargets.
Resolution(t) ==
    IF registry[t] = "none" THEN "REGISTRATION_REQUIRED"
    ELSE IF registry[t] = "blank" THEN "TARGET_MAPPING_MISSING" ELSE "ROUTABLE"

Targets(s, service) == {t \in RuleTargets(s, service) : Resolution(t) = "ROUTABLE"}

\* deriveRoutingStatus.
RoutingStatus(s, service) ==
    LET has(r) == \E t \in RuleTargets(s, service) : Resolution(t) = r
    IN  IF has("ROUTABLE") THEN "ROUTED"
        ELSE IF has("TARGET_MAPPING_MISSING") THEN "TARGET_MAPPING_MISSING"
        ELSE IF has("REGISTRATION_REQUIRED") THEN "REGISTRATION_REQUIRED"
        ELSE "TARGET_NOT_APPLICABLE"

\* ingestRequest: a key that is known is refused for ever.
Ingest(e) ==
    IF e \in events
    THEN UNCHANGED <<events, queued>>
    ELSE /\ events' = events \cup {e}
         /\ queued' = IF RoutingStatus(e.source, e.service) = "ROUTED"
                      THEN queued \cup {[event |-> e, to |-> t, failures |-> 0] :
                                           t \in Targets(e.source, e.service)}
                      ELSE queued

\* The event of a request: its changedFields are the fields of its payload, and
\* its service type need not be about any of them.
Sent(r) == [source |-> SystemOf[r], service |-> ServiceOf[r], values |-> ValuesOf[r]]

\* The API takes events of any system; the record of that system stays as it is.
Submit(r) ==
    /\ MayStart(r)
    /\ desk' = [desk EXCEPT ![r] = "done"]
    /\ Ingest(Sent(r))
    /\ UNCHANGED <<registry, record, copy, pollVars, delivered, dead, work>>

-----------------------------------------------------------------------------
(* pollNormalizedRecord. *)

\* diffObjects.
Differences(d) == {f \in Polled[d] : record[d].columns[f] # snapshot[d][f]}

Look(d) ==
    /\ left[d] = None
    /\ Differences(d) # {}
    /\ look' = [look EXCEPT ![d] = record[d]]
    /\ left' = [left EXCEPT ![d] = Differences(d)]
    /\ UNCHANGED <<registry, record, deskVars, snapshot, events, jobVars>>

\* An event that one field makes, under its own service type.
EventAt(s, f, v) ==
    [source |-> s, service |-> f, values |-> [x \in Fields |-> IF x = f THEN v ELSE None]]

\* The event made of a difference.
EventOf(d, f) == EventAt(d, f, look[d].columns[f])

\* The stamp is of an event of the field's service type that changed this field
\* and no other: confirmPropagatedChangeIfApplicable.
Confirms(stamp, f) == stamp # None /\ stamp.service = f /\ Changed(stamp.values) = {f}

\* A difference that a recent stamp confirms is taken for the propagated write.
Deal(d, f) ==
    /\ left[d] # None
    /\ f \in left[d]
    /\ left' = [left EXCEPT ![d] = @ \ {f}]
    /\ IF Confirms(look[d].stamp, f)
       THEN UNCHANGED <<events, queued>>
       ELSE Ingest(EventOf(d, f))
    /\ UNCHANGED <<registry, record, deskVars, snapshot, look, delivered, dead, work>>

Save(d) ==
    /\ left[d] = {}
    /\ left' = [left EXCEPT ![d] = None]
    /\ snapshot' = [snapshot EXCEPT ![d] = look[d].columns]
    /\ look' = [look EXCEPT ![d] = Seeded]
    /\ UNCHANGED <<registry, record, deskVars, events, jobVars>>

-----------------------------------------------------------------------------
(* The workers and their adapters. *)

QueueOf(t) == IF t = Hub THEN "sws-write" ELSE "department-write"

\* What a system's record gives to a translation.
Source(s) == IF s \in FromColumns THEN record[s].columns ELSE record[s].raw

\* getSourcePayloadForTranslation: the source's record as it is by now, and for
\* the hub the event's own changes on top of it.
SourcePayload(e) == IF e.source = Hub THEN Over(e.values, Source(Hub)) ELSE Source(e.source)

\* Mutant of UpdatedFields: all that the mapping gives.
MappedFields(e, t) == Outputs[e.source, t, e.service]

\* getUpdatedFields: what the event has changed and the mapping gives.
UpdatedFields(e, t) == Changed(e.values) \cap Outputs[e.source, t, e.service]

\* Mutant of Payload: the values the event was made with.
PayloadOfEvent(e, t) == [f \in Fields |-> IF f \in UpdatedFields(e, t) THEN e.values[f] ELSE None]

Payload(e, t) ==
    [f \in Fields |-> IF f \in UpdatedFields(e, t) THEN SourcePayload(e)[f] ELSE None]

\* getActiveMapping finds one.
HasMapping(e, t) == Outputs[e.source, t, e.service] # {}

Delivery(j) == [event |-> j.event, to |-> j.to]

\* Mutant of FailedOnce: no attempt is the last.
FailedOn(j) == queued' = (queued \ {j}) \cup {[j EXCEPT !.failures = @ + 1]} /\ UNCHANGED dead

\* A failed attempt: the job waits for the next, or is a dead letter.
FailedOnce(j) ==
    IF j.failures + 1 < MaxAttempts
    THEN queued' = (queued \ {j}) \cup {[j EXCEPT !.failures = @ + 1]} /\ UNCHANGED dead
    ELSE queued' = queued \ {j} /\ dead' = dead \cup {Delivery(j)}

\* A job whose delay is over may be taken before an older one.  The target is
\* resolved again; without an active mapping the attempt fails.
Translate(q, j) ==
    /\ work[q] = Idle
    /\ j \in queued
    /\ QueueOf(j.to) = q
    /\ IF Resolution(j.to) = "ROUTABLE" /\ HasMapping(j.event, j.to)
       THEN /\ work' = [work EXCEPT ![q] = [job |-> j, place |-> "translated",
                            payload |-> Payload(j.event, j.to), target |-> Seeded]]
            /\ queued' = queued \ {j}
            /\ UNCHANGED dead
       ELSE FailedOnce(j) /\ UNCHANGED work
    /\ UNCHANGED <<registry, record, deskVars, pollVars, events, delivered>>

ReadTarget(q) ==
    /\ work[q] # Idle
    /\ work[q].place = "translated"
    /\ work' = [work EXCEPT ![q].place = "read", ![q].target = record[work[q].job.to]]
    /\ UNCHANGED <<registry, record, deskVars, pollVars, events, queued, delivered, dead>>

\* The stamp by which a department's poll knows the write again.
StampOf(w) == IF w.job.to = Hub THEN None ELSE w.job.event

\* Mutant of Written: the columns, too, as they were read.
WrittenWhole(w) ==
    [columns |-> Over(w.payload, w.target.columns),
     raw     |-> Over(w.payload, w.target.raw),
     stamp   |-> StampOf(w)]

\* The columns of the updated fields, and all of rawPayload as it was read, with
\* the updated fields.
Written(w) ==
    [columns |-> Over(w.payload, record[w.job.to].columns),
     raw     |-> Over(w.payload, w.target.raw),
     stamp   |-> StampOf(w)]

WriteTarget(q) ==
    /\ work[q] # Idle
    /\ work[q].place = "read"
    /\ record' = [record EXCEPT ![work[q].job.to] = Written(work[q])]
    /\ work' = [work EXCEPT ![q].place = "written"]
    /\ UNCHANGED <<registry, deskVars, pollVars, events, queued, delivered, dead>>

Complete(q) ==
    /\ work[q] # Idle
    /\ work[q].place = "written"
    /\ delivered' = delivered \cup {Delivery(work[q].job)}
    /\ work' = [work EXCEPT ![q] = Idle]
    /\ UNCHANGED <<registry, record, deskVars, pollVars, events, queued, dead>>

\* An exception or a simulated failure, before the write or after it.
FailJob(q) ==
    /\ work[q] # Idle
    /\ FailedOnce(work[q].job)
    /\ work' = [work EXCEPT ![q] = Idle]
    /\ UNCHANGED <<registry, record, deskVars, pollVars, events, delivered>>

Next ==
    \/ \E c \in Edits : ReadRecord(c) \/ ChangeBusiness(c) \/ ChangeDepartment(c)
    \/ \E r \in Requests : Submit(r)
    \/ \E d \in Departments : Look(d) \/ Save(d) \/ (\E f \in Fields : Deal(d, f))
    \/ \E q \in Queues :
        \/ \E j \in queued : Translate(q, j)
        \/ ReadTarget(q) \/ WriteTarget(q) \/ Complete(q) \/ FailJob(q)

Spec == Init /\ [][Next]_vars

-----------------------------------------------------------------------------
(* What propagation promises. *)

\* An event may be written into field f of system t: a rule leads its service type
\* there, it has changed the field, and the mapping gives it.
Leads(e, t, f) ==
    /\ t \in Rules[e.source, e.service]
    /\ f \in Changed(e.values)
    /\ f \in Outputs[e.source, t, e.service]

\* An event that was accepted leads f to one of these systems from another.
Entered(S, f) == \E e \in events : e.source \notin S /\ \E t \in S : Leads(e, t, f)

\* A value of f that the desks of these systems, or the requests in their names,
\* bring in.
Known(S, f, v) ==
    \/ v = Initial[f]
    \/ \E c \in Changes : SystemOf[c] \in S /\ ValuesOf[c][f] = v

\* Values stay among systems that no event leads into: only after one has led a
\* field to them from elsewhere does the field have a value there that is not their
\* own, though every translation reads the whole record of the source, most
\* mappings give more fields than an event has changed, and an adapter writes all
\* of rawPayload.
Provenance ==
    \A S \in SUBSET Systems, f \in Fields :
        \/ \A s \in S : Known(S, f, record[s].columns[f]) /\ Known(S, f, record[s].raw[f])
        \/ Entered(S, f)

\* A desk of s writes.
DeskWrites(s) == \E c \in Edits : SystemOf[c] = s /\ desk[c] = "read" /\ desk'[c] = "done"

\* A worker writes an event that leads to field f of s.
DeliveryWrites(s, f) ==
    \E q \in Queues :
        /\ work[q] # Idle /\ work[q].place = "read"
        /\ work[q].job.to = s /\ Leads(work[q].job.event, s, f)
        /\ work'[q] # Idle /\ work'[q].place = "written"

\* Deliveries do not undo what the target's own desk has done in other fields: a
\* column changes only when a desk of its system writes, or with the delivery of
\* an event that leads to this field, although an adapter writes what it computed
\* from an earlier read.
OwnFieldsKept ==
    [][\A s \in Systems, f \in Fields :
        record'[s].columns[f] # record[s].columns[f] => DeskWrites(s) \/ DeliveryWrites(s, f)]_vars

\* One edit put the value there, and no desk of d has read it to write it again.
PutOnce(d, f, v) ==
    /\ v # Initial[f]
    /\ \E c \in Edits : {x \in Changes : ValuesOf[x][f] = v} = {c}
    /\ \A c \in Edits : SystemOf[c] = d => copy[c].columns[f] # v

\* What the desk of e-Surakshate has put into a field and a poll's event has
\* delivered, the target keeps for as long as e-Surakshate does: whatever jobs
\* failed, were retried or overtook each other, and though each translates what the
\* record holds when it runs and not the value of its event.  It takes a target
\* whose own desk has not written and to which no other department has sent the
\* field (an event of e-Karmika may carry the signatory along), and a department
\* that is translated from its columns: the rawPayload of e-Karmika may be older
\* than they are.
DeliveredStands ==
    \A d \in Departments \cap FromColumns, t \in Systems, f \in Fields :
        LET now == record[d].columns[f]
        IN  /\ [event |-> EventAt(d, f, now), to |-> t] \in delivered
            /\ f \in Outputs[d, t, f]
            /\ PutOnce(d, f, now)
            /\ \A c \in Edits : SystemOf[c] = t => desk[c] = "new"
            /\ \A e \in events : Leads(e, t, f) => e.source = d
            => record[t].columns[f] = now

-----------------------------------------------------------------------------
(* A claim of the documentation that the code does not keep. *)

Quiet ==
    /\ \A c \in Edits : desk[c] # "read"
    /\ \A d \in Departments : left[d] = None /\ Differences(d) = {}
    /\ queued = {}
    /\ \A q \in Queues : work[q] = Idle

\* README.md: "A direct department-side change is detected by polling and synced
\* back to SWS."  Once everything is at rest, what the desk of a department has
\* changed is in the record of the hub, if the rules and a mapping lead there,
\* nothing was given up and the hub's desk has not written.
DirectSynced ==
    Quiet /\ dead = {} => \A c \in Edits : \A f \in Changed(ValuesOf[c]) :
        LET d == SystemOf[c]
        IN  /\ desk[c] = "done"
            /\ record[d].columns[f] = ValuesOf[c][f]
            /\ Hub \in Targets(d, f)
            /\ f \in Outputs[d, Hub, f]
            /\ \A x \in Edits : SystemOf[x] = Hub => desk[x] = "new"
            => record[Hub].columns[f] = ValuesOf[c][f]
=============================================================================
