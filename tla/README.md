# K-Sync in TLA+

K-Sync keeps the records that three government systems hold of a business in
step: the single window system (SWS) and two departments, e-Karmika and
e-Surakshate. A change made in one of them becomes a *canonical event*, which is
checked for duplicates and for conflicts with changes made elsewhere, routed,
and written to the other systems by queue-backed workers. This directory holds
TLA+ models of that machinery, the TLC configurations that check them, and
proofs of their central properties checked by TLAPS.

All paths are relative to the repository; `modules/` stands for
`src/backend/src/modules/`.

## 1. The system

| Component | Source | State it keeps | Operations |
|---|---|---|---|
| Ingestion | `modules/ksync` | canonical event row and its status | `ingestRequest` |
| Idempotency guard | `modules/idempotency` | `idempotency_keys` table, Redis cache | `checkAndStore`, `saveResponse` |
| Conflict engine | `modules/conflicts/conflict.service.ts` | `conflicts`, `manual_review_items` | `detectAndResolve`, `reviewConflict`, `replayConflict` |
| Holding pen | `modules/conflicts/holding-pen.service.ts` | Redis sorted set per business and field | `checkForConflicts`, `addToHoldingPen`, `clearExpired` |
| Authority matrix | `modules/conflicts/authority-matrix.service.ts` | rules (seeded, constant) | `getAuthorityRule` |
| Routing, UBID registry | `modules/routing`, `modules/ubid-registry` | mappings (seeded, constant) | `getRoutingOutcome`, `resolveTargets` |
| Queues | `modules/queues/queue.service.ts` | BullMQ jobs, `queue_jobs`, `dead_letter_jobs` | `addDepartmentWriteJob`, `addSwsWriteJob`, `mark...`, `moveQueueJobToDeadLetter` |
| Workers | `modules/queues/processors`, `workers` | none of their own | `processWriteJob` |
| Adapters, translation | `modules/adapters`, `modules/translation` | the target's record | `translate`, `write` |
| Poller | `modules/polling` | `department_snapshots` | `pollNormalizedRecord`, scheduler |
| Source systems | `modules/mock-*` | the records themselves | direct updates |
| Scenarios, failure simulation | `modules/scenarios` | seed of a business, failures armed for its writes | scenario runners, demo reset |
| Audit, dashboard | `modules/audit`, `modules/dashboard` | append-only log | list queries, aggregates |
| Frontend | `src/frontend` | query cache, page, filter, open row | list pages, polling preview, forms |

How they interact. A request of a source system, or a difference the poller
finds, calls `ingestRequest`. It creates the event, asks the idempotency guard
for a verdict, lets the conflict engine compare the event with what the holding
pen has of the same business, routes it, adds one job per target to BullMQ and
records each in `queue_jobs`. A worker takes the job, loads the event, translates
it, has the adapter write the target, and updates job record and event. An
adapter's write shows up in the poller's next look at that record, which must
tell it from a change made there.

What makes it hard. The API server, the poller and both workers share one
process (`server.ts`) and interleave at every `await`; the database is used
without a single transaction, Redis is used as a cache that may fail, and BullMQ
runs a job at least once. So what one handler has read may be stale when it
writes; several stores tell of one thing and are updated one after the other;
and a crash can fall between any two of them. `PROJECT.json` lists each hazard at
the line where it bites with the properties that watch it.

What correctness means, by component:

- **Idempotency**: of the calls that share a key, at most one is handled; every
  duplicate has an original that was accepted; answers survive the cache.
- **Conflicts**: two competing changes are judged once, by the matrix; verdicts
  never contradict each other, directly or in a circle, and never drop every
  change of a business.
- **Delivery**: nothing is called delivered that was not written; every job ends;
  retries and dead letters agree with BullMQ's own count.
- **Routing**: exactly the routable targets of the rules, never the source.
- **Poller**: a difference is reported, confirmed as our own write, or named
  unsupported, before the snapshot covers it.
- **Adapters**: a write changes the fields that its event leads to the target and no
  others; values stay among systems into which no event leads them; what was
  delivered stands.
- **Review desk**: two reviewers never leave a conflict that tells two stories; an
  answer to a reviewer is true; a decision stands.
- **Scenarios**: the business is put back whoever else prepares it; a verdict is
  about what was delivered, and about failures armed for that run only.
- **Console**: paging misses nothing, the open row is on the screen, a page that
  stays open catches up.

## 2. The modules and the code

```
AcceptOnce         the promise of the idempotency guard (abstract)
  ^ implemented by
Idempotency        checkAndStore, saveResponse, the calls of ingestRequest
AuthorityMatrix    resolveFieldDecision, deriveCandidateOutcome (operators)
  ^ extended by
ConflictEngine     detectAndResolve, the holding pen, the end of ingestRequest
ReviewDesk         reviewConflict, against the engine that records conflicts
AtLeastOnce        the promise of queue-backed delivery (abstract)
  ^ implemented by
Delivery           enqueueTargetWriteJobs, processWriteJob, BullMQ
RecordSync         one department record: adapter writes, overlapping polls
Propagation        the records of all three systems and the values between them:
                   desks, polls, routing, registry, mappings, adapters
Scenarios          scenario runners, demo reset, failure simulation
Console            list pages, query cache, list endpoints
Deployment         the rules, mappings, differences and matrix the code ships with
XProofs            theorems and proofs about X
MCX, MCX*.cfg      instances of X for TLC
```

An event passes `Idempotency` first, is then judged in `ConflictEngine` (and
decided in `ReviewDesk` when the matrix does not), and is then delivered in
`Delivery`; `RecordSync` is where a delivered write lands and where the next event
comes from. `Propagation` composes the way round: it keeps of each station what
its values and its order do, and leaves the steps inside a station to the module
of that station. `Scenarios` and `Console` are the two users of the whole: what
they may see of it is the order in which tables are written. Each module keeps
what the others do to its state as an action of its own: `Delivery.Supersede` is a
step of the conflict engine, `RecordSync.WriteRecord` is the step
`Delivery.WriteTarget`, `ReviewDesk.RivalWins` is `ConflictEngine.SupersedeRival`
of a later event, and `Idempotency.Handle` stands for everything after the guard.

A step of every model lies between two `await`s: it is one statement to Postgres
or one command to Redis, together with the computation before the next. All
guards come from the conditions of the code, and any step may be followed by any
step of another call. `PROJECT.json` maps each definition to the lines it
translates.

**Idempotency.** `row`, `redis` are the `idempotency_keys` table and the cache;
`pc`, `copy`, `todo` are the locals of a running `ingestRequest`; `status` is the
event's column, `handled` a history of the calls that went past the guard.
`Receive`, `CheckCacheHit/Miss`, `FindRecord`, `CreateRecord`, `FindAgain`,
`FillCache`, `PublishRecord` are `checkAndStore` in its order, with the unique
constraints as the guard of `CreateRecord`; `SaveRow` and `SaveCache` are the two
concurrent `saveResponse` calls; `Abort` is an exception or a crash. A failing
Redis command is a miss, or a write of only some of its keys.

**AcceptOnce** is what a caller relies on: one final verdict for each call, no
acceptance while an accepted call shares a key, a duplicate answered with the
call its key stands for. `Idempotency.Promise` is the refinement mapping: a call
is accepted when it has a row and refused when it has read one.

**ConflictEngine.** `pen` is the sorted set of each field, `conflicts` the
records, `received` the stamp that all comparisons use; `step`, `left`, `seen`,
`plan`, `todo` are locals of `detectAndResolve`. It looks up its fields in any
order (`Look`, which also drops what has expired, for everyone), decides
(`Decide`), records each conflict and supersedes each rival it beats, settles
itself, enters the pen field by field, and leaves for delivery (`Leave`,
`Queue`) or stops. Redis errors are swallowed (`LookFails`, `EnterFails`), as
`runRedisOperation` does.

**Delivery.** `bull`, `attempts`, `stalls` are BullMQ's, `rec` and `dead` the
tables, `status` the event's column, `step` the place in `processWriteJob`;
`writes` counts what the adapter has done and `unhandled` remembers runs that
ended outside the catch block. BullMQ is external: it runs a waiting job, one at
a time for each queue, up to `attempts` times, and puts a job whose worker died
back into the queue a bounded number of times.

**AtLeastOnce** is what a caller relies on: a job has a number of chances, each of
which reaches the target at most once and may fail or die with the target reached; it
ends done, with the target reached or a conflict lost, or abandoned, with its chances
used up and a dead letter unless nobody could write one. `Delivery.Promise` is the
refinement mapping: the fate of a job is BullMQ's state of it, failed attempts and
stalls are the chances spent, and an event's success is claimed while its status
shows it. The steps of `processWriteJob`, the records and `Crash` are not visible
there.

**RecordSync.** `record` is one row of a department with its `lastPropagation`
stamp and time of modification. Departments and adapters read it and write it
back later (`ReadRecord`, `ChangeDirectly`, `WriteRecord`): a direct change sets
all columns as they were read, an adapter only those of its event, and both set
all of `rawPayload`, where some fields and the stamp live. A poll reads the
record, then the snapshot (`Compare`), saves a first one, or deals with each
supported difference (`Deal`), by confirming it as propagated or by ingesting
it, and saves the snapshot last. Polls overlap and fail anywhere.

**ReviewDesk.** One event with its conflicts: `row` and `item` are the tables
`conflicts` and `manual_review_items`, `status` the event's column, `audit` the
log; `place`, `conf`, `copy`, `choice` are locals of a call of `reviewConflict`.
`Open` is everything up to its first update, with the answers 400, 404 and 409 as
`refused`; `WriteRow`, `WriteItems`, `SettleEvent`, `Tell` are its four statements,
and `Fail` is an exception or a crash between any two. The engine is still
recording (`RecordRow`, `RecordItem`, `Settle`) when the first row can be reviewed.

**Propagation.** `record` has of each system the columns, the `rawPayload` that
repeats them, and the stamp. A desk reads and writes back (`ReadRecord`,
`ChangeBusiness`, `ChangeDepartment`), a poll of a department looks, deals with
each difference and saves (`Look`, `Deal`, `Save`), `Ingest` accepts an event once
and enqueues it for the targets `getRoutingOutcome` gives, and a worker translates
(`Translate`: resolve the target again, read the source's record as it is by now,
take the mapping), reads the target, writes it, and completes or fails
(`ReadTarget`, `WriteTarget`, `Complete`, `FailJob`). There is one worker for each
queue, and a retried job may be overtaken. An event has one service type, by which
it is routed and mapped, and a payload of any fields (`Given`): a poll makes events of
one field (`EventAt`), a request may change several (`Sent`), and its service type need
not be about any of them. The adapter writes what the event has changed and the
mapping gives (`UpdatedFields`), and the target's poll takes the write for a delivery
only if the event has changed just that field (`Confirms`). `Leads` names where such
an event may be written. `Rules`, `Outputs`, `Polled` and `Registries` are constants;
`Deployment` has those of `routing.rules.ts`, `diff.service.ts` and the seed.

**Scenarios.** `table` is the business's row in each of five tables; `phase` and
`at` are where a runner is, `Plan` the order of its preparing statements. `event`,
`record`, `bull`, `audits` are kept as far as a runner can see them, `rule` is the
map of `failure-simulation.service.ts`. The wait makes its two reads in parallel
(`PollEvent`, `PollJobs`), and `Judge` is the assertions of the fan-out scenario
and of the failure scenario. `disturbed` and `inherited` are histories: the runs that
overlapped another, and those that began alone with jobs of earlier runs still in
the queue.

**Console.** `above` has for each row of a table the rows with later stamps. That is
a weak order: the queries sort by stamps in milliseconds and by nothing that would
tell rows of equal stamps apart, so Postgres may put those in another order for each
query. A page is therefore any of several sets of rows (`Page`): what is left of a
beginning of the list `skip + take` rows long (`Beginnings`) without one `skip` rows
long, with one of its topmost rows as the first (`Heads`). `cache` and
`fetches` are the React Query cache and its requests by key, `page`, `filter`,
`selected` the state of the page. An endpoint reads a page and a count (`ReadRows`,
`ReadCount`), an answer lands under the key it was asked for (`Answer`), and `Draw` is
a render with its effect. `Record` writes a row, which need not come in at the top and
may tie with others.
`walk` is a history: what a reader who pages forward has yet to see.

## 3. What the runs check

| Run | Instance | What it shows |
|---|---|---|
| `idempotency` | 3 calls, one sharing a request id with the first and one a content; Redis may lose any write, any call may die; fair calls | `GuardInv` is an invariant; `HandledOnce`: no two calls with a common key are handled; `AnswersBacked`: what a duplicate is told is in the table; `PromiseKept`: the guard implements `AcceptOnce`; `CallsEnd`, `ResponsesSaved`: calls answer, and a handled one leaves its response |
| `conflict` | 3 changes of 3 systems, each with authority over one of the two fields it shares with another; window 0, clock of two values, Redis failing | `OneVerdictPerPair`, `VerdictsBacked`, `NoCircle`, `ChangeSurvives` |
| `review` | 3 calls over 2 conflicts of one event, every kind of body, the engine still recording and a rival winning | `RowsAgree`: a conflict's two columns tell one story; `DecidedStays`: only a call that had read it open changes a decision; `ReplyMeansDone`, `SoleReviewerDecides`, `Unanimous`: what an answer is worth |
| `delivery` | an event with two targets on one queue, 2 attempts, exceptions, crashes, a lost conflict at any moment | `SuccessBacked`: no success without a write; `DeadLettersAreFinal`: our attempt count agrees with BullMQ's; `LosersRest`: a loser at rest is never written again |
| `delivery_live` | one job, 3 attempts, 1 stall, fair workers | `RunsBounded`: writes and dead letters are bounded by the runs; `PromiseKept`: delivery implements `AtLeastOnce`; `JobsEnd`: every job ends |
| `record` | an address changed by its department, two events of other systems (one of a field of `rawPayload`), 2 polls, window 0, clock of two values | `RecordInv`, `SnapshotCovered`: no change is swallowed by a snapshot; `ConfirmedWasWritten`: nothing is confirmed that the adapter never touched |
| `record_live` | a supported and an unsupported field that both change, one poll that fails once and goes on for ever | `ChangesNoticed`: a change is accounted for in the end, unless it is overwritten |
| `propagation` | SWS, e-Karmika and e-Surakshate with their rules for address, employees, signatory and licence; 4 changes of desks and 4 requests to the API, half of them of one field and half of two, in the six sets of 2 or 3 that `MCBatches` names; 2 attempts; a registry that is complete, has no identifier for e-Karmika or lacks e-Surakshate | `Provenance`: values of a field stay among systems into which no accepted event leads that field, though translations read whole records; `OwnFieldsKept`: a delivery changes only the columns its event leads there, though an adapter computes from an earlier read; `DeliveredStands`: what the desk of e-Surakshate put once and a job delivered stands in SWS, whatever is retried or overtaken, until another system's event leads the field there |
| `scenarios` | 2 calls out of two fan-out runs, a failure run and a reset, 2 attempts | `RestoredAtRest`: the business has its rows again, whoever lost which race; `AloneRunsDeliver`: a run that nothing overlapped and no job was left for has delivered when it asserts; `NoStrayFailure`: a failure strikes no run it was not armed for |
| `console` | pages of one row; 3 events, 2 audit entries of two businesses with a filter, 2 conflicts, the preview; 2 requests in flight, one reset | `WalkMissesNothing`: paging forward over a growing list misses no row but one whose stamps others have too; `OpenedIsListed`: the open row is on the screen, whichever answer arrives; `PreviewCatchesUp`: a dashboard that stays open shows the newest events in the end |

Two runs check what a document of the repository says and find it violated; each
is a finding in `PROJECT.json`:

- `delivery_completed`: the event is COMPLETED when all job records *there are*
  have completed, while later targets have none yet.
- `direct_lost` (SWS and e-Karmika): a delivery that overlaps an edit of the
  department's desk leaves the edited column and puts back the `rawPayload` it had
  read. The event that the poll makes of the edit is translated from that
  `rawPayload`: SWS is written with the old value, the event is COMPLETED, and its
  key is refused from then on.

Bounds, and why they are enough. The three calls of `idempotency` have every
relation two calls can have directly or through a third (same content, changed
content under an old id, nothing but a common third). Delivery needs two targets on one
queue for a status both write, and a third attempt only for what depends on
counts, which is why the liveness run has one job. Three conflicting changes are
the smallest circle. With window 0 a clock of two values has an event on the
boundary and one outside. Two polls are enough for one to overtake the other, or
to stop for good while the other goes on, and the stamp needs one write that is
confirmed and one that is not. Three
reviewers are enough for two to agree against one, two conflicts for reviews of one
event that differ. In `propagation` each of the sets of `MCBatches` makes one of the
meetings that matter: two changes of the signatory at one desk, which overtake each
other while the second carries an address along, with e-Karmika reporting meanwhile by
its desk or by an event that has a signatory too; an event of SWS that teaches both
departments their employees while e-Karmika sends its own, while the desk of SWS
moves, and while a licence finds no mapping; a delivery that overlaps an edit. Four
changes at once add no pair of writers of a record or a field, and a third attempt
adds a retry that meets what the second may meet. The sets are a bound for TLC only:
the proofs have any changes in any order.
Two runners are enough for every race of the preparation; the proof has any
number. Pages of one row make every row a page boundary, and two requests in flight
let one overtake the other.

Symmetry is used for the two departments of `delivery`, the two polls of `record`,
the reviewers and conflicts of `review` and the two fan-out runs of `scenarios`,
which no definition tells apart, and in no run with a liveness property. `MaxTime`, `MaxFailures`, `MaxStalls`,
`Batches`, `MaxCalls`, `MaxWrites`, `MaxClears`, `MaxInFlight`, "superseded once"
and "a rival wins once" are the only bounds in guards.
Deadlock checking is off where the system may come to rest, with its calls
answered, its jobs ended and its changes made; `console`, which a reader can always
go on using, has it on.

## 4. Fairness

- `Idempotency.FairSpec`: a call that was received goes on. An `await` on
  Postgres or Redis resolves or throws; `Abort` is not fair.
- `Delivery.FairSpec`: workers take waiting jobs, an `await` resolves, a delay
  passes and the lock of a dead run expires: the workers run in one process that
  is always on. `Fail`, `FailOutside` and `Crash` are not fair, and neither is
  `ingestRequest`. Crashes are bounded by nothing but the stall limit BullMQ
  applies to each job.
- `RecordSync.FairSpec`: polls start again for ever (`setInterval` in
  `poller.scheduler.ts`) and an `await` resolves. Writers are not fair.
- `Console.FairSpec`: the interval of the dashboard fires (`refetchInterval`), the
  reads of its preview resolve, and its requests do not fail for ever. Readers and
  the pipeline are not fair.

## 5. What is proved

TLAPS checks these for all values of the constants, under the named assumptions
of each module only (typing of the constants, disjoint key spaces, at least one
attempt, direct changes only of columns, departments that exchange changes with the
hub only). Each run evaluates the assumptions of its modules.

- `IdempotencyProofs`: whatever implements `AcceptOnce` accepts no two calls that
  share a key, has an accepted original for every duplicate (`PromiseInvariant`) and
  never changes a verdict (`FinalVerdicts`). Of the guard itself: `GuardInvariant`,
  and from it `HandledAtMostOnce`, `AnswersAlwaysBacked` and
  `GuardImplementsPromise`, and so `GuardKeepsItsWord`, what the abstract
  specification promises, without another proof about its steps. `HandledOnce` is not
  inductive: it needs `RowsApart` (the unique columns), which needs every handled
  call to own a row. That a duplicate's original is right needs `CacheTraced`:
  each cache entry was put under a key by a decided call that has the key,
  possibly a duplicate passing on what it read.
- `DeliveryProofs`: `DeliveryInvariant`, and from it `TypeCorrect`,
  `SuccessAlwaysBacked`, `DeadLettersAlwaysFinal`, `RunsAlwaysBounded` and the
  action property `LosersAlwaysRest`. The strengthening (`RunInv`, `FailureInv`,
  `CountInv`) says of each place in `processWriteJob` what has been written and
  buried before it, and how many runs are spent. `DeliveryKeepsPromise` shows step by
  step that delivery implements `AtLeastOnce`; the same invariant is needed for it,
  since a target may be reached only once a chance and a job be abandoned only with
  its dead letter. Of whatever implements the promise, `PromisedFates` (a job's end is
  backed, and its target reached at most `MaxAttempts + MaxStalls` times) and
  `PromisedEnds` (a job that is over is never touched again) are proved from the
  abstract steps alone, and so `DeliveryKeepsItsWord`.
- `ConflictEngineProofs`: `OutcomeMirrored` (the outcome does not depend on which
  event arrives second), `TypeCorrect`, `JudgedOnce`, `MatrixBacksVerdicts`. The
  strengthening follows knowledge from the pen: what is in it has entered, of two
  events that have looked at most one has seen the other, plans follow from what
  was seen, and records from plans. `NoCircleOfVerdicts` and `SomeChangeSurvives`
  hold for any number of changes without an order on them: a loser never shows
  itself (`LoserHidden`), so whoever beats somebody is beaten by nobody
  (`VerdictInvariant`), and chains of verdicts have length one.
- `ReviewDeskProofs`: `DeskInvariant`, and from it all properties of `review` for
  any number of conflicts, calls and bodies. What a call has written so far stays
  written, since the engine records a conflict once and every other call writes
  decisions only; the engine's last update is why the answers of early reviewers
  are left out.
- `PropagationProofs`: for any systems, fields, rules, mappings and registries, and
  for events of any set of fields. `RoutesFollowRules`: each job is one of an accepted
  event and of a target its service type is routed to, and a worker has values only for
  fields that its event leads there (`Leads`); the action property
  `DesksKeepTheirFields` follows. `ValuesFollowRules` is about any set of systems:
  `Provenance` is not inductive, since a value also waits in copies, looks, events,
  payloads and targets as they were read, so `OriginsOK` says of each of these that its
  values are known in the set it is held for, as long as no event has led the field
  into the set (`PropagationInvariant`; `PropagationTypes` is a part of it). The rules
  alone would be too little and the strict form, "along the rule of the field", is
  false of the code: an event carries along what its service type is not about.
  `WhatIsDeliveredStands` follows one value of a desk instead (`DeliveredInvariant`):
  that was put by one change, it is nowhere before that change is saved (`NotYet`), and
  no job brings it back to its own desk (`NoWayBack`), so the job that carries it has
  it in its payload, and after its delivery no job has another (`Holding`). It takes a
  target whose own desk is silent and into which no other system's event leads the
  field (`Untouched`): an event of e-Karmika may carry a signatory along and
  overwrite what e-Surakshate has delivered. It needs `HubAssumption`: with a rule
  between departments a value could come back to the desk it was replaced at. The
  rules of `routing.rules.ts` have none (`ShippedRulesMeetAtHub`).
- `ScenariosProofs`: `MissingRowsAreSomebodys` and from it `BusinessIsRestored`, for
  any number of runners and resets. Some runner past the delete of a missing row has
  yet to insert it, and cannot give up before: an insert fails only where a row is
  present, and the tables are wiped and filled in an order that leaves the first
  insert to whoever wiped last. The order fails for one table, see section 6.
  `StoresInvariant` types the queue and its records, which a preparation empties
  under a running worker (`ScenarioTypes`). `FailuresDoNotStray` and
  `UndisturbedRunsDeliver` are about a run that nothing overlaps: a failure it meets
  is its own (`LoneRuns`), its jobs and records tell of its event only, and a final
  status stands for jobs that have written. The second has the hypothesis
  `MaxAttempts > 1`: with a single attempt (`QUEUE_MAX_ATTEMPTS=1`, the default is 3)
  the failure scenario buries its job instead of retrying it.
- `ConsoleProofs`: `ConsoleInvariant`, and from it `ConsoleTypes`,
  `PagingMissesNothing` and `OpenRowIsListed`, for any lists, page size, filters and
  stamps. A page is what one beginning of the list has more than another, so it is
  never longer than was asked for (`PageBounded`); a row that has its stamps to itself
  has the same number of rows above it in every order a query may choose, and is in
  the page or before it or behind it by that number (`Rank`, `PageParts`, `NotListed`).
  `WalkMissesNothing` is not inductive: what the reader is owed and is not tied has to
  lie at or behind the page on the screen, and behind it once that page is answered,
  whose count then says that more is to come (`WalkInv`). It is kept because a row that
  comes in, wherever it does, never moves another up (`RanksGrow`), and a row it ties
  with is one the walk promises nothing of any more.
- `RecordSyncProofs`: `RecordInvariant`, and from it `SnapshotAlwaysCovered` and
  `ConfirmedAlwaysWritten`. The snapshot is covered because a poll that is
  dealing with differences has accounted for all it read but what is left
  (`DifferencesLeft`), which holds for an overtaken poll too, since nothing that
  was accounted for is forgotten; and a confirmed field was written because every
  stamp anybody has read is one of a finished write (`StampsWritten`).

Every invariant and every action property that a run checks is proved. Only
model-checked are the liveness properties (`CallsEnd`, `ResponsesSaved`, `JobsEnd`,
`ChangesNoticed`, `PreviewCatchesUp`), which fairness keeps out of the prover's
reach, and the two findings, whose counterexamples are TLC's.

## 6. Known behaviour that no property excludes

The models contain these because the code does; nothing in the repository
promises otherwise in words a run checks, or a property above bounds them.

- The key of a request is stored before the work is done and never released: a call
  that dies is never handled, and every retry is answered as a duplicate.
- For the same reason a value that is changed and later changed back is not carried
  over again: the second change has the key of the first.
- A late upsert or the last update of `ingestRequest` leaves a delivered event
  QUEUED. A dead letter is hidden by the later success of the other target:
  `getPostSuccessEventStatus` answers FAILED, and its caller makes that
  WRITE_SUCCEEDED. A job whose worker dies between its dead letter and the throw is run
  again and may succeed, so that it is buried and delivered. A conflict lost while a run is past its check is overwritten by
  that run.
- Two competing changes can both look into the pen before either enters it, and both
  pass as free of conflict; a Redis failure can hide fields of an event.
- An approved event becomes CONFLICT_RESOLVED and nothing enqueues it. A review that
  dies after its first statement leaves a decided conflict with an open item, and a
  retry is answered 409. A review of an event the engine has not settled is
  overwritten by the engine's last update. An approved conflict is still shown as
  PENDING_REVIEW, for its resolution stays MANUAL_REVIEW_REQUIRED.
- A direct change within five seconds of a propagated write of the same field is
  confirmed as that write and never ingested. A direct change undoes a propagated
  write it has not read; an adapter undoes a change of `rawPayload`; a slow poll saves
  an older record over a newer snapshot and the difference is then reported again.
- An event of the API names a system whose record it does not change: for a
  department, the translation reads that record and delivers the old value.
- An event may change several fields under one service type, and only the service type
  is routed: what it has changed besides goes along wherever the mapping gives it. The
  scenario of `scenarios.service.ts:1011-1045` submits an address with an
  `employeeCount`; from SWS, and without a competitor, it writes the employees into
  both departments, to which no rule leads them. An event of e-Karmika with
  `employeeCount` and `authorizedSignatory` overwrites the signatory SWS has from
  e-Surakshate. `Provenance` and `OwnFieldsKept` are stated by what an event leads
  where (`Leads`), and `DeliveredStands` leaves such a field out.
- The poll of the target does not know such a delivery again: a stamp confirms a
  difference only if its event has changed the same fields as the poll has put
  under one service type. So the fields of the delivery are ingested as changes of the
  target's own desk and sent on where its rules lead, with the target as their source.
- A delivered business name sets `rawPayload.employerName` of the e-Karmika record
  (`ekarmika.adapter.ts:162-165`), which the poll prefers to the manager's column
  (`polling.service.ts:339-342`): by reading, the next poll reports a new signatory.
  Business names are not modelled.
- A licence expiry of e-Surakshate is routed to SWS, and the seed has no mapping for
  it: its job fails every attempt and ends among the dead letters.
- Two runners that prepare the business at once can leave it without its
  e-Surakshate record: one that gives up at the insert of the e-Karmika record has
  deleted the record its rival had made (`RestoredAtRest` names this case). A
  process that dies in a preparation leaves the row out until the next one.
- The failure scenario asserts an audit entry that the worker writes after the
  statuses that end the wait, so a run that nothing overlaps can fail, although the
  demo page says it "verifies the retry succeeds deterministically"
  (`src/frontend/src/pages/DemoControlPage.tsx:92`).
- A run whose wait has timed out leaves its jobs in the queue, and the preparation of
  the next run leaves them there; only the demo reset empties the queue, and a job
  that is running goes on. So an older job can write over the change a later run
  asserts (`AloneRunsDeliver` leaves out a run that begins with jobs of another).
- Rows and count of a page are two reads: a write between them can switch the Next
  button off early, until the next answer. A reader on page 2 when the demo is reset
  has an empty list without a pager. Rows with equal stamps may come in another order
  for each query, so a reader who pages forward can miss one of them at the boundary of
  two pages, although nothing is written meanwhile (`WalkMissesNothing` excepts tied
  rows, and TLC finds it violated when it does not). The comparison page always lists
  the address among the differing fields, for SWS keeps it in parts and the departments
  as one line (`src/frontend/src/services/business.service.ts:67`).

## 7. What is not modelled

- Payload contents, key strings and hashes, the shapes of records (JSONata
  expressions, the XML of e-Surakshate), audit entries beyond the ones a runner or a
  list reads, wording.
- The HTTP layer, validation and configuration: a request that a schema refuses
  changes nothing. The inputs of the models are requests that the schemas admit, and
  not all of them: `Propagation` takes events of any service type and any fields in its
  definitions and proofs and a few of them in its runs; the other modules abstract from
  the fields of an event, or fix them for each run.
- The creation and deletion of records in the source systems, and the merge of the
  parts of a signatory. The conflict and idempotency scenarios, which submit and
  assert over the same machinery. Aggregates of the dashboard, the event timeline,
  the comparison page and the forms of the frontend.
- The polling queue, whose worker only logs. Records of different businesses share
  nothing and are not modelled together.
- Time, except where the code compares stamps: windows are numbers, delays have
  no length.

## 8. Plan

Done, in order: `AcceptOnce` and `Idempotency`, `AtLeastOnce` and `Delivery`, `AuthorityMatrix` and
`ConflictEngine`, `RecordSync`, `ReviewDesk`, `Propagation` with `Deployment`,
`Console`, `Scenarios`, each with its proofs. Worth doing next, in order:

1. The creation and deletion of a record while events of its business are under
   way, in `Propagation`.
2. The conflict scenario in `Scenarios`, with the status a loser must reach.
3. The worker of `Scenarios` as a second implementation of `AtLeastOnce`.
