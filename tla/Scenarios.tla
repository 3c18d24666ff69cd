------------------------------- MODULE Scenarios -------------------------------
(****************************************************************************)
(* The demo's scenario runners (scenarios.service.ts) over one business.     *)
(*                                                                          *)
(* Every runner first puts the business back to its seed: one statement      *)
(* deletes its rows from a table, another inserts them again, with no        *)
(* transaction around any two of them and unique keys on every table, so an  *)
(* insert fails when another runner got there first.  It then submits a      *)
(* change and polls the event and its jobs until both look finished or the   *)
(* wait times out, reads the audit log, and asserts what it expects.  The    *)
(* failure scenario arms a write failure before it submits; the rules of     *)
(* failure-simulation.service.ts are process-wide and every runner clears    *)
(* them all.  The reset empties the queues and the runtime tables as well;   *)
(* the scenarios it then replays are runs like any other.                    *)
(*                                                                          *)
(* Ingestion and the department worker are kept to what a runner can tell    *)
(* apart: the statuses, the records, and the order they are written in.      *)
(* RecordSync, Idempotency and Delivery have them in detail.                 *)
(****************************************************************************)
EXTENDS Integers, Sequences, FiniteSets

CONSTANTS Runs,         \* calls of the scenario endpoints
          Kind,         \* what each call runs: "fanout", "retry" or "reset"
          MaxAttempts,  \* QUEUE_MAX_ATTEMPTS
          MaxCalls,     \* bound: calls that are made in all
          Absent,       \* the business has no row in a table
          NoJob

ASSUME ScenariosAssumption ==
  /\ Kind \in [Runs -> {"fanout", "retry", "reset"}]
  /\ MaxAttempts \in Nat \ {0} /\ MaxCalls \in Nat
  /\ \A rs \in SUBSET Runs : rs # Absent
  /\ NoJob \notin Runs \X {"ekarmika", "esurakshate"}

VARIABLES table,     \* what a table holds of the business: Absent, or the runs
                     \* whose change its row shows (none: the seed)
          phase,     \* run -> where it is
          at,        \* run -> the step of its preparation
          event,     \* run -> the status of its event, or "none"
          record,    \* job -> the status of its queue_jobs row, or "none"
          bull,      \* job -> its state in BullMQ
          tries,     \* job -> its runs that have failed
          worker,    \* the job the department worker has, and the step it is at
          audits,    \* run -> what the audit log says of its e-Karmika write
          rule,      \* failures still armed for e-Karmika and the business
          seen,      \* run -> the reads of this round of its wait that were final
          logs,      \* run -> the audit entries in its summary, till it is judged
          disturbed, \* history: runs under way that overlapped another or timed out
          inherited  \* history: a run under way that began alone, but with jobs of
                     \* others in the queue

restored == <<table, phase, at>>
pipeline == <<event, record, bull, tries, worker, audits>>
history == <<disturbed, inherited>>
vars == <<restored, pipeline, rule, seen, logs, history>>

Departments == {"ekarmika", "esurakshate"}
Tables == Departments \cup {"businesses", "registry", "sws"}
Jobs == Runs \X Departments
JobsOf(r) == {r} \X Departments

\* A row as the seed has it shows the change of no run.
Seed == {}

\* The plan below, if the records were made in the order they are wiped in.
PlanInWipeOrder ==
  << <<"empty", "queues">>, <<"empty", "audits">>, <<"empty", "records">>,
     <<"empty", "events">>,
     <<"wipe", "businesses">>, <<"make", "businesses">>,
     <<"wipe", "registry">>, <<"make", "registry">>,
     <<"wipe", "ekarmika">>, <<"wipe", "esurakshate">>, <<"wipe", "sws">>,
     <<"make", "ekarmika">>, <<"make", "esurakshate">>, <<"make", "sws">> >>

\* The statements of prepareScenarioDemoState in their order; those of
\* prepareScenarioWorkspace begin at the fifth.
Plan ==
  << <<"empty", "queues">>, <<"empty", "audits">>, <<"empty", "records">>,
     <<"empty", "events">>,
     <<"wipe", "businesses">>, <<"make", "businesses">>,
     <<"wipe", "registry">>, <<"make", "registry">>,
     <<"wipe", "ekarmika">>, <<"wipe", "esurakshate">>, <<"wipe", "sws">>,
     <<"make", "sws">>, <<"make", "ekarmika">>, <<"make", "esurakshate">> >>

FirstStep(k) == IF k = "reset" THEN 1 ELSE 5

\* The department worker has no job.
Idle == [job |-> NoJob, step |-> "idle"]

Over == {"idle", "passed", "failed"}
Calls == Cardinality({r \in Runs : phase[r] # "idle"})
Active == {r \in Runs : phase[r] \notin Over}

Goto(r, p) == phase' = [phase EXCEPT ![r] = p]

----------------------------------------------------------------------------
(* Preparation                                                                *)

\* A job some run has left for the worker, or the worker is at one.
Backlog == worker # Idle \/ \E j \in Jobs : bull[j] = "waiting"

\* What the histories say of a run that begins: with none under way they begin anew.
Witness(r) ==
  IF Active = {}
  THEN disturbed' = {} /\ inherited' = (IF Backlog THEN {r} ELSE {})
  ELSE disturbed' = disturbed \cup Active \cup {r} /\ UNCHANGED inherited

\* The same, if a runner left the armed failures of the others alone.
StartArmed(r) ==
  /\ phase[r] = "idle" /\ Calls < MaxCalls
  /\ Goto(r, "preparing")
  /\ at' = [at EXCEPT ![r] = FirstStep(Kind[r])]
  /\ rule' = rule
  /\ Witness(r)
  /\ UNCHANGED <<table, pipeline, seen, logs>>

\* A call arrives; before its first await it clears every armed failure.
Start(r) ==
  /\ phase[r] = "idle" /\ Calls < MaxCalls
  /\ Goto(r, "preparing")
  /\ at' = [at EXCEPT ![r] = FirstStep(Kind[r])]
  /\ rule' = 0
  /\ Witness(r)
  /\ UNCHANGED <<table, pipeline, seen, logs>>

Doing(r, what) == phase[r] = "preparing" /\ Plan[at[r]][1] = what

\* After the last statement the reset is done, the failure scenario arms its
\* failure, and both scenarios submit their change.
Advance(r) ==
  IF at[r] < Len(Plan)
  THEN at' = [at EXCEPT ![r] = @ + 1] /\ UNCHANGED <<phase, rule>>
  ELSE /\ Goto(r, IF Kind[r] = "reset" THEN "passed" ELSE "accepting")
       /\ rule' = IF Kind[r] = "retry" THEN 1 ELSE rule
       /\ UNCHANGED at

\* The reset: queue.obliterate({ force: true }) and the runtime tables.
EmptyQueues(r) ==
  /\ Doing(r, "empty") /\ Plan[at[r]][2] = "queues"
  /\ bull' = [j \in Jobs |-> "absent"]
  /\ Advance(r)
  /\ UNCHANGED <<table, event, record, tries, worker, audits, seen, logs, history>>

EmptyTable(r) ==
  /\ Doing(r, "empty") /\ Plan[at[r]][2] # "queues"
  /\ audits' = IF Plan[at[r]][2] = "audits" THEN [x \in Runs |-> {}] ELSE audits
  /\ record' = IF Plan[at[r]][2] = "records" THEN [j \in Jobs |-> "none"] ELSE record
  /\ event' = IF Plan[at[r]][2] = "events" THEN [x \in Runs |-> "none"] ELSE event
  /\ Advance(r)
  /\ UNCHANGED <<table, bull, tries, worker, seen, logs, history>>

Wipe(r) ==
  /\ Doing(r, "wipe")
  /\ table' = [table EXCEPT ![Plan[at[r]][2]] = Absent]
  /\ Advance(r)
  /\ UNCHANGED <<pipeline, seen, logs, history>>

Make(r) ==
  /\ Doing(r, "make") /\ table[Plan[at[r]][2]] = Absent
  /\ table' = [table EXCEPT ![Plan[at[r]][2]] = Seed]
  /\ Advance(r)
  /\ UNCHANGED <<pipeline, seen, logs, history>>

\* The unique key is taken: createMany throws and the call is answered 500.
MakeFails(r) ==
  /\ Doing(r, "make") /\ table[Plan[at[r]][2]] # Absent
  /\ Goto(r, "failed")
  /\ UNCHANGED <<table, at, pipeline, rule, seen, logs, history>>

----------------------------------------------------------------------------
(* The change is submitted                                                    *)

\* ingestRequest up to routing: without its registry rows the business has no
\* targets, and the event is final.
Accept(r) ==
  /\ phase[r] = "accepting"
  /\ IF table["registry"] = Absent
     THEN event' = [event EXCEPT ![r] = "REGISTRATION_REQUIRED"] /\ Goto(r, "waiting")
     ELSE event' = [event EXCEPT ![r] = "CONFLICT_CHECKED"] /\ Goto(r, "enqueueing")
  /\ UNCHANGED <<table, at, record, bull, tries, worker, audits, rule, seen, logs, history>>

\* One target after the other, e-Karmika first.
Enqueue(r) ==
  /\ phase[r] \in {"enqueueing", "enqueueing next"}
  /\ LET j == <<r, IF phase[r] = "enqueueing" THEN "ekarmika" ELSE "esurakshate">>
     IN  /\ record' = [record EXCEPT ![j] = "QUEUED"]
         /\ bull' = [bull EXCEPT ![j] = "waiting"]
  /\ Goto(r, IF phase[r] = "enqueueing" THEN "enqueueing next" ELSE "queued")
  /\ UNCHANGED <<table, at, event, tries, worker, audits, rule, seen, logs, history>>

\* updateCanonicalEvent throws when the row is gone.
UpdateEvent(r, status, next) ==
  IF event[r] = "none" THEN Goto(r, "failed") /\ UNCHANGED event
  ELSE Goto(r, next) /\ event' = [event EXCEPT ![r] = status]

FinishIngest(r) ==
  /\ phase[r] = "queued"
  /\ UpdateEvent(r, "QUEUED", "waiting")
  /\ UNCHANGED <<table, at, record, bull, tries, worker, audits, rule, seen, logs, history>>

----------------------------------------------------------------------------
(* The department worker: one job at a time                                   *)

Now(step) == worker.job # NoJob /\ worker.step = step
Then(step) == worker' = [worker EXCEPT !.step = step]
Owner == worker.job[1]
Target == worker.job[2]

\* The same, with one attempt more than the job has.
EndedLate(j, threw) ==
  /\ worker' = Idle
  /\ tries' = [tries EXCEPT ![j] = IF threw THEN @ + 1 ELSE @]
  /\ bull' = [bull EXCEPT ![j] =
       IF @ = "absent" THEN @
       ELSE IF ~threw THEN "completed"
       ELSE IF tries[j] + 1 <= MaxAttempts THEN "waiting" ELSE "failed"]

\* The run of j ends.  BullMQ forgets a job it was made to obliterate, retries
\* one that threw, up to its attempts.
Ended(j, threw) ==
  /\ worker' = Idle
  /\ tries' = [tries EXCEPT ![j] = IF threw THEN @ + 1 ELSE @]
  /\ bull' = [bull EXCEPT ![j] =
       IF @ = "absent" THEN @
       ELSE IF ~threw THEN "completed"
       ELSE IF tries[j] + 1 < MaxAttempts THEN "waiting" ELSE "failed"]

\* updateMany writes no row that is not there.
Records(j, status) ==
  record' = [record EXCEPT ![j] = IF @ = "none" THEN @ ELSE status]

\* The event is not found, or the registry has no target for it.
Unprocessable(j) == event[j[1]] = "none" \/ table["registry"] = Absent

\* A run of a job begins.  One that finds no event or no target throws outside the
\* try block and leaves no trace.
Take(j) ==
  /\ worker = Idle /\ bull[j] = "waiting"
  /\ IF Unprocessable(j)
     THEN Ended(j, TRUE) /\ UNCHANGED <<event, record>>
     ELSE /\ worker' = [job |-> j, step |-> "write"]
          /\ bull' = [bull EXCEPT ![j] = "active"]
          /\ event' = [event EXCEPT ![j[1]] = "WRITE_ATTEMPTED"]
          /\ Records(j, "PROCESSING")
          /\ UNCHANGED tries
  /\ UNCHANGED <<restored, audits, rule, seen, logs, history>>

\* adapter.write: an armed failure is used up first; a row that is missing is
\* an error; else the change replaces what the row shows of changes like it.
Write ==
  /\ Now("write")
  /\ IF Target = "ekarmika" /\ rule > 0
     THEN rule' = rule - 1 /\ Then("fail") /\ UNCHANGED table
     ELSE IF table[Target] = Absent
     THEN Then("fail") /\ UNCHANGED <<table, rule>>
     ELSE /\ table' = [table EXCEPT ![Target] =
                          {r \in @ : Kind[r] # Kind[Owner]} \cup {Owner}]
          /\ Then("complete") /\ UNCHANGED rule
  /\ UNCHANGED <<phase, at, event, record, bull, tries, audits, seen, logs, history>>

Complete ==
  /\ Now("complete")
  /\ Records(worker.job, "COMPLETED")
  /\ Then("settle")
  /\ UNCHANGED <<restored, event, bull, tries, audits, rule, seen, logs, history>>

\* getPostSuccessEventStatus, over the records there are.
Settle ==
  /\ Now("settle")
  /\ IF event[Owner] = "none"
     THEN Ended(worker.job, TRUE) /\ UNCHANGED event
     ELSE /\ event' = [event EXCEPT ![Owner] =
               IF /\ \E j \in JobsOf(Owner) : record[j] # "none"
                  /\ \A j \in JobsOf(Owner) : record[j] \in {"none", "COMPLETED"}
               THEN "COMPLETED" ELSE "WRITE_SUCCEEDED"]
          /\ Then("log") /\ UNCHANGED <<bull, tries>>
  /\ UNCHANGED <<restored, record, audits, rule, seen, logs, history>>

Audited(entry) ==
  audits' = IF Target = "ekarmika" THEN [audits EXCEPT ![Owner] = @ \cup {entry}]
            ELSE audits

Log ==
  /\ Now("log")
  /\ Audited("succeeded")
  /\ Ended(worker.job, FALSE)
  /\ UNCHANGED <<restored, event, record, rule, seen, logs, history>>

Final == tries[worker.job] + 1 >= MaxAttempts

\* The catch block: the event and its audit entry, then the record and its own.
Failed ==
  /\ Now("fail")
  /\ IF event[Owner] = "none"
     THEN Ended(worker.job, TRUE) /\ UNCHANGED <<event, audits>>
     ELSE /\ event' = [event EXCEPT ![Owner] =
                          IF Final THEN "DLQ_MOVED" ELSE "RETRY_SCHEDULED"]
          /\ Audited("failed")
          /\ Then("reschedule") /\ UNCHANGED <<bull, tries>>
  /\ UNCHANGED <<restored, record, rule, seen, logs, history>>

Reschedule ==
  /\ Now("reschedule")
  /\ Records(worker.job, IF Final THEN "DLQ_MOVED" ELSE "RETRY_SCHEDULED")
  /\ Audited(IF Final THEN "buried" ELSE "retried")
  /\ Ended(worker.job, TRUE)
  /\ UNCHANGED <<restored, event, rule, seen, logs, history>>

----------------------------------------------------------------------------
(* waitForEventSummary and the verdict                                        *)

FinalStatuses ==
  {"COMPLETED", "DLQ_MOVED", "REGISTRATION_REQUIRED", "WRITE_SUCCEEDED"}

EventFinal(r) == event[r] \in FinalStatuses

AnyJobFinal(r) == \E j \in JobsOf(r) : record[j] \in {"none", "COMPLETED", "DLQ_MOVED"}

JobsFinal(r) == \A j \in JobsOf(r) : record[j] \in {"none", "COMPLETED", "DLQ_MOVED"}

WaitOver(r) == Goto(r, "reading") /\ seen' = [seen EXCEPT ![r] = {}]

\* A read of the round was made.  When both were final the wait is over; a read
\* that was not makes the runner sleep and start a round anew.
Round(r, what, final) ==
  LET reads == IF final THEN seen[r] \cup {what} ELSE {}
  IN  IF reads = {"event", "jobs"} THEN WaitOver(r)
      ELSE seen' = [seen EXCEPT ![r] = reads] /\ UNCHANGED phase

\* The two reads of a round are in parallel.  An event that is gone ends the wait.
PollEvent(r) ==
  /\ phase[r] = "waiting" /\ "event" \notin seen[r]
  /\ IF event[r] = "none" THEN WaitOver(r) ELSE Round(r, "event", EventFinal(r))
  /\ UNCHANGED <<table, at, pipeline, rule, logs, history>>

PollJobs(r) ==
  /\ phase[r] = "waiting" /\ "jobs" \notin seen[r]
  /\ Round(r, "jobs", JobsFinal(r))
  /\ UNCHANGED <<table, at, pipeline, rule, logs, history>>

\* 20 seconds, 30 for the failure scenario.
WaitTimesOut(r) ==
  /\ phase[r] = "waiting"
  /\ WaitOver(r)
  /\ disturbed' = disturbed \cup {r}
  /\ UNCHANGED <<table, at, pipeline, rule, logs, inherited>>

ReadLogs(r) ==
  /\ phase[r] = "reading"
  /\ logs' = [logs EXCEPT ![r] = audits[r]]
  /\ Goto(r, "asserting")
  /\ UNCHANGED <<table, at, pipeline, rule, seen, history>>

\* The departments whose record shows the change of the run.
DeliveredTo(r) == {d \in Departments : table[d] # Absent /\ r \in table[d]}

\* The audit log has the failure, the retry and the success, and nothing is in the
\* dead letters.
Retried(r) ==
  {"failed", "retried", "succeeded"} \subseteq logs[r] /\ "buried" \notin audits[r]

\* An assertion that fails is answered 500, else the run reports what it saw.
Judge(r) ==
  /\ phase[r] = "asserting"
  /\ Goto(r, IF \/ Kind[r] = "fanout" /\ DeliveredTo(r) = Departments
                \/ Kind[r] = "retry" /\ Retried(r)
             THEN "passed" ELSE "failed")
  /\ logs' = [logs EXCEPT ![r] = {}]
  /\ UNCHANGED <<table, at, pipeline, rule, seen, history>>

----------------------------------------------------------------------------
Init ==
  /\ table = [t \in Tables |-> Seed]
  /\ phase = [r \in Runs |-> "idle"] /\ at = [r \in Runs |-> 1]
  /\ event = [r \in Runs |-> "none"]
  /\ record = [j \in Jobs |-> "none"] /\ bull = [j \in Jobs |-> "absent"]
  /\ tries = [j \in Jobs |-> 0] /\ worker = Idle
  /\ audits = [r \in Runs |-> {}] /\ rule = 0
  /\ seen = [r \in Runs |-> {}] /\ logs = [r \in Runs |-> {}]
  /\ disturbed = {} /\ inherited = {}

Prepare(r) == Start(r) \/ EmptyQueues(r) \/ EmptyTable(r) \/ Wipe(r) \/ Make(r) \/ MakeFails(r)

Submit(r) == Accept(r) \/ Enqueue(r) \/ FinishIngest(r)

Await(r) == PollEvent(r) \/ PollJobs(r) \/ WaitTimesOut(r) \/ ReadLogs(r) \/ Judge(r)

Work ==
  \/ \E j \in Jobs : Take(j)
  \/ Write \/ Complete \/ Settle \/ Log \/ Failed \/ Reschedule

Next ==
  \/ \E r \in Runs : Prepare(r) \/ Submit(r) \/ Await(r)
  \/ Work

Spec == Init /\ [][Next]_vars

----------------------------------------------------------------------------
(* Properties                                                                 *)

Phases == Over \cup {"preparing", "accepting", "enqueueing", "enqueueing next",
                     "queued", "waiting", "reading", "asserting"}
WorkerSteps == {"idle", "write", "complete", "settle", "log", "fail", "reschedule"}
Statuses == {"none", "REGISTRATION_REQUIRED", "CONFLICT_CHECKED", "QUEUED",
             "WRITE_ATTEMPTED", "WRITE_SUCCEEDED", "COMPLETED", "RETRY_SCHEDULED",
             "DLQ_MOVED"}

\* Every store holds values of its kind, and a job never fails more often than
\* it has attempts.
TypeOK ==
  /\ table \in [Tables -> (SUBSET Runs) \cup {Absent}]
  /\ phase \in [Runs -> Phases] /\ at \in [Runs -> 1..Len(Plan)]
  /\ event \in [Runs -> Statuses]
  /\ record \in [Jobs -> {"none", "QUEUED", "PROCESSING", "COMPLETED",
                          "RETRY_SCHEDULED", "DLQ_MOVED"}]
  /\ bull \in [Jobs -> {"absent", "waiting", "active", "completed", "failed"}]
  /\ tries \in [Jobs -> 0..MaxAttempts]
  /\ worker \in [job : Jobs \cup {NoJob},
                 step : WorkerSteps]
  /\ audits \in [Runs -> SUBSET {"failed", "retried", "succeeded", "buried"}]
  /\ rule \in 0..1
  /\ seen \in [Runs -> SUBSET {"event", "jobs"}]
  /\ logs \in [Runs -> SUBSET {"failed", "retried", "succeeded", "buried"}]
  /\ disturbed \subseteq Runs /\ inherited \subseteq Runs

\* However many runners prepare the business at once, and whichever of them
\* lose a race for a unique key and give up half way, the business has its row
\* in every table once none of them is preparing it.  One row is excepted: a
\* run that gave up at the insert of the e-Karmika record had already deleted
\* the e-Surakshate record, and may have deleted the one its rival had made.
GaveUpAt(t) ==
  \E r \in Runs : phase[r] = "failed" /\ Plan[at[r]] = <<"make", t>>

RestoredAtRest ==
  (\A r \in Runs : phase[r] # "preparing") =>
    \A t \in Tables : table[t] = Absent => t = "esurakshate" /\ GaveUpAt("ekarmika")

\* A run that nothing overlapped, neither another run nor a job an earlier one
\* left behind, finds its change in both departments when it comes to its
\* assertions: the wait does not take a half-delivered event for a delivered
\* one, although it reads statuses that are written in between.
AloneRunsDeliver ==
  \A r \in Runs \ (disturbed \cup inherited) :
    phase[r] = "asserting" => DeliveredTo(r) = Departments

\* A failure armed for one run never strikes a run of the fan-out scenario that
\* nothing overlapped, whatever became of the run it was armed for.
NoStrayFailure ==
  \A r \in Runs \ disturbed :
    Kind[r] = "fanout" /\ phase[r] \notin Over => "failed" \notin audits[r]

================================================================================
