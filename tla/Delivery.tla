------------------------------- MODULE Delivery -------------------------------
(***************************************************************************)
(* Delivery of accepted events: the tail of ingestRequest, which enqueues  *)
(* one write job per target (enqueueTargetWriteJobs, queue.service.ts),    *)
(* and the BullMQ workers that run processWriteJob (processor.shared.ts).  *)
(*                                                                         *)
(* Three stores hold what is known of a job and no transaction spans them: *)
(* BullMQ's own state in Redis, the queue_jobs record, and the status      *)
(* column of the canonical event; dead letters are a fourth.  A step lies  *)
(* between two awaits.  Any step may throw, the process may die at any     *)
(* time, and the conflict engine may supersede an event at any time.       *)
(*                                                                         *)
(* BullMQ is external and modelled by what the code asks of it: `attempts` *)
(* runs, a delay between them, one active job per queue (concurrency 1),   *)
(* and a job whose worker died is put back at most MaxStalls times.  The   *)
(* order in which a worker takes waiting jobs is left open, and delays     *)
(* have no length.                                                         *)
(***************************************************************************)
EXTENDS Naturals, FiniteSets

CONSTANTS
    Events,       \* accepted events with at least one routable target
    Jobs,         \* one per event and target ("queue:event:target")
    EventOf,      \* the event of a job
    QueueOf,      \* the queue of a job: department writes or SWS writes
    MaxAttempts,  \* QUEUE_MAX_ATTEMPTS
    MaxStalls,    \* BullMQ's maxStalledCount
    NoJob

ASSUME DeliveryAssumption ==
    /\ EventOf \in [Jobs -> Events]
    /\ MaxAttempts \in Nat \ {0}
    /\ MaxStalls \in Nat
    /\ NoJob \notin Jobs

VARIABLES
    ingest,      \* the call of ingestRequest: enqueueing, done or aborted
    adding,      \* the job it has added and not yet recorded
    status,      \* the event's status column
    superseded,  \* the events another event has won against
    bull,        \* the state of a job in BullMQ
    attempts,    \* BullMQ's attemptsMade: runs that have failed
    stalls,      \* BullMQ's stalled counter
    step,        \* where the run of an active job is
    rec,         \* the status of the queue_jobs record, if there is one
    outcome,     \* what getPostSuccessEventStatus led a run to
    dead,        \* dead_letter_jobs rows of a job
    writes,      \* writes the adapter has made for a job
    unhandled    \* the jobs of which a run ended outside its catch block

vars == <<ingest, adding, status, superseded, bull, attempts, stalls, step, rec,
          outcome, dead, writes, unhandled>>

JobsOf(e) == {j \in Jobs : EventOf[j] = e}

\* Where an exception is caught by processWriteJob, where it is not, and where
\* the run is over but BullMQ does not know it.
TrySteps   == {"translate", "attempt", "write", "complete", "gather", "settle", "log"}
CatchSteps == {"failed", "bury", "buryRecord", "reschedule"}
OpenSteps  == {"load", "skip", "mark"} \cup CatchSteps
Steps == TrySteps \cup OpenSteps \cup {"idle", "return", "throw", "orphan"}

EventStatuses ==
    {"CONFLICT_CHECKED", "QUEUED", "SUPERSEDED", "TRANSLATED", "WRITE_ATTEMPTED",
     "WRITE_SUCCEEDED", "COMPLETED", "RETRY_SCHEDULED", "DLQ_MOVED"}
RecordStatuses ==
    {"none", "QUEUED", "PROCESSING", "COMPLETED", "RETRY_SCHEDULED", "DLQ_MOVED"}
BullStates == {"absent", "waiting", "active", "delayed", "completed", "failed"}

TypeOK ==
    /\ ingest \in [Events -> {"enqueueing", "done", "aborted"}]
    /\ adding \in [Events -> Jobs \cup {NoJob}]
    /\ status \in [Events -> EventStatuses]
    /\ superseded \in SUBSET Events
    /\ bull \in [Jobs -> BullStates]
    /\ attempts \in [Jobs -> 0 .. MaxAttempts]
    /\ stalls \in [Jobs -> 0 .. MaxStalls]
    /\ step \in [Jobs -> Steps]
    /\ rec \in [Jobs -> RecordStatuses]
    /\ outcome \in [Jobs -> {"COMPLETED", "WRITE_SUCCEEDED"}]
    /\ dead \in [Jobs -> Nat]
    /\ writes \in [Jobs -> Nat]
    /\ unhandled \in SUBSET Jobs

Init ==
    /\ ingest = [e \in Events |-> "enqueueing"]
    /\ adding = [e \in Events |-> NoJob]
    /\ status = [e \in Events |-> "CONFLICT_CHECKED"]
    /\ superseded = {}
    /\ bull = [j \in Jobs |-> "absent"]
    /\ attempts = [j \in Jobs |-> 0]
    /\ stalls = [j \in Jobs |-> 0]
    /\ step = [j \in Jobs |-> "idle"]
    /\ rec = [j \in Jobs |-> "none"]
    /\ outcome = [j \in Jobs |-> "WRITE_SUCCEEDED"]
    /\ dead = [j \in Jobs |-> 0]
    /\ writes = [j \in Jobs |-> 0]
    /\ unhandled = {}

-----------------------------------------------------------------------------
(* The tail of ingestRequest. *)

ingestVars == <<ingest, adding>>
bullVars   == <<bull, attempts, stalls>>
runVars    == <<outcome, dead, writes, unhandled>>

\* enqueueTargetWriteJobs: one target after the other, first into BullMQ ...
AddJob(j) ==
    LET e == EventOf[j]
    IN  /\ ingest[e] = "enqueueing"
        /\ adding[e] = NoJob
        /\ bull[j] = "absent"
        /\ bull' = [bull EXCEPT ![j] = "waiting"]
        /\ adding' = [adding EXCEPT ![e] = j]
        /\ UNCHANGED <<ingest, status, superseded, attempts, stalls, step, rec,
                       runVars>>

\* ... then into the table, whatever the worker has done with it by now.
RecordJob(j) ==
    LET e == EventOf[j]
    IN  /\ ingest[e] = "enqueueing"
        /\ adding[e] = j
        /\ rec' = [rec EXCEPT ![j] = "QUEUED"]
        /\ adding' = [adding EXCEPT ![e] = NoJob]
        /\ UNCHANGED <<ingest, status, superseded, bullVars, step, runVars>>

\* The last update of the event, after every target.
FinishIngest(e) ==
    /\ ingest[e] = "enqueueing"
    /\ adding[e] = NoJob
    /\ \A j \in JobsOf(e) : bull[j] # "absent"
    /\ status' = [status EXCEPT ![e] = "QUEUED"]
    /\ ingest' = [ingest EXCEPT ![e] = "done"]
    /\ UNCHANGED <<adding, superseded, bullVars, step, rec, runVars>>

AbortIngest(e) ==
    /\ ingest[e] = "enqueueing"
    /\ ingest' = [ingest EXCEPT ![e] = "aborted"]
    /\ UNCHANGED <<adding, status, superseded, bullVars, step, rec, runVars>>

\* detectAndResolve for a competing event that wins (conflict.service.ts): the
\* status is overwritten wherever the delivery of e is.  Bound: once an event.
Supersede(e) ==
    /\ e \notin superseded
    /\ superseded' = superseded \cup {e}
    /\ status' = [status EXCEPT ![e] = "SUPERSEDED"]
    /\ UNCHANGED <<ingestVars, bullVars, step, rec, runVars>>

-----------------------------------------------------------------------------
(* processWriteJob. *)

Goto(j, place) == step' = [step EXCEPT ![j] = place]
SetStatus(j, s) == status' = [status EXCEPT ![EventOf[j]] = s]

\* The mark functions update by jobId: without a record they change nothing.
MarkRecord(j, s) ==
    rec' = [rec EXCEPT ![j] = IF @ = "none" THEN @ ELSE s]

\* Mutants of IsFinalFailure: off by one, either way.
IsFinalFailureLate(j)  == attempts[j] >= MaxAttempts
IsFinalFailureEarly(j) == attempts[j] + 2 >= MaxAttempts

\* failedAttempt >= maxAttempts
IsFinalFailure(j) == attempts[j] + 1 >= MaxAttempts

TakeJob(j) ==
    /\ bull[j] = "waiting"
    /\ \A i \in Jobs : QueueOf[i] = QueueOf[j] => step[i] \in {"idle", "orphan"}
    /\ bull' = [bull EXCEPT ![j] = "active"]
    /\ Goto(j, "load")
    /\ UNCHANGED <<ingestVars, status, superseded, attempts, stalls, rec, runVars>>

\* Mutant of LoadEvent: every event that is not QUEUED is skipped.
LoadQueuedEvent(j) ==
    /\ step[j] = "load"
    /\ Goto(j, IF status[EventOf[j]] # "QUEUED" THEN "skip" ELSE "mark")
    /\ UNCHANGED <<ingestVars, status, superseded, bullVars, rec, runVars>>

\* Mutant of LoadEvent: no look at the status.
LoadAnyEvent(j) ==
    /\ step[j] = "load"
    /\ Goto(j, "mark")
    /\ UNCHANGED <<ingestVars, status, superseded, bullVars, rec, runVars>>

\* The one look at SUPERSEDED.
LoadEvent(j) ==
    /\ step[j] = "load"
    /\ Goto(j, IF status[EventOf[j]] = "SUPERSEDED" THEN "skip" ELSE "mark")
    /\ UNCHANGED <<ingestVars, status, superseded, bullVars, rec, runVars>>

SkipSuperseded(j) ==
    /\ step[j] = "skip"
    /\ MarkRecord(j, "COMPLETED")
    /\ Goto(j, "return")
    /\ UNCHANGED <<ingestVars, status, superseded, bullVars, runVars>>

\* resolveTargetOrThrow and the adapter check found the target.
MarkProcessing(j) ==
    /\ step[j] = "mark"
    /\ MarkRecord(j, "PROCESSING")
    /\ Goto(j, "translate")
    /\ UNCHANGED <<ingestVars, status, superseded, bullVars, runVars>>

Translate(j) ==
    /\ step[j] = "translate"
    /\ SetStatus(j, "TRANSLATED")
    /\ Goto(j, "attempt")
    /\ UNCHANGED <<ingestVars, superseded, bullVars, rec, runVars>>

AttemptWrite(j) ==
    /\ step[j] = "attempt"
    /\ SetStatus(j, "WRITE_ATTEMPTED")
    /\ Goto(j, "write")
    /\ UNCHANGED <<ingestVars, superseded, bullVars, rec, runVars>>

WriteTarget(j) ==
    /\ step[j] = "write"
    /\ writes' = [writes EXCEPT ![j] = @ + 1]
    /\ Goto(j, "complete")
    /\ UNCHANGED <<ingestVars, status, superseded, bullVars, rec, outcome, dead,
                   unhandled>>

MarkCompleted(j) ==
    /\ step[j] = "complete"
    /\ MarkRecord(j, "COMPLETED")
    /\ Goto(j, "gather")
    /\ UNCHANGED <<ingestVars, status, superseded, bullVars, runVars>>

\* getPostSuccessEventStatus over the records there are.
PostSuccessStatus(e) ==
    LET found == {rec[i] : i \in JobsOf(e)} \ {"none"}
    IN  CASE found = {}            -> "WRITE_SUCCEEDED"
          [] "DLQ_MOVED" \in found -> "FAILED"
          [] found = {"COMPLETED"} -> "COMPLETED"
          [] OTHER                 -> "WRITE_SUCCEEDED"

GatherRecords(j) ==
    /\ step[j] = "gather"
    /\ outcome' = [outcome EXCEPT ![j] =
                    IF PostSuccessStatus(EventOf[j]) = "COMPLETED"
                    THEN "COMPLETED" ELSE "WRITE_SUCCEEDED"]
    /\ Goto(j, "settle")
    /\ UNCHANGED <<ingestVars, status, superseded, bullVars, rec, dead, writes,
                   unhandled>>

SettleEvent(j) ==
    /\ step[j] = "settle"
    /\ SetStatus(j, outcome[j])
    /\ Goto(j, "log")
    /\ UNCHANGED <<ingestVars, superseded, bullVars, rec, runVars>>

\* The audit entry is written inside the try block too.
LogSuccess(j) ==
    /\ step[j] = "log"
    /\ Goto(j, "return")
    /\ UNCHANGED <<ingestVars, status, superseded, bullVars, rec, runVars>>

\* An exception inside the try block, before or after the target was written.
Fail(j) ==
    /\ step[j] \in TrySteps
    /\ Goto(j, "failed")
    /\ UNCHANGED <<ingestVars, status, superseded, bullVars, rec, runVars>>

\* Mutant of RecordFailure: only the last failure is dealt with.
RecordLastFailure(j) ==
    /\ step[j] = "failed"
    /\ IsFinalFailure(j)
    /\ SetStatus(j, "DLQ_MOVED")
    /\ Goto(j, "bury")
    /\ UNCHANGED <<ingestVars, superseded, bullVars, rec, runVars>>

\* The catch block: the event, then the dead letter or the record.
RecordFailure(j) ==
    /\ step[j] = "failed"
    /\ \/ /\ IsFinalFailure(j)
          /\ SetStatus(j, "DLQ_MOVED")
          /\ Goto(j, "bury")
       \/ /\ ~IsFinalFailure(j)
          /\ SetStatus(j, "RETRY_SCHEDULED")
          /\ Goto(j, "reschedule")
    /\ UNCHANGED <<ingestVars, superseded, bullVars, rec, runVars>>

\* moveQueueJobToDeadLetter: the row, then the record.
BuryJob(j) ==
    /\ step[j] = "bury"
    /\ dead' = [dead EXCEPT ![j] = @ + 1]
    /\ Goto(j, "buryRecord")
    /\ UNCHANGED <<ingestVars, status, superseded, bullVars, rec, outcome, writes,
                   unhandled>>

BuryRecord(j) ==
    /\ step[j] = "buryRecord"
    /\ MarkRecord(j, "DLQ_MOVED")
    /\ Goto(j, "throw")
    /\ UNCHANGED <<ingestVars, status, superseded, bullVars, runVars>>

Reschedule(j) ==
    /\ step[j] = "reschedule"
    /\ MarkRecord(j, "RETRY_SCHEDULED")
    /\ Goto(j, "throw")
    /\ UNCHANGED <<ingestVars, status, superseded, bullVars, runVars>>

\* An exception nothing catches: loading, resolving, marking, or the catch
\* block itself.
FailOutside(j) ==
    /\ step[j] \in OpenSteps
    /\ unhandled' = unhandled \cup {j}
    /\ Goto(j, "throw")
    /\ UNCHANGED <<ingestVars, status, superseded, bullVars, rec, outcome, dead,
                   writes>>

-----------------------------------------------------------------------------
(* BullMQ. *)

\* The processor returned.
Complete(j) ==
    /\ step[j] = "return"
    /\ bull' = [bull EXCEPT ![j] = "completed"]
    /\ Goto(j, "idle")
    /\ UNCHANGED <<ingestVars, status, superseded, attempts, stalls, rec, runVars>>

\* Mutant of CountFailure: a failed job is always tried again.
CountFailureForever(j) ==
    /\ step[j] = "throw"
    /\ attempts' = [attempts EXCEPT ![j] = @ + 1]
    /\ bull' = [bull EXCEPT ![j] = "delayed"]
    /\ Goto(j, "idle")
    /\ UNCHANGED <<ingestVars, status, superseded, stalls, rec, runVars>>

\* The processor threw: another run after a delay, or none.
CountFailure(j) ==
    /\ step[j] = "throw"
    /\ attempts' = [attempts EXCEPT ![j] = @ + 1]
    /\ bull' = [bull EXCEPT ![j] = IF attempts[j] + 1 < MaxAttempts
                                     THEN "delayed" ELSE "failed"]
    /\ Goto(j, "idle")
    /\ UNCHANGED <<ingestVars, status, superseded, stalls, rec, runVars>>

Promote(j) ==
    /\ bull[j] = "delayed"
    /\ bull' = [bull EXCEPT ![j] = "waiting"]
    /\ UNCHANGED <<ingestVars, status, superseded, attempts, stalls, step, rec,
                   runVars>>

\* The process, which serves the API and runs both workers, dies and restarts.
Running(j) == step[j] \notin {"idle", "orphan"}

Crash ==
    /\ \E j \in Jobs : Running(j)
    /\ step' = [j \in Jobs |-> IF Running(j) THEN "orphan" ELSE step[j]]
    /\ ingest' = [e \in Events |-> IF ingest[e] = "enqueueing"
                                     THEN "aborted" ELSE ingest[e]]
    /\ UNCHANGED <<adding, status, superseded, bullVars, rec, runVars>>

\* The lock of a dead run expires: the job is put back, or given up.
Stalled(j) ==
    /\ step[j] = "orphan"
    /\ Goto(j, "idle")
    /\ \/ /\ stalls[j] < MaxStalls
          /\ stalls' = [stalls EXCEPT ![j] = @ + 1]
          /\ bull' = [bull EXCEPT ![j] = "waiting"]
          /\ UNCHANGED unhandled
       \/ /\ stalls[j] = MaxStalls
          /\ bull' = [bull EXCEPT ![j] = "failed"]
          /\ unhandled' = unhandled \cup {j}
          /\ UNCHANGED stalls
    /\ UNCHANGED <<ingestVars, status, superseded, attempts, rec, outcome, dead,
                   writes>>

Process(j) ==
    \/ LoadEvent(j) \/ SkipSuperseded(j) \/ MarkProcessing(j)
    \/ Translate(j) \/ AttemptWrite(j) \/ WriteTarget(j)
    \/ MarkCompleted(j) \/ GatherRecords(j) \/ SettleEvent(j) \/ LogSuccess(j)
    \/ RecordFailure(j) \/ BuryJob(j) \/ BuryRecord(j) \/ Reschedule(j)
    \/ Complete(j) \/ CountFailure(j)

Next ==
    \/ \E j \in Jobs :
        \/ AddJob(j) \/ RecordJob(j)
        \/ TakeJob(j) \/ Process(j) \/ Fail(j) \/ FailOutside(j)
        \/ Promote(j) \/ Stalled(j)
    \/ \E e \in Events : FinishIngest(e) \/ AbortIngest(e) \/ Supersede(e)
    \/ Crash

Spec == Init /\ [][Next]_vars

\* The workers run in one always-on process (infra/cloud-run/backend-deploy.md):
\* they take what waits, an await resolves, a delay passes, a lock expires.
FairSpec ==
    /\ Spec
    /\ \A j \in Jobs :
        /\ WF_vars(TakeJob(j)) /\ WF_vars(Process(j))
        /\ WF_vars(Promote(j)) /\ WF_vars(Stalled(j))

-----------------------------------------------------------------------------
(* Delivery as its callers see it. *)

\* What BullMQ's state of a job comes to.
Fate ==
    [j \in Jobs |->
        CASE bull[j] = "absent"    -> "unsent"
          [] bull[j] = "completed" -> "done"
          [] bull[j] = "failed"    -> "abandoned"
          [] OTHER                 -> "open"]

\* The events that are shown as delivered.
Claimed == {e \in Events : status[e] \in {"WRITE_SUCCEEDED", "COMPLETED"}}

Promise ==
    INSTANCE AtLeastOnce WITH
        fate <- Fate, failures <- attempts, deaths <- stalls, effects <- writes,
        letters <- dead, unseen <- unhandled, lost <- superseded,
        claimed <- Claimed

\* Workers, retries, crashes and three stores that disagree deliver at least
\* once: each run writes the target at most once, a job ends with its target
\* written, its conflict lost, or its chances used up and a dead letter, and
\* success is claimed of an event only after a write (processWriteJob under the
\* options of buildJobOptions).
PromiseKept == Promise!PromiseSpec

-----------------------------------------------------------------------------
(* What the code promises of a delivery. *)

Written(e)  == \E j \in JobsOf(e) : writes[j] > 0
Finished(j) == bull[j] \in {"completed", "failed"}

\* Nobody is told of a delivery that was not made: BullMQ and the record hold a
\* job completed only after its target was written or its event lost a
\* conflict, and the status of an event claims success only after a write
\* (processWriteJob, every path to markQueueJobCompleted and to the return).
SuccessBacked ==
    /\ \A j \in Jobs :
        bull[j] = "completed" \/ rec[j] = "COMPLETED"
            => writes[j] > 0 \/ EventOf[j] \in superseded
    /\ \A e \in Events :
        status[e] \in {"WRITE_SUCCEEDED", "COMPLETED"} => Written(e)

\* Our count of attempts and BullMQ's agree: a dead letter is written in the
\* last run only, so no job is both buried and about to be retried, and a job
\* BullMQ gave up on has its dead letter unless a run of it ended outside the
\* catch block (isFinalFailure against the `attempts` option of the job).
DeadLettersAreFinal ==
    \A j \in Jobs :
        /\ dead[j] > 0 => attempts[j] + 1 >= MaxAttempts /\ bull[j] # "delayed"
        /\ bull[j] = "failed" /\ j \notin unhandled => dead[j] > 0

\* A target is written once a run: at most one write for each failed run, one
\* for each run that a crash cut short, and one for the run that is on or that
\* succeeded; likewise the dead letters, which only a crash can repeat.
RunsBounded ==
    \A j \in Jobs :
        /\ writes[j] <= attempts[j] + stalls[j] + 1
        /\ bull[j] = "delayed" => writes[j] <= attempts[j] + stalls[j]
        /\ dead[j] <= stalls[j] + 1

\* A run that is past its look at SUPERSEDED and may still write.
Committed(j) == step[j] \in {"mark", "failed"} \cup TrySteps

AtRest(e) ==
    /\ status[e] = "SUPERSEDED"
    /\ ingest[e] # "enqueueing"
    /\ \A j \in JobsOf(e) : ~Committed(j)

\* An event that lost its conflict stays lost once nothing of it is under way:
\* none of its jobs, waiting, retried or put back after a crash, writes a target
\* or touches its status again (the check of processWriteJob in every run).
LosersRest ==
    [][\A e \in Events :
          AtRest(e) => AtRest(e)' /\ \A j \in JobsOf(e) : writes'[j] = writes[j]]_vars

\* Every job BullMQ holds ends, whatever throws, crashes or stalls.
JobsEnd ==
    \A j \in Jobs : bull[j] # "absent" ~> Finished(j)

-----------------------------------------------------------------------------
(* What its documentation says, and a race breaks. *)

\* Scenario 1 (scenario-flows.md) reads COMPLETED as: every target shows the
\* change.
CompletedMeansDelivered ==
    \A e \in Events :
        status[e] = "COMPLETED" => \A j \in JobsOf(e) : writes[j] > 0
=============================================================================
