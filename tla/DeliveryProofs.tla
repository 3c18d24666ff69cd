---------------------------- MODULE DeliveryProofs ----------------------------
(***************************************************************************)
(* Proofs about the delivery of events, for any events, jobs, attempts and *)
(* stalls.                                                                 *)
(*                                                                         *)
(* The safety properties follow from what a run has done when it is at a   *)
(* given step (JobInv) and from what the event's status and the job's      *)
(* record can say of it (SuccessBacked).  Counting writes and dead letters *)
(* needs the runs there were: each has failed, was cut short, or is on.    *)
(***************************************************************************)
EXTENDS Delivery, TLAPS

\* The job is in BullMQ's hands, or its run has not reached the target yet.
Unwritten(j) ==
    \/ bull[j] \in {"absent", "waiting", "delayed"}
    \/ step[j] \in {"load", "skip", "mark", "translate", "attempt", "write"}

\* ... or has not written its dead letter yet.
Unburied(j) ==
    \/ bull[j] \in {"absent", "waiting", "delayed"}
    \/ step[j] \in Steps \ {"buryRecord", "throw", "idle", "orphan"}

\* What the step of a run tells of the run.
RunInv(j) ==
    /\ bull[j] = "active" <=> step[j] # "idle"
    /\ step[j] \in {"complete", "gather", "settle", "log"} => writes[j] > 0
    /\ step[j] = "skip" => EventOf[j] \in superseded
    /\ step[j] = "return" => writes[j] > 0 \/ EventOf[j] \in superseded

\* Attempts and dead letters.
FailureInv(j) ==
    /\ bull[j] # "failed" => attempts[j] < MaxAttempts
    /\ step[j] \in {"bury", "buryRecord"} => attempts[j] + 1 >= MaxAttempts
    /\ step[j] = "reschedule" => attempts[j] + 1 < MaxAttempts
    /\ step[j] = "buryRecord" => dead[j] > 0
    /\ step[j] = "throw" /\ attempts[j] + 1 >= MaxAttempts /\ j \notin unhandled
          => dead[j] > 0
    /\ dead[j] > 0 => attempts[j] + 1 >= MaxAttempts /\ bull[j] # "delayed"
    /\ bull[j] = "failed" /\ j \notin unhandled => dead[j] > 0

\* The runs there were bound the writes and the dead letters.
CountInv(j) ==
    /\ writes[j] <= attempts[j] + stalls[j] + 1
    /\ Unwritten(j) => writes[j] <= attempts[j] + stalls[j]
    /\ dead[j] <= stalls[j] + 1
    /\ Unburied(j) => dead[j] <= stalls[j]

JobInv(j) == RunInv(j) /\ FailureInv(j) /\ CountInv(j)

SupersededBacked == \A e \in Events : status[e] = "SUPERSEDED" => e \in superseded

DeliveryInv ==
    /\ TypeOK
    /\ \A j \in Jobs : JobInv(j)
    /\ SupersededBacked
    /\ SuccessBacked

\* At the start no job exists.
LEMMA DeliveryInit == Init => DeliveryInv
<1> SUFFICES ASSUME Init PROVE DeliveryInv
    OBVIOUS
<1>1. TypeOK
    BY DeliveryAssumption
       DEF Init, TypeOK, EventStatuses, RecordStatuses, BullStates, Steps, TrySteps,
           OpenSteps, CatchSteps
<1>2. ASSUME NEW j \in Jobs PROVE JobInv(j)
    BY DeliveryAssumption
       DEF Init, JobInv, RunInv, FailureInv, CountInv, Unwritten, Unburied
<1>3. SupersededBacked /\ SuccessBacked
    BY DEF Init, SupersededBacked, SuccessBacked
<1> QED BY <1>1, <1>2, <1>3 DEF DeliveryInv

\* A step keeps the types.
LEMMA TypeStep == TypeOK /\ (\A j \in Jobs : FailureInv(j) /\ RunInv(j)) /\ [Next]_vars => TypeOK'
<1> SUFFICES ASSUME TypeOK, \A j \in Jobs : FailureInv(j) /\ RunInv(j), [Next]_vars
             PROVE  TypeOK'
    OBVIOUS
<1> USE DeliveryAssumption
    DEF TypeOK, EventStatuses, RecordStatuses, BullStates, Steps, TrySteps, OpenSteps,
        CatchSteps, Goto, SetStatus, MarkRecord, ingestVars, bullVars, runVars
<1>1. CASE UNCHANGED vars
    BY <1>1 DEF vars
<1>2. ASSUME NEW j \in Jobs, AddJob(j) PROVE TypeOK'
    BY <1>2 DEF AddJob
<1>3. ASSUME NEW j \in Jobs, RecordJob(j) PROVE TypeOK'
    BY <1>3 DEF RecordJob
<1>4. ASSUME NEW j \in Jobs, TakeJob(j) PROVE TypeOK'
    BY <1>4 DEF TakeJob
<1>5. ASSUME NEW j \in Jobs, WriteTarget(j) PROVE TypeOK'
    BY <1>5 DEF WriteTarget
<1>6. ASSUME NEW j \in Jobs, BuryJob(j) PROVE TypeOK'
    BY <1>6 DEF BuryJob
<1>7. ASSUME NEW j \in Jobs, FailOutside(j) PROVE TypeOK'
    BY <1>7 DEF FailOutside
<1>8. ASSUME NEW j \in Jobs, Complete(j) PROVE TypeOK'
    BY <1>8 DEF Complete
<1>9. ASSUME NEW j \in Jobs, CountFailure(j) PROVE TypeOK'
    <2>1. bull[j] # "failed" /\ attempts[j] < MaxAttempts
        BY <1>9 DEF CountFailure, FailureInv, RunInv
    <2>2. attempts' \in [Jobs -> 0 .. MaxAttempts]
        BY <1>9, <2>1 DEF CountFailure
    <2> QED BY <1>9, <2>2 DEF CountFailure
<1>10. ASSUME NEW j \in Jobs, Promote(j) PROVE TypeOK'
    BY <1>10 DEF Promote
<1>11. ASSUME NEW j \in Jobs, Stalled(j) PROVE TypeOK'
    BY <1>11 DEF Stalled
<1>12. ASSUME NEW j \in Jobs, LoadEvent(j) PROVE TypeOK'
    BY <1>12 DEF LoadEvent
<1>13. ASSUME NEW j \in Jobs, SkipSuperseded(j) PROVE TypeOK'
    BY <1>13 DEF SkipSuperseded
<1>14. ASSUME NEW j \in Jobs, MarkProcessing(j) PROVE TypeOK'
    BY <1>14 DEF MarkProcessing
<1>15. ASSUME NEW j \in Jobs, Translate(j) PROVE TypeOK'
    BY <1>15 DEF Translate
<1>16. ASSUME NEW j \in Jobs, AttemptWrite(j) PROVE TypeOK'
    BY <1>16 DEF AttemptWrite
<1>17. ASSUME NEW j \in Jobs, MarkCompleted(j) PROVE TypeOK'
    BY <1>17 DEF MarkCompleted
<1>18. ASSUME NEW j \in Jobs, GatherRecords(j) PROVE TypeOK'
    BY <1>18 DEF GatherRecords
<1>19. ASSUME NEW j \in Jobs, SettleEvent(j) PROVE TypeOK'
    BY <1>19 DEF SettleEvent
<1>20. ASSUME NEW j \in Jobs, LogSuccess(j) PROVE TypeOK'
    BY <1>20 DEF LogSuccess
<1>21. ASSUME NEW j \in Jobs, Fail(j) PROVE TypeOK'
    BY <1>21 DEF Fail
<1>22. ASSUME NEW j \in Jobs, RecordFailure(j) PROVE TypeOK'
    BY <1>22 DEF RecordFailure
<1>23. ASSUME NEW j \in Jobs, BuryRecord(j) PROVE TypeOK'
    BY <1>23 DEF BuryRecord
<1>24. ASSUME NEW j \in Jobs, Reschedule(j) PROVE TypeOK'
    BY <1>24 DEF Reschedule
<1>25. ASSUME NEW e \in Events, FinishIngest(e) PROVE TypeOK'
    BY <1>25 DEF FinishIngest
<1>26. ASSUME NEW e \in Events, AbortIngest(e) PROVE TypeOK'
    BY <1>26 DEF AbortIngest
<1>27. ASSUME NEW e \in Events, Supersede(e) PROVE TypeOK'
    BY <1>27 DEF Supersede
<1>28. CASE Crash
    BY <1>28 DEF Crash
<1> QED BY <1>1, <1>2, <1>3, <1>4, <1>5, <1>6, <1>7, <1>8, <1>9, <1>10, <1>11, <1>12, <1>13, <1>14, <1>15, <1>16, <1>17, <1>18, <1>19, <1>20, <1>21, <1>22, <1>23, <1>24, <1>25, <1>26, <1>27, <1>28
    DEF Next, Process

\* What a step does to another job it leaves alone.
LEMMA JobFrame ==
    ASSUME NEW j \in Jobs, JobInv(j),
           bull'[j] = bull[j], attempts'[j] = attempts[j], stalls'[j] = stalls[j],
           step'[j] = step[j], dead'[j] = dead[j], writes'[j] = writes[j],
           j \in unhandled' <=> j \in unhandled, superseded \subseteq superseded'
    PROVE  JobInv(j)'
BY DEF JobInv, RunInv, FailureInv, CountInv, Unwritten, Unburied

\* A step changes one job, all runs at once (Crash), or none.
LEMMA JobStep ==
    TypeOK /\ (\A j \in Jobs : JobInv(j)) /\ SupersededBacked /\ [Next]_vars
        => \A j \in Jobs : JobInv(j)'
<1> SUFFICES ASSUME TypeOK, \A j \in Jobs : JobInv(j), SupersededBacked, [Next]_vars,
                    NEW i \in Jobs
             PROVE  JobInv(i)'
    OBVIOUS
<1> USE DeliveryAssumption
<1>a. JobInv(i) /\ SupersededBacked /\ EventOf[i] \in Events
    OBVIOUS
<1>t. /\ attempts[i] \in Nat /\ stalls[i] \in Nat
      /\ dead[i] \in Nat /\ writes[i] \in Nat /\ MaxAttempts \in Nat
      /\ step[i] \in Steps
    BY DEF TypeOK
<1>f. ASSUME bull'[i] = bull[i], attempts'[i] = attempts[i], stalls'[i] = stalls[i],
             step'[i] = step[i], dead'[i] = dead[i], writes'[i] = writes[i],
             i \in unhandled' <=> i \in unhandled, superseded \subseteq superseded'
      PROVE  JobInv(i)'
    BY <1>f, JobFrame
<1>1. CASE UNCHANGED vars
    BY <1>1, <1>f DEF vars
<1>2. ASSUME NEW j \in Jobs, AddJob(j) PROVE JobInv(i)'
    <2>1. CASE i = j
        BY <1>2, <2>1, <1>a, <1>t
           DEF AddJob, Goto, TypeOK, bullVars, runVars, JobInv, RunInv, FailureInv, CountInv, Unwritten, Unburied,
               Steps, TrySteps, OpenSteps, CatchSteps
    <2>2. CASE i # j
        BY <1>2, <2>2, <1>f DEF AddJob, Goto, TypeOK, bullVars, runVars
    <2> QED BY <2>1, <2>2
<1>3. ASSUME NEW j \in Jobs, TakeJob(j) PROVE JobInv(i)'
    <2>1. CASE i = j
        BY <1>3, <2>1, <1>a, <1>t
           DEF TakeJob, Goto, TypeOK, bullVars, runVars, JobInv, RunInv, FailureInv, CountInv, Unwritten, Unburied,
               Steps, TrySteps, OpenSteps, CatchSteps
    <2>2. CASE i # j
        BY <1>3, <2>2, <1>f DEF TakeJob, Goto, TypeOK, bullVars, runVars
    <2> QED BY <2>1, <2>2
<1>4. ASSUME NEW j \in Jobs, LoadEvent(j) PROVE JobInv(i)'
    <2>1. CASE i = j
        BY <1>4, <2>1, <1>a, <1>t
           DEF LoadEvent, Goto, TypeOK, bullVars, runVars, JobInv, RunInv, FailureInv, CountInv, Unwritten, Unburied,
               Steps, TrySteps, OpenSteps, CatchSteps, SupersededBacked
    <2>2. CASE i # j
        BY <1>4, <2>2, <1>f DEF LoadEvent, Goto, TypeOK, bullVars, runVars
    <2> QED BY <2>1, <2>2
<1>5. ASSUME NEW j \in Jobs, SkipSuperseded(j) PROVE JobInv(i)'
    <2>1. CASE i = j
        BY <1>5, <2>1, <1>a, <1>t
           DEF SkipSuperseded, Goto, TypeOK, bullVars, runVars, JobInv, RunInv, FailureInv, CountInv, Unwritten, Unburied,
               Steps, TrySteps, OpenSteps, CatchSteps
    <2>2. CASE i # j
        BY <1>5, <2>2, <1>f DEF SkipSuperseded, Goto, TypeOK, bullVars, runVars
    <2> QED BY <2>1, <2>2
<1>6. ASSUME NEW j \in Jobs, MarkProcessing(j) PROVE JobInv(i)'
    <2>1. CASE i = j
        BY <1>6, <2>1, <1>a, <1>t
           DEF MarkProcessing, Goto, TypeOK, bullVars, runVars, JobInv, RunInv, FailureInv, CountInv, Unwritten, Unburied,
               Steps, TrySteps, OpenSteps, CatchSteps
    <2>2. CASE i # j
        BY <1>6, <2>2, <1>f DEF MarkProcessing, Goto, TypeOK, bullVars, runVars
    <2> QED BY <2>1, <2>2
<1>7. ASSUME NEW j \in Jobs, Translate(j) PROVE JobInv(i)'
    <2>1. CASE i = j
        BY <1>7, <2>1, <1>a, <1>t
           DEF Translate, Goto, TypeOK, bullVars, runVars, JobInv, RunInv, FailureInv, CountInv, Unwritten, Unburied,
               Steps, TrySteps, OpenSteps, CatchSteps
    <2>2. CASE i # j
        BY <1>7, <2>2, <1>f DEF Translate, Goto, TypeOK, bullVars, runVars
    <2> QED BY <2>1, <2>2
<1>8. ASSUME NEW j \in Jobs, AttemptWrite(j) PROVE JobInv(i)'
    <2>1. CASE i = j
        BY <1>8, <2>1, <1>a, <1>t
           DEF AttemptWrite, Goto, TypeOK, bullVars, runVars, JobInv, RunInv, FailureInv, CountInv, Unwritten, Unburied,
               Steps, TrySteps, OpenSteps, CatchSteps
    <2>2. CASE i # j
        BY <1>8, <2>2, <1>f DEF AttemptWrite, Goto, TypeOK, bullVars, runVars
    <2> QED BY <2>1, <2>2
<1>9. ASSUME NEW j \in Jobs, WriteTarget(j) PROVE JobInv(i)'
    <2>1. CASE i = j
        BY <1>9, <2>1, <1>a, <1>t
           DEF WriteTarget, Goto, TypeOK, bullVars, runVars, JobInv, RunInv, FailureInv, CountInv, Unwritten, Unburied,
               Steps, TrySteps, OpenSteps, CatchSteps
    <2>2. CASE i # j
        BY <1>9, <2>2, <1>f DEF WriteTarget, Goto, TypeOK, bullVars, runVars
    <2> QED BY <2>1, <2>2
<1>10. ASSUME NEW j \in Jobs, MarkCompleted(j) PROVE JobInv(i)'
    <2>1. CASE i = j
        BY <1>10, <2>1, <1>a, <1>t
           DEF MarkCompleted, Goto, TypeOK, bullVars, runVars, JobInv, RunInv, FailureInv, CountInv, Unwritten, Unburied,
               Steps, TrySteps, OpenSteps, CatchSteps
    <2>2. CASE i # j
        BY <1>10, <2>2, <1>f DEF MarkCompleted, Goto, TypeOK, bullVars, runVars
    <2> QED BY <2>1, <2>2
<1>11. ASSUME NEW j \in Jobs, GatherRecords(j) PROVE JobInv(i)'
    <2>1. CASE i = j
        BY <1>11, <2>1, <1>a, <1>t
           DEF GatherRecords, Goto, TypeOK, bullVars, runVars, JobInv, RunInv, FailureInv, CountInv, Unwritten, Unburied,
               Steps, TrySteps, OpenSteps, CatchSteps
    <2>2. CASE i # j
        BY <1>11, <2>2, <1>f DEF GatherRecords, Goto, TypeOK, bullVars, runVars
    <2> QED BY <2>1, <2>2
<1>12. ASSUME NEW j \in Jobs, SettleEvent(j) PROVE JobInv(i)'
    <2>1. CASE i = j
        BY <1>12, <2>1, <1>a, <1>t
           DEF SettleEvent, Goto, TypeOK, bullVars, runVars, JobInv, RunInv, FailureInv, CountInv, Unwritten, Unburied,
               Steps, TrySteps, OpenSteps, CatchSteps
    <2>2. CASE i # j
        BY <1>12, <2>2, <1>f DEF SettleEvent, Goto, TypeOK, bullVars, runVars
    <2> QED BY <2>1, <2>2
<1>13. ASSUME NEW j \in Jobs, LogSuccess(j) PROVE JobInv(i)'
    <2>1. CASE i = j
        BY <1>13, <2>1, <1>a, <1>t
           DEF LogSuccess, Goto, TypeOK, bullVars, runVars, JobInv, RunInv, FailureInv, CountInv, Unwritten, Unburied,
               Steps, TrySteps, OpenSteps, CatchSteps
    <2>2. CASE i # j
        BY <1>13, <2>2, <1>f DEF LogSuccess, Goto, TypeOK, bullVars, runVars
    <2> QED BY <2>1, <2>2
<1>14. ASSUME NEW j \in Jobs, Fail(j) PROVE JobInv(i)'
    <2>1. CASE i = j
        BY <1>14, <2>1, <1>a, <1>t
           DEF Fail, Goto, TypeOK, bullVars, runVars, JobInv, RunInv, FailureInv, CountInv, Unwritten, Unburied,
               Steps, TrySteps, OpenSteps, CatchSteps
    <2>2. CASE i # j
        BY <1>14, <2>2, <1>f DEF Fail, Goto, TypeOK, bullVars, runVars
    <2> QED BY <2>1, <2>2
<1>15. ASSUME NEW j \in Jobs, RecordFailure(j) PROVE JobInv(i)'
    <2>1. CASE i = j
        BY <1>15, <2>1, <1>a, <1>t
           DEF RecordFailure, Goto, TypeOK, bullVars, runVars, JobInv, RunInv, FailureInv, CountInv, Unwritten, Unburied,
               Steps, TrySteps, OpenSteps, CatchSteps, IsFinalFailure
    <2>2. CASE i # j
        BY <1>15, <2>2, <1>f DEF RecordFailure, Goto, TypeOK, bullVars, runVars
    <2> QED BY <2>1, <2>2
<1>16. ASSUME NEW j \in Jobs, BuryJob(j) PROVE JobInv(i)'
    <2>1. CASE i = j
        BY <1>16, <2>1, <1>a, <1>t
           DEF BuryJob, Goto, TypeOK, bullVars, runVars, JobInv, RunInv, FailureInv, CountInv, Unwritten, Unburied,
               Steps, TrySteps, OpenSteps, CatchSteps
    <2>2. CASE i # j
        BY <1>16, <2>2, <1>f DEF BuryJob, Goto, TypeOK, bullVars, runVars
    <2> QED BY <2>1, <2>2
<1>17. ASSUME NEW j \in Jobs, BuryRecord(j) PROVE JobInv(i)'
    <2>1. CASE i = j
        BY <1>17, <2>1, <1>a, <1>t
           DEF BuryRecord, Goto, TypeOK, bullVars, runVars, JobInv, RunInv, FailureInv, CountInv, Unwritten, Unburied,
               Steps, TrySteps, OpenSteps, CatchSteps
    <2>2. CASE i # j
        BY <1>17, <2>2, <1>f DEF BuryRecord, Goto, TypeOK, bullVars, runVars
    <2> QED BY <2>1, <2>2
<1>18. ASSUME NEW j \in Jobs, Reschedule(j) PROVE JobInv(i)'
    <2>1. CASE i = j
        BY <1>18, <2>1, <1>a, <1>t
           DEF Reschedule, Goto, TypeOK, bullVars, runVars, JobInv, RunInv, FailureInv, CountInv, Unwritten, Unburied,
               Steps, TrySteps, OpenSteps, CatchSteps
    <2>2. CASE i # j
        BY <1>18, <2>2, <1>f DEF Reschedule, Goto, TypeOK, bullVars, runVars
    <2> QED BY <2>1, <2>2
<1>19. ASSUME NEW j \in Jobs, FailOutside(j) PROVE JobInv(i)'
    <2>1. CASE i = j
        BY <1>19, <2>1, <1>a, <1>t
           DEF FailOutside, Goto, TypeOK, bullVars, runVars, JobInv, RunInv, FailureInv, CountInv, Unwritten, Unburied,
               Steps, TrySteps, OpenSteps, CatchSteps
    <2>2. CASE i # j
        BY <1>19, <2>2, <1>f DEF FailOutside, Goto, TypeOK, bullVars, runVars
    <2> QED BY <2>1, <2>2
<1>20. ASSUME NEW j \in Jobs, Complete(j) PROVE JobInv(i)'
    <2>1. CASE i = j
        BY <1>20, <2>1, <1>a, <1>t
           DEF Complete, Goto, TypeOK, bullVars, runVars, JobInv, RunInv, FailureInv, CountInv, Unwritten, Unburied,
               Steps, TrySteps, OpenSteps, CatchSteps
    <2>2. CASE i # j
        BY <1>20, <2>2, <1>f DEF Complete, Goto, TypeOK, bullVars, runVars
    <2> QED BY <2>1, <2>2
<1>21. ASSUME NEW j \in Jobs, CountFailure(j) PROVE JobInv(i)'
    <2>1. CASE i = j
        BY <1>21, <2>1, <1>a, <1>t
           DEF CountFailure, Goto, TypeOK, bullVars, runVars, JobInv, RunInv, FailureInv, CountInv, Unwritten, Unburied,
               Steps, TrySteps, OpenSteps, CatchSteps
    <2>2. CASE i # j
        BY <1>21, <2>2, <1>f DEF CountFailure, Goto, TypeOK, bullVars, runVars
    <2> QED BY <2>1, <2>2
<1>22. ASSUME NEW j \in Jobs, Promote(j) PROVE JobInv(i)'
    <2>1. CASE i = j
        BY <1>22, <2>1, <1>a, <1>t
           DEF Promote, Goto, TypeOK, bullVars, runVars, JobInv, RunInv, FailureInv, CountInv, Unwritten, Unburied,
               Steps, TrySteps, OpenSteps, CatchSteps
    <2>2. CASE i # j
        BY <1>22, <2>2, <1>f DEF Promote, Goto, TypeOK, bullVars, runVars
    <2> QED BY <2>1, <2>2
<1>23. ASSUME NEW j \in Jobs, Stalled(j) PROVE JobInv(i)'
    <2>1. CASE i = j
        BY <1>23, <2>1, <1>a, <1>t
           DEF Stalled, Goto, TypeOK, bullVars, runVars, JobInv, RunInv, FailureInv, CountInv, Unwritten, Unburied,
               Steps, TrySteps, OpenSteps, CatchSteps
    <2>2. CASE i # j
        BY <1>23, <2>2, <1>f DEF Stalled, Goto, TypeOK, bullVars, runVars
    <2> QED BY <2>1, <2>2
<1>24. ASSUME NEW j \in Jobs, RecordJob(j) PROVE JobInv(i)'
    BY <1>24, <1>f DEF RecordJob, bullVars, runVars
<1>25. ASSUME NEW e \in Events, FinishIngest(e) \/ AbortIngest(e) \/ Supersede(e)
      PROVE  JobInv(i)'
    BY <1>25, <1>f DEF FinishIngest, AbortIngest, Supersede, bullVars, runVars
<1>26. CASE Crash
    BY <1>26, <1>a, <1>t
       DEF Crash, Running, TypeOK, bullVars, runVars, JobInv, RunInv, FailureInv, CountInv, Unwritten, Unburied,
           Steps, TrySteps, OpenSteps, CatchSteps
<1> QED BY <1>1, <1>2, <1>3, <1>4, <1>5, <1>6, <1>7, <1>8, <1>9, <1>10, <1>11, <1>12, <1>13, <1>14, <1>15, <1>16, <1>17, <1>18, <1>19, <1>20, <1>21, <1>22, <1>23, <1>24, <1>25, <1>26
    DEF Next, Process

\* A status says SUPERSEDED only of an event that lost, and success is backed.
LEMMA SuccessStep ==
    DeliveryInv /\ [Next]_vars => SupersededBacked' /\ SuccessBacked'
<1> SUFFICES ASSUME DeliveryInv, [Next]_vars PROVE SupersededBacked' /\ SuccessBacked'
    OBVIOUS
<1> USE DeliveryAssumption DEF DeliveryInv, TypeOK
<1>a. ASSUME \A j \in Jobs : writes'[j] >= writes[j],
             superseded \subseteq superseded',
             \A j \in Jobs : bull'[j] = "completed" =>
                bull[j] = "completed" \/ writes[j] > 0 \/ EventOf[j] \in superseded,
             \A j \in Jobs : rec'[j] = "COMPLETED" =>
                rec[j] = "COMPLETED" \/ writes[j] > 0 \/ EventOf[j] \in superseded,
             \A e \in Events : status'[e] \in {"WRITE_SUCCEEDED", "COMPLETED"} =>
                status'[e] = status[e] \/ Written(e),
             \A e \in Events : status'[e] = "SUPERSEDED" =>
                status'[e] = status[e] \/ e \in superseded'
      PROVE  SupersededBacked' /\ SuccessBacked'
    <2>1. SupersededBacked'
        BY <1>a DEF SupersededBacked
    <2>2. \A j \in Jobs : writes[j] > 0 => writes'[j] > 0
        <3> SUFFICES ASSUME NEW j \in Jobs, writes[j] > 0, writes'[j] >= writes[j]
                     PROVE  writes'[j] > 0
            BY <1>a
        <3>1. writes[j] \in Nat
            OBVIOUS
        <3>2. writes' \in [Jobs -> Nat]
            BY TypeStep DEF JobInv
        <3> QED BY <3>1, <3>2
    <2>3. \A e \in Events : Written(e) => Written(e)'
        BY <2>2 DEF Written, JobsOf
    <2>4. \A j \in Jobs : bull'[j] = "completed" \/ rec'[j] = "COMPLETED"
            => writes'[j] > 0 \/ EventOf[j] \in superseded'
        BY <1>a, <2>2 DEF SuccessBacked
    <2>5. \A e \in Events : status'[e] \in {"WRITE_SUCCEEDED", "COMPLETED"} => Written(e)'
        BY <1>a, <2>3 DEF SuccessBacked
    <2> QED BY <2>1, <2>4, <2>5 DEF SuccessBacked
<1>b. ASSUME UNCHANGED <<writes, superseded, bull, rec, status>>
      PROVE  SupersededBacked' /\ SuccessBacked'
    BY <1>b DEF SupersededBacked, SuccessBacked, Written
<1>1. CASE UNCHANGED vars
    BY <1>1, <1>b DEF vars
<1>2. ASSUME NEW j \in Jobs,
             LoadEvent(j) \/ GatherRecords(j) \/ LogSuccess(j) \/ Fail(j)
                \/ BuryJob(j) \/ FailOutside(j)
      PROVE  SupersededBacked' /\ SuccessBacked'
    BY <1>2, <1>b DEF LoadEvent, GatherRecords, LogSuccess, Fail, BuryJob,
       FailOutside, bullVars, runVars
<1>3. ASSUME NEW j \in Jobs,
             AddJob(j) \/ TakeJob(j) \/ Promote(j) \/ CountFailure(j) \/ Stalled(j)
      PROVE  SupersededBacked' /\ SuccessBacked'
    <2>1. UNCHANGED <<writes, superseded, rec, status>>
        BY <1>3 DEF AddJob, TakeJob, Promote, CountFailure, Stalled, runVars
    <2>2. \A i \in Jobs : bull'[i] = "completed" => bull[i] = "completed"
        BY <1>3 DEF AddJob, TakeJob, Promote, CountFailure, Stalled
    <2> QED BY <2>1, <2>2 DEF SupersededBacked, SuccessBacked, Written
<1>4. ASSUME NEW j \in Jobs, Complete(j)
      PROVE  SupersededBacked' /\ SuccessBacked'
    <2>1. UNCHANGED <<writes, superseded, rec, status>>
        BY <1>4 DEF Complete, runVars
    <2>2. \A i \in Jobs : bull'[i] = "completed" =>
            bull[i] = "completed" \/ writes[i] > 0 \/ EventOf[i] \in superseded
        BY <1>4 DEF Complete, JobInv, RunInv
    <2> QED BY <2>1, <2>2 DEF SupersededBacked, SuccessBacked, Written
<1>5. ASSUME NEW j \in Jobs,
             RecordJob(j) \/ MarkProcessing(j) \/ BuryRecord(j) \/ Reschedule(j)
      PROVE  SupersededBacked' /\ SuccessBacked'
    <2>1. UNCHANGED <<writes, superseded, bull, status>>
        BY <1>5 DEF RecordJob, MarkProcessing, BuryRecord, Reschedule, bullVars, runVars
    <2>2. \A i \in Jobs : rec'[i] = "COMPLETED" => rec[i] = "COMPLETED"
        BY <1>5 DEF RecordJob, MarkProcessing, BuryRecord, Reschedule, MarkRecord
    <2> QED BY <2>1, <2>2 DEF SupersededBacked, SuccessBacked, Written
<1>6. ASSUME NEW j \in Jobs, SkipSuperseded(j) \/ MarkCompleted(j)
      PROVE  SupersededBacked' /\ SuccessBacked'
    <2>1. UNCHANGED <<writes, superseded, bull, status>>
        BY <1>6 DEF SkipSuperseded, MarkCompleted, bullVars, runVars
    <2>2. writes[j] > 0 \/ EventOf[j] \in superseded
        BY <1>6 DEF SkipSuperseded, MarkCompleted, JobInv, RunInv
    <2>3. \A i \in Jobs : rec'[i] = "COMPLETED" => rec[i] = "COMPLETED" \/ i = j
        BY <1>6 DEF SkipSuperseded, MarkCompleted, MarkRecord
    <2> QED BY <2>1, <2>2, <2>3 DEF SupersededBacked, SuccessBacked, Written
<1>7. ASSUME NEW j \in Jobs, NEW s \in EventStatuses, SetStatus(j, s),
             UNCHANGED <<writes, superseded, bull, rec>>,
             s \in {"WRITE_SUCCEEDED", "COMPLETED"} => writes[j] > 0,
             s # "SUPERSEDED"
      PROVE  SupersededBacked' /\ SuccessBacked'
    <2>1. EventOf[j] \in Events /\ (writes[j] > 0 => Written(EventOf[j]))
        BY DEF Written, JobsOf
    <2>2. status' = [status EXCEPT ![EventOf[j]] = s]
        BY <1>7 DEF SetStatus
    <2>3. SupersededBacked'
        BY <1>7, <2>1, <2>2 DEF SupersededBacked
    <2>4. \A e \in Events : Written(e)' = Written(e)
        BY <1>7 DEF Written
    <2>5. \A e \in Events : status'[e] \in {"WRITE_SUCCEEDED", "COMPLETED"} => Written(e)
        BY <1>7, <2>1, <2>2 DEF SuccessBacked
    <2> QED BY <1>7, <2>3, <2>4, <2>5 DEF SuccessBacked
<1>8. ASSUME NEW j \in Jobs, Translate(j) \/ AttemptWrite(j) \/ RecordFailure(j)
      PROVE  SupersededBacked' /\ SuccessBacked'
    <2>1. UNCHANGED <<writes, superseded, bull, rec>>
        BY <1>8 DEF Translate, AttemptWrite, RecordFailure, bullVars, runVars
    <2>2. \E s \in {"TRANSLATED", "WRITE_ATTEMPTED", "DLQ_MOVED", "RETRY_SCHEDULED"} :
            SetStatus(j, s)
        BY <1>8 DEF Translate, AttemptWrite, RecordFailure
    <2> QED BY <1>7, <2>1, <2>2 DEF EventStatuses
<1>9. ASSUME NEW j \in Jobs, SettleEvent(j)
      PROVE  SupersededBacked' /\ SuccessBacked'
    <2>1. /\ UNCHANGED <<writes, superseded, bull, rec>>
          /\ SetStatus(j, outcome[j])
          /\ outcome[j] \in {"COMPLETED", "WRITE_SUCCEEDED"}
          /\ writes[j] > 0
        BY <1>9 DEF SettleEvent, bullVars, runVars, JobInv, RunInv
    <2> QED BY <1>7, <2>1 DEF EventStatuses
<1>10. ASSUME NEW j \in Jobs, WriteTarget(j)
      PROVE  SupersededBacked' /\ SuccessBacked'
    <2>1. UNCHANGED <<superseded, bull, rec, status>>
        BY <1>10 DEF WriteTarget, bullVars
    <2>2. \A i \in Jobs : writes'[i] >= writes[i]
        BY <1>10 DEF WriteTarget
    <2> QED BY <1>a, <2>1, <2>2 DEF SuccessBacked
<1>11. ASSUME NEW e \in Events, FinishIngest(e) \/ AbortIngest(e) \/ Supersede(e)
      PROVE  SupersededBacked' /\ SuccessBacked'
    <2>1. UNCHANGED <<writes, bull, rec>> /\ superseded \subseteq superseded'
        BY <1>11 DEF FinishIngest, AbortIngest, Supersede, bullVars, runVars
    <2>2. \/ UNCHANGED status
          \/ status' = [status EXCEPT ![e] = "QUEUED"]
          \/ status' = [status EXCEPT ![e] = "SUPERSEDED"] /\ e \in superseded'
        BY <1>11 DEF FinishIngest, AbortIngest, Supersede
    <2> QED BY <2>1, <2>2 DEF SupersededBacked, SuccessBacked, Written
<1>12. CASE Crash
    BY <1>12, <1>b DEF Crash, bullVars, runVars
<1> QED BY <1>1, <1>2, <1>3, <1>4, <1>5, <1>6, <1>8, <1>9, <1>10, <1>11, <1>12
    DEF Next, Process

\* The invariant of delivery holds whatever throws, crashes, stalls or is
\* superseded, for any attempts, stalls and number of targets.
THEOREM DeliveryInvariant == Spec => []DeliveryInv
<1>1. Init => DeliveryInv
    BY DeliveryInit
<1>2. DeliveryInv /\ [Next]_vars => DeliveryInv'
    <2> SUFFICES ASSUME DeliveryInv, [Next]_vars PROVE DeliveryInv'
        OBVIOUS
    <2>1. TypeOK'
        BY TypeStep DEF DeliveryInv, JobInv
    <2>2. \A j \in Jobs : JobInv(j)'
        BY JobStep DEF DeliveryInv
    <2>3. SupersededBacked' /\ SuccessBacked'
        BY SuccessStep
    <2> QED BY <2>1, <2>2, <2>3 DEF DeliveryInv
<1> QED BY <1>1, <1>2, PTL DEF Spec

\* The state of a delivery stays within its types.
THEOREM TypeCorrect == Spec => []TypeOK
<1>1. DeliveryInv => TypeOK
    BY DEF DeliveryInv
<1> QED BY DeliveryInvariant, <1>1, PTL

\* Neither BullMQ, nor the record, nor the event's status ever tells of a
\* delivery that was not made.
THEOREM SuccessAlwaysBacked == Spec => []SuccessBacked
<1>1. DeliveryInv => SuccessBacked
    BY DEF DeliveryInv
<1> QED BY DeliveryInvariant, <1>1, PTL

\* A dead letter is written in the last attempt only, and by every job given up
\* on whose failures the catch block saw.
THEOREM DeadLettersAlwaysFinal == Spec => []DeadLettersAreFinal
<1>1. DeliveryInv => DeadLettersAreFinal
    BY DEF DeliveryInv, JobInv, FailureInv, DeadLettersAreFinal
<1> QED BY DeliveryInvariant, <1>1, PTL

\* Failed attempts and stalls bound how often a target is written and a dead
\* letter repeated.
THEOREM RunsAlwaysBounded == Spec => []RunsBounded
<1>1. DeliveryInv => RunsBounded
    BY DEF DeliveryInv, JobInv, CountInv, Unwritten, RunsBounded
<1> QED BY DeliveryInvariant, <1>1, PTL

-----------------------------------------------------------------------------
\* A step that commits no run of an event at rest, writes none of its targets
\* and sets no status but SUPERSEDED on it leaves it at rest.
LEMMA RestFrame ==
    ASSUME NEW e \in Events, AtRest(e),
           status'[e] = "SUPERSEDED", ingest'[e] # "enqueueing",
           \A j \in JobsOf(e) : ~Committed(j)' /\ writes'[j] = writes[j]
    PROVE  AtRest(e)' /\ \A j \in JobsOf(e) : writes'[j] = writes[j]
BY DEF AtRest, JobsOf

\* A step of a job that is not committed, and of the jobs of other events,
\* leaves an event at rest.
LEMMA JobStepRests ==
    ASSUME TypeOK, NEW e \in Events, AtRest(e), NEW j \in Jobs,
           \/ AddJob(j) \/ RecordJob(j) \/ TakeJob(j) \/ Process(j)
           \/ Fail(j) \/ FailOutside(j) \/ Promote(j) \/ Stalled(j)
    PROVE  AtRest(e)' /\ \A i \in JobsOf(e) : writes'[i] = writes[i]
<1>1. /\ step \in [Jobs -> Steps] /\ writes \in [Jobs -> Nat]
      /\ status \in [Events -> EventStatuses]
      /\ EventOf \in [Jobs -> Events]
    BY DeliveryAssumption DEF TypeOK
<1>2. ingest' = ingest
    BY DEF AddJob, RecordJob, TakeJob, Process, Fail, FailOutside, Promote, Stalled,
           LoadEvent, SkipSuperseded, MarkProcessing, Translate, AttemptWrite,
           WriteTarget, MarkCompleted, GatherRecords, SettleEvent, LogSuccess,
           RecordFailure, BuryJob, BuryRecord, Reschedule, Complete, CountFailure,
           ingestVars
<1>3. CASE EventOf[j] # e
    <2>1. \A i \in JobsOf(e) : i \in Jobs /\ i # j
        BY <1>3 DEF JobsOf
    <2>2. \A i \in JobsOf(e) : step'[i] = step[i]
        BY <1>1, <2>1 DEF AddJob, RecordJob, TakeJob, Process, Fail, FailOutside,
           Promote, Stalled, LoadEvent, SkipSuperseded, MarkProcessing, Translate,
           AttemptWrite, WriteTarget, MarkCompleted, GatherRecords, SettleEvent,
           LogSuccess, RecordFailure, BuryJob, BuryRecord, Reschedule, Complete,
           CountFailure, Goto
    <2>3. \A i \in JobsOf(e) : writes'[i] = writes[i]
        BY <1>1, <2>1 DEF AddJob, RecordJob, TakeJob, Process, Fail, FailOutside,
           Promote, Stalled, LoadEvent, SkipSuperseded, MarkProcessing, Translate,
           AttemptWrite, WriteTarget, MarkCompleted, GatherRecords, SettleEvent,
           LogSuccess, RecordFailure, BuryJob, BuryRecord, Reschedule, Complete,
           CountFailure, runVars
    <2>4. status'[e] = status[e]
        BY <1>1, <1>3 DEF AddJob, RecordJob, TakeJob, Process, Fail, FailOutside,
           Promote, Stalled, LoadEvent, SkipSuperseded, MarkProcessing, Translate,
           AttemptWrite, WriteTarget, MarkCompleted, GatherRecords, SettleEvent,
           LogSuccess, RecordFailure, BuryJob, BuryRecord, Reschedule, Complete,
           CountFailure, SetStatus
    <2> QED BY <2>2, <2>3, <2>4, <1>2, RestFrame DEF AtRest, Committed
<1>4. CASE EventOf[j] = e
    <2>1. ~Committed(j) /\ status[EventOf[j]] = "SUPERSEDED"
        BY <1>4 DEF AtRest, JobsOf
    <2>2. \/ AddJob(j) \/ RecordJob(j) \/ TakeJob(j) \/ LoadEvent(j)
          \/ SkipSuperseded(j) \/ BuryJob(j) \/ BuryRecord(j) \/ Reschedule(j)
          \/ Complete(j) \/ CountFailure(j) \/ FailOutside(j) \/ Promote(j)
          \/ Stalled(j)
        BY <2>1 DEF Process, Fail, Committed, TrySteps, MarkProcessing, Translate,
           AttemptWrite, WriteTarget, MarkCompleted, GatherRecords, SettleEvent,
           LogSuccess, RecordFailure
    <2>3. UNCHANGED <<status, writes>>
        BY <2>2 DEF AddJob, RecordJob, TakeJob, LoadEvent, SkipSuperseded, BuryJob,
           BuryRecord, Reschedule, Complete, CountFailure, FailOutside, Promote,
           Stalled, runVars
    <2>4. \/ step' = step
          \/ \E s \in {"load", "skip", "return", "buryRecord", "throw", "idle"} :
                step' = [step EXCEPT ![j] = s]
        BY <2>1, <2>2 DEF AddJob, RecordJob, TakeJob, LoadEvent, SkipSuperseded,
           BuryJob, BuryRecord, Reschedule, Complete, CountFailure, FailOutside,
           Promote, Stalled, Goto
    <2>5. \A i \in JobsOf(e) : ~Committed(i)'
        BY <2>4, <1>1 DEF AtRest, Committed, TrySteps, JobsOf
    <2> QED BY <2>3, <2>5, <1>2, RestFrame DEF AtRest
<1> QED BY <1>3, <1>4

\* An event at rest after its conflict was lost stays at rest: none of its jobs
\* writes a target or touches its status again.
THEOREM LosersAlwaysRest == Spec => LosersRest
<1>1. ASSUME TypeOK, [Next]_vars, NEW e \in Events, AtRest(e)
      PROVE  AtRest(e)' /\ \A j \in JobsOf(e) : writes'[j] = writes[j]
    <2>1. CASE \E j \in Jobs :
                  \/ AddJob(j) \/ RecordJob(j) \/ TakeJob(j) \/ Process(j)
                  \/ Fail(j) \/ FailOutside(j) \/ Promote(j) \/ Stalled(j)
        BY <2>1, <1>1, JobStepRests
    <2>2. CASE \E d \in Events : FinishIngest(d) \/ AbortIngest(d) \/ Supersede(d)
        <3>1. PICK d \in Events : FinishIngest(d) \/ AbortIngest(d) \/ Supersede(d)
            BY <2>2
        <3>2. UNCHANGED <<step, writes>>
            BY <3>1 DEF FinishIngest, AbortIngest, Supersede, runVars
        <3>3. status'[e] = "SUPERSEDED" /\ ingest'[e] # "enqueueing"
            BY <3>1, <1>1 DEF FinishIngest, AbortIngest, Supersede, AtRest, TypeOK,
               ingestVars
        <3> QED BY <3>2, <3>3, <1>1, RestFrame DEF AtRest, Committed
    <2>3. CASE Crash
        <3>1. UNCHANGED <<status, writes>>
            BY <2>3 DEF Crash, runVars
        <3>2. ingest'[e] # "enqueueing"
            BY <2>3, <1>1 DEF Crash, AtRest
        <3>3. \A j \in JobsOf(e) : ~Committed(j)'
            BY <2>3, <1>1 DEF Crash, AtRest, Committed, TrySteps, JobsOf
        <3> QED BY <3>1, <3>2, <3>3, <1>1, RestFrame DEF AtRest
    <2>4. CASE UNCHANGED vars
        BY <2>4, <1>1 DEF vars, AtRest, Committed
    <2> QED BY <2>1, <2>2, <2>3, <2>4, <1>1 DEF Next
<1>2. TypeOK /\ [Next]_vars =>
          [\A e \in Events :
             AtRest(e) => AtRest(e)' /\ \A j \in JobsOf(e) : writes'[j] = writes[j]]_vars
    BY <1>1
<1> QED BY <1>2, TypeCorrect, PTL DEF Spec, LosersRest
-----------------------------------------------------------------------------
(* Delivery implements AtLeastOnce: each step is one of its steps, or none.   *)

LEMMA InitPromise == Init => Promise!PromiseInit
<1> SUFFICES ASSUME Init PROVE Promise!PromiseInit
    OBVIOUS
<1>1. Fate = [j \in Jobs |-> "unsent"]
    BY DEF Init, Fate
<1>2. Claimed = {}
    BY DEF Init, Claimed
<1> QED BY <1>1, <1>2 DEF Init, Promise!PromiseInit

\* What a step makes of a job's fate and of the claims.
LEMMA FateOf ==
    ASSUME bull \in [Jobs -> BullStates], NEW j \in Jobs, NEW s \in BullStates,
           bull' = [bull EXCEPT ![j] = s]
    PROVE  Fate' = [Fate EXCEPT ![j] =
                     CASE s = "absent"    -> "unsent"
                       [] s = "completed" -> "done"
                       [] s = "failed"    -> "abandoned"
                       [] OTHER           -> "open"]
BY DEF Fate

LEMMA FateStays ==
    ASSUME bull \in [Jobs -> BullStates], NEW j \in Jobs,
           bull[j] \in {"waiting", "active", "delayed"},
           NEW s \in {"waiting", "active", "delayed"},
           bull' = [bull EXCEPT ![j] = s]
    PROVE  Fate' = Fate
<1>1. \A i \in Jobs : Fate'[i] = Fate[i]
    <2> SUFFICES ASSUME NEW i \in Jobs PROVE Fate'[i] = Fate[i]
        OBVIOUS
    <2>1. CASE i = j
        BY <2>1 DEF Fate
    <2>2. CASE i # j
        BY <2>2 DEF Fate
    <2> QED BY <2>1, <2>2
<1> QED BY <1>1 DEF Fate

LEMMA ClaimsOf ==
    ASSUME status \in [Events -> EventStatuses], NEW e \in Events, NEW s,
           status' = [status EXCEPT ![e] = s]
    PROVE  Claimed' = IF s \in {"WRITE_SUCCEEDED", "COMPLETED"}
                      THEN Claimed \cup {e} ELSE Claimed \ {e}
BY DEF Claimed

LEMMA OpenWhileActive ==
    ASSUME NEW j \in Jobs, RunInv(j), step[j] # "idle"
    PROVE  Fate[j] = "open" /\ bull[j] = "active"
BY DEF RunInv, Fate

\* Steps of a job that its callers do not see.
LEMMA HiddenSteps ==
    ASSUME TypeOK, NEW j \in Jobs,
           \/ RecordJob(j) \/ TakeJob(j) \/ LoadEvent(j) \/ SkipSuperseded(j)
           \/ MarkProcessing(j) \/ MarkCompleted(j) \/ GatherRecords(j)
           \/ LogSuccess(j) \/ Fail(j) \/ BuryRecord(j) \/ Reschedule(j) \/ Promote(j)
    PROVE  UNCHANGED Promise!promiseVars
<1>1. UNCHANGED <<attempts, stalls, writes, dead, unhandled, superseded, status>>
    BY DEF RecordJob, TakeJob, LoadEvent, SkipSuperseded, MarkProcessing,
           MarkCompleted, GatherRecords, LogSuccess, Fail, BuryRecord, Reschedule,
           Promote, bullVars, runVars
<1>2. Claimed' = Claimed
    BY <1>1 DEF Claimed
<1>3. Fate' = Fate
    <2>1. CASE TakeJob(j)
        BY <2>1, FateStays DEF TakeJob, TypeOK
    <2>2. CASE Promote(j)
        BY <2>2, FateStays DEF Promote, TypeOK
    <2>3. CASE UNCHANGED bull
        BY <2>3 DEF Fate
    <2> QED BY <2>1, <2>2, <2>3 DEF RecordJob, LoadEvent, SkipSuperseded,
            MarkProcessing, MarkCompleted, GatherRecords, LogSuccess, Fail,
            BuryRecord, Reschedule, bullVars
<1> QED BY <1>1, <1>2, <1>3 DEF Promise!promiseVars

\* A status that claims no success is written: a claim is withdrawn, if there was
\* one.
LEMMA StatusWithdraws ==
    ASSUME TypeOK, NEW e \in Events, NEW s, s \notin {"WRITE_SUCCEEDED", "COMPLETED"},
           status' = [status EXCEPT ![e] = s],
           UNCHANGED <<bull, attempts, stalls, writes, dead, unhandled, superseded>>
    PROVE  Promise!Withdraw(e)
<1>1. Claimed' = Claimed \ {e}
    BY ClaimsOf DEF TypeOK
<1>2. Fate' = Fate
    BY DEF Fate
<1> QED BY <1>1, <1>2 DEF Promise!Withdraw

LEMMA JobKeepsPromise ==
    ASSUME DeliveryInv, NEW j \in Jobs,
           \/ AddJob(j) \/ RecordJob(j) \/ TakeJob(j) \/ Process(j)
           \/ Fail(j) \/ FailOutside(j) \/ Promote(j) \/ Stalled(j)
    PROVE  Promise!PromiseNext \/ UNCHANGED Promise!promiseVars
<1>1. TypeOK /\ RunInv(j) /\ FailureInv(j) /\ CountInv(j)
    BY DEF DeliveryInv, JobInv
<1>2. /\ bull \in [Jobs -> BullStates] /\ status \in [Events -> EventStatuses]
      /\ attempts[j] \in Nat /\ stalls[j] \in 0 .. MaxStalls /\ EventOf[j] \in Events
      /\ dead[j] \in Nat /\ writes[j] \in Nat /\ MaxAttempts \in Nat /\ MaxStalls \in Nat
    BY <1>1, DeliveryAssumption DEF TypeOK
<1>3. ASSUME UNCHANGED bull PROVE Fate' = Fate
    BY <1>3 DEF Fate
<1>4. ASSUME UNCHANGED status PROVE Claimed' = Claimed
    BY <1>4 DEF Claimed
<1>5. CASE AddJob(j)
    <2>1. bull[j] = "absent" /\ bull' = [bull EXCEPT ![j] = "waiting"]
          /\ UNCHANGED <<attempts, stalls, writes, dead, unhandled, superseded, status>>
        BY <1>5 DEF AddJob, runVars
    <2>2. Fate' = [Fate EXCEPT ![j] = "open"]
        BY <1>2, <2>1, FateOf DEF BullStates
    <2>3. Fate[j] = "unsent"
        BY <2>1 DEF Fate
    <2>4. Promise!HandOver(j)
        BY <1>4, <2>1, <2>2, <2>3 DEF Promise!HandOver
    <2> QED BY <2>4 DEF Promise!PromiseNext
<1>6. CASE WriteTarget(j)
    <2>1. /\ step[j] = "write" /\ writes' = [writes EXCEPT ![j] = @ + 1]
          /\ UNCHANGED <<bull, attempts, stalls, dead, unhandled, superseded, status>>
        BY <1>6 DEF WriteTarget, bullVars
    <2>2. Fate[j] = "open" /\ writes[j] <= attempts[j] + stalls[j]
        BY <1>1, <2>1, OpenWhileActive DEF CountInv, Unwritten
    <2>3. Promise!Reach(j)
        BY <1>3, <1>4, <2>1, <2>2 DEF Promise!Reach
    <2> QED BY <2>3 DEF Promise!PromiseNext
<1>7. CASE BuryJob(j)
    <2>1. /\ step[j] = "bury" /\ dead' = [dead EXCEPT ![j] = @ + 1]
          /\ UNCHANGED <<bull, attempts, stalls, writes, unhandled, superseded, status>>
        BY <1>7 DEF BuryJob, bullVars
    <2>2. Fate[j] = "open" /\ bull[j] = "active"
        BY <1>1, <2>1, OpenWhileActive
    <2>3. attempts[j] + 1 = MaxAttempts
        BY <1>1, <1>2, <2>1, <2>2 DEF FailureInv
    <2>4. dead[j] <= stalls[j]
        BY <1>1, <2>1 DEF CountInv, Unburied, Steps, OpenSteps, CatchSteps
    <2>5. Promise!Bury(j)
        BY <1>3, <1>4, <2>1, <2>2, <2>3, <2>4 DEF Promise!Bury
    <2> QED BY <2>5 DEF Promise!PromiseNext
<1>8. CASE FailOutside(j)
    <2>1. /\ step[j] # "idle" /\ unhandled' = unhandled \cup {j}
          /\ UNCHANGED <<bull, attempts, stalls, writes, dead, superseded, status>>
        BY <1>8 DEF FailOutside, bullVars, OpenSteps, CatchSteps
    <2>2. Promise!MissFailure(j)
        BY <1>1, <1>3, <1>4, <2>1, OpenWhileActive DEF Promise!MissFailure
    <2> QED BY <2>2 DEF Promise!PromiseNext
<1>9. CASE Complete(j)
    <2>1. /\ step[j] = "return" /\ bull' = [bull EXCEPT ![j] = "completed"]
          /\ UNCHANGED <<attempts, stalls, writes, dead, unhandled, superseded, status>>
        BY <1>9 DEF Complete, runVars
    <2>2. Fate[j] = "open" /\ (writes[j] > 0 \/ EventOf[j] \in superseded)
        BY <1>1, <2>1, OpenWhileActive DEF RunInv
    <2>3. Fate' = [Fate EXCEPT ![j] = "done"]
        BY <1>2, <2>1, FateOf DEF BullStates
    <2>4. Promise!Succeed(j)
        BY <1>4, <2>1, <2>2, <2>3 DEF Promise!Succeed
    <2> QED BY <2>4 DEF Promise!PromiseNext
<1>10. CASE CountFailure(j)
    <2>1. /\ step[j] = "throw" /\ attempts' = [attempts EXCEPT ![j] = @ + 1]
          /\ bull' = [bull EXCEPT ![j] = IF attempts[j] + 1 < MaxAttempts
                                         THEN "delayed" ELSE "failed"]
          /\ UNCHANGED <<stalls, writes, dead, unhandled, superseded, status>>
        BY <1>10 DEF CountFailure, runVars
    <2>2. Fate[j] = "open" /\ bull[j] = "active" /\ attempts[j] < MaxAttempts
        BY <1>1, <2>1, OpenWhileActive DEF FailureInv
    <2>3. Claimed' = Claimed
        BY <1>4, <2>1
    <2>4. CASE attempts[j] + 1 < MaxAttempts
        <3>1. Fate' = Fate
            BY <1>2, <2>1, <2>2, <2>4, FateStays
        <3>2. dead[j] = 0
            BY <1>1, <1>2, <2>4 DEF FailureInv
        <3>3. Promise!FailChance(j)
            BY <2>1, <2>2, <2>3, <2>4, <3>1, <3>2 DEF Promise!FailChance
        <3> QED BY <3>3 DEF Promise!PromiseNext
    <2>5. CASE ~(attempts[j] + 1 < MaxAttempts)
        <3>1. Fate' = [Fate EXCEPT ![j] = "abandoned"]
            BY <1>2, <2>1, <2>5, FateOf DEF BullStates
        <3>2. attempts[j] + 1 = MaxAttempts /\ (dead[j] > 0 \/ j \in unhandled)
            BY <1>1, <1>2, <2>1, <2>2, <2>5 DEF FailureInv
        <3>3. Promise!FailChance(j)
            BY <2>1, <2>2, <2>3, <3>1, <3>2 DEF Promise!FailChance
        <3> QED BY <3>3 DEF Promise!PromiseNext
    <2> QED BY <2>4, <2>5
<1>11. CASE Stalled(j)
    <2>1. Fate[j] = "open" /\ bull[j] = "active" /\ Claimed' = Claimed
          /\ UNCHANGED <<attempts, writes, dead, superseded>>
        BY <1>1, <1>4, <1>11, OpenWhileActive DEF Stalled
    <2>2. CASE /\ stalls[j] < MaxStalls
               /\ stalls' = [stalls EXCEPT ![j] = @ + 1]
               /\ bull' = [bull EXCEPT ![j] = "waiting"]
               /\ UNCHANGED unhandled
        <3>1. Fate' = Fate
            BY <1>2, <2>1, <2>2, FateStays
        <3>2. Promise!DieInChance(j)
            BY <2>1, <2>2, <3>1 DEF Promise!DieInChance
        <3> QED BY <3>2 DEF Promise!PromiseNext
    <2>3. CASE /\ stalls[j] = MaxStalls
               /\ bull' = [bull EXCEPT ![j] = "failed"]
               /\ unhandled' = unhandled \cup {j}
               /\ UNCHANGED stalls
        <3>1. Fate' = [Fate EXCEPT ![j] = "abandoned"]
            BY <1>2, <2>3, FateOf DEF BullStates
        <3>2. Promise!DieInChance(j)
            BY <2>1, <2>3, <3>1 DEF Promise!DieInChance
        <3> QED BY <3>2 DEF Promise!PromiseNext
    <2> QED BY <1>11, <2>2, <2>3 DEF Stalled
<1>12. CASE SettleEvent(j)
    <2>1. /\ step[j] = "settle" /\ status' = [status EXCEPT ![EventOf[j]] = outcome[j]]
          /\ UNCHANGED <<bull, attempts, stalls, writes, dead, unhandled, superseded>>
        BY <1>12 DEF SettleEvent, SetStatus, bullVars, runVars
    <2>2. outcome[j] \in {"COMPLETED", "WRITE_SUCCEEDED"} /\ writes[j] > 0
        BY <1>1, <2>1 DEF TypeOK, RunInv
    <2>3. Claimed' = Claimed \cup {EventOf[j]}
        BY <1>2, <2>1, <2>2, ClaimsOf
    <2>4. Promise!Claim(EventOf[j])
        BY <1>3, <2>1, <2>2, <2>3 DEF Promise!Claim
    <2> QED BY <1>2, <2>4 DEF Promise!PromiseNext
<1>13. CASE Translate(j) \/ AttemptWrite(j) \/ RecordFailure(j)
    <2>1. PICK s \in {"TRANSLATED", "WRITE_ATTEMPTED", "DLQ_MOVED", "RETRY_SCHEDULED"} :
             status' = [status EXCEPT ![EventOf[j]] = s]
        BY <1>13 DEF Translate, AttemptWrite, RecordFailure, SetStatus
    <2>2. UNCHANGED <<bull, attempts, stalls, writes, dead, unhandled, superseded>>
        BY <1>13 DEF Translate, AttemptWrite, RecordFailure, bullVars, runVars
    <2>3. Promise!Withdraw(EventOf[j])
        BY <1>1, <1>2, <2>1, <2>2, StatusWithdraws
    <2> QED BY <1>2, <2>3 DEF Promise!PromiseNext
<1> QED BY <1>1, <1>5, <1>6, <1>7, <1>8, <1>9, <1>10, <1>11, <1>12, <1>13, HiddenSteps
    DEF Process

LEMMA StepPromise ==
    DeliveryInv /\ [Next]_vars => [Promise!PromiseNext]_(Promise!promiseVars)
<1> SUFFICES ASSUME DeliveryInv, [Next]_vars
             PROVE  Promise!PromiseNext \/ UNCHANGED Promise!promiseVars
    BY DEF Promise!promiseVars
<1>1. TypeOK
    BY DEF DeliveryInv
<1>2. CASE \E j \in Jobs :
              \/ AddJob(j) \/ RecordJob(j) \/ TakeJob(j) \/ Process(j)
              \/ Fail(j) \/ FailOutside(j) \/ Promote(j) \/ Stalled(j)
    BY <1>2, JobKeepsPromise
<1>3. ASSUME NEW e \in Events, FinishIngest(e) PROVE Promise!PromiseNext
    <2>1. /\ status' = [status EXCEPT ![e] = "QUEUED"]
          /\ UNCHANGED <<bull, attempts, stalls, writes, dead, unhandled, superseded>>
        BY <1>3 DEF FinishIngest, bullVars, runVars
    <2>2. Promise!Withdraw(e)
        BY <1>1, <2>1, StatusWithdraws
    <2> QED BY <2>2 DEF Promise!PromiseNext
<1>4. ASSUME NEW e \in Events, Supersede(e) PROVE Promise!PromiseNext
    <2>1. /\ status' = [status EXCEPT ![e] = "SUPERSEDED"] /\ superseded' = superseded \cup {e}
          /\ UNCHANGED <<bull, attempts, stalls, writes, dead, unhandled>>
        BY <1>4 DEF Supersede, bullVars, runVars
    <2>2. Claimed' = Claimed \ {e}
        BY <1>1, <2>1, ClaimsOf DEF TypeOK
    <2>3. Fate' = Fate
        BY <2>1 DEF Fate
    <2>4. Promise!Lose(e)
        BY <2>1, <2>2, <2>3 DEF Promise!Lose
    <2> QED BY <2>4 DEF Promise!PromiseNext
<1>5. CASE \/ \E e \in Events : AbortIngest(e)
           \/ Crash
           \/ UNCHANGED vars
    <2>1. UNCHANGED <<bull, attempts, stalls, writes, dead, unhandled, superseded, status>>
        BY <1>5 DEF AbortIngest, Crash, vars, bullVars, runVars
    <2> QED BY <2>1 DEF Promise!promiseVars, Fate, Claimed
<1> QED BY <1>2, <1>3, <1>4, <1>5 DEF Next

\* Delivery implements AtLeastOnce (processWriteJob, buildJobOptions, BullMQ).
THEOREM DeliveryKeepsPromise == Spec => PromiseKept
<1> QED
    BY InitPromise, StepPromise, DeliveryInvariant, PTL
       DEF Spec, PromiseKept, Promise!PromiseSpec
-----------------------------------------------------------------------------
(* What the promise is worth. *)

PromiseTypes ==
    /\ Fate \in [Jobs -> {"unsent", "open", "done", "abandoned"}]
    /\ attempts \in [Jobs -> Nat] /\ stalls \in [Jobs -> 0 .. MaxStalls]
    /\ writes \in [Jobs -> Nat] /\ dead \in [Jobs -> Nat]

\* A job that is still open has a chance left.
ChanceLeft == \A j \in Jobs : Fate[j] \in {"unsent", "open"} => attempts[j] < MaxAttempts

PromiseInv == PromiseTypes /\ ChanceLeft /\ Promise!FatesBacked

LEMMA PromiseHolds == Promise!PromiseInit => PromiseInv
BY DeliveryAssumption
   DEF Promise!PromiseInit, PromiseInv, PromiseTypes, ChanceLeft, Promise!FatesBacked

LEMMA PromiseJobStep ==
    ASSUME PromiseInv, NEW j \in Jobs,
           \/ Promise!HandOver(j) \/ Promise!Reach(j) \/ Promise!Bury(j)
           \/ Promise!MissFailure(j) \/ Promise!Succeed(j) \/ Promise!FailChance(j)
           \/ Promise!DieInChance(j)
    PROVE  PromiseInv'
<1> USE DeliveryAssumption DEF PromiseInv, PromiseTypes, ChanceLeft, Promise!FatesBacked
<1>1. CASE Promise!HandOver(j)
    BY <1>1 DEF Promise!HandOver
<1>2. CASE Promise!Reach(j)
    BY <1>2 DEF Promise!Reach
<1>3. CASE Promise!Bury(j)
    BY <1>3 DEF Promise!Bury
<1>4. CASE Promise!MissFailure(j)
    BY <1>4 DEF Promise!MissFailure
<1>5. CASE Promise!Succeed(j)
    BY <1>5 DEF Promise!Succeed
<1>6. CASE Promise!FailChance(j)
    BY <1>6 DEF Promise!FailChance
<1>7. CASE Promise!DieInChance(j)
    BY <1>7 DEF Promise!DieInChance
<1> QED BY <1>1, <1>2, <1>3, <1>4, <1>5, <1>6, <1>7

LEMMA PromiseStep ==
    PromiseInv /\ [Promise!PromiseNext]_(Promise!promiseVars) => PromiseInv'
<1> SUFFICES ASSUME PromiseInv, [Promise!PromiseNext]_(Promise!promiseVars)
             PROVE  PromiseInv'
    OBVIOUS
<1>1. CASE \E j \in Jobs :
              \/ Promise!HandOver(j) \/ Promise!Reach(j) \/ Promise!Bury(j)
              \/ Promise!MissFailure(j) \/ Promise!Succeed(j) \/ Promise!FailChance(j)
              \/ Promise!DieInChance(j)
    BY <1>1, PromiseJobStep
<1>2. ASSUME NEW e \in Events, Promise!Lose(e) \/ Promise!Claim(e) \/ Promise!Withdraw(e)
      PROVE  PromiseInv'
    <2>1. UNCHANGED <<Fate, attempts, stalls, writes, dead, unhandled>>
          /\ superseded \subseteq superseded'
        BY <1>2 DEF Promise!Lose, Promise!Claim, Promise!Withdraw
    <2> QED BY <2>1 DEF PromiseInv, PromiseTypes, ChanceLeft, Promise!FatesBacked
<1>3. CASE UNCHANGED Promise!promiseVars
    BY <1>3 DEF Promise!promiseVars, PromiseInv, PromiseTypes, ChanceLeft,
        Promise!FatesBacked
<1> QED BY <1>1, <1>2, <1>3 DEF Promise!PromiseNext

\* Whatever implements AtLeastOnce writes a target at most once for each chance a
\* job has, and backs what becomes of a job.
THEOREM PromisedFates == PromiseKept => []Promise!FatesBacked
<1>1. PromiseInv => Promise!FatesBacked
    BY DEF PromiseInv
<1> QED BY <1>1, PromiseHolds, PromiseStep, PTL DEF PromiseKept, Promise!PromiseSpec

\* Whatever implements AtLeastOnce never touches the target of a job that is over.
THEOREM PromisedEnds == PromiseKept => Promise!FatesFinal
<1>1. ASSUME PromiseInv, [Promise!PromiseNext]_(Promise!promiseVars), NEW i \in Jobs,
             Promise!Ended(i)
      PROVE  Fate'[i] = Fate[i] /\ writes'[i] = writes[i] /\ dead'[i] = dead[i]
    <2> USE DEF PromiseInv, PromiseTypes, Promise!Ended
    <2>1. ASSUME NEW j \in Jobs,
              \/ Promise!HandOver(j) \/ Promise!Reach(j) \/ Promise!Bury(j)
              \/ Promise!MissFailure(j) \/ Promise!Succeed(j) \/ Promise!FailChance(j)
              \/ Promise!DieInChance(j)
          PROVE  Fate'[i] = Fate[i] /\ writes'[i] = writes[i] /\ dead'[i] = dead[i]
        <3>1. i # j
            BY <1>1, <2>1 DEF Promise!HandOver, Promise!Reach, Promise!Bury,
               Promise!MissFailure, Promise!Succeed, Promise!FailChance,
               Promise!DieInChance
        <3> QED BY <1>1, <2>1, <3>1 DEF Promise!HandOver, Promise!Reach, Promise!Bury,
               Promise!MissFailure, Promise!Succeed, Promise!FailChance,
               Promise!DieInChance
    <2>2. ASSUME NEW e \in Events,
              Promise!Lose(e) \/ Promise!Claim(e) \/ Promise!Withdraw(e)
          PROVE  Fate'[i] = Fate[i] /\ writes'[i] = writes[i] /\ dead'[i] = dead[i]
        BY <2>2 DEF Promise!Lose, Promise!Claim, Promise!Withdraw
    <2>3. CASE UNCHANGED Promise!promiseVars
        BY <2>3 DEF Promise!promiseVars
    <2> QED BY <1>1, <2>1, <2>2, <2>3 DEF Promise!PromiseNext
<1>2. PromiseInv /\ [Promise!PromiseNext]_(Promise!promiseVars) =>
         [\A j \in Jobs :
             Promise!Ended(j) => /\ Fate'[j] = Fate[j]
                                 /\ writes'[j] = writes[j]
                                 /\ dead'[j] = dead[j]]_(Promise!promiseVars)
    BY <1>1
<1> QED BY <1>2, PromiseHolds, PromiseStep, PTL
        DEF PromiseKept, Promise!PromiseSpec, Promise!FatesFinal

\* Delivery keeps both: a target is written at most MaxAttempts + MaxStalls times,
\* never without need, and never again once BullMQ has completed the job or given
\* it up (attempts of buildJobOptions, maxStalledCount).
THEOREM DeliveryKeepsItsWord == Spec => []Promise!FatesBacked /\ Promise!FatesFinal
BY DeliveryKeepsPromise, PromisedFates, PromisedEnds, PTL

================================================================================
