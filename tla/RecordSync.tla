------------------------------ MODULE RecordSync ------------------------------
(***************************************************************************)
(* One record of a department, and everyone who touches it:                *)
(*   - the department, by its own API (mockEkarmika.service.ts and         *)
(*     mockEsurakshate.service.ts),                                        *)
(*   - K-Sync's adapter, which propagates events of other systems to it    *)
(*     and leaves the stamp lastPropagation (ekarmika.adapter.ts and       *)
(*     esurakshate.adapter.ts),                                            *)
(*   - the polls, which compare it with the last snapshot and ingest what  *)
(*     they find, or confirm it as propagated (polling.service.ts).        *)
(*                                                                         *)
(* Writers read the record, compute, and write it back in a second         *)
(* statement.  A poll has an await between any two of its steps, and polls *)
(* overlap: the scheduler does not wait, and the API starts them too.      *)
(*                                                                         *)
(* Abstracted: a change, direct or propagated, is of one field, and every  *)
(* supported field has a service type of its own, as in the mappings of    *)
(* diff.service.ts: so the changed fields of a stamped event and of a      *)
(* difference agree whenever their service types do, and the comparison of *)
(* payload hashes never decides.  The employer name of e-Karmika, which is *)
(* read from its column until rawPayload has it, is taken as one or the    *)
(* other.  ingestRequest is one step: that a later failure of it loses the *)
(* event is the matter of Idempotency.                                     *)
(***************************************************************************)
EXTENDS Integers, FiniteSets

CONSTANTS
    Fields,         \* what a snapshot compares
    Supported,      \* those with a service type
    InRawPayload,   \* those kept in rawPayload only, not in a column
    Values,
    Initial,        \* [Fields -> Values]
    Direct,         \* changes the department makes
    Propagated,     \* events the adapter writes
    FieldOf,        \* the field a change or event changes
    ValueOf,        \* the value it gives to it
    Polls,
    ConfirmWindow,  \* the 5 s of isPropagationTimestampMatch
    MaxTime,        \* bound of the clock
    MaxFailures,    \* bound of the polls that fail
    None

Changes == Direct \cup Propagated

ASSUME RecordAssumption ==
    /\ Supported \subseteq Fields
    /\ InRawPayload \subseteq Fields
    /\ Initial \in [Fields -> Values]
    /\ FieldOf \in [Changes -> Fields]
    /\ ValueOf \in [Changes -> Values]
    /\ Direct \cap Propagated = {}
    /\ \A d \in Direct : FieldOf[d] \notin InRawPayload
    /\ ConfirmWindow \in Nat
    /\ MaxTime \in Nat
    /\ MaxFailures \in Nat
    /\ None \notin Changes

VARIABLES
    clock,
    record,     \* the department's record: fields, stamp, time of modification
    writer,     \* where the handler of a change is
    copy,       \* the record as that handler read it
    snapshot,   \* the values of the last snapshot, if there is one
    baselines,  \* the values snapshots were saved with when there was none
    poll,       \* where a poll is
    seen,       \* the record as it read it
    left,       \* the fields with a difference it has still to deal with
    ingested,   \* field and value of the events it ingested
    confirmed,  \* field and value of what it took for propagated
    failures    \* polls that have failed

pollVars == <<snapshot, baselines, poll, seen, left, ingested, confirmed, failures>>
vars == <<clock, record, writer, copy, pollVars>>

Snapshots == [Fields -> Values]
NoStamp == [event |-> None, at |-> 0]
Stamps  == [event : Propagated, at : 0 .. MaxTime] \cup {NoStamp}
Records == [values : Snapshots, stamp : Stamps, modified : 0 .. MaxTime]

TypeOK ==
    /\ clock \in 0 .. MaxTime
    /\ record \in Records
    /\ writer \in [Changes -> {"new", "read", "done"}]
    /\ copy \in [Changes -> Records]
    /\ snapshot \in Snapshots \cup {None}
    /\ baselines \in SUBSET (Fields \X Values)
    /\ poll \in [Polls -> {"idle", "compare", "baseline", "differ"}]
    /\ seen \in [Polls -> Records]
    /\ left \in [Polls -> SUBSET Supported]
    /\ ingested \in SUBSET (Fields \X Values)
    /\ confirmed \in SUBSET (Fields \X Values)
    /\ failures \in 0 .. MaxFailures

Init ==
    /\ clock = 0
    /\ record = [values |-> Initial, stamp |-> NoStamp, modified |-> 0]
    /\ writer = [c \in Changes |-> "new"]
    /\ copy = [c \in Changes |-> record]
    /\ snapshot = None
    /\ baselines = {}
    /\ poll = [p \in Polls |-> "idle"]
    /\ seen = [p \in Polls |-> record]
    /\ left = [p \in Polls |-> {}]
    /\ ingested = {}
    /\ confirmed = {}
    /\ failures = 0

Tick ==
    /\ clock < MaxTime
    /\ clock' = clock + 1
    /\ UNCHANGED <<record, writer, copy, pollVars>>

-----------------------------------------------------------------------------
(* The writers. *)

ReadRecord(c) ==
    /\ writer[c] = "new"
    /\ copy' = [copy EXCEPT ![c] = record]
    /\ writer' = [writer EXCEPT ![c] = "read"]
    /\ UNCHANGED <<clock, record, pollVars>>

\* applyCanonicalPayload and buildRawPayload: the values as they were read, with
\* the change, and the stamp that was read.
Changed(d) ==
    [values   |-> [copy[d].values EXCEPT ![FieldOf[d]] = ValueOf[d]],
     stamp    |-> copy[d].stamp,
     modified |-> clock]

\* The department's update sets every column.
ChangeDirectly(d) ==
    /\ writer[d] = "read"
    /\ record' = Changed(d)
    /\ writer' = [writer EXCEPT ![d] = "done"]
    /\ UNCHANGED <<clock, copy, pollVars>>

\* The adapter sets the columns the event has changed, and all of rawPayload: as
\* it read it, with the changed field and a new stamp.
WriteRecord(e) ==
    /\ writer[e] = "read"
    /\ LET kept == [f \in Fields |-> IF f \in InRawPayload THEN copy[e].values[f]
                                     ELSE record.values[f]]
       IN  record' = [values   |-> [kept EXCEPT ![FieldOf[e]] = ValueOf[e]],
                      stamp    |-> [event |-> e, at |-> clock],
                      modified |-> clock]
    /\ writer' = [writer EXCEPT ![e] = "done"]
    /\ UNCHANGED <<clock, copy, pollVars>>

-----------------------------------------------------------------------------
(* pollNormalizedRecord. *)

Goto(p, place) == poll' = [poll EXCEPT ![p] = place]
Entry(p, f) == <<f, seen[p].values[f]>>

\* normalizeEkarmikaRecord or normalizeEsurakshateRecord.
StartPoll(p) ==
    /\ poll[p] = "idle"
    /\ seen' = [seen EXCEPT ![p] = record]
    /\ Goto(p, "compare")
    /\ UNCHANGED <<clock, record, writer, copy, snapshot, baselines, left, ingested,
                   confirmed, failures>>

\* Mutant of Compare: the snapshot is saved before its differences are dealt
\* with.
CompareAndSave(p) ==
    /\ poll[p] = "compare"
    /\ \/ /\ snapshot = None
          /\ Goto(p, "baseline")
          /\ UNCHANGED <<left, snapshot>>
       \/ /\ snapshot = seen[p].values
          /\ Goto(p, "idle")
          /\ UNCHANGED <<left, snapshot>>
       \/ /\ snapshot \notin {None, seen[p].values}
          /\ Goto(p, "differ")
          /\ left' = [left EXCEPT ![p] =
                        {f \in Supported : snapshot[f] # seen[p].values[f]}]
          /\ snapshot' = seen[p].values
    /\ UNCHANGED <<clock, record, writer, copy, baselines, seen, ingested, confirmed,
                   failures>>

\* Mutant of Compare: an unsupported difference ends the poll.
CompareSupported(p) ==
    /\ poll[p] = "compare"
    /\ IF snapshot = None THEN Goto(p, "baseline") /\ UNCHANGED left
       ELSE IF \E f \in Fields \ Supported : snapshot[f] # seen[p].values[f]
       THEN Goto(p, "idle") /\ UNCHANGED left
       ELSE /\ Goto(p, "differ")
            /\ left' = [left EXCEPT ![p] =
                          {f \in Supported : snapshot[f] # seen[p].values[f]}]
    /\ UNCHANGED <<clock, record, writer, copy, snapshot, baselines, seen, ingested,
                   confirmed, failures>>

\* The hash of what was read is that of the previous snapshot.
Unchanged(p) == snapshot = seen[p].values

\* The snapshot is read after the record: a first one is due, nothing changed,
\* or the differences are dealt with one by one.
Compare(p) ==
    /\ poll[p] = "compare"
    /\ \/ /\ snapshot = None
          /\ Goto(p, "baseline")
          /\ UNCHANGED left
       \/ /\ Unchanged(p)
          /\ Goto(p, "idle")
          /\ UNCHANGED left
       \/ /\ snapshot # None /\ ~Unchanged(p)
          /\ Goto(p, "differ")
          /\ left' = [left EXCEPT ![p] =
                        {f \in Supported : snapshot[f] # seen[p].values[f]}]
    /\ UNCHANGED <<clock, record, writer, copy, snapshot, baselines, seen, ingested,
                   confirmed, failures>>

SaveBaseline(p) ==
    /\ poll[p] = "baseline"
    /\ snapshot' = seen[p].values
    /\ baselines' = baselines \cup {Entry(p, f) : f \in Fields}
    /\ Goto(p, "idle")
    /\ UNCHANGED <<clock, record, writer, copy, seen, left, ingested, confirmed,
                   failures>>

\* Mutant of IsPropagated: the service type of the stamp is not compared.
IsPropagatedAnyhow(p, f) ==
    LET stamp == seen[p].stamp
    IN  /\ stamp # NoStamp
        /\ seen[p].modified - stamp.at \in -ConfirmWindow .. ConfirmWindow

\* confirmPropagatedChangeIfApplicable: the record bears the stamp of an event
\* with the service type of the difference, set within the window of the
\* record's last modification.
IsPropagated(p, f) ==
    LET stamp == seen[p].stamp
    IN  /\ stamp # NoStamp
        /\ FieldOf[stamp.event] = f
        /\ seen[p].modified - stamp.at \in -ConfirmWindow .. ConfirmWindow

Deal(p, f) ==
    /\ poll[p] = "differ"
    /\ f \in left[p]
    /\ left' = [left EXCEPT ![p] = @ \ {f}]
    /\ \/ /\ IsPropagated(p, f)
          /\ confirmed' = confirmed \cup {Entry(p, f)}
          /\ UNCHANGED ingested
       \/ /\ ~IsPropagated(p, f)
          /\ ingested' = ingested \cup {Entry(p, f)}
          /\ UNCHANGED confirmed
    /\ UNCHANGED <<clock, record, writer, copy, snapshot, baselines, poll, seen,
                   failures>>

\* Mutant of SaveSnapshot: the snapshot does not wait for the last difference.
SaveAnySnapshot(p) ==
    /\ poll[p] = "differ"
    /\ snapshot' = seen[p].values
    /\ Goto(p, "idle")
    /\ UNCHANGED <<clock, record, writer, copy, baselines, seen, left, ingested,
                   confirmed, failures>>

\* Unsupported differences are named in the summary and saved with the rest.
SaveSnapshot(p) ==
    /\ poll[p] = "differ"
    /\ left[p] = {}
    /\ snapshot' = seen[p].values
    /\ Goto(p, "idle")
    /\ UNCHANGED <<clock, record, writer, copy, baselines, seen, left, ingested,
                   confirmed, failures>>

\* An await throws, or the process dies: the next poll starts from scratch.
FailPoll(p) ==
    /\ poll[p] # "idle"
    /\ failures < MaxFailures
    /\ failures' = failures + 1
    /\ left' = [left EXCEPT ![p] = {}]
    /\ Goto(p, "idle")
    /\ UNCHANGED <<clock, record, writer, copy, snapshot, baselines, seen, ingested,
                   confirmed>>

Proceed(p) ==
    \/ StartPoll(p) \/ Compare(p) \/ SaveBaseline(p) \/ SaveSnapshot(p)
    \/ \E f \in Fields : Deal(p, f)

Next ==
    \/ Tick
    \/ \E c \in Changes : ReadRecord(c)
    \/ \E d \in Direct : ChangeDirectly(d)
    \/ \E e \in Propagated : WriteRecord(e)
    \/ \E p \in Polls : Proceed(p) \/ FailPoll(p)

Spec == Init /\ [][Next]_vars

\* The scheduler's interval starts polls for ever, and an await resolves.
FairSpec == Spec /\ \A p \in Polls : WF_vars(Proceed(p))

-----------------------------------------------------------------------------
(* What polling promises. *)

Accounted == baselines \cup ingested \cup confirmed

\* Polls lose no change: what a snapshot has of a supported field was saved as a
\* baseline, ingested as an event or confirmed as propagated, however polls
\* overlap and wherever they fail (saveSnapshot is the last step of
\* pollNormalizedRecord).
SnapshotCovered ==
    snapshot # None => \A f \in Supported : <<f, snapshot[f]>> \in Accounted

\* Nothing is confirmed that the adapter has never touched: the field of a
\* confirmed difference was written by an event, although a direct change may
\* bring back an older stamp and another value.
ConfirmedWasWritten ==
    \A x \in confirmed :
        \E e \in Propagated : FieldOf[e] = x[1] /\ writer[e] = "done"

\* A change of a supported field is accounted for, unless it is overwritten
\* before a poll comes to see it.
ChangesNoticed ==
    \A f \in Supported : \A v \in Values :
        record.values[f] = v ~> record.values[f] # v \/ <<f, v>> \in Accounted

-----------------------------------------------------------------------------
(* Why the snapshot is covered: the parts of an inductive invariant.        *)

\* What a poll read is accounted for but for the fields it has still to deal
\* with.
DifferencesLeft ==
    \A p \in Polls :
        poll[p] = "differ" =>
            \A f \in Supported \ left[p] : Entry(p, f) \in Accounted

\* Every stamp anyone has read is that of an event the adapter has written.
StampsWritten ==
    LET Written(r) == r.stamp # NoStamp => writer[r.stamp.event] = "done"
    IN  /\ Written(record)
        /\ \A c \in Changes : Written(copy[c])
        /\ \A p \in Polls : Written(seen[p])

\* The inductive invariant of pollNormalizedRecord among its writers.
RecordInv ==
    /\ TypeOK
    /\ DifferencesLeft
    /\ StampsWritten
    /\ SnapshotCovered
    /\ ConfirmedWasWritten
=============================================================================
