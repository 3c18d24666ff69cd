--------------------------- MODULE RecordSyncProofs ---------------------------
(***************************************************************************)
(* RecordInv is an invariant of RecordSync for any department record, any  *)
(* set of changes and polls, and any window.                               *)
(***************************************************************************)
EXTENDS RecordSync, TLAPS

USE RecordAssumption DEF Changes

\* The record polling starts from has the right type and no stamp.
LEMMA InitialRecord ==
    [values |-> Initial, stamp |-> NoStamp, modified |-> 0] \in Records
<1>1. Initial \in Snapshots
  BY DEF Snapshots
<1>2. NoStamp \in Stamps /\ 0 \in 0 .. MaxTime
  BY DEF Stamps
<1> QED  BY <1>1, <1>2 DEF Records

\* An initial state satisfies the invariant: there is no snapshot and no poll.
LEMMA InitRecordInv == Init => RecordInv
<1> SUFFICES ASSUME Init PROVE RecordInv
  OBVIOUS
<1>1. TypeOK
  BY InitialRecord DEF Init, TypeOK
<1>2. DifferencesLeft
  BY DEF Init, DifferencesLeft
<1>3. StampsWritten
  BY DEF Init, StampsWritten
<1>4. SnapshotCovered /\ ConfirmedWasWritten
  BY DEF Init, SnapshotCovered, ConfirmedWasWritten
<1> QED  BY <1>1, <1>2, <1>3, <1>4 DEF RecordInv

\* A writer touches the record and its own progress only, leaves a stamp some
\* event has written, and takes no progress back: that keeps the invariant.
LEMMA WriterKeepsInv ==
    ASSUME RecordInv, UNCHANGED <<clock, pollVars>>,
           record' \in Records,
           writer' \in [Changes -> {"new", "read", "done"}],
           copy' \in [Changes -> Records],
           \A c \in Changes : writer[c] = "done" => writer'[c] = "done",
           record'.stamp # NoStamp => writer'[record'.stamp.event] = "done",
           \A c \in Changes :
               copy'[c].stamp # NoStamp => writer'[copy'[c].stamp.event] = "done"
    PROVE  RecordInv'
<1>1. TypeOK'
  BY DEF RecordInv, TypeOK, pollVars
<1>2. DifferencesLeft'
  BY DEF RecordInv, DifferencesLeft, Entry, Accounted, pollVars
<1>3. StampsWritten'
  <2>1. \A p \in Polls : seen[p].stamp # NoStamp =>
            /\ seen[p].stamp.event \in Changes
            /\ writer[seen[p].stamp.event] = "done"
    BY DEF RecordInv, TypeOK, StampsWritten, Records, Stamps
  <2>2. \A p \in Polls : seen[p].stamp # NoStamp => writer'[seen[p].stamp.event] = "done"
    BY <2>1
  <2> QED  BY <2>2 DEF StampsWritten, pollVars
<1>4. SnapshotCovered'
  BY DEF RecordInv, SnapshotCovered, Accounted, pollVars
<1>5. ConfirmedWasWritten'
  BY DEF RecordInv, ConfirmedWasWritten, pollVars
<1> QED  BY <1>1, <1>2, <1>3, <1>4, <1>5 DEF RecordInv

\* A stamp of a record is empty or names a propagated event.
LEMMA StampedByEvent ==
    ASSUME NEW r \in Records, r.stamp # NoStamp
    PROVE  r.stamp.event \in Propagated
BY DEF Records, Stamps

\* Reading the record hands its stamp to a copy.
LEMMA ReadKeepsInv ==
    ASSUME RecordInv, NEW c \in Changes, ReadRecord(c)
    PROVE  RecordInv'
<1>1. /\ record \in Records
      /\ writer \in [Changes -> {"new", "read", "done"}]
      /\ copy \in [Changes -> Records]
  BY DEF RecordInv, TypeOK
<1>2. /\ copy' \in [Changes -> Records]
      /\ writer' \in [Changes -> {"new", "read", "done"}]
      /\ record' \in Records
  BY <1>1 DEF ReadRecord
<1>3. \A d \in Changes : writer[d] = "done" => writer'[d] = "done"
  BY <1>1 DEF ReadRecord
<1>4. record'.stamp # NoStamp => writer'[record'.stamp.event] = "done"
  <2>1. record.stamp # NoStamp =>
            record.stamp.event \in Changes /\ writer[record.stamp.event] = "done"
    BY <1>1, StampedByEvent DEF RecordInv, StampsWritten
  <2> QED  BY <2>1, <1>3 DEF ReadRecord
<1>5. ASSUME NEW d \in Changes, copy'[d].stamp # NoStamp
      PROVE  writer'[copy'[d].stamp.event] = "done"
  <2>1. CASE d = c
    <3>1. copy'[d] = record'
      BY <2>1, <1>1 DEF ReadRecord
    <3> QED  BY <3>1, <1>4, <1>5
  <2>2. CASE d # c
    <3>1. copy'[d] = copy[d] /\ copy[d] \in Records
      BY <2>2, <1>1 DEF ReadRecord
    <3>2. copy[d].stamp.event \in Changes /\ writer[copy[d].stamp.event] = "done"
      BY <3>1, <1>5, StampedByEvent DEF RecordInv, StampsWritten
    <3> QED  BY <3>1, <3>2, <1>3
  <2> QED  BY <2>1, <2>2
<1> QED  BY <1>2, <1>3, <1>4, <1>5, WriterKeepsInv DEF ReadRecord

\* A direct change brings back the stamp its handler has read.
LEMMA ChangeKeepsInv ==
    ASSUME RecordInv, NEW d \in Direct, ChangeDirectly(d)
    PROVE  RecordInv'
<1>1. /\ clock \in 0 .. MaxTime
      /\ writer \in [Changes -> {"new", "read", "done"}]
      /\ copy \in [Changes -> Records]
  BY DEF RecordInv, TypeOK
<1>2. record' \in Records
  <2>1. [copy[d].values EXCEPT ![FieldOf[d]] = ValueOf[d]] \in Snapshots
    BY <1>1 DEF Records, Snapshots
  <2>2. copy[d].stamp \in Stamps
    BY <1>1 DEF Records
  <2> QED  BY <2>1, <2>2, <1>1 DEF ChangeDirectly, Changed, Records
<1>3. writer' \in [Changes -> {"new", "read", "done"}]
  BY <1>1 DEF ChangeDirectly
<1>4. \A c \in Changes : writer[c] = "done" => writer'[c] = "done"
  BY <1>1 DEF ChangeDirectly
<1>5. \A c \in Changes :
          copy[c].stamp # NoStamp => writer'[copy[c].stamp.event] = "done"
  BY <1>1, <1>4, StampedByEvent DEF RecordInv, StampsWritten
<1>6. copy' = copy /\ record'.stamp = copy[d].stamp
  BY DEF ChangeDirectly, Changed
<1> QED  BY <1>1, <1>2, <1>3, <1>4, <1>5, <1>6, WriterKeepsInv DEF ChangeDirectly

\* The adapter leaves the stamp of an event that is written from now on.
LEMMA WriteKeepsInv ==
    ASSUME RecordInv, NEW e \in Propagated, WriteRecord(e)
    PROVE  RecordInv'
<1>1. /\ clock \in 0 .. MaxTime
      /\ record \in Records
      /\ writer \in [Changes -> {"new", "read", "done"}]
      /\ copy \in [Changes -> Records]
  BY DEF RecordInv, TypeOK
<1>2. record' \in Records
  <2>1. record'.values \in Snapshots
    <3>1. \A f \in Fields : record.values[f] \in Values /\ copy[e].values[f] \in Values
      BY <1>1 DEF Records, Snapshots
    <3>2. ValueOf[e] \in Values
      OBVIOUS
    <3> QED  BY <3>1, <3>2 DEF WriteRecord, Snapshots
  <2>2. [event |-> e, at |-> clock] \in Stamps
    BY <1>1 DEF Stamps
  <2> QED  BY <2>1, <2>2, <1>1 DEF WriteRecord, Records
<1>3. writer' \in [Changes -> {"new", "read", "done"}]
  BY <1>1 DEF WriteRecord
<1>4. \A c \in Changes : writer[c] = "done" => writer'[c] = "done"
  BY <1>1 DEF WriteRecord
<1>5. \A c \in Changes :
          copy[c].stamp # NoStamp => writer'[copy[c].stamp.event] = "done"
  BY <1>1, <1>4, StampedByEvent DEF RecordInv, StampsWritten
<1>6. copy' = copy /\ writer'[record'.stamp.event] = "done"
  BY <1>1 DEF WriteRecord
<1> QED  BY <1>1, <1>2, <1>3, <1>4, <1>5, <1>6, WriterKeepsInv DEF WriteRecord

-----------------------------------------------------------------------------
(* The steps of a poll. *)

\* A poll leaves the writers alone, so what they have stamped stays stamped, and
\* with the record a poll starts from the stamps it knows.
LEMMA PollKeepsStamps ==
    ASSUME RecordInv, UNCHANGED <<record, writer, copy>>,
           \A p \in Polls : seen'[p] \in {seen[p], record}
    PROVE  StampsWritten'
BY DEF RecordInv, StampsWritten

\* StartPoll: the poll is in no state to have differences.
LEMMA StartKeepsInv ==
    ASSUME RecordInv, NEW p \in Polls, StartPoll(p)
    PROVE  RecordInv'
<1> USE DEF RecordInv
<1>1. TypeOK'
  BY DEF StartPoll, Goto, TypeOK
<1>2. DifferencesLeft'
  <2> SUFFICES ASSUME NEW q \in Polls, poll'[q] = "differ",
                      NEW f \in Supported \ left'[q]
               PROVE  Entry(q, f)' \in Accounted'
    BY DEF DifferencesLeft
  <2>1. q # p /\ poll[q] = "differ" /\ seen'[q] = seen[q]
    BY DEF StartPoll, Goto, TypeOK
  <2> QED  BY <2>1 DEF StartPoll, DifferencesLeft, Entry, Accounted
<1>3. StampsWritten'
  BY PollKeepsStamps DEF StartPoll, TypeOK
<1>4. SnapshotCovered' /\ ConfirmedWasWritten'
  BY DEF StartPoll, SnapshotCovered, ConfirmedWasWritten, Accounted
<1> QED  BY <1>1, <1>2, <1>3, <1>4

\* Compare: a field that is not left over equals the snapshot, which is covered.
LEMMA CompareKeepsInv ==
    ASSUME RecordInv, NEW p \in Polls, Compare(p)
    PROVE  RecordInv'
<1> USE DEF RecordInv
<1>1. TypeOK'
  BY DEF Compare, Goto, TypeOK
<1>2. DifferencesLeft'
  <2> SUFFICES ASSUME NEW q \in Polls, poll'[q] = "differ",
                      NEW f \in Supported \ left'[q]
               PROVE  <<f, seen[q].values[f]>> \in Accounted
    BY DEF DifferencesLeft, Entry, Accounted, Compare
  <2>1. CASE q = p
    <3>1. snapshot # None /\ left'[p] = {g \in Supported : snapshot[g] # seen[p].values[g]}
      BY <2>1 DEF Compare, Goto, TypeOK
    <3> QED  BY <2>1, <3>1 DEF SnapshotCovered
  <2>2. CASE q # p
    <3>1. poll[q] = "differ" /\ left'[q] = left[q]
      BY <2>2 DEF Compare, Goto, TypeOK
    <3> QED  BY <3>1 DEF DifferencesLeft, Entry
  <2> QED  BY <2>1, <2>2
<1>3. StampsWritten'
  BY PollKeepsStamps DEF Compare
<1>4. SnapshotCovered' /\ ConfirmedWasWritten'
  BY DEF Compare, SnapshotCovered, ConfirmedWasWritten, Accounted
<1> QED  BY <1>1, <1>2, <1>3, <1>4

\* SaveBaseline: the baseline covers the snapshot it is saved as.
LEMMA BaselineKeepsInv ==
    ASSUME RecordInv, NEW p \in Polls, SaveBaseline(p)
    PROVE  RecordInv'
<1> USE DEF RecordInv
<1>1. seen[p].values \in Snapshots
  BY DEF TypeOK, Records
<1>2. TypeOK'
  <2>1. {Entry(p, f) : f \in Fields} \subseteq Fields \X Values
    BY <1>1 DEF Entry, Snapshots
  <2> QED  BY <1>1, <2>1 DEF SaveBaseline, Goto, TypeOK
<1>3. DifferencesLeft'
  <2> SUFFICES ASSUME NEW q \in Polls, poll'[q] = "differ",
                      NEW f \in Supported \ left'[q]
               PROVE  Entry(q, f)' \in Accounted'
    BY DEF DifferencesLeft
  <2>1. poll[q] = "differ"
    BY DEF SaveBaseline, Goto, TypeOK
  <2> QED  BY <2>1 DEF SaveBaseline, DifferencesLeft, Entry, Accounted
<1>4. StampsWritten'
  BY PollKeepsStamps DEF SaveBaseline
<1>5. SnapshotCovered'
  BY DEF SaveBaseline, SnapshotCovered, Entry, Accounted
<1>6. ConfirmedWasWritten'
  BY DEF SaveBaseline, ConfirmedWasWritten
<1> QED  BY <1>2, <1>3, <1>4, <1>5, <1>6

\* Deal: the difference is confirmed because an event has written the field, or
\* ingested; it is accounted for from then on.
LEMMA DealKeepsInv ==
    ASSUME RecordInv, NEW p \in Polls, NEW f \in Fields, Deal(p, f)
    PROVE  RecordInv'
<1> USE DEF RecordInv
<1>1. Entry(p, f) \in Fields \X Values
  BY DEF Entry, TypeOK, Records, Snapshots
<1>2. TypeOK'
  BY <1>1 DEF Deal, TypeOK
<1>3. Accounted' = Accounted \cup {Entry(p, f)}
  BY DEF Deal, Accounted
<1>4. DifferencesLeft'
  <2> SUFFICES ASSUME NEW q \in Polls, poll'[q] = "differ",
                      NEW g \in Supported \ left'[q]
               PROVE  Entry(q, g) \in Accounted'
    BY DEF DifferencesLeft, Entry, Deal
  <2>1. CASE q = p /\ g = f
    BY <2>1, <1>3
  <2>2. CASE ~(q = p /\ g = f)
    <3>1. poll[q] = "differ" /\ g \notin left[q]
      BY <2>2 DEF Deal, TypeOK
    <3> QED  BY <3>1, <1>3 DEF DifferencesLeft
  <2> QED  BY <2>1, <2>2
<1>5. StampsWritten'
  BY PollKeepsStamps DEF Deal
<1>6. SnapshotCovered'
  BY <1>3 DEF Deal, SnapshotCovered
<1>7. ConfirmedWasWritten'
  <2>1. CASE IsPropagated(p, f)
    <3>1. seen[p].stamp.event \in Propagated /\ FieldOf[seen[p].stamp.event] = f
      BY <2>1, StampedByEvent DEF IsPropagated, TypeOK
    <3>2. writer[seen[p].stamp.event] = "done"
      BY <2>1 DEF IsPropagated, StampsWritten
    <3>3. Entry(p, f)[1] = f
      BY DEF Entry
    <3>4. confirmed' \subseteq confirmed \cup {Entry(p, f)}
      BY DEF Deal
    <3> QED  BY <3>1, <3>2, <3>3, <3>4 DEF ConfirmedWasWritten, Deal
  <2>2. CASE ~IsPropagated(p, f)
    BY <2>2 DEF Deal, ConfirmedWasWritten
  <2> QED  BY <2>1, <2>2
<1> QED  BY <1>2, <1>4, <1>5, <1>6, <1>7

\* SaveSnapshot: nothing is left over, so all the poll read is accounted for.
LEMMA SaveKeepsInv ==
    ASSUME RecordInv, NEW p \in Polls, SaveSnapshot(p)
    PROVE  RecordInv'
<1> USE DEF RecordInv
<1>1. TypeOK'
  BY DEF SaveSnapshot, Goto, TypeOK, Records
<1>2. DifferencesLeft'
  <2> SUFFICES ASSUME NEW q \in Polls, poll'[q] = "differ",
                      NEW f \in Supported \ left'[q]
               PROVE  Entry(q, f)' \in Accounted'
    BY DEF DifferencesLeft
  <2>1. poll[q] = "differ"
    BY DEF SaveSnapshot, Goto, TypeOK
  <2> QED  BY <2>1 DEF SaveSnapshot, DifferencesLeft, Entry, Accounted
<1>3. StampsWritten'
  BY PollKeepsStamps DEF SaveSnapshot
<1>4. SnapshotCovered'
  BY DEF SaveSnapshot, SnapshotCovered, DifferencesLeft, Entry, Accounted
<1>5. ConfirmedWasWritten'
  BY DEF SaveSnapshot, ConfirmedWasWritten
<1> QED  BY <1>1, <1>2, <1>3, <1>4, <1>5

\* FailPoll: what the poll has ingested stays accounted for; its snapshot is not
\* saved.
LEMMA FailKeepsInv ==
    ASSUME RecordInv, NEW p \in Polls, FailPoll(p)
    PROVE  RecordInv'
<1> USE DEF RecordInv
<1>1. TypeOK'
  BY DEF FailPoll, Goto, TypeOK
<1>2. DifferencesLeft'
  <2> SUFFICES ASSUME NEW q \in Polls, poll'[q] = "differ",
                      NEW f \in Supported \ left'[q]
               PROVE  Entry(q, f)' \in Accounted'
    BY DEF DifferencesLeft
  <2>1. poll[q] = "differ" /\ q # p /\ left'[q] = left[q]
    BY DEF FailPoll, Goto, TypeOK
  <2> QED  BY <2>1 DEF FailPoll, DifferencesLeft, Entry, Accounted
<1>3. StampsWritten'
  BY PollKeepsStamps DEF FailPoll
<1>4. SnapshotCovered' /\ ConfirmedWasWritten'
  BY DEF FailPoll, SnapshotCovered, ConfirmedWasWritten, Accounted
<1> QED  BY <1>1, <1>2, <1>3, <1>4

-----------------------------------------------------------------------------
\* Every step keeps the invariant.
LEMMA NextKeepsInv ==
    ASSUME RecordInv, [Next]_vars
    PROVE  RecordInv'
<1>1. CASE Tick
  <2>1. TypeOK'
    BY <1>1 DEF Tick, RecordInv, TypeOK, pollVars
  <2>2. DifferencesLeft' /\ StampsWritten' /\ SnapshotCovered' /\ ConfirmedWasWritten'
    BY <1>1 DEF Tick, RecordInv, DifferencesLeft, Entry, StampsWritten,
                SnapshotCovered, ConfirmedWasWritten, Accounted, pollVars
  <2> QED  BY <2>1, <2>2 DEF RecordInv
<1>2. CASE \E c \in Changes : ReadRecord(c)
  BY <1>2, ReadKeepsInv
<1>3. CASE \E d \in Direct : ChangeDirectly(d)
  BY <1>3, ChangeKeepsInv
<1>4. CASE \E e \in Propagated : WriteRecord(e)
  BY <1>4, WriteKeepsInv
<1>5. CASE \E p \in Polls : Proceed(p) \/ FailPoll(p)
  <2> PICK p \in Polls : Proceed(p) \/ FailPoll(p)
    BY <1>5
  <2> QED  BY StartKeepsInv, CompareKeepsInv, BaselineKeepsInv, DealKeepsInv,
              SaveKeepsInv, FailKeepsInv DEF Proceed
<1>6. CASE UNCHANGED vars
  <2>1. TypeOK'
    BY <1>6 DEF vars, RecordInv, TypeOK, pollVars
  <2>2. DifferencesLeft' /\ StampsWritten' /\ SnapshotCovered' /\ ConfirmedWasWritten'
    BY <1>6 DEF vars, RecordInv, DifferencesLeft, Entry, StampsWritten,
                SnapshotCovered, ConfirmedWasWritten, Accounted, pollVars
  <2> QED  BY <2>1, <2>2 DEF RecordInv
<1> QED  BY <1>1, <1>2, <1>3, <1>4, <1>5, <1>6 DEF Next

\* The invariant of pollNormalizedRecord among its writers holds for any number
\* of changes and of polls that overlap and fail.
THEOREM RecordInvariant == Spec => []RecordInv
<1>1. RecordInv /\ [Next]_vars => RecordInv'
  BY NextKeepsInv
<1> QED  BY <1>1, InitRecordInv, PTL DEF Spec

\* A snapshot has nothing of a supported field that was not saved as a baseline,
\* ingested or confirmed: pollNormalizedRecord loses no change.
THEOREM SnapshotAlwaysCovered == Spec => []SnapshotCovered
<1>1. RecordInv => SnapshotCovered
  BY DEF RecordInv
<1> QED  BY <1>1, RecordInvariant, PTL

\* confirmPropagatedChangeIfApplicable confirms no field the adapter has never
\* written.
THEOREM ConfirmedAlwaysWritten == Spec => []ConfirmedWasWritten
<1>1. RecordInv => ConfirmedWasWritten
  BY DEF RecordInv
<1> QED  BY <1>1, RecordInvariant, PTL
=============================================================================
