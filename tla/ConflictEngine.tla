---------------------------- MODULE ConflictEngine ----------------------------
(***************************************************************************)
(* Conflict detection among concurrent changes of one business: what       *)
(* ingestRequest does from detectAndResolve (conflict.service.ts) to its   *)
(* last update of the event, and the holding pen in Redis that the calls   *)
(* share (holding-pen.service.ts), one sorted set per field.               *)
(*                                                                         *)
(* A call looks into the pen, then decides, then enters the pen: nothing   *)
(* makes the three one step, and the calls of a server interleave at every *)
(* await.  Any await may throw, which ends the call where it stands, but   *)
(* the Redis operations of the pen swallow their errors.                   *)
(*                                                                         *)
(* Times are the receivedAt stamps that the calls compare; the clock is    *)
(* bounded by MaxTime.  The expiry of a whole key, 30 s after the window   *)
(* of its last entry, is left out.                                         *)
(***************************************************************************)
EXTENDS AuthorityMatrix, FiniteSets

CONSTANTS
    Events,      \* the changes, all of one business
    SourceOf,    \* [Events -> Systems]
    FieldsOf,    \* getCanonicalFieldPathsForEvent
    Window,      \* CONFLICT_WINDOW_SECONDS
    MaxTime,     \* bound of the clock
    RedisFails   \* whether an operation on the pen may fail

ASSUME EngineAssumption ==
    /\ Events # {}
    /\ SourceOf \in [Events -> Systems]
    /\ FieldsOf \in [Events -> SUBSET Fields]
    /\ Window \in Nat
    /\ MaxTime \in Nat
    /\ RedisFails \in BOOLEAN

VARIABLES
    clock,
    received,   \* receivedAt of an event
    step,       \* where the call that ingests the event is
    left,       \* fields it has still to look up, or to enter
    seen,       \* <<field, event>> pairs it has read from the pen
    plan,       \* what it decided
    todo,       \* the competing events it has still to deal with
    pen,        \* the events in the holding pen of a field
    status,     \* the event's status column
    conflicts   \* the conflict records

vars == <<clock, received, step, left, seen, plan, todo, pen, status, conflicts>>

Steps == {"new", "look", "record", "supersede", "enter", "go", "queued",
          "stopped", "aborted"}
Plans == {"undecided", "alone", "manual", "lose", "win"}
Statuses == {"IDEMPOTENCY_ACCEPTED", "CONFLICT_CHECKED", "CONFLICT_RESOLVED",
             "MANUAL_REVIEW_REQUIRED", "SUPERSEDED", "QUEUED"}
Resolutions == {"MANUAL_REVIEW_REQUIRED", "SUPERSEDED", "AUTO_RESOLVED"}
Conflicts == [current : Events, competing : Events, fields : SUBSET Fields,
              resolution : Resolutions]

TypeOK ==
    /\ clock \in 0 .. MaxTime
    /\ received \in [Events -> 0 .. MaxTime]
    /\ step \in [Events -> Steps]
    /\ left \in [Events -> SUBSET Fields]
    /\ seen \in [Events -> SUBSET (Fields \X Events)]
    /\ plan \in [Events -> Plans]
    /\ todo \in [Events -> SUBSET Events]
    /\ pen \in [Fields -> SUBSET Events]
    /\ status \in [Events -> Statuses]
    /\ conflicts \subseteq Conflicts

Init ==
    /\ clock = 0
    /\ received = [e \in Events |-> 0]
    /\ step = [e \in Events |-> "new"]
    /\ left = [e \in Events |-> {}]
    /\ seen = [e \in Events |-> {}]
    /\ plan = [e \in Events |-> "undecided"]
    /\ todo = [e \in Events |-> {}]
    /\ pen = [f \in Fields |-> {}]
    /\ status = [e \in Events |-> "IDEMPOTENCY_ACCEPTED"]
    /\ conflicts = {}

Goto(e, place) == step' = [step EXCEPT ![e] = place]
SetStatus(e, s) == status' = [status EXCEPT ![e] = s]

Tick ==
    /\ clock < MaxTime
    /\ clock' = clock + 1
    /\ UNCHANGED <<received, step, left, seen, plan, todo, pen, status, conflicts>>

\* Mutant of Receive: an event enters the pen before it looks.
ReceiveIntoPen(e) ==
    /\ step[e] = "new"
    /\ received' = [received EXCEPT ![e] = clock]
    /\ left' = [left EXCEPT ![e] = FieldsOf[e]]
    /\ pen' = [f \in Fields |-> IF f \in FieldsOf[e] THEN pen[f] \cup {e} ELSE pen[f]]
    /\ Goto(e, "look")
    /\ UNCHANGED <<clock, seen, plan, todo, status, conflicts>>

\* createCanonicalEvent stamps the event; the idempotency check accepts it.
Receive(e) ==
    /\ step[e] = "new"
    /\ received' = [received EXCEPT ![e] = clock]
    /\ left' = [left EXCEPT ![e] = FieldsOf[e]]
    /\ Goto(e, "look")
    /\ UNCHANGED <<clock, seen, plan, todo, pen, status, conflicts>>

-----------------------------------------------------------------------------
(* checkForConflicts: the fields are looked up concurrently. *)

InWindow(x, e) == received[x] + Window >= received[e]

\* zremrangebyscore drops what is older than the window of e, for everyone;
\* zrangebyscore reads the rest.
Look(e, f) ==
    /\ step[e] = "look"
    /\ f \in left[e]
    /\ left' = [left EXCEPT ![e] = @ \ {f}]
    /\ LET found == {x \in pen[f] : InWindow(x, e)}
       IN  /\ pen' = [pen EXCEPT ![f] = found]
           /\ seen' = [seen EXCEPT ![e] = @ \cup ({f} \X (found \ {e}))]
    /\ UNCHANGED <<clock, received, step, plan, todo, status, conflicts>>

\* runRedisOperation answers an error with an empty list.
LookFails(e, f) ==
    /\ RedisFails
    /\ step[e] = "look"
    /\ f \in left[e]
    /\ left' = [left EXCEPT ![e] = @ \ {f}]
    /\ UNCHANGED <<clock, received, step, seen, plan, todo, pen, status, conflicts>>

\* getConflictCandidateGroups loads the rows of the events it found.
Contested(e, x) == {f \in Fields : <<f, x>> \in seen[e]}

Candidates(e) ==
    {x \in Events : /\ Contested(e, x) # {}
                    /\ SourceOf[x] # SourceOf[e]
                    /\ status[x] # "SUPERSEDED"}

OutcomeAgainst(e, x) ==
    CandidateOutcome(SourceOf[e], SourceOf[x], received[e] >= received[x],
                     Contested(e, x))

\* Mutant of PlanFor: one loss decides, without a review.
PlanByFirstLoss(e) ==
    LET outcomes == {OutcomeAgainst(e, x) : x \in Candidates(e)}
    IN  IF outcomes = {} THEN "alone"
        ELSE IF "CURRENT_LOSES" \in outcomes THEN "lose"
        ELSE IF "MANUAL_REVIEW_REQUIRED" \in outcomes THEN "manual" ELSE "win"

\* The outcomes of all candidates make one plan; without a candidate the event
\* goes into the pen at once.
PlanFor(e) ==
    LET outcomes == {OutcomeAgainst(e, x) : x \in Candidates(e)}
    IN  CASE outcomes = {}                -> "alone"
          [] outcomes = {"CURRENT_WINS"}  -> "win"
          [] outcomes = {"CURRENT_LOSES"} -> "lose"
          [] OTHER                        -> "manual"

Decide(e) ==
    /\ step[e] = "look"
    /\ left[e] = {}
    /\ plan' = [plan EXCEPT ![e] = PlanFor(e)]
    /\ todo' = [todo EXCEPT ![e] = Candidates(e)]
    /\ IF PlanFor(e) = "alone"
       THEN /\ Goto(e, "enter")
            /\ left' = [left EXCEPT ![e] = FieldsOf[e]]
       ELSE /\ Goto(e, "record")
            /\ UNCHANGED left
    /\ UNCHANGED <<clock, received, seen, pen, status, conflicts>>

-----------------------------------------------------------------------------
(* The loop over the candidates, in the order the database returned them. *)

Record(e, x) ==
    [current |-> e, competing |-> x, fields |-> Contested(e, x),
     resolution |-> CASE plan[e] = "manual" -> "MANUAL_REVIEW_REQUIRED"
                      [] plan[e] = "lose"   -> "SUPERSEDED"
                      [] OTHER              -> "AUTO_RESOLVED"]

\* createManualReviewArtifacts or createAutoResolvedArtifacts.
RecordConflict(e, x) ==
    /\ step[e] = "record"
    /\ x \in todo[e]
    /\ conflicts' = conflicts \cup {Record(e, x)}
    /\ IF plan[e] = "win"
       THEN /\ Goto(e, "supersede")
            /\ UNCHANGED todo
       ELSE /\ todo' = [todo EXCEPT ![e] = @ \ {x}]
            /\ UNCHANGED step
    /\ UNCHANGED <<clock, received, left, seen, plan, pen, status>>

\* The competing event loses, whatever has become of it since it was loaded.
SupersedeRival(e, x) ==
    /\ step[e] = "supersede"
    /\ x \in todo[e]
    /\ Record(e, x) \in conflicts
    /\ SetStatus(x, "SUPERSEDED")
    /\ todo' = [todo EXCEPT ![e] = @ \ {x}]
    /\ Goto(e, "record")
    /\ UNCHANGED <<clock, received, left, seen, plan, pen, conflicts>>

\* Mutant of SettleOwn: the conflict's resolution for the event's status.
SettleWithResolution(e) ==
    /\ step[e] = "record"
    /\ todo[e] = {}
    /\ SetStatus(e, "AUTO_RESOLVED")
    /\ Goto(e, "stopped")
    /\ UNCHANGED <<clock, received, left, seen, plan, todo, pen, conflicts>>

\* Then the event's own status; a loser does not enter the pen.
SettleOwn(e) ==
    /\ step[e] = "record"
    /\ todo[e] = {}
    /\ SetStatus(e, CASE plan[e] = "manual" -> "MANUAL_REVIEW_REQUIRED"
                      [] plan[e] = "lose"   -> "SUPERSEDED"
                      [] OTHER              -> "CONFLICT_RESOLVED")
    /\ IF plan[e] = "lose"
       THEN /\ Goto(e, "stopped")
            /\ UNCHANGED left
       ELSE /\ Goto(e, "enter")
            /\ left' = [left EXCEPT ![e] = FieldsOf[e]]
    /\ UNCHANGED <<clock, received, seen, plan, todo, pen, conflicts>>

-----------------------------------------------------------------------------
(* addToHoldingPen, and what ingestRequest does after detectAndResolve. *)

Enter(e, f) ==
    /\ step[e] = "enter"
    /\ f \in left[e]
    /\ left' = [left EXCEPT ![e] = @ \ {f}]
    /\ pen' = [pen EXCEPT ![f] = @ \cup {e}]
    /\ UNCHANGED <<clock, received, step, seen, plan, todo, status, conflicts>>

EnterFails(e, f) ==
    /\ RedisFails
    /\ step[e] = "enter"
    /\ f \in left[e]
    /\ left' = [left EXCEPT ![e] = @ \ {f}]
    /\ UNCHANGED <<clock, received, step, seen, plan, todo, pen, status, conflicts>>

\* An event under review stops here; one without candidates is marked first.
Leave(e) ==
    /\ step[e] = "enter"
    /\ left[e] = {}
    /\ \/ /\ plan[e] = "manual"
          /\ Goto(e, "stopped")
          /\ UNCHANGED status
       \/ /\ plan[e] = "win"
          /\ Goto(e, "go")
          /\ UNCHANGED status
       \/ /\ plan[e] = "alone"
          /\ Goto(e, "go")
          /\ SetStatus(e, "CONFLICT_CHECKED")
    /\ UNCHANGED <<clock, received, left, seen, plan, todo, pen, conflicts>>

\* Routed, its write jobs enqueued, and the status overwritten.  An event with
\* no target gets the status of its routing instead of QUEUED: no property
\* tells them apart.
Queue(e) ==
    /\ step[e] = "go"
    /\ SetStatus(e, "QUEUED")
    /\ Goto(e, "queued")
    /\ UNCHANGED <<clock, received, left, seen, plan, todo, pen, conflicts>>

Active(e) == step[e] \notin {"new", "queued", "stopped", "aborted"}

Abort(e) ==
    /\ Active(e)
    /\ Goto(e, "aborted")
    /\ UNCHANGED <<clock, received, left, seen, plan, todo, pen, status, conflicts>>

Next ==
    \/ Tick
    \/ \E e \in Events :
        \/ Receive(e) \/ Decide(e) \/ SettleOwn(e) \/ Leave(e) \/ Queue(e) \/ Abort(e)
        \/ \E f \in Fields : Look(e, f) \/ LookFails(e, f) \/ Enter(e, f) \/ EnterFails(e, f)
        \/ \E x \in Events : RecordConflict(e, x) \/ SupersedeRival(e, x)

Spec == Init /\ [][Next]_vars

-----------------------------------------------------------------------------
(* What conflict resolution promises. *)

\* w is the reason the record c gives for the loss of l.
BeatsIn(c, w, l) ==
    \/ c.resolution = "AUTO_RESOLVED" /\ c.current = w /\ c.competing = l
    \/ c.resolution = "SUPERSEDED" /\ c.current = l /\ c.competing = w

Beats(w, l) == \E c \in conflicts : BeatsIn(c, w, l)
Beaten(e)   == \E w \in Events : Beats(w, e)

\* Two calls that race never both judge the same conflict: of two competing
\* events at most one has a record against the other, so the verdicts cannot
\* contradict each other (look first, enter the pen last).
OneVerdictPerPair ==
    \A c, d \in conflicts :
        ~(c.current = d.competing /\ c.competing = d.current)

\* Events never beat each other in a circle, whatever fields they share and
\* however their calls interleave: a loser stays out of the pen, and a winner
\* has looked later than those it beats.
NoCircle ==
    \A S \in (SUBSET Events) \ {{}} :
        \E e \in S : \A w \in S : ~Beats(w, e)

\* Conflict resolution drops no change altogether: when the calls are over and
\* none failed, some event that nobody beat is queued or waits for its review.
ChangeSurvives ==
    (\A e \in Events : step[e] \in {"queued", "stopped"}) =>
        \E e \in Events : /\ ~Beaten(e)
                          /\ step[e] = "queued" \/ plan[e] = "manual"

\* The matrix backs every verdict on every field it was made on: the winner's
\* system has authority over the field, or stands in where neither has.
VerdictsBacked ==
    \A c \in conflicts : \A w, l \in Events : \A f \in c.fields :
        BeatsIn(c, w, l) =>
            /\ f \notin Manual
            /\ \/ SourceOf[w] = Authoritative[f]
               \/ /\ SourceOf[l] # Authoritative[f]
                  /\ SourceOf[w] = Fallback[f]
=============================================================================
