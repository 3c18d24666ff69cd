------------------------------ MODULE ReviewDesk ------------------------------
(***************************************************************************)
(* The review of an event that the conflict engine could not judge: the    *)
(* conflict rows and review items that createManualReviewArtifacts leaves, *)
(* and reviewConflict (conflict.service.ts), which the reviewers call.     *)
(*                                                                         *)
(* A review is four statements without a transaction: the conflict row,    *)
(* its review items, the event, the audit log.  Calls of several reviewers *)
(* interleave with each other and with the engine, which is still          *)
(* recording when the first row can be reviewed; each may die anywhere.    *)
(* One event is modelled, with all its conflicts.  The event's metadata,   *)
(* the notes and the times of a review are left out.                       *)
(***************************************************************************)
EXTENDS Naturals

CONSTANTS
    Conflicts,  \* the conflicts of the event, one per rival
    Calls,      \* the calls of reviewConflict
    Requests,   \* the bodies that reviewers send
    None

Reviews  == {"OPEN", "APPROVED", "REJECTED"}
Outcomes == {"PENDING_REVIEW", "SOURCE_ACCEPTED", "TARGET_ACCEPTED", "MERGED", "REJECTED"}
Bodies   == [action : {"APPROVED", "REJECTED", None}, outcome : Outcomes \cup {None},
             reviewer : BOOLEAN]

ASSUME DeskAssumption ==
    /\ Requests \subseteq Bodies
    /\ None \notin Conflicts \cup Outcomes \cup {"APPROVED", "REJECTED"}

Rows  == [resolution : {"MANUAL_REVIEW_REQUIRED", "REJECTED_AFTER_REVIEW"}, review : Reviews]
NoRow == [resolution |-> "none", review |-> "none"]

VARIABLES
    engine,   \* "recording", then "done" or "failed"
    todo,     \* conflicts the engine has still to record
    pending,  \* the conflict whose row exists and whose item does not
    row,      \* the conflict table
    item,     \* the status of a conflict's review item
    status,   \* the event's status column
    rival,    \* whether a later event has superseded this one
    place,    \* where a call is
    conf,     \* the conflict it reviews
    copy,     \* the row it has read
    choice,   \* what it decides
    early,    \* whether it read before the engine had settled the event
    audit     \* the decisions in the audit log

deskVars == <<place, conf, copy, choice, early>>
vars == <<engine, todo, pending, row, item, status, rival, deskVars, audit>>

Places == {"idle", "refused", "row", "items", "event", "audit", "done", "failed"}

TypeOK ==
    /\ engine \in {"recording", "done", "failed"}
    /\ todo \subseteq Conflicts
    /\ pending \in Conflicts \cup {None}
    /\ row \in [Conflicts -> Rows \cup {NoRow}]
    /\ item \in [Conflicts -> Reviews \cup {"none"}]
    /\ status \in {"IDEMPOTENCY_ACCEPTED", "MANUAL_REVIEW_REQUIRED", "CONFLICT_RESOLVED",
                   "SUPERSEDED"}
    /\ rival \in BOOLEAN
    /\ place \in [Calls -> Places]
    /\ conf \in [Calls -> Conflicts \cup {None}]
    /\ copy \in [Calls -> Rows \cup {NoRow}]
    /\ choice \in [Calls -> {"APPROVED", "REJECTED", None}]
    /\ early \in [Calls -> BOOLEAN]
    /\ audit \subseteq Conflicts \X {"APPROVED", "REJECTED"}

Init ==
    /\ engine = "recording" /\ todo = Conflicts /\ pending = None
    /\ row = [c \in Conflicts |-> NoRow]
    /\ item = [c \in Conflicts |-> "none"]
    /\ status = "IDEMPOTENCY_ACCEPTED"
    /\ rival = FALSE
    /\ place = [r \in Calls |-> "idle"]
    /\ conf = [r \in Calls |-> None]
    /\ copy = [r \in Calls |-> NoRow]
    /\ choice = [r \in Calls |-> None]
    /\ early = [r \in Calls |-> FALSE]
    /\ audit = {}

-----------------------------------------------------------------------------
(* The engine records its conflicts one after another, each as a row and   *)
(* then an item, and last sets the status, whatever it has become.         *)

RecordRow(c) ==
    /\ engine = "recording" /\ pending = None
    /\ c \in todo
    /\ row' = [row EXCEPT ![c] = [resolution |-> "MANUAL_REVIEW_REQUIRED", review |-> "OPEN"]]
    /\ pending' = c
    /\ UNCHANGED <<engine, todo, item, status, rival, deskVars, audit>>

RecordItem ==
    /\ engine = "recording" /\ pending # None
    /\ item' = [item EXCEPT ![pending] = "OPEN"]
    /\ todo' = todo \ {pending}
    /\ pending' = None
    /\ UNCHANGED <<engine, row, status, rival, deskVars, audit>>

Settle ==
    /\ engine = "recording" /\ todo = {} /\ pending = None
    /\ status' = "MANUAL_REVIEW_REQUIRED"
    /\ engine' = "done"
    /\ UNCHANGED <<todo, pending, row, item, rival, deskVars, audit>>

EngineFails ==
    /\ engine = "recording"
    /\ engine' = "failed"
    /\ UNCHANGED <<todo, pending, row, item, status, rival, deskVars, audit>>

\* The event is in the holding pen now: a later one that beats it supersedes
\* it, reviewed or not.
RivalWins ==
    /\ engine = "done" /\ ~rival
    /\ status' = "SUPERSEDED"
    /\ rival' = TRUE
    /\ UNCHANGED <<engine, todo, pending, row, item, deskVars, audit>>

-----------------------------------------------------------------------------
(* reviewConflict. *)

\* conflictReviewSchema: an action or an outcome, and a reviewer.
Valid(q) == (q.action # None \/ q.outcome # None) /\ q.reviewer

\* normalizeReviewAction: the action counts before the older outcome.
Decision(q) ==
    IF q.action # None THEN q.action
    ELSE IF q.outcome = "REJECTED" THEN "REJECTED"
    ELSE IF q.outcome \in {"MERGED", "SOURCE_ACCEPTED", "TARGET_ACCEPTED"} THEN "APPROVED"
    ELSE None

Awaiting(w) == w.resolution = "MANUAL_REVIEW_REQUIRED" /\ w.review = "OPEN"

\* Mutant of Admits: any row may be reviewed.
AdmitsDecided(w, q) == Valid(q) /\ w # NoRow /\ Decision(q) # None

\* Answers 400, 404, 409 and 400 otherwise.
Admits(w, q) == Valid(q) /\ Awaiting(w) /\ Decision(q) # None

Open(r, c, q) ==
    /\ place[r] = "idle"
    /\ IF Admits(row[c], q)
       THEN /\ place' = [place EXCEPT ![r] = "row"]
            /\ conf' = [conf EXCEPT ![r] = c]
            /\ copy' = [copy EXCEPT ![r] = row[c]]
            /\ choice' = [choice EXCEPT ![r] = Decision(q)]
            /\ early' = [early EXCEPT ![r] = engine # "done"]
       ELSE /\ place' = [place EXCEPT ![r] = "refused"]
            /\ UNCHANGED <<conf, copy, choice, early>>
    /\ UNCHANGED <<engine, todo, pending, row, item, status, rival, audit>>

Move(r, from, to) ==
    /\ place[r] = from
    /\ place' = [place EXCEPT ![r] = to]
    /\ UNCHANGED <<engine, todo, pending, rival, conf, copy, choice, early>>

\* Mutant of Reviewed: an approval leaves the resolution as it is by now.
ReviewedInPlace(r) ==
    [resolution |-> IF choice[r] = "REJECTED" THEN "REJECTED_AFTER_REVIEW"
                    ELSE row[conf[r]].resolution,
     review     |-> choice[r]]

\* The row after the update: an approval leaves the resolution as it was read.
Reviewed(r) ==
    [resolution |-> IF choice[r] = "REJECTED" THEN "REJECTED_AFTER_REVIEW"
                    ELSE copy[r].resolution,
     review     |-> choice[r]]

WriteRow(r) ==
    /\ Move(r, "row", "items")
    /\ row' = [row EXCEPT ![conf[r]] = Reviewed(r)]
    /\ UNCHANGED <<item, status, audit>>

\* Mutant of WriteItems: the update has no conflict in its condition.
WriteAllItems(r) ==
    /\ Move(r, "items", "event")
    /\ item' = [c \in Conflicts |-> IF item[c] = "none" THEN "none" ELSE choice[r]]
    /\ UNCHANGED <<row, status, audit>>

\* updateMany: an item that is not there yet is not updated.
WriteItems(r) ==
    /\ Move(r, "items", "event")
    /\ item' = IF item[conf[r]] = "none" THEN item
               ELSE [item EXCEPT ![conf[r]] = choice[r]]
    /\ UNCHANGED <<row, status, audit>>

\* Mutant of Verdict: an approval leaves the event under review.
VerdictOfRejection(r) ==
    IF choice[r] = "REJECTED" THEN "SUPERSEDED" ELSE "MANUAL_REVIEW_REQUIRED"

\* Mutant of Verdict: the action itself for the status.
VerdictAsAction(r) == choice[r]

Verdict(r) == IF choice[r] = "REJECTED" THEN "SUPERSEDED" ELSE "CONFLICT_RESOLVED"

SettleEvent(r) ==
    /\ Move(r, "event", "audit")
    /\ status' = Verdict(r)
    /\ UNCHANGED <<row, item, audit>>

\* Mutant of Tell: the log is told of rejections only.
TellRejection(r) ==
    /\ Move(r, "audit", "done")
    /\ audit' = IF choice[r] = "REJECTED" THEN audit \cup {<<conf[r], choice[r]>>} ELSE audit
    /\ UNCHANGED <<row, item, status>>

Tell(r) ==
    /\ Move(r, "audit", "done")
    /\ audit' = audit \cup {<<conf[r], choice[r]>>}
    /\ UNCHANGED <<row, item, status>>

Fail(r) ==
    /\ \E p \in {"row", "items", "event", "audit"} : Move(r, p, "failed")
    /\ UNCHANGED <<row, item, status, audit>>

Next ==
    \/ \E c \in Conflicts : RecordRow(c)
    \/ RecordItem \/ Settle \/ EngineFails \/ RivalWins
    \/ \E r \in Calls :
        \/ \E c \in Conflicts, q \in Requests : Open(r, c, q)
        \/ WriteRow(r) \/ WriteItems(r) \/ SettleEvent(r) \/ Tell(r) \/ Fail(r)

Spec == Init /\ [][Next]_vars

-----------------------------------------------------------------------------
(* What a review promises. *)

Decided(c) == row[c].review \in {"APPROVED", "REJECTED"}
Admitted(r) == place[r] \notin {"idle", "refused"}
Deciders(c) == {r \in Calls : Admitted(r) /\ conf[r] = c}

\* However two reviewers race, the two columns of a conflict tell one story:
\* it was rejected exactly if its resolution says so.
RowsAgree ==
    \A c \in Conflicts :
        row[c].review = "REJECTED" <=> row[c].resolution = "REJECTED_AFTER_REVIEW"

\* A call that had read conflict c while it was open and has yet to write it.
Underway(r, c) == place[r] = "row" /\ conf[r] = c /\ copy[r].review = "OPEN"

\* A decision stands: a decided row changes only by a call that had read it
\* while it was open.
DecidedStays ==
    [][\A c \in Conflicts :
        Decided(c) /\ (\A r \in Calls : ~Underway(r, c)) => row'[c] = row[c]]_vars

\* A reviewer who gets an answer, and who asked when the event was settled, can
\* rely on it: the conflict is decided, no item of it is open, the event is no
\* longer under review, and the log has the decision.
ReplyMeansDone ==
    \A r \in Calls : place[r] = "done" /\ ~early[r] =>
        /\ Decided(conf[r])
        /\ item[conf[r]] \in {"APPROVED", "REJECTED"}
        /\ status # "MANUAL_REVIEW_REQUIRED"
        /\ <<conf[r], choice[r]>> \in audit

\* The sole reviewer of a conflict gets what was chosen, in row and item.
SoleReviewerDecides ==
    \A r \in Calls : place[r] = "done" /\ ~early[r] /\ Deciders(conf[r]) = {r} =>
        row[conf[r]].review = choice[r] /\ item[conf[r]] = choice[r]

\* When every reviewer who was let in decided alike, asked when the event was
\* settled, and got an answer, the event has the status of that decision,
\* whatever the order of their calls; but for a rival that beat it.
Unanimous ==
    \A d \in {"APPROVED", "REJECTED"} :
        LET panel == {r \in Calls : Admitted(r)}
        IN  /\ engine = "done" /\ ~rival /\ panel # {}
            /\ \A r \in panel : place[r] = "done" /\ ~early[r] /\ choice[r] = d
            => status = IF d = "REJECTED" THEN "SUPERSEDED" ELSE "CONFLICT_RESOLVED"
=============================================================================
