--------------------------- MODULE ReviewDeskProofs ---------------------------
(***************************************************************************)
(* Proofs about the review desk, for any set of conflicts, calls and       *)
(* bodies.  The invariant follows a call through its four statements: what *)
(* it has written so far stays written, for the engine records a conflict  *)
(* once and every other call writes decisions only.                        *)
(***************************************************************************)
EXTENDS ReviewDesk, TLAPS

Choices == {"APPROVED", "REJECTED"}
V(d) == IF d = "REJECTED" THEN "SUPERSEDED" ELSE "CONFLICT_RESOLVED"

\* What the engine has still to record has no row but for the pending one, and
\* what it has recorded has an item.
EngineOrder ==
    /\ engine = "done" => todo = {} /\ pending = None
    /\ pending # None => pending \in todo
    /\ \A c \in Conflicts :
        /\ c \in todo /\ c # pending => row[c] = NoRow
        /\ c \notin todo => item[c] # "none"

\* A call that was let in has read an open row.
AdmittedOpen ==
    \A r \in Calls : Admitted(r) =>
        /\ conf[r] \in Conflicts /\ choice[r] \in Choices
        /\ copy[r].resolution = "MANUAL_REVIEW_REQUIRED" /\ copy[r].review = "OPEN"
        /\ row[conf[r]] # NoRow
        /\ ~early[r] => engine = "done"

\* What a call has done by now.
Progress ==
    \A r \in Calls :
        /\ place[r] \in {"items", "event", "audit", "done"} => Decided(conf[r])
        /\ place[r] \in {"event", "audit", "done"} /\ ~early[r] => item[conf[r]] \in Choices
        /\ place[r] \in {"audit", "done"} /\ ~early[r] => status # "MANUAL_REVIEW_REQUIRED"
        /\ place[r] = "done" => <<conf[r], choice[r]>> \in audit

Alone(r) == \A x \in Calls : x # r /\ Admitted(x) => conf[x] # conf[r]

SoleSoFar ==
    \A r \in Calls : Admitted(r) /\ Alone(r) =>
        /\ place[r] \in {"items", "event", "audit", "done"} => row[conf[r]].review = choice[r]
        /\ place[r] \in {"event", "audit", "done"} /\ ~early[r] => item[conf[r]] = choice[r]

Agreed(d) == \A r \in Calls : Admitted(r) => ~early[r] /\ choice[r] = d

StatusAgreed ==
    \A d \in Choices :
        /\ engine = "done" /\ ~rival /\ Agreed(d)
        /\ \E r \in Calls : place[r] \in {"audit", "done"}
        => status = V(d)

DeskInv ==
    /\ TypeOK /\ RowsAgree /\ EngineOrder /\ AdmittedOpen /\ Progress
    /\ SoleSoFar /\ StatusAgreed

LEMMA DeskInit == Init => DeskInv
<1> SUFFICES ASSUME Init PROVE DeskInv
    OBVIOUS
<1> USE DeskAssumption DEF Init
<1>1. TypeOK
    BY DEF TypeOK, Places, Reviews
<1>2. RowsAgree
    BY DEF RowsAgree, NoRow
<1>3. EngineOrder
    BY DEF EngineOrder
<1>4. AdmittedOpen /\ Progress /\ SoleSoFar /\ StatusAgreed
    BY DEF AdmittedOpen, Progress, SoleSoFar, StatusAgreed, Admitted
<1> QED BY <1>1, <1>2, <1>3, <1>4 DEF DeskInv

\* The engine records a row, or an item.
LEMMA RecordStep ==
    ASSUME DeskInv, RecordItem \/ \E c \in Conflicts : RecordRow(c)
    PROVE  DeskInv'
<1> USE DeskAssumption DEF DeskInv
<1>0. engine = "recording" /\ UNCHANGED <<engine, status, rival, place, conf, copy, choice, early, audit>>
    BY DEF RecordItem, RecordRow, deskVars
<1>1. CASE RecordItem
    <2>1. /\ pending \in todo /\ pending \in Conflicts
          /\ item' = [item EXCEPT ![pending] = "OPEN"]
          /\ todo' = todo \ {pending} /\ pending' = None /\ UNCHANGED row
        BY <1>1 DEF RecordItem, EngineOrder, TypeOK
    <2>2. TypeOK' /\ RowsAgree'
        BY <1>0, <2>1 DEF TypeOK, RowsAgree, Reviews
    <2>3. EngineOrder'
        BY <1>0, <2>1 DEF EngineOrder, TypeOK
    <2>4. AdmittedOpen'
        BY <1>0, <2>1 DEF AdmittedOpen, Admitted
    <2>5. Progress' /\ SoleSoFar'
        <3>1. \A r \in Calls : Admitted(r) => early[r]
            BY <1>0 DEF AdmittedOpen, TypeOK
        <3> QED BY <1>0, <2>1, <3>1 DEF Progress, SoleSoFar, Admitted, Alone, Decided
    <2>6. StatusAgreed'
        BY <1>0 DEF StatusAgreed
    <2> QED BY <2>2, <2>3, <2>4, <2>5, <2>6
<1>2. ASSUME NEW c \in Conflicts, RecordRow(c) PROVE DeskInv'
    <2> DEFINE w == [resolution |-> "MANUAL_REVIEW_REQUIRED", review |-> "OPEN"]
    <2>1. /\ c \in todo /\ pending = None /\ pending' = c
          /\ row' = [row EXCEPT ![c] = w]
          /\ UNCHANGED <<todo, item>>
        BY <1>2 DEF RecordRow
    <2>2. row[c] = NoRow
        BY <2>1 DEF EngineOrder
    <2>3. w \in Rows /\ w # NoRow
        BY DEF Rows, Reviews, NoRow
    <2>4. TypeOK'
        BY <1>0, <2>1, <2>3 DEF TypeOK
    <2>5. RowsAgree'
        BY <2>1 DEF RowsAgree, TypeOK
    <2>6. EngineOrder'
        BY <1>0, <2>1 DEF EngineOrder, TypeOK
    <2>7. \A r \in Calls : Admitted(r) => conf[r] # c
        BY <2>2 DEF AdmittedOpen
    <2>8. AdmittedOpen'
        BY <1>0, <2>1, <2>7 DEF AdmittedOpen, Admitted, TypeOK
    <2>9. Progress' /\ SoleSoFar'
        BY <1>0, <2>1, <2>7 DEF Progress, SoleSoFar, Admitted, Alone, Decided, AdmittedOpen, TypeOK
    <2>10. StatusAgreed'
        BY <1>0 DEF StatusAgreed
    <2> QED BY <2>4, <2>5, <2>6, <2>8, <2>9, <2>10
<1> QED BY <1>1, <1>2

\* The engine ends, or a rival wins.
LEMMA SettleStep ==
    ASSUME DeskInv, Settle \/ EngineFails \/ RivalWins
    PROVE  DeskInv'
<1> USE DeskAssumption DEF DeskInv
<1>0. UNCHANGED <<todo, pending, row, item, place, conf, copy, choice, early, audit>>
    BY DEF Settle, EngineFails, RivalWins, deskVars
<1>1. TypeOK' /\ RowsAgree'
    BY <1>0 DEF TypeOK, RowsAgree, Settle, EngineFails, RivalWins
<1>2. EngineOrder'
    BY <1>0 DEF EngineOrder, Settle, EngineFails, RivalWins
<1>3. AdmittedOpen' /\ SoleSoFar'
    BY <1>0 DEF AdmittedOpen, SoleSoFar, Admitted, Alone, Settle, EngineFails, RivalWins
<1>4. CASE Settle
    <2>1. \A r \in Calls : Admitted(r) => early[r]
        BY <1>4 DEF Settle, AdmittedOpen, TypeOK
    <2>2. Progress' /\ StatusAgreed'
        BY <1>0, <2>1 DEF Progress, StatusAgreed, Agreed, Admitted, Decided
    <2> QED BY <1>1, <1>2, <1>3, <2>2
<1>5. CASE EngineFails
    <2>1. Progress' /\ StatusAgreed'
        BY <1>0, <1>5 DEF EngineFails, Progress, StatusAgreed, Decided
    <2> QED BY <1>1, <1>2, <1>3, <2>1
<1>6. CASE RivalWins
    <2>1. Progress' /\ StatusAgreed'
        BY <1>0, <1>6 DEF RivalWins, Progress, StatusAgreed, Decided
    <2> QED BY <1>1, <1>2, <1>3, <2>1
<1> QED BY <1>4, <1>5, <1>6

\* A call asks.
LEMMA OpenStep ==
    ASSUME DeskInv, NEW r \in Calls, NEW c \in Conflicts, NEW q \in Requests, Open(r, c, q)
    PROVE  DeskInv'
<1> USE DeskAssumption DEF DeskInv
<1>0. /\ UNCHANGED <<engine, todo, pending, row, item, status, rival, audit>>
      /\ place[r] = "idle"
    BY DEF Open
<1>1. RowsAgree' /\ EngineOrder'
    BY <1>0 DEF RowsAgree, EngineOrder
<1>2. CASE Admits(row[c], q)
    <2>1. /\ place' = [place EXCEPT ![r] = "row"]
          /\ conf' = [conf EXCEPT ![r] = c]
          /\ copy' = [copy EXCEPT ![r] = row[c]]
          /\ choice' = [choice EXCEPT ![r] = Decision(q)]
          /\ early' = [early EXCEPT ![r] = engine # "done"]
        BY <1>2 DEF Open
    <2>2. /\ Decision(q) \in Choices
          /\ row[c].resolution = "MANUAL_REVIEW_REQUIRED" /\ row[c].review = "OPEN"
          /\ row[c] # NoRow
        BY <1>2 DEF Admits, Awaiting, NoRow, Decision, Choices, Bodies
    <2>3. (engine # "done") \in BOOLEAN
        OBVIOUS
    <2>4. TypeOK'
        BY <1>0, <2>1, <2>2, <2>3 DEF TypeOK, Places, Choices
    <2>5. \A x \in Calls : x # r => /\ place'[x] = place[x] /\ conf'[x] = conf[x]
                                    /\ copy'[x] = copy[x] /\ choice'[x] = choice[x]
                                    /\ early'[x] = early[x]
        BY <2>1 DEF TypeOK
    <2>6. /\ place'[r] = "row" /\ conf'[r] = c /\ copy'[r] = row[c]
          /\ choice'[r] = Decision(q) /\ (~early'[r] => engine = "done")
        BY <2>1 DEF TypeOK
    <2>7. AdmittedOpen'
        BY <1>0, <2>2, <2>5, <2>6 DEF AdmittedOpen, Admitted
    <2>8. Progress'
        BY <1>0, <2>5, <2>6 DEF Progress, Decided
    <2>9. SoleSoFar'
        <3> SUFFICES ASSUME NEW x \in Calls, Admitted(x)', Alone(x)', x # r
                     PROVE  Admitted(x) /\ Alone(x)
            BY <1>0, <2>5, <2>6 DEF SoleSoFar
        <3> QED BY <1>0, <2>5, <2>6 DEF Admitted, Alone
    <2>10. StatusAgreed'
        <3> SUFFICES ASSUME NEW d \in Choices, engine = "done", ~rival, Agreed(d)',
                            NEW x \in Calls, place'[x] \in {"audit", "done"}
                     PROVE  status = V(d)
            BY <1>0 DEF StatusAgreed
        <3>1. x # r
            BY <2>6
        <3>2. Agreed(d)
            BY <1>0, <2>5 DEF Agreed, Admitted
        <3> QED BY <2>5, <3>1, <3>2 DEF StatusAgreed
    <2> QED BY <1>1, <2>4, <2>7, <2>8, <2>9, <2>10
<1>3. CASE ~Admits(row[c], q)
    <2>1. place' = [place EXCEPT ![r] = "refused"] /\ UNCHANGED <<conf, copy, choice, early>>
        BY <1>3 DEF Open
    <2>2. TypeOK'
        BY <1>0, <2>1 DEF TypeOK, Places
    <2>3. \A x \in Calls : x # r => place'[x] = place[x]
        BY <2>1
    <2>4. \A x \in Calls : Admitted(x)' <=> Admitted(x)
        BY <1>0, <2>1 DEF Admitted, TypeOK
    <2>5. place'[r] = "refused"
        BY <2>1 DEF TypeOK
    <2>6. AdmittedOpen' /\ Progress' /\ SoleSoFar' /\ StatusAgreed'
        BY <1>0, <2>1, <2>3, <2>4, <2>5
           DEF AdmittedOpen, Progress, SoleSoFar, StatusAgreed, Agreed, Alone, Decided
    <2> QED BY <1>1, <2>2, <2>6
<1> QED BY <1>2, <1>3

\* What every later statement of a call leaves alone.
LEMMA MoveFrame ==
    ASSUME DeskInv, NEW r \in Calls, NEW from, NEW to \in {"items", "event", "audit", "done", "failed"},
           from \in {"row", "items", "event", "audit"}, Move(r, from, to)
    PROVE  /\ UNCHANGED <<engine, todo, pending, rival, conf, copy, choice, early>>
           /\ place[r] = from /\ place'[r] = to
           /\ \A x \in Calls : x # r => place'[x] = place[x]
           /\ \A x \in Calls : Admitted(x)' <=> Admitted(x)
           /\ \A x \in Calls : Alone(x)' <=> Alone(x)
           /\ place' \in [Calls -> Places]
           /\ conf[r] \in Conflicts /\ choice[r] \in Choices /\ Admitted(r)
           /\ copy[r].resolution = "MANUAL_REVIEW_REQUIRED" /\ row[conf[r]] # NoRow
<1> USE DEF DeskInv
<1>1. /\ UNCHANGED <<engine, todo, pending, rival, conf, copy, choice, early>>
      /\ place[r] = from /\ place'[r] = to
      /\ \A x \in Calls : x # r => place'[x] = place[x]
      /\ place' \in [Calls -> Places]
    BY DEF Move, TypeOK, Places
<1>2. \A x \in Calls : Admitted(x)' <=> Admitted(x)
    BY <1>1 DEF Admitted
<1>3. \A x \in Calls : Alone(x)' <=> Alone(x)
    BY <1>1, <1>2 DEF Alone
<1>4. Admitted(r)
    BY <1>1 DEF Admitted
<1> QED BY <1>1, <1>2, <1>3, <1>4 DEF AdmittedOpen

LEMMA WriteRowStep ==
    ASSUME DeskInv, NEW r \in Calls, WriteRow(r)
    PROVE  DeskInv'
<1> USE DEF DeskInv
<1>1. Move(r, "row", "items") /\ row' = [row EXCEPT ![conf[r]] = Reviewed(r)]
      /\ UNCHANGED <<item, status, audit>>
    BY DEF WriteRow
<1>2. /\ UNCHANGED <<engine, todo, pending, rival, conf, copy, choice, early>>
      /\ place[r] = "row" /\ place'[r] = "items"
      /\ \A x \in Calls : x # r => place'[x] = place[x]
      /\ \A x \in Calls : Admitted(x)' <=> Admitted(x)
      /\ \A x \in Calls : Alone(x)' <=> Alone(x)
      /\ place' \in [Calls -> Places]
      /\ conf[r] \in Conflicts /\ choice[r] \in Choices /\ Admitted(r)
      /\ copy[r].resolution = "MANUAL_REVIEW_REQUIRED" /\ row[conf[r]] # NoRow
    BY <1>1, MoveFrame
<1>3. /\ Reviewed(r) \in Rows /\ Reviewed(r) # NoRow
      /\ Reviewed(r).review = choice[r]
      /\ Reviewed(r).review = "REJECTED" <=> Reviewed(r).resolution = "REJECTED_AFTER_REVIEW"
    BY <1>2 DEF Reviewed, Rows, Reviews, NoRow, Choices
<1>4. \A c \in Conflicts : row'[c] = IF c = conf[r] THEN Reviewed(r) ELSE row[c]
    BY <1>1 DEF TypeOK
<1> HIDE DEF Choices
<1>5. TypeOK'
    BY <1>1, <1>2, <1>3 DEF TypeOK
<1>6. RowsAgree'
    BY <1>3, <1>4 DEF RowsAgree
<1>7. EngineOrder'
    BY <1>1, <1>2, <1>4 DEF EngineOrder
<1>8. AdmittedOpen'
    BY <1>1, <1>2, <1>3, <1>4 DEF AdmittedOpen
<1>9. \A c \in Conflicts : Decided(c) => Decided(c)'
    BY <1>2, <1>3, <1>4 DEF Decided, Choices
<1>10. Decided(conf[r])'
    BY <1>2, <1>3, <1>4 DEF Decided, Choices
<1>11. Progress'
    BY <1>1, <1>2, <1>9, <1>10 DEF Progress, AdmittedOpen, Admitted
<1>12. SoleSoFar'
    BY <1>1, <1>2, <1>3, <1>4 DEF SoleSoFar, Alone, AdmittedOpen
<1>13. StatusAgreed'
    BY <1>1, <1>2 DEF StatusAgreed, Agreed
<1> QED BY <1>5, <1>6, <1>7, <1>8, <1>11, <1>12, <1>13

LEMMA WriteItemsStep ==
    ASSUME DeskInv, NEW r \in Calls, WriteItems(r)
    PROVE  DeskInv'
<1> USE DEF DeskInv
<1>1. /\ Move(r, "items", "event")
      /\ item' = IF item[conf[r]] = "none" THEN item ELSE [item EXCEPT ![conf[r]] = choice[r]]
      /\ UNCHANGED <<row, status, audit>>
    BY DEF WriteItems
<1>2. /\ UNCHANGED <<engine, todo, pending, rival, conf, copy, choice, early>>
      /\ place[r] = "items" /\ place'[r] = "event"
      /\ \A x \in Calls : x # r => place'[x] = place[x]
      /\ \A x \in Calls : Admitted(x)' <=> Admitted(x)
      /\ \A x \in Calls : Alone(x)' <=> Alone(x)
      /\ place' \in [Calls -> Places]
      /\ conf[r] \in Conflicts /\ choice[r] \in Choices /\ Admitted(r)
    BY <1>1, MoveFrame
<1>3. \A c \in Conflicts : c # conf[r] => item'[c] = item[c]
    BY <1>1
<1>4. item[conf[r]] # "none" => item'[conf[r]] = choice[r]
    BY <1>1, <1>2 DEF TypeOK
<1>5. ~early[r] => item[conf[r]] # "none"
    BY <1>2 DEF AdmittedOpen, EngineOrder
<1>6. TypeOK'
    BY <1>1, <1>2 DEF TypeOK, Choices, Reviews
<1>7. RowsAgree' /\ AdmittedOpen'
    BY <1>1, <1>2 DEF RowsAgree, AdmittedOpen
<1>8. EngineOrder'
    BY <1>1, <1>2, <1>3, <1>4 DEF EngineOrder, Choices
<1>9. Progress'
    BY <1>1, <1>2, <1>3, <1>4, <1>5 DEF Progress, Decided, AdmittedOpen, Admitted, Choices
<1>10. SoleSoFar'
    BY <1>1, <1>2, <1>3, <1>4, <1>5 DEF SoleSoFar, Alone, AdmittedOpen
<1>11. StatusAgreed'
    BY <1>1, <1>2 DEF StatusAgreed, Agreed
<1> QED BY <1>6, <1>7, <1>8, <1>9, <1>10, <1>11

LEMMA LastStep ==
    ASSUME DeskInv, NEW r \in Calls, SettleEvent(r) \/ Tell(r) \/ Fail(r)
    PROVE  DeskInv'
<1> USE DEF DeskInv
<1>0. UNCHANGED <<row, item>>
    BY DEF SettleEvent, Tell, Fail
<1>1. PICK from \in {"row", "items", "event", "audit"}, to \in {"audit", "done", "failed"} :
        /\ Move(r, from, to)
        /\ to = "audit" => from = "event" /\ status' = Verdict(r) /\ audit' = audit
        /\ to = "done" => from = "audit" /\ status' = status
                          /\ audit' = audit \cup {<<conf[r], choice[r]>>}
        /\ to = "failed" => UNCHANGED <<status, audit>>
    BY DEF SettleEvent, Tell, Fail
<1>2. /\ UNCHANGED <<engine, todo, pending, rival, conf, copy, choice, early>>
      /\ place[r] = from /\ place'[r] = to
      /\ \A x \in Calls : x # r => place'[x] = place[x]
      /\ \A x \in Calls : Admitted(x)' <=> Admitted(x)
      /\ \A x \in Calls : Alone(x)' <=> Alone(x)
      /\ place' \in [Calls -> Places]
      /\ conf[r] \in Conflicts /\ choice[r] \in Choices /\ Admitted(r)
    BY <1>1, MoveFrame
<1>3. Verdict(r) = V(choice[r]) /\ Verdict(r) \in {"SUPERSEDED", "CONFLICT_RESOLVED"}
    BY DEF Verdict, V
<1>4. TypeOK'
    BY <1>0, <1>1, <1>2, <1>3 DEF TypeOK, Choices
<1>5. RowsAgree' /\ EngineOrder' /\ AdmittedOpen'
    BY <1>0, <1>2 DEF RowsAgree, EngineOrder, AdmittedOpen
<1>6. Progress'
    BY <1>0, <1>1, <1>2, <1>3 DEF Progress, Decided
<1>7. SoleSoFar'
    BY <1>0, <1>1, <1>2 DEF SoleSoFar
<1>8. StatusAgreed'
    BY <1>1, <1>2, <1>3 DEF StatusAgreed, Agreed
<1> QED BY <1>4, <1>5, <1>6, <1>7, <1>8

\* The invariant holds in every state, for any conflicts, calls and bodies,
\* whoever races and whoever dies.
THEOREM DeskInvariant == Spec => []DeskInv
<1>1. DeskInv /\ [Next]_vars => DeskInv'
    <2> SUFFICES ASSUME DeskInv, [Next]_vars PROVE DeskInv'
        OBVIOUS
    <2>1. CASE UNCHANGED vars
        BY <2>1 DEF vars, deskVars, DeskInv, TypeOK, RowsAgree, EngineOrder, AdmittedOpen,
                    Progress, SoleSoFar, StatusAgreed, Admitted, Alone, Agreed, Decided
    <2>2. CASE Next
        BY <2>2, RecordStep, SettleStep, OpenStep, WriteRowStep, WriteItemsStep, LastStep
           DEF Next
    <2> QED BY <2>1, <2>2
<1> QED BY <1>1, DeskInit, PTL DEF Spec

\* The desk's state stays within its types.
THEOREM DeskTypeCorrect == Spec => []TypeOK
<1>1. DeskInv => TypeOK
    BY DEF DeskInv
<1> QED BY <1>1, DeskInvariant, PTL

\* The two columns of a conflict row agree, whatever the reviewers race for.
THEOREM RowsAlwaysAgree == Spec => []RowsAgree
<1>1. DeskInv => RowsAgree
    BY DEF DeskInv
<1> QED BY <1>1, DeskInvariant, PTL

\* Only a reviewer who had read the conflict while it was open changes it again.
THEOREM DecisionsStay == Spec => DecidedStays
<1> DEFINE Stays == \A c \in Conflicts :
        Decided(c) /\ (\A r \in Calls : ~Underway(r, c)) => row'[c] = row[c]
<1>1. DeskInv /\ [Next]_vars => [Stays]_vars
    <2> SUFFICES ASSUME DeskInv, Next, NEW c \in Conflicts, Decided(c),
                        \A r \in Calls : ~Underway(r, c)
                 PROVE  row'[c] = row[c]
        OBVIOUS
    <2>1. ASSUME NEW d \in Conflicts, RecordRow(d) PROVE row'[c] = row[c]
        <3>1. row[d] = NoRow /\ \A x \in Conflicts : x # d => row'[x] = row[x]
            BY <2>1, DeskAssumption DEF RecordRow, DeskInv, EngineOrder, TypeOK
        <3> QED BY <3>1 DEF Decided, NoRow
    <2>2. ASSUME NEW r \in Calls, WriteRow(r) PROVE row'[c] = row[c]
        <3>1. place[r] = "row" /\ copy[r].review = "OPEN"
            BY <2>2 DEF WriteRow, Move, DeskInv, AdmittedOpen, Admitted
        <3>2. conf[r] # c
            BY <3>1 DEF Underway
        <3> QED BY <2>2, <3>2 DEF WriteRow, DeskInv, TypeOK
    <2>3. \/ UNCHANGED row
          \/ \E d \in Conflicts : RecordRow(d)
          \/ \E r \in Calls : WriteRow(r)
        BY DEF Next, RecordItem, Settle, EngineFails, RivalWins, Open, WriteItems,
               SettleEvent, Tell, Fail
    <2> QED BY <2>1, <2>2, <2>3
<1> QED BY <1>1, DeskInvariant, PTL DEF Spec, DecidedStays

\* An answer to a reviewer who asked after the event was settled is true.
THEOREM RepliesTrue == Spec => []ReplyMeansDone
<1>1. DeskInv => ReplyMeansDone
    BY DEF DeskInv, Progress, ReplyMeansDone, Choices
<1> QED BY <1>1, DeskInvariant, PTL

\* The sole reviewer of a conflict gets what was chosen.
THEOREM SoleReviewer == Spec => []SoleReviewerDecides
<1>1. DeskInv => SoleReviewerDecides
    <2> SUFFICES ASSUME DeskInv, NEW r \in Calls, place[r] = "done", ~early[r],
                        Deciders(conf[r]) = {r}
                 PROVE  row[conf[r]].review = choice[r] /\ item[conf[r]] = choice[r]
        BY DEF SoleReviewerDecides
    <2>1. Admitted(r) /\ Alone(r)
        BY DEF Deciders, Admitted, Alone
    <2> QED BY <2>1 DEF DeskInv, SoleSoFar
<1> QED BY <1>1, DeskInvariant, PTL

\* Reviewers who agree decide the event, whatever the order of their calls.
THEOREM UnanimousDecides == Spec => []Unanimous
<1>1. DeskInv => Unanimous
    BY DEF DeskInv, StatusAgreed, Unanimous, Agreed, V, Choices
<1> QED BY <1>1, DeskInvariant, PTL
=============================================================================
