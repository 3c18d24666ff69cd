------------------------- MODULE ConflictEngineProofs -------------------------
(***************************************************************************)
(* Proofs about the Authority Matrix and the conflict engine, for any set  *)
(* of events, fields and rules.                                            *)
(*                                                                         *)
(* That no two calls judge each other's event rests on the order of        *)
(* detectAndResolve: an event is in the pen, and so in what other calls    *)
(* have seen, only when its own look is over.  EngineInv says so, and      *)
(* traces every plan and every record back to what was seen.               *)
(***************************************************************************)
EXTENDS ConflictEngine, TLAPS

Decisions == {"CURRENT", "OTHER", "MANUAL"}

\* The system s prevails over the system t in a change of f.
Prevails(s, t, f) ==
    /\ f \notin Manual
    /\ \/ s = Authoritative[f]
       \/ t # Authoritative[f] /\ s = Fallback[f]

\* What resolveFieldDecision answers when two systems compete.
LEMMA DecisionMeaning ==
    ASSUME NEW s, NEW t, s # t, NEW later, NEW f
    PROVE  /\ FieldDecision(s, t, later, f) \in Decisions
           /\ FieldDecision(s, t, later, f) = "CURRENT" => Prevails(s, t, f)
           /\ FieldDecision(s, t, later, f) = "OTHER" => Prevails(t, s, f)
BY DEF FieldDecision, Decisions, Prevails

\* Neither side's answer depends on which of the two came first.
LEMMA DecisionMirrored ==
    ASSUME NEW s, NEW t, s # t, NEW p, NEW q, NEW f
    PROVE  /\ FieldDecision(s, t, p, f) = "CURRENT" <=> FieldDecision(t, s, q, f) = "OTHER"
           /\ FieldDecision(s, t, p, f) = "OTHER" <=> FieldDecision(t, s, q, f) = "CURRENT"
           /\ FieldDecision(s, t, p, f) = "MANUAL" <=> FieldDecision(t, s, q, f) = "MANUAL"
BY DEF FieldDecision

\* deriveCandidateOutcome, read off the decisions it is made from.
LEMMA OutcomeMeaning ==
    ASSUME NEW s, NEW t, s # t, NEW later, NEW F, F # {}
    PROVE  /\ CandidateOutcome(s, t, later, F) = "CURRENT_WINS"
                <=> \A f \in F : FieldDecision(s, t, later, f) = "CURRENT"
           /\ CandidateOutcome(s, t, later, F) = "CURRENT_LOSES"
                <=> \A f \in F : FieldDecision(s, t, later, f) = "OTHER"
           /\ CandidateOutcome(s, t, later, F) \in
                {"CURRENT_WINS", "CURRENT_LOSES", "MANUAL_REVIEW_REQUIRED"}
<1> DEFINE D(f) == FieldDecision(s, t, later, f)
           winners == {D(f) : f \in F}
<1>1. \A f \in F : D(f) \in Decisions
  BY DecisionMeaning
<1> HIDE DEF D
<1>2. CandidateOutcome(s, t, later, F) =
        IF "MANUAL" \in winners \/ {"CURRENT", "OTHER"} \subseteq winners
        THEN "MANUAL_REVIEW_REQUIRED"
        ELSE IF "OTHER" \in winners THEN "CURRENT_LOSES" ELSE "CURRENT_WINS"
  BY DEF CandidateOutcome, D
<1>3. /\ CandidateOutcome(s, t, later, F) = "CURRENT_WINS"
           <=> \A f \in F : D(f) = "CURRENT"
      /\ CandidateOutcome(s, t, later, F) = "CURRENT_LOSES"
           <=> \A f \in F : D(f) = "OTHER"
      /\ CandidateOutcome(s, t, later, F) \in
           {"CURRENT_WINS", "CURRENT_LOSES", "MANUAL_REVIEW_REQUIRED"}
  BY <1>1, <1>2 DEF Decisions
<1> QED  BY <1>3 DEF D

\* A conflict between two systems is judged the same whichever of the two
\* events arrives second: the outcome is mirrored, and a review stays a review.
THEOREM OutcomeMirrored ==
    ASSUME NEW s, NEW t, s # t, NEW p, NEW q, NEW F, F # {}
    PROVE  CandidateOutcome(t, s, q, F) = Mirror(CandidateOutcome(s, t, p, F))
<1>1. \A f \in F : /\ FieldDecision(s, t, p, f) = "CURRENT"
                       <=> FieldDecision(t, s, q, f) = "OTHER"
                   /\ FieldDecision(s, t, p, f) = "OTHER"
                       <=> FieldDecision(t, s, q, f) = "CURRENT"
  BY DecisionMirrored
<1>2. /\ CandidateOutcome(s, t, p, F) = "CURRENT_WINS"
           <=> \A f \in F : FieldDecision(s, t, p, f) = "CURRENT"
      /\ CandidateOutcome(s, t, p, F) = "CURRENT_LOSES"
           <=> \A f \in F : FieldDecision(s, t, p, f) = "OTHER"
      /\ CandidateOutcome(s, t, p, F) \in
           {"CURRENT_WINS", "CURRENT_LOSES", "MANUAL_REVIEW_REQUIRED"}
  BY OutcomeMeaning
<1>3. /\ CandidateOutcome(t, s, q, F) = "CURRENT_WINS"
           <=> \A f \in F : FieldDecision(t, s, q, f) = "CURRENT"
      /\ CandidateOutcome(t, s, q, F) = "CURRENT_LOSES"
           <=> \A f \in F : FieldDecision(t, s, q, f) = "OTHER"
      /\ CandidateOutcome(t, s, q, F) \in
           {"CURRENT_WINS", "CURRENT_LOSES", "MANUAL_REVIEW_REQUIRED"}
  BY OutcomeMeaning
<1> QED  BY <1>1, <1>2, <1>3 DEF Mirror
-----------------------------------------------------------------------------
(* The invariant of the engine. *)

\* The call of e has looked, decided, and begun to enter the pen.
Entered(e) == step[e] \in {"enter", "go", "queued", "stopped", "aborted"}

\* What the pen holds, and so what a call has read in it, has looked before.
PenEntered  == \A f \in Fields : \A x \in pen[f] : Entered(x)
SeenEntered == \A e \in Events : \A p \in seen[e] : Entered(p[2])

\* Of two calls only one has seen the other's event.
OneHasSeen ==
    \A e, x \in Events : \A f, g \in Fields :
        ~(<<f, x>> \in seen[e] /\ <<g, e>> \in seen[x])

\* What a call has still to deal with, it has seen; while it looks, nothing.
TodoSeen ==
    \A e \in Events :
        /\ step[e] \in {"new", "look"} => todo[e] = {}
        /\ \A x \in todo[e] : Contested(e, x) # {}

\* A plan to win or to lose is backed by the matrix, on all contested fields.
PlanBacked ==
    \A e \in Events : \A x \in todo[e] : \A f \in Contested(e, x) :
        /\ plan[e] = "win" => Prevails(SourceOf[e], SourceOf[x], f)
        /\ plan[e] = "lose" => Prevails(SourceOf[x], SourceOf[e], f)

\* A call that records has made a plan.
PlanMade ==
    \A e \in Events :
        step[e] \in {"record", "supersede"} => plan[e] \in {"win", "lose", "manual"}

RecordsTraced ==
    \A c \in conflicts : Contested(c.current, c.competing) # {}

RecordsBacked ==
    \A c \in conflicts : \A f \in c.fields :
        /\ c.resolution = "AUTO_RESOLVED"
              => Prevails(SourceOf[c.current], SourceOf[c.competing], f)
        /\ c.resolution = "SUPERSEDED"
              => Prevails(SourceOf[c.competing], SourceOf[c.current], f)

EngineInv ==
    /\ TypeOK
    /\ PenEntered /\ SeenEntered /\ OneHasSeen
    /\ TodoSeen /\ PlanBacked /\ PlanMade
    /\ RecordsTraced /\ RecordsBacked

\* No event is known to anyone at the start.
LEMMA EngineInit == Init => EngineInv
BY EngineAssumption
   DEF Init, EngineInv, TypeOK, Steps, Plans, Statuses, PenEntered, SeenEntered,
       OneHasSeen, TodoSeen, PlanBacked, PlanMade, RecordsTraced, RecordsBacked,
       Contested

\* The plan of a call, read off the outcomes it is made from.
LEMMA PlanMeaning ==
    ASSUME NEW e \in Events, TypeOK
    PROVE  /\ PlanFor(e) \in {"alone", "manual", "lose", "win"}
           /\ PlanFor(e) = "alone" => Candidates(e) = {}
           /\ \A x \in Candidates(e) : \A f \in Contested(e, x) :
                /\ PlanFor(e) = "win" => Prevails(SourceOf[e], SourceOf[x], f)
                /\ PlanFor(e) = "lose" => Prevails(SourceOf[x], SourceOf[e], f)
<1> DEFINE outcomes == {OutcomeAgainst(e, x) : x \in Candidates(e)}
<1>1. PlanFor(e) = CASE outcomes = {}                -> "alone"
                     [] outcomes = {"CURRENT_WINS"}  -> "win"
                     [] outcomes = {"CURRENT_LOSES"} -> "lose"
                     [] OTHER                        -> "manual"
    BY DEF PlanFor
<1>2. /\ PlanFor(e) \in {"alone", "manual", "lose", "win"}
      /\ PlanFor(e) = "alone" => outcomes = {}
      /\ PlanFor(e) = "win" => outcomes = {"CURRENT_WINS"}
      /\ PlanFor(e) = "lose" => outcomes = {"CURRENT_LOSES"}
    <2> HIDE DEF outcomes
    <2> QED BY <1>1
<1>3. ASSUME NEW x \in Candidates(e), NEW f \in Contested(e, x)
      PROVE  /\ PlanFor(e) = "win" => Prevails(SourceOf[e], SourceOf[x], f)
             /\ PlanFor(e) = "lose" => Prevails(SourceOf[x], SourceOf[e], f)
    <2>1. Contested(e, x) # {} /\ SourceOf[e] # SourceOf[x]
        BY <1>3 DEF Candidates
    <2>2. PlanFor(e) = "win" => OutcomeAgainst(e, x) = "CURRENT_WINS"
        BY <1>2, <1>3
    <2>3. PlanFor(e) = "lose" => OutcomeAgainst(e, x) = "CURRENT_LOSES"
        BY <1>2, <1>3
    <2> DEFINE D == FieldDecision(SourceOf[e], SourceOf[x], received[e] >= received[x], f)
    <2>4. /\ OutcomeAgainst(e, x) = "CURRENT_WINS" => D = "CURRENT"
          /\ OutcomeAgainst(e, x) = "CURRENT_LOSES" => D = "OTHER"
        <3> DEFINE later == received[e] >= received[x]
        <3>1. OutcomeAgainst(e, x) =
                CandidateOutcome(SourceOf[e], SourceOf[x], later, Contested(e, x))
            BY DEF OutcomeAgainst
        <3> HIDE DEF later
        <3>2. /\ CandidateOutcome(SourceOf[e], SourceOf[x], later, Contested(e, x)) = "CURRENT_WINS"
                   => FieldDecision(SourceOf[e], SourceOf[x], later, f) = "CURRENT"
              /\ CandidateOutcome(SourceOf[e], SourceOf[x], later, Contested(e, x)) = "CURRENT_LOSES"
                   => FieldDecision(SourceOf[e], SourceOf[x], later, f) = "OTHER"
            BY <2>1, <1>3, OutcomeMeaning
        <3> QED BY <3>1, <3>2 DEF later
    <2>5. /\ D = "CURRENT" => Prevails(SourceOf[e], SourceOf[x], f)
          /\ D = "OTHER" => Prevails(SourceOf[x], SourceOf[e], f)
        BY <2>1, DecisionMeaning
    <2> QED BY <2>2, <2>3, <2>4, <2>5
<1>4. PlanFor(e) = "alone" => Candidates(e) = {}
    BY <1>2
<1> QED BY <1>2, <1>3, <1>4

\* An event that has entered the pen does not look again.
LEMMA EnteredStable ==
    ASSUME TypeOK, [Next]_vars, NEW e \in Events, Entered(e)
    PROVE  Entered(e)'
<1> USE DEF TypeOK, Entered, Goto
<1>1. CASE UNCHANGED vars
    BY <1>1 DEF vars
<1>2. CASE Tick
    BY <1>2 DEF Tick
<1>3. ASSUME NEW y \in Events,
             Receive(y) \/ Decide(y) \/ SettleOwn(y) \/ Leave(y) \/ Queue(y) \/ Abort(y)
      PROVE  Entered(e)'
    BY <1>3 DEF Receive, Decide, SettleOwn, Leave, Queue, Abort, Active
<1>4. ASSUME NEW y \in Events, NEW f \in Fields,
             Look(y, f) \/ LookFails(y, f) \/ Enter(y, f) \/ EnterFails(y, f)
      PROVE  Entered(e)'
    BY <1>4 DEF Look, LookFails, Enter, EnterFails
<1>5. ASSUME NEW y \in Events, NEW x \in Events,
             RecordConflict(y, x) \/ SupersedeRival(y, x)
      PROVE  Entered(e)'
    BY <1>5 DEF RecordConflict, SupersedeRival
<1> QED BY <1>1, <1>2, <1>3, <1>4, <1>5 DEF Next

\* A step keeps the types.
LEMMA TypeStep == TypeOK /\ [Next]_vars => TypeOK'
<1> SUFFICES ASSUME TypeOK, [Next]_vars PROVE TypeOK'
    OBVIOUS
<1> USE EngineAssumption DEF TypeOK, Steps, Plans, Statuses, Goto, SetStatus
<1>1. CASE UNCHANGED vars
    BY <1>1 DEF vars
<1>2. CASE Tick
    BY <1>2 DEF Tick
<1>3. ASSUME NEW e \in Events, Receive(e) PROVE TypeOK'
    BY <1>3 DEF Receive
<1>4. ASSUME NEW e \in Events, Decide(e) PROVE TypeOK'
    <2>1. PlanFor(e) \in Plans /\ Candidates(e) \subseteq Events
        BY PlanMeaning DEF Candidates
    <2> QED BY <1>4, <2>1 DEF Decide
<1>5. ASSUME NEW e \in Events, SettleOwn(e) PROVE TypeOK'
    BY <1>5 DEF SettleOwn
<1>6. ASSUME NEW e \in Events, Leave(e) \/ Queue(e) \/ Abort(e) PROVE TypeOK'
    BY <1>6 DEF Leave, Queue, Abort
<1>7. ASSUME NEW e \in Events, NEW f \in Fields, Look(e, f) PROVE TypeOK'
    <2>1. /\ pen' \in [Fields -> SUBSET Events]
          /\ seen' \in [Events -> SUBSET (Fields \X Events)]
        BY <1>7 DEF Look
    <2> QED BY <1>7, <2>1 DEF Look
<1>8. ASSUME NEW e \in Events, NEW f \in Fields,
             LookFails(e, f) \/ Enter(e, f) \/ EnterFails(e, f)
      PROVE  TypeOK'
    BY <1>8 DEF LookFails, Enter, EnterFails
<1>9. ASSUME NEW e \in Events, NEW x \in Events, RecordConflict(e, x) PROVE TypeOK'
    <2>1. Record(e, x) \in Conflicts
        BY DEF Record, Conflicts, Contested, Resolutions
    <2> QED BY <1>9, <2>1 DEF RecordConflict
<1>10. ASSUME NEW e \in Events, NEW x \in Events, SupersedeRival(e, x) PROVE TypeOK'
    BY <1>10 DEF SupersedeRival
<1> QED BY <1>1, <1>2, <1>3, <1>4, <1>5, <1>6, <1>7, <1>8, <1>9, <1>10 DEF Next

\* The pen, and what calls have seen in it.
LEMMA SeenStep ==
    EngineInv /\ [Next]_vars => PenEntered' /\ SeenEntered' /\ OneHasSeen'
<1> SUFFICES ASSUME EngineInv, [Next]_vars
             PROVE  PenEntered' /\ SeenEntered' /\ OneHasSeen'
    OBVIOUS
<1> USE DEF EngineInv, TypeOK
<1>a. \A e \in Events : Entered(e) => Entered(e)'
    BY EnteredStable
<1>1. CASE UNCHANGED <<pen, seen>>
    BY <1>1, <1>a DEF PenEntered, SeenEntered, OneHasSeen
<1>2. ASSUME NEW e \in Events, NEW f \in Fields, Look(e, f)
      PROVE  PenEntered' /\ SeenEntered' /\ OneHasSeen'
    <2>1. ~Entered(e)
        BY <1>2 DEF Look, Entered
    <2>2. \A g \in Fields : pen'[g] \subseteq pen[g]
        BY <1>2 DEF Look
    <2>3. PenEntered'
        BY <2>2, <1>a DEF PenEntered
    <2>4. /\ \A x \in Events : x # e => seen'[x] = seen[x]
          /\ \A p \in seen'[e] : p \in seen[e] \/ p[2] \in pen[f] \ {e}
        BY <1>2 DEF Look
    <2>5. SeenEntered'
        BY <2>4, <1>a DEF SeenEntered, PenEntered
    <2>6. \A x \in Events : \A g \in Fields : <<g, e>> \notin seen[x]
        BY <2>1 DEF SeenEntered
    <2>7. \A g \in Fields : <<g, e>> \notin seen'[e]
        BY <2>4, <2>6
    <2>8. OneHasSeen'
        BY <2>4, <2>6, <2>7 DEF OneHasSeen
    <2> QED BY <2>3, <2>5, <2>8
<1>3. ASSUME NEW e \in Events, NEW f \in Fields, Enter(e, f)
      PROVE  PenEntered' /\ SeenEntered' /\ OneHasSeen'
    <2>1. Entered(e) /\ UNCHANGED seen
        BY <1>3 DEF Enter, Entered
    <2>2. PenEntered'
        BY <1>3, <1>a, <2>1 DEF Enter, PenEntered
    <2> QED BY <2>1, <2>2, <1>a DEF SeenEntered, OneHasSeen
<1>4. \/ UNCHANGED <<pen, seen>>
      \/ \E e \in Events, f \in Fields : Look(e, f) \/ Enter(e, f)
    BY DEF Next, vars, Tick, Receive, Decide, SettleOwn, Leave, Queue, Abort,
           LookFails, EnterFails, RecordConflict, SupersedeRival
<1> QED BY <1>1, <1>2, <1>3, <1>4

\* What a call means to do.
LEMMA PlanStep ==
    EngineInv /\ [Next]_vars => TodoSeen' /\ PlanBacked' /\ PlanMade'
<1> SUFFICES ASSUME EngineInv, [Next]_vars
             PROVE  TodoSeen' /\ PlanBacked' /\ PlanMade'
    OBVIOUS
<1> USE DEF EngineInv, TypeOK, TodoSeen, PlanBacked, PlanMade, Goto
<1>a. ASSUME UNCHANGED <<seen, plan, todo>>,
             \A x \in Events :
                /\ step'[x] \in {"new", "look"} => step[x] \in {"new", "look"}
                /\ step'[x] \in {"record", "supersede"} => step[x] \in {"record", "supersede"}
      PROVE  TodoSeen' /\ PlanBacked' /\ PlanMade'
    <2>1. \A x, y : Contested(x, y)' = Contested(x, y)
        BY <1>a DEF Contested
    <2>2. TodoSeen'
        BY <1>a, <2>1
    <2>3. PlanBacked'
        BY <1>a, <2>1
    <2>4. PlanMade'
        BY <1>a
    <2> QED BY <2>2, <2>3, <2>4
<1>1. CASE UNCHANGED vars
    BY <1>1, <1>a DEF vars
<1>2. CASE Tick
    BY <1>2, <1>a DEF Tick
<1>3. ASSUME NEW e \in Events,
             Receive(e) \/ SettleOwn(e) \/ Leave(e) \/ Queue(e) \/ Abort(e)
      PROVE  TodoSeen' /\ PlanBacked' /\ PlanMade'
    <2>1. /\ UNCHANGED <<seen, plan, todo>>
          /\ \/ /\ step[e] = "new"
                /\ step' = [step EXCEPT ![e] = "look"]
             \/ \E place \in {"enter", "stopped", "go", "queued", "aborted"} :
                    step' = [step EXCEPT ![e] = place]
        BY <1>3 DEF Receive, SettleOwn, Leave, Queue, Abort
    <2>2. \A x \in Events :
            /\ step'[x] \in {"new", "look"} => step[x] \in {"new", "look"}
            /\ step'[x] \in {"record", "supersede"} => step[x] \in {"record", "supersede"}
        BY <2>1
    <2> QED BY <1>a, <2>1, <2>2
<1>4. ASSUME NEW e \in Events, Decide(e)
      PROVE  TodoSeen' /\ PlanBacked' /\ PlanMade'
    <2>1. /\ UNCHANGED seen
          /\ plan' = [plan EXCEPT ![e] = PlanFor(e)]
          /\ todo' = [todo EXCEPT ![e] = Candidates(e)]
          /\ step' = [step EXCEPT ![e] = IF PlanFor(e) = "alone" THEN "enter" ELSE "record"]
        BY <1>4 DEF Decide
    <2>2. \A x, y \in Events : Contested(x, y)' = Contested(x, y)
        BY <2>1 DEF Contested
    <2>3. \A x \in Candidates(e) : x \in Events /\ Contested(e, x) # {}
        BY DEF Candidates
    <2>4. /\ PlanFor(e) \in {"alone", "manual", "lose", "win"}
          /\ \A x \in Candidates(e) : \A f \in Contested(e, x) :
                /\ PlanFor(e) = "win" => Prevails(SourceOf[e], SourceOf[x], f)
                /\ PlanFor(e) = "lose" => Prevails(SourceOf[x], SourceOf[e], f)
        BY PlanMeaning
    <2>5. TodoSeen'
        BY <2>1, <2>2, <2>3
    <2>6. PlanBacked'
        BY <2>1, <2>2, <2>3, <2>4
    <2>7. PlanMade'
        BY <2>1, <2>4
    <2> QED BY <2>5, <2>6, <2>7
<1>5. ASSUME NEW e \in Events, NEW f \in Fields, Look(e, f)
      PROVE  TodoSeen' /\ PlanBacked' /\ PlanMade'
    <2>1. /\ UNCHANGED <<step, plan, todo>>
          /\ \A x \in Events : x # e => seen'[x] = seen[x]
          /\ todo[e] = {}
        BY <1>5 DEF Look
    <2>2. \A x, y \in Events : x # e => Contested(x, y)' = Contested(x, y)
        BY <2>1 DEF Contested
    <2> QED BY <2>1, <2>2
<1>6. ASSUME NEW e \in Events, NEW f \in Fields,
             LookFails(e, f) \/ Enter(e, f) \/ EnterFails(e, f)
      PROVE  TodoSeen' /\ PlanBacked' /\ PlanMade'
    BY <1>6, <1>a DEF LookFails, Enter, EnterFails
<1>7. ASSUME NEW e \in Events, NEW x \in Events,
             RecordConflict(e, x) \/ SupersedeRival(e, x)
      PROVE  TodoSeen' /\ PlanBacked' /\ PlanMade'
    <2>1. /\ UNCHANGED <<seen, plan>>
          /\ \A y \in Events : todo'[y] \subseteq todo[y]
          /\ step[e] \in {"record", "supersede"}
          /\ step' = step \/ step' = [step EXCEPT ![e] = "supersede"]
                \/ step' = [step EXCEPT ![e] = "record"]
        BY <1>7 DEF RecordConflict, SupersedeRival
    <2>2. \A y, z \in Events : Contested(y, z)' = Contested(y, z)
        BY <2>1 DEF Contested
    <2>3. TodoSeen'
        BY <2>1, <2>2
    <2>4. PlanBacked'
        BY <2>1, <2>2
    <2>5. PlanMade'
        BY <2>1
    <2> QED BY <2>3, <2>4, <2>5
<1> QED BY <1>1, <1>2, <1>3, <1>4, <1>5, <1>6, <1>7 DEF Next

\* The records that calls leave behind.
LEMMA RecordStep ==
    EngineInv /\ [Next]_vars => RecordsTraced' /\ RecordsBacked'
<1> SUFFICES ASSUME EngineInv, [Next]_vars PROVE RecordsTraced' /\ RecordsBacked'
    OBVIOUS
<1> USE DEF EngineInv, TypeOK
<1>1. \A c \in conflicts : c.current \in Events /\ c.competing \in Events
    BY DEF Conflicts
<1>2. ASSUME UNCHANGED conflicts,
             \A y \in Events : seen[y] \subseteq seen'[y]
      PROVE  RecordsTraced' /\ RecordsBacked'
    <2>1. RecordsTraced'
        BY <1>1, <1>2 DEF RecordsTraced, Contested
    <2> QED BY <1>2, <2>1 DEF RecordsBacked
<1>3. ASSUME NEW e \in Events, NEW f \in Fields, Look(e, f)
      PROVE  RecordsTraced' /\ RecordsBacked'
    BY <1>2, <1>3 DEF Look
<1>4. ASSUME NEW e \in Events, NEW x \in Events, RecordConflict(e, x)
      PROVE  RecordsTraced' /\ RecordsBacked'
    <2>1. /\ conflicts' = conflicts \cup {Record(e, x)}
          /\ UNCHANGED seen
          /\ x \in todo[e]
          /\ plan[e] \in {"win", "lose", "manual"}
        BY <1>4 DEF RecordConflict, PlanMade
    <2>2. /\ Record(e, x).current = e
          /\ Record(e, x).competing = x
          /\ Record(e, x).fields = Contested(e, x)
          /\ Record(e, x).resolution = "AUTO_RESOLVED" <=> plan[e] = "win"
          /\ Record(e, x).resolution = "SUPERSEDED" <=> plan[e] = "lose"
        BY <2>1 DEF Record
    <2>3. \A y, z : Contested(y, z)' = Contested(y, z)
        BY <2>1 DEF Contested
    <2>4. RecordsTraced'
        BY <2>1, <2>2, <2>3 DEF RecordsTraced, TodoSeen
    <2>5. RecordsBacked'
        BY <2>1, <2>2 DEF RecordsBacked, PlanBacked
    <2> QED BY <2>4, <2>5
<1>5. \/ UNCHANGED <<seen, conflicts>>
      \/ \E e \in Events, f \in Fields : Look(e, f)
      \/ \E e, x \in Events : RecordConflict(e, x)
    BY DEF Next, vars, Tick, Receive, Decide, SettleOwn, Leave, Queue, Abort,
           LookFails, Enter, EnterFails, SupersedeRival
<1> QED BY <1>2, <1>3, <1>4, <1>5

LEMMA EngineStep == EngineInv /\ [Next]_vars => EngineInv'
<1> SUFFICES ASSUME EngineInv, [Next]_vars PROVE EngineInv'
    OBVIOUS
<1>1. TypeOK'
    BY TypeStep DEF EngineInv
<1>2. PenEntered' /\ SeenEntered' /\ OneHasSeen'
    BY SeenStep
<1>3. TodoSeen' /\ PlanBacked' /\ PlanMade'
    BY PlanStep
<1>4. RecordsTraced' /\ RecordsBacked'
    BY RecordStep
<1> QED BY <1>1, <1>2, <1>3, <1>4 DEF EngineInv

\* The engine's invariant holds in every state, for any events, fields, rules
\* and window, whether or not Redis fails.
THEOREM EngineInvariant == Spec => []EngineInv
BY EngineInit, EngineStep, PTL DEF Spec

\* The engine's state stays within its types.
THEOREM TypeCorrect == Spec => []TypeOK
<1>1. EngineInv => TypeOK
    BY DEF EngineInv
<1> QED BY EngineInvariant, <1>1, PTL

\* However the calls interleave, of two competing events at most one is ever
\* recorded against the other: detectAndResolve looks before it enters the pen.
THEOREM JudgedOnce == Spec => []OneVerdictPerPair
<1>1. EngineInv => OneVerdictPerPair
    <2> SUFFICES ASSUME EngineInv, NEW c \in conflicts, NEW d \in conflicts,
                        c.current = d.competing, c.competing = d.current
                 PROVE  FALSE
        BY DEF OneVerdictPerPair
    <2>1. c.current \in Events /\ c.competing \in Events
        BY DEF EngineInv, TypeOK, Conflicts
    <2>2. /\ \E f \in Fields : <<f, c.competing>> \in seen[c.current]
          /\ \E g \in Fields : <<g, c.current>> \in seen[c.competing]
        BY DEF EngineInv, RecordsTraced, Contested
    <2> QED BY <2>1, <2>2 DEF EngineInv, OneHasSeen
<1> QED BY EngineInvariant, <1>1, PTL

\* Every recorded verdict is one the Authority Matrix gives on every field it
\* was made on.
THEOREM MatrixBacksVerdicts == Spec => []VerdictsBacked
<1>1. EngineInv => VerdictsBacked
    BY DEF EngineInv, RecordsBacked, VerdictsBacked, BeatsIn, Prevails
<1> QED BY EngineInvariant, <1>1, PTL

-----------------------------------------------------------------------------
(* Why nobody is beaten in a circle.  When a call records that its event    *)
(* beats another, nobody has beaten its event: nobody has seen it, for it   *)
(* has not entered the pen, and it does not mean to lose.  When it records  *)
(* that its event loses, its event beats nobody and never will, for a loser *)
(* is not in the pen.                                                       *)

PlanPlace ==
    \A e \in Events :
        /\ step[e] \in {"new", "look"} => plan[e] = "undecided"
        /\ step[e] = "supersede" => plan[e] = "win"
        /\ step[e] \in {"enter", "go", "queued"} => plan[e] # "lose"
        /\ step[e] = "stopped" => plan[e] \in {"manual", "lose"}

LoserHidden ==
    \A x \in Events : plan[x] = "lose" =>
        \A f \in Fields : x \notin pen[f] /\ \A e \in Events : <<f, x>> \notin seen[e]

RecordsPlanned ==
    \A c \in conflicts :
        /\ c.resolution = "AUTO_RESOLVED" => plan[c.current] = "win"
        /\ c.resolution = "SUPERSEDED" => plan[c.current] = "lose"

\* A call that means to lose has candidates, and records each before it stops.
LoserJudged ==
    \A e \in Events :
        plan[e] = "lose" /\ step[e] \in {"record", "stopped"} =>
            \/ step[e] = "record" /\ todo[e] # {}
            \/ \E c \in conflicts : c.current = e /\ c.resolution = "SUPERSEDED"

VerdictInv ==
    EngineInv /\ PlanPlace /\ LoserHidden /\ RecordsPlanned /\ LoserJudged /\ NoCircle

LEMMA VerdictInit == Init => VerdictInv
<1> SUFFICES ASSUME Init PROVE VerdictInv
    OBVIOUS
<1>1. EngineInv
    BY EngineInit
<1>2. PlanPlace /\ LoserHidden /\ RecordsPlanned /\ LoserJudged
    BY DEF Init, PlanPlace, LoserHidden, RecordsPlanned, LoserJudged
<1>3. NoCircle
    BY DEF Init, NoCircle, Beats
<1> QED BY <1>1, <1>2, <1>3 DEF VerdictInv

\* A call that loses has somebody to lose to.
LEMMA LoserHasCandidates ==
    ASSUME NEW e, PlanFor(e) = "lose" PROVE Candidates(e) # {}
<1> DEFINE outcomes == {OutcomeAgainst(e, x) : x \in Candidates(e)}
<1>1. PlanFor(e) = CASE outcomes = {}                -> "alone"
                     [] outcomes = {"CURRENT_WINS"}  -> "win"
                     [] outcomes = {"CURRENT_LOSES"} -> "lose"
                     [] OTHER                        -> "manual"
    BY DEF PlanFor
<1>2. outcomes # {}
    <2> HIDE DEF outcomes
    <2> QED BY <1>1
<1> QED BY <1>2

LEMMA PlaceStep == VerdictInv /\ [Next]_vars => PlanPlace'
<1> SUFFICES ASSUME VerdictInv, [Next]_vars PROVE PlanPlace'
    OBVIOUS
<1> USE DEF VerdictInv, EngineInv, TypeOK, PlanPlace, Goto
<1>1. CASE UNCHANGED <<step, plan>>
    BY <1>1
<1>2. ASSUME NEW e \in Events, Receive(e) \/ Queue(e) \/ Abort(e) PROVE PlanPlace'
    BY <1>2 DEF Receive, Queue, Abort
<1>3. ASSUME NEW e \in Events, Decide(e) PROVE PlanPlace'
    <2>1. PlanFor(e) \in {"alone", "manual", "lose", "win"}
        BY PlanMeaning
    <2>2. /\ plan' = [plan EXCEPT ![e] = PlanFor(e)]
          /\ step' = [step EXCEPT ![e] = IF PlanFor(e) = "alone" THEN "enter" ELSE "record"]
        BY <1>3 DEF Decide
    <2> QED BY <2>1, <2>2
<1>4. ASSUME NEW e \in Events, SettleOwn(e) PROVE PlanPlace'
    <2>1. plan[e] \in {"win", "lose", "manual"}
        BY <1>4 DEF SettleOwn, PlanMade
    <2>2. /\ plan' = plan
          /\ step' = [step EXCEPT ![e] = IF plan[e] = "lose" THEN "stopped" ELSE "enter"]
        BY <1>4 DEF SettleOwn
    <2> QED BY <2>1, <2>2
<1>5. ASSUME NEW e \in Events, Leave(e) PROVE PlanPlace'
    BY <1>5 DEF Leave
<1>6. ASSUME NEW e \in Events, NEW x \in Events,
             RecordConflict(e, x) \/ SupersedeRival(e, x)
      PROVE  PlanPlace'
    BY <1>6 DEF RecordConflict, SupersedeRival
<1>7. \/ UNCHANGED <<step, plan>>
      \/ \E e \in Events : \/ Receive(e) \/ Decide(e) \/ SettleOwn(e)
                           \/ Leave(e) \/ Queue(e) \/ Abort(e)
      \/ \E e, x \in Events : RecordConflict(e, x) \/ SupersedeRival(e, x)
    BY DEF Next, vars, Tick, Look, LookFails, Enter, EnterFails
<1> QED BY <1>1, <1>2, <1>3, <1>4, <1>5, <1>6, <1>7

LEMMA HiddenStep == VerdictInv /\ [Next]_vars => LoserHidden'
<1> SUFFICES ASSUME VerdictInv, [Next]_vars PROVE LoserHidden'
    OBVIOUS
<1> USE DEF VerdictInv, EngineInv, TypeOK, LoserHidden
<1>1. CASE UNCHANGED <<pen, seen, plan>>
    BY <1>1
<1>2. ASSUME NEW e \in Events, Decide(e) PROVE LoserHidden'
    <2>1. /\ UNCHANGED <<pen, seen>>
          /\ plan' = [plan EXCEPT ![e] = PlanFor(e)]
          /\ ~Entered(e)
        BY <1>2 DEF Decide, Entered
    <2>2. \A f \in Fields : e \notin pen[f] /\ \A y \in Events : <<f, e>> \notin seen[y]
        BY <2>1 DEF PenEntered, SeenEntered
    <2> QED BY <2>1, <2>2
<1>3. ASSUME NEW e \in Events, NEW f \in Fields, Look(e, f) PROVE LoserHidden'
    <2>1. /\ UNCHANGED plan
          /\ \A g \in Fields : pen'[g] \subseteq pen[g]
          /\ \A x \in Events : x # e => seen'[x] = seen[x]
          /\ \A g \in Fields, x \in Events :
                <<g, x>> \in seen'[e] => <<g, x>> \in seen[e] \/ x \in pen[f]
        BY <1>3 DEF Look
    <2> SUFFICES ASSUME NEW x \in Events, plan'[x] = "lose", NEW g \in Fields
                 PROVE  x \notin pen'[g] /\ \A y \in Events : <<g, x>> \notin seen'[y]
        OBVIOUS
    <2>2. x \notin pen[g] /\ x \notin pen[f]
        BY <2>1
    <2>3. \A y \in Events : <<g, x>> \notin seen[y]
        BY <2>1
    <2> QED BY <2>1, <2>2, <2>3
<1>4. ASSUME NEW e \in Events, NEW f \in Fields, Enter(e, f) PROVE LoserHidden'
    <2>1. plan[e] # "lose" /\ UNCHANGED <<seen, plan>>
        BY <1>4 DEF Enter, PlanPlace
    <2>2. \A g \in Fields : pen'[g] \subseteq pen[g] \cup {e}
        BY <1>4 DEF Enter
    <2> QED BY <2>1, <2>2
<1>5. \/ UNCHANGED <<pen, seen, plan>>
      \/ \E e \in Events : Decide(e)
      \/ \E e \in Events, f \in Fields : Look(e, f) \/ Enter(e, f)
    BY DEF Next, vars, Tick, Receive, SettleOwn, Leave, Queue, Abort, LookFails,
           EnterFails, RecordConflict, SupersedeRival
<1> QED BY <1>1, <1>2, <1>3, <1>4, <1>5

LEMMA JudgedStep == VerdictInv /\ [Next]_vars => RecordsPlanned' /\ LoserJudged'
<1> SUFFICES ASSUME VerdictInv, [Next]_vars PROVE RecordsPlanned' /\ LoserJudged'
    OBVIOUS
<1> USE DEF VerdictInv, EngineInv, TypeOK, RecordsPlanned, LoserJudged, Goto
<1>a. \A c \in conflicts : c.current \in Events
    BY DEF Conflicts
<1>1. ASSUME UNCHANGED <<plan, todo, conflicts>>,
             \A x \in Events : step'[x] \in {"record", "stopped"} =>
                                  step'[x] = step[x] \/ plan[x] # "lose"
      PROVE  RecordsPlanned' /\ LoserJudged'
    BY <1>1
<1>2. CASE UNCHANGED vars
    BY <1>2, <1>1 DEF vars
<1>3. ASSUME NEW e \in Events, Decide(e) PROVE RecordsPlanned' /\ LoserJudged'
    <2>1. /\ UNCHANGED conflicts
          /\ plan' = [plan EXCEPT ![e] = PlanFor(e)]
          /\ todo' = [todo EXCEPT ![e] = Candidates(e)]
          /\ step' = [step EXCEPT ![e] = IF PlanFor(e) = "alone" THEN "enter" ELSE "record"]
          /\ plan[e] = "undecided"
        BY <1>3 DEF Decide, PlanPlace
    <2>2. PlanFor(e) = "lose" => Candidates(e) # {}
        BY LoserHasCandidates
    <2>3. RecordsPlanned'
        BY <2>1, <1>a
    <2> QED BY <2>1, <2>2, <2>3
<1>4. ASSUME NEW e \in Events, SettleOwn(e) PROVE RecordsPlanned' /\ LoserJudged'
    <2>1. /\ UNCHANGED <<plan, conflicts, todo>>
          /\ step[e] = "record" /\ todo[e] = {}
          /\ step' = [step EXCEPT ![e] = IF plan[e] = "lose" THEN "stopped" ELSE "enter"]
        BY <1>4 DEF SettleOwn
    <2> QED BY <2>1
<1>5. ASSUME NEW e \in Events, Receive(e) \/ Leave(e) \/ Queue(e) \/ Abort(e)
      PROVE  RecordsPlanned' /\ LoserJudged'
    BY <1>5, <1>1 DEF Receive, Leave, Queue, Abort
<1>6. ASSUME NEW e \in Events, NEW x \in Events, RecordConflict(e, x)
      PROVE  RecordsPlanned' /\ LoserJudged'
    <2>1. /\ conflicts' = conflicts \cup {Record(e, x)}
          /\ UNCHANGED plan
          /\ step[e] = "record"
          /\ plan[e] \in {"win", "lose", "manual"}
          /\ \A y \in Events : y # e => step'[y] = step[y] /\ todo'[y] = todo[y]
        BY <1>6 DEF RecordConflict, PlanMade
    <2>2. /\ Record(e, x).current = e
          /\ Record(e, x).resolution = "AUTO_RESOLVED" <=> plan[e] = "win"
          /\ Record(e, x).resolution = "SUPERSEDED" <=> plan[e] = "lose"
        BY <2>1 DEF Record
    <2>3. RecordsPlanned'
        BY <2>1, <2>2
    <2> QED BY <2>1, <2>2, <2>3
<1>7. ASSUME NEW e \in Events, NEW x \in Events, SupersedeRival(e, x)
      PROVE  RecordsPlanned' /\ LoserJudged'
    <2>1. /\ UNCHANGED <<plan, conflicts>>
          /\ plan[e] = "win"
          /\ \A y \in Events : y # e => step'[y] = step[y] /\ todo'[y] = todo[y]
        BY <1>7 DEF SupersedeRival, PlanPlace
    <2> QED BY <2>1
<1>8. \/ UNCHANGED <<step, plan, todo, conflicts>>
      \/ \E e \in Events : \/ Receive(e) \/ Decide(e) \/ SettleOwn(e)
                           \/ Leave(e) \/ Queue(e) \/ Abort(e)
      \/ \E e, x \in Events : RecordConflict(e, x) \/ SupersedeRival(e, x)
    BY DEF Next, vars, Tick, Look, LookFails, Enter, EnterFails
<1> QED BY <1>1, <1>3, <1>4, <1>5, <1>6, <1>7, <1>8

\* Nobody has beaten an event whose call is recording a victory, and an event
\* that means to lose beats nobody.
LEMMA WinnersUnbeaten ==
    ASSUME VerdictInv, NEW e \in Events, NEW w \in Events
    PROVE  /\ step[e] = "record" /\ plan[e] = "win" => ~Beats(w, e)
           /\ plan[e] = "lose" => ~Beats(e, w)
<1> USE DEF VerdictInv, EngineInv
<1>1. ASSUME NEW c \in conflicts
      PROVE  /\ c.current \in Events /\ c.competing \in Events
             /\ \E f \in Fields : <<f, c.competing>> \in seen[c.current]
    BY DEF TypeOK, Conflicts, RecordsTraced, Contested
<1>2. ASSUME step[e] = "record", plan[e] = "win" PROVE ~Beats(w, e)
    <2>1. \A f \in Fields, y \in Events : <<f, e>> \notin seen[y]
        BY <1>2 DEF SeenEntered, Entered
    <2> QED BY <1>1, <1>2, <2>1 DEF Beats, BeatsIn, RecordsPlanned
<1>3. ASSUME plan[e] = "lose" PROVE ~Beats(e, w)
    <2>1. \A f \in Fields, y \in Events : <<f, e>> \notin seen[y]
        BY <1>3 DEF LoserHidden
    <2> QED BY <1>1, <1>3, <2>1 DEF Beats, BeatsIn, RecordsPlanned
<1> QED BY <1>2, <1>3

LEMMA CircleStep == VerdictInv /\ [Next]_vars => NoCircle'
<1> SUFFICES ASSUME VerdictInv, [Next]_vars PROVE NoCircle'
    OBVIOUS
<1> USE DEF VerdictInv, EngineInv
<1>1. CASE UNCHANGED conflicts
    BY <1>1 DEF NoCircle, Beats
<1>2. ASSUME NEW e \in Events, NEW x \in Events, RecordConflict(e, x) PROVE NoCircle'
    <2>1. /\ conflicts' = conflicts \cup {Record(e, x)}
          /\ step[e] = "record" /\ x \in todo[e]
          /\ plan[e] \in {"win", "lose", "manual"}
        BY <1>2 DEF RecordConflict, PlanMade
    <2>2. x # e
        BY <2>1 DEF TodoSeen, Contested, OneHasSeen
    <2>3. /\ Record(e, x).current = e
          /\ Record(e, x).competing = x
          /\ Record(e, x).resolution = "AUTO_RESOLVED" <=> plan[e] = "win"
          /\ Record(e, x).resolution = "SUPERSEDED" <=> plan[e] = "lose"
        BY <2>1 DEF Record
    <2>4. \A w, l \in Events : Beats(w, l)' =>
            \/ Beats(w, l)
            \/ plan[e] = "win" /\ w = e /\ l = x
            \/ plan[e] = "lose" /\ w = x /\ l = e
        BY <2>1, <2>3 DEF Beats, BeatsIn
    <2> SUFFICES ASSUME NEW S \in (SUBSET Events) \ {{}}
                 PROVE  \E y \in S : \A w \in S : ~Beats(w, y)'
        BY DEF NoCircle
    <2>5. CASE e \notin S
        BY <2>4, <2>5 DEF NoCircle
    <2>6. CASE e \in S /\ plan[e] = "win"
        BY <2>1, <2>2, <2>4, <2>6, WinnersUnbeaten
    <2>7. CASE e \in S /\ plan[e] = "manual"
        BY <2>4, <2>7 DEF NoCircle
    <2>8. CASE S = {e} /\ plan[e] = "lose"
        BY <2>2, <2>4, <2>8 DEF NoCircle
    <2>9. CASE e \in S /\ S # {e} /\ plan[e] = "lose"
        <3>1. S \ {e} \in (SUBSET Events) \ {{}}
            BY <2>9
        <3>2. PICK y \in S \ {e} : \A w \in S \ {e} : ~Beats(w, y)
            BY <3>1 DEF NoCircle
        <3>3. ~Beats(e, y)
            BY <2>9, WinnersUnbeaten
        <3> QED BY <2>4, <2>9, <3>2, <3>3
    <2> QED BY <2>1, <2>5, <2>6, <2>7, <2>8, <2>9
<1>3. UNCHANGED conflicts \/ \E e, x \in Events : RecordConflict(e, x)
    BY DEF Next, vars, Tick, Receive, Decide, SettleOwn, Leave, Queue, Abort,
           Look, LookFails, Enter, EnterFails, SupersedeRival
<1> QED BY <1>1, <1>2, <1>3

THEOREM VerdictInvariant == Spec => []VerdictInv
<1>1. VerdictInv /\ [Next]_vars => VerdictInv'
    <2>1. VerdictInv => EngineInv
        BY DEF VerdictInv
    <2>2. EngineInv /\ [Next]_vars => EngineInv'
        BY EngineStep
    <2> QED BY <2>1, <2>2, PlaceStep, HiddenStep, JudgedStep, CircleStep DEF VerdictInv
<1> QED BY <1>1, VerdictInit, PTL DEF Spec

\* Whatever the events share and however their calls interleave, no set of
\* events beats itself round: conflict resolution orders them.
THEOREM NoCircleOfVerdicts == Spec => []NoCircle
<1>1. VerdictInv => NoCircle
    BY DEF VerdictInv
<1> QED BY <1>1, VerdictInvariant, PTL

\* When the calls are over and none failed, one of the changes that compete is
\* queued or waits for a reviewer: detectAndResolve never drops them all.
THEOREM SomeChangeSurvives == Spec => []ChangeSurvives
<1>1. VerdictInv => ChangeSurvives
    <2> SUFFICES ASSUME VerdictInv, \A e \in Events : step[e] \in {"queued", "stopped"}
                 PROVE  \E e \in Events : /\ ~Beaten(e)
                                          /\ step[e] = "queued" \/ plan[e] = "manual"
        BY DEF ChangeSurvives
    <2> USE DEF VerdictInv, EngineInv
    <2>1. PICK e \in Events : \A w \in Events : ~Beats(w, e)
        BY EngineAssumption DEF NoCircle
    <2>2. plan[e] # "lose" \/ step[e] # "stopped"
        <3> SUFFICES ASSUME plan[e] = "lose", step[e] = "stopped" PROVE FALSE
            OBVIOUS
        <3>1. PICK c \in conflicts : c.current = e /\ c.resolution = "SUPERSEDED"
            BY DEF LoserJudged
        <3>2. c.competing \in Events /\ BeatsIn(c, c.competing, e)
            BY <3>1 DEF TypeOK, Conflicts, BeatsIn
        <3> QED BY <2>1, <3>2 DEF Beats
    <2> QED BY <2>1, <2>2 DEF Beaten, PlanPlace
<1> QED BY <1>1, VerdictInvariant, PTL
=============================================================================
