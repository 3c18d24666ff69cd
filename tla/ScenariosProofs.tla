---------------------------- MODULE ScenariosProofs ----------------------------
(***************************************************************************)
(* Proofs about the scenario runners, for any number of calls of any kind.  *)
(*                                                                          *)
(* A row that is missing is somebody's to make: of every table but one, a   *)
(* run that is past the statement that deletes the row has yet to insert it *)
(* and cannot fail before it does, because the row whose insert would fail  *)
(* first is missing too.                                                    *)
(*                                                                          *)
(* A run that nothing overlapped is the only one under way, so the rows     *)
(* stay, and a failure that is armed is its own.  When no job of an earlier *)
(* run was left either, the worker has jobs of this run only, and a record  *)
(* that says COMPLETED tells of a change that is still in its table.        *)
(***************************************************************************)
EXTENDS Scenarios, TLAPS

PlacesOK ==
  /\ table \in [Tables -> (SUBSET Runs) \cup {Absent}]
  /\ phase \in [Runs -> Phases]
  /\ at \in [Runs -> 1..14]
  /\ worker \in [job : Jobs \cup {NoJob}, step : WorkerSteps]

Preparing(r) == phase[r] = "preparing"

\* Run r is preparing and will come to the insert into t, or give up at one
\* whose row another run has made.
WillMake(r, t) ==
  /\ Preparing(r)
  /\ \/ t = "businesses" /\ at[r] = 6
     \/ t = "registry" /\ at[r] = 8
     \/ t = "sws" /\ at[r] = 12
     \/ t = "ekarmika" /\ at[r] \in {10, 11, 13}
     \/ t = "esurakshate" /\ at[r] \in {11, 13, 14}
     \/ t \in Departments /\ at[r] = 12 /\ table["sws"] = Absent

GaveUp(r) == phase[r] = "failed" /\ at[r] = 13

Somebodys(t) ==
  \/ \E r \in Runs : WillMake(r, t)
  \/ t = "esurakshate" /\ \E r \in Runs : GaveUp(r)

MissingIsSomebodys == \A t \in Tables : table[t] = Absent => Somebodys(t)

RestoreInv == PlacesOK /\ MissingIsSomebodys

-----------------------------------------------------------------------------
LEMMA Steps ==
  /\ Len(Plan) = 14
  /\ \A i \in 1..14 : Plan[i][1] = "wipe" =>
       \/ i = 5 /\ Plan[i][2] = "businesses"
       \/ i = 7 /\ Plan[i][2] = "registry"
       \/ i = 9 /\ Plan[i][2] = "ekarmika"
       \/ i = 10 /\ Plan[i][2] = "esurakshate"
       \/ i = 11 /\ Plan[i][2] = "sws"
  /\ \A i \in 1..14 : Plan[i][1] = "make" =>
       \/ i = 6 /\ Plan[i][2] = "businesses"
       \/ i = 8 /\ Plan[i][2] = "registry"
       \/ i = 12 /\ Plan[i][2] = "sws"
       \/ i = 13 /\ Plan[i][2] = "ekarmika"
       \/ i = 14 /\ Plan[i][2] = "esurakshate"
  /\ \A i \in 1..14 : Plan[i][1] = "empty" => i \in 1..4
  /\ Plan[13] = <<"make", "ekarmika">>
<1>1. Len(Plan) = 14
  BY DEF Plan
<1>2. ASSUME NEW i \in 1..14, Plan[i][1] = "wipe"
      PROVE  \/ i = 5 /\ Plan[i][2] = "businesses"
             \/ i = 7 /\ Plan[i][2] = "registry"
             \/ i = 9 /\ Plan[i][2] = "ekarmika"
             \/ i = 10 /\ Plan[i][2] = "esurakshate"
             \/ i = 11 /\ Plan[i][2] = "sws"
  BY <1>2, SMTT(30) DEF Plan
<1>3. ASSUME NEW i \in 1..14, Plan[i][1] = "make"
      PROVE  \/ i = 6 /\ Plan[i][2] = "businesses"
             \/ i = 8 /\ Plan[i][2] = "registry"
             \/ i = 12 /\ Plan[i][2] = "sws"
             \/ i = 13 /\ Plan[i][2] = "ekarmika"
             \/ i = 14 /\ Plan[i][2] = "esurakshate"
  BY <1>3, SMTT(30) DEF Plan
<1>4. ASSUME NEW i \in 1..14, Plan[i][1] = "empty" PROVE i \in 1..4
  BY <1>4, SMTT(30) DEF Plan
<1>5. Plan[13] = <<"make", "ekarmika">>
  BY DEF Plan
<1> QED BY <1>1, <1>2, <1>3, <1>4, <1>5

LEMMA SetsArePresent == \A rs \in SUBSET Runs : rs # Absent
BY ScenariosAssumption

LEMMA OwnerIsRun ==
  ASSUME PlacesOK, worker.job # NoJob PROVE Owner \in Runs
BY DEF PlacesOK, Owner, Jobs

LEMMA RestoreInit == Init => RestoreInv
<1> SUFFICES ASSUME Init PROVE RestoreInv
  OBVIOUS
<1>1. PlacesOK
  <2>1. table \in [Tables -> (SUBSET Runs) \cup {Absent}]
    BY DEF Init, Seed
  <2>2. phase \in [Runs -> Phases]
    BY DEF Init, Phases, Over
  <2>3. at \in [Runs -> 1..14]
    BY DEF Init
  <2>4. worker \in [job : Jobs \cup {NoJob}, step : WorkerSteps]
    BY DEF Init, Idle, WorkerSteps
  <2> QED BY <2>1, <2>2, <2>3, <2>4 DEF PlacesOK
<1>2. MissingIsSomebodys
  BY SetsArePresent DEF Init, Seed, MissingIsSomebodys
<1> QED BY <1>1, <1>2 DEF RestoreInv

\* A step that deletes no row, moves no preparing run and revives no failed one.
LEMMA Elsewhere ==
  ASSUME RestoreInv, PlacesOK', NEW r \in Runs, phase[r] # "preparing", phase[r] # "failed",
         \A t \in Tables : table'[t] = Absent <=> table[t] = Absent,
         \A x \in Runs \ {r} : phase'[x] = phase[x] /\ at'[x] = at[x]
  PROVE  RestoreInv'
<1>1. \A x \in Runs, t \in Tables : WillMake(x, t) => WillMake(x, t)'
  BY DEF WillMake, Preparing, Tables, Departments
<1>2. \A x \in Runs : GaveUp(x) => GaveUp(x)'
  BY DEF GaveUp
<1>3. MissingIsSomebodys'
  BY <1>1, <1>2 DEF RestoreInv, MissingIsSomebodys, Somebodys
<1> QED BY <1>3 DEF RestoreInv

\* The same of a step that moves no run at all.
LEMMA Standstill ==
  ASSUME RestoreInv, PlacesOK', UNCHANGED <<phase, at>>,
         \A t \in Tables : table'[t] = Absent <=> table[t] = Absent
  PROVE  RestoreInv'
<1>1. \A x \in Runs, t \in Tables : WillMake(x, t) => WillMake(x, t)'
  BY DEF WillMake, Preparing, Tables, Departments
<1>2. \A x \in Runs : GaveUp(x) => GaveUp(x)'
  BY DEF GaveUp
<1>3. MissingIsSomebodys'
  BY <1>1, <1>2 DEF RestoreInv, MissingIsSomebodys, Somebodys
<1> QED BY <1>3 DEF RestoreInv

-----------------------------------------------------------------------------
(* Preparation.                                                             *)

LEMMA RestoreStart ==
  ASSUME RestoreInv, NEW r \in Runs, Start(r) PROVE RestoreInv'
<1>1. PlacesOK'
  <2>1. phase' \in [Runs -> Phases]
    BY DEF RestoreInv, PlacesOK, Start, Goto, Phases
  <2>2. at' \in [Runs -> 1..14]
    BY DEF RestoreInv, PlacesOK, Start, FirstStep
  <2>3. UNCHANGED <<table, worker>>
    BY DEF Start, pipeline
  <2> QED BY <2>1, <2>2, <2>3 DEF RestoreInv, PlacesOK
<1>2. phase[r] = "idle" /\ UNCHANGED table
  BY DEF Start
<1>3. \A x \in Runs \ {r} : phase'[x] = phase[x] /\ at'[x] = at[x]
  BY DEF RestoreInv, PlacesOK, Start, Goto
<1> QED BY <1>1, <1>2, <1>3, Elsewhere

\* What a statement of the preparation does to the place of its run.
LEMMA Advances ==
  ASSUME RestoreInv, NEW r \in Runs, Advance(r), Preparing(r)
  PROVE  /\ phase' \in [Runs -> Phases] /\ at' \in [Runs -> 1..14]
         /\ \A x \in Runs \ {r} : phase'[x] = phase[x] /\ at'[x] = at[x]
         /\ at[r] < 14 => Preparing(r)' /\ at'[r] = at[r] + 1
<1>1. Len(Plan) = 14
  BY Steps
<1>2. CASE at[r] < 14
  BY <1>1, <1>2 DEF RestoreInv, PlacesOK, Advance, Preparing
<1>3. CASE ~(at[r] < 14)
  BY <1>1, <1>3 DEF RestoreInv, PlacesOK, Advance, Goto, Phases, Over
<1>4. at[r] \in 1..14
  BY DEF RestoreInv, PlacesOK
<1> QED BY <1>2, <1>3, <1>4

\* A run that is before the first insert owes nothing.
LEMMA RestoreEmpty ==
  ASSUME RestoreInv, NEW r \in Runs, EmptyQueues(r) \/ EmptyTable(r) PROVE RestoreInv'
<1>1. Preparing(r) /\ Advance(r) /\ UNCHANGED <<table, worker>>
  BY DEF EmptyQueues, EmptyTable, Doing, Preparing
<1>2. at[r] \in 1..4
  BY Steps DEF EmptyQueues, EmptyTable, Doing, RestoreInv, PlacesOK
<1>3. PlacesOK'
  BY <1>1, Advances DEF RestoreInv, PlacesOK
<1>4. \A x \in Runs \ {r} : phase'[x] = phase[x] /\ at'[x] = at[x]
  BY <1>1, Advances
<1>5. \A x \in Runs, t \in Tables : WillMake(x, t) => WillMake(x, t)'
  BY <1>1, <1>2, <1>4 DEF WillMake, Preparing, Tables, Departments
<1>6. \A x \in Runs : GaveUp(x) => GaveUp(x)'
  BY <1>1, <1>4 DEF GaveUp, Preparing
<1>7. MissingIsSomebodys'
  BY <1>1, <1>5, <1>6 DEF RestoreInv, MissingIsSomebodys, Somebodys
<1> QED BY <1>3, <1>7 DEF RestoreInv

LEMMA RestoreWipe ==
  ASSUME RestoreInv, NEW r \in Runs, Wipe(r) PROVE RestoreInv'
<1> PICK w : w = Plan[at[r]][2]
  OBVIOUS
<1>1. Preparing(r) /\ Advance(r) /\ UNCHANGED worker /\ table' = [table EXCEPT ![w] = Absent]
  BY DEF Wipe, Doing, Preparing, pipeline
<1>2. \/ at[r] = 5 /\ w = "businesses"
      \/ at[r] = 7 /\ w = "registry"
      \/ at[r] = 9 /\ w = "ekarmika"
      \/ at[r] = 10 /\ w = "esurakshate"
      \/ at[r] = 11 /\ w = "sws"
  BY Steps DEF Wipe, Doing, RestoreInv, PlacesOK
<1>3. PlacesOK'
  <2>1. table' \in [Tables -> (SUBSET Runs) \cup {Absent}]
    BY <1>1 DEF RestoreInv, PlacesOK
  <2> QED BY <2>1, <1>1, Advances DEF RestoreInv, PlacesOK
<1>4. \A x \in Runs \ {r} : phase'[x] = phase[x] /\ at'[x] = at[x]
  BY <1>1, Advances
<1>5. Preparing(r)' /\ at'[r] = at[r] + 1
  BY <1>1, <1>2, Advances
<1>6. w \in Tables /\ table'[w] = Absent /\ \A t \in Tables \ {w} : table'[t] = table[t]
  BY <1>1, <1>2 DEF RestoreInv, PlacesOK, Tables, Departments
<1>7. WillMake(r, w)'
  BY <1>2, <1>5, <1>6 DEF WillMake
<1>8. table["sws"] = Absent => table'["sws"] = Absent
  BY <1>6 DEF Tables
<1>9. \A x \in Runs \ {r}, t \in Tables : WillMake(x, t) => WillMake(x, t)'
  BY <1>4, <1>8 DEF WillMake, Preparing
<1>10. \A t \in Tables : WillMake(r, t) => WillMake(r, t)'
  BY <1>2, <1>5, <1>6 DEF WillMake, Tables, Departments
<1>11. \A x \in Runs : GaveUp(x) => GaveUp(x)'
  BY <1>1, <1>4 DEF GaveUp, Preparing
<1>12. ASSUME NEW t \in Tables, table'[t] = Absent PROVE Somebodys(t)'
  <2>1. CASE t = w
    BY <2>1, <1>7 DEF Somebodys
  <2>2. CASE t # w
    BY <2>2, <1>6, <1>9, <1>10, <1>11, <1>12 DEF RestoreInv, MissingIsSomebodys, Somebodys
  <2> QED BY <2>1, <2>2
<1> QED BY <1>3, <1>12 DEF RestoreInv, MissingIsSomebodys

\* The record of SWS is made first: who finds it missing and makes it goes on to
\* the records of both departments.
LEMMA RestoreMake ==
  ASSUME RestoreInv, NEW r \in Runs, Make(r) PROVE RestoreInv'
<1> PICK w : w = Plan[at[r]][2]
  OBVIOUS
<1>1. /\ Preparing(r) /\ Advance(r) /\ UNCHANGED worker
      /\ table[w] = Absent /\ table' = [table EXCEPT ![w] = {}]
  BY DEF Make, Seed, Doing, Preparing, pipeline
<1>2. \/ at[r] = 6 /\ w = "businesses"
      \/ at[r] = 8 /\ w = "registry"
      \/ at[r] = 12 /\ w = "sws"
      \/ at[r] = 13 /\ w = "ekarmika"
      \/ at[r] = 14 /\ w = "esurakshate"
  BY Steps DEF Make, Seed, Doing, RestoreInv, PlacesOK
<1>3. PlacesOK'
  <2>1. table' \in [Tables -> (SUBSET Runs) \cup {Absent}]
    BY <1>1 DEF RestoreInv, PlacesOK
  <2> QED BY <2>1, <1>1, Advances DEF RestoreInv, PlacesOK
<1>4. \A x \in Runs \ {r} : phase'[x] = phase[x] /\ at'[x] = at[x]
  BY <1>1, Advances
<1>5. at[r] < 14 => Preparing(r)' /\ at'[r] = at[r] + 1
  BY <1>1, Advances
<1>6. w \in Tables /\ table'[w] # Absent /\ \A t \in Tables \ {w} : table'[t] = table[t]
  BY <1>1, <1>2, SetsArePresent DEF RestoreInv, PlacesOK, Tables, Departments
<1>7. ASSUME NEW t \in Tables, t # w, table[t] = Absent PROVE Somebodys(t)'
  <2>1. CASE t = "esurakshate" /\ \E x \in Runs : GaveUp(x)
    BY <2>1, <1>1, <1>4 DEF GaveUp, Preparing, Somebodys
  <2>2. CASE \E x \in Runs : WillMake(x, t)
    <3> PICK x \in Runs : WillMake(x, t)
      BY <2>2
    <3>1. CASE x = r
      <4>1. WillMake(r, t)'
        BY <3>1, <1>2, <1>5, <1>7 DEF WillMake, Departments
      <4> QED BY <4>1 DEF Somebodys
    <3>2. CASE x # r /\ w = "sws" /\ t \in Departments
      <4>1. WillMake(r, t)'
        BY <3>2, <1>2, <1>5 DEF WillMake, Departments
      <4> QED BY <4>1 DEF Somebodys
    <3>3. CASE x # r /\ ~(w = "sws" /\ t \in Departments)
      <4>1. WillMake(x, t)'
        BY <3>3, <1>4, <1>6 DEF WillMake, Preparing, Tables
      <4> QED BY <4>1 DEF Somebodys
    <3> QED BY <3>1, <3>2, <3>3
  <2> QED BY <2>1, <2>2, <1>7 DEF RestoreInv, MissingIsSomebodys, Somebodys
<1>8. MissingIsSomebodys'
  BY <1>6, <1>7 DEF MissingIsSomebodys
<1> QED BY <1>3, <1>8 DEF RestoreInv

\* An insert fails because the row is there; only the e-Surakshate record can
\* have been left to the run that gives up.
LEMMA RestoreMakeFails ==
  ASSUME RestoreInv, NEW r \in Runs, MakeFails(r) PROVE RestoreInv'
<1> PICK w : w = Plan[at[r]][2]
  OBVIOUS
<1>1. /\ Preparing(r) /\ UNCHANGED <<worker, table, at>> /\ table[w] # Absent
      /\ phase' = [phase EXCEPT ![r] = "failed"]
  BY DEF MakeFails, Doing, Preparing, pipeline, Goto
<1>2. \/ at[r] = 6 /\ w = "businesses"
      \/ at[r] = 8 /\ w = "registry"
      \/ at[r] = 12 /\ w = "sws"
      \/ at[r] = 13 /\ w = "ekarmika"
      \/ at[r] = 14 /\ w = "esurakshate"
  BY Steps DEF MakeFails, Doing, RestoreInv, PlacesOK
<1>3. PlacesOK'
  BY <1>1 DEF RestoreInv, PlacesOK, Phases, Over
<1>4. phase'[r] = "failed" /\ \A x \in Runs \ {r} : phase'[x] = phase[x]
  BY <1>1 DEF RestoreInv, PlacesOK
<1>5. ASSUME NEW t \in Tables, table[t] = Absent PROVE Somebodys(t)'
  <2>1. CASE t = "esurakshate" /\ \E x \in Runs : GaveUp(x)
    BY <2>1, <1>1, <1>4 DEF GaveUp, Preparing, Somebodys
  <2>2. CASE \E x \in Runs : WillMake(x, t)
    <3> PICK x \in Runs : WillMake(x, t)
      BY <2>2
    <3>1. CASE x = r
      <4>1. t = "esurakshate" /\ at[r] = 13
        BY <3>1, <1>1, <1>2, <1>5 DEF WillMake, Departments
      <4>2. GaveUp(r)'
        BY <4>1, <1>1, <1>4 DEF GaveUp
      <4> QED BY <4>1, <4>2 DEF Somebodys
    <3>2. CASE x # r
      <4>1. WillMake(x, t)'
        BY <3>2, <1>1, <1>4 DEF WillMake, Preparing
      <4> QED BY <4>1 DEF Somebodys
    <3> QED BY <3>1, <3>2
  <2> QED BY <2>1, <2>2, <1>5 DEF RestoreInv, MissingIsSomebodys, Somebodys
<1> QED BY <1>1, <1>3, <1>5 DEF RestoreInv, MissingIsSomebodys

-----------------------------------------------------------------------------
(* Everything else.                                                         *)

LEMMA RestoreSubmit ==
  ASSUME RestoreInv, NEW r \in Runs, Submit(r) PROVE RestoreInv'
<1>1. UNCHANGED <<table, at, worker>> /\ phase[r] # "preparing" /\ phase[r] # "failed"
  BY DEF Submit, Accept, Enqueue, FinishIngest, UpdateEvent
<1>2. \E p \in Phases : phase' = [phase EXCEPT ![r] = p]
  BY DEF Submit, Accept, Enqueue, FinishIngest, UpdateEvent, Goto, Phases, Over
<1>3. PlacesOK'
  BY <1>1, <1>2 DEF RestoreInv, PlacesOK
<1>4. \A x \in Runs \ {r} : phase'[x] = phase[x] /\ at'[x] = at[x]
  BY <1>1, <1>2 DEF RestoreInv, PlacesOK
<1> QED BY <1>1, <1>3, <1>4, Elsewhere

LEMMA RestoreAwait ==
  ASSUME RestoreInv, NEW r \in Runs, Await(r) PROVE RestoreInv'
<1>1. UNCHANGED <<table, at, worker>> /\ phase[r] # "preparing" /\ phase[r] # "failed"
  BY DEF Await, PollEvent, PollJobs, WaitTimesOut, ReadLogs, Judge, pipeline
<1>2. phase' = phase \/ \E p \in Phases : phase' = [phase EXCEPT ![r] = p]
  BY DEF Await, PollEvent, PollJobs, WaitTimesOut, ReadLogs, Judge, Round, WaitOver, Goto,
         Phases, Over
<1>3. PlacesOK'
  BY <1>1, <1>2 DEF RestoreInv, PlacesOK
<1>4. \A x \in Runs \ {r} : phase'[x] = phase[x] /\ at'[x] = at[x]
  BY <1>1, <1>2 DEF RestoreInv, PlacesOK
<1> QED BY <1>1, <1>3, <1>4, Elsewhere

LEMMA RestoreWork ==
  ASSUME RestoreInv, Work PROVE RestoreInv'
<1>1. ASSUME NEW j \in Jobs, Take(j) PROVE RestoreInv'
  <2>1. UNCHANGED <<table, phase, at>>
    BY <1>1 DEF Take, restored
  <2>2. worker' = Idle \/ worker' = [job |-> j, step |-> "write"]
    BY <1>1 DEF Take, Ended
  <2>3. worker' \in [job : Jobs \cup {NoJob}, step : WorkerSteps]
    BY <2>2 DEF Idle, WorkerSteps
  <2>4. PlacesOK'
    BY <2>1, <2>3 DEF RestoreInv, PlacesOK
  <2> QED BY <2>1, <2>4, Standstill
<1>2. CASE Write
  <2>1. UNCHANGED <<phase, at>> /\ worker.job # NoJob
    BY <1>2 DEF Write, Now
  <2>2. Owner \in Runs
    BY <2>1, OwnerIsRun DEF RestoreInv
  <2>3. worker' \in [job : Jobs \cup {NoJob}, step : WorkerSteps]
    BY <1>2 DEF Write, Then, RestoreInv, PlacesOK, WorkerSteps
  <2>4. UNCHANGED table \/
          \E rs \in SUBSET Runs :
            table[Target] # Absent /\ table' = [table EXCEPT ![Target] = rs]
    <3>1. CASE UNCHANGED table
      BY <3>1
    <3>2. CASE ~UNCHANGED table
      <4> DEFINE rs == {x \in table[Target] : Kind[x] # Kind[Owner]} \cup {Owner}
      <4>1. table[Target] # Absent /\ table' = [table EXCEPT ![Target] = rs]
        BY <1>2, <3>2 DEF Write
      <4>2. Target \in Tables
        BY <2>1 DEF RestoreInv, PlacesOK, Target, Jobs, Tables
      <4>3. table[Target] \in SUBSET Runs
        BY <4>1, <4>2 DEF RestoreInv, PlacesOK
      <4>4. rs \in SUBSET Runs
        BY <2>2, <4>3
      <4> QED BY <4>1, <4>4
    <3> QED BY <3>1, <3>2
  <2>5. \A t \in Tables : table'[t] = Absent <=> table[t] = Absent
    BY <2>4, SetsArePresent DEF RestoreInv, PlacesOK
  <2>6. PlacesOK'
    BY <2>1, <2>3, <2>4 DEF RestoreInv, PlacesOK
  <2> QED BY <2>1, <2>5, <2>6, Standstill
<1>3. CASE Complete \/ Settle \/ Log \/ Failed \/ Reschedule
  <2>1. UNCHANGED <<table, phase, at>>
    BY <1>3 DEF Complete, Settle, Log, Failed, Reschedule, restored
  <2>2. worker' = Idle \/ \E s \in WorkerSteps : worker' = [worker EXCEPT !.step = s]
    BY <1>3 DEF Complete, Settle, Log, Failed, Reschedule, Ended, Then, WorkerSteps
  <2>3. worker' \in [job : Jobs \cup {NoJob}, step : WorkerSteps]
    BY <2>2 DEF RestoreInv, PlacesOK, Idle, WorkerSteps
  <2>4. PlacesOK'
    BY <2>1, <2>3 DEF RestoreInv, PlacesOK
  <2> QED BY <2>1, <2>4, Standstill
<1> QED BY <1>1, <1>2, <1>3 DEF Work

LEMMA RestoreStutter ==
  ASSUME RestoreInv, UNCHANGED vars PROVE RestoreInv'
<1>1. UNCHANGED <<table, phase, at, worker>>
  BY DEF vars, restored, pipeline
<1>2. PlacesOK'
  BY <1>1 DEF RestoreInv, PlacesOK
<1> QED BY <1>1, <1>2, Standstill

LEMMA RestoreStep ==
  ASSUME RestoreInv, [Next]_vars PROVE RestoreInv'
<1>1. ASSUME NEW r \in Runs, Prepare(r) PROVE RestoreInv'
  BY <1>1, RestoreStart, RestoreEmpty, RestoreWipe, RestoreMake, RestoreMakeFails DEF Prepare
<1>2. ASSUME NEW r \in Runs, Submit(r) \/ Await(r) PROVE RestoreInv'
  BY <1>2, RestoreSubmit, RestoreAwait
<1>3. CASE Work
  BY <1>3, RestoreWork
<1>4. CASE UNCHANGED vars
  BY <1>4, RestoreStutter
<1> QED BY <1>1, <1>2, <1>3, <1>4 DEF Next

-----------------------------------------------------------------------------
\* A row that is missing is somebody's to make, or was given up with the insert
\* of the e-Karmika record (prepareScenarioWorkspace, restoreMockRecords).
THEOREM MissingRowsAreSomebodys == Spec => []RestoreInv
<1>1. Init => RestoreInv
  BY RestoreInit
<1>2. RestoreInv /\ [Next]_vars => RestoreInv'
  BY RestoreStep
<1> QED BY <1>1, <1>2, PTL DEF Spec

\* Whatever the number of runners that prepared the business at once, it has all
\* its rows when none is preparing it, but for the e-Surakshate record that a
\* run may have given up (prepareScenarioDemoState, prepareScenarioWorkspace).
THEOREM BusinessIsRestored == Spec => []RestoredAtRest
<1>1. RestoreInv => RestoredAtRest
  <2> SUFFICES ASSUME RestoreInv, \A r \in Runs : phase[r] # "preparing",
                      NEW t \in Tables, table[t] = Absent
               PROVE  t = "esurakshate" /\ GaveUpAt("ekarmika")
    BY DEF RestoredAtRest
  <2>1. \A r \in Runs : ~WillMake(r, t)
    BY DEF WillMake, Preparing
  <2>2. t = "esurakshate" /\ \E r \in Runs : GaveUp(r)
    BY <2>1 DEF RestoreInv, MissingIsSomebodys, Somebodys
  <2>3. Plan[13] = <<"make", "ekarmika">>
    BY Steps
  <2> QED BY <2>2, <2>3 DEF GaveUp, GaveUpAt
<1> QED BY <1>1, MissingRowsAreSomebodys, PTL

-----------------------------------------------------------------------------
(* Types.  A job is put into the queue once, by its run, and is run again     *)
(* only while it has attempts left.                                           *)

\* The run of job j has not come to the point where it enqueues it.
NotYet(j) ==
  \/ phase[j[1]] \in {"idle", "preparing", "accepting", "enqueueing"}
  \/ phase[j[1]] = "enqueueing next" /\ j[2] = "esurakshate"

JobFresh(j) ==
  /\ bull[j] = "absent" /\ record[j] = "none" /\ tries[j] = 0 /\ worker.job # j
  /\ j[2] = "ekarmika" => audits[j[1]] = {}

JobsInv ==
  \A j \in Jobs :
    /\ NotYet(j) => JobFresh(j)
    /\ bull[j] \in {"waiting", "active"} \/ worker.job = j => tries[j] < MaxAttempts

StoresInv == TypeOK /\ JobsInv

LEMMA JobParts == \A j \in Jobs : j[1] \in Runs /\ j[2] \in Departments
BY DEF Jobs

LEMMA JobOf == \A r \in Runs, d \in Departments : <<r, d>> \in Jobs
BY DEF Jobs

LEMMA JobIs == \A i, j \in Jobs : i[1] = j[1] /\ i[2] = j[2] => i = j
BY DEF Jobs

LEMMA NoJobIsNone == NoJob \notin Jobs
BY ScenariosAssumption DEF Jobs, Departments

LEMMA SomeAttempts == MaxAttempts \in Nat /\ 0 < MaxAttempts
BY ScenariosAssumption

LEMMA StoresInit == Init => StoresInv
<1> SUFFICES ASSUME Init PROVE StoresInv
  OBVIOUS
<1>1. TypeOK
  <2>1. table \in [Tables -> (SUBSET Runs) \cup {Absent}] /\ at \in [Runs -> 1..Len(Plan)]
    BY Steps DEF Init, Seed
  <2>2. /\ phase \in [Runs -> Phases] /\ event \in [Runs -> Statuses]
        /\ record \in [Jobs -> {"none", "QUEUED", "PROCESSING", "COMPLETED",
                                "RETRY_SCHEDULED", "DLQ_MOVED"}]
        /\ bull \in [Jobs -> {"absent", "waiting", "active", "completed", "failed"}]
    BY DEF Init, Phases, Over, Statuses
  <2>3. tries \in [Jobs -> 0..MaxAttempts] /\ rule \in 0..1
    BY ScenariosAssumption DEF Init
  <2>4. worker \in [job : Jobs \cup {NoJob}, step : WorkerSteps]
    BY DEF Init, Idle, WorkerSteps
  <2>5. /\ audits \in [Runs -> SUBSET {"failed", "retried", "succeeded", "buried"}]
        /\ seen \in [Runs -> SUBSET {"event", "jobs"}]
        /\ logs \in [Runs -> SUBSET {"failed", "retried", "succeeded", "buried"}]
        /\ disturbed \subseteq Runs /\ inherited \subseteq Runs
    BY DEF Init
  <2> QED BY <2>1, <2>2, <2>3, <2>4, <2>5 DEF TypeOK
<1>2. JobsInv
  BY JobParts, NoJobIsNone, ScenariosAssumption DEF Init, Idle, JobsInv, JobFresh
<1> QED BY <1>1, <1>2 DEF StoresInv

\* A step of a run that leaves the worker, its queue and the audit log alone, and
\* takes the run no further back than it was.
LEMMA JobsElsewhere ==
  ASSUME StoresInv, UNCHANGED <<record, bull, tries, worker, audits>>,
         \A j \in Jobs : NotYet(j)' => NotYet(j)
  PROVE  JobsInv'
BY DEF StoresInv, JobsInv, JobFresh

LEMMA StoresPrepare ==
  ASSUME StoresInv, NEW r \in Runs, Prepare(r) PROVE StoresInv'
<1> USE DEF StoresInv
<1>1. CASE Start(r)
  <2>1. phase[r] = "idle" /\ phase' = [phase EXCEPT ![r] = "preparing"]
    BY <1>1 DEF Start, Goto
  <2>2. UNCHANGED <<table, event, record, bull, tries, worker, audits, seen, logs>> /\ rule' = 0
    BY <1>1 DEF Start, pipeline
  <2>3. phase' \in [Runs -> Phases]
    BY <2>1 DEF TypeOK, Phases
  <2>4. at' \in [Runs -> 1..Len(Plan)]
    BY <1>1, Steps DEF TypeOK, Start, FirstStep
  <2>5. disturbed' \subseteq Runs /\ inherited' \subseteq Runs
    BY <1>1 DEF TypeOK, Start, Witness, Active
  <2>6. TypeOK'
    BY <2>2, <2>3, <2>4, <2>5 DEF TypeOK
  <2>7. \A j \in Jobs : NotYet(j)' => NotYet(j)
    BY <2>1, JobParts DEF TypeOK, NotYet
  <2> QED BY <2>2, <2>6, <2>7, JobsElsewhere
<1>2. ASSUME Preparing(r), Advance(r)
      PROVE  /\ phase' \in [Runs -> Phases] /\ at' \in [Runs -> 1..Len(Plan)] /\ rule' \in 0..1
             /\ \A j \in Jobs : NotYet(j)' => NotYet(j)
  <2>1. CASE at[r] < Len(Plan)
    <3>1. at[r] + 1 \in 1..Len(Plan)
      BY <2>1, Steps DEF TypeOK
    <3>2. UNCHANGED <<phase, rule>> /\ at' = [at EXCEPT ![r] = @ + 1]
      BY <1>2, <2>1 DEF Advance
    <3>3. \A j \in Jobs : NotYet(j)' => NotYet(j)
      BY <3>2 DEF NotYet
    <3> QED BY <3>1, <3>2, <3>3 DEF TypeOK
  <2>2. CASE ~(at[r] < Len(Plan))
    <3>1. \E p \in {"passed", "accepting"} : phase' = [phase EXCEPT ![r] = p]
      BY <1>2, <2>2 DEF Advance, Goto
    <3>2. UNCHANGED at /\ rule' \in 0..1
      BY <1>2, <2>2 DEF Advance, TypeOK
    <3>3. phase' \in [Runs -> Phases]
      BY <3>1 DEF TypeOK, Phases, Over
    <3>4. \A j \in Jobs : NotYet(j)' => NotYet(j)
      BY <1>2, <3>1, JobParts DEF TypeOK, NotYet, Preparing
    <3> QED BY <3>2, <3>3, <3>4 DEF TypeOK
  <2> QED BY <2>1, <2>2
<1>3. CASE EmptyQueues(r)
  <2>1. Preparing(r) /\ Advance(r)
    BY <1>3 DEF EmptyQueues, Doing, Preparing
  <2>2. /\ UNCHANGED <<table, event, record, tries, worker, audits, seen, logs, disturbed, inherited>>
        /\ bull' = [j \in Jobs |-> "absent"]
    BY <1>3 DEF EmptyQueues, history
  <2>3. TypeOK'
    BY <1>2, <2>1, <2>2 DEF TypeOK
  <2>4. JobsInv'
    BY <1>2, <2>1, <2>2 DEF JobsInv, JobFresh
  <2> QED BY <2>3, <2>4
<1>4. CASE EmptyTable(r)
  <2>1. Preparing(r) /\ Advance(r)
    BY <1>4 DEF EmptyTable, Doing, Preparing
  <2>2. UNCHANGED <<table, bull, tries, worker, seen, logs, disturbed, inherited>>
    BY <1>4 DEF EmptyTable, history
  <2>3. /\ audits' = audits \/ audits' = [x \in Runs |-> {}]
        /\ record' = record \/ record' = [j \in Jobs |-> "none"]
        /\ event' = event \/ event' = [x \in Runs |-> "none"]
    BY <1>4 DEF EmptyTable
  <2>4. TypeOK'
    <3>1. audits' \in [Runs -> SUBSET {"failed", "retried", "succeeded", "buried"}]
      BY <2>3 DEF TypeOK
    <3>2. record' \in [Jobs -> {"none", "QUEUED", "PROCESSING", "COMPLETED",
                                "RETRY_SCHEDULED", "DLQ_MOVED"}]
      BY <2>3 DEF TypeOK
    <3>3. event' \in [Runs -> Statuses]
      BY <2>3 DEF TypeOK, Statuses
    <3> QED BY <1>2, <2>1, <2>2, <3>1, <3>2, <3>3 DEF TypeOK
  <2>5. JobsInv'
    BY <1>2, <2>1, <2>2, <2>3, JobParts DEF JobsInv, JobFresh
  <2> QED BY <2>4, <2>5
<1>5. CASE Wipe(r) \/ Make(r)
  <2>1. Preparing(r) /\ Advance(r)
    BY <1>5 DEF Wipe, Make, Doing, Preparing
  <2>2. UNCHANGED <<event, record, bull, tries, worker, audits, seen, logs, disturbed, inherited>>
    BY <1>5 DEF Wipe, Make, pipeline, history
  <2>3. table' = [table EXCEPT ![Plan[at[r]][2]] = Absent]
        \/ table' = [table EXCEPT ![Plan[at[r]][2]] = {}]
    BY <1>5 DEF Wipe, Make, Seed
  <2>4. table' \in [Tables -> (SUBSET Runs) \cup {Absent}]
    BY <2>3 DEF TypeOK
  <2>5. TypeOK'
    BY <1>2, <2>1, <2>2, <2>4 DEF TypeOK
  <2>6. \A j \in Jobs : NotYet(j)' => NotYet(j)
    BY <1>2, <2>1
  <2> QED BY <2>2, <2>5, <2>6, JobsElsewhere
<1>6. CASE MakeFails(r)
  <2>1. phase' = [phase EXCEPT ![r] = "failed"]
    BY <1>6 DEF MakeFails, Goto
  <2>2. UNCHANGED <<table, at, event, record, bull, tries, worker, audits, rule, seen, logs,
                    disturbed, inherited>>
    BY <1>6 DEF MakeFails, pipeline, history
  <2>3. TypeOK'
    BY <2>1, <2>2 DEF TypeOK, Phases, Over
  <2>4. \A j \in Jobs : NotYet(j)' => NotYet(j)
    BY <2>1, JobParts DEF TypeOK, NotYet
  <2> QED BY <2>2, <2>3, <2>4, JobsElsewhere
<1> QED BY <1>1, <1>3, <1>4, <1>5, <1>6 DEF Prepare

\* Run r puts job j, which is its next, into the queue.
Enqueues(r, j) ==
  /\ j[1] = r
  /\ record' = [record EXCEPT ![j] = "QUEUED"]
  /\ bull' = [bull EXCEPT ![j] = "waiting"]
  /\ \/ /\ phase[r] = "enqueueing" /\ j[2] = "ekarmika"
        /\ phase' = [phase EXCEPT ![r] = "enqueueing next"]
     \/ /\ phase[r] = "enqueueing next" /\ j[2] = "esurakshate"
        /\ phase' = [phase EXCEPT ![r] = "queued"]

LEMMA EnqueueParts ==
  ASSUME NEW r \in Runs, Enqueue(r) PROVE \E j \in Jobs : Enqueues(r, j)
<1>1. CASE phase[r] = "enqueueing"
  <2>1. <<r, "ekarmika">> \in Jobs
    BY JobOf DEF Departments
  <2>2. Enqueues(r, <<r, "ekarmika">>)
    BY <1>1 DEF Enqueue, Goto, Enqueues
  <2> QED BY <2>1, <2>2
<1>2. CASE phase[r] = "enqueueing next"
  <2>1. <<r, "esurakshate">> \in Jobs
    BY JobOf DEF Departments
  <2>2. Enqueues(r, <<r, "esurakshate">>)
    BY <1>2 DEF Enqueue, Goto, Enqueues
  <2> QED BY <2>1, <2>2
<1> QED BY <1>1, <1>2 DEF Enqueue

LEMMA StoresSubmit ==
  ASSUME StoresInv, NEW r \in Runs, Submit(r) PROVE StoresInv'
<1> USE DEF StoresInv
<1>1. CASE Accept(r) \/ FinishIngest(r)
  <2>1. UNCHANGED <<table, at, record, bull, tries, worker, audits, rule, seen, logs,
                    disturbed, inherited>>
    BY <1>1 DEF Accept, FinishIngest, history
  <2>2. \E p \in {"waiting", "enqueueing", "failed"} :
          phase' = [phase EXCEPT ![r] = p] /\ (p = "enqueueing" => phase[r] = "accepting")
    BY <1>1 DEF Accept, FinishIngest, UpdateEvent, Goto
  <2>3. event' = event \/ \E s \in Statuses : event' = [event EXCEPT ![r] = s]
    BY <1>1 DEF Accept, FinishIngest, UpdateEvent, Statuses
  <2>4. phase' \in [Runs -> Phases]
    BY <2>2 DEF TypeOK, Phases, Over
  <2>5. TypeOK'
    BY <2>1, <2>3, <2>4 DEF TypeOK
  <2>6. \A j \in Jobs : NotYet(j)' => NotYet(j)
    BY <2>2, JobParts DEF TypeOK, NotYet
  <2> QED BY <2>1, <2>5, <2>6, JobsElsewhere
<1>2. CASE Enqueue(r)
  <2> PICK j \in Jobs : Enqueues(r, j)
    BY <1>2, EnqueueParts
  <2>1. PICK p \in {"enqueueing next", "queued"} :
          /\ phase' = [phase EXCEPT ![r] = p]
          /\ p = "queued" <=> j[2] = "esurakshate"
    BY DEF Enqueues
  <2>2. UNCHANGED <<table, at, event, tries, worker, audits, rule, seen, logs,
                    disturbed, inherited>>
    BY <1>2 DEF Enqueue, history
  <2>3. j[1] = r /\ NotYet(j)
    BY DEF Enqueues, NotYet
  <2>4. TypeOK'
    <3>1. phase' \in [Runs -> Phases]
      BY <2>1 DEF TypeOK, Phases
    <3>2. /\ record' \in [Jobs -> {"none", "QUEUED", "PROCESSING", "COMPLETED",
                                   "RETRY_SCHEDULED", "DLQ_MOVED"}]
          /\ bull' \in [Jobs -> {"absent", "waiting", "active", "completed", "failed"}]
      BY DEF TypeOK, Enqueues
    <3> QED BY <2>2, <3>1, <3>2 DEF TypeOK
  <2>5. ASSUME NEW i \in Jobs, NotYet(i)' PROVE NotYet(i) /\ i # j
    <3>1. phase'[i[1]] = IF i[1] = r THEN p ELSE phase[i[1]]
      BY <2>1, JobParts DEF TypeOK
    <3>2. CASE i[1] # r
      BY <2>3, <2>5, <3>1, <3>2 DEF NotYet
    <3>3. CASE i[1] = r
      BY <2>1, <2>5, <3>1, <3>3 DEF NotYet, Enqueues
    <3> QED BY <3>2, <3>3
  <2>6. tries[j] < MaxAttempts
    BY <2>3, SomeAttempts DEF JobsInv, JobFresh
  <2>7. ASSUME NEW i \in Jobs
        PROVE  /\ (NotYet(i) => JobFresh(i))'
               /\ (bull[i] \in {"waiting", "active"} \/ worker.job = i => tries[i] < MaxAttempts)'
    <3>1. i # j => bull'[i] = bull[i] /\ record'[i] = record[i]
      BY DEF TypeOK, Enqueues
    <3> QED BY <2>2, <2>5, <2>6, <3>1 DEF JobsInv, JobFresh
  <2>8. JobsInv'
    BY <2>7 DEF JobsInv
  <2> QED BY <2>4, <2>8
<1> QED BY <1>1, <1>2 DEF Submit

LEMMA StoresAwait ==
  ASSUME StoresInv, NEW r \in Runs, Await(r) PROVE StoresInv'
<1> USE DEF StoresInv
<1>1. UNCHANGED <<table, at, event, record, bull, tries, worker, audits, rule, inherited>>
  BY DEF Await, PollEvent, PollJobs, WaitTimesOut, ReadLogs, Judge, pipeline, history
<1>2. phase' = phase \/ \E p \in {"reading", "asserting", "passed", "failed"} :
                          phase' = [phase EXCEPT ![r] = p]
  BY DEF Await, PollEvent, PollJobs, WaitTimesOut, ReadLogs, Judge, Round, WaitOver, Goto
<1>3. seen' = seen \/ \E w \in SUBSET {"event", "jobs"} : seen' = [seen EXCEPT ![r] = w]
  <2>1. CASE PollEvent(r)
    <3>1. seen[r] \cup {"event"} \in SUBSET {"event", "jobs"}
      BY DEF TypeOK
    <3> QED BY <2>1, <3>1 DEF PollEvent, Round, WaitOver
  <2>2. CASE PollJobs(r)
    <3>1. seen[r] \cup {"jobs"} \in SUBSET {"event", "jobs"}
      BY DEF TypeOK
    <3> QED BY <2>2, <3>1 DEF PollJobs, Round, WaitOver
  <2>3. CASE WaitTimesOut(r) \/ ReadLogs(r) \/ Judge(r)
    BY <2>3 DEF WaitTimesOut, ReadLogs, Judge, WaitOver
  <2> QED BY <2>1, <2>2, <2>3 DEF Await
<1>4. logs' \in [Runs -> SUBSET {"failed", "retried", "succeeded", "buried"}]
  <2>1. logs' = logs \/ logs' = [logs EXCEPT ![r] = audits[r]] \/ logs' = [logs EXCEPT ![r] = {}]
    BY DEF Await, PollEvent, PollJobs, WaitTimesOut, ReadLogs, Judge
  <2> QED BY <2>1 DEF TypeOK
<1>5. disturbed' \subseteq Runs
  BY DEF Await, PollEvent, PollJobs, WaitTimesOut, ReadLogs, Judge, history, TypeOK
<1>6. phase' \in [Runs -> Phases]
  BY <1>2 DEF TypeOK, Phases, Over
<1>7. TypeOK'
  <2>1. seen' \in [Runs -> SUBSET {"event", "jobs"}]
    BY <1>3 DEF TypeOK
  <2> QED BY <1>1, <1>4, <1>5, <1>6, <2>1 DEF TypeOK
<1>8. \A j \in Jobs : NotYet(j)' => NotYet(j)
  BY <1>2, JobParts DEF TypeOK, NotYet
<1> QED BY <1>1, <1>7, <1>8, JobsElsewhere
\* The job a worker step is about, and the run that waits for it.
LEMMA WorkerHasJob ==
  ASSUME TypeOK, worker.job # NoJob
  PROVE  /\ worker.job \in Jobs /\ Owner \in Runs /\ Target \in Departments
         /\ worker = [job |-> worker.job, step |-> worker.step]
BY JobParts DEF TypeOK, Owner, Target

\* The end of a job's run: it is counted if it threw, and only a job with attempts
\* left is put back.
LEMMA EndedParts ==
  ASSUME StoresInv, NEW j \in Jobs, NEW threw \in BOOLEAN, Ended(j, threw),
         tries[j] < MaxAttempts
  PROVE  /\ worker' = Idle
         /\ tries' \in [Jobs -> 0..MaxAttempts]
         /\ bull' \in [Jobs -> {"absent", "waiting", "active", "completed", "failed"}]
         /\ \A i \in Jobs \ {j} : bull'[i] = bull[i] /\ tries'[i] = tries[i]
         /\ tries'[j] = IF threw THEN tries[j] + 1 ELSE tries[j]
         /\ bull'[j] \in {"waiting", "active"} => threw /\ tries[j] + 1 < MaxAttempts
<1> USE SomeAttempts DEF StoresInv
<1>1. worker' = Idle
  BY DEF Ended
<1>2. /\ tries' = [tries EXCEPT ![j] = IF threw THEN tries[j] + 1 ELSE tries[j]]
      /\ tries[j] \in 0..MaxAttempts
  BY DEF Ended, TypeOK
<1>3. (IF threw THEN tries[j] + 1 ELSE tries[j]) \in 0..MaxAttempts
  BY <1>2
<1>4. tries' \in [Jobs -> 0..MaxAttempts]
  BY <1>2, <1>3 DEF TypeOK
<1>5. /\ tries'[j] = IF threw THEN tries[j] + 1 ELSE tries[j]
      /\ \A i \in Jobs \ {j} : tries'[i] = tries[i]
  BY <1>2 DEF TypeOK
<1>6. \E b \in {"absent", "waiting", "completed", "failed"} :
        /\ bull' = [bull EXCEPT ![j] = b]
        /\ b = "waiting" => bull[j] = "waiting" \/ (threw /\ tries[j] + 1 < MaxAttempts)
  BY DEF Ended, TypeOK
<1>7. bull'[j] = "waiting" => threw /\ tries[j] + 1 < MaxAttempts
  BY DEF Ended, TypeOK
<1> QED BY <1>1, <1>4, <1>5, <1>6, <1>7 DEF TypeOK

\* A step that ends a job's run and moves no run of the scenarios.
LEMMA JobsEnded ==
  ASSUME StoresInv, NEW j \in Jobs, NEW threw \in BOOLEAN, Ended(j, threw),
         tries[j] < MaxAttempts, ~NotYet(j), UNCHANGED phase,
         \A i \in Jobs \ {j} : record'[i] = record[i],
         \A r \in Runs : audits'[r] # audits[r] => ~NotYet(<<r, "ekarmika">>)
  PROVE  JobsInv'
<1>1. /\ worker' = Idle
      /\ \A i \in Jobs \ {j} : bull'[i] = bull[i] /\ tries'[i] = tries[i]
      /\ tries'[j] = IF threw THEN tries[j] + 1 ELSE tries[j]
      /\ bull'[j] \in {"waiting", "active"} => threw /\ tries[j] + 1 < MaxAttempts
  BY EndedParts
<1>2. \A i \in Jobs : NotYet(i)' = NotYet(i)
  BY DEF NotYet
<1>3. \A i \in Jobs : worker'.job # i
  BY <1>1, NoJobIsNone DEF Idle
<1>4. ASSUME NEW i \in Jobs, NotYet(i) PROVE JobFresh(i)'
  <2>1. i # j /\ JobFresh(i)
    BY <1>4 DEF StoresInv, JobsInv
  <2>2. i[2] = "ekarmika" => audits'[i[1]] = audits[i[1]]
    BY <1>4, JobParts DEF NotYet
  <2> QED BY <1>1, <1>3, <2>1, <2>2 DEF JobFresh
<1>5. ASSUME NEW i \in Jobs, bull'[i] \in {"waiting", "active"} PROVE tries'[i] < MaxAttempts
  BY <1>1, <1>5 DEF StoresInv, JobsInv
<1> QED BY <1>2, <1>3, <1>4, <1>5 DEF JobsInv

\* A step of the worker on its job that does not end the run.
LEMMA JobsGoOn ==
  ASSUME StoresInv, worker.job \in Jobs, UNCHANGED <<phase, bull, tries>>,
         worker'.job = worker.job,
         \A i \in Jobs \ {worker.job} : record'[i] = record[i],
         \A r \in Runs : audits'[r] # audits[r] => ~NotYet(<<r, "ekarmika">>)
  PROVE  JobsInv'
<1>1. \A i \in Jobs : NotYet(i)' = NotYet(i)
  BY DEF NotYet
<1>2. ASSUME NEW i \in Jobs, NotYet(i) PROVE JobFresh(i)'
  <2>1. i # worker.job /\ JobFresh(i)
    BY <1>2 DEF StoresInv, JobsInv, JobFresh
  <2>2. i[2] = "ekarmika" => audits'[i[1]] = audits[i[1]]
    BY <1>2, JobParts DEF NotYet
  <2> QED BY <2>1, <2>2 DEF JobFresh
<1> QED BY <1>1, <1>2 DEF StoresInv, JobsInv

LEMMA RecordsParts ==
  ASSUME TypeOK, NEW j \in Jobs, NEW s \in {"PROCESSING", "COMPLETED", "RETRY_SCHEDULED", "DLQ_MOVED"},
         Records(j, s)
  PROVE  /\ record' \in [Jobs -> {"none", "QUEUED", "PROCESSING", "COMPLETED",
                                  "RETRY_SCHEDULED", "DLQ_MOVED"}]
         /\ \A i \in Jobs \ {j} : record'[i] = record[i]
         /\ record'[j] = IF record[j] = "none" THEN "none" ELSE s
BY DEF TypeOK, Records

LEMMA StoresTake ==
  ASSUME StoresInv, NEW j \in Jobs, Take(j) PROVE StoresInv'
<1>1. bull[j] = "waiting" /\ worker = Idle
  BY DEF Take
<1>2. tries[j] < MaxAttempts /\ ~NotYet(j)
  BY <1>1 DEF StoresInv, JobsInv, JobFresh
<1>3. UNCHANGED <<table, phase, at, audits, rule, seen, logs, disturbed, inherited>>
  BY DEF Take, restored, history
<1>4. CASE Unprocessable(j)
  <2>1. Ended(j, TRUE) /\ UNCHANGED <<event, record>>
    BY <1>4 DEF Take
  <2>2. JobsInv'
    BY <1>2, <1>3, <2>1, JobsEnded
  <2>3. TypeOK'
    <3>1. worker' \in [job : Jobs \cup {NoJob}, step : WorkerSteps]
      <4>1. worker' = Idle
        BY <2>1 DEF Ended
      <4> QED BY <4>1 DEF Idle, WorkerSteps
    <3>2. /\ tries' \in [Jobs -> 0..MaxAttempts]
          /\ bull' \in [Jobs -> {"absent", "waiting", "active", "completed", "failed"}]
      BY <1>2, <2>1, EndedParts
    <3> QED BY <1>3, <2>1, <3>1, <3>2 DEF StoresInv, TypeOK
  <2> QED BY <2>2, <2>3 DEF StoresInv
<1>5. CASE ~Unprocessable(j)
  <2>1. /\ worker' = [job |-> j, step |-> "write"]
        /\ bull' = [bull EXCEPT ![j] = "active"]
        /\ event' = [event EXCEPT ![j[1]] = "WRITE_ATTEMPTED"]
        /\ Records(j, "PROCESSING") /\ UNCHANGED tries
    BY <1>5 DEF Take
  <2>2. TypeOK'
    <3>1. record' \in [Jobs -> {"none", "QUEUED", "PROCESSING", "COMPLETED",
                                "RETRY_SCHEDULED", "DLQ_MOVED"}]
      BY <2>1, RecordsParts DEF StoresInv
    <3>2. worker' \in [job : Jobs \cup {NoJob}, step : WorkerSteps]
      BY <2>1 DEF WorkerSteps
    <3>3. event' \in [Runs -> Statuses]
      <4>1. j[1] \in Runs /\ "WRITE_ATTEMPTED" \in Statuses
        BY JobParts DEF Statuses
      <4> QED BY <2>1, <4>1 DEF StoresInv, TypeOK
    <3>4. bull' \in [Jobs -> {"absent", "waiting", "active", "completed", "failed"}]
      BY <2>1 DEF StoresInv, TypeOK
    <3> QED BY <1>3, <2>1, <3>1, <3>2, <3>3, <3>4 DEF StoresInv, TypeOK
  <2>3. \A i \in Jobs \ {j} : record'[i] = record[i] /\ bull'[i] = bull[i] /\ worker'.job # i
    BY <2>1, RecordsParts DEF StoresInv, TypeOK
  <2>4. \A i \in Jobs : NotYet(i)' = NotYet(i)
    BY <1>3 DEF NotYet
  <2>5. JobsInv'
    BY <1>2, <1>3, <2>1, <2>3, <2>4 DEF StoresInv, JobsInv, JobFresh
  <2> QED BY <2>2, <2>5 DEF StoresInv
<1> QED BY <1>4, <1>5
LEMMA AuditedParts ==
  ASSUME TypeOK, worker.job # NoJob, NEW e \in {"failed", "retried", "succeeded", "buried"},
         Audited(e)
  PROVE  /\ audits' \in [Runs -> SUBSET {"failed", "retried", "succeeded", "buried"}]
         /\ \A r \in Runs : audits'[r] # audits[r] =>
              Target = "ekarmika" /\ r = Owner /\ audits'[r] = audits[r] \cup {e}
<1>1. Owner \in Runs
  BY WorkerHasJob
<1>2. audits[Owner] \cup {e} \in SUBSET {"failed", "retried", "succeeded", "buried"}
  BY <1>1 DEF TypeOK
<1> QED BY <1>1, <1>2 DEF TypeOK, Audited

\* What the worker is at has been enqueued, and has an attempt left.
LEMMA AtWork ==
  ASSUME StoresInv, worker.job # NoJob
  PROVE  /\ worker.job \in Jobs /\ ~NotYet(worker.job)
         /\ tries[worker.job] < MaxAttempts
         /\ \A r \in Runs : Target = "ekarmika" /\ r = Owner => ~NotYet(<<r, "ekarmika">>)
<1>1. worker.job \in Jobs
  BY WorkerHasJob DEF StoresInv
<1>2. ~NotYet(worker.job)
  BY <1>1 DEF StoresInv, JobsInv, JobFresh
<1>3. tries[worker.job] < MaxAttempts
  BY <1>1 DEF StoresInv, JobsInv
<1>4. Target = "ekarmika" => ~NotYet(<<Owner, "ekarmika">>)
  BY <1>2 DEF NotYet, Owner, Target
<1> QED BY <1>1, <1>2, <1>3, <1>4

\* The step of a run that ends: its worker and queue.
LEMMA EndedTypes ==
  ASSUME StoresInv, worker.job # NoJob, NEW threw \in BOOLEAN, Ended(worker.job, threw)
  PROVE  /\ worker' \in [job : Jobs \cup {NoJob}, step : WorkerSteps]
         /\ tries' \in [Jobs -> 0..MaxAttempts]
         /\ bull' \in [Jobs -> {"absent", "waiting", "active", "completed", "failed"}]
<1>1. worker.job \in Jobs /\ tries[worker.job] < MaxAttempts
  BY AtWork
<1>2. worker' = Idle
  BY DEF Ended
<1>3. Idle \in [job : Jobs \cup {NoJob}, step : WorkerSteps]
  BY DEF Idle, WorkerSteps
<1> QED BY <1>1, <1>2, <1>3, EndedParts

LEMMA ThenTypes ==
  ASSUME TypeOK, NEW s \in WorkerSteps, Then(s)
  PROVE  /\ worker' \in [job : Jobs \cup {NoJob}, step : WorkerSteps]
         /\ worker'.job = worker.job /\ worker'.step = s
BY DEF TypeOK, Then

LEMMA StoresWork ==
  ASSUME StoresInv, Work PROVE StoresInv'
<1> USE DEF StoresInv
<1>0. {"write", "complete", "settle", "log", "fail", "reschedule"} \subseteq WorkerSteps
  BY DEF WorkerSteps
<1>1. ASSUME NEW j \in Jobs, Take(j) PROVE StoresInv'
  BY <1>1, StoresTake
<1>2. CASE Write
  <2>1. /\ worker.job # NoJob
        /\ UNCHANGED <<phase, at, event, record, bull, tries, audits, seen, logs,
                       disturbed, inherited>>
    BY <1>2 DEF Write, Now, history
  <2>2. Then("fail") \/ Then("complete")
    BY <1>2 DEF Write
  <2>3. worker' \in [job : Jobs \cup {NoJob}, step : WorkerSteps] /\ worker'.job = worker.job
    BY <1>0, <2>2, ThenTypes
  <2>4. rule' \in 0..1
    BY <1>2 DEF Write, TypeOK
  <2>5. table' \in [Tables -> (SUBSET Runs) \cup {Absent}]
    <3>1. CASE UNCHANGED table
      BY <3>1 DEF TypeOK
    <3>2. CASE ~UNCHANGED table
      <4> DEFINE rs == {x \in table[Target] : Kind[x] # Kind[Owner]} \cup {Owner}
      <4>1. table[Target] # Absent /\ table' = [table EXCEPT ![Target] = rs]
        BY <1>2, <3>2 DEF Write
      <4>2. Target \in Tables /\ Owner \in Runs
        BY <2>1, WorkerHasJob DEF Tables
      <4>3. table[Target] \in SUBSET Runs
        BY <4>1, <4>2 DEF TypeOK
      <4>4. rs \in SUBSET Runs
        BY <4>2, <4>3
      <4> QED BY <4>1, <4>4 DEF TypeOK
    <3> QED BY <3>1, <3>2
  <2>6. TypeOK'
    BY <2>1, <2>3, <2>4, <2>5 DEF TypeOK
  <2>7. JobsInv'
    BY <2>1, <2>3, AtWork, JobsGoOn
  <2> QED BY <2>6, <2>7
<1>3. CASE Complete
  <2>1. /\ worker.job # NoJob /\ Records(worker.job, "COMPLETED") /\ Then("settle")
        /\ UNCHANGED <<table, phase, at, event, bull, tries, audits, rule, seen, logs,
                       disturbed, inherited>>
    BY <1>3 DEF Complete, Now, restored, history
  <2>2. worker' \in [job : Jobs \cup {NoJob}, step : WorkerSteps] /\ worker'.job = worker.job
    BY <1>0, <2>1, ThenTypes
  <2>3. /\ record' \in [Jobs -> {"none", "QUEUED", "PROCESSING", "COMPLETED",
                                 "RETRY_SCHEDULED", "DLQ_MOVED"}]
        /\ \A i \in Jobs \ {worker.job} : record'[i] = record[i]
    BY <2>1, AtWork, RecordsParts
  <2>4. TypeOK'
    BY <2>1, <2>2, <2>3 DEF TypeOK
  <2>5. JobsInv'
    BY <2>1, <2>2, <2>3, AtWork, JobsGoOn
  <2> QED BY <2>4, <2>5
<1>4. CASE Settle
  <2>1. /\ worker.job # NoJob
        /\ UNCHANGED <<table, phase, at, record, audits, rule, seen, logs, disturbed, inherited>>
    BY <1>4 DEF Settle, Now, restored, history
  <2>2. CASE Ended(worker.job, TRUE) /\ UNCHANGED event
    <3>1. TypeOK'
      BY <2>1, <2>2, EndedTypes DEF TypeOK
    <3>2. JobsInv'
      BY <2>1, <2>2, AtWork, JobsEnded
    <3> QED BY <3>1, <3>2
  <2>3. CASE /\ \E s \in {"COMPLETED", "WRITE_SUCCEEDED"} : event' = [event EXCEPT ![Owner] = s]
             /\ Then("log") /\ UNCHANGED <<bull, tries>>
    <3>1. worker' \in [job : Jobs \cup {NoJob}, step : WorkerSteps] /\ worker'.job = worker.job
      BY <1>0, <2>3, ThenTypes
    <3>2. event' \in [Runs -> Statuses]
      BY <2>3 DEF TypeOK, Statuses
    <3>3. TypeOK'
      BY <2>1, <2>3, <3>1, <3>2 DEF TypeOK
    <3>4. JobsInv'
      BY <2>1, <2>3, <3>1, AtWork, JobsGoOn
    <3> QED BY <3>3, <3>4
  <2> QED BY <1>4, <2>2, <2>3 DEF Settle
<1>5. CASE Log
  <2>1. /\ worker.job # NoJob /\ Audited("succeeded") /\ Ended(worker.job, FALSE)
        /\ UNCHANGED <<table, phase, at, event, record, rule, seen, logs, disturbed, inherited>>
    BY <1>5 DEF Log, Now, restored, history
  <2>2. /\ audits' \in [Runs -> SUBSET {"failed", "retried", "succeeded", "buried"}]
        /\ \A r \in Runs : audits'[r] # audits[r] => Target = "ekarmika" /\ r = Owner
    BY <2>1, AuditedParts
  <2>3. TypeOK'
    BY <2>1, <2>2, EndedTypes DEF TypeOK
  <2>4. JobsInv'
    BY <2>1, <2>2, AtWork, JobsEnded
  <2> QED BY <2>3, <2>4
<1>6. CASE Failed
  <2>1. /\ worker.job # NoJob
        /\ UNCHANGED <<table, phase, at, record, rule, seen, logs, disturbed, inherited>>
    BY <1>6 DEF Failed, Now, restored, history
  <2>2. CASE Ended(worker.job, TRUE) /\ UNCHANGED <<event, audits>>
    <3>1. TypeOK'
      BY <2>1, <2>2, EndedTypes DEF TypeOK
    <3>2. JobsInv'
      BY <2>1, <2>2, AtWork, JobsEnded
    <3> QED BY <3>1, <3>2
  <2>3. CASE /\ \E s \in {"DLQ_MOVED", "RETRY_SCHEDULED"} : event' = [event EXCEPT ![Owner] = s]
             /\ Audited("failed") /\ Then("reschedule") /\ UNCHANGED <<bull, tries>>
    <3>1. worker' \in [job : Jobs \cup {NoJob}, step : WorkerSteps] /\ worker'.job = worker.job
      BY <1>0, <2>3, ThenTypes
    <3>2. event' \in [Runs -> Statuses]
      BY <2>3 DEF TypeOK, Statuses
    <3>3. /\ audits' \in [Runs -> SUBSET {"failed", "retried", "succeeded", "buried"}]
          /\ \A r \in Runs : audits'[r] # audits[r] => Target = "ekarmika" /\ r = Owner
      BY <2>1, <2>3, AuditedParts
    <3>4. TypeOK'
      BY <2>1, <2>3, <3>1, <3>2, <3>3 DEF TypeOK
    <3>5. JobsInv'
      BY <2>1, <2>3, <3>1, <3>3, AtWork, JobsGoOn
    <3> QED BY <3>4, <3>5
  <2> QED BY <1>6, <2>2, <2>3 DEF Failed
<1>7. CASE Reschedule
  <2>1. /\ worker.job # NoJob /\ Ended(worker.job, TRUE)
        /\ UNCHANGED <<table, phase, at, event, rule, seen, logs, disturbed, inherited>>
    BY <1>7 DEF Reschedule, Now, restored, history
  <2>2. PICK s \in {"DLQ_MOVED", "RETRY_SCHEDULED"} : Records(worker.job, s)
    BY <1>7 DEF Reschedule
  <2>3. PICK e \in {"buried", "retried"} : Audited(e)
    BY <1>7 DEF Reschedule
  <2>4. /\ record' \in [Jobs -> {"none", "QUEUED", "PROCESSING", "COMPLETED",
                                 "RETRY_SCHEDULED", "DLQ_MOVED"}]
        /\ \A i \in Jobs \ {worker.job} : record'[i] = record[i]
    BY <2>1, <2>2, AtWork, RecordsParts
  <2>5. /\ audits' \in [Runs -> SUBSET {"failed", "retried", "succeeded", "buried"}]
        /\ \A r \in Runs : audits'[r] # audits[r] => Target = "ekarmika" /\ r = Owner
    BY <2>1, <2>3, AuditedParts
  <2>6. TypeOK'
    BY <2>1, <2>4, <2>5, EndedTypes DEF TypeOK
  <2>7. JobsInv'
    BY <2>1, <2>4, <2>5, AtWork, JobsEnded
  <2> QED BY <2>6, <2>7
<1> QED BY <1>1, <1>2, <1>3, <1>4, <1>5, <1>6, <1>7 DEF Work

LEMMA StoresStep ==
  ASSUME StoresInv, [Next]_vars PROVE StoresInv'
<1>1. ASSUME NEW r \in Runs, Prepare(r) \/ Submit(r) \/ Await(r) PROVE StoresInv'
  BY <1>1, StoresPrepare, StoresSubmit, StoresAwait
<1>2. CASE Work
  BY <1>2, StoresWork
<1>3. CASE UNCHANGED vars
  <2>1. UNCHANGED <<table, phase, at, event, record, bull, tries, worker, audits, rule, seen,
                    logs, disturbed, inherited>>
    BY <1>3 DEF vars, restored, pipeline, history
  <2>2. TypeOK'
    BY <2>1 DEF StoresInv, TypeOK
  <2>3. \A j \in Jobs : NotYet(j)' => NotYet(j)
    BY <2>1 DEF NotYet
  <2> QED BY <2>1, <2>2, <2>3, JobsElsewhere DEF StoresInv
<1> QED BY <1>1, <1>2, <1>3 DEF Next

\* Every store holds values of its kind, and no job fails more often than it has
\* attempts, whatever is emptied under the worker (processWriteJob, resetBullMqQueues).
THEOREM StoresInvariant == Spec => []StoresInv
<1>1. Init => StoresInv
  BY StoresInit
<1>2. StoresInv /\ [Next]_vars => StoresInv'
  BY StoresStep
<1> QED BY <1>1, <1>2, PTL DEF Spec

\* Every store holds values of its kind, and no job fails more often than it has
\* attempts (attempts of addDepartmentWriteJob).
THEOREM ScenarioTypes == Spec => []TypeOK
<1>1. StoresInv => TypeOK
  BY DEF StoresInv
<1> QED BY <1>1, StoresInvariant, PTL
-----------------------------------------------------------------------------
(* Runs that nothing overlaps.                                                *)

UnderWay(r) == phase[r] \notin Over

Alone(r) == r \notin disturbed /\ UnderWay(r)

\* Nobody else is under way, and once it has prepared the business the business
\* is whole.
AloneInv ==
  \A r \in Runs : Alone(r) =>
    /\ \A q \in Runs : UnderWay(q) => q = r
    /\ phase[r] # "preparing" => \A t \in Tables : table[t] # Absent

\* No failure is armed, on its way or in the audit log.
Unstruck(r) ==
  /\ rule = 0 /\ "failed" \notin audits[r]
  /\ worker.job # NoJob /\ Owner = r /\ Target = "ekarmika" =>
       worker.step \notin {"fail", "reschedule"}

StrayInv == \A r \in Runs : Alone(r) /\ Kind[r] = "fanout" => Unstruck(r)

\* A step of run r after its first.
RunStep(r) ==
  \/ EmptyQueues(r) \/ EmptyTable(r) \/ Wipe(r) \/ Make(r) \/ MakeFails(r)
  \/ Submit(r) \/ Await(r)

LEMMA RunSteps ==
  ASSUME StoresInv, NEW r \in Runs, RunStep(r)
  PROVE  /\ UnderWay(r) /\ disturbed \subseteq disturbed' /\ UNCHANGED <<inherited, worker>>
         /\ \A q \in Runs \ {r} : phase'[q] = phase[q]
<1>1. ASSUME EmptyQueues(r) \/ EmptyTable(r) \/ Wipe(r) \/ Make(r) \/ MakeFails(r)
      PROVE  /\ phase[r] = "preparing" /\ UNCHANGED <<disturbed, inherited, worker>>
             /\ \A q \in Runs \ {r} : phase'[q] = phase[q]
  BY <1>1 DEF EmptyQueues, EmptyTable, Wipe, Make, MakeFails, Doing, Advance, Goto, pipeline,
              history, StoresInv, TypeOK
<1>2. ASSUME Submit(r)
      PROVE  /\ phase[r] \in {"accepting", "enqueueing", "enqueueing next", "queued"}
             /\ UNCHANGED <<disturbed, inherited, worker>>
             /\ \A q \in Runs \ {r} : phase'[q] = phase[q]
  BY <1>2 DEF Submit, Accept, Enqueue, FinishIngest, UpdateEvent, Goto, history, StoresInv, TypeOK
<1>3. ASSUME Await(r)
      PROVE  /\ phase[r] \in {"waiting", "reading", "asserting"}
             /\ disturbed \subseteq disturbed' /\ UNCHANGED <<inherited, worker>>
             /\ \A q \in Runs \ {r} : phase'[q] = phase[q]
  BY <1>3 DEF Await, PollEvent, PollJobs, WaitTimesOut, ReadLogs, Judge, Round, WaitOver, Goto,
              pipeline, history, StoresInv, TypeOK
<1> QED BY <1>1, <1>2, <1>3 DEF RunStep, UnderWay, Over

LEMMA WorkMovesNoRun ==
  ASSUME Work PROVE UNCHANGED <<phase, at, disturbed, inherited, seen>>
BY DEF Work, Take, Write, Complete, Settle, Log, Failed, Reschedule, restored, history

\* Who is alone was alone before, and the step is its own or the worker's; or it
\* has just begun, when no other was under way.
LEMMA AloneBefore ==
  ASSUME StoresInv, AloneInv, [Next]_vars, NEW r \in Runs, Alone(r)'
  PROVE  \/ Start(r) /\ Active = {}
         \/ Alone(r) /\ (RunStep(r) \/ Work \/ UNCHANGED vars)
<1>1. ASSUME NEW q \in Runs, Start(q) PROVE q = r /\ Active = {}
  <2>1. Active = {}
    <3> SUFFICES ASSUME Active # {} PROVE FALSE
      OBVIOUS
    <3>1. disturbed' = disturbed \cup Active \cup {q}
      BY <1>1 DEF Start, Witness
    <3>2. r # q /\ r \notin Active
      BY <3>1 DEF Alone
    <3>3. phase'[r] = phase[r]
      BY <1>1, <3>2 DEF Start, Goto, StoresInv, TypeOK
    <3> QED BY <3>2, <3>3 DEF Active, Alone, UnderWay
  <2>2. CASE q # r
    <3>1. phase'[r] = phase[r]
      BY <1>1, <2>2 DEF Start, Goto, StoresInv, TypeOK
    <3> QED BY <2>1, <3>1 DEF Active, Alone, UnderWay
  <2> QED BY <2>1, <2>2
<1>2. ASSUME NEW q \in Runs, RunStep(q) PROVE q = r /\ Alone(r)
  <2>1. UnderWay(q) /\ disturbed \subseteq disturbed' /\ (q # r => phase'[r] = phase[r])
    BY <1>2, RunSteps
  <2>2. q = r
    BY <2>1 DEF AloneInv, Alone, UnderWay
  <2> QED BY <2>1, <2>2 DEF Alone
<1>3. ASSUME Work \/ UNCHANGED vars PROVE Alone(r)
  <2>1. UNCHANGED <<phase, disturbed>>
    BY <1>3, WorkMovesNoRun DEF vars, restored, history
  <2> QED BY <2>1 DEF Alone, UnderWay
<1> QED BY <1>1, <1>2, <1>3 DEF Next, Prepare, RunStep

LEMMA WorkKeepsRows ==
  ASSUME StoresInv, Work PROVE \A t \in Tables : table[t] # Absent => table'[t] # Absent
<1>1. CASE Write
  <2>1. CASE UNCHANGED table
    BY <2>1
  <2>2. CASE ~UNCHANGED table
    <3> DEFINE rs == {x \in table[Target] : Kind[x] # Kind[Owner]} \cup {Owner}
    <3>1. table[Target] # Absent /\ table' = [table EXCEPT ![Target] = rs]
      BY <1>1, <2>2 DEF Write
    <3>2. Target \in Tables /\ Owner \in Runs
      BY <1>1, WorkerHasJob DEF Write, Now, StoresInv, Tables
    <3>3. rs \in SUBSET Runs
      BY <3>1, <3>2 DEF StoresInv, TypeOK
    <3>4. rs # Absent
      BY <3>3, SetsArePresent
    <3> QED BY <3>1, <3>4 DEF StoresInv, TypeOK
  <2> QED BY <2>1, <2>2
<1>2. CASE ~Write
  <2>1. UNCHANGED table
    BY <1>2 DEF Work, Take, Complete, Settle, Log, Failed, Reschedule, restored
  <2> QED BY <2>1
<1> QED BY <1>1, <1>2

\* When the only run under way is done with its preparation, no row is missing:
\* it has made the last of them itself.
LEMMA RunLeavesWhole ==
  ASSUME RestoreInv, RestoreInv', StoresInv, AloneInv, NEW r \in Runs, Alone(r), Alone(r)',
         RunStep(r), phase'[r] # "preparing"
  PROVE  \A t \in Tables : table'[t] # Absent
<1>1. CASE phase[r] # "preparing"
  <2>1. Submit(r) \/ Await(r)
    BY <1>1 DEF RunStep, EmptyQueues, EmptyTable, Wipe, Make, MakeFails, Doing
  <2>2. UNCHANGED table
    BY <2>1 DEF Submit, Await, Accept, Enqueue, FinishIngest, PollEvent, PollJobs,
                WaitTimesOut, ReadLogs, Judge
  <2> QED BY <1>1, <2>2 DEF AloneInv
<1>2. CASE phase[r] = "preparing"
  <2>1. /\ EmptyQueues(r) \/ EmptyTable(r) \/ Wipe(r) \/ Make(r) \/ MakeFails(r)
    BY <1>2 DEF RunStep, Submit, Await, Accept, Enqueue, FinishIngest, PollEvent, PollJobs,
                WaitTimesOut, ReadLogs, Judge
  <2>2. ~MakeFails(r)
    <3>1. MakeFails(r) => phase'[r] = "failed"
      BY DEF MakeFails, Goto, StoresInv, TypeOK
    <3> QED BY <3>1 DEF Alone, UnderWay, Over
  <2>3. Advance(r)
    BY <2>1, <2>2 DEF EmptyQueues, EmptyTable, Wipe, Make
  <2>4. at[r] = 14
    <3>1. at[r] < 14 => phase'[r] = "preparing"
      BY <1>2, <2>3, Advances DEF Preparing
    <3> QED BY <3>1 DEF RestoreInv, PlacesOK
  <2>5. Make(r) /\ Plan[at[r]][2] = "esurakshate"
    BY <2>1, <2>2, <2>4, Steps DEF EmptyQueues, EmptyTable, Wipe, Make, Doing
  <2>6. table'["esurakshate"] # Absent
    BY <2>5, SetsArePresent DEF Make, Seed, StoresInv, TypeOK, Tables, Departments
  <2>7. \A q \in Runs : phase'[q] # "preparing"
    <3>1. \A q \in Runs \ {r} : phase'[q] = phase[q] /\ phase[q] \in Over
      BY RunSteps DEF AloneInv, UnderWay
    <3> QED BY <3>1 DEF Over
  <2>8. \A q \in Runs, t \in Tables : ~WillMake(q, t)'
    BY <2>7 DEF WillMake, Preparing
  <2> QED BY <2>6, <2>8 DEF RestoreInv, MissingIsSomebodys, Somebodys
<1> QED BY <1>1, <1>2

LEMMA AloneStep ==
  ASSUME RestoreInv, RestoreInv', StoresInv, AloneInv, [Next]_vars PROVE AloneInv'
<1> SUFFICES ASSUME NEW r \in Runs, Alone(r)'
             PROVE  /\ \A q \in Runs : UnderWay(q)' => q = r
                    /\ phase'[r] # "preparing" => \A t \in Tables : table'[t] # Absent
  BY DEF AloneInv
<1>1. CASE Start(r) /\ Active = {}
  <2>1. phase' = [phase EXCEPT ![r] = "preparing"]
    BY <1>1 DEF Start, Goto
  <2> QED BY <1>1, <2>1 DEF Active, UnderWay, StoresInv, TypeOK
<1>2. CASE Alone(r) /\ RunStep(r)
  <2>1. \A q \in Runs : UnderWay(q)' => q = r
    BY <1>2, RunSteps DEF AloneInv, UnderWay
  <2> QED BY <1>2, <2>1, RunLeavesWhole
<1>3. CASE Alone(r) /\ Work
  BY <1>3, WorkMovesNoRun, WorkKeepsRows DEF AloneInv, UnderWay
<1>4. CASE Alone(r) /\ UNCHANGED vars
  <2>1. UNCHANGED <<table, phase>>
    BY <1>4 DEF vars, restored
  <2> QED BY <1>4, <2>1 DEF AloneInv, UnderWay
<1> QED BY <1>1, <1>2, <1>3, <1>4, AloneBefore
-----------------------------------------------------------------------------
(* A failure strikes only whom it was armed for.                              *)

LEMMA StrayStart ==
  ASSUME StoresInv, NEW r \in Runs, Start(r) PROVE Unstruck(r)'
<1>1. phase[r] = "idle" /\ rule' = 0 /\ UNCHANGED <<audits, worker>>
  BY DEF Start, pipeline
<1>2. <<r, "ekarmika">> \in Jobs /\ NotYet(<<r, "ekarmika">>)
  BY <1>1, JobOf DEF NotYet, Departments
<1>3. audits[r] = {}
  BY <1>2 DEF StoresInv, JobsInv, JobFresh
<1>4. ~(worker.job # NoJob /\ Owner = r /\ Target = "ekarmika")
  <2> SUFFICES ASSUME worker.job # NoJob, Owner = r, Target = "ekarmika" PROVE FALSE
    OBVIOUS
  <2>1. ~NotYet(<<r, "ekarmika">>)
    BY AtWork
  <2> QED BY <1>2, <2>1
<1> QED BY <1>1, <1>3, <1>4 DEF Unstruck, Owner, Target

LEMMA StrayRunStep ==
  ASSUME StoresInv, NEW r \in Runs, RunStep(r), Kind[r] = "fanout", Unstruck(r)
  PROVE  Unstruck(r)'
<1>1. UNCHANGED worker
  BY RunSteps
<1>2. rule' = 0
  <2>1. CASE EmptyQueues(r) \/ EmptyTable(r) \/ Wipe(r) \/ Make(r)
    BY <2>1 DEF EmptyQueues, EmptyTable, Wipe, Make, Advance, Unstruck
  <2>2. CASE MakeFails(r) \/ Submit(r) \/ Await(r)
    BY <2>2 DEF MakeFails, Submit, Accept, Enqueue, FinishIngest, Await, PollEvent, PollJobs,
                WaitTimesOut, ReadLogs, Judge, Unstruck
  <2> QED BY <2>1, <2>2 DEF RunStep
<1>3. audits'[r] = audits[r] \/ audits'[r] = {}
  BY DEF RunStep, EmptyQueues, EmptyTable, Wipe, Make, MakeFails, Submit, Accept, Enqueue,
         FinishIngest, Await, PollEvent, PollJobs, WaitTimesOut, ReadLogs, Judge, pipeline
<1> QED BY <1>1, <1>2, <1>3 DEF Unstruck, Owner, Target

LEMMA StrayWork ==
  ASSUME StoresInv, AloneInv, NEW r \in Runs, Alone(r), Unstruck(r), Work PROVE Unstruck(r)'
<1>1. ASSUME NEW j \in Jobs, Take(j) PROVE Unstruck(r)'
  <2>1. UNCHANGED <<rule, audits>>
    BY <1>1 DEF Take
  <2>2. worker' = Idle \/ worker' = [job |-> j, step |-> "write"]
    BY <1>1 DEF Take, Ended
  <2> QED BY <2>1, <2>2 DEF Unstruck, Owner, Target, Idle
<1>2. CASE Write
  <2>1. rule = 0 /\ worker.job # NoJob
    BY <1>2 DEF Unstruck, Write, Now
  <2>2. UNCHANGED <<rule, audits>>
    BY <1>2, <2>1 DEF Write
  <2>3. worker'.job = worker.job
    BY <1>2 DEF Write, Then, StoresInv, TypeOK
  <2>4. ASSUME Owner = r PROVE worker'.step = "complete"
    <3>1. ~NotYet(worker.job)
      BY <2>1, AtWork
    <3>2. phase[r] # "preparing" /\ Target \in Tables
      BY <2>1, <2>4, <3>1, WorkerHasJob DEF NotYet, Owner, StoresInv, Tables
    <3>3. table[Target] # Absent
      BY <3>2 DEF AloneInv
    <3> QED BY <1>2, <2>1, <3>3 DEF Write, Then, StoresInv, TypeOK
  <2> QED BY <2>1, <2>2, <2>3, <2>4 DEF Unstruck, Owner, Target
<1>3. CASE Complete \/ Settle \/ Log
  <2>1. UNCHANGED rule /\ worker.job # NoJob
    BY <1>3 DEF Complete, Settle, Log, Now
  <2>2. "failed" \notin audits'[r]
    <3>1. CASE Complete \/ Settle
      BY <3>1 DEF Complete, Settle, Unstruck
    <3>2. CASE Log
      BY <2>1, <3>2, AuditedParts DEF Log, Unstruck, StoresInv
    <3> QED BY <1>3, <3>1, <3>2
  <2>3. worker' = Idle \/ \E s \in {"settle", "log"} : worker' = [worker EXCEPT !.step = s]
    BY <1>3 DEF Complete, Settle, Log, Ended, Then
  <2>4. worker'.job # NoJob => worker'.step \notin {"fail", "reschedule"}
    BY <2>3 DEF Idle, StoresInv, TypeOK
  <2> QED BY <2>1, <2>2, <2>4 DEF Unstruck
<1>4. CASE Failed \/ Reschedule
  <2>1. UNCHANGED rule /\ worker.job # NoJob /\ worker.step \in {"fail", "reschedule"}
    BY <1>4 DEF Failed, Reschedule, Now
  <2>2. ~(Owner = r /\ Target = "ekarmika")
    BY <2>1 DEF Unstruck
  <2>3. audits' = audits \/ \E e \in {"failed", "retried", "buried"} : Audited(e)
    BY <1>4 DEF Failed, Reschedule
  <2>4. audits'[r] = audits[r]
    BY <2>1, <2>2, <2>3, AuditedParts DEF StoresInv
  <2>5. worker' = Idle \/ worker'.job = worker.job
    BY <1>4 DEF Failed, Reschedule, Ended, Then, StoresInv, TypeOK
  <2> QED BY <2>1, <2>2, <2>4, <2>5 DEF Unstruck, Owner, Target, Idle
<1> QED BY <1>1, <1>2, <1>3, <1>4 DEF Work

LEMMA StrayStep ==
  ASSUME StoresInv, AloneInv, StrayInv, [Next]_vars PROVE StrayInv'
<1> SUFFICES ASSUME NEW r \in Runs, Alone(r)', Kind[r] = "fanout" PROVE Unstruck(r)'
  BY DEF StrayInv
<1>1. CASE Start(r)
  BY <1>1, StrayStart
<1>2. CASE Alone(r) /\ RunStep(r)
  BY <1>2, StrayRunStep DEF StrayInv
<1>3. CASE Alone(r) /\ Work
  BY <1>3, StrayWork DEF StrayInv
<1>4. CASE Alone(r) /\ UNCHANGED vars
  <2>1. UNCHANGED <<rule, audits, worker>>
    BY <1>4 DEF vars, pipeline
  <2> QED BY <1>4, <2>1 DEF StrayInv, Unstruck, Owner, Target
<1> QED BY <1>1, <1>2, <1>3, <1>4, AloneBefore

LoneRunInv == RestoreInv /\ StoresInv /\ AloneInv /\ StrayInv

LEMMA LoneRunInit == Init => LoneRunInv
<1>1. Init => AloneInv /\ StrayInv
  BY DEF Init, AloneInv, StrayInv, Alone, UnderWay, Over
<1> QED BY <1>1, RestoreInit, StoresInit DEF LoneRunInv

LEMMA LoneRunStep == ASSUME LoneRunInv, [Next]_vars PROVE LoneRunInv'
BY RestoreStep, StoresStep, AloneStep, StrayStep DEF LoneRunInv

\* A run that is under way alone finds the business whole once it has prepared it,
\* and no failure armed but its own (clearSimulatedWriteFailures, which every runner
\* calls before its first await).
THEOREM LoneRuns == Spec => []LoneRunInv
<1>1. LoneRunInv /\ [Next]_vars => LoneRunInv'
  BY LoneRunStep
<1> QED BY <1>1, LoneRunInit, PTL DEF Spec

\* A failure armed for one run never strikes a fan-out run that no other run
\* overlaps, whatever the runs before it left armed and left in the queue
\* (scheduleSimulatedWriteFailure, clearSimulatedWriteFailures).
THEOREM FailuresDoNotStray == Spec => []NoStrayFailure
<1>1. LoneRunInv => NoStrayFailure
  BY DEF LoneRunInv, StrayInv, NoStrayFailure, Alone, UnderWay, Unstruck
<1> QED BY <1>1, LoneRuns, PTL
-----------------------------------------------------------------------------
(* What a run that nothing disturbs waits for.  With more than one attempt the *)
(* one failure a run may have armed for itself does not bury its job.          *)

Calm(r) == Alone(r) /\ r \notin inherited

\* The record of job j's department shows the change of its run.
Carries(j) == table[j[2]] # Absent /\ j[1] \in table[j[2]]

JobSound(r, j) ==
  /\ ~NotYet(j) => record[j] \notin {"none", "DLQ_MOVED"}
  /\ record[j] = "COMPLETED" => Carries(j)
  /\ worker.job = j /\ worker.step \in {"complete", "settle", "log"} => Carries(j)
  /\ worker.job = j /\ worker.step \in {"fail", "reschedule"} =>
       j[2] = "ekarmika" /\ Kind[r] = "retry" /\ tries[j] = 0 /\ rule = 0
  /\ tries[j] # 0 => j[2] = "ekarmika" /\ Kind[r] = "retry" /\ tries[j] = 1 /\ rule = 0

QueueIsOf(r) == \A j \in Jobs : bull[j] = "waiting" \/ worker.job = j => j[1] = r

Awaited(r) == "jobs" \in seen[r] \/ phase[r] \in {"reading", "asserting"} =>
                DeliveredTo(r) = Departments

Sound(r) ==
  /\ QueueIsOf(r)
  /\ phase[r] \notin {"preparing", "accepting"} => event[r] # "none"
  /\ \A j \in Jobs : j[1] = r => JobSound(r, j)
  /\ rule > 0 => Kind[r] = "retry"
  /\ Awaited(r)

SeenInv == \A r \in Runs : phase[r] # "waiting" => seen[r] = {}

CalmInv == SeenInv /\ \A r \in Runs : Calm(r) => Sound(r)

LEMMA DeliveredJobs ==
  ASSUME NEW r \in Runs
  PROVE  DeliveredTo(r) = Departments <=> \A j \in Jobs : j[1] = r => Carries(j)
<1>1. ASSUME \A j \in Jobs : j[1] = r => Carries(j) PROVE DeliveredTo(r) = Departments
  <2>1. \A d \in Departments : <<r, d>> \in Jobs /\ <<r, d>>[1] = r /\ <<r, d>>[2] = d
    BY JobOf
  <2>2. \A d \in Departments : Carries(<<r, d>>)
    BY <1>1, <2>1
  <2>3. \A d \in Departments : table[d] # Absent /\ r \in table[d]
    BY <2>1, <2>2 DEF Carries
  <2> QED BY <2>3 DEF DeliveredTo
<1>2. ASSUME DeliveredTo(r) = Departments, NEW j \in Jobs, j[1] = r PROVE Carries(j)
  <2>1. j[2] \in DeliveredTo(r)
    BY <1>2, JobParts
  <2> QED BY <1>2, <2>1 DEF DeliveredTo, Carries
<1> QED BY <1>1, <1>2

LEMMA SeenStep ==
  ASSUME StoresInv, SeenInv, [Next]_vars PROVE SeenInv'
<1> USE DEF SeenInv, StoresInv, TypeOK
<1>1. ASSUME NEW q \in Runs, Prepare(q) \/ Submit(q) PROVE SeenInv'
  <2>1. UNCHANGED seen /\ phase[q] # "waiting" /\ \A x \in Runs \ {q} : phase'[x] = phase[x]
    BY <1>1 DEF Prepare, Start, EmptyQueues, EmptyTable, Wipe, Make, MakeFails, Doing, Advance,
                Submit, Accept, Enqueue, FinishIngest, UpdateEvent, Goto
  <2> QED BY <2>1
<1>2. ASSUME NEW q \in Runs, Await(q) PROVE SeenInv'
  <2>1. CASE PollEvent(q)
    BY <2>1 DEF PollEvent, Round, WaitOver, Goto
  <2>2. CASE PollJobs(q)
    BY <2>2 DEF PollJobs, Round, WaitOver, Goto
  <2>3. CASE WaitTimesOut(q) \/ ReadLogs(q) \/ Judge(q)
    BY <2>3 DEF WaitTimesOut, ReadLogs, Judge, WaitOver, Goto
  <2> QED BY <1>2, <2>1, <2>2, <2>3 DEF Await
<1>3. CASE Work \/ UNCHANGED vars
  <2>1. UNCHANGED <<phase, seen>>
    BY <1>3, WorkMovesNoRun DEF vars, restored
  <2> QED BY <2>1
<1> QED BY <1>1, <1>2, <1>3 DEF Next

LEMMA CalmBefore ==
  ASSUME StoresInv, AloneInv, [Next]_vars, NEW r \in Runs, Calm(r)'
  PROVE  \/ Start(r) /\ ~Backlog
         \/ Calm(r) /\ (RunStep(r) \/ Work \/ UNCHANGED vars)
<1>1. CASE Start(r) /\ Active = {}
  <2>1. ~Backlog
    BY <1>1 DEF Start, Witness, Calm
  <2> QED BY <1>1, <2>1
<1>2. CASE Alone(r) /\ (RunStep(r) \/ Work \/ UNCHANGED vars)
  <2>1. UNCHANGED inherited
    BY <1>2, RunSteps, WorkMovesNoRun DEF vars, history
  <2> QED BY <1>2, <2>1 DEF Calm
<1>3. Alone(r)'
  BY DEF Calm
<1> QED BY <1>1, <1>2, <1>3, AloneBefore

LEMMA CalmStart ==
  ASSUME StoresInv, SeenInv, NEW r \in Runs, Start(r), ~Backlog PROVE Sound(r)'
<1>1. /\ phase[r] = "idle" /\ phase'[r] = "preparing" /\ rule' = 0
      /\ UNCHANGED <<table, record, bull, tries, worker, seen>>
  BY DEF Start, Goto, pipeline, StoresInv, TypeOK
<1>2. QueueIsOf(r)'
  BY <1>1, NoJobIsNone DEF Backlog, Idle, QueueIsOf
<1>3. ASSUME NEW j \in Jobs, j[1] = r PROVE JobSound(r, j)'
  <2>1. NotYet(j) /\ NotYet(j)'
    BY <1>1, <1>3 DEF NotYet
  <2>2. JobFresh(j)
    BY <2>1 DEF StoresInv, JobsInv
  <2> QED BY <1>1, <2>1, <2>2 DEF JobFresh, JobSound
<1>4. Awaited(r)'
  BY <1>1 DEF SeenInv, Awaited
<1> QED BY <1>1, <1>2, <1>3, <1>4 DEF Sound

\* While a run prepares the business its jobs are still to come.
LEMMA CalmPrepares ==
  ASSUME StoresInv, StoresInv', SeenInv, NEW r \in Runs, Calm(r)', Sound(r),
         EmptyQueues(r) \/ EmptyTable(r) \/ Wipe(r) \/ Make(r) \/ MakeFails(r)
  PROVE  Sound(r)'
<1>1. phase[r] = "preparing" /\ UNCHANGED <<worker, seen>>
  BY DEF EmptyQueues, EmptyTable, Wipe, Make, MakeFails, Doing, pipeline
<1>2. ~MakeFails(r)
  BY DEF MakeFails, Goto, Calm, Alone, UnderWay, Over, StoresInv, TypeOK
<1>3. Advance(r)
  BY <1>2 DEF EmptyQueues, EmptyTable, Wipe, Make
<1>4. phase'[r] \in {"preparing", "accepting"}
  BY <1>1, <1>3 DEF Advance, Goto, Calm, Alone, UnderWay, Over, StoresInv, TypeOK
<1>5. rule' > 0 => Kind[r] = "retry"
  BY <1>3 DEF Advance, Sound
<1>6. QueueIsOf(r)'
  <2>1. bull' = bull \/ bull' = [j \in Jobs |-> "absent"]
    BY DEF EmptyQueues, EmptyTable, Wipe, Make, MakeFails, pipeline
  <2> QED BY <1>1, <2>1 DEF Sound, QueueIsOf
<1>7. ASSUME NEW j \in Jobs, j[1] = r PROVE JobSound(r, j)'
  <2>1. NotYet(j)'
    BY <1>4, <1>7 DEF NotYet
  <2>2. JobFresh(j)'
    BY <2>1 DEF StoresInv, JobsInv
  <2> QED BY <2>1, <2>2 DEF JobFresh, JobSound
<1>8. Awaited(r)'
  BY <1>1, <1>4 DEF SeenInv, Awaited
<1> QED BY <1>4, <1>5, <1>6, <1>7, <1>8 DEF Sound

\* A step of the run that leaves its jobs alone and enqueues none.
LEMMA JobsAsTheyWere ==
  ASSUME NEW r \in Runs, Sound(r), UNCHANGED <<table, record, bull, tries, worker, rule>>,
         \A j \in Jobs : j[1] = r => (NotYet(j) => NotYet(j)')
  PROVE  QueueIsOf(r)' /\ \A j \in Jobs : j[1] = r => JobSound(r, j)'
<1>1. QueueIsOf(r)'
  BY DEF Sound, QueueIsOf
<1>2. ASSUME NEW j \in Jobs, j[1] = r PROVE JobSound(r, j)'
  <2>1. JobSound(r, j)
    BY <1>2 DEF Sound
  <2>2. Carries(j)' = Carries(j) /\ (NotYet(j) => NotYet(j)')
    BY <1>2 DEF Carries
  <2> QED BY <2>1, <2>2 DEF JobSound
<1> QED BY <1>1, <1>2
LEMMA CalmSubmits ==
  ASSUME StoresInv, AloneInv, SeenInv, NEW r \in Runs, Calm(r), Calm(r)', Sound(r), Submit(r)
  PROVE  Sound(r)'
<1> USE DEF StoresInv, TypeOK
<1>1. CASE Accept(r)
  <2>1. phase[r] = "accepting" /\ UNCHANGED <<table, record, bull, tries, worker, rule, seen>>
    BY <1>1 DEF Accept
  <2>2. table["registry"] # Absent
    BY <2>1 DEF AloneInv, Calm, Tables
  <2>3. event'[r] = "CONFLICT_CHECKED" /\ phase'[r] = "enqueueing"
    BY <1>1, <2>2 DEF Accept, Goto
  <2>4. \A j \in Jobs : j[1] = r => NotYet(j)'
    BY <2>3 DEF NotYet
  <2>5. QueueIsOf(r)' /\ \A j \in Jobs : j[1] = r => JobSound(r, j)'
    BY <2>1, <2>4, JobsAsTheyWere
  <2>6. Awaited(r)'
    BY <2>1, <2>3 DEF SeenInv, Awaited
  <2> QED BY <2>1, <2>3, <2>5, <2>6 DEF Sound
<1>2. CASE Enqueue(r)
  <2> PICK j \in Jobs : Enqueues(r, j)
    BY <1>2, EnqueueParts
  <2>1. UNCHANGED <<table, event, tries, worker, rule, seen>>
    BY <1>2 DEF Enqueue
  <2>2. /\ phase[r] \in {"enqueueing", "enqueueing next"}
        /\ phase'[r] \in {"enqueueing next", "queued"}
        /\ j[1] = r /\ record'[j] = "QUEUED"
        /\ \A i \in Jobs \ {j} : record'[i] = record[i] /\ bull'[i] = bull[i]
    BY DEF Enqueues
  <2>3. QueueIsOf(r)'
    BY <2>1, <2>2 DEF Sound, QueueIsOf
  <2>4. ASSUME NEW i \in Jobs, i[1] = r PROVE JobSound(r, i)'
    <3>1. JobSound(r, i) /\ Carries(i)' = Carries(i)
      BY <2>1, <2>4 DEF Sound, Carries
    <3>2. CASE i = j
      BY <2>1, <2>2, <3>1, <3>2 DEF JobSound
    <3>3. CASE i # j
      <4>1. ~NotYet(i)' => ~NotYet(i)
        <5>1. i[2] \in Departments /\ j[2] \in Departments /\ i[2] # j[2]
          BY <2>2, <2>4, <3>3, JobParts, JobIs
        <5>2. CASE phase[r] = "enqueueing"
          <6>1. phase'[r] = "enqueueing next" /\ j[2] = "ekarmika"
            BY <5>2 DEF Enqueues
          <6> QED BY <2>4, <5>1, <6>1 DEF NotYet, Departments
        <5>3. CASE phase[r] = "enqueueing next"
          BY <2>4, <5>1, <5>3 DEF NotYet, Enqueues, Departments
        <5> QED BY <2>2, <5>2, <5>3
      <4> QED BY <2>1, <2>2, <3>1, <3>3, <4>1 DEF JobSound
    <3> QED BY <3>2, <3>3
  <2>5. Awaited(r)'
    BY <2>1, <2>2 DEF SeenInv, Awaited
  <2> QED BY <2>1, <2>2, <2>3, <2>4, <2>5 DEF Sound
<1>3. CASE FinishIngest(r)
  <2>1. phase[r] = "queued" /\ UNCHANGED <<table, record, bull, tries, worker, rule, seen>>
    BY <1>3 DEF FinishIngest
  <2>2. event[r] # "none"
    BY <2>1 DEF Sound
  <2>3. event'[r] = "QUEUED" /\ phase'[r] = "waiting"
    BY <1>3, <2>2 DEF FinishIngest, UpdateEvent, Goto
  <2>4. \A j \in Jobs : j[1] = r => ~NotYet(j)
    BY <2>1 DEF NotYet
  <2>5. QueueIsOf(r)' /\ \A j \in Jobs : j[1] = r => JobSound(r, j)'
    BY <2>1, <2>4, JobsAsTheyWere
  <2>6. Awaited(r)'
    BY <2>1, <2>3 DEF SeenInv, Awaited
  <2> QED BY <2>1, <2>3, <2>5, <2>6 DEF Sound
<1> QED BY <1>1, <1>2, <1>3 DEF Submit

\* The wait is over when both reads of a round are final, and the jobs were final
\* only with the change in both departments.
LEMMA CalmAwaits ==
  ASSUME StoresInv, SeenInv, NEW r \in Runs, Calm(r), Calm(r)', Sound(r), Await(r)
  PROVE  Sound(r)'
<1> USE DEF StoresInv, TypeOK
<1>1. UNCHANGED <<table, event, record, bull, tries, worker, rule>>
  BY DEF Await, PollEvent, PollJobs, WaitTimesOut, ReadLogs, Judge, pipeline
<1>2. phase[r] \in {"waiting", "reading", "asserting"}
  BY DEF Await, PollEvent, PollJobs, WaitTimesOut, ReadLogs, Judge
<1>3. event[r] # "none"
  BY <1>2 DEF Sound
<1>4. \A j \in Jobs : j[1] = r => ~NotYet(j)
  BY <1>2 DEF NotYet
<1>5. QueueIsOf(r)' /\ \A j \in Jobs : j[1] = r => JobSound(r, j)'
  BY <1>1, <1>4, JobsAsTheyWere
<1>6. Awaited(r) /\ DeliveredTo(r)' = DeliveredTo(r)
  BY <1>1 DEF Sound, DeliveredTo
<1>7. Awaited(r)'
  <2>1. CASE PollEvent(r)
    <3>1. Round(r, "event", EventFinal(r)) /\ phase[r] = "waiting"
      BY <1>3, <2>1 DEF PollEvent
    <3>2. "jobs" \in seen'[r] => "jobs" \in seen[r]
      BY <3>1 DEF Round, WaitOver
    <3>3. phase'[r] \in {"reading", "asserting"} => "jobs" \in seen[r]
      BY <3>1 DEF Round, WaitOver, Goto
    <3> QED BY <1>6, <3>2, <3>3 DEF Awaited
  <2>2. CASE PollJobs(r)
    <3>1. Round(r, "jobs", JobsFinal(r)) /\ phase[r] = "waiting" /\ "jobs" \notin seen[r]
      BY <2>2 DEF PollJobs
    <3>2. ASSUME JobsFinal(r) PROVE DeliveredTo(r) = Departments
      <4>1. ASSUME NEW j \in Jobs, j[1] = r PROVE Carries(j)
        <5>1. j \in JobsOf(r)
          BY <4>1 DEF Jobs, JobsOf
        <5>2. record[j] \in {"none", "COMPLETED", "DLQ_MOVED"}
          BY <3>2, <5>1 DEF JobsFinal
        <5> QED BY <1>4, <4>1, <5>2 DEF Sound, JobSound
      <4> QED BY <4>1, DeliveredJobs
    <3>3. ~JobsFinal(r) => seen'[r] = {} /\ phase'[r] = "waiting"
      BY <3>1 DEF Round, WaitOver
    <3> QED BY <1>6, <3>2, <3>3 DEF Awaited
  <2>3. CASE WaitTimesOut(r)
    BY <2>3 DEF WaitTimesOut, Calm, Alone
  <2>4. CASE ReadLogs(r)
    BY <1>6, <2>4 DEF ReadLogs, Awaited
  <2>5. CASE Judge(r)
    BY <1>6, <2>5 DEF Judge, Awaited
  <2> QED BY <2>1, <2>2, <2>3, <2>4, <2>5 DEF Await
<1> QED BY <1>1, <1>3, <1>5, <1>7 DEF Sound
\* A step of the worker on its job: what the jobs of the run are made of changes at
\* that job alone, and no record loses the change.
LEMMA OtherJobs ==
  ASSUME NEW r \in Runs, Sound(r), NEW j \in Jobs, UNCHANGED phase,
         worker'.job \in {j, NoJob}, worker.job \in {j, NoJob},
         \A i \in Jobs \ {j} : /\ record'[i] = record[i] /\ tries'[i] = tries[i]
                               /\ i[1] = r /\ tries[i] # 0 => rule' = rule
                               /\ i[1] = r /\ Carries(i) => Carries(i)',
         NEW i \in Jobs, i # j, i[1] = r
  PROVE  JobSound(r, i)'
<1>1. JobSound(r, i)
  BY DEF Sound
<1>2. NotYet(i)' = NotYet(i)
  BY DEF NotYet
<1>3. worker'.job # i
  BY NoJobIsNone
<1> QED BY <1>1, <1>2, <1>3 DEF JobSound

\* What the worker does leaves the wait of the run as it was.
LEMMA StillAwaited ==
  ASSUME NEW r \in Runs, Sound(r), UNCHANGED <<phase, seen>>,
         \A i \in Jobs : i[1] = r /\ Carries(i) => Carries(i)'
  PROVE  Awaited(r)'
<1>1. Awaited(r) => (DeliveredTo(r) = Departments => DeliveredTo(r)' = Departments)
  <2>1. DeliveredTo(r)' = Departments <=> \A j \in Jobs : j[1] = r => Carries(j)'
    <3>1. ASSUME \A j \in Jobs : j[1] = r => Carries(j)' PROVE DeliveredTo(r)' = Departments
      <4>1. \A d \in Departments : <<r, d>> \in Jobs /\ <<r, d>>[1] = r /\ <<r, d>>[2] = d
        BY JobOf
      <4>2. \A d \in Departments : Carries(<<r, d>>)'
        BY <3>1, <4>1
      <4>3. \A d \in Departments : table'[d] # Absent /\ r \in table'[d]
        BY <4>1, <4>2 DEF Carries
      <4> QED BY <4>3 DEF DeliveredTo
    <3>2. ASSUME DeliveredTo(r)' = Departments, NEW j \in Jobs, j[1] = r PROVE Carries(j)'
      <4>1. j[2] \in DeliveredTo(r)'
        BY <3>2, JobParts
      <4> QED BY <3>2, <4>1 DEF DeliveredTo, Carries
    <3> QED BY <3>1, <3>2
  <2> QED BY <2>1, DeliveredJobs
<1> QED BY <1>1 DEF Sound, Awaited

\* The worker of a calm run has a job of that run, whose event is there.
LEMMA CalmJob ==
  ASSUME StoresInv, NEW r \in Runs, Sound(r), NEW j \in Jobs,
         bull[j] = "waiting" \/ worker.job = j
  PROVE  /\ j[1] = r /\ ~NotYet(j) /\ event[r] # "none" /\ JobSound(r, j)
         /\ phase[r] # "preparing"
<1>1. j[1] = r
  BY DEF Sound, QueueIsOf
<1>2. ~NotYet(j)
  BY DEF StoresInv, JobsInv, JobFresh
<1>3. phase[r] \notin {"preparing", "accepting"}
  BY <1>1, <1>2 DEF NotYet
<1> QED BY <1>1, <1>2, <1>3 DEF Sound

LEMMA CalmTakes ==
  ASSUME StoresInv, AloneInv, NEW r \in Runs, Calm(r), Sound(r), NEW j \in Jobs, Take(j)
  PROVE  Sound(r)'
<1>1. bull[j] = "waiting" /\ worker = Idle
  BY DEF Take
<1>2. /\ j[1] = r /\ ~NotYet(j) /\ event[r] # "none" /\ JobSound(r, j)
      /\ phase[r] # "preparing"
  BY <1>1, CalmJob
<1>3. ~Unprocessable(j)
  BY <1>2 DEF AloneInv, Calm, Unprocessable, Tables
<1>4. /\ worker' = [job |-> j, step |-> "write"] /\ bull' = [bull EXCEPT ![j] = "active"]
      /\ event' = [event EXCEPT ![r] = "WRITE_ATTEMPTED"] /\ Records(j, "PROCESSING")
      /\ UNCHANGED <<table, phase, tries, rule, seen>>
  BY <1>2, <1>3 DEF Take, restored
<1>5. /\ \A i \in Jobs \ {j} : record'[i] = record[i]
      /\ record'[j] = IF record[j] = "none" THEN "none" ELSE "PROCESSING"
  BY <1>4, RecordsParts DEF StoresInv
<1>6. \A i \in Jobs : Carries(i)' = Carries(i)
  BY <1>4 DEF Carries
<1>7. QueueIsOf(r)'
  BY <1>2, <1>4 DEF Sound, QueueIsOf, StoresInv, TypeOK
<1>8. ASSUME NEW i \in Jobs, i[1] = r PROVE JobSound(r, i)'
  <2>1. CASE i = j
    <3>1. worker'.step = "write" /\ NotYet(j)' = NotYet(j)
      BY <1>4 DEF NotYet
    <3> QED BY <1>2, <1>4, <1>5, <2>1, <3>1 DEF JobSound
  <2>2. CASE i # j
    BY <1>1, <1>4, <1>5, <1>6, <1>8, <2>2, OtherJobs DEF Idle
  <2> QED BY <2>1, <2>2
<1>9. Awaited(r)'
  BY <1>4, <1>6, StillAwaited
<1>10. event'[r] # "none"
  BY <1>4 DEF StoresInv, TypeOK
<1> QED BY <1>4, <1>7, <1>8, <1>9, <1>10 DEF Sound

LEMMA CalmWrites ==
  ASSUME StoresInv, AloneInv, NEW r \in Runs, Calm(r), Sound(r), Write PROVE Sound(r)'
<1> PICK j : j = worker.job
  OBVIOUS
<1>1. /\ worker.job # NoJob /\ worker.step = "write"
      /\ UNCHANGED <<phase, event, record, bull, tries, seen>>
  BY DEF Write, Now
<1>2. j \in Jobs /\ Owner = j[1] /\ Target = j[2]
  BY <1>1, WorkerHasJob DEF StoresInv, Owner, Target
<1>3. /\ j[1] = r /\ ~NotYet(j) /\ JobSound(r, j) /\ phase[r] # "preparing"
  BY <1>2, CalmJob
<1>4. j[2] \in Departments /\ j[2] \in Tables /\ table[j[2]] # Absent
  BY <1>2, <1>3, JobParts DEF AloneInv, Calm, Tables
<1>5. QueueIsOf(r)' /\ NotYet(j)' = NotYet(j)
  <2>1. worker'.job = worker.job
    BY DEF Write, Then, StoresInv, TypeOK
  <2> QED BY <1>1, <2>1 DEF Sound, QueueIsOf, NotYet
<1>6. CASE j[2] = "ekarmika" /\ rule > 0
  <2>1. rule' = rule - 1 /\ Then("fail") /\ UNCHANGED table
    BY <1>2, <1>6 DEF Write
  <2>2. rule = 1 /\ rule' = 0
    BY <1>6, <2>1 DEF StoresInv, TypeOK
  <2>3. tries[j] = 0
    BY <1>3, <2>2 DEF JobSound
  <2>4. worker'.job = j /\ worker'.step = "fail"
    BY <2>1 DEF Then, StoresInv, TypeOK
  <2>5. \A i \in Jobs : Carries(i)' = Carries(i)
    BY <2>1 DEF Carries
  <2>6. ASSUME NEW i \in Jobs, i[1] = r PROVE JobSound(r, i)'
    <3>1. CASE i = j
      BY <1>1, <1>3, <1>5, <1>6, <2>2, <2>3, <2>4, <2>5, <3>1 DEF Sound, JobSound
    <3>2. CASE i # j
      <4>1. \A x \in Jobs : x[1] = r => tries[x] = 0
        BY <2>2 DEF Sound, JobSound
      <4> QED BY <1>1, <1>2, <2>4, <2>5, <2>6, <3>2, <4>1, OtherJobs
    <3> QED BY <3>1, <3>2
  <2>7. Awaited(r)'
    BY <1>1, <2>5, StillAwaited
  <2> QED BY <1>1, <1>5, <2>2, <2>6, <2>7 DEF Sound
<1>7. CASE ~(j[2] = "ekarmika" /\ rule > 0)
  <2> DEFINE rs == {x \in table[j[2]] : Kind[x] # Kind[r]} \cup {r}
  <2>1. table' = [table EXCEPT ![j[2]] = rs] /\ Then("complete") /\ UNCHANGED rule
    BY <1>2, <1>3, <1>4, <1>7 DEF Write
  <2>2. rs \in SUBSET Runs /\ r \in rs
    BY <1>4 DEF StoresInv, TypeOK
  <2>3. table'[j[2]] = rs /\ rs # Absent
    BY <1>4, <2>1, <2>2, SetsArePresent DEF StoresInv, TypeOK
  <2>4. \A i \in Jobs : i[1] = r /\ Carries(i) => Carries(i)'
    <3>1. \A t \in Tables : t # j[2] => table'[t] = table[t]
      BY <2>1 DEF StoresInv, TypeOK
    <3> QED BY <2>2, <2>3, <3>1, JobParts DEF Carries, Tables
  <2>5. Carries(j)'
    BY <1>3, <2>2, <2>3 DEF Carries
  <2>6. worker'.job = j /\ worker'.step = "complete"
    BY <2>1 DEF Then, StoresInv, TypeOK
  <2>7. ASSUME NEW i \in Jobs, i[1] = r PROVE JobSound(r, i)'
    <3>1. CASE i = j
      BY <1>1, <1>3, <1>5, <2>1, <2>5, <2>6, <3>1 DEF JobSound
    <3>2. CASE i # j
      BY <1>1, <1>2, <2>1, <2>4, <2>6, <2>7, <3>2, OtherJobs
    <3> QED BY <3>1, <3>2
  <2>8. Awaited(r)'
    BY <1>1, <2>4, StillAwaited
  <2> QED BY <1>1, <1>5, <2>1, <2>7, <2>8 DEF Sound
<1> QED BY <1>6, <1>7
\* The same of a step of the worker that writes no department's record.
LEMMA CalmGoesOn ==
  ASSUME StoresInv, NEW r \in Runs, Sound(r), NEW j \in Jobs, j = worker.job,
         UNCHANGED <<table, phase, rule, seen>>, worker'.job \in {j, NoJob},
         \A i \in Jobs \ {j} : /\ record'[i] = record[i] /\ tries'[i] = tries[i]
                               /\ bull'[i] = bull[i],
         event'[r] # "none", JobSound(r, j)'
  PROVE  Sound(r)'
<1>1. j[1] = r
  BY CalmJob
<1>2. QueueIsOf(r)'
  BY <1>1, NoJobIsNone DEF Sound, QueueIsOf
<1>3. \A i \in Jobs : Carries(i)' = Carries(i)
  BY DEF Carries
<1>4. ASSUME NEW i \in Jobs, i[1] = r PROVE JobSound(r, i)'
  BY <1>3, <1>4, OtherJobs
<1>5. Awaited(r)'
  BY <1>3, StillAwaited
<1> QED BY <1>2, <1>4, <1>5 DEF Sound

\* What holds when the worker is at a job of a calm run.
LEMMA CalmWorker ==
  ASSUME StoresInv, NEW r \in Runs, Sound(r), worker.job # NoJob
  PROVE  /\ worker.job \in Jobs /\ Owner = r /\ Target = worker.job[2]
         /\ worker.job[1] = r /\ ~NotYet(worker.job) /\ event[r] # "none"
         /\ JobSound(r, worker.job) /\ tries[worker.job] < MaxAttempts
<1>1. worker.job \in Jobs
  BY AtWork
<1>2. worker.job[1] = r /\ ~NotYet(worker.job) /\ event[r] # "none" /\ JobSound(r, worker.job)
  BY <1>1, CalmJob
<1> QED BY <1>1, <1>2, AtWork DEF Owner, Target

LEMMA CalmEnded ==
  ASSUME StoresInv, NEW j \in Jobs, j = worker.job, NEW threw \in BOOLEAN, Ended(j, threw)
  PROVE  /\ worker' = Idle /\ worker'.job = NoJob
         /\ \A i \in Jobs \ {j} : bull'[i] = bull[i] /\ tries'[i] = tries[i]
         /\ tries'[j] = IF threw THEN tries[j] + 1 ELSE tries[j]
<1>1. worker.job # NoJob
  BY NoJobIsNone
<1>2. tries[j] < MaxAttempts
  BY <1>1, AtWork
<1>3. worker' = Idle
  BY DEF Ended
<1> QED BY <1>2, <1>3, EndedParts DEF Idle

LEMMA CalmWork ==
  ASSUME MaxAttempts > 1, StoresInv, AloneInv, NEW r \in Runs, Calm(r), Sound(r), Work
  PROVE  Sound(r)'
<1> PICK j : j = worker.job
  OBVIOUS
<1>1. ASSUME NEW i \in Jobs, Take(i) PROVE Sound(r)'
  BY <1>1, CalmTakes
<1>2. CASE Write
  BY <1>2, CalmWrites
<1>3. CASE Complete
  <2>1. /\ worker.job # NoJob /\ worker.step = "complete" /\ Records(j, "COMPLETED")
        /\ Then("settle") /\ UNCHANGED <<table, phase, event, bull, tries, rule, seen>>
    BY <1>3 DEF Complete, Now, restored
  <2>2. j \in Jobs /\ ~NotYet(j) /\ event[r] # "none" /\ JobSound(r, j) /\ j[1] = r
    BY <2>1, CalmWorker
  <2>3. /\ \A i \in Jobs \ {j} : record'[i] = record[i]
        /\ record'[j] = IF record[j] = "none" THEN "none" ELSE "COMPLETED"
    BY <2>1, <2>2, RecordsParts DEF StoresInv
  <2>4. worker'.job = j /\ worker'.step = "settle"
    BY <2>1 DEF Then, StoresInv, TypeOK
  <2>5. NotYet(j)' = NotYet(j) /\ Carries(j)' = Carries(j)
    BY <2>1 DEF NotYet, Carries
  <2>6. JobSound(r, j)'
    BY <2>1, <2>2, <2>3, <2>4, <2>5 DEF JobSound
  <2> QED BY <2>1, <2>2, <2>3, <2>4, <2>6, CalmGoesOn
<1>4. CASE Settle
  <2>1. /\ worker.job # NoJob /\ worker.step = "settle"
        /\ UNCHANGED <<table, phase, record, rule, seen>>
    BY <1>4 DEF Settle, Now, restored
  <2>2. /\ j \in Jobs /\ ~NotYet(j) /\ event[r] # "none" /\ JobSound(r, j) /\ j[1] = r
        /\ Owner = r
    BY <2>1, CalmWorker
  <2>3. Then("log") /\ UNCHANGED <<bull, tries>>
    BY <1>4, <2>2 DEF Settle
  <2>4. event'[r] # "none"
    BY <1>4, <2>2 DEF Settle, StoresInv, TypeOK
  <2>5. worker'.job = j /\ worker'.step = "log"
    BY <2>3 DEF Then, StoresInv, TypeOK
  <2>6. NotYet(j)' = NotYet(j) /\ Carries(j)' = Carries(j)
    BY <2>1 DEF NotYet, Carries
  <2>7. JobSound(r, j)'
    BY <2>1, <2>2, <2>3, <2>5, <2>6 DEF JobSound
  <2> QED BY <2>1, <2>2, <2>3, <2>4, <2>5, <2>7, CalmGoesOn
<1>5. CASE Log
  <2>1. /\ worker.job # NoJob /\ Ended(j, FALSE)
        /\ UNCHANGED <<table, phase, event, record, rule, seen>>
    BY <1>5 DEF Log, Now, restored
  <2>2. j \in Jobs /\ ~NotYet(j) /\ event[r] # "none" /\ JobSound(r, j) /\ j[1] = r
    BY <2>1, CalmWorker
  <2>3. /\ worker'.job = NoJob /\ tries'[j] = tries[j]
        /\ \A i \in Jobs \ {j} : bull'[i] = bull[i] /\ tries'[i] = tries[i]
    BY <2>1, <2>2, CalmEnded
  <2>4. NotYet(j)' = NotYet(j) /\ Carries(j)' = Carries(j)
    BY <2>1 DEF NotYet, Carries
  <2>5. JobSound(r, j)'
    BY <2>1, <2>2, <2>3, <2>4, NoJobIsNone DEF JobSound
  <2> QED BY <2>1, <2>2, <2>3, <2>5, CalmGoesOn
<1>6. CASE Failed
  <2>1. /\ worker.job # NoJob /\ worker.step = "fail"
        /\ UNCHANGED <<table, phase, record, rule, seen>>
    BY <1>6 DEF Failed, Now, restored
  <2>2. /\ j \in Jobs /\ ~NotYet(j) /\ event[r] # "none" /\ JobSound(r, j) /\ j[1] = r
        /\ Owner = r
    BY <2>1, CalmWorker
  <2>3. Then("reschedule") /\ UNCHANGED <<bull, tries>>
    BY <1>6, <2>2 DEF Failed
  <2>4. event'[r] # "none"
    BY <1>6, <2>2 DEF Failed, StoresInv, TypeOK
  <2>5. worker'.job = j /\ worker'.step = "reschedule"
    BY <2>3 DEF Then, StoresInv, TypeOK
  <2>6. NotYet(j)' = NotYet(j) /\ Carries(j)' = Carries(j)
    BY <2>1 DEF NotYet, Carries
  <2>7. JobSound(r, j)'
    BY <2>1, <2>2, <2>3, <2>5, <2>6 DEF JobSound
  <2> QED BY <2>1, <2>2, <2>3, <2>4, <2>5, <2>7, CalmGoesOn
<1>7. CASE Reschedule
  <2>1. /\ worker.job # NoJob /\ worker.step = "reschedule" /\ Ended(j, TRUE)
        /\ UNCHANGED <<table, phase, event, rule, seen>>
    BY <1>7 DEF Reschedule, Now, restored
  <2>2. j \in Jobs /\ ~NotYet(j) /\ event[r] # "none" /\ JobSound(r, j) /\ j[1] = r
    BY <2>1, CalmWorker
  <2>3. j[2] = "ekarmika" /\ Kind[r] = "retry" /\ tries[j] = 0 /\ rule = 0
    BY <2>1, <2>2 DEF JobSound
  <2>4. Records(j, "RETRY_SCHEDULED")
    BY <1>7, <2>3, SomeAttempts DEF Reschedule, Final
  <2>5. /\ \A i \in Jobs \ {j} : record'[i] = record[i]
        /\ record'[j] = IF record[j] = "none" THEN "none" ELSE "RETRY_SCHEDULED"
    BY <2>2, <2>4, RecordsParts DEF StoresInv
  <2>6. /\ worker'.job = NoJob /\ tries'[j] = 1
        /\ \A i \in Jobs \ {j} : bull'[i] = bull[i] /\ tries'[i] = tries[i]
    <3>1. /\ worker'.job = NoJob
          /\ \A i \in Jobs \ {j} : bull'[i] = bull[i] /\ tries'[i] = tries[i]
          /\ tries'[j] = IF TRUE THEN tries[j] + 1 ELSE tries[j]
      BY <2>1, <2>2, CalmEnded
    <3> QED BY <3>1, <2>3
  <2>7. NotYet(j)' = NotYet(j)
    BY <2>1 DEF NotYet
  <2>8. JobSound(r, j)'
    BY <2>1, <2>2, <2>3, <2>5, <2>6, <2>7, NoJobIsNone DEF JobSound
  <2> QED BY <2>1, <2>2, <2>5, <2>6, <2>8, CalmGoesOn
<1> QED BY <1>1, <1>2, <1>3, <1>4, <1>5, <1>6, <1>7 DEF Work

LEMMA CalmStep ==
  ASSUME MaxAttempts > 1, StoresInv, StoresInv', AloneInv, CalmInv, [Next]_vars
  PROVE  CalmInv'
<1>1. SeenInv'
  BY SeenStep DEF CalmInv
<1>2. ASSUME NEW r \in Runs, Calm(r)' PROVE Sound(r)'
  <2>1. CASE Start(r) /\ ~Backlog
    BY <2>1, CalmStart DEF CalmInv
  <2>2. CASE Calm(r) /\ RunStep(r)
    BY <1>2, <2>2, CalmPrepares, CalmSubmits, CalmAwaits DEF CalmInv, RunStep
  <2>3. CASE Calm(r) /\ Work
    BY <2>3, CalmWork DEF CalmInv
  <2>4. CASE Calm(r) /\ UNCHANGED vars
    <3>1. UNCHANGED <<table, phase, event, record, bull, tries, worker, rule, seen>>
      BY <2>4 DEF vars, restored, pipeline
    <3>2. Sound(r)
      BY <2>4 DEF CalmInv
    <3>3. QueueIsOf(r)' /\ \A j \in Jobs : j[1] = r => JobSound(r, j)'
      BY <3>1, <3>2, JobsAsTheyWere DEF NotYet
    <3>4. Awaited(r)'
      BY <3>1, <3>2 DEF Sound, Awaited, DeliveredTo
    <3> QED BY <3>1, <3>2, <3>3, <3>4 DEF Sound
  <2> QED BY <1>2, <2>1, <2>2, <2>3, <2>4, CalmBefore
<1> QED BY <1>1, <1>2 DEF CalmInv

\* A run that neither another run nor a job left behind disturbs finds its change in
\* both departments when it comes to its assertions, for any number of runs of any
\* kind before it, and whatever they left in the tables, as long as a job has a second
\* attempt (waitForEventSummary, processWriteJob).
THEOREM UndisturbedRunsDeliver ==
  ASSUME MaxAttempts > 1 PROVE Spec => []AloneRunsDeliver
<1>1. Init => CalmInv
  BY DEF Init, CalmInv, SeenInv, Calm, Alone, UnderWay, Over
<1>2. LoneRunInv /\ LoneRunInv' /\ CalmInv /\ [Next]_vars => CalmInv'
  BY CalmStep DEF LoneRunInv
<1>3. LoneRunInv /\ CalmInv => AloneRunsDeliver
  BY DEF LoneRunInv, CalmInv, Sound, Awaited, Calm, Alone, UnderWay, Over, AloneRunsDeliver
<1> QED BY <1>1, <1>2, <1>3, LoneRuns, PTL DEF Spec

================================================================================
