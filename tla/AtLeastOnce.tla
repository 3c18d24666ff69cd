------------------------------ MODULE AtLeastOnce ------------------------------
(***************************************************************************)
(* What queue-backed delivery promises, apart from how BullMQ, the records *)
(* of jobs, the status of events and a process that dies keep the promise. *)
(*                                                                         *)
(* A job is handed over once and gets a number of chances.  A chance       *)
(* reaches the target at most once, and it may fail or die with the target *)
(* reached.  In the end the job is done, which takes a target that was     *)
(* reached or an event that has lost its conflict, or it is given up, when *)
(* its chances are used up, with a dead letter unless nobody could write   *)
(* one.  Success is claimed of an event only when a target was reached.    *)
(***************************************************************************)
EXTENDS Naturals

CONSTANTS
    Events,       \* accepted events
    Jobs,         \* one per event and target
    EventOf,      \* the event of a job
    MaxAttempts,  \* chances that may fail, the last one included
    MaxStalls     \* chances that may die and be given back

VARIABLES
    fate,         \* unsent, open, done or abandoned
    failures,     \* chances that failed
    deaths,       \* chances that died
    effects,      \* how often the target was reached
    letters,      \* dead letters
    unseen,       \* jobs with a chance that ended where nobody looked
    lost,         \* events that lost a conflict
    claimed       \* events of which success is claimed

promiseVars == <<fate, failures, deaths, effects, letters, unseen, lost, claimed>>

PromiseInit ==
    /\ fate = [j \in Jobs |-> "unsent"]
    /\ failures = [j \in Jobs |-> 0] /\ deaths = [j \in Jobs |-> 0]
    /\ effects = [j \in Jobs |-> 0] /\ letters = [j \in Jobs |-> 0]
    /\ unseen = {} /\ lost = {} /\ claimed = {}

HandOver(j) ==
    /\ fate[j] = "unsent"
    /\ fate' = [fate EXCEPT ![j] = "open"]
    /\ UNCHANGED <<failures, deaths, effects, letters, unseen, lost, claimed>>

\* No chance has reached the target twice.
Reach(j) ==
    /\ fate[j] = "open"
    /\ effects[j] <= failures[j] + deaths[j]
    /\ effects' = [effects EXCEPT ![j] = @ + 1]
    /\ UNCHANGED <<fate, failures, deaths, letters, unseen, lost, claimed>>

\* A dead letter is written in the last chance, and again if that one dies.
Bury(j) ==
    /\ fate[j] = "open"
    /\ failures[j] + 1 = MaxAttempts
    /\ letters[j] <= deaths[j]
    /\ letters' = [letters EXCEPT ![j] = @ + 1]
    /\ UNCHANGED <<fate, failures, deaths, effects, unseen, lost, claimed>>

MissFailure(j) ==
    /\ fate[j] = "open"
    /\ unseen' = unseen \cup {j}
    /\ UNCHANGED <<fate, failures, deaths, effects, letters, lost, claimed>>

Succeed(j) ==
    /\ fate[j] = "open"
    /\ effects[j] > 0 \/ EventOf[j] \in lost
    /\ fate' = [fate EXCEPT ![j] = "done"]
    /\ UNCHANGED <<failures, deaths, effects, letters, unseen, lost, claimed>>

FailChance(j) ==
    /\ fate[j] = "open"
    /\ failures' = [failures EXCEPT ![j] = @ + 1]
    /\ \/ /\ failures[j] + 1 < MaxAttempts
          /\ letters[j] = 0
          /\ UNCHANGED fate
       \/ /\ failures[j] + 1 = MaxAttempts
          /\ letters[j] > 0 \/ j \in unseen
          /\ fate' = [fate EXCEPT ![j] = "abandoned"]
    /\ UNCHANGED <<deaths, effects, letters, unseen, lost, claimed>>

DieInChance(j) ==
    /\ fate[j] = "open"
    /\ \/ /\ deaths[j] < MaxStalls
          /\ deaths' = [deaths EXCEPT ![j] = @ + 1]
          /\ UNCHANGED <<fate, unseen>>
       \/ /\ deaths[j] = MaxStalls
          /\ fate' = [fate EXCEPT ![j] = "abandoned"]
          /\ unseen' = unseen \cup {j}
          /\ UNCHANGED deaths
    /\ UNCHANGED <<failures, effects, letters, lost, claimed>>

Lose(e) ==
    /\ lost' = lost \cup {e}
    /\ claimed' = claimed \ {e}
    /\ UNCHANGED <<fate, failures, deaths, effects, letters, unseen>>

Claim(e) ==
    /\ \E j \in Jobs : EventOf[j] = e /\ effects[j] > 0
    /\ claimed' = claimed \cup {e}
    /\ UNCHANGED <<fate, failures, deaths, effects, letters, unseen, lost>>

Withdraw(e) ==
    /\ claimed' = claimed \ {e}
    /\ UNCHANGED <<fate, failures, deaths, effects, letters, unseen, lost>>

PromiseNext ==
    \/ \E j \in Jobs :
        \/ HandOver(j) \/ Reach(j) \/ Bury(j) \/ MissFailure(j)
        \/ Succeed(j) \/ FailChance(j) \/ DieInChance(j)
    \/ \E e \in Events : Lose(e) \/ Claim(e) \/ Withdraw(e)

PromiseSpec == PromiseInit /\ [][PromiseNext]_promiseVars

-----------------------------------------------------------------------------
(* Properties of the promise. *)

Ended(j) == fate[j] \in {"done", "abandoned"}

\* What became of a job is backed by what was done for it, and nothing is done
\* more often than there were chances.
FatesBacked ==
    \A j \in Jobs :
        /\ fate[j] = "done" => effects[j] > 0 \/ EventOf[j] \in lost
        /\ fate[j] = "abandoned" => letters[j] > 0 \/ j \in unseen
        /\ effects[j] <= MaxAttempts + MaxStalls
        /\ letters[j] <= MaxStalls + 1

\* A job that is over is over: its target is not reached again, no dead letter
\* is added, and what became of it never changes.
FatesFinal ==
    [][\A j \in Jobs :
        Ended(j) => /\ fate'[j] = fate[j]
                    /\ effects'[j] = effects[j]
                    /\ letters'[j] = letters[j]]_promiseVars
=============================================================================
