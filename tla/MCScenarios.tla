----------------------------- MODULE MCScenarios ------------------------------
(* Instances of Scenarios for TLC: two fan-out runs, which nothing tells apart, *)
(* a run of the failure scenario and a reset.                                   *)
EXTENDS Scenarios, TLC

CONSTANTS fan, fan2, retry, reset

Kinds == [r \in Runs |->
  IF r \in {fan, fan2} THEN "fanout" ELSE IF r = retry THEN "retry" ELSE "reset"]

Alike == Permutations({fan, fan2})
================================================================================
