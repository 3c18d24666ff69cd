----------------------------- MODULE MCDelivery -----------------------------
(***************************************************************************)
(* Instances of Delivery.  An address change of SWS has two targets, both  *)
(* written through the department queue; a change of e-Karmika has one,    *)
(* written through the SWS queue (routing.rules.ts).                       *)
(***************************************************************************)
EXTENDS Delivery, TLC

CONSTANTS address, employees, toEkarmika, toEsurakshate, toSws

MCEventOf == [j \in Jobs |-> IF j = toSws THEN employees ELSE address]
MCQueueOf == [j \in Jobs |-> IF j = toSws THEN "sws-write" ELSE "department-write"]

\* Neither the code nor a property tells the two departments apart.
Departments == Permutations({toEkarmika, toEsurakshate})
=============================================================================
