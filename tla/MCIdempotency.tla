---------------------------- MODULE MCIdempotency ----------------------------
(***************************************************************************)
(* Instances of Idempotency.  Three calls make every relation between     *)
(* calls happen, directly and through a third: reused has the request id   *)
(* of first and other content, and polled, which stands for the poller,    *)
(* has the content of first and no request id.                             *)
(***************************************************************************)
EXTENDS Idempotency

CONSTANTS first, reused, polled, p1, f1, f2

MCPrimaryOf == [r \in Requests |-> IF r = polled THEN NoKey ELSE p1]

MCFallbackOf == [r \in Requests |-> IF r = reused THEN f2 ELSE f1]
=============================================================================
