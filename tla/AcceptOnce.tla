------------------------------ MODULE AcceptOnce ------------------------------
(***************************************************************************)
(* What the idempotency guard of K-Sync promises, apart from how a         *)
(* database table, a Redis cache and concurrent handlers keep the promise. *)
(*                                                                         *)
(* Every call of ingestRequest (a Request) carries a set of idempotency    *)
(* keys.  A call gets one verdict, for good: it is accepted, which it may  *)
(* be only while no accepted call has a key in common with it, or it is a  *)
(* duplicate.  A duplicate points at an accepted call, its original, and   *)
(* it reaches it through calls that share keys: through the original       *)
(* itself or through a duplicate of it.                                    *)
(***************************************************************************)

CONSTANTS
    Requests,   \* calls of ingestRequest; each one makes an event of its own
    KeysOf(_)   \* the idempotency keys of a call

VARIABLES
    verdict,    \* what has been decided about each call
    original    \* the accepted call that a duplicate stands for

abstractVars == <<verdict, original>>

Verdicts == {"pending", "accepted", "duplicate"}

ShareKey(q, r) == KeysOf(q) \cap KeysOf(r) # {}

AbstractTypeOK ==
    /\ verdict \in [Requests -> Verdicts]
    /\ original \in [Requests -> Requests]

AbstractInit ==
    /\ verdict = [r \in Requests |-> "pending"]
    /\ original = [r \in Requests |-> r]

\* No accepted call has a key of r: r is taken in and becomes the call that
\* stands for its keys.
AcceptRequest(r) ==
    /\ verdict[r] = "pending"
    /\ \A q \in Requests : verdict[q] = "accepted" => ~ShareKey(q, r)
    /\ verdict' = [verdict EXCEPT ![r] = "accepted"]
    /\ UNCHANGED original

\* A decided call q has a key of r: r is a duplicate of whatever q stands for.
RefuseRequest(r, q) ==
    /\ verdict[r] = "pending"
    /\ verdict[q] # "pending"
    /\ ShareKey(q, r)
    /\ verdict' = [verdict EXCEPT ![r] = "duplicate"]
    /\ original' = [original EXCEPT ![r] = original[q]]

AbstractNext ==
    \E r \in Requests :
        \/ AcceptRequest(r)
        \/ \E q \in Requests : RefuseRequest(r, q)

AbstractSpec == AbstractInit /\ [][AbstractNext]_abstractVars

-----------------------------------------------------------------------------
(* Properties of the promise. *)

\* No two accepted calls have a key in common, whatever their order.
AcceptedApart ==
    \A q, r \in Requests :
        verdict[q] = "accepted" /\ verdict[r] = "accepted" /\ q # r
            => ~ShareKey(q, r)

\* The original of every decided call is an accepted call.
OriginalsAccepted ==
    \A r \in Requests :
        verdict[r] # "pending" => verdict[original[r]] = "accepted"

\* A verdict is final, and so is the original a duplicate was told about.
VerdictsFinal ==
    [][\A r \in Requests :
        verdict[r] # "pending" =>
            verdict'[r] = verdict[r] /\ original'[r] = original[r]]_abstractVars
=============================================================================
