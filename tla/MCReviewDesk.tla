----------------------------- MODULE MCReviewDesk -----------------------------
(***************************************************************************)
(* Two conflicts of one event and three calls of reviewers.  The bodies    *)
(* are those of the frontend's two actions, the older outcomes, and ones   *)
(* that validation or normalizeReviewAction refuse.                        *)
(***************************************************************************)
EXTENDS ReviewDesk, TLC

Body(a, o, who) == [action |-> a, outcome |-> o, reviewer |-> who]

MCRequests ==
    {Body("APPROVED", None, TRUE), Body("REJECTED", "MERGED", TRUE),
     Body(None, "PENDING_REVIEW", TRUE), Body(None, "REJECTED", TRUE),
     Body(None, "MERGED", TRUE), Body(None, None, TRUE), Body("APPROVED", None, FALSE)}

Symmetry == Permutations(Calls) \cup Permutations(Conflicts)
=============================================================================
