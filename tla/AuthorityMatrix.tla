---------------------------- MODULE AuthorityMatrix ----------------------------
(***************************************************************************)
(* Who wins when two systems change the same field of a business: the      *)
(* Authority Matrix and what conflict.service.ts makes of it, field by     *)
(* field and then for all the fields two events contest.                   *)
(*                                                                         *)
(* An active rule is three constants: the system with authority over the   *)
(* field, the system that stands in for it (NoSystem for none), and        *)
(* whether a person decides.  Rules do not change while the system runs.   *)
(***************************************************************************)
EXTENDS Naturals

CONSTANTS
    Systems,
    Fields,         \* CANONICAL_FIELD_PATHS
    Authoritative,  \* [Fields -> Systems]
    Fallback,       \* [Fields -> Systems \cup {NoSystem}]
    Manual,         \* the fields whose rule asks for manual review
    NoSystem

ASSUME MatrixAssumption ==
    /\ Authoritative \in [Fields -> Systems]
    /\ Fallback \in [Fields -> Systems \cup {NoSystem}]
    /\ Manual \subseteq Fields
    /\ NoSystem \notin Systems

\* resolveFieldDecision for a change by cur and an earlier one by other; later
\* says that the change of cur was received no earlier.
FieldDecision(cur, other, later, f) ==
    LET Prefer(system) == IF cur = system THEN "CURRENT" ELSE "OTHER"
    IN  IF f \in Manual THEN "MANUAL"
        ELSE IF cur = other THEN IF later THEN "CURRENT" ELSE "OTHER"
        ELSE IF Authoritative[f] \in {cur, other} THEN Prefer(Authoritative[f])
        ELSE IF Fallback[f] \in {cur, other} THEN Prefer(Fallback[f])
        ELSE "MANUAL"

\* deriveCandidateOutcome over the contested fields F.
CandidateOutcome(cur, other, later, F) ==
    LET winners == {FieldDecision(cur, other, later, f) : f \in F}
    IN  IF "MANUAL" \in winners \/ {"CURRENT", "OTHER"} \subseteq winners
        THEN "MANUAL_REVIEW_REQUIRED"
        ELSE IF "OTHER" \in winners THEN "CURRENT_LOSES" ELSE "CURRENT_WINS"

\* The outcome the other side would have drawn.
Mirror(outcome) ==
    CASE outcome = "CURRENT_WINS"  -> "CURRENT_LOSES"
      [] outcome = "CURRENT_LOSES" -> "CURRENT_WINS"
      [] OTHER                     -> outcome
=============================================================================
