--------------------------- MODULE MCConflictEngine ---------------------------
(***************************************************************************)
(* Instances of ConflictEngine under the rules of the seed (Deployment):   *)
(* SWS has authority over the address, e-Karmika over the employees, and   *)
(* e-Surakshate over the signatory.  Of the three changes every two share  *)
(* a field, and each beats one of the others: a circle of authority.       *)
(***************************************************************************)
EXTENDS ConflictEngine, Deployment

CONSTANTS bySws, byEkarmika, byEsurakshate

MCAuthoritative == [f \in Fields |-> AuthoritativeSystem(f)]

\* The seed has no fallback; here e-Karmika stands in for e-Surakshate.
MCFallback == [f \in Fields |-> IF f = signatory THEN EKARMIKA ELSE NoSystem]

MCSourceOf ==
    [e \in Events |-> CASE e = bySws      -> SWS
                        [] e = byEkarmika -> EKARMIKA
                        [] OTHER          -> ESURAKSHATE]

\* A circle: each pair shares one field.
CircleFields ==
    [e \in Events |-> CASE e = bySws      -> {address, signatory}
                        [] e = byEkarmika -> {address, employees}
                        [] OTHER          -> {signatory, employees}]
=============================================================================
