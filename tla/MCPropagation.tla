---------------------------- MODULE MCPropagation ----------------------------
(***************************************************************************)
(* Instances of Propagation under the rules and mappings the code ships    *)
(* with (Deployment): an address goes from SWS to the departments, the     *)
(* employees from e-Karmika to SWS, the signatory from e-Surakshate to SWS *)
(* and from SWS to both, a licence from e-Surakshate to SWS.  Some desks   *)
(* and some requests change two fields at once; one is the address with    *)
(* the employees, the other the employees with the signatory.              *)
(***************************************************************************)
EXTENDS Propagation, Deployment, TLC

CONSTANTS seed, smith, jones, brown, many, few, here, there, elsewhere, later,
          appointed, replaced, renewed, hired, relocated, requested, surveyed, reported

MCRules == [x \in Systems \X Fields |-> RoutingTargets(x[1], x[2]) \cap Systems]

MCOutputs ==
    [x \in Systems \X Systems \X Fields |-> MappingOutput(x[1], x[2], x[3]) \cap Fields]

\* All are registered, or e-Karmika without an identifier, or e-Surakshate not.
MCRegistries ==
    {[s \in Systems |-> IF s = EKARMIKA THEN k ELSE IF s = ESURAKSHATE THEN r ELSE "active"] :
        <<k, r>> \in {<<"active", "active">>, <<"blank", "active">>, <<"active", "none">>}}

MCPolled == [d \in Departments |-> PolledFields(d) \cap Fields]

MCActive == {[s \in Systems |-> "active"]}

MCInitial == [f \in Fields |-> seed]

MCSystemOf ==
    [c \in Changes |-> CASE c \in {appointed, replaced, renewed} -> ESURAKSHATE
                         [] c \in {hired, reported}              -> EKARMIKA
                         [] OTHER                                -> SWS]

\* A body gives some of the fields.
Gives(body) == [f \in Fields |-> IF f \in DOMAIN body THEN body[f] ELSE None]

Bodies ==
    appointed :> Gives(signatory :> smith) @@
    replaced  :> Gives(signatory :> jones @@ address :> elsewhere) @@
    renewed   :> Gives(licence :> later) @@
    hired     :> Gives(employees :> many) @@
    reported  :> Gives(employees :> many @@ signatory :> brown) @@
    relocated :> Gives(address :> there @@ signatory :> brown) @@
    requested :> Gives(address :> here) @@
    surveyed  :> Gives(address :> here @@ employees :> few)

MCValuesOf == [c \in Changes |-> Bodies[c]]

\* Two desks that overtake each other while e-Karmika's reports; an event of
\* e-Karmika with the signatory along; both departments taught by SWS while one
\* of them changes or reports.
MCBatches ==
    {{appointed, replaced, hired}, {appointed, replaced, reported}, {surveyed, reported},
     {surveyed, relocated}, {surveyed, renewed}, {requested, hired}}

MCAll == {Changes}

MCServiceOf ==
    [r \in Requests |-> CASE r = reported -> employees
                          [] r = renewed  -> licence
                          [] OTHER        -> address]
=============================================================================
