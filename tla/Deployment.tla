------------------------------ MODULE Deployment ------------------------------
(***************************************************************************)
(* What the code ships with: the routing rules (routing.rules.ts), what a  *)
(* poll compares (diff.service.ts), and the schema mappings and the        *)
(* Authority Matrix that the seed writes.  A field stands for its service  *)
(* type as well; the fields that no rule routes are left out.              *)
(***************************************************************************)
CONSTANTS SWS, EKARMIKA, ESURAKSHATE, address, employees, signatory, licence

\* routingRules: where a change of field f that system s made is sent.
RoutingTargets(s, f) ==
    CASE s = SWS /\ f \in {address, signatory}         -> {EKARMIKA, ESURAKSHATE}
      [] s = EKARMIKA /\ f = employees                 -> {SWS}
      [] s = ESURAKSHATE /\ f \in {signatory, licence} -> {SWS}
      [] OTHER                                         -> {}

\* The two mappings for a signatory that SWS has changed give nothing else.
SignatoryOutput == {signatory}

\* seedSchemaMappings: the fields that the active mapping for a change of f from
\* s to t gives: the whole record but the licence, for which there is none.
MappingOutput(s, t, f) ==
    IF t \notin RoutingTargets(s, f) \/ f = licence THEN {}
    ELSE IF s = SWS /\ f = signatory THEN SignatoryOutput
    ELSE {address, employees, signatory}

\* The differences with a service type that a poll of department d looks for.
PolledFields(d) ==
    {address, signatory} \cup (IF d = EKARMIKA THEN {employees} ELSE {licence})

\* seedAuthorityMatrix.  No rule has a fallback or asks for a manual review.
AuthoritativeSystem(f) ==
    CASE f = address                  -> SWS
      [] f = employees                -> EKARMIKA
      [] f \in {signatory, licence}   -> ESURAKSHATE
=============================================================================
