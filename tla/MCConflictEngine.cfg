SPECIFICATION Spec
CONSTANTS
    SWS = SWS
    EKARMIKA = EKARMIKA
    ESURAKSHATE = ESURAKSHATE
    address = address
    employees = employees
    signatory = signatory
    licence = licence
    bySws = bySws
    byEkarmika = byEkarmika
    byEsurakshate = byEsurakshate
    NoSystem = NoSystem
    Systems = {SWS, EKARMIKA, ESURAKSHATE}
    Fields = {address, employees, signatory}
    Authoritative <- MCAuthoritative
    Fallback <- MCFallback
    Manual = {}
    Events = {bySws, byEkarmika, byEsurakshate}
    SourceOf <- MCSourceOf
    FieldsOf <- CircleFields
    Window = 0
    MaxTime = 1
    RedisFails = TRUE
INVARIANTS
    TypeOK
    OneVerdictPerPair
    VerdictsBacked
    NoCircle
    ChangeSurvives
CHECK_DEADLOCK FALSE
