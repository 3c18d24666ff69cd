SPECIFICATION Spec
CONSTANTS
    SWS = SWS
    EKARMIKA = EKARMIKA
    ESURAKSHATE = ESURAKSHATE
    address = address
    employees = employees
    signatory = signatory
    licence = licence
    seed = seed
    smith = smith
    jones = jones
    brown = brown
    many = many
    few = few
    here = here
    there = there
    elsewhere = elsewhere
    later = later
    appointed = appointed
    replaced = replaced
    renewed = renewed
    hired = hired
    relocated = relocated
    requested = requested
    surveyed = surveyed
    reported = reported
    None = None
    Systems = {SWS, EKARMIKA, ESURAKSHATE}
    Hub = SWS
    FromColumns = {ESURAKSHATE}
    Fields = {address, employees, signatory, licence}
    Values = {seed, smith, jones, brown, many, few, here, there, elsewhere, later}
    Registries <- MCRegistries
    Edits = {appointed, replaced, hired, relocated}
    Requests = {requested, surveyed, reported, renewed}
    Rules <- MCRules
    Outputs <- MCOutputs
    Polled <- MCPolled
    Initial <- MCInitial
    SystemOf <- MCSystemOf
    ValuesOf <- MCValuesOf
    ServiceOf <- MCServiceOf
    MaxAttempts = 2
    Batches <- MCBatches
INVARIANTS
    TypeOK
    Provenance
    DeliveredStands
PROPERTIES
    OwnFieldsKept
CHECK_DEADLOCK FALSE
