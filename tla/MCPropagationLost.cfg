SPECIFICATION Spec
CONSTANTS
    SWS = SWS
    EKARMIKA = EKARMIKA
    ESURAKSHATE = ESURAKSHATE
    address = address
    employees = employees
    signatory = signatory
    licence = licence
    seed = seed
    smith = smith
    jones = jones
    brown = brown
    many = many
    few = few
    here = here
    there = there
    elsewhere = elsewhere
    later = later
    appointed = appointed
    replaced = replaced
    renewed = renewed
    hired = hired
    relocated = relocated
    requested = requested
    surveyed = surveyed
    reported = reported
    None = None
    Systems = {SWS, EKARMIKA}
    Hub = SWS
    FromColumns = {}
    Fields = {address, employees}
    Values = {seed, many, here}
    Registries <- MCActive
    Edits = {hired}
    Requests = {requested}
    Rules <- MCRules
    Outputs <- MCOutputs
    Polled <- MCPolled
    Initial <- MCInitial
    SystemOf <- MCSystemOf
    ValuesOf <- MCValuesOf
    ServiceOf <- MCServiceOf
    MaxAttempts = 1
    Batches <- MCAll
INVARIANTS
    DirectSynced
CHECK_DEADLOCK FALSE
