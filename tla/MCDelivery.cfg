SPECIFICATION Spec
CONSTANTS
    address = address
    employees = employees
    toEkarmika = toEkarmika
    toEsurakshate = toEsurakshate
    toSws = toSws
    NoJob = NoJob
    Events = {address}
    Jobs = {toEkarmika, toEsurakshate}
    EventOf <- MCEventOf
    QueueOf <- MCQueueOf
    MaxAttempts = 2
    MaxStalls = 0
INVARIANTS
    TypeOK
    SuccessBacked
    DeadLettersAreFinal
SYMMETRY Departments
PROPERTIES
    LosersRest
CHECK_DEADLOCK FALSE
