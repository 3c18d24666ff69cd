SPECIFICATION FairSpec
CONSTANTS
    address = address
    employees = employees
    toEkarmika = toEkarmika
    toEsurakshate = toEsurakshate
    toSws = toSws
    NoJob = NoJob
    Events = {employees}
    Jobs = {toSws}
    EventOf <- MCEventOf
    QueueOf <- MCQueueOf
    MaxAttempts = 3
    MaxStalls = 1
INVARIANTS
    RunsBounded
PROPERTIES
    JobsEnd
    PromiseKept
CHECK_DEADLOCK FALSE
