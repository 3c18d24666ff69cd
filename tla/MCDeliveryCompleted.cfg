SPECIFICATION Spec
CONSTANTS
    address = address
    employees = employees
    toEkarmika = toEkarmika
    toEsurakshate = toEsurakshate
    toSws = toSws
    NoJob = NoJob
    Events = {address}
    Jobs = {toEkarmika, toEsurakshate}
    EventOf <- MCEventOf
    QueueOf <- MCQueueOf
    MaxAttempts = 3
    MaxStalls = 0
INVARIANTS
    CompletedMeansDelivered
CHECK_DEADLOCK FALSE
