SPECIFICATION FairSpec
CONSTANTS
    address = address
    expiry = expiry
    workers = workers
    old = old
    new = new
    other = other
    moved = moved
    limited = limited
    movedInSws = movedInSws
    renewed = renewed
    hourly = hourly
    requested = requested
    None = None
    Fields = {address, workers}
    Supported = {address}
    InRawPayload = {}
    Values = {old, new, other}
    Initial <- MCInitial
    Direct = {moved, limited}
    Propagated = {movedInSws}
    FieldOf <- MCFieldOf
    ValueOf <- MCValueOf
    Polls = {hourly}
    ConfirmWindow = 0
    MaxTime = 1
    MaxFailures = 1
PROPERTIES
    ChangesNoticed
CHECK_DEADLOCK FALSE
