SPECIFICATION Spec
CONSTANTS
    address = address
    expiry = expiry
    workers = workers
    old = old
    new = new
    other = other
    moved = moved
    limited = limited
    movedInSws = movedInSws
    renewed = renewed
    hourly = hourly
    requested = requested
    None = None
    Fields = {address, expiry}
    Supported = {address, expiry}
    InRawPayload = {expiry}
    Values = {old, new, other}
    Initial <- MCInitial
    Direct = {moved}
    Propagated = {movedInSws, renewed}
    FieldOf <- MCFieldOf
    ValueOf <- MCValueOf
    Polls = {hourly, requested}
    ConfirmWindow = 0
    MaxTime = 1
    MaxFailures = 0
SYMMETRY PollSymmetry
INVARIANTS
    RecordInv
    SnapshotCovered
    ConfirmedWasWritten
CHECK_DEADLOCK FALSE
