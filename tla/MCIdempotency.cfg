SPECIFICATION FairSpec
CONSTANTS
    first = first
    reused = reused
    polled = polled
    p1 = p1
    f1 = f1
    f2 = f2
    NoKey = NoKey
    NoEntry = NoEntry
    Requests = {first, reused, polled}
    PrimaryKeys = {p1}
    FallbackKeys = {f1, f2}
    PrimaryOf <- MCPrimaryOf
    FallbackOf <- MCFallbackOf
INVARIANTS
    GuardInv
    HandledOnce
    AnswersBacked
PROPERTIES
    PromiseKept
    CallsEnd
    ResponsesSaved
CHECK_DEADLOCK FALSE
