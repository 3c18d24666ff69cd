SPECIFICATION Spec
CONSTANTS
    Conflicts = {c1, c2}
    Calls = {r1, r2, r3}
    Requests <- MCRequests
    None = None
INVARIANTS
    TypeOK
    RowsAgree
    ReplyMeansDone
    SoleReviewerDecides
    Unanimous
PROPERTIES
    DecidedStays
SYMMETRY Symmetry
CHECK_DEADLOCK FALSE
