\* One run of up to five entries over two instants, one slip, one edited row.
CONSTANTS
    user = user  author = author
    m1 = m1  m2 = m2
    NoSlip = NoSlip
    Subject = {user, author}
    Model = {m1, m2}
    Usage <- Completion
    Price <- Prices
    Tolerance = 0
    MaxTime = 1
    MaxLog = 5
    Quiet <- Events
SPECIFICATION Spec
INVARIANTS
    SpansTellTheStates
    ReconcileFindsTheSlip
    ReadingIsSound
PROPERTY TimelineOnlyExtends
CHECK_DEADLOCK FALSE
