CONSTANTS
    Payments = {p1}
    MaxFailedAttempts = 1
    d1 = d1
    m1 = m1
    Cases = {c1}
    Mirrored = {m1, m2}
    States = {"old", "new"}
    Dispatchers = {d1, d2}
    MaxEvents = 3
    MaxAttempts = 2
    Threshold = 2
    BatchSize = 2
    Askers = {z1, z2}
    MaxIssued = 3
SPECIFICATION MCSpec
INVARIANTS
    OneTicketUnlessSeized
    DeliveredInOrder
    
PROPERTIES
    CaptureIsRecorded
    EventsAreDelivered
    GoodTokenIsKept
CHECK_DEADLOCK FALSE
