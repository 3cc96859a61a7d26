CONSTANTS
    b1 = b1
    b2 = b2
    w1 = w1
    w2 = w2
    s1 = s1
    s2 = s2
    q2 = q2
    Bookings = {b1, b2}
    Workers = {w1, w2}
    Times <- MCOneTime
    MaxCrew = 2
    CrewLimit <- MCCrewLimit
    Services = {s1, s2}
    ServiceOf <- MCServiceOf
    NoWorker = NoWorker
    Processes = {w1, w2}
    Nobody = Nobody
    Gone = Gone
    Presses = {k1}
    Incidents = {i1}
    Staff = {q1, q2}
    Pagers = {g1, g2}
    TopLevel = 2
SPECIFICATION MCSpec
INVARIANTS
    AloneWithinLease
PROPERTIES
    NobodyIsStranded
    JobKeepsRunning
    LastLevelIsPaged
CHECK_DEADLOCK FALSE
