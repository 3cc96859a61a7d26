CONSTANTS
    b1 = b1
    b2 = b2
    w1 = w1
    w2 = w2
    s1 = s1
    s2 = s2
    t1 = t1
    t2 = t2
    Bookings = {b1, b2}
    Workers = {w1, w2}
    Times <- MCTimes
    MaxCrew = 2
    CrewLimit <- MCCrewLimit
    Services = {s1, s2}
    ServiceOf <- MCServiceOf
    NoWorker = NoWorker
SPECIFICATION Spec
SYMMETRY DispatchSymmetry
INVARIANTS
    NoDoubleBooking
    OffersAreReal
PROPERTIES
    CrewIsComplete
    PayableTimeIsHeld
    NoLeakedCapacity
