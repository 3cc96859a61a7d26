CONSTANTS
    w1 = w1
    w2 = w2
    Near <- MCNear
    Crew = {w1, w2}
    Granularity = 2
    LastSlot = 3
    Services <- MCServices
    MaxHours = 1
    MaxShifts = 2
    Payments = {p1, p2}
    MaxFailedAttempts = 1
SPECIFICATION MCSpec
SYMMETRY PaymentSymmetry
INVARIANTS
    OfferedIsBookable
    ChargedOnce
    MoneyHasAPurpose
PROPERTIES
    CaptureIsFinal
    NeverCapturesTooLate
CHECK_DEADLOCK FALSE
