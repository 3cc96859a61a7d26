CONSTANTS
    Cases = {c1}
    Mirrored = {m1}
    States = {"old", "new"}
    Dispatchers = {d1, d2}
    MaxEvents = 2
    MaxAttempts = 2
    Threshold = 2
    BatchSize = 1
SPECIFICATION OutboxSpec
INVARIANT NoChangeIsLost
CHECK_DEADLOCK FALSE
