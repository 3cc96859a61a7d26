CONSTANTS
    Calls = {a1, a2}
    SignIns = {v1}
    MaxGeneration = 2
SPECIFICATION SessionsSpec
INVARIANT
    AppIsNotACopy
CHECK_DEADLOCK FALSE
