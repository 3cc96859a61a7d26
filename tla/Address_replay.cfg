CONSTANTS
    a1 = a1
    a2 = a2
    a3 = a3
    k1 = k1
    k2 = k2
    Keys = {k1, k2}
    Saves = {a1, a2, a3}
    KeyOf <- MCKeyOf
    AsDefault <- MCAsDefault
SPECIFICATION BookSpec
PROPERTY
    ReplayMovesNothing
CHECK_DEADLOCK FALSE
