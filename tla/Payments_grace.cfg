CONSTANTS
    Payments = {p1}
    MaxFailedAttempts = 1
SPECIFICATION FairSpec
PROPERTY
    AuthorizedIsNotExpired
CHECK_DEADLOCK FALSE
