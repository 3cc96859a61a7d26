CONSTANTS
    Refunds = {r1}
    Captured = 2
    MaxGatewayFailures = 1
SPECIFICATION FairRefundsSpec
PROPERTY
    FailedIsRetried
CHECK_DEADLOCK FALSE
