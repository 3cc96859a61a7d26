CONSTANTS
    Payments = {p1}
    MaxFailedAttempts = 1
SPECIFICATION LostWebhookSpec
PROPERTY
    CaptureIsRecordedByJob
CHECK_DEADLOCK FALSE
