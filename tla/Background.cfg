CONSTANTS
    Refunds = {r1, r2}
    Captured = 2
    MaxGatewayFailures = 1
    u1 = u1
    Messages = {n1}
    Recipient <- MCRecipient
    Channels = {"PUSH", "WHATSAPP", "IN_APP"}
    Devices = {t1, t2}
    Senders = {s1, s2}
    MaxSends = 2
    SendBatch = 2
    MaxDoubts = 1
SPECIFICATION MCSpec
INVARIANTS
    SentOnce
    NoNeedlessCopy
PROPERTIES
    ProcessedIsFinal
    ImplementsLedger
    ApprovedIsPaid
    EveryNoteSettles
CHECK_DEADLOCK FALSE
