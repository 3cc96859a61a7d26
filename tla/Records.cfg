CONSTANTS
    spare = spare
    d1 = d1
    t1 = t1
    r1 = r1
    s1 = s1
    o1 = o1
    o2 = o2
    o3 = o3
    c1 = c1
    c2 = c2
    w1 = w1
    w2 = w2
    q1 = q1
    Apps = {"CUSTOMER_APP", "WORKER_APP"}
    MaxPerCode = 2
    MaxFailed = 2
    MaxPerHour = 3
    MaxPerDay = 3
    Calls = {a1, a2}
    SignIns = {v1}
    MaxGeneration = 2
    Members = {m1, m2, spare}
    Changes = {x1, x2}
    Challenges = {k1, k2}
    MaxSecrets = 2
    MaxPasswords = 2
    MaxCodes = 1
    Docs = {d1}
    Requests = {r1}
    Scans = {s1, s2}
    Purges = {g1}
    CheckOf <- MCCheckOf
    Recorded = {"POLICE"}
    Transactions = {t1, t2}
    MaxChecks = 2
    Scopes <- MCScopes
    Priorities = {0}
    MaxRules = 2
    MaxMinute = 4
    Lag = 1
    Bases = {0, 1, 149, 19900, 33333}
    Rates = {0, 1800, 10000}
    ChargeLists <- MCChargeLists
    PromoOffers <- MCPromoOffers
    Orders = {o1, o2, o3}
    CustomerOf <- MCCustomerOf
    MaxLimit = 2
    Finished = {b1, b2}
    Missed = {b3}
    Series = {"A", "B"}
    Settlers = {x1, x2}
    Team = {w1, w2}
    StartTimes = {1, 2}
    MaxVersion = 8
    MaxSteps = 2
    MaxTries = 2
    MaxPrice = 2
    MaxChoices = 2
    MaxSends = 2
    MaxAttempts = 3
    LegalCodes = {"TERMS"}
    Versions = {1, 2}
    Locales = {"en", "hi"}
    Person = {q1, q2}
    LegalEnd = 1
    MaxDocuments = 3
SPECIFICATION MCSpec
INVARIANTS
    GuessesAreBounded
    StoredTokensAreNotReused
    SomebodyAdministers
    OnlyScannedIsShown
    BookableIsVetted
    LetThroughHasAccepted
    QuoteAddsUp
    GaplessNumbers
    LateClientsAreHarmless
    OneChoiceOneBooking
PROPERTIES
    AuthenticatorIsKept
    DecisionsStand
    PastIsFixed
    NotOverspent
CHECK_DEADLOCK FALSE
