SPECIFICATION PartsSpec
CONSTANTS
    MaxEvents = 2
    Together = 2
    Sinks <- BothSinks
    BatchSize = 2
    MaxAttempts = 2
    MaxTries = 2
    Threshold = 2
    MaxMishaps = 2
    Threads = {t1, t2}
    Accounts = {a}
    Kinds = {"rotate", "deliver", "revokeInLoop", "purge"}
    Nobody = Nobody
    Limit = 2
    Established = 2
    MaxRequests = 3
CHECK_DEADLOCK FALSE
INVARIANTS TypeOK ClaimsBounded
PROPERTIES KeepsPromise EventsSettle StoreSettles
