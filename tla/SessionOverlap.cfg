SPECIFICATION Spec
CONSTANTS
    Threads = {t1, t2, t3}
    Accounts = {a}
    Kinds = {"login", "revokeAccount"}
    Nobody = Nobody
    Limit = 2
    Established = 1
    MaxRequests = 3
INVARIANT EveryRevocationBinds
