SPECIFICATION Spec
CONSTANTS
    Threads = {t1, t2}
    Accounts = {a}
    Kinds = {"refresh", "rotate"}
    Nobody = Nobody
    Limit = 2
    Established = 1
    MaxRequests = 2
PROPERTY MissingIsDenied
